--------------------------- MODULE RequestsProofs ---------------------------
(***************************************************************************)
(* Theorems about the HTTP side of the service, for any number of calls,   *)
(* players, gateway processes and servers, any base URLs, and any number   *)
(* of failures.                                                            *)
(***************************************************************************)
EXTENDS LedgerProofs, Requests

-----------------------------------------------------------------------------
(* The client *)

\* The last segment of a path, and what precedes it.
LEMMA AppendedSegment ==
    ASSUME NEW S, NEW s \in Seq(S), NEW e \in S
    PROVE  /\ Append(s, e) # <<>> /\ Last(Append(s, e)) = e
           /\ Front(Append(s, e)) = s
<1>1. /\ Append(s, e) \in Seq(S) /\ Len(Append(s, e)) = Len(s) + 1
      /\ Append(s, e)[Len(s) + 1] = e /\ Len(s) \in Nat
  OBVIOUS
<1>2. Last(Append(s, e)) = e
  BY <1>1 DEF Last
<1>3. Front(Append(s, e)) = SubSeq(Append(s, e), 1, Len(s))
  BY <1>1 DEF Front
<1>4. SubSeq(Append(s, e), 1, Len(s)) = s
  BY <1>1
<1> QED BY <1>1, <1>2, <1>3, <1>4

\* A sequence over a set is one over a larger set.
LEMMA LongerAlphabet ==
    ASSUME NEW S, NEW T, NEW s \in Seq(S)
    PROVE  s \in Seq(S \cup T)
OBVIOUS

\* A client that was given the base URL of the service, with or without a
\* slash at its end, sends its requests where the router expects them.
LEMMA ConfiguredIsRouted ==
    ASSUME NEW op, NEW url \in {Mount, Append(Mount, "")}
    PROVE  NewRequest(NewClient(url), op) = Mount \o operationPath(op)
<1>1. Mount \in Seq(STRING \cup {""})
  BY LongerAlphabet, RequestsAssumption, Zenon
<1>2. /\ Append(Mount, "") # <<>> /\ Last(Append(Mount, "")) = ""
      /\ Front(Append(Mount, "")) = Mount
  <2>1. "" \in STRING \cup {""}
    BY Zenon
  <2> QED BY <1>1, <2>1, AppendedSegment, Zenon
<1>3. Mount = <<>> \/ Last(Mount) # ""
  BY RequestsAssumption
<1>4. NewClient(url) = Append(Mount, "")
  BY <1>2, <1>3, Zenon DEF NewClient
<1> QED BY <1>2, <1>4, Zenon DEF NewRequest
-----------------------------------------------------------------------------
(* Calls *)

Ids == Players \cup {EmptyID, ColonID}

Stages == {"new", "sent", "script", "answered", "returned"}

Results == {"pending", "error", "nil", "none", "JSON200", "JSON503", "unexpected",
            "ErrUnauthorized", "ErrForbidden", "ErrNotFound", "ErrBadRequest",
            "ErrServiceUnavailable", "ErrInternalServer"}

Paths == {<<>>} \cup {NewRequest(NewClient(url), op) : url \in BaseURLs, op \in Operations}

Call == [op : Operations \cup {"none"}, ids : Seq(Ids), pair : SUBSET Nat, path : Paths,
         isConfigured : BOOLEAN, gateway : Gateways \cup {NoGateway}, joinedAt : Nat,
         cancels : Nat, failed : BOOLEAN, stage : Stages, status : Nat, result : Results,
         effect : SUBSET Nat, raced : BOOLEAN]

\* The tickets that are neither waiting nor held.
Away == {t \in DOMAIN tickets : \A d \in queue \cup Held : d.ticket # t}

\* The handler of k may run its script, with the history h and out = Away.
AtScript(k, h, out) ==
    /\ k.op \in Operations \ {"GetHealth"}
    /\ k.op # "GetQueueSize" => k.cancels < Len(k.ids)
    /\ k.op = "EnqueuePlayer" =>
         k.ids[1] \in Players /\ k.gateway \in Gateways /\ k.joinedAt \in Times
    /\ k.op = "ReportMatchAbandoned" /\ ~k.failed /\ ~k.raced =>
         \A t \in k.pair : \A i \in 1..k.cancels : h[t].player = k.ids[i] => t \in out

\* The call k is on its way to the handler, or in it.
Underway(k, h, out) ==
    /\ k.op \in Operations /\ k.status = 0
    /\ k.op \in {"EnqueuePlayer", "CancelPlayer"} => Len(k.ids) = 1 /\ k.effect = {}
    /\ k.op = "ReportMatchAbandoned" =>
         Len(k.ids) = 2 /\ \A t \in k.pair : h[t].player \in {k.ids[1], k.ids[2]}
    /\ k.stage = "sent" =>
         /\ k.effect = {} /\ k.cancels = 0
         /\ k.isConfigured => k.path = Mount \o operationPath(k.op)
    /\ k.stage = "script" => AtScript(k, h, out)

\* The answer to k agrees with what its handler did.
AnswerTrue(k) ==
    /\ k.op \in Operations
    /\ k.op = "EnqueuePlayer" => k.status \in {202, 400, 401, 404, 503}
    /\ k.op = "CancelPlayer" => k.status \in {200, 401, 404, 503}
    /\ k.op = "ReportMatchAbandoned" => k.status \in {204, 400, 404, 503}
    /\ k.op \in {"GetQueueSize", "GetHealth"} => k.status \in {200, 404, 503}
    /\ k.op \in {"EnqueuePlayer", "CancelPlayer"} /\ k.status \in {200, 202} => k.effect # {}
    /\ k.status \in {400, 401, 404} => k.effect = {}
    /\ k.status = 404 /\ k.isConfigured => k.op = "CancelPlayer"

CallTrue(k, h, out) ==
    /\ k.effect \subseteq DOMAIN h /\ k.pair \subseteq DOMAIN h
    /\ k.stage # "returned" => k.result = "pending"
    /\ k.stage \in {"sent", "script"} => Underway(k, h, out)
    /\ k.stage = "answered" => AnswerTrue(k)
    /\ k.op = "ReportMatchAbandoned" /\ k.status = 204 /\ ~k.raced => k.pair \subseteq out

\* The inductive invariant of calls.
CallInv ==
    /\ calls \in [Calls -> Call]
    /\ \A c \in Calls : CallTrue(calls[c], tickets, Away)

\* Tickets keep their player, and one that is away stays away.
Onward ==
    /\ \A t \in DOMAIN tickets : t \in DOMAIN tickets' /\ tickets'[t].player = tickets[t].player
    /\ Away \subseteq Away'

\* No step of the matchers or of a script brings back a ticket that is neither
\* waiting nor held.
LEMMA StepOnward ==
    ASSUME Base, EntriesTrue, [Next]_vars
    PROVE  Onward
<1>0. \A d \in queue \cup Held : d.ticket \in DOMAIN tickets
  BY DEF EntriesTrue, EntryTrue, Known
<1>1. ASSUME NEW p \in Players, NEW g \in Gateways, NEW t \in Times, Joined(p, g, t)
      PROVE  Onward
  <2>1. PICK e : e = [player |-> p, joinedAt |-> t, ticket |-> Len(tickets) + 1]
    OBVIOUS
  <2>2. Held' = Held /\ queue' \subseteq queue \cup {e}
    BY <1>1, <2>1, JoinedSets
  <2>3. e.ticket \notin DOMAIN tickets /\ DOMAIN tickets \subseteq DOMAIN tickets'
    BY <1>1, <2>1 DEF Joined
  <2>4. \A u \in DOMAIN tickets : tickets'[u].player = tickets[u].player
    BY <1>1 DEF Joined
  <2> QED BY <2>2, <2>3, <2>4 DEF Onward, Away
<1>2. CASE Booked /\ ~\E p \in Players, g \in Gateways, t \in Times : Joined(p, g, t)
  <2>1. (queue \cup Held)' \subseteq queue \cup Held
    BY <1>2, InHandStep
  <2>2. \A t \in DOMAIN tickets : t \in DOMAIN tickets' /\ tickets'[t].player = tickets[t].player
    BY <1>2 DEF Booked, Keeps
  <2> QED BY <2>1, <2>2 DEF Onward, Away
<1> QED BY <1>1, <1>2, StepBooked

\* A call to which nothing happens stays true.
LEMMA CallStaysTrue ==
    ASSUME NEW k \in Call, NEW h, NEW out, NEW h2, NEW out2, CallTrue(k, h, out),
           \A t \in DOMAIN h : t \in DOMAIN h2 /\ h2[t].player = h[t].player, out \subseteq out2
    PROVE  CallTrue(k, h2, out2)
<1>1. Underway(k, h, out) /\ k.pair \subseteq DOMAIN h => Underway(k, h2, out2)
  BY DEF Underway, AtScript
<1> QED BY <1>1 DEF CallTrue

\* The record of a call not made yet.
LEMMA UnusedIs ==
    /\ unused \in Call
    /\ unused.op = "none" /\ unused.pair = {} /\ unused.status = 0 /\ unused.result = "pending"
    /\ unused.stage = "new" /\ unused.effect = {} /\ unused.raced = FALSE /\ unused.cancels = 0
    /\ unused.failed = FALSE
BY DEF unused, Call, Stages, Results, Paths

\* The record of an answer.
LEMMA AnswerIs ==
    ASSUME NEW k \in Call, NEW status \in Nat
    PROVE  /\ Answer(k, status) \in Call
           /\ Answer(k, status).op = k.op /\ Answer(k, status).pair = k.pair
           /\ Answer(k, status).isConfigured = k.isConfigured
           /\ Answer(k, status).effect = k.effect /\ Answer(k, status).raced = k.raced
           /\ Answer(k, status).stage = "answered" /\ Answer(k, status).status = status
           /\ Answer(k, status).result = "pending"
<1>1. unused \in Call /\ unused.result = "pending"
  BY UnusedIs
<1> QED BY <1>1 DEF Answer, Call, Stages

\* An answer given before any script ran.
LEMMA RefusalTrue ==
    ASSUME NEW k \in Call, NEW h, NEW out, NEW status \in Nat \ {204}, CallTrue(k, h, out),
           k.stage = "sent" \/ (k.stage = "script" /\ status = 503),
           k.op = "EnqueuePlayer" => status \in {400, 401, 404, 503},
           k.op = "CancelPlayer" => status \in {401, 404, 503},
           k.op = "ReportMatchAbandoned" => status \in {400, 404, 503},
           k.op \in {"GetQueueSize", "GetHealth"} => status \in {200, 404, 503},
           status = 404 => ~k.isConfigured
    PROVE  Answer(k, status) \in Call /\ CallTrue(Answer(k, status), h, out)
<1> DEFINE a == Answer(k, status)
<1>1. Underway(k, h, out) /\ k.effect \subseteq DOMAIN h /\ k.pair \subseteq DOMAIN h
  BY DEF CallTrue
<1>2. /\ a \in Call /\ a.op = k.op /\ a.pair = k.pair /\ a.isConfigured = k.isConfigured
      /\ a.effect = k.effect /\ a.raced = k.raced
      /\ a.stage = "answered" /\ a.status = status /\ a.result = "pending"
  BY AnswerIs
<1> HIDE DEF a
<1>3. k.effect = {} \/ status = 503
  BY <1>1 DEF Underway
<1>4. k.op \in Operations
  BY <1>1 DEF Underway
<1>5. AnswerTrue(a)
  BY <1>2, <1>3, <1>4 DEF AnswerTrue
<1>6. CallTrue(a, h, out)
  BY <1>1, <1>2, <1>5 DEF CallTrue
<1> QED BY <1>2, <1>6 DEF a
-----------------------------------------------------------------------------
(* What calls do to the queue *)

\* A handler cancels for a player, or for an id that nobody in the queue has.
LEMMA CancelIsStep ==
    ASSUME Base, CallInv, NEW c \in Calls, calls[c].stage = "script",
           calls[c].op \in {"CancelPlayer", "ReportMatchAbandoned"}, RunCancel(c)
    PROVE  [Next]_vars
<1>1. calls[c] \in Call /\ AtScript(calls[c], tickets, Away)
  BY DEF CallInv, CallTrue, Underway
<1>2. Target(c) \in Ids
  BY <1>1 DEF AtScript, Target, Call
<1>3. CASE Cancel(Target(c))
  <2>1. Target(c) \in Players
    <3>1. PICK d \in queue : d.player = Target(c)
      BY <1>3 DEF Cancel, removePlayerEntries
    <3>2. d.player \in Players
      BY DEF Base, TypeInv, TypeOK, Entry
    <3> QED BY <3>1, <3>2
  <2> QED BY <1>3, <2>1 DEF Next
<1> QED BY <1>3 DEF RunCancel

\* To the matchers, every step of a call is a step of Matcher: what the
\* handlers let through is what Enqueue and Cancel may be called with.
LEMMA CallIsStep ==
    ASSUME Base, CallInv, [RequestsNext]_requestVars
    PROVE  [Next]_vars
<1>1. CASE UNCHANGED requestVars
  BY <1>1 DEF requestVars
<1>2. CASE MatcherStep
  BY <1>2 DEF MatcherStep, Next
<1>3. ASSUME NEW c \in Calls, Start(c) \/ Return(c) PROVE UNCHANGED vars
  BY <1>3 DEF Start, Send, Return
<1>4. ASSUME NEW c \in Calls, Handle(c) PROVE [Next]_vars
  <2>1. CASE EnqueueScript(c)
    <3>1. AtScript(calls[c], tickets, Away) /\ calls[c].op = "EnqueuePlayer"
      BY <2>1 DEF EnqueueScript, InScript, CallInv, CallTrue, Underway
    <3>2. calls[c].ids[1] \in Players /\ calls[c].gateway \in Gateways /\ calls[c].joinedAt \in Times
      BY <3>1 DEF AtScript
    <3> QED BY <2>1, <3>2 DEF EnqueueScript, RunEnqueue, Reply, Next
  <2>2. CASE CancelScript(c)
    BY <2>2, CancelIsStep DEF CancelScript, InScript, Reply
  <2>3. CASE AbandonScript(c)
    BY <2>3, CancelIsStep DEF AbandonScript, InScript
  <2>4. CASE ~EnqueueScript(c) /\ ~CancelScript(c) /\ ~AbandonScript(c)
    BY <1>4, <2>4, ZenonT(30) DEF Handle, NotRouted, Unauthorized, ServeEnqueue, ServeCancel,
         ServeMatchAbandoned, ServeQueueSize, ServeHealth, SizeScript, Reply, ToScript
  <2> QED BY <2>1, <2>2, <2>3, <2>4
<1> QED BY <1>1, <1>2, <1>3, <1>4 DEF RequestsNext

\* After a cancel that ran, no ticket of the player is waiting: those that
\* nobody held are away.
LEMMA CancelClears ==
    ASSUME Base, EntriesTrue, NEW c \in Calls, RunCancel(c)
    PROVE  /\ \A t \in DOMAIN tickets :
                tickets[t].player = Target(c) /\ t \notin TicketsOf(Held) => t \in Away'
           /\ Waiting(c) \subseteq DOMAIN tickets
<1> DEFINE p == Target(c)
<1>0. \A d \in queue : d.ticket \in DOMAIN tickets /\ d.player = tickets[d.ticket].player
  BY DEF EntriesTrue, EntryTrue, Known
<1>1. Waiting(c) = {d.ticket : d \in {e \in queue : e.player = p}}
  BY DEF Waiting, TicketsOf, removePlayerEntries
<1>2. queue' = {e \in queue : e.player # p} /\ DOMAIN tickets' = DOMAIN tickets /\ Held' = Held
  <2>1. CASE Cancel(p)
    <3>1. tickets \in Seq(Ticket) /\ UNCHANGED tick
      BY <2>1 DEF Base, TypeInv, TypeOK, Cancel, tickVars
    <3>2. DOMAIN tickets' = DOMAIN tickets
      BY <2>1, <3>1, EndedIs DEF Cancel
    <3> QED BY <2>1, <3>1, <3>2 DEF Cancel, cancelLua, removePlayerEntries, Held, PairOf
  <2>2. CASE Waiting(c) = {} /\ UNCHANGED vars
    <3>1. \A e \in queue : e.player # p
      BY <1>1, <2>2
    <3> QED BY <2>2, <3>1 DEF vars, Held, PairOf
  <2> QED BY <2>1, <2>2 DEF RunCancel
<1>3. ASSUME NEW t \in DOMAIN tickets, tickets[t].player = p, t \notin TicketsOf(Held)
      PROVE  t \in Away'
  <2>1. \A d \in queue' : d.ticket # t
    BY <1>0, <1>2, <1>3
  <2>2. \A d \in Held' : d.ticket # t
    BY <1>2, <1>3 DEF TicketsOf
  <2> QED BY <1>2, <2>1, <2>2 DEF Away
<1> QED BY <1>0, <1>1, <1>3

\* One turn of Abandon.
LEMMA TurnIs ==
    ASSUME NEW k \in Call, NEW fails \in BOOLEAN, NEW removed \in SUBSET Nat
    PROVE  /\ Turn(k, fails, removed) \in Call
           /\ Turn(k, fails, removed).op = k.op /\ Turn(k, fails, removed).ids = k.ids
           /\ Turn(k, fails, removed).pair = k.pair /\ Turn(k, fails, removed).stage = k.stage
           /\ Turn(k, fails, removed).status = k.status /\ Turn(k, fails, removed).result = k.result
           /\ Turn(k, fails, removed).isConfigured = k.isConfigured
           /\ Turn(k, fails, removed).cancels = k.cancels + 1
           /\ Turn(k, fails, removed).effect = k.effect \cup removed
           /\ Turn(k, fails, removed).failed = (k.failed \/ fails)
           /\ Turn(k, fails, removed).raced = (k.raced \/ k.pair \cap TicketsOf(Held) # {})
<1> DEFINE raced == k.raced \/ k.pair \cap TicketsOf(Held) # {}
           failed == k.failed \/ fails
           effect == k.effect \cup removed
<1>1. k.cancels \in Nat /\ k.effect \in SUBSET Nat
  BY DEF Call
<1>2. failed \in BOOLEAN /\ raced \in BOOLEAN
  BY Zenon
<1>3. effect \in SUBSET Nat
  BY <1>1, Zenon
<1>4. k.cancels + 1 \in Nat
  BY <1>1
<1>5. Turn(k, fails, removed) =
        [k EXCEPT !.cancels = k.cancels + 1, !.failed = failed, !.effect = effect, !.raced = raced]
  BY DEF Turn
<1> HIDE DEF raced, failed, effect
<1>6. /\ Turn(k, fails, removed) \in Call
      /\ Turn(k, fails, removed).op = k.op /\ Turn(k, fails, removed).ids = k.ids
      /\ Turn(k, fails, removed).pair = k.pair /\ Turn(k, fails, removed).stage = k.stage
      /\ Turn(k, fails, removed).status = k.status /\ Turn(k, fails, removed).result = k.result
      /\ Turn(k, fails, removed).isConfigured = k.isConfigured
      /\ Turn(k, fails, removed).cancels = k.cancels + 1
      /\ Turn(k, fails, removed).effect = effect
      /\ Turn(k, fails, removed).failed = failed
      /\ Turn(k, fails, removed).raced = raced
  BY <1>2, <1>3, <1>4, <1>5, ZenonT(30) DEF Call
<1> QED BY <1>6 DEF raced, failed, effect
-----------------------------------------------------------------------------
(* The steps of a call *)

\* A request the client sent.
LEMMA SentTrue ==
    ASSUME NEW op \in Operations, NEW ids \in Seq(Ids), NEW pair \in SUBSET Nat,
           NEW url \in BaseURLs, NEW h, NEW out, pair \subseteq DOMAIN h,
           op \in {"EnqueuePlayer", "CancelPlayer"} => Len(ids) = 1,
           op = "ReportMatchAbandoned" =>
               Len(ids) = 2 /\ \A t \in pair : h[t].player \in {ids[1], ids[2]}
    PROVE  LET k == [unused EXCEPT !.op = op, !.stage = "sent", !.ids = ids, !.pair = pair,
                        !.path = NewRequest(NewClient(url), op),
                        !.isConfigured = url \in {Mount, Append(Mount, "")}]
           IN  k \in Call /\ CallTrue(k, h, out)
<1> DEFINE path == NewRequest(NewClient(url), op)
           isConfigured == url \in {Mount, Append(Mount, "")}
           k == [unused EXCEPT !.op = op, !.stage = "sent", !.ids = ids, !.pair = pair,
                               !.path = path, !.isConfigured = isConfigured]
<1>1. isConfigured => path = Mount \o operationPath(op)
  BY ConfiguredIsRouted, Zenon
<1>2. isConfigured \in BOOLEAN
  OBVIOUS
<1>3. path \in Paths
  BY DEF Paths
<1>4. /\ unused \in Call
      /\ unused.status = 0 /\ unused.result = "pending" /\ unused.effect = {} /\ unused.cancels = 0
  BY UnusedIs
<1> HIDE DEF isConfigured, path
<1>5. k \in Call
  BY <1>2, <1>3, <1>4 DEF Call, Stages
<1>6. /\ k.op = op /\ k.stage = "sent" /\ k.ids = ids /\ k.pair = pair /\ k.path = path
      /\ k.isConfigured = isConfigured /\ k.status = 0 /\ k.result = "pending" /\ k.effect = {}
      /\ k.cancels = 0
  BY <1>4 DEF Call
<1> HIDE DEF k
<1>7. Underway(k, h, out)
  BY <1>1, <1>6 DEF Underway
<1>8. CallTrue(k, h, out)
  BY <1>6, <1>7 DEF CallTrue
<1> QED BY <1>5, <1>8 DEF k, path, isConfigured

\* A request that passed the checks of its handler.
LEMMA AcceptedTrue ==
    ASSUME NEW k \in Call, NEW h, NEW out, CallTrue(k, h, out), k.stage = "sent",
           NEW gateway \in Gateways \cup {NoGateway}, NEW joinedAt \in Nat,
           k.op \in Operations \ {"GetHealth"},
           k.op = "EnqueuePlayer" =>
               k.ids[1] \in Players /\ gateway \in Gateways /\ joinedAt \in Times
    PROVE  LET n == [k EXCEPT !.stage = "script", !.joinedAt = joinedAt, !.gateway = gateway]
           IN  n \in Call /\ CallTrue(n, h, out)
<1> DEFINE n == [k EXCEPT !.stage = "script", !.joinedAt = joinedAt, !.gateway = gateway]
<1>1. /\ n \in Call /\ n.stage = "script" /\ n.joinedAt = joinedAt /\ n.gateway = gateway
      /\ n.op = k.op /\ n.ids = k.ids /\ n.pair = k.pair /\ n.status = k.status
      /\ n.result = k.result /\ n.effect = k.effect /\ n.cancels = k.cancels
      /\ n.failed = k.failed /\ n.raced = k.raced
  BY DEF Call, Stages
<1> HIDE DEF n
<1>2. Underway(k, h, out) /\ k.pair \subseteq DOMAIN h /\ k.effect \subseteq DOMAIN h
      /\ k.result = "pending"
  BY DEF CallTrue
<1>3. k.cancels = 0
  BY <1>2 DEF Underway
<1>4. k.op # "GetQueueSize" => k.cancels < Len(k.ids)
  <2>1. CASE k.op \in {"EnqueuePlayer", "CancelPlayer"}
    BY <1>2, <1>3, <2>1 DEF Underway
  <2>2. CASE k.op = "ReportMatchAbandoned"
    <3>1. Len(k.ids) = 2
      BY <1>2, <2>2 DEF Underway
    <3> QED BY <1>3, <3>1
  <2> QED BY <2>1, <2>2 DEF Operations
<1>5. AtScript(n, h, out)
  BY <1>1, <1>3, <1>4 DEF AtScript
<1>6. Underway(n, h, out)
  BY <1>1, <1>2, <1>5 DEF Underway
<1>7. CallTrue(n, h, out)
  BY <1>1, <1>2, <1>6 DEF CallTrue, Underway
<1> QED BY <1>1, <1>7 DEF n

\* The record of a call with its effect.
LEMMA EffectIs ==
    ASSUME NEW a \in Call, NEW effect \in SUBSET Nat
    PROVE  LET n == [a EXCEPT !.effect = effect]
           IN  /\ n \in Call /\ n.op = a.op /\ n.pair = a.pair /\ n.effect = effect
               /\ n.stage = a.stage /\ n.status = a.status /\ n.result = a.result
BY DEF Call

\* The answer of a script that ran: the effect is what it did.
LEMMA EffectTrue ==
    ASSUME NEW k \in Call, NEW h, NEW out, CallTrue(k, h, out), k.stage = "script",
           NEW effect \in SUBSET Nat, effect \subseteq DOMAIN h, NEW status \in Nat,
           \/ k.op = "EnqueuePlayer" /\ status \in {202, 503} /\ effect # {}
           \/ k.op = "CancelPlayer" /\ status \in {IF effect = {} THEN 404 ELSE 200, 503}
    PROVE  LET n == [Answer(k, status) EXCEPT !.effect = effect]
           IN  n \in Call /\ CallTrue(n, h, out)
<1> DEFINE a == Answer(k, status)
           n == [a EXCEPT !.effect = effect]
<1>1. /\ a \in Call /\ a.op = k.op /\ a.pair = k.pair
      /\ a.stage = "answered" /\ a.status = status /\ a.result = "pending"
  BY AnswerIs
<1> HIDE DEF a
<1>2. /\ n \in Call /\ n.op = k.op /\ n.pair = k.pair /\ n.effect = effect
      /\ n.stage = "answered" /\ n.status = status /\ n.result = "pending"
  BY <1>1, EffectIs
<1> HIDE DEF n
<1>3. k.pair \subseteq DOMAIN h
  BY DEF CallTrue
<1>4. AnswerTrue(n)
  BY <1>2 DEF AnswerTrue, Operations
<1>5. CallTrue(n, h, out)
  BY <1>2, <1>3, <1>4 DEF CallTrue
<1> QED BY <1>2, <1>5 DEF n, a

\* A turn of Abandon that ran its cancel, or failed: when the last one is
\* over without a failure, and nobody held the pair, the pair is away.
LEMMA TurnTrue ==
    ASSUME NEW k \in Call, NEW h, NEW out, CallTrue(k, h, out), k.stage = "script",
           k.op = "ReportMatchAbandoned", NEW fails \in BOOLEAN,
           NEW removed \in SUBSET Nat, removed \subseteq DOMAIN h,
           fails \/ \A t \in k.pair : /\ h[t].player = k.ids[k.cancels + 1]
                                      /\ t \notin TicketsOf(Held)
                                      => t \in out
    PROVE  Cancelled(k, fails, removed) \in Call /\ CallTrue(Cancelled(k, fails, removed), h, out)
<1> DEFINE n == Turn(k, fails, removed)
           failed == k.failed \/ fails
           raced == k.raced \/ k.pair \cap TicketsOf(Held) # {}
<1>1. /\ n \in Call /\ n.op = k.op /\ n.ids = k.ids /\ n.pair = k.pair /\ n.stage = k.stage
      /\ n.status = k.status /\ n.result = k.result /\ n.isConfigured = k.isConfigured
      /\ n.cancels = k.cancels + 1 /\ n.effect = k.effect \cup removed
      /\ n.failed = failed /\ n.raced = raced
  BY TurnIs
<1>2. /\ Underway(k, h, out) /\ k.pair \subseteq DOMAIN h /\ k.effect \subseteq DOMAIN h
      /\ k.result = "pending"
  BY DEF CallTrue
<1>3. /\ k.cancels \in Nat /\ k.cancels < 2 /\ Len(k.ids) = 2 /\ k.status = 0
      /\ \A t \in k.pair : h[t].player \in {k.ids[1], k.ids[2]}
  BY <1>2 DEF Underway, AtScript, Call
<1>4. ~failed /\ ~raced =>
        \A t \in k.pair : \A i \in 1..(k.cancels + 1) : h[t].player = k.ids[i] => t \in out
  <2> SUFFICES ASSUME ~failed, ~raced, NEW t \in k.pair, NEW i \in 1..(k.cancels + 1),
                      h[t].player = k.ids[i]
               PROVE  t \in out
    OBVIOUS
  <2>1. ~k.failed /\ ~fails /\ ~k.raced /\ t \notin TicketsOf(Held)
    BY Zenon
  <2>2. CASE i = k.cancels + 1
    BY <2>1, <2>2
  <2>3. CASE i # k.cancels + 1
    <3>1. i \in 1..k.cancels
      BY <1>3, <2>3
    <3> QED BY <1>2, <2>1, <3>1 DEF Underway, AtScript
  <2> QED BY <2>2, <2>3
<1> HIDE DEF n, failed, raced
<1>5. n.effect \subseteq DOMAIN h /\ n.pair \subseteq DOMAIN h /\ n.result = "pending"
  BY <1>1, <1>2
<1>6. CASE k.cancels + 1 < Len(k.ids)
  <2>1. Cancelled(k, fails, removed) = n
    BY <1>6 DEF Cancelled, n
  <2>2. AtScript(n, h, out)
    BY <1>1, <1>4, <1>6 DEF AtScript, Operations
  <2>3. Underway(n, h, out)
    BY <1>1, <1>3, <2>2 DEF Underway, Operations
  <2>4. CallTrue(n, h, out)
    BY <1>1, <1>3, <1>5, <2>3 DEF CallTrue
  <2> QED BY <1>1, <2>1, <2>4
<1>7. CASE ~(k.cancels + 1 < Len(k.ids))
  <2>0. k.cancels + 1 = 2
    BY <1>3, <1>7
  <2>1. PICK status \in {204, 503} : /\ Cancelled(k, fails, removed) = Answer(n, status)
                                     /\ status = 204 => ~failed
    BY <1>7 DEF Cancelled, n, failed
  <2> DEFINE a == Answer(n, status)
  <2>2. /\ a \in Call /\ a.op = k.op /\ a.pair = k.pair /\ a.effect = n.effect /\ a.raced = raced
        /\ a.stage = "answered" /\ a.status = status /\ a.result = "pending"
    BY <1>1, AnswerIs
  <2> HIDE DEF a
  <2>3. AnswerTrue(a)
    BY <2>2 DEF AnswerTrue, Operations
  <2>4. status = 204 /\ ~raced => k.pair \subseteq out
    <3> SUFFICES ASSUME status = 204, ~raced, NEW t \in k.pair PROVE t \in out
      OBVIOUS
    <3>1. PICK i \in {1, 2} : h[t].player = k.ids[i]
      BY <1>3
    <3>2. i \in 1..(k.cancels + 1)
      BY <2>0
    <3> QED BY <1>4, <2>1, <3>1, <3>2
  <2>5. CallTrue(a, h, out)
    BY <1>1, <1>5, <2>2, <2>3, <2>4 DEF CallTrue
  <2> QED BY <2>1, <2>2, <2>5 DEF a
<1> QED BY <1>6, <1>7

\* What Return leaves of a record b, and what it keeps of a reported call k.
Finished(b, r) == [b EXCEPT !.stage = "returned", !.result = r]

Reported(k) ==
    [unused EXCEPT !.op = k.op, !.pair = k.pair, !.raced = k.raced, !.status = k.status]

\* What Return does, with the result of the answer or, for lost answers, an error.
LEMMA ReturnIs ==
    ASSUME NEW c \in Calls, Return(c), NEW k, k = calls[c]
    PROVE  \E r \in {ResultOf(k.op, ParseResponse(k.op, k.status)), "error"} :
              calls' = [calls EXCEPT ![c] =
                           Finished(IF k.status = 204 THEN Reported(k) ELSE unused, r)]
BY Zenon DEF Return, Finished, Reported

\* The record of a call that returned.
LEMMA ReturnedIs ==
    ASSUME NEW b \in Call, NEW r \in Results
    PROVE  LET n == Finished(b, r)
           IN  /\ n \in Call /\ n.stage = "returned" /\ n.result = r /\ n.effect = b.effect
               /\ n.op = b.op /\ n.pair = b.pair /\ n.raced = b.raced /\ n.status = b.status
BY DEF Finished, Call, Stages

\* A call that returned.
LEMMA ReturnedTrue ==
    ASSUME NEW k \in Call, NEW h, NEW out, CallTrue(k, h, out), k.stage = "answered",
           NEW r \in Results
    PROVE  LET n == Finished(IF k.status = 204 THEN Reported(k) ELSE unused, r)
           IN  n \in Call /\ CallTrue(n, h, out) /\ n.result = r
<1>1. /\ unused \in Call /\ unused.effect = {} /\ unused.op = "none" /\ unused.pair = {}
  BY UnusedIs
<1>2. PICK q : q = Reported(k)
  OBVIOUS
<1>3. /\ q \in Call /\ q.op = k.op /\ q.pair = k.pair /\ q.raced = k.raced
      /\ q.status = k.status /\ q.effect = {}
  BY <1>1, <1>2 DEF Reported, Call
<1>4. PICK b : b = IF k.status = 204 THEN q ELSE unused
  OBVIOUS
<1>5. b \in Call /\ b.effect = {} /\ ((b.op = "none" /\ b.pair = {}) \/ b = q)
  BY <1>1, <1>3, <1>4
<1>6. PICK n : n = Finished(b, r)
  OBVIOUS
<1>7. /\ n \in Call /\ n.stage = "returned" /\ n.result = r /\ n.effect = b.effect /\ n.op = b.op
      /\ n.pair = b.pair /\ n.raced = b.raced /\ n.status = b.status
  BY <1>5, <1>6, ReturnedIs
<1>8. CallTrue(n, h, out)
  BY <1>3, <1>5, <1>7 DEF CallTrue
<1> QED BY <1>2, <1>4, <1>6, <1>7, <1>8

\* What the client makes of a response.
LEMMA ResultKnown ==
    ASSUME NEW k \in Call, AnswerTrue(k)
    PROVE  /\ ResultOf(k.op, ParseResponse(k.op, k.status)) \in Results
           /\ IsTrue(k, ResultOf(k.op, ParseResponse(k.op, k.status)))
<1> DEFINE r == ResultOf(k.op, ParseResponse(k.op, k.status))
<1>1. CASE k.op \in {"GetQueueSize", "GetHealth"}
  <2>1. r \in {"JSON200", "JSON503", "none"}
    BY <1>1 DEF ResultOf, ParseResponse, Response
  <2> QED BY <2>1 DEF Results, IsTrue
<1>2. CASE k.op \in {"EnqueuePlayer", "CancelPlayer", "ReportMatchAbandoned"}
  <2>1. r = IF k.status = successStatus(k.op) THEN "nil" ELSE newStatusError(k.status)
    BY <1>2 DEF ResultOf, ParseResponse, Response
  <2>2. \/ k.status = successStatus(k.op)
        \/ k.status \in {400, 401, 404, 503}
    BY <1>2 DEF AnswerTrue, successStatus
  <2>3. /\ newStatusError(400) = "ErrBadRequest" /\ newStatusError(401) = "ErrUnauthorized"
        /\ newStatusError(404) = "ErrNotFound" /\ newStatusError(503) = "ErrServiceUnavailable"
    BY DEF newStatusError
  <2>4. k.status = successStatus(k.op) /\ k.op # "ReportMatchAbandoned" => k.effect # {}
    BY <1>2 DEF AnswerTrue, successStatus
  <2>5. \/ r = "nil" /\ k.status = successStatus(k.op)
        \/ r = "ErrBadRequest" /\ k.status = 400
        \/ r = "ErrUnauthorized" /\ k.status = 401
        \/ r = "ErrNotFound" /\ k.status = 404
        \/ r = "ErrServiceUnavailable"
    BY <2>1, <2>2, <2>3
  <2> HIDE DEF r
  <2>6. r \in Results
    BY <2>5 DEF Results
  <2>7. IsTrue(k, r)
    BY <2>4, <2>5 DEF IsTrue, AnswerTrue
  <2> QED BY <2>6, <2>7 DEF r
<1> QED BY <1>1, <1>2 DEF AnswerTrue, Operations

\* Every step keeps all calls true.
LEMMA CallStep ==
    ASSUME Base, EntriesTrue, CallInv, [RequestsNext]_requestVars
    PROVE  CallInv'
<1>0. Onward
  BY CallIsStep, StepOnward
<1>1. ASSUME NEW c \in Calls, NEW k \in Call, CallTrue(k, tickets', Away'),
             calls' = [calls EXCEPT ![c] = k]
      PROVE  CallInv'
  <2>1. calls' \in [Calls -> Call]
    BY <1>1 DEF CallInv
  <2>2. ASSUME NEW d \in Calls PROVE CallTrue(calls'[d], tickets', Away')
    <3>1. CASE d = c
      BY <1>1, <3>1 DEF CallInv
    <3>2. CASE d # c
      <4>1. calls'[d] = calls[d] /\ calls[d] \in Call /\ CallTrue(calls[d], tickets, Away)
        BY <1>1, <3>2 DEF CallInv
      <4> QED BY <1>0, <4>1, CallStaysTrue DEF Onward
    <3> QED BY <3>1, <3>2
  <2> QED BY <2>1, <2>2 DEF CallInv
<1>2. CASE UNCHANGED calls
  <2>1. ASSUME NEW d \in Calls PROVE CallTrue(calls[d], tickets', Away')
    <3>1. calls[d] \in Call /\ CallTrue(calls[d], tickets, Away)
      BY DEF CallInv
    <3> QED BY <1>0, <3>1, CallStaysTrue DEF Onward
  <2> QED BY <1>2, <2>1 DEF CallInv
<1>3. ASSUME NEW c \in Calls, NEW k \in Call, UNCHANGED vars, CallTrue(k, tickets, Away),
             calls' = [calls EXCEPT ![c] = k]
      PROVE  CallInv'
  <2>1. tickets' = tickets /\ Away' = Away
    BY <1>3 DEF vars, Away, Held, PairOf
  <2> QED BY <1>1, <1>3, <2>1
<1>4. ASSUME NEW c \in Calls, NEW status \in Nat \ {204}, Reply(c, status),
             calls[c].stage = "sent" \/ (calls[c].stage = "script" /\ status = 503),
             calls[c].op = "EnqueuePlayer" => status \in {400, 401, 404, 503},
             calls[c].op = "CancelPlayer" => status \in {401, 404, 503},
             calls[c].op = "ReportMatchAbandoned" => status \in {400, 404, 503},
             calls[c].op \in {"GetQueueSize", "GetHealth"} => status \in {200, 404, 503},
             status = 404 => ~Routed(c)
      PROVE  CallInv'
  <2>1. calls[c] \in Call /\ CallTrue(calls[c], tickets, Away)
    BY DEF CallInv
  <2>2. /\ Answer(calls[c], status) \in Call
        /\ CallTrue(Answer(calls[c], status), tickets, Away)
    <3>1. PICK k : k = calls[c]
      OBVIOUS
    <3>2. status = 404 => ~k.isConfigured
      <4>1. calls[c].stage = "sent" => Underway(calls[c], tickets, Away)
        BY <2>1 DEF CallTrue
      <4>2. calls[c].stage = "sent" /\ calls[c].isConfigured => Routed(c)
        BY <4>1, Zenon DEF Underway, Routed
      <4> QED BY <1>4, <3>1, <4>2
    <3>3. k \in Call /\ CallTrue(k, tickets, Away)
      BY <2>1, <3>1
    <3>4. /\ k.stage = "sent" \/ (k.stage = "script" /\ status = 503)
          /\ k.op = "EnqueuePlayer" => status \in {400, 401, 404, 503}
          /\ k.op = "CancelPlayer" => status \in {401, 404, 503}
          /\ k.op = "ReportMatchAbandoned" => status \in {400, 404, 503}
          /\ k.op \in {"GetQueueSize", "GetHealth"} => status \in {200, 404, 503}
      BY <1>4, <3>1
    <3>5. Answer(k, status) \in Call /\ CallTrue(Answer(k, status), tickets, Away)
      BY <3>2, <3>3, <3>4, RefusalTrue
    <3> QED BY <3>1, <3>5
  <2>3. calls' = [calls EXCEPT ![c] = Answer(calls[c], status)] /\ UNCHANGED vars
    BY <1>4 DEF Reply, Answered
  <2> QED BY <1>3, <2>2, <2>3
<1>5. ASSUME NEW c \in Calls, NEW gateway \in Gateways \cup {NoGateway}, NEW joinedAt \in Nat,
             calls[c].stage = "sent", calls[c].op \in Operations \ {"GetHealth"},
             calls[c].op = "EnqueuePlayer" =>
               calls[c].ids[1] \in Players /\ gateway \in Gateways /\ joinedAt \in Times,
             calls' = [calls EXCEPT ![c].stage = "script", ![c].joinedAt = joinedAt,
                                    ![c].gateway = gateway],
             UNCHANGED vars
      PROVE  CallInv'
  <2>0. calls[c] \in Call /\ CallTrue(calls[c], tickets, Away)
    BY DEF CallInv
  <2> DEFINE n == [calls[c] EXCEPT !.stage = "script", !.joinedAt = joinedAt, !.gateway = gateway]
  <2>1. n \in Call /\ CallTrue(n, tickets, Away)
    BY <1>5, <2>0, AcceptedTrue
  <2>2. calls' = [calls EXCEPT ![c] = n]
    BY <1>5 DEF CallInv
  <2> HIDE DEF n
  <2> QED BY <1>3, <1>5, <2>1, <2>2
<1>6. ASSUME NEW c \in Calls, ToScript(c), calls[c].stage = "sent",
             calls[c].op \in {"CancelPlayer", "ReportMatchAbandoned", "GetQueueSize"}
      PROVE  CallInv'
  <2>1. calls[c] \in Call
    BY DEF CallInv
  <2>2. calls[c].gateway \in Gateways \cup {NoGateway} /\ calls[c].joinedAt \in Nat
    BY <2>1 DEF Call
  <2>3. calls' = [calls EXCEPT ![c].stage = "script", ![c].joinedAt = calls[c].joinedAt,
                               ![c].gateway = calls[c].gateway]
    BY <1>6, <2>1 DEF ToScript, CallInv, Call
  <2> QED BY <1>5, <1>6, <2>2, <2>3 DEF ToScript, Operations
<1>7. ASSUME NEW c \in Calls, Start(c) PROVE CallInv'
  <2>0. UNCHANGED vars
    BY <1>7 DEF Start, Send
  <2>1. ASSUME NEW op \in Operations, NEW ids \in Seq(Ids), NEW pair \in SUBSET Nat,
               Send(c, op, ids, pair), pair \subseteq DOMAIN tickets,
               op \in {"EnqueuePlayer", "CancelPlayer"} => Len(ids) = 1,
               op = "ReportMatchAbandoned" =>
                   Len(ids) = 2 /\ \A t \in pair : tickets[t].player \in {ids[1], ids[2]}
        PROVE  CallInv'
    <3>1. PICK url \in BaseURLs :
            calls' = [calls EXCEPT ![c] = [unused EXCEPT
                        !.op = op, !.stage = "sent", !.ids = ids, !.pair = pair,
                        !.path = NewRequest(NewClient(url), op),
                        !.isConfigured = url \in {Mount, Append(Mount, "")}]]
      BY <2>1, Zenon DEF Send
    <3>2. PICK k : k = [unused EXCEPT
                        !.op = op, !.stage = "sent", !.ids = ids, !.pair = pair,
                        !.path = NewRequest(NewClient(url), op),
                        !.isConfigured = url \in {Mount, Append(Mount, "")}]
      BY Zenon
    <3>3. k \in Call /\ CallTrue(k, tickets, Away)
      BY <2>1, <3>2, SentTrue, Zenon
    <3>4. calls' = [calls EXCEPT ![c] = k]
      BY <3>1, <3>2, Zenon
    <3> QED BY <1>3, <2>0, <3>3, <3>4
  <2>2. ASSUME NEW op \in {"EnqueuePlayer", "CancelPlayer"}, NEW id \in Ids, Send(c, op, <<id>>, {})
        PROVE  CallInv'
    <3>1. <<id>> \in Seq(Ids) /\ Len(<<id>>) = 1 /\ {} \in SUBSET Nat
      OBVIOUS
    <3> QED BY <2>1, <2>2, <3>1 DEF Operations
  <2>3. ASSUME NEW op \in {"GetQueueSize", "GetHealth"}, Send(c, op, <<>>, {}) PROVE CallInv'
    <3>1. <<>> \in Seq(Ids) /\ {} \in SUBSET Nat
      OBVIOUS
    <3> QED BY <2>1, <2>3, <3>1 DEF Operations
  <2>4. ASSUME NEW m \in topic,
               Send(c, "ReportMatchAbandoned",
                    <<m.pair[1].player, m.pair[2].player>>, TicketsOf(EntriesOf({m})))
        PROVE  CallInv'
    <3> DEFINE ids == <<m.pair[1].player, m.pair[2].player>>
               pair == TicketsOf(EntriesOf({m}))
    <3>1. m.pair[1] \in Entry /\ m.pair[2] \in Entry
      BY DEF Base, TypeInv, TypeOK, Messages
    <3>2. ids \in Seq(Ids) /\ Len(ids) = 2 /\ ids[1] = m.pair[1].player /\ ids[2] = m.pair[2].player
      BY <3>1 DEF Entry, Ids
    <3>3. EntryTrue(m.pair[1]) /\ EntryTrue(m.pair[2])
      BY InViewIs DEF EntriesTrue, Sent
    <3>4. \A t : t \in pair <=> t = m.pair[1].ticket \/ t = m.pair[2].ticket
      BY InViewIs DEF TicketsOf
    <3>5. pair \subseteq DOMAIN tickets /\ \A t \in pair : tickets[t].player \in {ids[1], ids[2]}
      BY <3>2, <3>3, <3>4 DEF EntryTrue
    <3>6. pair \in SUBSET Nat
      BY <3>1, <3>4 DEF Entry
    <3> HIDE DEF ids, pair
    <3>7. Send(c, "ReportMatchAbandoned", ids, pair)
      BY <2>4 DEF ids, pair
    <3>8. "ReportMatchAbandoned" \in Operations
      BY DEF Operations
    <3> QED BY <2>1, <3>2, <3>5, <3>6, <3>7, <3>8
  <2> QED BY <1>7, <2>2, <2>3, <2>4 DEF Start, Ids
<1>8. ASSUME NEW c \in Calls, Return(c) PROVE CallInv'
  <2>1. PICK k : k = calls[c] /\ k \in Call /\ CallTrue(k, tickets, Away) /\ k.stage = "answered"
    BY <1>8 DEF CallInv, Return
  <2>2. ResultOf(k.op, ParseResponse(k.op, k.status)) \in Results /\ "error" \in Results
    BY <2>1, ResultKnown DEF CallTrue, Results
  <2>3. PICK r \in Results :
          calls' = [calls EXCEPT ![c] =
                       Finished(IF k.status = 204 THEN Reported(k) ELSE unused, r)]
    BY <1>8, <2>1, <2>2, ReturnIs
  <2>4. PICK n : n = Finished(IF k.status = 204 THEN Reported(k) ELSE unused, r)
    OBVIOUS
  <2>5. n \in Call /\ CallTrue(n, tickets, Away)
    BY <2>1, <2>4, ReturnedTrue
  <2>6. calls' = [calls EXCEPT ![c] = n] /\ UNCHANGED vars
    BY <1>8, <2>3, <2>4, Zenon DEF Return
  <2> QED BY <1>3, <2>5, <2>6
<1>9. ASSUME NEW c \in Calls, Handle(c) PROVE CallInv'
  <2>0. calls[c] \in Call /\ CallTrue(calls[c], tickets, Away)
    BY DEF CallInv
  <2>1. CASE NotRouted(c)
    <3>1. calls[c].op \in Operations
      BY <2>0, <2>1 DEF NotRouted, CallTrue, Underway
    <3> QED BY <1>4, <2>1, <3>1 DEF NotRouted
  <2>2. CASE Unauthorized(c)
    BY <1>4, <2>2 DEF Unauthorized, Arrives
  <2>3. CASE ServeEnqueue(c)
    <3>1. calls[c].stage = "sent" /\ calls[c].op = "EnqueuePlayer"
      BY <2>3 DEF ServeEnqueue, Arrives
    <3>2. CASE Reply(c, 400) \/ Reply(c, 503)
      BY <1>4, <3>1, <3>2
    <3>3. CASE ~Reply(c, 400) /\ ~Reply(c, 503)
      <4>1. PICK req \in EnqueueRequest, now \in Times :
              /\ IsEnqueueRequest(req) /\ validMemberPlayerID(calls[c].ids[1])
              /\ calls' = [calls EXCEPT ![c].stage = "script", ![c].joinedAt = now,
                                        ![c].gateway = req.gatewayInstanceID]
              /\ UNCHANGED vars
        BY <2>3, <3>3 DEF ServeEnqueue
      <4>2. req.gatewayInstanceID \in Gateways /\ now \in Nat
        BY <4>1, MatcherAssumption DEF EnqueueRequest, IsEnqueueRequest
      <4>3. calls[c].ids[1] \in Players
        <5>1. Len(calls[c].ids) = 1 /\ calls[c].ids \in Seq(Ids)
          BY <2>0, <3>1 DEF CallTrue, Underway, Call
        <5>2. calls[c].ids[1] \in Ids
          BY <5>1
        <5> QED BY <4>1, <5>2 DEF Ids, validMemberPlayerID
      <4>4. calls[c].op \in Operations \ {"GetHealth"}
        BY <3>1 DEF Operations
      <4> QED BY <1>5, <3>1, <4>1, <4>2, <4>3, <4>4
    <3> QED BY <3>2, <3>3
  <2>4. CASE ServeCancel(c)
    <3>1. calls[c].stage = "sent" /\ calls[c].op = "CancelPlayer"
      BY <2>4 DEF ServeCancel, Arrives
    <3> QED BY <1>4, <1>6, <2>4, <3>1 DEF ServeCancel
  <2>5. CASE ServeMatchAbandoned(c)
    <3>1. calls[c].stage = "sent" /\ calls[c].op = "ReportMatchAbandoned"
      BY <2>5 DEF ServeMatchAbandoned, Arrives
    <3> QED BY <1>4, <1>6, <2>5, <3>1 DEF ServeMatchAbandoned
  <2>6. CASE ServeQueueSize(c)
    BY <1>6, <2>6 DEF ServeQueueSize, Arrives
  <2>7. CASE ServeHealth(c)
    <3>1. calls[c].stage = "sent" /\ calls[c].op = "GetHealth"
      BY <2>7 DEF ServeHealth, Arrives
    <3>2. Reply(c, 503) \/ Reply(c, 200)
      BY <2>7 DEF ServeHealth
    <3> QED BY <1>4, <3>1, <3>2
  <2>8. CASE EnqueueScript(c)
    <3>1. calls[c].stage = "script" /\ calls[c].op = "EnqueuePlayer"
      BY <2>8 DEF EnqueueScript, InScript
    <3>2. CASE Reply(c, 503)
      BY <1>4, <3>1, <3>2
    <3>3. CASE ~Reply(c, 503)
      <4>1. PICK status \in {202, 503} :
              calls' = [Answered(c, status) EXCEPT ![c].effect = {Len(tickets) + 1}]
        BY <2>8, <3>3 DEF EnqueueScript
      <4>2. AtScript(calls[c], tickets, Away) /\ RunEnqueue(c)
        BY <2>0, <2>8, <3>1, <3>3 DEF CallTrue, Underway, EnqueueScript
      <4>3. Joined(calls[c].ids[1], calls[c].gateway, calls[c].joinedAt)
        BY <3>1, <4>2, EnqueueEffect DEF AtScript, RunEnqueue
      <4> DEFINE e == {Len(tickets) + 1}
                 n == [Answer(calls[c], status) EXCEPT !.effect = e]
      <4>4. e \subseteq DOMAIN tickets' /\ e # {} /\ e \in SUBSET Nat
        <5>1. Len(tickets) \in Nat
          BY DEF Base, TypeInv, TypeOK
        <5> QED BY <4>3, <5>1 DEF Joined
      <4>5. CallTrue(calls[c], tickets', Away')
        BY <1>0, <2>0, CallStaysTrue DEF Onward
      <4> HIDE DEF e
      <4>6. n \in Call /\ CallTrue(n, tickets', Away')
        BY <2>0, <3>1, <4>4, <4>5, EffectTrue
      <4>7. calls' = [calls EXCEPT ![c] = n]
        <5>1. Answer(calls[c], status) \in Call
          BY <2>0, <4>1, AnswerIs
        <5>2. Answered(c, status) = [calls EXCEPT ![c] = Answer(calls[c], status)]
          BY DEF Answered
        <5>3. calls \in [Calls -> Call]
          BY DEF CallInv
        <5>4. PICK g : g = [calls EXCEPT ![c] = Answer(calls[c], status)]
          BY Zenon
        <5>5. g \in [Calls -> Call] /\ g[c] = Answer(calls[c], status)
          BY <5>1, <5>3, <5>4
        <5>6. calls' = [g EXCEPT ![c].effect = e]
          BY <4>1, <5>2, <5>4, Zenon DEF e
        <5>7. calls' = [g EXCEPT ![c] = [g[c] EXCEPT !.effect = e]]
          BY <5>6
        <5>8. calls' = [g EXCEPT ![c] = n]
          BY <5>5, <5>7, Zenon
        <5> HIDE DEF n
        <5> QED BY <5>3, <5>4, <5>8
      <4> HIDE DEF n
      <4> QED BY <1>1, <4>6, <4>7
    <3> QED BY <3>2, <3>3
  <2>9. CASE CancelScript(c)
    <3>1. calls[c].stage = "script" /\ calls[c].op = "CancelPlayer"
      BY <2>9 DEF CancelScript, InScript
    <3>2. CASE Reply(c, 503)
      BY <1>4, <3>1, <3>2
    <3>3. CASE ~Reply(c, 503)
      <4>1. PICK status \in {IF Waiting(c) = {} THEN 404 ELSE 200, 503} :
              calls' = [Answered(c, status) EXCEPT ![c].effect = Waiting(c)]
        BY <2>9, <3>3 DEF CancelScript
      <4>2. RunCancel(c)
        BY <2>9, <3>3 DEF CancelScript
      <4> DEFINE e == Waiting(c)
                 n == [Answer(calls[c], status) EXCEPT !.effect = e]
      <4>3. e \subseteq DOMAIN tickets
        BY <4>2, CancelClears
      <4>4. e \subseteq DOMAIN tickets' /\ e \in SUBSET Nat
        <5>1. DOMAIN tickets \subseteq Nat
          BY DEF Base, TypeInv, TypeOK
        <5> QED BY <1>0, <4>3, <5>1 DEF Onward
      <4>5. CallTrue(calls[c], tickets', Away')
        BY <1>0, <2>0, CallStaysTrue DEF Onward
      <4>6. status \in {IF e = {} THEN 404 ELSE 200, 503} /\ status \in Nat
        BY <4>1
      <4> HIDE DEF e
      <4>7. n \in Call /\ CallTrue(n, tickets', Away')
        BY <2>0, <3>1, <4>4, <4>5, <4>6, EffectTrue
      <4>8. calls' = [calls EXCEPT ![c] = n]
        <5>1. Answer(calls[c], status) \in Call
          BY <2>0, <4>1, AnswerIs
        <5>2. Answered(c, status) = [calls EXCEPT ![c] = Answer(calls[c], status)]
          BY DEF Answered
        <5>3. calls \in [Calls -> Call]
          BY DEF CallInv
        <5>4. PICK g : g = [calls EXCEPT ![c] = Answer(calls[c], status)]
          BY Zenon
        <5>5. g \in [Calls -> Call] /\ g[c] = Answer(calls[c], status)
          BY <5>1, <5>3, <5>4
        <5>6. calls' = [g EXCEPT ![c].effect = e]
          BY <4>1, <5>2, <5>4, Zenon DEF e
        <5>7. calls' = [g EXCEPT ![c] = [g[c] EXCEPT !.effect = e]]
          BY <5>6
        <5>8. calls' = [g EXCEPT ![c] = n]
          BY <5>5, <5>7, Zenon
        <5> HIDE DEF n
        <5> QED BY <5>3, <5>4, <5>8
      <4> HIDE DEF n
      <4> QED BY <1>1, <4>7, <4>8
    <3> QED BY <3>2, <3>3
  <2>10. CASE AbandonScript(c)
    <3>1. calls[c].stage = "script" /\ calls[c].op = "ReportMatchAbandoned"
      BY <2>10 DEF AbandonScript, InScript
    <3>2. CallTrue(calls[c], tickets', Away')
      BY <1>0, <2>0, CallStaysTrue DEF Onward
    <3>3. DOMAIN tickets \subseteq Nat /\ DOMAIN tickets \subseteq DOMAIN tickets'
      BY <1>0 DEF Base, TypeInv, TypeOK, Onward
    <3>4. ASSUME NEW fails \in BOOLEAN, NEW removed \in SUBSET Nat, removed \subseteq DOMAIN tickets',
                 fails \/ \A t \in calls[c].pair :
                            /\ tickets'[t].player = calls[c].ids[calls[c].cancels + 1]
                            /\ t \notin TicketsOf(Held)
                            => t \in Away',
                 calls' = [calls EXCEPT ![c] = Cancelled(@, fails, removed)]
          PROVE  CallInv'
      <4>1. /\ Cancelled(calls[c], fails, removed) \in Call
            /\ CallTrue(Cancelled(calls[c], fails, removed), tickets', Away')
        BY <2>0, <3>1, <3>2, <3>4, TurnTrue
      <4>2. calls' = [calls EXCEPT ![c] = Cancelled(calls[c], fails, removed)]
        BY <3>4
      <4> QED BY <1>1, <4>1, <4>2
    <3>5. CASE UNCHANGED vars /\ calls' = [calls EXCEPT ![c] = Cancelled(@, TRUE, {})]
      <4>1. TRUE \in BOOLEAN /\ {} \in SUBSET Nat /\ {} \subseteq DOMAIN tickets'
        OBVIOUS
      <4> QED BY <3>4, <3>5, <4>1, Zenon
    <3>6. ASSUME RunCancel(c), NEW fails \in BOOLEAN,
                 calls' = [calls EXCEPT ![c] = Cancelled(@, fails, Waiting(c))]
          PROVE  CallInv'
      <4>1. Waiting(c) \subseteq DOMAIN tickets
        BY <3>6, CancelClears
      <4>2. \A t \in DOMAIN tickets :
              tickets[t].player = Target(c) /\ t \notin TicketsOf(Held) => t \in Away'
        BY <3>6, CancelClears
      <4>3. calls[c].pair \subseteq DOMAIN tickets
        BY <2>0 DEF CallTrue
      <4>4. \A t \in calls[c].pair :
              /\ tickets'[t].player = calls[c].ids[calls[c].cancels + 1]
              /\ t \notin TicketsOf(Held)
              => t \in Away'
        BY <1>0, <4>2, <4>3 DEF Onward, Target
      <4>5. Waiting(c) \in SUBSET Nat /\ Waiting(c) \subseteq DOMAIN tickets'
        BY <3>3, <4>1
      <4> QED BY <3>4, <3>6, <4>4, <4>5
    <3> QED BY <2>10, <3>5, <3>6 DEF AbandonScript
  <2>11. CASE SizeScript(c)
    <3>1. calls[c].stage = "script" /\ calls[c].op = "GetQueueSize"
      BY <2>11 DEF SizeScript, InScript
    <3>2. CASE Reply(c, 503)
      BY <1>4, <3>1, <3>2
    <3>3. CASE Reply(c, 200)
      <4> DEFINE a == Answer(calls[c], 200)
      <4>1. /\ a \in Call /\ a.op = "GetQueueSize" /\ a.pair = calls[c].pair
            /\ a.effect = calls[c].effect /\ a.stage = "answered" /\ a.status = 200
            /\ a.result = "pending"
        BY <2>0, <3>1, AnswerIs
      <4>2. calls' = [calls EXCEPT ![c] = a] /\ UNCHANGED vars
        BY <3>3 DEF Reply, Answered
      <4> HIDE DEF a
      <4>3. AnswerTrue(a)
        BY <4>1 DEF AnswerTrue, Operations
      <4>4. CallTrue(a, tickets, Away)
        BY <2>0, <4>1, <4>3 DEF CallTrue
      <4> QED BY <1>3, <4>1, <4>2, <4>4
    <3> QED BY <2>11, <3>2, <3>3 DEF SizeScript
  <2> QED BY <1>9, <2>1, <2>2, <2>3, <2>4, <2>5, <2>6, <2>7, <2>8, <2>9, <2>10, <2>11 DEF Handle
<1>10. CASE MatcherStep \/ UNCHANGED requestVars
  BY <1>2, <1>10 DEF MatcherStep, requestVars
<1> QED BY <1>7, <1>8, <1>9, <1>10 DEF RequestsNext
-----------------------------------------------------------------------------
(* Theorems *)

\* The inductive invariant of the composition.
LEMMA CallInvariance == RequestsSpec => [](Base /\ EntriesTrue /\ CallInv)
<1>1. Init => Base /\ EntriesTrue /\ CallInv
  <2> SUFFICES ASSUME Init PROVE Base /\ EntriesTrue /\ CallInv
    OBVIOUS
  <2>1. MatcherInit /\ calls = [c \in Calls |-> unused]
    BY DEF Init
  <2>2. Base /\ EntriesTrue
    BY <2>1, BaseAtStart, Beginning DEF EntriesTrue
  <2>3. CallTrue(unused, tickets, Away)
    BY UnusedIs DEF CallTrue
  <2> QED BY <2>1, <2>2, <2>3, UnusedIs DEF CallInv
<1>2. Base /\ EntriesTrue /\ CallInv /\ [RequestsNext]_requestVars => (Base /\ EntriesTrue /\ CallInv)'
  BY CallIsStep, BaseStep, EntriesTrueStep, CallStep
<1> QED BY <1>1, <1>2, PTL DEF RequestsSpec

\* Whatever clients send, at whatever base URL, and in whatever order the
\* handlers serve it, the matchers and the queue see a behaviour of Matcher:
\* every theorem about Spec holds of the service with its HTTP side.
THEOREM RequestsImplementMatcher == RequestsSpec => Spec
<1>1. Init => MatcherInit
  BY DEF Init
<1>2. Base /\ CallInv /\ [RequestsNext]_requestVars => [Next]_vars
  BY CallIsStep
<1> QED BY <1>1, <1>2, CallInvariance, PTL DEF RequestsSpec, Spec

\* Calls have their type, handlers that run a script have a player to work
\* on, and each handler answers with the statuses the contract has for its
\* operation, for any number of calls and whatever else they race with; only
\* the router adds to them, the 404 of a wrong base URL.
THEOREM CallsWellTyped == RequestsSpec => []CallsOK
<1>1. CallInv => CallsOK
  <2> SUFFICES ASSUME CallInv, NEW c \in Calls
               PROVE  /\ calls[c].stage \in Stages
                      /\ calls[c].stage = "answered" =>
                            \/ calls[c].status \in contract(calls[c].op)
                            \/ calls[c].status = 404 /\ ~calls[c].isConfigured
                      /\ calls[c].stage = "script" /\ calls[c].op # "GetQueueSize" =>
                            calls[c].cancels < Len(calls[c].ids)
                      /\ calls[c].effect \subseteq DOMAIN tickets
    BY DEF CallsOK, Stages
  <2>1. calls[c] \in Call /\ CallTrue(calls[c], tickets, Away)
    BY DEF CallInv
  <2>2. calls[c].stage \in Stages
    BY <2>1 DEF Call
  <2>3. calls[c].stage = "answered" => \/ calls[c].status \in contract(calls[c].op)
                                       \/ calls[c].status = 404 /\ ~calls[c].isConfigured
    BY <2>1 DEF CallTrue, AnswerTrue, Operations, contract
  <2>4. calls[c].stage = "script" /\ calls[c].op # "GetQueueSize" => calls[c].cancels < Len(calls[c].ids)
    BY <2>1 DEF CallTrue, Underway, AtScript
  <2>5. calls[c].effect \subseteq DOMAIN tickets
    BY <2>1 DEF CallTrue
  <2> QED BY <2>2, <2>3, <2>4, <2>5
<1> QED BY <1>1, CallInvariance, PTL

\* An error of the client says nothing that could be false.
LEMMA ErrorIsTrue == \A k : IsTrue(k, "error")
BY DEF IsTrue

\* A handler works on one call, before the client returned.
LEMMA HandleIs ==
    ASSUME Base, EntriesTrue, CallInv, NEW c \in Calls, Handle(c)
    PROVE  /\ calls[c].stage \in {"sent", "script"} /\ calls'[c].stage \in {"script", "answered"}
           /\ \A d \in Calls \ {c} : calls'[d] = calls[d]
<1>0. calls \in [Calls -> Call] /\ calls[c] \in Call
  BY DEF CallInv
<1>1. ASSUME NEW status \in Nat
      PROVE  /\ Answered(c, status) \in [Calls -> Call] /\ Answered(c, status)[c].stage = "answered"
             /\ \A d \in Calls \ {c} : Answered(c, status)[d] = calls[d]
  <2>1. Answer(calls[c], status) \in Call /\ Answer(calls[c], status).stage = "answered"
    BY <1>0, AnswerIs
  <2>2. Answered(c, status) = [calls EXCEPT ![c] = Answer(calls[c], status)]
    BY DEF Answered
  <2> QED BY <1>0, <2>1, <2>2
<1>2. ASSUME NEW status \in Nat, Reply(c, status)
      PROVE  calls'[c].stage = "answered" /\ \A d \in Calls \ {c} : calls'[d] = calls[d]
  BY <1>1, <1>2 DEF Reply
<1>3. ASSUME NEW fails \in BOOLEAN, NEW removed, calls[c].stage = "script",
             calls' = [calls EXCEPT ![c] = Cancelled(@, fails, removed)]
      PROVE  /\ calls'[c].stage \in {"script", "answered"}
             /\ \A d \in Calls \ {c} : calls'[d] = calls[d]
  <2>1. Turn(calls[c], fails, removed).stage = "script"
    BY <1>0, <1>3 DEF Turn, Call
  <2>2. \A k, status : Answer(k, status).stage = "answered"
    BY UnusedIs DEF Answer, Call
  <2>3. Cancelled(calls[c], fails, removed).stage \in {"script", "answered"}
    BY <2>1, <2>2 DEF Cancelled
  <2> QED BY <1>0, <1>3, <2>3
<1>4. CASE ServeEnqueue(c) \/ ServeCancel(c) \/ ServeMatchAbandoned(c) \/ ServeQueueSize(c)
  <2>1. calls[c].stage = "sent"
    BY <1>4 DEF ServeEnqueue, ServeCancel, ServeMatchAbandoned, ServeQueueSize, Arrives
  <2>2. CASE Reply(c, 400) \/ Reply(c, 503)
    BY <1>2, <2>1, <2>2
  <2>3. CASE ToScript(c)
    BY <1>0, <2>1, <2>3 DEF ToScript, Call
  <2>4. ASSUME NEW now \in Times, NEW gateway,
               calls' = [calls EXCEPT ![c].stage = "script", ![c].joinedAt = now,
                                      ![c].gateway = gateway]
        PROVE  calls'[c].stage = "script" /\ \A d \in Calls \ {c} : calls'[d] = calls[d]
    BY <1>0, <2>4 DEF Call
  <2> QED BY <1>4, <2>1, <2>2, <2>3, <2>4, ZenonT(30)
          DEF ServeEnqueue, ServeCancel, ServeMatchAbandoned, ServeQueueSize
<1>5. CASE NotRouted(c) \/ Unauthorized(c) \/ ServeHealth(c) \/ SizeScript(c)
  <2>1. calls[c].stage \in {"sent", "script"}
    BY <1>5 DEF NotRouted, Unauthorized, ServeHealth, SizeScript, Arrives, InScript
  <2>2. \E status \in Nat : Reply(c, status)
    BY <1>5 DEF NotRouted, Unauthorized, ServeHealth, SizeScript
  <2> QED BY <1>2, <2>1, <2>2
<1>6. CASE EnqueueScript(c) \/ CancelScript(c)
  <2>1. calls[c].stage = "script"
    BY <1>6 DEF EnqueueScript, CancelScript, InScript
  <2>2. CASE Reply(c, 503)
    BY <1>2, <2>1, <2>2
  <2>3. CASE EnqueueScript(c) /\ ~Reply(c, 503)
    <3>1. PICK status \in {202, 503} :
            calls' = [Answered(c, status) EXCEPT ![c].effect = {Len(tickets) + 1}]
      BY <2>3 DEF EnqueueScript
    <3>2. status \in Nat
      BY <3>1
    <3>3. PICK f : f = Answered(c, status)
      BY Zenon
    <3>4. /\ calls' = [f EXCEPT ![c].effect = {Len(tickets) + 1}]
          /\ f \in [Calls -> Call] /\ f[c].stage = "answered"
          /\ \A d \in Calls \ {c} : f[d] = calls[d]
      BY <1>1, <3>1, <3>2, <3>3
    <3> QED BY <2>1, <3>4 DEF Call
  <2>4. CASE CancelScript(c) /\ ~Reply(c, 503)
    <3>1. PICK status \in {IF Waiting(c) = {} THEN 404 ELSE 200, 503} :
            calls' = [Answered(c, status) EXCEPT ![c].effect = Waiting(c)]
      BY <2>4 DEF CancelScript
    <3>2. status \in Nat
      BY <3>1
    <3>3. PICK f : f = Answered(c, status)
      BY Zenon
    <3>4. /\ calls' = [f EXCEPT ![c].effect = Waiting(c)]
          /\ f \in [Calls -> Call] /\ f[c].stage = "answered"
          /\ \A d \in Calls \ {c} : f[d] = calls[d]
      BY <1>1, <3>1, <3>2, <3>3
    <3> QED BY <2>1, <3>4 DEF Call
  <2> QED BY <1>6, <2>2, <2>3, <2>4
<1>7. CASE AbandonScript(c)
  <2>1. calls[c].stage = "script"
    BY <1>7 DEF AbandonScript, InScript
  <2>2. \E fails \in BOOLEAN : \E removed :
          calls' = [calls EXCEPT ![c] = Cancelled(@, fails, removed)]
    BY <1>7, Zenon DEF AbandonScript
  <2> QED BY <1>3, <2>1, <2>2
<1> QED BY <1>4, <1>5, <1>6, <1>7 DEF Handle

\* What the client makes of an answer is true of the queue, for every status
\* each handler gives and whatever the router, the base URL and the order of
\* requests were.
THEOREM ClientResultsTrue == RequestsSpec => ResultsAreTrue
<1> DEFINE A == \A c \in Calls : calls'[c].result # calls[c].result => IsTrue(calls[c], calls'[c].result)
<1>1. Base /\ EntriesTrue /\ CallInv /\ (Base /\ EntriesTrue /\ CallInv)' /\ [RequestsNext]_requestVars
      => [A]_calls
  <2> SUFFICES ASSUME Base, EntriesTrue, CallInv, CallInv', [RequestsNext]_requestVars,
                      NEW c \in Calls, calls'[c].result # calls[c].result
               PROVE  IsTrue(calls[c], calls'[c].result)
    OBVIOUS
  <2>1. calls[c] \in Call /\ CallTrue(calls[c], tickets, Away) /\ calls \in [Calls -> Call]
    BY DEF CallInv
  <2>2. calls'[c] \in Call /\ CallTrue(calls'[c], tickets', Away')
    BY DEF CallInv
  <2>3. ASSUME NEW d \in Calls, Return(d) \/ Start(d) PROVE \A e \in Calls \ {d} : calls'[e] = calls[e]
    BY <2>1, <2>3 DEF Return, Start, Send
  <2>4. CASE Handle(c) \/ Start(c)
    <3>1. calls[c].stage # "returned" /\ calls'[c].stage # "returned"
      <4>1. ASSUME Start(c) PROVE calls[c].stage = "new" /\ calls'[c].stage = "sent"
        <5>1. PICK op, ids, pair : Send(c, op, ids, pair)
          BY <4>1 DEF Start
        <5>2. PICK path, isConfigured :
                calls' = [calls EXCEPT ![c] = [unused EXCEPT
                            !.op = op, !.stage = "sent", !.ids = ids, !.pair = pair,
                            !.path = path, !.isConfigured = isConfigured]]
          BY <5>1, Zenon DEF Send
        <5>3. PICK k : k = unused /\ k \in Call
          BY UnusedIs
        <5>4. calls'[c] = [k EXCEPT !.op = op, !.stage = "sent", !.ids = ids, !.pair = pair,
                                    !.path = path, !.isConfigured = isConfigured]
          BY <2>1, <5>2, <5>3
        <5> QED BY <5>1, <5>3, <5>4 DEF Send, Call
      <4> QED BY <2>4, <4>1, HandleIs
    <3> QED BY <2>1, <2>2, <3>1 DEF CallTrue
  <2>5. CASE Return(c)
    <3> DEFINE k == calls[c]
               result == ResultOf(k.op, ParseResponse(k.op, k.status))
    <3>1. k.stage = "answered"
      BY <2>5 DEF Return
    <3>2. PICK r \in {result, "error"} :
            calls' = [calls EXCEPT ![c] =
                         Finished(IF k.status = 204 THEN Reported(k) ELSE unused, r)]
      BY <2>5, ReturnIs
    <3>3. IsTrue(k, r) /\ r \in Results
      <4>1. AnswerTrue(k)
        BY <2>1, <3>1 DEF CallTrue
      <4>2. result \in Results /\ IsTrue(k, result)
        BY <2>1, <4>1, ResultKnown
      <4> HIDE DEF result
      <4> QED BY <3>2, <4>2, ErrorIsTrue DEF Results
    <3>4. PICK n : n = Finished(IF k.status = 204 THEN Reported(k) ELSE unused, r)
      OBVIOUS
    <3>5. calls' = [calls EXCEPT ![c] = n]
      BY <3>2, <3>4
    <3>6. n.result = r
      BY <2>1, <3>1, <3>3, <3>4, ReturnedTrue
    <3>7. calls'[c].result = r
      BY <2>1, <3>5, <3>6
    <3> QED BY <3>3, <3>7
  <2>6. CASE UNCHANGED requestVars \/ MatcherStep
    BY <2>6 DEF requestVars, MatcherStep
  <2> QED BY <2>3, <2>4, <2>5, <2>6, HandleIs DEF RequestsNext
<1> QED BY <1>1, CallInvariance, PTL DEF RequestsSpec, ResultsAreTrue

\* An Abandon that answered 204 with no tick holding the pair meanwhile has
\* taken the pair out of the queue for good: neither a late delivery nor the
\* write-back of another server's tick brings it back.
THEOREM AbandonedStaysOut == RequestsSpec => []AbandonedSettledPairStaysOut
<1>1. CallInv => AbandonedSettledPairStaysOut
  <2> SUFFICES ASSUME CallInv, NEW c \in Calls, calls[c].op = "ReportMatchAbandoned",
                      calls[c].status = 204, ~calls[c].raced
               PROVE  calls[c].pair \cap TicketsOf(queue \cup Held) = {}
    BY DEF AbandonedSettledPairStaysOut
  <2>1. calls[c].pair \subseteq Away
    BY DEF CallInv, CallTrue
  <2> QED BY <2>1 DEF Away, TicketsOf
<1> QED BY <1>1, CallInvariance, PTL

\* Only Cancel makes a ticket cancelled.
LEMMA CancelledByCancel ==
    ASSUME Base, [Next]_vars, ~\E p \in Players : Cancel(p),
           NEW t \in DOMAIN tickets', tickets'[t].fate = "cancelled"
    PROVE  t \in DOMAIN tickets /\ tickets[t].fate = "cancelled"
<1>0. tickets \in Seq(Ticket)
  BY DEF Base, TypeInv, TypeOK
<1>1. CASE tickets' = tickets
  BY <1>1
<1>2. ASSUME NEW entries, NEW fate, fate # "cancelled", tickets' = Ended(tickets, entries, fate)
      PROVE  t \in DOMAIN tickets /\ tickets[t].fate = "cancelled"
  BY <1>0, <1>2, EndedIs
<1>3. ASSUME NEW s \in Servers, tickets' = Overwritten(s)
      PROVE  t \in DOMAIN tickets /\ tickets[t].fate = "cancelled"
  BY <1>3, OverwrittenIs DEF Base, Keeps
<1>4. ASSUME NEW p \in Players, NEW g \in Gateways, NEW u \in Times, Joined(p, g, u)
      PROVE  t \in DOMAIN tickets /\ tickets[t].fate = "cancelled"
  BY <1>4 DEF Joined
<1>5. CASE Evict
  BY <1>1, <1>2, <1>5, "evicted" # "cancelled" DEF Evict
<1>6. ASSUME NEW s \in Servers, UnreadPop(s) \/ Reenqueue(s) \/ UnreadWriteBack(s) \/ PublishSucceeds(s) \/ PopPair(s)
      PROVE  t \in DOMAIN tickets /\ tickets[t].fate = "cancelled"
  BY <1>1, <1>2, <1>3, <1>6, "unread" # "cancelled", "dropped" # "cancelled"
     DEF UnreadPop, Reenqueue, UnreadWriteBack, PublishSucceeds, PopPair
<1>7. ASSUME NEW s \in Servers, LosePair(s)
      PROVE  t \in DOMAIN tickets /\ tickets[t].fate = "cancelled"
  <2>1. CASE tickets' = Ended(tickets, PairOf(s), "lost")
    BY <1>2, <2>1, "lost" # "cancelled"
  <2>2. CASE tickets' = Ended(Overwritten(s), PairOf(s), "lost")
    <3>1. Overwritten(s) \in Seq(Ticket) /\ DOMAIN Overwritten(s) = DOMAIN tickets
      BY OverwrittenIs DEF Base, Keeps
    <3>2. t \in DOMAIN tickets /\ Overwritten(s)[t].fate = "cancelled"
      BY <2>2, <3>1, EndedIs
    <3> QED BY <3>2, OverwrittenIs DEF Base
  <2> QED BY <1>7, <2>1, <2>2 DEF LosePair
<1> QED BY <1>1, <1>4, <1>5, <1>6, <1>7, StepEffect, EnqueueEffect DEF Moves, Quiet

\* A wait that Cancel ended is over, for every interleaving of the handlers
\* with the ticks of all servers, as long as Redis answers the ticks.
THEOREM CancelledIsOver == RequestsSpec => [](faults.redis = 0 => CancelledStaysOut)
<1> DEFINE Lone == faults.redis = 0 => \A s \in Servers : Alone(s)
           Out == faults.redis = 0 => CancelledStaysOut
<1>1. MatcherInit => Out
  BY Beginning DEF CancelledStaysOut
<1>2. Base /\ EntriesTrue /\ Lone /\ Out /\ [Next]_vars => Out'
  <2> SUFFICES ASSUME Base, EntriesTrue, Lone, Out, [Next]_vars, faults'.redis = 0,
                      NEW t \in DOMAIN tickets', tickets'[t].fate = "cancelled"
               PROVE  t \in Away'
    BY DEF CancelledStaysOut, Away, TicketsOf
  <2>1. faults.redis = 0
    <3>1. faults \in [redis : Nat, publish : Nat, evictions : Nat]
      BY DEF Base, TypeInv, TypeOK
    <3> QED BY <3>1, FaultsGrow
  <2>2. Onward
    BY StepOnward
  <2>3. CASE t \in DOMAIN tickets /\ tickets[t].fate = "cancelled"
    <3>1. t \in Away
      BY <2>1, <2>3 DEF CancelledStaysOut, Away, TicketsOf
    <3> QED BY <2>2, <3>1 DEF Onward
  <2>4. ASSUME NEW p \in Players, Cancel(p), t \in DOMAIN tickets, tickets[t].fate # "cancelled"
        PROVE  t \in Away'
    <3>1. PICK e \in queue : e.player = p /\ e.ticket = t
      <4>1. tickets \in Seq(Ticket)
        BY DEF Base, TypeInv, TypeOK
      <4>2. PICK e \in queue \ removePlayerEntries(queue, p) : e.ticket = t
        BY <2>4, <4>1, EndedIs DEF Cancel, TicketsOf
      <4> QED BY <4>2 DEF removePlayerEntries
    <3>2. queue' = {d \in queue : d.player # p} /\ Held' = Held
      BY <2>4 DEF Cancel, cancelLua, removePlayerEntries, Held, PairOf, tickVars
    <3>3. \A d \in queue' : d.ticket # t
      BY <3>1, <3>2, TicketIdentifies
    <3>4. \A d \in Held : d.ticket # t
      BY <2>1, <3>1, InViewIs DEF Alone
    <3> QED BY <3>2, <3>3, <3>4 DEF Away
  <2>5. ASSUME NEW p \in Players, Cancel(p) PROVE t \in DOMAIN tickets
    <3>1. tickets \in Seq(Ticket)
      BY DEF Base, TypeInv, TypeOK
    <3> QED BY <2>5, <3>1, EndedIs DEF Cancel
  <2> QED BY <2>3, <2>4, <2>5, CancelledByCancel
<1>3. Spec => []Lone
  BY AloneInvariance
<1> HIDE DEF Lone, Out
<1>4. Spec => []Out
  BY <1>1, <1>2, <1>3, BaseInvariance, EntriesTrueInvariance, PTL DEF Spec
<1> QED BY <1>4, RequestsImplementMatcher, PTL DEF Out
=============================================================================
