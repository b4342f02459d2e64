---------------------------- MODULE LedgerProofs ----------------------------
(***************************************************************************)
(* Theorems about where a ticket can be: that none is forgotten, that none *)
(* is in two places, in two confirmed matches or paired across gateway     *)
(* processes, and that the first to join are the first to be popped.  They *)
(* hold for any number of servers, players, gateways, attempts and faults. *)
(***************************************************************************)
EXTENDS MatcherProofs, FiniteSetTheorems

-----------------------------------------------------------------------------
(* What a step does to the tickets *)

\* A tick that holds no pair has the locals of an idle one, and a pair is of
\* two players.
HoldInv ==
    \A s \in Servers :
        /\ tick[s].step \notin HoldingSteps =>
               tick[s].pair = NoPair /\ tick[s].gateway = NoGateway /\ tick[s].matchID = 0
        /\ tick[s].step \in HoldingSteps => tick[s].pair[1].player # tick[s].pair[2].player

Base == TypeInv /\ OneTickAtATime /\ OneEntryPerPlayer /\ HoldInv

\* The messages a subscriber may still see.
Sent == inFlight \cup topic

\* What the tick of s holds stays the same.
SameHold(s) ==
    /\ tick'[s].pair = tick[s].pair
    /\ tick'[s].gateway = tick[s].gateway
    /\ tick'[s].matchID = tick[s].matchID
    /\ tick'[s].step \in HoldingSteps <=> tick[s].step \in HoldingSteps
    /\ tick'[s].step = "publishing" => tick[s].step = "publishing"

\* A step that moves no ticket, except that the topic may accept a message
\* and the client may give one up.
Quiet ==
    /\ UNCHANGED <<queue, instanceID, tickets, acked, issued>>
    /\ topic \subseteq topic' /\ Sent' \subseteq Sent
    /\ \A s \in Servers : SameHold(s)

\* PopFails when the script ran.
UnreadPop(s) ==
    /\ PopFails(s) /\ RedisFault
    /\ \E a, b \in queue : popPairLua(a, b) /\ tickets' = Ended(tickets, {a, b}, "unread")

\* ReenqueueFails when the script ran.
UnreadWriteBack(s) ==
    /\ ReenqueueFails(s) /\ RedisFault
    /\ WriteBack(s) /\ tickets' = Overwritten(s)

\* The tick of s is over and those of the other servers did not move.
OnlyEnds(s) == \A r \in Servers : tick'[r] = IF r = s THEN idleTick ELSE tick[r]

\* Finish is the end of one tick.
LEMMA FinishEnds ==
    ASSUME TypeInv, NEW s \in Servers, Finish(s)
    PROVE  OnlyEnds(s)
BY DEF Finish, OnlyEnds, TypeInv, TypeOK

\* A tick that ends without a pair had none to let go.
LEMMA EmptyHandedEnd ==
    ASSUME HoldInv, NEW s \in Servers, OnlyEnds(s), tick[s].step \notin HoldingSteps
    PROVE  \A r \in Servers : SameHold(r)
<1>1. SameHold(s)
  BY DEF OnlyEnds, HoldInv, SameHold, idleTick, HoldingSteps
<1> QED BY <1>1 DEF OnlyEnds, SameHold

\* A tick that goes on with its pair still holds it.
LEMMA StepHolds ==
    ASSUME TypeInv, NEW s \in Servers, NEW step \in TickSteps \ {"publishing"}, Step(s, step),
           step \in HoldingSteps <=> tick[s].step \in HoldingSteps
    PROVE  \A r \in Servers : SameHold(r)
BY DEF Step, SameHold, TypeInv, TypeOK, TickLocals

\* A step of a tick moves its pair, tells Run of the match, or is quiet.
LEMMA TickEffect ==
    ASSUME Base, NEW s \in Servers, TickStep(s)
    PROVE  \/ Quiet
           \/ PopPair(s) \/ UnreadPop(s) \/ PublishSucceeds(s)
           \/ Reenqueue(s) \/ UnreadWriteBack(s) \/ LosePair(s)
<1> USE DEF queueVars, pubsubVars
<1>0. TypeInv /\ HoldInv
  BY DEF Base
<1>1. CASE BeginTick(s)
  <2>1. tick[s].step \notin HoldingSteps
    BY <1>1 DEF BeginTick, HoldingSteps
  <2>2. \A r \in Servers : SameHold(r)
    <3>1. CASE Step(s, "popping")
      BY <1>0, <2>1, <3>1, StepHolds DEF TickSteps, HoldingSteps
    <3>2. CASE Finish(s)
      BY <1>0, <2>1, <3>2, FinishEnds, EmptyHandedEnd
    <3> QED BY <1>1, <3>1, <3>2 DEF BeginTick
  <2> QED BY <1>1, <2>2 DEF BeginTick, Quiet, Sent
<1>2. CASE PopEmpty(s) \/ (PopFails(s) /\ UNCHANGED <<queueVars, tickets>>)
  <2>1. tick[s].step \notin HoldingSteps /\ Finish(s)
    BY <1>2 DEF PopEmpty, PopFails, HoldingSteps
  <2>2. \A r \in Servers : SameHold(r)
    BY <1>0, <2>1, FinishEnds, EmptyHandedEnd
  <2> QED BY <1>2, <2>2 DEF PopEmpty, PopFails, popNothingLua, Quiet, Sent
<1>3. CASE PopFails(s) /\ ~UNCHANGED <<queueVars, tickets>>
  BY <1>3 DEF PopFails, UnreadPop
<1>4. CASE PublishFails(s)
  <2>1. \A r \in Servers : SameHold(r)
    BY <1>0, <1>4 DEF PublishFails, SameHold, TypeInv, TypeOK, TickLocals, HoldingSteps
  <2>2. Sent' \subseteq Sent /\ topic' = topic
    BY <1>4 DEF PublishFails, Sent
  <2> QED BY <1>4, <2>1, <2>2 DEF PublishFails, Quiet
<1>5. CASE ReenqueueFails(s)
  <2>1. CASE UNCHANGED <<queueVars, tickets>>
    <3>1. \A r \in Servers : SameHold(r)
      <4>1. PICK step \in {"final", "backoff"} : Step(s, step)
        BY <1>5 DEF ReenqueueFails
      <4>2. tick[s].step = "reenqueueing"
        BY <1>5 DEF ReenqueueFails
      <4> QED BY <1>0, <4>1, <4>2, StepHolds DEF TickSteps, HoldingSteps
    <3> QED BY <1>5, <2>1, <3>1 DEF ReenqueueFails, Quiet, Sent
  <2>2. CASE ~UNCHANGED <<queueVars, tickets>>
    BY <1>5, <2>2 DEF ReenqueueFails, UnreadWriteBack
  <2> QED BY <2>1, <2>2
<1>6. CASE BackoffEnds(s)
  <2>1. \A r \in Servers : SameHold(r)
    BY <1>0, <1>6 DEF BackoffEnds, SameHold, TypeInv, TypeOK, TickLocals, HoldingSteps
  <2> QED BY <1>6, <2>1 DEF BackoffEnds, Quiet, Sent
<1>7. CASE BackoffCancelled(s)
  <2>1. \A r \in Servers : SameHold(r)
    BY <1>0, <1>7, StepHolds DEF BackoffCancelled, TickSteps, HoldingSteps
  <2> QED BY <1>7, <2>1 DEF BackoffCancelled, Quiet, Sent
<1> QED BY <1>1, <1>2, <1>3, <1>4, <1>5, <1>6, <1>7 DEF TickStep

\* The steps that move a ticket; every other step is quiet.
Moves ==
    \/ \E p \in Players, g \in Gateways, t \in Times : Enqueue(p, g, t)
    \/ \E p \in Players : Cancel(p)
    \/ Evict
    \/ \E s \in Servers : \/ PopPair(s) \/ UnreadPop(s) \/ PublishSucceeds(s)
                          \/ Reenqueue(s) \/ UnreadWriteBack(s) \/ LosePair(s)

\* What the goroutine of Run does is quiet: it starts a tick only in place of
\* an idle one.
LEMMA RunEffect ==
    ASSUME Base, NEW s \in Servers, Shutdown(s) \/ TickerFires(s) \/ RunStep(s)
    PROVE  Quiet
<1>1. UNCHANGED <<queue, instanceID, tickets, acked, issued, inFlight, topic>>
  BY DEF Shutdown, TickerFires, RunStep, startTick, ReceiveTickDone, StartDrain,
         DrainCompletes, DrainTimesOut, runUnchanged, queueVars, pubsubVars
<1>2. \A r \in Servers : SameHold(r)
  <2>1. CASE tick' = tick
    BY <2>1 DEF SameHold
  <2>2. CASE startTick(s)
    <3>1. tick[s].step = "idle"
      BY <2>2 DEF startTick, Base, OneTickAtATime
    <3> QED BY <2>2, <3>1 DEF startTick, SameHold, HoldingSteps, Base, TypeInv, TypeOK, TickLocals
  <2> QED BY <2>1, <2>2 DEF Shutdown, TickerFires, RunStep, ReceiveTickDone, StartDrain,
                            DrainCompletes, DrainTimesOut
<1> QED BY <1>1, <1>2 DEF Quiet, Sent

\* Every step is quiet or one of those that move a ticket.
LEMMA StepEffect ==
    ASSUME Base, [Next]_vars
    PROVE  Quiet \/ Moves
<1>1. CASE UNCHANGED vars
  BY <1>1 DEF vars, Quiet, Sent, SameHold
<1>2. CASE Elapse
  BY <1>2 DEF Elapse, queueVars, pubsubVars, Quiet, Sent, SameHold
<1>3. CASE \E m \in inFlight : Deliver(m)
  BY <1>3 DEF Deliver, queueVars, tickVars, Quiet, Sent, SameHold
<1>4. ASSUME NEW s \in Servers, Shutdown(s) \/ TickerFires(s) \/ RunStep(s) PROVE Quiet
  BY <1>4, RunEffect
<1>5. ASSUME NEW s \in Servers, TickStep(s) PROVE Quiet \/ Moves
  BY <1>5, TickEffect DEF Moves
<1> QED BY <1>1, <1>2, <1>3, <1>4, <1>5 DEF Next, Moves

\* The pair of a tick as a set.
LEMMA PairIs ==
    ASSUME TypeInv, HoldInv, NEW s \in Servers
    PROVE  /\ tick[s].step \in HoldingSteps => PairOf(s) = {tick[s].pair[1], tick[s].pair[2]}
           /\ tick[s].step \notin HoldingSteps => PairOf(s) = {}
<1>1. ASSUME tick[s].step \in HoldingSteps PROVE PairOf(s) = {tick[s].pair[1], tick[s].pair[2]}
  <2>1. tick[s].pair \in Entry \X Entry
    BY <1>1 DEF TypeInv, TickInv
  <2>2. DOMAIN tick[s].pair = {1, 2}
    BY <2>1
  <2> QED BY <2>2 DEF PairOf
<1>2. ASSUME tick[s].step \notin HoldingSteps PROVE PairOf(s) = {}
  <2>1. tick[s].pair = <<>>
    BY <1>2 DEF HoldInv, NoPair
  <2>2. DOMAIN <<>> = {}
    OBVIOUS
  <2> QED BY <2>1, <2>2 DEF PairOf
<1> QED BY <1>1, <1>2

\* A tick that is over holds nothing, and the others hold what they held.
LEMMA EndedHold ==
    ASSUME NEW s \in Servers, OnlyEnds(s)
    PROVE  PairOf(s)' = {} /\ \A r \in Servers \ {s} : PairOf(r)' = PairOf(r)
<1>1. tick'[s].pair = <<>> /\ DOMAIN <<>> = {}
  BY DEF OnlyEnds, idleTick, NoPair
<1> QED BY <1>1 DEF OnlyEnds, PairOf

\* What PopPair does when it pops a and b: they are the first two, of two
\* players, and the tick of s holds them, no longer the queue.
Popped(s, a, b) ==
    /\ PopMin2(queue, a, b) /\ a.player # b.player
    /\ queue' = queue \ {a, b} /\ UNCHANGED <<instanceID, topic, acked, tickets>>
    /\ issued' = issued + 1
    /\ inFlight' = inFlight \cup {Message(issued + 1, <<a, b>>)}
    /\ tick'[s] = [step |-> "publishing", pair |-> <<a, b>>, gateway |-> instanceID,
                   matchID |-> issued + 1, attempt |-> 0]
    /\ PairOf(s)' = {a, b}
    /\ \A r \in Servers \ {s} : tick'[r] = tick[r] /\ PairOf(r)' = PairOf(r)

\* The first two of a queue with one entry per player are of two players.
LEMMA FirstTwoDiffer ==
    ASSUME TypeInv, OneEntryPerPlayer, NEW a \in queue, NEW b \in queue, PopMin2(queue, a, b)
    PROVE  a.player # b.player /\ a # b
<1>1. a \in Entry /\ b \in Entry /\ Players \subseteq Nat
  BY QueueAssumption DEF TypeInv, TypeOK
<1>2. a.joinedAt \in Nat /\ a.player \in Nat
  BY <1>1 DEF Entry
<1>3. a # b
  BY <1>2 DEF PopMin2, Before
<1> QED BY <1>3 DEF OneEntryPerPlayer

\* What PopPair does: the two earliest entries leave the queue for the hands of
\* s, under a fresh match id and with the identifier read by the script.
LEMMA PopEffect ==
    ASSUME Base, NEW s \in Servers, PopPair(s)
    PROVE  \E a, b \in queue : Popped(s, a, b)
<1>1. PICK a \in queue, b \in queue :
        /\ popPairLua(a, b)
        /\ tick' = [tick EXCEPT ![s] = [step |-> "publishing", pair |-> <<a, b>>,
                                        gateway |-> instanceID,
                                        matchID |-> issued + 1, attempt |-> 0]]
        /\ inFlight' = inFlight \cup {Message(issued + 1, <<a, b>>)}
  BY DEF PopPair
<1>2. a.player # b.player
  BY <1>1, FirstTwoDiffer DEF popPairLua, Base
<1>3. /\ tick'[s] = [step |-> "publishing", pair |-> <<a, b>>, gateway |-> instanceID,
                     matchID |-> issued + 1, attempt |-> 0]
      /\ \A r \in Servers \ {s} : tick'[r] = tick[r]
  BY <1>1 DEF Base, TypeInv, TypeOK
<1>4. PairOf(s)' = {a, b} /\ \A r \in Servers \ {s} : PairOf(r)' = PairOf(r)
  <2>1. tick'[s].pair = <<a, b>> /\ DOMAIN <<a, b>> = {1, 2}
    BY <1>3
  <2> QED BY <1>3, <2>1 DEF PairOf
<1>5. UNCHANGED <<topic, acked, tickets>> /\ issued' = issued + 1
  BY DEF PopPair
<1> QED BY <1>1, <1>2, <1>3, <1>4, <1>5 DEF Popped, popPairLua

\* Every step keeps the invariant about what a tick holds.
LEMMA HoldStep ==
    ASSUME Base, [Next]_vars
    PROVE  HoldInv'
<1>1. CASE Quiet
  BY <1>1 DEF Quiet, SameHold, HoldInv, Base
<1>2. CASE tick' = tick
  BY <1>2 DEF HoldInv, Base
<1>3. ASSUME NEW s \in Servers, PopPair(s) PROVE HoldInv'
  <2>1. PICK a \in queue, b \in queue : Popped(s, a, b)
    BY <1>3, PopEffect
  <2> QED BY <2>1 DEF Popped, HoldInv, Base, HoldingSteps
<1>4. ASSUME NEW s \in Servers, Finish(s) PROVE HoldInv'
  <2>1. OnlyEnds(s)
    BY <1>4, FinishEnds DEF Base
  <2> QED BY <2>1 DEF OnlyEnds, HoldInv, Base, HoldingSteps, idleTick
<1>5. ASSUME NEW s \in Servers, UnreadWriteBack(s) PROVE HoldInv'
  <2>1. PICK step \in {"final", "backoff"} : Step(s, step)
    BY <1>5 DEF UnreadWriteBack, ReenqueueFails
  <2>2. tick[s].step = "reenqueueing"
    BY <1>5 DEF UnreadWriteBack, ReenqueueFails
  <2>3. \A r \in Servers : SameHold(r)
    BY <2>1, <2>2, StepHolds DEF TickSteps, HoldingSteps, Base
  <2> QED BY <2>3 DEF SameHold, HoldInv, Base
<1>6. CASE Moves
  BY <1>2, <1>3, <1>4, <1>5, <1>6 DEF Moves, Enqueue, Cancel, Evict, tickVars,
     UnreadPop, PopFails, PublishSucceeds, Reenqueue, LosePair
<1> QED BY <1>1, <1>6, StepEffect

\* The facts every argument about tickets starts from.
LEMMA BaseStep ==
    ASSUME Base, [Next]_vars
    PROVE  Base'
BY TypeStep, OneTickStep, OneEntryStep, HoldStep DEF Base

\* These facts hold at the start and after every step.
LEMMA BaseAtStart == MatcherInit => Base
<1> SUFFICES ASSUME MatcherInit PROVE Base
  OBVIOUS
<1>1. \A s \in Servers : tick[s] = idleTick /\ breaker[s] = newCircuitBreaker
  BY DEF MatcherInit
<1>2. TypeOK
  <2>1. idleTick \in TickLocals
    BY MatcherAssumption DEF idleTick, TickLocals, TickSteps
  <2> QED BY <2>1, NewBreaker DEF MatcherInit, QueueInit, TypeOK, RunLocals
<1>3. TypeInv
  BY <1>1, <1>2, NewBreaker DEF TypeInv, TickInv, CircuitOpenIffOverThreshold, idleTick, HoldingSteps
<1>4. OneTickAtATime /\ OneEntryPerPlayer /\ HoldInv
  BY DEF MatcherInit, QueueInit, OneTickAtATime, OneEntryPerPlayer, HoldInv, idleTick, HoldingSteps
<1> QED BY <1>3, <1>4 DEF Base

\* They hold whenever the specification does.
LEMMA BaseInvariance == Spec => []Base
BY BaseAtStart, BaseStep, PTL DEF Spec
-----------------------------------------------------------------------------
(* The history *)

\* The history after some tickets ended: nothing but their fate is different.
LEMMA EndedIs ==
    ASSUME NEW h \in Seq(Ticket), NEW entries, NEW fate
    PROVE  /\ DOMAIN Ended(h, entries, fate) = DOMAIN h
           /\ \A t \in DOMAIN h :
                /\ Ended(h, entries, fate)[t].player = h[t].player
                /\ Ended(h, entries, fate)[t].gateway = h[t].gateway
                /\ Ended(h, entries, fate)[t].joinedAt = h[t].joinedAt
                /\ Ended(h, entries, fate)[t].fate =
                     IF \E e \in entries : e.ticket = t THEN fate ELSE h[t].fate
<1> SUFFICES ASSUME NEW t \in DOMAIN h
             PROVE  /\ Ended(h, entries, fate)[t].player = h[t].player
                    /\ Ended(h, entries, fate)[t].gateway = h[t].gateway
                    /\ Ended(h, entries, fate)[t].joinedAt = h[t].joinedAt
                    /\ Ended(h, entries, fate)[t].fate =
                         IF \E e \in entries : e.ticket = t THEN fate ELSE h[t].fate
  BY DEF Ended
<1>1. h[t] \in Ticket
  OBVIOUS
<1>2. t \in TicketsOf(entries) <=> \E e \in entries : e.ticket = t
  BY DEF TicketsOf
<1>3. Ended(h, entries, fate)[t] =
        IF t \in TicketsOf(entries) THEN [h[t] EXCEPT !.fate = fate] ELSE h[t]
  BY DEF Ended
<1> QED BY <1>1, <1>2, <1>3 DEF Ticket

\* The two players of the pair of s.
IsOfPair(e, s) == e.player = tick[s].pair[1].player \/ e.player = tick[s].pair[2].player

\* What reenqueue.lua does with the pair of s: under the expected identifier
\* it takes the place of whatever its players had in the queue.
WroteBack(s) ==
    /\ IsExpected(tick[s].gateway) =>
           queue' = {e \in queue : ~IsOfPair(e, s)} \cup {tick[s].pair[1], tick[s].pair[2]}
    /\ ~IsExpected(tick[s].gateway) => queue' = queue
    /\ UNCHANGED instanceID

\* What a write-back does: both entries of the held pair return, in place of
\* newer entries of the same players, or end as `reset' on an identifier mismatch.
LEMMA WriteBackEffect ==
    ASSUME Base, NEW s \in Servers, tick[s].step \in HoldingSteps, WriteBack(s)
    PROVE  WroteBack(s)
<1> DEFINE a == tick[s].pair[1]  b == tick[s].pair[2]
<1>1. a.player # b.player
  BY DEF Base, HoldInv
<1>2. Put(Put(queue, a), b) = {e \in queue : e.player # a.player /\ e.player # b.player} \cup {a, b}
  BY <1>1 DEF Put, removePlayerEntries
<1>3. /\ queue' = IF IsExpected(tick[s].gateway) THEN Put(Put(queue, a), b) ELSE queue
      /\ UNCHANGED instanceID
  BY DEF WriteBack, reenqueueLua
<1> QED BY <1>2, <1>3 DEF WroteBack, IsOfPair

\* The history h' keeps what was asked for in every enqueue call of h.
Keeps(h, g) ==
    /\ DOMAIN h = DOMAIN g
    /\ \A t \in DOMAIN h : /\ g[t].player = h[t].player
                           /\ g[t].gateway = h[t].gateway
                           /\ g[t].joinedAt = h[t].joinedAt

\* The write-back ends the waits of the entries it takes the place of.
LEMMA OverwrittenIs ==
    ASSUME TypeInv, NEW s \in Servers
    PROVE  /\ Overwritten(s) \in Seq(Ticket) /\ Keeps(tickets, Overwritten(s))
           /\ \A t \in DOMAIN tickets :
                Overwritten(s)[t].fate =
                    IF /\ IsExpected(tick[s].gateway)
                       /\ \E e \in queue : /\ e.ticket = t /\ IsOfPair(e, s)
                                           /\ e # tick[s].pair[1] /\ e # tick[s].pair[2]
                    THEN "replaced" ELSE tickets[t].fate
<1> DEFINE a == tick[s].pair[1]  b == tick[s].pair[2]
           gone == (Replaced(queue, a) \cup Replaced(queue, b)) \ {a, b}
<1>0. tickets \in Seq(Ticket)
  BY DEF TypeInv, TypeOK
<1>1. gone = {e \in queue : IsOfPair(e, s) /\ e # a /\ e # b}
  BY DEF Replaced, removePlayerEntries, IsOfPair
<1>2. Overwritten(s) = IF IsExpected(tick[s].gateway) THEN Ended(tickets, gone, "replaced") ELSE tickets
  BY DEF Overwritten
<1>3. Ended(tickets, gone, "replaced") \in Seq(Ticket)
  BY <1>0, EndedType DEF Fates
<1>4. /\ Keeps(tickets, Ended(tickets, gone, "replaced"))
      /\ \A t \in DOMAIN tickets :
           Ended(tickets, gone, "replaced")[t].fate =
               IF \E e \in gone : e.ticket = t THEN "replaced" ELSE tickets[t].fate
  BY <1>0, EndedIs DEF Keeps
<1> HIDE DEF gone
<1>5. CASE IsExpected(tick[s].gateway)
  BY <1>1, <1>2, <1>3, <1>4, <1>5
<1>6. CASE ~IsExpected(tick[s].gateway)
  BY <1>0, <1>2, <1>6 DEF Keeps
<1> QED BY <1>5, <1>6

\* The entries in view: waiting, held, or in a message the topic has.
InView == queue \cup Held \cup EntriesOf(topic)

\* All entries there are.
Known == queue \cup Held \cup EntriesOf(Sent)

\* A ticket whose wait did not end is as much in view as it was.
Followed ==
    \A t \in DOMAIN tickets :
        tickets'[t].fate = "open" =>
            /\ tickets[t].fate = "open"
            /\ \A d \in InView : d.ticket = t => d \in InView'

\* A step that is not an enqueue keeps the books.
Booked == Keeps(tickets, tickets') /\ Known' \subseteq Known /\ Followed

\* What the sets of entries consist of.
LEMMA InViewIs ==
    /\ \A d : d \in Held <=> \E s \in Servers : d \in PairOf(s)
    /\ \A M, d : d \in EntriesOf(M) <=> \E m \in M : d = m.pair[1] \/ d = m.pair[2]
    /\ \A d : d \in InView <=> d \in queue \/ d \in Held \/ d \in EntriesOf(topic)
    /\ \A d : d \in Known <=> d \in queue \/ d \in Held \/ d \in EntriesOf(Sent)
<1>1. ASSUME NEW d PROVE d \in Held <=> \E s \in Servers : d \in PairOf(s)
  BY DEF Held
<1>2. ASSUME NEW M, NEW d PROVE d \in EntriesOf(M) <=> \E m \in M : d = m.pair[1] \/ d = m.pair[2]
  BY DEF EntriesOf
<1> QED BY <1>1, <1>2 DEF InView, Known

\* A quiet step keeps the books.
LEMMA QuietBooked ==
    ASSUME Quiet
    PROVE  Booked
<1>1. \A s \in Servers : PairOf(s)' = PairOf(s)
  BY DEF Quiet, SameHold, PairOf
<1>2. Held' = Held
  BY <1>1 DEF Held
<1>3. EntriesOf(topic) \subseteq EntriesOf(topic)' /\ EntriesOf(Sent)' \subseteq EntriesOf(Sent)
  BY InViewIs DEF Quiet, EntriesOf
<1> QED BY <1>2, <1>3 DEF Quiet, Booked, Keeps, Followed, InView, Known

\* A pop moves two entries from the queue to the tick and to a message.
LEMMA PopBooked ==
    ASSUME Base, NEW s \in Servers, PopPair(s)
    PROVE  Booked
<1>1. PICK a \in queue, b \in queue : Popped(s, a, b)
  BY PopEffect
<1>2. PairOf(s) = {}
  BY PairIs DEF Base, PopPair, HoldingSteps
<1>3. \A d : d \in Held' <=> d \in Held \/ d = a \/ d = b
  <2>1. \A d : d \in Held' <=> \E r \in Servers : d \in PairOf(r)'
    BY DEF Held
  <2> QED BY <1>1, <1>2, <2>1, InViewIs DEF Popped
<1>4. \A d : d \in EntriesOf(Sent)' <=> d \in EntriesOf(Sent) \/ d = a \/ d = b
  <2>1. Sent' = Sent \cup {Message(issued + 1, <<a, b>>)}
    BY <1>1 DEF Popped, Sent
  <2>2. Message(issued + 1, <<a, b>>).pair = <<a, b>>
    BY DEF Message
  <2> QED BY <2>1, <2>2 DEF EntriesOf
<1>5. Followed
  <2>1. EntriesOf(topic)' = EntriesOf(topic)
    BY <1>1 DEF Popped, EntriesOf
  <2> QED BY <1>1, <1>3, <2>1, InViewIs DEF Followed, Popped, InView
<1>6. Known' \subseteq Known
  BY <1>1, <1>3, <1>4, InViewIs DEF Popped, Known
<1> QED BY <1>1, <1>5, <1>6 DEF Booked, Keeps, Popped

\* A tick that ends, with its entries in the queue or in the topic or their
\* waits ended, keeps the books if the queue does.
LEMMA EndBooked ==
    ASSUME Base, NEW s \in Servers, OnlyEnds(s), UNCHANGED <<inFlight, topic>>,
           Keeps(tickets, tickets'), queue' \subseteq Known,
           \A t \in DOMAIN tickets : tickets'[t].fate = "open" =>
               /\ tickets[t].fate = "open"
               /\ \A d \in queue \cup PairOf(s) : d.ticket = t => d \in queue' \cup EntriesOf(topic)
    PROVE  Booked
<1>1. PairOf(s)' = {} /\ \A r \in Servers \ {s} : PairOf(r)' = PairOf(r)
  BY EndedHold
<1>2. \A d : d \in Held' <=> \E r \in Servers : d \in PairOf(r)'
  BY DEF Held
<1>3. EntriesOf(topic)' = EntriesOf(topic) /\ EntriesOf(Sent)' = EntriesOf(Sent)
  BY DEF EntriesOf, Sent
<1>4. Followed
  <2> SUFFICES ASSUME NEW t \in DOMAIN tickets, tickets'[t].fate = "open",
                      NEW d \in InView, d.ticket = t
               PROVE  d \in InView'
    BY DEF Followed
  <2>1. CASE d \in queue \cup PairOf(s)
    BY <1>3, <2>1 DEF InView
  <2>2. ASSUME NEW r \in Servers \ {s}, d \in PairOf(r) PROVE d \in InView'
    BY <1>1, <1>2, <2>2 DEF InView
  <2>3. CASE d \in EntriesOf(topic)
    BY <1>3, <2>3 DEF InView
  <2> QED BY <2>1, <2>2, <2>3, InViewIs
<1>5. Known' \subseteq Known
  BY <1>1, <1>2, <1>3, InViewIs DEF Known
<1> QED BY <1>4, <1>5 DEF Booked

\* A tick that ends without a pair keeps the books when a pop was not read.
LEMMA UnreadPopBooked ==
    ASSUME Base, NEW s \in Servers, UnreadPop(s)
    PROVE  Booked
<1>1. PICK a \in queue, b \in queue : popPairLua(a, b) /\ tickets' = Ended(tickets, {a, b}, "unread")
  BY DEF UnreadPop
<1>2. PairOf(s) = {}
  BY PairIs DEF Base, UnreadPop, PopFails, HoldingSteps
<1>3. tickets \in Seq(Ticket)
  BY DEF Base, TypeInv, TypeOK
<1>4. /\ Keeps(tickets, tickets')
      /\ \A t \in DOMAIN tickets :
           tickets'[t].fate = IF \E e \in {a, b} : e.ticket = t THEN "unread" ELSE tickets[t].fate
  BY <1>1, <1>3, EndedIs DEF Keeps
<1>5. queue' = queue \ {a, b}
  BY <1>1 DEF popPairLua
<1>6. OnlyEnds(s) /\ UNCHANGED <<inFlight, topic>>
  BY FinishEnds DEF Base, UnreadPop, PopFails, pubsubVars
<1>7. queue' \subseteq Known
  BY <1>5 DEF Known
<1> QED BY <1>2, <1>4, <1>5, <1>6, <1>7, EndBooked

\* A confirmed pair is in the topic.
LEMMA PublishBooked ==
    ASSUME Base, NEW s \in Servers, PublishSucceeds(s)
    PROVE  Booked
<1>1. /\ OnlyEnds(s) /\ UNCHANGED <<queue, tickets, inFlight, topic>>
  BY FinishEnds DEF Base, PublishSucceeds, queueVars
<1>2. PairOf(s) = {tick[s].pair[1], tick[s].pair[2]}
  BY PairIs DEF Base, PublishSucceeds, HoldingSteps
<1>3. PairOf(s) \subseteq EntriesOf(topic)
  <2>1. MessageOf(s) \in topic /\ MessageOf(s).pair = tick[s].pair
    BY DEF PublishSucceeds, MessageOf, Message
  <2> QED BY <1>2, <2>1, InViewIs
<1>4. queue' \subseteq Known
  BY <1>1 DEF Known
<1> QED BY <1>1, <1>3, <1>4, EndBooked DEF Keeps

\* The books around a write-back: an entry of the queue or of the pair whose
\* wait is not ended is in the queue afterwards, if there is a write-back.
LEMMA WroteBackBooks ==
    ASSUME Base, NEW s \in Servers, tick[s].step \in HoldingSteps, WroteBack(s),
           NEW t \in DOMAIN tickets, Overwritten(s)[t].fate = "open",
           NEW d \in queue \cup PairOf(s), d.ticket = t
    PROVE  /\ tickets[t].fate = "open"
           /\ IsExpected(tick[s].gateway) \/ d \in queue => d \in queue'
<1>1. PairOf(s) = {tick[s].pair[1], tick[s].pair[2]}
  BY PairIs DEF Base
<1>2. tickets[t].fate = "open"
  BY OverwrittenIs DEF Base
<1>3. ~(/\ IsExpected(tick[s].gateway)
        /\ \E e \in queue : /\ e.ticket = t /\ IsOfPair(e, s)
                            /\ e # tick[s].pair[1] /\ e # tick[s].pair[2])
  BY OverwrittenIs DEF Base
<1> QED BY <1>1, <1>2, <1>3 DEF WroteBack

\* A write-back takes the place of entries whose waits it ends, and puts back
\* nothing but its pair.
LEMMA ReenqueueBooked ==
    ASSUME Base, NEW s \in Servers, Reenqueue(s)
    PROVE  Booked
<1>1. tick[s].step \in HoldingSteps /\ OnlyEnds(s) /\ UNCHANGED <<inFlight, topic>>
  BY FinishEnds DEF Base, Reenqueue, HoldingSteps, pubsubVars
<1>2. WroteBack(s)
  BY <1>1, WriteBackEffect DEF Reenqueue
<1>3. PairOf(s) = {tick[s].pair[1], tick[s].pair[2]}
  BY <1>1, PairIs DEF Base
<1>4. queue' \subseteq Known
  BY <1>2, <1>3, InViewIs DEF WroteBack
<1>5. CASE IsExpected(tick[s].gateway)
  <2>1. tickets' = Overwritten(s)
    BY <1>5 DEF Reenqueue
  <2>2. Keeps(tickets, tickets')
    BY <2>1, OverwrittenIs DEF Base
  <2>3. \A t \in DOMAIN tickets : tickets'[t].fate = "open" => tickets[t].fate = "open"
    BY <2>1, OverwrittenIs DEF Base
  <2> QED BY <1>1, <1>2, <1>4, <1>5, <2>1, <2>2, <2>3, WroteBackBooks, EndBooked
<1>6. CASE ~IsExpected(tick[s].gateway)
  <2>1. tickets' = Ended(tickets, PairOf(s), "dropped") /\ queue' = queue
    BY <1>2, <1>6 DEF Reenqueue, WroteBack
  <2>2. tickets \in Seq(Ticket)
    BY DEF Base, TypeInv, TypeOK
  <2>3. /\ Keeps(tickets, tickets')
        /\ \A t \in DOMAIN tickets :
             tickets'[t].fate = IF \E e \in PairOf(s) : e.ticket = t THEN "dropped" ELSE tickets[t].fate
    BY <2>1, <2>2, EndedIs DEF Keeps
  <2> QED BY <1>1, <1>4, <2>1, <2>3, EndBooked
<1> QED BY <1>5, <1>6

\* The same when the answer to the write-back is lost and the tick goes on.
LEMMA UnreadWriteBackBooked ==
    ASSUME Base, NEW s \in Servers, UnreadWriteBack(s)
    PROVE  Booked /\ WroteBack(s) /\ \A r \in Servers : SameHold(r)
<1>1. tick[s].step \in HoldingSteps /\ UNCHANGED <<inFlight, topic>> /\ tickets' = Overwritten(s)
  BY DEF UnreadWriteBack, ReenqueueFails, HoldingSteps, pubsubVars
<1>2. WroteBack(s)
  BY <1>1, WriteBackEffect DEF UnreadWriteBack
<1>3. \A r \in Servers : SameHold(r)
  <2>1. PICK step \in {"final", "backoff"} : Step(s, step)
    BY DEF UnreadWriteBack, ReenqueueFails
  <2> QED BY <1>1, <2>1, StepHolds DEF TickSteps, HoldingSteps, Base
<1>4. PairOf(s) = {tick[s].pair[1], tick[s].pair[2]} /\ PairOf(s) \subseteq Held
  BY <1>1, PairIs DEF Base, Held
<1>5. Held' = Held /\ EntriesOf(topic)' = EntriesOf(topic) /\ EntriesOf(Sent)' = EntriesOf(Sent)
  <2>1. \A r \in Servers : PairOf(r)' = PairOf(r)
    BY <1>3 DEF SameHold, PairOf
  <2> QED BY <1>1, <2>1 DEF Held, EntriesOf, Sent
<1>6. Keeps(tickets, tickets')
  BY <1>1, OverwrittenIs DEF Base
<1>7. Followed
  <2>1. \A t \in DOMAIN tickets : tickets'[t].fate = "open" => tickets[t].fate = "open"
    BY <1>1, OverwrittenIs DEF Base
  <2>2. \A t \in DOMAIN tickets : tickets'[t].fate = "open" =>
            \A d \in queue : d.ticket = t => d \in queue'
    BY <1>1, <1>2, WroteBackBooks
  <2> QED BY <1>5, <2>1, <2>2 DEF Followed, InView
<1>8. Known' \subseteq Known
  BY <1>2, <1>4, <1>5 DEF WroteBack, Known
<1> QED BY <1>2, <1>3, <1>6, <1>7, <1>8 DEF Booked

\* A pair that is given up is logged as lost, whether or not it was written.
LEMMA LoseBooked ==
    ASSUME Base, NEW s \in Servers, LosePair(s)
    PROVE  Booked
<1>1. tick[s].step \in HoldingSteps /\ OnlyEnds(s) /\ UNCHANGED <<inFlight, topic>>
  BY FinishEnds DEF Base, LosePair, HoldingSteps, pubsubVars
<1>2. PairOf(s) = {tick[s].pair[1], tick[s].pair[2]}
  BY <1>1, PairIs DEF Base
<1>3. tickets \in Seq(Ticket)
  BY DEF Base, TypeInv, TypeOK
<1>4. CASE UNCHANGED queueVars /\ tickets' = Ended(tickets, PairOf(s), "lost")
  <2>1. /\ Keeps(tickets, tickets')
        /\ \A t \in DOMAIN tickets :
             tickets'[t].fate = IF \E e \in PairOf(s) : e.ticket = t THEN "lost" ELSE tickets[t].fate
    BY <1>3, <1>4, EndedIs DEF Keeps
  <2>2. queue' = queue /\ queue' \subseteq Known
    BY <1>4 DEF queueVars, Known
  <2> QED BY <1>1, <2>1, <2>2, EndBooked
<1>5. CASE WriteBack(s) /\ tickets' = Ended(Overwritten(s), PairOf(s), "lost")
  <2>1. WroteBack(s)
    BY <1>1, <1>5, WriteBackEffect
  <2>2. Overwritten(s) \in Seq(Ticket) /\ Keeps(tickets, Overwritten(s))
    BY OverwrittenIs DEF Base
  <2>3. /\ Keeps(Overwritten(s), tickets')
        /\ \A t \in DOMAIN tickets :
             tickets'[t].fate = IF \E e \in PairOf(s) : e.ticket = t THEN "lost"
                                                                     ELSE Overwritten(s)[t].fate
    BY <1>5, <2>2, EndedIs DEF Keeps
  <2>4. Keeps(tickets, tickets')
    BY <2>2, <2>3 DEF Keeps
  <2>5. queue' \subseteq Known
    BY <1>2, <2>1, InViewIs DEF WroteBack
  <2>6. \A t \in DOMAIN tickets : tickets'[t].fate = "open" =>
          /\ tickets[t].fate = "open"
          /\ \A d \in queue \cup PairOf(s) : d.ticket = t => d \in queue'
    <3> SUFFICES ASSUME NEW t \in DOMAIN tickets, tickets'[t].fate = "open"
                 PROVE  /\ tickets[t].fate = "open"
                        /\ \A d \in queue \cup PairOf(s) : d.ticket = t => d \in queue'
      OBVIOUS
    <3>1. Overwritten(s)[t].fate = "open" /\ \A e \in PairOf(s) : e.ticket # t
      BY <2>3
    <3>2. tickets[t].fate = "open"
      BY <3>1, OverwrittenIs DEF Base
    <3> QED BY <1>1, <2>1, <3>1, <3>2, WroteBackBooks
  <2> QED BY <1>1, <2>4, <2>5, <2>6, EndBooked
<1> QED BY <1>4, <1>5 DEF LosePair

\* Cancel and an eviction end the waits of the entries they remove.
LEMMA RemovalBooked ==
    ASSUME Base, (\E p \in Players : Cancel(p)) \/ Evict
    PROVE  Booked /\ queue' \subseteq queue
<1>1. tickets \in Seq(Ticket)
  BY DEF Base, TypeInv, TypeOK
<1>2. UNCHANGED <<tick, inFlight, topic>>
  BY DEF Cancel, Evict, tickVars, pubsubVars
<1>3. Held' = Held /\ EntriesOf(topic)' = EntriesOf(topic) /\ EntriesOf(Sent)' = EntriesOf(Sent)
  BY <1>2 DEF Held, PairOf, EntriesOf, Sent
<1>4. \/ queue' = queue /\ tickets' = tickets
      \/ \E removed, fate : /\ queue' = queue \ removed /\ fate # "open"
                            /\ tickets' = Ended(tickets, removed, fate)
  <2>1. ASSUME NEW p \in Players, Cancel(p)
        PROVE  \E removed, fate : /\ queue' = queue \ removed /\ fate # "open"
                                  /\ tickets' = Ended(tickets, removed, fate)
    <3>1. queue' = queue \ (queue \ removePlayerEntries(queue, p))
      BY <2>1 DEF Cancel, cancelLua, removePlayerEntries
    <3>2. tickets' = Ended(tickets, queue \ removePlayerEntries(queue, p), "cancelled")
      BY <2>1 DEF Cancel
    <3> QED BY <3>1, <3>2, "cancelled" # "open"
  <2>2. ASSUME Evict
        PROVE  \/ queue' = queue /\ tickets' = tickets
               \/ queue' = queue \ queue /\ tickets' = Ended(tickets, queue, "evicted")
    BY <2>2 DEF Evict, EvictInstanceID, EvictQueue
  <2> QED BY <2>1, <2>2, "evicted" # "open"
<1>5. ASSUME NEW removed, NEW fate, queue' = queue \ removed, fate # "open",
             tickets' = Ended(tickets, removed, fate)
      PROVE  Keeps(tickets, tickets') /\ Followed /\ queue' \subseteq queue
  <2>1. /\ Keeps(tickets, tickets')
        /\ \A t \in DOMAIN tickets :
             tickets'[t].fate = IF \E e \in removed : e.ticket = t THEN fate ELSE tickets[t].fate
    BY <1>1, <1>5, EndedIs DEF Keeps
  <2> QED BY <1>3, <1>5, <2>1 DEF Followed, InView
<1>6. ASSUME queue' = queue, tickets' = tickets
      PROVE  Keeps(tickets, tickets') /\ Followed /\ queue' \subseteq queue
  BY <1>3, <1>6 DEF Keeps, Followed, InView
<1>7. Keeps(tickets, tickets') /\ Followed /\ queue' \subseteq queue
  BY <1>4, <1>5, <1>6
<1> QED BY <1>3, <1>7 DEF Booked, Known

\* What an enqueue does: it ends the waits of the entries it removes and
\* writes an entry for its own ticket, which nobody had before.
Joined(p, g, t) ==
    LET e == [player |-> p, joinedAt |-> t, ticket |-> Len(tickets) + 1]
    IN  /\ queue' = {d \in Kept(g) : d.player # p} \cup {e} /\ instanceID' = g
        /\ UNCHANGED <<tick, inFlight, topic, acked, issued, ctxDone, faults>>
        /\ e.ticket \notin DOMAIN tickets /\ DOMAIN tickets' = DOMAIN tickets \cup {e.ticket}
        /\ tickets'[e.ticket] = [player |-> p, gateway |-> g, joinedAt |-> t, fate |-> "open"]
        /\ \A u \in DOMAIN tickets :
             /\ tickets'[u].player = tickets[u].player
             /\ tickets'[u].gateway = tickets[u].gateway
             /\ tickets'[u].joinedAt = tickets[u].joinedAt
             /\ tickets'[u].fate \in {tickets[u].fate, "reset", "replaced"}
             /\ tickets'[u].fate = "open" => \A d \in queue : d.ticket = u => d \in queue'

\* What enqueue does: the player's new entry is the last ticket, and only entries
\* of an earlier gateway process or of the same player leave the queue.
LEMMA EnqueueEffect ==
    ASSUME Base, NEW p \in Players, NEW g \in Gateways, NEW t \in Times, Enqueue(p, g, t)
    PROVE  Joined(p, g, t)
<1> DEFINE e == [player |-> p, joinedAt |-> t, ticket |-> Len(tickets) + 1]
           h1 == Ended(tickets, queue \ Kept(g), "reset")
           h2 == Ended(h1, Replaced(Kept(g), e), "replaced")
           n == [player |-> p, gateway |-> g, joinedAt |-> t, fate |-> "open"]
<1>1. tickets \in Seq(Ticket) /\ DOMAIN tickets = 1..Len(tickets) /\ Len(tickets) \in Nat
  BY DEF Base, TypeInv, TypeOK
<1>2. h1 \in Seq(Ticket) /\ h2 \in Seq(Ticket) /\ Len(h2) = Len(tickets)
  BY <1>1, EndedType DEF Fates
<1>3. DOMAIN h1 = DOMAIN tickets /\ DOMAIN h2 = DOMAIN tickets
  BY <1>1, <1>2, EndedIs
<1>4. e.player = p /\ e.ticket = Len(tickets) + 1
  OBVIOUS
<1>5. Replaced(Kept(g), e) = {d \in Kept(g) : d.player = p} /\ Kept(g) \subseteq queue
  BY <1>4 DEF Replaced, removePlayerEntries, Kept
<1>6. queue' = {d \in Kept(g) : d.player # p} \cup {e} /\ instanceID' = g
  BY <1>4 DEF Enqueue, enqueueLua, Put, removePlayerEntries
<1>7. tickets' = Append(h2, n)
  BY DEF Enqueue
<1>8. \A u \in DOMAIN tickets :
        /\ h2[u].player = tickets[u].player /\ h2[u].gateway = tickets[u].gateway
        /\ h2[u].joinedAt = tickets[u].joinedAt
        /\ h2[u].fate = IF \E d \in Replaced(Kept(g), e) : d.ticket = u THEN "replaced"
                        ELSE IF \E d \in queue \ Kept(g) : d.ticket = u THEN "reset"
                        ELSE tickets[u].fate
  <2> SUFFICES ASSUME NEW u \in DOMAIN tickets
               PROVE  /\ h2[u].player = tickets[u].player /\ h2[u].gateway = tickets[u].gateway
                      /\ h2[u].joinedAt = tickets[u].joinedAt
                      /\ h2[u].fate = IF \E d \in Replaced(Kept(g), e) : d.ticket = u THEN "replaced"
                                      ELSE IF \E d \in queue \ Kept(g) : d.ticket = u THEN "reset"
                                      ELSE tickets[u].fate
    OBVIOUS
  <2>1. /\ h1[u].player = tickets[u].player /\ h1[u].gateway = tickets[u].gateway
        /\ h1[u].joinedAt = tickets[u].joinedAt
        /\ h1[u].fate = IF \E d \in queue \ Kept(g) : d.ticket = u THEN "reset" ELSE tickets[u].fate
    BY <1>1, EndedIs
  <2>2. /\ h2[u].player = h1[u].player /\ h2[u].gateway = h1[u].gateway
        /\ h2[u].joinedAt = h1[u].joinedAt
        /\ h2[u].fate = IF \E d \in Replaced(Kept(g), e) : d.ticket = u THEN "replaced" ELSE h1[u].fate
    BY <1>2, <1>3, EndedIs
  <2> HIDE DEF h1, h2, e
  <2> QED BY <2>1, <2>2
<1> HIDE DEF h1, h2
<1>9. /\ DOMAIN tickets' = DOMAIN tickets \cup {Len(tickets) + 1}
      /\ tickets'[Len(tickets) + 1] = n
      /\ \A u \in DOMAIN tickets : tickets'[u] = h2[u]
  BY <1>1, <1>2, <1>7
<1>10. UNCHANGED <<tick, inFlight, topic, acked, issued, ctxDone, faults>>
  BY DEF Enqueue, tickVars, pubsubVars
<1>11. Len(tickets) + 1 \notin DOMAIN tickets
  BY <1>1
<1>12. \A u \in DOMAIN tickets :
         /\ h2[u].fate \in {tickets[u].fate, "reset", "replaced"}
         /\ h2[u].fate = "open" => \A d \in queue : d.ticket = u => d \in queue'
  BY <1>5, <1>6, <1>8
<1> QED BY <1>4, <1>6, <1>8, <1>9, <1>10, <1>11, <1>12 DEF Joined

\* Every step keeps the books or is an enqueue.
LEMMA StepBooked ==
    ASSUME Base, [Next]_vars
    PROVE  \/ Booked
           \/ \E p \in Players, g \in Gateways, t \in Times : Enqueue(p, g, t) /\ Joined(p, g, t)
BY StepEffect, QuietBooked, PopBooked, UnreadPopBooked, PublishBooked, ReenqueueBooked,
   UnreadWriteBackBooked, LoseBooked, RemovalBooked, EnqueueEffect DEF Moves

\* The entries an enqueue leaves in view and in existence.
LEMMA JoinedSets ==
    ASSUME NEW p \in Players, NEW g \in Gateways, NEW t \in Times, Joined(p, g, t)
    PROVE  LET e == [player |-> p, joinedAt |-> t, ticket |-> Len(tickets) + 1]
           IN  /\ Held' = Held /\ EntriesOf(topic)' = EntriesOf(topic)
               /\ queue' \subseteq queue \cup {e} /\ e \in queue'
               /\ Known' \subseteq Known \cup {e}
<1>1. Held' = Held /\ EntriesOf(topic)' = EntriesOf(topic) /\ EntriesOf(Sent)' = EntriesOf(Sent)
  BY DEF Joined, Held, PairOf, EntriesOf, Sent
<1> QED BY <1>1 DEF Joined, Kept, Known

\* An entry says who joined and when as the enqueue call of its ticket did.
EntryTrue(d) ==
    /\ d.ticket \in DOMAIN tickets
    /\ d.player = tickets[d.ticket].player
    /\ d.joinedAt = tickets[d.ticket].joinedAt

EntriesTrue == \A d \in Known : EntryTrue(d)

\* NoSilentLoss without the messages that are not accepted yet.
NothingForgotten ==
    \A t \in DOMAIN tickets : tickets[t].fate = "open" => \E d \in InView : d.ticket = t

\* Every step keeps the entries true.
LEMMA EntriesTrueStep ==
    ASSUME Base, EntriesTrue, [Next]_vars
    PROVE  EntriesTrue'
<1>1. CASE Booked
  BY <1>1 DEF Booked, Keeps, EntriesTrue, EntryTrue
<1>2. ASSUME NEW p \in Players, NEW g \in Gateways, NEW t \in Times, Joined(p, g, t)
      PROVE  EntriesTrue'
  <2>e. PICK e : e = [player |-> p, joinedAt |-> t, ticket |-> Len(tickets) + 1]
    OBVIOUS
  <2>1. Known' \subseteq Known \cup {e}
    BY <1>2, <2>e, JoinedSets
  <2>2. EntryTrue(e)'
    BY <1>2, <2>e DEF Joined, EntryTrue
  <2>3. \A d \in Known : EntryTrue(d)'
    BY <1>2 DEF Joined, EntriesTrue, EntryTrue
  <2> QED BY <2>1, <2>2, <2>3 DEF EntriesTrue
<1> QED BY <1>1, <1>2, StepBooked

\* No step forgets a ticket.
LEMMA NothingForgottenStep ==
    ASSUME Base, NothingForgotten, [Next]_vars
    PROVE  NothingForgotten'
<1>1. CASE Booked
  BY <1>1 DEF Booked, Keeps, Followed, NothingForgotten
<1>2. ASSUME NEW p \in Players, NEW g \in Gateways, NEW t \in Times, Joined(p, g, t)
      PROVE  NothingForgotten'
  <2> DEFINE e == [player |-> p, joinedAt |-> t, ticket |-> Len(tickets) + 1]
  <2>1. e \in InView' /\ Held' = Held /\ EntriesOf(topic)' = EntriesOf(topic)
    BY <1>2, JoinedSets DEF InView
  <2>2. \A u \in DOMAIN tickets : tickets'[u].fate = "open" => tickets[u].fate = "open"
    BY <1>2 DEF Joined
  <2>3. \A u \in DOMAIN tickets : tickets'[u].fate = "open" =>
            \A d \in InView : d.ticket = u => d \in InView'
    BY <1>2, <2>1 DEF Joined, InView
  <2>4. \A u \in DOMAIN tickets' : u \in DOMAIN tickets \/ u = e.ticket
    BY <1>2 DEF Joined
  <2> HIDE DEF e
  <2> QED BY <2>1, <2>2, <2>3, <2>4 DEF NothingForgotten
<1> QED BY <1>1, <1>2, StepBooked

\* Faults are only ever added.
LEMMA FaultsGrow ==
    ASSUME Base, [Next]_vars
    PROVE  faults'.redis >= faults.redis /\ faults'.evictions >= faults.evictions
<1>0. faults \in [redis : Nat, publish : Nat, evictions : Nat]
  BY DEF Base, TypeInv, TypeOK
<1>1. CASE faults' = faults
  BY <1>0, <1>1
<1>2. CASE RedisFault
  BY <1>0, <1>2 DEF RedisFault
<1>3. CASE Evict
  BY <1>0, <1>3 DEF Evict
<1>4. ASSUME NEW s \in Servers, PublishFails(s)
      PROVE  faults'.redis >= faults.redis /\ faults'.evictions >= faults.evictions
  BY <1>0, <1>4 DEF PublishFails, CtxFault
<1>5. ASSUME NEW s \in Servers, TickStep(s), ~PublishFails(s) PROVE faults' = faults \/ RedisFault
  BY <1>5 DEF TickStep, BeginTick, PopPair, PopEmpty, PopFails, PublishSucceeds, Reenqueue,
              ReenqueueFails, BackoffEnds, BackoffCancelled, LosePair, CtxFault
<1>6. ASSUME NEW s \in Servers, Shutdown(s) \/ TickerFires(s) \/ RunStep(s) PROVE faults' = faults
  BY <1>6 DEF Shutdown, TickerFires, RunStep, startTick, ReceiveTickDone, StartDrain,
              DrainCompletes, DrainTimesOut, runUnchanged
<1>7. CASE \/ \E p \in Players, g \in Gateways, t \in Times : Enqueue(p, g, t)
           \/ \E p \in Players : Cancel(p)
           \/ Elapse \/ \E m \in inFlight : Deliver(m)
           \/ UNCHANGED vars
  BY <1>1, <1>7 DEF Enqueue, Cancel, Elapse, Deliver, vars
<1> QED BY <1>1, <1>2, <1>3, <1>4, <1>5, <1>6, <1>7 DEF Next

\* Only a pop whose reply was lost makes a ticket unread.
LEMMA UnreadByUnreadPop ==
    ASSUME Base, [Next]_vars, ~\E s \in Servers : UnreadPop(s)
    PROVE  Unread' \subseteq Unread
<1> SUFFICES ASSUME NEW t \in DOMAIN tickets', tickets'[t].fate = "unread"
             PROVE  t \in DOMAIN tickets /\ tickets[t].fate = "unread"
  BY DEF Unread
<1>0. tickets \in Seq(Ticket)
  BY DEF Base, TypeInv, TypeOK
<1>1. CASE tickets' = tickets
  BY <1>1
<1>2. ASSUME NEW entries, NEW fate, fate # "unread", tickets' = Ended(tickets, entries, fate)
      PROVE  t \in DOMAIN tickets /\ tickets[t].fate = "unread"
  BY <1>0, <1>2, EndedIs
<1>3. ASSUME NEW s \in Servers, tickets' = Overwritten(s)
      PROVE  t \in DOMAIN tickets /\ tickets[t].fate = "unread"
  BY <1>3, OverwrittenIs DEF Base, Keeps
<1>4. ASSUME NEW s \in Servers, tickets' = Ended(Overwritten(s), PairOf(s), "lost")
      PROVE  t \in DOMAIN tickets /\ tickets[t].fate = "unread"
  <2>1. Overwritten(s) \in Seq(Ticket)
    BY OverwrittenIs DEF Base
  <2>2. t \in DOMAIN Overwritten(s) /\ Overwritten(s)[t].fate = "unread"
    BY <1>4, <2>1, EndedIs
  <2> QED BY <2>2, OverwrittenIs DEF Base, Keeps
<1>5. ASSUME NEW p \in Players, NEW g \in Gateways, NEW u \in Times, Joined(p, g, u)
      PROVE  t \in DOMAIN tickets /\ tickets[t].fate = "unread"
  BY <1>5 DEF Joined
<1>6. CASE (\E p \in Players : Cancel(p)) \/ Evict
  BY <1>1, <1>2, <1>6, "cancelled" # "unread", "evicted" # "unread" DEF Cancel, Evict
<1>7. ASSUME NEW s \in Servers, \/ PopPair(s) \/ PublishSucceeds(s) \/ Reenqueue(s)
                                \/ UnreadWriteBack(s) \/ LosePair(s)
      PROVE  t \in DOMAIN tickets /\ tickets[t].fate = "unread"
  BY <1>1, <1>2, <1>3, <1>4, <1>7, "dropped" # "unread", "lost" # "unread"
     DEF PopPair, PublishSucceeds, Reenqueue, UnreadWriteBack, LosePair
<1> QED BY <1>1, <1>5, <1>6, <1>7, StepEffect, EnqueueEffect DEF Moves, Quiet

\* Such a pop takes two tickets, and is a failed Redis call.
LEMMA UnreadPopTakesTwo ==
    ASSUME Base, NEW s \in Servers, UnreadPop(s)
    PROVE  /\ \E t, u : Unread' \subseteq (Unread \cup {t}) \cup {u}
           /\ faults'.redis = faults.redis + 1
<1>1. PICK a \in queue, b \in queue : tickets' = Ended(tickets, {a, b}, "unread")
  BY DEF UnreadPop
<1>2. tickets \in Seq(Ticket) /\ faults \in [redis : Nat, publish : Nat, evictions : Nat]
  BY DEF Base, TypeInv, TypeOK
<1>3. /\ DOMAIN tickets' = DOMAIN tickets
      /\ \A t \in DOMAIN tickets :
           tickets'[t].fate = IF \E e \in {a, b} : e.ticket = t THEN "unread" ELSE tickets[t].fate
  BY <1>1, <1>2, EndedIs
<1>4. Unread' \subseteq (Unread \cup {a.ticket}) \cup {b.ticket}
  BY <1>3 DEF Unread
<1>5. faults'.redis = faults.redis + 1
  BY <1>2 DEF UnreadPop, RedisFault
<1> QED BY <1>4, <1>5

\* A history has finitely many unread tickets.
LEMMA UnreadFinite ==
    ASSUME NEW h \in Seq(Ticket)
    PROVE  LET unread == {t \in DOMAIN h : h[t].fate = "unread"}
           IN  IsFiniteSet(unread) /\ Cardinality(unread) \in Nat
<1> DEFINE unread == {t \in DOMAIN h : h[t].fate = "unread"}
<1>1. DOMAIN h = 1..Len(h) /\ Len(h) \in Int
  OBVIOUS
<1>2. IsFiniteSet(1..Len(h))
  BY <1>1, 1 \in Int, FS_Interval
<1>3. unread \in SUBSET (1..Len(h))
  BY <1>1
<1> HIDE DEF unread
<1>4. IsFiniteSet(unread)
  BY <1>2, <1>3, FS_Subset
<1>5. Cardinality(unread) \in Nat
  BY <1>4, FS_CardinalityType
<1> QED BY <1>4, <1>5 DEF unread

\* Two more elements are at most two more.
LEMMA TwoMore ==
    ASSUME NEW S, IsFiniteSet(S), NEW t, NEW u, NEW T \in SUBSET ((S \cup {t}) \cup {u})
    PROVE  Cardinality(T) <= Cardinality(S) + 2
<1> DEFINE one == S \cup {t}  two == one \cup {u}
<1>1. IsFiniteSet(one) /\ Cardinality(one) = IF t \in S THEN Cardinality(S) ELSE Cardinality(S) + 1
  BY FS_AddElement
<1>2. T \in SUBSET two
  OBVIOUS
<1> HIDE DEF one
<1>3. IsFiniteSet(two) /\ Cardinality(two) = IF u \in one THEN Cardinality(one) ELSE Cardinality(one) + 1
  BY <1>1, FS_AddElement
<1> HIDE DEF two
<1>4. IsFiniteSet(T) /\ Cardinality(T) <= Cardinality(two)
  BY <1>2, <1>3, FS_Subset
<1>5. {Cardinality(S), Cardinality(one), Cardinality(two), Cardinality(T)} \subseteq Nat
  BY <1>1, <1>3, <1>4, FS_CardinalityType
<1> QED BY <1>1, <1>3, <1>4, <1>5

UnreadBounded == Cardinality(Unread) <= 2 * faults.redis

\* No step takes more pairs silently than Redis calls failed.
LEMMA UnreadBoundedStep ==
    ASSUME Base, UnreadBounded, [Next]_vars
    PROVE  UnreadBounded'
<1>0. /\ IsFiniteSet(Unread) /\ Cardinality(Unread) \in Nat
      /\ IsFiniteSet(Unread)' /\ Cardinality(Unread)' \in Nat
      /\ faults.redis \in Nat /\ faults'.redis \in Nat
  <2>1. TypeOK /\ TypeOK'
    BY BaseStep DEF Base, TypeInv
  <2>2. tickets \in Seq(Ticket) /\ tickets' \in Seq(Ticket)
    BY <2>1 DEF TypeOK
  <2>3. faults.redis \in Nat /\ faults'.redis \in Nat
    BY <2>1 DEF TypeOK
  <2> QED BY <2>2, <2>3, UnreadFinite DEF Unread
<1>1. CASE ~\E s \in Servers : UnreadPop(s)
  <2>1. Unread' \in SUBSET Unread
    BY <1>1, UnreadByUnreadPop
  <2>2. Cardinality(Unread') <= Cardinality(Unread)
    BY <1>0, <2>1, FS_Subset
  <2>3. faults'.redis >= faults.redis
    BY FaultsGrow
  <2> QED BY <1>0, <2>2, <2>3 DEF UnreadBounded
<1>2. ASSUME NEW s \in Servers, UnreadPop(s) PROVE UnreadBounded'
  <2>1. PICK t, u : Unread' \subseteq (Unread \cup {t}) \cup {u}
    BY <1>2, UnreadPopTakesTwo
  <2>2. Unread' \in SUBSET ((Unread \cup {t}) \cup {u})
    BY <2>1
  <2>3. Cardinality(Unread') <= Cardinality(Unread) + 2
    BY <1>0, <2>2, TwoMore
  <2>4. faults'.redis = faults.redis + 1
    BY <1>2, UnreadPopTakesTwo
  <2> QED BY <1>0, <2>3, <2>4 DEF UnreadBounded
<1> QED BY <1>1, <1>2

\* In the beginning nobody waits, nobody is held and no call was made.
LEMMA Beginning ==
    ASSUME MatcherInit
    PROVE  Known = {} /\ InView = {} /\ DOMAIN tickets = {}
<1>1. \A s \in Servers : PairOf(s) = {}
  <2>1. \A s \in Servers : tick[s].pair = <<>>
    BY DEF MatcherInit, idleTick, NoPair
  <2> QED BY <2>1 DEF PairOf
<1>2. Held = {} /\ EntriesOf({}) = {}
  BY <1>1 DEF Held, EntriesOf
<1> QED BY <1>2 DEF MatcherInit, QueueInit, Known, InView, Sent

\* Every entry in the queue or in a tick's hands agrees with the enqueue call it
\* came from, in every reachable state.
LEMMA EntriesTrueInvariance == Spec => []EntriesTrue
<1>1. MatcherInit => EntriesTrue
  BY Beginning DEF EntriesTrue
<1>2. Base /\ EntriesTrue /\ [Next]_vars => EntriesTrue'
  BY EntriesTrueStep
<1> QED BY <1>1, <1>2, BaseInvariance, PTL DEF Spec

\* Every enqueue call that nothing ended (a cancel, a new join, a change of
\* gateway process, an eviction, a logged loss) is waiting, held by a tick or
\* in a message, except the pairs of pops whose reply was lost, of which there
\* are no more than failed Redis calls: no other interleaving of ticks,
\* requests, retries and failures of any number of instances makes a player
\* disappear without a trace.
THEOREM NobodyIsForgotten == Spec => []NoSilentLoss
<1>1. MatcherInit => NothingForgotten /\ UnreadBounded
  <2> SUFFICES ASSUME MatcherInit PROVE NothingForgotten /\ UnreadBounded
    OBVIOUS
  <2>1. Unread = {}
    BY Beginning DEF Unread
  <2>2. Cardinality({}) = 0 /\ faults.redis = 0
    BY FS_EmptySet DEF MatcherInit
  <2> QED BY <2>1, <2>2, Beginning DEF NothingForgotten, UnreadBounded
<1>2. Base /\ NothingForgotten /\ [Next]_vars => NothingForgotten'
  BY NothingForgottenStep
<1>3. Base /\ UnreadBounded /\ [Next]_vars => UnreadBounded'
  BY UnreadBoundedStep
<1>4. NothingForgotten /\ UnreadBounded => NoSilentLoss
  <2> SUFFICES ASSUME NothingForgotten, NEW t \in DOMAIN tickets, tickets[t].fate = "open"
               PROVE  t \in TicketsOf(queue \cup Held \cup EntriesOf(inFlight \cup topic))
    BY DEF NoSilentLoss, UnreadBounded
  <2>1. PICK d \in InView : d.ticket = t
    BY DEF NothingForgotten
  <2>2. d \in queue \cup Held \cup EntriesOf(inFlight \cup topic)
    BY DEF InView, EntriesOf
  <2> QED BY <2>1, <2>2 DEF TicketsOf
<1> QED BY <1>1, <1>2, <1>3, <1>4, BaseInvariance, PTL DEF Spec

\* First come, first served: whoever is left waiting by a pop joined no
\* earlier than the two it took, by the time of their enqueue calls, however
\* often a pair was popped and written back.
THEOREM FirstComeFirstServed == Spec => PopsEarliest
<1> DEFINE Earliest == \A s \in Servers :
             tick[s].step = "popping" /\ tick'[s].step = "publishing" =>
                 \A h \in PairOf(s)', w \in queue' :
                     tickets[h.ticket].joinedAt <= tickets[w.ticket].joinedAt
<1>1. Base /\ EntriesTrue /\ [Next]_vars => Earliest
  <2> SUFFICES ASSUME Base, EntriesTrue, [Next]_vars, NEW s \in Servers,
                      tick[s].step = "popping", tick'[s].step = "publishing"
               PROVE  \A h \in PairOf(s)', w \in queue' :
                          tickets[h.ticket].joinedAt <= tickets[w.ticket].joinedAt
    OBVIOUS
  <2>1. ~Quiet
    BY DEF Quiet, SameHold
  <2>2. tick' # tick
    OBVIOUS
  <2>3. ASSUME NEW r \in Servers, Finish(r) PROVE FALSE
    BY <2>3, FinishEnds DEF OnlyEnds, Base, idleTick
  <2>4. ASSUME NEW r \in Servers, UnreadWriteBack(r) PROVE FALSE
    BY <2>4, UnreadWriteBackBooked DEF SameHold
  <2>5. PICK r \in Servers : PopPair(r)
    BY <2>1, <2>2, <2>3, <2>4, StepEffect
       DEF Moves, Enqueue, Cancel, Evict, tickVars, UnreadPop, PopFails,
           PublishSucceeds, Reenqueue, LosePair
  <2>6. PICK a \in queue, b \in queue : Popped(r, a, b)
    BY <2>5, PopEffect
  <2>7. r = s /\ PairOf(s)' = {a, b} /\ queue' = queue \ {a, b} /\ PopMin2(queue, a, b)
    BY <2>6 DEF Popped
  <2>8. \A d \in queue : d.joinedAt \in Nat /\ d.joinedAt = tickets[d.ticket].joinedAt
    BY DEF EntriesTrue, EntryTrue, Known, Base, TypeInv, TypeOK, Entry
  <2>9. \A w \in queue \ {a, b} : a.joinedAt <= w.joinedAt /\ b.joinedAt <= w.joinedAt
    BY <2>7, <2>8 DEF PopMin2, Before
  <2> QED BY <2>7, <2>8, <2>9
<1> QED BY <1>1, BaseInvariance, EntriesTrueInvariance, PTL DEF Spec, PopsEarliest
-----------------------------------------------------------------------------
(* Where a ticket can be at the same time *)

\* The queue gets at most the pair of s, and that under the expected identifier.
GivesBack(s) ==
    /\ UNCHANGED instanceID
    /\ \/ queue' \subseteq queue
       \/ IsExpected(tick[s].gateway) /\ queue' \subseteq queue \cup PairOf(s)

\* The tick of s ends, with a confirmation only if it was publishing.
Ends(s) ==
    /\ OnlyEnds(s) /\ GivesBack(s) /\ UNCHANGED <<inFlight, topic, issued>>
    /\ acked' = acked \/ PublishSucceeds(s)

\* The pair of s is in the queue, and its tick still holds it.
Doubles(s) ==
    /\ RedisFault /\ tick[s].step = "reenqueueing"
    /\ (\A r \in Servers : SameHold(r)) /\ GivesBack(s)
    /\ UNCHANGED <<inFlight, topic, issued, acked>>

\* Nothing changes hands; entries may leave the queue.
Stays ==
    /\ queue' \subseteq queue /\ \A s \in Servers : SameHold(s)
    /\ Sent' \subseteq Sent /\ UNCHANGED <<issued, acked>>
    /\ UNCHANGED instanceID \/ Evict

\* The shape of a write-back.
LEMMA WroteBackGives ==
    ASSUME Base, NEW s \in Servers, tick[s].step \in HoldingSteps, WroteBack(s)
    PROVE  GivesBack(s)
<1>1. PairOf(s) = {tick[s].pair[1], tick[s].pair[2]}
  BY PairIs DEF Base
<1> QED BY <1>1 DEF WroteBack, GivesBack

\* The shape of every step.
LEMMA StepShape ==
    ASSUME Base, [Next]_vars
    PROVE  \/ \E p \in Players, g \in Gateways, t \in Times : Joined(p, g, t)
           \/ \E s \in Servers : \E a, b \in queue : Popped(s, a, b)
           \/ \E s \in Servers : Ends(s) \/ Doubles(s)
           \/ Stays
<1>1. CASE Quiet
  BY <1>1 DEF Quiet, Stays
<1>2. CASE (\E p \in Players : Cancel(p)) \/ Evict
  <2>1. queue' \subseteq queue
    BY <1>2, RemovalBooked
  <2>2. UNCHANGED <<tick, inFlight, topic, issued, acked>> /\ (UNCHANGED instanceID \/ Evict)
    BY <1>2 DEF Cancel, cancelLua, Evict, tickVars, pubsubVars
  <2> QED BY <2>1, <2>2 DEF Stays, SameHold, Sent
<1>3. ASSUME NEW s \in Servers, UnreadPop(s) PROVE Ends(s)
  <2>1. queue' \subseteq queue /\ UNCHANGED instanceID
    BY <1>3 DEF UnreadPop, popPairLua
  <2>2. Finish(s) /\ UNCHANGED <<inFlight, topic, issued, acked>>
    BY <1>3 DEF UnreadPop, PopFails, pubsubVars
  <2> QED BY <2>1, <2>2, FinishEnds DEF Base, Ends, GivesBack
<1>4. ASSUME NEW s \in Servers, PublishSucceeds(s) PROVE Ends(s)
  BY <1>4, FinishEnds DEF Base, PublishSucceeds, Ends, GivesBack, queueVars
<1>5. ASSUME NEW s \in Servers, Reenqueue(s) PROVE Ends(s)
  <2>1. tick[s].step \in HoldingSteps /\ Finish(s) /\ WriteBack(s)
        /\ UNCHANGED <<inFlight, topic, issued, acked>>
    BY <1>5 DEF Reenqueue, HoldingSteps, pubsubVars
  <2> QED BY <2>1, FinishEnds, WriteBackEffect, WroteBackGives DEF Base, Ends
<1>6. ASSUME NEW s \in Servers, LosePair(s) PROVE Ends(s)
  <2>1. /\ tick[s].step \in HoldingSteps /\ Finish(s)
        /\ UNCHANGED <<inFlight, topic, issued, acked>>
        /\ UNCHANGED queueVars \/ WriteBack(s)
    BY <1>6 DEF LosePair, HoldingSteps, pubsubVars
  <2>2. GivesBack(s)
    <3>1. CASE UNCHANGED queueVars
      BY <3>1 DEF GivesBack, queueVars
    <3>2. CASE WriteBack(s)
      BY <2>1, <3>2, WriteBackEffect, WroteBackGives
    <3> QED BY <2>1, <3>1, <3>2
  <2> QED BY <2>1, <2>2, FinishEnds DEF Base, Ends
<1>7. ASSUME NEW s \in Servers, UnreadWriteBack(s) PROVE Doubles(s)
  <2>1. /\ tick[s].step = "reenqueueing" /\ RedisFault
        /\ UNCHANGED <<inFlight, topic, issued, acked>>
    BY <1>7 DEF UnreadWriteBack, ReenqueueFails, pubsubVars
  <2>2. WroteBack(s) /\ \A r \in Servers : SameHold(r)
    BY <1>7, UnreadWriteBackBooked
  <2> QED BY <2>1, <2>2, WroteBackGives DEF Doubles, HoldingSteps
<1> QED BY <1>1, <1>2, <1>3, <1>4, <1>5, <1>6, <1>7, StepEffect, EnqueueEffect, PopEffect DEF Moves

\* Two entries of one ticket are the same entry.
LEMMA TicketIdentifies ==
    ASSUME Base, EntriesTrue, NEW d \in queue, NEW e \in queue, d.ticket = e.ticket
    PROVE  d = e
<1>1. EntryTrue(d) /\ EntryTrue(e)
  BY DEF EntriesTrue, Known
<1>2. d \in Entry /\ e \in Entry
  BY DEF Base, TypeInv, TypeOK
<1> QED BY <1>1, <1>2 DEF EntryTrue, Entry

\* The pair of s is nowhere else.
Alone(s) ==
    \A h \in PairOf(s) :
        /\ \A d \in queue : d.ticket # h.ticket
        /\ \A r \in Servers \ {s} : \A d \in PairOf(r) : d.ticket # h.ticket

\* The tickets of an entry that exists before an enqueue are not its ticket.
LEMMA JoinedAlone ==
    ASSUME EntriesTrue, NEW s \in Servers, Alone(s),
           NEW p \in Players, NEW g \in Gateways, NEW t \in Times, Joined(p, g, t)
    PROVE  Alone(s)'
<1>1. \A r \in Servers : PairOf(r)' = PairOf(r)
  BY DEF Joined, PairOf
<1>2. PICK e : e = [player |-> p, joinedAt |-> t, ticket |-> Len(tickets) + 1]
  OBVIOUS
<1>3. queue' \subseteq queue \cup {e} /\ e.ticket \notin DOMAIN tickets
  BY <1>2 DEF Joined, Kept
<1>4. \A h \in PairOf(s) : h.ticket \in DOMAIN tickets
  BY InViewIs DEF EntriesTrue, EntryTrue
<1> QED BY <1>1, <1>3, <1>4 DEF Alone

\* A pair that is alone stays so when another tick pops or ends.
LEMMA OthersAlone ==
    ASSUME Base, EntriesTrue, NEW s \in Servers, Alone(s), NEW r \in Servers \ {s},
           Ends(r) \/ Doubles(r) \/ \E a, b \in queue : Popped(r, a, b)
    PROVE  Alone(s)'
<1>1. CASE Ends(r)
  <2>1. PairOf(r)' = {} /\ \A q \in Servers \ {r} : PairOf(q)' = PairOf(q)
    BY <1>1, EndedHold DEF Ends
  <2>2. queue' \subseteq queue \cup PairOf(r)
    BY <1>1 DEF Ends, GivesBack
  <2> QED BY <2>1, <2>2 DEF Alone
<1>2. CASE Doubles(r)
  <2>1. \A q \in Servers : PairOf(q)' = PairOf(q)
    BY <1>2 DEF Doubles, SameHold, PairOf
  <2>2. queue' \subseteq queue \cup PairOf(r)
    BY <1>2 DEF Doubles, GivesBack
  <2> QED BY <2>1, <2>2 DEF Alone
<1>3. ASSUME NEW a \in queue, NEW b \in queue, Popped(r, a, b) PROVE Alone(s)'
  <2>1. /\ PairOf(r)' = {a, b} /\ \A q \in Servers \ {r} : PairOf(q)' = PairOf(q)
        /\ queue' \subseteq queue
    BY <1>3 DEF Popped
  <2> QED BY <2>1 DEF Alone
<1> QED BY <1>1, <1>2, <1>3

\* The pair of a pop is alone when the queue shares no ticket with a tick.
LEMMA PoppedAlone ==
    ASSUME Base, EntriesTrue, NEW s \in Servers, NEW a \in queue, NEW b \in queue, Popped(s, a, b),
           \A r \in Servers \ {s} : \A h \in PairOf(r), d \in queue : d.ticket # h.ticket
    PROVE  Alone(s)'
<1>1. /\ PairOf(s)' = {a, b} /\ \A r \in Servers \ {s} : PairOf(r)' = PairOf(r)
      /\ queue' = queue \ {a, b}
  BY DEF Popped
<1>2. \A d \in queue' : d.ticket # a.ticket /\ d.ticket # b.ticket
  BY <1>1, TicketIdentifies
<1> QED BY <1>1, <1>2 DEF Alone

\* Without a failed Redis call every pair is alone.
LEMMA AloneStep ==
    ASSUME Base, EntriesTrue, [Next]_vars, faults.redis = 0 => \A s \in Servers : Alone(s)
    PROVE  (faults.redis = 0 => \A s \in Servers : Alone(s))'
<1> SUFFICES ASSUME faults'.redis = 0, NEW s \in Servers PROVE Alone(s)'
  OBVIOUS
<1>0. /\ faults.redis = 0 /\ ~RedisFault
      /\ \A r \in Servers : Alone(r)
  <2>1. faults \in [redis : Nat, publish : Nat, evictions : Nat]
    BY DEF Base, TypeInv, TypeOK
  <2>2. faults.redis = 0
    BY <2>1, FaultsGrow
  <2>3. ~RedisFault
    BY <2>1, <2>2 DEF RedisFault
  <2> QED BY <2>2, <2>3
<1>1. CASE \E p \in Players, g \in Gateways, t \in Times : Joined(p, g, t)
  BY <1>0, <1>1, JoinedAlone
<1>2. ASSUME NEW r \in Servers, Ends(r) \/ Doubles(r) \/ \E a, b \in queue : Popped(r, a, b)
      PROVE  Alone(s)'
  <2>1. CASE r # s
    BY <1>0, <1>2, <2>1, OthersAlone
  <2>2. CASE r = s /\ Ends(s)
    <3>1. PairOf(s)' = {}
      BY <2>2, EndedHold DEF Ends
    <3> QED BY <3>1 DEF Alone
  <2>3. CASE r = s /\ \E a, b \in queue : Popped(s, a, b)
    BY <1>0, <2>3, PoppedAlone DEF Alone
  <2> QED BY <1>0, <1>2, <2>1, <2>2, <2>3 DEF Doubles
<1>3. CASE Stays
  <2>1. \A r \in Servers : PairOf(r)' = PairOf(r)
    BY <1>3 DEF Stays, SameHold, PairOf
  <2> QED BY <1>0, <1>3, <2>1 DEF Stays, Alone
<1> QED BY <1>1, <1>2, <1>3, StepShape

\* While no reply of Redis was lost, what a tick holds is nowhere else.
LEMMA AloneInvariance == Spec => [](faults.redis = 0 => \A s \in Servers : Alone(s))
<1>1. MatcherInit => \A s \in Servers : Alone(s)
  <2> SUFFICES ASSUME MatcherInit, NEW s \in Servers PROVE Alone(s)
    OBVIOUS
  <2>1. PairOf(s) \subseteq Held
    BY DEF Held
  <2>2. PairOf(s) = {}
    BY <2>1, Beginning DEF Known
  <2> QED BY <2>2 DEF Alone
<1>2. /\ Base /\ EntriesTrue /\ [Next]_vars /\ (faults.redis = 0 => \A s \in Servers : Alone(s))
      => (faults.redis = 0 => \A s \in Servers : Alone(s))'
  BY AloneStep
<1> QED BY <1>1, <1>2, BaseInvariance, EntriesTrueInvariance, PTL DEF Spec

\* A ticket a tick holds is neither waiting nor held by another instance, as
\* long as no Redis call failed: whatever publishes fail, deployments overlap
\* or ticks are cut short, only a write-back whose answer is lost doubles one.
THEOREM HeldByOne == Spec => [](faults.redis = 0 => OneHolder)
<1>1. (\A s \in Servers : Alone(s)) => OneHolder
  <2> SUFFICES ASSUME \A s \in Servers : Alone(s), NEW s \in Servers, NEW h \in PairOf(s),
                      h.ticket \in TicketsOf(queue \cup UNION {PairOf(r) : r \in Servers \ {s}})
               PROVE  FALSE
    BY DEF OneHolder
  <2>1. PICK d \in queue \cup UNION {PairOf(r) : r \in Servers \ {s}} : d.ticket = h.ticket
    BY DEF TicketsOf
  <2>2. CASE d \in queue
    BY <2>1, <2>2 DEF Alone
  <2>3. ASSUME NEW r \in Servers \ {s}, d \in PairOf(r) PROVE FALSE
    BY <2>1, <2>3 DEF Alone
  <2> QED BY <2>2, <2>3
<1> QED BY <1>1, AloneInvariance, PTL
-----------------------------------------------------------------------------
(* A ticket is in one confirmed match *)

\* Match ids identify messages, and the id a tick holds is its own and not
\* confirmed.
IdInv ==
    /\ \A m \in Sent : m.matchID <= issued
    /\ \A i \in acked : i <= issued
    /\ \A m, n \in Sent : m.matchID = n.matchID => m = n
    /\ \A s \in Servers : tick[s].step \in HoldingSteps =>
         /\ tick[s].matchID <= issued /\ tick[s].matchID \notin acked
         /\ \A m \in Sent : m.matchID = tick[s].matchID => m.pair = tick[s].pair
         /\ \A r \in Servers \ {s} :
              tick[r].step \in HoldingSteps => tick[r].matchID # tick[s].matchID

\* A match id belongs to one pop: no step gives two ticks, or a tick and an event
\* of another pair, the same one.
LEMMA IdStep ==
    ASSUME Base, IdInv, [Next]_vars
    PROVE  IdInv'
<1>0. /\ issued \in Nat /\ acked \subseteq Nat /\ Sent \subseteq Messages
      /\ \A s \in Servers : tick[s].matchID \in Nat
      /\ \A m \in Sent : m.matchID \in Nat
  <2>1. issued \in Nat /\ acked \subseteq Nat /\ Sent \subseteq Messages
    BY DEF Base, TypeInv, TypeOK, Sent
  <2>2. \A s \in Servers : tick[s] \in TickLocals
    BY DEF Base, TypeInv, TypeOK
  <2> QED BY <2>1, <2>2 DEF Messages, TickLocals
<1>1. ASSUME Sent' \subseteq Sent, UNCHANGED <<issued, acked>>, \A s \in Servers : SameHold(s)
      PROVE  IdInv'
  BY <1>1 DEF IdInv, SameHold
<1>2. ASSUME NEW s \in Servers, NEW a \in queue, NEW b \in queue, Popped(s, a, b)
      PROVE  IdInv'
  <2>1. PICK n : n = Message(issued + 1, <<a, b>>)
    OBVIOUS
  <2>2. Sent' = Sent \cup {n} /\ n.matchID = issued + 1 /\ n.pair = <<a, b>>
    BY <1>2, <2>1 DEF Popped, Sent, Message
  <2>3. issued' = issued + 1 /\ acked' = acked
    BY <1>2 DEF Popped
  <2>4. tick'[s].matchID = issued + 1 /\ tick'[s].pair = <<a, b>>
    BY <1>2 DEF Popped
  <2>5. \A r \in Servers \ {s} : tick'[r] = tick[r]
    BY <1>2 DEF Popped
  <2>6. \A i \in acked : i <= issued + 1 /\ i # issued + 1
    BY <1>0 DEF IdInv
  <2>7. \A m \in Sent : m.matchID <= issued + 1 /\ m.matchID # issued + 1
    BY <1>0 DEF IdInv
  <2>8. \A r \in Servers : tick[r].step \in HoldingSteps =>
            tick[r].matchID <= issued + 1 /\ tick[r].matchID # issued + 1
    BY <1>0 DEF IdInv
  <2>9. issued + 1 <= issued + 1
    BY <1>0
  <2> QED BY <2>2, <2>3, <2>4, <2>5, <2>6, <2>7, <2>8, <2>9 DEF IdInv
<1>3. ASSUME NEW s \in Servers, Ends(s) PROVE IdInv'
  <2>1. tick'[s].step \notin HoldingSteps /\ \A r \in Servers \ {s} : tick'[r] = tick[r]
    BY <1>3 DEF Ends, OnlyEnds, idleTick, HoldingSteps
  <2>2. Sent' = Sent /\ issued' = issued
    BY <1>3 DEF Ends, Sent
  <2>3. CASE acked' = acked
    BY <2>1, <2>2, <2>3 DEF IdInv
  <2>4. CASE PublishSucceeds(s)
    <3>1. acked' = acked \cup {tick[s].matchID} /\ tick[s].step \in HoldingSteps
      BY <2>4 DEF PublishSucceeds, HoldingSteps
    <3> QED BY <2>1, <2>2, <3>1 DEF IdInv
  <2> QED BY <1>3, <2>3, <2>4 DEF Ends
<1>4. ASSUME NEW s \in Servers, Doubles(s) PROVE IdInv'
  BY <1>1, <1>4 DEF Doubles, Sent
<1>5. ASSUME NEW p \in Players, NEW g \in Gateways, NEW t \in Times, Joined(p, g, t) PROVE IdInv'
  BY <1>1, <1>5 DEF Joined, Sent, SameHold
<1>6. CASE Stays
  BY <1>1, <1>6 DEF Stays
<1> QED BY <1>2, <1>3, <1>4, <1>5, <1>6, StepShape

\* Match ids belong to one pop each in every reachable state.
LEMMA IdInvariance == Spec => []IdInv
<1>1. MatcherInit => IdInv
  BY DEF MatcherInit, IdInv, Sent, idleTick, HoldingSteps
<1>2. Base /\ IdInv /\ [Next]_vars => IdInv'
  BY IdStep
<1> QED BY <1>1, <1>2, BaseInvariance, PTL DEF Spec

\* The two entries of a message are neither waiting nor held.
Spent(m) == \A e \in queue \cup Held : e.ticket # m.pair[1].ticket /\ e.ticket # m.pair[2].ticket

\* A confirmed pair is out of play, and one that is being published is held by
\* nobody else: so no ticket can get into a second confirmed match.
MatchInv ==
    /\ \A m \in Sent : m.matchID \in acked => Spent(m)
    /\ \A s \in Servers : tick[s].step = "publishing" => Alone(s)
    /\ \A m, n \in Sent :
         /\ {m.matchID, n.matchID} \subseteq acked
         /\ \E d \in {m.pair[1], m.pair[2]}, e \in {n.pair[1], n.pair[2]} : d.ticket = e.ticket
         => m = n

\* At most one instance runs, or no Redis call failed.
NoOverlap == faults.redis = 0 \/ \A r, s \in Servers : r = s

\* What is waiting or held comes from what was, except for the entry of an
\* enqueue.
LEMMA InHandStep ==
    ASSUME Base, [Next]_vars,
           ~\E p \in Players, g \in Gateways, t \in Times : Joined(p, g, t)
    PROVE  (queue \cup Held)' \subseteq queue \cup Held
<1>0. /\ \A d : d \in Held' <=> \E r \in Servers : d \in PairOf(r)'
      /\ \A d : d \in Held <=> \E r \in Servers : d \in PairOf(r)
  BY DEF Held
<1>1. ASSUME NEW s \in Servers, NEW a \in queue, NEW b \in queue, Popped(s, a, b)
      PROVE  (queue \cup Held)' \subseteq queue \cup Held
  BY <1>0, <1>1 DEF Popped
<1>2. ASSUME NEW s \in Servers, Ends(s) PROVE (queue \cup Held)' \subseteq queue \cup Held
  BY <1>0, <1>2, EndedHold DEF Ends, GivesBack
<1>3. ASSUME \A r \in Servers : SameHold(r),
             queue' \subseteq queue \/ \E s \in Servers : queue' \subseteq queue \cup PairOf(s)
      PROVE  (queue \cup Held)' \subseteq queue \cup Held
  <2>1. \A r \in Servers : PairOf(r)' = PairOf(r)
    BY <1>3 DEF SameHold, PairOf
  <2> QED BY <1>0, <1>3, <2>1
<1> QED BY <1>1, <1>2, <1>3, StepShape DEF Doubles, GivesBack, Stays

\* A pair that is being published stays alone.
LEMMA PublishingAloneStep ==
    ASSUME Base, EntriesTrue, MatchInv, faults.redis = 0 => \A s \in Servers : Alone(s),
           NoOverlap, [Next]_vars, NEW s \in Servers, tick'[s].step = "publishing"
    PROVE  Alone(s)'
<1>1. ASSUME NEW r \in Servers, Ends(r) PROVE Alone(s)'
  <2>1. r # s /\ tick[s].step = "publishing"
    BY <1>1 DEF Ends, OnlyEnds, idleTick
  <2> QED BY <1>1, <2>1, OthersAlone DEF MatchInv
<1>2. ASSUME NEW r \in Servers, Doubles(r) PROVE Alone(s)'
  <2>1. r # s /\ tick[s].step = "publishing"
    BY <1>2 DEF Doubles, SameHold
  <2> QED BY <1>2, <2>1, OthersAlone DEF MatchInv
<1>3. ASSUME NEW r \in Servers, NEW a \in queue, NEW b \in queue, Popped(r, a, b) PROVE Alone(s)'
  <2>1. CASE r = s
    <3>1. \A q \in Servers \ {s} : \A h \in PairOf(q), d \in queue : d.ticket # h.ticket
      BY DEF NoOverlap, Alone
    <3> QED BY <1>3, <2>1, <3>1, PoppedAlone
  <2>2. CASE r # s
    <3>1. tick[s].step = "publishing"
      BY <1>3, <2>2 DEF Popped
    <3> QED BY <1>3, <2>2, <3>1, OthersAlone DEF MatchInv
  <2> QED BY <2>1, <2>2
<1>4. ASSUME NEW p \in Players, NEW g \in Gateways, NEW t \in Times, Joined(p, g, t) PROVE Alone(s)'
  <2>1. tick[s].step = "publishing"
    BY <1>4 DEF Joined
  <2> QED BY <1>4, <2>1, JoinedAlone DEF MatchInv
<1>5. ASSUME Stays PROVE Alone(s)'
  <2>1. tick[s].step = "publishing" /\ \A r \in Servers : PairOf(r)' = PairOf(r)
    BY <1>5 DEF Stays, SameHold, PairOf
  <2> QED BY <1>5, <2>1 DEF Stays, MatchInv, Alone
<1> QED BY <1>1, <1>2, <1>3, <1>4, <1>5, StepShape

\* Every step keeps confirmed pairs out of play and apart.
LEMMA MatchStep ==
    ASSUME Base, EntriesTrue, IdInv, faults.redis = 0 => \A s \in Servers : Alone(s),
           NoOverlap, MatchInv, [Next]_vars
    PROVE  MatchInv'
<1>1. \A s \in Servers : tick'[s].step = "publishing" => Alone(s)'
  BY PublishingAloneStep
<1> DEFINE Apart == \A m, n \in Sent :
             /\ {m.matchID, n.matchID} \subseteq acked
             /\ \E d \in {m.pair[1], m.pair[2]}, e \in {n.pair[1], n.pair[2]} : d.ticket = e.ticket
             => m = n
<1>2. ASSUME NEW s \in Servers, PublishSucceeds(s)
      PROVE  (\A m \in Sent : m.matchID \in acked => Spent(m))' /\ Apart'
  <2>1. /\ acked' = acked \cup {tick[s].matchID} /\ Sent' = Sent /\ queue' = queue
        /\ tick[s].step = "publishing" /\ OnlyEnds(s)
    BY <1>2, FinishEnds DEF PublishSucceeds, Sent, queueVars, Base
  <2>2. PairOf(s) = {tick[s].pair[1], tick[s].pair[2]} /\ PairOf(s) \subseteq Held
    BY <2>1, PairIs DEF Base, HoldingSteps, Held
  <2>3. PairOf(s)' = {} /\ \A r \in Servers \ {s} : PairOf(r)' = PairOf(r)
    BY <2>1, EndedHold
  <2>4. \A d : d \in Held' => \E r \in Servers \ {s} : d \in PairOf(r)
    BY <2>3 DEF Held
  <2>5. Held' \subseteq Held
    BY <2>4 DEF Held
  <2>6. \A e \in queue' \cup Held' : e.ticket # tick[s].pair[1].ticket /\ e.ticket # tick[s].pair[2].ticket
    BY <2>1, <2>2, <2>4 DEF MatchInv, Alone
  <2>7. \A m \in Sent : m.matchID = tick[s].matchID => m.pair = tick[s].pair
    BY <2>1 DEF IdInv, HoldingSteps
  <2>8. \A m \in Sent : m.matchID \in acked' =>
            \A e \in queue' \cup Held' : e.ticket # m.pair[1].ticket /\ e.ticket # m.pair[2].ticket
    <3> SUFFICES ASSUME NEW m \in Sent, m.matchID \in acked'
                 PROVE  \A e \in queue' \cup Held' :
                            e.ticket # m.pair[1].ticket /\ e.ticket # m.pair[2].ticket
      OBVIOUS
    <3>1. CASE m.matchID \in acked
      BY <2>1, <2>5, <3>1 DEF MatchInv, Spent
    <3>2. CASE m.matchID = tick[s].matchID
      BY <2>6, <2>7, <3>2
    <3> QED BY <2>1, <3>1, <3>2
  <2>9. Apart'
    <3> SUFFICES ASSUME NEW m \in Sent, NEW n \in Sent, {m.matchID, n.matchID} \subseteq acked',
                        NEW d \in {m.pair[1], m.pair[2]}, NEW e \in {n.pair[1], n.pair[2]},
                        d.ticket = e.ticket
                 PROVE  m = n
      BY <2>1
    <3>1. CASE m.matchID \in acked /\ n.matchID \in acked
      BY <3>1 DEF MatchInv
    <3>2. CASE m.matchID = tick[s].matchID /\ n.matchID = tick[s].matchID
      BY <3>2 DEF IdInv
    <3>3. CASE m.matchID \in acked /\ n.matchID = tick[s].matchID
      <4>1. Spent(m) /\ e \in Held
        BY <2>2, <2>7, <3>3 DEF MatchInv
      <4> QED BY <4>1 DEF Spent
    <3>4. CASE m.matchID = tick[s].matchID /\ n.matchID \in acked
      <4>1. Spent(n) /\ d \in Held
        BY <2>2, <2>7, <3>4 DEF MatchInv
      <4> QED BY <4>1 DEF Spent
    <3> QED BY <2>1, <3>1, <3>2, <3>3, <3>4
  <2> QED BY <2>1, <2>8, <2>9 DEF Spent
<1>3. ASSUME acked' = acked,
             \A m \in Sent' : m.matchID \in acked => m \in Sent,
             \A m \in Sent : m.matchID \in acked => Spent(m)'
      PROVE  (\A m \in Sent : m.matchID \in acked => Spent(m))' /\ Apart'
  BY <1>3 DEF MatchInv
<1>4. ASSUME NEW p \in Players, NEW g \in Gateways, NEW t \in Times, Joined(p, g, t)
      PROVE  (\A m \in Sent : m.matchID \in acked => Spent(m))' /\ Apart'
  <2>1. PICK e : e = [player |-> p, joinedAt |-> t, ticket |-> Len(tickets) + 1]
    OBVIOUS
  <2>2. Held' = Held /\ queue' \subseteq queue \cup {e} /\ e.ticket \notin DOMAIN tickets
        /\ acked' = acked /\ Sent' = Sent
    BY <1>4, <2>1, JoinedSets DEF Joined, Sent
  <2>3. \A m \in Sent : m.pair[1].ticket \in DOMAIN tickets /\ m.pair[2].ticket \in DOMAIN tickets
    BY InViewIs DEF EntriesTrue, EntryTrue
  <2>4. \A m \in Sent : Spent(m) => Spent(m)'
    BY <2>2, <2>3 DEF Spent
  <2> QED BY <1>3, <2>2, <2>4 DEF MatchInv
<1>5. ASSUME acked' = acked, ~\E p \in Players, g \in Gateways, t \in Times : Joined(p, g, t),
             \A m \in Sent' : m.matchID \in acked => m \in Sent
      PROVE  (\A m \in Sent : m.matchID \in acked => Spent(m))' /\ Apart'
  <2>1. \A m \in Sent : Spent(m) => Spent(m)'
    BY <1>5, InHandStep DEF Spent
  <2> QED BY <1>3, <1>5, <2>1 DEF MatchInv
<1>6. ASSUME NEW s \in Servers, NEW a \in queue, NEW b \in queue, Popped(s, a, b)
      PROVE  acked' = acked /\ \A m \in Sent' : m.matchID \in acked => m \in Sent
  <2>1. Sent' = Sent \cup {Message(issued + 1, <<a, b>>)} /\ acked' = acked
    BY <1>6 DEF Popped, Sent
  <2>2. Message(issued + 1, <<a, b>>).matchID = issued + 1
    BY DEF Message
  <2>3. issued + 1 \notin acked
    BY DEF IdInv, Base, TypeInv, TypeOK
  <2> QED BY <2>1, <2>2, <2>3
<1>7. (\A m \in Sent : m.matchID \in acked => Spent(m))' /\ Apart'
  <2>1. CASE \E s \in Servers : PublishSucceeds(s)
    BY <1>2, <2>1
  <2>2. CASE \E p \in Players, g \in Gateways, t \in Times : Joined(p, g, t)
    BY <1>4, <2>2
  <2>3. CASE ~(\E s \in Servers : PublishSucceeds(s))
             /\ ~(\E p \in Players, g \in Gateways, t \in Times : Joined(p, g, t))
    <3>1. acked' = acked /\ \A m \in Sent' : m.matchID \in acked => m \in Sent
      BY <1>6, <2>3, StepShape DEF Ends, Doubles, Stays, Sent
    <3> QED BY <1>5, <2>3, <3>1
  <2> QED BY <2>1, <2>2, <2>3
<1> QED BY <1>1, <1>7 DEF MatchInv

\* The condition goes away, if at all, for good.
LEMMA NoOverlapBefore ==
    ASSUME Base, [Next]_vars, NoOverlap'
    PROVE  NoOverlap
BY FaultsGrow DEF NoOverlap, Base, TypeInv, TypeOK

\* A ticket is in at most one confirmed match, for a single instance whatever
\* calls fail or lose their answer, and for overlapping instances as long as
\* no Redis call fails.
THEOREM ConfirmedOnce == Spec => [](NoOverlap => MatchedOnce)
<1>1. MatcherInit => MatchInv
  BY DEF MatcherInit, MatchInv, Sent, idleTick
<1>2. /\ Base /\ EntriesTrue /\ IdInv /\ (faults.redis = 0 => \A s \in Servers : Alone(s))
      /\ (NoOverlap => MatchInv) /\ [Next]_vars
      => (NoOverlap => MatchInv)'
  BY MatchStep, NoOverlapBefore
<1>3. MatchInv => MatchedOnce
  <2> SUFFICES ASSUME MatchInv, NEW m \in topic, NEW n \in topic,
                      {m.matchID, n.matchID} \subseteq acked,
                      TicketsOf(EntriesOf({m})) \cap TicketsOf(EntriesOf({n})) # {}
               PROVE  m = n
    BY DEF MatchedOnce
  <2>1. PICK d \in EntriesOf({m}), e \in EntriesOf({n}) : d.ticket = e.ticket
    BY DEF TicketsOf
  <2>2. d \in {m.pair[1], m.pair[2]} /\ e \in {n.pair[1], n.pair[2]}
    BY DEF EntriesOf
  <2> QED BY <2>1, <2>2 DEF MatchInv, Sent
<1> QED BY <1>1, <1>2, <1>3, BaseInvariance, EntriesTrueInvariance, IdInvariance, AloneInvariance,
           PTL DEF Spec
-----------------------------------------------------------------------------
(* The players of a pair joined through one gateway process *)

GatewayOf(d) == tickets[d.ticket].gateway

\* Entries no identifier vouches for: waiting, or held by a tick whose pop
\* found the identifier key absent.
Unclaimed(d) == d \in queue \/ \E s \in Servers : tick[s].gateway = NoGateway /\ d \in PairOf(s)

\* The identifier key, or the one a tick read with its pop, vouches for the
\* entries; without a key they are those of the one process whose key is gone.
GatewayInv ==
    /\ instanceID # NoGateway => \A d \in queue : GatewayOf(d) = instanceID
    /\ \A s \in Servers : \A h \in PairOf(s) :
         tick[s].gateway # NoGateway => GatewayOf(h) = tick[s].gateway
    /\ faults.evictions = 0 =>
         /\ instanceID = NoGateway => queue = {}
         /\ \A s \in Servers : tick[s].gateway = NoGateway => PairOf(s) = {}
    /\ instanceID = NoGateway =>
         \A d, e : Unclaimed(d) /\ Unclaimed(e) => GatewayOf(d) = GatewayOf(e)
    /\ \A s \in Servers : \A d, e \in PairOf(s) : GatewayOf(d) = GatewayOf(e)

\* No step changes the gateway an existing entry joined through.
LEMMA GatewayKept ==
    ASSUME Base, EntriesTrue, [Next]_vars
    PROVE  /\ \A d \in queue : GatewayOf(d)' = GatewayOf(d)
           /\ \A s \in Servers : \A d \in PairOf(s) : GatewayOf(d)' = GatewayOf(d)
<1>1. \A d \in Known : d.ticket \in DOMAIN tickets
  BY DEF EntriesTrue, EntryTrue
<1>2. \A t \in DOMAIN tickets : tickets'[t].gateway = tickets[t].gateway
  BY StepBooked DEF Booked, Keeps, Joined
<1>3. \A d \in Known : GatewayOf(d)' = GatewayOf(d)
  BY <1>1, <1>2 DEF GatewayOf
<1> QED BY <1>3, InViewIs

\* A step in which no pair is popped and at most the pair of s goes back.
LEMMA GivesBackGateway ==
    ASSUME Base, EntriesTrue, GatewayInv, [Next]_vars, NEW s \in Servers, GivesBack(s),
           \A r \in Servers :
             \/ tick'[r].gateway = tick[r].gateway /\ PairOf(r)' = PairOf(r)
             \/ PairOf(r)' = {}
    PROVE  GatewayInv'
<1>0. /\ \A d \in queue : GatewayOf(d)' = GatewayOf(d)
      /\ \A r \in Servers : \A d \in PairOf(r) : GatewayOf(d)' = GatewayOf(d)
  BY GatewayKept
<1>1. /\ instanceID' = instanceID
      /\ \A d \in queue' : d \in queue \/ (d \in PairOf(s) /\ tick[s].gateway = instanceID)
  BY DEF GivesBack, IsExpected
<1>2. faults'.evictions = 0 => faults.evictions = 0
  BY FaultsGrow DEF Base, TypeInv, TypeOK
<1>3. instanceID' # NoGateway => \A d \in queue' : GatewayOf(d)' = instanceID'
  BY <1>0, <1>1 DEF GatewayInv
<1>4. \A r \in Servers : \A h \in PairOf(r)' :
          tick'[r].gateway # NoGateway => GatewayOf(h)' = tick'[r].gateway
  BY <1>0 DEF GatewayInv
<1>5. faults'.evictions = 0 =>
        /\ instanceID' = NoGateway => queue' = {}
        /\ \A r \in Servers : tick'[r].gateway = NoGateway => PairOf(r)' = {}
  BY <1>1, <1>2 DEF GatewayInv
<1>6. instanceID = NoGateway =>
        \A d : Unclaimed(d)' => Unclaimed(d) /\ GatewayOf(d)' = GatewayOf(d)
  <2> SUFFICES ASSUME instanceID = NoGateway, NEW d, Unclaimed(d)'
               PROVE  Unclaimed(d) /\ GatewayOf(d)' = GatewayOf(d)
    OBVIOUS
  <2>1. CASE d \in queue'
    BY <1>0, <1>1, <2>1 DEF Unclaimed
  <2>2. ASSUME NEW r \in Servers, tick'[r].gateway = NoGateway, d \in PairOf(r)'
        PROVE  Unclaimed(d) /\ GatewayOf(d)' = GatewayOf(d)
    BY <1>0, <2>2 DEF Unclaimed
  <2> QED BY <2>1, <2>2 DEF Unclaimed
<1>7. instanceID' = NoGateway =>
        \A d, e : Unclaimed(d)' /\ Unclaimed(e)' => GatewayOf(d)' = GatewayOf(e)'
  BY <1>1, <1>6 DEF GatewayInv
<1>8. \A r \in Servers : \A d, e \in PairOf(r)' : GatewayOf(d)' = GatewayOf(e)'
  BY <1>0 DEF GatewayInv
<1> QED BY <1>3, <1>4, <1>5, <1>7, <1>8 DEF GatewayInv

\* A pop takes entries one identifier vouches for, or unclaimed ones.
LEMMA PoppedGateway ==
    ASSUME Base, EntriesTrue, GatewayInv, [Next]_vars, NEW s \in Servers,
           NEW a \in queue, NEW b \in queue, Popped(s, a, b)
    PROVE  GatewayInv'
<1>0. /\ \A d \in queue : GatewayOf(d)' = GatewayOf(d)
      /\ \A r \in Servers : \A d \in PairOf(r) : GatewayOf(d)' = GatewayOf(d)
  BY GatewayKept
<1>1. /\ instanceID' = instanceID /\ queue' \subseteq queue
      /\ PairOf(s)' = {a, b} /\ tick'[s].gateway = instanceID
      /\ \A r \in Servers \ {s} : PairOf(r)' = PairOf(r) /\ tick'[r].gateway = tick[r].gateway
  BY DEF Popped
<1>2. faults'.evictions = 0 => faults.evictions = 0
  BY FaultsGrow DEF Base, TypeInv, TypeOK
<1>3. GatewayOf(a) = GatewayOf(b)
  BY DEF GatewayInv, Unclaimed
<1>4. instanceID = NoGateway =>
        \A d : Unclaimed(d)' => Unclaimed(d) /\ GatewayOf(d)' = GatewayOf(d)
  <2> SUFFICES ASSUME instanceID = NoGateway, NEW d, Unclaimed(d)'
               PROVE  Unclaimed(d) /\ GatewayOf(d)' = GatewayOf(d)
    OBVIOUS
  <2>1. CASE d \in queue'
    BY <1>0, <1>1, <2>1 DEF Unclaimed
  <2>2. ASSUME NEW r \in Servers, tick'[r].gateway = NoGateway, d \in PairOf(r)'
        PROVE  Unclaimed(d) /\ GatewayOf(d)' = GatewayOf(d)
    <3>1. CASE r = s
      BY <1>0, <1>1, <2>2, <3>1 DEF Unclaimed
    <3>2. CASE r # s
      BY <1>0, <1>1, <2>2, <3>2 DEF Unclaimed
    <3> QED BY <3>1, <3>2
  <2> QED BY <2>1, <2>2 DEF Unclaimed
<1>5. \A r \in Servers : \A h \in PairOf(r)' :
          tick'[r].gateway # NoGateway => GatewayOf(h)' = tick'[r].gateway
  <2>1. \A h \in PairOf(s)' : tick'[s].gateway # NoGateway => GatewayOf(h)' = tick'[s].gateway
    BY <1>0, <1>1 DEF GatewayInv
  <2> QED BY <1>0, <1>1, <2>1 DEF GatewayInv
<1>6. \A r \in Servers : \A d, e \in PairOf(r)' : GatewayOf(d)' = GatewayOf(e)'
  BY <1>0, <1>1, <1>3 DEF GatewayInv
<1>7. faults'.evictions = 0 =>
        /\ instanceID' = NoGateway => queue' = {}
        /\ \A r \in Servers : tick'[r].gateway = NoGateway => PairOf(r)' = {}
  BY <1>1, <1>2 DEF GatewayInv
<1>8. instanceID' # NoGateway => \A d \in queue' : GatewayOf(d)' = instanceID'
  BY <1>0, <1>1 DEF GatewayInv
<1>9. instanceID' = NoGateway =>
        \A d, e : Unclaimed(d)' /\ Unclaimed(e)' => GatewayOf(d)' = GatewayOf(e)'
  BY <1>1, <1>4 DEF GatewayInv
<1> QED BY <1>5, <1>6, <1>7, <1>8, <1>9 DEF GatewayInv

\* An enqueue keeps the entries of its own gateway process only.
LEMMA JoinedGateway ==
    ASSUME Base, EntriesTrue, GatewayInv, [Next]_vars,
           NEW p \in Players, NEW g \in Gateways, NEW t \in Times, Joined(p, g, t)
    PROVE  GatewayInv'
<1>0. /\ \A d \in queue : GatewayOf(d)' = GatewayOf(d)
      /\ \A r \in Servers : \A d \in PairOf(r) : GatewayOf(d)' = GatewayOf(d)
  BY GatewayKept
<1>1. PICK e : e = [player |-> p, joinedAt |-> t, ticket |-> Len(tickets) + 1]
  OBVIOUS
<1>2. GatewayOf(e)' = g
  BY <1>1 DEF Joined, GatewayOf
<1>3. /\ instanceID' = g /\ g # NoGateway /\ UNCHANGED <<tick, faults>>
      /\ \A d \in queue' : d = e \/ (d \in queue /\ instanceID = g)
  BY <1>1, QueueAssumption DEF Joined, Kept
<1>4. \A r \in Servers : PairOf(r)' = PairOf(r)
  BY <1>3 DEF PairOf
<1>5. \A d \in queue' : GatewayOf(d)' = instanceID'
  BY <1>0, <1>2, <1>3 DEF GatewayInv
<1> QED BY <1>0, <1>3, <1>4, <1>5 DEF GatewayInv

\* An eviction, as long as it is the only one.
LEMMA EvictGateway ==
    ASSUME Base, EntriesTrue, GatewayInv, [Next]_vars, Evict, faults'.evictions <= 1
    PROVE  GatewayInv'
<1>0. /\ \A d \in queue : GatewayOf(d)' = GatewayOf(d)
      /\ \A r \in Servers : \A d \in PairOf(r) : GatewayOf(d)' = GatewayOf(d)
  BY GatewayKept
<1>1. faults.evictions = 0 /\ faults'.evictions = 1
  BY DEF Evict, Base, TypeInv, TypeOK
<1>2. tick' = tick /\ \A r \in Servers : PairOf(r)' = PairOf(r)
  BY DEF Evict, tickVars, PairOf
<1>3. CASE EvictQueue
  <2>1. queue' = {} /\ instanceID' = instanceID
    BY <1>3 DEF EvictQueue
  <2>2. \A d : Unclaimed(d)' => Unclaimed(d)
    BY <1>2, <2>1 DEF Unclaimed
  <2>3. \A d : ~Unclaimed(d)'
    BY <1>1, <1>2, <2>1 DEF Unclaimed, GatewayInv
  <2> QED BY <1>0, <1>1, <1>2, <2>1, <2>3 DEF GatewayInv
<1>4. CASE EvictInstanceID
  <2>1. instanceID # NoGateway /\ instanceID' = NoGateway /\ queue' = queue
    BY <1>4 DEF EvictInstanceID
  <2>2. \A d : Unclaimed(d)' => d \in queue
    BY <1>1, <1>2, <2>1 DEF Unclaimed, GatewayInv
  <2> QED BY <1>0, <1>1, <1>2, <2>1, <2>2 DEF GatewayInv
<1> QED BY <1>3, <1>4 DEF Evict

\* Every step keeps the entries vouched for, as long as at most one key was
\* evicted.
LEMMA GatewayStep ==
    ASSUME Base, EntriesTrue, GatewayInv, [Next]_vars, faults'.evictions <= 1
    PROVE  GatewayInv'
<1>1. ASSUME NEW s \in Servers, Ends(s) PROVE GatewayInv'
  BY <1>1, EndedHold, GivesBackGateway DEF Ends, OnlyEnds
<1>2. ASSUME NEW s \in Servers, Doubles(s) PROVE GatewayInv'
  <2>1. \A r \in Servers : tick'[r].gateway = tick[r].gateway /\ PairOf(r)' = PairOf(r)
    BY <1>2 DEF Doubles, SameHold, PairOf
  <2> QED BY <1>2, <2>1, GivesBackGateway DEF Doubles
<1>3. ASSUME Stays PROVE GatewayInv'
  <2>1. \A r \in Servers : tick'[r].gateway = tick[r].gateway /\ PairOf(r)' = PairOf(r)
    BY <1>3 DEF Stays, SameHold, PairOf
  <2>2. CASE Evict
    BY <2>2, EvictGateway
  <2>3. CASE UNCHANGED instanceID
    <3>1. \A s \in Servers : GivesBack(s)
      BY <1>3, <2>3 DEF Stays, GivesBack
    <3>2. CASE Servers # {}
      BY <2>1, <3>1, <3>2, GivesBackGateway
    <3>3. CASE Servers = {}
      <4>1. \A d : Unclaimed(d)' <=> d \in queue'
        BY <3>3 DEF Unclaimed
      <4>2. \A d : Unclaimed(d) <=> d \in queue
        BY <3>3 DEF Unclaimed
      <4>3. faults'.evictions = 0 => faults.evictions = 0
        BY FaultsGrow DEF Base, TypeInv, TypeOK
      <4>4. \A d \in queue' : d \in queue /\ GatewayOf(d)' = GatewayOf(d)
        BY <1>3, GatewayKept DEF Stays
      <4> QED BY <2>3, <3>3, <4>1, <4>2, <4>3, <4>4 DEF GatewayInv
    <3> QED BY <3>2, <3>3
  <2> QED BY <1>3, <2>2, <2>3 DEF Stays
<1> QED BY <1>1, <1>2, <1>3, PoppedGateway, JoinedGateway, StepShape

\* As long as Redis evicted at most one key, the players waiting together and
\* the players of a pair joined through one gateway process, also through any
\* number of process changes and of write-backs of pairs popped before them.
THEOREM GatewaysDoNotMix == Spec => [](faults.evictions <= 1 => SameGateway)
<1>1. MatcherInit => GatewayInv
  <2> SUFFICES ASSUME MatcherInit PROVE GatewayInv
    OBVIOUS
  <2>1. queue = {} /\ \A s \in Servers : PairOf(s) = {}
    BY Beginning, InViewIs
  <2> QED BY <2>1 DEF GatewayInv, Unclaimed
<1>2. /\ Base /\ EntriesTrue /\ (faults.evictions <= 1 => GatewayInv) /\ [Next]_vars
      => (faults.evictions <= 1 => GatewayInv)'
  <2> SUFFICES ASSUME Base, EntriesTrue, faults.evictions <= 1 => GatewayInv, [Next]_vars,
                      faults'.evictions <= 1
               PROVE  GatewayInv'
    OBVIOUS
  <2>1. faults.evictions \in Nat /\ faults'.evictions \in Nat
    BY BaseStep DEF Base, TypeInv, TypeOK
  <2>2. faults.evictions <= 1
    BY <2>1, FaultsGrow
  <2> QED BY <2>2, GatewayStep
<1>3. GatewayInv => SameGateway
  BY DEF GatewayInv, SameGateway, PairSameGateway, GatewayOf, Unclaimed
<1> QED BY <1>1, <1>2, <1>3, BaseInvariance, EntriesTrueInvariance, PTL DEF Spec
-----------------------------------------------------------------------------
(* A pair is given up only in an outage *)

\* Every attempt of reenqueueWithRetry but the current one cost a failed Redis
\* call, and the final attempt is made only after the context was cancelled.
RetryInv ==
    \A s \in Servers :
        /\ tick[s].step = "reenqueueing" => faults.redis + 1 >= tick[s].attempt
        /\ tick[s].step = "backoff" => faults.redis >= tick[s].attempt
        /\ tick[s].step = "final" => ctxDone[s]

\* A cancelled context stays cancelled.
LEMMA CancelledStays ==
    ASSUME Base, [Next]_vars
    PROVE  \A s \in Servers : ctxDone[s] => ctxDone'[s]
<1>0. ctxDone \in [Servers -> BOOLEAN]
  BY DEF Base, TypeInv, TypeOK
<1>1. ctxDone' = ctxDone \/ \E s \in Servers : ctxDone' = [ctxDone EXCEPT ![s] = TRUE]
  <2>1. ASSUME NEW s \in Servers, TickStep(s) PROVE ctxDone' = ctxDone
    BY <2>1 DEF TickStep, BeginTick, PopPair, PopEmpty, PopFails, PublishSucceeds, PublishFails,
                Reenqueue, ReenqueueFails, BackoffEnds, BackoffCancelled, LosePair
  <2>2. ASSUME NEW s \in Servers, Shutdown(s) \/ TickerFires(s) \/ RunStep(s)
        PROVE  ctxDone' = ctxDone \/ ctxDone' = [ctxDone EXCEPT ![s] = TRUE]
    BY <2>2 DEF Shutdown, TickerFires, RunStep, startTick, ReceiveTickDone, StartDrain,
                DrainCompletes, DrainTimesOut
  <2>3. ASSUME \/ \E p \in Players, g \in Gateways, t \in Times : Enqueue(p, g, t)
               \/ \E p \in Players : Cancel(p)
               \/ Evict \/ Elapse \/ \E m \in inFlight : Deliver(m)
               \/ UNCHANGED vars
        PROVE  ctxDone' = ctxDone
    BY <2>3 DEF Enqueue, Cancel, Evict, Elapse, Deliver, vars
  <2> QED BY <2>1, <2>2, <2>3 DEF Next
<1> QED BY <1>0, <1>1

\* A step of a tick keeps the count of attempts behind that of the failures.
LEMMA TickRetry ==
    ASSUME Base, RetryInv, NEW s \in Servers, TickStep(s)
    PROVE  /\ tick'[s].step = "reenqueueing" => faults'.redis + 1 >= tick'[s].attempt
           /\ tick'[s].step = "backoff" => faults'.redis >= tick'[s].attempt
           /\ tick'[s].step = "final" => ctxDone'[s]
<1>0. /\ tick \in [Servers -> TickLocals] /\ tick[s] \in TickLocals
      /\ faults \in [redis : Nat, publish : Nat, evictions : Nat]
  BY DEF Base, TypeInv, TypeOK
<1>1. tick[s].attempt \in Nat /\ faults.redis \in Nat
  BY <1>0, MatcherAssumption DEF TickLocals
<1>2. CASE Finish(s)
  BY <1>2, FinishEnds DEF Base, OnlyEnds, idleTick
<1>3. CASE BeginTick(s) \/ PopPair(s)
  <2>1. CASE Step(s, "popping")
    BY <1>0, <2>1 DEF Step, TickLocals
  <2>2. CASE PopPair(s)
    BY <1>0, <2>2 DEF PopPair
  <2> QED BY <1>2, <1>3, <2>1, <2>2 DEF BeginTick
<1>4. CASE PublishFails(s)
  <2>1. tick'[s].step = "reenqueueing" /\ tick'[s].attempt = 1
    BY <1>0, <1>4 DEF PublishFails, TickLocals
  <2>2. faults'.redis = faults.redis
    BY <1>0, <1>4 DEF PublishFails, CtxFault
  <2> QED BY <1>1, <2>1, <2>2
<1>5. CASE ReenqueueFails(s)
  <2>1. tick'[s].step = (IF ctxDone[s] THEN "final" ELSE "backoff") /\ tick'[s].attempt = tick[s].attempt
    BY <1>0, <1>5 DEF ReenqueueFails, Step, TickLocals
  <2>2. ctxDone' = ctxDone /\ faults.redis + 1 >= tick[s].attempt
    BY <1>5 DEF ReenqueueFails, RetryInv
  <2>3. ~ctxDone[s] => faults'.redis = faults.redis + 1
    BY <1>0, <1>5 DEF ReenqueueFails, RedisFault, CtxFault
  <2> QED BY <2>1, <2>2, <2>3
<1>6. CASE BackoffEnds(s)
  <2>1. /\ tick'[s].step = "reenqueueing" /\ tick'[s].attempt = tick[s].attempt + 1
        /\ tick[s].step = "backoff" /\ faults' = faults
    BY <1>0, <1>6 DEF BackoffEnds, TickLocals
  <2> QED BY <1>1, <2>1 DEF RetryInv
<1>7. CASE BackoffCancelled(s)
  BY <1>0, <1>7 DEF BackoffCancelled, Step, TickLocals
<1> QED BY <1>2, <1>3, <1>4, <1>5, <1>6, <1>7
        DEF TickStep, PopEmpty, PopFails, PublishSucceeds, Reenqueue, LosePair

\* Every failed attempt of a tick is accounted for by a fault of Redis or by the
\* cancelled context, whatever the step.
LEMMA RetryStep ==
    ASSUME Base, RetryInv, [Next]_vars
    PROVE  RetryInv'
<1>0. /\ faults.redis \in Nat /\ faults'.redis \in Nat /\ faults'.redis >= faults.redis
      /\ \A s \in Servers : tick[s].attempt \in Nat
      /\ \A s \in Servers : ctxDone[s] => ctxDone'[s]
  <2>1. faults.redis \in Nat /\ faults'.redis \in Nat
    BY BaseStep DEF Base, TypeInv, TypeOK
  <2>2. \A s \in Servers : tick[s] \in TickLocals
    BY DEF Base, TypeInv, TypeOK
  <2>3. \A s \in Servers : tick[s].attempt \in Nat
    BY <2>2, MatcherAssumption DEF TickLocals
  <2> QED BY <2>1, <2>3, FaultsGrow, CancelledStays
<1>1. ASSUME NEW r \in Servers, tick'[r] = tick[r]
      PROVE  /\ tick'[r].step = "reenqueueing" => faults'.redis + 1 >= tick'[r].attempt
             /\ tick'[r].step = "backoff" => faults'.redis >= tick'[r].attempt
             /\ tick'[r].step = "final" => ctxDone'[r]
  BY <1>0, <1>1 DEF RetryInv
<1>2. CASE tick' = tick
  BY <1>1, <1>2 DEF RetryInv
<1>3. ASSUME NEW s \in Servers, TickStep(s) PROVE RetryInv'
  <2>1. \A r \in Servers \ {s} : tick'[r] = tick[r]
    BY <1>3, TickStepShape, FinishEnds DEF TickGoesOn, TickEnds, OnlyEnds, Base
  <2> QED BY <1>1, <1>3, <2>1, TickRetry DEF RetryInv
<1>4. ASSUME NEW s \in Servers, startTick(s) PROVE RetryInv'
  <2>1. tick'[s].step = "starting" /\ \A r \in Servers \ {s} : tick'[r] = tick[r]
    BY <1>4 DEF startTick, Base, TypeInv, TypeOK, TickLocals
  <2> QED BY <1>1, <2>1 DEF RetryInv
<1> QED BY <1>2, <1>3, <1>4 DEF Next, Enqueue, Cancel, Evict, Elapse, Deliver, Shutdown, TickerFires,
           RunStep, ReceiveTickDone, StartDrain, DrainCompletes, DrainTimesOut, tickVars, vars

\* Only LosePair makes a ticket lost.
LEMMA LostByLosePair ==
    ASSUME Base, [Next]_vars, ~\E s \in Servers : LosePair(s),
           NEW t \in DOMAIN tickets', tickets'[t].fate = "lost"
    PROVE  t \in DOMAIN tickets /\ tickets[t].fate = "lost"
<1>0. tickets \in Seq(Ticket)
  BY DEF Base, TypeInv, TypeOK
<1>1. CASE tickets' = tickets
  BY <1>1
<1>2. ASSUME NEW entries, NEW fate, fate # "lost", tickets' = Ended(tickets, entries, fate)
      PROVE  t \in DOMAIN tickets /\ tickets[t].fate = "lost"
  BY <1>0, <1>2, EndedIs
<1>3. ASSUME NEW s \in Servers, tickets' = Overwritten(s)
      PROVE  t \in DOMAIN tickets /\ tickets[t].fate = "lost"
  BY <1>3, OverwrittenIs DEF Base, Keeps
<1>4. ASSUME NEW p \in Players, NEW g \in Gateways, NEW u \in Times, Joined(p, g, u)
      PROVE  t \in DOMAIN tickets /\ tickets[t].fate = "lost"
  BY <1>4 DEF Joined
<1>5. CASE (\E p \in Players : Cancel(p)) \/ Evict
  BY <1>1, <1>2, <1>5, "cancelled" # "lost", "evicted" # "lost" DEF Cancel, Evict
<1>6. ASSUME NEW s \in Servers, UnreadPop(s) \/ Reenqueue(s) \/ UnreadWriteBack(s) \/ PublishSucceeds(s) \/ PopPair(s)
      PROVE  t \in DOMAIN tickets /\ tickets[t].fate = "lost"
  BY <1>1, <1>2, <1>3, <1>6, "unread" # "lost", "dropped" # "lost"
     DEF UnreadPop, Reenqueue, UnreadWriteBack, PublishSucceeds, PopPair
<1> QED BY <1>1, <1>4, <1>5, <1>6, StepEffect, EnqueueEffect DEF Moves, Quiet

\* reenqueueWithRetry gives a pair up only after every attempt failed, or in a
\* shutdown after the final attempt failed, whatever else the ticks of the
\* other instances do.
THEOREM LossMeansOutage == Spec => []LossNeedsOutage
<1>1. MatcherInit => RetryInv /\ LossNeedsOutage
  BY DEF MatcherInit, RetryInv, LossNeedsOutage, idleTick
<1>2. Base /\ RetryInv /\ [Next]_vars => RetryInv'
  BY RetryStep
<1>3. Base /\ RetryInv /\ LossNeedsOutage /\ [Next]_vars => LossNeedsOutage'
  <2> SUFFICES ASSUME Base, RetryInv, LossNeedsOutage, [Next]_vars,
                      NEW t \in DOMAIN tickets', tickets'[t].fate = "lost"
               PROVE  faults'.redis >= IF \E s \in Servers : ctxDone'[s] THEN 1 ELSE MaxAttempts
    BY DEF LossNeedsOutage
  <2>0. /\ faults \in [redis : Nat, publish : Nat, evictions : Nat]
        /\ faults'.redis \in Nat /\ faults'.redis >= faults.redis
        /\ MaxAttempts \in Nat \ {0}
        /\ \A s \in Servers : ctxDone[s] => ctxDone'[s]
    BY BaseStep, FaultsGrow, CancelledStays, MatcherAssumption DEF Base, TypeInv, TypeOK
  <2>1. ASSUME NEW s \in Servers, LosePair(s)
        PROVE  faults'.redis >= IF \E r \in Servers : ctxDone'[r] THEN 1 ELSE MaxAttempts
    <3>1. faults'.redis = faults.redis + 1
      BY <2>0, <2>1 DEF LosePair, RedisFault
    <3>2. CASE tick[s].step = "final"
      <4>1. ctxDone'[s]
        BY <2>0, <3>2 DEF RetryInv
      <4> QED BY <2>0, <3>1, <4>1
    <3>3. CASE tick[s].step = "reenqueueing" /\ tick[s].attempt = MaxAttempts
      <4>1. faults'.redis >= MaxAttempts
        BY <3>1, <3>3 DEF RetryInv
      <4> QED BY <2>0, <4>1
    <3> QED BY <2>1, <3>2, <3>3 DEF LosePair
  <2>2. CASE ~\E s \in Servers : LosePair(s)
    <3>1. t \in DOMAIN tickets /\ tickets[t].fate = "lost"
      BY <2>2, LostByLosePair
    <3>2. faults.redis >= IF \E s \in Servers : ctxDone[s] THEN 1 ELSE MaxAttempts
      BY <3>1 DEF LossNeedsOutage
    <3> QED BY <2>0, <3>2
  <2> QED BY <2>1, <2>2
<1> QED BY <1>1, <1>2, <1>3, BaseInvariance, PTL DEF Spec
=============================================================================
