------------------------------ MODULE Requests ------------------------------
(***************************************************************************)
(* The HTTP side of the service composed with its matchers: calls a        *)
(* gateway makes through ApiClient, the handlers of internal/adapter/      *)
(* httphandler with usecase/abandon, and the queue they share with the     *)
(* ticks.  A call is                                                       *)
(*   sent      on its way to the service,                                  *)
(*   script    in its handler, which is about to run a script in Redis,    *)
(*   answered  given a status the client has not read,                     *)
(*   returned  over for the client, with the answer or without it.         *)
(* A client may give up at any time, and what it sent may be handled all   *)
(* the same.  Requests are handled in any order.                           *)
(***************************************************************************)
EXTENDS Matcher, ApiClient

CONSTANTS
    Calls,    \* the calls of a behaviour
    BaseURLs, \* paths of the base URLs that gateways give their clients
    Mount,    \* path under which the service is reached, no slash at its end
    EmptyID,  \* the player id ""
    ColonID   \* a player id with a ':'

ASSUME RequestsAssumption ==
    /\ {EmptyID, ColonID} \cap (Players \cup Gateways) = {}
    /\ Mount \in Seq(STRING) /\ (Mount = <<>> \/ Last(Mount) # "")

VARIABLE calls

requestVars == <<vars, calls>>

\* A call not made yet.  The fields are: what the client sends (op, the player
\* ids, the tickets of a reported match, path; isConfigured says that the base
\* URL is the one of the service), the locals of the handler (gateway,
\* joinedAt, cancels made, whether one failed), the answer, what the client
\* returned, and for the properties the tickets the call added or removed and
\* whether a tick held a reported ticket meanwhile.  A body is chosen when the
\* request is served: nothing depends on it before.
unused == [op |-> "none", ids |-> <<>>, pair |-> {}, path |-> <<>>, isConfigured |-> FALSE,
           gateway |-> NoGateway, joinedAt |-> 0, cancels |-> 0, failed |-> FALSE,
           stage |-> "new", status |-> 0, result |-> "pending",
           effect |-> {}, raced |-> FALSE]

Init == MatcherInit /\ calls = [c \in Calls |-> unused]
-----------------------------------------------------------------------------
(* The gateway.  It enqueues and cancels for players, and reports a match    *)
(* abandoned after it received the match_made event.                        *)

\* The generated method builds the request and hands it to the HTTP client.
Send(c, op, ids, pair) ==
    /\ calls[c].stage = "new"
    /\ \E url \in BaseURLs :
        calls' = [calls EXCEPT ![c] = [unused EXCEPT
                    !.op = op, !.stage = "sent", !.ids = ids, !.pair = pair,
                    !.path = NewRequest(NewClient(url), op),
                    !.isConfigured = url \in {Mount, Append(Mount, "")}]]
    /\ UNCHANGED vars

Start(c) ==
    \/ \E op \in {"EnqueuePlayer", "CancelPlayer"}, id \in Players \cup {EmptyID, ColonID} :
            Send(c, op, <<id>>, {})
    \/ \E m \in topic : Send(c, "ReportMatchAbandoned",
                             <<m.pair[1].player, m.pair[2].player>>, TicketsOf(EntriesOf({m})))
    \/ \E op \in {"GetQueueSize", "GetHealth"} : Send(c, op, <<>>, {})

\* The call returns what its answer says, or an error: it could not be built
\* or sent, its context ended, or the connection broke before the whole answer
\* arrived.  No step waits for the return, so a client that gave up earlier is
\* one that takes this step late.  Only a report is remembered.
Return(c) ==
    LET k == calls[c]
        result == ResultOf(k.op, ParseResponse(k.op, k.status))
        report == [unused EXCEPT !.op = k.op, !.pair = k.pair, !.raced = k.raced,
                                 !.status = k.status]
    IN  /\ k.stage = "answered"
        /\ \E r \in {result, "error"} :
            calls' = [calls EXCEPT ![c] =
                        [IF k.status = 204 THEN report ELSE unused EXCEPT
                            !.stage = "returned", !.result = r]]
        /\ UNCHANGED vars
-----------------------------------------------------------------------------
(* Handlers up to their first call of Redis *)

\* The answer is on its way and the locals of the handler are gone.
Answer(k, status) ==
    [unused EXCEPT !.op = k.op, !.pair = k.pair, !.isConfigured = k.isConfigured,
                   !.effect = k.effect, !.raced = k.raced,
                   !.stage = "answered", !.status = status]

Answered(c, status) == [calls EXCEPT ![c] = Answer(@, status)]

Reply(c, status) == calls' = Answered(c, status) /\ UNCHANGED vars

InScript(c, op) == calls[c].stage = "script" /\ calls[c].op = op

\* NewRouter: the request of the call reaches the handler of its operation.
Routed(c) == calls[c].path = Mount \o operationPath(calls[c].op)

Arrives(c, op) == calls[c].stage = "sent" /\ calls[c].op = op /\ Routed(c)

\* No route: the router answers 404.
NotRouted(c) == calls[c].stage = "sent" /\ ~Routed(c) /\ Reply(c, 404)

\* VerifyInternalAuth refuses the token.
Unauthorized(c) ==
    /\ \E op \in {"EnqueuePlayer", "CancelPlayer"} : Arrives(c, op)
    /\ Reply(c, 401)

\* deck_id, and whether name and gateway_instance_id are blank.
EnqueueRequest == [isJSON : BOOLEAN, deckID : {0, 1}, hasName : BOOLEAN,
                   gatewayInstanceID : Gateways \cup {NoGateway}]

IsEnqueueRequest(req) ==
    /\ req.isJSON
    /\ req.deckID >= 1
    /\ req.hasName
    /\ req.gatewayInstanceID # NoGateway

validMemberPlayerID(id) == id \notin {EmptyID, ColonID}

\* Enqueue, up to the clock reading that becomes the score.
ServeEnqueue(c) ==
    /\ Arrives(c, "EnqueuePlayer")
    /\ \E req \in EnqueueRequest :
        \/ ~IsEnqueueRequest(req) /\ Reply(c, 400)
        \/ /\ IsEnqueueRequest(req) /\ ~validMemberPlayerID(calls[c].ids[1])
           /\ Reply(c, 503)
        \/ /\ IsEnqueueRequest(req) /\ validMemberPlayerID(calls[c].ids[1])
           /\ \E now \in Times :
                calls' = [calls EXCEPT ![c].stage = "script", ![c].joinedAt = now,
                                       ![c].gateway = req.gatewayInstanceID]
           /\ UNCHANGED vars

ToScript(c) == calls' = [calls EXCEPT ![c].stage = "script"] /\ UNCHANGED vars

ServeCancel(c) ==
    /\ Arrives(c, "CancelPlayer")
    /\ \/ calls[c].ids[1] = EmptyID /\ Reply(c, 503)
       \/ calls[c].ids[1] # EmptyID /\ ToScript(c)

\* Bodies a report of the match may have: each field as the gateway knows it
\* or wrong.
MatchAbandonedRequest(c) ==
    LET ids == calls[c].ids
    IN  [isJSON : BOOLEAN, hasMatchID : BOOLEAN, isKnownReason : BOOLEAN,
         playerIDs : {ids, <<ids[1]>>, <<ids[1], ids[1]>>, <<EmptyID, ids[2]>>}]

IsMatchAbandonedRequest(req) ==
    /\ req.isJSON /\ req.hasMatchID
    /\ Len(req.playerIDs) = 2
    /\ EmptyID \notin ToSet(req.playerIDs)
    /\ req.playerIDs[1] # req.playerIDs[2]
    /\ req.isKnownReason

ServeMatchAbandoned(c) ==
    /\ Arrives(c, "ReportMatchAbandoned")
    /\ \E req \in MatchAbandonedRequest(c) :
        \/ ~IsMatchAbandonedRequest(req) /\ Reply(c, 400)
        \/ IsMatchAbandonedRequest(req) /\ ToScript(c)

ServeQueueSize(c) == Arrives(c, "GetQueueSize") /\ ToScript(c)

\* RespondHealth of a server: 503 while its circuit is open.
ServeHealth(c) ==
    /\ Arrives(c, "GetHealth")
    /\ \E s \in Servers : Reply(c, IF breaker[s].isOpen THEN 503 ELSE 200)
-----------------------------------------------------------------------------
(* Handlers at Redis.  A failing call ran its script or did not; Redis also  *)
(* fails calls whose request the client gave up (cancelled context).        *)

RunEnqueue(c) == Enqueue(calls[c].ids[1], calls[c].gateway, calls[c].joinedAt)

EnqueueScript(c) ==
    /\ InScript(c, "EnqueuePlayer")
    /\ \/ /\ RunEnqueue(c)
          /\ \E status \in {202, 503} :
                calls' = [Answered(c, status) EXCEPT ![c].effect = {Len(tickets) + 1}]
       \/ Reply(c, 503)

\* The player the handler is cancelling, and the tickets that ends.
Target(c) == calls[c].ids[calls[c].cancels + 1]

Waiting(c) == TicketsOf(queue \ removePlayerEntries(queue, Target(c)))

RunCancel(c) ==
    /\ \/ Cancel(Target(c))
       \/ Waiting(c) = {} /\ UNCHANGED vars

CancelScript(c) ==
    /\ InScript(c, "CancelPlayer")
    /\ \/ /\ RunCancel(c)
          /\ \E status \in {IF Waiting(c) = {} THEN 404 ELSE 200, 503} :
                calls' = [Answered(c, status) EXCEPT ![c].effect = Waiting(c)]
       \/ Reply(c, 503)

\* What one turn of the loop of Abandon leaves of the call.
Turn(k, fails, removed) ==
    [k EXCEPT !.cancels = @ + 1, !.failed = @ \/ fails, !.effect = @ \cup removed,
              !.raced = @ \/ k.pair \cap TicketsOf(Held) # {}]

\* Mutant of Cancelled: only the failure of the last cancel is reported.
CancelledLast(k, fails, removed) ==
    IF k.cancels + 1 < Len(k.ids) THEN Turn(k, fails, removed)
    ELSE Answer(Turn(k, fails, removed), IF fails THEN 503 ELSE 204)

\* Mutant of Cancelled: a report that found nobody waiting is answered 404.
CancelledNotFound(k, fails, removed) ==
    IF k.cancels + 1 < Len(k.ids) THEN Turn(k, fails, removed)
    ELSE Answer(Turn(k, fails, removed), IF k.failed \/ fails THEN 503
                                         ELSE IF k.effect \cup removed = {} THEN 404 ELSE 204)

\* After its last turn Abandon returns the failures together.
Cancelled(k, fails, removed) ==
    IF k.cancels + 1 < Len(k.ids) THEN Turn(k, fails, removed)
    ELSE Answer(Turn(k, fails, removed), IF k.failed \/ fails THEN 503 ELSE 204)

AbandonScript(c) ==
    /\ InScript(c, "ReportMatchAbandoned")
    /\ \/ RunCancel(c) /\ \E fails \in BOOLEAN :
                            calls' = [calls EXCEPT ![c] = Cancelled(@, fails, Waiting(c))]
       \/ UNCHANGED vars /\ calls' = [calls EXCEPT ![c] = Cancelled(@, TRUE, {})]

SizeScript(c) ==
    /\ InScript(c, "GetQueueSize")
    /\ \E status \in {200, 503} : Reply(c, status)
-----------------------------------------------------------------------------
Handle(c) ==
    \/ NotRouted(c) \/ Unauthorized(c)
    \/ ServeEnqueue(c) \/ ServeCancel(c) \/ ServeMatchAbandoned(c)
    \/ ServeQueueSize(c) \/ ServeHealth(c)
    \/ EnqueueScript(c) \/ CancelScript(c) \/ AbandonScript(c) \/ SizeScript(c)

\* The steps of Matcher other than Enqueue and Cancel.
MatcherStep ==
    /\ \/ Evict
       \/ Elapse
       \/ \E m \in inFlight : Deliver(m)
       \/ \E s \in Servers : Shutdown(s) \/ TickerFires(s) \/ RunStep(s) \/ TickStep(s)
    /\ UNCHANGED calls

RequestsNext == MatcherStep \/ \E c \in Calls : Start(c) \/ Handle(c) \/ Return(c)

RequestsSpec == Init /\ [][RequestsNext]_requestVars
-----------------------------------------------------------------------------
\* The responses data/openapi.yaml gives each operation.
contract(op) ==
    CASE op = "EnqueuePlayer"        -> {202, 400, 401, 503}
      [] op = "CancelPlayer"         -> {200, 401, 404, 503}
      [] op = "ReportMatchAbandoned" -> {204, 400, 503}
      [] op = "GetQueueSize"         -> {200, 503}
      [] op = "GetHealth"            -> {200, 503}

(* Calls have their type; a handler at Redis has a player to work on; effect *)
(* names tickets that exist.  Every handler answers with a status that the   *)
(* contract has for its own operation, on every way through it and its       *)
(* scripts; a 404 beside the contract comes from the router alone, for a     *)
(* base URL that is not the one of the service.                              *)
CallsOK ==
    \A c \in Calls :
        /\ calls[c].stage \in {"new", "sent", "script", "answered", "returned"}
        /\ calls[c].stage = "answered" =>
                \/ calls[c].status \in contract(calls[c].op)
                \/ calls[c].status = 404 /\ ~calls[c].isConfigured
        /\ calls[c].stage = "script" /\ calls[c].op # "GetQueueSize" =>
                calls[c].cancels < Len(calls[c].ids)
        /\ calls[c].effect \subseteq DOMAIN tickets

\* The result is true of the call k.
IsTrue(k, result) ==
    /\ result = "nil" /\ k.op \in {"EnqueuePlayer", "CancelPlayer"} => k.effect # {}
    /\ result \in {"ErrBadRequest", "ErrUnauthorized", "ErrNotFound"} => k.effect = {}
    /\ result \notin {"unexpected", "ErrForbidden", "ErrInternalServer"}
    /\ result = "ErrNotFound" /\ k.isConfigured => k.op = "CancelPlayer"

(* What the client returns is true of the queue, across the client, the     *)
(* router, the handler and the adapter: nil means that the player was put   *)
(* in the queue or taken out of it by this very call, and an error that     *)
(* blames the request (400, 401, 404) that the call changed nothing.  Only  *)
(* 503 and a call without an answer leave it open.  ErrNotFound speaks of a *)
(* player only for CancelPlayer, also when the base URL the client was      *)
(* given lacks the trailing slash.                                          *)
ResultsAreTrue ==
    [][\A c \in Calls : calls'[c].result # calls[c].result =>
            IsTrue(calls[c], calls'[c].result)]_calls

(* A wait that Cancel or Abandon ended is over: no tick holds the ticket    *)
(* and no write-back brings it back (as long as Redis answers the ticks).   *)
CancelledStaysOut ==
    \A t \in DOMAIN tickets :
        tickets[t].fate = "cancelled" => t \notin TicketsOf(queue \cup Held)

(* Abandon answered 204 after the publication of the match was over: its    *)
(* players' tickets are out of the queue for good, also when the event was  *)
(* delivered late and the pair had been written back and popped before.     *)
AbandonedSettledPairStaysOut ==
    \A c \in Calls :
        calls[c].op = "ReportMatchAbandoned" /\ calls[c].status = 204 /\ ~calls[c].raced =>
            calls[c].pair \cap TicketsOf(queue \cup Held) = {}

(* data/openapi.yaml of match-abandoned: the pair is not returned to the    *)
(* queue; whether to search again is for the players to decide.             *)
AbandonedPairStaysOut ==
    \A c \in Calls :
        calls[c].op = "ReportMatchAbandoned" /\ calls[c].status = 204 =>
            calls[c].pair \cap TicketsOf(queue) = {}
=============================================================================
