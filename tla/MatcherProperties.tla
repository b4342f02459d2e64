------------------------- MODULE MatcherProperties -------------------------
(***************************************************************************)
(* What the matchers of Matcher.tla have to guarantee to the players, to   *)
(* the subscribers of match_made and to whoever operates the service.      *)
(***************************************************************************)
EXTENDS Matcher, FiniteSets

-----------------------------------------------------------------------------
(* Safety *)

(* Run starts a tick only when the previous one is over and Run knows it,   *)
(* the buffered send on tickDone therefore never blocks, and a Run that     *)
(* logged "drain complete" left no tick behind.                             *)
OneTickAtATime ==
    \A s \in Servers :
        /\ tick[s].step # "idle" => loop[s].tickRunning /\ ~loop[s].tickDone
        /\ loop[s].tickDone => loop[s].tickRunning
        /\ loop[s].phase = "drained" => tick[s].step = "idle"

(* The state /internal/v1/health reports and allowTick acts on agrees with  *)
(* the failure counters after every tick, retry and cooldown.               *)
CircuitOpenIffOverThreshold == \A s \in Servers : BreakerInv(breaker[s])

Unread == {t \in DOMAIN tickets : tickets[t].fate = "unread"}

(* Players disappear without a trace in one way only, and it is limited.    *)
(* Until the player cancels or rejoins, the queue is emptied, or the loss   *)
(* is logged, a ticket is waiting, held by a tick, or in a message the      *)
(* Pub/Sub client or the topic has - or a pop took it whose reply was lost, *)
(* and tick, which returns at the error, loses it silently.  (The table of  *)
(* failures in docs/DATA_DESIGN.md says the queue continues unchanged after *)
(* Redis fails; for such a pair it does not.)  Each failed Redis call takes *)
(* at most one pair that way.                                               *)
NoSilentLoss ==
    /\ \A t \in DOMAIN tickets :
        tickets[t].fate = "open" =>
            t \in TicketsOf(queue \cup Held \cup EntriesOf(inFlight \cup topic))
    /\ Cardinality(Unread) <= 2 * faults.redis

(* reenqueueWithRetry gives a pair up only in an outage: outside a shutdown *)
(* it takes as many failed Redis calls as there are attempts, and in a      *)
(* shutdown at least the failure of the final attempt, which does not use   *)
(* the cancelled context.                                                   *)
LossNeedsOutage ==
    (\E t \in DOMAIN tickets : tickets[t].fate = "lost") =>
        faults.redis >= IF \E s \in Servers : ctxDone[s] THEN 1 ELSE MaxAttempts

(* A ticket is in at most one message whose publication was confirmed to    *)
(* the matcher: a pair goes back to the queue only when it was not.         *)
MatchedOnce ==
    \A m, n \in topic :
        /\ {m.matchID, n.matchID} \subseteq acked
        /\ TicketsOf(EntriesOf({m})) \cap TicketsOf(EntriesOf({n})) # {}
        => m = n

(* What data/asyncapi.yaml expects of match_made ("exactly-once"): a ticket *)
(* is in at most one delivered message.                                     *)
DeliveredOnce ==
    \A m, n \in topic :
        TicketsOf(EntriesOf({m})) \cap TicketsOf(EntriesOf({n})) # {} => m = n

(* A ticket is in one place: while a tick holds it, it is neither waiting    *)
(* nor held by the tick of another instance, also while two instances of    *)
(* the service overlap in a deployment.                                     *)
OneHolder ==
    \A s \in Servers : \A h \in PairOf(s) :
        h.ticket \notin TicketsOf(queue \cup UNION {PairOf(r) : r \in Servers \ {s}})

(* docs/DATA_DESIGN.md: the two entries of one ZPOPMIN are always of the    *)
(* same gateway process, so that a pair is kept or dropped as a whole.      *)
PairSameGateway ==
    \A s \in Servers : \A d, e \in PairOf(s) :
        tickets[d.ticket].gateway = tickets[e.ticket].gateway

(* The players waiting together joined through one gateway process, so the  *)
(* entries of a process that is gone never mix with those of its successor, *)
(* neither through an enqueue after the identifier key was evicted nor      *)
(* through the write-back of a pair popped before the switch.               *)
SameGateway ==
    /\ \A d, e \in queue : tickets[d.ticket].gateway = tickets[e.ticket].gateway
    /\ PairSameGateway

(* First come, first served by the time of joining, also for the pairs that *)
(* were popped before and written back with their original score: nobody    *)
(* left waiting by a pop joined before the players it took.                 *)
PopsEarliest ==
    [][\A s \in Servers :
        tick[s].step = "popping" /\ tick'[s].step = "publishing" =>
            \A h \in PairOf(s)', w \in queue' :
                tickets[h.ticket].joinedAt <= tickets[w.ticket].joinedAt]_vars
-----------------------------------------------------------------------------
(* Refinement: what the breaker promises, without its isOpen flag. *)

TickPhase(s) == IF tick[s].step \in {"popping", "publishing"} THEN tick[s].step ELSE "idle"

C(s) == INSTANCE Circuit WITH
            popStreak     <- breaker[s].popFailureCount,
            publishStreak <- breaker[s].publishFailureCount,
            sinceTrip     <- breaker[s].sinceOpened,
            phase         <- TickPhase(s)

(* On every server the ticks that touch the queue, and when, are those the  *)
(* abstract circuit allows: \A s \in Servers : C(s)!Spec, with the quantifier *)
(* moved inside so that TLC can check it.                                   *)
RefinesCircuit ==
    /\ \A s \in Servers : C(s)!Init
    /\ [][\A s \in Servers : [C(s)!Next]_(C(s)!cvars)]_vars
-----------------------------------------------------------------------------
(* Liveness *)

(* As long as a server runs, waiting players are eventually paired off:     *)
(* failed publishes, retries and open circuits delay them but no            *)
(* combination of these stops the ticks for good.                           *)
EveryonePaired ==
    <>[](\/ \A s \in Servers : ctxDone[s]
         \/ (\A d, e \in queue : d = e) /\ Held = {})

(* An open circuit is tried again: after its cooldown some tick pops.       *)
OpenCircuitIsRetried ==
    \A s \in Servers : breaker[s].isOpen ~> (tick[s].step = "popping" \/ ctxDone[s])

(* After SIGTERM the drain completes by itself, without its time limit: Run *)
(* returns with its last tick over, the pair it held published, written     *)
(* back or logged.  It fails to only when the limit fires first, and then   *)
(* nothing is promised of the pair: the process ends (ShutdownWritesBack of *)
(* Server).                                                                 *)
ShutdownSettles ==
    \A s \in Servers :
        ctxDone[s] ~> \/ loop[s].phase = "drained" /\ tick[s].step = "idle"
                      \/ loop[s].phase = "forced"
=============================================================================
