------------------------------ MODULE Matcher ------------------------------
(***************************************************************************)
(* The matcher of internal/usecase/matcher/matcher.go on every running     *)
(* instance of the service, over the queue they share in Redis and the     *)
(* Pub/Sub topic they publish to.  On each server there is                 *)
(*   - the goroutine of Run: a select over the ticker, the end of a tick   *)
(*     and the cancelled context, then the drain (variable loop);          *)
(*   - the goroutine of a tick: pop, publish, and on a failed publish the  *)
(*     re-enqueue with its retries (variable tick);                        *)
(*   - the circuit breaker the tick consults (variable breaker).           *)
(* Calls to Redis and Pub/Sub may fail; a Redis call may also fail after   *)
(* its script ran, and a publish may fail though the message is delivered. *)
(***************************************************************************)
EXTENDS Naturals, Sequences, RedisQueue, CircuitBreaker

CONSTANTS
    Servers,           \* instances of the service
    Stopping,          \* the instances that receive SIGTERM
    Times,             \* clock values an enqueue may read
    MaxAttempts,       \* reenqueueMaxAttempts
    MaxTickets,        \* bound on the enqueue calls of a behaviour
    MaxRedisFaults,    \* bound on the Redis calls that fail
    MaxPublishFaults,  \* bound on the publishes that fail
    MaxEvictions       \* bound on the keys Redis evicts

ASSUME MatcherAssumption ==
    /\ Times \subseteq Nat /\ Stopping \subseteq Servers
    /\ MaxAttempts \in Nat \ {0}
    /\ {MaxTickets, MaxRedisFaults, MaxPublishFaults, MaxEvictions} \subseteq Nat

VARIABLES
    tick,     \* per server: where its tick is, and the locals of tick
    loop,     \* per server: where Run is, and the locals of Run
    breaker,  \* per server: Matcher.circuit
    ctxDone,  \* per server: the context of Run is cancelled
    inFlight, \* match_made messages the Pub/Sub client still tries to send
    topic,    \* match_made messages the topic accepted
    acked,    \* match ids whose Publish returned nil
    issued,   \* match ids generated so far; ULIDs never repeat
    tickets,  \* history: every enqueue call and what ended its wait
    faults    \* bounds: faults that happened so far

tickVars   == <<tick, breaker>>
pubsubVars == <<inFlight, topic, acked, issued>>
vars == <<queue, instanceID, tick, loop, breaker, ctxDone,
          inFlight, topic, acked, issued, tickets, faults>>

-----------------------------------------------------------------------------
(* State *)

NoPair == <<>>

TickSteps == {"idle", "starting", "popping", "publishing",
              "reenqueueing", "backoff", "final"}

idleTick == [step |-> "idle", pair |-> NoPair, gateway |-> NoGateway,
             matchID |-> 0, attempt |-> 0]

\* How the wait of a ticket ended.  All but "unread" follow from what a player
\* or Redis did, or from a log line that names the players.
\*   open      nothing ended it: waiting, held by a tick, or published
\*   replaced  the same player was written to the queue again
\*   cancelled Cancel removed the entry
\*   reset     the queue was emptied for another gateway process
\*   evicted   Redis evicted the queue
\*   unread    popped, but the reply never arrived: tick counts and logs a
\*             failed pop and cannot tell whose; nothing names the players
\*   dropped   logDroppedPair: not written back, the gateway process changed
\*   lost      logged as lost: the re-enqueue failed for good
Fates == {"open", "replaced", "cancelled", "reset", "evicted",
          "unread", "dropped", "lost"}

Ticket == [player : Players, gateway : Gateways, joinedAt : Times, fate : Fates]

TicketsOf(entries) == {e.ticket : e \in entries}

PairOf(s) == {tick[s].pair[i] : i \in DOMAIN tick[s].pair}

\* The history h after the tickets of the given entries met the given fate.
Ended(h, entries, fate) ==
    [t \in DOMAIN h |->
        IF t \in TicketsOf(entries) THEN [h[t] EXCEPT !.fate = fate] ELSE h[t]]

\* The message of match_made carries the match id and the two players.
Message(matchID, pair) == [matchID |-> matchID, pair |-> pair]

MessageOf(s) == Message(tick[s].matchID, tick[s].pair)

Held == UNION {PairOf(s) : s \in Servers}

EntriesOf(messages) == UNION {{m.pair[1], m.pair[2]} : m \in messages}

MatcherInit ==
    /\ QueueInit
    /\ tick = [s \in Servers |-> idleTick]
    /\ loop = [s \in Servers |-> [phase |-> "select", ticker |-> FALSE,
                                  tickRunning |-> FALSE, tickDone |-> FALSE]]
    /\ breaker = [s \in Servers |-> newCircuitBreaker]
    /\ ctxDone = [s \in Servers |-> FALSE]
    /\ inFlight = {} /\ topic = {} /\ acked = {} /\ issued = 0
    /\ tickets = <<>>
    /\ faults = [redis |-> 0, publish |-> 0, evictions |-> 0]
-----------------------------------------------------------------------------
(* The other callers of the queue, and the environment *)

\* The entries enqueue.lua or reenqueue.lua deletes before it adds e to q.
Replaced(q, e) == q \ removePlayerEntries(q, e.player)

\* Enqueue: the score is the clock of the server that handles the request.
\* Requests reach Redis in any order, so it may be behind earlier scores.
Enqueue(player, gateway, joinedAt) ==
    LET e == [player |-> player, joinedAt |-> joinedAt, ticket |-> Len(tickets) + 1]
        reset == queue \ Kept(gateway)
        history == Ended(Ended(tickets, reset, "reset"),
                         Replaced(Kept(gateway), e), "replaced")
    IN  /\ Len(tickets) < MaxTickets
        /\ enqueueLua(e, gateway)
        /\ tickets' = Append(history,
                             [player |-> player, gateway |-> gateway,
                              joinedAt |-> joinedAt, fate |-> "open"])
        /\ UNCHANGED <<tickVars, loop, ctxDone, pubsubVars, faults>>

\* Cancel that finds the player waiting (a 404 changes nothing).
Cancel(player) ==
    LET removed == queue \ removePlayerEntries(queue, player)
    IN  /\ removed # {}
        /\ cancelLua(player)
        /\ tickets' = Ended(tickets, removed, "cancelled")
        /\ UNCHANGED <<tickVars, loop, ctxDone, pubsubVars, faults>>

Evict ==
    /\ faults.evictions < MaxEvictions
    /\ \/ EvictInstanceID /\ UNCHANGED tickets
       \/ EvictQueue /\ tickets' = Ended(tickets, queue, "evicted")
    /\ faults' = [faults EXCEPT !.evictions = @ + 1]
    /\ UNCHANGED <<tickVars, loop, ctxDone, pubsubVars>>

\* Time passes for the cooldown of every open circuit.
Elapse ==
    /\ \E s \in Servers : breaker[s].isOpen /\ breaker[s].sinceOpened < Cooldown
    /\ breaker' = [s \in Servers |-> elapse(breaker[s])]
    /\ UNCHANGED <<queueVars, tick, loop, ctxDone, pubsubVars, tickets, faults>>

\* The topic accepts a message the client sends, also one nobody waits for.
Deliver(m) ==
    /\ inFlight' = inFlight \ {m}
    /\ topic' = topic \cup {m}
    /\ UNCHANGED <<queueVars, tickVars, loop, ctxDone, acked, issued, tickets, faults>>
-----------------------------------------------------------------------------
(* The goroutine of Run *)

runUnchanged == UNCHANGED <<queueVars, breaker, pubsubVars, tickets, faults>>

\* SIGTERM cancels the context of signal.NotifyContext.
Shutdown(s) ==
    /\ s \in Stopping /\ ~ctxDone[s]
    /\ ctxDone' = [ctxDone EXCEPT ![s] = TRUE]
    /\ UNCHANGED <<tick, loop>> /\ runUnchanged

\* time.Ticker keeps at most one notification until it is read; Run stops it
\* when it returns.  Bound: no interval passes between the cancellation of the
\* context and the drain; a notification already pending may start a last tick.
TickerFires(s) ==
    /\ ~ctxDone[s] /\ ~loop[s].ticker
    /\ loop' = [loop EXCEPT ![s].ticker = TRUE]
    /\ UNCHANGED <<tick, ctxDone>> /\ runUnchanged

\* Mutant of startTick: the ticker is read while a tick runs.
startTickAnyway(s) ==
    /\ loop[s].phase = "select" /\ loop[s].ticker
    /\ loop' = [loop EXCEPT ![s].ticker = FALSE, ![s].tickRunning = TRUE]
    /\ tick' = [tick EXCEPT ![s].step = "starting"]
    /\ UNCHANGED ctxDone /\ runUnchanged

\* case <-tickerC: startTick().  tickerC is nil while a tick runs.
startTick(s) ==
    /\ loop[s].phase = "select" /\ ~loop[s].tickRunning /\ loop[s].ticker
    /\ loop' = [loop EXCEPT ![s].ticker = FALSE, ![s].tickRunning = TRUE]
    /\ tick' = [tick EXCEPT ![s].step = "starting"]
    /\ UNCHANGED ctxDone /\ runUnchanged

\* Mutant of ReceiveTickDone: tickRunning stays set.
ReceiveAndForget(s) ==
    /\ loop[s].phase = "select" /\ loop[s].tickDone
    /\ loop' = [loop EXCEPT ![s].tickDone = FALSE]
    /\ UNCHANGED <<tick, ctxDone>> /\ runUnchanged

\* case <-tickDone.
ReceiveTickDone(s) ==
    /\ loop[s].phase = "select" /\ loop[s].tickDone
    /\ loop' = [loop EXCEPT ![s].tickDone = FALSE, ![s].tickRunning = FALSE]
    /\ UNCHANGED <<tick, ctxDone>> /\ runUnchanged

\* case <-ctx.Done().
StartDrain(s) ==
    /\ loop[s].phase = "select" /\ ctxDone[s]
    /\ loop' = [loop EXCEPT ![s].phase = "draining"]
    /\ UNCHANGED <<tick, ctxDone>> /\ runUnchanged

\* wg.Wait returned: no tick is running.
DrainCompletes(s) ==
    /\ loop[s].phase = "draining" /\ tick[s].step = "idle"
    /\ loop' = [loop EXCEPT ![s].phase = "drained"]
    /\ UNCHANGED <<tick, ctxDone>> /\ runUnchanged

\* clock.After(drainTimeout) fires first; a tick may still be running.
DrainTimesOut(s) ==
    /\ loop[s].phase = "draining"
    /\ loop' = [loop EXCEPT ![s].phase = "forced"]
    /\ UNCHANGED <<tick, ctxDone>> /\ runUnchanged
-----------------------------------------------------------------------------
(* The goroutine of a tick *)

\* Mutant of Finish: tickDone has no buffer, the send needs a receiver.
FinishUnbuffered(s) ==
    /\ ~loop[s].tickDone /\ loop[s].phase = "select"
    /\ tick' = [tick EXCEPT ![s] = idleTick]
    /\ loop' = [loop EXCEPT ![s].tickDone = TRUE]

\* tick returned: the deferred steps of startTick send on tickDone (buffer
\* of one, so the send would block on an unread one) and release the group.
Finish(s) ==
    /\ ~loop[s].tickDone
    /\ tick' = [tick EXCEPT ![s] = idleTick]
    /\ loop' = [loop EXCEPT ![s].tickDone = TRUE]

Step(s, step) ==
    /\ tick' = [tick EXCEPT ![s].step = step]
    /\ UNCHANGED loop

RedisFault ==
    /\ faults.redis < MaxRedisFaults
    /\ faults' = [faults EXCEPT !.redis = @ + 1]

\* A call made with the context of Run: it fails without reaching Redis when
\* the context is cancelled.
CtxFault(s) == ctxDone[s] /\ UNCHANGED faults

\* allowTick: an open circuit keeps the tick away from the queue.
BeginTick(s) ==
    /\ tick[s].step = "starting"
    /\ breaker' = [breaker EXCEPT ![s] = allowTick(@)]
    /\ \/ IsAllowed(breaker[s]) /\ Step(s, "popping")
       \/ ~IsAllowed(breaker[s]) /\ Finish(s)
    /\ UNCHANGED <<queueVars, ctxDone, pubsubVars, tickets, faults>>

\* PopPair returns a pair: a match id is generated and Publish hands the
\* message to the Pub/Sub client.
PopPair(s) ==
    /\ tick[s].step = "popping"
    /\ \E a, b \in queue :
        /\ popPairLua(a, b)
        /\ tick' = [tick EXCEPT ![s] = [step |-> "publishing", pair |-> <<a, b>>,
                                        gateway |-> instanceID,
                                        matchID |-> issued + 1, attempt |-> 0]]
        /\ inFlight' = inFlight \cup {Message(issued + 1, <<a, b>>)}
    /\ issued' = issued + 1
    /\ breaker' = [breaker EXCEPT ![s] = recordPopSuccess(@)]
    /\ UNCHANGED <<loop, ctxDone, topic, acked, tickets, faults>>

PopEmpty(s) ==
    /\ tick[s].step = "popping"
    /\ popNothingLua
    /\ Finish(s)
    /\ breaker' = [breaker EXCEPT ![s] = recordPopSuccess(@)]
    /\ UNCHANGED <<ctxDone, pubsubVars, tickets, faults>>

\* PopPair returns an error and tick returns.  The script may have run all the
\* same: then the pair is gone, and neither it nor its players are known to
\* anybody.  Fate "unread" is the only trace of that, and it is ours.
PopFails(s) ==
    /\ tick[s].step = "popping"
    /\ \/ (RedisFault \/ CtxFault(s)) /\ UNCHANGED <<queueVars, tickets>>
       \/ /\ RedisFault
          /\ \E a, b \in queue :
                popPairLua(a, b) /\ tickets' = Ended(tickets, {a, b}, "unread")
    /\ Finish(s)
    /\ breaker' = [breaker EXCEPT ![s] = recordPopFailure(@)]
    /\ UNCHANGED <<ctxDone, pubsubVars>>

PublishSucceeds(s) ==
    /\ tick[s].step = "publishing" /\ MessageOf(s) \in topic
    /\ acked' = acked \cup {tick[s].matchID}
    /\ Finish(s)
    /\ breaker' = [breaker EXCEPT ![s] = recordPublishSuccess(@)]
    /\ UNCHANGED <<queueVars, ctxDone, inFlight, topic, issued, tickets, faults>>

\* result.Get returns an error: the client gave the message up, or the
\* publish timeout or the cancelled context ended the wait for its answer.
PublishFails(s) ==
    /\ tick[s].step = "publishing"
    /\ \/ /\ faults.publish < MaxPublishFaults
          /\ faults' = [faults EXCEPT !.publish = @ + 1]
          /\ \/ MessageOf(s) \in inFlight /\ inFlight' = inFlight \ {MessageOf(s)}
             \/ UNCHANGED inFlight
       \/ CtxFault(s) /\ UNCHANGED inFlight
    /\ breaker' = [breaker EXCEPT ![s] = recordPublishFailure(@)]
    /\ tick' = [tick EXCEPT ![s].step = "reenqueueing", ![s].attempt = 1]
    /\ UNCHANGED <<queueVars, loop, ctxDone, topic, acked, issued, tickets>>

\* The history after reenqueue.lua wrote the pair of s back: entries the same
\* players made since the pop are gone.
Overwritten(s) ==
    LET a == tick[s].pair[1]  b == tick[s].pair[2]
    IN  IF IsExpected(tick[s].gateway)
        THEN Ended(tickets, (Replaced(queue, a) \cup Replaced(queue, b)) \ {a, b}, "replaced")
        ELSE tickets

\* reenqueue.lua for the pair of s.
WriteBack(s) == reenqueueLua(tick[s].gateway, tick[s].pair[1], tick[s].pair[2])

\* Reenqueue returns without an error, in the loop of reenqueueWithRetry or
\* in bestEffortReenqueue; logDroppedPair when nothing was written.
Reenqueue(s) ==
    /\ tick[s].step \in {"reenqueueing", "final"}
    /\ WriteBack(s)
    /\ tickets' = IF IsExpected(tick[s].gateway)
                  THEN Overwritten(s)
                  ELSE Ended(tickets, PairOf(s), "dropped")
    /\ Finish(s)
    /\ UNCHANGED <<breaker, ctxDone, pubsubVars, faults>>

\* Mutant of ReenqueueFails: the number of attempts is not checked.
ReenqueueFailsForever(s) ==
    /\ tick[s].step = "reenqueueing"
    /\ (RedisFault \/ CtxFault(s)) /\ UNCHANGED <<queueVars, tickets>>
    /\ Step(s, IF ctxDone[s] THEN "final" ELSE "backoff")
    /\ UNCHANGED <<breaker, ctxDone, pubsubVars>>

\* Reenqueue returns an error in the loop of reenqueueWithRetry, though the
\* script may have run.
ReenqueueFails(s) ==
    /\ tick[s].step = "reenqueueing"
    /\ ctxDone[s] \/ tick[s].attempt < MaxAttempts
    /\ \/ (RedisFault \/ CtxFault(s)) /\ UNCHANGED <<queueVars, tickets>>
       \/ RedisFault /\ WriteBack(s) /\ tickets' = Overwritten(s)
    /\ Step(s, IF ctxDone[s] THEN "final" ELSE "backoff")
    /\ UNCHANGED <<breaker, ctxDone, pubsubVars>>

\* The wait between two attempts ends, or the context is cancelled in it.
BackoffEnds(s) ==
    /\ tick[s].step = "backoff"
    /\ tick' = [tick EXCEPT ![s].step = "reenqueueing", ![s].attempt = @ + 1]
    /\ UNCHANGED <<queueVars, loop, breaker, ctxDone, pubsubVars, tickets, faults>>

\* Mutant of BackoffCancelled: returns without the final attempt.
BackoffAborted(s) ==
    /\ tick[s].step = "backoff" /\ ctxDone[s]
    /\ Finish(s)
    /\ UNCHANGED <<queueVars, breaker, ctxDone, pubsubVars, tickets, faults>>

BackoffCancelled(s) ==
    /\ tick[s].step = "backoff" /\ ctxDone[s]
    /\ Step(s, "final")
    /\ UNCHANGED <<queueVars, breaker, ctxDone, pubsubVars, tickets, faults>>

\* Mutant of LosePair: the final attempt uses the cancelled context.
LosePairCancelled(s) ==
    /\ tick[s].step = "final"
    /\ RedisFault \/ CtxFault(s)
    /\ UNCHANGED queueVars /\ tickets' = Ended(tickets, PairOf(s), "lost")
    /\ Finish(s)
    /\ UNCHANGED <<breaker, ctxDone, pubsubVars>>

\* The last Reenqueue fails: the last attempt of reenqueueWithRetry, or the
\* one of bestEffortReenqueue.  The pair is logged as lost.
LosePair(s) ==
    /\ \/ tick[s].step = "final"
       \/ tick[s].step = "reenqueueing" /\ tick[s].attempt = MaxAttempts /\ ~ctxDone[s]
    /\ RedisFault
    /\ \/ UNCHANGED queueVars /\ tickets' = Ended(tickets, PairOf(s), "lost")
       \/ WriteBack(s) /\ tickets' = Ended(Overwritten(s), PairOf(s), "lost")
    /\ Finish(s)
    /\ UNCHANGED <<breaker, ctxDone, pubsubVars>>
-----------------------------------------------------------------------------
RunStep(s) ==
    \/ startTick(s) \/ ReceiveTickDone(s)
    \/ StartDrain(s) \/ DrainCompletes(s) \/ DrainTimesOut(s)

TickStep(s) ==
    \/ BeginTick(s)
    \/ PopPair(s) \/ PopEmpty(s) \/ PopFails(s)
    \/ PublishSucceeds(s) \/ PublishFails(s)
    \/ Reenqueue(s) \/ ReenqueueFails(s)
    \/ BackoffEnds(s) \/ BackoffCancelled(s) \/ LosePair(s)

Next ==
    \/ \E p \in Players, g \in Gateways, t \in Times : Enqueue(p, g, t)
    \/ \E p \in Players : Cancel(p)
    \/ Evict
    \/ Elapse
    \/ \E m \in inFlight : Deliver(m)
    \/ \E s \in Servers : Shutdown(s) \/ TickerFires(s) \/ RunStep(s) \/ TickStep(s)

Spec == MatcherInit /\ [][Next]_vars

(* Fairness.  The goroutines run; the ticker fires every interval and the   *)
(* clock advances; the Pub/Sub client sends what it holds; the select of    *)
(* Run chooses uniformly among the ready cases, so none starves.  Nothing   *)
(* is assumed of the time limit of the drain, which may fire early, late or *)
(* not at all, nor of a tick it left behind: Run has returned, and main     *)
(* returns next and ends the process wherever that tick is.                 *)
Fairness ==
    /\ WF_vars(Elapse)
    /\ WF_vars(\E m \in inFlight : Deliver(m))
    /\ \A s \in Servers :
        /\ WF_vars(TickerFires(s))
        /\ WF_vars(startTick(s) \/ ReceiveTickDone(s))
        /\ WF_vars(StartDrain(s))
        /\ WF_vars(DrainCompletes(s))
        /\ WF_vars(loop[s].phase # "forced" /\ TickStep(s))

FairSpec == Spec /\ Fairness
-----------------------------------------------------------------------------
TickLocals == [step : TickSteps, pair : {NoPair} \cup (Entry \X Entry),
               gateway : Gateways \cup {NoGateway},
               matchID : Nat, attempt : 0..MaxAttempts]

RunLocals == [phase : {"select", "draining", "drained", "forced"},
              ticker : BOOLEAN, tickRunning : BOOLEAN, tickDone : BOOLEAN]

Messages == [matchID : Nat, pair : Entry \X Entry]

(* Every variable has its type.  That holds of attempt because the loop of  *)
(* reenqueueWithRetry never counts past its last attempt.                   *)
TypeOK ==
    /\ queue \subseteq Entry
    /\ instanceID \in Gateways \cup {NoGateway}
    /\ tick \in [Servers -> TickLocals]
    /\ loop \in [Servers -> RunLocals]
    /\ breaker \in [Servers -> Breaker]
    /\ ctxDone \in [Servers -> BOOLEAN]
    /\ inFlight \subseteq Messages
    /\ topic \subseteq Messages
    /\ acked \subseteq Nat
    /\ issued \in Nat
    /\ tickets \in Seq(Ticket)
    /\ faults \in [redis : Nat, publish : Nat, evictions : Nat]
=============================================================================
