--------------------------- MODULE MatcherProofs ---------------------------
(***************************************************************************)
(* Theorems about the matchers, for any number of servers, players,        *)
(* gateways, attempts and faults.                                          *)
(***************************************************************************)
EXTENDS MatcherProperties, CircuitBreakerProofs, TLAPS

-----------------------------------------------------------------------------
(* Type correctness, and the agreement of flag and counters in every breaker *)

HoldingSteps == {"publishing", "reenqueueing", "backoff", "final"}

\* What the types need: a tick past its pop has a pair, and a tick that
\* waits for another attempt has one left.
TickInv ==
    \A s \in Servers :
        /\ tick[s].step \in HoldingSteps => tick[s].pair \in Entry \X Entry
        /\ tick[s].step = "backoff" => tick[s].attempt < MaxAttempts

TypeInv == TypeOK /\ TickInv /\ CircuitOpenIffOverThreshold

\* Marking tickets in the history leaves a history of the same length.
LEMMA EndedType ==
    ASSUME NEW h \in Seq(Ticket), NEW entries, NEW fate \in Fates
    PROVE  /\ Ended(h, entries, fate) \in Seq(Ticket)
           /\ Len(Ended(h, entries, fate)) = Len(h)
<1> DEFINE f(t) == IF t \in TicketsOf(entries) THEN [h[t] EXCEPT !.fate = fate] ELSE h[t]
<1>1. DOMAIN h = 1..Len(h) /\ Len(h) \in Nat
  OBVIOUS
<1>2. \A t \in 1..Len(h) : f(t) \in Ticket
  <2> SUFFICES ASSUME NEW t \in 1..Len(h) PROVE f(t) \in Ticket
    OBVIOUS
  <2>1. h[t] \in Ticket
    BY <1>1
  <2> QED BY <2>1 DEF Ticket
<1>3. Ended(h, entries, fate) = [t \in 1..Len(h) |-> f(t)]
  BY <1>1 DEF Ended
<1> HIDE DEF f
<1> QED BY <1>1, <1>2, <1>3

\* Writing an entry keeps a set of entries.
LEMMA PutType ==
    ASSUME NEW q \in SUBSET Entry, NEW e \in Entry
    PROVE  Put(q, e) \in SUBSET Entry
BY DEF Put, removePlayerEntries

\* The write-back of a held pair keeps the types of the keys.
LEMMA WriteBackType ==
    ASSUME TypeInv, NEW s \in Servers, tick[s].step \in HoldingSteps, WriteBack(s)
    PROVE  queue' \subseteq Entry /\ instanceID' = instanceID
<1>1. tick[s].pair[1] \in Entry /\ tick[s].pair[2] \in Entry
  BY DEF TypeInv, TickInv
<1>2. Put(Put(queue, tick[s].pair[1]), tick[s].pair[2]) \in SUBSET Entry
  BY <1>1, PutType DEF TypeInv, TypeOK
<1> QED BY <1>2 DEF WriteBack, reenqueueLua, TypeInv, TypeOK

\* A tick that is over leaves idle locals and a message on tickDone.
LEMMA FinishType ==
    ASSUME TypeInv, NEW s \in Servers, Finish(s)
    PROVE  tick' \in [Servers -> TickLocals] /\ loop' \in [Servers -> RunLocals] /\ TickInv'
<1>1. idleTick \in TickLocals
  BY MatcherAssumption DEF idleTick, TickLocals, TickSteps
<1>2. tick' \in [Servers -> TickLocals]
  BY <1>1 DEF Finish, TypeInv, TypeOK
<1>3. loop' \in [Servers -> RunLocals]
  BY DEF Finish, TypeInv, TypeOK, RunLocals
<1>4. TickInv'
  <2>1. \A r \in Servers : tick'[r] = IF r = s THEN idleTick ELSE tick[r]
    BY DEF Finish, TypeInv, TypeOK
  <2> QED BY <2>1 DEF TickInv, TypeInv, idleTick, HoldingSteps
<1> QED BY <1>2, <1>3, <1>4

\* A step that records an outcome with one breaker keeps them all.
LEMMA BreakerStep ==
    ASSUME TypeInv, NEW s \in Servers, NEW d \in Breaker, BreakerInv(d),
           breaker' = [breaker EXCEPT ![s] = d]
    PROVE  breaker' \in [Servers -> Breaker] /\ CircuitOpenIffOverThreshold'
<1>1. \A r \in Servers : breaker'[r] = IF r = s THEN d ELSE breaker[r]
  BY DEF TypeInv, TypeOK
<1>2. CircuitOpenIffOverThreshold'
  BY <1>1 DEF CircuitOpenIffOverThreshold, TypeInv
<1> QED BY <1>2 DEF TypeInv, TypeOK

\* A tick that only moves to another step keeps its locals.
LEMMA StepType ==
    ASSUME TypeInv, NEW s \in Servers, NEW step \in TickSteps, Step(s, step),
           step \in HoldingSteps => tick[s].step \in HoldingSteps,
           step = "backoff" => tick[s].attempt < MaxAttempts
    PROVE  tick' \in [Servers -> TickLocals] /\ loop' \in [Servers -> RunLocals] /\ TickInv'
<1>1. tick' = [tick EXCEPT ![s].step = step] /\ loop' = loop
  BY DEF Step
<1>2. tick' \in [Servers -> TickLocals]
  <2>1. \A l \in TickLocals : [l EXCEPT !.step = step] \in TickLocals
    BY DEF TickLocals
  <2>2. tick' = [tick EXCEPT ![s] = [tick[s] EXCEPT !.step = step]]
    BY <1>1
  <2> QED BY <2>1, <2>2 DEF TypeInv, TypeOK
<1>3. \A r \in Servers : /\ tick'[r].step = IF r = s THEN step ELSE tick[r].step
                         /\ tick'[r].pair = tick[r].pair
                         /\ tick'[r].attempt = tick[r].attempt
  BY <1>1 DEF TypeInv, TypeOK, TickLocals
<1>4. TickInv'
  BY <1>3 DEF TickInv, TypeInv
<1> QED BY <1>1, <1>2, <1>4 DEF TypeInv, TypeOK

\* The callers of the queue and the environment keep the types.
LEMMA EnvironmentType ==
    ASSUME TypeInv,
           \/ \E p \in Players, g \in Gateways, t \in Times : Enqueue(p, g, t)
           \/ \E p \in Players : Cancel(p)
           \/ Evict
           \/ Elapse
           \/ \E m \in inFlight : Deliver(m)
    PROVE  TypeInv'
<1>1. ASSUME NEW p \in Players, NEW g \in Gateways, NEW t \in Times, Enqueue(p, g, t)
      PROVE  TypeInv'
  <2> DEFINE e == [player |-> p, joinedAt |-> t, ticket |-> Len(tickets) + 1]
             h == Ended(Ended(tickets, queue \ Kept(g), "reset"), Replaced(Kept(g), e), "replaced")
             n == [player |-> p, gateway |-> g, joinedAt |-> t, fate |-> "open"]
  <2>1. e \in Entry
    BY <1>1, MatcherAssumption DEF Entry, TypeInv, TypeOK
  <2>2. queue' \subseteq Entry /\ instanceID' \in Gateways \cup {NoGateway}
    <3>1. Kept(g) \in SUBSET Entry
      BY DEF Kept, TypeInv, TypeOK
    <3>2. queue' = Put(Kept(g), e) /\ instanceID' = g
      BY <1>1 DEF Enqueue, enqueueLua
    <3> HIDE DEF e
    <3> QED BY <2>1, <3>1, <3>2, PutType
  <2>3. tickets' \in Seq(Ticket)
    <3>1. "reset" \in Fates /\ "replaced" \in Fates /\ "open" \in Fates
      BY DEF Fates
    <3>2. n \in Ticket
      BY <3>1 DEF Ticket
    <3>3. h \in Seq(Ticket)
      BY <3>1, EndedType DEF TypeInv, TypeOK
    <3>4. tickets' = Append(h, n)
      BY <1>1 DEF Enqueue
    <3> HIDE DEF h, n
    <3> QED BY <3>2, <3>3, <3>4
  <2>4. UNCHANGED <<tick, breaker, loop, ctxDone, inFlight, topic, acked, issued, faults>>
    BY <1>1 DEF Enqueue, tickVars, pubsubVars
  <2> HIDE DEF e, h, n
  <2> QED BY <2>2, <2>3, <2>4 DEF TypeInv, TypeOK, TickInv, CircuitOpenIffOverThreshold
<1>2. ASSUME NEW p \in Players, Cancel(p) PROVE TypeInv'
  <2>1. queue' \subseteq Entry /\ instanceID' = instanceID
    BY <1>2 DEF Cancel, cancelLua, removePlayerEntries, TypeInv, TypeOK
  <2>2. tickets' \in Seq(Ticket)
    BY <1>2, EndedType DEF Cancel, Fates, TypeInv, TypeOK
  <2>3. UNCHANGED <<tick, breaker, loop, ctxDone, inFlight, topic, acked, issued, faults>>
    BY <1>2 DEF Cancel, tickVars, pubsubVars
  <2> QED BY <2>1, <2>2, <2>3 DEF TypeInv, TypeOK, TickInv, CircuitOpenIffOverThreshold
<1>3. ASSUME Evict PROVE TypeInv'
  <2>1. queue' \subseteq Entry /\ instanceID' \in Gateways \cup {NoGateway}
    BY <1>3 DEF Evict, EvictInstanceID, EvictQueue, TypeInv, TypeOK
  <2>2. tickets' \in Seq(Ticket)
    BY <1>3, EndedType DEF Evict, Fates, TypeInv, TypeOK
  <2>3. faults' \in [redis : Nat, publish : Nat, evictions : Nat]
    BY <1>3 DEF Evict, TypeInv, TypeOK
  <2>4. UNCHANGED <<tick, breaker, loop, ctxDone, inFlight, topic, acked, issued>>
    BY <1>3 DEF Evict, tickVars, pubsubVars
  <2> QED BY <2>1, <2>2, <2>3, <2>4 DEF TypeInv, TypeOK, TickInv, CircuitOpenIffOverThreshold
<1>4. ASSUME Elapse PROVE TypeInv'
  <2>1. \A s \in Servers : elapse(breaker[s]) \in Breaker /\ BreakerInv(elapse(breaker[s]))
    BY ElapseKeeps DEF TypeInv, TypeOK, CircuitOpenIffOverThreshold
  <2>2. breaker' = [s \in Servers |-> elapse(breaker[s])]
    BY <1>4 DEF Elapse
  <2>3. breaker' \in [Servers -> Breaker] /\ CircuitOpenIffOverThreshold'
    BY <2>1, <2>2 DEF CircuitOpenIffOverThreshold
  <2>4. UNCHANGED <<queue, instanceID, tick, loop, ctxDone, inFlight, topic, acked, issued, tickets, faults>>
    BY <1>4 DEF Elapse, queueVars, pubsubVars
  <2> QED BY <2>3, <2>4 DEF TypeInv, TypeOK, TickInv
<1>5. ASSUME NEW m \in inFlight, Deliver(m) PROVE TypeInv'
  BY <1>5 DEF Deliver, queueVars, tickVars, TypeInv, TypeOK, TickInv, CircuitOpenIffOverThreshold
<1> QED BY <1>1, <1>2, <1>3, <1>4, <1>5

\* The steps of the goroutine of Run keep the types.
LEMMA RunType ==
    ASSUME TypeInv, NEW s \in Servers, Shutdown(s) \/ TickerFires(s) \/ RunStep(s)
    PROVE  TypeInv'
<1>1. /\ UNCHANGED <<queue, instanceID, breaker, inFlight, topic, acked, issued, tickets, faults>>
      /\ ctxDone' \in [Servers -> BOOLEAN]
  BY DEF Shutdown, TickerFires, RunStep, startTick, ReceiveTickDone, StartDrain,
         DrainCompletes, DrainTimesOut, runUnchanged, queueVars, pubsubVars, TypeInv, TypeOK
<1>2. loop' \in [Servers -> RunLocals]
  <2>1. loop \in [Servers -> RunLocals] /\ loop[s] \in RunLocals
    BY DEF TypeInv, TypeOK
  <2>2. CASE Shutdown(s)
    BY <2>1, <2>2 DEF Shutdown
  <2>3. CASE TickerFires(s)
    BY <2>1, <2>3 DEF TickerFires, RunLocals
  <2>4. CASE startTick(s)
    BY <2>1, <2>4 DEF startTick, RunLocals
  <2>5. CASE ReceiveTickDone(s)
    BY <2>1, <2>5 DEF ReceiveTickDone, RunLocals
  <2>6. CASE StartDrain(s) \/ DrainCompletes(s) \/ DrainTimesOut(s)
    BY <2>1, <2>6 DEF StartDrain, DrainCompletes, DrainTimesOut, RunLocals
  <2> QED BY <2>2, <2>3, <2>4, <2>5, <2>6 DEF RunStep
<1>3. tick' \in [Servers -> TickLocals] /\ TickInv'
  <2>1. CASE tick' = tick
    BY <2>1 DEF TypeInv, TypeOK, TickInv
  <2>2. CASE startTick(s)
    <3>1. tick' = [tick EXCEPT ![s].step = "starting"]
      BY <2>2 DEF startTick
    <3>2. tick' \in [Servers -> TickLocals]
      <4>1. \A l \in TickLocals : [l EXCEPT !.step = "starting"] \in TickLocals
        BY DEF TickLocals, TickSteps
      <4>2. tick' = [tick EXCEPT ![s] = [tick[s] EXCEPT !.step = "starting"]]
        BY <3>1
      <4> QED BY <4>1, <4>2 DEF TypeInv, TypeOK
    <3>3. \A r \in Servers \ {s} : tick'[r] = tick[r]
      BY <3>1 DEF TypeInv, TypeOK
    <3>4. tick'[s].step = "starting"
      BY <3>1 DEF TypeInv, TypeOK, TickLocals
    <3> QED BY <3>2, <3>3, <3>4 DEF TypeInv, TickInv, HoldingSteps
  <2> QED BY <2>1, <2>2 DEF Shutdown, TickerFires, RunStep, ReceiveTickDone, StartDrain,
                            DrainCompletes, DrainTimesOut
<1> QED BY <1>1, <1>2, <1>3 DEF TypeInv, TypeOK, CircuitOpenIffOverThreshold

\* The steps of the goroutine of a tick keep the types.
LEMMA TickType ==
    ASSUME TypeInv, NEW s \in Servers, TickStep(s)
    PROVE  TypeInv'
<1> USE DEF queueVars, pubsubVars
<1>0. /\ breaker[s] \in Breaker /\ BreakerInv(breaker[s])
      /\ faults \in [redis : Nat, publish : Nat, evictions : Nat]
      /\ tickets \in Seq(Ticket)
  BY DEF TypeInv, TypeOK, CircuitOpenIffOverThreshold
<1>f. RedisFault \/ CtxFault(s) => faults' \in [redis : Nat, publish : Nat, evictions : Nat]
  BY <1>0 DEF RedisFault, CtxFault
<1>1. CASE BeginTick(s)
  <2>1. breaker' \in [Servers -> Breaker] /\ CircuitOpenIffOverThreshold'
    BY <1>0, <1>1, AllowTickKeeps, BreakerStep DEF BeginTick
  <2>2. tick' \in [Servers -> TickLocals] /\ loop' \in [Servers -> RunLocals] /\ TickInv'
    <3>1. CASE Finish(s)
      BY <3>1, FinishType
    <3>2. CASE Step(s, "popping")
      BY <3>2, StepType DEF TickSteps, HoldingSteps
    <3> QED BY <1>1, <3>1, <3>2 DEF BeginTick
  <2> QED BY <1>1, <2>1, <2>2 DEF BeginTick, TypeInv, TypeOK
<1>2. CASE PopPair(s)
  <2>1. PICK a \in queue, b \in queue :
          /\ popPairLua(a, b)
          /\ tick' = [tick EXCEPT ![s] = [step |-> "publishing", pair |-> <<a, b>>,
                                          gateway |-> instanceID,
                                          matchID |-> issued + 1, attempt |-> 0]]
          /\ inFlight' = inFlight \cup {Message(issued + 1, <<a, b>>)}
    BY <1>2 DEF PopPair
  <2>2. a \in Entry /\ b \in Entry /\ issued + 1 \in Nat /\ instanceID \in Gateways \cup {NoGateway}
    BY DEF TypeInv, TypeOK
  <2> DEFINE l == [step |-> "publishing", pair |-> <<a, b>>, gateway |-> instanceID,
                   matchID |-> issued + 1, attempt |-> 0]
  <2>3. l \in TickLocals /\ l.pair \in Entry \X Entry /\ l.step # "backoff"
    BY <2>2, MatcherAssumption DEF TickLocals, TickSteps
  <2>4. Message(issued + 1, <<a, b>>) \in Messages
    BY <2>2 DEF Message, Messages
  <2>5. breaker' \in [Servers -> Breaker] /\ CircuitOpenIffOverThreshold'
    BY <1>0, <1>2, SuccessKeeps, BreakerStep DEF PopPair
  <2>6. queue' \subseteq Entry /\ instanceID' = instanceID
    BY <2>1 DEF popPairLua, TypeInv, TypeOK
  <2>7. tick' = [tick EXCEPT ![s] = l]
    BY <2>1
  <2> HIDE DEF l
  <2>8. tick' \in [Servers -> TickLocals]
    BY <2>3, <2>7 DEF TypeInv, TypeOK
  <2>9. TickInv'
    <3>1. \A r \in Servers : tick'[r] = IF r = s THEN l ELSE tick[r]
      BY <2>7 DEF TypeInv, TypeOK
    <3> QED BY <2>3, <3>1 DEF TickInv, TypeInv
  <2>10. UNCHANGED <<loop, ctxDone, topic, acked, tickets, faults>> /\ issued' = issued + 1
    BY <1>2 DEF PopPair
  <2> QED BY <2>1, <2>2, <2>4, <2>5, <2>6, <2>8, <2>9, <2>10 DEF TypeInv, TypeOK
<1>3. CASE PopEmpty(s)
  <2>1. breaker' \in [Servers -> Breaker] /\ CircuitOpenIffOverThreshold'
    BY <1>0, <1>3, SuccessKeeps, BreakerStep DEF PopEmpty
  <2>2. tick' \in [Servers -> TickLocals] /\ loop' \in [Servers -> RunLocals] /\ TickInv'
    BY <1>3, FinishType DEF PopEmpty
  <2> QED BY <1>3, <2>1, <2>2 DEF PopEmpty, popNothingLua, TypeInv, TypeOK
<1>4. CASE PopFails(s)
  <2>1. breaker' \in [Servers -> Breaker] /\ CircuitOpenIffOverThreshold'
    BY <1>0, <1>4, FailureKeeps, BreakerStep DEF PopFails
  <2>2. tick' \in [Servers -> TickLocals] /\ loop' \in [Servers -> RunLocals] /\ TickInv'
    BY <1>4, FinishType DEF PopFails
  <2>3. queue' \subseteq Entry /\ instanceID' = instanceID
    BY <1>4 DEF PopFails, popPairLua, TypeInv, TypeOK
  <2>4. tickets' \in Seq(Ticket)
    BY <1>0, <1>4, EndedType DEF PopFails, Fates
  <2>5. faults' \in [redis : Nat, publish : Nat, evictions : Nat]
    BY <1>4, <1>f DEF PopFails
  <2>6. UNCHANGED <<ctxDone, inFlight, topic, acked, issued>>
    BY <1>4 DEF PopFails
  <2> QED BY <2>1, <2>2, <2>3, <2>4, <2>5, <2>6 DEF TypeInv, TypeOK
<1>5. CASE PublishSucceeds(s)
  <2>1. breaker' \in [Servers -> Breaker] /\ CircuitOpenIffOverThreshold'
    BY <1>0, <1>5, SuccessKeeps, BreakerStep DEF PublishSucceeds
  <2>2. tick' \in [Servers -> TickLocals] /\ loop' \in [Servers -> RunLocals] /\ TickInv'
    BY <1>5, FinishType DEF PublishSucceeds
  <2>3. tick[s].matchID \in Nat
    BY DEF TypeInv, TypeOK, TickLocals
  <2> QED BY <1>5, <2>1, <2>2, <2>3 DEF PublishSucceeds, TypeInv, TypeOK
<1>6. CASE PublishFails(s)
  <2>1. breaker' \in [Servers -> Breaker] /\ CircuitOpenIffOverThreshold'
    BY <1>0, <1>6, FailureKeeps, BreakerStep DEF PublishFails
  <2>2. tick' \in [Servers -> TickLocals] /\ TickInv'
    <3>1. tick' = [tick EXCEPT ![s] = [tick[s] EXCEPT !.step = "reenqueueing", !.attempt = 1]]
      BY <1>6 DEF PublishFails
    <3>2. \A l \in TickLocals : [l EXCEPT !.step = "reenqueueing", !.attempt = 1] \in TickLocals
      <4>1. 1 \in 0..MaxAttempts
        BY MatcherAssumption
      <4> QED BY <4>1 DEF TickLocals, TickSteps
    <3>3. tick' \in [Servers -> TickLocals]
      BY <3>1, <3>2 DEF TypeInv, TypeOK
    <3>4. tick[s].pair \in Entry \X Entry
      BY <1>6 DEF PublishFails, TypeInv, TickInv, HoldingSteps
    <3>5. /\ tick'[s].step = "reenqueueing" /\ tick'[s].pair = tick[s].pair
          /\ \A r \in Servers \ {s} : tick'[r] = tick[r]
      BY <3>1 DEF TypeInv, TypeOK, TickLocals
    <3> QED BY <3>3, <3>4, <3>5 DEF TypeInv, TickInv
  <2>3. faults' \in [redis : Nat, publish : Nat, evictions : Nat] /\ inFlight' \subseteq inFlight
    BY <1>0, <1>6 DEF PublishFails, CtxFault
  <2>4. UNCHANGED <<queue, instanceID, loop, ctxDone, topic, acked, issued, tickets>>
    BY <1>6 DEF PublishFails
  <2> QED BY <2>1, <2>2, <2>3, <2>4 DEF TypeInv, TypeOK
<1>o. Overwritten(s) \in Seq(Ticket)
  BY <1>0, EndedType DEF Overwritten, Fates
<1>7. CASE Reenqueue(s)
  <2>1. tick' \in [Servers -> TickLocals] /\ loop' \in [Servers -> RunLocals] /\ TickInv'
    BY <1>7, FinishType DEF Reenqueue
  <2>2. queue' \subseteq Entry /\ instanceID' = instanceID
    BY <1>7, WriteBackType DEF Reenqueue, HoldingSteps
  <2>3. tickets' \in Seq(Ticket)
    BY <1>0, <1>7, <1>o, EndedType DEF Reenqueue, Fates
  <2>4. UNCHANGED <<breaker, ctxDone, inFlight, topic, acked, issued, faults>>
    BY <1>7 DEF Reenqueue
  <2> QED BY <2>1, <2>2, <2>3, <2>4 DEF TypeInv, TypeOK, CircuitOpenIffOverThreshold
<1>8. CASE ReenqueueFails(s)
  <2>1. tick' \in [Servers -> TickLocals] /\ loop' \in [Servers -> RunLocals] /\ TickInv'
    <3>1. CASE ctxDone[s]
      BY <1>8, <3>1, StepType DEF ReenqueueFails, HoldingSteps, TickSteps
    <3>2. CASE ~ctxDone[s]
      BY <1>8, <3>2, StepType DEF ReenqueueFails, HoldingSteps, TickSteps
    <3> QED BY <3>1, <3>2
  <2>2. queue' \subseteq Entry /\ instanceID' = instanceID
    <3>1. CASE UNCHANGED queueVars
      BY <3>1 DEF TypeInv, TypeOK
    <3>2. CASE WriteBack(s)
      BY <1>8, <3>2, WriteBackType DEF ReenqueueFails, HoldingSteps
    <3> QED BY <1>8, <3>1, <3>2 DEF ReenqueueFails
  <2>3. tickets' \in Seq(Ticket)
    BY <1>0, <1>8, <1>o DEF ReenqueueFails
  <2>4. faults' \in [redis : Nat, publish : Nat, evictions : Nat]
    BY <1>8, <1>f DEF ReenqueueFails
  <2>5. UNCHANGED <<breaker, ctxDone, inFlight, topic, acked, issued>>
    BY <1>8 DEF ReenqueueFails
  <2> QED BY <2>1, <2>2, <2>3, <2>4, <2>5 DEF TypeInv, TypeOK, CircuitOpenIffOverThreshold
<1>9. CASE BackoffEnds(s)
  <2>1. tick' \in [Servers -> TickLocals] /\ TickInv'
    <3> DEFINE l == [tick[s] EXCEPT !.step = "reenqueueing", !.attempt = @ + 1]
    <3>1. tick' = [tick EXCEPT ![s] = l]
      BY <1>9 DEF BackoffEnds
    <3>2. tick[s] \in TickLocals /\ tick[s].attempt + 1 \in 0..MaxAttempts
      BY <1>9, MatcherAssumption DEF BackoffEnds, TypeInv, TypeOK, TickInv, TickLocals
    <3>3. l \in TickLocals
      BY <3>2 DEF TickLocals, TickSteps
    <3>4. tick[s].pair \in Entry \X Entry
      BY <1>9 DEF BackoffEnds, TypeInv, TickInv, HoldingSteps
    <3>5. l.step = "reenqueueing" /\ l.pair = tick[s].pair
      BY <3>2 DEF TickLocals
    <3> HIDE DEF l
    <3>6. tick' \in [Servers -> TickLocals]
      BY <3>1, <3>3 DEF TypeInv, TypeOK
    <3>7. \A r \in Servers : tick'[r] = IF r = s THEN l ELSE tick[r]
      BY <3>1 DEF TypeInv, TypeOK
    <3> QED BY <3>4, <3>5, <3>6, <3>7 DEF TypeInv, TickInv
  <2>2. UNCHANGED <<queue, instanceID, loop, breaker, ctxDone, inFlight, topic, acked, issued,
                    tickets, faults>>
    BY <1>9 DEF BackoffEnds
  <2> QED BY <2>1, <2>2 DEF TypeInv, TypeOK, CircuitOpenIffOverThreshold
<1>10. CASE BackoffCancelled(s)
  <2>1. tick' \in [Servers -> TickLocals] /\ loop' \in [Servers -> RunLocals] /\ TickInv'
    BY <1>10, StepType DEF BackoffCancelled, HoldingSteps, TickSteps
  <2> QED BY <1>10, <2>1 DEF BackoffCancelled, TypeInv, TypeOK, CircuitOpenIffOverThreshold
<1>11. CASE LosePair(s)
  <2>1. tick' \in [Servers -> TickLocals] /\ loop' \in [Servers -> RunLocals] /\ TickInv'
    BY <1>11, FinishType DEF LosePair
  <2>2. queue' \subseteq Entry /\ instanceID' = instanceID
    <3>1. CASE UNCHANGED queueVars
      BY <3>1 DEF TypeInv, TypeOK
    <3>2. CASE WriteBack(s)
      BY <1>11, <3>2, WriteBackType DEF LosePair, HoldingSteps
    <3> QED BY <1>11, <3>1, <3>2 DEF LosePair
  <2>3. tickets' \in Seq(Ticket)
    BY <1>0, <1>11, <1>o, EndedType DEF LosePair, Fates
  <2>4. faults' \in [redis : Nat, publish : Nat, evictions : Nat]
    BY <1>11, <1>f DEF LosePair
  <2>5. UNCHANGED <<breaker, ctxDone, inFlight, topic, acked, issued>>
    BY <1>11 DEF LosePair
  <2> QED BY <2>1, <2>2, <2>3, <2>4, <2>5 DEF TypeInv, TypeOK, CircuitOpenIffOverThreshold
<1> QED BY <1>1, <1>2, <1>3, <1>4, <1>5, <1>6, <1>7, <1>8, <1>9, <1>10, <1>11 DEF TickStep

\* Every step keeps the invariant the type theorems rest on.
LEMMA TypeStep ==
    ASSUME TypeInv, [Next]_vars
    PROVE  TypeInv'
<1>1. CASE UNCHANGED vars
  BY <1>1 DEF vars, TypeInv, TypeOK, TickInv, CircuitOpenIffOverThreshold
<1>2. CASE Next
  BY <1>2, EnvironmentType, RunType, TickType DEF Next
<1> QED BY <1>1, <1>2

\* The invariant the type theorems rest on holds in every reachable state.
THEOREM TypeInvariance == Spec => []TypeInv
<1>1. MatcherInit => TypeInv
  <2> SUFFICES ASSUME MatcherInit PROVE TypeInv
    OBVIOUS
  <2>1. \A s \in Servers : tick[s] = idleTick /\ breaker[s] = newCircuitBreaker
    BY DEF MatcherInit
  <2>2. idleTick \in TickLocals
    BY MatcherAssumption DEF idleTick, TickLocals, TickSteps
  <2>3. TypeOK
    BY <2>2, NewBreaker DEF MatcherInit, QueueInit, TypeOK, RunLocals
  <2>4. TickInv
    BY <2>1 DEF TickInv, idleTick, HoldingSteps
  <2>5. CircuitOpenIffOverThreshold
    BY <2>1, NewBreaker DEF CircuitOpenIffOverThreshold
  <2> QED BY <2>3, <2>4, <2>5 DEF TypeInv
<1>2. TypeInv /\ [Next]_vars => TypeInv'
  BY TypeStep
<1> QED BY <1>1, <1>2, PTL DEF Spec

\* Every variable always has its type: in particular a retry never counts
\* past the last attempt, and a pair that is written back is a pair.
THEOREM TypeCorrect == Spec => []TypeOK
<1>1. TypeInv => TypeOK
  BY DEF TypeInv
<1> QED BY <1>1, TypeInvariance, PTL

\* The circuit is reported open, and keeps ticks away, exactly when one of
\* the failure counters is at the threshold.
THEOREM CircuitAgrees == Spec => []CircuitOpenIffOverThreshold
<1>1. TypeInv => CircuitOpenIffOverThreshold
  BY DEF TypeInv
<1> QED BY <1>1, TypeInvariance, PTL
-----------------------------------------------------------------------------
(* No player waits twice *)

\* Put leaves at most one entry of each player.
LEMMA PutOnePerPlayer ==
    ASSUME NEW q, NEW e, \A c, d \in q : c.player = d.player => c = d
    PROVE  \A c, d \in Put(q, e) : c.player = d.player => c = d
BY DEF Put, removePlayerEntries

\* The write-back of a pair keeps one entry per player, also when the players
\* rejoined since the pop.
LEMMA WriteBackOnePerPlayer ==
    ASSUME OneEntryPerPlayer, NEW s \in Servers, WriteBack(s)
    PROVE  OneEntryPerPlayer'
<1> DEFINE a == tick[s].pair[1]  b == tick[s].pair[2]
<1>1. \A c, d \in Put(queue, a) : c.player = d.player => c = d
  BY PutOnePerPlayer DEF OneEntryPerPlayer
<1>2. \A c, d \in Put(Put(queue, a), b) : c.player = d.player => c = d
  BY <1>1, PutOnePerPlayer
<1>3. queue' = IF IsExpected(tick[s].gateway) THEN Put(Put(queue, a), b) ELSE queue
  BY DEF WriteBack, reenqueueLua
<1> QED BY <1>2, <1>3 DEF OneEntryPerPlayer

\* Every step keeps one entry per player.
LEMMA OneEntryStep ==
    ASSUME OneEntryPerPlayer, [Next]_vars
    PROVE  OneEntryPerPlayer'
<1>0. ASSUME queue' \subseteq queue PROVE OneEntryPerPlayer'
  BY <1>0 DEF OneEntryPerPlayer
<1>1. ASSUME NEW p \in Players, NEW g \in Gateways, NEW t \in Times, Enqueue(p, g, t)
      PROVE  OneEntryPerPlayer'
  <2>1. PICK e : queue' = Put(Kept(g), e)
    BY <1>1 DEF Enqueue, enqueueLua
  <2>2. \A c, d \in Kept(g) : c.player = d.player => c = d
    BY DEF Kept, OneEntryPerPlayer
  <2> QED BY <2>1, <2>2, PutOnePerPlayer DEF OneEntryPerPlayer
<1>2. ASSUME NEW p \in Players, Cancel(p) PROVE OneEntryPerPlayer'
  BY <1>0, <1>2 DEF Cancel, cancelLua, removePlayerEntries
<1>3. ASSUME Evict PROVE OneEntryPerPlayer'
  BY <1>0, <1>3 DEF Evict, EvictInstanceID, EvictQueue
<1>4. ASSUME NEW s \in Servers, TickStep(s) PROVE OneEntryPerPlayer'
  <2>1. CASE WriteBack(s)
    BY <2>1, WriteBackOnePerPlayer
  <2>2. CASE queue' \subseteq queue
    BY <2>2, <1>0
  <2>3. CASE BeginTick(s) \/ PublishSucceeds(s) \/ PublishFails(s)
             \/ BackoffEnds(s) \/ BackoffCancelled(s)
    BY <2>2, <2>3 DEF BeginTick, PublishSucceeds, PublishFails, BackoffEnds,
                      BackoffCancelled, queueVars
  <2>4. CASE PopPair(s) \/ PopEmpty(s) \/ PopFails(s)
    BY <2>2, <2>4 DEF PopPair, PopEmpty, PopFails, popPairLua, popNothingLua, queueVars
  <2>5. CASE Reenqueue(s) \/ ReenqueueFails(s) \/ LosePair(s)
    BY <2>1, <2>2, <2>5 DEF Reenqueue, ReenqueueFails, LosePair, queueVars
  <2> QED BY <1>4, <2>3, <2>4, <2>5 DEF TickStep
<1>5. ASSUME NEW s \in Servers, Shutdown(s) \/ TickerFires(s) \/ RunStep(s)
      PROVE  OneEntryPerPlayer'
  BY <1>0, <1>5 DEF Shutdown, TickerFires, RunStep, startTick, ReceiveTickDone,
                    StartDrain, DrainCompletes, DrainTimesOut, runUnchanged, queueVars
<1>6. ASSUME Elapse \/ (\E m \in inFlight : Deliver(m)) PROVE OneEntryPerPlayer'
  BY <1>0, <1>6 DEF Elapse, Deliver, queueVars
<1>7. CASE UNCHANGED vars
  BY <1>0, <1>7 DEF vars
<1> QED BY <1>1, <1>2, <1>3, <1>4, <1>5, <1>6, <1>7 DEF Next

\* No interleaving of enqueues, cancels, pops, write-backs and evictions of
\* any number of instances puts a player in the queue twice.
THEOREM NobodyWaitsTwice == Spec => []OneEntryPerPlayer
<1>1. MatcherInit => OneEntryPerPlayer
  BY DEF MatcherInit, QueueInit, OneEntryPerPlayer
<1>2. OneEntryPerPlayer /\ [Next]_vars => OneEntryPerPlayer'
  BY OneEntryStep
<1> QED BY <1>1, <1>2, PTL DEF Spec
-----------------------------------------------------------------------------
(* Run and its tick *)

\* A step of the tick of s: it goes on in a tick that was running, or it is
\* over and tickDone is sent.
TickGoesOn(s) ==
    /\ tick[s].step # "idle"
    /\ \A r \in Servers \ {s} : tick'[r] = tick[r]
    /\ UNCHANGED loop

TickEnds(s) == tick[s].step # "idle" /\ Finish(s)

\* Every step of a tick is one or the other.
LEMMA TickStepShape ==
    ASSUME TypeInv, NEW s \in Servers, TickStep(s)
    PROVE  TickGoesOn(s) \/ TickEnds(s)
<1> USE DEF TypeInv, TypeOK, TickGoesOn, TickEnds, Step
<1>1. CASE BeginTick(s)
  BY <1>1 DEF BeginTick
<1>2. CASE PopPair(s)
  BY <1>2 DEF PopPair
<1>3. CASE PopEmpty(s) \/ PopFails(s) \/ PublishSucceeds(s)
  BY <1>3 DEF PopEmpty, PopFails, PublishSucceeds
<1>4. CASE PublishFails(s)
  BY <1>4 DEF PublishFails
<1>5. CASE Reenqueue(s)
  BY <1>5 DEF Reenqueue
<1>6. CASE ReenqueueFails(s)
  BY <1>6 DEF ReenqueueFails
<1>7. CASE BackoffEnds(s) \/ BackoffCancelled(s)
  BY <1>7 DEF BackoffEnds, BackoffCancelled
<1>8. CASE LosePair(s)
  BY <1>8 DEF LosePair
<1> QED BY <1>1, <1>2, <1>3, <1>4, <1>5, <1>6, <1>7, <1>8 DEF TickStep

\* What OneTickAtATime says of one server.
OneTick(s) ==
    /\ tick[s].step # "idle" => loop[s].tickRunning /\ ~loop[s].tickDone
    /\ loop[s].tickDone => loop[s].tickRunning
    /\ loop[s].phase = "drained" => tick[s].step = "idle"

\* The goroutine of Run starts a tick only after it has received the end of
\* the previous one.
LEMMA RunStepOneTick ==
    ASSUME TypeInv, OneTickAtATime, NEW s \in Servers,
           Shutdown(s) \/ TickerFires(s) \/ RunStep(s)
    PROVE  OneTickAtATime'
<1>0. \A r \in Servers : OneTick(r)
  BY DEF OneTickAtATime, OneTick
<1>t. loop \in [Servers -> RunLocals] /\ tick \in [Servers -> TickLocals]
  BY DEF TypeInv, TypeOK
<1>1. \A r \in Servers \ {s} : loop'[r] = loop[r] /\ tick'[r] = tick[r]
  BY <1>t DEF Shutdown, TickerFires, RunStep, startTick, ReceiveTickDone,
              StartDrain, DrainCompletes, DrainTimesOut
<1>2. OneTick(s)'
  <2>1. CASE Shutdown(s)
    BY <1>0, <2>1 DEF Shutdown, OneTick
  <2>2. CASE TickerFires(s)
    <3>1. /\ loop'[s].tickRunning = loop[s].tickRunning /\ loop'[s].tickDone = loop[s].tickDone
          /\ loop'[s].phase = loop[s].phase /\ tick' = tick
      BY <1>t, <2>2 DEF TickerFires, RunLocals
    <3> QED BY <1>0, <3>1 DEF OneTick
  <2>3. CASE startTick(s)
    <3>1. /\ loop'[s].tickRunning = TRUE /\ loop'[s].tickDone = loop[s].tickDone
          /\ loop'[s].phase = "select" /\ ~loop[s].tickRunning
      BY <1>t, <2>3 DEF startTick, RunLocals
    <3> QED BY <1>0, <3>1 DEF OneTick
  <2>4. CASE ReceiveTickDone(s)
    <3>1. /\ loop'[s].tickRunning = FALSE /\ loop'[s].tickDone = FALSE /\ loop[s].tickDone
          /\ loop'[s].phase = "select" /\ tick' = tick
      BY <1>t, <2>4 DEF ReceiveTickDone, RunLocals
    <3> QED BY <1>0, <3>1 DEF OneTick
  <2>5. CASE StartDrain(s) \/ DrainCompletes(s) \/ DrainTimesOut(s)
    <3>1. /\ loop'[s].tickRunning = loop[s].tickRunning /\ loop'[s].tickDone = loop[s].tickDone
          /\ loop'[s].phase = "drained" => tick[s].step = "idle"
          /\ tick' = tick
      BY <1>t, <2>5 DEF StartDrain, DrainCompletes, DrainTimesOut, RunLocals
    <3> QED BY <1>0, <3>1 DEF OneTick
  <2> QED BY <2>1, <2>2, <2>3, <2>4, <2>5 DEF RunStep
<1> QED BY <1>0, <1>1, <1>2 DEF OneTickAtATime, OneTick

\* A tick runs only while Run waits for it, and tells Run once.
LEMMA TickStepOneTick ==
    ASSUME TypeInv, OneTickAtATime, NEW s \in Servers, TickStep(s)
    PROVE  OneTickAtATime'
<1>0. \A r \in Servers : OneTick(r)
  BY DEF OneTickAtATime, OneTick
<1>t. loop \in [Servers -> RunLocals] /\ tick \in [Servers -> TickLocals]
  BY DEF TypeInv, TypeOK
<1>1. CASE TickGoesOn(s)
  <2>1. OneTick(s)'
    BY <1>0, <1>1 DEF TickGoesOn, OneTick
  <2> QED BY <1>0, <1>1, <2>1 DEF TickGoesOn, OneTickAtATime, OneTick
<1>2. CASE TickEnds(s)
  <2>1. /\ tick'[s].step = "idle" /\ loop'[s].tickRunning = loop[s].tickRunning
        /\ loop'[s].tickDone = TRUE
    BY <1>t, <1>2 DEF TickEnds, Finish, idleTick, RunLocals
  <2>2. \A r \in Servers \ {s} : loop'[r] = loop[r] /\ tick'[r] = tick[r]
    BY <1>t, <1>2 DEF TickEnds, Finish
  <2>3. OneTick(s)'
    BY <1>0, <1>2, <2>1 DEF TickEnds, OneTick
  <2> QED BY <1>0, <2>2, <2>3 DEF OneTickAtATime, OneTick
<1> QED BY <1>1, <1>2, TickStepShape

\* Every step keeps one tick at a time.
LEMMA OneTickStep ==
    ASSUME TypeInv, OneTickAtATime, [Next]_vars
    PROVE  OneTickAtATime'
<1>1. CASE UNCHANGED <<tick, loop>>
  BY <1>1 DEF OneTickAtATime
<1>2. CASE UNCHANGED vars
  BY <1>1, <1>2 DEF vars
<1>3. CASE \/ \E p \in Players, g \in Gateways, t \in Times : Enqueue(p, g, t)
           \/ \E p \in Players : Cancel(p)
           \/ Evict \/ Elapse \/ \E m \in inFlight : Deliver(m)
  BY <1>1, <1>3 DEF Enqueue, Cancel, Evict, Elapse, Deliver, tickVars
<1>4. CASE \E s \in Servers : Shutdown(s) \/ TickerFires(s) \/ RunStep(s) \/ TickStep(s)
  BY <1>4, RunStepOneTick, TickStepOneTick
<1> QED BY <1>2, <1>3, <1>4 DEF Next

\* Run never starts a tick beside a running one, the send on tickDone never
\* finds the buffer full, and "drain complete" means that no tick is left.
THEOREM TicksDoNotOverlap == Spec => []OneTickAtATime
<1>1. MatcherInit => OneTickAtATime
  BY DEF MatcherInit, OneTickAtATime, idleTick
<1>2. TypeInv /\ OneTickAtATime /\ [Next]_vars => OneTickAtATime'
  BY OneTickStep
<1> QED BY <1>1, <1>2, TypeInvariance, PTL DEF Spec
-----------------------------------------------------------------------------
(* The breaker implements the abstract circuit *)

\* What the abstract circuit sees of a server.
Seen(s) == <<breaker[s].popFailureCount, breaker[s].publishFailureCount,
             breaker[s].sinceOpened, TickPhase(s)>>

\* The counters of a breaker after each method, in the terms of Circuit.
LEMMA BreakerOutcome ==
    ASSUME NEW c \in Breaker
    PROVE  /\ allowTick(c).popFailureCount = c.popFailureCount
           /\ allowTick(c).publishFailureCount = c.publishFailureCount
           /\ allowTick(c).sinceOpened = c.sinceOpened
           /\ recordPopSuccess(c).popFailureCount = 0
           /\ recordPopSuccess(c).publishFailureCount = c.publishFailureCount
           /\ recordPopSuccess(c).sinceOpened = c.sinceOpened
           /\ recordPublishSuccess(c).popFailureCount = c.popFailureCount
           /\ recordPublishSuccess(c).publishFailureCount = 0
           /\ recordPublishSuccess(c).sinceOpened = c.sinceOpened
           /\ recordPopFailure(c).popFailureCount = c.popFailureCount + 1
           /\ recordPopFailure(c).publishFailureCount = c.publishFailureCount
           /\ recordPopFailure(c).sinceOpened =
                IF c.popFailureCount + 1 >= Threshold THEN 0 ELSE c.sinceOpened
           /\ recordPublishFailure(c).popFailureCount = c.popFailureCount
           /\ recordPublishFailure(c).publishFailureCount = c.publishFailureCount + 1
           /\ recordPublishFailure(c).sinceOpened =
                IF c.publishFailureCount + 1 >= Threshold THEN 0 ELSE c.sinceOpened
<1>1. /\ allowTick(c).popFailureCount = c.popFailureCount
      /\ allowTick(c).publishFailureCount = c.publishFailureCount
      /\ allowTick(c).sinceOpened = c.sinceOpened
  BY DEF allowTick, Breaker
<1>2. /\ recordPopSuccess(c).popFailureCount = 0
      /\ recordPopSuccess(c).publishFailureCount = c.publishFailureCount
      /\ recordPopSuccess(c).sinceOpened = c.sinceOpened
  BY DEF recordPopSuccess, closeIfRecovered, Breaker
<1>3. /\ recordPublishSuccess(c).popFailureCount = c.popFailureCount
      /\ recordPublishSuccess(c).publishFailureCount = 0
      /\ recordPublishSuccess(c).sinceOpened = c.sinceOpened
  BY DEF recordPublishSuccess, closeIfRecovered, Breaker
<1>4. /\ recordPopFailure(c).popFailureCount = c.popFailureCount + 1
      /\ recordPopFailure(c).publishFailureCount = c.publishFailureCount
      /\ recordPopFailure(c).sinceOpened =
           IF c.popFailureCount + 1 >= Threshold THEN 0 ELSE c.sinceOpened
  BY DEF recordPopFailure, open, Breaker
<1>5. /\ recordPublishFailure(c).popFailureCount = c.popFailureCount
      /\ recordPublishFailure(c).publishFailureCount = c.publishFailureCount + 1
      /\ recordPublishFailure(c).sinceOpened =
           IF c.publishFailureCount + 1 >= Threshold THEN 0 ELSE c.sinceOpened
  BY DEF recordPublishFailure, open, Breaker
<1> QED BY <1>1, <1>2, <1>3, <1>4, <1>5

\* A step of the tick of s is a step of the abstract circuit of s, or is not
\* visible to it.
LEMMA TickRefines ==
    ASSUME TypeInv, NEW s \in Servers, TickStep(s)
    PROVE  C(s)!Next \/ UNCHANGED Seen(s)
<1>0. /\ breaker[s] \in Breaker /\ BreakerInv(breaker[s])
      /\ breaker \in [Servers -> Breaker]
      /\ tick \in [Servers -> TickLocals] /\ tick[s] \in TickLocals
  BY DEF TypeInv, TypeOK, CircuitOpenIffOverThreshold
<1>1. CASE BeginTick(s)
  <2>1. breaker'[s] = allowTick(breaker[s])
    BY <1>0, <1>1 DEF BeginTick
  <2>2. TickPhase(s) = "idle"
    BY <1>1 DEF BeginTick, TickPhase
  <2>3. CASE ~IsAllowed(breaker[s]) /\ Finish(s)
    <3>1. TickPhase(s)' = "idle"
      BY <1>0, <2>3 DEF Finish, TickPhase, idleTick
    <3> QED BY <1>0, <2>1, <2>2, <3>1, BreakerOutcome DEF Seen
  <2>4. CASE IsAllowed(breaker[s]) /\ Step(s, "popping")
    <3>1. TickPhase(s)' = "popping"
      BY <1>0, <2>4 DEF Step, TickPhase, TickLocals
    <3>2. OverThreshold(breaker[s]) => breaker[s].sinceOpened = Cooldown
      <4>1. breaker[s].sinceOpened \in 0..Cooldown
        BY <1>0 DEF Breaker
      <4>2. OverThreshold(breaker[s]) => breaker[s].sinceOpened >= Cooldown
        BY <1>0, <2>4 DEF IsAllowed, BreakerInv
      <4> QED BY <4>1, <4>2, BreakerAssumption
    <3>3. C(s)!TickPops
      BY <1>0, <2>1, <2>2, <3>1, <3>2, BreakerOutcome
         DEF C!TickPops, C!IsOpen, OverThreshold
    <3> QED BY <3>3 DEF C!Next
  <2> QED BY <1>1, <2>3, <2>4 DEF BeginTick
<1>2. CASE PopPair(s)
  <2>1. breaker'[s] = recordPopSuccess(breaker[s])
    BY <1>0, <1>2 DEF PopPair
  <2>2. TickPhase(s) = "popping" /\ TickPhase(s)' = "publishing"
    BY <1>0, <1>2 DEF PopPair, TickPhase
  <2>3. C(s)!PopReturns
    BY <1>0, <2>1, <2>2, BreakerOutcome DEF C!PopReturns
  <2> QED BY <2>3 DEF C!Next
<1>3. CASE PopEmpty(s)
  <2>1. breaker'[s] = recordPopSuccess(breaker[s])
    BY <1>0, <1>3 DEF PopEmpty
  <2>2. TickPhase(s) = "popping" /\ TickPhase(s)' = "idle"
    BY <1>0, <1>3 DEF PopEmpty, Finish, idleTick, TickPhase
  <2>3. C(s)!PopReturns
    BY <1>0, <2>1, <2>2, BreakerOutcome DEF C!PopReturns
  <2> QED BY <2>3 DEF C!Next
<1>4. CASE PopFails(s)
  <2>1. breaker'[s] = recordPopFailure(breaker[s])
    BY <1>0, <1>4 DEF PopFails
  <2>2. TickPhase(s) = "popping" /\ TickPhase(s)' = "idle"
    BY <1>0, <1>4 DEF PopFails, Finish, idleTick, TickPhase
  <2>3. C(s)!PopFails
    BY <1>0, <2>1, <2>2, BreakerOutcome DEF C!PopFails, C!Tripped
  <2> QED BY <2>3 DEF C!Next
<1>5. CASE PublishSucceeds(s)
  <2>1. breaker'[s] = recordPublishSuccess(breaker[s])
    BY <1>0, <1>5 DEF PublishSucceeds
  <2>2. TickPhase(s) = "publishing" /\ TickPhase(s)' = "idle"
    BY <1>0, <1>5 DEF PublishSucceeds, Finish, idleTick, TickPhase
  <2>3. C(s)!PublishReturns
    BY <1>0, <2>1, <2>2, BreakerOutcome DEF C!PublishReturns
  <2> QED BY <2>3 DEF C!Next
<1>6. CASE PublishFails(s)
  <2>1. breaker'[s] = recordPublishFailure(breaker[s])
    BY <1>0, <1>6 DEF PublishFails
  <2>2. TickPhase(s) = "publishing" /\ TickPhase(s)' = "idle"
    BY <1>0, <1>6 DEF PublishFails, TickPhase, TickLocals
  <2>3. C(s)!PublishFails
    BY <1>0, <2>1, <2>2, BreakerOutcome DEF C!PublishFails, C!Tripped
  <2> QED BY <2>3 DEF C!Next
<1>7. CASE Reenqueue(s) \/ ReenqueueFails(s) \/ BackoffEnds(s)
           \/ BackoffCancelled(s) \/ LosePair(s)
  <2>1. breaker' = breaker /\ TickPhase(s) = "idle"
    BY <1>7 DEF Reenqueue, ReenqueueFails, BackoffEnds, BackoffCancelled, LosePair, TickPhase
  <2>2. TickPhase(s)' = "idle"
    <3>1. CASE Finish(s)
      BY <1>0, <3>1 DEF Finish, idleTick, TickPhase
    <3>2. CASE \E step \in {"final", "backoff"} : Step(s, step)
      BY <1>0, <3>2 DEF Step, TickPhase, TickLocals
    <3>3. CASE BackoffEnds(s)
      BY <1>0, <3>3 DEF BackoffEnds, TickPhase, TickLocals
    <3> QED BY <1>7, <3>1, <3>2, <3>3 DEF Reenqueue, ReenqueueFails, BackoffCancelled, LosePair
  <2> QED BY <2>1, <2>2 DEF Seen
<1> QED BY <1>1, <1>2, <1>3, <1>4, <1>5, <1>6, <1>7 DEF TickStep

\* A step of the tick of s is not visible to the circuit of another server.
LEMMA TickIsLocal ==
    ASSUME TypeInv, NEW r \in Servers, NEW s \in Servers, r # s, TickStep(r)
    PROVE  UNCHANGED Seen(s)
<1>1. tick'[s] = tick[s]
  BY TickStepShape DEF TickGoesOn, TickEnds, Finish, TypeInv, TypeOK
<1>2. breaker'[s] = breaker[s]
  BY DEF TickStep, BeginTick, PopPair, PopEmpty, PopFails, PublishSucceeds, PublishFails,
         Reenqueue, ReenqueueFails, BackoffEnds, BackoffCancelled, LosePair, TypeInv, TypeOK
<1> QED BY <1>1, <1>2 DEF Seen, TickPhase

\* Every step of the matchers is, for each server, a step of its abstract
\* circuit or invisible to it.
LEMMA StepRefines ==
    ASSUME TypeInv, OneTickAtATime, [Next]_vars, NEW s \in Servers
    PROVE  [C(s)!Next]_(C(s)!cvars)
<1>1. CASE UNCHANGED <<tick, breaker>>
  BY <1>1 DEF Seen, TickPhase, C!cvars
<1>2. CASE UNCHANGED vars
  BY <1>1, <1>2 DEF vars
<1>3. CASE \/ \E p \in Players, g \in Gateways, t \in Times : Enqueue(p, g, t)
           \/ \E p \in Players : Cancel(p)
           \/ Evict \/ \E m \in inFlight : Deliver(m)
  BY <1>1, <1>3 DEF Enqueue, Cancel, Evict, Deliver, tickVars
<1>4. CASE Elapse
  <2>1. breaker'[s] = elapse(breaker[s]) /\ tick' = tick
    BY <1>4 DEF Elapse
  <2>2. breaker[s] \in Breaker /\ (breaker[s].isOpen <=> OverThreshold(breaker[s]))
    BY DEF TypeInv, TypeOK, CircuitOpenIffOverThreshold, BreakerInv
  <2>3. CASE breaker[s].isOpen /\ breaker[s].sinceOpened < Cooldown
    <3>1. /\ breaker'[s].sinceOpened = breaker[s].sinceOpened + 1
          /\ breaker'[s].popFailureCount = breaker[s].popFailureCount
          /\ breaker'[s].publishFailureCount = breaker[s].publishFailureCount
      BY <2>1, <2>2, <2>3 DEF elapse, Breaker
    <3>2. C(s)!Elapse
      BY <2>1, <2>2, <2>3, <3>1 DEF C!Elapse, C!IsOpen, OverThreshold, TickPhase
    <3> QED BY <3>2 DEF C!Next
  <2>4. CASE ~(breaker[s].isOpen /\ breaker[s].sinceOpened < Cooldown)
    BY <2>1, <2>4 DEF elapse, TickPhase, C!cvars
  <2> QED BY <2>3, <2>4
<1>5. ASSUME NEW r \in Servers, Shutdown(r) \/ TickerFires(r) \/ RunStep(r)
      PROVE  [C(s)!Next]_(C(s)!cvars)
  <2>1. breaker' = breaker
    BY <1>5 DEF Shutdown, TickerFires, RunStep, startTick, ReceiveTickDone, StartDrain,
                DrainCompletes, DrainTimesOut, runUnchanged
  <2>2. CASE tick' = tick
    BY <1>1, <2>1, <2>2
  <2>3. CASE startTick(r)
    <3>1. tick[r].step = "idle"
      BY <2>3 DEF startTick, OneTickAtATime
    <3>2. TickPhase(s)' = TickPhase(s)
      BY <2>3, <3>1 DEF startTick, TickPhase, TypeInv, TypeOK, TickLocals
    <3> QED BY <2>1, <3>2 DEF C!cvars
  <2> QED BY <1>5, <2>2, <2>3 DEF Shutdown, TickerFires, RunStep, ReceiveTickDone,
                                  StartDrain, DrainCompletes, DrainTimesOut
<1>6. ASSUME NEW r \in Servers, TickStep(r) PROVE [C(s)!Next]_(C(s)!cvars)
  <2>1. C(s)!Next \/ UNCHANGED Seen(s)
    BY <1>6, TickRefines, TickIsLocal
  <2> QED BY <2>1 DEF Seen, C!cvars
<1> QED BY <1>2, <1>3, <1>4, <1>5, <1>6 DEF Next

\* The matcher implements the abstract circuit on every server: the circuit
\* is open exactly while a run of failures is at the threshold, each failure
\* at the threshold starts the cooldown again, and no tick pops during it.
THEOREM BreakerImplementsCircuit == Spec => RefinesCircuit
<1>1. MatcherInit => \A s \in Servers : C(s)!Init
  BY DEF MatcherInit, newCircuitBreaker, TickPhase, idleTick, C!Init
<1>2. TypeInv /\ OneTickAtATime /\ [Next]_vars
        => [\A s \in Servers : [C(s)!Next]_(C(s)!cvars)]_vars
  BY StepRefines
<1> QED BY <1>1, <1>2, TypeInvariance, TicksDoNotOverlap, PTL DEF Spec, RefinesCircuit
=============================================================================
