---------------------------- MODULE ServerProofs ----------------------------
(***************************************************************************)
(* Theorems about the life of service processes, for any number of         *)
(* processes, any set of environments they may be started in, any integer  *)
(* width and any number of processes that are killed.                      *)
(***************************************************************************)
EXTENDS LedgerProofs, Server

-----------------------------------------------------------------------------
(* Configuration *)

\* A number of seconds that FromEnv accepts as a duration does not overflow
\* when it is converted: the duration is that many seconds.
LEMMA DurationExact ==
    ASSUME NEW n, readPositiveInt(n, maxDurationSeconds)
    PROVE  Duration(n) = n * Second /\ Duration(n) > 0 /\ Duration(n) % Second = 0
<1> DEFINE q == MaxInt \div Second
<1>0. MaxInt \in Nat \ {0} /\ Second \in Nat \ {0}
  BY ServerAssumption
<1>1. q \in Nat /\ q * Second <= MaxInt
  <2>1. MaxInt = Second * q + (MaxInt % Second) /\ MaxInt % Second \in 0..(Second - 1)
    BY <1>0
  <2>2. q \in Int
    BY <1>0
  <2> QED BY <1>0, <2>1, <2>2
<1>2. n \in Nat /\ 1 <= n /\ n <= q
  BY <1>1 DEF readPositiveInt, maxDurationSeconds
<1> HIDE DEF q
<1>3. n * Second <= q * Second
  BY <1>0, <1>1, <1>2
<1>4. n * Second \in Nat /\ n * Second > 0 /\ n * Second <= MaxInt
  BY <1>0, <1>1, <1>2, <1>3
<1>5. Duration(n) = n * Second
  <2> DEFINE v == n * Second
  <2>1. \A x \in Nat : x <= MaxInt =>
          ((x + MaxInt + 1) % (2 * (MaxInt + 1))) - (MaxInt + 1) = x
    BY <1>0
  <2> QED BY <1>4, <2>1 DEF Duration
<1>6. (n * Second) % Second = 0
  BY <1>0, <1>2
<1> QED BY <1>4, <1>5, <1>6

Configs == [AppEnv : AppEnvs \cup {""}, CircuitThreshold : Nat,
            CircuitCooldown : Int, DrainTimeout : Int]

\* What FromEnv returns for an environment without a problem passes the checks
\* of matcher.New, in whole seconds.
LEMMA AcceptedConfig ==
    ASSUME NEW env, IsConfig(env)
    PROVE  /\ FromEnv(env) \in Configs /\ validate(FromEnv(env))
           /\ FromEnv(env).CircuitCooldown % Second = 0
           /\ FromEnv(env).DrainTimeout % Second = 0
<1>1. readPositiveInt(env.cooldown, maxDurationSeconds) /\ readPositiveInt(env.drain, maxDurationSeconds)
  BY DEF IsConfig
<1>2. /\ Duration(env.cooldown) > 0 /\ Duration(env.cooldown) % Second = 0
      /\ Duration(env.drain) > 0 /\ Duration(env.drain) % Second = 0
      /\ Duration(env.cooldown) = env.cooldown * Second /\ Duration(env.drain) = env.drain * Second
  BY <1>1, DurationExact
<1>3. env.threshold \in Nat /\ env.threshold > 0 /\ env.appEnv \in AppEnvs
  BY ServerAssumption DEF IsConfig, readPositiveInt, noUpperBound
<1>4. Duration(env.cooldown) \in Int /\ Duration(env.drain) \in Int
  <2>1. env.cooldown \in Int /\ env.drain \in Int /\ Second \in Int
    BY <1>1, ServerAssumption DEF readPositiveInt
  <2> QED BY <1>2, <2>1
<1> HIDE DEF Duration
<1> QED BY <1>2, <1>3, <1>4 DEF FromEnv, Configs, validate
-----------------------------------------------------------------------------
(* What processes do to the matchers *)

\* The end of a process, which is no step of Matcher.
Leaves(s) == (Exit(s) \/ Kill(s)) /\ Vanish(s) /\ inFlight' \subseteq inFlight

\* Every step of a process is one of Matcher, the close of its publisher, or
\* the end of the process.
LEMMA MatcherSees ==
    ASSUME [ServerNext]_serverVars
    PROVE  [Next]_vars \/ \E s \in Servers : ClosePublisher(s) \/ Leaves(s)
<1>1. CASE UNCHANGED serverVars
  BY <1>1 DEF serverVars
<1>2. CASE Environment
  BY <1>2 DEF Environment, Next
<1>3. ASSUME NEW s \in Servers, Main(s), ~ClosePublisher(s), ~Exit(s) PROVE UNCHANGED vars
  BY <1>3 DEF Main, LoadConfig, newRedisClient, Ping, NewPublisher, NewMatcher, ParsePublicKey,
              AwaitSignal, HttpShutdown, AwaitMatcher
<1>4. ASSUME NEW s \in Servers, Exit(s) \/ Kill(s) PROVE Leaves(s)
  <2>1. Vanish(s)
    BY <1>4 DEF Exit, Kill
  <2>2. CASE Exit(s)
    BY <2>1, <2>2 DEF Exit, Leaves
  <2>3. CASE Kill(s)
    <3>1. PICK kept \in SUBSET SentBy(s) : inFlight' = (inFlight \ SentBy(s)) \cup kept
      BY <2>3 DEF Kill
    <3>2. inFlight' \subseteq inFlight
      BY <3>1 DEF SentBy
    <3> QED BY <2>1, <2>3, <3>2 DEF Leaves
  <2> QED BY <1>4, <2>2, <2>3
<1>5. ASSUME NEW s \in Servers, ListenFails(s) \/ StartRequest(s) PROVE UNCHANGED vars
  BY <1>5 DEF ListenFails, StartRequest
<1>6. ASSUME NEW s \in Servers, EndRequest(s) PROVE [Next]_vars
  BY <1>6 DEF EndRequest, Next
<1>7. ASSUME NEW s \in Servers, Notify(s) \/ Loop(s) \/ Tick(s) PROVE Next
  BY <1>7 DEF Notify, Loop, Tick, Next
<1> QED BY <1>1, <1>2, <1>3, <1>4, <1>5, <1>6, <1>7 DEF ServerNext

\* Closing the publisher moves no ticket: what the topic does not take is
\* given up by the client, and the ticks still hold what they hold.
LEMMA CloseIsQuiet ==
    ASSUME Base, NEW s \in Servers, ClosePublisher(s)
    PROVE  Quiet /\ Base' /\ UNCHANGED <<tick, loop, ctxDone, issued>> /\ faults'.redis = faults.redis
<1>1. PICK refused \in SUBSET SentBy(s) :
        /\ topic' = topic \cup (SentBy(s) \ refused)
        /\ faults' = faults \/ faults' = [faults EXCEPT !.publish = @ + 1]
  BY DEF ClosePublisher
<1>2. inFlight' = inFlight \ SentBy(s) /\ SentBy(s) \subseteq inFlight
  BY DEF ClosePublisher, SentBy
<1>3. UNCHANGED <<queue, instanceID, tick, breaker, loop, ctxDone, acked, issued, tickets>>
  BY DEF ClosePublisher, queueVars, tickVars
<1>4. Quiet
  BY <1>1, <1>2, <1>3 DEF Quiet, Sent, SameHold
<1>f. /\ faults' \in [redis : Nat, publish : Nat, evictions : Nat]
      /\ faults'.redis = faults.redis
  BY <1>1 DEF Base, TypeInv, TypeOK
<1>5. TypeInv'
  BY <1>1, <1>2, <1>3, <1>f DEF Base, TypeInv, TypeOK, TickInv, CircuitOpenIffOverThreshold
<1> QED BY <1>3, <1>4, <1>5, <1>f DEF Base, OneTickAtATime, OneEntryPerPlayer, HoldInv

\* The end of a process leaves at most a script behind, whose effects keep the
\* books: the pair of an unread pop is logged nowhere, but its wait is over.
LEMMA LeavesBooked ==
    ASSUME Base, NEW s \in Servers, Leaves(s)
    PROVE  Booked /\ Base' /\ UNCHANGED <<tick, loop, ctxDone, issued>>
<1>0. tickets \in Seq(Ticket)
  BY DEF Base, TypeInv, TypeOK
<1>1. /\ UNCHANGED <<tick, breaker, loop, ctxDone, topic, acked, issued, faults>>
      /\ inFlight' \subseteq inFlight
  BY DEF Leaves, Vanish, tickVars
<1>2. Held' = Held /\ EntriesOf(topic)' = EntriesOf(topic)
  BY <1>1 DEF Held, PairOf, EntriesOf
<1>3. \A d : d \in EntriesOf(Sent)' => d \in EntriesOf(Sent)
  BY <1>1 DEF EntriesOf, Sent
<1>4. CASE UNCHANGED <<queueVars, tickets>>
  <2>1. Booked
    BY <1>2, <1>3, <1>4 DEF Booked, Keeps, Followed, InView, Known, queueVars
  <2>2. Base'
    BY <1>1, <1>4 DEF Base, TypeInv, TypeOK, TickInv, CircuitOpenIffOverThreshold, OneTickAtATime,
                      OneEntryPerPlayer, HoldInv, queueVars
  <2> QED BY <1>1, <2>1, <2>2
<1>5. ASSUME NEW a \in queue, NEW b \in queue, popPairLua(a, b),
             tickets' = Ended(tickets, {a, b}, "unread")
      PROVE  Booked /\ Base'
  <2>1. queue' = queue \ {a, b} /\ instanceID' = instanceID
    BY <1>5 DEF popPairLua
  <2>2. /\ Keeps(tickets, tickets')
        /\ \A t \in DOMAIN tickets :
             tickets'[t].fate = IF \E e \in {a, b} : e.ticket = t THEN "unread" ELSE tickets[t].fate
    BY <1>0, <1>5, EndedIs DEF Keeps
  <2>3. tickets' \in Seq(Ticket)
    BY <1>0, <1>5, EndedType DEF Fates
  <2>4. Booked
    BY <1>2, <1>3, <2>1, <2>2 DEF Booked, Followed, InView, Known
  <2>5. Base'
    BY <1>1, <2>1, <2>3 DEF Base, TypeInv, TypeOK, TickInv, CircuitOpenIffOverThreshold,
                            OneTickAtATime, OneEntryPerPlayer, HoldInv
  <2> QED BY <2>4, <2>5
<1>6. ASSUME tick[s].step \in HoldingSteps, WriteBack(s), tickets' = Overwritten(s)
      PROVE  Booked /\ Base'
  <2>1. WroteBack(s)
    BY <1>6, WriteBackEffect
  <2>2. PairOf(s) = {tick[s].pair[1], tick[s].pair[2]} /\ PairOf(s) \subseteq Held
    BY <1>6, PairIs DEF Base, Held
  <2>3. Keeps(tickets, tickets') /\ tickets' \in Seq(Ticket)
    BY <1>6, OverwrittenIs DEF Base
  <2>4. Followed
    <3>1. \A t \in DOMAIN tickets : tickets'[t].fate = "open" => tickets[t].fate = "open"
      BY <1>6, OverwrittenIs DEF Base
    <3>2. \A t \in DOMAIN tickets : tickets'[t].fate = "open" =>
              \A d \in queue : d.ticket = t => d \in queue'
      BY <1>6, <2>1, WroteBackBooks
    <3> QED BY <1>2, <3>1, <3>2 DEF Followed, InView
  <2>5. Known' \subseteq Known
    BY <1>2, <1>3, <2>1, <2>2 DEF WroteBack, Known
  <2>6. queue' \subseteq Entry /\ instanceID' = instanceID
    BY <1>6, WriteBackType DEF Base
  <2>7. OneEntryPerPlayer'
    BY <1>6, WriteBackOnePerPlayer DEF Base
  <2>8. Base'
    BY <1>1, <2>3, <2>6, <2>7 DEF Base, TypeInv, TypeOK, TickInv, CircuitOpenIffOverThreshold,
                                  OneTickAtATime, HoldInv
  <2> QED BY <2>3, <2>4, <2>5, <2>8 DEF Booked
<1> QED BY <1>1, <1>4, <1>5, <1>6 DEF Leaves, Vanish, HoldingSteps

\* No step of a process breaks what is proved of the matchers.
LEMMA ServerBaseStep ==
    ASSUME Base, [ServerNext]_serverVars
    PROVE  Base'
BY MatcherSees, BaseStep, CloseIsQuiet, LeavesBooked

\* What is proved of the matchers in a world of immortal processes also holds
\* of processes that end: the types, one tick at a time, one entry per player.
LEMMA ServerBase == ServerSpec => []Base
<1>1. ServerInit => Base
  BY BaseAtStart DEF ServerInit
<1>2. Base /\ [ServerNext]_serverVars => Base'
  BY ServerBaseStep
<1> QED BY <1>1, <1>2, PTL DEF ServerSpec

\* A ticket whose wait nothing ended is in view: waiting, held or delivered.
LEMMA ServerNothingForgotten == ServerSpec => []NothingForgotten
<1>1. ServerInit => NothingForgotten
  BY Beginning DEF ServerInit, NothingForgotten
<1>2. Base /\ NothingForgotten /\ [ServerNext]_serverVars => NothingForgotten'
  <2> SUFFICES ASSUME Base, NothingForgotten, [ServerNext]_serverVars PROVE NothingForgotten'
    OBVIOUS
  <2>1. CASE [Next]_vars
    BY <2>1, NothingForgottenStep
  <2>2. CASE Booked
    BY <2>2 DEF Booked, Keeps, Followed, NothingForgotten
  <2> QED BY <2>1, <2>2, MatcherSees, CloseIsQuiet, QuietBooked, LeavesBooked
<1> QED BY <1>1, <1>2, ServerBase, PTL DEF ServerSpec
-----------------------------------------------------------------------------
(* Processes *)

Returned == {"drained", "forced"}

Proc == [stage : {"off"} \cup Starting \cup Running \cup Over,
         cfg : Configs,
         err : {"none", "off", "auth", "serving", "shutdown"} \cup Starting,
         isHandling : BOOLEAN,
         sent : SUBSET Nat]

\* What is true of a process p whose Run is in the given phase.
Sound(p, phase) ==
    /\ p.isHandling => p.stage \in (Running \ {"auth", "waiting"}) \cup Over
    /\ p.stage \in Starting => validate(p.cfg)
    /\ p.cfg.CircuitCooldown % Second = 0 /\ p.cfg.DrainTimeout % Second = 0
    /\ p.err # "matcher"
    /\ p.stage \in {"closing", "closed", "exited"} /\ p.err = "none" =>
          ~p.isHandling /\ phase \in Returned

\* The inductive invariant of processes.
ProcInv ==
    /\ proc \in [Servers -> Proc]
    /\ \A s \in Servers : Sound(proc[s], loop[s].phase) /\ proc[s].sent \subseteq 1..issued

\* Run never leaves the phase in which it returned, and match ids are counted
\* upwards.
LEMMA RunReturnsOnce ==
    ASSUME Base, [ServerNext]_serverVars
    PROVE  /\ issued' \in Nat /\ issued' >= issued
           /\ \A s \in Servers : loop[s].phase \in Returned => loop'[s].phase = loop[s].phase
<1>0. loop \in [Servers -> RunLocals] /\ issued \in Nat
  BY DEF Base, TypeInv, TypeOK
<1>1. CASE UNCHANGED <<loop, issued>>
  BY <1>0, <1>1
<1>2. CASE UNCHANGED vars
  BY <1>1, <1>2 DEF vars
<1>3. ASSUME NEW p \in Players, NEW g \in Gateways, NEW t \in Times, Enqueue(p, g, t)
      PROVE  UNCHANGED <<loop, issued>>
  BY <1>3 DEF Enqueue, pubsubVars
<1>4. ASSUME NEW p \in Players, Cancel(p) PROVE UNCHANGED <<loop, issued>>
  BY <1>4 DEF Cancel, pubsubVars
<1>5. ASSUME NEW m \in inFlight, Deliver(m) PROVE UNCHANGED <<loop, issued>>
  BY <1>5 DEF Deliver
<1>6. CASE Evict \/ Elapse
  BY <1>1, <1>6 DEF Evict, Elapse, pubsubVars
<1>7. ASSUME NEW s \in Servers, Shutdown(s) \/ TickerFires(s) \/ RunStep(s)
      PROVE  /\ issued' = issued
             /\ \A r \in Servers : loop[r].phase \in Returned => loop'[r].phase = loop[r].phase
  <2>1. issued' = issued
    BY <1>7 DEF Shutdown, TickerFires, RunStep, startTick, ReceiveTickDone, StartDrain,
                DrainCompletes, DrainTimesOut, runUnchanged, pubsubVars
  <2>2. CASE Shutdown(s)
    BY <2>1, <2>2 DEF Shutdown
  <2>3. CASE TickerFires(s) \/ startTick(s) \/ ReceiveTickDone(s)
    <3>1. \A r \in Servers : loop'[r].phase = loop[r].phase
      BY <1>0, <2>3 DEF TickerFires, startTick, ReceiveTickDone, RunLocals
    <3> QED BY <2>1, <3>1
  <2>4. CASE StartDrain(s) \/ DrainCompletes(s) \/ DrainTimesOut(s)
    BY <1>0, <2>1, <2>4 DEF StartDrain, DrainCompletes, DrainTimesOut, Returned
  <2> QED BY <1>7, <2>2, <2>3, <2>4 DEF RunStep
<1>8. ASSUME NEW s \in Servers, TickStep(s)
      PROVE  /\ issued' \in {issued, issued + 1}
             /\ \A r \in Servers : loop'[r].phase = loop[r].phase
  <2>1. CASE Finish(s)
    <3>1. \A r \in Servers : loop'[r].phase = loop[r].phase
      BY <1>0, <2>1 DEF Finish
    <3>2. issued' \in {issued, issued + 1}
      BY <1>8 DEF TickStep, BeginTick, PopPair, PopEmpty, PopFails, PublishSucceeds, PublishFails,
               Reenqueue, ReenqueueFails, BackoffEnds, BackoffCancelled, LosePair, pubsubVars
    <3> QED BY <3>1, <3>2
  <2>2. CASE ~Finish(s)
    BY <1>8, <2>2 DEF TickStep, BeginTick, PopPair, PopEmpty, PopFails, PublishSucceeds, PublishFails,
             Reenqueue, ReenqueueFails, BackoffEnds, BackoffCancelled, LosePair, Step, pubsubVars
  <2> QED BY <2>1, <2>2
<1>9. CASE [Next]_vars
  BY <1>0, <1>1, <1>2, <1>3, <1>4, <1>5, <1>6, <1>7, <1>8, <1>9 DEF Next
<1> QED BY <1>1, <1>9, MatcherSees, CloseIsQuiet, LeavesBooked

\* A step changes the record of one process, to one that is still sound.
LEMMA ProcStep ==
    ASSUME Base, ProcInv, [ServerNext]_serverVars
    PROVE  ProcInv'
<1>0. /\ issued \in Nat /\ issued' \in Nat /\ issued' >= issued
      /\ \A s \in Servers : loop[s].phase \in Returned => loop'[s].phase = loop[s].phase
  BY RunReturnsOnce DEF Base, TypeInv, TypeOK
<1>1. ASSUME NEW s \in Servers, NEW p \in Proc, Sound(p, loop[s].phase), p.sent \subseteq 1..issued',
             proc' = [proc EXCEPT ![s] = p]
      PROVE  ProcInv'
  <2>1. proc' \in [Servers -> Proc]
    BY <1>1 DEF ProcInv
  <2>2. ASSUME NEW r \in Servers
        PROVE  Sound(proc'[r], loop'[r].phase) /\ proc'[r].sent \subseteq 1..issued'
    <3>1. CASE r = s
      BY <1>0, <1>1, <3>1 DEF Sound, ProcInv
    <3>2. CASE r # s
      <4>1. proc'[r] = proc[r] /\ Sound(proc[r], loop[r].phase) /\ proc[r].sent \subseteq 1..issued
        BY <1>1, <3>2 DEF ProcInv
      <4>2. proc'[r].sent \subseteq 1..issued'
        BY <1>0, <4>1
      <4>3. Sound(proc'[r], loop'[r].phase)
        BY <1>0, <4>1 DEF Sound
      <4> QED BY <4>2, <4>3
    <3> QED BY <3>1, <3>2
  <2> QED BY <2>1, <2>2 DEF ProcInv
<1>2. CASE UNCHANGED proc
  <2>1. ASSUME NEW r \in Servers PROVE Sound(proc[r], loop'[r].phase) /\ proc[r].sent \subseteq 1..issued'
    <3>1. Sound(proc[r], loop[r].phase) /\ proc[r].sent \subseteq 1..issued
      BY DEF ProcInv
    <3> QED BY <1>0, <3>1 DEF Sound
  <2> QED BY <1>2, <2>1 DEF ProcInv
<1>3. ASSUME NEW s \in Servers, NEW p, proc' = [proc EXCEPT ![s] = p], p \in Proc,
             Sound(p, loop[s].phase), p.sent = proc[s].sent
      PROVE  ProcInv'
  <2>1. p.sent \subseteq 1..issued'
    BY <1>0, <1>3 DEF ProcInv
  <2> QED BY <1>1, <1>3, <2>1
<1>4. ASSUME NEW s \in Servers, Tick(s) PROVE ProcInv'
  <2> DEFINE p == [proc[s] EXCEPT !.sent = @ \cup (issued + 1)..issued']
  <2>1. proc' = [proc EXCEPT ![s] = p]
    BY <1>4 DEF Tick, ProcInv
  <2>2. proc[s] \in Proc /\ Sound(proc[s], loop[s].phase) /\ proc[s].sent \subseteq 1..issued
    BY DEF ProcInv
  <2>3. p.sent = proc[s].sent \cup (issued + 1)..issued'
    BY <2>2 DEF Proc
  <2>4. p.sent \subseteq 1..issued' /\ p.sent \in SUBSET Nat
    BY <1>0, <2>2, <2>3
  <2>5. /\ p.stage = proc[s].stage /\ p.cfg = proc[s].cfg /\ p.err = proc[s].err
        /\ p.isHandling = proc[s].isHandling
    BY <2>2 DEF Proc
  <2>6. p \in Proc
    BY <2>2, <2>4 DEF Proc
  <2>7. Sound(p, loop[s].phase)
    BY <2>2, <2>5 DEF Sound
  <2> HIDE DEF p
  <2> QED BY <1>1, <2>1, <2>4, <2>6, <2>7
<1>5. ASSUME NEW s \in Servers, NEW stage \in {"off"} \cup Starting \cup Running \cup Over,
             GoTo(s, stage),
             Sound([proc[s] EXCEPT !.stage = stage], loop[s].phase)
      PROVE  ProcInv'
  <2> DEFINE p == [proc[s] EXCEPT !.stage = stage]
  <2>1. proc' = [proc EXCEPT ![s] = p]
    BY <1>5 DEF GoTo, ProcInv
  <2>2. p \in Proc /\ p.sent = proc[s].sent
    BY DEF ProcInv, Proc
  <2> QED BY <1>3, <1>5, <2>1, <2>2
<1>6. ASSUME NEW s \in Servers, NEW stage \in {"off"} \cup Starting \cup Running \cup Over,
             Fail(s, stage),
             proc[s].stage \in {"off", "auth", "serving", "shutdown"} \cup Starting,
             Sound([proc[s] EXCEPT !.stage = stage, !.err = proc[s].stage], loop[s].phase)
      PROVE  ProcInv'
  <2> DEFINE p == [proc[s] EXCEPT !.stage = stage, !.err = proc[s].stage]
  <2>1. proc' = [proc EXCEPT ![s] = p]
    BY <1>6 DEF Fail, ProcInv
  <2>2. p \in Proc /\ p.sent = proc[s].sent
    BY <1>6 DEF ProcInv, Proc
  <2> QED BY <1>3, <1>6, <2>1, <2>2
<1>7. ASSUME NEW s \in Servers PROVE Main(s) => ProcInv'
  <2> DEFINE q == proc[s]
  <2>0. q \in Proc /\ Sound(q, loop[s].phase)
    BY DEF ProcInv
  <2>a. ASSUME NEW stage PROVE /\ [q EXCEPT !.stage = stage].stage = stage
                               /\ [q EXCEPT !.stage = stage].cfg = q.cfg
                               /\ [q EXCEPT !.stage = stage].err = q.err
                               /\ [q EXCEPT !.stage = stage].isHandling = q.isHandling
    BY <2>0 DEF Proc
  <2>b. ASSUME NEW stage PROVE /\ [q EXCEPT !.stage = stage, !.err = q.stage].stage = stage
                               /\ [q EXCEPT !.stage = stage, !.err = q.stage].cfg = q.cfg
                               /\ [q EXCEPT !.stage = stage, !.err = q.stage].err = q.stage
                               /\ [q EXCEPT !.stage = stage, !.err = q.stage].isHandling = q.isHandling
    BY <2>0 DEF Proc
  <2>1. CASE LoadConfig(s)
    <3>1. PICK env \in Environments :
            IF IsConfig(env)
            THEN proc' = [proc EXCEPT ![s].stage = "redis", ![s].cfg = FromEnv(env)]
            ELSE Fail(s, "exited")
      BY <2>1 DEF LoadConfig
    <3>2. CASE IsConfig(env)
      <4> DEFINE p == [q EXCEPT !.stage = "redis", !.cfg = FromEnv(env)]
      <4>1. proc' = [proc EXCEPT ![s] = p]
        BY <3>1, <3>2 DEF ProcInv
      <4>2. /\ FromEnv(env) \in Configs /\ validate(FromEnv(env))
            /\ FromEnv(env).CircuitCooldown % Second = 0 /\ FromEnv(env).DrainTimeout % Second = 0
        BY <3>2, AcceptedConfig
      <4>3. p \in Proc /\ p.sent = q.sent
        BY <2>0, <4>2 DEF Proc, Starting
      <4>4. /\ p.stage = "redis" /\ p.cfg = FromEnv(env) /\ p.err = q.err
            /\ p.isHandling = q.isHandling
        BY <2>0 DEF Proc
      <4>5. Sound(p, loop[s].phase)
        BY <2>0, <2>1, <4>2, <4>4 DEF Sound, LoadConfig, At, Running, Starting, Over
      <4> HIDE DEF p
      <4> QED BY <1>3, <4>1, <4>3, <4>5
    <3>3. CASE ~IsConfig(env)
      <4>1. Sound([q EXCEPT !.stage = "exited", !.err = q.stage], loop[s].phase)
        BY <2>0, <2>1, <2>b DEF Sound, LoadConfig, At, Running, Starting, Over
      <4> QED BY <1>6, <2>1, <3>1, <3>3, <4>1 DEF LoadConfig, At, Over
    <3> QED BY <3>2, <3>3
  <2>2. CASE newRedisClient(s)
    <3>1. Sound([q EXCEPT !.stage = "ping"], loop[s].phase)
      BY <2>0, <2>2, <2>a DEF Sound, newRedisClient, At, Running, Starting, Over
    <3>2. Sound([q EXCEPT !.stage = "exited", !.err = q.stage], loop[s].phase)
      BY <2>0, <2>2, <2>b DEF Sound, newRedisClient, At, Running, Starting, Over
    <3> QED BY <1>5, <1>6, <2>2, <3>1, <3>2 DEF newRedisClient, At, Over, Starting
  <2>3. CASE Ping(s)
    <3>1. Sound([q EXCEPT !.stage = "publisher"], loop[s].phase)
      BY <2>0, <2>3, <2>a DEF Sound, Ping, At, Running, Starting, Over
    <3>2. Sound([q EXCEPT !.stage = "exited", !.err = q.stage], loop[s].phase)
      BY <2>0, <2>3, <2>b DEF Sound, Ping, At, Running, Starting, Over
    <3> QED BY <1>5, <1>6, <2>3, <3>1, <3>2 DEF Ping, At, Over, Starting
  <2>4. CASE NewPublisher(s)
    <3>1. Sound([q EXCEPT !.stage = "matcher"], loop[s].phase)
      BY <2>0, <2>4, <2>a DEF Sound, NewPublisher, At, Running, Starting, Over
    <3>2. Sound([q EXCEPT !.stage = "exited", !.err = q.stage], loop[s].phase)
      BY <2>0, <2>4, <2>b DEF Sound, NewPublisher, At, Running, Starting, Over
    <3> QED BY <1>5, <1>6, <2>4, <3>1, <3>2 DEF NewPublisher, At, Over, Starting
  <2>5. CASE NewMatcher(s)
    <3> DEFINE p == [q EXCEPT !.stage = "auth", !.cfg = NoConfig]
    <3>1. validate(q.cfg)
      BY <2>0, <2>5 DEF Sound, NewMatcher, At, Starting
    <3>2. proc' = [proc EXCEPT ![s] = p]
      BY <2>5, <3>1 DEF NewMatcher, ProcInv
    <3>3. NoConfig \in Configs /\ NoConfig.CircuitCooldown % Second = 0 /\ NoConfig.DrainTimeout % Second = 0
      BY ServerAssumption DEF NoConfig, Configs
    <3>4. p \in Proc /\ p.sent = q.sent
      BY <2>0, <3>3 DEF Proc, Running
    <3>5. p.stage = "auth" /\ p.cfg = NoConfig /\ p.err = q.err /\ p.isHandling = q.isHandling
      BY <2>0 DEF Proc
    <3>6. Sound(p, loop[s].phase)
      BY <2>0, <2>5, <3>3, <3>5 DEF Sound, NewMatcher, At, Running, Starting, Over
    <3> HIDE DEF p
    <3> QED BY <1>3, <3>2, <3>4, <3>6
  <2>6. CASE ParsePublicKey(s)
    <3>1. Sound([q EXCEPT !.stage = "serving"], loop[s].phase)
      BY <2>0, <2>6, <2>a DEF Sound, ParsePublicKey, At, Running, Starting, Over
    <3>2. Sound([q EXCEPT !.stage = "closing", !.err = q.stage], loop[s].phase)
      BY <2>0, <2>6, <2>b DEF Sound, ParsePublicKey, At, Running, Starting, Over
    <3> QED BY <1>5, <1>6, <2>6, <3>1, <3>2 DEF ParsePublicKey, At, Running
  <2>7. CASE AwaitSignal(s)
    <3>1. Sound([q EXCEPT !.stage = "shutdown"], loop[s].phase)
      BY <2>0, <2>7, <2>a DEF Sound, AwaitSignal, At, Running, Starting, Over
    <3> QED BY <1>5, <2>7, <3>1 DEF AwaitSignal, Running
  <2>8. CASE HttpShutdown(s)
    <3>1. CASE ~q.isHandling /\ GoTo(s, "waiting")
      <4>1. Sound([q EXCEPT !.stage = "waiting"], loop[s].phase)
        BY <2>0, <2>a, <3>1 DEF Sound, Running, Starting, Over
      <4> QED BY <1>5, <3>1, <4>1 DEF Running
    <3>2. CASE Fail(s, "closing")
      <4>1. Sound([q EXCEPT !.stage = "closing", !.err = q.stage], loop[s].phase)
        BY <2>0, <2>8, <2>b DEF Sound, HttpShutdown, At, Running, Starting, Over
      <4> QED BY <1>6, <2>8, <3>2, <4>1 DEF HttpShutdown, At, Running
    <3> QED BY <2>8, <3>1, <3>2 DEF HttpShutdown
  <2>9. CASE AwaitMatcher(s)
    <3>1. Sound([q EXCEPT !.stage = "closing"], loop[s].phase)
      BY <2>0, <2>9, <2>a DEF Sound, AwaitMatcher, At, Running, Starting, Over, Returned
    <3> QED BY <1>5, <2>9, <3>1 DEF AwaitMatcher, Running
  <2>10. CASE ClosePublisher(s)
    <3>1. Sound([q EXCEPT !.stage = "closed"], loop[s].phase)
      BY <2>0, <2>10, <2>a DEF Sound, ClosePublisher, At, Running, Starting, Over
    <3> QED BY <1>5, <2>10, <3>1 DEF ClosePublisher, Running
  <2>11. CASE Exit(s)
    <3>1. Sound([q EXCEPT !.stage = "exited"], loop[s].phase)
      BY <2>0, <2>11, <2>a DEF Sound, Exit, At, Running, Starting, Over
    <3> QED BY <1>5, <2>11, <3>1 DEF Exit, Over
  <2> QED BY <2>1, <2>2, <2>3, <2>4, <2>5, <2>6, <2>7, <2>8, <2>9, <2>10, <2>11 DEF Main
<1>8. ASSUME NEW s \in Servers, ListenFails(s) \/ Kill(s) PROVE ProcInv'
  <2>0. proc[s] \in Proc /\ Sound(proc[s], loop[s].phase)
    BY DEF ProcInv
  <2>1. CASE ListenFails(s)
    <3> DEFINE p == [proc[s] EXCEPT !.stage = "closing", !.err = proc[s].stage]
    <3>1. /\ p.stage = "closing" /\ p.cfg = proc[s].cfg /\ p.err = "serving"
          /\ p.isHandling = proc[s].isHandling
      BY <2>0, <2>1 DEF Proc, ListenFails, At
    <3>2. Sound(p, loop[s].phase)
      BY <2>0, <3>1 DEF Sound, Running, Starting, Over
    <3> QED BY <1>6, <2>1, <3>2 DEF ListenFails, At, Running
  <2>2. CASE Kill(s)
    <3> DEFINE p == [proc[s] EXCEPT !.stage = "killed"]
    <3>1. /\ p.stage = "killed" /\ p.cfg = proc[s].cfg /\ p.err = proc[s].err
          /\ p.isHandling = proc[s].isHandling
      BY <2>0 DEF Proc
    <3>2. Sound(p, loop[s].phase)
      BY <2>0, <3>1 DEF Sound, Running, Starting, Over
    <3> QED BY <1>5, <2>2, <3>2 DEF Kill, Over
  <2> QED BY <1>8, <2>1, <2>2
<1>9. ASSUME NEW s \in Servers, StartRequest(s) \/ EndRequest(s) PROVE ProcInv'
  <2>0. proc[s] \in Proc /\ Sound(proc[s], loop[s].phase)
    BY DEF ProcInv
  <2>1. PICK b \in BOOLEAN : /\ proc' = [proc EXCEPT ![s].isHandling = b]
                             /\ b => At(s, "serving")
    BY <1>9 DEF StartRequest, EndRequest
  <2> DEFINE p == [proc[s] EXCEPT !.isHandling = b]
  <2>2. proc' = [proc EXCEPT ![s] = p]
    BY <2>1 DEF ProcInv
  <2>3. p \in Proc /\ p.sent = proc[s].sent
    BY <2>0 DEF Proc
  <2>4. p.stage = proc[s].stage /\ p.cfg = proc[s].cfg /\ p.err = proc[s].err /\ p.isHandling = b
    BY <2>0 DEF Proc
  <2>5. Sound(p, loop[s].phase)
    BY <2>0, <2>1, <2>4 DEF Sound, At, Running, Starting, Over
  <2> HIDE DEF p
  <2> QED BY <1>3, <2>2, <2>3, <2>5
<1>10. ASSUME NEW s \in Servers, Notify(s) \/ Loop(s) PROVE ProcInv'
  BY <1>2, <1>10 DEF Notify, Loop
<1>11. CASE Environment
  BY <1>2, <1>11 DEF Environment
<1>12. CASE UNCHANGED serverVars
  BY <1>2, <1>12 DEF serverVars
<1> QED BY <1>4, <1>7, <1>8, <1>9, <1>10, <1>11, <1>12 DEF ServerNext

\* The invariant of processes holds whenever ServerSpec does.
LEMMA ProcInvariance == ServerSpec => []ProcInv
<1>1. ServerInit => ProcInv
  <2> SUFFICES ASSUME ServerInit PROVE ProcInv
    OBVIOUS
  <2>1. NoConfig \in Configs /\ NoConfig.CircuitCooldown % Second = 0 /\ NoConfig.DrainTimeout % Second = 0
    BY ServerAssumption DEF NoConfig, Configs
  <2>2. proc \in [Servers -> Proc]
    BY <2>1 DEF ServerInit, Proc
  <2>3. \A s \in Servers : Sound(proc[s], loop[s].phase) /\ proc[s].sent \subseteq 1..issued
    BY <2>1 DEF ServerInit, Sound, Starting
  <2> QED BY <2>2, <2>3 DEF ProcInv
<1>2. Base /\ ProcInv /\ [ServerNext]_serverVars => ProcInv'
  BY ProcStep
<1> QED BY <1>1, <1>2, ServerBase, PTL DEF ServerSpec

(* The record of every process has its type: a handler runs only while the  *)
(* server is up or being closed in a hurry, and the match ids a process     *)
(* published under were generated.                                          *)
THEOREM ProcessesWellTyped == ServerSpec => []ProcessOK
<1>1. ProcInv => ProcessOK
  BY DEF ProcInv, Sound, Proc, ProcessOK
<1> QED BY <1>1, ProcInvariance, PTL

(* For every environment a process may be started in and every width of     *)
(* integers: what FromEnv accepts does not overflow on its way to           *)
(* time.Duration, and matcher.New does not refuse it.                       *)
THEOREM ConfigAcceptedStarts == ServerSpec => []AcceptedConfigStarts
<1>1. ProcInv => AcceptedConfigStarts
  BY DEF ProcInv, Sound, AcceptedConfigStarts
<1> QED BY <1>1, ProcInvariance, PTL

\* When Run returned after a complete drain, no tick is running.
LEMMA DrainedIsIdle ==
    ASSUME Base, NEW s \in Servers, loop[s].phase = "drained"
    PROVE  tick[s].step = "idle"
BY DEF Base, OneTickAtATime

(* When run returns nil it closes the clients after the last handler and    *)
(* after the last tick, unless the drain timed out.                         *)
THEOREM ClientsCloseLast == ServerSpec => []ClosedLast
<1>1. Base /\ ProcInv => ClosedLast
  BY DrainedIsIdle DEF ProcInv, Sound, ClosedLast, Returned
<1> QED BY <1>1, ServerBase, ProcInvariance, PTL

\* A process that is over stays what it was when it ended.
LEMMA OverStays ==
    ASSUME Base, ProcInv, [ServerNext]_serverVars, NEW s \in Servers,
           proc[s].stage \in Over, IsHurried(s)
    PROVE  (proc[s].stage \in Over /\ IsHurried(s))'
<1>1. proc'[s] = proc[s]
  <2>0. proc \in [Servers -> Proc]
    BY DEF ProcInv
  <2>1. CASE UNCHANGED proc
    BY <2>1
  <2>2. ASSUME NEW r \in Servers, NEW p, r # s, proc' = [proc EXCEPT ![r] = p]
        PROVE  proc'[s] = proc[s]
    BY <2>0, <2>2
  <2>3. ASSUME NEW r \in Servers, Main(r) \/ ListenFails(r) \/ Kill(r) \/ StartRequest(r)
                                          \/ EndRequest(r) \/ Tick(r)
        PROVE  r # s /\ \E p : proc' = [proc EXCEPT ![r] = p]
    <3>1. r # s
      BY <2>3 DEF Main, LoadConfig, newRedisClient, Ping, NewPublisher, NewMatcher, ParsePublicKey,
                  AwaitSignal, HttpShutdown, AwaitMatcher, ClosePublisher, Exit, ListenFails, Kill,
                  StartRequest, EndRequest, Tick, At, Running, Over
    <3>2. \E p : proc' = [proc EXCEPT ![r] = p]
      <4>1. CASE Main(r)
        BY <4>1 DEF Main, LoadConfig, newRedisClient, Ping, NewPublisher, NewMatcher, ParsePublicKey,
                    AwaitSignal, HttpShutdown, AwaitMatcher, ClosePublisher, Exit, GoTo, Fail
      <4>2. CASE ~Main(r)
        BY <2>3, <4>2 DEF ListenFails, Kill, StartRequest, EndRequest, Tick, GoTo, Fail
      <4> QED BY <4>1, <4>2
    <3> QED BY <3>1, <3>2
  <2> QED BY <2>1, <2>2, <2>3 DEF ServerNext, Environment, Notify, Loop, serverVars
<1>2. loop[s].phase = "forced" => loop'[s].phase = "forced"
  BY RunReturnsOnce DEF Returned
<1> QED BY <1>1, <1>2 DEF IsHurried, At

\* A pop that nobody reads is left behind only by a failed Redis call or by a
\* process that ended in a hurry.
UnreadExplained ==
    Unread # {} => \/ faults.redis > 0
                   \/ \E s \in Servers : proc[s].stage \in Over /\ IsHurried(s)

LEMMA UnreadExplainedStep ==
    ASSUME Base, ProcInv, UnreadExplained, [ServerNext]_serverVars
    PROVE  UnreadExplained'
<1>0. faults.redis \in Nat
  BY DEF Base, TypeInv, TypeOK
<1>1. CASE Unread' \subseteq Unread /\ faults'.redis >= faults.redis
  <2>1. CASE Unread = {}
    BY <1>1, <2>1 DEF UnreadExplained
  <2>2. CASE faults.redis > 0
    <3>1. faults'.redis > 0
      BY <1>0, <1>1, <2>2, ServerBaseStep DEF Base, TypeInv, TypeOK
    <3> QED BY <3>1 DEF UnreadExplained
  <2>3. ASSUME NEW s \in Servers, proc[s].stage \in Over, IsHurried(s) PROVE UnreadExplained'
    BY <2>3, OverStays DEF UnreadExplained
  <2> QED BY <2>1, <2>2, <2>3 DEF UnreadExplained
<1>2. CASE [Next]_vars
  <2>1. CASE ~\E s \in Servers : UnreadPop(s)
    BY <1>1, <1>2, <2>1, UnreadByUnreadPop, FaultsGrow
  <2>2. ASSUME NEW s \in Servers, UnreadPop(s) PROVE UnreadExplained'
    <3>1. faults'.redis > 0
      BY <1>0, <2>2, UnreadPopTakesTwo
    <3> QED BY <3>1 DEF UnreadExplained
  <2> QED BY <2>1, <2>2
<1>3. ASSUME NEW s \in Servers, ClosePublisher(s) PROVE UnreadExplained'
  <2>1. Unread' = Unread /\ faults'.redis = faults.redis
    BY <1>3, CloseIsQuiet DEF Quiet, Unread
  <2> QED BY <1>0, <1>1, <2>1
<1>4. ASSUME NEW s \in Servers, Leaves(s) PROVE UnreadExplained'
  <2>1. faults' = faults /\ UNCHANGED <<tick, loop>>
    BY <1>4 DEF Leaves, Vanish, tickVars
  <2>2. CASE tickets' = tickets
    <3>1. Unread' = Unread
      BY <2>2 DEF Unread
    <3> QED BY <1>0, <1>1, <2>1, <3>1
  <2>3. CASE tickets' = Overwritten(s)
    <3>1. Unread' \subseteq Unread
      BY <2>3, OverwrittenIs DEF Base, Keeps, Unread
    <3> QED BY <1>0, <1>1, <2>1, <3>1
  <2>4. CASE tick[s].step = "popping"
    <3>0. proc[s] \in Proc /\ proc \in [Servers -> Proc] /\ Sound(proc[s], loop[s].phase)
      BY DEF ProcInv
    <3>1. CASE Kill(s)
      <4>1. proc'[s].stage = "killed"
        BY <3>0, <3>1 DEF Kill, GoTo, Proc
      <4> QED BY <4>1 DEF UnreadExplained, Over, IsHurried, At
    <3>2. CASE Exit(s)
      <4>1. proc'[s].stage = "exited" /\ proc'[s].err = proc[s].err /\ proc[s].stage = "closed"
        BY <3>0, <3>2 DEF Exit, GoTo, At, Proc
      <4>2. loop[s].phase # "drained"
        BY <2>4, DrainedIsIdle
      <4>3. proc[s].err = "none" => loop[s].phase = "forced"
        BY <3>0, <4>1, <4>2 DEF Sound, Returned
      <4>4. (proc[s].stage \in Over /\ IsHurried(s))'
        BY <2>1, <4>1, <4>3 DEF Over, IsHurried
      <4> QED BY <4>4 DEF UnreadExplained
    <3> QED BY <1>4, <3>1, <3>2 DEF Leaves
  <2> QED BY <1>4, <2>2, <2>3, <2>4 DEF Leaves, Vanish
<1> QED BY <1>2, <1>3, <1>4, MatcherSees

(* The end of a process takes nobody out of the queue unnoticed, whatever   *)
(* the number of processes, their deaths and the requests they handle, and  *)
(* leaves a pop behind that nobody reads only when it was hurried.          *)
THEOREM EndsTakeNobody == ServerSpec => []NobodyVanishes
<1>1. ServerInit => UnreadExplained
  BY Beginning DEF ServerInit, UnreadExplained, Unread
<1>2. Base /\ ProcInv /\ UnreadExplained /\ [ServerNext]_serverVars => UnreadExplained'
  BY UnreadExplainedStep
<1>3. Base /\ ProcInv /\ NothingForgotten /\ UnreadExplained => NobodyVanishes
  <2> SUFFICES ASSUME Base, ProcInv, NothingForgotten,
                      NEW t \in DOMAIN tickets, tickets[t].fate = "open",
                      t \notin TicketsOf(queue \cup EntriesOf(topic))
               PROVE  \E s \in Servers : /\ t \in TicketsOf(PairOf(s))
                                         /\ proc[s].stage \in Over => IsHurried(s)
    BY DEF NobodyVanishes, UnreadExplained, Unread
  <2>1. PICK s \in Servers : t \in TicketsOf(PairOf(s))
    BY InViewIs DEF NothingForgotten, InView, TicketsOf, Held
  <2>2. tick[s].step # "idle"
    <3>1. tick[s].pair # NoPair
      BY <2>1 DEF TicketsOf, PairOf, NoPair
    <3> QED BY <3>1 DEF Base, HoldInv, HoldingSteps
  <2>3. proc[s].stage = "exited" /\ proc[s].err = "none" => loop[s].phase \in Returned
    BY DEF ProcInv, Sound
  <2>4. loop[s].phase # "drained"
    BY <2>2, DrainedIsIdle
  <2> QED BY <2>1, <2>3, <2>4 DEF IsHurried, At, Over, Returned
<1> QED BY <1>1, <1>2, <1>3, ServerBase, ProcInvariance, ServerNothingForgotten, PTL DEF ServerSpec
=============================================================================
