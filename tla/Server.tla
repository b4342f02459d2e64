------------------------------- MODULE Server -------------------------------
(***************************************************************************)
(* The life of a service process: run of cmd/server/main.go around the     *)
(* matcher of Matcher.  A process reads its configuration, opens its       *)
(* clients, starts the goroutine of Run, serves, and after SIGTERM stops   *)
(* in the order HTTP server, matcher, Pub/Sub client, Redis client.  Each  *)
(* step of the way may fail, and a process may be killed at any time.      *)
(* Every server of Matcher is one process: a restart is another server.    *)
(***************************************************************************)
EXTENDS Matcher, Integers, FiniteSets

CONSTANTS
    Environments,  \* environments a process may be started in
    NoInt,         \* value of an unset variable, or one that is no number
    MaxInt,        \* largest int and time.Duration, scaled down
    Second,        \* time.Second, scaled down
    MaxCrashes     \* bound on the processes that are killed

ASSUME ServerAssumption ==
    /\ {MaxInt, Second} \subseteq Nat \ {0} /\ MaxCrashes \in Nat
    /\ Second <= MaxInt

VARIABLE proc  \* per server: where run is, and what it holds

serverVars == <<vars, proc>>
-----------------------------------------------------------------------------
(* internal/config.  An environment gives APP_ENV, the set of required       *)
(* strings that are present and not blank, and the integers.                *)

AppEnvs == {"local", "production"}

requiredStrings(appEnv) ==
    {"GOOGLE_CLOUD_PROJECT_ID", "MATCH_MADE_TOPIC", "INTERNAL_AUTH_PUBLIC_KEY"}
        \cup (IF appEnv = "local" THEN {"UPSTASH_REDIS_URL"} ELSE {})

readRequiredString(env, key) == key \in env.strings

\* Also the mutant of maxDurationSeconds: any int is accepted.
noUpperBound == MaxInt

maxDurationSeconds == MaxInt \div Second

\* Atoi refuses what does not fit an int.
readPositiveInt(raw, upperBound) == raw # NoInt /\ raw <= MaxInt /\ raw \in 1..upperBound

\* time.Duration(n) * time.Second, in two's complement.
Duration(n) ==
    LET size == 2 * (MaxInt + 1)
    IN  ((n * Second + MaxInt + 1) % size) - (MaxInt + 1)

\* FromEnv finds no problem.  A port is tested like the others, with a bound
\* of its own; only whether it is one is kept of it.
IsConfig(env) ==
    /\ env.appEnv \in AppEnvs
    /\ \A key \in requiredStrings(env.appEnv) : readRequiredString(env, key)
    /\ env.isPort
    /\ readPositiveInt(env.threshold, noUpperBound)
    /\ readPositiveInt(env.cooldown, maxDurationSeconds)
    /\ readPositiveInt(env.drain, maxDurationSeconds)

FromEnv(env) ==
    [AppEnv |-> env.appEnv, CircuitThreshold |-> env.threshold,
     CircuitCooldown |-> Duration(env.cooldown), DrainTimeout |-> Duration(env.drain)]

NoConfig == [AppEnv |-> "", CircuitThreshold |-> 0, CircuitCooldown |-> 0, DrainTimeout |-> 0]

\* Options.validate; the interval is a positive constant.
validate(cfg) == cfg.CircuitThreshold > 0 /\ cfg.CircuitCooldown > 0 /\ cfg.DrainTimeout > 0
-----------------------------------------------------------------------------
(* State.  The stage of a process is the statement run executes next.        *)

Starting == {"redis", "ping", "publisher", "matcher"}
Running  == {"auth", "serving", "shutdown", "waiting", "closing", "closed"}
Over     == {"exited", "killed"}

ServerInit ==
    /\ MatcherInit
    /\ proc = [s \in Servers |->
                [stage      |-> "off",
                 cfg        |-> NoConfig,  \* until matcher.New
                 err        |-> "none",    \* the statement whose error run returns
                 isHandling |-> FALSE,     \* a handler is running
                 sent       |-> {}]]       \* match ids of its publishes

At(s, stage) == proc[s].stage = stage

GoTo(s, stage) == proc' = [proc EXCEPT ![s].stage = stage]

\* The statement at which run is returns an error; run goes on with its
\* deferred calls.
Fail(s, stage) == proc' = [proc EXCEPT ![s].stage = stage, ![s].err = proc[s].stage]

SentBy(s) == {m \in inFlight : m.matchID \in proc[s].sent}
-----------------------------------------------------------------------------
(* run up to the HTTP server.  Before the matcher runs the deferred calls    *)
(* only close idle clients, and the process is gone.                        *)

\* FromEnv, newLogger (which knows every APP_ENV that FromEnv accepts) and
\* NotifyContext.
LoadConfig(s) ==
    /\ At(s, "off")
    /\ \E env \in Environments :
        IF IsConfig(env)
        THEN proc' = [proc EXCEPT ![s].stage = "redis", ![s].cfg = FromEnv(env)]
        ELSE Fail(s, "exited")
    /\ UNCHANGED vars

\* A secret can be read while the context of run is not cancelled.
AccessLatest(s) == ~ctxDone[s]

newRedisClient(s) ==
    /\ At(s, "redis")
    /\ \/ /\ proc[s].cfg.AppEnv = "production" => AccessLatest(s)
          /\ GoTo(s, "ping")
       \/ Fail(s, "exited")
    /\ UNCHANGED vars

\* Ping fails for certain once SIGTERM cancelled its context.
Ping(s) ==
    /\ At(s, "ping")
    /\ \/ ~ctxDone[s] /\ GoTo(s, "publisher")
       \/ Fail(s, "exited")
    /\ UNCHANGED vars

NewPublisher(s) ==
    /\ At(s, "publisher")
    /\ GoTo(s, "matcher") \/ Fail(s, "exited")
    /\ UNCHANGED vars

\* matcher.New, and the goroutine of Run is started.
NewMatcher(s) ==
    /\ At(s, "matcher")
    /\ IF validate(proc[s].cfg)
       THEN proc' = [proc EXCEPT ![s].stage = "auth", ![s].cfg = NoConfig]
       ELSE Fail(s, "exited")
    /\ UNCHANGED vars

\* ParsePublicKeyPEM may refuse the key; the matcher is running by then.
ParsePublicKey(s) ==
    /\ At(s, "auth")
    /\ GoTo(s, "serving") \/ Fail(s, "closing")
    /\ UNCHANGED vars
-----------------------------------------------------------------------------
(* Serving and shutting down *)

\* Bound: a process handles one request at a time.
StartRequest(s) ==
    /\ At(s, "serving") /\ ~proc[s].isHandling
    /\ proc' = [proc EXCEPT ![s].isHandling = TRUE]
    /\ UNCHANGED vars

\* A handler does its work in the queue, or fails.
EndRequest(s) ==
    /\ proc[s].stage \in Running /\ proc[s].isHandling
    /\ proc' = [proc EXCEPT ![s].isHandling = FALSE]
    /\ \/ \E p \in Players, g \in Gateways, t \in Times : Enqueue(p, g, t)
       \/ \E p \in Players : Cancel(p)
       \/ UNCHANGED vars

\* The select of run: SIGTERM, or the error of ListenAndServe.
AwaitSignal(s) ==
    /\ At(s, "serving")
    /\ ctxDone[s] /\ GoTo(s, "shutdown")
    /\ UNCHANGED vars

ListenFails(s) ==
    /\ At(s, "serving")
    /\ Fail(s, "closing")
    /\ UNCHANGED vars

\* Mutant of HttpShutdown: it has no time limit.
HttpShutdownForever(s) ==
    /\ At(s, "shutdown")
    /\ ~proc[s].isHandling /\ GoTo(s, "waiting")
    /\ UNCHANGED vars

\* Mutant of HttpShutdown: Close, which does not wait for handlers.
HttpClose(s) ==
    /\ At(s, "shutdown")
    /\ GoTo(s, "waiting")
    /\ UNCHANGED vars

\* srv.Shutdown waits for the handlers, up to httpShutdownTimeout.
HttpShutdown(s) ==
    /\ At(s, "shutdown")
    /\ \/ ~proc[s].isHandling /\ GoTo(s, "waiting")
       \/ Fail(s, "closing")
    /\ UNCHANGED vars

\* Mutant of AwaitMatcher: run returns without waiting.
AwaitNobody(s) ==
    /\ At(s, "waiting")
    /\ GoTo(s, "closing")
    /\ UNCHANGED vars

\* matcherWG.Wait: Run returned.
AwaitMatcher(s) ==
    /\ At(s, "waiting") /\ loop[s].phase \in {"drained", "forced"}
    /\ GoTo(s, "closing")
    /\ UNCHANGED vars

\* publisher.Close returns.  Stop blocks until the client got rid of what it
\* holds: that is the stage "closing", in which messages are delivered and a
\* tick goes on.  The topic took what was left, or refused some for good,
\* which is a publish that failed like any other.
ClosePublisher(s) ==
    /\ At(s, "closing")
    /\ GoTo(s, "closed")
    /\ \E refused \in SUBSET SentBy(s) :
        /\ topic' = topic \cup (SentBy(s) \ refused)
        /\ IF refused = {} THEN UNCHANGED faults
           ELSE /\ faults.publish < MaxPublishFaults
                /\ faults' = [faults EXCEPT !.publish = @ + 1]
    /\ inFlight' = inFlight \ SentBy(s)
    /\ UNCHANGED <<queueVars, tickVars, loop, ctxDone, acked, issued, tickets>>

\* The process is gone: the goroutines stop where they are.  A script that is
\* on its way to Redis may still run, and nobody reads its reply.
Vanish(s) ==
    /\ \/ UNCHANGED <<queueVars, tickets>>
       \/ /\ tick[s].step = "popping"
          /\ \E a, b \in queue :
                popPairLua(a, b) /\ tickets' = Ended(tickets, {a, b}, "unread")
       \/ /\ tick[s].step \in {"reenqueueing", "final"}
          /\ WriteBack(s) /\ tickets' = Overwritten(s)
    /\ UNCHANGED <<tickVars, loop, ctxDone, topic, acked, issued, faults>>

\* redisClient.Close and cancel, and main returns.
Exit(s) ==
    /\ At(s, "closed")
    /\ GoTo(s, "exited")
    /\ Vanish(s) /\ UNCHANGED inFlight

\* SIGKILL, a panic or the loss of the node.  Of the messages the client holds,
\* some are already on their way.
Kill(s) ==
    /\ proc[s].stage \in Running
    /\ Cardinality({q \in Servers : At(q, "killed")}) < MaxCrashes
    /\ GoTo(s, "killed")
    /\ Vanish(s)
    /\ \E kept \in SUBSET SentBy(s) : inFlight' = (inFlight \ SentBy(s)) \cup kept
-----------------------------------------------------------------------------
\* The goroutine of run.
Main(s) ==
    \/ LoadConfig(s) \/ newRedisClient(s) \/ Ping(s) \/ NewPublisher(s)
    \/ NewMatcher(s) \/ ParsePublicKey(s)
    \/ AwaitSignal(s) \/ HttpShutdown(s) \/ AwaitMatcher(s)
    \/ ClosePublisher(s) \/ Exit(s)

\* The steps of Matcher other than Enqueue and Cancel, on processes that are
\* there.  A closed client refuses a message: it stays where it is, undelivered,
\* and its publish fails.
Tick(s) ==
    /\ proc[s].stage \in Running
    /\ TickStep(s)
    /\ proc' = [proc EXCEPT ![s].sent = @ \cup (issued + 1)..issued']

\* Bound: no tick starts after SIGTERM.  Its pop would fail with the cancelled
\* context, and it would hold nobody.
Loop(s) ==
    /\ proc[s].stage \in Running
    /\ RunStep(s) /\ ~(ctxDone[s] /\ tick'[s].step = "starting")
    /\ UNCHANGED proc

Notify(s) ==
    /\ \/ /\ proc[s].stage \in Starting \cup Running /\ tick[s].step # "starting"
          /\ Shutdown(s)
       \/ proc[s].stage \in Running /\ TickerFires(s)
    /\ UNCHANGED proc

Environment ==
    /\ \/ Elapse
       \/ \E m \in inFlight :
            /\ \A s \in Servers : m.matchID \in proc[s].sent => proc[s].stage \notin {"closed", "exited"}
            /\ Deliver(m)
    /\ UNCHANGED proc

ServerNext ==
    \/ Environment
    \/ \E s \in Servers :
        \/ Main(s) \/ ListenFails(s) \/ Kill(s) \/ StartRequest(s) \/ EndRequest(s)
        \/ Notify(s) \/ Loop(s) \/ Tick(s)

(* Fairness.  run and the goroutines of the matcher go on, and the timers   *)
(* they wait for fire; nothing makes a handler return, or SIGTERM arrive.   *)
ServerFairness ==
    \A s \in Servers :
        /\ WF_serverVars(Main(s))
        /\ WF_serverVars(Loop(s))

ServerSpec == ServerInit /\ [][ServerNext]_serverVars /\ ServerFairness
-----------------------------------------------------------------------------
(* Processes have their type. *)
ProcessOK ==
    \A s \in Servers :
        /\ proc[s].stage \in {"off"} \cup Starting \cup Running \cup Over
        /\ proc[s].err \in {"none", "off", "auth", "serving", "shutdown"} \cup Starting
        /\ proc[s].isHandling => proc[s].stage \in (Running \ {"auth", "waiting"}) \cup Over
        /\ proc[s].sent \subseteq 1..issued

(* A configuration FromEnv accepts is one the process can run with: the     *)
(* conversion of seconds to time.Duration does not overflow, so the matcher *)
(* gets whole seconds and matcher.New never refuses them.                   *)
AcceptedConfigStarts ==
    \A s \in Servers :
        /\ proc[s].cfg.CircuitCooldown % Second = 0 /\ proc[s].cfg.DrainTimeout % Second = 0
        /\ proc[s].err # "matcher"

(* When run returns nil, it closes the clients after the last handler is    *)
(* done and after the last tick, unless the drain timed out.                *)
ClosedLast ==
    \A s \in Servers :
        proc[s].stage \in {"closing", "closed", "exited"} /\ proc[s].err = "none" =>
            /\ ~proc[s].isHandling
            /\ tick[s].step = "idle" \/ loop[s].phase = "forced"

\* The process did not end the way run ends it after SIGTERM: it was killed,
\* run returned an error, or the drain timed out.
IsHurried(s) == At(s, "killed") \/ proc[s].err # "none" \/ loop[s].phase = "forced"

(* The end of a process takes nobody out of the queue unnoticed: a player   *)
(* whose wait nothing ended is in the queue, in a delivered match or held   *)
(* by the tick of a process that is there - or was in the one pair that a   *)
(* process which ended in a hurry held.  Nor is a pop left behind that      *)
(* nobody reads, unless a process ended in a hurry or Redis failed.         *)
NobodyVanishes ==
    \A t \in DOMAIN tickets :
        /\ tickets[t].fate = "open" =>
            \/ t \in TicketsOf(queue \cup EntriesOf(topic))
            \/ \E s \in Servers : /\ t \in TicketsOf(PairOf(s))
                                  /\ proc[s].stage \in Over => IsHurried(s)
        /\ tickets[t].fate = "unread" =>
            \/ faults.redis > 0
            \/ \E s \in Servers : proc[s].stage \in Over /\ IsHurried(s)

(* After SIGTERM a process ends, also when a handler never returns and      *)
(* when a tick does not: every wait of run and of Run has a time limit.     *)
SigtermEnds == \A s \in Servers : ctxDone[s] ~> proc[s].stage \in Over

(* docs/DATA_DESIGN.md on the pair of a graceful shutdown: one final        *)
(* re-enqueue with 2 seconds of its own, and only its failure leaves the    *)
(* LOST log.  So a process whose run returned nil after its tick had come   *)
(* to the final re-enqueue leaves the pair written back, or logged, unless  *)
(* its message reached the topic.                                           *)
ShutdownWritesBack ==
    \A s \in Servers :
        At(s, "exited") /\ proc[s].err = "none" /\ tick[s].step = "final" =>
            \A h \in PairOf(s) :
                \/ tickets[h.ticket].fate # "open"
                \/ h.ticket \in TicketsOf(queue \cup EntriesOf(topic))
=============================================================================
