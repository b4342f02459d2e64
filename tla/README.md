# Formal model of overload-party-matchmaking

TLA+ specifications of the matchmaking service, the TLC runs that check them on
small instances, and TLAPS proofs for every value of the constants. Paths
starting with `src/` are files of the repository.

## 1. The system

The service keeps players who look for a match in a Redis sorted set, pairs the
two who have waited longest once per second, and publishes a `match_made` event
for each pair. Several instances may run at once (deployments overlap); they
share nothing but Redis and the Pub/Sub topic.

| Component | Source | State | Operations | Interacts with |
|---|---|---|---|---|
| Redis queue | `internal/adapter/redisqueue`, `lua/*.lua` | sorted set `matchmaking:queue`, key `matchmaking:gateway_instance_id` | `enqueue`, `pop_pair`, `cancel`, `reenqueue` (atomic scripts), `Size` | called by handlers and matcher; keys may be evicted by Upstash |
| Circuit breaker | `internal/usecase/matcher/circuit.go` | two failure counters, `isOpen`, `openedAt`, `hasLoggedSkip` | `allowTick`, `record*`, `isCircuitOpen` | tick (writes), health handler (reads) |
| Matcher | `internal/usecase/matcher/matcher.go` | locals of `Run` and of `tick` | ticker, drain, tick, retrying re-enqueue | queue, publisher, breaker, context of `main` |
| Publisher | `internal/adapter/pubsub`, `presenter`, `matchid` | messages the Pub/Sub client holds | `Publish` (5 s limit), `Close` | matcher, topic |
| HTTP handlers | `internal/adapter/httphandler`, `usecase/abandon` | none | enqueue, cancel, match-abandoned, queue-size, health | queue, breaker |
| Server | `cmd/server/main.go` | goroutines, signal context | start, SIGTERM, shutdown order | everything |
| Config, secrets | `internal/config`, `secretmanager` | none | `FromEnv`, `AccessLatest` | server start |
| API client | `packages/api-matchmaking` | none | one method per operation | gateway, handlers |
| Test clock | `usecase/matcher/matchertest` | time, timers, tickers, a change channel | `After`, `NewTicker`, `Advance`, waits | the matcher's tests |

What is hard about it:

* **Interleavings.** Between the pop of a pair and its write-back the players
  may cancel or rejoin, another gateway process may take over the queue, and
  another instance may pop.
* **Failures in the middle.** A Redis call can fail after its script ran; a
  publish can fail although the event is, or later will be, delivered.
* **Shutdown.** SIGTERM may arrive in any step of a tick; the pair a tick holds
  has to reach the queue again through a context that is already cancelled.
* **Goroutines.** `Run` and its tick communicate through a ticker, a buffered
  channel and a wait group; `select` picks any ready case.
* **Clients that give up.** A gateway that got no answer does not know whether
  its request was, or will be, handled.
* **Texts.** A member of the sorted set is one string of four fields, which the
  scripts search for a player id.
* **Caches.** `isOpen` caches two counters; the identifier read at pop time is
  used at write-back time.

What makes it correct, per component:

* queue: one entry per player; entries of different gateway processes never mix;
  pops go by time of joining.
* breaker: open exactly while a counter is at the threshold; a failed trial
  restarts the cooldown; an open circuit is eventually tried again.
* matcher: one tick at a time; a player disappears without a trace only in a pop
  whose reply was lost; a pair is given up only in an outage; a confirmed pair is
  not matched again; waiting players are eventually paired; the drain of a
  shutdown completes by itself, with its pair settled, unless its limit is first.
* publisher: an event is delivered once (the documentation says so; see the
  findings).
* handlers and client: what the client returns is true of the queue; a cancelled
  player stays out; an abandoned pair does not come back.
* server: an accepted configuration starts; the clients are closed after the last
  handler and the last tick; SIGTERM ends the process; the end of a process loses
  at most the pair of a hurried one; the final re-enqueue of a shutdown is made
  or logged (the documentation says so; see the findings).
* test clock: nothing due is passed by, no wakeup is lost, the cleanup ends.

The full list of hazards, with source lines and the properties that cover them,
is in `PROJECT.json`.

## 2. Modules

| Module | Models |
|---|---|
| `CircuitBreaker` | `circuit.go`: each method as an operator from breaker to breaker; `BreakerInv` |
| `Circuit` | abstract specification: what the breaker promises, in terms of the outcomes of pops and publishes, without its flag and timestamps |
| `RedisQueue` | the two Redis keys and the Lua scripts, each one atomic step |
| `Matcher` | `Run`, `tick`, `reenqueueWithRetry`, `bestEffortReenqueue` and `Publish` on every server, with the other users of the queue and the faults of Redis and Pub/Sub; `EXTENDS` the two component modules |
| `MatcherProperties` | the properties of the composition and its refinement mapping to `Circuit` |
| `Member` | the sorted set as Redis keeps it, with members that are texts; each operation is shown to do what `RedisQueue` says (`INSTANCE RedisQueue`) |
| `ApiClient` | the generated client and `apimatchmakingclient`: URLs, statuses, error values |
| `Requests` | the handlers and `abandon`, called through `ApiClient`, composed with `Matcher` |
| `Server` | `run` of `main.go` and `internal/config` around `Matcher`: start, shutdown, kill |
| `TestClock` | `matchertest/clock.go` and the cleanup of `StartRun` |
| `MCMatcher`, `MCMember`, `MCRequests`, `MCServer` | instances for TLC |
| `CircuitBreakerProofs`, `MatcherProofs`, `LedgerProofs`, `RequestsProofs`, `ServerProofs`, `TestClockProofs`, `MemberProofs` | theorems and proofs |

### State and actions against the code

* `queue` is a set of entries `[player, joinedAt, ticket]`. `joinedAt` is the
  score. `ticket` numbers the enqueue call and stands for the deck, level and
  name the member carries. Redis orders equal scores by member text; players are
  numbers in that order (at most one member per player, so the order of two
  members is the order of their players).
* `instanceID` is the gateway identifier or `NoGateway` (key absent, `''`).
* `tick[s]` is the tick goroutine of server `s`: `starting` (before
  `allowTick`), `popping`, `publishing`, `reenqueueing` (an attempt is under
  way), `backoff`, `final` (`bestEffortReenqueue`), with the locals pair,
  gateway identifier, match id and attempt. The match id is generated and the
  message handed to the Pub/Sub client in the step that receives the pair:
  nothing between them can be observed or fail.
* `loop[s]` is the goroutine of `Run`: `select`, `draining`, `drained` (wait
  group empty) or `forced` (drain timeout), the pending ticker notification,
  `tickRunning`, and the content of the channel `tickDone`.
* `breaker[s]` holds `now.Sub(openedAt)` saturated at the cooldown instead of
  `openedAt`; it is read only while the breaker is open, and advances only then.
* `inFlight` and `topic` are the messages the client still sends and those the
  topic accepted; `acked` the match ids whose `Publish` returned nil.
* `tickets` is history only: each enqueue call and what ended its wait. `faults`
  counts the faults for the bounds.

In the modules around `Matcher`:

* `Member`: `members` is the set of texts with their scores; `held` what
  `PopPair` decoded, until the tick is done with it. Numbers have one digit and
  base64 is scaled down to two letters for a byte; both keep what matters, that
  they are injective and contain no colon. A text that cannot be decoded makes
  `PopPair` lose both members, as in the code.
* `Requests`: `calls[c]` follows one call of a gateway from the request (`sent`)
  through its handler (`script`: about to run a script) and its answer
  (`answered`) to what the client method returns (`returned`). Every handler is
  split where it waits for Redis; `Abandon` runs one script per turn of its loop.
  Each script may fail before or after it ran, which also stands for a context
  the client cancelled. A body is chosen among valid ones and ones wrong in any
  of their fields. `effect` and `raced` are history for the properties.
* `Server`: `proc[s].stage` is the next statement of `run`, `err` the statement
  whose error `run` returns, `isHandling` a handler under way, `sent` the match
  ids its Pub/Sub client was given. Errors before the matcher starts end the
  process; later ones go through the deferred calls while the matcher is still
  running. In the stage `closing` the client flushes what it holds while the tick
  may go on; `ClosePublisher` is the end of that, and what the topic refuses then
  counts as a failed publish. A closed client refuses messages. `Kill` and `Exit`
  stop the goroutines where they are, and a script on its way to Redis may still
  run. Every server of `Matcher` is one process: a restart is another server.
* `TestClock`: times are kept as what is left of them; `toGo` is what is left of
  the `Advance` that holds the mutex, which fires one timer or ticker per step.
  A waiter is `checking` under the mutex, `blocked` on the current change
  channel, or `released` by a change.

A failing Redis call either did nothing or ran its script and lost the reply
(`PopFails`, `ReenqueueFails`, `LosePair`). After SIGTERM a call made with the
context of `Run` may also fail without reaching Redis (`CtxFault`), while a call
already on its way may still succeed. A failing publish removed the message for
good, or left it where it is: undelivered but still being sent, or delivered
without an answer. Scores of enqueues are arbitrary clock values, since the
clock is read before the script runs and on several machines.

Not reachable, and therefore without action: the failure of `ToMatchMadeWire`
(marshalling strings and integers), a pop of one or of more than two entries,
and, in `Matcher`, decode errors (`MembersDecode` of `Member`: every member was
written by `encodeMember` and can be taken apart).

The operators whose comment begins with "Mutant of" are deliberately wrong
variants, one for each property; they are not part of the specification and show
that the property notices the mistake they describe.

## 3. Runs

Deadlock is not checked: once every server has been stopped and the bounds are
used up nothing happens any more, as in the system.

| Run | Configuration | Checks |
|---|---|---|
| `retries` | 1 server with SIGTERM, 2 players, 3 joins, 2 attempts, 2 Redis faults, 1 publish fault | `TypeOK`, `OneEntryPerPlayer`, `OneTickAtATime`, `NoSilentLoss`, `LossNeedsOutage`, `MatchedOnce` |
| `gateways` | 2 gateways, 3 players, 3 joins, 3 clock values, 1 eviction, 1 publish fault | `SameGateway`, `PopsEarliest` |
| `overlap` | 2 servers (one stopping), 3 joins, 1 publish fault | `OneHolder`, `MatchedOnce` |
| `liveness` | 1 server, 2 joins, threshold 2, 1 Redis and 2 publish faults, SIGTERM, with fairness | `CircuitOpenIffOverThreshold`, `RefinesCircuit`, `EveryonePaired`, `OpenCircuitIsRetried`, `ShutdownSettles` |
| `member` | ids that begin one another or contain colons, a name with a colon, 2 clock values, evictions | `MembersOK`, `MembersDecode`, `ScriptsAgree` |
| `requests` | 3 concurrent calls, 3 base URLs, 2 players, 1 publish fault | `CallsOK`, `ResultsAreTrue`, `CancelledStaysOut`, `AbandonedSettledPairStaysOut` |
| `server` | 1 process, environments at every bound, 1 kill, 1 publish fault, with fairness | `ProcessOK`, `AcceptedConfigStarts`, `ClosedLast`, `NobodyVanishes`, `SigtermEnds` |
| `testclock` | 2 sleepers, 1 waiter, 1 ticker, durations 1 and 2, with fairness | `ClockOK`, `NothingOverdue`, `NoLostWakeup`, `CleanupEnds` |
| `exactly_once` | 1 publish fault | `DeliveredOnce`: **violated** |
| `evictions` | 2 gateways, 2 evictions | `PairSameGateway`: **violated** |
| `abandoned` | as `requests` | `AbandonedPairStaysOut`: **violated** |
| `final_attempt` | 1 process, no failing call, no kill | `ShutdownWritesBack`: **violated** |

Why the bounds are enough: three joins of two players let a player rejoin while
his earlier entry is held; as many Redis faults as attempts exhaust the retries;
a third player and further clock values let somebody overtake or be overtaken;
one eviction opens the window the scripts close, two the one they do not; two
failed publishes open a breaker with threshold two, and the trial that follows
fails when SIGTERM cancels its publish (trials that fail otherwise are covered by
the theorem `BreakerImplementsCircuit`). The ticker does not fire again
after SIGTERM (a notification already pending may still start a last tick).

In `requests` three calls are an enqueue of each player of a pair and a call
about them, or two calls that race; the three base URLs are the service's own,
the same with a trailing slash, and one that lacks its path. In `server` an
environment differs from a complete one in at most one variable, and `MaxInt` and
`Second` are scaled to 127 and 10, so that products of seconds wrap to negative
and to positive durations. A process handles one request at a time; no tick starts
after SIGTERM, and SIGTERM does not come between the start of a tick and its pop
(either pop would fail with the cancelled context and the tick would hold nobody).
In `member` one pair is held at a time and one gateway identifier is enough, since
the key may be evicted and written again. In `testclock` `Hour` is longer than
every wait, as in `StartRun`.

**Fairness** (`Fairness` in `Matcher`): the goroutines run; the ticker fires;
the clock advances; `select` chooses uniformly among ready cases, so neither
`startTick`/`tickDone` nor `ctx.Done` starves; the Pub/Sub client sends what it
holds. A tick is fair only while `Run` waits for it: after a forced drain `run`
returns and ends the process, so nothing makes that tick go on. Nor is anything
assumed of the time limit of the drain, which may fire early or not at all;
`ShutdownSettles` therefore says that the drain completes by itself unless the
limit fires first, and nothing of the pair if it does (finding 4). Nothing is
assumed about players, gateways, SIGTERM or faults except that faults are finitely
many, which is what "eventually paired" needs.
`ServerFairness` of `Server` makes `run` and `Run` go on and the timers they wait
for fire; nothing makes a handler or a tick return, or SIGTERM arrive, so that
`SigtermEnds` rests on the time limits alone. `ClockFairness` makes the goroutines of
a test run and gives each of them the mutex eventually; the five seconds after
which `StartRun` gives up are taken to be enough.

**What holds only under a bound.** `NoSilentLoss` does not say that no player is
lost silently. When the reply of a pop is lost, `tick` logs a failed pop and
returns; the script has removed two players whom nobody knows (fate `unread`).
`src/docs/DATA_DESIGN.md:159` says the queue continues unchanged after a failure
of Redis, which is not so for them. The property bounds this: every other ticket
is accounted for, and each failed Redis call takes at most one pair. `Server`
adds to it the pop that a process leaves behind when it ends (`NobodyVanishes`:
only when it ends in a hurry). `SameGateway` needs at most one eviction
(finding 2). `OneHolder`, and `MatchedOnce` with two servers, need Redis to
answer: if a reply to `reenqueue.lua` is lost, another instance can pop and
publish the pair before the retry writes it back. With one server `MatchedOnce`
holds with lost replies too (run `retries`). `CancelledStaysOut` needs Redis to
answer the ticks: if the reply to `reenqueue.lua` is lost, the player cancels and
the retry writes him back. `AbandonedSettledPairStaysOut` leaves out reports that
arrive while a tick holds the pair (finding 3). `NobodyVanishes` allows the one
pair of a process that was killed, returned an error or timed out in its drain.

### Findings

1. `exactly_once`: a publish that times out or is cancelled may be delivered all
   the same; the pair is written back, popped again and published under another
   match id, so that the consumer's deduplication by match id does not see it.
   The documentation states exactly-once delivery.
2. `evictions`: when the identifier key is evicted both before a pop and again
   after another gateway process registered, `reenqueue.lua` takes the two absent
   values for an unchanged process and mixes the pair into the new queue. The
   documentation says a registration in between always leads to a mismatch.
3. `abandoned`: the event of a publish without an answer is delivered and the
   match reported abandoned while the tick still holds the pair. Both cancels
   find nobody, 204 is answered, and the write-back returns the pair to the
   queue. The contract says an abandoned pair is not returned.
4. `final_attempt`: no call fails, Redis is merely slow. SIGTERM finds a pop on
   its way, the drain times out, `Run` returns and the publisher is closed; then
   the pop answers, the closed client refuses the message, and the process exits
   while the tick is at its final re-enqueue. The pair is in no queue and no
   message and no log names it. (With a failing publish the same happens to a pair
   popped earlier: the final re-enqueue may take 2 s, the drain timeout may be
   1 s.) The documentation says of a pair in a graceful shutdown that there is a
   final re-enqueue and that only its failure is logged as lost, and of a restart
   that nothing is lost.

## 4. Proofs

Seven modules hold the proofs. Every theorem is for all values of the constants
that satisfy the assumptions named in the modules, so without a bound on servers,
players, calls, attempts, faults, timers or the length of ids and names:

| Assumption | Says | Justified by |
|---|---|---|
| `BreakerAssumption` | threshold and cooldown are positive | `Options.validate` |
| `QueueAssumption`, `MatcherAssumption` | players are ordered like numbers, the empty identifier is no gateway, at least one attempt | order of a sorted set, the check in `Enqueue`, `reenqueueMaxAttempts` |
| `ServerAssumption` | a second fits into an integer | `time.Second` |
| `RequestsAssumption` | the refused ids are not valid ones; the path under which the service is reached has no trailing slash | the handlers' checks; the routes begin with the slash that `NewClient` adds |
| `TestClockAssumption` | durations are positive and shorter than the hour of the cleanup | `matchertest` |
| `MemberAssumption` | ids and names are byte strings, finitely many ids, scores are naturals, deck and level have one digit | `redis_queue.go`; one digit is the scaling of section 2 |

### The breaker and the matcher: `CircuitBreakerProofs`, `MatcherProofs`

| Theorem | Statement | Argument |
|---|---|---|
| `TypeCorrect` | `Spec => []TypeOK` | `TypeInv` strengthens `TypeOK` with: a tick past its pop has a pair, a tick in backoff has an attempt left, and every breaker satisfies `BreakerInv` (kept by each method, `CircuitBreakerProofs`). The first is needed because a write-back puts the pair into the queue, the second because the backoff increments the attempt |
| `CircuitAgrees` | `Spec => []CircuitOpenIffOverThreshold` | part of `TypeInv` |
| `NobodyWaitsTwice` | `Spec => []OneEntryPerPlayer` | inductive by itself: `Put` keeps it, everything else only removes |
| `TicksDoNotOverlap` | `Spec => []OneTickAtATime` | inductive together with `TypeInv`; every step of a tick goes on or ends (`TickStepShape`) |
| `BreakerImplementsCircuit` | `Spec => RefinesCircuit` | step simulation; `isOpen` is replaced by the counters with `BreakerInv`, and `startTick` is invisible because of `OneTickAtATime` |

### Where players are: `LedgerProofs`

All of these rest on `Base`, the invariants above with `HoldInv` (a tick that holds
nobody has cleared its locals, one that holds a pair holds two different players),
and on a list of what a step may do to the queue, the pairs held and the messages
(`Moves`).

| Theorem | Statement | Argument |
|---|---|---|
| `NobodyIsForgotten` | `Spec => []NoSilentLoss` | the tickets nothing ended: inductive as `NothingForgotten`, which does not count the messages the client still sends (a tick holds the pair of such a message, and a failed publish may drop it). The silent losses: only a pop whose reply was lost adds to them, two tickets for one more failed call (`UnreadBounded`, by cardinalities of finite sets) |
| `FirstComeFirstServed` | `Spec => PopsEarliest` | an action property: `EntriesTrue` (an entry says of its ticket what the enqueue call said) turns the scores that the pop compares into times of joining, which a write-back must have kept |
| `HeldByOne` | `Spec => [](faults.redis = 0 => OneHolder)` | inductive as "every tick is `Alone`"; needs that no other step creates an entry of a ticket in somebody's hands |
| `ConfirmedOnce` | `Spec => [](NoOverlap => MatchedOnce)` | `IdInv`: match ids identify messages, and the id a tick holds is unconfirmed. `MatchInv`: a confirmed message is spent, i.e. none of its tickets is waiting or held, and a publishing tick is `Alone`. `NoOverlap` says no Redis call failed or there is one server |
| `GatewaysDoNotMix` | `Spec => [](faults.evictions <= 1 => SameGateway)` | `GatewayInv`: where an identifier is known, in the key or in a tick, it is the one of all entries beside it; before the first eviction it is always known; after one, what is unknown still has a single gateway |
| `LossMeansOutage` | `Spec => []LossNeedsOutage` | `RetryInv` counts: attempt `n` is made after `n - 1` failed Redis calls, and the final one only after SIGTERM |

The hypotheses are necessary; see "What holds only under a bound" in section 3.
They are conditions on history (what has failed so far), and the runs reach states
on both sides of them.

### Around the matcher

| Theorem | Statement | Argument |
|---|---|---|
| `RequestsImplementMatcher` | `RequestsSpec => Spec` | every step of a call is one of the queue operations of `Matcher` or leaves its variables alone, so that the theorems about `Spec` hold of the service with its HTTP side |
| `CallsWellTyped` | `RequestsSpec => []CallsOK` | part of `CallInv`, which keeps the statuses of each handler apart and the router's 404 to base URLs that are wrong |
| `ClientResultsTrue` | `RequestsSpec => ResultsAreTrue` | an action property from `CallInv`: what stage, status, effect and failures of a call have to do with one another |
| `AbandonedStaysOut` | `RequestsSpec => []AbandonedSettledPairStaysOut` | `CallInv` says it of a prefix: the players cancelled so far are `Away`, and what is `Away` (neither waiting nor held) stays so (`Onward`) |
| `CancelledIsOver` | `RequestsSpec => [](faults.redis = 0 => CancelledStaysOut)` | a script cancels a waiting ticket only, which by `HeldByOne` nobody holds, so it is `Away` afterwards |
| `ProcessesWellTyped` | `ServerSpec => []ProcessOK` | part of `ProcInv` |
| `ConfigAcceptedStarts` | `ServerSpec => []AcceptedConfigStarts` | for any width of integers: the bounds of `FromEnv` leave no room for a product to wrap, so the durations are positive |
| `ClientsCloseLast` | `ServerSpec => []ClosedLast` | `Sound` ties a process to the phase of its `Run`: with no error, the clients are closed only after the handlers ended and `Run` returned; the rest is `OneTickAtATime` |
| `EndsTakeNobody` | `ServerSpec => []NobodyVanishes` | `Spec` is not implemented by `ServerSpec` (a process that ends drops what its client holds), so `Base` and `NothingForgotten` are shown for the steps of `Server` as well, without counting messages that are not delivered yet; that a process which ended without an error and after a complete drain holds no pair is `Sound` with `OneTickAtATime`, and so is that it leaves no pop behind (`UnreadExplained`, with `OverStays`: how a process ended does not change any more) |
| `SleepersAreAttended` | `ClockSpec => []ClockOK` | `ClockInv`; a sleeper has a timer to come or a notification |
| `AdvanceIsComplete` | `ClockSpec => []NothingOverdue` | `OnTime`: nothing is due while the mutex is free. `Advance` moves by the least time left, which exists (`LeastNumber`, from the well-foundedness of the naturals) |
| `WakeupsReachWaiters` | `ClockSpec => []NoLostWakeup` | inductive with the types: each change releases who is blocked, and a waiter checks under the mutex |
| `MembersWellFormed` | `MemberSpec => []MembersOK` | `MemberInv`: every member and every member of the pair held is what the code writes for an entry it accepts, one for a player. `MembersOK` alone is not inductive: whether `removePlayerEntries` finds a player depends on his text |
| `MembersAreDecoded` | `MemberSpec => []MembersDecode` | where the colons of a written text are (the id has none, digits and base64 have none), so that `decodeMember` finds four fields, and `DecodeString` undoes `EncodeToString` |
| `TextsImplementQueue` | `MemberSpec => ScriptsAgree` | an action property from `MemberInv`: the first field is the id; the order of texts is strict, transitive and total, two written texts of different players differ before the end of `id:`, so that it is the order of the ranks of their players (by cardinalities of finite sets) |

### Only model-checked

The liveness properties `EveryonePaired`, `OpenCircuitIsRetried`,
`ShutdownSettles`, `SigtermEnds` and `CleanupEnds`: they rest on fairness, which
is out of the prover's reach. The properties of the four violation runs are
refuted, not proved. Every other property of a run is a theorem.

## 5. Plan

1. An abstract specification of the life of a ticket (waiting, held, matched,
   ended), implemented by `Matcher`, with the refinement proved.
2. The composition of `Requests` with `Server`: handlers that are under way when
   `Shutdown` gives up.

## 6. Not modelled

* Logging (`newLogger`, the log handlers, the wording of errors and problems).
* What secrets and tokens contain: a secret is read or not, a token accepted or
  refused.
* Request editors and the choice of an HTTP client in the generated API package,
  and its event types: plain data without control.
* `WaitForTicksConsumed`, `WaitUntilQuiet` and `Gate` of the test package, the
  recording doubles and the start of emulators: no logic of the service.
* The durations of backoff and timeouts: any order of timers is allowed, which
  covers all durations.
