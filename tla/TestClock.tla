----------------------------- MODULE TestClock -----------------------------
(***************************************************************************)
(* The clock the tests of the matcher run on: matchertest/clock.go, with   *)
(* StartRun of matchertest/run.go.  Time passes only in Advance, which     *)
(* holds the mutex while it fires what is due, one notification at a time; *)
(* receivers read their channels meanwhile, without the mutex.  The other  *)
(* operations are one step each, possible while the mutex is free.         *)
(*                                                                         *)
(* Times are counted from the clock's present, so time itself is no        *)
(* variable: a timer has left until it is due.                             *)
(***************************************************************************)
EXTENDS Integers, FiniteSets, SequencesExt

CONSTANTS
    Sleepers,    \* goroutines under test, which wait with After
    Waiters,     \* calls of WaitForTimers and WaitForTickers in a test
    Durations,   \* arguments of After, NewTicker and of a test's Advance
    Hour,        \* shutdownClockAdvance, longer than every duration
    MaxSleeps,   \* bound on the After calls of a sleeper
    MaxTickers   \* bound on the tickers

ASSUME TestClockAssumption ==
    /\ Durations \subseteq Nat \ {0} /\ Hour \in Nat /\ \A d \in Durations : d < Hour
    /\ {MaxSleeps, MaxTickers} \subseteq Nat

VARIABLES
    timers,   \* Clock.timers: the time left, and who reads the channel
    tickers,  \* Clock.tickers; unread: the channel holds a notification
    toGo,     \* what is left of the Advance that holds the mutex, or Free
    sleepers, \* per sleeper: its state, its After calls, its channel
    waiters,  \* per waiter: what it waits for, and where it is
    test      \* the goroutine of the test

clockVars == <<timers, tickers, toGo, sleepers, waiters, test>>

Free == -1

IsUnlocked == toGo = Free

NewWaiter == [state |-> "new", kind |-> "none", n |-> 0]

NewClock ==
    /\ timers = <<>> /\ tickers = <<>> /\ toGo = Free
    /\ sleepers = [g \in Sleepers |-> [state |-> "awake", calls |-> 0, rang |-> FALSE]]
    /\ waiters = [w \in Waiters |-> NewWaiter]
    /\ test = "testing"
-----------------------------------------------------------------------------
(* Operations under the mutex *)

\* close(c.changed): whoever holds that channel is released.
notifyChanged ==
    waiters' = [w \in Waiters |->
        IF waiters[w].state = "blocked" THEN [waiters[w] EXCEPT !.state = "released"] ELSE waiters[w]]

\* Mutant of After: it does not notify.
AfterQuietly(g, d) ==
    /\ IsUnlocked
    /\ timers' = Append(timers, [of |-> {g}, left |-> d])
    /\ UNCHANGED <<tickers, toGo, waiters, test>>

After(g, d) ==
    /\ IsUnlocked
    /\ timers' = Append(timers, [of |-> {g}, left |-> d])
    /\ notifyChanged
    /\ UNCHANGED <<tickers, toGo, test>>

NewTicker(d) ==
    /\ IsUnlocked /\ Len(tickers) < MaxTickers
    /\ tickers' = Append(tickers, [interval |-> d, left |-> d, isActive |-> TRUE, unread |-> FALSE])
    /\ notifyChanged
    /\ UNCHANGED <<timers, toGo, sleepers, test>>

Stop(i) ==
    /\ IsUnlocked /\ tickers[i].isActive
    /\ tickers' = [tickers EXCEPT ![i].isActive = FALSE]
    /\ notifyChanged
    /\ UNCHANGED <<timers, toGo, sleepers, test>>

Advance(d) ==
    /\ IsUnlocked
    /\ toGo' = d
    /\ UNCHANGED <<timers, tickers, sleepers, waiters, test>>
-----------------------------------------------------------------------------
(* The loop of Advance *)

DueTimers == {i \in DOMAIN timers : timers[i].left <= toGo}
DueTickers == {i \in DOMAIN tickers : tickers[i].isActive /\ tickers[i].left <= toGo}

\* Mutant of earliestDue: the list of what is due is not sorted.
earliestDueUnsorted ==
    {timers[i].left : i \in DueTimers} \cup {tickers[i].left : i \in DueTickers}

\* The times of the notifications Advance may make next: at most one.
earliestDue ==
    LET dues == {timers[i].left : i \in DueTimers} \cup {tickers[i].left : i \in DueTickers}
    IN  {d \in dues : \A other \in dues : d <= other}

\* Timers and tickers when d has passed; a stopped ticker is never due again.
Older(ts, d) == [i \in DOMAIN ts |-> [ts[i] EXCEPT !.left = @ - d]]

OlderTickers(ts, d) ==
    [i \in DOMAIN ts |-> IF ts[i].isActive THEN [ts[i] EXCEPT !.left = @ - d] ELSE ts[i]]

\* Who reads the channel of the timer is notified.
Ring(t) == sleepers' = [g \in Sleepers |->
    IF g \in t.of THEN [sleepers[g] EXCEPT !.rang = TRUE] ELSE sleepers[g]]

\* Mutant of fireTimer: timers are told apart by their time.
fireTimerByTime(i, d) ==
    /\ Ring(timers[i])
    /\ timers' = Older(SelectSeq(timers, LAMBDA t : t.left # timers[i].left), d)
    /\ tickers' = OlderTickers(tickers, d)

fireTimer(i, d) ==
    /\ Ring(timers[i])
    /\ timers' = Older(RemoveAt(timers, i), d)
    /\ tickers' = OlderTickers(tickers, d)

\* A ticker's channel has room for one notification; another one is dropped.
fireTicker(i, d) ==
    /\ tickers' = OlderTickers([tickers EXCEPT ![i].unread = TRUE, ![i].left = @ + tickers[i].interval], d)
    /\ timers' = Older(timers, d)
    /\ UNCHANGED sleepers

\* One turn of the loop.  Of timers and tickers due together the timers come
\* first, each in the order of their creation.
Fire ==
    /\ ~IsUnlocked
    /\ \E d \in earliestDue :
        /\ \/ \E i \in DueTimers :
                /\ timers[i].left = d /\ \A j \in 1..(i - 1) : timers[j].left # d
                /\ fireTimer(i, d)
           \/ \E i \in DueTickers :
                /\ tickers[i].left = d
                /\ \A j \in DueTimers : timers[j].left # d
                /\ \A j \in DueTickers : j < i => tickers[j].left # d
                /\ fireTicker(i, d)
        /\ toGo' = toGo - d
    /\ UNCHANGED <<waiters, test>>

\* Nothing is due any more: the clock reaches the target.
EndAdvance ==
    /\ ~IsUnlocked /\ earliestDue = {}
    /\ timers' = Older(timers, toGo) /\ tickers' = OlderTickers(tickers, toGo)
    /\ toGo' = Free
    /\ UNCHANGED <<sleepers, waiters, test>>
-----------------------------------------------------------------------------
(* Goroutines under test: After and a select over its channel and another    *)
(* event, as often as they like; they stop after the shutdown.              *)

Sleep(g) ==
    /\ sleepers[g].state = "awake" /\ sleepers[g].calls < MaxSleeps
    /\ sleepers' = [sleepers EXCEPT ![g] = [state |-> "asleep", calls |-> @.calls + 1, rang |-> FALSE]]
    /\ \E d \in Durations : After(g, d)

Awake(g) ==
    /\ sleepers[g].state = "asleep" /\ sleepers[g].rang
    /\ sleepers' = [sleepers EXCEPT ![g].state = "awake", ![g].rang = FALSE]
    /\ UNCHANGED <<timers, tickers, toGo, waiters, test>>

\* The other case of the select: nobody reads the channel of the timer.
Interrupt(g) ==
    /\ sleepers[g].state = "asleep"
    /\ sleepers' = [sleepers EXCEPT ![g].state = "awake", ![g].rang = FALSE]
    /\ timers' = [i \in DOMAIN timers |-> [timers[i] EXCEPT !.of = @ \ {g}]]
    /\ UNCHANGED <<tickers, toGo, waiters, test>>

Done(g) ==
    /\ sleepers[g].state = "awake" /\ test # "testing"
    /\ sleepers' = [sleepers EXCEPT ![g].state = "done"]
    /\ UNCHANGED <<timers, tickers, toGo, waiters, test>>

\* Run reads its ticker.
ReadTick(i) ==
    /\ tickers[i].unread
    /\ tickers' = [tickers EXCEPT ![i].unread = FALSE]
    /\ UNCHANGED <<timers, toGo, sleepers, waiters, test>>
-----------------------------------------------------------------------------
(* Waits of a test *)

countActiveTickers == Cardinality({i \in DOMAIN tickers : tickers[i].isActive})

IsSatisfied(w) ==
    CASE waiters[w].kind = "timers"   -> Len(timers) >= waiters[w].n
      [] waiters[w].kind = "tickers"  -> countActiveTickers >= waiters[w].n

WaiterAt(w, state) ==
    /\ waiters' = [waiters EXCEPT ![w].state = state]
    /\ UNCHANGED <<timers, tickers, toGo, sleepers, test>>

WaiterReturns(w) ==
    /\ waiters' = [waiters EXCEPT ![w] = [NewWaiter EXCEPT !.state = "returned"]]
    /\ UNCHANGED <<timers, tickers, toGo, sleepers, test>>

CallWait(w) ==
    /\ waiters[w].state = "new"
    /\ \E kind \in {"timers", "tickers"}, n \in {1, 2} :
        waiters' = [waiters EXCEPT ![w] = [state |-> "checking", kind |-> kind, n |-> n]]
    /\ UNCHANGED <<timers, tickers, toGo, sleepers, test>>

\* waitFor, under the mutex: return, or take the channel that is closed at
\* the next change.
waitFor(w) ==
    /\ waiters[w].state = "checking" /\ IsUnlocked
    /\ \/ IsSatisfied(w) /\ WaiterReturns(w)
       \/ ~IsSatisfied(w) /\ WaiterAt(w, "blocked")

\* Its select: the channel is closed, or the context ends.
EndBlock(w) ==
    \/ waiters[w].state = "released" /\ WaiterAt(w, "checking")
    \/ waiters[w].state \in {"blocked", "released"} /\ WaiterReturns(w)
-----------------------------------------------------------------------------
(* The cleanup of StartRun: cancel, then Advance until everyone is done.     *)

EveryoneDone == \A g \in Sleepers : sleepers[g].state = "done"

Shutdown ==
    /\ test = "testing"
    /\ test' = "cleanup"
    /\ UNCHANGED <<timers, tickers, toGo, sleepers, waiters>>

Cleanup ==
    \/ test = "cleanup" /\ ~EveryoneDone /\ Advance(Hour)
    \/ /\ test = "cleanup" /\ EveryoneDone
       /\ test' = "finished"
       /\ UNCHANGED <<timers, tickers, toGo, sleepers, waiters>>

ClockStep == Fire \/ EndAdvance

SleeperStep(g) == Sleep(g) \/ Awake(g) \/ Done(g)

ClockNext ==
    \/ ClockStep \/ Shutdown \/ Cleanup
    \/ test = "testing" /\ \E d \in Durations : Advance(d)
    \/ \E d \in Durations : NewTicker(d)
    \/ \E i \in DOMAIN tickers : Stop(i) \/ ReadTick(i)
    \/ \E g \in Sleepers : SleeperStep(g) \/ Interrupt(g)
    \/ \E w \in Waiters : CallWait(w) \/ waitFor(w) \/ EndBlock(w)

ClockBehaviour == NewClock /\ [][ClockNext]_clockVars

(* Fairness.  The goroutines run; the mutex lets everyone in eventually     *)
(* (it is free between two rounds of the cleanup), hence SF for Sleep.  The *)
(* five seconds the cleanup gives them are taken to be enough.              *)
ClockFairness ==
    /\ WF_clockVars(ClockStep)
    /\ WF_clockVars(Cleanup)
    /\ \A g \in Sleepers : SF_clockVars(SleeperStep(g))

ClockSpec == ClockBehaviour /\ ClockFairness
-----------------------------------------------------------------------------
(* Every variable has its type; a goroutine that sleeps has a timer to come *)
(* or a notification to read.                                               *)
ClockOK ==
    /\ toGo \in Free..Hour
    /\ \A i \in DOMAIN timers : timers[i].of \subseteq Sleepers /\ timers[i].left <= Hour
    /\ \A i \in DOMAIN tickers : tickers[i].left <= tickers[i].interval
    /\ \A g \in Sleepers :
        /\ sleepers[g].state \in {"awake", "asleep", "done"}
        /\ sleepers[g].state = "asleep" =>
                sleepers[g].rang \/ \E i \in DOMAIN timers : g \in timers[i].of
    /\ \A w \in Waiters : waiters[w].state \in
        {"new", "checking", "blocked", "released", "returned"}
    /\ test \in {"testing", "cleanup", "finished"}

(* Advance passes nothing by: it notifies in the order of time, never       *)
(* after something was due, and when it returns nothing is due.             *)
NothingOverdue ==
    LET active == {tickers[i].left : i \in {j \in DOMAIN tickers : tickers[j].isActive}}
    IN  \A left \in {timers[i].left : i \in DOMAIN timers} \cup active :
            left >= 0 /\ (IsUnlocked => left > 0)

(* No wakeup is lost between the check of waitFor and its select: a waiter  *)
(* that holds the current channel waits for something that is not yet so.   *)
NoLostWakeup == \A w \in Waiters : waiters[w].state = "blocked" => ~IsSatisfied(w)

(* The cleanup of a test ends, whatever waits its goroutines start while    *)
(* the clock is being advanced.                                             *)
CleanupEnds == test = "cleanup" ~> test = "finished"
=============================================================================
