-------------------------- MODULE TestClockProofs --------------------------
(***************************************************************************)
(* Theorems about the clock the tests run on, for any number of sleepers,  *)
(* waiters and tickers and any durations: what Advance and waitFor promise *)
(* to the tests that rely on them.                                         *)
(***************************************************************************)
EXTENDS TestClock, WellFoundedInduction, TLAPS

Timer == [of : SUBSET Sleepers, left : Int]

Ticker == [interval : Nat \ {0}, left : Int, isActive : BOOLEAN, unread : BOOLEAN]

Sleeper == [state : {"awake", "asleep", "done"}, calls : Nat, rang : BOOLEAN]

Waiter == [state : {"new", "checking", "blocked", "released", "returned"},
           kind : {"none", "timers", "tickers"}, n : Nat]

ClockType ==
    /\ timers \in Seq(Timer) /\ tickers \in Seq(Ticker)
    /\ toGo \in Free..Hour
    /\ sleepers \in [Sleepers -> Sleeper]
    /\ waiters \in [Waiters -> Waiter]
    /\ test \in {"testing", "cleanup", "finished"}

\* A timer is due within the longest duration, a ticker within its interval.
Bounded ==
    /\ \A i \in DOMAIN timers : timers[i].left <= Hour
    /\ \A i \in DOMAIN tickers : tickers[i].left <= tickers[i].interval

\* Nothing that can still fire is due in the past, or in the present of a
\* clock that nobody advances.
OnTime ==
    /\ \A i \in DOMAIN timers : timers[i].left >= 0 /\ (IsUnlocked => timers[i].left > 0)
    /\ \A i \in DOMAIN tickers : tickers[i].isActive =>
         tickers[i].left >= 0 /\ (IsUnlocked => tickers[i].left > 0)

\* Who sleeps will be woken.
Attended ==
    \A g \in Sleepers : sleepers[g].state = "asleep" =>
        sleepers[g].rang \/ \E i \in DOMAIN timers : g \in timers[i].of

\* Who waits knows what for.
HasCondition ==
    \A w \in Waiters : waiters[w].state \in {"checking", "blocked", "released"} =>
        waiters[w].kind \in {"timers", "tickers"}

\* The inductive invariant.
ClockInv == ClockType /\ Bounded /\ OnTime /\ Attended /\ HasCondition /\ NoLostWakeup
-----------------------------------------------------------------------------
\* A set of natural numbers that is not empty has a least one.
LEMMA LeastNumber ==
    ASSUME NEW S, S \subseteq Nat, S # {}
    PROVE  \E d \in S : \A other \in S : d <= other
<1>1. \E d \in S : \A other \in S : <<other, d>> \notin OpToRel(<, Nat)
  BY NatLessThanWellFounded, WFMin
<1>2. \A x, y \in Nat : <<x, y>> \in OpToRel(<, Nat) <=> x < y
  BY DEF OpToRel
<1>3. PICK R : /\ \E d \in S : \A other \in S : <<other, d>> \notin R
               /\ \A x, y \in Nat : <<x, y>> \in R <=> x < y
  BY <1>1, <1>2, Zenon
<1>4. PICK d \in S : \A other \in S : <<other, d>> \notin R
  BY <1>3
<1>5. \A other \in S : ~(other < d)
  BY <1>3, <1>4
<1> QED BY <1>5

\* What the list of timers is without the timer i.
LEMMA RemoveAtIs ==
    ASSUME NEW S, NEW s \in Seq(S), NEW i \in DOMAIN s
    PROVE  /\ RemoveAt(s, i) \in Seq(S) /\ Len(RemoveAt(s, i)) = Len(s) - 1
           /\ \A j \in DOMAIN RemoveAt(s, i) : \E k \in DOMAIN s \ {i} : RemoveAt(s, i)[j] = s[k]
           /\ \A k \in DOMAIN s \ {i} : \E j \in DOMAIN RemoveAt(s, i) : RemoveAt(s, i)[j] = s[k]
<1> DEFINE a == SubSeq(s, 1, i - 1)
           b == SubSeq(s, i + 1, Len(s))
           r == a \o b
<1>1. Len(s) \in Nat /\ i \in 1..Len(s) /\ DOMAIN s = 1..Len(s)
  OBVIOUS
<1>2. a \in Seq(S) /\ Len(a) = i - 1 /\ \A j \in 1..(i - 1) : a[j] = s[j]
  BY <1>1
<1>3. b \in Seq(S) /\ Len(b) = Len(s) - i /\ \A j \in 1..(Len(s) - i) : b[j] = s[i + j]
  BY <1>1
<1> HIDE DEF a, b
<1>4. /\ r \in Seq(S) /\ Len(r) = Len(s) - 1
      /\ \A j \in 1..(i - 1) : r[j] = s[j]
      /\ \A j \in 1..(Len(s) - i) : r[i - 1 + j] = s[i + j]
  <2>1. /\ r \in Seq(S) /\ Len(r) = Len(a) + Len(b)
        /\ \A j \in 1..(Len(a) + Len(b)) : r[j] = IF j <= Len(a) THEN a[j] ELSE b[j - Len(a)]
    BY <1>2, <1>3, SMTT(30)
  <2> HIDE DEF r
  <2>2. \A j \in 1..(i - 1) : r[j] = s[j]
    BY <1>1, <1>2, <1>3, <2>1
  <2>3. ASSUME NEW j \in 1..(Len(s) - i) PROVE r[i - 1 + j] = s[i + j]
    <3>1. /\ i - 1 + j \in 1..(Len(a) + Len(b)) /\ ~(i - 1 + j <= Len(a))
          /\ (i - 1 + j) - Len(a) = j
      BY <1>1, <1>2, <1>3
    <3>2. r[i - 1 + j] = b[j]
      BY <2>1, <3>1
    <3> QED BY <1>3, <3>2
  <2>4. Len(r) = Len(s) - 1
    BY <1>1, <1>2, <1>3, <2>1
  <2> QED BY <2>1, <2>2, <2>3, <2>4
<1>5. RemoveAt(s, i) = r
  BY DEF RemoveAt, a, b
<1> HIDE DEF r
<1>6. DOMAIN r = 1..(Len(s) - 1)
  BY <1>4
<1>7. ASSUME NEW j \in DOMAIN r PROVE \E k \in DOMAIN s \ {i} : r[j] = s[k]
  <2>1. CASE j < i
    BY <1>1, <1>4, <1>6, <2>1
  <2>2. CASE j >= i
    <3>1. j - i + 1 \in 1..(Len(s) - i) /\ i - 1 + (j - i + 1) = j /\ i + (j - i + 1) = j + 1
      BY <1>1, <1>6, <2>2, SMTT(30)
    <3>2. r[j] = s[j + 1] /\ j + 1 \in DOMAIN s \ {i}
      BY <1>1, <1>4, <1>6, <2>2, <3>1, SMTT(30)
    <3> QED BY <3>2
  <2> QED BY <1>1, <1>6, <2>1, <2>2
<1>8. ASSUME NEW k \in DOMAIN s \ {i} PROVE \E j \in DOMAIN r : r[j] = s[k]
  <2>1. CASE k < i
    BY <1>1, <1>4, <1>6, <2>1
  <2>2. CASE k > i
    <3>1. k - i \in 1..(Len(s) - i) /\ i - 1 + (k - i) = k - 1 /\ i + (k - i) = k
      BY <1>1, <2>2
    <3>2. r[k - 1] = s[k] /\ k - 1 \in DOMAIN r
      BY <1>1, <1>4, <1>6, <2>2, <3>1
    <3> QED BY <3>2
  <2> QED BY <1>1, <2>1, <2>2
<1> QED BY <1>4, <1>5, <1>7, <1>8

\* Timers when d has passed.
LEMMA OlderIs ==
    ASSUME NEW ts \in Seq(Timer), NEW d \in Int
    PROVE  /\ Older(ts, d) \in Seq(Timer) /\ Len(Older(ts, d)) = Len(ts)
           /\ \A i \in DOMAIN ts : Older(ts, d)[i].of = ts[i].of /\ Older(ts, d)[i].left = ts[i].left - d
<1>1. DOMAIN ts = 1..Len(ts) /\ Len(ts) \in Nat /\ \A i \in 1..Len(ts) : ts[i] \in Timer
  OBVIOUS
<1>2. ASSUME NEW i \in 1..Len(ts)
      PROVE  /\ [ts[i] EXCEPT !.left = @ - d] \in Timer
             /\ [ts[i] EXCEPT !.left = @ - d].of = ts[i].of
             /\ [ts[i] EXCEPT !.left = @ - d].left = ts[i].left - d
  BY <1>1 DEF Timer
<1>3. Older(ts, d) = [i \in 1..Len(ts) |-> [ts[i] EXCEPT !.left = @ - d]]
  BY <1>1 DEF Older
<1> DEFINE f == [i \in 1..Len(ts) |-> [ts[i] EXCEPT !.left = @ - d]]
<1>4. f \in [1..Len(ts) -> Timer]
  BY <1>2
<1>5. f \in Seq(Timer) /\ Len(f) = Len(ts)
  <2> HIDE DEF f
  <2> QED BY <1>1, <1>4
<1> QED BY <1>1, <1>2, <1>3, <1>5

\* Tickers when d has passed.
LEMMA OlderTickersIs ==
    ASSUME NEW ts \in Seq(Ticker), NEW d \in Int
    PROVE  /\ OlderTickers(ts, d) \in Seq(Ticker) /\ Len(OlderTickers(ts, d)) = Len(ts)
           /\ \A i \in DOMAIN ts :
                /\ OlderTickers(ts, d)[i].interval = ts[i].interval
                /\ OlderTickers(ts, d)[i].isActive = ts[i].isActive
                /\ OlderTickers(ts, d)[i].left = IF ts[i].isActive THEN ts[i].left - d ELSE ts[i].left
<1>1. DOMAIN ts = 1..Len(ts) /\ Len(ts) \in Nat /\ \A i \in 1..Len(ts) : ts[i] \in Ticker
  OBVIOUS
<1> DEFINE e(i) == IF ts[i].isActive THEN [ts[i] EXCEPT !.left = @ - d] ELSE ts[i]
           f == [i \in 1..Len(ts) |-> e(i)]
<1>2. ASSUME NEW i \in 1..Len(ts)
      PROVE  /\ e(i) \in Ticker /\ e(i).interval = ts[i].interval /\ e(i).isActive = ts[i].isActive
             /\ e(i).left = IF ts[i].isActive THEN ts[i].left - d ELSE ts[i].left
  <2>1. ts[i] \in Ticker
    BY <1>1
  <2>2. CASE ts[i].isActive
    <3>1. e(i) = [ts[i] EXCEPT !.left = ts[i].left - d]
      BY <2>2
    <3>2. PICK t \in Ticker : t = ts[i]
      BY <2>1
    <3>3. t.left - d \in Int
      BY DEF Ticker
    <3>4. PICK left \in Int : left = t.left - d
      BY <3>3
    <3>5. e(i) = [t EXCEPT !.left = left]
      BY <3>1, <3>2, <3>4
    <3> HIDE DEF e
    <3>6. /\ e(i) \in Ticker /\ e(i).interval = t.interval /\ e(i).isActive = t.isActive
          /\ e(i).left = left
      BY <3>5 DEF Ticker
    <3> QED BY <2>2, <3>2, <3>4, <3>6
  <2>3. CASE ~ts[i].isActive
    BY <2>1, <2>3
  <2> QED BY <2>2, <2>3
<1>3. OlderTickers(ts, d) = f
  BY <1>1 DEF OlderTickers
<1> HIDE DEF e
<1>4. f \in [1..Len(ts) -> Ticker]
  BY <1>2
<1>5. f \in Seq(Ticker) /\ Len(f) = Len(ts)
  <2> HIDE DEF f
  <2> QED BY <1>1, <1>4
<1> QED BY <1>1, <1>2, <1>3, <1>5
-----------------------------------------------------------------------------
(* Waiters *)

\* After notifyChanged nobody holds the channel that the next change closes.
LEMMA NotifyReleases ==
    ASSUME ClockType, HasCondition, notifyChanged
    PROVE  waiters' \in [Waiters -> Waiter] /\ HasCondition' /\ NoLostWakeup'
<1>1. ASSUME NEW w \in Waiters
      PROVE  /\ waiters'[w] \in Waiter /\ waiters'[w].state # "blocked"
             /\ waiters'[w].kind = waiters[w].kind
             /\ waiters'[w].state = waiters[w].state \/ waiters[w].state = "blocked"
  <2>1. waiters[w] \in Waiter
    BY DEF ClockType
  <2>2. waiters'[w] = IF waiters[w].state = "blocked" THEN [waiters[w] EXCEPT !.state = "released"]
                      ELSE waiters[w]
    BY DEF notifyChanged
  <2> QED BY <2>1, <2>2 DEF Waiter
<1>2. waiters' \in [Waiters -> Waiter]
  BY <1>1 DEF notifyChanged
<1>3. HasCondition'
  BY <1>1 DEF HasCondition
<1> QED BY <1>1, <1>2, <1>3 DEF NoLostWakeup

\* A change that wakes nobody does not fulfil a condition either: there are
\* no more timers than before, and the same tickers are active.
LEMMA NobodyToWake ==
    ASSUME ClockType, HasCondition, NoLostWakeup, waiters' = waiters,
           Len(timers') \in Nat, Len(timers') <= Len(timers),
           countActiveTickers' = countActiveTickers
    PROVE  HasCondition' /\ NoLostWakeup'
<1>1. HasCondition'
  BY DEF HasCondition
<1>2. ASSUME NEW w \in Waiters, waiters[w].state = "blocked" PROVE ~IsSatisfied(w)'
  <2>1. waiters[w] \in Waiter /\ waiters[w].kind \in {"timers", "tickers"} /\ ~IsSatisfied(w)
    BY <1>2 DEF ClockType, HasCondition, NoLostWakeup
  <2>2. waiters[w].n \in Nat /\ Len(timers) \in Nat
    BY <2>1 DEF Waiter, ClockType
  <2>3. CASE waiters[w].kind = "timers"
    BY <2>1, <2>2, <2>3 DEF IsSatisfied
  <2>4. CASE waiters[w].kind = "tickers"
    BY <2>1, <2>4 DEF IsSatisfied
  <2> QED BY <2>1, <2>3, <2>4
<1> QED BY <1>1, <1>2 DEF NoLostWakeup

\* Stopped and running tickers keep their places.
LEMMA SameActive ==
    ASSUME DOMAIN tickers' = DOMAIN tickers,
           \A i \in DOMAIN tickers : tickers'[i].isActive = tickers[i].isActive
    PROVE  countActiveTickers' = countActiveTickers
<1>1. {i \in DOMAIN tickers : tickers[i].isActive}' = {i \in DOMAIN tickers : tickers[i].isActive}
  OBVIOUS
<1> QED BY <1>1 DEF countActiveTickers
-----------------------------------------------------------------------------
(* The loop of Advance *)

\* Types of what the loop reads.
LEMMA ListsTyped ==
    ASSUME ClockType
    PROVE  /\ Len(timers) \in Nat /\ DOMAIN timers = 1..Len(timers)
           /\ Len(tickers) \in Nat /\ DOMAIN tickers = 1..Len(tickers)
           /\ \A i \in DOMAIN timers : timers[i] \in Timer /\ timers[i].left \in Int
           /\ \A i \in DOMAIN tickers : /\ tickers[i] \in Ticker /\ tickers[i].left \in Int
                                        /\ tickers[i].interval \in Nat \ {0}
           /\ Hour \in Nat /\ toGo \in Int /\ toGo >= -1 /\ toGo <= Hour
<1>1. timers \in Seq(Timer) /\ tickers \in Seq(Ticker) /\ toGo \in Free..Hour
  BY DEF ClockType
<1>2. \A i \in DOMAIN timers : timers[i] \in Timer
  BY <1>1
<1>3. \A i \in DOMAIN tickers : tickers[i] \in Ticker
  BY <1>1
<1>4. \A t \in Timer : t.left \in Int
  BY DEF Timer
<1>5. \A t \in Ticker : t.left \in Int /\ t.interval \in Nat \ {0}
  BY DEF Ticker
<1> QED BY <1>1, <1>2, <1>3, <1>4, <1>5, TestClockAssumption DEF Free

\* A notification Advance makes next is not late, and nothing else is due
\* before it.
LEMMA EarliestIs ==
    ASSUME ClockType, OnTime, NEW d \in earliestDue
    PROVE  /\ d \in Nat /\ d <= toGo
           /\ \A i \in DOMAIN timers : d <= timers[i].left
           /\ \A i \in DOMAIN tickers : tickers[i].isActive => d <= tickers[i].left
<1> DEFINE dues == {timers[i].left : i \in DueTimers} \cup {tickers[i].left : i \in DueTickers}
<1>1. d \in dues /\ \A other \in dues : d <= other
  BY DEF earliestDue
<1>2. \A e \in dues : e \in Nat /\ e <= toGo
  BY ListsTyped DEF DueTimers, DueTickers, OnTime
<1>3. ASSUME NEW i \in DOMAIN timers PROVE d <= timers[i].left
  <2>1. CASE timers[i].left <= toGo
    BY <1>1, <2>1 DEF DueTimers
  <2>2. CASE ~(timers[i].left <= toGo)
    <3>1. d <= toGo /\ d \in Int
      BY <1>1, <1>2
    <3> HIDE DEF dues
    <3> QED BY <2>2, <3>1, ListsTyped
  <2> QED BY <2>1, <2>2
<1>4. ASSUME NEW i \in DOMAIN tickers, tickers[i].isActive PROVE d <= tickers[i].left
  <2>1. CASE tickers[i].left <= toGo
    BY <1>1, <1>4, <2>1 DEF DueTickers
  <2>2. CASE ~(tickers[i].left <= toGo)
    <3>1. d <= toGo /\ d \in Int
      BY <1>1, <1>2
    <3> HIDE DEF dues
    <3> QED BY <2>2, <3>1, ListsTyped
  <2> QED BY <2>1, <2>2
<1> QED BY <1>1, <1>2, <1>3, <1>4

\* earliestDue finds something when something is due.
LEMMA NothingDue ==
    ASSUME ClockType, OnTime, earliestDue = {}
    PROVE  /\ \A i \in DOMAIN timers : timers[i].left > toGo
           /\ \A i \in DOMAIN tickers : tickers[i].isActive => tickers[i].left > toGo
<1> DEFINE dues == {timers[i].left : i \in DueTimers} \cup {tickers[i].left : i \in DueTickers}
<1>1. \A e \in dues : e \in Nat
  BY ListsTyped DEF DueTimers, DueTickers, OnTime
<1>2. dues = {}
  <2>1. ~\E d \in dues : \A other \in dues : d <= other
    BY DEF earliestDue
  <2> HIDE DEF dues
  <2> QED BY <1>1, <2>1, LeastNumber
<1>3. DueTimers = {} /\ DueTickers = {}
  BY <1>2
<1> QED BY <1>3, ListsTyped DEF DueTimers, DueTickers

\* The loop fires a timer: its sleeper is notified, and nobody else loses a
\* timer.
LEMMA FireTimerStep ==
    ASSUME ClockInv, ~IsUnlocked, NEW d \in earliestDue, NEW i \in DOMAIN timers, timers[i].left = d,
           fireTimer(i, d), toGo' = toGo - d, UNCHANGED <<waiters, test>>
    PROVE  ClockInv'
<1>0. ClockType /\ Bounded /\ OnTime /\ Attended /\ HasCondition /\ NoLostWakeup
  BY DEF ClockInv
<1>1. /\ d \in Nat /\ d <= toGo
      /\ \A j \in DOMAIN timers : d <= timers[j].left
      /\ \A j \in DOMAIN tickers : tickers[j].isActive => d <= tickers[j].left
  BY <1>0, EarliestIs
<1> DEFINE rest == RemoveAt(timers, i)
<1>2. /\ rest \in Seq(Timer) /\ Len(rest) = Len(timers) - 1
      /\ \A j \in DOMAIN rest : \E k \in DOMAIN timers \ {i} : rest[j] = timers[k]
      /\ \A k \in DOMAIN timers \ {i} : \E j \in DOMAIN rest : rest[j] = timers[k]
  BY <1>0, RemoveAtIs DEF ClockType
<1> HIDE DEF rest
<1>3. /\ timers' \in Seq(Timer) /\ Len(timers') = Len(rest) /\ DOMAIN timers' = DOMAIN rest
      /\ \A j \in DOMAIN rest : timers'[j].of = rest[j].of /\ timers'[j].left = rest[j].left - d
  <2>1. timers' = Older(rest, d)
    BY DEF fireTimer, rest
  <2> QED BY <1>1, <1>2, <2>1, OlderIs
<1>4. /\ tickers' \in Seq(Ticker) /\ DOMAIN tickers' = DOMAIN tickers
      /\ \A j \in DOMAIN tickers :
           /\ tickers'[j].interval = tickers[j].interval
           /\ tickers'[j].isActive = tickers[j].isActive
           /\ tickers'[j].left = IF tickers[j].isActive THEN tickers[j].left - d ELSE tickers[j].left
  <2>1. tickers' = OlderTickers(tickers, d) /\ tickers \in Seq(Ticker)
    BY <1>0 DEF fireTimer, ClockType
  <2> QED BY <1>1, <2>1, OlderTickersIs
<1>5. toGo' \in 0..Hour /\ ~IsUnlocked'
  BY <1>0, <1>1, ListsTyped DEF IsUnlocked, Free
<1>6. /\ sleepers' \in [Sleepers -> Sleeper]
      /\ \A g \in Sleepers : /\ sleepers'[g].state = sleepers[g].state
                             /\ sleepers[g].rang \/ g \in timers[i].of => sleepers'[g].rang
  <2>1. ASSUME NEW g \in Sleepers
        PROVE  /\ sleepers'[g] \in Sleeper /\ sleepers'[g].state = sleepers[g].state
               /\ sleepers[g].rang \/ g \in timers[i].of => sleepers'[g].rang
    <3>1. sleepers[g] \in Sleeper
      BY <1>0 DEF ClockType
    <3>2. CASE g \in timers[i].of
      <4>1. sleepers'[g] = [sleepers[g] EXCEPT !.rang = TRUE]
        BY <3>2 DEF fireTimer, Ring
      <4> QED BY <3>1, <4>1 DEF Sleeper
    <3>3. CASE g \notin timers[i].of
      <4>1. sleepers'[g] = sleepers[g]
        BY <3>3 DEF fireTimer, Ring
      <4> QED BY <3>1, <3>3, <4>1
    <3> QED BY <3>2, <3>3
  <2> QED BY <2>1 DEF fireTimer, Ring
<1>7. ClockType'
  BY <1>0, <1>3, <1>4, <1>5, <1>6 DEF ClockType, Free
<1>8. \A j \in DOMAIN timers' : timers'[j].left >= 0 /\ timers'[j].left <= Hour
  <2> SUFFICES ASSUME NEW j \in DOMAIN timers' PROVE timers'[j].left >= 0 /\ timers'[j].left <= Hour
    OBVIOUS
  <2>1. PICK k \in DOMAIN timers : rest[j] = timers[k]
    BY <1>2, <1>3
  <2>2. timers'[j].left = timers[k].left - d
    BY <1>3, <2>1
  <2>3. d <= timers[k].left /\ timers[k].left <= Hour /\ timers[k].left \in Int /\ Hour \in Nat
    BY <1>0, <1>1, ListsTyped DEF Bounded
  <2> QED BY <1>1, <2>2, <2>3
<1>9. \A j \in DOMAIN tickers' :
        /\ tickers'[j].left <= tickers'[j].interval
        /\ tickers'[j].isActive => tickers'[j].left >= 0
  <2> SUFFICES ASSUME NEW j \in DOMAIN tickers'
               PROVE  /\ tickers'[j].left <= tickers'[j].interval
                      /\ tickers'[j].isActive => tickers'[j].left >= 0
    OBVIOUS
  <2>1. /\ j \in DOMAIN tickers
        /\ tickers'[j].left = IF tickers[j].isActive THEN tickers[j].left - d ELSE tickers[j].left
        /\ tickers'[j].interval = tickers[j].interval /\ tickers'[j].isActive = tickers[j].isActive
    BY <1>4
  <2>2. /\ tickers[j].left \in Int /\ tickers[j].interval \in Nat
        /\ tickers[j].left <= tickers[j].interval
    BY <1>0, <2>1, ListsTyped DEF Bounded
  <2>3. tickers[j].isActive => d <= tickers[j].left
    BY <1>1, <2>1
  <2>4. CASE tickers[j].isActive
    BY <1>1, <2>1, <2>2, <2>3, <2>4
  <2>5. CASE ~tickers[j].isActive
    BY <2>1, <2>2, <2>5
  <2> QED BY <2>4, <2>5
<1>10. Bounded' /\ OnTime'
  BY <1>5, <1>8, <1>9 DEF Bounded, OnTime
<1>11. Attended'
  <2> SUFFICES ASSUME NEW g \in Sleepers, sleepers'[g].state = "asleep", ~sleepers'[g].rang
               PROVE  \E j \in DOMAIN timers' : g \in timers'[j].of
    BY DEF Attended
  <2>1. sleepers[g].state = "asleep" /\ ~sleepers[g].rang /\ g \notin timers[i].of
    BY <1>6
  <2>2. PICK k \in DOMAIN timers \ {i} : g \in timers[k].of
    BY <1>0, <2>1 DEF Attended
  <2>3. PICK j \in DOMAIN rest : rest[j] = timers[k]
    BY <1>2
  <2> QED BY <1>3, <2>2, <2>3
<1>12. HasCondition' /\ NoLostWakeup'
  <2>1. Len(timers') \in Nat /\ Len(timers') <= Len(timers)
    BY <1>0, <1>2, <1>3, ListsTyped
  <2>2. countActiveTickers' = countActiveTickers
    BY <1>4, SameActive
  <2> QED BY <1>0, <2>1, <2>2, NobodyToWake
<1> QED BY <1>7, <1>10, <1>11, <1>12 DEF ClockInv

\* What the passing of d does to a clock on which nothing else happens.
Passes(d) ==
    /\ DOMAIN timers' = DOMAIN timers /\ Len(timers') = Len(timers)
    /\ \A j \in DOMAIN timers : timers'[j].of = timers[j].of /\ timers'[j].left = timers[j].left - d
    /\ UNCHANGED <<sleepers, waiters, test>>

\* A timer that does not fire keeps its sleepers.
LEMMA PassesKeeps ==
    ASSUME ClockInv, NEW d \in Nat, Passes(d), timers' \in Seq(Timer),
           DOMAIN tickers' = DOMAIN tickers,
           \A i \in DOMAIN tickers : tickers'[i].isActive = tickers[i].isActive
    PROVE  /\ Attended' /\ HasCondition' /\ NoLostWakeup'
           /\ \A j \in DOMAIN timers' : timers'[j].left <= Hour
<1>0. ClockType /\ Bounded /\ OnTime /\ Attended /\ HasCondition /\ NoLostWakeup
  BY DEF ClockInv
<1>1. Attended'
  BY <1>0 DEF Attended, Passes
<1>2. Len(timers') \in Nat /\ Len(timers') <= Len(timers) /\ waiters' = waiters
  BY <1>0, ListsTyped DEF Passes
<1>3. countActiveTickers' = countActiveTickers
  BY SameActive
<1>4. \A j \in DOMAIN timers' : timers'[j].left <= Hour
  BY <1>0, ListsTyped DEF Passes, Bounded
<1> QED BY <1>0, <1>1, <1>2, <1>3, <1>4, NobodyToWake

\* The loop fires a ticker, which is due again after its interval.
LEMMA FireTickerStep ==
    ASSUME ClockInv, ~IsUnlocked, NEW d \in earliestDue, NEW i \in DueTickers, tickers[i].left = d,
           fireTicker(i, d), toGo' = toGo - d, UNCHANGED <<waiters, test>>
    PROVE  ClockInv'
<1>0. ClockType /\ Bounded /\ OnTime /\ Attended /\ HasCondition /\ NoLostWakeup
  BY DEF ClockInv
<1>1. /\ d \in Nat /\ d <= toGo
      /\ \A j \in DOMAIN timers : d <= timers[j].left
      /\ \A j \in DOMAIN tickers : tickers[j].isActive => d <= tickers[j].left
  BY <1>0, EarliestIs
<1>2. i \in DOMAIN tickers /\ tickers[i].isActive /\ tickers[i] \in Ticker
      /\ tickers \in Seq(Ticker) /\ timers \in Seq(Timer)
  BY <1>0, ListsTyped DEF DueTickers, ClockType
<1> DEFINE fired == [tickers EXCEPT ![i].unread = TRUE, ![i].left = @ + tickers[i].interval]
<1>3. /\ fired \in Seq(Ticker) /\ DOMAIN fired = DOMAIN tickers
      /\ fired[i].interval = tickers[i].interval
      /\ fired[i].isActive = tickers[i].isActive
      /\ fired[i].left = tickers[i].left + tickers[i].interval
      /\ \A j \in DOMAIN tickers \ {i} : fired[j] = tickers[j]
  <2>1. PICK u \in Ticker : u = tickers[i]
    BY <1>2
  <2>2. PICK left \in Int : left = u.left + u.interval
    BY DEF Ticker
  <2>3. PICK t : t = [u EXCEPT !.unread = TRUE, !.left = left]
    OBVIOUS
  <2>4. t \in Ticker /\ t.interval = u.interval /\ t.isActive = u.isActive /\ t.left = left
    BY <2>3 DEF Ticker
  <2>5. fired = [tickers EXCEPT ![i] = t]
    BY <1>2, <2>1, <2>2, <2>3
  <2> HIDE DEF fired
  <2>6. fired \in Seq(Ticker) /\ DOMAIN fired = DOMAIN tickers
    BY <1>2, <2>4, <2>5
  <2>7. fired[i] = t /\ \A j \in DOMAIN tickers \ {i} : fired[j] = tickers[j]
    BY <1>2, <2>5
  <2> QED BY <2>1, <2>2, <2>4, <2>6, <2>7
<1> HIDE DEF fired
<1>4. /\ tickers' \in Seq(Ticker) /\ DOMAIN tickers' = DOMAIN tickers
      /\ \A j \in DOMAIN tickers :
           /\ tickers'[j].interval = fired[j].interval
           /\ tickers'[j].isActive = fired[j].isActive
           /\ tickers'[j].left = IF fired[j].isActive THEN fired[j].left - d ELSE fired[j].left
  <2>1. tickers' = OlderTickers(fired, d)
    BY DEF fireTicker, fired
  <2> QED BY <1>1, <1>3, <2>1, OlderTickersIs
<1>5. toGo' \in 0..Hour /\ ~IsUnlocked'
  BY <1>0, <1>1, ListsTyped DEF IsUnlocked, Free
<1>6. timers' \in Seq(Timer) /\ Passes(d)
  <2>1. timers' = Older(timers, d)
    BY DEF fireTicker
  <2> QED BY <1>1, <1>2, <2>1, OlderIs DEF Passes, fireTicker
<1>7. ClockType'
  BY <1>0, <1>4, <1>5, <1>6 DEF ClockType, Passes, Free
<1>8. ASSUME NEW j \in DOMAIN tickers
      PROVE  /\ tickers'[j].isActive = tickers[j].isActive
             /\ tickers'[j].left <= tickers'[j].interval
             /\ tickers'[j].isActive => tickers'[j].left >= 0
  <2>1. CASE j = i
    <3>1. tickers'[i].left = tickers[i].interval /\ tickers'[i].interval = tickers[i].interval
      <4>1. fired[i].isActive
        BY <1>2, <1>3
      <4>2. tickers'[i].left = fired[i].left - d /\ tickers'[i].interval = tickers[i].interval
        BY <1>2, <1>3, <1>4, <4>1
      <4>3. fired[i].left = d + tickers[i].interval /\ tickers[i].interval \in Nat
        BY <1>0, <1>2, <1>3, ListsTyped
      <4> QED BY <1>1, <4>2, <4>3
    <3>2. tickers'[i].isActive = tickers[i].isActive
      BY <1>2, <1>3, <1>4
    <3>3. tickers[i].interval \in Nat
      BY <1>0, <1>2, ListsTyped
    <3>4. tickers'[i].left <= tickers'[i].interval /\ tickers'[i].left >= 0
      BY <3>1, <3>3
    <3> QED BY <2>1, <3>2, <3>4
  <2>2. CASE j # i
    <3>1. fired[j] = tickers[j]
      BY <1>3, <2>2
    <3>2. /\ tickers'[j].interval = tickers[j].interval
          /\ tickers'[j].isActive = tickers[j].isActive
          /\ tickers'[j].left = IF tickers[j].isActive THEN tickers[j].left - d ELSE tickers[j].left
      BY <1>4, <3>1
    <3>3. /\ tickers[j].left \in Int /\ tickers[j].interval \in Nat
          /\ tickers[j].left <= tickers[j].interval
      BY <1>0, ListsTyped DEF Bounded
    <3>4. tickers[j].isActive => d <= tickers[j].left
      BY <1>1
    <3> QED BY <1>1, <3>2, <3>3, <3>4
  <2> QED BY <2>1, <2>2
<1>9. /\ Attended' /\ HasCondition' /\ NoLostWakeup'
      /\ \A j \in DOMAIN timers' : timers'[j].left <= Hour
  BY <1>1, <1>4, <1>6, <1>8, PassesKeeps
<1>10. \A j \in DOMAIN timers' : timers'[j].left >= 0
  BY <1>0, <1>1, <1>6, ListsTyped DEF Passes
<1>11. Bounded' /\ OnTime'
  BY <1>4, <1>5, <1>8, <1>9, <1>10 DEF Bounded, OnTime
<1> QED BY <1>7, <1>9, <1>11 DEF ClockInv

\* When Advance returns nothing is due any more.
LEMMA EndAdvanceStep ==
    ASSUME ClockInv, EndAdvance
    PROVE  ClockInv'
<1>0. ClockType /\ Bounded /\ OnTime /\ Attended /\ HasCondition /\ NoLostWakeup
  BY DEF ClockInv
<1>1. /\ \A i \in DOMAIN timers : timers[i].left > toGo
      /\ \A i \in DOMAIN tickers : tickers[i].isActive => tickers[i].left > toGo
  BY <1>0, NothingDue DEF EndAdvance
<1>2. toGo \in Nat /\ toGo' = Free
  BY <1>0, ListsTyped DEF EndAdvance, IsUnlocked, Free
<1>3. timers' \in Seq(Timer) /\ Passes(toGo)
  <2>1. timers' = Older(timers, toGo) /\ timers \in Seq(Timer)
    BY <1>0 DEF EndAdvance, ClockType
  <2> QED BY <1>2, <2>1, OlderIs DEF Passes, EndAdvance
<1>4. /\ tickers' \in Seq(Ticker) /\ DOMAIN tickers' = DOMAIN tickers
      /\ \A j \in DOMAIN tickers :
           /\ tickers'[j].interval = tickers[j].interval
           /\ tickers'[j].isActive = tickers[j].isActive
           /\ tickers'[j].left = IF tickers[j].isActive THEN tickers[j].left - toGo ELSE tickers[j].left
  <2>1. tickers' = OlderTickers(tickers, toGo) /\ tickers \in Seq(Ticker)
    BY <1>0 DEF EndAdvance, ClockType
  <2> QED BY <1>2, <2>1, OlderTickersIs
<1>5. ClockType'
  BY <1>0, <1>2, <1>3, <1>4, ListsTyped DEF ClockType, Passes, Free
<1>6. /\ Attended' /\ HasCondition' /\ NoLostWakeup'
      /\ \A j \in DOMAIN timers' : timers'[j].left <= Hour
  BY <1>2, <1>3, <1>4, PassesKeeps
<1>7. \A j \in DOMAIN timers' : timers'[j].left > 0 /\ timers'[j].left >= 0
  BY <1>0, <1>1, <1>2, <1>3, ListsTyped DEF Passes
<1>8. \A j \in DOMAIN tickers' :
        /\ tickers'[j].left <= tickers'[j].interval
        /\ tickers'[j].isActive => tickers'[j].left > 0 /\ tickers'[j].left >= 0
  <2> SUFFICES ASSUME NEW j \in DOMAIN tickers
               PROVE  /\ tickers'[j].left <= tickers'[j].interval
                      /\ tickers'[j].isActive => tickers'[j].left > 0 /\ tickers'[j].left >= 0
    BY <1>4
  <2>1. /\ tickers[j].left \in Int /\ tickers[j].interval \in Nat
        /\ tickers[j].left <= tickers[j].interval
    BY <1>0, ListsTyped DEF Bounded
  <2>2. tickers'[j].interval = tickers[j].interval /\ tickers'[j].isActive = tickers[j].isActive
    BY <1>4
  <2>3. CASE tickers[j].isActive
    <3>1. tickers'[j].left = tickers[j].left - toGo /\ tickers[j].left > toGo
      BY <1>1, <1>4, <2>3
    <3> QED BY <1>2, <2>1, <2>2, <3>1
  <2>4. CASE ~tickers[j].isActive
    BY <1>4, <2>1, <2>2, <2>4
  <2> QED BY <2>3, <2>4
<1>9. Bounded' /\ OnTime'
  BY <1>6, <1>7, <1>8 DEF Bounded, OnTime
<1> QED BY <1>5, <1>6, <1>9 DEF ClockInv
-----------------------------------------------------------------------------
(* The other steps *)

\* A sleeper asks for a timer.
LEMMA SleepStep ==
    ASSUME ClockInv, NEW g \in Sleepers, Sleep(g)
    PROVE  ClockInv'
<1>0. ClockType /\ Bounded /\ OnTime /\ Attended /\ HasCondition /\ NoLostWakeup
  BY DEF ClockInv
<1>1. PICK d \in Durations : After(g, d)
  BY DEF Sleep
<1>2. d \in Nat \ {0} /\ d <= Hour /\ Hour \in Nat
  BY TestClockAssumption
<1>3. PICK t \in Timer : t = [of |-> {g}, left |-> d] /\ t.of = {g} /\ t.left = d
  <2>1. [of |-> {g}, left |-> d] \in Timer
    BY <1>2 DEF Timer
  <2> QED BY <2>1
<1>4. /\ timers' \in Seq(Timer) /\ DOMAIN timers' = DOMAIN timers \cup {Len(timers) + 1}
      /\ timers'[Len(timers) + 1] = t
      /\ \A i \in DOMAIN timers : timers'[i] = timers[i]
  <2>1. timers' = Append(timers, t) /\ timers \in Seq(Timer)
    BY <1>0, <1>1, <1>3 DEF After, ClockType
  <2> QED BY <2>1
<1>5. tickers' = tickers /\ toGo' = toGo /\ test' = test /\ notifyChanged
  BY <1>1 DEF After
<1>6. /\ sleepers' \in [Sleepers -> Sleeper]
      /\ \A f \in Sleepers \ {g} : sleepers'[f] = sleepers[f]
  <2>1. PICK n : n = [state |-> "asleep", calls |-> sleepers[g].calls + 1, rang |-> FALSE]
    OBVIOUS
  <2>2. n \in Sleeper /\ sleepers \in [Sleepers -> Sleeper]
    <3>1. sleepers[g] \in Sleeper /\ sleepers \in [Sleepers -> Sleeper]
      BY <1>0 DEF ClockType
    <3>2. sleepers[g].calls + 1 \in Nat
      BY <3>1 DEF Sleeper
    <3> QED BY <2>1, <3>1, <3>2 DEF Sleeper
  <2>3. sleepers' = [sleepers EXCEPT ![g] = n]
    BY <2>1 DEF Sleep
  <2> QED BY <2>2, <2>3
<1>7. waiters' \in [Waiters -> Waiter] /\ HasCondition' /\ NoLostWakeup'
  BY <1>0, <1>5, NotifyReleases
<1>8. ClockType'
  BY <1>0, <1>4, <1>5, <1>6, <1>7 DEF ClockType
<1>9. Bounded' /\ OnTime'
  BY <1>0, <1>2, <1>3, <1>4, <1>5 DEF Bounded, OnTime, IsUnlocked
<1>10. Attended'
  BY <1>0, <1>3, <1>4, <1>6 DEF Attended
<1> QED BY <1>7, <1>8, <1>9, <1>10 DEF ClockInv

\* A sleeper wakes up, takes the other case of its select, or is done.
LEMMA SleeperLeavesStep ==
    ASSUME ClockInv, NEW g \in Sleepers, Awake(g) \/ Interrupt(g) \/ Done(g)
    PROVE  ClockInv'
<1>0. ClockType /\ Bounded /\ OnTime /\ Attended /\ HasCondition /\ NoLostWakeup
  BY DEF ClockInv
<1>1. sleepers \in [Sleepers -> Sleeper] /\ timers \in Seq(Timer)
  BY <1>0 DEF ClockType
<1>2. /\ sleepers' \in [Sleepers -> Sleeper] /\ sleepers'[g].state # "asleep"
      /\ \A f \in Sleepers \ {g} : sleepers'[f] = sleepers[f]
  <2>1. CASE Awake(g) \/ Interrupt(g)
    <3>1. PICK u \in Sleeper : u = sleepers[g]
      BY <1>1
    <3>2. PICK n : n = [u EXCEPT !.state = "awake", !.rang = FALSE]
      OBVIOUS
    <3>3. n \in Sleeper /\ n.state = "awake"
      BY <3>2 DEF Sleeper
    <3>4. sleepers' = [sleepers EXCEPT ![g] = n]
      BY <1>1, <2>1, <3>1, <3>2 DEF Awake, Interrupt
    <3> QED BY <1>1, <3>3, <3>4
  <2>2. CASE Done(g)
    BY <1>1, <2>2 DEF Done, Sleeper
  <2> QED BY <2>1, <2>2
<1>3. /\ timers' \in Seq(Timer) /\ DOMAIN timers' = DOMAIN timers /\ Len(timers') = Len(timers)
      /\ \A i \in DOMAIN timers : /\ timers'[i].left = timers[i].left
                                  /\ timers[i].of \ {g} \subseteq timers'[i].of
  <2>1. CASE Awake(g) \/ Done(g)
    BY <1>1, <2>1 DEF Awake, Done
  <2>2. CASE Interrupt(g)
    <3>1. DOMAIN timers = 1..Len(timers) /\ Len(timers) \in Nat /\ \A i \in 1..Len(timers) : timers[i] \in Timer
      BY <1>1
    <3> DEFINE e(i) == [timers[i] EXCEPT !.of = timers[i].of \ {g}]
    <3>2. timers' = [i \in 1..Len(timers) |-> e(i)]
      BY <2>2, <3>1 DEF Interrupt
    <3>3. ASSUME NEW i \in 1..Len(timers)
          PROVE  e(i) \in Timer /\ e(i).left = timers[i].left /\ e(i).of = timers[i].of \ {g}
      <4>1. PICK t \in Timer : t = timers[i]
        BY <3>1
      <4>2. PICK of \in SUBSET Sleepers : of = t.of \ {g}
        BY DEF Timer
      <4>3. e(i) = [t EXCEPT !.of = of]
        BY <4>1, <4>2
      <4> HIDE DEF e
      <4> QED BY <4>1, <4>2, <4>3 DEF Timer
    <3> HIDE DEF e
    <3>4. timers' \in [1..Len(timers) -> Timer]
      BY <3>2, <3>3
    <3>5. timers' \in Seq(Timer) /\ DOMAIN timers' = 1..Len(timers)
      BY <3>1, <3>4
    <3>6. Len(timers') = Len(timers)
      BY <3>1, <3>5
    <3> QED BY <3>1, <3>2, <3>3, <3>5, <3>6
  <2> QED BY <2>1, <2>2
<1>4. UNCHANGED <<tickers, toGo, waiters, test>>
  BY DEF Awake, Interrupt, Done
<1>5. ClockType'
  BY <1>0, <1>2, <1>3, <1>4 DEF ClockType
<1>6. Bounded' /\ OnTime'
  BY <1>0, <1>3, <1>4 DEF Bounded, OnTime, IsUnlocked
<1>7. Attended'
  <2> SUFFICES ASSUME NEW f \in Sleepers, sleepers'[f].state = "asleep", ~sleepers'[f].rang
               PROVE  \E i \in DOMAIN timers' : f \in timers'[i].of
    BY DEF Attended
  <2>1. f # g /\ sleepers'[f] = sleepers[f]
    BY <1>2
  <2>2. PICK i \in DOMAIN timers : f \in timers[i].of
    BY <1>0, <2>1 DEF Attended
  <2> QED BY <1>3, <2>1, <2>2
<1>8. HasCondition' /\ NoLostWakeup'
  <2>1. countActiveTickers' = countActiveTickers
    BY <1>4, SameActive
  <2> QED BY <1>0, <1>3, <1>4, <2>1, ListsTyped, NobodyToWake
<1> QED BY <1>5, <1>6, <1>7, <1>8 DEF ClockInv

\* A ticker is made, stopped or read.
LEMMA TickerStep ==
    ASSUME ClockInv,
           (\E d \in Durations : NewTicker(d)) \/ \E i \in DOMAIN tickers : Stop(i) \/ ReadTick(i)
    PROVE  ClockInv'
<1>0. ClockType /\ Bounded /\ OnTime /\ Attended /\ HasCondition /\ NoLostWakeup
  BY DEF ClockInv
<1>1. UNCHANGED <<timers, toGo, sleepers, test>>
  BY DEF NewTicker, Stop, ReadTick
<1>2. tickers \in Seq(Ticker)
  BY <1>0 DEF ClockType
<1>3. Attended' /\ \A i \in DOMAIN timers' : timers'[i].left <= Hour
  BY <1>0, <1>1 DEF Attended, Bounded
<1>4. ASSUME NEW d \in Durations, NewTicker(d) PROVE ClockInv'
  <2>1. PICK t \in Ticker : /\ t = [interval |-> d, left |-> d, isActive |-> TRUE, unread |-> FALSE]
                            /\ t.interval = d /\ t.left = d
    <3>1. [interval |-> d, left |-> d, isActive |-> TRUE, unread |-> FALSE] \in Ticker
      BY TestClockAssumption DEF Ticker
    <3> QED BY <3>1
  <2>2. tickers' = Append(tickers, t)
    BY <1>4, <2>1 DEF NewTicker
  <2>3. /\ tickers' \in Seq(Ticker) /\ DOMAIN tickers' = DOMAIN tickers \cup {Len(tickers) + 1}
        /\ tickers'[Len(tickers) + 1] = t /\ \A i \in DOMAIN tickers : tickers'[i] = tickers[i]
    BY <1>2, <2>2
  <2>4. waiters' \in [Waiters -> Waiter] /\ HasCondition' /\ NoLostWakeup'
    BY <1>0, <1>4, NotifyReleases DEF NewTicker
  <2>5. ClockType'
    BY <1>0, <1>1, <2>3, <2>4 DEF ClockType
  <2>6. d \in Nat \ {0}
    BY TestClockAssumption
  <2>7. Bounded' /\ OnTime'
    BY <1>0, <1>1, <2>1, <2>3, <2>6 DEF Bounded, OnTime, IsUnlocked
  <2> QED BY <1>3, <2>4, <2>5, <2>7 DEF ClockInv
<1>5. ASSUME NEW i \in DOMAIN tickers, NEW t \in Ticker, t.interval = tickers[i].interval,
             t.left = tickers[i].left, t.isActive => tickers[i].isActive,
             tickers' = [tickers EXCEPT ![i] = t],
             waiters' \in [Waiters -> Waiter] /\ HasCondition' /\ NoLostWakeup'
      PROVE  ClockInv'
  <2>1. /\ tickers' \in Seq(Ticker) /\ DOMAIN tickers' = DOMAIN tickers
        /\ tickers'[i] = t /\ \A j \in DOMAIN tickers \ {i} : tickers'[j] = tickers[j]
    BY <1>2, <1>5
  <2>2. ClockType'
    BY <1>0, <1>1, <1>5, <2>1 DEF ClockType
  <2>3. ASSUME NEW j \in DOMAIN tickers
        PROVE  /\ tickers'[j].interval = tickers[j].interval /\ tickers'[j].left = tickers[j].left
               /\ tickers'[j].isActive => tickers[j].isActive
    <3>1. CASE j = i
      BY <1>5, <2>1, <3>1
    <3>2. CASE j # i
      BY <2>1, <3>2
    <3> QED BY <3>1, <3>2
  <2>4. Bounded' /\ OnTime'
    BY <1>0, <1>1, <2>1, <2>3 DEF Bounded, OnTime, IsUnlocked
  <2> QED BY <1>3, <1>5, <2>2, <2>4 DEF ClockInv
<1>6. ASSUME NEW i \in DOMAIN tickers, Stop(i) PROVE ClockInv'
  <2>1. PICK u \in Ticker : u = tickers[i]
    BY <1>2
  <2>2. PICK t : t = [u EXCEPT !.isActive = FALSE]
    OBVIOUS
  <2>3. t \in Ticker /\ t.interval = u.interval /\ t.left = u.left /\ ~t.isActive
    BY <2>2 DEF Ticker
  <2>4. tickers' = [tickers EXCEPT ![i] = t]
    BY <1>6, <2>1, <2>2 DEF Stop
  <2>5. waiters' \in [Waiters -> Waiter] /\ HasCondition' /\ NoLostWakeup'
    BY <1>0, <1>6, NotifyReleases DEF Stop
  <2> QED BY <1>5, <2>1, <2>3, <2>4, <2>5
<1>7. ASSUME NEW i \in DOMAIN tickers, ReadTick(i) PROVE ClockInv'
  <2>1. PICK u \in Ticker : u = tickers[i]
    BY <1>2
  <2>2. PICK t : t = [u EXCEPT !.unread = FALSE]
    OBVIOUS
  <2>3. t \in Ticker /\ t.interval = u.interval /\ t.left = u.left /\ t.isActive = u.isActive
    BY <2>2 DEF Ticker
  <2>4. tickers' = [tickers EXCEPT ![i] = t] /\ waiters' = waiters
    BY <1>7, <2>1, <2>2 DEF ReadTick
  <2>5. DOMAIN tickers' = DOMAIN tickers /\ \A j \in DOMAIN tickers : tickers'[j].isActive = tickers[j].isActive
    <3>1. DOMAIN tickers' = DOMAIN tickers
      BY <2>4
    <3>2. ASSUME NEW j \in DOMAIN tickers PROVE tickers'[j].isActive = tickers[j].isActive
      <4>1. CASE j = i
        BY <2>1, <2>3, <2>4, <4>1
      <4>2. CASE j # i
        BY <2>4, <4>2
      <4> QED BY <4>1, <4>2
    <3> QED BY <3>1, <3>2
  <2>6. countActiveTickers' = countActiveTickers
    BY <2>5, SameActive
  <2>7. HasCondition' /\ NoLostWakeup'
    BY <1>0, <1>1, <2>4, <2>6, ListsTyped, NobodyToWake
  <2>8. waiters' \in [Waiters -> Waiter]
    BY <1>0, <2>4 DEF ClockType
  <2> QED BY <1>5, <2>1, <2>3, <2>4, <2>7, <2>8
<1> QED BY <1>4, <1>6, <1>7

\* A waiter calls, checks its condition under the mutex, or returns.
LEMMA WaiterStep ==
    ASSUME ClockInv, NEW w \in Waiters, CallWait(w) \/ waitFor(w) \/ EndBlock(w)
    PROVE  ClockInv'
<1>0. ClockType /\ Bounded /\ OnTime /\ Attended /\ HasCondition /\ NoLostWakeup
  BY DEF ClockInv
<1>1. UNCHANGED <<timers, tickers, toGo, sleepers, test>>
  BY DEF CallWait, waitFor, EndBlock, WaiterAt, WaiterReturns
<1>2. waiters \in [Waiters -> Waiter] /\ waiters[w] \in Waiter
  BY <1>0 DEF ClockType
<1>3. Bounded' /\ OnTime' /\ Attended'
  BY <1>0, <1>1 DEF Bounded, OnTime, Attended, IsUnlocked
<1>4. ASSUME NEW n \in Waiter, waiters' = [waiters EXCEPT ![w] = n],
             n.state \in {"checking", "blocked", "released"} => n.kind \in {"timers", "tickers"},
             n.state = "blocked" => n.kind = waiters[w].kind /\ n.n = waiters[w].n /\ ~IsSatisfied(w)
      PROVE  ClockInv'
  <2>1. waiters' \in [Waiters -> Waiter] /\ waiters'[w] = n /\ \A v \in Waiters \ {w} : waiters'[v] = waiters[v]
    BY <1>2, <1>4
  <2>2. ClockType'
    BY <1>0, <1>1, <2>1 DEF ClockType
  <2>3. HasCondition'
    BY <1>0, <1>4, <2>1 DEF HasCondition
  <2>4. ASSUME NEW v \in Waiters, waiters'[v].kind = waiters[v].kind, waiters'[v].n = waiters[v].n,
               ~IsSatisfied(v), waiters'[v].kind \in {"timers", "tickers"}
        PROVE  ~IsSatisfied(v)'
    <3>1. countActiveTickers' = countActiveTickers
      BY <1>1 DEF countActiveTickers
    <3> QED BY <1>1, <2>4, <3>1 DEF IsSatisfied
  <2>5. NoLostWakeup'
    <3> SUFFICES ASSUME NEW v \in Waiters, waiters'[v].state = "blocked" PROVE ~IsSatisfied(v)'
      BY DEF NoLostWakeup
    <3>1. CASE v = w
      BY <1>4, <2>1, <2>4, <3>1
    <3>2. CASE v # w
      BY <1>0, <2>1, <2>4, <3>2 DEF NoLostWakeup, HasCondition
    <3> QED BY <3>1, <3>2
  <2> QED BY <1>3, <2>2, <2>3, <2>5 DEF ClockInv
<1>5. ASSUME NEW state \in {"checking", "blocked"}, WaiterAt(w, state),
             waiters[w].state \in {"checking", "released"},
             state = "blocked" => ~IsSatisfied(w)
      PROVE  ClockInv'
  <2>1. PICK u \in Waiter : u = waiters[w]
    BY <1>2
  <2>2. PICK n : n = [u EXCEPT !.state = state]
    OBVIOUS
  <2>3. n \in Waiter /\ n.state = state /\ n.kind = u.kind /\ n.n = u.n
    BY <2>2 DEF Waiter
  <2>4. waiters' = [waiters EXCEPT ![w] = n]
    BY <1>5, <2>1, <2>2 DEF WaiterAt
  <2>5. u.kind \in {"timers", "tickers"}
    BY <1>0, <1>5, <2>1 DEF HasCondition
  <2> QED BY <1>4, <1>5, <2>1, <2>3, <2>4, <2>5
<1>6. CASE WaiterReturns(w)
  <2>1. PICK n : n = [NewWaiter EXCEPT !.state = "returned"]
    OBVIOUS
  <2>2. n \in Waiter /\ n.state = "returned"
    BY <2>1 DEF NewWaiter, Waiter
  <2>3. waiters' = [waiters EXCEPT ![w] = n]
    BY <1>6, <2>1 DEF WaiterReturns
  <2> QED BY <1>4, <2>2, <2>3
<1>7. CASE CallWait(w)
  <2>1. PICK kind \in {"timers", "tickers"}, n \in {1, 2} :
          waiters' = [waiters EXCEPT ![w] = [state |-> "checking", kind |-> kind, n |-> n]]
    BY <1>7 DEF CallWait
  <2>2. PICK u : u = [state |-> "checking", kind |-> kind, n |-> n]
    OBVIOUS
  <2>3. u \in Waiter /\ u.state = "checking" /\ u.kind \in {"timers", "tickers"}
    BY <2>2 DEF Waiter
  <2> QED BY <1>4, <2>1, <2>2, <2>3
<1> QED BY <1>5, <1>6, <1>7 DEF waitFor, EndBlock
-----------------------------------------------------------------------------
\* The test advances the clock or goes on to its cleanup, or nothing happens.
LEMMA TestStep ==
    ASSUME ClockInv,
           \/ UNCHANGED clockVars \/ Shutdown \/ Cleanup
           \/ \E d \in Durations : Advance(d)
    PROVE  ClockInv'
<1>0. ClockType /\ Bounded /\ OnTime /\ Attended /\ HasCondition /\ NoLostWakeup
  BY DEF ClockInv
<1>1. UNCHANGED <<timers, tickers, sleepers, waiters>>
  BY DEF clockVars, Shutdown, Cleanup, Advance
<1>2. toGo' \in Free..Hour /\ (toGo' = Free => toGo = Free)
  <2>1. CASE toGo' = toGo
    BY <1>0, <2>1 DEF ClockType
  <2>2. ASSUME NEW d \in Durations \cup {Hour}, toGo' = d PROVE toGo' \in Free..Hour /\ toGo' # Free
    BY <2>2, TestClockAssumption DEF Free
  <2> QED BY <2>1, <2>2 DEF clockVars, Shutdown, Cleanup, Advance
<1>3. test' \in {"testing", "cleanup", "finished"}
  BY <1>0 DEF ClockType, clockVars, Shutdown, Cleanup, Advance
<1>4. ClockType'
  BY <1>0, <1>1, <1>2, <1>3 DEF ClockType
<1>5. Bounded' /\ OnTime' /\ Attended'
  BY <1>0, <1>1, <1>2 DEF Bounded, OnTime, Attended, IsUnlocked
<1>6. HasCondition' /\ NoLostWakeup'
  <2>1. countActiveTickers' = countActiveTickers
    BY <1>1 DEF countActiveTickers
  <2> QED BY <1>0, <1>1, <2>1, ListsTyped, NobodyToWake
<1> QED BY <1>4, <1>5, <1>6 DEF ClockInv

\* The inductive invariant of the clock.
LEMMA ClockInvariance == ClockSpec => []ClockInv
<1>1. NewClock => ClockInv
  <2> SUFFICES ASSUME NewClock PROVE ClockInv
    OBVIOUS
  <2>1. timers = <<>> /\ tickers = <<>> /\ DOMAIN timers = {} /\ DOMAIN tickers = {}
    BY DEF NewClock
  <2>2. ClockType
    <3>1. Free \in Free..Hour
      BY TestClockAssumption DEF Free
    <3>2. [state |-> "awake", calls |-> 0, rang |-> FALSE] \in Sleeper
      BY DEF Sleeper
    <3>3. NewWaiter \in Waiter
      BY DEF NewWaiter, Waiter
    <3>4. timers \in Seq(Timer) /\ tickers \in Seq(Ticker)
      BY <2>1
    <3> QED BY <3>1, <3>2, <3>3, <3>4 DEF NewClock, ClockType
  <2>3. Bounded /\ OnTime
    BY <2>1 DEF Bounded, OnTime
  <2>4. \A g \in Sleepers : sleepers[g].state = "awake"
    BY DEF NewClock
  <2>5. \A w \in Waiters : waiters[w].state = "new"
    BY DEF NewClock, NewWaiter
  <2> QED BY <2>2, <2>3, <2>4, <2>5 DEF ClockInv, Attended, HasCondition, NoLostWakeup
<1>2. ClockInv /\ [ClockNext]_clockVars => ClockInv'
  <2> SUFFICES ASSUME ClockInv, [ClockNext]_clockVars PROVE ClockInv'
    OBVIOUS
  <2>1. CASE Fire
    <3>1. PICK d \in earliestDue :
            /\ \/ \E i \in DueTimers : timers[i].left = d /\ fireTimer(i, d)
               \/ \E i \in DueTickers : tickers[i].left = d /\ fireTicker(i, d)
            /\ toGo' = toGo - d
      BY <2>1 DEF Fire
    <3>2. ~IsUnlocked /\ UNCHANGED <<waiters, test>>
      BY <2>1 DEF Fire
    <3>3. ASSUME NEW i \in DueTimers, timers[i].left = d, fireTimer(i, d) PROVE ClockInv'
      <4>1. i \in DOMAIN timers
        BY DEF DueTimers
      <4> QED BY <3>1, <3>2, <3>3, <4>1, FireTimerStep
    <3>4. ASSUME NEW i \in DueTickers, tickers[i].left = d, fireTicker(i, d) PROVE ClockInv'
      BY <3>1, <3>2, <3>4, FireTickerStep
    <3> QED BY <3>1, <3>3, <3>4
  <2>2. CASE EndAdvance
    BY <2>2, EndAdvanceStep
  <2> QED BY <2>1, <2>2, SleepStep, SleeperLeavesStep, TickerStep, WaiterStep, TestStep
          DEF ClockNext, ClockStep, SleeperStep
<1> QED BY <1>1, <1>2, PTL DEF ClockSpec, ClockBehaviour

\* The clock of the tests keeps its types, and a goroutine that sleeps always
\* has a timer to come or a notification to read, also when several timers
\* are due at one time.
THEOREM SleepersAreAttended == ClockSpec => []ClockOK
<1>1. ClockInv => ClockOK
  <2> SUFFICES ASSUME ClockInv PROVE ClockOK
    OBVIOUS
  <2>0. ClockType /\ Bounded /\ Attended
    BY DEF ClockInv
  <2>1. \A i \in DOMAIN timers : timers[i].of \subseteq Sleepers
    <3>1. \A t \in Timer : t.of \subseteq Sleepers
      BY DEF Timer
    <3> QED BY <2>0, <3>1, ListsTyped
  <2>2. \A g \in Sleepers : sleepers[g].state \in {"awake", "asleep", "done"}
    BY <2>0 DEF ClockType, Sleeper
  <2>3. \A w \in Waiters :
          waiters[w].state \in {"new", "checking", "blocked", "released", "returned"}
    BY <2>0 DEF ClockType, Waiter
  <2>4. toGo \in Free..Hour /\ test \in {"testing", "cleanup", "finished"}
    BY <2>0 DEF ClockType
  <2> QED BY <2>0, <2>1, <2>2, <2>3, <2>4 DEF ClockOK, Bounded, Attended
<1> QED BY <1>1, ClockInvariance, PTL

\* Advance passes nothing by, whatever timers and tickers there are.
THEOREM AdvanceIsComplete == ClockSpec => []NothingOverdue
<1>1. ClockInv => NothingOverdue
  BY DEF ClockInv, OnTime, NothingOverdue
<1> QED BY <1>1, ClockInvariance, PTL

\* waitFor misses no change between its check and its select.
THEOREM WakeupsReachWaiters == ClockSpec => []NoLostWakeup
<1>1. ClockInv => NoLostWakeup
  BY DEF ClockInv
<1> QED BY <1>1, ClockInvariance, PTL
=============================================================================
