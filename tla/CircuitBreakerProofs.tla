------------------------ MODULE CircuitBreakerProofs ------------------------
(***************************************************************************)
(* Each method of the circuit breaker keeps the isOpen flag in agreement   *)
(* with the failure counters, for every threshold and cooldown.            *)
(***************************************************************************)
EXTENDS CircuitBreaker, TLAPS

\* A new breaker is closed and has seen no failure.
LEMMA NewBreaker ==
    newCircuitBreaker \in Breaker /\ BreakerInv(newCircuitBreaker)
BY BreakerAssumption
   DEF newCircuitBreaker, Breaker, BreakerInv, OverThreshold

\* allowTick only sets the log flag, and only of an open breaker.
LEMMA AllowTickKeeps ==
    ASSUME NEW c \in Breaker, BreakerInv(c)
    PROVE  allowTick(c) \in Breaker /\ BreakerInv(allowTick(c))
BY BreakerAssumption
   DEF allowTick, ShouldLogSkip, IsAllowed, Breaker, BreakerInv, OverThreshold

\* Time passing changes nothing but sinceOpened.
LEMMA ElapseKeeps ==
    ASSUME NEW c \in Breaker, BreakerInv(c)
    PROVE  elapse(c) \in Breaker /\ BreakerInv(elapse(c))
BY BreakerAssumption DEF elapse, Breaker, BreakerInv, OverThreshold

\* closeIfRecovered restores the agreement whatever the counters became, if
\* the circuit was open whenever one of them is at the threshold.
LEMMA CloseIfRecoveredKeeps ==
    ASSUME NEW c \in Breaker,
           OverThreshold(c) => c.isOpen,
           c.hasLoggedSkip => c.isOpen
    PROVE  closeIfRecovered(c) \in Breaker /\ BreakerInv(closeIfRecovered(c))
<1>1. CASE c.isOpen /\ ~OverThreshold(c)
  <2> DEFINE d == [c EXCEPT !.isOpen = FALSE, !.hasLoggedSkip = FALSE]
  <2>1. closeIfRecovered(c) = d
    BY <1>1 DEF closeIfRecovered
  <2>2. d \in Breaker
    BY DEF Breaker
  <2>3. d.isOpen = FALSE /\ d.hasLoggedSkip = FALSE
    BY DEF Breaker
  <2>4. ~OverThreshold(d)
    BY <1>1 DEF Breaker, OverThreshold
  <2> QED BY <2>1, <2>2, <2>3, <2>4 DEF BreakerInv
<1>2. CASE ~(c.isOpen /\ ~OverThreshold(c))
  <2>1. closeIfRecovered(c) = c
    BY <1>2 DEF closeIfRecovered
  <2> QED BY <1>2, <2>1 DEF BreakerInv
<1> QED BY <1>1, <1>2

\* recordPopSuccess and recordPublishSuccess close the circuit exactly when
\* the other counter is below the threshold too.
LEMMA SuccessKeeps ==
    ASSUME NEW c \in Breaker, BreakerInv(c)
    PROVE  /\ recordPopSuccess(c) \in Breaker /\ BreakerInv(recordPopSuccess(c))
           /\ recordPublishSuccess(c) \in Breaker /\ BreakerInv(recordPublishSuccess(c))
<1> DEFINE d == [c EXCEPT !.popFailureCount = 0]
           e == [c EXCEPT !.publishFailureCount = 0]
<1>1. d \in Breaker /\ e \in Breaker
  BY DEF Breaker
<1>2. /\ d.isOpen = c.isOpen /\ d.hasLoggedSkip = c.hasLoggedSkip
      /\ e.isOpen = c.isOpen /\ e.hasLoggedSkip = c.hasLoggedSkip
  BY DEF Breaker
<1>3. (OverThreshold(d) => OverThreshold(c)) /\ (OverThreshold(e) => OverThreshold(c))
  BY BreakerAssumption DEF Breaker, OverThreshold
<1>4. closeIfRecovered(d) \in Breaker /\ BreakerInv(closeIfRecovered(d))
  <2> HIDE DEF d
  <2> QED BY <1>1, <1>2, <1>3, CloseIfRecoveredKeeps DEF BreakerInv
<1>5. closeIfRecovered(e) \in Breaker /\ BreakerInv(closeIfRecovered(e))
  <2> HIDE DEF e
  <2> QED BY <1>1, <1>2, <1>3, CloseIfRecoveredKeeps DEF BreakerInv
<1> QED BY <1>4, <1>5 DEF recordPopSuccess, recordPublishSuccess

\* open leaves an open breaker that has not logged a skip.
LEMMA OpenKeeps ==
    ASSUME NEW c \in Breaker, OverThreshold(c)
    PROVE  open(c) \in Breaker /\ BreakerInv(open(c))
<1> DEFINE d == open(c)
<1>1. d \in Breaker
  <2>1. 0 \in 0..Cooldown
    BY BreakerAssumption
  <2> QED BY <2>1 DEF open, Breaker
<1>2. d.isOpen = TRUE /\ d.hasLoggedSkip = FALSE
  BY DEF open, Breaker
<1>3. OverThreshold(d)
  BY DEF open, Breaker, OverThreshold
<1> HIDE DEF d
<1> QED BY <1>1, <1>2, <1>3 DEF BreakerInv, d

\* recordPopFailure and recordPublishFailure open the circuit exactly when
\* their counter reaches the threshold, and never close it.
LEMMA FailureKeeps ==
    ASSUME NEW c \in Breaker, BreakerInv(c)
    PROVE  /\ recordPopFailure(c) \in Breaker /\ BreakerInv(recordPopFailure(c))
           /\ recordPublishFailure(c) \in Breaker /\ BreakerInv(recordPublishFailure(c))
<1> DEFINE d == [c EXCEPT !.popFailureCount = @ + 1]
           e == [c EXCEPT !.publishFailureCount = @ + 1]
<1>1. d \in Breaker /\ e \in Breaker
  BY DEF Breaker
<1>2. /\ d.isOpen = c.isOpen /\ d.hasLoggedSkip = c.hasLoggedSkip
      /\ e.isOpen = c.isOpen /\ e.hasLoggedSkip = c.hasLoggedSkip
  BY DEF Breaker
<1>3. /\ d.popFailureCount >= Threshold => OverThreshold(d)
      /\ e.publishFailureCount >= Threshold => OverThreshold(e)
  BY DEF OverThreshold
<1>4. /\ ~(d.popFailureCount >= Threshold) => (OverThreshold(d) <=> OverThreshold(c))
      /\ ~(e.publishFailureCount >= Threshold) => (OverThreshold(e) <=> OverThreshold(c))
  BY BreakerAssumption DEF Breaker, OverThreshold
<1>5. recordPopFailure(c) = IF d.popFailureCount >= Threshold THEN open(d) ELSE d
  BY DEF recordPopFailure
<1>6. recordPublishFailure(c) = IF e.publishFailureCount >= Threshold THEN open(e) ELSE e
  BY DEF recordPublishFailure
<1> HIDE DEF d, e
<1>7. recordPopFailure(c) \in Breaker /\ BreakerInv(recordPopFailure(c))
  BY <1>1, <1>2, <1>3, <1>4, <1>5, OpenKeeps DEF BreakerInv
<1>8. recordPublishFailure(c) \in Breaker /\ BreakerInv(recordPublishFailure(c))
  BY <1>1, <1>2, <1>3, <1>4, <1>6, OpenKeeps DEF BreakerInv
<1> QED BY <1>7, <1>8
=============================================================================
