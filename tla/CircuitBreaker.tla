--------------------------- MODULE CircuitBreaker ---------------------------
(***************************************************************************)
(* The circuitBreaker of internal/usecase/matcher/circuit.go.  A breaker   *)
(* is a record; every method of the Go type is an operator from a breaker  *)
(* to the breaker it leaves behind (each runs under the mutex c.mu, so it  *)
(* is one atomic step).                                                    *)
(*                                                                         *)
(* The code compares now.Sub(c.openedAt) with the cooldown and nothing     *)
(* else, and only while the breaker is open: sinceOpened is that           *)
(* difference, counted while open and saturated at Cooldown.               *)
(***************************************************************************)
EXTENDS Naturals

CONSTANTS
    Threshold,  \* consecutive failures that open the circuit
    Cooldown    \* time an open circuit keeps ticks away from the queue

\* matcher.go, Options.validate: New refuses anything else.
ASSUME BreakerAssumption == Threshold \in Nat \ {0} /\ Cooldown \in Nat \ {0}

Breaker == [popFailureCount     : Nat,
            publishFailureCount : Nat,
            isOpen              : BOOLEAN,
            sinceOpened         : 0..Cooldown,
            hasLoggedSkip       : BOOLEAN]

newCircuitBreaker == [popFailureCount     |-> 0,
                      publishFailureCount |-> 0,
                      isOpen              |-> FALSE,
                      sinceOpened         |-> 0,
                      hasLoggedSkip       |-> FALSE]

isCircuitOpen(c) == c.isOpen

\* Mutant of IsAllowed: an open circuit is never tried again.
IsAllowedWhenClosed(c) == ~c.isOpen

\* The first result of allowTick.
IsAllowed(c) == c.isOpen => c.sinceOpened >= Cooldown

\* The second result of allowTick: the skip is logged once per opening.
ShouldLogSkip(c) == ~IsAllowed(c) /\ ~c.hasLoggedSkip

\* What allowTick does to the breaker.
allowTick(c) == [c EXCEPT !.hasLoggedSkip = @ \/ ShouldLogSkip(c)]

\* Mutant of open: the cooldown runs from the first opening.
openOnce(c) ==
    [c EXCEPT !.isOpen = TRUE,
              !.sinceOpened = IF c.isOpen THEN @ ELSE 0,
              !.hasLoggedSkip = FALSE]

\* Opening an open circuit starts the cooldown again.
open(c) == [c EXCEPT !.isOpen = TRUE, !.sinceOpened = 0, !.hasLoggedSkip = FALSE]

OverThreshold(c) ==
    c.popFailureCount >= Threshold \/ c.publishFailureCount >= Threshold

\* Mutant of closeIfRecovered: a successful pop alone closes the circuit.
closeIfPopRecovered(c) ==
    IF c.isOpen /\ c.popFailureCount < Threshold
    THEN [c EXCEPT !.isOpen = FALSE, !.hasLoggedSkip = FALSE]
    ELSE c

closeIfRecovered(c) ==
    IF c.isOpen /\ ~OverThreshold(c)
    THEN [c EXCEPT !.isOpen = FALSE, !.hasLoggedSkip = FALSE]
    ELSE c

recordPopSuccess(c) == closeIfRecovered([c EXCEPT !.popFailureCount = 0])

recordPopFailure(c) ==
    LET d == [c EXCEPT !.popFailureCount = @ + 1]
    IN  IF d.popFailureCount >= Threshold THEN open(d) ELSE d

recordPublishSuccess(c) == closeIfRecovered([c EXCEPT !.publishFailureCount = 0])

recordPublishFailure(c) ==
    LET d == [c EXCEPT !.publishFailureCount = @ + 1]
    IN  IF d.publishFailureCount >= Threshold THEN open(d) ELSE d

\* One unit of time passes.
elapse(c) ==
    IF c.isOpen /\ c.sinceOpened < Cooldown
    THEN [c EXCEPT !.sinceOpened = @ + 1]
    ELSE c

-----------------------------------------------------------------------------
(* The flag isOpen is a cache of the two counters: /internal/v1/health      *)
(* reports it, allowTick acts on it, and no method recomputes it from       *)
(* scratch, so every method has to leave the two in agreement.              *)
BreakerInv(c) ==
    /\ c.isOpen <=> OverThreshold(c)
    /\ c.hasLoggedSkip => c.isOpen
=============================================================================
