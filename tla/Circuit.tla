------------------------------ MODULE Circuit ------------------------------
(***************************************************************************)
(* What the circuit breaker promises to the matcher, to Redis and to the   *)
(* health check, in terms of the outcomes of pops and publishes alone.     *)
(* The circuit is open exactly while one of the two runs of consecutive    *)
(* failures is at the threshold; each failure that is at the threshold     *)
(* starts the cooldown again; while it lasts no tick pops; afterwards      *)
(* every tick is a trial.  The mechanism (the isOpen flag, the opening     *)
(* time, the log flag) does not appear.                                    *)
(***************************************************************************)
EXTENDS Naturals

CONSTANTS Threshold, Cooldown

VARIABLES
    popStreak,      \* consecutive failed pops
    publishStreak,  \* consecutive failed publishes; empty pops do not end it
    sinceTrip,      \* time since the last failure at the threshold
    phase           \* what the running tick waits for, if anything

cvars == <<popStreak, publishStreak, sinceTrip, phase>>

IsOpen == popStreak >= Threshold \/ publishStreak >= Threshold

Init == popStreak = 0 /\ publishStreak = 0 /\ sinceTrip = 0 /\ phase = "idle"

Tripped(streak) == sinceTrip' = IF streak >= Threshold THEN 0 ELSE sinceTrip

Elapse ==
    /\ IsOpen /\ sinceTrip < Cooldown
    /\ sinceTrip' = sinceTrip + 1
    /\ UNCHANGED <<popStreak, publishStreak, phase>>

TickPops ==
    /\ phase = "idle" /\ (IsOpen => sinceTrip = Cooldown)
    /\ phase' = "popping"
    /\ UNCHANGED <<popStreak, publishStreak, sinceTrip>>

PopReturns ==
    /\ phase = "popping"
    /\ phase' \in {"publishing", "idle"}
    /\ popStreak' = 0
    /\ UNCHANGED <<publishStreak, sinceTrip>>

PopFails ==
    /\ phase = "popping"
    /\ phase' = "idle"
    /\ popStreak' = popStreak + 1
    /\ Tripped(popStreak')
    /\ UNCHANGED publishStreak

PublishReturns ==
    /\ phase = "publishing"
    /\ phase' = "idle"
    /\ publishStreak' = 0
    /\ UNCHANGED <<popStreak, sinceTrip>>

PublishFails ==
    /\ phase = "publishing"
    /\ phase' = "idle"
    /\ publishStreak' = publishStreak + 1
    /\ Tripped(publishStreak')
    /\ UNCHANGED popStreak

Next == Elapse \/ TickPops \/ PopReturns \/ PopFails \/ PublishReturns \/ PublishFails

Spec == Init /\ [][Next]_cvars
=============================================================================
