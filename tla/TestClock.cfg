SPECIFICATION ClockSpec
CONSTANTS
    Sleepers = {a, b}
    Waiters = {w}
    Durations = {1, 2}
    Hour = 3
    MaxSleeps = 1
    MaxTickers = 1
INVARIANT ClockOK
INVARIANT NothingOverdue
INVARIANT NoLostWakeup
PROPERTY CleanupEnds
CHECK_DEADLOCK FALSE
