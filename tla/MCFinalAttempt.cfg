SPECIFICATION ServerSpec
CONSTANTS
    Players = {1, 2}
    Gateways = {g1}
    NoGateway = NoGateway
    Servers = {s1}
    Stopping = {s1}
    Times = {0}
    Threshold = 1
    Cooldown = 1
    MaxAttempts = 1
    MaxTickets = 2
    MaxRedisFaults = 0
    MaxPublishFaults = 0
    MaxEvictions = 0
    NoInt = NoInt
    MaxInt = 127
    Second = 10
    MaxCrashes = 0
    Environments <- MCEnvironments
INVARIANT ShutdownWritesBack
CHECK_DEADLOCK FALSE
