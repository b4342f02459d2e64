SPECIFICATION Spec
CONSTANTS
    Players = {1, 2}
    Gateways = {g1}
    NoGateway = NoGateway
    Servers = {s1, s2}
    Stopping = {s1}
    Times = {0}
    Threshold = 2
    Cooldown = 1
    MaxAttempts = 2
    MaxTickets = 3
    MaxRedisFaults = 0
    MaxPublishFaults = 1
    MaxEvictions = 0
INVARIANT OneHolder
INVARIANT MatchedOnce
CHECK_DEADLOCK FALSE
