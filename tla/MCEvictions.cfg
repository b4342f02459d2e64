SPECIFICATION Spec
CONSTANTS
    Players = {1, 2, 3}
    Gateways = {g1, g2}
    NoGateway = NoGateway
    Servers = {s1}
    Stopping = {}
    Times = {0}
    Threshold = 3
    Cooldown = 1
    MaxAttempts = 2
    MaxTickets = 3
    MaxRedisFaults = 0
    MaxPublishFaults = 1
    MaxEvictions = 2
INVARIANT PairSameGateway
CHECK_DEADLOCK FALSE
