SPECIFICATION Spec
CONSTANTS
    Players = {1, 2}
    Gateways = {g1}
    NoGateway = NoGateway
    Servers = {s1}
    Stopping = {}
    Times = {0}
    Threshold = 3
    Cooldown = 1
    MaxAttempts = 2
    MaxTickets = 2
    MaxRedisFaults = 0
    MaxPublishFaults = 1
    MaxEvictions = 0
INVARIANT DeliveredOnce
CHECK_DEADLOCK FALSE
