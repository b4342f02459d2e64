SPECIFICATION FairSpec
CONSTANTS
    Players = {1, 2}
    Gateways = {g1}
    NoGateway = NoGateway
    Servers = {s1}
    Stopping = {s1}
    Times = {0}
    Threshold = 2
    Cooldown = 1
    MaxAttempts = 2
    MaxTickets = 2
    MaxRedisFaults = 1
    MaxPublishFaults = 2
    MaxEvictions = 0
PROPERTY EveryonePaired
PROPERTY OpenCircuitIsRetried
PROPERTY ShutdownSettles
INVARIANT CircuitOpenIffOverThreshold
PROPERTY RefinesCircuit
CHECK_DEADLOCK FALSE
