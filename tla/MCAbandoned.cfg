SPECIFICATION RequestsSpec
CONSTANTS
    Players = {1, 2}
    Gateways = {g1}
    NoGateway = NoGateway
    EmptyID = EmptyID
    ColonID = ColonID
    Servers = {s1}
    Stopping = {}
    Times = {0}
    Threshold = 1
    Cooldown = 1
    MaxAttempts = 1
    MaxTickets = 3
    MaxRedisFaults = 0
    MaxPublishFaults = 1
    MaxEvictions = 0
    Calls = {c1, c2, c3}
    Mount <- MCMount
    BaseURLs <- MCBaseURLs
INVARIANT AbandonedPairStaysOut
SYMMETRY CallSymmetry
CHECK_DEADLOCK FALSE
