CONSTANTS
    N = 2
    Faulty = {}
    laneID = 0
    Tags = {0}
    MaxCerts = 3
    GCLag = 2
    MinSamples = 1
    MaxConsecutiveTimeouts = 5
    VoteFallback = TRUE
    PublishFails = TRUE
    NoBlock = NoBlock
    Unborn = Unborn
    Suppliers = {1,2}
    FaultyViews = {}
    FaultyPayloads = {{1}}
    MaxView = 5
    MaxHeight = 2
    TimeoutViews = {1, 2}
    MaxPenalties = 1
SPECIFICATION Spec
INVARIANTS ChainStateOrdered CommitsIncrease
CHECK_DEADLOCK FALSE
