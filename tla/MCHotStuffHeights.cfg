CONSTANTS
    N = 2
    Faulty = {}
    laneID = 0
    Tags = {0}
    MaxCerts = 3
    GCLag = 10
    MinSamples = 3
    MaxConsecutiveTimeouts = 5
    VoteFallback = FALSE
    PublishFails = FALSE
    NoBlock = NoBlock
    Unborn = Unborn
    Suppliers = {1,2}
    FaultyViews = {}
    FaultyPayloads = {{1}}
    MaxView = 6
    MaxHeight = 2
    TimeoutViews = {1}
    MaxPenalties = 1
SPECIFICATION Spec
INVARIANT SameHeightAgreement
CHECK_DEADLOCK FALSE
