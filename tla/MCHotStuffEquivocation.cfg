CONSTANTS
    N = 4
    Faulty = {4}
    laneID = 3
    Tags = {0, 1}
    MaxCerts = 1
    GCLag = 10
    MinSamples = 3
    MaxConsecutiveTimeouts = 5
    VoteFallback = FALSE
    PublishFails = TRUE
    NoBlock = NoBlock
    Unborn = Unborn
    Suppliers = {1}
    FaultyViews = {}
    FaultyPayloads = {{1}}
    MaxView = 2
    MaxHeight = 1
    TimeoutViews = {1}
    MaxPenalties = 1
SPECIFICATION Spec
INVARIANTS OneCertifiedBlockPerView
CHECK_DEADLOCK FALSE
