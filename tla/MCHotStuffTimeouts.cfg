CONSTANTS
    N = 4
    Faulty = {4}
    laneID = 2
    Tags = {0}
    MaxCerts = 1
    GCLag = 10
    MinSamples = 3
    MaxConsecutiveTimeouts = 5
    VoteFallback = FALSE
    PublishFails = FALSE
    NoBlock = NoBlock
    Unborn = Unborn
    Suppliers = {3}
    FaultyViews = {3}
    FaultyPayloads = {{1}}
    MaxView = 3
    MaxHeight = 1
    TimeoutViews = {3}
    MaxPenalties = 1
SPECIFICATION Spec
INVARIANTS TypeOK NewViewsAreAccepted CertificatesAreReal
CHECK_DEADLOCK FALSE
