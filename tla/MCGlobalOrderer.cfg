SPECIFICATION FairSpec
CONSTANTS
    numInstances = 2
    maxPending = 2
    OutCap = 1
    b1 = b1
    b2 = b2
    Nil = Nil
    Blocks <- MCBlocks
    Outputs <- MCOutputs
    MaxRank = 5
    MaxInputs = 4
INVARIANTS
    TypeOK
    LogFollowsRanks
    DeliveredInOrder
    PendingAhead
    OneBarrier
PROPERTIES
    PendingIsKept
    ImplementsRankLog
    EveryRankIsDelivered
CHECK_DEADLOCK FALSE
