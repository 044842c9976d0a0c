SPECIFICATION FairSpec
CONSTANTS
    small = small
    large = large
    huge = huge
    Txs <- MCTxs
    Size <- MCSize
    MaxTxSize = 4
    MaxPoolBytes = 3
    MaxBatchBytes = 2
    MaxQueueLen = 2
    BatchLimits = {1, 2}
    ProposalCap = 1
    MaxRound = 2
    OutputCap = 1
    OrderedCap = 1
    MaxBlocks = 5
    EpochBlocks = {1}
INVARIANTS
    PoolBytesExact
    QueuedIsSeen
    NoBatchIsLost
    NothingLostOnTheWay
PROPERTIES
    EveryOutputIsConsumed
    CreateVertexReturns
CHECK_DEADLOCK FALSE
