SPECIFICATION FairSpec
CONSTANTS
    join = join
    auto = auto
    many = many
    two = two
    later = later
    Ids <- MCIds
    Initial <- MCInitial
    Blocks <- MCBlocks
    Txs <- MCTxs
    Payload = {auto, two}
    VertexResolver = TRUE
    Logs <- MCLogs
    IntentIds = {3, 10, 11}
    MaxIntents = 2
    PeerHistories <- MCPeerHistories
INVARIANTS
    TypeOK
    SameSetEverywhere
    QueueIsOfBlockInProgress
PROPERTIES
    QuorumsMeet
    StuckOnlyOnTwo
CHECK_DEADLOCK FALSE
