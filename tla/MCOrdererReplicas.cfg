SPECIFICATION ReplicaSpec
CONSTANTS
    numInstances = 2
    maxPending = 1
    OutCap = 1
    b1 = b1
    Nil = Nil
    Blocks <- MCBlocks
    Outputs <- MCOutputs
    MaxRank = 3
    MaxInputs = 2
INVARIANTS
    ReplicasAgree
CHECK_DEADLOCK FALSE
