SPECIFICATION Spec
CONSTANTS
    Instances = {1, 2}
    Commits <- MCCommits
    MaxLog = 4
    InitialAgents <- MCAgents
    InitialFaults <- MCFaults
    a = a
    b = b
    Suspects = {a, b}
    DeltaS = 2
    GBCMembers = 6
    MaxEpochs = 2
    MaxVersions = 3
SYMMETRY MCSymmetry
INVARIANTS
    CheckpointsAreCanonical
    CommitThenApply
    RollbackIsSafe
    CountsAreAgents
CHECK_DEADLOCK FALSE
