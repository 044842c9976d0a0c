CONSTANTS
    m = 4
    Faulty = {1}
    Payloads = {p, q}
    Lossy = TRUE
    MaxHeight = 2
    FaultyHeights = {1}
SPECIFICATION Spec
INVARIANTS CertifiedAgree CommitIsDurable
PROPERTIES LogsOnlyGrow ImplementsBeaconDecisions
SYMMETRY PayloadSymmetry
CHECK_DEADLOCK FALSE
