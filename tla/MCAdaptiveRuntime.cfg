SPECIFICATION FairSpec
CONSTANTS
    Feedbacks = {"feedback"}
    MaxRetries = 1
    ConsecutiveFailures = 2
    MaxOutages = 1
    Ids = {1, 2, 3, 4, 5, 6, 7, 8}
    Self = 1
    NumInstances = 2
    Members <- MCMembers
    InitialCommittee = 5
    Answers <- MCAnswers
    Levels = {"nominal", "missing"}
    Suspects = {0, 2}
    Reputed <- MCReputed
    MinCommitteeSize = 4
    DeltaS = 1
    GlobalBudgetMin = 4
    MinCooldownEpochs = 2
    WarmupEpochs = 1
    MaxDecisions = 1
INVARIANTS
    BreakerConsistent
    EvictionsWereSafe
    CommitteeQuorumReachable
    DecisionsInOnePlace
PROPERTY BreakerRecovers
CHECK_DEADLOCK FALSE
