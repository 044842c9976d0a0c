SPECIFICATION Spec
CONSTANTS
    Nodes = {1, 2, 3, 4}
    Faulty = {1}
    Configs <- MCConfigs
    Suspects = {2}
    FaultyMessages <- MCFaultyMessages
    MaxView = 1
    MaxSeen = 6
INVARIANTS
    TypeOK
    OneTransitionPerView
CHECK_DEADLOCK FALSE
