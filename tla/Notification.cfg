CONSTANTS
    Problems = {"WARNING", "CRITICAL"}
    Configs <- AllConfigs
    MAX_STATE_HISTORY_ENTRIES = 4
    LowThreshold = 30
    HighThreshold = 50
    NumberCap = 5
    MaxCommands = 3
SPECIFICATION FairSpec
INVARIANTS
    Consistent
    OneRecovery
    Armed
PROPERTIES
    RecoveryReachesNotified
    LastingProblemIsTold
