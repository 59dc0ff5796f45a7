CONSTANTS
    Problems = {"WARNING", "CRITICAL"}
    Configs <- Flappers
    MAX_STATE_HISTORY_ENTRIES = 4
    LowThreshold = 30
    HighThreshold = 50
    NumberCap = 5
    MaxCommands = 0
SPECIFICATION Spec
PROPERTY FlappingRecoveryIsTold
