CONSTANTS
    Host = {"router", "server"}
    Highest = 3
    Configs <- All
CHECK_DEADLOCK FALSE
SPECIFICATION FairSpec
INVARIANTS
    EarnedHard
    OneCheck
PROPERTIES
    HardProblemStaysHard
    Converges
