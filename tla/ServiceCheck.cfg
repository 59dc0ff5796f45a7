CONSTANTS
    Problems = {"WARNING", "CRITICAL"}
    MaxAttempts = {1, 3}
    NewAttempts = {2}
    MaxProblems = 2
SPECIFICATION FairSpec
INVARIANTS
    RestIsConsistent
    ProblemKeepsId
PROPERTIES
    HardRecoveryIfLeftAlone
    StickyAckStays
    ProblemBecomesHard
