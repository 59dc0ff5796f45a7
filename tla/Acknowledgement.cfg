CONSTANTS
    Problems = {"WARNING", "CRITICAL"}
    Ends = {0, 1, 2}
    Persistence = {FALSE, TRUE}
    MaxTime = 3
    MaxEvents = 1
SPECIFICATION FairSpec
INVARIANTS
    ExpiryScheduled
    CommentsFollowAck
PROPERTY
    ExpiringAckEnds
