CONSTANTS
    Objects = {"host", "service"}
    Hosts = {"host"}
    Downtimes <- Overlapping
    MaxTime = 3
    MaxCount = 3
    MaxRestarts = 1
SPECIFICATION FairSpec
INVARIANTS
    CountersMatch
    TriggeredWithin
PROPERTIES
    FixedEnds
