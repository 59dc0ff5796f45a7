CONSTANTS
    Services = {"plain", "special"}
    OnDemand = {"special"}
    Freshness = {"special"}
    MaxParallel = 2
    Interval = 1
    Slack = 0
    CommandTimes = {1}
    Faults = {"FORK", "LOST", "RESTART"}
    MaxFaults = 1
    MaxFlight = 2
SPECIFICATION FairSpec
INVARIANTS
    OneEvent
    OptionsAgree
    Watched
    CountIsBounded
PROPERTIES
    ForcedStays
    Rechecked
