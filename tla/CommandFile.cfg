CONSTANTS
    Slots = 2
    ReadAhead = 3
    MaxPipe = 6
    MaxModule = 2
    MaxReload = 1
    DefaultSlots = 2
    ReloadSlots = {2}
    NoCmd = NoCmd
SPECIFICATION FairSpec
INVARIANTS
    RingConsistent
PROPERTIES
    ImplementsQueue
    OnlyReadAheadStrands
\* The daemon may be shut down.
CHECK_DEADLOCK FALSE
