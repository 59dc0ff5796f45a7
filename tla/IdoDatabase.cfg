CONSTANTS
    ProcessOptions <- AllCallbacks
    Stories <- TheStories
    Servers <- TheServers
    LastSecond = 2
    KeepOn = 2
    MaxPipe = 0
    MaxLosses = 1
SPECIFICATION Spec
INVARIANTS
    ActiveAreDefined
    RowsAreUnique
PROPERTIES
    KeepsRecord
CHECK_DEADLOCK FALSE
