SPECIFICATION Spec
CONSTANTS
    Slots = 2
    MaxEvents = 3
    MaxPipe = 1
    MaxFaults = 2
INVARIANT InOrder
PROPERTY Arrives
