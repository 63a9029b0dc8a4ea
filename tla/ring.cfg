SPECIFICATION RingSpec
CONSTANTS
    Items = {a, b}
    Capacity = 2
    Nothing = Nothing
    MaxPut = 7
INVARIANTS
    NoSharedSlot
PROPERTIES
    IsBoundedQueue
CHECK_DEADLOCK FALSE
