SPECIFICATION FairSpec
CONSTANTS
    Addresses = {v1, v2}
    NoAdapter = {TRUE, FALSE}
    MaxStarts = 2
    MaxRooms = 2
INVARIANTS
    AddressKept
    EndIsClean
PROPERTIES
    StopEnds
CHECK_DEADLOCK FALSE
