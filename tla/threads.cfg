SPECIFICATION FairSpec
CONSTANTS
    RequestCap = 2
    ResponseCap = 1
    ConsoleCap = 1
    MaxDrain = 1
    SockCap = 2
    AdapterCap = 1
    MaxRequests = 2
    MaxLines = 1
INVARIANTS
    EveryWakeUpHeard
    RingsInOrder
PROPERTIES
    TimersRun
    EveryRequestAnswered
    StopsWhenAsked
CHECK_DEADLOCK FALSE
