SPECIFICATION FairSpec
CONSTANTS
    MaxHead = 4
    Chunk = 2
    ConnectTicks = 2
    IoTicks = 2
    MaxSends = 2
INVARIANTS
    OutcomeOfStream
    WaitsAreBounded
PROPERTIES
    ExchangeEnds
CHECK_DEADLOCK FALSE
