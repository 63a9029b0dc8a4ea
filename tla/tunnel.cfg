SPECIFICATION FairSpec
CONSTANTS
    Peers = {1, 2}
    Vips = {1, 2}
    Nonces = {1, 2}
    KeepCap = 1
    Resends = 1
    MaxGeneration = 1
    MaxCount = 3
    MaxDrain = 2
    MaxEchoes = 2
    MaxPeers = 3
    MaxNameLen = 2
INVARIANTS
    SessionsSound
    RosterSound
PROPERTIES
    GuestNeverGoesBack
    RosterReachesGuest
    SendCommandEnds
CHECK_DEADLOCK FALSE
