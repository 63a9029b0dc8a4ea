SPECIFICATION FairSpec
CONSTANTS
    Peers = {p1, p2, p3}
    HostPeer = p1
    MaxOthers = 2
    MaxTries = 2
    MaxAttempts = 2
INVARIANTS
    LobbyInStep
    AnswerIsOfThisAttempt
    NeverStuck
PROPERTIES
    DepartedIsReported
    AttemptsMoveOn
CHECK_DEADLOCK FALSE
