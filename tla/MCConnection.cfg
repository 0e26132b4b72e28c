CONSTANTS
    LenBytes = 1
    Base = 6
    MaxMessage = 4
    SmallSize = 1
    AnswerSizes = {4, 5}
    Capacity = 10
    Crowded = {"dialer"}
    Readers = {"ui"}
    Writers = {"other"}
    Kept = {3}
    Late = {"acceptor"}
    MaxHeight = 1
SPECIFICATION FairSpec
INVARIANTS
    TypeOK
    LockHolderCanSend
PROPERTIES
    ImplementsChannels
    LockWaitsEnd
    EverythingDelivered
