CONSTANTS
    Base = 4
    Bytes = 6
    LWMA_WINDOW = 3
    TARGET_BLOCK_TIME = 2
    Unreachable = 1000000
    SolveTimes <- MCSolveTimes
    PeerCompacts <- MCPeerCompacts
    MaxHeight = 4
SPECIFICATION Spec
INVARIANTS
    TypeOK
    ScoresOfHeaders
    SteadyOnTime
    PushesTheRightWay
    ScoreStepBounded
