CONSTANTS
    t1 = t1
    t2 = t2
    t3 = t3
    home = home
    east = east
    west = west
    eph = eph
    Task <- MCTask
    Listening <- MCListening
    Ephemeral <- MCEphemeral
    Loopback = home
    Configured <- NoneConfigured
    MAX_OUTBOUND = 1
    MaxQueue = 2
    MaxLost = 2
SYMMETRY TaskSymmetry
SPECIFICATION Spec
INVARIANT OutboundBounded
