CONSTANTS
    t1 = t1
    t2 = t2
    t3 = t3
    home = home
    east = east
    west = west
    eph = eph
    Task <- MCTask
    Listening <- MCListening
    Ephemeral <- MCEphemeral
    Loopback = home
    Configured <- MCConfigured
    MAX_OUTBOUND = 2
    MaxQueue = 2
    MaxLost = 1
SYMMETRY TaskSymmetry
SPECIFICATION Spec
INVARIANTS
    TypeOK
    TableExplained
PROPERTY LostForGood
