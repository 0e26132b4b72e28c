CONSTANTS
    Tx <- MCTx
    ZeroTxId = "zero"
    Inputs <- MCInputs
    Outputs <- MCOutputs
    InitialReward = 4
    HalvingInterval = 2
    U64 = 1024
    U16 = 2
    Block <- CrashBlock
    NoBlock = "none"
    Genesis = "g"
    Prev <- CrashPrev
    Body <- CrashBody
    PowOk <- CrashPow
    Root <- CrashRoot
    MaxHeight = 4
    MaxCrashes = 2
    MaxFailures = 2
    WordBits = 3
    Ratio = 2
    EntropyLengths = {4, 8}
    WordCounts = {2, 4}
    HashBits <- MCHashBits
    Text <- MCText
    KeyOf <- MCKeyOf
    Recipient = {"alice", "bob", "typo"}
    Addresses = {"alice", "bob"}
    NewTx = "new"
    MaxSend = 5
SPECIFICATION Spec
INVARIANTS
    TypeOK
    NamesNeverDangle
    OnlyGenesisUnloadable
    HeightLag
    TornByOneBlock
    StrandedBlocks
    LwmaDataExcess
PROPERTY
    CrashKeepsPrefix
