CONSTANTS
    Tx <- MCTx
    ZeroTxId = "zero"
    Inputs <- MCInputs
    Outputs <- MCOutputs
    InitialReward = 4
    HalvingInterval = 2
    U64 = 1024
    U16 = 2
    Block <- CleanBlock
    NoBlock = "none"
    Genesis = "g"
    Prev <- CleanPrev
    Body <- CleanBody
    PowOk <- CleanPow
    Root <- CleanRoot
    MaxHeight = 4
    MaxCrashes = 0
    MaxFailures = 0
    WordBits = 3
    Ratio = 2
    EntropyLengths = {4, 8}
    WordCounts = {2, 4}
    HashBits <- MCHashBits
    Text <- MCText
    KeyOf <- MCKeyOf
    Recipient = {"alice", "bob", "typo"}
    Addresses = {"alice", "bob"}
    NewTx = "new"
    MaxSend = 5
SPECIFICATION Spec
INVARIANTS
    MemoryMatchesDisk
    UtxoIsReplay
    SupplyWithinRewards
    SpentOncePerCreation
    RootFixesBody
    SendIsValid
PROPERTY
    ImplementsLedger
