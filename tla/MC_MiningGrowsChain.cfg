CONSTANTS
    Tx <- MCTx
    ZeroTxId = "zero"
    Inputs <- MCInputs
    Outputs <- MCOutputs
    InitialReward = 6
    HalvingInterval = 100
    U64 = 1024
    U16 = 2
    GenesisBody <- MCGenesis
    OwnCoinbase <- Own
    PeerBodies <- MCPeerBodies
    MaxHeight <- MCMaxHeight
SPECIFICATION FairSpec
PROPERTY
    MiningGrowsChain
