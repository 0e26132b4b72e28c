CONSTANTS
    Node <- Pair
    Dials <- PairDials
    Miners <- Nobody
    InitialTip <- LongTips
    Count = 2
    MaxHeight = 4
    Fragile <- Pair
    MaxBreaks = 0
CHECK_DEADLOCK FALSE
SPECIFICATION FairSpec
PROPERTY
    InitialSync
