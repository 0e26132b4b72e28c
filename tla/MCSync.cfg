CONSTANTS
    Node <- Three
    Dials <- ThreeDials
    Miners <- OnlyB
    InitialTip <- ThreeTips
    Count = 1
    MaxHeight = 2
    Fragile <- OnlyA
    MaxBreaks = 1
CHECK_DEADLOCK FALSE
SPECIFICATION FairSpec
INVARIANTS
    TypeOK
    OneSideFetches
    AnswersFollow
PROPERTY
    SyncsWithinBatch
