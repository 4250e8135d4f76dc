SPECIFICATION Spec
CONSTANTS
    Chain <- MCChain
    Lo = 1
    Hi = 5
    Count = 2
    Tips <- MCTips
    PageSize = 2
    MaxRuns = 3
    Garbage = Garbage
    None = None
INVARIANTS
    TypeOK
    EachTearLosesAtMostOne
PROPERTIES
    PopulationIsWhole
    NeverReadTwice
    CensusEnds
CHECK_DEADLOCK FALSE
