SPECIFICATION Spec
CONSTANTS
    Chain <- MCChain
    Lo = 1
    Hi = 5
    Count = 2
    Tips <- MCTips
    PageSize = 2
    MaxRuns = 1
    Garbage = Garbage
    None = None
INVARIANT OnlyWholeLedgersAreUsed
CHECK_DEADLOCK FALSE
