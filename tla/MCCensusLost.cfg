SPECIFICATION Spec
CONSTANTS
    Chain <- MCChain
    Lo = 1
    Hi = 5
    Count = 2
    Tips <- MCTips
    PageSize = 2
    MaxRuns = 3
    Garbage = Garbage
    None = None
INVARIANT NothingReadIsLost
CHECK_DEADLOCK FALSE
