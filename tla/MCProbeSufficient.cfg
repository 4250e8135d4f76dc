SPECIFICATION Spec
CONSTANTS
    None = None
    Bad = Bad
    h1 = h1
    h2 = h2
    h3 = h3
    h4 = h4
    h5 = h5
    Chain <- MCChain
    Answers <- MCAnswers
    StartLedger = 1
    Want = 3
    MaxPages = 2
    PageSize = 4
    MaxLedger = 7
    MaxCaptures = 1
INVARIANTS
    SufficientMeansAllPresent
CHECK_DEADLOCK FALSE
