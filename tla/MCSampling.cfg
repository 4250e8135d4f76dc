SPECIFICATION Spec
CONSTANTS
    None = None
    c1 = c1
    c2 = c2
    c3 = c3
    c4 = c4
    w1 = w1
    w2 = w2
    w3 = w3
    Contract = {c1, c2, c3, c4}
    Wasm = {w1, w2, w3}
    Populations <- MCPopulations
    Deployments <- MCDeployments
    Split = 2
    SubmitterCap = 3
    MaxChanges = 2
    MaxOutages = 2
    MaxRestarts = 1
INVARIANTS
    TypeOK
    EligibleIsClustered
    OutagesAreArtefacts
    OneAnswerPerContract
    CapsHold
    NothingLeftOut
CHECK_DEADLOCK FALSE
