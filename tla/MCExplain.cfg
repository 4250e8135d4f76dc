SPECIFICATION ExplainSpec
CONSTANTS
    None = None
    c1 = c1
    c2 = c2
    c3 = c3
    w1 = w1
    w2 = w2
    w3 = w3
    Contract = {c1, c2, c3}
    Code = {"1", "2", "3"}
    Wasm = {w1, w2, w3}
    NamesOf <- MCNamesOf
    Transactions <- MCTransactions
    Deployments <- MCDeployments
    MaxChanges = 2
INVARIANTS
    TypeOK
    AskedForWhatIsReported
    AskedOnce
    NamesComeFromTheContract
    OneCodeOneSpec
PROPERTY ExplainEnds
CHECK_DEADLOCK FALSE
