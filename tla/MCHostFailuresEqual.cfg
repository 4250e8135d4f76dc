SPECIFICATION HostedSpec
CONSTANTS
    None = None
    c1 = c1
    c2 = c2
    c3 = c3
    Contract = {c1, c2, c3}
    Code = {"1", "2"}
    Registry <- Builtin
    Transactions <- MCTransactions
    Results <- AllResults
    Address <- MCAddress
    Key <- MCKey
    Ledger = 2
    NamesOf <- MCNamesOf
    UpgradesTo = {"w3"}
    MaxErrors = 4
INVARIANTS
    ConfirmedMissingEndedIt
CHECK_DEADLOCK FALSE
