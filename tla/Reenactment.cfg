SPECIFICATION Spec
CONSTANTS
    Table <- MCTable
    Databases <- MCDatabases
    Transactions <- MCTransactions
    Isolation <- MCIsolation
    Options <- MCOptions
    OtherWrites <- MCOtherWrites
    MaxCommits = 2
    Null = Null
    None = None
    Fatal = Fatal
INVARIANTS
    ReenactedState
    OnlyUpdatedComplete
    OnlyUpdatedExact
CHECK_DEADLOCK FALSE
