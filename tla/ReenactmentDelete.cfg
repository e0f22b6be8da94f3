SPECIFICATION Spec
CONSTANTS
    Table <- MCTable
    Databases <- MCDatabases
    Transactions <- MCTransactions
    Isolation <- MCIsolation
    Options <- MCOptions
    OtherWrites <- MCOtherWrites
    MaxCommits = 2
    Null = Null
    None = None
    Fatal = Fatal
INVARIANT
    ReadCommittedDelete
CHECK_DEADLOCK FALSE
