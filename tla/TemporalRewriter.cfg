SPECIFICATION Spec
CONSTANTS
    Databases <- MCDatabases
    Conditions <- MCConditions
    Projections <- MCProjections
    JoinConditions <- MCJoinConditions
    Aggregations <- MCAggregations
    TimeMin = 0
    TimeMax = 4
    MaxOps = 4
    Admit = {}
    Null = Null
INVARIANTS
    SnapshotReducible
    UniqueEncoding
    GroupsAligned
CHECK_DEADLOCK FALSE
