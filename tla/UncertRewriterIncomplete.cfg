SPECIFICATION Spec
CONSTANTS
    Databases <- MCIncompleteDatabases
    Conditions <- MCConditions
    Projections <- MCProjections
    Aggregations <- MCAggregations
    Values = {0, 1}
    MaxOps = 3
    MaxInputs = 2
    MaxWidth = 4
    Admit = {"incomplete"}
    NULL = NULL
INVARIANTS
    CertainAnswers
CHECK_DEADLOCK FALSE
