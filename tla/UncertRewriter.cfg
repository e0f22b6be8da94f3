SPECIFICATION Spec
CONSTANTS
    Databases <- MCDatabases
    Conditions <- MCConditions
    Projections <- MCProjections
    Aggregations <- MCAggregations
    Values = {0, 1}
    MaxOps = 5
    MaxInputs = 2
    MaxWidth = 4
    Admit = {}
    NULL = NULL
INVARIANTS
    CertainAnswers
    BestGuess
    
CHECK_DEADLOCK FALSE
