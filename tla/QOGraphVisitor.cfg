SPECIFICATION Spec
CONSTANTS
    NULL = NULL
    Ctx <- MCCtx
    Name <- MCCtx
    ctxName <- MCctxName
    LongLived = {}
    NumOps = 4
    MaxInputs = 2
    full <- MCfull
INVARIANTS
    VisitedOnce
    AllVisited
    VisitOrder
    StackRestored
PROPERTIES
    Terminates
CHECK_DEADLOCK FALSE
