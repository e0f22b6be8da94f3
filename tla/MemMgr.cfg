SPECIFICATION Spec
CONSTANTS
    d = d
    q1 = q1
    q2 = q2
    t = t
    m = m
    NULL = NULL
    defaultCtx = d
    Ctx <- MCCtx
    Name <- MCName
    ctxName <- MCctxName
    LongLived <- MCLongLived
INVARIANTS
    DefaultAtBottom
    NoDanglingContext
PROPERTIES
    LongLivedSurvivesWipe
    StackDiscipline
CHECK_DEADLOCK FALSE
