SPECIFICATION Spec
CONSTANTS
    NULL = NULL
    Ctx <- MCCtx
    Name <- MCName
    ctxName <- MCctxName
    LongLived <- MCLongLived
    defaultCtx <- MCdefault
    Metadata <- MCMetadata
    QueryName = "QUERY"
    StageName = "STAGE"
    LibName = "LIBRARY"
    Stages <- MCStages
    wipeContext = "LIBRARY"
    MaxDepth = 3
    Thread = {t1, t2}
    Op = {"gprom_rewriteQuery", "gprom_costQuery"}
    Answers = {"ABORT", "DIE"}
INVARIANTS
    OutcomeIsOwn
    LibHandlerChain
    
PROPERTIES
    FailureReleasesLock
CHECK_DEADLOCK FALSE
