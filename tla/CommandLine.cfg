SPECIFICATION Spec
CONSTANTS
    NULL = NULL
    Ctx <- MCCtx
    Name <- MCName
    ctxName <- MCctxName
    LongLived <- MCLongLived
    defaultCtx <- MCdefault
    Metadata <- MCMetadata
    wipeContext = "QUERY"
    QueryName = "QUERY"
    StageName = "STAGE"
    ProcessName = "PROCESS"
    ConfName = "READ_CONF"
    Stages <- MCStages
    MaxDepth = 4
INVARIANTS
    StackSound
    HandlerChain
    HandledOnce
    PromptIsClean
PROPERTIES
    FailureIsHandled
CHECK_DEADLOCK FALSE
