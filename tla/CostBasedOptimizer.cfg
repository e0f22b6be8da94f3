SPECIFICATION Spec
CONSTANTS
    Query <- MCQuery
    Plugin <- MCPlugin
    MaxOptions = 3
    Rounds = 3
    PLAN_MAX_COST = 9
    NoPlan = NoPlan
INVARIANTS
    ReplayFitsPlan
    BalancedCovers

    
CHECK_DEADLOCK FALSE
