SPECIFICATION Spec
CONSTANTS
    Null = Null
    Value <- MCValue
    TableAttrs <- MCTableAttrs
    NotNullAttrs <- MCNotNullAttrs
    Databases <- MCDatabases
    MaxOps = 4
    MaxRows = 5
    Admit = {}
INVARIANTS
    ResultPreserved
    ProvenanceSuffices
    SchemaConsistent
    ParentLinks
    ProvNamesUnique
    NotNullSound
    AssertionsHold
CHECK_DEADLOCK FALSE
