CONSTANTS
    Accounts = {a1}
    Values <- SampleValues
    MaxRows = 7
SPECIFICATION Spec
INVARIANTS
    TypeOK
    ScriptsSucceed
    SchemaOfRevision
    HeadMatchesModels
    DeletionComplete
PROPERTIES
    FactsKept
CHECK_DEADLOCK FALSE
