SPECIFICATION MCStorageSpec
CONSTANTS
    Keys = {k1}
    Values = {1}
    MaxOperations = 1
    MaxBytes = 100
    Limits <- SmallLimits
    Clients = {c1}
    Schemas = {0, 1}
    Imported <- TwoSnapshots
    MaxGeneration = 3
    MaxCorruptions = 1
    NoFile = NoFile
    Corrupt = Corrupt
    TargetSchema = 1
INVARIANTS
    OneFileCanBeLost TokenNamesState MigrationIsAccountable
PROPERTY
    ImplementsRevisionedStore
\* Commits stop at MaxGeneration.
CHECK_DEADLOCK FALSE
