SPECIFICATION RuntimeSpec
CONSTANTS
    Keys = {1, 2, 3}
    Values = {0, 1, 2}
    MaxOperations = 2
    MaxBytes = 4
    Limits <- SmallLimits
    MemoryClients = {g1}
    MemorySchemas = {0, 1}
    MaxRevision = 3
    MaxCalls = 3
    MaxEvents = 2
    MaxRandom = 1
    Pending = 1
    GuestKeys = {1, 2}
    Exchanges <- SomeExchanges
    BatchRequests <- SomeBatches
    MaxWindows = 1
    MaxPixels = 2
    MaxFrames = 3
    MaxCaptured = 4
    MaxRenders = 1
    MaxSound = 2
    MaxHandles = 2
INVARIANTS
    RecordingsAreExact ReplayIsExact MemoryIsExact
\* Runs end, and the memory backend stops at MaxRevision.
CHECK_DEADLOCK FALSE
