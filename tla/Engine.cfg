SPECIFICATION EngineSpec
CONSTANTS
    c1 = c1
    c2 = c2
    Calls = {c1, c2}
    NoCall = NoCall
    MaxRuns = 2
    MaxReplicas = 1
    MaxQueued = 1
    MaxReady = 1
    q1 = q1
    q2 = q2
    MaxInstances = 2
    Requests = {q1, q2}
    MaxClients = 2
    Skew = 1
    Retention = 2
    MaxReplayIds = 2
    MaxTime = 4
    Replicas = {1}
    Probed = {1}
    Restart <- RestartOnFailure
    MaxRestarts = 1
    Threshold = 2
    MaxWorkers = 1
    MaxReports = 2
    MaxClock = 2
    MaxBoots = 2
INVARIANTS
    DeliveredAtMostOnce
    AnswersAreReal
    
    ExecutedAtMostOnce
    NoMutationAfterShutdown
    EndpointIsOwn
    OnlyTheClockRefuses
    WorkersObeyPolicy
CHECK_DEADLOCK FALSE
