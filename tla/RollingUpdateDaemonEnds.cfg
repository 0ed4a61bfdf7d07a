CONSTANTS
    MaxReplicas = 1
    Updates <- RestartsOnce
    NoStatus = NoStatus

SPECIFICATION UpdateSpec

INVARIANTS
    DaemonStaysUp
