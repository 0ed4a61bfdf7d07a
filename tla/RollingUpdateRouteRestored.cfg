CONSTANTS
    MaxReplicas = 1
    Updates <- FailsForGood
    NoStatus = NoStatus

SPECIFICATION UpdateSpec

INVARIANTS
    DrainedAreUnrouted
