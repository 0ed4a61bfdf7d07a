CONSTANTS
    MaxReplicas = 1
    Updates <- FailsForGood
    NoStatus = NoStatus

SPECIFICATION FairUpdateSpec

PROPERTIES
    DrainsEnd
