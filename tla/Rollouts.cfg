SPECIFICATION RolloutsSpec
CONSTANTS
    Names = {a, b}
    NoPlan = NoPlan
    NoRecord = NoRecord
    MaxEvents = 4
    MaxHistory = 1
    MaxRollouts = 2
    NoStatus = NoStatus
    Updates <- Shapes
    MaxReplicas = 3
SYMMETRY NameSymmetry
INVARIANTS
    CheckpointReadable
    CollidesByRollbackOnly
    SurgeBound
    CheckpointsAgree
    AvailabilityKept
    IdleAtCeilingOnly
    ObservationStaysValid
    NeverIdle
PROPERTIES
    ImplementsAtomicRollout
    RouteRemovedFirst
\* The journal and the archive are finite and nothing is removed from them; an
\* update that has completed, or rolls back, takes no further decision.
CHECK_DEADLOCK FALSE
