CONSTANTS
    Names = {a, b}
    NoPlan = NoPlan
    NoRecord = NoRecord
    MaxEvents = 4
    MaxHistory = 2
    MaxRollouts = 2

SPECIFICATION Spec

PROPERTY
    JournalledPhaseRecovered

CHECK_DEADLOCK FALSE
