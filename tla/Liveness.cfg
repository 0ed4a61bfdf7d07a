CONSTANTS
    MaxReplicas = 1
    Updates <- ProcessDies
    NoStatus = NoStatus

    Calls = {c1}
    NoCall = NoCall

SPECIFICATION LiveSpec

PROPERTIES
    UpdateSettles
    CallsEnd

\* A service may be left without runs and calls.
CHECK_DEADLOCK FALSE
