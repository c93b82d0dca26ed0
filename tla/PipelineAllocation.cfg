SPECIFICATION Spec
CONSTANTS
    DraftIds = {d1}
    Apps = {x}
    Keys = {k}
    MaxPatches = 0
    MaxActivates = 0
    MaxFaults = 0
    AutoCreate = FALSE
    NoDraft = NoDraft
    NoApp = NoApp
    NoKey = NoKey
    Nothing = Nothing
INVARIANTS AllocationFailureFailsActivation
\* The system rests when nothing is queued and the bounds are used up.
CHECK_DEADLOCK FALSE
