SPECIFICATION Spec
CONSTANTS
    DraftIds = {d1}
    Apps = {x}
    Keys = {k}
    MaxPatches = 0
    MaxActivates = 0
    MaxFaults = 1
    AutoCreate = TRUE
    NoDraft = NoDraft
    NoApp = NoApp
    NoKey = NoKey
    Nothing = Nothing
PROPERTIES DraftsFollowLifecycle
\* The system rests when nothing is queued and the bounds are used up.
CHECK_DEADLOCK FALSE
