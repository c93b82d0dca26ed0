SPECIFICATION FairSpec
CONSTANTS
    DraftIds = {d1}
    Apps = {x}
    Keys = {k}
    MaxPatches = 1
    MaxActivates = 1
    MaxFaults = 1
    AutoCreate = FALSE
    NoDraft = NoDraft
    NoApp = NoApp
    NoKey = NoKey
    Nothing = Nothing
INVARIANT InstalledSiblingIsUnique
PROPERTY QueueDrains
\* The system rests when nothing is queued and the bounds are used up.
CHECK_DEADLOCK FALSE
