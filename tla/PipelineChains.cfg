SPECIFICATION Spec
CONSTANTS
    DraftIds = {d1}
    Apps = {x}
    Keys = {k}
    MaxPatches = 0
    MaxActivates = 1
    MaxFaults = 2
    AutoCreate = FALSE
    NoDraft = NoDraft
    NoApp = NoApp
    NoKey = NoKey
    Nothing = Nothing
INVARIANTS TypeOK ChainAdvancesOnce ResultsAreEarned ActivationFollowsItsChain
PROPERTY ImplementsPipelines
\* The system rests when nothing is queued and the bounds are used up.
CHECK_DEADLOCK FALSE
