SPECIFICATION PackFairSpec
CONSTANTS
    RunIds = {1, 2, 3}
    Workers = {w1, w2}
    Kinds = {"all", "any", "install"}
    Keys = {k1, k2}
    MaxEnqueued = 2
    MaxFaults = 2
    NoWorker = NoWorker
    NoRun = NoRun
    NoKey = NoKey
INVARIANTS PackTypeOK ChildrenServeTheirParent InstalledIsWhole
  
\* The queue rests when nothing is queued, or when no worker is left.
CHECK_DEADLOCK FALSE
