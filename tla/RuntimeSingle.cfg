SPECIFICATION FairSpec
CONSTANTS
    Runs = {r1, r2}
    Workers = {1, 2}
    Loops = {2}
    LastStep = 2
    Policies <- MCRetryPolicy
    Ops = {"retry"}
    MaxContinues = 0
    MaxFaults = 1
    NoWorker = NoWorker
    NoRun = NoRun
    Nothing = Nothing
INVARIANTS TypeOK BlockedIsEscalated CompletedOnceAndWhole 
PROPERTY StatusTransitionsAllowed
