SPECIFICATION FairSpec
CONSTANTS
    Runs = {r1}
    Workers = {1}
    Loops = {1}
    LastStep = 2
    Policies <- MCRetryPolicy
    Ops = {"continue", "cancel", "pause"}
    MaxContinues = 1
    MaxFaults = 1
    NoWorker = NoWorker
    NoRun = NoRun
    Nothing = Nothing
INVARIANTS RetryBudget
PROPERTIES EveryRunSettles
