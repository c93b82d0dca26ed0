SPECIFICATION Spec
CONSTANTS
    Runs = {r1}
    Workers = {1, 2}
    Loops = {1, 2}
    LastStep = 2
    Policies <- MCRetryPolicy
    Ops = {}
    MaxContinues = 0
    MaxFaults = 0
    NoWorker = NoWorker
    NoRun = NoRun
    Nothing = Nothing
INVARIANTS RunningIsRecoverable
