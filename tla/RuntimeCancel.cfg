SPECIFICATION FairSpec
CONSTANTS
    Runs = {r1}
    Workers = {1}
    Loops = {1}
    LastStep = 2
    Policies <- MCRetryPolicy
    Ops = {"cancel"}
    MaxContinues = 0
    MaxFaults = 0
    NoWorker = NoWorker
    NoRun = NoRun
    Nothing = Nothing
PROPERTIES StatusTransitionsAllowed
