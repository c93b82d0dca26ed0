SPECIFICATION ControlSpec
CONSTANTS
    b1 = b1
    b2 = b2
    b3 = b3
    Bases <- MCBases
    Surfaces = {"actions", "none"}
    MaxCalls = 2
    NoBase = NoBase
    e1 = e1
    e2 = e2
    p1 = p1
    Efforts = {e1, e2}
    Prefix <- MCPrefix
    Branches = {"develop", "other"}
    Owners = {o1}
    Roots = {r1}
    NoValue = NoValue
    Services = {s1, s2}
    Versions = {v1, v2}
    Outputs = {"array", "lines"}
    MaxRevisions = 2
    MaxPlans = 1
    MaxMishaps = 1
    Envs = {n1, n2}
    Prefer = {"none", "sources"}
    NoEnv = NoEnv
    MaxRequests = 2
    MaxTroubles = 1
    Ids = {l1, l2}
    Workspaces = {w1, w2}
    Default = w1
    DevMode = {TRUE, FALSE}
    NoId = NoId
    Runs = {q1}
    NoRun = NoRun
    MaxFaults = 2
    Limit = 1
    Window = 2
    MaxEvents = 3
    MaxBreaks = 1
    RepoRoots <- MCRepoRoots
    Subpaths = {"service"}
    Files = {"x", "y"}
    MaxFiles = 3
    Contracts <- MCContracts
    Relations <- MCRelations
    LastStatus = 3
    Gates <- MCGates
    MaxBuilds = 2
    MaxActivations = 1
    MaxSetbacks = 1
    Slugs = {"default-registry"}
    DefaultSlug = "default-registry"
    Packs = {"k1"}
    CommandKeys = {"show", "extra"}
    DefaultKeys = {"show"}
    MaxAttempts = 2
    MaxEditions = 2
    MaxEdits = 2
    MaxEnds = 1
    SubPaths = {"app"}
    MaxArtifacts = 2
    MaxRoles = 2
INVARIANTS
    ControlTypeOK
    ControlActionOnce
    PromotedIsRecorded
    PlansAreWhole
    RuntimeIsBacked
    TenancyHolds
    TrailIsTrue
    FeedIsOrdered
    ProvenanceIsNotDenied
    PassableAppsPass
    RootDownIsAccounted
    RootUiHidesNothing
PROPERTIES
    CallsAreAnswered
    EffortsMoveForward
    DestroyedStaysDown
    DriftIsRepaired
    
    StreamDelivers
    NoOlderBuildReturns
    
CHECK_DEADLOCK FALSE
