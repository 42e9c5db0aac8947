SPECIFICATION Spec
CONSTANTS
    p1 = p1
    p2 = p2
    Providers = {p1, p2}
    MaxRetries = 1
    BaseDelay = 1
    TimeoutMs = 1
    Threshold = 2
    ResetMs = 1
    NoProvider = none
    Requests = {r1}
    Chains <- MCChains
    MaxChain = 2
    IdleMs = 1
    MaxEvents = 2
    MaxFailures = 2
INVARIANTS
    CallerAbortMeansClientGone
CHECK_DEADLOCK FALSE
