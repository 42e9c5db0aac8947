SPECIFICATION UsageFairSpec
CONSTANTS
    p1 = p1
    p2 = p2
    Providers = {p1, p2}
    Observing = {p1}
    MaxRetries = 1
    BaseDelay = 1
    TimeoutMs = 1
    Threshold = 1
    ResetMs = 1
    NoProvider = none
    Requests = {r1}
    Chains <- MCChains
    MaxChain = 2
    IdleMs = 1
    MaxEvents = 2
    MaxFailures = 1
INVARIANTS
    UsageTypeOK
    NoSplice
    LiveUpstreamIsWanted
    ObservationsLive
    RecordIsOfTheAnswer
PROPERTIES
    CompletedOnce
    ImplementsExchange
    RequestEnds
\* A request is served, and its slot stays empty.
CHECK_DEADLOCK FALSE
