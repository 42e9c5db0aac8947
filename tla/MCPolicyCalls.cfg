SPECIFICATION FairSpec
CONSTANTS
    Providers = {p1}
    Calls = {c1, c2}
    MaxRetries = 1
    BaseDelay = 1
    TimeoutMs = 1
    Threshold = 2
    ResetMs = 2
    NoProvider = none
INVARIANTS
    TypeOK
    BreakerConsistent
    OneLiveAttempt
    NoReplay
    FailuresBounded
PROPERTIES
    FailuresAreCharged
    ImplementsBreaker
    OnceTerminates
    BreakerRecovers
