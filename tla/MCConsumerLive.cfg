\* Fair runs with one crash, error or shutdown; ConsumerFunc may fail for ever.
CONSTANTS
    Writer = {w1}
    Ids = {1, 2}
    MaxTime = 1
    Inst = {a, b}
    NoHolder = NoHolder
    BatchSize = 2
    MaxRetries = 2
    Backoff = TRUE
    LeaseCoversPoll = TRUE
    MaxFaults = 1
    FailureBound = 2

SPECIFICATION TriesSpec
INVARIANTS
    SingleLeader
    DeadLettersBehindCursor
    OldestRetried
    HealthReflectsLeader
PROPERTIES
    EventuallyHandled
    FailureStateRecovers
