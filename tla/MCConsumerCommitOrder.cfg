\* A transaction that starts first and commits last.
CONSTANTS
    Writer = {w1, w2}
    Ids = {1, 2}
    MaxTime = 2
    Inst = {a}
    NoHolder = NoHolder
    BatchSize = 1
    MaxRetries = 2
    Backoff = FALSE
    LeaseCoversPoll = TRUE
    MaxFaults = 0
    FailureBound = 2
SPECIFICATION Spec
INVARIANT
    NoEventSkipped
