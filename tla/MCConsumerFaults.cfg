\* Two instances, one fault of any kind, and no bound on how long a poll takes.
CONSTANTS
    Writer = {w1, w2}
    Ids = {1, 2}
    MaxTime = 1
    Inst = {a, b}
    NoHolder = NoHolder
    BatchSize = 1
    MaxRetries = 2
    Backoff = TRUE
    LeaseCoversPoll = FALSE
    MaxFaults = 1
    FailureBound = 2
SYMMETRY Symmetry
SPECIFICATION Spec
INVARIANTS
    TypeOK
    NoInOrderEventSkipped
    InOrderDelivery
PROPERTIES
    CursorMonotonic
    RefinesDelivery
