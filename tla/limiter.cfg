SPECIFICATION Spec
CONSTANTS
    Workers = {w1, w2}
    Fast = {w1}
    Skew = 1
    Burst = 2
    BucketTTL = 2
    MaxTries = 2
    Ops = {"acquire", "backpressure", "success"}
    MaxTime = 2
    MaxReports = 2
    MaxTurns = 2
INVARIANTS
    TypeOK
    NeverOverIssued
    WindowBounded
PROPERTY
    TryAcquireIsAtomic
\* The clock stops at MaxTime.
CHECK_DEADLOCK FALSE
