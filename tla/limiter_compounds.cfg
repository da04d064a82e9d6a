SPECIFICATION Spec
CONSTANTS
    Workers = {w1, w2}
    Fast = {}
    Skew = 0
    Burst = 1
    BucketTTL = 1
    MaxTries = 1
    Ops = {"backpressure"}
    MaxTime = 0
    MaxReports = 2
    MaxTurns = 1
INVARIANTS
    BackpressureCompounds
\* The reports are bounded by MaxReports.
CHECK_DEADLOCK FALSE
