SPECIFICATION Spec
CONSTANTS
    Workers = {w1, w2}
    Fast = {w1}
    Skew = 2
    Burst = 1
    BucketTTL = 2
    MaxTries = 2
    Ops = {"acquire"}
    MaxTime = 4
    MaxReports = 0
    MaxTurns = 3
INVARIANTS
    CorrectAcrossHosts
\* The clock stops at MaxTime.
CHECK_DEADLOCK FALSE
