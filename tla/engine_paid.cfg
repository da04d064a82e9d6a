SPECIFICATION EngineSpec
CONSTANTS
    Calls = {c1}
    Personas = {alice}
    Anonymous = anonymous
    MaxRetries = 2
    Faults = {}
INVARIANTS
    EveryRequestPaid
\* Every call ends.
CHECK_DEADLOCK FALSE
