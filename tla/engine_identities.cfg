SPECIFICATION EngineSpec
CONSTANTS
    Calls = {c1, c2}
    Personas = {alice}
    Anonymous = anonymous
    MaxRetries = 2
    Faults = {}
INVARIANTS
    IdentitiesSeparate
\* Every call ends.
CHECK_DEADLOCK FALSE
