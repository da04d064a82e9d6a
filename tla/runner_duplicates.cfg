SPECIFICATION Spec
CONSTANTS
    Deliveries = {d1, d2}
    Personas = {alice}
    Anonymous = anonymous
    NoRow = norow
    MaxRetries = 1
    Faults = {}
    MaxFaults = 0
INVARIANTS
    OutcomeHasEvidence
    SurfaceHasSessions
PROPERTIES
    WithdrawalHeeded
