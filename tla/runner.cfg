SPECIFICATION FairSpec
CONSTANTS
    Deliveries = {d1}
    Personas = {alice, bob}
    Anonymous = anonymous
    NoRow = norow
    MaxRetries = 2
    Faults = {"raise", "crash", "drop"}
    MaxFaults = 2
INVARIANTS
    TypeOK
    RowsTellTheState
    MachineInSync
    DegradedIsSaid
    SurfaceMatchesLogins
    FailedAuthMeansNobody
PROPERTIES
    LifecycleSpec
    RecordIsKept
    ScanSettles
    DeliveriesEnd
