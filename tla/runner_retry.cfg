SPECIFICATION FairSpec
CONSTANTS
    Deliveries = {d1}
    Personas = {alice}
    Anonymous = anonymous
    NoRow = norow
    MaxRetries = 3
    Faults = {"raise"}
    MaxFaults = 1
PROPERTIES
    DispatchedScanSettles
