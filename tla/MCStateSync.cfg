SPECIFICATION Spec
CONSTANTS
    Clients = {a}
    Others = TRUE
    MaxRevision = 2
    MaxHistory = 1
    MaxPendingEvents = 1
    MaxInFlight = 2
    MaxFaults = 1
INVARIANTS ReplicaExact NothingMissed
PROPERTIES NeverShownOlder
CHECK_DEADLOCK FALSE
