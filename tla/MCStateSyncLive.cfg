SPECIFICATION LiveSpec
CONSTANTS
    Clients = {a}
    Others = TRUE
    MaxRevision = 1
    MaxHistory = 0
    MaxPendingEvents = 1
    MaxInFlight = 2
    MaxFaults = 2
PROPERTIES ObservedBecomesCurrent RecoveryEnds
CHECK_DEADLOCK FALSE
