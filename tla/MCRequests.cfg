SPECIFICATION RequestsSpec
CONSTANTS
    Proplets = {1, 2}
    Callers = {c1, c2}
    Broadcast = TRUE
    Pin = 1
    Listings <- OneListing
    MaxInvocations = 3
    MaxLosses = 0
    MaxDups = 1
    MaxRestarts = 0
    mqtt = mqtt
INVARIANTS
    
    
    DagFunctionsExact
    
    OwnAnswer
    ExecutedOnce
    PendingExact
    
CHECK_DEADLOCK FALSE
