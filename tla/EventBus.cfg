SPECIFICATION BusSpec
CONSTANTS
    Procs = {p1}
    Rounds = {r1}
    MaxRetries = 2
    BatchSize = 2
    MaxSent = 2
    MaxFaults = 1
INVARIANTS
    RepeatsHaveReasons
PROPERTIES
    
    IsAtLeastOnce
    MessagesSettle
CHECK_DEADLOCK FALSE
