SPECIFICATION Spec
CONSTANTS
    Events = {e1, e2, e3}
    Workers = {w1, w2}
    BatchSize = 2
    Poison = {e3}
    MaxFaults = 2
    None = None
INVARIANTS
    RepeatsAreFaults
    OneWorkerPerEvent
PROPERTIES
    IsAtLeastOnce
    HealthyAreProcessed
CHECK_DEADLOCK FALSE
