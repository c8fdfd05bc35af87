SPECIFICATION Spec
CONSTANTS
    Calls = {c1, c2, c3, c4, c5}
    FailureThreshold = 3
    SuccessThreshold = 3
    HalfOpenMax = 2
    OpenDuration = 3
    MonitorWindow = 3
    Timeout = 3
INVARIANTS
    ThresholdsDecide
    ProbesAreLimited
PROPERTIES
    OpenPeriodIsKept
    HalfOpenIsNotStuck
