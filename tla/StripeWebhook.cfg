SPECIFICATION WebhookSpec
CONSTANTS
    Jobs = {j1, j2}
    Events = {e1, e2}
    NoEvent = NoEvent
    Attempts = 2
    MaxTime = 2
    MaxFaults = 2
INVARIANTS
    ActedOnOnce
    OnlyOlderAreSkipped
PROPERTY NoGoingBack
SYMMETRY Symmetry
CHECK_DEADLOCK FALSE
