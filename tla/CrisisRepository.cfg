SPECIFICATION Spec
CONSTANTS
    Scopes = {billing, org1, all}
    Dual = {org1, all}
    Users = {u1, u2}
    Calls = {c1, c2}
    MaxSwitches = 1
    MaxRetries = 3
    None = None
SYMMETRY Symmetry
INVARIANTS
    OneActivePerScope
    TwoKeys
    OutboxIsTheHistory
    OneRequestPerScope
PROPERTIES
    ClosedKeysStayClosed
    IsKillSwitch
