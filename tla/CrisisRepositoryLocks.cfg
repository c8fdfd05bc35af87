SPECIFICATION Spec
CONSTANTS
    Scopes = {org1, all}
    Dual = {org1, all}
    Users = {u1, u2}
    Calls = {c1, c2}
    MaxSwitches = 1
    MaxRetries = 3
    None = None
PROPERTY CallsEnd
