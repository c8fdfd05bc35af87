SPECIFICATION Spec
CONSTANTS
    Requests = {r1}
    Calls = {c1, c2}
    Users = {u1, u2, u3, u4}
    None = None
SYMMETRY Symmetry
INVARIANT RowNamesTwoApprovers
