SPECIFICATION Spec
CONSTANTS
    Offerings = {o1}
    Calls = {c1, c2, c3}
    None = None
    Open = Open
    MaxVersions = 3
    MaxTime = 2
SYMMETRY Symmetry
INVARIANTS
    Chain
    ListedHasPrice
    SerialPeriods
PROPERTY VersionsAreImmutable
CHECK_DEADLOCK FALSE
