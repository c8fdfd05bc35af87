SPECIFICATION Spec
CONSTANTS
    Requests = {r1, r2, r3}
    Payloads = {p1, p2}
    None = None
INVARIANTS
    OneEffectOneResponse
    EffectsHaveReasons
PROPERTIES
    ResponseIsKept
    ClaimIsReleased
CHECK_DEADLOCK FALSE
