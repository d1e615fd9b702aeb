SPECIFICATION Spec
CONSTANTS
    Ids = {a1, a2, a3}
    NoId = NoId
    Requests = {r1, r2}
    ParkKinds = {"quota", "cooldown"}
    MaxAttempts = 2
SYMMETRY Symmetric
INVARIANTS
    NoLeaseLeak
    BoundedRotation
    CircuitDropped
PROPERTIES
    FreshAccount
