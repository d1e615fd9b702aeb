SPECIFICATION Spec
CONSTANTS
    c1 = c1
    c2 = c2
    k1 = k1
    Ids = {1, 2}
    Clients = {c1, c2}
    KeyOf <- SharedKey
    Keys = {k1}
    NoKey = NoKey
    UpsertItems <- AnyItem
    MaxActives = {2}
    Priorities = {0}
    ParkReasons = {"cooldown"}
    MaxActiveCaps = {2}
    ActiveSizes = {0, 1}
    Strategies <- RoundRobin
    StickyModes = {TRUE}
    MaxSignals = 1
    RevisionMod = 3
    CursorMod = 2
INVARIANTS
    TypeOK
    ReadyList
    HotBounded
    NoLeakedSlot
PROPERTIES
    GrantSound
    ImplementsLeasePool
