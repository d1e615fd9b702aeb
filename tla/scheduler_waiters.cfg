SPECIFICATION Spec
CONSTANTS
    c1 = c1
    c2 = c2
    k1 = k1
    Ids = {1, 2}
    Clients = {c1, c2}
    KeyOf <- NoKeys
    Keys = {}
    NoKey = NoKey
    UpsertItems <- FreshOnly
    MaxActives = {2}
    Priorities = {0, 1}
    ParkReasons = {"cooldown"}
    MaxActiveCaps = {1, 2}
    ActiveSizes = {0}
    Strategies <- FillFirst
    StickyModes = {FALSE}
    MaxSignals = 1
    RevisionMod = 3
    CursorMod = 1
SYMMETRY Symmetric
INVARIANTS
    WaiterNotAbandoned
PROPERTIES
    PickOrder
