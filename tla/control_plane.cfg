SPECIFICATION Spec
CONSTANTS
    Admins = {a1, a2}
    Editors = {a1, a2}
    Values = {1, 2, 3}
    Default = 1
    Missing = 0
    GoodUrls = {"p", "q"}
    BadUrls = {"bad"}
    NoUrl = ""
    ModelIds <- MCModels
    Seeds = {"grok"}
    Targets = {"up"}
    Strong = {"s1", "s2"}
    Weak = {"w"}
    Keys = {"k1", "k2"}
    NoSecret = "-"
    Bodies <- MCBodies
    MaxOps = 4
INVARIANTS
    SettingsApplied
    CatalogFollowsRegistry
    ServesBootstrapped
PROPERTIES
    NoLostSave
    ManagedKept
    BootstrapOnce
CHECK_DEADLOCK FALSE
