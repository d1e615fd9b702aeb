SPECIFICATION MCSpec
CONSTANTS
    Ids = {a1}
    Requests = {r1, r2}
    MaxActive = 2
    Admins = {op1}
    Operations = {}
    Failures = {"quota", "auth"}
    MaxToken = 1
    FailBound = 1
    MaxValidatingFails = 1
    SavesFail = TRUE
    MaxRestarts = 1
SYMMETRY Symmetric
INVARIANTS
    Reconciled
    DisableHolds
