SPECIFICATION Spec
CONSTANTS
    Ids = {a1}
    Requests = {r1}
    MaxActive = 1
    Admins = {op1}
    Operations = {"disable", "enable"}
    Failures = {"cooldown"}
    MaxToken = 0
    FailBound = 1
    MaxValidatingFails = 1
    SavesFail = FALSE
    MaxRestarts = 0
INVARIANTS
    AdminDisableHolds
