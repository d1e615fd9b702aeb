SPECIFICATION MCSpec
CONSTANTS
    Ids = {a1}
    Requests = {r1, r2}
    MaxActive = 2
    Admins = {op1}
    Operations = {"enable"}
    Failures = {"quota", "auth", "validating", "cooldown"}
    MaxToken = 0
    FailBound = 2
    MaxValidatingFails = 2
    SavesFail = TRUE
    MaxRestarts = 2
PROPERTIES
    QuotaReturns
    CooldownReturns
