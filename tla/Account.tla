------------------------------ MODULE Account ------------------------------
(***************************************************************************)
(* The account entity of backend/internal/domain/account/account.go: the   *)
(* lifecycle fields of one upstream credential and the transitions the     *)
(* domain type owns.  Every other component changes an account only        *)
(* through these operators.                                                *)
(*                                                                         *)
(* Data abstraction.                                                       *)
(*  - RetryAt is a time.Time compared only with "now": it is "none" (the   *)
(*    zero time), "future" (after now) or "due" (now or earlier).  The     *)
(*    passage of time is the move from "future" to "due".                  *)
(*  - LastErrorCode keeps the codes the code tests: "admin-disabled",      *)
(*    "revoked" (refresh-revoked and invalid_grant), "none" (empty) and    *)
(*    "other".                                                             *)
(*  - QuotaActual/QuotaLimit are read through QuotaExhausted only.         *)
(***************************************************************************)
EXTENDS Naturals

Pools    == {"ready", "unavailable"}
Reasons  == {"none", "quota", "auth", "cooldown", "validating", "disabled"}
RetryAts == {"none", "future", "due"}
Codes    == {"none", "admin-disabled", "revoked", "other"}

Account == [pool : Pools, reason : Reasons, retryAt : RetryAts, code : Codes,
            exhausted : BOOLEAN, fails : Nat]

\* A healthy account: what MarkReady leaves, with no quota observed yet.
Fresh == [pool |-> "ready", reason |-> "none", retryAt |-> "none",
          code |-> "none", exhausted |-> FALSE, fails |-> 0]

QuotaExhausted(a) == a.exhausted

\* Pool, concurrency and quota conditions of Account.Available.
Available(a, act, maxAct) ==
    /\ a.pool = "ready"
    /\ act < maxAct
    /\ ~QuotaExhausted(a)

MarkUnavailable(a, reason, retryAt, code) ==
    [a EXCEPT !.pool = "unavailable", !.reason = reason,
              !.retryAt = retryAt, !.code = code]

MarkReady(a) ==
    [a EXCEPT !.pool = "ready", !.reason = "none",
              !.retryAt = "none", !.code = "none"]

RecoverValidated(a) == [MarkReady(a) EXCEPT !.fails = 0]

RecoverQuotaWindow(a) == [MarkReady(a) EXCEPT !.exhausted = FALSE]

\* The early return of ParkKnownExhausted.
KnownExhausted(a) == a.pool = "ready" /\ QuotaExhausted(a)

\* A diagnostic code and a deadline still ahead are kept.
ParkKnownExhausted(a) ==
    [a EXCEPT !.pool = "unavailable", !.reason = "quota",
              !.code = IF @ = "none" THEN "other" ELSE @,
              !.retryAt = "future"]

\* Mutant: the zero time is taken for an elapsed deadline, an elapsed one not.
CooldownDue_ZeroOnly(a) ==
    a.pool = "unavailable" /\ a.reason = "cooldown" /\ a.retryAt = "none"

\* Mutant: any elapsed deadline promotes, whatever the account is parked for.
CooldownDue_AnyReason(a) == a.pool = "unavailable" /\ a.retryAt = "due"

\* Only a cooldown with an explicit, elapsed deadline is promoted by time.
CooldownDue(a) ==
    a.pool = "unavailable" /\ a.reason = "cooldown" /\ a.retryAt = "due"

SetQuota(a, exhausted) == [a EXCEPT !.exhausted = exhausted]

DisableRevoked(a)  == MarkUnavailable(a, "disabled", "future", "revoked")
DisableByAdmin(a)  == MarkUnavailable(a, "disabled", "future", "admin-disabled")

\* EnableByAdmin refuses everything an administrator did not disable.
AdminDisabled(a) ==
    a.pool = "unavailable" /\ a.reason = "disabled" /\ a.code = "admin-disabled"

ApplyRefreshFailure(a, permanent) ==
    LET failed == [a EXCEPT !.fails = @ + 1]
    IN  IF permanent THEN DisableRevoked(failed)
        ELSE MarkUnavailable(failed, "auth", "future", "other")

\* Leaves pool and reason alone; callers decide on escalation.
RecordValidationFailure(a, code, retryAt) ==
    [a EXCEPT !.fails = @ + 1, !.code = code, !.retryAt = retryAt]
=============================================================================
