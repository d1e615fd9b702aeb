----------------------------- MODULE Recovery ------------------------------
(***************************************************************************)
(* The background worker of backend/internal/runtime/recovery.go.  One     *)
(* tick runs its phases one after the other; a phase lists the table,      *)
(* works on the copies it listed (local rules, or calls to the upstream    *)
(* and to the identity provider by a pool of workers), and then writes     *)
(* each copy back: SaveAccount, then Upsert.  Promotion of due cooldowns   *)
(* is the exception: memory first, row second.                             *)
(***************************************************************************)
EXTENDS AccountPool, Sequences

CONSTANT MaxValidatingFails  \* maxValidatingFails

ASSUME RecoveryAssumption == MaxValidatingFails \in 1 .. FailBound

VARIABLE tick  \* the phase, what it still has to ask, and the copies to write

Phases == <<"promote", "revoked", "exhausted", "quota", "validating",
            "refresh", "credentials", "quota">>

\* step: "list" before the listing, "local" while the phase's own decisions
\* are written, "ask" once it has gone to the network.  ask: ids whose network
\* call is outstanding; write: ids whose copy is to be saved; saved: the id
\* saved but not yet published.
Listing(phase) == [phase |-> phase, step |-> "list", ask |-> {}, write |-> {},
                   saved |-> {}, copy |-> [id \in Ids |-> NoRow]]

RecoveryInit == tick = Listing(1)

Phase     == Phases[tick.phase]
NextPhase == tick' = Listing((tick.phase % Len(Phases)) + 1)

NotBefore(row) == row.retryAt # "future"

-----------------------------------------------------------------------------
(* The phases' candidates and what they do to a copy.                      *)

Parked(row, reason) == row.pool = "unavailable" /\ row.reason = reason

Revoked(row)   == row.pool = "unavailable" /\ row.code = "revoked" /\ row.reason # "disabled"
QuotaDue(row)  == Parked(row, "quota") /\ NotBefore(row)
AuthQueue(row) == Parked(row, "auth") /\ row.token # NoToken

\* Candidates the phase decides on by itself.
LocalCandidate(row) ==
    CASE Phase = "revoked"     -> Revoked(row)
      [] Phase = "exhausted"   -> KnownExhausted(row)
      [] Phase = "quota"       -> QuotaDue(row)
      [] Phase = "credentials" -> AuthQueue(row) /\ row.code = "revoked"
      [] OTHER -> FALSE

\* Mutant: the counters are cleared but the account stays parked.
Local_StaysParked(row) ==
    CASE Phase = "exhausted" -> ParkKnownExhausted(row)
      [] Phase = "quota"     -> SetQuota(row, FALSE)
      [] OTHER               -> DisableRevoked(row)

Local(row) ==
    CASE Phase = "exhausted" -> ParkKnownExhausted(row)
      [] Phase = "quota"     -> RecoverQuotaWindow(row)
      [] OTHER               -> DisableRevoked(row)

ValidatingDue(row) == Parked(row, "validating") /\ NotBefore(row)
Refreshable(row)   == row.pool = "ready" /\ row.token # NoToken
CredentialDue(row) == AuthQueue(row) /\ row.code # "revoked" /\ NotBefore(row)

\* Candidates the phase asks the network about.  Which of the refreshable
\* accounts are close to expiry is open.
MayAsk(row) ==
    CASE Phase = "validating"  -> ValidatingDue(row)
      [] Phase = "refresh"     -> Refreshable(row)
      [] Phase = "credentials" -> CredentialDue(row)
      [] OTHER -> FALSE

\* RecoverValidating with the verdict of one probe.
Validated(row, verdict) ==
    LET failed == RecordValidationFailure(row, "other", row.retryAt) IN
    CASE verdict = "error" -> RecordValidationFailure(row, "other", "future")
      [] verdict = "ok"    -> RecoverValidated(row)
      [] verdict \in {"quota", "cooldown"} -> MarkUnavailable(failed, verdict, "future", "other")
      [] OTHER -> MarkUnavailable(failed,
                      IF verdict = "auth" \/ failed.fails >= MaxValidatingFails
                      THEN "auth" ELSE "validating", "future", "other")

\* RecoverCredentials after a successful refresh.  (A verdict never carries
\* the identity provider's own error codes.)
Revalidated(row, verdict) ==
    CASE verdict = "ok"    -> RecoverValidated(row)
      [] verdict = "error" -> MarkUnavailable(row, "auth", "future", "other")
      [] OTHER             -> MarkUnavailable(row, verdict, "future", "other")

\* The rows RefreshExpiring and RecoverCredentials may make of an exchange.
AfterRefresh(row, x) ==
    LET fresh == [row EXCEPT !.token = x.token] IN
    IF x.answer # "ok" THEN {ApplyRefreshFailure(row, x.answer = "permanent")}
    ELSE IF Phase = "refresh" THEN {MarkReady(fresh)}
    ELSE {Revalidated(fresh, v) : v \in Failures \cup {"ok", "error"}}

\* The rows a network phase may come back with, and the provider's token.
Answers(id, row) ==
    IF Phase = "validating"
    THEN {[row |-> Validated(row, v), live |-> live[id]] : v \in Failures \cup {"ok", "error"}}
    ELSE UNION {{[row |-> next, live |-> x.live] : next \in AfterRefresh(row, x)}
                : x \in Exchange(id, row.token)}

-----------------------------------------------------------------------------
(* Actions.                                                                *)

\* RecoverDue: PromoteDue for the whole pool under the lock; the rows follow.
PromoteDue ==
    LET due == {id \in Ids : CooldownDue(mem[id])} IN
    /\ Phase = "promote" /\ tick.step = "list"
    /\ mem' = [id \in Ids |-> IF id \in due THEN MarkReady(mem[id]) ELSE mem[id]]
    /\ tick' = [tick EXCEPT !.step = "local", !.write = due,
                            !.copy = [id \in Ids |-> IF id \in due THEN mem'[id] ELSE NoRow]]
    /\ UNCHANGED <<store, live>>

\* ListAccounts and the selection of candidates.
List ==
    LET local == {id \in Ids : LocalCandidate(store[id])} IN
    /\ Phase # "promote" /\ tick.step = "list"
    /\ \E ask \in SUBSET {id \in Ids : MayAsk(store[id])} :
          /\ Phase = "refresh" \/ ask = {id \in Ids : MayAsk(store[id])}
          /\ tick' = [tick EXCEPT
                !.step = "local", !.ask = ask, !.write = local,
                !.copy = [id \in Ids |-> IF id \in local THEN Local(store[id])
                                         ELSE IF id \in ask THEN store[id] ELSE NoRow]]
    /\ UNCHANGED poolVars

\* A worker gets its answer; the workers start when the local copies are
\* written.
Ask(id) ==
    /\ id \in tick.ask
    /\ tick.step = "ask" \/ (tick.write = {} /\ tick.saved = {})
    /\ \E a \in Answers(id, tick.copy[id]) :
          /\ tick' = [tick EXCEPT !.step = "ask", !.ask = @ \ {id}, !.write = @ \cup {id},
                                  !.copy[id] = Capped(a.row)]
          /\ live' = [live EXCEPT ![id] = a.live]
    /\ UNCHANGED <<store, mem>>

\* Answers are written when every worker is done; a failed save skips the
\* publish.
SaveCopy(id) ==
    /\ id \in tick.write /\ tick.saved = {}
    /\ tick.step = "local" \/ tick.ask = {}
    /\ \/ /\ SaveAccount(id, tick.copy[id])
          /\ tick' = [tick EXCEPT !.write = @ \ {id},
                                  !.saved = IF Phase = "promote" THEN {} ELSE {id}]
       \/ /\ SavesFail /\ UNCHANGED store
          /\ tick' = [tick EXCEPT !.write = @ \ {id}]
    /\ UNCHANGED <<mem, live>>

\* Mutant: the saved copy is not published to the scheduler.
Publish_Skip(id) ==
    /\ id \in tick.saved
    /\ tick' = [tick EXCEPT !.saved = {}]
    /\ UNCHANGED poolVars

Publish(id) ==
    /\ id \in tick.saved
    /\ Upsert(id, tick.copy[id])
    /\ tick' = [tick EXCEPT !.saved = {}]
    /\ UNCHANGED <<store, live>>

EndPhase ==
    /\ tick.step # "list" /\ tick.ask = {} /\ tick.write = {} /\ tick.saved = {}
    /\ NextPhase
    /\ UNCHANGED poolVars

RecoveryNext ==
    \/ PromoteDue \/ List \/ EndPhase
    \/ \E id \in Ids : Ask(id) \/ SaveCopy(id) \/ Publish(id)
=============================================================================
