-------------------------- MODULE Administration ---------------------------
(***************************************************************************)
(* The account operations of backend/internal/admin/service.go.  Each      *)
(* handler reads the row, may ask the upstream or the identity provider,   *)
(* saves the changed copy and publishes it to the scheduler.  Batch does   *)
(* the same for several accounts, which are saved in one transaction; the  *)
(* properties are about one account at a time, so a batch is seen as the   *)
(* operation on each of its accounts.                                      *)
(***************************************************************************)
EXTENDS AccountPool

CONSTANTS
    Admins,    \* concurrent handlers
    Operations \* operations considered

AllOperations == {"configure", "enable", "disable", "recover", "refreshCredential",
                  "refreshQuota", "import", "delete"}

ASSUME AdministrationAssumption == Operations \subseteq AllOperations

VARIABLE job   \* what each handler is doing

IdleJob == [pc |-> "idle", op |-> "none", id |-> CHOOSE id \in Ids : TRUE, copy |-> NoRow]

AdministrationInit == job = [a \in Admins |-> IdleJob]

Working(a, label) == job[a].pc = label
Respond(a)        == job' = [job EXCEPT ![a] = IdleJob]
Proceed(a, row)   == job' = [job EXCEPT ![a].pc = "save", ![a].copy = row]

\* Get or ListAccounts.  Only an import works on an account not there yet.
Read(a, op, id) ==
    /\ Working(a, "idle")
    /\ Present(store[id]) \/ op = "import"
    /\ job' = [job EXCEPT ![a] = [pc |-> "work", op |-> op, id |-> id, copy |-> store[id]]]
    /\ UNCHANGED poolVars

Doing(a, op) == Working(a, "work") /\ job[a].op = op

\* An update of priority or limit only; the account is saved as it was read.
Configure(a) ==
    /\ Doing(a, "configure")
    /\ Respond(a) \/ Proceed(a, job[a].copy)
    /\ UNCHANGED poolVars

\* An update may also be refused for its priority or limit (ConfigureRuntime).
Disable(a) ==
    /\ Doing(a, "disable")
    /\ Respond(a) \/ Proceed(a, DisableByAdmin(job[a].copy))
    /\ UNCHANGED poolVars

\* A ready account is saved as it is; one an administrator disabled becomes
\* ready; anything else is an invalid state.
Enable(a) ==
    /\ Doing(a, "enable")
    /\ CASE job[a].copy.pool = "ready"   -> Proceed(a, job[a].copy)
         [] AdminDisabled(job[a].copy)   -> Proceed(a, MarkReady(job[a].copy))
         [] OTHER                        -> Respond(a)
    /\ UNCHANGED poolVars

\* The row after a probe: ready, or parked for the reason found.
Judged(row, verdict) ==
    IF verdict = "ok" THEN MarkReady(row) ELSE MarkUnavailable(row, verdict, "future", "other")

\* Recover and the batch's recover, which also clears the failure counter.
Recover(a) ==
    /\ Doing(a, "recover")
    /\ \/ Respond(a)
       \/ \E v \in Failures \cup {"ok"} : Proceed(a, Judged(job[a].copy, v))
       \/ Proceed(a, RecoverValidated(job[a].copy))
    /\ UNCHANGED poolVars

\* Import of new or known credentials, validated before they are saved.  They
\* may come from an old export: any token the provider has issued; without one
\* a known account keeps its own.
Import(a) ==
    LET id == job[a].id
        row == IF Present(job[a].copy) THEN job[a].copy ELSE NewRow(NoToken) IN
    /\ Doing(a, "import")
    /\ \/ Respond(a)
       \/ \E v \in Failures \cup {"ok"}, token \in Issued(id) \cup {row.token} :
             Proceed(a, Judged([row EXCEPT !.token = token], v))
    /\ UNCHANGED poolVars

\* RefreshQuota: the observed counters are kept whatever the probe's verdict.
RefreshQuota(a) ==
    /\ Doing(a, "refreshQuota")
    /\ \/ Respond(a)
       \/ \E v \in Failures \cup {"ok"}, exhausted \in BOOLEAN :
             Proceed(a, Judged(SetQuota(job[a].copy, exhausted), v))
    /\ UNCHANGED poolVars

\* RefreshCredential leaves the pool alone unless the refresh fails.
RefreshCredential(a) ==
    LET row == job[a].copy IN
    /\ Doing(a, "refreshCredential")
    /\ \E x \in Exchange(job[a].id, row.token) :
          LET next == IF x.answer = "ok" THEN [row EXCEPT !.token = x.token]
                      ELSE ApplyRefreshFailure(row, x.answer = "permanent") IN
          /\ Proceed(a, Capped(next))
          /\ live' = [live EXCEPT ![job[a].id] = x.live]
    /\ UNCHANGED <<store, mem>>

\* SaveAccount(s), then the sink.
SaveJob(a) ==
    /\ Working(a, "save")
    /\ \/ /\ SaveAccount(job[a].id, job[a].copy)
          /\ job' = [job EXCEPT ![a].pc = "publish"]
       \/ SavesFail /\ Respond(a) /\ UNCHANGED store
    /\ UNCHANGED <<mem, live>>

PublishJob(a) ==
    /\ Working(a, "publish")
    /\ Upsert(job[a].id, job[a].copy)
    /\ Respond(a)
    /\ UNCHANGED <<store, live>>

\* Delete: the row, which may fail, then the scheduler's entry.
DeleteRow(a) ==
    /\ Doing(a, "delete")
    /\ \/ DeleteAccount(job[a].id) /\ job' = [job EXCEPT ![a].pc = "drop"]
       \/ Respond(a) /\ UNCHANGED store
    /\ UNCHANGED <<mem, live>>

\* Mutant: the scheduler keeps a deleted account.
DropEntry_Skip(a) == Working(a, "drop") /\ Respond(a) /\ UNCHANGED poolVars

DropEntry(a) ==
    /\ Working(a, "drop")
    /\ Drop(job[a].id)
    /\ Respond(a)
    /\ UNCHANGED <<store, live>>

JobStep(a) ==
    \/ Configure(a) \/ Disable(a) \/ Enable(a) \/ Recover(a) \/ Import(a) \/ RefreshQuota(a)
    \/ RefreshCredential(a) \/ SaveJob(a) \/ PublishJob(a) \/ DeleteRow(a) \/ DropEntry(a)

AdministrationStep(a) ==
    JobStep(a) \/ (\E op \in Operations, id \in Ids : Read(a, op, id))
=============================================================================
