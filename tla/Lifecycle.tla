----------------------------- MODULE Lifecycle -----------------------------
(***************************************************************************)
(* The life of an account under its three writers: live requests           *)
(* (Traffic), the recovery worker (Recovery) and the admin API             *)
(* (Administration), running concurrently over one table and one           *)
(* scheduler, with restarts of the process in between.                     *)
(***************************************************************************)
EXTENDS Traffic, Recovery, Administration, FiniteSets

CONSTANT MaxRestarts  \* bound: restarts of the process

ASSUME LifecycleAssumption == MaxRestarts \in Nat

VARIABLES
    boots,    \* restarts so far
    mixed,    \* history: writes of the two copies overlapped, or one was lost
    disabled  \* history: "no", or how an administrator's disable was published

history == <<mixed, disabled>>
vars    == <<store, mem, live, call, tick, job, boots, mixed, disabled>>

Init ==
    /\ PoolInit /\ TrafficInit /\ RecoveryInit /\ AdministrationInit
    /\ boots = 0
    /\ mixed = [id \in Ids |-> FALSE]
    /\ disabled = [id \in Ids |-> "no"]

\* The process stops at any point; the table and the provider survive.
Restart ==
    /\ boots < MaxRestarts
    /\ boots' = boots + 1
    /\ mem' = store
    /\ call' = [r \in Requests |-> IdleCall]
    /\ tick' = Listing(1)
    /\ job' = [a \in Admins |-> IdleJob]
    /\ mixed' = [id \in Ids |-> FALSE]
    /\ UNCHANGED <<store, live, disabled>>

-----------------------------------------------------------------------------
(* History.  A write changes both copies of an account, one after the      *)
(* other.  It is under way from the first change to the second: between    *)
(* save and publish for the worker and an administrator, between the       *)
(* outcome and the save for a request, between promotion and save for a    *)
(* cooldown.                                                               *)

Saving(r, id)     == call[r].id = id /\ call[r].pc \notin {"idle", "upstream"}
Publishing(a, id) == job[a].id = id /\ job[a].pc \in {"publish", "drop"}
Promoting(id)     == Phase = "promote" /\ id \in tick.write
Recovering(id)    == Promoting(id) \/ id \in tick.saved

\* Nobody is between the two changes.
AtRest(id) ==
    /\ \A r \in Requests : ~Saving(r, id)
    /\ ~Recovering(id)
    /\ \A a \in Admins : ~Publishing(a, id)

\* Those that write memory first begin and save here; a save is lost when the
\* row is not afterwards what was to be saved.
RequestBegins(id) == \E r \in Requests : ~Saving(r, id) /\ Saving(r, id)'
RequestLost(id) ==
    \E r \in Requests :
        Saving(r, id) /\ ~Saving(r, id)' /\ Present(call[r].copy) /\ store'[id] # call[r].copy

WorkerBegins(id) == ~Recovering(id) /\ Recovering(id)'
WorkerLost(id)   == Promoting(id) /\ ~Promoting(id)' /\ store'[id] # tick.copy[id]

AdminBegins(id) == \E a \in Admins : ~Publishing(a, id) /\ Publishing(a, id)'

\* Nobody but this administrator holds a lease or a copy of the account.
InNoHands(id, admin) ==
    /\ \A r \in Requests : call[r].id = id => At(r, "idle")
    /\ id \notin tick.ask \cup tick.write \cup tick.saved
    /\ \A a \in Admins \ {admin} : job[a].id = id => Working(a, "idle")

\* A disable is in force from its publication until a handler writes the
\* account again.  Another writer may have had the account meanwhile.
AfterJob(a) ==
    [disabled EXCEPT ![job[a].id] =
        IF Working(a, "publish") /\ job[a].op = "disable"
        THEN IF InNoHands(job[a].id, a) /\ AdminDisabled(store[job[a].id])
             THEN "alone" ELSE "raced"
        ELSE IF AdminBegins(job[a].id) THEN "no" ELSE @]

-----------------------------------------------------------------------------
TrafficHistory ==
    /\ mixed' = [id \in Ids |->
          IF RequestBegins(id)
          THEN ~AtRest(id) \/ (mixed[id] /\ ~Present(mem[id]))
          ELSE mixed[id] \/ RequestLost(id)]
    /\ UNCHANGED <<tick, job, boots, disabled>>

TrafficStep == TrafficNext /\ TrafficHistory

WorkerStep ==
    /\ RecoveryNext
    /\ mixed' = [id \in Ids |->
          IF WorkerBegins(id) THEN ~AtRest(id) ELSE mixed[id] \/ WorkerLost(id)]
    /\ UNCHANGED <<call, job, boots, disabled>>

AdminStep(a) ==
    /\ AdministrationStep(a)
    /\ mixed' = [id \in Ids |-> IF AdminBegins(id) THEN ~AtRest(id) ELSE mixed[id]]
    /\ disabled' = AfterJob(a)
    /\ UNCHANGED <<call, tick, boots>>

Outside == UNCHANGED <<call, tick, job, boots, history>>

Clock ==
    \E id \in Ids : (StoreDeadline(id) \/ MemDeadline(id) \/ Revoke(id)) /\ Outside

Next ==
    \/ TrafficStep
    \/ WorkerStep
    \/ \E a \in Admins : AdminStep(a)
    \/ Clock
    \/ Restart

Spec == Init /\ [][Next]_vars

-----------------------------------------------------------------------------
(* Properties.                                                             *)

\* Rows, entries and tokens keep their types.
TypeOK ==
    /\ store \in [Ids -> Row]
    /\ mem \in [Ids -> Row]
    /\ live \in [Ids -> 0 .. MaxToken]

\* Equal in everything but the deadline, which passes in each copy by itself.
Same(row, entry) ==
    /\ row.pool = entry.pool /\ row.reason = entry.reason /\ row.code = entry.code
    /\ row.exhausted = entry.exhausted /\ row.fails = entry.fails /\ row.token = entry.token

\* A row and an entry that go together: the same; or both are gone; or both are
\* parked for quota and only the row has the counters that the failure reported;
\* or the scheduler has parked the account for its counters, which the worker's
\* next tick will do to the row.
Fit(row, entry) ==
    \/ Same(row, entry)
    \/ ~Present(row) /\ ~Present(entry)
    \/ row.reason = "quota" /\ row.exhausted /\ Same(SetQuota(row, FALSE), entry)
    \/ KnownExhausted(row) /\ Same(ParkKnownExhausted(row), entry)

\* Once nobody is between its two changes, row and entry of an account agree:
\* none is parked in the scheduler alone, where the worker, which reads the
\* table, would not find it, and none is deleted from the table alone, where
\* no administrator could stop it.  Whatever requests, phases, administrators
\* and restarts came before, in any number and overlapping, the last write
\* that had the account to itself settles it; only writes whose two changes
\* interleaved, or whose save failed after memory was changed, are excepted,
\* until the next such write or restart.
Reconciled ==
    /\ TypeOK
    /\ \A id \in Ids : AtRest(id) /\ ~mixed[id] => Fit(store[id], mem[id])

\* An account disabled while nobody else had it in hand stays disabled in both
\* copies, through requests, ticks and restarts, until a handler writes it.
DisableHolds ==
    \A id \in Ids :
        disabled[id] = "alone" => AdminDisabled(store[id]) /\ AdminDisabled(mem[id])

\* "DisableByAdmin removes an account from scheduling until an administrator
\* explicitly enables it again."
AdminDisableHolds == \A id \in Ids : disabled[id] # "no" => mem[id].pool # "ready"
=============================================================================
