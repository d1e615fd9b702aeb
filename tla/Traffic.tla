------------------------------ MODULE Traffic ------------------------------
(***************************************************************************)
(* What live requests do to an account (Gateway.Request and its            *)
(* persistSuccessUsage): memory first, then the row copied from memory.    *)
(* Rotation, leases and the quota circuit are in Gateway and Scheduler.    *)
(***************************************************************************)
EXTENDS AccountPool, FiniteSets

CONSTANTS
    Requests,  \* concurrent requests
    MaxActive  \* leases an account may have at a time

ASSUME TrafficAssumption == MaxActive \in Nat \ {0} /\ IsFiniteSet(Requests)

VARIABLE call  \* the attempt each request is in

IdleCall == [pc |-> "idle", id |-> CHOOSE id \in Ids : TRUE, copy |-> NoRow, quota |-> FALSE]

TrafficInit == call = [r \in Requests |-> IdleCall]

At(r, label) == call[r].pc = label
Finish(r)    == call' = [call EXCEPT ![r] = IdleCall]

\* AcquireSticky gives out an available account.
Lease(r, id) ==
    /\ At(r, "idle")
    /\ Available(mem[id], Cardinality({q \in Requests : ~At(q, "idle") /\ call[q].id = id}),
                 MaxActive)
    /\ call' = [call EXCEPT ![r].pc = "upstream", ![r].id = id]
    /\ UNCHANGED poolVars

\* pickReadyLocked parks a ready account whose counters are used up; the row
\* is left to the recovery tick.
ParkExhausted(id) ==
    /\ KnownExhausted(mem[id])
    /\ Upsert(id, ParkKnownExhausted(mem[id]))
    /\ UNCHANGED <<store, live, call>>

\* A success.  Headers show whether anything remains; without them the counters
\* are read from the entry, to be stored again as they were.
Success(r) ==
    LET id == call[r].id IN
    /\ At(r, "upstream")
    /\ \/ \E used \in BOOLEAN :
             call' = [call EXCEPT ![r].pc = "observed", ![r].quota = used]
       \/ /\ Present(mem[id])
          /\ call' = [call EXCEPT ![r].pc = "stamp", ![r].quota = QuotaExhausted(mem[id])]
       \/ ~Present(mem[id]) /\ Finish(r)
    /\ UNCHANGED poolVars

\* RecordUsage.
Record(r) ==
    LET id == call[r].id IN
    /\ At(r, "observed") \/ At(r, "stamp")
    /\ IF Present(mem[id]) THEN Upsert(id, SetQuota(mem[id], call[r].quota)) ELSE UNCHANGED mem
    /\ call' = [call EXCEPT
          ![r].pc = IF At(r, "observed") /\ call[r].quota THEN "move" ELSE "copy",
          ![r].quota = FALSE]
    /\ UNCHANGED <<store, live>>

\* MoveUnavailable, a no-op on a deleted account.
MoveUnavailable(id, reason) ==
    IF Present(mem[id]) THEN Upsert(id, MarkUnavailable(mem[id], reason, "future", "other"))
    ELSE UNCHANGED mem

\* The headers of a success showed that nothing remains.
Move(r) ==
    /\ At(r, "move")
    /\ MoveUnavailable(call[r].id, "quota")
    /\ call' = [call EXCEPT ![r].pc = "copy"]
    /\ UNCHANGED <<store, live>>

\* Mutant: the row to be saved is read before the account is parked.
Fail_StaleCopy(r, reason) ==
    /\ At(r, "upstream")
    /\ MoveUnavailable(call[r].id, reason)
    /\ call' = [call EXCEPT ![r].pc = "save", ![r].copy = mem[call[r].id]]
    /\ UNCHANGED <<store, live>>

\* A failure of the account.
Fail(r, reason) ==
    /\ At(r, "upstream")
    /\ MoveUnavailable(call[r].id, reason)
    /\ call' = [call EXCEPT ![r].pc = "copy", ![r].quota = (reason = "quota")]
    /\ UNCHANGED <<store, live>>

\* lease.Account(), with the counters a quota failure reports put in the copy
\* only.
Copy(r) ==
    LET row == mem[call[r].id] IN
    /\ At(r, "copy")
    /\ \E copy \in {row} \cup (IF call[r].quota THEN {SetQuota(row, TRUE)} ELSE {}) :
          call' = [call EXCEPT ![r].pc = "save", ![r].copy = copy]
    /\ UNCHANGED poolVars

\* SaveAccount of the copy.
Save(r) ==
    /\ At(r, "save")
    /\ \/ SaveAccount(call[r].id, call[r].copy)
       \/ (SavesFail \/ ~Present(call[r].copy)) /\ UNCHANGED store
    /\ Finish(r)
    /\ UNCHANGED <<mem, live>>

\* Any other end of the attempt leaves the account alone.
Abandon(r) ==
    /\ At(r, "upstream")
    /\ Finish(r)
    /\ UNCHANGED poolVars

RequestStep(r) ==
    \/ Success(r) \/ Record(r) \/ Move(r) \/ Copy(r) \/ Save(r) \/ Abandon(r)
    \/ \E reason \in Failures : Fail(r, reason)

TrafficNext ==
    \/ \E r \in Requests : RequestStep(r) \/ (\E id \in Ids : Lease(r, id))
    \/ \E id \in Ids : ParkExhausted(id)
=============================================================================
