------------------------------ MODULE Gateway ------------------------------
(***************************************************************************)
(* Gateway.Request of backend/internal/service/gateway.go: the rotation of *)
(* one request over at most maxAttempts accounts, the lease it holds on    *)
(* every path, and the pool-wide quota circuit shared by all requests.     *)
(*                                                                         *)
(* The scheduler appears as the pool of leases it implements (LeasePool,   *)
(* Scheduler): which ready account a request is given, and whether it runs *)
(* into the acquire deadline instead, is a free choice.  Each action is    *)
(* one critical section of Scheduler.mu or circuitMu, or one call to the   *)
(* upstream or the store.                                                  *)
(***************************************************************************)
EXTENDS Naturals, FiniteSets

CONSTANTS
    Ids,          \* account ids
    NoId,         \* no lease is held
    Requests,     \* concurrent calls of Gateway.Request
    ParkKinds,    \* failures that park the account, named by their reason
    MaxAttempts   \* rotation budget of a request

ASSUME GatewayAssumption ==
    /\ NoId \notin Ids /\ IsFiniteSet(Ids)
    /\ IsFiniteSet(Requests)
    /\ "quota" \in ParkKinds
    /\ ParkKinds \subseteq {"quota", "auth", "cooldown", "validating"}
    /\ MaxAttempts \in Nat \ {0}

\* Success, success with the last of the quota, and the two ways a request
\* ends without rotation: a transport error or a failure that is not the
\* account's, and a response whose body cannot be read.
OkKinds    == {"ok", "ok-spent"}
FailKinds  == {"failed", "unreadable"}
Outcomes   == ParkKinds \cup OkKinds \cup FailKinds
PoolStates == {"absent", "ready"} \cup ParkKinds

PCs == {"idle", "count", "acquire", "upstream", "persist", "park", "save",
        "next", "fail", "reset", "streaming", "open", "arm", "recheck"}

\* A request: its answer to the current attempt, the account it holds a lease
\* on, its counters, and (history) the accounts it parked that nobody has
\* published again.
Request == [pc : PCs, kind : Outcomes \cup {"none"}, lease : Ids \cup {NoId},
            budget : Nat, attempted : Nat, quotaFailures : Nat, tried : SUBSET Ids]

Idle == [pc |-> "idle", kind |-> "none", lease |-> NoId, budget |-> 0,
         attempted |-> 0, quotaFailures |-> 0, tried |-> {}]

VARIABLES
    pool,      \* state of each account in the scheduler
    changed,   \* Scheduler.revision differs from the revision in the circuit
    circuit,   \* Gateway.circuit; armed: history, the accounts ready when it was set
    req        \* the requests

vars == <<pool, changed, circuit, req>>

Ready == {id \in Ids : pool[id] = "ready"}

Closed == [open |-> FALSE, due |-> FALSE, armed |-> {}]

Init ==
    /\ pool \in [Ids -> {"absent", "ready", "quota"}]
    /\ changed = TRUE
    /\ circuit = Closed
    /\ req = [r \in Requests |-> Idle]

Goto(r, label) == req' = [req EXCEPT ![r].pc = label]
Return(r)      == req' = [req EXCEPT ![r] = Idle]

\* Leaving the loop: only the lease, if it is kept, matters from here on.
LeaveTo(r, label, lease) ==
    req' = [req EXCEPT ![r] = [Idle EXCEPT !.pc = label, !.lease = lease]]

\* Lease.Release at the end of an attempt.
ReleaseToNext(r) ==
    req' = [req EXCEPT ![r].lease = NoId, ![r].kind = "none", ![r].pc = "next"]

-----------------------------------------------------------------------------
(* The quota circuit.                                                      *)

\* Mutant: the revision is not compared.
Stale_TimeOnly == circuit.due

\* refreshCircuitLocked: the pool changed or the deadline passed.
Stale == changed \/ circuit.due

Refreshed == IF circuit.open /\ Stale THEN Closed ELSE circuit

\* The circuit check at the start of a request.
Start(r) ==
    /\ req[r].pc = "idle"
    /\ circuit' = Refreshed
    /\ IF Refreshed.open THEN Return(r) ELSE Goto(r, "count")
    /\ UNCHANGED <<pool, changed>>

\* openQuotaCircuit first asks for the earliest retry, then arms the circuit
\* with the revision of that later moment.
ReadEarliest(r) ==
    /\ req[r].pc = "open"
    /\ Goto(r, "arm")
    /\ UNCHANGED <<pool, changed, circuit>>

Arm(r) ==
    /\ req[r].pc = "arm"
    /\ circuit' = [open |-> TRUE, due |-> FALSE, armed |-> Ready]
    /\ changed' = FALSE
    /\ Goto(r, "recheck")
    /\ UNCHANGED pool

\* The error reported after arming: the circuit's or the pool's.
Recheck(r) ==
    /\ req[r].pc = "recheck"
    /\ circuit' = Refreshed
    /\ Return(r)
    /\ UNCHANGED <<pool, changed>>

\* resetCircuit; a stream is returned to the caller with its lease.
ResetCircuit(r) ==
    /\ req[r].pc = "reset"
    /\ circuit' = Closed
    /\ IF req[r].lease = NoId THEN Return(r) ELSE Goto(r, "streaming")
    /\ UNCHANGED <<pool, changed>>

-----------------------------------------------------------------------------
(* The rotation loop.                                                      *)

\* Mutant: the budget is the whole ready pool.
Budget_Whole == Cardinality(Ready)

\* ReadyCount and the attempt budget.
Budget == IF Cardinality(Ready) < MaxAttempts THEN Cardinality(Ready) ELSE MaxAttempts

CountReady(r) ==
    /\ req[r].pc = "count"
    /\ IF Ready = {} THEN Return(r)
       ELSE req' = [req EXCEPT ![r].pc = "acquire", ![r].budget = Budget]
    /\ UNCHANGED <<pool, changed, circuit>>

Acquire(r) ==
    /\ req[r].pc = "acquire"
    /\ \E id \in Ready :
          req' = [req EXCEPT ![r].pc = "upstream", ![r].lease = id,
                             ![r].attempted = @ + 1]
    /\ UNCHANGED <<pool, changed, circuit>>

\* The pool is empty, or the acquire deadline passed.
AcquireFails(r) ==
    /\ req[r].pc = "acquire"
    /\ Return(r)
    /\ UNCHANGED <<pool, changed, circuit>>

\* The upstream answers.
Answer(r, k) ==
    /\ req[r].pc = "upstream"
    /\ req' = [req EXCEPT
          ![r].kind = k,
          ![r].quotaFailures = IF k = "quota" THEN @ + 1 ELSE @,
          ![r].pc = CASE k \in OkKinds -> "persist"
                      [] k \in ParkKinds -> "park"
                      [] OTHER -> "fail"]
    /\ UNCHANGED <<pool, changed, circuit>>

\* Mutant: the failing account is not moved out of the ready pool.
MoveUnavailable_Keep(id, reason) == UNCHANGED <<pool, changed>>

\* Parking in the scheduler: a no-op for an account deleted meanwhile.  When
\* another request parked it for the same reason, the revision moves only if
\* the retry time or the error code differs.
MoveUnavailable(id, reason) ==
    IF pool[id] = "absent" THEN UNCHANGED <<pool, changed>>
    ELSE /\ pool' = [pool EXCEPT ![id] = reason]
         /\ changed' = TRUE \/ (pool[id] = reason /\ changed' = changed)

\* persistSuccessUsage: an exhausted success parks the account.  The save is
\* best effort.  A buffered response releases next, a stream keeps its lease.
PersistSuccess(r, stream) ==
    /\ req[r].pc = "persist"
    /\ IF req[r].kind = "ok-spent" THEN MoveUnavailable(req[r].lease, "quota")
       ELSE UNCHANGED <<pool, changed>>
    /\ LeaveTo(r, "reset", IF stream THEN req[r].lease ELSE NoId)
    /\ UNCHANGED circuit

\* leaseReadCloser: end of stream or Close, once.
CloseStream(r) ==
    /\ req[r].pc = "streaming"
    /\ Return(r)
    /\ UNCHANGED <<pool, changed, circuit>>

\* Answers that end the request without rotation: a transport error and an
\* unrotated failure also reset the circuit, an unreadable body does not.
Fail(r) ==
    /\ req[r].pc = "fail"
    /\ IF req[r].kind = "unreadable" THEN Return(r) ELSE LeaveTo(r, "reset", NoId)
    /\ UNCHANGED <<pool, changed, circuit>>

Park(r) ==
    /\ req[r].pc = "park"
    /\ MoveUnavailable(req[r].lease, req[r].kind)
    /\ req' = [req EXCEPT ![r].pc = "save", ![r].tried = @ \cup {req[r].lease}]
    /\ UNCHANGED circuit

\* Mutant: the error path of the save forgets the lease.
Save_Leak(r) ==
    /\ req[r].pc = "save"
    /\ ReleaseToNext(r) \/ Goto(r, "idle")
    /\ UNCHANGED <<pool, changed, circuit>>

\* SaveAccount, then Release: a failed save ends the request.
Save(r) ==
    /\ req[r].pc = "save"
    /\ ReleaseToNext(r) \/ Return(r)
    /\ UNCHANGED <<pool, changed, circuit>>

\* Another round of the loop, or its end: a round lost to quota alone opens
\* the circuit.
NextAttempt(r) ==
    /\ req[r].pc = "next"
    /\ IF req[r].attempted < req[r].budget THEN Goto(r, "acquire")
       ELSE IF req[r].quotaFailures = req[r].attempted THEN LeaveTo(r, "open", NoId)
       ELSE Return(r)
    /\ UNCHANGED <<pool, changed, circuit>>

-----------------------------------------------------------------------------
(* The rest of the process: recovery and administration change the pool,   *)
(* and time passes.                                                        *)

\* Upsert, PromoteDue and Delete as seen from here.
Publish(id, s) ==
    /\ pool[id] # "absent" \/ s # "absent"
    /\ pool' = [pool EXCEPT ![id] = s]
    /\ changed' = TRUE
    /\ req' = [r \in Requests |-> [req[r] EXCEPT !.tried = @ \ {id}]]
    /\ UNCHANGED circuit

CircuitElapses ==
    /\ circuit.open /\ ~circuit.due
    /\ circuit' = [circuit EXCEPT !.due = TRUE]
    /\ UNCHANGED <<pool, changed, req>>

-----------------------------------------------------------------------------
Step(r) ==
    \/ CountReady(r) \/ Acquire(r) \/ AcquireFails(r)
    \/ (\E k \in Outcomes : Answer(r, k))
    \/ (\E stream \in BOOLEAN : PersistSuccess(r, stream))
    \/ ResetCircuit(r) \/ CloseStream(r) \/ Fail(r) \/ Park(r) \/ Save(r)
    \/ NextAttempt(r) \/ ReadEarliest(r) \/ Arm(r) \/ Recheck(r)

Environment ==
    \/ \E id \in Ids, s \in PoolStates : Publish(id, s)
    \/ CircuitElapses

Next == (\E r \in Requests : Start(r) \/ Step(r)) \/ Environment

Spec == Init /\ [][Next]_vars

-----------------------------------------------------------------------------
(* Properties.                                                             *)

\* Type correctness of the requests, the pool and the circuit.
TypeOK ==
    /\ pool \in [Ids -> PoolStates]
    /\ changed \in BOOLEAN
    /\ circuit \in [open : BOOLEAN, due : BOOLEAN, armed : SUBSET Ids]
    /\ req \in [Requests -> Request]

\* A request that has returned, or is between two attempts, holds no lease:
\* every path of Request and of leaseReadCloser releases what it acquired.
NoLeaseLeak ==
    \A r \in Requests :
        req[r].pc \in {"idle", "count", "acquire", "next", "open", "arm", "recheck"}
            => req[r].lease = NoId

\* "Never rotate through the entire ready pool": one request tries, and parks,
\* at most as many accounts as the budget it fixed at its start, which is at
\* most maxAttempts, whatever other requests and imports do meanwhile
\* (Request).  The types are part of it.
BoundedRotation ==
    /\ TypeOK
    /\ \A r \in Requests :
          /\ req[r].attempted <= req[r].budget /\ req[r].budget <= MaxAttempts
          /\ Cardinality(req[r].tried) <= req[r].attempted
          /\ req[r].quotaFailures <= req[r].attempted

\* Rotation makes progress: a request is not given an account it has parked
\* itself, unless somebody published that account again, although other
\* requests park and publish meanwhile (Request).
FreshAccount ==
    [][\A r \in Requests :
          req'[r].lease # NoId /\ req[r].lease = NoId
              => req'[r].lease \notin req[r].tried]_vars

\* What quotaCircuitError answers at this moment.
Rejecting == circuit.open /\ ~Stale

\* "Pool changes (import, manual restore, background recovery) invalidate the
\* old circuit": requests are turned away by the circuit only while the ready
\* accounts are those of the moment the circuit was armed.
CircuitDropped == Rejecting => Ready = circuit.armed
=============================================================================
