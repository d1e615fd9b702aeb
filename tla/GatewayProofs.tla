--------------------------- MODULE GatewayProofs ----------------------------
(***************************************************************************)
(* Rotation, for any number of accounts and of concurrent requests: no     *)
(* lease is lost, a request stays within its budget, it is not given an    *)
(* account it has parked itself, and the quota circuit turns requests away *)
(* only while the pool is the one it was armed with.                       *)
(*                                                                         *)
(* The properties compare counters at every moment, but what keeps them    *)
(* true differs along the loop: between Acquire and Park the attempt has   *)
(* been counted and not yet charged to an account (Attempting), and only a *)
(* request with budget left comes back to acquire.  Progress states this   *)
(* per program point.                                                      *)
(***************************************************************************)
EXTENDS Gateway, TLAPS, FiniteSetTheorems

NoLeaseAt  == {"idle", "count", "acquire", "next", "open", "arm", "recheck"}
Attempting == {"upstream", "persist", "park", "fail"}

\* What the loop knows about its request at each program point.
Progress(q) ==
    /\ q.pc \in {"idle", "count"} =>
          q.attempted = 0 /\ q.quotaFailures = 0 /\ q.tried = {}
    /\ q.pc \in Attempting \cup {"save"} => q.lease \in Ids
    /\ q.pc = "park" => q.kind \in ParkKinds
    /\ q.pc = "acquire" => q.attempted < q.budget
    /\ q.pc = "upstream" => q.quotaFailures < q.attempted
    /\ q.pc \in Attempting => Cardinality(q.tried) < q.attempted
    /\ q.budget <= MaxAttempts
    /\ q.attempted <= q.budget
    /\ Cardinality(q.tried) <= q.attempted
    /\ q.quotaFailures <= q.attempted

RequestsProgress == \A r \in Requests : Progress(req[r])

\* An account that a request has parked, and nobody has published since, is
\* not ready: neither another request nor a late success brings it back.
ParkedStays == \A r \in Requests : req[r].tried \cap Ready = {}

GatewayInv == TypeOK /\ NoLeaseLeak /\ RequestsProgress /\ ParkedStays /\ CircuitDropped

-----------------------------------------------------------------------------
(* A step of one request.                                                  *)

\* What GatewayInv says of one request.
Sound(q) == q \in Request /\ Progress(q) /\ (q.pc \in NoLeaseAt => q.lease = NoId)

\* The request moves, the others stay; it is not given an account it parked.
Moved(r) ==
    /\ req' = [req EXCEPT ![r] = req'[r]]
    /\ Sound(req'[r])
    /\ req'[r].tried \cap Ready' = {}
    /\ req'[r].lease # NoId /\ req[r].lease = NoId => req'[r].lease \notin req[r].tried

\* The pool under that step: accounts only leave it, and not without a change of
\* the revision.
PoolKept == pool' \in [Ids -> PoolStates] /\ changed' \in BOOLEAN /\ Ready' \subseteq Ready
Stamped  == changed' \/ (Ready' = Ready /\ ~changed)

CircuitTyped == circuit' \in [open : BOOLEAN, due : BOOLEAN, armed : SUBSET Ids]

\* Sets of accounts are finite, so that they can be counted.
LEMMA CountIds ==
    ASSUME NEW S \in SUBSET Ids
    PROVE  /\ IsFiniteSet(S) /\ Cardinality(S) \in Nat
           /\ \A id \in Ids : Cardinality(S \cup {id}) <= Cardinality(S) + 1
           /\ \A id \in Ids : Cardinality(S \ {id}) <= Cardinality(S)
<1>1. IsFiniteSet(S)
  BY GatewayAssumption, FS_Subset
<1>2. Cardinality(S) \in Nat
  BY <1>1, FS_CardinalityType
<1>3. ASSUME NEW id \in Ids
      PROVE  Cardinality(S \cup {id}) <= Cardinality(S) + 1
  BY <1>1, <1>2, FS_AddElement
<1>4. ASSUME NEW id \in Ids
      PROVE  Cardinality(S \ {id}) <= Cardinality(S)
  BY <1>1, <1>2, FS_RemoveElement
<1> QED
  BY <1>1, <1>2, <1>3, <1>4

\* A request that has not begun is sound.
LEMMA IdleSound == Sound(Idle) /\ Idle.tried = {} /\ Idle.lease = NoId
<1>1. Idle \in Request
  BY DEF Idle, Request, PCs
<1> QED
  BY <1>1, GatewayAssumption, FS_EmptySet
  DEF Idle, Sound, Progress, NoLeaseAt, Attempting

\* A request of a reachable state is sound and has parked only accounts that are not
\* ready.
LEMMA RequestSound ==
    ASSUME GatewayInv, NEW r \in Requests
    PROVE  Sound(req[r]) /\ req[r].tried \cap Ready = {}
BY DEF GatewayInv, TypeOK, NoLeaseLeak, RequestsProgress, ParkedStays, Sound, NoLeaseAt

\* A step that leaves the pool alone keeps the circuit stamped.
LEMMA StillPool == TypeOK /\ UNCHANGED <<pool, changed>> => PoolKept /\ Stamped
BY DEF TypeOK, PoolKept, Stamped, Ready

\* Parking takes an account out of the ready pool; an account already parked
\* for the same reason may leave the revision alone (MoveUnavailable).
LEMMA MoveKeepsPool ==
    ASSUME TypeOK, NEW id \in Ids, NEW reason \in ParkKinds, MoveUnavailable(id, reason)
    PROVE  PoolKept /\ Stamped /\ id \notin Ready'
<1>1. reason \in PoolStates /\ reason # "ready"
  BY GatewayAssumption DEF PoolStates
<1>2. CASE pool[id] = "absent"
  BY <1>2 DEF MoveUnavailable, TypeOK, PoolKept, Stamped, Ready
<1>3. CASE pool[id] # "absent"
  <2>1. pool' = [pool EXCEPT ![id] = reason] /\ pool' \in [Ids -> PoolStates]
    BY <1>1, <1>3 DEF MoveUnavailable, TypeOK
  <2>2. changed' = TRUE \/ (pool[id] = reason /\ changed' = changed)
    BY <1>3 DEF MoveUnavailable
  <2>3. Ready' \subseteq Ready /\ id \notin Ready'
    BY <1>1, <2>1 DEF TypeOK, Ready
  <2>4. pool[id] = reason => Ready' = Ready
    BY <1>1, <2>1 DEF TypeOK, Ready
  <2> QED
    BY <2>1, <2>2, <2>3, <2>4 DEF TypeOK, PoolKept, Stamped
<1> QED
  BY <1>2, <1>3

\* Return, Goto and LeaveTo.
LEMMA ReturnMoves ==
    ASSUME GatewayInv, NEW r \in Requests, Return(r)
    PROVE  Moved(r)
BY IdleSound DEF GatewayInv, TypeOK, Return, Moved

\* Leaving the loop with or without the lease.
LEMMA LeaveMoves ==
    ASSUME GatewayInv, NEW r \in Requests, NEW label \in {"reset", "open"},
           NEW lease \in {req[r].lease, NoId}, label = "open" => lease = NoId,
           LeaveTo(r, label, lease)
    PROVE  Moved(r)
<1> DEFINE q == [Idle EXCEPT !.pc = label, !.lease = lease]
<1>1. req' = [req EXCEPT ![r] = q] /\ req'[r] = q /\ req[r] \in Request
  BY DEF LeaveTo, GatewayInv, TypeOK
<1>2. q \in Request /\ q.tried = {} /\ q.pc = label /\ q.lease = lease
  BY <1>1, IdleSound DEF Idle, Request, PCs
<1>3. Progress(q)
  BY <1>2, GatewayAssumption, FS_EmptySet DEF Idle, Progress, Attempting
<1> QED
  BY <1>1, <1>2, <1>3 DEF Sound, Moved, NoLeaseAt

\* The steps of the loop that keep the counters.
LEMMA GotoMoves ==
    ASSUME GatewayInv, NEW r \in Requests, NEW label \in PCs, Goto(r, label),
           UNCHANGED pool,
           \/ req[r].pc = "idle" /\ label = "count"
           \/ req[r].pc = "next" /\ label = "acquire" /\ req[r].attempted < req[r].budget
           \/ req[r].pc = "open" /\ label = "arm"
           \/ req[r].pc = "arm" /\ label = "recheck"
           \/ req[r].pc = "reset" /\ label = "streaming"
    PROVE  Moved(r)
<1> DEFINE q == [req[r] EXCEPT !.pc = label]
<1>1. req' = [req EXCEPT ![r] = q] /\ req'[r] = q /\ Sound(req[r])
      /\ req[r].tried \cap Ready' = {}
  BY RequestSound DEF Goto, GatewayInv, TypeOK, Ready
<1>2. q \in Request /\ q.pc = label
  BY <1>1 DEF Sound, Request
<1>3. Progress(q)
  BY <1>1, <1>2 DEF Sound, Progress, Request, Attempting
<1>4. q.tried = req[r].tried /\ q.lease = req[r].lease
  BY <1>1 DEF Sound, Request
<1>5. q.pc \in NoLeaseAt => q.lease = NoId
  BY <1>1, <1>2, <1>4 DEF Sound, NoLeaseAt
<1> QED
  BY <1>1, <1>2, <1>3, <1>4, <1>5 DEF Sound, Moved

\* Counting the ready accounts sets the budget of attempts.
LEMMA CountReadyMoves ==
    ASSUME GatewayInv, NEW r \in Requests, CountReady(r)
    PROVE  Moved(r)
<1>1. CASE Ready = {}
  BY <1>1, ReturnMoves DEF CountReady
<1>2. CASE Ready # {}
  <2> DEFINE q == [req[r] EXCEPT !.pc = "acquire", !.budget = Budget]
  <2>1. Ready \in SUBSET Ids /\ UNCHANGED pool /\ Ready' = Ready
    BY DEF Ready, CountReady
  <2>2. Cardinality(Ready) \in Nat \ {0}
    BY <1>2, <2>1, CountIds, FS_EmptySet
  <2>3. Budget \in Nat \ {0} /\ Budget <= MaxAttempts
    BY <2>2, GatewayAssumption DEF Budget
  <2>4. req' = [req EXCEPT ![r] = q] /\ req'[r] = q /\ Sound(req[r])
        /\ req[r].tried \cap Ready = {} /\ req[r].pc = "count"
    BY <1>2, RequestSound DEF CountReady, GatewayInv, TypeOK
  <2>5. q \in Request /\ q.pc = "acquire" /\ q.budget = Budget
        /\ q.attempted = 0 /\ q.quotaFailures = 0 /\ q.tried = {} /\ q.lease = NoId
    BY <2>3, <2>4 DEF Sound, Request, PCs, Progress, NoLeaseAt
  <2>6. Progress(q)
    BY <2>3, <2>5, GatewayAssumption, FS_EmptySet DEF Progress, Attempting
  <2> QED
    BY <2>1, <2>4, <2>5, <2>6 DEF Sound, Moved
<1> QED
  BY <1>1, <1>2

\* The attempt is counted here, and the account is one it has not parked.
LEMMA AcquireMoves ==
    ASSUME GatewayInv, NEW r \in Requests, Acquire(r)
    PROVE  Moved(r)
<1>1. PICK id \in Ready :
         req' = [req EXCEPT ![r].pc = "upstream", ![r].lease = id, ![r].attempted = @ + 1]
  BY DEF Acquire
<1> DEFINE q == [req[r] EXCEPT !.pc = "upstream", !.lease = id, !.attempted = @ + 1]
<1>2. req' = [req EXCEPT ![r] = q] /\ req'[r] = q /\ Sound(req[r])
      /\ req[r].tried \cap Ready = {} /\ req[r].pc = "acquire"
  BY <1>1, RequestSound DEF Acquire, GatewayInv, TypeOK
<1>3. id \in Ids /\ UNCHANGED pool /\ Ready' = Ready
  BY DEF Ready, Acquire
<1>4. q \in Request /\ q.pc = "upstream" /\ q.lease = id /\ q.tried = req[r].tried
      /\ q.attempted = req[r].attempted + 1 /\ q.budget = req[r].budget
      /\ q.quotaFailures = req[r].quotaFailures
  <2>1. req[r] \in Request /\ req[r].attempted + 1 \in Nat /\ "upstream" \in PCs
    BY <1>2 DEF Sound, Request, PCs
  <2>2. q \in Request
    BY <1>3, <2>1 DEF Request
  <2> QED
    BY <2>1, <2>2 DEF Request
<1>5. Progress(q)
  <2>1. Cardinality(req[r].tried) \in Nat
    BY <1>2, CountIds DEF Sound, Request
  <2> QED
    BY <1>2, <1>3, <1>4, <2>1, GatewayAssumption DEF Sound, Request, Progress, Attempting
<1> QED
  BY <1>2, <1>3, <1>4, <1>5 DEF Sound, Moved, NoLeaseAt

\* The answer of the upstream decides between parking, success and the end.
LEMMA AnswerMoves ==
    ASSUME GatewayInv, NEW r \in Requests, NEW k \in Outcomes, Answer(r, k)
    PROVE  Moved(r)
<1> DEFINE n == IF k = "quota" THEN req[r].quotaFailures + 1 ELSE req[r].quotaFailures
           label == CASE k \in OkKinds -> "persist"
                      [] k \in ParkKinds -> "park"
                      [] OTHER -> "fail"
           q == [req[r] EXCEPT !.kind = k, !.quotaFailures = n, !.pc = label]
<1>0. req' = [req EXCEPT ![r].kind = k, ![r].quotaFailures = n, ![r].pc = label]
  BY Zenon DEF Answer
<1>1. req' = [req EXCEPT ![r] = q] /\ req'[r] = q /\ Sound(req[r])
      /\ req[r].tried \cap Ready' = {} /\ req[r].pc = "upstream"
  <2> HIDE DEF n, label
  <2> QED
    BY <1>0, RequestSound DEF Answer, GatewayInv, TypeOK, Ready
<1>2. label \in {"persist", "park", "fail"} /\ (label = "park" => k \in ParkKinds)
  OBVIOUS
<1>3. req[r] \in Request /\ n \in Nat /\ n <= req[r].quotaFailures + 1
  BY <1>1 DEF Sound, Request
<1>4. q \in Request
  <2>1. label \in PCs
    BY <1>2 DEF PCs
  <2> QED
    BY <1>3, <2>1 DEF Request
<1>5. /\ q.pc = label /\ q.kind = k /\ q.quotaFailures = n /\ q.lease = req[r].lease
      /\ q.attempted = req[r].attempted /\ q.budget = req[r].budget /\ q.tried = req[r].tried
  BY <1>3 DEF Request
<1>6. Progress(q)
  BY <1>1, <1>2, <1>3, <1>5 DEF Sound, Progress, Request, Attempting
<1> HIDE DEF q, n, label
<1> QED
  BY <1>1, <1>2, <1>4, <1>5, <1>6 DEF Sound, Moved, NoLeaseAt

\* The account is charged to the request once it has left the ready pool.
LEMMA ParkMoves ==
    ASSUME GatewayInv, NEW r \in Requests, Park(r)
    PROVE  Moved(r) /\ PoolKept /\ Stamped
<1> DEFINE id == req[r].lease
           q == [req[r] EXCEPT !.pc = "save", !.tried = @ \cup {id}]
<1>1. req' = [req EXCEPT ![r] = q] /\ req'[r] = q /\ Sound(req[r])
      /\ req[r].tried \cap Ready = {} /\ req[r].pc = "park"
  BY RequestSound DEF Park, GatewayInv, TypeOK
<1>2. req[r] \in Request /\ id \in Ids /\ req[r].kind \in ParkKinds
      /\ Cardinality(req[r].tried) < req[r].attempted
  BY <1>1 DEF Sound, Progress, Attempting
<1>3. PoolKept /\ Stamped /\ id \notin Ready'
  BY <1>2, MoveKeepsPool DEF Park, GatewayInv
<1>4. q \in Request
  BY <1>2 DEF Request, PCs
<1>5. /\ q.pc = "save" /\ q.tried = req[r].tried \cup {id} /\ q.lease = id
      /\ q.attempted = req[r].attempted /\ q.budget = req[r].budget
      /\ q.quotaFailures = req[r].quotaFailures
  BY <1>2 DEF Request
<1>6. Cardinality(q.tried) <= q.attempted
  <2>1. req[r].tried \in SUBSET Ids /\ req[r].attempted \in Nat
    BY <1>2 DEF Request
  <2>2. Cardinality(req[r].tried) \in Nat
        /\ Cardinality(req[r].tried \cup {id}) <= Cardinality(req[r].tried) + 1
        /\ Cardinality(req[r].tried \cup {id}) \in Nat
    BY <1>2, <2>1, CountIds
  <2> QED
    BY <1>2, <1>5, <2>1, <2>2
<1>7. Progress(q)
  BY <1>1, <1>2, <1>5, <1>6 DEF Sound, Progress, Attempting
<1>8. q.tried \cap Ready' = {}
  BY <1>1, <1>3, <1>5 DEF PoolKept
<1> QED
  BY <1>1, <1>3, <1>4, <1>5, <1>7, <1>8 DEF Sound, Moved, NoLeaseAt

\* Saving the parked account and trying the next one.
LEMMA SaveMoves ==
    ASSUME GatewayInv, NEW r \in Requests, Save(r)
    PROVE  Moved(r)
<1>1. CASE Return(r)
  BY <1>1, ReturnMoves
<1>2. CASE ReleaseToNext(r)
  <2> DEFINE q == [req[r] EXCEPT !.lease = NoId, !.kind = "none", !.pc = "next"]
  <2>1. req' = [req EXCEPT ![r] = q] /\ req'[r] = q /\ Sound(req[r])
        /\ req[r].tried \cap Ready' = {} /\ req[r].pc = "save"
    BY <1>2, RequestSound DEF Save, ReleaseToNext, GatewayInv, TypeOK, Ready
  <2>2. req[r] \in Request
    BY <2>1 DEF Sound
  <2>3. q \in Request
    BY <2>2 DEF Request, PCs
  <2>4. /\ q.pc = "next" /\ q.lease = NoId /\ q.tried = req[r].tried
        /\ q.attempted = req[r].attempted /\ q.budget = req[r].budget
        /\ q.quotaFailures = req[r].quotaFailures
    BY <2>2 DEF Request
  <2>5. Progress(q)
    BY <2>1, <2>4 DEF Sound, Progress, Attempting
  <2> QED
    BY <2>1, <2>3, <2>4, <2>5 DEF Sound, Moved
<1> QED
  BY <1>1, <1>2 DEF Save

\* A success returns its lease, or hands it to the stream.
LEMMA PersistMoves ==
    ASSUME GatewayInv, NEW r \in Requests, NEW stream \in BOOLEAN, PersistSuccess(r, stream)
    PROVE  Moved(r) /\ PoolKept /\ Stamped
<1>1. req[r].pc = "persist" /\ Sound(req[r])
  BY RequestSound DEF PersistSuccess
<1>2. req[r].lease \in Ids
  BY <1>1 DEF Sound, Progress, Attempting
<1>3. PoolKept /\ Stamped
  BY <1>2, MoveKeepsPool, StillPool, GatewayAssumption DEF PersistSuccess, GatewayInv
<1> QED
  BY <1>3, LeaveMoves DEF PersistSuccess

\* Each step of a request, whichever it is.
LEMMA StepMoves ==
    ASSUME GatewayInv, NEW r \in Requests, Start(r) \/ Step(r)
    PROVE  Moved(r) /\ PoolKept /\ CircuitTyped /\ CircuitDropped'
<1> USE DEF GatewayInv
<1>0. /\ Closed \in [open : BOOLEAN, due : BOOLEAN, armed : SUBSET Ids]
      /\ Refreshed \in [open : BOOLEAN, due : BOOLEAN, armed : SUBSET Ids]
      /\ Closed.open = FALSE /\ (Refreshed = Closed \/ Refreshed = circuit)
  BY DEF TypeOK, Closed, Refreshed
<1>1. ASSUME UNCHANGED <<pool, changed>>,
             circuit' \in {circuit, Closed, Refreshed}
      PROVE  PoolKept /\ CircuitTyped /\ CircuitDropped'
  BY <1>0, <1>1, StillPool DEF TypeOK, CircuitTyped, CircuitDropped, Rejecting, Stale, Ready
<1>2. ASSUME PoolKept, Stamped, UNCHANGED circuit
      PROVE  CircuitTyped /\ CircuitDropped'
  BY <1>2 DEF TypeOK, Stamped, CircuitTyped, CircuitDropped, Rejecting, Stale
<1>3. CASE Start(r)
  <2>1. Moved(r)
    BY <1>3, ReturnMoves, GotoMoves DEF Start, PCs
  <2> QED
    BY <1>1, <1>3, <2>1 DEF Start
<1>4. CASE CountReady(r)
  BY <1>1, <1>4, CountReadyMoves DEF CountReady
<1>5. CASE Acquire(r)
  BY <1>1, <1>5, AcquireMoves DEF Acquire
<1>6. CASE AcquireFails(r)
  BY <1>1, <1>6, ReturnMoves DEF AcquireFails
<1>7. ASSUME NEW k \in Outcomes, Answer(r, k)
      PROVE  Moved(r) /\ PoolKept /\ CircuitTyped /\ CircuitDropped'
  <2>1. UNCHANGED <<pool, changed, circuit>>
    BY <1>7, Zenon DEF Answer
  <2> QED
    BY <1>1, <1>7, <2>1, AnswerMoves
<1>8. ASSUME NEW stream \in BOOLEAN, PersistSuccess(r, stream)
      PROVE  Moved(r) /\ PoolKept /\ CircuitTyped /\ CircuitDropped'
  BY <1>2, <1>8, PersistMoves DEF PersistSuccess
<1>9. CASE ResetCircuit(r)
  <2>1. Moved(r)
    BY <1>9, ReturnMoves, GotoMoves DEF ResetCircuit, PCs
  <2> QED
    BY <1>1, <1>9, <2>1 DEF ResetCircuit
<1>10. CASE CloseStream(r)
  BY <1>1, <1>10, ReturnMoves DEF CloseStream
<1>11. CASE Fail(r)
  <2>1. Moved(r)
    BY <1>11, ReturnMoves, LeaveMoves DEF Fail
  <2> QED
    BY <1>1, <1>11, <2>1 DEF Fail
<1>12. CASE Park(r)
  BY <1>2, <1>12, ParkMoves DEF Park
<1>13. CASE Save(r)
  BY <1>1, <1>13, SaveMoves DEF Save
<1>14. CASE NextAttempt(r)
  <2>1. Moved(r)
    BY <1>14, ReturnMoves, LeaveMoves, GotoMoves DEF NextAttempt, PCs
  <2> QED
    BY <1>1, <1>14, <2>1 DEF NextAttempt
<1>15. CASE ReadEarliest(r)
  <2>1. Moved(r)
    BY <1>15, GotoMoves DEF ReadEarliest, PCs
  <2> QED
    BY <1>1, <1>15, <2>1 DEF ReadEarliest
<1>16. CASE Arm(r)
  <2>1. Moved(r)
    BY <1>16, GotoMoves DEF Arm, PCs
  <2>2. PoolKept /\ CircuitTyped /\ CircuitDropped'
    BY <1>16 DEF Arm, TypeOK, PoolKept, CircuitTyped, CircuitDropped, Rejecting, Stale, Ready
  <2> QED
    BY <2>1, <2>2
<1>17. CASE Recheck(r)
  BY <1>1, <1>17, ReturnMoves DEF Recheck
<1> HIDE DEF GatewayInv
<1> QED
  BY <1>3, <1>4, <1>5, <1>6, <1>7, <1>8, <1>9, <1>10, <1>11, <1>12, <1>13, <1>14,
     <1>15, <1>16, <1>17 DEF Step

\* Publication by recovery or an administrator gives an account back to every
\* request that had parked it.
LEMMA PublishPreserves ==
    ASSUME GatewayInv, NEW id \in Ids, NEW s \in PoolStates, Publish(id, s)
    PROVE  GatewayInv'
<1> USE DEF GatewayInv
<1> DEFINE q(r) == [req[r] EXCEPT !.tried = @ \ {id}]
<1>1. pool' = [pool EXCEPT ![id] = s] /\ changed' = TRUE /\ circuit' = circuit
      /\ req' = [r \in Requests |-> q(r)]
  BY DEF Publish
<1>2. ASSUME NEW r \in Requests
      PROVE  Sound(q(r)) /\ q(r).tried \cap Ready' = {}
  <2>1. Sound(req[r]) /\ req[r].tried \cap Ready = {} /\ req[r] \in Request
    BY RequestSound DEF Sound
  <2>2. /\ q(r) \in Request /\ q(r).tried = req[r].tried \ {id}
        /\ q(r).pc = req[r].pc /\ q(r).lease = req[r].lease /\ q(r).kind = req[r].kind
        /\ q(r).attempted = req[r].attempted /\ q(r).budget = req[r].budget
        /\ q(r).quotaFailures = req[r].quotaFailures
    BY <2>1 DEF Request
  <2>3. /\ Cardinality(q(r).tried) \in Nat /\ Cardinality(req[r].tried) \in Nat
        /\ Cardinality(q(r).tried) <= Cardinality(req[r].tried)
        /\ req[r].attempted \in Nat
    <3>1. req[r].tried \in SUBSET Ids /\ q(r).tried \in SUBSET Ids /\ req[r].attempted \in Nat
      BY <2>1, <2>2 DEF Request
    <3> QED
      BY <2>2, <3>1, CountIds
  <2>4. Progress(q(r))
    BY <2>1, <2>2, <2>3 DEF Sound, Progress
  <2>5. Ready' \subseteq Ready \cup {id}
    BY <1>1 DEF Ready, TypeOK
  <2> QED
    BY <2>1, <2>2, <2>4, <2>5 DEF Sound
<1>3. TypeOK'
  BY <1>1, <1>2 DEF TypeOK, Sound
<1>4. NoLeaseLeak' /\ RequestsProgress' /\ ParkedStays'
  BY <1>1, <1>2 DEF NoLeaseLeak, RequestsProgress, ParkedStays, Sound, NoLeaseAt
<1>5. CircuitDropped'
  BY <1>1 DEF CircuitDropped, Rejecting, Stale
<1> QED
  BY <1>3, <1>4, <1>5

\* A request's step keeps the invariant for every other request.
LEMMA RequestPreserves ==
    ASSUME GatewayInv, NEW r \in Requests, Start(r) \/ Step(r)
    PROVE  GatewayInv'
<1>1. Moved(r) /\ PoolKept /\ CircuitTyped /\ CircuitDropped'
  BY StepMoves
<1>2. \A p \in Requests : Sound(req'[p]) /\ req'[p].tried \cap Ready' = {}
  BY <1>1, RequestSound DEF Moved, PoolKept, GatewayInv, TypeOK
<1>3. TypeOK'
  BY <1>1, <1>2 DEF GatewayInv, TypeOK, PoolKept, CircuitTyped, Moved, Sound
<1>4. NoLeaseLeak' /\ RequestsProgress' /\ ParkedStays'
  BY <1>2 DEF NoLeaseLeak, RequestsProgress, ParkedStays, Sound, NoLeaseAt
<1> QED
  BY <1>1, <1>3, <1>4 DEF GatewayInv

-----------------------------------------------------------------------------
(* The invariant and what it gives.                                        *)

\* No requests and a closed circuit satisfy the invariant.
LEMMA GatewayInit == Init => GatewayInv
<1> SUFFICES ASSUME Init PROVE GatewayInv
  OBVIOUS
<1>1. \A r \in Requests : req[r] = Idle /\ Sound(req[r])
  BY IdleSound DEF Init
<1>2. TypeOK
  BY <1>1, GatewayAssumption DEF Init, TypeOK, PoolStates, Closed, Sound
<1>3. NoLeaseLeak /\ RequestsProgress /\ ParkedStays
  BY <1>1, IdleSound DEF NoLeaseLeak, RequestsProgress, ParkedStays, Sound, NoLeaseAt
<1>4. CircuitDropped
  BY DEF Init, CircuitDropped, Rejecting, Closed
<1> QED
  BY <1>2, <1>3, <1>4 DEF GatewayInv

\* Every step keeps the invariant.
LEMMA GatewayStep == GatewayInv /\ [Next]_vars => GatewayInv'
<1> SUFFICES ASSUME GatewayInv, [Next]_vars PROVE GatewayInv'
  OBVIOUS
<1>1. ASSUME NEW r \in Requests, Start(r) \/ Step(r) PROVE GatewayInv'
  BY <1>1, RequestPreserves
<1>2. ASSUME NEW id \in Ids, NEW s \in PoolStates, Publish(id, s) PROVE GatewayInv'
  BY <1>2, PublishPreserves
<1>3. CASE CircuitElapses
  <2>1. TypeOK' /\ CircuitDropped'
    BY <1>3 DEF CircuitElapses, GatewayInv, TypeOK, CircuitDropped, Rejecting, Stale
  <2>2. NoLeaseLeak' /\ RequestsProgress' /\ ParkedStays'
    BY <1>3 DEF CircuitElapses, GatewayInv, NoLeaseLeak, RequestsProgress, ParkedStays, Ready
  <2> QED
    BY <2>1, <2>2 DEF GatewayInv
<1>4. CASE UNCHANGED vars
  BY <1>4 DEF vars, GatewayInv, TypeOK, NoLeaseLeak, RequestsProgress, ParkedStays,
              CircuitDropped, Rejecting, Stale, Ready
<1> QED
  BY <1>1, <1>2, <1>3, <1>4 DEF Next, Environment

\* The invariant holds in every reachable state.
LEMMA GatewayInvariant == Spec => []GatewayInv
BY GatewayInit, GatewayStep, PTL DEF Spec

\* Every path of Gateway.Request and of leaseReadCloser gives back the lease
\* it acquired, however many requests share the pool.
THEOREM LeaseReturned == Spec => []NoLeaseLeak
<1>1. GatewayInv => NoLeaseLeak
  BY DEF GatewayInv
<1> QED
  BY <1>1, GatewayInvariant, PTL

\* A request tries and parks at most maxAttempts accounts, and counts every
\* attempt (the loop of Gateway.Request); the types are part of it.
THEOREM RotationBounded == Spec => []BoundedRotation
<1>1. GatewayInv => BoundedRotation
  BY DEF GatewayInv, BoundedRotation, RequestsProgress, Progress
<1> QED
  BY <1>1, GatewayInvariant, PTL

\* The circuit rejects requests only while the ready accounts are those of the
\* moment it was armed (refreshCircuitLocked, openQuotaCircuit).
THEOREM CircuitFollowsPool == Spec => []CircuitDropped
<1>1. GatewayInv => CircuitDropped
  BY DEF GatewayInv
<1> QED
  BY <1>1, GatewayInvariant, PTL

\* No step leases to a request an account that it parked and that nobody has
\* published since (MoveUnavailable before Release).
THEOREM RotationProgresses == Spec => FreshAccount
<1> DEFINE Fresh(r) == req'[r].lease # NoId /\ req[r].lease = NoId
                           => req'[r].lease \notin req[r].tried
<1>1. GatewayInv /\ [Next]_vars => [\A r \in Requests : Fresh(r)]_vars
  <2> SUFFICES ASSUME GatewayInv, Next PROVE \A r \in Requests : Fresh(r)
    OBVIOUS
  <2>1. ASSUME NEW p \in Requests, Start(p) \/ Step(p) PROVE \A r \in Requests : Fresh(r)
    BY <2>1, StepMoves DEF Moved, GatewayInv, TypeOK
  <2>2. ASSUME NEW id \in Ids, NEW s \in PoolStates, Publish(id, s)
        PROVE  \A r \in Requests : Fresh(r)
    BY <2>2 DEF Publish, GatewayInv, TypeOK, Request
  <2>3. ASSUME CircuitElapses PROVE \A r \in Requests : Fresh(r)
    BY <2>3 DEF CircuitElapses
  <2> QED
    BY <2>1, <2>2, <2>3 DEF Next, Environment
<1> QED
  BY <1>1, GatewayInvariant, PTL DEF Spec, FreshAccount
=============================================================================
