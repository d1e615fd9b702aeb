-------------------------- MODULE DeviceAuthProofs --------------------------
(***************************************************************************)
(* The outcome of a device authorization session is final and is what was  *)
(* done, for any number of sessions, handlers, listed sessions and faults. *)
(*                                                                         *)
(* OutcomeFinal is about one step; what makes it true is that a poller     *)
(* between the lock and the update still sees the status it has read.      *)
(* That is the inductive invariant Exclusive: whoever is inside holds the  *)
(* session's lock, so nobody else can have written the status since.       *)
(* SucceededIffImported speaks of sessions at rest; Imports says in        *)
(* addition how far the import is at each step of the poller inside.       *)
(***************************************************************************)
EXTENDS DeviceAuth, TLAPS

Working == {"ask", "validate", "save", "publish"}
Inside  == Working \cup {"update"}

\* Who is inside a session holds its lock; the session has not ended while it
\* is being polled, and has not succeeded before its update.
Exclusive ==
    \A p \in Pollers :
        /\ proc[p].pc \in Inside => lock[proc[p].s] = p
        /\ proc[p].pc \in Working => status[proc[p].s] \in Pending
        /\ proc[p].pc = "update" => status[proc[p].s] # "succeeded"

DeviceAuthInv == TypeOK /\ Exclusive

-----------------------------------------------------------------------------
(* Types.                                                                  *)

\* A poller outside of PollOnce has its type.
LEMMA IdleProcType == IdleProc \in Proc /\ IdleProc.pc = "idle"
BY DeviceAuthAssumption DEF IdleProc, Proc

\* Moving on inside PollOnce keeps the type of the pollers.
LEMMA GotoType ==
    ASSUME TypeOK, NEW p \in Pollers, NEW label \in Working, Goto(p, label)
    PROVE  proc' \in [Pollers -> Proc]
<1>1. [proc[p] EXCEPT !.pc = label] \in Proc
  BY DEF TypeOK, Working, Proc
<1> QED
  BY <1>1 DEF TypeOK, Goto

\* Deciding on an outcome keeps the type of the pollers.
LEMMA SettleType ==
    ASSUME TypeOK, NEW p \in Pollers, NEW next \in Pending \cup Ended, Settle(p, next)
    PROVE  proc' \in [Pollers -> Proc]
<1>1. [proc[p] EXCEPT !.pc = "update", !.next = next] \in Proc
  BY DEF TypeOK, Proc
<1> QED
  BY <1>1 DEF TypeOK, Settle

\* The initial state has its types.
LEMMA TypeInit == Init => TypeOK
BY DeviceAuthAssumption, IdleProcType DEF Init, TypeOK, Pollers

\* Every step keeps the types.
LEMMA TypeStep == TypeOK /\ [Next]_vars => TypeOK'
<1> SUFFICES ASSUME TypeOK, [Next]_vars
             PROVE  TypeOK'
  OBVIOUS
<1> USE DeviceAuthAssumption, IdleProcType
<1>1. ASSUME NEW s \in Sessions, Start(s)
      PROVE  TypeOK'
  BY <1>1 DEF TypeOK, Proc, Pollers, Pending, Ended, Start, world
<1>2. ASSUME NEW s \in Sessions, Interval(s)
      PROVE  TypeOK'
  BY <1>2 DEF TypeOK, Proc, Pollers, Pending, Ended, Interval, world
<1>3. ASSUME NEW s \in Sessions, Lapse(s)
      PROVE  TypeOK'
  BY <1>3 DEF TypeOK, Proc, Pollers, Pending, Ended, Lapse, world
<1>4. ASSUME NEW s \in Sessions, WorkerPoll(s)
      PROVE  TypeOK'
  BY <1>4 DEF TypeOK, Proc, Pollers, Pending, Ended, WorkerPoll, Call, Is, world
<1>5. ASSUME NEW s \in Sessions, NEW answer \in {"approved", "denied", "lapsed"},
             Decide(s, answer)
      PROVE  TypeOK'
  BY <1>5 DEF TypeOK, Proc, Pollers, Pending, Ended, Decide
<1>6. ASSUME NEW s \in Sessions, NEW p \in Handlers, NEW op \in {"poll", "cancel"},
             HandlerCall(p, op, s)
      PROVE  TypeOK'
  BY <1>6 DEF TypeOK, Proc, Pollers, Pending, Ended, HandlerCall, Call, Is, world
<1>7. ASSUME NEW p \in Pollers, EnterPoll(p)
      PROVE  TypeOK'
  <2>1. proc' \in [Pollers -> Proc]
    <3>1. CASE proc' = [proc EXCEPT ![p] = IdleProc]
      BY <3>1 DEF TypeOK
    <3> QED
      BY <1>7, <3>1, GotoType, SettleType DEF EnterPoll, Ended, Working
  <2>2. lock' \in [Sessions -> Pollers \cup {Nobody}]
    BY <1>7 DEF TypeOK, EnterPoll, Of, Proc
  <2> QED
    BY <1>7, <2>1, <2>2 DEF TypeOK, EnterPoll, world
<1>8. ASSUME NEW p \in Pollers, EnterCancel(p)
      PROVE  TypeOK'
  BY <1>8 DEF TypeOK, Proc, Pollers, Pending, Ended, EnterCancel, Settle, Of, Is, Free, world
<1>9. ASSUME NEW p \in Pollers, Ask(p)
      PROVE  TypeOK'
  <2>1. proc' \in [Pollers -> Proc]
    BY <1>9, GotoType, SettleType DEF Ask, Answers, Pending, Ended, Working
  <2>2. provider' \in [Sessions -> {"waiting", "approved", "denied", "lapsed", "spent"}]
    BY <1>9 DEF TypeOK, Ask
  <2> QED
    BY <1>9, <2>1, <2>2 DEF TypeOK, Ask
<1>10. ASSUME NEW p \in Pollers, Validate(p)
      PROVE  TypeOK'
  <2>1. proc' \in [Pollers -> Proc]
    BY <1>10, GotoType, SettleType DEF Validate, Ended, Working
  <2> QED
    BY <1>10, <2>1 DEF TypeOK, Validate, world
<1>11. ASSUME NEW p \in Pollers, SaveAccount(p)
      PROVE  TypeOK'
  <2>1. proc' \in [Pollers -> Proc]
    BY <1>11, GotoType, SettleType DEF SaveAccount, Ended, Working
  <2>2. saved' \subseteq Sessions
    BY <1>11 DEF TypeOK, SaveAccount, Of, Proc
  <2> QED
    BY <1>11, <2>1, <2>2 DEF TypeOK, SaveAccount, world
<1>12. ASSUME NEW p \in Pollers, Publish(p)
      PROVE  TypeOK'
  BY <1>12 DEF TypeOK, Proc, Pollers, Pending, Ended, Publish, Settle, Of, Is, world
<1>13. ASSUME NEW p \in Pollers, Update(p)
      PROVE  TypeOK'
  BY <1>13 DEF TypeOK, Proc, Pollers, Pending, Ended, Update, Leave, Of, Is, world
<1>14. ASSUME NEW p \in Pollers, UpdateFails(p)
      PROVE  TypeOK'
  BY <1>14 DEF TypeOK, Proc, Pollers, Pending, Ended, UpdateFails, Leave, Of, Is, world
<1>15. ASSUME Tick
      PROVE  TypeOK'
  BY <1>15 DEF TypeOK, Proc, Pollers, Pending, Ended, Tick, Listed, Polled, Is, world
<1>16. ASSUME Restart
      PROVE  TypeOK'
  BY <1>16 DEF TypeOK, Proc, Pollers, Pending, Ended, Restart, world
<1>17. CASE UNCHANGED vars
  BY <1>17 DEF TypeOK, Proc, Pollers, Pending, Ended, vars
<1> QED
  BY <1>1, <1>2, <1>3, <1>4, <1>5, <1>6, <1>7, <1>8, <1>9, <1>10, <1>11, <1>12, <1>13, <1>14, <1>15, <1>16, <1>17 DEF Next, Proceed

-----------------------------------------------------------------------------
(* The lock protects what its holder has read.                             *)

\* Nobody is inside at first.
LEMMA ExclusiveInit == Init => Exclusive
BY IdleProcType DEF Init, Exclusive, Inside, Working

\* Nobody but the holder of the lock is inside: a working poller may move on.
LEMMA GotoExclusive ==
    ASSUME TypeOK, Exclusive, NEW p \in Pollers, proc[p].pc \in Working,
           NEW label \in Working, Goto(p, label), UNCHANGED <<status, lock>>
    PROVE  Exclusive'
BY DEF TypeOK, Exclusive, Proc, Inside, Working, Goto

\* Deciding on an outcome keeps the lock where it is.
LEMMA SettleExclusive ==
    ASSUME TypeOK, Exclusive, NEW p \in Pollers, proc[p].pc \in Working,
           NEW next, Settle(p, next), UNCHANGED <<status, lock>>
    PROVE  Exclusive'
BY DEF TypeOK, Exclusive, Proc, Inside, Working, Pending, Settle

\* Every step keeps the lock with the one poller that is inside.
LEMMA ExclusiveStep == TypeOK /\ Exclusive /\ [Next]_vars => Exclusive'
<1> SUFFICES ASSUME TypeOK, Exclusive, [Next]_vars
             PROVE  Exclusive'
  OBVIOUS
<1> USE DeviceAuthAssumption, IdleProcType
<1>1. ASSUME NEW s \in Sessions, Start(s)
      PROVE  Exclusive'
  BY <1>1 DEF TypeOK, Exclusive, Proc, Inside, Working, Pollers, Pending, Ended, Start, world
<1>2. ASSUME NEW s \in Sessions, Interval(s)
      PROVE  Exclusive'
  BY <1>2 DEF TypeOK, Exclusive, Proc, Inside, Working, Pollers, Pending, Ended, Interval, world
<1>3. ASSUME NEW s \in Sessions, Lapse(s)
      PROVE  Exclusive'
  BY <1>3 DEF TypeOK, Exclusive, Proc, Inside, Working, Pollers, Pending, Ended, Lapse, world
<1>4. ASSUME NEW s \in Sessions, WorkerPoll(s)
      PROVE  Exclusive'
  BY <1>4 DEF TypeOK, Exclusive, Proc, Inside, Working, Pollers, Pending, Ended, WorkerPoll, Call, Is, world
<1>5. ASSUME NEW s \in Sessions, NEW answer \in {"approved", "denied", "lapsed"},
             Decide(s, answer)
      PROVE  Exclusive'
  BY <1>5 DEF TypeOK, Exclusive, Proc, Inside, Working, Pollers, Pending, Ended, Decide
<1>6. ASSUME NEW s \in Sessions, NEW p \in Handlers, NEW op \in {"poll", "cancel"},
             HandlerCall(p, op, s)
      PROVE  Exclusive'
  BY <1>6 DEF TypeOK, Exclusive, Proc, Inside, Working, Pollers, Pending, Ended, HandlerCall, Call, Is, world
<1>7. ASSUME NEW p \in Pollers, EnterPoll(p)
      PROVE  Exclusive'
  BY <1>7 DEF TypeOK, Exclusive, Proc, Inside, Working, Pollers, Pending, Ended, EnterPoll, Settle, Goto, Of, Is, Free, world
<1>8. ASSUME NEW p \in Pollers, EnterCancel(p)
      PROVE  Exclusive'
  BY <1>8 DEF TypeOK, Exclusive, Proc, Inside, Working, Pollers, Pending, Ended, EnterCancel, Settle, Of, Is, Free, world
<1>9. ASSUME NEW p \in Pollers, Ask(p)
      PROVE  Exclusive'
  BY <1>9, GotoExclusive, SettleExclusive DEF Ask, Is, Working
<1>10. ASSUME NEW p \in Pollers, Validate(p)
      PROVE  Exclusive'
  BY <1>10, GotoExclusive, SettleExclusive DEF Validate, Is, Working, world
<1>11. ASSUME NEW p \in Pollers, SaveAccount(p)
      PROVE  Exclusive'
  BY <1>11, GotoExclusive, SettleExclusive DEF SaveAccount, Is, Working, world
<1>12. ASSUME NEW p \in Pollers, Publish(p)
      PROVE  Exclusive'
  BY <1>12, GotoExclusive, SettleExclusive DEF Publish, Is, Working, world
<1>13. ASSUME NEW p \in Pollers, Update(p)
      PROVE  Exclusive'
  BY <1>13 DEF TypeOK, Exclusive, Proc, Inside, Working, Pollers, Pending, Ended, Update, Leave, Of, Is, world
<1>14. ASSUME NEW p \in Pollers, UpdateFails(p)
      PROVE  Exclusive'
  BY <1>14 DEF TypeOK, Exclusive, Proc, Inside, Working, Pollers, Pending, Ended, UpdateFails, Leave, Of, Is, world
<1>15. ASSUME Tick
      PROVE  Exclusive'
  BY <1>15 DEF TypeOK, Exclusive, Proc, Inside, Working, Pollers, Pending, Ended, Tick, Listed, Polled, Is, world
<1>16. ASSUME Restart
      PROVE  Exclusive'
  BY <1>16 DEF TypeOK, Exclusive, Proc, Inside, Working, Pollers, Pending, Ended, Restart, world
<1>17. CASE UNCHANGED vars
  BY <1>17 DEF TypeOK, Exclusive, Proc, Inside, Working, Pollers, Pending, Ended, vars
<1> QED
  BY <1>1, <1>2, <1>3, <1>4, <1>5, <1>6, <1>7, <1>8, <1>9, <1>10, <1>11, <1>12, <1>13, <1>14, <1>15, <1>16, <1>17 DEF Next, Proceed

\* In every reachable state the types hold, and a poller that is between lock
\* and update holds the lock of a session whose status is still the one it
\* decided on (PollOnce, Cancel, sessionPollLock).
THEOREM LockProtectsSession == Spec => []DeviceAuthInv
<1>1. Init => DeviceAuthInv
  BY TypeInit, ExclusiveInit DEF DeviceAuthInv
<1>2. DeviceAuthInv /\ [Next]_vars => DeviceAuthInv'
  BY TypeStep, ExclusiveStep DEF DeviceAuthInv
<1> QED
  BY <1>1, <1>2, PTL DEF Spec

-----------------------------------------------------------------------------
(* The outcome of a session.                                               *)

\* What an administrator has been shown is final: a session that succeeded
\* stays succeeded, and an account is imported only for a session that is
\* still pending in the table - for every interleaving of worker, manual polls
\* and cancels, with failed updates and restarts.
THEOREM OutcomeIsFinal == Spec => OutcomeFinal
<1> DEFINE Final ==
       \A s \in Sessions :
          /\ status[s] = "succeeded" => status'[s] = "succeeded"
          /\ s \in saved' \ saved => status[s] \in Pending
<1>1. DeviceAuthInv /\ [Next]_vars => [Final]_vars
  <2> SUFFICES ASSUME DeviceAuthInv, Next
               PROVE  Final
    OBVIOUS
  <2>1. ASSUME NEW p \in Pollers, Update(p)
        PROVE  Final
    BY <2>1 DEF DeviceAuthInv, TypeOK, Exclusive, Update, Is, Of, Proc
  <2>2. ASSUME NEW p \in Pollers, SaveAccount(p)
        PROVE  Final
    BY <2>2 DEF DeviceAuthInv, Exclusive, Working, SaveAccount, Is, Of
  <2>3. ASSUME NEW s \in Sessions, Start(s)
        PROVE  Final
    BY <2>3 DEF DeviceAuthInv, TypeOK, Start
  <2>4. CASE UNCHANGED <<status, saved>>
    BY <2>4
  <2> QED
    BY <2>1, <2>2, <2>3, <2>4
       DEF Next, Proceed, Interval, Lapse, WorkerPoll, Decide, HandlerCall, EnterPoll,
           EnterCancel, Ask, Validate, Publish, UpdateFails, Tick, Restart
<1> QED
  BY <1>1, LockProtectsSession, PTL DEF Spec, OutcomeFinal

-----------------------------------------------------------------------------
(* No lock is left behind.                                                 *)

\* A lock that is held is held by a poller inside the session.
HeldInside ==
    \A s \in Sessions :
        lock[s] # Nobody => /\ lock[s] \in Pollers
                            /\ proc[lock[s]].pc \in Inside /\ proc[lock[s]].s = s

\* No lock is held at first.
LEMMA HeldInsideInit == Init => HeldInside
BY DEF Init, HeldInside

\* A lock is taken on entry and released with the update.
LEMMA HeldInsideStep == TypeOK /\ Exclusive /\ HeldInside /\ [Next]_vars => HeldInside'
<1> SUFFICES ASSUME TypeOK, Exclusive, HeldInside, [Next]_vars
             PROVE  HeldInside'
  OBVIOUS
<1> USE DeviceAuthAssumption
<1>1. ASSUME NEW p \in Pollers, proc[p].pc \notin Inside, lock' = lock,
             \A d \in Pollers \ {p} : proc'[d] = proc[d]
      PROVE  HeldInside'
  BY <1>1 DEF HeldInside
<1>2. CASE UNCHANGED <<lock, proc>>
  BY <1>2 DEF HeldInside
<1>3. ASSUME NEW p \in Pollers, NEW op, NEW s, Call(p, op, s), lock' = lock
      PROVE  HeldInside'
  <2>1. /\ proc[p].pc \notin Inside
        /\ \A d \in Pollers \ {p} : proc'[d] = proc[d]
    BY <1>3 DEF Call, Is, Inside, Working, TypeOK
  <2> QED
    BY <1>1, <1>3, <2>1
<1>4. ASSUME NEW p \in Pollers, NEW q, proc' = [proc EXCEPT ![p] = q], q.pc \in Inside,
             q.s = proc[p].s, lock'[q.s] = p,
             \A x \in Sessions \ {q.s} : lock'[x] = lock[x],
             lock[q.s] \in {p, Nobody}, proc[p].pc \in Inside \cup {"lock"}
      PROVE  HeldInside'
  <2>1. proc'[p] = q /\ \A d \in Pollers \ {p} : proc'[d] = proc[d]
    BY <1>4 DEF TypeOK
  <2> SUFFICES ASSUME NEW x \in Sessions, lock'[x] # Nobody
               PROVE  /\ lock'[x] \in Pollers
                      /\ proc'[lock'[x]].pc \in Inside /\ proc'[lock'[x]].s = x
    BY DEF HeldInside
  <2>2. CASE x = q.s
    BY <1>4, <2>1, <2>2
  <2>3. CASE x # q.s
    <3>1. lock'[x] = lock[x] /\ lock[x] \in Pollers /\ proc[lock[x]].s = x
          /\ proc[lock[x]].pc \in Inside
      BY <1>4, <2>3 DEF HeldInside
    <3>2. lock[x] # p
      BY <1>4, <2>3, <3>1
    <3> QED
      BY <2>1, <3>1, <3>2
  <2> QED
    BY <2>2, <2>3
<1>5. ASSUME NEW p \in Pollers, proc[p].pc \in Inside, NEW label \in Inside, NEW next, lock' = lock,
             proc' = [proc EXCEPT ![p] = [proc[p] EXCEPT !.pc = label, !.next = next]]
      PROVE  HeldInside'
  <2>1. PICK q : q = [proc[p] EXCEPT !.pc = label, !.next = next]
    OBVIOUS
  <2>2. q.pc = label /\ q.s = proc[p].s
    BY <2>1 DEF TypeOK, Proc
  <2>3. lock[proc[p].s] = p
    BY <1>5 DEF Exclusive
  <2>4. proc' = [proc EXCEPT ![p] = q]
    BY <1>5, <2>1
  <2> QED
    BY <1>4, <1>5, <2>2, <2>3, <2>4
<1>6. ASSUME NEW p \in Pollers, proc[p].pc \in Inside, lock' = lock,
             \/ \E label \in Working : Goto(p, label)
             \/ \E next : Settle(p, next)
      PROVE  HeldInside'
  <2>1. ASSUME NEW label \in Working, Goto(p, label)
        PROVE  HeldInside'
    <3>1. proc' = [proc EXCEPT ![p] = [proc[p] EXCEPT !.pc = label, !.next = proc[p].next]]
      BY <2>1 DEF Goto, TypeOK, Proc
    <3> QED
      BY <1>5, <1>6, <3>1 DEF Inside
  <2>2. ASSUME NEW next, Settle(p, next)
        PROVE  HeldInside'
    <3>1. proc' = [proc EXCEPT ![p] = [proc[p] EXCEPT !.pc = "update", !.next = next]]
      BY <2>2 DEF Settle, TypeOK, Proc
    <3> QED
      BY <1>5, <1>6, <3>1 DEF Inside
  <2> QED
    BY <1>6, <2>1, <2>2
<1>7. ASSUME NEW p \in Pollers, EnterPoll(p) \/ EnterCancel(p)
      PROVE  HeldInside'
  <2>1. proc[p].pc = "lock" /\ lock[proc[p].s] = Nobody /\ proc[p].s \in Sessions
    BY <1>7 DEF EnterPoll, EnterCancel, Is, Of, Free, TypeOK, Proc
  <2>2. CASE proc' = [proc EXCEPT ![p] = IdleProc] /\ lock' = lock
    <3>1. \A d \in Pollers \ {p} : proc'[d] = proc[d]
      BY <2>2 DEF TypeOK
    <3> QED
      BY <1>1, <2>1, <2>2, <3>1 DEF Inside, Working
  <2>3. CASE /\ lock' = [lock EXCEPT ![proc[p].s] = p]
             /\ Goto(p, "ask") \/ Settle(p, "expired") \/ Settle(p, "cancelled")
    <3>1. PICK q : proc' = [proc EXCEPT ![p] = q] /\ q.pc \in Inside /\ q.s = proc[p].s
      <4>1. CASE Goto(p, "ask")
        <5>1. PICK q : q = [proc[p] EXCEPT !.pc = "ask"]
          OBVIOUS
        <5>2. q.pc \in Inside /\ q.s = proc[p].s
          BY <5>1 DEF TypeOK, Proc, Inside, Working
        <5>3. proc' = [proc EXCEPT ![p] = q]
          BY <4>1, <5>1 DEF Goto, TypeOK, Proc
        <5> QED
          BY <5>2, <5>3
      <4>2. ASSUME NEW next, Settle(p, next)
            PROVE  \E q : proc' = [proc EXCEPT ![p] = q] /\ q.pc \in Inside /\ q.s = proc[p].s
        <5>1. PICK q : q = [proc[p] EXCEPT !.pc = "update", !.next = next]
          OBVIOUS
        <5>2. q.pc \in Inside /\ q.s = proc[p].s
          BY <5>1 DEF TypeOK, Proc, Inside, Working
        <5>3. proc' = [proc EXCEPT ![p] = q]
          BY <4>2, <5>1 DEF Settle, TypeOK, Proc
        <5> QED
          BY <5>2, <5>3
      <4> QED
        BY <2>3, <4>1, <4>2
    <3>2. lock'[q.s] = p /\ \A x \in Sessions \ {q.s} : lock'[x] = lock[x]
      BY <2>1, <2>3, <3>1 DEF TypeOK
    <3> QED
      BY <1>4, <2>1, <3>1, <3>2
  <2> QED
    BY <1>7, <2>2, <2>3 DEF EnterPoll, EnterCancel, Of
<1>8. ASSUME NEW p \in Pollers, Ask(p) \/ Validate(p) \/ SaveAccount(p) \/ Publish(p)
      PROVE  HeldInside'
  <2>1. /\ proc[p].pc \in Inside /\ lock' = lock
        /\ \/ \E label \in Working : Goto(p, label)
           \/ \E next : Settle(p, next)
    BY <1>8 DEF Ask, Validate, SaveAccount, Publish, Is, Inside, Working
  <2> QED
    BY <1>6, <2>1
<1>9. ASSUME NEW p \in Pollers, Update(p) \/ UpdateFails(p)
      PROVE  HeldInside'
  <2>1. /\ proc[p].pc \in Inside /\ proc[p].s \in Sessions
        /\ lock' = [lock EXCEPT ![proc[p].s] = Nobody]
        /\ \A d \in Pollers \ {p} : proc'[d] = proc[d]
    BY <1>9 DEF Update, UpdateFails, Leave, Is, Of, Inside, TypeOK, Proc
  <2>2. lock[proc[p].s] = p
    BY <2>1 DEF Exclusive
  <2> QED
    BY <2>1, <2>2 DEF HeldInside, TypeOK
<1>10. CASE Restart
  BY <1>10 DEF Restart, HeldInside
<1> QED
  BY <1>2, <1>3, <1>7, <1>8, <1>9, <1>10
     DEF Next, Proceed, Pollers, Start, Interval, Lapse, WorkerPoll, Decide, HandlerCall, Tick, vars

\* No lock is left behind: a session's lock that is held has its holder between
\* lock and update, for every outcome, failed update and restart (pollOnce,
\* Cancel, sessionPollLock).  So a session is never locked out of the worker's
\* polls for good.
THEOREM LocksHaveHolders == Spec => []HeldInside
<1>1. DeviceAuthInv /\ HeldInside /\ [Next]_vars => HeldInside'
  BY HeldInsideStep DEF DeviceAuthInv
<1> QED
  BY <1>1, HeldInsideInit, LockProtectsSession, PTL DEF Spec

-----------------------------------------------------------------------------
(* A session has succeeded exactly when its account is imported.           *)

\* How far the import of a session is at a poller's step.
Agrees(s)     == (status[s] = "succeeded" <=> s \in saved) /\ (s \in saved <=> s \in pooled)
Untouched(s)  == s \notin saved /\ s \notin pooled
InProgress(p) ==
    /\ proc[p].pc \in {"ask", "validate", "save"} => Untouched(proc[p].s)
    /\ proc[p].pc = "publish" => proc[p].s \in saved
    /\ proc[p].pc = "update" /\ proc[p].next = "succeeded" => proc[p].s \in saved /\ proc[p].s \in pooled
    /\ proc[p].pc = "update" /\ proc[p].next # "succeeded" => Untouched(proc[p].s)

Imports ==
    /\ \A s \in Sessions : lock[s] = Nobody => Agrees(s)
    /\ \A p \in Pollers : InProgress(p)

ImportInv == DeviceAuthInv /\ (faults = 0 => Imports)

\* Rows and locks other than those of the session s are as before.
Elsewhere(s) ==
    \A x \in Sessions \ {s} : /\ lock'[x] = lock[x] /\ status'[x] = status[x]
                              /\ x \in saved' <=> x \in saved
                              /\ x \in pooled' <=> x \in pooled

\* A poller acts on a session that is free or its own: the others see nothing of
\* it.  What is left to show is about that poller and that session.
LEMMA OwnStep ==
    ASSUME TypeOK, Exclusive, Imports, NEW p \in Pollers, NEW s \in Sessions,
           lock[s] \in {Nobody, p}, Elsewhere(s),
           \A d \in Pollers \ {p} : proc'[d] = proc[d],
           InProgress(p)', lock'[s] = Nobody => Agrees(s)'
    PROVE  Imports'
<1>1. ASSUME NEW x \in Sessions, lock'[x] = Nobody PROVE Agrees(x)'
  <2>1. CASE x # s
    BY <1>1, <2>1 DEF Imports, Agrees, Elsewhere
  <2> QED
    BY <1>1, <2>1
<1>2. ASSUME NEW d \in Pollers \ {p} PROVE InProgress(d)'
  <2>1. CASE proc[d].pc \in Inside
    <3>1. lock[proc[d].s] = d /\ proc[d].s \in Sessions /\ d # Nobody
      BY <2>1, DeviceAuthAssumption DEF Exclusive, TypeOK, Proc
    <3>2. proc[d].s \in Sessions \ {s}
      BY <3>1
    <3>3. InProgress(d) /\ proc'[d] = proc[d]
      BY DEF Imports
    <3> QED
      BY <3>2, <3>3 DEF InProgress, Untouched, Elsewhere
  <2>2. CASE proc[d].pc \notin Inside
    BY <2>2 DEF InProgress, Inside, Working
  <2> QED
    BY <2>1, <2>2
<1> QED
  BY <1>1, <1>2 DEF Imports

\* A step that is no fault keeps success and import together.
LEMMA ImportsStep ==
    TypeOK /\ Exclusive /\ Imports /\ [Next]_vars /\ faults' = faults => Imports'
<1> SUFFICES ASSUME TypeOK, Exclusive, Imports, [Next]_vars, faults' = faults
             PROVE  Imports'
  OBVIOUS
<1> USE DeviceAuthAssumption
<1>0. faults \in Nat
  BY DEF TypeOK
<1>1. CASE UNCHANGED <<status, saved, pooled, lock, proc>>
  BY <1>1 DEF Imports, Agrees, InProgress, Untouched
<1>2. ASSUME NEW p \in Pollers, NEW op, NEW s, Call(p, op, s),
             UNCHANGED <<status, saved, pooled, lock>>
      PROVE  Imports'
  <2>1. PICK q : q = [IdleProc EXCEPT !.pc = "lock", !.op = op, !.s = s]
    OBVIOUS
  <2>2. q.pc = "lock"
    BY <2>1 DEF IdleProc
  <2>3. proc'[p] = q /\ \A d \in Pollers \ {p} : proc'[d] = proc[d]
    BY <1>2, <2>1 DEF Call, TypeOK
  <2>4. InProgress(p)'
    BY <2>2, <2>3 DEF InProgress
  <2>5. \A d \in Pollers \ {p} : InProgress(d)'
    BY <1>2, <2>3 DEF Imports, InProgress, Untouched
  <2> QED
    BY <1>2, <2>4, <2>5 DEF Imports, Agrees
<1>3. ASSUME NEW s \in Sessions, Start(s)
      PROVE  Imports'
  <2>1. \A x \in Sessions : Agrees(x) => Agrees(x)'
    BY <1>3 DEF Start, Agrees, TypeOK
  <2> QED
    BY <1>3, <2>1 DEF Start, Imports, InProgress, Untouched
<1>4. ASSUME NEW p \in Pollers, EnterPoll(p) \/ EnterCancel(p)
      PROVE  Imports'
  <2>1. PICK s \in Sessions : s = proc[p].s
    BY DEF TypeOK, Proc
  <2>2. UNCHANGED <<status, saved, pooled>> /\ lock[s] = Nobody
    BY <1>4, <2>1 DEF EnterPoll, EnterCancel, Free, Of
  <2>3. CASE proc' = [proc EXCEPT ![p] = IdleProc] /\ lock' = lock
    <3>1. proc'[p].pc = "idle" /\ \A d \in Pollers \ {p} : proc'[d] = proc[d]
      BY <2>3, IdleProcType DEF TypeOK
    <3>2. InProgress(p)'
      BY <3>1 DEF InProgress
    <3>3. Agrees(s)'
      BY <2>2 DEF Imports, Agrees
    <3> QED
      BY <2>2, <2>3, <3>1, <3>2, <3>3, OwnStep DEF Elsewhere
  <2>4. CASE /\ lock' = [lock EXCEPT ![s] = p] /\ status[s] # "succeeded"
             /\ Goto(p, "ask") \/ Settle(p, "expired") \/ Settle(p, "cancelled")
    <3>1. Untouched(s)
      BY <2>2, <2>4 DEF Imports, Agrees, Untouched
    <3>2. /\ proc'[p].s = s /\ proc'[p].pc \in {"ask", "update"}
          /\ proc'[p].pc = "update" => proc'[p].next # "succeeded"
          /\ \A d \in Pollers \ {p} : proc'[d] = proc[d]
      BY <2>1, <2>4 DEF Goto, Settle, TypeOK, Proc
    <3>3. InProgress(p)'
      BY <2>2, <3>1, <3>2 DEF InProgress, Untouched
    <3>4. lock'[s] # Nobody /\ Elsewhere(s)
      BY <2>2, <2>4 DEF TypeOK, Elsewhere
    <3> QED
      BY <2>2, <3>2, <3>3, <3>4, OwnStep
  <2> QED
    BY <1>4, <2>1, <2>3, <2>4 DEF EnterPoll, EnterCancel, Of, Pending
<1>5. ASSUME NEW p \in Pollers, Ask(p) \/ Validate(p) \/ SaveAccount(p) \/ Publish(p)
      PROVE  Imports'
  <2>1. PICK s \in Sessions : s = proc[p].s
    BY DEF TypeOK, Proc
  <2>2. lock[s] = p /\ lock' = lock /\ status' = status /\ proc[p].pc \in Working
    BY <1>5, <2>1 DEF Ask, Validate, SaveAccount, Publish, Is, Working, Inside, Exclusive
  <2>3. \A d \in Pollers \ {p} : proc'[d] = proc[d]
    BY <1>5 DEF Ask, Validate, SaveAccount, Publish, Goto, Settle, TypeOK
  <2>4. Elsewhere(s)
    BY <1>5, <2>1, <2>2 DEF Ask, Validate, SaveAccount, Publish, Of, Elsewhere
  <2>5. InProgress(p)'
    <3>1. CASE Ask(p)
      <4>1. Untouched(s)
        BY <2>1, <3>1 DEF Imports, InProgress, Ask, Is
      <4>2. Goto(p, "validate") \/ \E next \in Pending \cup {"denied", "expired", "failed"} : Settle(p, next)
        BY <3>1 DEF Ask, Answers
      <4>3. /\ proc'[p].s = s /\ proc'[p].pc \in {"validate", "update"}
            /\ proc'[p].pc = "update" => proc'[p].next # "succeeded"
        BY <2>1, <4>2 DEF Goto, Settle, TypeOK, Proc, Pending
      <4> QED
        BY <3>1, <4>1, <4>3 DEF InProgress, Untouched, Ask
    <3>2. CASE Validate(p)
      <4>1. Untouched(s)
        BY <2>1, <3>2 DEF Imports, InProgress, Validate, Is
      <4>2. /\ proc'[p].s = s /\ proc'[p].pc \in {"save", "update"}
            /\ proc'[p].pc = "update" => proc'[p].next # "succeeded"
        BY <2>1, <3>2 DEF Validate, Goto, Settle, TypeOK, Proc
      <4> QED
        BY <3>2, <4>1, <4>2 DEF InProgress, Untouched, Validate
    <3>3. CASE SaveAccount(p)
      <4>1. Untouched(s)
        BY <2>1, <3>3 DEF Imports, InProgress, SaveAccount, Is
      <4>2. CASE saved' = saved \cup {s} /\ Goto(p, "publish")
        <5>1. proc'[p].s = s /\ proc'[p].pc = "publish"
          BY <2>1, <4>2 DEF Goto, TypeOK, Proc
        <5> QED
          BY <4>2, <5>1 DEF InProgress
      <4>3. CASE Settle(p, "failed") /\ saved' = saved
        <5>1. proc'[p].s = s /\ proc'[p].pc = "update" /\ proc'[p].next = "failed"
          BY <2>1, <4>3 DEF Settle, TypeOK, Proc
        <5> QED
          BY <3>3, <4>1, <4>3, <5>1 DEF InProgress, Untouched, SaveAccount
      <4> QED
        BY <2>1, <3>3, <4>2, <4>3 DEF SaveAccount, Of
    <3>4. CASE Publish(p)
      <4>1. s \in saved
        BY <2>1, <3>4 DEF Imports, InProgress, Publish, Is
      <4>2. proc'[p].s = s /\ proc'[p].pc = "update" /\ proc'[p].next = "succeeded"
        BY <2>1, <3>4 DEF Publish, Settle, TypeOK, Proc
      <4> QED
        BY <2>1, <3>4, <4>1, <4>2 DEF InProgress, Publish, Of
    <3> QED
      BY <1>5, <3>1, <3>2, <3>3, <3>4
  <2>6. lock'[s] # Nobody
    BY <2>2 DEF TypeOK
  <2> QED
    BY <2>2, <2>3, <2>4, <2>5, <2>6, OwnStep
<1>6. ASSUME NEW p \in Pollers, Update(p)
      PROVE  Imports'
  <2>1. PICK s \in Sessions : s = proc[p].s
    BY DEF TypeOK, Proc
  <2>2. /\ lock[s] = p /\ proc[p].pc = "update" /\ UNCHANGED <<saved, pooled>>
        /\ status'[s] = proc[p].next
    BY <1>6, <2>1 DEF Update, Is, Of, Inside, Exclusive, TypeOK
  <2>3. proc'[p].pc = "idle" /\ \A d \in Pollers \ {p} : proc'[d] = proc[d]
    BY <1>6, IdleProcType DEF Update, Leave, TypeOK
  <2>4. Elsewhere(s)
    BY <1>6, <2>1 DEF Update, Leave, Of, Elsewhere, TypeOK
  <2>5. InProgress(p)'
    BY <2>3 DEF InProgress
  <2>6. Agrees(s)'
    BY <2>1, <2>2 DEF Imports, InProgress, Untouched, Agrees
  <2> QED
    BY <2>2, <2>3, <2>4, <2>5, <2>6, OwnStep
<1>7. ASSUME NEW p \in Pollers PROVE ~UpdateFails(p) /\ ~Restart
  BY <1>0 DEF UpdateFails, Restart
<1> QED
  BY <1>1, <1>2, <1>3, <1>4, <1>5, <1>6, <1>7
     DEF Next, Proceed, Pollers, Interval, Lapse, WorkerPoll, Decide, HandlerCall, Tick, vars, world

\* As long as no update of the session table failed and the process did not
\* restart, a session that nobody is working on has succeeded exactly when its
\* account is in the table and in the scheduler, for every interleaving of
\* worker, manual polls and cancels (pollOnce, Cancel).
THEOREM SuccessMeansImported == Spec => []SucceededIffImported
<1>1. Init => ImportInv
  <2> SUFFICES ASSUME Init PROVE Imports
    BY TypeInit, ExclusiveInit DEF ImportInv, DeviceAuthInv
  <2>1. \A p \in Pollers : proc[p].pc = "idle"
    BY IdleProcType DEF Init
  <2> QED
    BY <2>1 DEF Init, Imports, Agrees, InProgress
<1>2. ImportInv /\ [Next]_vars => ImportInv'
  <2> SUFFICES ASSUME ImportInv, [Next]_vars PROVE ImportInv'
    OBVIOUS
  <2>1. DeviceAuthInv'
    BY TypeStep, ExclusiveStep DEF ImportInv, DeviceAuthInv
  <2>2. ASSUME faults' = 0 PROVE faults = 0
    <3>1. faults' = faults \/ faults' = faults + 1
      BY DEF Next, Proceed, Start, Interval, Lapse, WorkerPoll, Decide, HandlerCall, EnterPoll,
             EnterCancel, Ask, Validate, SaveAccount, Publish, Update, UpdateFails, Tick,
             Restart, vars
    <3>2. faults \in Nat
      BY DeviceAuthAssumption DEF ImportInv, DeviceAuthInv, TypeOK
    <3> QED
      BY <2>2, <3>1, <3>2
  <2>3. faults' = 0 => Imports'
    BY <2>2, ImportsStep DEF ImportInv, DeviceAuthInv
  <2> QED
    BY <2>1, <2>3 DEF ImportInv
<1>3. ImportInv => SucceededIffImported
  BY DEF ImportInv, DeviceAuthInv, Imports, Agrees, SucceededIffImported
<1> QED
  BY <1>1, <1>2, <1>3, PTL DEF Spec
=============================================================================
