-------------------------- MODULE LifecycleProofs ---------------------------
(***************************************************************************)
(* The two copies of an account, for any number of accounts, requests,     *)
(* administrators and restarts, whatever saves fail and however writers    *)
(* overlap.  Nothing but the order of writes keeps table and scheduler     *)
(* together, so the invariant follows one account through the hands of     *)
(* those that write it: as long as its history names no overlap, at most   *)
(* one writer is between its two changes, that writer's copy goes with the *)
(* half it has changed, and with nobody in between the copies fit.         *)
(***************************************************************************)
EXTENDS Lifecycle, FiniteSetTheorems, TLAPS

-----------------------------------------------------------------------------
(* Types.                                                                  *)

\* A row whose failure counter has not been capped yet.
WideRow == [pool : Pools \cup {"absent"}, reason : Reasons, retryAt : RetryAts,
            code : Codes, exhausted : BOOLEAN, fails : Nat, token : 0 .. MaxToken]

CallType == [pc : {"idle", "upstream", "observed", "stamp", "move", "copy", "save"}, id : Ids,
             copy : Row, quota : BOOLEAN]
TickType == [phase : 1 .. 8, step : {"list", "local", "ask"}, ask : SUBSET Ids,
             write : SUBSET Ids, saved : SUBSET Ids, copy : [Ids -> Row]]
JobType  == [pc : {"idle", "work", "save", "publish", "drop"}, op : AllOperations \cup {"none"},
             id : Ids, copy : Row]

Types ==
    /\ TypeOK
    /\ call \in [Requests -> CallType]
    /\ tick \in TickType
    /\ job \in [Admins -> JobType]
    /\ mixed \in [Ids -> BOOLEAN]
    /\ disabled \in [Ids -> {"no", "raced", "alone"}]

\* A row whose deadline has passed.
Overdue(row) == [row EXCEPT !.retryAt = "due"]

\* What the transitions of an account do to a row.
LEMMA RowClosed ==
    /\ \A r \in Row : r \in WideRow /\ r.fails \in Nat /\ r.token \in 0 .. MaxToken
    /\ \A r \in WideRow :
          /\ Capped(r) \in Row
          /\ MarkReady(r) \in WideRow /\ RecoverValidated(r) \in WideRow
          /\ \A n \in 0 .. MaxToken : [r EXCEPT !.token = n] \in WideRow
          /\ \A reason \in Reasons, code \in Codes :
                MarkUnavailable(r, reason, "future", code) \in WideRow
          /\ \A at \in RetryAts : RecordValidationFailure(r, "other", at) \in WideRow
          /\ \A permanent \in BOOLEAN : ApplyRefreshFailure(r, permanent) \in WideRow
<1>1. FailBound \in Nat /\ 0 .. FailBound \subseteq Nat
  BY PoolAssumption
<1>2. \A r \in Row : r \in WideRow /\ r.fails \in Nat /\ r.token \in 0 .. MaxToken
  BY <1>1 DEF Row, WideRow
<1> SUFFICES ASSUME NEW r \in WideRow
             PROVE  /\ Capped(r) \in Row
                    /\ MarkReady(r) \in WideRow /\ RecoverValidated(r) \in WideRow
                    /\ \A n \in 0 .. MaxToken : [r EXCEPT !.token = n] \in WideRow
                    /\ \A reason \in Reasons, code \in Codes :
                          MarkUnavailable(r, reason, "future", code) \in WideRow
                    /\ \A at \in RetryAts : RecordValidationFailure(r, "other", at) \in WideRow
                    /\ \A permanent \in BOOLEAN : ApplyRefreshFailure(r, permanent) \in WideRow
  BY <1>2
<1>3. Capped(r) \in Row
  <2>1. PICK n : n = IF r.fails > FailBound THEN FailBound ELSE r.fails
    OBVIOUS
  <2>2. n \in 0 .. FailBound
    BY <1>1, <2>1 DEF WideRow
  <2>3. Capped(r) = [r EXCEPT !.fails = n]
    BY <2>1 DEF Capped
  <2> QED
    BY <2>2, <2>3 DEF WideRow, Row
<1>4. MarkReady(r) \in WideRow
  BY DEF MarkReady, WideRow, Pools, Reasons, RetryAts, Codes
<1>5. RecoverValidated(r) \in WideRow
  <2>1. PICK m \in WideRow : m = MarkReady(r)
    BY <1>4
  <2>2. RecoverValidated(r) = [m EXCEPT !.fails = 0]
    BY <2>1 DEF RecoverValidated
  <2> QED
    BY <2>2 DEF WideRow
<1>6. \A n \in 0 .. MaxToken : [r EXCEPT !.token = n] \in WideRow
  BY DEF WideRow
<1>7. ASSUME NEW reason \in Reasons, NEW code \in Codes
      PROVE  MarkUnavailable(r, reason, "future", code) \in WideRow
  BY DEF MarkUnavailable, WideRow, Pools, RetryAts
<1>8. ASSUME NEW at \in RetryAts PROVE RecordValidationFailure(r, "other", at) \in WideRow
  <2>1. r.fails + 1 \in Nat
    BY DEF WideRow
  <2> QED
    BY <2>1 DEF RecordValidationFailure, WideRow, Codes
<1>9. ASSUME NEW permanent \in BOOLEAN PROVE ApplyRefreshFailure(r, permanent) \in WideRow
  <2>1. PICK f : f = [r EXCEPT !.fails = r.fails + 1]
    OBVIOUS
  <2>2. f \in WideRow
    BY <2>1 DEF WideRow
  <2>3. /\ MarkUnavailable(f, "disabled", "future", "revoked") \in WideRow
        /\ MarkUnavailable(f, "auth", "future", "other") \in WideRow
    BY <2>2 DEF MarkUnavailable, WideRow, Pools, RetryAts, Reasons, Codes
  <2>4. ApplyRefreshFailure(r, permanent) \in {MarkUnavailable(f, "disabled", "future", "revoked"),
                                               MarkUnavailable(f, "auth", "future", "other")}
    BY <2>1 DEF ApplyRefreshFailure, DisableRevoked
  <2> QED
    BY <2>3, <2>4
<1> QED
  BY <1>3, <1>4, <1>5, <1>6, <1>7, <1>8, <1>9

\* Transitions that leave the failure counter alone keep a row capped.
LEMMA RowKept ==
    /\ NoRow \in Row /\ \A n \in 0 .. MaxToken : NewRow(n) \in Row
    /\ \A r \in Row :
          /\ MarkReady(r) \in Row /\ RecoverValidated(r) \in Row /\ RecoverQuotaWindow(r) \in Row
          /\ ParkKnownExhausted(r) \in Row /\ DisableRevoked(r) \in Row /\ DisableByAdmin(r) \in Row
          /\ Overdue(r) \in Row
          /\ \A b \in BOOLEAN : SetQuota(r, b) \in Row
          /\ \A n \in 0 .. MaxToken : [r EXCEPT !.token = n] \in Row
          /\ \A reason \in Reasons : MarkUnavailable(r, reason, "future", "other") \in Row
<1>1. 0 \in 0 .. FailBound /\ 0 \in 0 .. MaxToken
  BY PoolAssumption
<1>2. \A n \in 0 .. MaxToken : NewRow(n) \in Row
  BY <1>1 DEF NewRow, Row, Pools, Reasons, RetryAts, Codes
<1>3. NoRow \in Row
  BY <1>1 DEF NoRow, NewRow, NoToken, Row, Pools, Reasons, RetryAts, Codes
<1> SUFFICES ASSUME NEW r \in Row
             PROVE  /\ MarkReady(r) \in Row /\ RecoverValidated(r) \in Row
                    /\ RecoverQuotaWindow(r) \in Row /\ ParkKnownExhausted(r) \in Row
                    /\ DisableRevoked(r) \in Row /\ DisableByAdmin(r) \in Row
                    /\ Overdue(r) \in Row
                    /\ \A b \in BOOLEAN : SetQuota(r, b) \in Row
                    /\ \A n \in 0 .. MaxToken : [r EXCEPT !.token = n] \in Row
                    /\ \A reason \in Reasons : MarkUnavailable(r, reason, "future", "other") \in Row
  BY <1>2, <1>3
<1>4. PICK m : m = MarkReady(r)
  OBVIOUS
<1>5. m \in Row
  BY <1>4 DEF MarkReady, Row, Pools, Reasons, RetryAts, Codes
<1>6. RecoverValidated(r) \in Row /\ RecoverQuotaWindow(r) \in Row
  <2>1. [m EXCEPT !.fails = 0] \in Row /\ [m EXCEPT !.exhausted = FALSE] \in Row
    BY <1>1, <1>5 DEF Row
  <2> QED
    BY <1>4, <2>1 DEF RecoverValidated, RecoverQuotaWindow
<1>7. ParkKnownExhausted(r) \in Row
  BY DEF ParkKnownExhausted, Row, Pools, Reasons, RetryAts, Codes
<1>8. DisableRevoked(r) \in Row /\ DisableByAdmin(r) \in Row
  BY DEF DisableRevoked, DisableByAdmin, MarkUnavailable, Row, Pools, Reasons, RetryAts, Codes
<1>9. /\ Overdue(r) \in Row
      /\ \A b \in BOOLEAN : SetQuota(r, b) \in Row
      /\ \A n \in 0 .. MaxToken : [r EXCEPT !.token = n] \in Row
  BY DEF SetQuota, Overdue, Row, RetryAts
<1>10. \A reason \in Reasons : MarkUnavailable(r, reason, "future", "other") \in Row
  BY DEF MarkUnavailable, Row, Pools, RetryAts, Codes
<1> QED
  BY <1>4, <1>5, <1>6, <1>7, <1>8, <1>9, <1>10

\* An exchange at the identity provider: the provider rejects a token that is not
\* its own, and a token it accepts is the one the caller is told.
LEMMA ExchangeProperties ==
    ASSUME TypeOK, NEW id \in Ids, NEW token \in 0 .. MaxToken, NEW x \in Exchange(id, token)
    PROVE  /\ x.token \in 0 .. MaxToken /\ x.live \in 0 .. MaxToken
           /\ x.answer \in {"transient", "ok", "permanent"}
           /\ x.answer # "ok" => x.live = live[id]
           /\ x.answer = "ok" => token # NoToken /\ token = live[id]
                                 /\ x.token = x.live /\ x.live # NoToken
           /\ x.answer = "permanent" => token # NoToken /\ token # live[id]
<1>1. live[id] \in 0 .. MaxToken /\ MaxToken \in Nat
  BY PoolAssumption DEF TypeOK
<1>2. CASE x = [answer |-> "transient", token |-> token, live |-> live[id]]
  BY <1>1, <1>2
<1>3. CASE x = [answer |-> "permanent", token |-> token, live |-> live[id]]
           /\ token # NoToken /\ token # live[id]
  BY <1>1, <1>3
<1>4. CASE x = [answer |-> "ok", token |-> token, live |-> live[id]]
           /\ token # NoToken /\ token = live[id]
  BY <1>1, <1>4
<1>5. CASE x = [answer |-> "ok", token |-> live[id] + 1, live |-> live[id] + 1]
           /\ token # NoToken /\ token = live[id] /\ live[id] < MaxToken
  <2>1. live[id] + 1 \in 0 .. MaxToken /\ live[id] + 1 # 0
    BY <1>1, <1>5
  <2> QED
    BY <1>5, <2>1 DEF NoToken
<1> QED
  BY <1>2, <1>3, <1>4, <1>5 DEF Exchange

\* The rows a recovery phase comes back with.
LEMMA VerdictRows ==
    ASSUME NEW row \in Row, NEW v \in Failures \cup {"ok", "error"}
    PROVE  Validated(row, v) \in WideRow /\ Revalidated(row, v) \in WideRow
<1>1. v \in {"quota", "auth", "cooldown", "validating", "ok", "error"}
  BY PoolAssumption
<1>2. row \in WideRow /\ row.retryAt \in RetryAts
  BY RowClosed DEF Row
<1>3. PICK f \in WideRow : f = RecordValidationFailure(row, "other", row.retryAt)
  BY <1>2, RowClosed
<1>4. \A r \in WideRow, reason \in {"quota", "auth", "cooldown", "validating"} :
         MarkUnavailable(r, reason, "future", "other") \in WideRow
  BY RowClosed DEF Reasons, Codes
<1>5. /\ RecoverValidated(row) \in WideRow
      /\ RecordValidationFailure(row, "other", "future") \in WideRow
  BY <1>2, RowClosed DEF RetryAts
<1>6. Validated(row, v) \in WideRow
  BY <1>1, <1>3, <1>4, <1>5 DEF Validated
<1>7. Revalidated(row, v) \in WideRow
  BY <1>1, <1>2, <1>4, <1>5 DEF Revalidated
<1> QED
  BY <1>6, <1>7

\* Whatever the network answers about a row is a row again.
LEMMA AnswersTyped ==
    ASSUME TypeOK, NEW id \in Ids, NEW row \in Row, NEW a \in Answers(id, row)
    PROVE  Capped(a.row) \in Row /\ a.live \in 0 .. MaxToken
<1>1. CASE Phase = "validating"
  <2>1. PICK v \in Failures \cup {"ok", "error"} : a = [row |-> Validated(row, v), live |-> live[id]]
    BY <1>1 DEF Answers
  <2>2. a.row \in WideRow /\ a.live = live[id]
    BY <2>1, VerdictRows
  <2> QED
    BY <2>2, RowClosed DEF TypeOK
<1>2. CASE Phase # "validating"
  <2>0. PICK x \in Exchange(id, row.token) :
           \E next \in AfterRefresh(row, x) : a = [row |-> next, live |-> x.live]
    BY <1>2 DEF Answers
  <2>1. PICK next \in AfterRefresh(row, x) : a = [row |-> next, live |-> x.live]
    BY <2>0
  <2>2. row.token \in 0 .. MaxToken /\ row \in WideRow
    BY RowClosed
  <2>3. x.token \in 0 .. MaxToken /\ x.live \in 0 .. MaxToken
    BY <2>2, ExchangeProperties
  <2>4. PICK fresh \in Row : fresh = [row EXCEPT !.token = x.token]
    BY <2>3, RowKept
  <2>5. next \in WideRow
    <3>1. CASE next = ApplyRefreshFailure(row, x.answer = "permanent")
      BY <2>2, <3>1, RowClosed
    <3>2. CASE next = MarkReady(fresh)
      BY <3>2, RowClosed
    <3>3. CASE \E v \in Failures \cup {"ok", "error"} : next = Revalidated(fresh, v)
      BY <3>3, VerdictRows
    <3> QED
      BY <2>4, <3>1, <3>2, <3>3 DEF AfterRefresh
  <2> QED
    BY <2>1, <2>3, <2>5, RowClosed
<1> QED
  BY <1>1, <1>2

\* A request and a handler that have not begun, and a phase about to list, have their
\* types.
LEMMA IdleTypes ==
    /\ IdleCall \in CallType /\ IdleCall.pc = "idle" /\ IdleCall.quota = FALSE
    /\ IdleJob \in JobType /\ IdleJob.pc = "idle"
    /\ \A n \in 1 .. 8 : Listing(n) \in TickType
<1>1. (CHOOSE id \in Ids : TRUE) \in Ids
  BY PoolAssumption
<1>2. IdleCall \in CallType /\ IdleCall.pc = "idle" /\ IdleCall.quota = FALSE
  BY <1>1, RowKept DEF IdleCall, CallType
<1>3. IdleJob \in JobType /\ IdleJob.pc = "idle"
  BY <1>1, RowKept DEF IdleJob, JobType
<1>4. \A n \in 1 .. 8 : Listing(n) \in TickType
  BY RowKept DEF Listing, TickType
<1> QED
  BY <1>2, <1>3, <1>4

\* The initial state has its types.
LEMMA TypesInit == Init => Types
<1> SUFFICES ASSUME Init PROVE Types
  OBVIOUS
<1>1. live \in [Ids -> 0 .. MaxToken]
  <2>1. {n \in {1} : n <= MaxToken} \cup {NoToken} \subseteq 0 .. MaxToken
    BY PoolAssumption DEF NoToken
  <2> QED
    BY <2>1 DEF Init, PoolInit
<1>2. store \in [Ids -> Row] /\ mem \in [Ids -> Row]
  <2>1. \A id \in Ids : NewRow(live[id]) \in Row
    BY <1>1, RowKept
  <2> QED
    BY <2>1 DEF Init, PoolInit
<1>3. /\ call \in [Requests -> CallType] /\ tick \in TickType /\ job \in [Admins -> JobType]
  BY IdleTypes DEF Init, TrafficInit, RecoveryInit, AdministrationInit
<1>4. mixed \in [Ids -> BOOLEAN] /\ disabled \in [Ids -> {"no", "raced", "alone"}]
  BY DEF Init
<1> QED
  BY <1>1, <1>2, <1>3, <1>4 DEF Types, TypeOK

\* What a request's step writes.
LEMMA TrafficTypes ==
    ASSUME Types, TrafficNext
    PROVE  mem' \in [Ids -> Row] /\ store' \in [Ids -> Row] /\ live' = live
           /\ call' \in [Requests -> CallType]
<1>0. store \in [Ids -> Row] /\ mem \in [Ids -> Row] /\ call \in [Requests -> CallType]
  BY DEF Types, TypeOK
<1>1. ASSUME NEW id \in Ids, ParkExhausted(id)
      PROVE  mem' \in [Ids -> Row] /\ UNCHANGED <<store, live, call>>
  BY <1>0, <1>1, RowKept DEF ParkExhausted, Upsert
<1>2. ASSUME NEW r \in Requests, NEW id \in Ids, Lease(r, id)
      PROVE  UNCHANGED <<mem, store, live>> /\ call' \in [Requests -> CallType]
  BY <1>0, <1>2 DEF Lease, poolVars, CallType
<1>3. ASSUME NEW r \in Requests, Success(r)
      PROVE  UNCHANGED <<mem, store, live>> /\ call' \in [Requests -> CallType]
  <2>1. QuotaExhausted(mem[call[r].id]) \in BOOLEAN
    BY <1>0 DEF QuotaExhausted, Row, CallType
  <2>2. \A pc \in {"observed", "stamp"}, b \in BOOLEAN :
           [call EXCEPT ![r].pc = pc, ![r].quota = b] \in [Requests -> CallType]
    BY <1>0 DEF CallType
  <2>3. Finish(r) => call' \in [Requests -> CallType]
    BY <1>0, IdleTypes DEF Finish
  <2>4. CASE \E used \in BOOLEAN :
               call' = [call EXCEPT ![r].pc = "observed", ![r].quota = used]
    BY <1>3, <2>2, <2>4 DEF Success, poolVars
  <2>5. CASE call' = [call EXCEPT ![r].pc = "stamp", ![r].quota = QuotaExhausted(mem[call[r].id])]
    <3>1. PICK b \in BOOLEAN : b = QuotaExhausted(mem[call[r].id])
      BY <2>1
    <3>2. call' = [call EXCEPT ![r].pc = "stamp", ![r].quota = b]
      BY <2>5, <3>1
    <3> QED
      BY <1>3, <2>2, <3>2 DEF Success, poolVars
  <2>6. CASE Finish(r)
    BY <1>3, <2>3, <2>6 DEF Success, poolVars
  <2> QED
    BY <1>3, <2>4, <2>5, <2>6 DEF Success
<1>7. ASSUME NEW id \in Ids, NEW reason \in Reasons, MoveUnavailable(id, reason)
      PROVE  mem' \in [Ids -> Row]
  <2>1. MarkUnavailable(mem[id], reason, "future", "other") \in Row
    BY <1>0, RowKept
  <2>2. mem' = mem \/ mem' = [mem EXCEPT ![id] = MarkUnavailable(mem[id], reason, "future", "other")]
    BY <1>7 DEF MoveUnavailable, Upsert
  <2> QED
    BY <1>0, <2>1, <2>2
<1>8. ASSUME NEW r \in Requests, Record(r)
      PROVE  mem' \in [Ids -> Row] /\ UNCHANGED <<store, live>> /\ call' \in [Requests -> CallType]
  <2>1. call[r].id \in Ids /\ SetQuota(mem[call[r].id], call[r].quota) \in Row
    BY <1>0, RowKept DEF CallType
  <2>2. mem' \in [Ids -> Row]
    BY <1>0, <1>8, <2>1 DEF Record, Upsert
  <2>3. \A pc \in {"move", "copy"} :
           [call EXCEPT ![r].pc = pc, ![r].quota = FALSE] \in [Requests -> CallType]
    BY <1>0 DEF CallType
  <2>4. PICK pc \in {"move", "copy"} :
           pc = IF At(r, "observed") /\ call[r].quota THEN "move" ELSE "copy"
    OBVIOUS
  <2>5. call' = [call EXCEPT ![r].pc = pc, ![r].quota = FALSE]
    BY <1>8, <2>4 DEF Record
  <2> QED
    BY <1>8, <2>2, <2>3, <2>5 DEF Record
<1>9. ASSUME NEW r \in Requests, Move(r)
      PROVE  mem' \in [Ids -> Row] /\ UNCHANGED <<store, live>> /\ call' \in [Requests -> CallType]
  <2>1. call[r].id \in Ids /\ MoveUnavailable(call[r].id, "quota")
    BY <1>0, <1>9 DEF CallType, Move
  <2>2. mem' \in [Ids -> Row]
    BY <1>7, <2>1 DEF Reasons
  <2>3. [call EXCEPT ![r].pc = "copy"] \in [Requests -> CallType]
    BY <1>0 DEF CallType
  <2> QED
    BY <1>9, <2>2, <2>3 DEF Move
<1>10. ASSUME NEW r \in Requests, NEW reason \in Failures, Fail(r, reason)
       PROVE  mem' \in [Ids -> Row] /\ UNCHANGED <<store, live>> /\ call' \in [Requests -> CallType]
  <2>1. call[r].id \in Ids /\ MoveUnavailable(call[r].id, reason) /\ reason \in Reasons
    BY <1>0, <1>10, PoolAssumption DEF CallType, Fail, Reasons
  <2>2. mem' \in [Ids -> Row]
    BY <1>7, <2>1
  <2>3. PICK b \in BOOLEAN : b = (reason = "quota")
    OBVIOUS
  <2>4. [call EXCEPT ![r].pc = "copy", ![r].quota = b] \in [Requests -> CallType]
    BY <1>0 DEF CallType
  <2>5. call' = [call EXCEPT ![r].pc = "copy", ![r].quota = b]
    BY <1>10, <2>3 DEF Fail
  <2> QED
    BY <1>10, <2>2, <2>4, <2>5 DEF Fail
<1>4. ASSUME NEW r \in Requests, Copy(r)
      PROVE  UNCHANGED <<mem, store, live>> /\ call' \in [Requests -> CallType]
  <2>1. PICK copy \in {mem[call[r].id], SetQuota(mem[call[r].id], TRUE)} :
           call' = [call EXCEPT ![r].pc = "save", ![r].copy = copy]
    BY <1>4 DEF Copy
  <2>2. copy \in Row
    BY <1>0, <2>1, RowKept DEF CallType
  <2>3. PICK q : q = [call[r] EXCEPT !.pc = "save", !.copy = copy]
    OBVIOUS
  <2>4. q \in CallType
    BY <1>0, <2>2, <2>3 DEF CallType
  <2>5. call' = [call EXCEPT ![r] = q]
    BY <1>0, <2>1, <2>3 DEF CallType
  <2> QED
    BY <1>0, <1>4, <2>4, <2>5 DEF Copy, poolVars
<1>5. ASSUME NEW r \in Requests, Save(r)
      PROVE  UNCHANGED <<mem, live>> /\ store' \in [Ids -> Row] /\ call' \in [Requests -> CallType]
  BY <1>0, <1>5, IdleTypes DEF Save, SaveAccount, Finish, CallType
<1>6. ASSUME NEW r \in Requests, Abandon(r)
      PROVE  UNCHANGED <<mem, store, live>> /\ call' \in [Requests -> CallType]
  BY <1>0, <1>6, IdleTypes DEF Abandon, Finish, poolVars
<1> QED
  BY <1>0, <1>1, <1>2, <1>3, <1>4, <1>5, <1>6, <1>8, <1>9, <1>10 DEF TrafficNext, RequestStep

\* The tick in its present phase.
Tick(step, ask, write, saved, copy) ==
    [phase |-> tick.phase, step |-> step, ask |-> ask, write |-> write, saved |-> saved,
     copy |-> copy]

\* A tick put together from typed parts is typed.
LEMMA TickTyped ==
    ASSUME Types,
           NEW step \in {"list", "local", "ask"}, NEW ask \in SUBSET Ids, NEW write \in SUBSET Ids,
           NEW saved \in SUBSET Ids, NEW copy \in [Ids -> Row]
    PROVE  Tick(step, ask, write, saved, copy) \in TickType
  BY DEF Tick, Types, TickType

\* The running phase is one of the seven; only the first promotes in memory.
LEMMA PhaseNames ==
    ASSUME Types
    PROVE  /\ Phase \in {"promote", "revoked", "exhausted", "quota", "validating", "refresh",
                         "credentials"}
           /\ tick.phase = 1 <=> Phase = "promote"
<1>1. tick.phase \in 1 .. 8
  BY DEF Types, TickType
<1>2. /\ tick.phase = 1 => Phase = "promote"
      /\ tick.phase = 2 => Phase = "revoked"
      /\ tick.phase = 3 => Phase = "exhausted"
      /\ tick.phase = 4 => Phase = "quota"
      /\ tick.phase = 5 => Phase = "validating"
      /\ tick.phase = 6 => Phase = "refresh"
      /\ tick.phase = 7 => Phase = "credentials"
      /\ tick.phase = 8 => Phase = "quota"
  BY DEF Phase, Phases
<1> QED
  BY <1>1, <1>2

\* What each step of the worker writes.
LEMMA PromoteForm ==
    ASSUME Types, PromoteDue
    PROVE  \E due \in SUBSET Ids, copy \in [Ids -> Row] :
              /\ \A id \in Ids : id \in due <=> CooldownDue(mem[id])
              /\ mem' \in [Ids -> Row]
              /\ \A id \in Ids : mem'[id] = IF id \in due THEN MarkReady(mem[id]) ELSE mem[id]
              /\ \A id \in due : copy[id] = MarkReady(mem[id])
              /\ tick' = Tick("local", tick.ask, due, tick.saved, copy)
<1>0. mem \in [Ids -> Row] /\ tick \in TickType
  BY DEF Types, TypeOK
<1>1. PICK due \in SUBSET Ids : due = {id \in Ids : CooldownDue(mem[id])}
  OBVIOUS
<1>2. PICK copy : copy = [id \in Ids |-> IF id \in due THEN mem'[id] ELSE NoRow]
  OBVIOUS
<1>3. mem' = [id \in Ids |-> IF id \in due THEN MarkReady(mem[id]) ELSE mem[id]]
  BY <1>1 DEF PromoteDue
<1>4. mem' \in [Ids -> Row] /\ copy \in [Ids -> Row]
  BY <1>0, <1>2, <1>3, RowKept
<1>5. tick' = [tick EXCEPT !.step = "local", !.write = due, !.copy = copy]
  BY <1>1, <1>2 DEF PromoteDue
<1>6. tick' = Tick("local", tick.ask, due, tick.saved, copy)
  BY <1>0, <1>5 DEF Tick, TickType
<1> QED
  BY <1>1, <1>2, <1>3, <1>4, <1>6

\* The decision a phase takes by itself is a row.
LEMMA LocalTyped == ASSUME Types, NEW row \in Row PROVE Local(row) \in Row
  BY RowKept DEF Local

\* Listing splits the rows into those to ask about and those to write.
LEMMA ListForm ==
    ASSUME Types, List
    PROVE  \E ask \in SUBSET Ids, write \in SUBSET Ids, copy \in [Ids -> Row] :
              /\ \A id \in ask : MayAsk(store[id]) /\ id \notin write /\ copy[id] = store[id]
              /\ \A id \in write : LocalCandidate(store[id]) /\ copy[id] = Local(store[id])
              /\ tick' = Tick("local", ask, write, tick.saved, copy)
<1>0. store \in [Ids -> Row] /\ tick \in TickType
  BY DEF Types, TypeOK
<1>1. PICK write \in SUBSET Ids : write = {id \in Ids : LocalCandidate(store[id])}
  OBVIOUS
<1>2. PICK ask \in SUBSET {id \in Ids : MayAsk(store[id])} :
         tick' = [tick EXCEPT
                !.step = "local", !.ask = ask, !.write = write,
                !.copy = [id \in Ids |-> IF id \in write THEN Local(store[id])
                                         ELSE IF id \in ask THEN store[id] ELSE NoRow]]
  BY <1>1 DEF List
<1>3. PICK copy : copy = [id \in Ids |-> IF id \in write THEN Local(store[id])
                                         ELSE IF id \in ask THEN store[id] ELSE NoRow]
  OBVIOUS
<1>4. copy \in [Ids -> Row]
  BY <1>0, <1>3, RowKept, LocalTyped
<1>5. tick' = [tick EXCEPT !.step = "local", !.ask = ask, !.write = write, !.copy = copy]
  BY <1>2, <1>3
<1>6. tick' = Tick("local", ask, write, tick.saved, copy)
  BY <1>0, <1>5 DEF Tick, TickType
<1>7. ASSUME NEW id \in ask PROVE MayAsk(store[id]) /\ id \notin write /\ copy[id] = store[id]
  <2>1. MayAsk(store[id]) /\ id \in Ids
    BY <1>2, <1>7
  <2>2. ~ LocalCandidate(store[id])
    BY <2>1, PhaseNames DEF MayAsk, LocalCandidate, CredentialDue
  <2> QED
    BY <1>1, <1>3, <2>1, <2>2
<1>8. ASSUME NEW id \in write PROVE LocalCandidate(store[id]) /\ copy[id] = Local(store[id])
  BY <1>1, <1>3, <1>8
<1> QED
  BY <1>1, <1>2, <1>4, <1>6, <1>7, <1>8

\* An answer moves one account from the questions to the copies to write.
LEMMA AskForm ==
    ASSUME Types, NEW id \in Ids, Ask(id)
    PROVE  /\ id \in tick.ask
           /\ tick.step = "ask" \/ (tick.write = {} /\ tick.saved = {})
           /\ \E a \in Answers(id, tick.copy[id]) :
                /\ Capped(a.row) \in Row /\ a.live \in 0 .. MaxToken
                /\ tick' = Tick("ask", tick.ask \ {id}, tick.write \cup {id}, tick.saved,
                                [tick.copy EXCEPT ![id] = Capped(a.row)])
                /\ live' = [live EXCEPT ![id] = a.live]
<1>0. tick \in TickType /\ tick.copy[id] \in Row /\ TypeOK
  BY DEF Types, TickType
<1>1. PICK a \in Answers(id, tick.copy[id]) :
          /\ tick' = [tick EXCEPT !.step = "ask", !.ask = @ \ {id}, !.write = @ \cup {id},
                                  !.copy[id] = Capped(a.row)]
          /\ live' = [live EXCEPT ![id] = a.live]
  BY DEF Ask
<1>2. Capped(a.row) \in Row /\ a.live \in 0 .. MaxToken
  BY <1>0, AnswersTyped
<1>3. PICK row : row = Capped(a.row)
  OBVIOUS
<1>4. tick' = Tick("ask", tick.ask \ {id}, tick.write \cup {id}, tick.saved,
                   [tick.copy EXCEPT ![id] = row])
  BY <1>0, <1>1, <1>3 DEF Tick, TickType
<1> QED
  BY <1>1, <1>2, <1>3, <1>4 DEF Ask

\* A save writes one copy, or fails and drops it.
LEMMA SaveCopyForm ==
    ASSUME Types, NEW id \in Ids, SaveCopy(id)
    PROVE  /\ id \in tick.write /\ tick.saved = {}
           /\ tick.step = "local" \/ tick.ask = {}
           /\ \/ /\ Present(tick.copy[id])
                 /\ store' = [store EXCEPT ![id] = tick.copy[id]]
                 /\ \E saved \in SUBSET Ids :
                      /\ saved = IF Phase = "promote" THEN {} ELSE {id}
                      /\ tick' = Tick(tick.step, tick.ask, tick.write \ {id}, saved, tick.copy)
              \/ /\ SavesFail /\ store' = store
                 /\ tick' = Tick(tick.step, tick.ask, tick.write \ {id}, tick.saved, tick.copy)
<1>0. tick \in TickType
  BY DEF Types
<1>1. PICK saved : saved = IF Phase = "promote" THEN {} ELSE {id}
  OBVIOUS
<1>2. CASE SaveAccount(id, tick.copy[id])
           /\ tick' = [tick EXCEPT !.write = @ \ {id}, !.saved = saved]
  <2>1. tick' = Tick(tick.step, tick.ask, tick.write \ {id}, saved, tick.copy)
    BY <1>0, <1>2 DEF Tick, TickType
  <2>2. saved \in SUBSET Ids
    BY <1>1
  <2> QED
    BY <1>1, <1>2, <2>1, <2>2 DEF SaveCopy, SaveAccount
<1>3. CASE SavesFail /\ store' = store /\ tick' = [tick EXCEPT !.write = @ \ {id}]
  <2>1. tick' = Tick(tick.step, tick.ask, tick.write \ {id}, tick.saved, tick.copy)
    BY <1>0, <1>3 DEF Tick, TickType
  <2> QED
    BY <1>3, <2>1 DEF SaveCopy
<1> QED
  BY <1>1, <1>2, <1>3 DEF SaveCopy

\* Publishing puts the saved copy into the scheduler.
LEMMA PublishForm ==
    ASSUME Types, NEW id \in Ids, Publish(id)
    PROVE  /\ id \in tick.saved
           /\ mem' = [mem EXCEPT ![id] = tick.copy[id]]
           /\ tick' = Tick(tick.step, tick.ask, tick.write, {}, tick.copy)
  BY DEF Publish, Upsert, Tick, Types, TickType

\* A phase ends with the next one about to list.
LEMMA EndPhaseForm ==
    ASSUME Types, EndPhase
    PROVE  \E n \in 1 .. 8 : tick' = Listing(n)
<1>1. tick.phase \in 1 .. 8 /\ Len(Phases) = 8
  BY DEF Types, TickType, Phases
<1>2. (tick.phase % 8) + 1 \in 1 .. 8
  BY <1>1
<1> QED
  BY <1>1, <1>2 DEF EndPhase, NextPhase

\* The worker keeps the types.
LEMMA RecoveryTypes ==
    ASSUME Types, RecoveryNext
    PROVE  TypeOK' /\ tick' \in TickType
<1>0. /\ TypeOK /\ tick \in TickType
      /\ tick.ask \in SUBSET Ids /\ tick.write \in SUBSET Ids /\ tick.saved \in SUBSET Ids
      /\ tick.copy \in [Ids -> Row] /\ tick.step \in {"list", "local", "ask"}
  BY DEF Types, TickType
<1>1. CASE PromoteDue
  <2>1. PICK due \in SUBSET Ids, copy \in [Ids -> Row] :
           mem' \in [Ids -> Row] /\ tick' = Tick("local", tick.ask, due, tick.saved, copy)
    BY <1>1, PromoteForm
  <2> QED
    BY <1>0, <1>1, <2>1, TickTyped DEF PromoteDue, TypeOK
<1>2. CASE List
  <2>1. PICK ask \in SUBSET Ids, write \in SUBSET Ids, copy \in [Ids -> Row] :
           tick' = Tick("local", ask, write, tick.saved, copy)
    BY <1>2, ListForm
  <2> QED
    BY <1>0, <1>2, <2>1, TickTyped DEF List, poolVars, TypeOK
<1>3. CASE EndPhase
  BY <1>0, <1>3, EndPhaseForm, IdleTypes DEF EndPhase, poolVars, TypeOK
<1>4. ASSUME NEW id \in Ids, Ask(id) PROVE TypeOK' /\ tick' \in TickType
  <2>1. PICK row \in Row, n \in 0 .. MaxToken :
           /\ tick' = Tick("ask", tick.ask \ {id}, tick.write \cup {id}, tick.saved,
                           [tick.copy EXCEPT ![id] = row])
           /\ live' = [live EXCEPT ![id] = n]
    BY <1>4, AskForm
  <2>2. [tick.copy EXCEPT ![id] = row] \in [Ids -> Row]
    BY <1>0
  <2>3. tick.ask \ {id} \in SUBSET Ids /\ tick.write \cup {id} \in SUBSET Ids
    BY <1>0
  <2>4. tick' \in TickType
    BY <1>0, <2>1, <2>2, <2>3, TickTyped
  <2> QED
    BY <1>0, <1>4, <2>1, <2>4 DEF Ask, TypeOK
<1>5. ASSUME NEW id \in Ids, SaveCopy(id) PROVE TypeOK' /\ tick' \in TickType
  <2>1. /\ store' = store \/ store' = [store EXCEPT ![id] = tick.copy[id]]
        /\ \E saved \in SUBSET Ids :
              tick' = Tick(tick.step, tick.ask, tick.write \ {id}, saved, tick.copy)
    BY <1>0, <1>5, SaveCopyForm
  <2>2. tick.write \ {id} \in SUBSET Ids
    BY <1>0
  <2>3. tick' \in TickType
    BY <1>0, <2>1, <2>2, TickTyped
  <2> QED
    BY <1>0, <1>5, <2>1, <2>3 DEF SaveCopy, TypeOK
<1>6. ASSUME NEW id \in Ids, Publish(id) PROVE TypeOK' /\ tick' \in TickType
  <2>1. tick' \in TickType
    BY <1>0, <1>6, PublishForm, TickTyped
  <2> QED
    BY <1>0, <1>6, <2>1, PublishForm DEF Publish, TypeOK
<1> QED
  BY <1>1, <1>2, <1>3, <1>4, <1>5, <1>6 DEF RecoveryNext
-----------------------------------------------------------------------------
(* What a handler's step writes.                                           *)

\* What an administrator decides from a validation is a row again.
LEMMA JudgedRows ==
    ASSUME NEW row \in Row, NEW v \in Failures \cup {"ok"}
    PROVE  Judged(row, v) \in Row
<1>1. v \in Failures => v \in Reasons
  BY PoolAssumption DEF Reasons
<1> QED
  BY <1>1, RowKept DEF Judged

WorkStep(a) ==
    \/ Configure(a) \/ Disable(a) \/ Enable(a) \/ Recover(a) \/ Import(a) \/ RefreshQuota(a)
    \/ RefreshCredential(a)

Decides(a, row) == Proceed(a, row) /\ (job[a].op = "disable" => AdminDisabled(row))

\* The network part of a handler ends with a response or with a row to save; the row
\* a disable saves is disabled.
LEMMA WorkForm ==
    ASSUME Types, NEW a \in Admins, WorkStep(a)
    PROVE  /\ Working(a, "work") /\ UNCHANGED <<store, mem>>
           /\ live' \in [Ids -> 0 .. MaxToken]
           /\ Respond(a) \/ \E row \in Row : Decides(a, row)
<1>0. /\ job[a].id \in Ids /\ job[a].copy \in Row /\ job[a].copy \in WideRow
      /\ TypeOK /\ live \in [Ids -> 0 .. MaxToken]
  BY RowClosed DEF Types, TypeOK, JobType
<1>1. PICK id \in Ids, old \in Row : id = job[a].id /\ old = job[a].copy
  BY <1>0
<1>3. old \in WideRow /\ old.token \in 0 .. MaxToken
  BY RowClosed
<1>5. CASE Configure(a)
  BY <1>0, <1>1, <1>5 DEF Configure, Doing, Decides, poolVars
<1>6. CASE Disable(a)
  <2>1. AdminDisabled(DisableByAdmin(old))
    BY DEF AdminDisabled, DisableByAdmin, MarkUnavailable, Row
  <2> QED
    BY <1>0, <1>1, <1>6, <2>1, RowKept DEF Disable, Doing, Decides, poolVars
<1>7. CASE Enable(a)
  <2>1. Respond(a) \/ Proceed(a, old) \/ Proceed(a, MarkReady(old))
    BY <1>1, <1>7 DEF Enable
  <2> QED
    BY <1>0, <1>7, <2>1, RowKept DEF Enable, Doing, Decides, poolVars
<1>8. CASE Recover(a)
  <2>1. \/ Respond(a) \/ Proceed(a, RecoverValidated(old))
        \/ \E v \in Failures \cup {"ok"} : Proceed(a, Judged(old, v))
    BY <1>1, <1>8 DEF Recover
  <2> QED
    BY <1>0, <1>8, <2>1, RowKept, JudgedRows DEF Recover, Doing, Decides, poolVars
<1>9. CASE Import(a)
  <2>1. PICK base : base = IF Present(old) THEN old ELSE NewRow(NoToken)
    OBVIOUS
  <2>2. base \in Row
    BY <2>1, RowKept, PoolAssumption DEF NoToken
  <2>3. Issued(id) \subseteq 0 .. MaxToken
    BY <1>0, PoolAssumption DEF Issued, NoToken
  <2>4. \/ Respond(a)
        \/ \E v \in Failures \cup {"ok"}, token \in Issued(id) \cup {base.token} :
              Proceed(a, Judged([base EXCEPT !.token = token], v))
    BY <1>1, <1>9, <2>1 DEF Import
  <2>5. ASSUME NEW v \in Failures \cup {"ok"}, NEW token \in Issued(id) \cup {base.token}
        PROVE  Judged([base EXCEPT !.token = token], v) \in Row
    <3>1. token \in 0 .. MaxToken
      BY <2>2, <2>3, RowClosed
    <3> QED
      BY <2>2, <3>1, RowKept, JudgedRows
  <2> QED
    BY <1>0, <1>9, <2>4, <2>5 DEF Import, Doing, Decides, poolVars
<1>10. CASE RefreshQuota(a)
  <2>1. \/ Respond(a)
        \/ \E v \in Failures \cup {"ok"}, exhausted \in BOOLEAN :
              Proceed(a, Judged(SetQuota(old, exhausted), v))
    BY <1>1, <1>10 DEF RefreshQuota
  <2>2. \A v \in Failures \cup {"ok"}, b \in BOOLEAN : Judged(SetQuota(old, b), v) \in Row
    BY RowKept, JudgedRows
  <2> QED
    BY <1>0, <1>10, <2>1, <2>2 DEF RefreshQuota, Doing, Decides, poolVars
<1>11. CASE RefreshCredential(a)
  <2>1. PICK x \in Exchange(id, old.token) :
           /\ Proceed(a, Capped(IF x.answer = "ok" THEN [old EXCEPT !.token = x.token]
                                ELSE ApplyRefreshFailure(old, x.answer = "permanent")))
           /\ live' = [live EXCEPT ![id] = x.live]
    BY <1>1, <1>11 DEF RefreshCredential
  <2>2. x.token \in 0 .. MaxToken /\ x.live \in 0 .. MaxToken
    BY <1>0, <1>3, ExchangeProperties
  <2>3. PICK next : next = IF x.answer = "ok" THEN [old EXCEPT !.token = x.token]
                           ELSE ApplyRefreshFailure(old, x.answer = "permanent")
    OBVIOUS
  <2>4. next \in WideRow
    BY <1>3, <2>2, <2>3, RowClosed
  <2>6. Capped(next) \in Row
    BY <2>4, RowClosed
  <2>8. Proceed(a, Capped(next))
    BY <2>1, <2>3
  <2> QED
    BY <1>0, <1>11, <2>1, <2>2, <2>6, <2>8 DEF RefreshCredential, Doing, Decides
<1> QED
  BY <1>5, <1>6, <1>7, <1>8, <1>9, <1>10, <1>11 DEF WorkStep

\* A handler that proceeds is about to save the row it decided on.
LEMMA JobWrites ==
    ASSUME Types, NEW a \in Admins, NEW row \in Row, Proceed(a, row)
    PROVE  job' \in [Admins -> JobType]
           /\ \E q \in JobType : q.pc = "save" /\ q.id = job[a].id /\ q.copy = row
                                 /\ q.op = job[a].op /\ job' = [job EXCEPT ![a] = q]
<1>0. job \in [Admins -> JobType]
  BY DEF Types
<1>1. PICK q : q = [job[a] EXCEPT !.pc = "save", !.copy = row]
  OBVIOUS
<1>2. q \in JobType /\ q.pc = "save" /\ q.id = job[a].id /\ q.copy = row /\ q.op = job[a].op
  BY <1>0, <1>1 DEF JobType
<1>3. job' = [job EXCEPT ![a] = q]
  BY <1>0, <1>1 DEF Proceed
<1> QED
  BY <1>0, <1>2, <1>3

\* A handler begins with a copy of the stored row.
LEMMA ReadForm ==
    ASSUME Types, NEW a \in Admins, NEW op \in Operations, NEW id \in Ids, Read(a, op, id)
    PROVE  /\ UNCHANGED poolVars
           /\ \E q \in JobType : q.pc = "work" /\ q.id = id /\ q.copy = store[id]
                                 /\ job' = [job EXCEPT ![a] = q]
<1>1. PICK q : q = [pc |-> "work", op |-> op, id |-> id, copy |-> store[id]]
  OBVIOUS
<1>2. q \in JobType
  BY <1>1, AdministrationAssumption DEF JobType, Types, TypeOK
<1> QED
  BY <1>1, <1>2 DEF Read

\* A save, a publication, a deletion and its drop.
LEMMA WriteForm ==
    ASSUME Types, NEW a \in Admins,
           SaveJob(a) \/ PublishJob(a) \/ DeleteRow(a) \/ DropEntry(a)
    PROVE  /\ live' = live
           /\ \/ Respond(a) /\ UNCHANGED <<store, mem>>
                 /\ (SavesFail \/ ~ Working(a, "save")) /\ ~ Working(a, "publish")
                 /\ ~ Working(a, "drop")
              \/ /\ Working(a, "save") /\ Present(job[a].copy)
                 /\ store' = [store EXCEPT ![job[a].id] = job[a].copy] /\ mem' = mem
                 /\ job' = [job EXCEPT ![a] = [job[a] EXCEPT !.pc = "publish"]]
              \/ /\ Working(a, "publish")
                 /\ mem' = [mem EXCEPT ![job[a].id] = job[a].copy] /\ store' = store
                 /\ Respond(a)
              \/ /\ Working(a, "work")
                 /\ store' = [store EXCEPT ![job[a].id] = NoRow] /\ mem' = mem
                 /\ job' = [job EXCEPT ![a] = [job[a] EXCEPT !.pc = "drop"]]
              \/ /\ Working(a, "drop")
                 /\ mem' = [mem EXCEPT ![job[a].id] = NoRow] /\ store' = store
                 /\ Respond(a)
<1>0. job \in [Admins -> JobType]
  BY DEF Types
<1>1. \A p : [job EXCEPT ![a].pc = p] = [job EXCEPT ![a] = [job[a] EXCEPT !.pc = p]]
  BY <1>0
<1>2. CASE SaveJob(a)
  BY <1>1, <1>2 DEF SaveJob, SaveAccount, Working
<1>3. CASE PublishJob(a)
  BY <1>3 DEF PublishJob, Upsert
<1>4. CASE DeleteRow(a)
  BY <1>1, <1>4 DEF DeleteRow, DeleteAccount, Doing, Working
<1>5. CASE DropEntry(a)
  BY <1>5 DEF DropEntry, Drop
<1> QED
  BY <1>2, <1>3, <1>4, <1>5

\* The handlers keep the types.
LEMMA AdministrationTypes ==
    ASSUME Types, NEW a \in Admins, AdministrationStep(a)
    PROVE  TypeOK' /\ job' \in [Admins -> JobType]
<1>0. job \in [Admins -> JobType] /\ TypeOK
  BY DEF Types
<1>1. JobStep(a) \/ (\E op \in Operations, id \in Ids : Read(a, op, id))
  BY DEF AdministrationStep
<1>2. Respond(a) => job' \in [Admins -> JobType]
  BY <1>0, IdleTypes DEF Respond
<1>3. job[a].id \in Ids /\ job[a].copy \in Row
  BY <1>0 DEF JobType
<1>4. ASSUME NEW op \in Operations, NEW id \in Ids, Read(a, op, id)
      PROVE  TypeOK' /\ job' \in [Admins -> JobType]
  BY <1>0, <1>4, ReadForm DEF poolVars, TypeOK
<1>5. CASE WorkStep(a)
  <2>1. UNCHANGED <<store, mem>> /\ live' \in [Ids -> 0 .. MaxToken]
    BY <1>0, <1>3, <1>5, WorkForm DEF TypeOK
  <2>2. job' \in [Admins -> JobType]
    <3>1. ASSUME NEW row \in Row, Decides(a, row) PROVE job' \in [Admins -> JobType]
      <4>1. Proceed(a, row)
        BY <3>1 DEF Decides
      <4> QED
        BY <4>1, JobWrites
    <3>2. Respond(a) \/ \E row \in Row : Decides(a, row)
      BY <1>5, WorkForm
    <3> QED
      BY <1>2, <3>1, <3>2
  <2> QED
    BY <1>0, <2>1, <2>2 DEF TypeOK
<1>6. CASE SaveJob(a) \/ PublishJob(a) \/ DeleteRow(a) \/ DropEntry(a)
  <2>1. /\ [job[a] EXCEPT !.pc = "publish"] \in JobType
        /\ [job[a] EXCEPT !.pc = "drop"] \in JobType
    BY <1>0 DEF JobType
  <2>2. job' \in [Admins -> JobType]
    BY <1>0, <1>2, <1>6, <2>1, WriteForm
  <2>3. live' = live /\ store' \in [Ids -> Row] /\ mem' \in [Ids -> Row]
    BY <1>0, <1>3, <1>6, WriteForm, RowKept DEF TypeOK
  <2> QED
    BY <1>0, <2>2, <2>3 DEF TypeOK
<1> QED
  BY <1>1, <1>4, <1>5, <1>6 DEF JobStep, WorkStep

\* Deadlines and revocations.
LEMMA ClockForm ==
    ASSUME TypeOK, NEW id \in Ids, StoreDeadline(id) \/ MemDeadline(id) \/ Revoke(id)
    PROVE  /\ TypeOK'
           /\ \/ store' = [store EXCEPT ![id] = Overdue(store[id])]
                 /\ mem' = mem /\ live' = live
              \/ mem' = [mem EXCEPT ![id] = Overdue(mem[id])]
                 /\ store' = store /\ live' = live
              \/ live' = [live EXCEPT ![id] = NoToken] /\ store' = store /\ mem' = mem
<1>0. /\ Overdue(store[id]) \in Row /\ Overdue(mem[id]) \in Row
      /\ NoToken \in 0 .. MaxToken
  BY RowKept, PoolAssumption DEF TypeOK, NoToken
<1>1. CASE StoreDeadline(id)
  <2>1. store' = [store EXCEPT ![id] = Overdue(store[id])]
    BY <1>1 DEF StoreDeadline, Overdue, TypeOK
  <2> QED
    BY <1>0, <1>1, <2>1 DEF StoreDeadline, TypeOK
<1>2. CASE MemDeadline(id)
  <2>1. mem' = [mem EXCEPT ![id] = Overdue(mem[id])]
    BY <1>2 DEF MemDeadline, Overdue, TypeOK
  <2> QED
    BY <1>0, <1>2, <2>1 DEF MemDeadline, TypeOK
<1>3. CASE Revoke(id)
  BY <1>0, <1>3 DEF Revoke, TypeOK
<1> QED
  BY <1>1, <1>2, <1>3

\* A restart keeps the types.
LEMMA RestartTypes ==
    ASSUME Types, Restart
    PROVE  TypeOK' /\ call' \in [Requests -> CallType] /\ tick' \in TickType
           /\ job' \in [Admins -> JobType]
<1>1. TypeOK'
  BY DEF Restart, Types, TypeOK
<1>2. call' \in [Requests -> CallType] /\ job' \in [Admins -> JobType]
  BY IdleTypes DEF Restart
<1>3. tick' \in TickType
  BY IdleTypes DEF Restart
<1> QED
  BY <1>1, <1>2, <1>3

\* Every step keeps the types.
LEMMA TypesStep == Types /\ [Next]_vars => Types'
<1> SUFFICES ASSUME Types, [Next]_vars PROVE Types'
  OBVIOUS
<1>0. mixed \in [Ids -> BOOLEAN] /\ disabled \in [Ids -> {"no", "raced", "alone"}]
  BY DEF Types
<1>1. CASE TrafficStep
  <2>1. mixed' \in [Ids -> BOOLEAN]
    BY <1>0, <1>1 DEF TrafficStep, TrafficHistory
  <2> QED
    BY <1>0, <1>1, <2>1, TrafficTypes DEF TrafficStep, TrafficHistory, Types, TypeOK
<1>2. CASE WorkerStep
  <2>1. mixed' \in [Ids -> BOOLEAN]
    BY <1>0, <1>2 DEF WorkerStep
  <2> QED
    BY <1>0, <1>2, <2>1, RecoveryTypes DEF WorkerStep, Types
<1>3. ASSUME NEW a \in Admins, AdminStep(a) PROVE Types'
  <2>1. mixed' \in [Ids -> BOOLEAN]
    BY <1>0, <1>3 DEF AdminStep
  <2>2. disabled' \in [Ids -> {"no", "raced", "alone"}]
    BY <1>0, <1>3 DEF AdminStep, AfterJob
  <2> QED
    BY <1>3, <2>1, <2>2, AdministrationTypes DEF AdminStep, Types
<1>4. CASE Clock
  BY <1>4, ClockForm DEF Clock, Outside, history, Types
<1>5. CASE Restart
  <2>1. mixed' \in [Ids -> BOOLEAN] /\ disabled' = disabled
    BY <1>5 DEF Restart
  <2> QED
    BY <1>0, <1>5, <2>1, RestartTypes DEF Types
<1>6. CASE UNCHANGED vars
  BY <1>6 DEF vars, history, Types, TypeOK
<1> QED
  BY <1>1, <1>2, <1>3, <1>4, <1>5, <1>6 DEF Next


-----------------------------------------------------------------------------
(* One account in the hands of its writers.                                *)

\* A phase of the worker: it promotes before anything else, asks before it saves,
\* and publishes one copy at a time.
TickOK ==
    /\ tick.phase = 1 => tick.saved = {} /\ tick.ask = {}
    /\ tick.step = "list" => tick.ask = {} /\ tick.write = {} /\ tick.saved = {}
    /\ tick.saved = {} \/ tick.step = "local" \/ tick.ask = {}
    /\ \A i \in tick.saved, j \in tick.saved : i = j

OnlyRequest(r, id) ==
    /\ \A q \in Requests : Saving(q, id) => q = r
    /\ ~Recovering(id)
    /\ \A a \in Admins : ~Publishing(a, id)

OnlyWorker(id) ==
    /\ \A q \in Requests : ~Saving(q, id)
    /\ \A a \in Admins : ~Publishing(a, id)

OnlyAdmin(a, id) ==
    /\ \A q \in Requests : ~Saving(q, id)
    /\ ~Recovering(id)
    /\ \A b \in Admins : Publishing(b, id) => b = a

\* What a request saves goes with the entry it was copied from; the account is
\* not gone from the scheduler alone.
RequestOK(r, id) ==
    /\ ~Present(mem[id]) => ~Present(store[id])
    /\ call[r].pc = "copy" /\ call[r].quota => ~Present(mem[id]) \/ mem[id].reason = "quota"
    /\ call[r].pc = "save" => Fit(call[r].copy, mem[id])

\* The row a phase saved is the copy it will publish; a promoted entry goes with
\* the copy that will be saved.
WorkerOK(id) ==
    /\ id \in tick.saved => Same(store[id], tick.copy[id])
    /\ Promoting(id) => Fit(tick.copy[id], mem[id])

\* The row a handler saved is the copy it will publish.
AdminOK(a, id) ==
    /\ job[a].pc = "publish" => Same(store[id], job[a].copy)
    /\ job[a].pc = "drop" => ~Present(store[id])

Settled(id) ==
    ~mixed[id] =>
        /\ AtRest(id) => Fit(store[id], mem[id])
        /\ \A r \in Requests : Saving(r, id) => OnlyRequest(r, id) /\ RequestOK(r, id)
        /\ Recovering(id) => OnlyWorker(id) /\ WorkerOK(id)
        /\ \A a \in Admins : Publishing(a, id) => OnlyAdmin(a, id) /\ AdminOK(a, id)

SettledInv == Types /\ TickOK /\ \A id \in Ids : Settled(id)

\* An administrator's disable that nobody raced: nobody has the account since.
Undisturbed(id) ==
    /\ AdminDisabled(store[id]) /\ AdminDisabled(mem[id])
    /\ \A r \in Requests : call[r].id = id => call[r].pc = "idle"
    /\ id \notin tick.ask /\ id \notin tick.write /\ id \notin tick.saved
    /\ \A a \in Admins : ~Publishing(a, id)

DisableInv ==
    /\ Types
    /\ \A id \in Ids : disabled[id] = "alone" => Undisturbed(id)
    /\ \A a \in Admins :
          job[a].op = "disable" /\ job[a].pc \in {"save", "publish"} => AdminDisabled(job[a].copy)

-----------------------------------------------------------------------------
(* What leaves an account settled.                                         *)

\* Time, and the scheduler's parking of an account for its counters.
RowDrifts(row, next)     == next = row \/ next = Overdue(row)
EntryDrifts(entry, next) == \/ RowDrifts(entry, next)
                            \/ KnownExhausted(entry) /\ next = ParkKnownExhausted(entry)

\* A passed deadline changes nothing that is compared.
LEMMA OverdueRows ==
    ASSUME NEW row \in Row, NEW next, RowDrifts(row, next)
    PROVE  /\ next \in Row
           /\ next.pool = row.pool /\ next.reason = row.reason /\ next.code = row.code
           /\ next.exhausted = row.exhausted /\ next.fails = row.fails /\ next.token = row.token
<1>1. Overdue(row) \in Row
  BY RowKept
<1>2. /\ Overdue(row).pool = row.pool /\ Overdue(row).reason = row.reason
      /\ Overdue(row).code = row.code /\ Overdue(row).exhausted = row.exhausted
      /\ Overdue(row).fails = row.fails /\ Overdue(row).token = row.token
  BY DEF Overdue, Row
<1> QED
  BY <1>1, <1>2 DEF RowDrifts

\* The fields the scheduler sets when it parks an account for its counters.
LEMMA ParkedRow ==
    ASSUME NEW row \in Row
    PROVE  LET next == ParkKnownExhausted(row)
           IN  /\ next.pool = "unavailable" /\ next.reason = "quota"
               /\ next.code = IF row.code = "none" THEN "other" ELSE row.code
               /\ next.exhausted = row.exhausted /\ next.fails = row.fails
               /\ next.token = row.token
  BY DEF ParkKnownExhausted, Row

\* The fields of a row whose counters are set.
LEMMA CountedRow ==
    ASSUME NEW row \in Row, NEW b \in BOOLEAN
    PROVE  LET next == SetQuota(row, b)
           IN  /\ next.pool = row.pool /\ next.reason = row.reason /\ next.code = row.code
               /\ next.exhausted = b /\ next.fails = row.fails /\ next.token = row.token
  BY DEF SetQuota, Row

\* Row and entry that fit are both there or both gone, and what happens by itself
\* keeps them fitting.
LEMMA FitDrifts ==
    ASSUME NEW row \in Row, NEW entry \in Row, Fit(row, entry)
    PROVE  /\ Present(row) <=> Present(entry)
           /\ \A next : RowDrifts(row, next) => Fit(next, entry)
           /\ \A next : EntryDrifts(entry, next) => Fit(row, next)
<1>1. \/ Same(row, entry)
      \/ ~Present(row) /\ ~Present(entry)
      \/ row.reason = "quota" /\ row.exhausted /\ Same(SetQuota(row, FALSE), entry)
      \/ KnownExhausted(row) /\ Same(ParkKnownExhausted(row), entry)
  BY DEF Fit
<1>2. Present(row) <=> Present(entry)
  <2>1. Same(row, entry) => row.pool = entry.pool
    BY DEF Same
  <2>2. Same(SetQuota(row, FALSE), entry) => row.pool = entry.pool
    BY CountedRow DEF Same
  <2>3. Same(ParkKnownExhausted(row), entry) => entry.pool = "unavailable"
    BY ParkedRow DEF Same
  <2> QED
    BY <1>1, <2>1, <2>2, <2>3 DEF Present, KnownExhausted
<1>3. ASSUME NEW next, RowDrifts(row, next) PROVE Fit(next, entry)
  <2>1. /\ next \in Row /\ next.pool = row.pool /\ next.reason = row.reason /\ next.code = row.code
        /\ next.exhausted = row.exhausted /\ next.fails = row.fails /\ next.token = row.token
    BY <1>3, OverdueRows
  <2>2. CASE Same(row, entry)
    BY <2>1, <2>2 DEF Fit, Same
  <2>3. CASE ~Present(row) /\ ~Present(entry)
    BY <2>1, <2>3 DEF Fit, Present
  <2>4. CASE row.reason = "quota" /\ row.exhausted /\ Same(SetQuota(row, FALSE), entry)
    <3>1. Same(SetQuota(next, FALSE), entry)
      <4>1. PICK b \in BOOLEAN : b = FALSE
        OBVIOUS
      <4>2. /\ SetQuota(next, b).pool = row.pool /\ SetQuota(next, b).reason = row.reason
            /\ SetQuota(next, b).code = row.code /\ SetQuota(next, b).exhausted = b
            /\ SetQuota(next, b).fails = row.fails /\ SetQuota(next, b).token = row.token
        BY <2>1, CountedRow
      <4>3. /\ SetQuota(row, b).pool = row.pool /\ SetQuota(row, b).reason = row.reason
            /\ SetQuota(row, b).code = row.code /\ SetQuota(row, b).exhausted = b
            /\ SetQuota(row, b).fails = row.fails /\ SetQuota(row, b).token = row.token
        BY CountedRow
      <4>4. Same(SetQuota(row, b), entry)
        BY <2>4, <4>1
      <4>5. Same(SetQuota(next, b), entry)
        BY <4>2, <4>3, <4>4 DEF Same
      <4> QED
        BY <4>1, <4>5
    <3> QED
      BY <2>1, <2>4, <3>1 DEF Fit
  <2>5. CASE KnownExhausted(row) /\ Same(ParkKnownExhausted(row), entry)
    <3>1. Same(ParkKnownExhausted(next), entry)
      BY <2>1, <2>5, ParkedRow DEF Same
    <3>2. KnownExhausted(next)
      BY <2>1, <2>5 DEF KnownExhausted, QuotaExhausted
    <3> QED
      BY <3>1, <3>2 DEF Fit
  <2> QED
    BY <1>1, <2>2, <2>3, <2>4, <2>5
<1>4. ASSUME NEW next, RowDrifts(entry, next) PROVE Fit(row, next)
  <2>1. /\ next.pool = entry.pool /\ next.reason = entry.reason /\ next.code = entry.code
        /\ next.exhausted = entry.exhausted /\ next.fails = entry.fails
        /\ next.token = entry.token
    BY <1>4, OverdueRows
  <2>2. \A other : Same(other, entry) => Same(other, next)
    BY <2>1 DEF Same
  <2> QED
    BY <1>1, <2>1, <2>2 DEF Fit, Present
<1>5. ASSUME KnownExhausted(entry) PROVE Fit(row, ParkKnownExhausted(entry))
  <2>1. entry.pool = "ready" /\ entry.exhausted
    BY <1>5 DEF KnownExhausted, QuotaExhausted
  <2>2. Same(row, entry)
    <3>1. Same(SetQuota(row, FALSE), entry) => ~entry.exhausted
      BY CountedRow DEF Same
    <3>2. Same(ParkKnownExhausted(row), entry) => entry.pool = "unavailable"
      BY ParkedRow DEF Same
    <3> QED
      BY <1>1, <2>1, <3>1, <3>2 DEF Present
  <2>3. Same(ParkKnownExhausted(row), ParkKnownExhausted(entry)) /\ KnownExhausted(row)
    BY <2>1, <2>2, ParkedRow DEF Same, KnownExhausted, QuotaExhausted
  <2> QED
    BY <2>3 DEF Fit
<1> QED
  BY <1>2, <1>3, <1>4, <1>5 DEF EntryDrifts

RequestsKeep(id) ==
    \A r \in Requests : /\ Saving(r, id)' <=> Saving(r, id)
                        /\ Saving(r, id) => call'[r] = call[r]

WorkerKeeps(id) ==
    /\ id \in tick'.saved <=> id \in tick.saved
    /\ Promoting(id)' <=> Promoting(id)
    /\ Recovering(id) => tick'.copy[id] = tick.copy[id]

AdminsKeep(id) ==
    \A a \in Admins : /\ Publishing(a, id)' <=> Publishing(a, id)
                      /\ Publishing(a, id) => job'[a] = job[a]

\* Who stands still keeps what he has in hand.
LEMMA StandStill ==
    ASSUME NEW id
    PROVE  /\ call' = call => RequestsKeep(id)
           /\ tick' = tick => WorkerKeeps(id)
           /\ job' = job => AdminsKeep(id)
<1>1. call' = call => RequestsKeep(id)
  BY DEF RequestsKeep, Saving
<1>2. tick' = tick => WorkerKeeps(id)
  BY DEF WorkerKeeps, Promoting, Recovering, Phase
<1>3. job' = job => AdminsKeep(id)
  BY DEF AdminsKeep, Publishing
<1> QED
  BY <1>1, <1>2, <1>3

\* A step in which nobody that has the account moves leaves it settled.
LEMMA Frame ==
    ASSUME Types, NEW id \in Ids, Settled(id), ~mixed'[id] => ~mixed[id],
           RequestsKeep(id), WorkerKeeps(id), AdminsKeep(id),
           RowDrifts(store[id], store'[id]), EntryDrifts(mem[id], mem'[id])
    PROVE  Settled(id)'
<1> SUFFICES ASSUME ~mixed'[id]
             PROVE  /\ AtRest(id)' => Fit(store'[id], mem'[id])
                    /\ \A r \in Requests : Saving(r, id)' => OnlyRequest(r, id)' /\ RequestOK(r, id)'
                    /\ Recovering(id)' => OnlyWorker(id)' /\ WorkerOK(id)'
                    /\ \A a \in Admins : Publishing(a, id)' => OnlyAdmin(a, id)' /\ AdminOK(a, id)'
  BY DEF Settled
<1>0. /\ store[id] \in Row /\ mem[id] \in Row
      /\ \A r \in Requests : call[r].copy \in Row
      /\ tick.copy[id] \in Row
  BY DEF Types, TypeOK, CallType, TickType
<1>1. /\ AtRest(id) => Fit(store[id], mem[id])
      /\ \A r \in Requests : Saving(r, id) => OnlyRequest(r, id) /\ RequestOK(r, id)
      /\ Recovering(id) => OnlyWorker(id) /\ WorkerOK(id)
      /\ \A a \in Admins : Publishing(a, id) => OnlyAdmin(a, id) /\ AdminOK(a, id)
  BY DEF Settled
<1>2. /\ \A r \in Requests : Saving(r, id)' <=> Saving(r, id)
      /\ \A r \in Requests : Saving(r, id) => call'[r] = call[r]
      /\ Promoting(id)' <=> Promoting(id)
      /\ id \in tick'.saved <=> id \in tick.saved
      /\ Recovering(id) => tick'.copy[id] = tick.copy[id]
      /\ \A a \in Admins : Publishing(a, id)' <=> Publishing(a, id)
      /\ \A a \in Admins : Publishing(a, id) => job'[a] = job[a]
  BY DEF RequestsKeep, WorkerKeeps, AdminsKeep
<1>3. Recovering(id)' <=> Recovering(id)
  BY <1>2 DEF Recovering
<1>4. /\ Present(store'[id]) <=> Present(store[id])
      /\ Present(mem'[id]) <=> Present(mem[id])
      /\ mem[id].reason = "quota" => mem'[id].reason = "quota"
      /\ \A copy : Same(store[id], copy) => Same(store'[id], copy)
  <2>1. /\ Present(store'[id]) <=> Present(store[id])
        /\ \A copy : Same(store[id], copy) => Same(store'[id], copy)
    BY <1>0, OverdueRows DEF Present, Same
  <2>2. CASE RowDrifts(mem[id], mem'[id])
    BY <1>0, <2>1, <2>2, OverdueRows DEF Present
  <2>3. CASE KnownExhausted(mem[id]) /\ mem'[id] = ParkKnownExhausted(mem[id])
    BY <1>0, <2>1, <2>3, ParkedRow DEF Present, KnownExhausted
  <2> QED
    BY <2>2, <2>3 DEF EntryDrifts
<1>5. ASSUME AtRest(id)' PROVE Fit(store'[id], mem'[id])
  <2>1. AtRest(id)
    BY <1>2, <1>3, <1>5 DEF AtRest
  <2>2. Fit(store'[id], mem[id]) /\ store'[id] \in Row
    BY <1>0, <1>1, <2>1, FitDrifts, OverdueRows
  <2> QED
    BY <1>0, <2>2, FitDrifts
<1>6. ASSUME NEW r \in Requests, Saving(r, id)' PROVE OnlyRequest(r, id)' /\ RequestOK(r, id)'
  <2>1. Saving(r, id) /\ OnlyRequest(r, id) /\ RequestOK(r, id) /\ call'[r] = call[r]
    BY <1>1, <1>2, <1>6
  <2>2. OnlyRequest(r, id)'
    BY <1>2, <1>3, <2>1 DEF OnlyRequest
  <2>3. RequestOK(r, id)'
    BY <1>0, <1>4, <2>1, FitDrifts DEF RequestOK
  <2> QED
    BY <2>2, <2>3
<1>7. ASSUME Recovering(id)' PROVE OnlyWorker(id)' /\ WorkerOK(id)'
  <2>1. Recovering(id) /\ OnlyWorker(id) /\ WorkerOK(id) /\ tick'.copy[id] = tick.copy[id]
    BY <1>1, <1>2, <1>3, <1>7
  <2>2. OnlyWorker(id)'
    BY <1>2, <2>1 DEF OnlyWorker
  <2>3. WorkerOK(id)'
    BY <1>0, <1>2, <1>4, <2>1, FitDrifts DEF WorkerOK
  <2> QED
    BY <2>2, <2>3
<1>8. ASSUME NEW a \in Admins, Publishing(a, id)' PROVE OnlyAdmin(a, id)' /\ AdminOK(a, id)'
  <2>1. Publishing(a, id) /\ OnlyAdmin(a, id) /\ AdminOK(a, id) /\ job'[a] = job[a]
    BY <1>1, <1>2, <1>8
  <2>2. OnlyAdmin(a, id)'
    BY <1>2, <1>3, <2>1 DEF OnlyAdmin
  <2>3. AdminOK(a, id)'
    BY <1>4, <2>1 DEF AdminOK
  <2> QED
    BY <2>2, <2>3
<1> QED
  BY <1>5, <1>6, <1>7, <1>8

-----------------------------------------------------------------------------
(* Requests.                                                               *)

OnlyMoves(r) == \A q \in Requests : q # r => call'[q] = call[q]

\* An account this request is not saving, before or after its step.
LEMMA RequestElsewhere ==
    ASSUME NEW r \in Requests, NEW id \in Ids, OnlyMoves(r), TrafficHistory,
           ~Saving(r, id), ~Saving(r, id)'
    PROVE  RequestsKeep(id) /\ (~mixed'[id] => ~mixed[id])
<1>1. \A q \in Requests : q # r => (Saving(q, id)' <=> Saving(q, id))
  BY DEF OnlyMoves, Saving
<1>2. RequestsKeep(id)
  BY <1>1 DEF OnlyMoves, RequestsKeep
<1>3. ~RequestBegins(id)
  BY <1>1 DEF RequestBegins
<1> QED
  BY <1>2, <1>3 DEF TrafficHistory

\* The account of a request that is about to save: untouched by anyone else.
LEMMA RequestGoesOn ==
    ASSUME Types, NEW r \in Requests, NEW id \in Ids,
           OnlyMoves(r), tick' = tick, job' = job, store' = store,
           Saving(r, id)', Present(mem'[id]) <=> Present(mem[id]),
           ~mixed'[id] => OnlyRequest(r, id) /\ (~Present(mem[id]) => ~Present(store[id])),
           call'[r].pc = "copy" /\ call'[r].quota
              => ~Present(mem'[id]) \/ mem'[id].reason = "quota",
           ~mixed'[id] /\ call'[r].pc = "save" => Fit(call'[r].copy, mem'[id])
    PROVE  Settled(id)'
<1> SUFFICES ASSUME ~mixed'[id]
             PROVE  /\ AtRest(id)' => Fit(store'[id], mem'[id])
                    /\ \A q \in Requests : Saving(q, id)' => OnlyRequest(q, id)' /\ RequestOK(q, id)'
                    /\ Recovering(id)' => OnlyWorker(id)' /\ WorkerOK(id)'
                    /\ \A a \in Admins : Publishing(a, id)' => OnlyAdmin(a, id)' /\ AdminOK(a, id)'
  BY DEF Settled
<1>1. WorkerKeeps(id) /\ AdminsKeep(id)
  BY StandStill
<1>2. /\ \A q \in Requests : Saving(q, id)' => q = r
      /\ ~Recovering(id)'
      /\ \A a \in Admins : ~Publishing(a, id)'
  <2>1. \A q \in Requests : q # r => ~Saving(q, id)'
    BY DEF OnlyRequest, OnlyMoves, Saving
  <2>2. ~Recovering(id)'
    BY <1>1 DEF OnlyRequest, WorkerKeeps, Recovering
  <2>3. \A a \in Admins : ~Publishing(a, id)'
    BY <1>1 DEF OnlyRequest, AdminsKeep
  <2> QED
    BY <2>1, <2>2, <2>3
<1>3. OnlyRequest(r, id)'
  BY <1>2 DEF OnlyRequest
<1>4. RequestOK(r, id)'
  BY DEF RequestOK
<1>5. ~AtRest(id)'
  BY DEF AtRest
<1> QED
  BY <1>2, <1>3, <1>4, <1>5

\* The first change a request makes to an account that nobody else is changing.
LEMMA RequestBeginsAlone ==
    ASSUME Types, NEW r \in Requests, NEW id \in Ids, Settled(id), OnlyMoves(r), TrafficHistory,
           ~Saving(r, id), Saving(r, id)', ~mixed'[id]
    PROVE  OnlyRequest(r, id) /\ (~Present(mem[id]) => ~Present(store[id]))
<1>1. RequestBegins(id)
  BY DEF RequestBegins
<1>2. mixed'[id] = (~AtRest(id) \/ (mixed[id] /\ ~Present(mem[id])))
  BY <1>1 DEF TrafficHistory
<1>3. AtRest(id)
  BY <1>2
<1>4. OnlyRequest(r, id)
  BY <1>3 DEF AtRest, OnlyRequest
<1>5. ASSUME ~Present(mem[id]) PROVE ~Present(store[id])
  <2>1. ~mixed[id]
    BY <1>2, <1>5
  <2>2. Fit(store[id], mem[id])
    BY <1>3, <2>1 DEF Settled
  <2> QED
    BY <1>5, <2>2, FitDrifts DEF Types, TypeOK
<1> QED
  BY <1>4, <1>5

\* A request that is saving an account and has not saved it yet.
LEMMA RequestStillAlone ==
    ASSUME NEW r \in Requests, NEW id \in Ids, Settled(id), OnlyMoves(r), TrafficHistory,
           Saving(r, id), Saving(r, id)', ~mixed'[id]
    PROVE  OnlyRequest(r, id) /\ RequestOK(r, id)
<1>1. ~RequestBegins(id)
  BY DEF RequestBegins, OnlyMoves, Saving
<1>2. ~mixed[id]
  BY <1>1 DEF TrafficHistory
<1> QED
  BY <1>2 DEF Settled

\* MoveUnavailable parks an account or leaves it absent.
LEMMA MoveForm ==
    ASSUME Types, NEW id \in Ids, NEW reason \in Reasons, MoveUnavailable(id, reason)
    PROVE  /\ \A i \in Ids : i # id => mem'[i] = mem[i]
           /\ Present(mem'[id]) <=> Present(mem[id])
           /\ Present(mem'[id]) => mem'[id].reason = reason
<1>1. mem \in [Ids -> Row]
  BY DEF Types, TypeOK
<1>2. /\ MarkUnavailable(mem[id], reason, "future", "other").pool = "unavailable"
      /\ MarkUnavailable(mem[id], reason, "future", "other").reason = reason
  BY <1>1 DEF MarkUnavailable, Row
<1>3. CASE Present(mem[id])
  <2>1. mem' = [mem EXCEPT ![id] = MarkUnavailable(mem[id], reason, "future", "other")]
    BY <1>3 DEF MoveUnavailable, Upsert
  <2>2. mem'[id] = MarkUnavailable(mem[id], reason, "future", "other")
    BY <1>1, <2>1
  <2> QED
    BY <1>1, <1>2, <1>3, <2>1, <2>2 DEF Present
<1>4. CASE ~Present(mem[id])
  BY <1>4 DEF MoveUnavailable
<1> QED
  BY <1>3, <1>4

\* A request's attempt: it changes its own account only.
LEMMA RequestSettles ==
    ASSUME Types, \A id \in Ids : Settled(id), NEW r \in Requests, RequestStep(r), TrafficHistory
    PROVE  \A id \in Ids : Settled(id)'
<1> SUFFICES ASSUME NEW id \in Ids PROVE Settled(id)'
  OBVIOUS
<1>0. /\ store \in [Ids -> Row] /\ mem \in [Ids -> Row] /\ call \in [Requests -> CallType]
      /\ tick' = tick /\ job' = job /\ Settled(id)
      /\ call[r].id \in Ids
  BY DEF Types, TypeOK, CallType, TrafficHistory
<1>1. WorkerKeeps(id) /\ AdminsKeep(id)
  BY <1>0, StandStill
<1>2. Finish(r) => OnlyMoves(r) /\ ~Saving(r, id)'
  BY <1>0, IdleTypes DEF Finish, OnlyMoves, Saving
<1>3. \A q : call' = [call EXCEPT ![r] = q] => OnlyMoves(r) /\ call'[r] = q
  BY <1>0 DEF OnlyMoves
<1>4. ASSUME OnlyMoves(r), ~Saving(r, id), ~Saving(r, id)',
             store'[id] = store[id], mem'[id] = mem[id]
      PROVE  Settled(id)'
  BY <1>0, <1>1, <1>4, RequestElsewhere, Frame DEF RowDrifts, EntryDrifts
<1>5. call[r].id = id => (Saving(r, id) <=> call[r].pc \notin {"idle", "upstream"})
  BY DEF Saving
<1>6. CASE Abandon(r)
  BY <1>0, <1>2, <1>4, <1>6 DEF Abandon, At, poolVars, Saving
<1>7. CASE Success(r)
  <2>1. ~Saving(r, id) /\ store' = store /\ mem' = mem
    BY <1>7 DEF Success, At, poolVars, Saving
  <2>2. CASE Finish(r)
    BY <1>2, <1>4, <2>1, <2>2
  <2>3. ASSUME NEW pc \in {"observed", "stamp"}, NEW b,
               call' = [call EXCEPT ![r].pc = pc, ![r].quota = b]
        PROVE  Settled(id)'
    <3>1. PICK q : q = [call[r] EXCEPT !.pc = pc, !.quota = b]
      OBVIOUS
    <3>2. call' = [call EXCEPT ![r] = q]
      BY <1>0, <2>3, <3>1
    <3>6. q.pc = pc /\ q.id = call[r].id
      BY <1>0, <3>1 DEF CallType
    <3>3. OnlyMoves(r) /\ call'[r].pc = pc /\ call'[r].id = call[r].id
      BY <1>3, <3>2, <3>6
    <3>4. CASE call[r].id # id
      BY <1>4, <2>1, <3>3, <3>4 DEF Saving
    <3>5. CASE call[r].id = id
      <4>1. Saving(r, id)'
        BY <3>3, <3>5 DEF Saving
      <4>2. ~mixed'[id] => OnlyRequest(r, id) /\ (~Present(mem[id]) => ~Present(store[id]))
        BY <1>0, <2>1, <3>3, <4>1, RequestBeginsAlone
      <4>3. call'[r].pc \notin {"copy", "save"}
        BY <3>3
      <4> QED
        BY <1>0, <2>1, <3>3, <4>1, <4>2, <4>3, RequestGoesOn
    <3> QED
      BY <3>4, <3>5
  <2> QED
    BY <1>7, <2>2, <2>3 DEF Success
<1>8. ASSUME NEW reason \in Failures, Fail(r, reason) PROVE Settled(id)'
  <2>1. ~Saving(r, id) /\ store' = store /\ reason \in Reasons
    BY <1>8, PoolAssumption DEF Fail, At, Saving, Reasons
  <2>2. PICK b \in BOOLEAN : b = (reason = "quota")
    OBVIOUS
  <2>3. PICK q : q = [call[r] EXCEPT !.pc = "copy", !.quota = b]
    OBVIOUS
  <2>4. call' = [call EXCEPT ![r] = q]
    BY <1>0, <1>8, <2>2, <2>3 DEF Fail
  <2>5. OnlyMoves(r) /\ call'[r].pc = "copy" /\ call'[r].id = call[r].id /\ call'[r].quota = b
    BY <1>0, <1>3, <2>3, <2>4 DEF CallType
  <2>6. /\ \A i \in Ids : i # call[r].id => mem'[i] = mem[i]
        /\ Present(mem'[call[r].id]) <=> Present(mem[call[r].id])
        /\ Present(mem'[call[r].id]) => mem'[call[r].id].reason = reason
    BY <1>0, <1>8, <2>1, MoveForm DEF Fail
  <2>7. CASE call[r].id # id
    BY <1>4, <2>1, <2>5, <2>6, <2>7 DEF Saving
  <2>8. CASE call[r].id = id
    <3>1. Saving(r, id)'
      BY <2>5, <2>8 DEF Saving
    <3>2. ~mixed'[id] => OnlyRequest(r, id) /\ (~Present(mem[id]) => ~Present(store[id]))
      BY <1>0, <2>1, <2>5, <3>1, RequestBeginsAlone
    <3>3. call'[r].quota => ~Present(mem'[id]) \/ mem'[id].reason = "quota"
      BY <2>2, <2>5, <2>6, <2>8
    <3> QED
      BY <1>0, <2>1, <2>5, <2>6, <2>8, <3>1, <3>2, <3>3, RequestGoesOn
  <2> QED
    BY <2>7, <2>8
<1>9. CASE Record(r) \/ Move(r)
  <2>1. store' = store /\ call[r].pc \in {"observed", "stamp", "move"}
    BY <1>9 DEF Record, Move, At
  <2>2. /\ OnlyMoves(r) /\ call'[r].pc \in {"move", "copy"} /\ call'[r].id = call[r].id
        /\ call'[r].pc = "copy" => ~call'[r].quota \/ mem'[id].reason = "quota"
                                   \/ ~Present(mem'[id]) \/ call[r].id # id
    <3>1. CASE Record(r)
      <4>1. PICK pc \in {"move", "copy"} :
               pc = IF At(r, "observed") /\ call[r].quota THEN "move" ELSE "copy"
        OBVIOUS
      <4>2. PICK q : q = [call[r] EXCEPT !.pc = pc, !.quota = FALSE]
        OBVIOUS
      <4>3. call' = [call EXCEPT ![r] = q]
        BY <1>0, <3>1, <4>1, <4>2 DEF Record
      <4>4. OnlyMoves(r) /\ call'[r].pc = pc /\ call'[r].id = call[r].id /\ ~call'[r].quota
        BY <1>0, <1>3, <4>2, <4>3 DEF CallType
      <4> QED
        BY <4>4
    <3>2. CASE Move(r)
      <4>1. PICK q : q = [call[r] EXCEPT !.pc = "copy"]
        OBVIOUS
      <4>2. call' = [call EXCEPT ![r] = q]
        BY <1>0, <3>2, <4>1 DEF Move
      <4>5. q.pc = "copy" /\ q.id = call[r].id
        BY <1>0, <4>1 DEF CallType
      <4>3. OnlyMoves(r) /\ call'[r].pc = "copy" /\ call'[r].id = call[r].id
        BY <1>3, <4>2, <4>5
      <4>4. Present(mem'[call[r].id]) => mem'[call[r].id].reason = "quota"
        BY <1>0, <3>2, MoveForm DEF Move, Reasons
      <4> QED
        BY <4>3, <4>4
    <3> QED
      BY <1>9, <3>1, <3>2
  <2>3. /\ call[r].id # id => mem'[id] = mem[id]
        /\ call[r].id = id => (Present(mem'[id]) <=> Present(mem[id]))
    <3>1. CASE Record(r)
      <4>1. SetQuota(mem[call[r].id], call[r].quota).pool = mem[call[r].id].pool
        BY <1>0, CountedRow DEF CallType
      <4>2. \/ mem' = mem
            \/ mem' = [mem EXCEPT ![call[r].id] = SetQuota(mem[call[r].id], call[r].quota)]
        BY <3>1 DEF Record, Upsert
      <4> QED
        BY <1>0, <4>1, <4>2 DEF Present
    <3>2. CASE Move(r)
      BY <1>0, <3>2, MoveForm DEF Move, Reasons
    <3> QED
      BY <1>9, <3>1, <3>2
  <2>4. CASE call[r].id # id
    BY <1>4, <2>1, <2>2, <2>3, <2>4 DEF Saving
  <2>5. CASE call[r].id = id
    <3>1. Saving(r, id) /\ Saving(r, id)'
      BY <2>1, <2>2, <2>5 DEF Saving
    <3>2. ~mixed'[id] => OnlyRequest(r, id) /\ RequestOK(r, id)
      BY <1>0, <2>2, <3>1, RequestStillAlone
    <3>3. ~mixed'[id] => OnlyRequest(r, id) /\ (~Present(mem[id]) => ~Present(store[id]))
      BY <3>2 DEF RequestOK
    <3> QED
      BY <1>0, <2>1, <2>2, <2>3, <2>5, <3>1, <3>3, RequestGoesOn
  <2> QED
    BY <2>4, <2>5
<1>10. CASE Copy(r)
  <2>1. call[r].pc = "copy" /\ store' = store /\ mem' = mem
    BY <1>10 DEF Copy, At, poolVars
  <2>2. PICK row \in Row : row = mem[call[r].id]
    BY <1>0
  <2>3. PICK copy \in {row} \cup (IF call[r].quota THEN {SetQuota(row, TRUE)} ELSE {}) :
           call' = [call EXCEPT ![r].pc = "save", ![r].copy = copy]
    BY <1>10, <2>2 DEF Copy
  <2>4. PICK q : q = [call[r] EXCEPT !.pc = "save", !.copy = copy]
    OBVIOUS
  <2>5. call' = [call EXCEPT ![r] = q]
    BY <1>0, <2>3, <2>4
  <2>6. OnlyMoves(r) /\ call'[r].pc = "save" /\ call'[r].id = call[r].id /\ call'[r].copy = copy
    BY <1>0, <1>3, <2>4, <2>5 DEF CallType
  <2>7. CASE call[r].id # id
    BY <1>4, <2>1, <2>6, <2>7 DEF Saving
  <2>8. CASE call[r].id = id
    <3>1. Saving(r, id) /\ Saving(r, id)'
      BY <2>1, <2>6, <2>8 DEF Saving
    <3>2. ~mixed'[id] => OnlyRequest(r, id) /\ RequestOK(r, id)
      BY <1>0, <2>6, <3>1, RequestStillAlone
    <3>3. ~mixed'[id] => OnlyRequest(r, id) /\ (~Present(mem[id]) => ~Present(store[id]))
      BY <3>2 DEF RequestOK
    <3>4. ASSUME ~mixed'[id] PROVE Fit(copy, row)
      <4>1. CASE copy = row
        BY <4>1 DEF Fit, Same
      <4>2. CASE copy = SetQuota(row, TRUE) /\ call[r].quota
        <5>1. ~Present(row) \/ row.reason = "quota"
          BY <2>1, <2>2, <2>8, <3>2, <3>4, <4>2 DEF RequestOK
        <5>2. /\ copy.pool = row.pool /\ copy.reason = row.reason /\ copy.code = row.code
              /\ copy.exhausted = TRUE /\ copy.fails = row.fails /\ copy.token = row.token
              /\ copy \in Row
          BY <4>2, CountedRow, RowKept
        <5>3. CASE row.exhausted = TRUE
          BY <5>2, <5>3 DEF Fit, Same
        <5>4. CASE row.exhausted = FALSE /\ row.reason = "quota"
          <6>1. PICK b \in BOOLEAN : b = FALSE
            OBVIOUS
          <6>2. /\ SetQuota(copy, b).pool = copy.pool /\ SetQuota(copy, b).reason = copy.reason
                /\ SetQuota(copy, b).code = copy.code /\ SetQuota(copy, b).exhausted = b
                /\ SetQuota(copy, b).fails = copy.fails /\ SetQuota(copy, b).token = copy.token
            BY <5>2, CountedRow
          <6>3. Same(SetQuota(copy, b), row)
            BY <5>2, <5>4, <6>1, <6>2 DEF Same
          <6> QED
            BY <5>2, <5>4, <6>1, <6>3 DEF Fit
        <5>5. CASE ~Present(row)
          BY <5>2, <5>5 DEF Fit, Present
        <5>6. row.exhausted \in BOOLEAN
          BY DEF Row
        <5> QED
          BY <5>1, <5>3, <5>4, <5>5, <5>6
      <4> QED
        BY <2>3, <4>1, <4>2
    <3> QED
      BY <1>0, <2>1, <2>2, <2>6, <2>8, <3>1, <3>3, <3>4, RequestGoesOn
  <2> QED
    BY <2>7, <2>8
<1>11. CASE Save(r)
  <2>1. call[r].pc = "save" /\ mem' = mem /\ Finish(r)
    BY <1>11 DEF Save, At
  <2>2. OnlyMoves(r) /\ ~Saving(r, id)'
    BY <1>2, <2>1
  <2>3. \/ Present(call[r].copy) /\ store' = [store EXCEPT ![call[r].id] = call[r].copy]
        \/ store' = store
    BY <1>11 DEF Save, SaveAccount
  <2>4. CASE call[r].id # id
    BY <1>0, <1>4, <2>1, <2>2, <2>3, <2>4 DEF Saving
  <2>5. CASE call[r].id = id
    <3>1. Saving(r, id)
      BY <2>1, <2>5 DEF Saving
    <3>2. ~RequestBegins(id)
      BY <2>2 DEF RequestBegins, OnlyMoves, Saving
    <3>3. mixed'[id] = (mixed[id] \/ RequestLost(id))
      BY <3>2 DEF TrafficHistory
    <3> SUFFICES ASSUME ~mixed'[id] PROVE Settled(id)'
      BY DEF Settled
    <3>4. OnlyRequest(r, id) /\ RequestOK(r, id)
      BY <3>1, <3>3 DEF Settled
    <3>5. Present(call[r].copy) => store'[id] = call[r].copy
      BY <2>2, <3>1, <3>3 DEF RequestLost
    <3>6. Fit(call[r].copy, mem[id]) /\ call[r].copy \in Row
      BY <1>0, <2>1, <3>4 DEF RequestOK, CallType
    <3>7. Fit(store'[id], mem'[id])
      <4>1. CASE Present(call[r].copy)
        BY <2>1, <3>5, <3>6, <4>1
      <4>2. CASE ~Present(call[r].copy)
        <5>1. ~Present(mem[id])
          BY <1>0, <3>6, <4>2, FitDrifts
        <5> QED
          BY <2>1, <2>3, <3>4, <4>2, <5>1 DEF RequestOK, Fit
      <4> QED
        BY <4>1, <4>2
    <3>8. AtRest(id)'
      <4>1. \A q \in Requests : ~Saving(q, id)'
        BY <2>2, <3>4 DEF OnlyRequest, OnlyMoves, Saving
      <4>2. ~Recovering(id)' /\ \A a \in Admins : ~Publishing(a, id)'
        BY <1>1, <3>4 DEF OnlyRequest, WorkerKeeps, AdminsKeep, Recovering
      <4> QED
        BY <4>1, <4>2 DEF AtRest
    <3> QED
      BY <3>7, <3>8 DEF Settled, AtRest
  <2> QED
    BY <2>4, <2>5
<1> QED
  BY <1>6, <1>7, <1>8, <1>9, <1>10, <1>11 DEF RequestStep

\* Leases and the parking of an exhausted account take no account in hand.
LEMMA TrafficSettles ==
    ASSUME Types, \A id \in Ids : Settled(id), TrafficStep
    PROVE  \A id \in Ids : Settled(id)'
<1>0. /\ TrafficHistory /\ tick' = tick /\ job' = job /\ mem \in [Ids -> Row]
      /\ call \in [Requests -> CallType]
  BY DEF TrafficStep, TrafficHistory, Types, TypeOK
<1>1. CASE \E r \in Requests : RequestStep(r)
  BY <1>0, <1>1, RequestSettles
<1>2. ASSUME NEW r \in Requests, NEW i \in Ids, Lease(r, i), NEW id \in Ids PROVE Settled(id)'
  <2>1. call[r].pc = "idle" /\ store' = store /\ mem' = mem
    BY <1>2 DEF Lease, At, poolVars
  <2>2. PICK q : q = [call[r] EXCEPT !.pc = "upstream", !.id = i]
    OBVIOUS
  <2>3. call' = [call EXCEPT ![r] = q]
    BY <1>0, <1>2, <2>2 DEF Lease
  <2>4. OnlyMoves(r) /\ call'[r].pc = "upstream"
    BY <1>0, <2>2, <2>3 DEF OnlyMoves, CallType
  <2>5. RequestsKeep(id) /\ (~mixed'[id] => ~mixed[id])
    BY <1>0, <2>1, <2>4, RequestElsewhere DEF Saving
  <2> QED
    BY <1>0, <2>1, <2>5, StandStill, Frame DEF RowDrifts, EntryDrifts
<1>3. ASSUME NEW i \in Ids, ParkExhausted(i), NEW id \in Ids PROVE Settled(id)'
  <2>1. /\ KnownExhausted(mem[i]) /\ mem' = [mem EXCEPT ![i] = ParkKnownExhausted(mem[i])]
        /\ store' = store /\ call' = call
    BY <1>3 DEF ParkExhausted, Upsert
  <2>2. RequestsKeep(id) /\ ~RequestBegins(id)
    BY <2>1, StandStill DEF RequestsKeep, RequestBegins
  <2>3. ~mixed'[id] => ~mixed[id]
    BY <1>0, <2>2 DEF TrafficHistory
  <2>4. EntryDrifts(mem[id], mem'[id]) /\ RowDrifts(store[id], store'[id])
    BY <1>0, <2>1 DEF EntryDrifts, RowDrifts
  <2> QED
    BY <1>0, <2>2, <2>3, <2>4, StandStill, Frame
<1> QED
  BY <1>1, <1>2, <1>3 DEF TrafficStep, TrafficNext

-----------------------------------------------------------------------------
(* The recovery worker.                                                    *)

\* The fields of a phase about to list.
LEMMA ListingFields ==
    \A n : /\ Listing(n).phase = n /\ Listing(n).step = "list" /\ Listing(n).ask = {}
           /\ Listing(n).write = {} /\ Listing(n).saved = {}
  BY DEF Listing

\* The fields of a tick put together from parts.
LEMMA TickFields ==
    ASSUME NEW step, NEW ask, NEW write, NEW saved, NEW copy
    PROVE  LET t == Tick(step, ask, write, saved, copy)
           IN  /\ t.phase = tick.phase /\ t.step = step /\ t.ask = ask /\ t.write = write
               /\ t.saved = saved /\ t.copy = copy
  BY DEF Tick

\* A worker's step that leaves an account alone.
LEMMA WorkerElsewhere ==
    ASSUME Types, NEW id \in Ids, Settled(id), WorkerStep, WorkerKeeps(id),
           store'[id] = store[id], mem'[id] = mem[id]
    PROVE  Settled(id)'
<1>1. ~WorkerBegins(id)
  BY DEF WorkerKeeps, WorkerBegins, Recovering
<1>2. ~mixed'[id] => ~mixed[id]
  BY <1>1 DEF WorkerStep
<1> QED
  BY <1>2, StandStill, Frame DEF WorkerStep, RowDrifts, EntryDrifts

\* The first of the worker's two changes, to an account that nobody is changing.
LEMMA WorkerTakes ==
    ASSUME NEW id \in Ids, WorkerStep, ~Recovering(id), Recovering(id)', WorkerOK(id)'
    PROVE  Settled(id)'
<1>1. mixed'[id] = ~AtRest(id)
  BY DEF WorkerStep, WorkerBegins
<1> SUFFICES ASSUME AtRest(id) PROVE Settled(id)'
  BY <1>1 DEF Settled
<1>2. (\A q \in Requests : ~Saving(q, id)') /\ (\A a \in Admins : ~Publishing(a, id)')
  BY DEF WorkerStep, AtRest, Saving, Publishing
<1>3. OnlyWorker(id)'
  BY <1>2 DEF OnlyWorker
<1> QED
  BY <1>2, <1>3 DEF Settled, AtRest

\* The second one.
LEMMA WorkerLeaves ==
    ASSUME NEW id \in Ids, Settled(id), WorkerStep, Recovering(id), ~Recovering(id)',
           WorkerOK(id) /\ ~WorkerLost(id) => Fit(store'[id], mem'[id])
    PROVE  Settled(id)'
<1>1. mixed'[id] = (mixed[id] \/ WorkerLost(id))
  BY DEF WorkerStep, WorkerBegins
<1> SUFFICES ASSUME ~mixed'[id] PROVE Settled(id)'
  BY DEF Settled
<1>2. OnlyWorker(id) /\ WorkerOK(id) /\ ~WorkerLost(id)
  BY <1>1 DEF Settled
<1>3. (\A q \in Requests : ~Saving(q, id)') /\ (\A a \in Admins : ~Publishing(a, id)')
  BY <1>2 DEF WorkerStep, OnlyWorker, Saving, Publishing
<1>4. Fit(store'[id], mem'[id])
  BY <1>2
<1> QED
  BY <1>3, <1>4 DEF Settled, AtRest

\* The worker settles what it writes: promotion changes memory before the row, every
\* other phase the row before memory.
LEMMA WorkerSettles ==
    ASSUME Types, TickOK, \A id \in Ids : Settled(id), WorkerStep
    PROVE  TickOK' /\ \A id \in Ids : Settled(id)'
<1>0. /\ store \in [Ids -> Row] /\ mem \in [Ids -> Row]
      /\ tick.copy \in [Ids -> Row] /\ tick.saved \in SUBSET Ids /\ tick.write \in SUBSET Ids
      /\ tick.ask \in SUBSET Ids
  BY DEF Types, TypeOK, TickType
<1>1. /\ tick.phase = 1 => tick.saved = {} /\ tick.ask = {}
      /\ tick.step = "list" => tick.ask = {} /\ tick.write = {} /\ tick.saved = {}
      /\ tick.saved = {} \/ tick.step = "local" \/ tick.ask = {}
      /\ \A i \in tick.saved, j \in tick.saved : i = j
  BY DEF TickOK
<1>2. tick.phase = 1 <=> Phase = "promote"
  BY PhaseNames
<1>3. tick'.phase = tick.phase => Phase' = Phase
  BY DEF Phase
<1>4. \A id : Recovering(id) <=> (tick.phase = 1 /\ id \in tick.write) \/ id \in tick.saved
  BY <1>2 DEF Recovering, Promoting
<1>5. tick'.phase = tick.phase =>
         \A id : /\ Promoting(id)' <=> tick.phase = 1 /\ id \in tick'.write
                 /\ Recovering(id)' <=> (tick.phase = 1 /\ id \in tick'.write) \/ id \in tick'.saved
  BY <1>2, <1>3 DEF Recovering, Promoting
<1>6. CASE PromoteDue
  <2>0. tick.phase = 1 /\ tick.step = "list" /\ store' = store
    BY <1>2, <1>6 DEF PromoteDue
  <2>1. PICK due \in SUBSET Ids, copy \in [Ids -> Row] :
           /\ \A id \in Ids : mem'[id] = IF id \in due THEN MarkReady(mem[id]) ELSE mem[id]
           /\ \A id \in due : copy[id] = MarkReady(mem[id])
           /\ tick' = Tick("local", tick.ask, due, tick.saved, copy)
    BY <1>6, PromoteForm
  <2>2. /\ tick'.phase = tick.phase /\ tick'.step = "local" /\ tick'.ask = {}
        /\ tick'.write = due /\ tick'.saved = {} /\ tick'.copy = copy
    BY <1>1, <2>0, <2>1, TickFields
  <2>3. TickOK'
    BY <2>0, <2>2 DEF TickOK
  <2>4. ASSUME NEW id \in Ids PROVE Settled(id)'
    <3>1. ~Recovering(id) /\ tick.saved = {}
      BY <1>1, <1>4, <2>0
    <3>2. CASE id \in due
      <4>1. Recovering(id)'
        BY <1>5, <2>0, <2>2, <3>2
      <4>2. tick'.copy[id] = mem'[id]
        BY <2>1, <2>2, <3>2
      <4>3. WorkerOK(id)'
        BY <2>2, <4>2 DEF WorkerOK, Fit, Same
      <4> QED
        BY <3>1, <4>1, <4>3, WorkerTakes
    <3>3. CASE id \notin due
      <4>1. WorkerKeeps(id)
        BY <1>5, <2>0, <2>2, <3>1, <3>3 DEF WorkerKeeps, Recovering
      <4> QED
        BY <2>0, <2>1, <3>3, <4>1, WorkerElsewhere
    <3> QED
      BY <3>2, <3>3
  <2> QED
    BY <2>3, <2>4
<1>7. CASE List
  <2>0. tick.phase # 1 /\ tick.step = "list" /\ store' = store /\ mem' = mem
    BY <1>2, <1>7 DEF List, poolVars
  <2>1. PICK ask \in SUBSET Ids, write \in SUBSET Ids, copy \in [Ids -> Row] :
           tick' = Tick("local", ask, write, tick.saved, copy)
    BY <1>7, ListForm
  <2>2. tick'.phase = tick.phase /\ tick'.step = "local" /\ tick'.saved = {} /\ tick.saved = {}
    BY <1>1, <2>0, <2>1, TickFields
  <2>3. TickOK'
    BY <2>0, <2>2 DEF TickOK
  <2>4. ASSUME NEW id \in Ids PROVE Settled(id)'
    <3>1. WorkerKeeps(id)
      BY <1>4, <1>5, <2>0, <2>2 DEF WorkerKeeps, Recovering
    <3> QED
      BY <2>0, <3>1, WorkerElsewhere
  <2> QED
    BY <2>3, <2>4
<1>8. CASE EndPhase
  <2>0. tick.write = {} /\ tick.saved = {} /\ store' = store /\ mem' = mem
    BY <1>8 DEF EndPhase, poolVars
  <2>1. PICK n \in 1 .. 8 : tick' = Listing(n)
    BY <1>8, EndPhaseForm
  <2>2. /\ tick'.step = "list" /\ tick'.ask = {} /\ tick'.write = {} /\ tick'.saved = {}
    BY <2>1, ListingFields
  <2>3. TickOK'
    BY <2>2 DEF TickOK
  <2>4. ASSUME NEW id \in Ids PROVE Settled(id)'
    <3>1. WorkerKeeps(id)
      BY <2>0, <2>2 DEF WorkerKeeps, Recovering, Promoting
    <3> QED
      BY <2>0, <3>1, WorkerElsewhere
  <2> QED
    BY <2>3, <2>4
<1>9. ASSUME NEW i \in Ids, Ask(i) PROVE TickOK' /\ \A id \in Ids : Settled(id)'
  <2>1. /\ i \in tick.ask /\ store' = store /\ mem' = mem
        /\ tick.step = "ask" \/ (tick.write = {} /\ tick.saved = {})
        /\ \E a : tick' = Tick("ask", tick.ask \ {i}, tick.write \cup {i}, tick.saved,
                               [tick.copy EXCEPT ![i] = Capped(a.row)])
    BY <1>9, AskForm DEF Ask
  <2>2. tick.saved = {} /\ tick.phase # 1
    BY <1>1, <2>1
  <2>3. PICK copy : tick' = Tick("ask", tick.ask \ {i}, tick.write \cup {i}, tick.saved, copy)
    BY <2>1
  <2>4. tick'.phase = tick.phase /\ tick'.step = "ask" /\ tick'.saved = {}
    BY <2>2, <2>3, TickFields
  <2>5. TickOK'
    BY <2>2, <2>4 DEF TickOK
  <2>6. ASSUME NEW id \in Ids PROVE Settled(id)'
    <3>1. WorkerKeeps(id)
      BY <1>4, <1>5, <2>2, <2>4 DEF WorkerKeeps, Recovering
    <3> QED
      BY <2>1, <3>1, WorkerElsewhere
  <2> QED
    BY <2>5, <2>6
<1>10. ASSUME NEW i \in Ids, SaveCopy(i) PROVE TickOK' /\ \A id \in Ids : Settled(id)'
  <2>1. /\ i \in tick.write /\ tick.saved = {} /\ mem' = mem
        /\ tick.step = "local" \/ tick.ask = {}
        /\ \/ /\ store' = [store EXCEPT ![i] = tick.copy[i]]
              /\ \E saved \in SUBSET Ids :
                   /\ saved = IF Phase = "promote" THEN {} ELSE {i}
                   /\ tick' = Tick(tick.step, tick.ask, tick.write \ {i}, saved, tick.copy)
           \/ /\ store' = store
              /\ tick' = Tick(tick.step, tick.ask, tick.write \ {i}, tick.saved, tick.copy)
    BY <1>10, SaveCopyForm DEF SaveCopy
  <2>2. /\ tick'.phase = tick.phase /\ tick'.step = tick.step /\ tick'.ask = tick.ask
        /\ tick'.write = tick.write \ {i} /\ tick'.copy = tick.copy
        /\ \/ store' = [store EXCEPT ![i] = tick.copy[i]]
              /\ tick'.saved = IF Phase = "promote" THEN {} ELSE {i}
           \/ store' = store /\ tick'.saved = {}
    <3>1. PICK saved \in SUBSET Ids :
             /\ tick' = Tick(tick.step, tick.ask, tick.write \ {i}, saved, tick.copy)
             /\ \/ store' = [store EXCEPT ![i] = tick.copy[i]]
                   /\ saved = IF Phase = "promote" THEN {} ELSE {i}
                \/ store' = store /\ saved = {}
      BY <1>0, <2>1
    <3>2. /\ tick'.phase = tick.phase /\ tick'.step = tick.step /\ tick'.ask = tick.ask
          /\ tick'.write = tick.write \ {i} /\ tick'.saved = saved /\ tick'.copy = tick.copy
      BY <3>1, TickFields
    <3> QED
      BY <3>1, <3>2
  <2>3. tick.step # "list"
    BY <1>1, <2>1
  <2>4. TickOK'
    BY <1>1, <1>2, <2>1, <2>2, <2>3 DEF TickOK
  <2>5. ASSUME NEW id \in Ids, id # i PROVE Settled(id)'
    <3>1. WorkerKeeps(id)
      BY <1>2, <1>5, <2>1, <2>2, <2>5 DEF WorkerKeeps, Recovering, Promoting
    <3>2. store'[id] = store[id]
      BY <1>0, <2>2, <2>5
    <3> QED
      BY <2>1, <3>1, <3>2, WorkerElsewhere
  <2>6. Settled(i)'
    <3>1. CASE tick.phase = 1
      <4>1. Recovering(i) /\ Promoting(i) /\ ~Promoting(i)' /\ ~Recovering(i)'
        BY <1>2, <1>4, <1>5, <2>1, <2>2, <3>1 DEF Promoting
      <4>2. ASSUME WorkerOK(i), ~WorkerLost(i) PROVE Fit(store'[i], mem'[i])
        <5>1. store'[i] = tick.copy[i]
          BY <4>1, <4>2 DEF WorkerLost
        <5> QED
          BY <2>1, <4>1, <4>2, <5>1 DEF WorkerOK
      <4> QED
        BY <4>1, <4>2, WorkerLeaves
    <3>2. CASE tick.phase # 1 /\ store' = store /\ tick'.saved = {}
      <4>1. WorkerKeeps(i)
        BY <1>4, <1>5, <2>1, <2>2, <3>2 DEF WorkerKeeps, Recovering
      <4> QED
        BY <2>1, <3>2, <4>1, WorkerElsewhere
    <3>3. CASE /\ tick.phase # 1 /\ store' = [store EXCEPT ![i] = tick.copy[i]]
               /\ tick'.saved = {i}
      <4>1. ~Recovering(i) /\ Recovering(i)' /\ ~Promoting(i)'
        BY <1>4, <1>5, <2>1, <2>2, <3>3
      <4>2. store'[i] = tick'.copy[i]
        BY <1>0, <2>2, <3>3
      <4>3. WorkerOK(i)'
        BY <4>1, <4>2 DEF WorkerOK, Same
      <4> QED
        BY <4>1, <4>3, WorkerTakes
    <3> QED
      BY <1>2, <2>2, <3>1, <3>2, <3>3
  <2> QED
    BY <2>4, <2>5, <2>6
<1>11. ASSUME NEW i \in Ids, Publish(i) PROVE TickOK' /\ \A id \in Ids : Settled(id)'
  <2>1. /\ tick'.phase = tick.phase /\ tick'.step = tick.step /\ tick'.ask = tick.ask
        /\ tick'.copy = tick.copy /\ tick'.write = tick.write /\ tick'.saved = {}
        /\ i \in tick.saved /\ mem' = [mem EXCEPT ![i] = tick.copy[i]] /\ store' = store
    BY <1>11, PublishForm, TickFields DEF Publish
  <2>2. tick.phase # 1
    BY <1>1, <2>1
  <2>3. TickOK'
    BY <1>1, <2>1, <2>2 DEF TickOK
  <2>4. ASSUME NEW id \in Ids, id # i PROVE Settled(id)'
    <3>1. id \notin tick.saved
      BY <1>1, <2>1, <2>4
    <3>2. WorkerKeeps(id) /\ mem'[id] = mem[id]
      BY <1>0, <1>4, <1>5, <2>1, <2>2, <2>4, <3>1 DEF WorkerKeeps, Recovering
    <3> QED
      BY <2>1, <3>2, WorkerElsewhere
  <2>5. Settled(i)'
    <3>1. Recovering(i) /\ ~Recovering(i)'
      BY <1>4, <1>5, <2>1, <2>2
    <3>2. mem'[i] = tick.copy[i]
      BY <1>0, <2>1
    <3>3. WorkerOK(i) => Fit(store'[i], mem'[i])
      BY <2>1, <3>2 DEF WorkerOK, Fit
    <3> QED
      BY <3>1, <3>3, WorkerLeaves
  <2> QED
    BY <2>3, <2>4, <2>5
<1> QED
  BY <1>6, <1>7, <1>8, <1>9, <1>10, <1>11 DEF WorkerStep, RecoveryNext

-----------------------------------------------------------------------------
(* Administrators.                                                         *)

OnlyWorks(a) == \A b \in Admins : b # a => job'[b] = job[b]

\* An account that this handler is not publishing, before or after its step.
LEMMA AdminElsewhere ==
    ASSUME Types, NEW a \in Admins, NEW id \in Ids, Settled(id), AdminStep(a), OnlyWorks(a),
           ~Publishing(a, id), ~Publishing(a, id)',
           store'[id] = store[id], mem'[id] = mem[id]
    PROVE  Settled(id)'
<1>1. \A b \in Admins : b # a => (Publishing(b, id)' <=> Publishing(b, id))
  BY DEF OnlyWorks, Publishing
<1>2. AdminsKeep(id) /\ ~AdminBegins(id)
  BY <1>1 DEF AdminsKeep, AdminBegins, OnlyWorks
<1>3. mixed'[id] = mixed[id]
  BY <1>2 DEF AdminStep
<1> QED
  BY <1>2, <1>3, StandStill, Frame DEF AdminStep, RowDrifts, EntryDrifts

\* The row is saved or deleted, and nobody else is changing the account.
LEMMA AdminTakes ==
    ASSUME NEW a \in Admins, NEW id \in Ids, AdminStep(a), OnlyWorks(a),
           ~Publishing(a, id), Publishing(a, id)', AdminOK(a, id)'
    PROVE  Settled(id)'
<1>1. mixed'[id] = ~AtRest(id)
  BY DEF AdminStep, AdminBegins
<1> SUFFICES ASSUME AtRest(id) PROVE Settled(id)'
  BY <1>1 DEF Settled
<1>2. /\ \A q \in Requests : ~Saving(q, id)'
      /\ ~Recovering(id)'
      /\ \A b \in Admins : Publishing(b, id)' => b = a
  BY DEF AdminStep, AtRest, Saving, Recovering, Promoting, Phase, Publishing, OnlyWorks
<1>3. OnlyAdmin(a, id)'
  BY <1>2 DEF OnlyAdmin
<1> QED
  BY <1>2, <1>3 DEF Settled, AtRest

\* The sink is told.
LEMMA AdminLeaves ==
    ASSUME NEW a \in Admins, NEW id \in Ids, Settled(id), AdminStep(a), OnlyWorks(a),
           Publishing(a, id), ~Publishing(a, id)',
           AdminOK(a, id) => Fit(store'[id], mem'[id])
    PROVE  Settled(id)'
<1>1. ~AdminBegins(id)
  BY DEF AdminBegins, OnlyWorks, Publishing
<1> SUFFICES ASSUME ~mixed[id] PROVE Settled(id)'
  BY <1>1 DEF AdminStep, Settled
<1>2. OnlyAdmin(a, id) /\ AdminOK(a, id)
  BY DEF Settled
<1>3. /\ \A q \in Requests : ~Saving(q, id)'
      /\ ~Recovering(id)'
      /\ \A b \in Admins : ~Publishing(b, id)'
  BY <1>2 DEF AdminStep, OnlyAdmin, Saving, Recovering, Promoting, Phase, Publishing, OnlyWorks
<1> QED
  BY <1>2, <1>3 DEF Settled, AtRest

\* A handler settles the account it works on: the row before memory.
LEMMA AdminSettles ==
    ASSUME Types, \A id \in Ids : Settled(id), NEW a \in Admins, AdminStep(a)
    PROVE  \A id \in Ids : Settled(id)'
<1> SUFFICES ASSUME NEW id \in Ids PROVE Settled(id)'
  OBVIOUS
<1>0. /\ store \in [Ids -> Row] /\ mem \in [Ids -> Row] /\ job \in [Admins -> JobType]
      /\ Settled(id) /\ AdministrationStep(a) /\ job[a].id \in Ids
  BY DEF Types, TypeOK, JobType, AdminStep
<1>7. ~Present(NoRow)
  BY DEF Present, NoRow, NewRow
<1>1. \A q : job' = [job EXCEPT ![a] = q] => OnlyWorks(a) /\ job'[a] = q
  BY <1>0 DEF OnlyWorks
<1>2. Respond(a) => OnlyWorks(a) /\ ~Publishing(a, id)'
  BY <1>0, IdleTypes DEF Respond, OnlyWorks, Publishing
<1>3. ASSUME OnlyWorks(a), ~Publishing(a, id), ~Publishing(a, id)',
             store'[id] = store[id], mem'[id] = mem[id]
      PROVE  Settled(id)'
  BY <1>0, <1>3, AdminElsewhere
<1>4. CASE \E op \in Operations, i \in Ids : Read(a, op, i)
  <2>1. PICK op \in Operations, i \in Ids : Read(a, op, i)
    BY <1>4
  <2>2. PICK q \in JobType : q.pc = "work" /\ job' = [job EXCEPT ![a] = q]
    BY <2>1, ReadForm
  <2>3. OnlyWorks(a) /\ ~Publishing(a, id)'
    BY <1>1, <2>2 DEF Publishing
  <2>4. ~Publishing(a, id) /\ store' = store /\ mem' = mem
    BY <2>1 DEF Read, Working, Publishing, poolVars
  <2> QED
    BY <1>3, <2>3, <2>4
<1>5. CASE WorkStep(a)
  <2>1. Working(a, "work") /\ store' = store /\ mem' = mem
    BY <1>5, WorkForm
  <2>2. ~Publishing(a, id)
    BY <2>1 DEF Working, Publishing
  <2>3. Respond(a) \/ \E row \in Row : Decides(a, row)
    BY <1>5, WorkForm
  <2>4. ASSUME NEW row \in Row, Decides(a, row) PROVE OnlyWorks(a) /\ ~Publishing(a, id)'
    <3>1. PICK q \in JobType : q.pc = "save" /\ job' = [job EXCEPT ![a] = q]
      BY <2>4, JobWrites DEF Decides
    <3> QED
      BY <1>1, <3>1 DEF Publishing
  <2> QED
    BY <1>2, <1>3, <2>1, <2>2, <2>3, <2>4
<1>6. CASE SaveJob(a) \/ PublishJob(a) \/ DeleteRow(a) \/ DropEntry(a)
  <2>1. CASE /\ Respond(a) /\ UNCHANGED <<store, mem>>
             /\ ~Working(a, "publish") /\ ~Working(a, "drop")
    BY <1>2, <1>3, <2>1 DEF Working, Publishing
  <2>2. ASSUME NEW pc \in {"publish", "drop"},
               job' = [job EXCEPT ![a] = [job[a] EXCEPT !.pc = pc]],
               job[a].pc \in {"save", "work"}, mem' = mem,
               NEW row, row = IF pc = "drop" THEN NoRow ELSE job[a].copy,
               store' = [store EXCEPT ![job[a].id] = row]
        PROVE  Settled(id)'
    <3>1. PICK q : q = [job[a] EXCEPT !.pc = pc]
      OBVIOUS
    <3>2. q.pc = pc /\ q.id = job[a].id /\ q.copy = job[a].copy
      BY <1>0, <3>1 DEF JobType
    <3>3. /\ OnlyWorks(a) /\ ~Publishing(a, id) /\ job'[a].pc = pc /\ job'[a].id = job[a].id
          /\ job'[a].copy = job[a].copy
      BY <1>1, <2>2, <3>1, <3>2 DEF Publishing
    <3>4. CASE id # job[a].id
      BY <1>0, <1>3, <2>2, <3>3, <3>4 DEF Publishing
    <3>5. CASE id = job[a].id
      <4>1. store'[id] = row /\ Publishing(a, id)'
        BY <1>0, <2>2, <3>3, <3>5 DEF Publishing
      <4>2. AdminOK(a, id)'
        <5>1. CASE pc = "publish"
          BY <2>2, <3>3, <4>1, <5>1 DEF AdminOK, Same
        <5>2. CASE pc = "drop"
          BY <1>7, <2>2, <3>3, <4>1, <5>2 DEF AdminOK
        <5> QED
          BY <5>1, <5>2
      <4> QED
        BY <3>3, <4>1, <4>2, AdminTakes
    <3> QED
      BY <3>4, <3>5
  <2>3. ASSUME NEW pc \in {"publish", "drop"}, Working(a, pc), Respond(a), store' = store,
               NEW row, row = IF pc = "drop" THEN NoRow ELSE job[a].copy,
               mem' = [mem EXCEPT ![job[a].id] = row]
        PROVE  Settled(id)'
    <3>1. OnlyWorks(a) /\ ~Publishing(a, id)'
      BY <1>2, <2>3
    <3>2. CASE id # job[a].id
      BY <1>0, <1>3, <2>3, <3>1, <3>2 DEF Publishing
    <3>3. CASE id = job[a].id
      <4>1. mem'[id] = row /\ Publishing(a, id)
        BY <1>0, <2>3, <3>3 DEF Publishing, Working
      <4>2. ASSUME AdminOK(a, id) PROVE Fit(store'[id], mem'[id])
        <5>1. CASE pc = "publish"
          BY <2>3, <4>1, <4>2, <5>1 DEF AdminOK, Fit, Working
        <5>2. CASE pc = "drop"
          BY <1>7, <2>3, <4>1, <4>2, <5>2 DEF AdminOK, Fit, Working
        <5> QED
          BY <5>1, <5>2
      <4> QED
        BY <1>0, <3>1, <4>1, <4>2, AdminLeaves
    <3> QED
      BY <3>2, <3>3
  <2>4. CASE /\ Working(a, "save") /\ store' = [store EXCEPT ![job[a].id] = job[a].copy]
             /\ mem' = mem /\ job' = [job EXCEPT ![a] = [job[a] EXCEPT !.pc = "publish"]]
    BY <2>2, <2>4 DEF Working
  <2>5. CASE /\ Working(a, "work") /\ store' = [store EXCEPT ![job[a].id] = NoRow]
             /\ mem' = mem /\ job' = [job EXCEPT ![a] = [job[a] EXCEPT !.pc = "drop"]]
    BY <2>2, <2>5 DEF Working
  <2>6. CASE /\ Working(a, "publish") /\ mem' = [mem EXCEPT ![job[a].id] = job[a].copy]
             /\ store' = store /\ Respond(a)
    BY <2>3, <2>6
  <2>7. CASE /\ Working(a, "drop") /\ mem' = [mem EXCEPT ![job[a].id] = NoRow]
             /\ store' = store /\ Respond(a)
    BY <2>3, <2>7
  <2> QED
    BY <1>6, <2>1, <2>4, <2>5, <2>6, <2>7, WriteForm
<1> QED
  BY <1>0, <1>4, <1>5, <1>6 DEF AdministrationStep, JobStep, WorkStep

-----------------------------------------------------------------------------
(* Deadlines, restarts, and the theorem.                                   *)

\* Time takes an account from nobody.
LEMMA ClockSettles ==
    ASSUME Types, \A id \in Ids : Settled(id), Clock
    PROVE  \A id \in Ids : Settled(id)'
<1>1. /\ call' = call /\ tick' = tick /\ job' = job /\ mixed' = mixed
      /\ store \in [Ids -> Row] /\ mem \in [Ids -> Row] /\ TypeOK
  BY DEF Clock, Outside, history, Types, TypeOK
<1>2. PICK i \in Ids : StoreDeadline(i) \/ MemDeadline(i) \/ Revoke(i)
  BY DEF Clock
<1>3. ASSUME NEW id \in Ids PROVE Settled(id)'
  <2>1. RowDrifts(store[id], store'[id]) /\ RowDrifts(mem[id], mem'[id])
    BY <1>1, <1>2, ClockForm DEF RowDrifts
  <2> QED
    BY <1>1, <2>1, StandStill, Frame DEF EntryDrifts
<1> QED
  BY <1>3

\* With nobody at work and the scheduler loaded from the table everything is settled.
LEMMA StartSettles ==
    ASSUME mem = store, tick = Listing(1), \A r \in Requests : call[r] = IdleCall,
           \A a \in Admins : job[a] = IdleJob
    PROVE  TickOK /\ \A id \in Ids : Settled(id)
<1>1. tick.ask = {} /\ tick.write = {} /\ tick.saved = {}
  BY ListingFields
<1>2. TickOK
  BY <1>1 DEF TickOK
<1>3. ASSUME NEW id \in Ids PROVE Settled(id)
  <2>1. /\ \A r \in Requests : ~Saving(r, id)
        /\ \A a \in Admins : ~Publishing(a, id)
        /\ ~Recovering(id)
    BY <1>1, IdleTypes DEF Saving, Publishing, Recovering, Promoting
  <2>2. Fit(store[id], mem[id])
    BY DEF Fit, Same
  <2> QED
    BY <2>1, <2>2 DEF Settled
<1> QED
  BY <1>2, <1>3

\* A restart is such a start.
LEMMA RestartSettles ==
    ASSUME Restart PROVE TickOK' /\ \A id \in Ids : Settled(id)'
<1>1. /\ mem' = store' /\ tick' = Listing(1)
      /\ \A r \in Requests : call'[r] = IdleCall
      /\ \A a \in Admins : job'[a] = IdleJob
  BY DEF Restart
<1>2. tick'.ask = {} /\ tick'.write = {} /\ tick'.saved = {}
  BY <1>1, ListingFields
<1>3. TickOK'
  BY <1>2 DEF TickOK
<1>4. ASSUME NEW id \in Ids PROVE Settled(id)'
  <2>1. /\ \A r \in Requests : ~Saving(r, id)'
        /\ \A a \in Admins : ~Publishing(a, id)'
        /\ ~Recovering(id)'
    BY <1>1, <1>2, IdleTypes DEF Saving, Publishing, Recovering, Promoting
  <2>2. Fit(store'[id], mem'[id])
    BY <1>1 DEF Fit, Same
  <2> QED
    BY <2>1, <2>2 DEF Settled
<1> QED
  BY <1>3, <1>4

\* Requests (Gateway.Request, persistSuccessUsage), the recovery worker and the
\* account handlers, any number of them overlapping, with saves that may fail and
\* restarts at any point: wherever nobody is between its two changes and the last
\* write had the account to itself, table and scheduler agree on it, so that what
\* the scheduler has parked the worker finds in the table, and what the table has
\* lost the scheduler does not serve.
THEOREM Reconciles == Spec => []Reconciled
<1>1. Init => SettledInv
  <2> SUFFICES ASSUME Init PROVE SettledInv
    OBVIOUS
  <2>1. /\ mem = store /\ tick = Listing(1)
        /\ \A r \in Requests : call[r] = IdleCall
        /\ \A a \in Admins : job[a] = IdleJob
    BY DEF Init, PoolInit, TrafficInit, RecoveryInit, AdministrationInit
  <2> QED
    BY <2>1, TypesInit, StartSettles DEF SettledInv
<1>2. SettledInv /\ [Next]_vars => SettledInv'
  <2> SUFFICES ASSUME SettledInv, [Next]_vars PROVE SettledInv'
    OBVIOUS
  <2>0. Types /\ TickOK /\ \A id \in Ids : Settled(id)
    BY DEF SettledInv
  <2>1. Types'
    BY <2>0, TypesStep
  <2> SUFFICES TickOK' /\ \A id \in Ids : Settled(id)'
    BY <2>1 DEF SettledInv
  <2>2. tick' = tick => TickOK'
    BY <2>0 DEF TickOK
  <2>3. CASE TrafficStep
    BY <2>0, <2>2, <2>3, TrafficSettles DEF TrafficStep, TrafficHistory
  <2>4. CASE WorkerStep
    BY <2>0, <2>4, WorkerSettles
  <2>5. ASSUME NEW a \in Admins, AdminStep(a) PROVE TickOK' /\ \A id \in Ids : Settled(id)'
    BY <2>0, <2>2, <2>5, AdminSettles DEF AdminStep
  <2>6. CASE Clock
    BY <2>0, <2>2, <2>6, ClockSettles DEF Clock, Outside
  <2>7. CASE Restart
    BY <2>7, RestartSettles
  <2>8. CASE UNCHANGED vars
    <3>1. /\ call' = call /\ tick' = tick /\ job' = job /\ mixed' = mixed
          /\ store' = store /\ mem' = mem
      BY <2>8 DEF vars
    <3> QED
      BY <2>0, <2>2, <3>1, StandStill, Frame DEF RowDrifts, EntryDrifts
  <2> QED
    BY <2>3, <2>4, <2>5, <2>6, <2>7, <2>8 DEF Next
<1>3. SettledInv => Reconciled
  BY DEF SettledInv, Types, Settled, Reconciled
<1> QED
  BY <1>1, <1>2, <1>3, PTL DEF Spec

-----------------------------------------------------------------------------
(* An administrator's disable.                                             *)

\* A request's step touches the account it has leased and no other.
LEMMA RequestForm ==
    ASSUME Types, NEW r \in Requests, RequestStep(r)
    PROVE  /\ call[r].pc # "idle" /\ OnlyMoves(r)
           /\ call'[r].pc = "idle" \/ call'[r].id = call[r].id
           /\ \A i \in Ids : i # call[r].id => store'[i] = store[i] /\ mem'[i] = mem[i]
<1>0. /\ store \in [Ids -> Row] /\ mem \in [Ids -> Row] /\ call \in [Requests -> CallType]
      /\ call[r].id \in Ids
  BY DEF Types, TypeOK, CallType
<1>1. Finish(r) => OnlyMoves(r) /\ call'[r].pc = "idle"
  BY <1>0, IdleTypes DEF Finish, OnlyMoves
<1>2. \A q : call' = [call EXCEPT ![r] = q] => OnlyMoves(r) /\ call'[r] = q
  BY <1>0 DEF OnlyMoves
<1>3. ASSUME NEW pc, NEW copy, NEW b,
             call' = [call EXCEPT ![r].pc = pc, ![r].copy = copy, ![r].quota = b]
      PROVE  OnlyMoves(r) /\ call'[r].id = call[r].id
  <2>1. PICK q : q = [call[r] EXCEPT !.pc = pc, !.copy = copy, !.quota = b]
    OBVIOUS
  <2>2. call' = [call EXCEPT ![r] = q]
    BY <1>0, <1>3, <2>1
  <2>3. q.id = call[r].id
    BY <1>0, <2>1 DEF CallType
  <2> QED
    BY <1>2, <2>2, <2>3
<1>4. ASSUME NEW pc, NEW b, call' = [call EXCEPT ![r].pc = pc, ![r].quota = b]
      PROVE  OnlyMoves(r) /\ call'[r].id = call[r].id
  <2>1. call' = [call EXCEPT ![r].pc = pc, ![r].copy = call[r].copy, ![r].quota = b]
    BY <1>0, <1>4 DEF CallType
  <2> QED
    BY <1>3, <2>1
<1>5. ASSUME NEW pc, call' = [call EXCEPT ![r].pc = pc]
      PROVE  OnlyMoves(r) /\ call'[r].id = call[r].id
  <2>1. call' = [call EXCEPT ![r].pc = pc, ![r].quota = call[r].quota]
    BY <1>0, <1>5 DEF CallType
  <2> QED
    BY <1>4, <2>1
<1>6. CASE Success(r)
  BY <1>1, <1>4, <1>6 DEF Success, At, poolVars
<1>7. CASE Record(r)
  BY <1>0, <1>4, <1>7 DEF Record, At, Upsert
<1>8. CASE Move(r)
  BY <1>0, <1>5, <1>8, MoveForm DEF Move, At, Reasons
<1>9. ASSUME NEW reason \in Failures, Fail(r, reason)
      PROVE  /\ call[r].pc # "idle" /\ OnlyMoves(r) /\ call'[r].id = call[r].id
             /\ \A i \in Ids : i # call[r].id => store'[i] = store[i] /\ mem'[i] = mem[i]
  <2>1. reason \in Reasons
    BY PoolAssumption DEF Reasons
  <2>2. \A i \in Ids : i # call[r].id => store'[i] = store[i] /\ mem'[i] = mem[i]
    BY <1>0, <1>9, <2>1, MoveForm DEF Fail
  <2> QED
    BY <1>4, <1>9, <2>2 DEF Fail, At
<1>10. CASE Copy(r)
  <2>1. PICK copy : call' = [call EXCEPT ![r].pc = "save", ![r].copy = copy]
    BY <1>10 DEF Copy
  <2>2. call' = [call EXCEPT ![r].pc = "save", ![r].copy = copy, ![r].quota = call[r].quota]
    BY <1>0, <2>1 DEF CallType
  <2> QED
    BY <1>3, <1>10, <2>2 DEF Copy, At, poolVars
<1>11. CASE Save(r)
  BY <1>0, <1>1, <1>11 DEF Save, SaveAccount, At
<1>12. CASE Abandon(r)
  BY <1>1, <1>12 DEF Abandon, At, poolVars
<1> QED
  BY <1>6, <1>7, <1>8, <1>9, <1>10, <1>11, <1>12 DEF RequestStep

\* No request leases a disabled account, and none that leased it before is left.
LEMMA TrafficDisturbs ==
    ASSUME Types, TrafficStep, NEW id \in Ids, Undisturbed(id)
    PROVE  Undisturbed(id)'
<1>0. /\ tick' = tick /\ job' = job /\ mem \in [Ids -> Row] /\ call \in [Requests -> CallType]
      /\ \A q \in Requests : call[q].id = id => call[q].pc = "idle"
      /\ mem[id].pool = "unavailable"
  BY DEF TrafficStep, TrafficHistory, Types, TypeOK, Undisturbed, AdminDisabled
<1> SUFFICES /\ store'[id] = store[id] /\ mem'[id] = mem[id]
             /\ \A q \in Requests : call'[q].id = id => call'[q].pc = "idle"
  BY <1>0 DEF Undisturbed, Publishing
<1>1. ASSUME NEW r \in Requests, RequestStep(r)
      PROVE  /\ store'[id] = store[id] /\ mem'[id] = mem[id]
             /\ \A q \in Requests : call'[q].id = id => call'[q].pc = "idle"
  BY <1>0, <1>1, RequestForm DEF OnlyMoves
<1>2. ASSUME NEW r \in Requests, NEW i \in Ids, Lease(r, i)
      PROVE  /\ store' = store /\ mem' = mem
             /\ \A q \in Requests : call'[q].id = id => call'[q].pc = "idle"
  <2>1. mem[i].pool = "ready" /\ store' = store /\ mem' = mem
    BY <1>2 DEF Lease, Available, poolVars
  <2>2. PICK c : c = [call[r] EXCEPT !.pc = "upstream", !.id = i]
    OBVIOUS
  <2>3. call' = [call EXCEPT ![r] = c] /\ c.id = i
    BY <1>0, <1>2, <2>2 DEF Lease, CallType
  <2> QED
    BY <1>0, <2>1, <2>3
<1>3. ASSUME NEW i \in Ids, ParkExhausted(i)
      PROVE  store' = store /\ mem'[id] = mem[id] /\ call' = call
  BY <1>0, <1>3 DEF ParkExhausted, KnownExhausted, Upsert
<1> QED
  BY <1>0, <1>1, <1>2, <1>3 DEF TrafficStep, TrafficNext

\* No phase of the worker takes a disabled account.
LEMMA WorkerDisturbs ==
    ASSUME Types, WorkerStep, NEW id \in Ids, Undisturbed(id)
    PROVE  Undisturbed(id)'
<1>0. /\ call' = call /\ job' = job /\ store \in [Ids -> Row] /\ mem \in [Ids -> Row]
      /\ AdminDisabled(store[id]) /\ AdminDisabled(mem[id])
      /\ id \notin tick.ask /\ id \notin tick.write /\ id \notin tick.saved
  BY DEF WorkerStep, Types, TypeOK, Undisturbed
<1>1. ~CooldownDue(mem[id]) /\ ~MayAsk(store[id]) /\ ~LocalCandidate(store[id])
  <2>1. /\ mem[id].reason = "disabled" /\ store[id].reason = "disabled"
        /\ store[id].pool = "unavailable" /\ store[id].code = "admin-disabled"
    BY <1>0 DEF AdminDisabled
  <2>2. ~CooldownDue(mem[id])
    BY <2>1 DEF CooldownDue
  <2>3. /\ ~ValidatingDue(store[id]) /\ ~Refreshable(store[id]) /\ ~AuthQueue(store[id])
        /\ ~QuotaDue(store[id]) /\ ~KnownExhausted(store[id]) /\ ~Revoked(store[id])
    BY <2>1 DEF ValidatingDue, Refreshable, AuthQueue, QuotaDue, KnownExhausted, Revoked, Parked
  <2> QED
    BY <2>2, <2>3, PhaseNames DEF MayAsk, CredentialDue, LocalCandidate
<1> SUFFICES /\ store'[id] = store[id] /\ mem'[id] = mem[id]
             /\ id \notin tick'.ask /\ id \notin tick'.write /\ id \notin tick'.saved
  BY <1>0 DEF Undisturbed, Publishing
<1>2. CASE PromoteDue
  <2>1. PICK due \in SUBSET Ids, copy \in [Ids -> Row] :
           /\ id \in due <=> CooldownDue(mem[id])
           /\ mem'[id] = IF id \in due THEN MarkReady(mem[id]) ELSE mem[id]
           /\ tick' = Tick("local", tick.ask, due, tick.saved, copy)
    BY <1>2, PromoteForm
  <2>2. tick'.ask = tick.ask /\ tick'.write = due /\ tick'.saved = tick.saved
    BY <2>1, TickFields
  <2> QED
    BY <1>0, <1>1, <1>2, <2>1, <2>2 DEF PromoteDue
<1>3. CASE List
  <2>1. PICK ask \in SUBSET Ids, write \in SUBSET Ids, copy \in [Ids -> Row] :
           /\ id \in ask => MayAsk(store[id])
           /\ id \in write => LocalCandidate(store[id])
           /\ tick' = Tick("local", ask, write, tick.saved, copy)
    BY <1>3, ListForm
  <2>2. tick'.ask = ask /\ tick'.write = write /\ tick'.saved = tick.saved
    BY <2>1, TickFields
  <2> QED
    BY <1>0, <1>1, <1>3, <2>1, <2>2 DEF List, poolVars
<1>4. CASE EndPhase
  <2>1. PICK n \in 1 .. 8 : tick' = Listing(n)
    BY <1>4, EndPhaseForm
  <2> QED
    BY <1>4, <2>1, ListingFields DEF EndPhase, poolVars
<1>5. ASSUME NEW i \in Ids, Ask(i)
      PROVE  /\ store' = store /\ mem' = mem
             /\ id \notin tick'.ask /\ id \notin tick'.write /\ id \notin tick'.saved
  <2>1. /\ i \in tick.ask
        /\ \E a : tick' = Tick("ask", tick.ask \ {i}, tick.write \cup {i}, tick.saved,
                               [tick.copy EXCEPT ![i] = Capped(a.row)])
    BY <1>5, AskForm
  <2>2. PICK copy : tick' = Tick("ask", tick.ask \ {i}, tick.write \cup {i}, tick.saved, copy)
    BY <2>1
  <2>3. /\ tick'.ask = tick.ask \ {i} /\ tick'.write = tick.write \cup {i}
        /\ tick'.saved = tick.saved
    BY <2>2, TickFields
  <2> QED
    BY <1>0, <1>5, <2>1, <2>3 DEF Ask
<1>6. ASSUME NEW i \in Ids, SaveCopy(i)
      PROVE  /\ store'[id] = store[id] /\ mem' = mem
             /\ id \notin tick'.ask /\ id \notin tick'.write /\ id \notin tick'.saved
  <2>1. /\ i \in tick.write
        /\ store' = store \/ store' = [store EXCEPT ![i] = tick.copy[i]]
        /\ \E saved \in SUBSET Ids :
              /\ saved \subseteq {i} \cup tick.saved
              /\ tick' = Tick(tick.step, tick.ask, tick.write \ {i}, saved, tick.copy)
    <3>1. tick.saved \in SUBSET Ids
      BY DEF Types, TickType
    <3> QED
      BY <1>6, <3>1, SaveCopyForm
  <2>2. PICK saved \in SUBSET Ids :
           /\ saved \subseteq {i} \cup tick.saved
           /\ tick' = Tick(tick.step, tick.ask, tick.write \ {i}, saved, tick.copy)
    BY <2>1
  <2>3. tick'.ask = tick.ask /\ tick'.write = tick.write \ {i} /\ tick'.saved = saved
    BY <2>2, TickFields
  <2> QED
    BY <1>0, <1>6, <2>1, <2>2, <2>3 DEF SaveCopy
<1>7. ASSUME NEW i \in Ids, Publish(i)
      PROVE  /\ store' = store /\ mem'[id] = mem[id]
             /\ id \notin tick'.ask /\ id \notin tick'.write /\ id \notin tick'.saved
  <2>1. /\ i \in tick.saved /\ mem' = [mem EXCEPT ![i] = tick.copy[i]]
        /\ tick'.ask = tick.ask /\ tick'.write = tick.write /\ tick'.saved = {}
    BY <1>7, PublishForm, TickFields
  <2> QED
    BY <1>0, <1>7, <2>1 DEF Publish
<1> QED
  BY <1>2, <1>3, <1>4, <1>5, <1>6, <1>7 DEF WorkerStep, RecoveryNext

\* What a handler's step does to the other handlers, and to the accounts it is not
\* publishing before or after.
LEMMA AdminForm ==
    ASSUME Types, NEW a \in Admins, AdministrationStep(a)
    PROVE  /\ OnlyWorks(a)
           /\ \A id \in Ids : ~Publishing(a, id) /\ ~Publishing(a, id)'
                                => store'[id] = store[id] /\ mem'[id] = mem[id]
           /\ \A id \in Ids : Publishing(a, id)' => job[a].id = id
           /\ Working(a, "publish") => /\ mem' = [mem EXCEPT ![job[a].id] = job[a].copy]
                                       /\ store' = store /\ job'[a].pc = "idle"
           /\ job'[a].op = "disable" /\ job'[a].pc \in {"save", "publish"}
              => \/ AdminDisabled(job'[a].copy)
                 \/ /\ job[a].op = "disable" /\ job[a].pc = "save"
                    /\ job'[a].copy = job[a].copy
<1>0. /\ store \in [Ids -> Row] /\ mem \in [Ids -> Row] /\ job \in [Admins -> JobType]
      /\ job[a].id \in Ids
  BY DEF Types, TypeOK, JobType
<1>1. \A q : job' = [job EXCEPT ![a] = q] => OnlyWorks(a) /\ job'[a] = q
  BY <1>0 DEF OnlyWorks
<1>2. Respond(a) => OnlyWorks(a) /\ job'[a].pc = "idle"
  BY <1>0, IdleTypes DEF Respond, OnlyWorks
<1>4. CASE \E op \in Operations, i \in Ids : Read(a, op, i)
  <2>1. PICK op \in Operations, i \in Ids : Read(a, op, i)
    BY <1>4
  <2>2. PICK q \in JobType : q.pc = "work" /\ job' = [job EXCEPT ![a] = q]
    BY <2>1, ReadForm
  <2>3. store' = store /\ mem' = mem /\ ~Working(a, "publish")
    BY <2>1 DEF Read, Working, poolVars
  <2> QED
    BY <1>1, <2>2, <2>3 DEF Publishing
<1>5. CASE WorkStep(a)
  <2>1. Working(a, "work") /\ store' = store /\ mem' = mem
    BY <1>5, WorkForm
  <2>2. ~Working(a, "publish")
    BY <2>1 DEF Working
  <2>3. CASE Respond(a)
    BY <1>2, <2>1, <2>2, <2>3 DEF Publishing
  <2>4. ASSUME NEW row \in Row, Decides(a, row)
        PROVE  /\ OnlyWorks(a) /\ job'[a].pc = "save"
               /\ job'[a].op = "disable" => AdminDisabled(job'[a].copy)
    <3>1. PICK q \in JobType : /\ q.pc = "save" /\ q.copy = row /\ q.op = job[a].op
                               /\ job' = [job EXCEPT ![a] = q]
      BY <2>4, JobWrites DEF Decides
    <3> QED
      BY <1>1, <2>4, <3>1 DEF Decides
  <2>5. Respond(a) \/ \E row \in Row : Decides(a, row)
    BY <1>5, WorkForm
  <2>6. CASE \E row \in Row : Decides(a, row)
    BY <2>1, <2>2, <2>4, <2>6 DEF Publishing
  <2> QED
    BY <2>3, <2>5, <2>6
<1>6. CASE SaveJob(a) \/ PublishJob(a) \/ DeleteRow(a) \/ DropEntry(a)
  <2>1. ASSUME NEW pc \in {"publish", "drop"},
               job' = [job EXCEPT ![a] = [job[a] EXCEPT !.pc = pc]]
        PROVE  /\ OnlyWorks(a) /\ job'[a].pc = pc /\ job'[a].id = job[a].id
               /\ job'[a].copy = job[a].copy /\ job'[a].op = job[a].op
    <3>1. PICK q : q = [job[a] EXCEPT !.pc = pc]
      OBVIOUS
    <3>2. q.pc = pc /\ q.id = job[a].id /\ q.copy = job[a].copy /\ q.op = job[a].op
      BY <1>0, <3>1 DEF JobType
    <3> QED
      BY <1>1, <2>1, <3>1, <3>2
  <2>2. CASE Respond(a) /\ UNCHANGED <<store, mem>> /\ ~Working(a, "publish")
    BY <1>2, <2>2 DEF Publishing
  <2>3. CASE /\ Working(a, "save") /\ store' = [store EXCEPT ![job[a].id] = job[a].copy]
             /\ mem' = mem /\ job' = [job EXCEPT ![a] = [job[a] EXCEPT !.pc = "publish"]]
    BY <1>0, <2>1, <2>3 DEF Working, Publishing
  <2>4. CASE /\ Working(a, "publish") /\ mem' = [mem EXCEPT ![job[a].id] = job[a].copy]
             /\ store' = store /\ Respond(a)
    BY <1>0, <1>2, <2>4 DEF Working, Publishing
  <2>5. CASE /\ Working(a, "work") /\ store' = [store EXCEPT ![job[a].id] = NoRow]
             /\ mem' = mem /\ job' = [job EXCEPT ![a] = [job[a] EXCEPT !.pc = "drop"]]
    BY <1>0, <2>1, <2>5 DEF Working, Publishing
  <2>6. CASE /\ Working(a, "drop") /\ mem' = [mem EXCEPT ![job[a].id] = NoRow]
             /\ store' = store /\ Respond(a)
    BY <1>0, <1>2, <2>6 DEF Working, Publishing
  <2> QED
    BY <1>6, <2>2, <2>3, <2>4, <2>5, <2>6, WriteForm
<1> QED
  BY <1>4, <1>5, <1>6 DEF AdministrationStep, JobStep, WorkStep

\* A handler that writes the account ends the disable; one that publishes a disable
\* nobody could have raced begins it.
LEMMA AdminDisturbs ==
    ASSUME DisableInv, NEW a \in Admins, AdminStep(a), NEW id \in Ids, disabled'[id] = "alone"
    PROVE  Undisturbed(id)'
<1>0. /\ Types /\ AdministrationStep(a) /\ call' = call /\ tick' = tick
      /\ mem \in [Ids -> Row] /\ job[a].id \in Ids /\ job[a].copy \in Row
      /\ disabled \in [Ids -> {"no", "raced", "alone"}] /\ disabled' = AfterJob(a)
  BY DEF DisableInv, Types, TypeOK, JobType, AdminStep
<1>1. /\ OnlyWorks(a)
      /\ ~Publishing(a, id) /\ ~Publishing(a, id)' => store'[id] = store[id] /\ mem'[id] = mem[id]
  BY <1>0, AdminForm
<1>2. CASE /\ id = job[a].id /\ Working(a, "publish") /\ job[a].op = "disable"
           /\ InNoHands(id, a) /\ AdminDisabled(store[id])
  <2>1. mem' = [mem EXCEPT ![id] = job[a].copy] /\ store' = store /\ job'[a].pc = "idle"
    BY <1>0, <1>2, AdminForm
  <2>2. AdminDisabled(store'[id]) /\ AdminDisabled(mem'[id])
    BY <1>0, <1>2, <2>1 DEF DisableInv, Working
  <2>3. \A b \in Admins : ~Publishing(b, id)'
    BY <1>1, <1>2, <2>1 DEF InNoHands, OnlyWorks, Publishing, Working
  <2>4. /\ \A r \in Requests : call'[r].id = id => call'[r].pc = "idle"
        /\ id \notin tick'.ask /\ id \notin tick'.write /\ id \notin tick'.saved
    BY <1>0, <1>2 DEF InNoHands, At
  <2> QED
    BY <2>2, <2>3, <2>4 DEF Undisturbed
<1>3. CASE disabled[id] = "alone" /\ (id = job[a].id => ~AdminBegins(id))
  <2>1. Undisturbed(id)
    BY <1>3 DEF DisableInv
  <2>2. ~Publishing(a, id)
    BY <2>1 DEF Undisturbed
  <2>3. ~Publishing(a, id)'
    <3>1. Publishing(a, id)' => id = job[a].id
      BY <1>0, AdminForm
    <3> QED
      BY <1>3, <2>2, <3>1 DEF AdminBegins
  <2>4. \A b \in Admins : ~Publishing(b, id)'
    BY <1>1, <2>1, <2>3 DEF Undisturbed, OnlyWorks, Publishing
  <2> QED
    BY <1>0, <1>1, <2>1, <2>2, <2>3, <2>4 DEF Undisturbed
<1> QED
  <2>1. CASE id # job[a].id
    <3>1. disabled'[id] = disabled[id]
      BY <1>0, <2>1 DEF AfterJob
    <3> QED
      BY <1>3, <2>1, <3>1
  <2>2. CASE id = job[a].id
    <3>1. disabled'[id] = IF Working(a, "publish") /\ job[a].op = "disable"
                          THEN IF InNoHands(id, a) /\ AdminDisabled(store[id])
                               THEN "alone" ELSE "raced"
                          ELSE IF AdminBegins(id) THEN "no" ELSE disabled[id]
      BY <1>0, <2>2 DEF AfterJob
    <3> QED
      BY <1>2, <1>3, <2>2, <3>1
  <2> QED
    BY <2>1, <2>2

\* An account disabled while no request, phase or other handler had it in hand stays
\* disabled in both copies until a handler writes it: no request is given it, no
\* phase of the worker picks it, and no outcome that was already under way comes
\* after the disable.
THEOREM DisableHeld == Spec => []DisableHolds
<1>1. Init => DisableInv
  <2> SUFFICES ASSUME Init PROVE DisableInv
    OBVIOUS
  <2>1. \A id \in Ids : disabled[id] = "no"
    BY DEF Init
  <2>2. \A a \in Admins : job[a].pc = "idle"
    BY IdleTypes DEF Init, AdministrationInit
  <2> QED
    BY <2>1, <2>2, TypesInit DEF DisableInv
<1>2. DisableInv /\ [Next]_vars => DisableInv'
  <2> SUFFICES ASSUME DisableInv, [Next]_vars PROVE DisableInv'
    OBVIOUS
  <2>0. /\ Types /\ \A id \in Ids : disabled[id] = "alone" => Undisturbed(id)
        /\ \A a \in Admins : job[a].op = "disable" /\ job[a].pc \in {"save", "publish"}
                               => AdminDisabled(job[a].copy)
    BY DEF DisableInv
  <2>1. Types'
    BY <2>0, TypesStep
  <2> SUFFICES
        /\ \A id \in Ids : disabled'[id] = "alone" => Undisturbed(id)'
        /\ \A a \in Admins : job'[a].op = "disable" /\ job'[a].pc \in {"save", "publish"}
                               => AdminDisabled(job'[a].copy)
    BY <2>1 DEF DisableInv
  <2>2. CASE TrafficStep
    BY <2>0, <2>2, TrafficDisturbs DEF TrafficStep, TrafficHistory
  <2>3. CASE WorkerStep
    BY <2>0, <2>3, WorkerDisturbs DEF WorkerStep
  <2>4. ASSUME NEW a \in Admins, AdminStep(a)
        PROVE  /\ \A id \in Ids : disabled'[id] = "alone" => Undisturbed(id)'
               /\ \A b \in Admins : job'[b].op = "disable" /\ job'[b].pc \in {"save", "publish"}
                                      => AdminDisabled(job'[b].copy)
    <3>1. /\ OnlyWorks(a)
          /\ job'[a].op = "disable" /\ job'[a].pc \in {"save", "publish"}
             => \/ AdminDisabled(job'[a].copy)
                \/ /\ job[a].op = "disable" /\ job[a].pc = "save" /\ job'[a].copy = job[a].copy
      BY <2>0, <2>4, AdminForm DEF AdminStep
    <3>2. \A b \in Admins : job'[b].op = "disable" /\ job'[b].pc \in {"save", "publish"}
                              => AdminDisabled(job'[b].copy)
      BY <2>0, <3>1 DEF OnlyWorks
    <3> QED
      BY <2>4, <3>2, AdminDisturbs
  <2>5. CASE Clock
    <3>1. /\ call' = call /\ tick' = tick /\ job' = job /\ disabled' = disabled
          /\ store \in [Ids -> Row] /\ mem \in [Ids -> Row] /\ TypeOK
      BY <2>0, <2>5 DEF Clock, Outside, history, Types, TypeOK
    <3>2. PICK i \in Ids : StoreDeadline(i) \/ MemDeadline(i) \/ Revoke(i)
      BY <2>5 DEF Clock
    <3>3. \A id \in Ids : RowDrifts(store[id], store'[id]) /\ RowDrifts(mem[id], mem'[id])
      BY <3>1, <3>2, ClockForm DEF RowDrifts
    <3>4. \A row \in Row : \A next : RowDrifts(row, next) /\ AdminDisabled(row)
                                       => AdminDisabled(next)
      BY OverdueRows DEF AdminDisabled
    <3>5. \A id \in Ids : /\ AdminDisabled(store[id]) => AdminDisabled(store'[id])
                          /\ AdminDisabled(mem[id]) => AdminDisabled(mem'[id])
      BY <3>1, <3>3, <3>4
    <3> QED
      BY <2>0, <3>1, <3>5 DEF Undisturbed, Publishing
  <2>6. CASE Restart
    <3>1. /\ store' = store /\ mem' = store /\ disabled' = disabled /\ tick' = Listing(1)
          /\ \A r \in Requests : call'[r].pc = "idle"
          /\ \A a \in Admins : job'[a].pc = "idle"
      BY <2>6, IdleTypes DEF Restart
    <3>2. tick'.ask = {} /\ tick'.write = {} /\ tick'.saved = {}
      BY <3>1, ListingFields
    <3>3. \A id \in Ids : disabled'[id] = "alone" => Undisturbed(id)'
      BY <2>0, <3>1, <3>2 DEF Undisturbed, Publishing
    <3> QED
      BY <3>1, <3>3
  <2>7. CASE UNCHANGED vars
    BY <2>0, <2>7 DEF vars, history, Undisturbed, Publishing
  <2> QED
    BY <2>2, <2>3, <2>4, <2>5, <2>6, <2>7 DEF Next
<1>3. DisableInv => DisableHolds
  BY DEF DisableInv, Undisturbed, DisableHolds
<1> QED
  BY <1>1, <1>2, <1>3, PTL DEF Spec
=============================================================================
