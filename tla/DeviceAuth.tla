----------------------------- MODULE DeviceAuth -----------------------------
(***************************************************************************)
(* Adding an account by OAuth device authorization                         *)
(* (backend/internal/deviceauth/service.go): an administrator starts a     *)
(* session, the user approves it at the identity provider, and the session *)
(* is polled by the background worker and by the admin API until it ends.  *)
(* PollOnce and Cancel hold a lock per session over their calls to the     *)
(* provider, the account table, the scheduler and the session table.       *)
(*                                                                         *)
(* An update of the session table may fail, and the process may restart;   *)
(* both count as faults.  Time is reduced to whether a session's poll      *)
(* interval and its lifetime have passed.                                  *)
(***************************************************************************)
EXTENDS Naturals, Sequences

CONSTANTS
    Sessions,   \* device authorization sessions
    Handlers,   \* concurrent admin requests
    Worker,     \* the goroutine of RunWorker
    Nobody,     \* holder of a free lock
    ListLimit,  \* newest sessions the worker looks at
    MaxFaults   \* bound: failed updates and restarts

Pollers == Handlers \cup {Worker}

ASSUME DeviceAuthAssumption ==
    /\ Worker \notin Handlers /\ Nobody \notin Pollers
    /\ Sessions # {} /\ ListLimit \in Nat \ {0} /\ MaxFaults \in Nat

Pending  == {"pending", "slow_down"}
Ended    == {"expired", "denied", "cancelled", "succeeded", "failed"}

VARIABLES
    status,    \* status column of a session, "none" before Start
    created,   \* the sessions in the order of created_at
    due,       \* sessions whose poll interval has passed since updated_at
    lapsed,    \* sessions whose expires_at has passed
    provider,  \* what the identity provider knows of the device code
    saved,     \* sessions whose account is in the table
    pooled,    \* sessions whose account is in the scheduler
    lock,      \* pollLocks
    proc,      \* the pollers: step, session, status to be written
    todo,      \* sessions left in the worker's tick
    faults     \* faults so far

world == <<created, provider, lapsed>>
vars  == <<status, created, due, lapsed, provider, saved, pooled, lock, proc, todo, faults>>

\* A poller: its step, call and session, and the status it is going to write.
Proc == [pc : {"idle", "lock", "ask", "validate", "save", "publish", "update"},
         op : {"none", "poll", "cancel"}, s : Sessions,
         next : Pending \cup Ended \cup {"none"}]

IdleProc == [pc |-> "idle", op |-> "none", s |-> CHOOSE s \in Sessions : TRUE, next |-> "none"]

Init ==
    /\ status = [s \in Sessions |-> "none"]
    /\ created = <<>>
    /\ due = {} /\ lapsed = {} /\ saved = {} /\ pooled = {} /\ todo = {}
    /\ provider = [s \in Sessions |-> "waiting"]
    /\ lock = [s \in Sessions |-> Nobody]
    /\ proc = [p \in Pollers |-> IdleProc]
    /\ faults = 0

-----------------------------------------------------------------------------
(* Sessions, the provider and time.                                        *)

\* Start.
Start(s) ==
    /\ status[s] = "none"
    /\ status' = [status EXCEPT ![s] = "pending"]
    /\ created' = Append(created, s)
    /\ UNCHANGED <<due, lapsed, provider, saved, pooled, lock, proc, todo, faults>>

\* The user approves or denies, or the provider gives up.
Decide(s, answer) ==
    /\ status[s] # "none" /\ provider[s] = "waiting"
    /\ provider' = [provider EXCEPT ![s] = answer]
    /\ UNCHANGED <<status, created, due, lapsed, saved, pooled, lock, proc, todo, faults>>

Interval(s) ==
    /\ status[s] # "none" /\ s \notin due
    /\ due' = due \cup {s}
    /\ UNCHANGED <<status, created, lapsed, provider, saved, pooled, lock, proc, todo, faults>>

Lapse(s) ==
    /\ status[s] # "none" /\ s \notin lapsed
    /\ lapsed' = lapsed \cup {s}
    /\ UNCHANGED <<status, created, due, provider, saved, pooled, lock, proc, todo, faults>>

-----------------------------------------------------------------------------
(* Polling.                                                                *)

Is(p, label) == proc[p].pc = label
Of(p)        == proc[p].s

\* Mutant: sessions told to slow down are not polled again.
Polled_PendingOnly(s) == status[s] = "pending"

Polled(s) == status[s] \in Pending

\* ListDeviceAuthSessions: the newest sessions.
Listed ==
    {created[i] : i \in {j \in 1 .. Len(created) : j + ListLimit > Len(created)}}

\* The head of a tick: the sessions that are due.
Tick ==
    /\ Is(Worker, "idle") /\ todo = {}
    /\ todo' = {s \in Listed : Polled(s) /\ s \in due}
    /\ UNCHANGED <<status, due, saved, pooled, lock, proc, faults, world>>

Call(p, op, s) ==
    /\ Is(p, "idle")
    /\ proc' = [proc EXCEPT ![p] = [IdleProc EXCEPT !.pc = "lock", !.op = op, !.s = s]]

\* The worker's next session; which one comes first does not matter.
WorkerPoll(s) ==
    /\ s \in todo /\ Call(Worker, "poll", s)
    /\ todo' = todo \ {s}
    /\ UNCHANGED <<status, due, saved, pooled, lock, faults, world>>

\* The poll and cancel endpoints.
HandlerCall(p, op, s) ==
    /\ status[s] # "none" /\ Call(p, op, s)
    /\ UNCHANGED <<status, due, saved, pooled, lock, todo, faults, world>>

\* Mutant: the session is not locked.
Free_Always(s) == TRUE

Free(s) == lock[s] = Nobody

Goto(p, label)  == proc' = [proc EXCEPT ![p].pc = label]
Settle(p, next) == proc' = [proc EXCEPT ![p].pc = "update", ![p].next = next]

\* Mutant: a session that has ended is polled again.
EnterPoll_Ended(p) ==
    LET s == Of(p) IN
    /\ Is(p, "lock") /\ proc[p].op = "poll" /\ Free(s)
    /\ lock' = [lock EXCEPT ![s] = p]
    /\ IF s \in lapsed THEN Settle(p, "expired") ELSE Goto(p, "ask")
    /\ UNCHANGED <<status, due, saved, pooled, todo, faults, world>>

\* pollOnce up to the call of the provider: the lock, the row, and what the
\* row alone decides.  A session that has ended is left alone.
EnterPoll(p) ==
    LET s == Of(p) IN
    /\ Is(p, "lock") /\ proc[p].op = "poll" /\ Free(s)
    /\ IF status[s] \notin Pending THEN proc' = [proc EXCEPT ![p] = IdleProc] /\ UNCHANGED lock
       ELSE /\ lock' = [lock EXCEPT ![s] = p]
            /\ IF s \in lapsed THEN Settle(p, "expired") ELSE Goto(p, "ask")
    /\ UNCHANGED <<status, due, saved, pooled, todo, faults, world>>

\* Cancel up to its update.
EnterCancel(p) ==
    LET s == Of(p) IN
    /\ Is(p, "lock") /\ proc[p].op = "cancel" /\ Free(s)
    /\ IF status[s] = "succeeded" THEN proc' = [proc EXCEPT ![p] = IdleProc] /\ UNCHANGED lock
       ELSE lock' = [lock EXCEPT ![s] = p] /\ Settle(p, "cancelled")
    /\ UNCHANGED <<status, due, saved, pooled, todo, faults, world>>

\* PollDeviceToken: the protocol's answers other than tokens, as the status
\* they lead to.
Answers(state) ==
    CASE state = "waiting" -> Pending
      [] state = "denied"  -> {"denied"}
      [] state = "lapsed"  -> {"expired"}
      [] OTHER             -> {}

\* One call of it.  Tokens are given out once; any error that is not one of
\* the protocol's answers, also one that hides the tokens, ends the session.
Ask(p) ==
    LET s == Of(p) IN
    /\ Is(p, "ask")
    /\ \/ \E next \in Answers(provider[s]) \cup {"failed"} : Settle(p, next) /\ UNCHANGED provider
       \/ /\ provider[s] = "approved"
          /\ Goto(p, "validate") \/ Settle(p, "failed")
          /\ provider' = [provider EXCEPT ![s] = "spent"]
    /\ UNCHANGED <<status, due, saved, pooled, lock, todo, faults, created, lapsed>>

\* Validate: a verdict on the account, or an error, which ends the session.
Validate(p) ==
    /\ Is(p, "validate")
    /\ Goto(p, "save") \/ Settle(p, "failed")
    /\ UNCHANGED <<status, due, saved, pooled, lock, todo, faults, world>>

\* SaveAccount.
SaveAccount(p) ==
    /\ Is(p, "save")
    /\ \/ saved' = saved \cup {Of(p)} /\ Goto(p, "publish")
       \/ Settle(p, "failed") /\ UNCHANGED saved
    /\ UNCHANGED <<status, due, pooled, lock, todo, faults, world>>

\* sink.Upsert.
Publish(p) ==
    /\ Is(p, "publish")
    /\ pooled' = pooled \cup {Of(p)}
    /\ Settle(p, "succeeded")
    /\ UNCHANGED <<status, due, saved, lock, todo, faults, world>>

Leave(p) ==
    /\ proc' = [proc EXCEPT ![p] = IdleProc]
    /\ lock' = [lock EXCEPT ![Of(p)] = Nobody]

\* UpdateDeviceAuthSession, the last step of every path.
Update(p) ==
    /\ Is(p, "update")
    /\ status' = [status EXCEPT ![Of(p)] = proc[p].next]
    /\ due' = due \ {Of(p)}
    /\ Leave(p)
    /\ UNCHANGED <<saved, pooled, todo, faults, world>>

\* Its error is ignored, or reported to a caller who can do nothing about it.
UpdateFails(p) ==
    /\ Is(p, "update") /\ faults < MaxFaults
    /\ faults' = faults + 1
    /\ Leave(p)
    /\ UNCHANGED <<status, due, saved, pooled, todo, world>>

Restart ==
    /\ faults < MaxFaults
    /\ faults' = faults + 1
    /\ proc' = [p \in Pollers |-> IdleProc]
    /\ lock' = [s \in Sessions |-> Nobody]
    /\ todo' = {}
    /\ pooled' = saved
    /\ UNCHANGED <<status, due, saved, world>>

-----------------------------------------------------------------------------
Proceed(p) ==
    \/ EnterPoll(p) \/ EnterCancel(p) \/ Ask(p) \/ Validate(p) \/ SaveAccount(p)
    \/ Publish(p) \/ Update(p)

Next ==
    \/ \E s \in Sessions :
          \/ Start(s) \/ Interval(s) \/ Lapse(s) \/ WorkerPoll(s)
          \/ \E answer \in {"approved", "denied", "lapsed"} : Decide(s, answer)
          \/ \E p \in Handlers, op \in {"poll", "cancel"} : HandlerCall(p, op, s)
    \/ \E p \in Pollers : Proceed(p) \/ UpdateFails(p)
    \/ Tick \/ Restart

Spec == Init /\ [][Next]_vars

\* The worker's ticker never stops and its calls have timeouts, so have the
\* handlers'; intervals and lifetimes pass; sync.Mutex lets nobody starve.
FairSpec ==
    /\ Spec
    /\ WF_vars(Tick) /\ WF_vars(\E s \in Sessions : WorkerPoll(s))
    /\ \A p \in Pollers : SF_vars(Proceed(p))
    /\ \A s \in Sessions : WF_vars(Interval(s)) /\ WF_vars(Lapse(s))

-----------------------------------------------------------------------------
(* Properties.                                                             *)

\* Sessions, locks and pollers keep their types.
TypeOK ==
    /\ status \in [Sessions -> Pending \cup Ended \cup {"none"}]
    /\ created \in Seq(Sessions)
    /\ due \subseteq Sessions /\ lapsed \subseteq Sessions /\ todo \subseteq Sessions
    /\ saved \subseteq Sessions /\ pooled \subseteq Sessions
    /\ provider \in [Sessions -> {"waiting", "approved", "denied", "lapsed", "spent"}]
    /\ lock \in [Sessions -> Pollers \cup {Nobody}]
    /\ proc \in [Pollers -> Proc]
    /\ faults \in 0 .. MaxFaults

\* The outcome an administrator is shown is final: a session shown as
\* succeeded stays so, and no account is imported for a session after it was
\* shown as cancelled, whichever of worker, manual poll and cancel comes first
\* (sessionPollLock), faults included.
OutcomeFinal ==
    [][\A s \in Sessions :
          /\ status[s] = "succeeded" => status'[s] = "succeeded"
          /\ s \in saved' \ saved => status[s] \in Pending]_vars

\* "On success the credential is validated and imported into the account
\* pool": without faults, and with nobody at work on it, a session has
\* succeeded exactly when its account is in the table and in the scheduler.
\* The types are part of it.
SucceededIffImported ==
    /\ TypeOK
    /\ faults = 0 =>
          \A s \in Sessions :
              lock[s] = Nobody =>
                  /\ status[s] = "succeeded" <=> s \in saved
                  /\ s \in saved <=> s \in pooled

\* "RunWorker polls pending sessions": a session that was started ends, also
\* when updates of the table fail or the process restarts now and then.
SessionEnds == \A s \in Sessions : status[s] # "none" ~> status[s] \in Ended
=============================================================================
