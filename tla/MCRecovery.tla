----------------------------- MODULE MCRecovery -----------------------------
(* Liveness of Lifecycle for TLC, in three settings over the same          *)
(* variables.  A behaviour keeps the setting it starts in.                 *)
EXTENDS Lifecycle, TLC

\* Every kind of failure with one lease per account, and restarts.
Single == INSTANCE Lifecycle WITH
    MaxActive <- 1, Operations <- {}, Failures <- {"quota", "auth", "validating"},
    SavesFail <- FALSE

\* Two leases per account.
Sharing == INSTANCE Lifecycle WITH
    Operations <- {}, Failures <- {"quota"}, SavesFail <- FALSE, MaxRestarts <- 0,
    FailBound <- 1, MaxValidatingFails <- 1

\* Saves that may fail, an administrator who enables, and cooldowns.
Failing == INSTANCE Lifecycle WITH
    MaxActive <- 1, Failures <- {"cooldown"}, MaxRestarts <- 0,
    FailBound <- 1, MaxValidatingFails <- 1

VARIABLE setting

\* No request but one is in an attempt.
OneRequest == \A r \in Requests : At(r, "idle") \/ r = CHOOSE q \in Requests : TRUE

MCInit ==
    \/ setting = "single"  /\ Single!Init
    \/ setting = "sharing" /\ Sharing!Init
    \/ setting = "failing" /\ Failing!Init

MCNext ==
    /\ UNCHANGED setting
    /\ \/ setting = "single"  /\ Single!Next
       \/ setting = "sharing" /\ Sharing!Next
       \/ setting = "failing" /\ Failing!Next /\ OneRequest'

\* The recovery ticker never stops, deadlines pass, and a request that is in
\* an attempt finishes it.
Worker ==
    /\ UNCHANGED setting
    /\ \/ setting = "single"  /\ Single!WorkerStep
       \/ setting = "sharing" /\ Sharing!WorkerStep
       \/ setting = "failing" /\ Failing!WorkerStep

Attempt(r) ==
    /\ UNCHANGED setting
    /\ \/ setting = "single"  /\ Single!RequestStep(r)
       \/ setting = "sharing" /\ Sharing!RequestStep(r)
       \/ setting = "failing" /\ Failing!RequestStep(r)
    /\ TrafficHistory

Passes(deadline) == deadline /\ Outside /\ UNCHANGED setting

mcVars == <<vars, setting>>

MCSpec ==
    /\ MCInit /\ [][MCNext]_mcVars
    /\ WF_mcVars(Worker)
    /\ \A id \in Ids : WF_mcVars(Passes(StoreDeadline(id))) /\ WF_mcVars(Passes(MemDeadline(id)))
    /\ \A r \in Requests : WF_mcVars(Attempt(r))

\* An account parked for quota: in the copy that serves requests; with two
\* leases per account, in the row, which the worker goes by.
QuotaParked(id) ==
    \/ setting = "single"  /\ mem[id].reason = "quota"
    \/ setting = "sharing" /\ store[id].reason = "quota"

\* quota: "back to ready when retry_at is reached".
QuotaReturns == \A id \in Ids : QuotaParked(id) ~> ~QuotaParked(id)

\* cooldown: "straight back when due", although saves may fail for ever.
CooldownReturns ==
    \A id \in Ids : mem[id].reason = "cooldown" ~> mem[id].reason # "cooldown"
=============================================================================
