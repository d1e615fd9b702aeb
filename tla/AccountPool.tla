---------------------------- MODULE AccountPool ----------------------------
(***************************************************************************)
(* The two copies of every account: the row in SQLite (SaveAccounts,       *)
(* DeleteAccounts) and the scheduler's entry (Upsert, Delete,              *)
(* MoveUnavailable).  Nothing ties the copies together but the order in    *)
(* which each writer touches them; the writers are in Traffic, Recovery    *)
(* and Administration.                                                     *)
(*                                                                         *)
(* A row is an Account plus the refresh token it holds.  The identity      *)
(* provider is external: live[id] is the one refresh token it accepts.     *)
(***************************************************************************)
EXTENDS Account

CONSTANTS
    Ids,       \* account ids
    Failures,  \* reasons the upstream's answers are classified to
    MaxToken,  \* bound: refresh tokens issued per account (0: none has one)
    FailBound, \* bound: authentication failures counted per account
    SavesFail  \* whether a save may fail (a busy or full database)

ASSUME PoolAssumption ==
    /\ Ids # {}
    /\ Failures \subseteq {"quota", "auth", "cooldown", "validating"}
    /\ MaxToken \in Nat
    /\ FailBound \in Nat
    /\ SavesFail \in BOOLEAN

\* No refresh token (a row), no token accepted (the identity provider).
NoToken == 0

Row == [pool : Pools \cup {"absent"}, reason : Reasons, retryAt : RetryAts,
        code : Codes, exhausted : BOOLEAN, fails : 0 .. FailBound,
        token : 0 .. MaxToken]

NewRow(token) ==
    [pool |-> "ready", reason |-> "none", retryAt |-> "none", code |-> "none",
     exhausted |-> FALSE, fails |-> 0, token |-> token]

NoRow == [NewRow(NoToken) EXCEPT !.pool = "absent"]

\* The failure counter is only compared with maxValidatingFails, so it may
\* stand still beyond it.
Capped(row) == [row EXCEPT !.fails = IF @ > FailBound THEN FailBound ELSE @]

Present(row) == row.pool # "absent"

VARIABLES
    store,  \* accounts table
    mem,    \* Scheduler.accounts
    live    \* refresh token the identity provider accepts

poolVars == <<store, mem, live>>

\* Startup loads the table into the scheduler.
PoolInit ==
    /\ live \in [Ids -> {n \in {1} : n <= MaxToken} \cup {NoToken}]
    /\ store = [id \in Ids |-> NewRow(live[id])]
    /\ mem = store

\* INSERT ... ON CONFLICT(id) DO UPDATE: the whole row, whoever wrote it last.
\* The schema's CHECK refuses the empty account a deleted lease yields.
SaveAccount(id, row) == Present(row) /\ store' = [store EXCEPT ![id] = row]

DeleteAccount(id) == store' = [store EXCEPT ![id] = NoRow]

\* Scheduler.Upsert and Scheduler.Delete, as far as the account's row goes.
Upsert(id, row) == mem' = [mem EXCEPT ![id] = row]
Drop(id)        == mem' = [mem EXCEPT ![id] = NoRow]

\* The tokens given out so far, as far as live tells.
Issued(id) == 1 .. (IF live[id] = NoToken THEN MaxToken ELSE live[id])

\* Client.Refresh with a given token: what the caller learns, and the token
\* the provider accepts afterwards.  The provider may rotate the token; an
\* outdated or revoked one is invalid_grant, a permanent failure.
Exchange(id, token) ==
    LET transient == [answer |-> "transient", token |-> token, live |-> live[id]]
        kept      == [answer |-> "ok", token |-> token, live |-> live[id]]
        rotated   == [answer |-> "ok", token |-> live[id] + 1, live |-> live[id] + 1]
        invalid   == [answer |-> "permanent", token |-> token, live |-> live[id]]
    IN  {transient} \cup
        (IF token = NoToken THEN {}
         ELSE IF token # live[id] THEN {invalid}
         ELSE {kept} \cup (IF live[id] < MaxToken THEN {rotated} ELSE {}))

-----------------------------------------------------------------------------
(* What happens by itself.                                                 *)

\* A deadline passes.  The copies may hold different deadlines.
StoreDeadline(id) ==
    /\ store[id].retryAt = "future"
    /\ store' = [store EXCEPT ![id].retryAt = "due"]
    /\ UNCHANGED <<mem, live>>

MemDeadline(id) ==
    /\ mem[id].retryAt = "future"
    /\ mem' = [mem EXCEPT ![id].retryAt = "due"]
    /\ UNCHANGED <<store, live>>

\* The provider revokes the grant.
Revoke(id) ==
    /\ live[id] # NoToken
    /\ live' = [live EXCEPT ![id] = NoToken]
    /\ UNCHANGED <<store, mem>>
=============================================================================
