----------------------------- MODULE AdminAuth ------------------------------
(***************************************************************************)
(* Administrator authentication (backend/internal/adminauth/service.go     *)
(* over infra/persistence/sqlite/adminauth.go): password logins behind a   *)
(* failure limit, refresh sessions that rotate, replay detection, logout.  *)
(*                                                                         *)
(* SQLite is opened with one connection, so a statement or a transaction   *)
(* is one step; what a handler does between two of them (the clock it has  *)
(* read, bcrypt, random tokens) is kept in call.  A cookie or an access    *)
(* token is the id of its session: a wrong secret is answered like an      *)
(* unknown session and changes nothing.  Times are small integers.         *)
(***************************************************************************)
EXTENDS Integers, FiniteSetsExt

CONSTANTS
    Callers,      \* concurrent HTTP requests
    Names,        \* user names typed at the login form
    AdminName,    \* the one administrator's name
    Ips,          \* source addresses
    Sids,         \* session ids that random may produce
    NoSid,        \* absence of a session id
    Limit,        \* adminLoginFailureLimit
    Window,       \* adminLoginFailureWindow
    Grace,        \* refreshReplayGrace
    AccessLife,   \* life of an access token
    SessionLife,  \* life of a refresh session, counted from the login
    Retention,    \* adminAuthHistoryRetention
    Delay,        \* bound: age of a clock reading when the statement runs
    MaxNow,       \* bound: the clock
    MaxSerial,    \* bound: attempts ever recorded
    MaxHeld       \* bound: reservations held at a time

ASSUME AdminAuthAssumption ==
    /\ AdminName \in Names /\ NoSid \notin Sids /\ IsFiniteSet(Sids)
    /\ {Limit, Window, AccessLife, SessionLife} \subseteq Nat \ {0}
    /\ {Grace, Retention, Delay, MaxNow, MaxSerial, MaxHeld} \subseteq Nat
    /\ Window <= Retention /\ SessionLife <= Retention

VARIABLES
    now,       \* the clock
    admin,     \* whether the administrator's row exists
    attempts,  \* admin_login_attempts
    reserved,  \* admin_login_reservations
    serial,    \* last id given out by admin_login_attempts
    rows,      \* admin_sessions: the set of rows
    family,    \* family_id of every session ever created
    call       \* the requests in progress

vars == <<now, admin, attempts, reserved, serial, rows, family, call>>

Times   == 0 .. MaxNow
Reasons == {"none", "logout", "rotated", "refresh_replayed"}
Attempt == [id : 1 .. MaxSerial, name : Names, ip : Ips, ok : BOOLEAN, at : Times]
Reserve == [id : 1 .. MaxHeld, name : Names, ip : Ips, at : Times]
Row     == [sid : Sids, exp : Nat, reason : Reasons, revokedAt : Nat]

\* A request between its first statement and its last.  A login has reserved and
\* is going to record the failure or to create the session; a refresh has read
\* its session and is going to rotate it or to revoke its family.
LoginCall   == [step : {"fail", "create"}, name : Names, ip : Ips, at : Times, id : 1 .. MaxHeld]
RefreshCall == [step : {"rotate", "revoke"}, sid : Sids, at : Times, exp : Nat]
Idle        == [step |-> "idle"]

\* Types of the tables and of the requests; in particular no two rows of
\* admin_sessions share an id, and every row belongs to a family.
TypeOK ==
    /\ now \in Times /\ admin \in BOOLEAN /\ serial \in 0 .. MaxSerial
    /\ attempts \subseteq Attempt /\ reserved \subseteq Reserve
    /\ rows \subseteq Row
    /\ \A r, q \in rows : r.sid = q.sid => r = q
    /\ family \in [Sids -> Sids \cup {NoSid}]
    /\ \A r \in rows : family[r.sid] # NoSid
    /\ call \in [Callers -> LoginCall \cup RefreshCall \cup {Idle}]

Init ==
    /\ now = 0 /\ serial = 0
    /\ admin \in BOOLEAN
    /\ attempts = {} /\ reserved = {} /\ rows = {}
    /\ family = [s \in Sids |-> NoSid]
    /\ call = [c \in Callers |-> Idle]

\* A handler reads the clock before it reaches the database.
ClockReads == {t \in Times : t <= now /\ now <= t + Delay}

Become(c, r) == call' = [call EXCEPT ![c] = r]
Return(c)    == Become(c, Idle)

Tick ==
    /\ now < MaxNow
    /\ now' = now + 1
    /\ UNCHANGED <<admin, attempts, reserved, serial, rows, family, call>>

(***************************************************************************)
(* The bootstrap-admin command and the legacy bootstrap insert the only    *)
(* administrator there ever is; nothing disables or deletes it.            *)
(***************************************************************************)
BootstrapAdmin ==
    /\ ~admin
    /\ admin' = TRUE
    /\ UNCHANGED <<now, attempts, reserved, serial, rows, family, call>>

-----------------------------------------------------------------------------
(* Login *)

\* Failures that count for a scope of rows: inside the window, after the
\* scope's last success.
Failures(scope, since) ==
    {f \in scope : ~f.ok /\ f.at >= since /\ \A s \in scope : s.ok => f.id > s.id}

ByIp(table, ip)         == {r \in table : r.ip = ip}
ByName(table, name, ip) == {r \in table : r.name = name /\ r.ip = ip}

\* Failures and reservations that stand against a scope.
Pressure(failed, held, since) ==
    Cardinality(Failures(failed, since)) + Cardinality({r \in held : r.at >= since})

VerifyAdminPassword(good) == IF good THEN "create" ELSE "fail"

\* Reservations are told apart by their id only; a freed one is used again.
FreeIds == 1 .. MaxHeld \ {r.id : r \in reserved}

\* Mutant: passwords being checked are not counted.
Admitted_IgnoresReserved(name, ip, since) ==
    /\ Pressure(ByName(attempts, name, ip), {}, since) < Limit
    /\ Pressure(ByIp(attempts, ip), {}, since) < Limit

Admitted(name, ip, since) ==
    /\ Pressure(ByName(attempts, name, ip), ByName(reserved, name, ip), since) < Limit
    /\ Pressure(ByIp(attempts, ip), ByIp(reserved, ip), since) < Limit

\* Login counts the administrators, reads the clock and reserves: counting the
\* failures and inserting the reservation are one statement.  A request that is
\* not admitted answers 429 after reading the oldest failure.  The password is
\* checked under the reservation; good says that the name is the
\* administrator's and the password is right.
Login(c, name, ip, good, at) ==
    /\ call[c] = Idle /\ admin /\ at \in ClockReads
    /\ good => name = AdminName
    /\ Admitted(name, ip, at - Window)
    /\ FreeIds # {}
    /\ reserved' = reserved \cup {[id |-> Min(FreeIds), name |-> name, ip |-> ip, at |-> at]}
    /\ Become(c, [step |-> VerifyAdminPassword(good), id |-> Min(FreeIds), name |-> name,
                  ip |-> ip, at |-> at])
    /\ UNCHANGED <<now, admin, attempts, serial, rows, family>>

\* The failed attempt keeps the time of its reservation.
CompleteAdminLoginFailure(c) ==
    LET q == call[c] IN
    /\ q.step = "fail" /\ serial < MaxSerial
    /\ serial' = serial + 1
    /\ attempts' = attempts \cup
          {[id |-> serial + 1, name |-> r.name, ip |-> r.ip, ok |-> FALSE, at |-> r.at]
              : r \in {x \in reserved : x.id = q.id}}
    /\ reserved' = {r \in reserved : r.id # q.id}
    /\ Return(c)
    /\ UNCHANGED <<now, admin, rows, family>>

\* A storage error, or a client that goes away, ends the login between its
\* reservation and its outcome.  The deferred release is tried once.
ReleaseAdminLoginReservation(c) ==
    LET q == call[c] IN
    /\ q.step \in {"fail", "create"}
    /\ \/ reserved' = {r \in reserved : r.id # q.id}
       \/ UNCHANGED reserved
    /\ Return(c)
    /\ UNCHANGED <<now, admin, attempts, serial, rows, family>>

-----------------------------------------------------------------------------
(* Sessions *)

Unrevoked(r)  == r.reason = "none"
Active(r, at) == Unrevoked(r) /\ at < r.exp

RowOf(s) == {r \in rows : r.sid = s}
Family(f) == {r \in rows : family[r.sid] = f}

\* Mutant: every revoked session is pruned at once.
KeptRows_DropsRevoked(table, cutoff) == {r \in table : r.exp >= cutoff /\ Unrevoked(r)}

\* deleteInactiveAdminSessionsBefore, deleteAdminLoginAttemptsBefore
KeptRows(table, cutoff) ==
    {r \in table : r.exp >= cutoff /\ (Unrevoked(r) \/ r.revokedAt >= cutoff)}
KeptAttempts(table, cutoff) == {a \in table : a.at >= cutoff}

NewRow(s, exp) ==
    [sid |-> s, exp |-> exp, reason |-> "none", revokedAt |-> 0]

Revoked(r, at, reason) == IF Unrevoked(r) THEN [r EXCEPT !.reason = reason, !.revokedAt = at] ELSE r

\* Mutant: a session is inserted under an id that is already taken.
CreateAdminSessionWithReservedLoginSuccess_Reuses(c, s) ==
    LET q == call[c] IN
    /\ q.step = "create" /\ serial < MaxSerial
    /\ serial' = serial + 1
    /\ reserved' = {r \in reserved : r.id # q.id}
    /\ attempts' = attempts
    /\ rows' = rows \cup {NewRow(s, q.at + SessionLife)}
    /\ family' = [family EXCEPT ![s] = s]
    /\ Return(c)
    /\ UNCHANGED <<now, admin>>

\* One transaction: consume the reservation, insert session and success, prune.
CreateAdminSessionWithReservedLoginSuccess(c, s) ==
    LET q == call[c] IN
    /\ q.step = "create" /\ serial < MaxSerial
    /\ family[s] = NoSid
    /\ serial' = serial + 1
    /\ reserved' = {r \in reserved : r.id # q.id}
    /\ attempts' = KeptAttempts(attempts \cup
          {[id |-> serial + 1, name |-> q.name, ip |-> q.ip, ok |-> TRUE, at |-> q.at]},
          q.at - Retention)
    /\ rows' = KeptRows(rows \cup {NewRow(s, q.at + SessionLife)}, q.at - Retention)
    /\ family' = [family EXCEPT ![s] = s]
    /\ Return(c)
    /\ UNCHANGED <<now, admin>>

\* Refresh reads the clock, then the session of the cookie.  An unknown, expired
\* or otherwise revoked session is refused; a rotated one is a conflict within
\* the grace and a replay after it.  A new access token may not outlive the
\* session, so that a refresh near its end is refused as well.  The cookie was
\* handed out by a login that had read the clock before (expiry less life).
IsReplay(r, at)    == r.reason = "rotated" /\ at >= r.revokedAt + Grace
Refreshable(r, at) == Active(r, at) /\ at + AccessLife <= r.exp

Refresh(c, s, at) ==
    /\ call[c] = Idle /\ at \in ClockReads
    /\ \E r \in RowOf(s) :
          /\ r.exp <= at + SessionLife
          /\ \/ /\ IsReplay(r, at)
                /\ Become(c, [step |-> "revoke", sid |-> s, at |-> at, exp |-> r.exp])
             \/ /\ Refreshable(r, at)
                /\ Become(c, [step |-> "rotate", sid |-> s, at |-> at, exp |-> r.exp])
    /\ UNCHANGED <<now, admin, attempts, reserved, serial, rows, family>>

RevokeAdminSessionFamily(c) ==
    LET q == call[c] IN
    /\ q.step = "revoke"
    /\ rows' = {IF family[r.sid] = family[q.sid] THEN Revoked(r, q.at, "refresh_replayed") ELSE r
                   : r \in rows}
    /\ Return(c)
    /\ UNCHANGED <<now, admin, attempts, reserved, serial, family>>

\* One transaction that repeats the conditions: the loser of two refreshes, or
\* a refresh overtaken by a revocation, finds nothing to update.
\* Mutants: the update does not repeat that the session is not revoked; it names
\* two of the three reasons.
Rotatable_Revoked(r, at) == r.exp > at
Rotatable_TwoReasons(r, at) == r.exp > at /\ r.reason \notin {"rotated", "logout"}

Rotatable(r, at) == Unrevoked(r) /\ r.exp > at

RotateAdminSession(c, s) ==
    LET q == call[c]
        old == {r \in RowOf(q.sid) : Rotatable(r, q.at)} IN
    /\ q.step = "rotate"
    /\ \/ /\ old # {} /\ family[s] = NoSid
          /\ rows' = KeptRows(
                {IF r \in old THEN Revoked(r, q.at, "rotated") ELSE r : r \in rows}
                    \cup {NewRow(s, q.exp)},
                q.at - Retention)
          /\ family' = [family EXCEPT ![s] = family[q.sid]]
       \/ /\ old = {}
          /\ UNCHANGED <<rows, family>>
    /\ Return(c)
    /\ UNCHANGED <<now, admin, attempts, reserved, serial>>

\* Logout and LogoutAccess find the session of the cookie or of the access
\* token and revoke that row; rows never come back, so the lookup and the
\* update are one step.
Logout(s) ==
    /\ RowOf(s) # {}
    /\ rows' = {IF r.sid = s THEN Revoked(r, now, "logout") ELSE r : r \in rows}
    /\ UNCHANGED <<now, admin, attempts, reserved, serial, family, call>>

\* The process stops and starts again; the tables stay.
Restart ==
    /\ \E c \in Callers : call[c] # Idle
    /\ call' = [c \in Callers |-> Idle]
    /\ UNCHANGED <<now, admin, attempts, reserved, serial, rows, family>>

Next ==
    \/ Tick \/ BootstrapAdmin \/ Restart
    \/ \E s \in Sids : Logout(s)
    \/ \E c \in Callers :
          \/ \E n \in Names, i \in Ips, good \in BOOLEAN, at \in Times : Login(c, n, i, good, at)
          \/ CompleteAdminLoginFailure(c) \/ ReleaseAdminLoginReservation(c)
          \/ RevokeAdminSessionFamily(c)
          \/ \E s \in Sids :
                \/ CreateAdminSessionWithReservedLoginSuccess(c, s)
                \/ \E at \in Times : Refresh(c, s, at)
                \/ RotateAdminSession(c, s)

Spec == Init /\ [][Next]_vars

-----------------------------------------------------------------------------
(* Properties *)

(***************************************************************************)
(* However logins interleave, stop half-way or crash, the answered         *)
(* failures of the window and the logins still being checked together      *)
(* never exceed the limit, per source address and per name: at most Limit  *)
(* passwords are tried between two successes within one window.            *)
(***************************************************************************)
LoginLimit ==
    \A i \in Ips :
       /\ Pressure(ByIp(attempts, i), ByIp(reserved, i), now - Window) <= Limit
       /\ \A n \in Names :
             Pressure(ByName(attempts, n, i), ByName(reserved, n, i), now - Window) <= Limit

(***************************************************************************)
(* Rotation is exclusive: of all sessions a login has led to, at most one  *)
(* can be refreshed or can authenticate, whatever refreshes, logouts and   *)
(* replays are under way.                                                  *)
(***************************************************************************)
OneHeirPerFamily ==
    \A f \in Sids : Cardinality({r \in Family(f) : Unrevoked(r)}) <= 1

(***************************************************************************)
(* Once a replay has revoked a family, no session of that family works any *)
(* more: a refresh that had read its session before does not bring it back.*)
(***************************************************************************)
ReplayEndsFamily ==
    \A f \in Sids :
       (\E r \in Family(f) : r.reason = "refresh_replayed") =>
           \A r \in Family(f) : ~Unrevoked(r)

(***************************************************************************)
(* Pruning old rows never blinds replay detection: while a family has an   *)
(* active session, the row of every session it rotated out is still there. *)
(***************************************************************************)
RotatedRemembered ==
    \A s \in Sids :
       (family[s] # NoSid /\ RowOf(s) = {}) => \A r \in Family(family[s]) : ~Active(r, now)
=============================================================================
