-------------------------- MODULE AdminAuthProofs ---------------------------
(***************************************************************************)
(* Administrator sessions and the login limit, for any number of requests, *)
(* sessions, names and addresses, any limit and any times.                 *)
(*                                                                         *)
(* The sessions: a family is founded by one login and every row of it has  *)
(* the expiry of that login, so that a row old enough to be pruned belongs *)
(* to a family that is over (Coherent); a refresh in flight carries that   *)
(* expiry and a clock reading that is not before the login (CallsSound).   *)
(* The lemmas on Coherent are about a table and its three changes: rows    *)
(* revoked, a row inserted, old rows pruned.                               *)
(*                                                                         *)
(* The limit: a reservation turns into at most one failure with its time,  *)
(* and pruning does not remove a success while a failure before it counts, *)
(* provided that no login is in flight for as long as history is kept      *)
(* (Prompt).                                                               *)
(***************************************************************************)
EXTENDS AdminAuth, FiniteSetTheorems, WellFoundedInduction, TLAPS

\* The order of the numbers is well-founded: a set that is not empty has a least one.
LEMMA LeastNumber ==
    ASSUME NEW S \in SUBSET Nat, S # {}
    PROVE  \E n \in S : \A m \in S : n <= m
<1> DEFINE R == {p \in Nat \X Nat : p[1] < p[2]}
<1>1. IsWellFoundedOn(R, Nat)
  BY NatLessThanWellFounded, Zenon DEF OpToRel
<1>2. PICK n \in S : \A m \in S : <<m, n>> \notin R
  <2> HIDE DEF R
  <2> QED
    BY <1>1, WFMin
<1>3. ASSUME NEW m \in S PROVE n <= m
  <2>1. <<m, n>> \notin R
    BY <1>2
  <2>2. m \in Nat /\ n \in Nat
    OBVIOUS
  <2>3. ~(m < n)
    BY <2>1, <2>2
  <2> QED
    BY <2>2, <2>3
<1> QED
  BY <1>3

\* Min is that number.
LEMMA MinMember ==
    ASSUME NEW S \in SUBSET Nat, S # {}
    PROVE  Min(S) \in S
BY LeastNumber DEF Min

-----------------------------------------------------------------------------
(* The session table.                                                      *)

\* A table of rows, with the family of every session and the time.
Coherent(T, fam, t) ==
    /\ T \subseteq Row
    /\ \A r \in T : /\ fam[r.sid] # NoSid
                    /\ r.exp <= t + SessionLife
                    /\ ~Unrevoked(r) => r.exp <= r.revokedAt + SessionLife
    /\ \A r, q \in T : r.sid = q.sid => r = q
    /\ \A r, q \in T : fam[r.sid] = fam[q.sid] =>
          /\ r.exp = q.exp
          /\ Unrevoked(r) /\ Unrevoked(q) => r = q
          /\ r.reason = "refresh_replayed" => ~Unrevoked(q)
    /\ \A s \in Sids : fam[s] # NoSid =>
          \/ \E r \in T : r.sid = s
          \/ \A r \in T : fam[r.sid] = fam[s] /\ Unrevoked(r) => r.exp <= t

\* Families are named after the session of the login that founded them.
Founded(fam) ==
    /\ fam \in [Sids -> Sids \cup {NoSid}]
    /\ \A s \in Sids : fam[s] # NoSid => fam[fam[s]] # NoSid

\* Pruning removes nothing that a living family needs.
LEMMA PruneCoherent ==
    ASSUME NEW T, NEW fam, NEW t \in Nat, NEW at \in Nat, at <= t, Coherent(T, fam, t)
    PROVE  Coherent(KeptRows(T, at - Retention), fam, t)
<1> DEFINE K == KeptRows(T, at - Retention)
<1>1. Retention \in Nat /\ SessionLife \in Nat /\ SessionLife <= Retention
  BY AdminAuthAssumption
<1>2. /\ \A r \in K : r \in T
      /\ \A r \in T \ K : \/ ~(r.exp >= at - Retention)
                          \/ ~Unrevoked(r) /\ ~(r.revokedAt >= at - Retention)
  BY DEF KeptRows
<1> HIDE DEF K
<1>3. \A r \in T : r.exp \in Nat /\ r.revokedAt \in Nat
  BY DEF Coherent, Row
<1>4. ASSUME NEW r \in T, r \notin K PROVE r.exp <= t
  <2>1. CASE ~(r.exp >= at - Retention)
    BY <1>1, <1>3, <2>1
  <2>2. CASE ~Unrevoked(r) /\ ~(r.revokedAt >= at - Retention)
    <3>1. r.exp <= r.revokedAt + SessionLife
      BY <2>2 DEF Coherent
    <3> QED
      BY <1>1, <1>3, <2>2, <3>1
  <2> QED
    BY <1>2, <1>4, <2>1, <2>2
<1>5. ASSUME NEW s \in Sids, fam[s] # NoSid
      PROVE  \/ \E r \in K : r.sid = s
             \/ \A r \in K : fam[r.sid] = fam[s] /\ Unrevoked(r) => r.exp <= t
  <2>1. CASE \E r \in T : r.sid = s
    <3>1. PICK r \in T : r.sid = s
      BY <2>1
    <3>2. \A q \in T : fam[q.sid] = fam[s] => q.exp = r.exp
      BY <3>1 DEF Coherent
    <3> QED
      BY <1>2, <1>4, <3>1, <3>2
  <2>2. CASE ~\E r \in T : r.sid = s
    BY <1>2, <1>5, <2>2 DEF Coherent
  <2> QED
    BY <2>1, <2>2
<1> QED
  BY <1>2, <1>5 DEF Coherent, K

\* The row u is what a revocation of the rows S makes of r.
Becomes(r, u, S, at, reason) == u = IF r \in S THEN Revoked(r, at, reason) ELSE r

\* The table U is the table T with the rows S revoked.
Revocation(T, U, S, at, reason) ==
    /\ \A r \in T : \E u \in U : Becomes(r, u, S, at, reason)
    /\ \A u \in U : \E r \in T : Becomes(r, u, S, at, reason)

\* It takes place in the life of the rows, and hits a whole family when a replay
\* is the reason.
Due(T, fam, S, at, reason) ==
    /\ S \subseteq T /\ reason \in Reasons \ {"none"}
    /\ \A r \in S : r.exp <= at + SessionLife
    /\ reason = "refresh_replayed" => \A r \in S, q \in T : fam[q.sid] = fam[r.sid] => q \in S

\* Every row of U comes from one of T, and is in use only if it was and is not in S.
Traced(T, U, S) ==
    /\ \A r \in T : \E u \in U : u.sid = r.sid
    /\ \A u \in U : \E r \in T :
          u.sid = r.sid /\ u.exp = r.exp /\ (Unrevoked(u) => u = r /\ r \notin S)

\* The replayed rows of U were rows of T.
NoNewReplay(T, U) == \A u \in U : u.reason = "refresh_replayed" => u \in T

\* Revoking the rows S of a table in place is a revocation of S.
LEMMA RevocationOf ==
    ASSUME NEW T, NEW S, NEW at, NEW reason
    PROVE  Revocation(T, {IF r \in S THEN Revoked(r, at, reason) ELSE r : r \in T}, S, at, reason)
BY DEF Revocation, Becomes

\* Revoking rows keeps the table coherent.
LEMMA RevokeCoherent ==
    ASSUME NEW T, NEW fam, NEW t \in Nat, Coherent(T, fam, t), NEW S, NEW at \in Nat, NEW reason,
           Due(T, fam, S, at, reason), NEW U, Revocation(T, U, S, at, reason)
    PROVE  /\ Coherent(U, fam, t) /\ Traced(T, U, S)
           /\ reason # "refresh_replayed" => NoNewReplay(T, U)
<1> USE DEF Due
<1> DEFINE B(r, u) == Becomes(r, u, S, at, reason)
<1>1. \A r \in T : r \in Row /\ r.exp \in Nat /\ r.revokedAt \in Nat
  BY DEF Coherent, Row
<1>2. ASSUME NEW r \in T, NEW u, B(r, u)
      PROVE  /\ u \in Row /\ u.sid = r.sid /\ u.exp = r.exp
             /\ Unrevoked(u) => u = r /\ r \notin S
             /\ \/ u = r
                \/ r \in S /\ u.reason = reason /\ u.revokedAt = at
  BY <1>1, <1>2 DEF Becomes, Revoked, Unrevoked, Row
<1>3. /\ \A r \in T : \E u \in U : B(r, u)
      /\ \A u \in U : \E r \in T : B(r, u)
  BY DEF Revocation
<1>4. \A r, q \in T : \A u, v : B(r, u) /\ B(q, v) /\ r = q => u = v
  BY DEF Becomes
<1> HIDE DEF B
<1>5. ASSUME NEW u \in U
      PROVE  /\ u \in Row /\ fam[u.sid] # NoSid /\ u.exp <= t + SessionLife
             /\ ~Unrevoked(u) => u.exp <= u.revokedAt + SessionLife
  <2>1. PICK r \in T : B(r, u)
    BY <1>3
  <2> QED
    BY <1>2, <2>1 DEF Coherent
<1>6. ASSUME NEW u \in U, NEW v \in U, u.sid = v.sid PROVE u = v
  <2>1. PICK r \in T : B(r, u)
    BY <1>3
  <2>2. PICK q \in T : B(q, v)
    BY <1>3
  <2>3. r = q
    BY <1>2, <1>6, <2>1, <2>2 DEF Coherent
  <2> QED
    BY <1>4, <2>1, <2>2, <2>3
<1>7. ASSUME NEW u \in U, NEW v \in U, fam[u.sid] = fam[v.sid]
      PROVE  /\ u.exp = v.exp
             /\ Unrevoked(u) /\ Unrevoked(v) => u = v
             /\ u.reason = "refresh_replayed" => ~Unrevoked(v)
  <2>1. PICK r \in T : B(r, u)
    BY <1>3
  <2>2. PICK q \in T : B(q, v)
    BY <1>3
  <2>3. /\ u.exp = r.exp /\ v.exp = q.exp /\ fam[r.sid] = fam[q.sid]
        /\ Unrevoked(u) => u = r
        /\ Unrevoked(v) => v = q /\ q \notin S
        /\ u = r \/ (r \in S /\ u.reason = reason)
    BY <1>2, <1>7, <2>1, <2>2
  <2>4. /\ r.exp = q.exp
        /\ Unrevoked(r) /\ Unrevoked(q) => r = q
        /\ r.reason = "refresh_replayed" => ~Unrevoked(q)
    BY <2>3 DEF Coherent
  <2>5. r \in S /\ reason = "refresh_replayed" => q \in S
    BY <2>3
  <2> QED
    BY <2>3, <2>4, <2>5
<1>8. ASSUME NEW s \in Sids, fam[s] # NoSid
      PROVE  \/ \E u \in U : u.sid = s
             \/ \A u \in U : fam[u.sid] = fam[s] /\ Unrevoked(u) => u.exp <= t
  <2>1. CASE \E r \in T : r.sid = s
    BY <1>2, <1>3, <2>1
  <2>2. CASE \A r \in T : fam[r.sid] = fam[s] /\ Unrevoked(r) => r.exp <= t
    <3> SUFFICES ASSUME NEW u \in U, fam[u.sid] = fam[s], Unrevoked(u) PROVE u.exp <= t
      OBVIOUS
    <3>1. PICK r \in T : B(r, u)
      BY <1>3
    <3> QED
      BY <1>2, <2>2, <3>1
  <2> QED
    BY <1>8, <2>1, <2>2 DEF Coherent
<1>9. Coherent(U, fam, t)
  BY <1>5, <1>6, <1>7, <1>8 DEF Coherent
<1>10. ASSUME NEW u \in U
       PROVE  /\ \E r \in T :
                    u.sid = r.sid /\ u.exp = r.exp /\ (Unrevoked(u) => u = r /\ r \notin S)
              /\ reason # "refresh_replayed" /\ u.reason = "refresh_replayed" => u \in T
  <2>1. PICK r \in T : B(r, u)
    BY <1>3
  <2>2. /\ u.sid = r.sid /\ u.exp = r.exp /\ (Unrevoked(u) => u = r /\ r \notin S)
        /\ (u = r \/ u.reason = reason)
    BY <1>2, <2>1
  <2> QED
    BY <2>2
<1>11. \A r \in T : \E u \in U : u.sid = r.sid
  BY <1>2, <1>3
<1> QED
  BY <1>9, <1>10, <1>11 DEF Traced, NoNewReplay

\* A session s of the family f has been added.
Joins(fam, fam2, s, f) ==
    /\ fam2 \in [Sids -> Sids \cup {NoSid}] /\ fam2[s] = f
    /\ \A x \in Sids \ {s} : fam2[x] = fam[x]

\* The family f expects an heir: all its sessions expire with exp, none is in
\* use, none was replayed, and its past is remembered unless it is over.
Expects(T, fam, t, f, exp) ==
    /\ fam[f] # NoSid
    /\ \A r \in T : fam[r.sid] = f =>
          r.exp = exp /\ ~Unrevoked(r) /\ r.reason # "refresh_replayed"
    /\ \A x \in Sids : fam[x] = f => exp <= t \/ \E r \in T : r.sid = x

\* A new session: the first of its family, or the heir of one.
LEMMA InsertCoherent ==
    ASSUME NEW T, NEW fam, NEW t \in Nat, Coherent(T, fam, t), Founded(fam),
           NEW s \in Sids, fam[s] = NoSid, NEW f \in Sids, NEW exp \in Nat, exp <= t + SessionLife,
           f = s \/ Expects(T, fam, t, f, exp),
           NEW fam2, Joins(fam, fam2, s, f), NEW n, n = NewRow(s, exp)
    PROVE  Coherent(T \cup {n}, fam2, t) /\ Founded(fam2) /\ n.sid = s /\ n.exp = exp
<1>1. n \in Row /\ n.sid = s /\ n.exp = exp /\ n.reason = "none" /\ Unrevoked(n)
  BY DEF NewRow, Row, Reasons, Unrevoked
<1>2. /\ fam2 \in [Sids -> Sids \cup {NoSid}] /\ fam2[s] = f
      /\ \A x \in Sids \ {s} : fam2[x] = fam[x]
  BY DEF Joins
<1>3. f # NoSid /\ NoSid \notin Sids
  BY AdminAuthAssumption
<1>4. Founded(fam2)
  <2> SUFFICES ASSUME NEW x \in Sids, fam2[x] # NoSid PROVE fam2[fam2[x]] # NoSid
    BY <1>2 DEF Founded
  <2>1. CASE x = s
    BY <1>2, <1>3, <2>1 DEF Expects
  <2>2. CASE x # s
    <3>1. fam[x] \in Sids /\ fam[fam[x]] # NoSid /\ fam2[x] = fam[x]
      BY <1>2, <2>2 DEF Founded
    <3> QED
      BY <1>2, <1>3, <3>1
  <2> QED
    BY <2>1, <2>2
<1>5. \A r \in T : r.sid \in Sids /\ r.sid # s /\ fam2[r.sid] = fam[r.sid]
  BY <1>2 DEF Coherent, Row
<1>6. \A x \in Sids : fam[x] # s
  BY <1>3 DEF Founded
<1>7. ASSUME NEW r \in T, fam2[r.sid] = f
      PROVE  r.exp = exp /\ ~Unrevoked(r) /\ r.reason # "refresh_replayed"
  BY <1>5, <1>6, <1>7 DEF Expects
<1>8. ASSUME NEW x \in Sids, fam2[x] # NoSid
      PROVE  \/ \E r \in T \cup {n} : r.sid = x
             \/ \A r \in T \cup {n} : fam2[r.sid] = fam2[x] /\ Unrevoked(r) => r.exp <= t
  <2>1. CASE x = s
    BY <1>1, <2>1
  <2>2. CASE x # s
    <3>1. fam2[x] = fam[x]
      BY <1>2, <2>2
    <3>2. \/ \E r \in T : r.sid = x
          \/ \A r \in T : fam[r.sid] = fam[x] /\ Unrevoked(r) => r.exp <= t
      BY <1>8, <3>1 DEF Coherent
    <3>3. fam2[n.sid] = fam2[x] => (\E r \in T : r.sid = x) \/ n.exp <= t
      BY <1>1, <1>2, <1>6, <3>1 DEF Expects
    <3> QED
      BY <1>5, <3>1, <3>2, <3>3
  <2> QED
    BY <2>1, <2>2
<1>9. Coherent(T \cup {n}, fam2, t)
  <2>1. T \cup {n} \subseteq Row
    BY <1>1 DEF Coherent
  <2>2. \A r \in T \cup {n} : /\ fam2[r.sid] # NoSid
                              /\ r.exp <= t + SessionLife
                              /\ ~Unrevoked(r) => r.exp <= r.revokedAt + SessionLife
    BY <1>1, <1>2, <1>3, <1>5 DEF Coherent
  <2>3. \A r, q \in T \cup {n} : r.sid = q.sid => r = q
    BY <1>1, <1>5 DEF Coherent
  <2>4. \A r, q \in T \cup {n} : fam2[r.sid] = fam2[q.sid] =>
          /\ r.exp = q.exp
          /\ Unrevoked(r) /\ Unrevoked(q) => r = q
          /\ r.reason = "refresh_replayed" => ~Unrevoked(q)
    BY <1>1, <1>2, <1>5, <1>7 DEF Coherent
  <2> QED
    BY <1>8, <2>1, <2>2, <2>3, <2>4 DEF Coherent
<1> QED
  BY <1>1, <1>4, <1>9

\* Time only makes sessions older.
LEMMA LaterCoherent ==
    ASSUME NEW T, NEW fam, NEW t \in Nat, NEW u \in Nat, t <= u, Coherent(T, fam, t)
    PROVE  Coherent(T, fam, u)
<1>1. \A r \in T : r.exp \in Nat /\ SessionLife \in Nat
  BY AdminAuthAssumption DEF Coherent, Row
<1>2. \A r \in T : r.exp <= t + SessionLife => r.exp <= u + SessionLife
  BY <1>1
<1>3. \A r \in T : r.exp <= t => r.exp <= u
  BY <1>1
<1> QED
  BY <1>2, <1>3 DEF Coherent

-----------------------------------------------------------------------------
(* Requests in flight.                                                     *)

Refreshing(c) == call[c].step \in {"rotate", "revoke"}

LoginTypes ==
    /\ now \in Times /\ admin \in BOOLEAN /\ serial \in 0 .. MaxSerial
    /\ attempts \subseteq Attempt /\ reserved \subseteq Reserve

CallTypes == call \in [Callers -> LoginCall \cup RefreshCall \cup {Idle}]

\* A request has read the clock; a refresh carries the expiry of its family,
\* whose login had read the clock before.
CallsSound ==
    \A c \in Callers :
       /\ call[c] # Idle => call[c].at <= now
       /\ Refreshing(c) =>
             /\ family[call[c].sid] # NoSid
             /\ call[c].exp <= call[c].at + SessionLife
             /\ \A r \in rows : family[r.sid] = family[call[c].sid] => r.exp = call[c].exp

SessionInv ==
    LoginTypes /\ CallTypes /\ Founded(family) /\ Coherent(rows, family, now) /\ CallsSound

\* The constants and the times of the clock are natural numbers.
LEMMA ConstantTypes ==
    /\ Limit \in Nat /\ Window \in Nat /\ SessionLife \in Nat /\ Retention \in Nat
    /\ Delay \in Nat /\ MaxNow \in Nat /\ MaxSerial \in Nat /\ MaxHeld \in Nat
    /\ Times \subseteq Nat
BY AdminAuthAssumption DEF Times

\* What a call carries at each of its steps.
LEMMA CallKinds ==
    ASSUME CallTypes, NEW c \in Callers
    PROVE  /\ Refreshing(c) => call[c] \in RefreshCall /\ call[c].sid \in Sids
                               /\ call[c].at \in Times /\ call[c].exp \in Nat
           /\ call[c].step \in {"fail", "create"} => call[c] \in LoginCall
           /\ call[c].step # "idle" => call[c] # Idle
<1>1. call[c] \in LoginCall \cup RefreshCall \cup {Idle}
  BY DEF CallTypes
<1>2. Idle.step = "idle"
  BY DEF Idle
<1>3. \A q \in LoginCall : q.step \in {"fail", "create"}
  BY DEF LoginCall
<1>4. \A q \in RefreshCall : /\ q.step \in {"rotate", "revoke"}
                             /\ q.sid \in Sids /\ q.at \in Times /\ q.exp \in Nat
  BY DEF RefreshCall
<1> QED
  BY <1>1, <1>2, <1>3, <1>4 DEF Refreshing

\* Requests go on, or end, while the table changes: it is enough that known
\* sessions keep their family and that rows fit the refreshes of theirs.
LEMMA CallsKept ==
    ASSUME SessionInv, now' = now,
           \A d \in Callers : call'[d] = call[d] \/ call'[d] = Idle,
           \A s \in Sids : family[s] # NoSid => family'[s] = family[s],
           \A r \in rows', d \in Callers :
              Refreshing(d) /\ family'[r.sid] = family[call[d].sid] => r.exp = call[d].exp
    PROVE  CallsSound'
<1> SUFFICES ASSUME NEW d \in Callers
             PROVE  /\ call'[d] # Idle => call'[d].at <= now
                    /\ Refreshing(d)' =>
                          /\ family'[call'[d].sid] # NoSid
                          /\ call'[d].exp <= call'[d].at + SessionLife
                          /\ \A r \in rows' : family'[r.sid] = family'[call'[d].sid]
                                => r.exp = call'[d].exp
  BY DEF CallsSound
<1>1. CASE call'[d] = Idle
  BY <1>1 DEF Refreshing, Idle
<1>2. CASE call'[d] = call[d]
  <2>1. Refreshing(d)' => Refreshing(d)
    BY <1>2 DEF Refreshing
  <2>2. Refreshing(d) => call[d].sid \in Sids /\ family[call[d].sid] # NoSid
    BY CallKinds DEF SessionInv, CallsSound
  <2> QED
    BY <1>2, <2>1, <2>2 DEF SessionInv, CallsSound
<1> QED
  BY <1>1, <1>2

\* A handler that returns leaves every other call as it was.
LEMMA ReturnTypes ==
    ASSUME CallTypes, NEW c \in Callers, Return(c)
    PROVE  CallTypes' /\ \A d \in Callers : call'[d] = call[d] \/ call'[d] = Idle
BY DEF CallTypes, Return, Become

-----------------------------------------------------------------------------
(* The actions and the sessions.                                           *)

\* The steps of logins that leave the sessions alone.
LEMMA LoginSteps ==
    ASSUME SessionInv, UNCHANGED <<now, admin, rows, family>>, NEW c \in Callers,
           \/ \E n \in Names, i \in Ips, good \in BOOLEAN, at \in Times : Login(c, n, i, good, at)
           \/ CompleteAdminLoginFailure(c) \/ ReleaseAdminLoginReservation(c)
    PROVE  SessionInv'
<1> USE ConstantTypes
<1>1. ASSUME NEW n \in Names, NEW i \in Ips, NEW good \in BOOLEAN, NEW at \in Times,
             Login(c, n, i, good, at)
      PROVE  SessionInv'
  <2> DEFINE m == Min(FreeIds)
             q == [step |-> VerifyAdminPassword(good), id |-> m, name |-> n, ip |-> i, at |-> at]
             z == [id |-> m, name |-> n, ip |-> i, at |-> at]
  <2>1. /\ reserved' = reserved \cup {z} /\ call' = [call EXCEPT ![c] = q]
        /\ UNCHANGED <<attempts, serial>> /\ FreeIds # {} /\ at <= now
    BY <1>1 DEF Login, Become, ClockReads
  <2>2. m \in 1 .. MaxHeld
    <3>1. FreeIds \in SUBSET (1 .. MaxHeld)
      BY DEF FreeIds
    <3>2. FreeIds \in SUBSET Nat
      BY <3>1
    <3>3. m \in FreeIds
      BY <2>1, <3>2, MinMember
    <3> QED
      BY <3>1, <3>3
  <2>3. VerifyAdminPassword(good) \in {"fail", "create"}
    BY DEF VerifyAdminPassword
  <2> HIDE DEF m
  <2>4. q \in LoginCall /\ q.at = at /\ q.step \in {"fail", "create"}
    BY <2>2, <2>3 DEF LoginCall
  <2>5. z \in Reserve
    BY <2>2 DEF Reserve
  <2> HIDE DEF q, z
  <2>6. LoginTypes' /\ CallTypes'
    BY <2>1, <2>4, <2>5 DEF SessionInv, LoginTypes, CallTypes
  <2>7. call'[c] = q /\ \A d \in Callers \ {c} : call'[d] = call[d]
    BY <2>1 DEF SessionInv, CallTypes
  <2>8. CallsSound'
    BY <2>1, <2>4, <2>7 DEF SessionInv, CallsSound, Refreshing
  <2> QED
    BY <2>6, <2>8 DEF SessionInv
<1>2. CASE CompleteAdminLoginFailure(c)
  <2>1. /\ call[c].step = "fail" /\ serial < MaxSerial /\ serial' = serial + 1 /\ Return(c)
        /\ attempts' = attempts \cup
             {[id |-> serial + 1, name |-> r.name, ip |-> r.ip, ok |-> FALSE, at |-> r.at]
                 : r \in {x \in reserved : x.id = call[c].id}}
        /\ reserved' \subseteq reserved
    BY <1>2 DEF CompleteAdminLoginFailure
  <2>2. serial \in Nat /\ serial + 1 \in 1 .. MaxSerial /\ serial + 1 \in 0 .. MaxSerial
    BY <2>1 DEF SessionInv, LoginTypes
  <2>3. \A r \in reserved : r.name \in Names /\ r.ip \in Ips /\ r.at \in Times
    BY DEF SessionInv, LoginTypes, Reserve
  <2>4. attempts' \subseteq Attempt
    <3> SUFFICES ASSUME NEW a \in attempts', a \notin attempts PROVE a \in Attempt
      BY DEF SessionInv, LoginTypes
    <3>1. PICK r \in reserved :
            a = [id |-> serial + 1, name |-> r.name, ip |-> r.ip, ok |-> FALSE, at |-> r.at]
      BY <2>1
    <3> QED
      BY <2>2, <2>3, <3>1 DEF Attempt
  <2>5. LoginTypes'
    BY <2>1, <2>2, <2>4 DEF SessionInv, LoginTypes
  <2>6. CallTypes' /\ \A d \in Callers : call'[d] = call[d] \/ call'[d] = Idle
    BY <2>1, ReturnTypes DEF SessionInv
  <2>7. CallsSound'
    BY <2>6, CallsKept DEF SessionInv, CallsSound
  <2> QED
    BY <2>5, <2>6, <2>7 DEF SessionInv
<1>3. CASE ReleaseAdminLoginReservation(c)
  <2>1. Return(c) /\ reserved' \subseteq reserved /\ UNCHANGED <<attempts, serial>>
    BY <1>3 DEF ReleaseAdminLoginReservation
  <2>2. LoginTypes'
    BY <2>1 DEF SessionInv, LoginTypes
  <2>3. CallTypes' /\ \A d \in Callers : call'[d] = call[d] \/ call'[d] = Idle
    BY <2>1, ReturnTypes DEF SessionInv
  <2>4. CallsSound'
    BY <2>3, CallsKept DEF SessionInv, CallsSound
  <2> QED
    BY <2>2, <2>3, <2>4 DEF SessionInv
<1> QED
  BY <1>1, <1>2, <1>3

\* A login that creates its session founds a new family.
LEMMA CreateSteps ==
    ASSUME SessionInv, NEW c \in Callers, NEW s \in Sids,
           CreateAdminSessionWithReservedLoginSuccess(c, s)
    PROVE  SessionInv'
<1> USE ConstantTypes
<1>1. PICK q : q = call[c]
  OBVIOUS
<1>0. PICK exp : exp = q.at + SessionLife
  OBVIOUS
<1>2. PICK n : n = NewRow(s, exp)
  OBVIOUS
<1>3. PICK a : a = [id |-> serial + 1, name |-> q.name, ip |-> q.ip, ok |-> TRUE, at |-> q.at]
  OBVIOUS
<1>4. /\ q.step = "create" /\ serial < MaxSerial /\ family[s] = NoSid
      /\ serial' = serial + 1 /\ Return(c) /\ UNCHANGED <<now, admin>>
      /\ reserved' \subseteq reserved
      /\ attempts' = KeptAttempts(attempts \cup {a}, q.at - Retention)
      /\ rows' = KeptRows(rows \cup {n}, q.at - Retention)
      /\ family' = [family EXCEPT ![s] = s]
  BY <1>0, <1>1, <1>2, <1>3 DEF CreateAdminSessionWithReservedLoginSuccess
<1>5. q \in LoginCall /\ q.at <= now
  BY <1>1, <1>4, CallKinds DEF SessionInv, CallsSound
<1>6. now \in Nat /\ q.at \in Nat /\ exp \in Nat /\ exp <= now + SessionLife
  <2>1. now \in Times /\ q.at \in Times
    BY <1>5 DEF LoginCall, SessionInv, LoginTypes
  <2>2. now \in Nat /\ q.at \in Nat
    BY <2>1 DEF Times
  <2> QED
    BY <1>0, <1>5, <2>2
<1>7. /\ Coherent(rows \cup {n}, family', now) /\ Founded(family')
      /\ n.sid = s /\ n.exp = exp
  <2>1. Joins(family, family', s, s)
    BY <1>4 DEF Joins, SessionInv, Founded
  <2>2. Coherent(rows, family, now) /\ Founded(family)
    BY DEF SessionInv
  <2> QED
    BY <1>2, <1>4, <1>6, <2>1, <2>2, InsertCoherent
<1>8. Coherent(rows', family', now')
  BY <1>4, <1>5, <1>6, <1>7, PruneCoherent
<1>9. LoginTypes'
  <2>1. serial \in Nat /\ serial + 1 \in 1 .. MaxSerial /\ serial + 1 \in 0 .. MaxSerial
    BY <1>4 DEF SessionInv, LoginTypes
  <2>2. a \in Attempt
    BY <1>3, <1>5, <2>1 DEF Attempt, LoginCall
  <2>3. attempts' \subseteq Attempt
    BY <1>4, <2>2 DEF KeptAttempts, SessionInv, LoginTypes
  <2> QED
    BY <1>4, <2>1, <2>3 DEF SessionInv, LoginTypes
<1>10. CallTypes' /\ \A d \in Callers : call'[d] = call[d] \/ call'[d] = Idle
  BY <1>4, ReturnTypes DEF SessionInv
<1>11. /\ \A x \in Sids : family[x] # NoSid => family'[x] = family[x]
       /\ family'[s] = s
  BY <1>4 DEF SessionInv, Founded
<1>12. ASSUME NEW r \in rows', NEW d \in Callers, Refreshing(d),
              family'[r.sid] = family[call[d].sid]
       PROVE  r.exp = call[d].exp
  <2>1. r \in rows \/ r = n
    BY <1>4 DEF KeptRows
  <2>2. CASE r \in rows
    <3>1. r.sid \in Sids /\ family[r.sid] # NoSid
      BY <2>2 DEF SessionInv, Coherent, Row
    <3> QED
      BY <1>11, <1>12, <2>2, <3>1 DEF SessionInv, CallsSound
  <2>3. CASE r = n
    <3>1. call[d].sid \in Sids /\ family[call[d].sid] # NoSid
      BY <1>12, CallKinds DEF SessionInv, CallsSound
    <3>2. family[family[call[d].sid]] # NoSid
      BY <3>1 DEF SessionInv, Founded
    <3>3. family[call[d].sid] = s
      BY <1>7, <1>11, <1>12, <2>3
    <3> QED
      BY <1>4, <3>2, <3>3
  <2> QED
    BY <2>1, <2>2, <2>3
<1>13. CallsSound'
  BY <1>4, <1>10, <1>11, <1>12, CallsKept
<1> QED
  BY <1>7, <1>8, <1>9, <1>10, <1>13 DEF SessionInv

\* A rotation passes the family from the old row to one new row, or is refused.
LEMMA RotateSteps ==
    ASSUME SessionInv, NEW c \in Callers, NEW s \in Sids, RotateAdminSession(c, s)
    PROVE  SessionInv'
<1> USE ConstantTypes
<1>1. PICK q : q = call[c]
  OBVIOUS
<1>2. PICK old : old = {r \in RowOf(q.sid) : Rotatable(r, q.at)}
  OBVIOUS
<1>3. PICK n : n = NewRow(s, q.exp)
  OBVIOUS
<1>4. PICK U : U = {IF r \in old THEN Revoked(r, q.at, "rotated") ELSE r : r \in rows}
  OBVIOUS
<1>5. /\ q.step = "rotate" /\ Return(c) /\ UNCHANGED <<now, admin, attempts, reserved, serial>>
      /\ \/ /\ old # {} /\ family[s] = NoSid
            /\ rows' = KeptRows(U \cup {n}, q.at - Retention)
            /\ family' = [family EXCEPT ![s] = family[q.sid]]
         \/ old = {} /\ UNCHANGED <<rows, family>>
  BY <1>1, <1>2, <1>3, <1>4 DEF RotateAdminSession
<1>6. Refreshing(c) /\ q.sid \in Sids /\ q.at \in Nat /\ q.exp \in Nat /\ now \in Nat
  BY <1>1, <1>5, CallKinds DEF Refreshing, SessionInv, LoginTypes
<1>7. /\ q.at <= now /\ family[q.sid] # NoSid /\ q.exp <= q.at + SessionLife
      /\ \A r \in rows : family[r.sid] = family[q.sid] => r.exp = q.exp
  BY <1>1, <1>5, <1>6, CallKinds DEF SessionInv, CallsSound
<1>8. LoginTypes' /\ CallTypes' /\ \A d \in Callers : call'[d] = call[d] \/ call'[d] = Idle
  BY <1>5, ReturnTypes DEF SessionInv, LoginTypes
<1>9. CASE old = {}
  <2>1. UNCHANGED <<rows, family>>
    BY <1>5, <1>9
  <2>2. CallsSound'
    BY <1>5, <1>8, <2>1, CallsKept DEF SessionInv, CallsSound
  <2> QED
    BY <1>5, <1>8, <2>1, <2>2 DEF SessionInv
<1>10. CASE old # {}
  <2>1. PICK o \in old : TRUE
    BY <1>10
  <2>2. /\ old \in SUBSET rows
        /\ \A r \in old : r.sid = q.sid /\ Unrevoked(r)
    BY <1>2 DEF RowOf, Rotatable
  <2>3. \A r \in old : r.exp <= q.at + SessionLife
    BY <1>7, <2>2
  <2>4. /\ Coherent(U, family, now)
        /\ \A r \in rows : \E u \in U : u.sid = r.sid
        /\ \A u \in U : \E r \in rows :
              u.sid = r.sid /\ u.exp = r.exp /\ (Unrevoked(u) => u = r /\ r \notin old)
        /\ \A u \in U : u.reason = "refresh_replayed" => u \in rows
    <3>1. Due(rows, family, old, q.at, "rotated")
      BY <2>2, <2>3 DEF Due, Reasons
    <3>2. Revocation(rows, U, old, q.at, "rotated")
      BY <1>4, RevocationOf
    <3>3. Coherent(rows, family, now)
      BY DEF SessionInv
    <3>4. Coherent(U, family, now) /\ Traced(rows, U, old) /\ NoNewReplay(rows, U)
      BY <1>6, <3>1, <3>2, <3>3, RevokeCoherent
    <3> QED
      BY <3>4 DEF Traced, NoNewReplay
  <2>5. PICK f : f = family[q.sid]
    OBVIOUS
  <2>6. f \in Sids /\ family[f] # NoSid
    BY <1>6, <1>7, <2>5 DEF SessionInv, Founded
  <2>7. o.exp = q.exp /\ family[o.sid] = f /\ o \in rows /\ Unrevoked(o)
    BY <1>7, <2>1, <2>2, <2>5
  <2>8. q.exp <= now + SessionLife
    BY <2>7 DEF SessionInv, Coherent
  <2>9. ASSUME NEW u \in U, family[u.sid] = f
        PROVE  u.exp = q.exp /\ ~Unrevoked(u) /\ u.reason # "refresh_replayed"
    <3>1. PICK r \in rows :
            u.sid = r.sid /\ u.exp = r.exp /\ (Unrevoked(u) => u = r /\ r \notin old)
      BY <2>4
    <3>2. u.exp = q.exp
      BY <1>7, <2>5, <2>9, <3>1
    <3>3. ~Unrevoked(u)
      BY <2>1, <2>7, <2>9, <3>1 DEF SessionInv, Coherent
    <3>4. u.reason # "refresh_replayed"
      BY <2>4, <2>7, <2>9 DEF SessionInv, Coherent
    <3> QED
      BY <3>2, <3>3, <3>4
  <2>10. ASSUME NEW x \in Sids, family[x] = f
         PROVE  q.exp <= now \/ \E u \in U : u.sid = x
    <3>1. \/ \E r \in rows : r.sid = x
          \/ \A r \in rows : family[r.sid] = family[x] /\ Unrevoked(r) => r.exp <= now
      BY <1>7, <2>5, <2>10 DEF SessionInv, Coherent
    <3> QED
      BY <2>4, <2>7, <2>10, <3>1
  <2>11. /\ family[s] = NoSid /\ rows' = KeptRows(U \cup {n}, q.at - Retention)
         /\ family' = [family EXCEPT ![s] = f]
    BY <1>5, <1>10, <2>5
  <2>12. /\ Coherent(U \cup {n}, family', now) /\ Founded(family')
         /\ n.sid = s /\ n.exp = q.exp
    <3>1. Joins(family, family', s, f)
      BY <2>6, <2>11 DEF Joins, SessionInv, Founded
    <3>2. Expects(U, family, now, f, q.exp)
      BY <2>6, <2>9, <2>10 DEF Expects
    <3>3. Coherent(U, family, now) /\ Founded(family)
      BY <2>4 DEF SessionInv
    <3> QED
      BY <1>3, <1>6, <2>6, <2>8, <2>11, <3>1, <3>2, <3>3, InsertCoherent
  <2>13. Coherent(rows', family', now')
    BY <1>5, <1>6, <1>7, <2>11, <2>12, PruneCoherent
  <2>14. /\ \A x \in Sids : family[x] # NoSid => family'[x] = family[x]
         /\ family'[s] = f
    BY <2>11 DEF SessionInv, Founded
  <2>15. ASSUME NEW r \in rows', NEW d \in Callers, Refreshing(d),
                family'[r.sid] = family[call[d].sid]
         PROVE  r.exp = call[d].exp
    <3>1. r \in U \/ r = n
      BY <2>11 DEF KeptRows
    <3>2. \A x \in rows : family[x.sid] = family[call[d].sid] => x.exp = call[d].exp
      BY <2>15 DEF SessionInv, CallsSound
    <3>3. CASE r \in U
      <4>1. PICK x \in rows : r.sid = x.sid /\ r.exp = x.exp
        BY <2>4, <3>3
      <4>2. x.sid \in Sids /\ family[x.sid] # NoSid
        BY DEF SessionInv, Coherent, Row
      <4> QED
        BY <2>14, <2>15, <3>2, <4>1, <4>2
    <3>4. CASE r = n
      BY <2>7, <2>12, <2>14, <2>15, <3>2, <3>4
    <3> QED
      BY <3>1, <3>3, <3>4
  <2>16. CallsSound'
    BY <1>5, <1>8, <2>14, <2>15, CallsKept
  <2> QED
    BY <1>8, <2>12, <2>13, <2>16 DEF SessionInv
<1> QED
  BY <1>9, <1>10

\* A revocation, by a logout or after a replay, while requests go on or end.
LEMMA RevokeSteps ==
    ASSUME SessionInv, UNCHANGED <<now, admin, attempts, reserved, serial, family>>, CallTypes',
           \A d \in Callers : call'[d] = call[d] \/ call'[d] = Idle,
           NEW S, NEW at \in Nat, NEW reason, Due(rows, family, S, at, reason),
           Revocation(rows, rows', S, at, reason)
    PROVE  SessionInv'
<1>1. now \in Nat /\ Coherent(rows, family, now)
  BY ConstantTypes DEF SessionInv, LoginTypes
<1>2. Coherent(rows', family, now) /\ Traced(rows, rows', S)
  BY <1>1, RevokeCoherent
<1>3. LoginTypes' /\ Founded(family') /\ Coherent(rows', family', now')
  BY <1>2 DEF SessionInv, LoginTypes
<1>4. \A r \in rows', d \in Callers :
         Refreshing(d) /\ family'[r.sid] = family[call[d].sid] => r.exp = call[d].exp
  <2> SUFFICES ASSUME NEW r \in rows', NEW d \in Callers, Refreshing(d),
                      family[r.sid] = family[call[d].sid]
               PROVE  r.exp = call[d].exp
    OBVIOUS
  <2>1. PICK x \in rows : r.sid = x.sid /\ r.exp = x.exp
    BY <1>2 DEF Traced
  <2> QED
    BY <2>1 DEF SessionInv, CallsSound
<1>5. CallsSound'
  BY <1>4, CallsKept
<1> QED
  BY <1>3, <1>5 DEF SessionInv

\* A replay revokes whatever is left of the family.
LEMMA RevokeFamilySteps ==
    ASSUME SessionInv, NEW c \in Callers, RevokeAdminSessionFamily(c)
    PROVE  SessionInv'
<1>1. PICK q : q = call[c]
  OBVIOUS
<1>2. PICK S : S = {r \in rows : family[r.sid] = family[q.sid]}
  OBVIOUS
<1>3. /\ q.step = "revoke" /\ Return(c)
      /\ UNCHANGED <<now, admin, attempts, reserved, serial, family>>
      /\ rows' = {IF family[r.sid] = family[q.sid] THEN Revoked(r, q.at, "refresh_replayed") ELSE r
                     : r \in rows}
  BY <1>1 DEF RevokeAdminSessionFamily
<1>4. Refreshing(c) /\ q.at \in Nat
  BY <1>1, <1>3, CallKinds, ConstantTypes DEF Refreshing, SessionInv
<1>5. /\ q.exp <= q.at + SessionLife
      /\ \A r \in rows : family[r.sid] = family[q.sid] => r.exp = q.exp
  BY <1>1, <1>4 DEF SessionInv, CallsSound
<1>6. Due(rows, family, S, q.at, "refresh_replayed")
  BY <1>2, <1>5 DEF Due, Reasons
<1>7. Revocation(rows, rows', S, q.at, "refresh_replayed")
  <2>1. rows' = {IF r \in S THEN Revoked(r, q.at, "refresh_replayed") ELSE r : r \in rows}
    BY <1>2, <1>3
  <2> QED
    BY <2>1, RevocationOf
<1>8. CallTypes' /\ \A d \in Callers : call'[d] = call[d] \/ call'[d] = Idle
  BY <1>3, ReturnTypes DEF SessionInv
<1> QED
  BY <1>3, <1>4, <1>6, <1>7, <1>8, RevokeSteps

\* A logout revokes the row of its cookie.
LEMMA LogoutSteps ==
    ASSUME SessionInv, NEW s \in Sids, Logout(s)
    PROVE  SessionInv'
<1>1. PICK S : S = {r \in rows : r.sid = s}
  OBVIOUS
<1>2. /\ UNCHANGED <<now, admin, attempts, reserved, serial, family, call>>
      /\ rows' = {IF r.sid = s THEN Revoked(r, now, "logout") ELSE r : r \in rows}
  BY DEF Logout
<1>3. now \in Nat /\ \A r \in rows : r.exp <= now + SessionLife
  BY ConstantTypes DEF SessionInv, LoginTypes, Coherent
<1>4. Due(rows, family, S, now, "logout")
  BY <1>1, <1>3 DEF Due, Reasons
<1>5. Revocation(rows, rows', S, now, "logout")
  <2>1. rows' = {IF r \in S THEN Revoked(r, now, "logout") ELSE r : r \in rows}
    BY <1>1, <1>2
  <2> QED
    BY <2>1, RevocationOf
<1>6. CallTypes'
  BY <1>2 DEF SessionInv, CallTypes
<1> QED
  BY <1>2, <1>3, <1>4, <1>5, <1>6, RevokeSteps

\* Reading a session for a rotation changes no table.
LEMMA RefreshSteps ==
    ASSUME SessionInv, NEW c \in Callers, NEW s \in Sids, NEW at \in Times, Refresh(c, s, at)
    PROVE  SessionInv'
<1>1. /\ at <= now /\ UNCHANGED <<now, admin, attempts, reserved, serial, rows, family>>
      /\ \E r \in RowOf(s) :
            /\ r.exp <= at + SessionLife
            /\ \E step \in {"rotate", "revoke"} :
                  call' = [call EXCEPT ![c] = [step |-> step, sid |-> s, at |-> at, exp |-> r.exp]]
  BY DEF Refresh, ClockReads, Become
<1>2. PICK r \in RowOf(s), step \in {"rotate", "revoke"} :
         /\ r.exp <= at + SessionLife
         /\ call' = [call EXCEPT ![c] = [step |-> step, sid |-> s, at |-> at, exp |-> r.exp]]
  BY <1>1
<1>3. PICK q : q = [step |-> step, sid |-> s, at |-> at, exp |-> r.exp]
  OBVIOUS
<1>4. r \in rows /\ r.sid = s /\ r \in Row
  BY DEF RowOf, SessionInv, Coherent
<1>5. q \in RefreshCall /\ q.sid = s /\ q.at = at /\ q.exp = r.exp
  BY <1>3, <1>4 DEF RefreshCall, Row
<1>6. call' = [call EXCEPT ![c] = q]
  BY <1>2, <1>3
<1>7. LoginTypes' /\ CallTypes' /\ Founded(family') /\ Coherent(rows', family', now')
  BY <1>1, <1>5, <1>6 DEF SessionInv, LoginTypes, CallTypes
<1>8. call'[c] = q /\ \A d \in Callers \ {c} : call'[d] = call[d]
  BY <1>6 DEF SessionInv, CallTypes
<1>9. /\ family[s] # NoSid
      /\ \A x \in rows : family[x.sid] = family[s] => x.exp = r.exp
  BY <1>4 DEF SessionInv, Coherent
<1>10. CallsSound'
  BY <1>1, <1>2, <1>5, <1>8, <1>9 DEF SessionInv, CallsSound, Refreshing
<1> QED
  BY <1>7, <1>10 DEF SessionInv

\* The empty tables satisfy the session invariant.
LEMMA SessionInit == Init => SessionInv
<1> SUFFICES ASSUME Init PROVE SessionInv
  OBVIOUS
<1>1. LoginTypes /\ CallTypes
  BY ConstantTypes DEF Init, LoginTypes, CallTypes, Times
<1>2. Founded(family)
  BY DEF Init, Founded
<1>3. Coherent(rows, family, now)
  BY DEF Init, Coherent
<1>4. CallsSound
  BY DEF Init, CallsSound, Refreshing, Idle
<1> QED
  BY <1>1, <1>2, <1>3, <1>4 DEF SessionInv

\* Every step keeps the session invariant: one case per handler step.
LEMMA SessionStep == SessionInv /\ [Next]_vars => SessionInv'
<1> SUFFICES ASSUME SessionInv, [Next]_vars PROVE SessionInv'
  OBVIOUS
<1>1. CASE Tick
  <2>1. /\ now < MaxNow /\ now' = now + 1
        /\ UNCHANGED <<admin, attempts, reserved, serial, rows, family, call>>
    BY <1>1 DEF Tick
  <2>2. now \in Nat /\ now' \in Nat /\ now <= now' /\ now' \in Times
    BY <2>1, ConstantTypes DEF SessionInv, LoginTypes, Times
  <2>3. Coherent(rows', family', now')
    BY <2>1, <2>2, LaterCoherent DEF SessionInv
  <2>4. LoginTypes' /\ CallTypes' /\ Founded(family')
    BY <2>1, <2>2 DEF SessionInv, LoginTypes, CallTypes
  <2>5. \A c \in Callers : call[c] # Idle => call[c].at \in Nat
    BY ConstantTypes DEF SessionInv, CallTypes, LoginCall, RefreshCall
  <2>6. \A c \in Callers : call[c] # Idle => call[c].at <= now'
    BY <2>2, <2>5 DEF SessionInv, CallsSound
  <2>7. CallsSound'
    BY <2>1, <2>6 DEF SessionInv, CallsSound, Refreshing
  <2> QED
    BY <2>3, <2>4, <2>7 DEF SessionInv
<1>2. CASE BootstrapAdmin \/ UNCHANGED vars
  <2>1. UNCHANGED <<now, attempts, reserved, serial, rows, family, call>> /\ admin' \in BOOLEAN
    BY <1>2 DEF BootstrapAdmin, vars, SessionInv, LoginTypes
  <2>2. LoginTypes' /\ CallTypes' /\ Founded(family') /\ Coherent(rows', family', now')
    BY <2>1 DEF SessionInv, LoginTypes, CallTypes
  <2>3. CallsSound'
    BY <2>1 DEF SessionInv, CallsSound, Refreshing
  <2> QED
    BY <2>2, <2>3 DEF SessionInv
<1>3. CASE Restart
  <2>1. /\ call' = [c \in Callers |-> Idle]
        /\ UNCHANGED <<now, admin, attempts, reserved, serial, rows, family>>
    BY <1>3 DEF Restart
  <2>2. LoginTypes' /\ CallTypes' /\ Founded(family') /\ Coherent(rows', family', now')
    BY <2>1 DEF SessionInv, LoginTypes, CallTypes
  <2>3. CallsSound'
    BY <2>1 DEF CallsSound, Refreshing, Idle
  <2> QED
    BY <2>2, <2>3 DEF SessionInv
<1>4. ASSUME NEW s \in Sids, Logout(s) PROVE SessionInv'
  BY <1>4, LogoutSteps
<1>5. ASSUME NEW c \in Callers,
             \/ \E n \in Names, i \in Ips, good \in BOOLEAN, at \in Times : Login(c, n, i, good, at)
             \/ CompleteAdminLoginFailure(c) \/ ReleaseAdminLoginReservation(c)
      PROVE  SessionInv'
  <2>1. UNCHANGED <<now, admin, rows, family>>
    BY <1>5 DEF Login, CompleteAdminLoginFailure, ReleaseAdminLoginReservation
  <2> QED
    BY <1>5, <2>1, LoginSteps
<1>6. ASSUME NEW c \in Callers, RevokeAdminSessionFamily(c) PROVE SessionInv'
  BY <1>6, RevokeFamilySteps
<1>7. ASSUME NEW c \in Callers, NEW s \in Sids, CreateAdminSessionWithReservedLoginSuccess(c, s)
      PROVE  SessionInv'
  BY <1>7, CreateSteps
<1>8. ASSUME NEW c \in Callers, NEW s \in Sids, NEW at \in Times, Refresh(c, s, at)
      PROVE  SessionInv'
  BY <1>8, RefreshSteps
<1>9. ASSUME NEW c \in Callers, NEW s \in Sids, RotateAdminSession(c, s)
      PROVE  SessionInv'
  BY <1>9, RotateSteps
<1> QED
  BY <1>1, <1>2, <1>3, <1>4, <1>5, <1>6, <1>7, <1>8, <1>9 DEF Next

\* The session invariant holds in every reachable state.
LEMMA SessionInvariant == Spec => []SessionInv
BY SessionInit, SessionStep, PTL DEF Spec

\* Types of the tables; no two rows of admin_sessions share an id, and every row
\* belongs to a family.
THEOREM AuthTypeCorrect == Spec => []TypeOK
<1>1. SessionInv => TypeOK
  BY DEF SessionInv, LoginTypes, CallTypes, Founded, Coherent, TypeOK
<1> QED
  BY <1>1, SessionInvariant, PTL

\* Of all sessions one login has led to, at most one can be refreshed or can
\* authenticate, however refreshes, logouts and replays interleave
\* (RotateAdminSession's conditional update).
THEOREM RotationExclusive == Spec => []OneHeirPerFamily
<1>1. SessionInv => OneHeirPerFamily
  <2> SUFFICES ASSUME SessionInv, NEW f \in Sids
               PROVE  Cardinality({r \in Family(f) : Unrevoked(r)}) <= 1
    BY DEF OneHeirPerFamily
  <2>0. PICK H : H = {r \in Family(f) : Unrevoked(r)}
    OBVIOUS
  <2>1. \A r, q \in H : r = q
    BY <2>0 DEF SessionInv, Coherent, Family
  <2>2. CASE H = {}
    BY <2>0, <2>2, FS_EmptySet
  <2>3. CASE H # {}
    <3>1. PICK r : r \in H
      BY <2>3
    <3>2. H = {r}
      BY <2>1, <3>1
    <3>3. Cardinality({r}) = 1
      BY FS_Singleton
    <3> QED
      BY <2>0, <3>2, <3>3
  <2> QED
    BY <2>2, <2>3
<1> QED
  BY <1>1, SessionInvariant, PTL

\* After a replay no session of the family works any more; a refresh that was
\* under way does not bring it back (RevokeAdminSessionFamily).
THEOREM ReplayIsFinal == Spec => []ReplayEndsFamily
<1>1. SessionInv => ReplayEndsFamily
  BY DEF SessionInv, Coherent, Family, ReplayEndsFamily
<1> QED
  BY <1>1, SessionInvariant, PTL

\* While a family has an active session, the rows it rotated out are still there
\* to recognise a replay by (deleteInactiveAdminSessionsBefore): history is kept
\* at least as long as a session lives.
THEOREM ReplaysRecognised == Spec => []RotatedRemembered
<1>1. SessionInv => RotatedRemembered
  <2> SUFFICES ASSUME SessionInv, NEW s \in Sids, family[s] # NoSid, RowOf(s) = {},
                      NEW r \in Family(family[s]), Unrevoked(r)
               PROVE  ~(now < r.exp)
    BY DEF RotatedRemembered, Active
  <2>1. r \in rows /\ family[r.sid] = family[s] /\ r.exp \in Nat /\ now \in Nat
    BY ConstantTypes DEF Family, SessionInv, Coherent, Row, LoginTypes
  <2>2. r.exp <= now
    BY <2>1 DEF SessionInv, Coherent, RowOf
  <2> QED
    BY <2>1, <2>2
<1> QED
  BY <1>1, SessionInvariant, PTL

-----------------------------------------------------------------------------
(* The login limit.                                                        *)

\* A scope is a set of pairs of a name and an address: all names of an address,
\* or one of them.
Scopes == {Names \X {i} : i \in Ips} \cup {{<<n, i>>} : n \in Names, i \in Ips}
In(T, X) == {r \in T : <<r.name, r.ip>> \in X}
Load(X, since) == Pressure(In(attempts, X), In(reserved, X), since)

LimitHolds == \A X \in Scopes : Load(X, now - Window) <= Limit

\* No login that succeeds is in flight for as long as history is kept.
Prompt == \A c \in Callers : call[c].step = "create" => now <= call[c].at + (Retention - Window)

\* Ids of reservations tell them apart; attempts are numbered in their order, and
\* a success is not much older than what was recorded before it.
LoginsOrdered ==
    /\ IsFiniteSet(attempts) /\ IsFiniteSet(reserved)
    /\ \A r, x \in reserved : r.id = x.id => r = x
    /\ \A r \in reserved : r.at <= now
    /\ \A a \in attempts : a.id <= serial /\ a.at <= now
    /\ \A s, f \in attempts : s.ok /\ f.id <= s.id => f.at <= s.at + (Retention - Window)

LoginInv == SessionInv /\ LoginsOrdered /\ LimitHolds

\* The limit by address and the limit by name count attempts in one kind of scope.
LEMMA ScopeTypes ==
    ASSUME LoginTypes
    PROVE  /\ \A i \in Ips : /\ ByIp(attempts, i) = In(attempts, Names \X {i})
                             /\ ByIp(reserved, i) = In(reserved, Names \X {i})
           /\ \A i \in Ips, n \in Names :
                 /\ ByName(attempts, n, i) = In(attempts, {<<n, i>>})
                 /\ ByName(reserved, n, i) = In(reserved, {<<n, i>>})
<1>1. /\ \A a \in attempts : a.name \in Names /\ a.ip \in Ips
      /\ \A r \in reserved : r.name \in Names /\ r.ip \in Ips
  BY DEF LoginTypes, Attempt, Reserve
<1> QED
  BY <1>1 DEF ByIp, ByName, In

\* The limit on scopes is the limit of the code.
LEMMA LimitMeans == LoginTypes /\ LimitHolds => LoginLimit
<1> SUFFICES ASSUME LoginTypes, LimitHolds, NEW i \in Ips
             PROVE  /\ Pressure(ByIp(attempts, i), ByIp(reserved, i), now - Window) <= Limit
                    /\ \A n \in Names :
                          Pressure(ByName(attempts, n, i), ByName(reserved, n, i), now - Window)
                             <= Limit
  BY DEF LoginLimit
<1>1. Names \X {i} \in Scopes /\ \A n \in Names : {<<n, i>>} \in Scopes
  BY DEF Scopes
<1> QED
  BY <1>1, ScopeTypes DEF LimitHolds, Load

\* A login that was admitted found each of its scopes below the limit.
LEMMA AdmittedMeans ==
    ASSUME LoginTypes, NEW name \in Names, NEW ip \in Ips, NEW since, Admitted(name, ip, since),
           NEW X \in Scopes, <<name, ip>> \in X
    PROVE  Load(X, since) < Limit
<1>1. X = Names \X {ip} \/ X = {<<name, ip>>}
  BY DEF Scopes
<1> QED
  BY <1>1, ScopeTypes DEF Admitted, Load

\* Sizes: fewer failures and fewer reservations, one more reservation, and a
\* reservation exchanged for a failure.
Held(H, since) == {r \in H : r.at >= since}

\* How failures and reservations added or removed change the number they add up to.
LEMMA LoadBounds ==
    ASSUME NEW A, NEW H, NEW since, IsFiniteSet(A), IsFiniteSet(H),
           NEW A2, NEW H2, NEW since2
    PROVE  /\ Pressure(A, H, since) \in Nat
           /\ Failures(A2, since2) \subseteq Failures(A, since) /\ Held(H2, since2) \subseteq Held(H, since)
                 => Pressure(A2, H2, since2) <= Pressure(A, H, since)
           /\ \A z : /\ Failures(A2, since2) \subseteq Failures(A, since)
                     /\ Held(H2, since2) \subseteq Held(H, since) \cup {z}
                 => Pressure(A2, H2, since2) <= Pressure(A, H, since) + 1
           /\ \A f, z : /\ Failures(A2, since2) \subseteq Failures(A, since) \cup {f}
                        /\ Held(H2, since2) \subseteq Held(H, since) \ {z}
                        /\ z \in Held(H, since)
                 => Pressure(A2, H2, since2) <= Pressure(A, H, since)
<1>1. PICK F : F = Failures(A, since)
  OBVIOUS
<1>2. PICK G : G = Held(H, since)
  OBVIOUS
<1>3. PICK F2 : F2 = Failures(A2, since2)
  OBVIOUS
<1>4. PICK G2 : G2 = Held(H2, since2)
  OBVIOUS
<1>5. /\ Pressure(A, H, since) = Cardinality(F) + Cardinality(G)
      /\ Pressure(A2, H2, since2) = Cardinality(F2) + Cardinality(G2)
  BY <1>1, <1>2, <1>3, <1>4 DEF Pressure, Held
<1>6. IsFiniteSet(F) /\ IsFiniteSet(G)
  <2>1. F \in SUBSET A /\ G \in SUBSET H
    BY <1>1, <1>2 DEF Failures, Held
  <2> QED
    BY <2>1, FS_Subset
<1>7. Cardinality(F) \in Nat /\ Cardinality(G) \in Nat
  BY <1>6, FS_CardinalityType
<1>8. ASSUME NEW S, IsFiniteSet(S), NEW R, R \subseteq S
      PROVE  IsFiniteSet(R) /\ Cardinality(R) \in Nat /\ Cardinality(R) <= Cardinality(S)
  <2>1. R \in SUBSET S
    BY <1>8
  <2> QED
    BY <1>8, <2>1, FS_Subset, FS_CardinalityType
<1>9. ASSUME NEW S, IsFiniteSet(S), NEW z, NEW R, R \subseteq S \cup {z}
      PROVE  Cardinality(R) \in Nat /\ Cardinality(R) <= Cardinality(S) + 1
  <2>1. /\ IsFiniteSet(S \cup {z})
        /\ Cardinality(S \cup {z}) = IF z \in S THEN Cardinality(S) ELSE Cardinality(S) + 1
    BY <1>9, FS_AddElement
  <2>2. Cardinality(S) \in Nat
    BY <1>9, FS_CardinalityType
  <2>3. Cardinality(R) \in Nat /\ Cardinality(R) <= Cardinality(S \cup {z})
    BY <1>8, <1>9, <2>1
  <2> QED
    BY <2>1, <2>2, <2>3
<1>10. F2 \subseteq F /\ G2 \subseteq G
          => Cardinality(F2) + Cardinality(G2) <= Cardinality(F) + Cardinality(G)
  BY <1>6, <1>7, <1>8
<1>11. ASSUME NEW z, F2 \subseteq F, G2 \subseteq G \cup {z}
       PROVE  Cardinality(F2) + Cardinality(G2) <= Cardinality(F) + Cardinality(G) + 1
  <2>1. Cardinality(F2) \in Nat /\ Cardinality(F2) <= Cardinality(F)
    BY <1>6, <1>8, <1>11
  <2>2. Cardinality(G2) \in Nat /\ Cardinality(G2) <= Cardinality(G) + 1
    BY <1>6, <1>9, <1>11
  <2> QED
    BY <1>7, <2>1, <2>2
<1>12. ASSUME NEW f, NEW z, F2 \subseteq F \cup {f}, G2 \subseteq G \ {z}, z \in G
       PROVE  Cardinality(F2) + Cardinality(G2) <= Cardinality(F) + Cardinality(G)
  <2>1. Cardinality(F2) \in Nat /\ Cardinality(F2) <= Cardinality(F) + 1
    BY <1>6, <1>9, <1>12
  <2>2. IsFiniteSet(G \ {z}) /\ Cardinality(G \ {z}) = Cardinality(G) - 1
    BY <1>6, <1>12, FS_RemoveElement
  <2>3. Cardinality(G2) \in Nat /\ Cardinality(G2) <= Cardinality(G) - 1
    BY <1>8, <1>12, <2>2
  <2> QED
    BY <1>7, <2>1, <2>3
<1> QED
  BY <1>1, <1>2, <1>3, <1>4, <1>5, <1>7, <1>10, <1>11, <1>12

\* What a scope has on its account before and after a step.
LEMMA LoadMoves ==
    ASSUME SessionInv, LoginsOrdered, LimitHolds, NEW X \in Scopes
    PROVE  /\ IsFiniteSet(In(attempts, X)) /\ IsFiniteSet(In(reserved, X))
           /\ Load(X, now - Window) \in Nat /\ Load(X, now - Window) <= Limit
<1>1. In(attempts, X) \in SUBSET attempts /\ In(reserved, X) \in SUBSET reserved
  BY DEF In
<1>2. IsFiniteSet(In(attempts, X)) /\ IsFiniteSet(In(reserved, X))
  BY <1>1, FS_Subset DEF LoginsOrdered
<1> QED
  BY <1>2, LoadBounds DEF Load, LimitHolds

\* Attempts and reservations carry natural numbers.
LEMMA AttemptTypes ==
    ASSUME SessionInv
    PROVE  /\ now \in Nat /\ serial \in Nat
           /\ \A a \in attempts : a.id \in Nat /\ a.at \in Nat
           /\ \A r \in reserved : r.at \in Nat
<1>1. 1 .. MaxSerial \subseteq Nat /\ Times \subseteq Nat /\ 0 .. MaxSerial \subseteq Nat
  BY ConstantTypes
<1> QED
  BY <1>1 DEF SessionInv, LoginTypes, Attempt, Reserve

\* Fewer failures and reservations, or a later time.
LEMMA LimitShrinks ==
    ASSUME SessionInv, LoginsOrdered, LimitHolds, now' \in Nat, now <= now',
           \A X \in Scopes : Failures(In(attempts, X)', now' - Window)
                                \subseteq Failures(In(attempts, X), now - Window),
           reserved' \subseteq reserved
    PROVE  LimitHolds'
<1> SUFFICES ASSUME NEW X \in Scopes
             PROVE  Pressure(In(attempts, X)', In(reserved, X)', now' - Window) <= Limit
  BY DEF LimitHolds, Load
<1>1. Held(In(reserved, X)', now' - Window) \subseteq Held(In(reserved, X), now - Window)
  <2> SUFFICES ASSUME NEW r \in reserved', <<r.name, r.ip>> \in X, r.at >= now' - Window
               PROVE  r \in reserved /\ r.at >= now - Window
    BY DEF Held, In
  <2>1. r \in reserved /\ r.at \in Nat /\ now \in Nat /\ Window \in Nat
    BY AttemptTypes, ConstantTypes
  <2> QED
    BY <2>1
<1>2. Pressure(In(attempts, X)', In(reserved, X)', now' - Window) <= Load(X, now - Window)
  BY <1>1, LoadMoves, LoadBounds DEF Load
<1>3. Pressure(In(attempts, X)', In(reserved, X)', now' - Window) \in Nat
  <2>1. Failures(In(attempts, X)', now' - Window) \in SUBSET In(attempts, X)
    BY DEF Failures
  <2>2. Held(In(reserved, X)', now' - Window) \in SUBSET In(reserved, X)
    BY <1>1 DEF Held
  <2>3. /\ Cardinality(Failures(In(attempts, X)', now' - Window)) \in Nat
        /\ Cardinality(Held(In(reserved, X)', now' - Window)) \in Nat
    BY <2>1, <2>2, LoadMoves, FS_Subset, FS_CardinalityType
  <2> QED
    BY <2>3 DEF Pressure, Held
<1> QED
  BY <1>2, <1>3, LoadMoves, ConstantTypes

\* Steps that record no attempt and reserve nothing.
LEMMA QuietSteps ==
    ASSUME SessionInv, LoginsOrdered, LimitHolds, now' \in Nat, now <= now',
           attempts' = attempts, serial' = serial, reserved' \subseteq reserved
    PROVE  LoginsOrdered' /\ LimitHolds'
<1>1. ASSUME NEW X \in Scopes
      PROVE  Failures(In(attempts, X)', now' - Window) \subseteq Failures(In(attempts, X), now - Window)
  <2>1. In(attempts, X)' = In(attempts, X)
    BY DEF In
  <2>2. \A a \in In(attempts, X) : a.at \in Nat
    BY AttemptTypes DEF In
  <2>3. \A a \in In(attempts, X) : a.at >= now' - Window => a.at >= now - Window
    BY <2>2, AttemptTypes, ConstantTypes
  <2> QED
    BY <2>1, <2>3 DEF Failures
<1>2. LimitHolds'
  BY <1>1, LimitShrinks
<1>3. IsFiniteSet(attempts') /\ IsFiniteSet(reserved')
  <2>1. reserved' \in SUBSET reserved
    OBVIOUS
  <2> QED
    BY <2>1, FS_Subset DEF LoginsOrdered
<1>4. \A r, x \in reserved' : r.id = x.id => r = x
  BY DEF LoginsOrdered
<1>5. \A r \in reserved' : r.at <= now'
  <2> SUFFICES ASSUME NEW r \in reserved' PROVE r.at <= now'
    OBVIOUS
  <2>1. r.at <= now /\ r.at \in Nat /\ now \in Nat
    BY AttemptTypes DEF LoginsOrdered
  <2> QED
    BY <2>1
<1>6. \A a \in attempts' : a.id <= serial' /\ a.at <= now'
  <2> SUFFICES ASSUME NEW a \in attempts PROVE a.id <= serial /\ a.at <= now'
    OBVIOUS
  <2>1. a.id <= serial /\ a.at <= now /\ a.at \in Nat /\ now \in Nat
    BY AttemptTypes DEF LoginsOrdered
  <2> QED
    BY <2>1
<1>7. \A s, f \in attempts' : s.ok /\ f.id <= s.id => f.at <= s.at + (Retention - Window)
  BY DEF LoginsOrdered
<1> QED
  BY <1>2, <1>3, <1>4, <1>5, <1>6, <1>7 DEF LoginsOrdered

\* A login is admitted with room for one more in each of its scopes.
LEMMA ReserveSteps ==
    ASSUME SessionInv, LoginsOrdered, LimitHolds,
           NEW c \in Callers, NEW name \in Names, NEW ip \in Ips, NEW good \in BOOLEAN,
           NEW at \in Times, Login(c, name, ip, good, at)
    PROVE  LoginsOrdered' /\ LimitHolds'
<1>1. PICK z : z = [id |-> Min(FreeIds), name |-> name, ip |-> ip, at |-> at]
  OBVIOUS
<1>2. /\ at <= now /\ Admitted(name, ip, at - Window) /\ FreeIds # {}
      /\ reserved' = reserved \cup {z}
      /\ UNCHANGED <<now, attempts, serial>>
  BY <1>1 DEF Login, ClockReads
<1>3. Min(FreeIds) \in FreeIds
  <2>1. FreeIds \in SUBSET (1 .. MaxHeld)
    BY DEF FreeIds
  <2>2. FreeIds \in SUBSET Nat
    BY <2>1
  <2> QED
    BY <1>2, <2>2, MinMember
<1>4. z.id = Min(FreeIds) /\ z.name = name /\ z.ip = ip /\ z.at = at /\ at \in Nat
  BY <1>1, ConstantTypes
<1>5. \A r \in reserved : r.id # z.id
  BY <1>3, <1>4 DEF FreeIds
<1>6. \A r, x \in reserved' : r.id = x.id => r = x
  BY <1>2, <1>5 DEF LoginsOrdered
<1>7. LoginsOrdered'
  <2>1. IsFiniteSet(reserved')
    BY <1>2, FS_AddElement DEF LoginsOrdered
  <2>2. \A r \in reserved' : r.at <= now
    BY <1>2, <1>4 DEF LoginsOrdered
  <2> QED
    BY <1>2, <1>6, <2>1, <2>2 DEF LoginsOrdered
<1>8. ASSUME NEW X \in Scopes
      PROVE  Pressure(In(attempts, X), In(reserved', X), now - Window) <= Limit
  <2>1. CASE <<name, ip>> \in X
    <3>1. Load(X, at - Window) < Limit
      BY <1>2, <2>1, AdmittedMeans DEF SessionInv
    <3>2. /\ IsFiniteSet(In(attempts, X)) /\ IsFiniteSet(In(reserved, X))
          /\ Load(X, at - Window) \in Nat
      BY LoadMoves, LoadBounds DEF Load
    <3>3. /\ \A a \in In(attempts, X) : a.at >= now - Window => a.at >= at - Window
          /\ \A r \in In(reserved, X) : r.at >= now - Window => r.at >= at - Window
      <4>1. /\ \A a \in In(attempts, X) : a.at \in Nat
            /\ \A r \in In(reserved, X) : r.at \in Nat
        BY AttemptTypes DEF In
      <4> QED
        BY <1>2, <1>4, <4>1, AttemptTypes, ConstantTypes
    <3>4. Failures(In(attempts, X), now - Window) \subseteq Failures(In(attempts, X), at - Window)
      BY <3>3 DEF Failures
    <3>5. In(reserved', X) \subseteq In(reserved, X) \cup {z}
      BY <1>2 DEF In
    <3>6. Held(In(reserved', X), now - Window) \subseteq Held(In(reserved, X), at - Window) \cup {z}
      BY <3>3, <3>5 DEF Held
    <3>7. Pressure(In(attempts, X), In(reserved', X), now - Window) <= Load(X, at - Window) + 1
      BY <3>2, <3>4, <3>6, LoadBounds DEF Load
    <3>8. Pressure(In(attempts, X), In(reserved', X), now - Window) \in Nat
      <4>1. IsFiniteSet(In(reserved', X))
        <5>1. In(reserved', X) \in SUBSET reserved'
          BY DEF In
        <5> QED
          BY <5>1, <1>7, FS_Subset DEF LoginsOrdered
      <4> QED
        BY <3>2, <4>1, LoadBounds
    <3> QED
      BY <3>1, <3>2, <3>7, <3>8, ConstantTypes
  <2>2. CASE <<name, ip>> \notin X
    <3>1. In(reserved', X) = In(reserved, X)
      BY <1>2, <1>4, <2>2 DEF In
    <3> QED
      BY <3>1, LoadMoves DEF Load
  <2> QED
    BY <2>1, <2>2
<1>9. LimitHolds'
  BY <1>2, <1>8 DEF LimitHolds, Load, In
<1> QED
  BY <1>7, <1>9

\* The failure an answered login leaves in place of its reservation.
Answered(id, z) == [id |-> id, name |-> z.name, ip |-> z.ip, ok |-> FALSE, at |-> z.at]

\* A failed login trades its reservation for a failure: the sum does not grow.
LEMMA FailureSteps ==
    ASSUME SessionInv, LoginsOrdered, LimitHolds, NEW c \in Callers, CompleteAdminLoginFailure(c)
    PROVE  LoginsOrdered' /\ LimitHolds'
<1>1. PICK Z : Z = {x \in reserved : x.id = call[c].id}
  OBVIOUS
<1>2. /\ serial' = serial + 1 /\ now' = now
      /\ attempts' = attempts \cup {Answered(serial + 1, r) : r \in Z}
      /\ reserved' = reserved \ Z
  BY <1>1 DEF CompleteAdminLoginFailure, Answered
<1>3. \A r, x \in Z : r = x /\ r \in reserved
  BY <1>1 DEF LoginsOrdered
<1>4. now \in Nat /\ serial \in Nat
  BY AttemptTypes
<1>5. CASE Z = {}
  <2>1. attempts' = attempts /\ reserved' = reserved
    BY <1>2, <1>5
  <2>2. LimitHolds'
    BY <1>2, <2>1 DEF LimitHolds, Load, In
  <2>3. \A a \in attempts : a.id <= serial + 1
    <3> SUFFICES ASSUME NEW a \in attempts PROVE a.id <= serial + 1
      OBVIOUS
    <3>1. a.id <= serial /\ a.id \in Nat
      BY AttemptTypes DEF LoginsOrdered
    <3> QED
      BY <1>4, <3>1
  <2> QED
    BY <1>2, <2>1, <2>2, <2>3 DEF LoginsOrdered
<1>6. CASE Z # {}
  <2>1. PICK z : Z = {z} /\ z \in reserved
    BY <1>3, <1>6
  <2>2. PICK a : a = Answered(serial + 1, z)
    OBVIOUS
  <2>3. /\ a.id = serial + 1 /\ a.name = z.name /\ a.ip = z.ip /\ a.ok = FALSE /\ a.at = z.at
        /\ z.at <= now /\ z.at \in Nat
    BY <2>1, <2>2, AttemptTypes DEF Answered, LoginsOrdered
  <2>4. attempts' = attempts \cup {a} /\ reserved' = reserved \ {z}
    BY <1>2, <2>1, <2>2
  <2>5. \A b \in attempts : b.id \in Nat /\ b.id <= serial /\ b.at <= now
    BY AttemptTypes DEF LoginsOrdered
  <2>6. LoginsOrdered'
    <3>1. IsFiniteSet(attempts') /\ IsFiniteSet(reserved')
      BY <2>4, FS_AddElement, FS_RemoveElement, <2>1 DEF LoginsOrdered
    <3>2. \A b \in attempts' : b.id <= serial' /\ b.at <= now'
      <4>1. \A b \in attempts : b.id <= serial + 1
        BY <1>4, <2>5
      <4> QED
        BY <1>2, <1>4, <2>3, <2>4, <2>5, <4>1
    <3>3. ASSUME NEW s \in attempts', NEW f \in attempts', s.ok, f.id <= s.id
          PROVE  f.at <= s.at + (Retention - Window)
      <4>1. s \in attempts
        BY <2>3, <2>4, <3>3
      <4>2. f \in attempts
        <5>1. ~(serial + 1 <= s.id)
          BY <1>4, <2>5, <4>1
        <5> QED
          BY <2>3, <2>4, <3>3, <5>1
      <4> QED
        BY <3>3, <4>1, <4>2 DEF LoginsOrdered
    <3>4. \A r, x \in reserved' : r.id = x.id => r = x
      BY <2>4 DEF LoginsOrdered
    <3>5. \A r \in reserved' : r.at <= now'
      BY <1>2, <2>4 DEF LoginsOrdered
    <3> QED
      BY <3>1, <3>2, <3>3, <3>4, <3>5 DEF LoginsOrdered
  <2>7. ASSUME NEW X \in Scopes
        PROVE  Pressure(In(attempts', X), In(reserved', X), now - Window) <= Load(X, now - Window)
    <3>1. \A b \in Failures(In(attempts', X), now - Window) :
             b # a => b \in Failures(In(attempts, X), now - Window)
      BY <2>4 DEF Failures, In
    <3>2. Held(In(reserved', X), now - Window) \subseteq Held(In(reserved, X), now - Window) \ {z}
      BY <2>4 DEF Held, In
    <3>3. IsFiniteSet(In(attempts, X)) /\ IsFiniteSet(In(reserved, X))
      BY LoadMoves
    <3>4. CASE <<z.name, z.ip>> \in X /\ z.at >= now - Window
      <4>1. z \in Held(In(reserved, X), now - Window)
        BY <2>1, <3>4 DEF Held, In
      <4>2. Failures(In(attempts', X), now - Window)
               \subseteq Failures(In(attempts, X), now - Window) \cup {a}
        BY <3>1
      <4> QED
        BY <3>2, <3>3, <4>1, <4>2, LoadBounds DEF Load
    <3>5. CASE ~(<<z.name, z.ip>> \in X /\ z.at >= now - Window)
      <4>1. a \notin Failures(In(attempts', X), now - Window)
        BY <2>3, <3>5 DEF Failures, In
      <4>2. /\ Failures(In(attempts', X), now - Window) \subseteq Failures(In(attempts, X), now - Window)
            /\ Held(In(reserved', X), now - Window) \subseteq Held(In(reserved, X), now - Window)
        BY <3>1, <3>2, <4>1
      <4> QED
        BY <3>3, <4>2, LoadBounds DEF Load
    <3> QED
      BY <3>4, <3>5
  <2>8. LimitHolds'
    <3> SUFFICES ASSUME NEW X \in Scopes
                 PROVE  Pressure(In(attempts', X), In(reserved', X), now - Window) <= Limit
      BY <1>2 DEF LimitHolds, Load, In
    <3>1. IsFiniteSet(In(attempts', X)) /\ IsFiniteSet(In(reserved', X))
      <4>1. In(attempts', X) \in SUBSET attempts' /\ In(reserved', X) \in SUBSET reserved'
        BY DEF In
      <4> QED
        BY <2>6, <4>1, FS_Subset DEF LoginsOrdered
    <3>2. Pressure(In(attempts', X), In(reserved', X), now - Window) \in Nat
      BY <3>1, LoadBounds
    <3> QED
      BY <2>7, <3>2, LoadMoves, ConstantTypes
  <2> QED
    BY <2>6, <2>8
<1> QED
  BY <1>5, <1>6

\* A success ends the count of its scopes, and what it prunes counts nowhere.
LEMMA SuccessSteps ==
    ASSUME SessionInv, LoginsOrdered, LimitHolds, Prompt, NEW c \in Callers, NEW s \in Sids,
           CreateAdminSessionWithReservedLoginSuccess(c, s)
    PROVE  LoginsOrdered' /\ LimitHolds'
<1>1. PICK q : q = call[c]
  OBVIOUS
<1>2. PICK a : a = [id |-> serial + 1, name |-> q.name, ip |-> q.ip, ok |-> TRUE, at |-> q.at]
  OBVIOUS
<1>3. /\ q.step = "create" /\ serial' = serial + 1 /\ now' = now
      /\ reserved' \subseteq reserved
      /\ attempts' = KeptAttempts(attempts \cup {a}, q.at - Retention)
  BY <1>1, <1>2 DEF CreateAdminSessionWithReservedLoginSuccess
<1>4. /\ now \in Nat /\ serial \in Nat /\ Window \in Nat /\ Retention \in Nat /\ Window <= Retention
      /\ \A b \in attempts : b.id \in Nat /\ b.at \in Nat /\ b.id <= serial /\ b.at <= now
  BY AttemptTypes, AdminAuthAssumption DEF LoginsOrdered
<1>5. q.at \in Nat /\ q.at <= now /\ now <= q.at + (Retention - Window)
  <2>1. q \in LoginCall
    BY <1>1, <1>3, CallKinds DEF SessionInv
  <2>2. q.at \in Nat
    BY <2>1, ConstantTypes DEF LoginCall
  <2>3. q # Idle
    BY <1>3 DEF Idle
  <2>4. q.at <= now
    BY <1>1, <2>3 DEF SessionInv, CallsSound
  <2> QED
    BY <1>1, <1>3, <2>2, <2>4 DEF Prompt
<1>6. a.id = serial + 1 /\ a.name = q.name /\ a.ip = q.ip /\ a.ok = TRUE /\ a.at = q.at
  BY <1>2
<1>7. /\ \A b \in attempts' : b \in attempts \cup {a}
      /\ \A b \in attempts : b \notin attempts' => ~(b.at >= q.at - Retention)
      /\ a \in attempts'
  <2>1. a.at >= q.at - Retention
    BY <1>4, <1>5, <1>6
  <2> QED
    BY <1>3, <2>1 DEF KeptAttempts
<1>8. LoginsOrdered'
  <2>1. IsFiniteSet(attempts') /\ IsFiniteSet(reserved')
    <3>1. IsFiniteSet(attempts \cup {a}) /\ IsFiniteSet(reserved)
      BY FS_AddElement DEF LoginsOrdered
    <3>2. attempts' \in SUBSET (attempts \cup {a}) /\ reserved' \in SUBSET reserved
      BY <1>3, <1>7
    <3> QED
      BY <3>1, <3>2, FS_Subset
  <2>2. \A r, x \in reserved' : r.id = x.id => r = x
    BY <1>3 DEF LoginsOrdered
  <2>3. \A r \in reserved' : r.at <= now'
    BY <1>3 DEF LoginsOrdered
  <2>4. \A b \in attempts : b.id <= serial + 1
    BY <1>4
  <2>5. ASSUME NEW b \in attempts' PROVE b.id <= serial' /\ b.at <= now'
    <3>1. CASE b = a
      BY <1>3, <1>4, <1>5, <1>6, <3>1
    <3>2. CASE b # a
      BY <1>3, <1>4, <1>7, <2>4, <3>2
    <3> QED
      BY <3>1, <3>2
  <2>6. ASSUME NEW x \in attempts', NEW f \in attempts', x.ok, f.id <= x.id
        PROVE  f.at <= x.at + (Retention - Window)
    <3>1. CASE x = a
      <4>1. f.at \in Nat /\ f.at <= now
        BY <1>4, <1>5, <1>6, <1>7
      <4> QED
        BY <1>4, <1>5, <1>6, <3>1, <4>1
    <3>2. CASE x # a
      <4>1. x \in attempts
        BY <1>7, <3>2
      <4>2. ~(serial + 1 <= x.id)
        BY <1>4, <4>1
      <4>3. f \in attempts
        BY <1>6, <1>7, <2>6, <4>2
      <4> QED
        BY <2>6, <4>1, <4>3 DEF LoginsOrdered
    <3> QED
      BY <3>1, <3>2
  <2> QED
    BY <2>1, <2>2, <2>3, <2>5, <2>6 DEF LoginsOrdered
<1>9. ASSUME NEW X \in Scopes
      PROVE  Failures(In(attempts', X), now - Window) \subseteq Failures(In(attempts, X), now - Window)
  <2> SUFFICES ASSUME NEW f \in Failures(In(attempts', X), now - Window)
               PROVE  f \in Failures(In(attempts, X), now - Window)
    OBVIOUS
  <2>1. /\ f \in attempts' /\ <<f.name, f.ip>> \in X /\ ~f.ok /\ f.at >= now - Window
        /\ \A x \in attempts' : <<x.name, x.ip>> \in X /\ x.ok => f.id > x.id
    BY DEF Failures, In
  <2>2. f \in attempts
    BY <1>6, <1>7, <2>1
  <2>3. ASSUME NEW x \in attempts, <<x.name, x.ip>> \in X, x.ok
        PROVE  f.id > x.id
    <3>1. CASE x \in attempts'
      BY <2>1, <2>3, <3>1
    <3>2. CASE x \notin attempts'
      <4>1. ~(x.at >= q.at - Retention)
        BY <1>7, <3>2
      <4>2. ~(f.at <= x.at + (Retention - Window))
        BY <1>4, <1>5, <2>1, <2>2, <4>1
      <4>3. ~(f.id <= x.id)
        BY <2>2, <2>3, <4>2 DEF LoginsOrdered
      <4> QED
        BY <1>4, <2>2, <4>3
    <3> QED
      BY <3>1, <3>2
  <2> QED
    BY <2>1, <2>2, <2>3 DEF Failures, In
<1>10. LimitHolds'
  <2>1. \A X \in Scopes : Failures(In(attempts, X)', now' - Window)
                             \subseteq Failures(In(attempts, X), now - Window)
    BY <1>3, <1>9 DEF In
  <2>2. now' \in Nat /\ now <= now'
    BY <1>3, <1>4
  <2> QED
    BY <1>3, <2>1, <2>2, LimitShrinks
<1> QED
  BY <1>8, <1>10

\* Every step keeps the login invariant while logins are prompt.
LEMMA LoginStep == LoginInv /\ Prompt /\ [Next]_vars => LoginInv'
<1> SUFFICES ASSUME SessionInv, LoginsOrdered, LimitHolds, Prompt, [Next]_vars
             PROVE  LoginsOrdered' /\ LimitHolds'
  BY SessionStep DEF LoginInv
<1>0. now \in Nat /\ now + 1 \in Nat /\ now <= now /\ now <= now + 1
  BY AttemptTypes
<1>1. CASE Tick
  <2>1. now' = now + 1 /\ UNCHANGED <<attempts, reserved, serial>>
    BY <1>1 DEF Tick
  <2> QED
    BY <1>0, <2>1, QuietSteps
<1>2. CASE \/ BootstrapAdmin \/ Restart \/ UNCHANGED vars
           \/ \E s \in Sids : Logout(s)
  <2>1. UNCHANGED <<now, attempts, reserved, serial>>
    BY <1>2 DEF BootstrapAdmin, Restart, Logout, vars
  <2> QED
    BY <1>0, <2>1, QuietSteps
<1>3. ASSUME NEW c \in Callers, NEW n \in Names, NEW i \in Ips, NEW good \in BOOLEAN,
             NEW at \in Times, Login(c, n, i, good, at)
      PROVE  LoginsOrdered' /\ LimitHolds'
  BY <1>3, ReserveSteps
<1>4. ASSUME NEW c \in Callers, CompleteAdminLoginFailure(c)
      PROVE  LoginsOrdered' /\ LimitHolds'
  BY <1>4, FailureSteps
<1>5. ASSUME NEW c \in Callers, ReleaseAdminLoginReservation(c) \/ RevokeAdminSessionFamily(c)
      PROVE  LoginsOrdered' /\ LimitHolds'
  <2>1. UNCHANGED <<now, attempts, serial>> /\ reserved' \subseteq reserved
    BY <1>5 DEF ReleaseAdminLoginReservation, RevokeAdminSessionFamily
  <2> QED
    BY <1>0, <2>1, QuietSteps
<1>6. ASSUME NEW c \in Callers, NEW s \in Sids, CreateAdminSessionWithReservedLoginSuccess(c, s)
      PROVE  LoginsOrdered' /\ LimitHolds'
  BY <1>6, SuccessSteps
<1>7. ASSUME NEW c \in Callers, NEW s \in Sids,
             RotateAdminSession(c, s) \/ \E at \in Times : Refresh(c, s, at)
      PROVE  LoginsOrdered' /\ LimitHolds'
  <2>1. UNCHANGED <<now, attempts, reserved, serial>>
    BY <1>7 DEF RotateAdminSession, Refresh
  <2> QED
    BY <1>0, <2>1, QuietSteps
<1> QED
  BY <1>1, <1>2, <1>3, <1>4, <1>5, <1>6, <1>7 DEF Next

\* The empty tables satisfy the login invariant.
LEMMA LoginInit == Init => LoginInv
<1> SUFFICES ASSUME Init PROVE LoginInv
  OBVIOUS
<1>1. attempts = {} /\ reserved = {} /\ now \in Nat
  BY SessionInit, AttemptTypes DEF Init
<1>2. LoginsOrdered
  BY <1>1, FS_EmptySet DEF LoginsOrdered
<1>3. LimitHolds
  <2> SUFFICES ASSUME NEW X \in Scopes PROVE Load(X, now - Window) <= Limit
    BY DEF LimitHolds
  <2>1. In(attempts, X) = {} /\ In(reserved, X) = {}
    BY <1>1 DEF In
  <2>2. Load(X, now - Window) = Cardinality({}) + Cardinality({})
    <3>1. Failures({}, now - Window) = {} /\ {r \in {} : r.at >= now - Window} = {}
      BY DEF Failures
    <3> QED
      BY <2>1, <3>1 DEF Load, Pressure
  <2> QED
    BY <2>2, FS_EmptySet, ConstantTypes
<1> QED
  BY <1>2, <1>3, SessionInit DEF LoginInv

\* Failures answered in the window and passwords being checked never exceed the
\* limit, per address and per name (CreateAdminLoginReservation counts both in
\* the statement that inserts).  The hypothesis is about pruning: a success has
\* the time at which its login began, so one that was in flight for longer than
\* history outlasts the window could be pruned while failures before it count.
THEOREM PasswordTriesLimited == Spec /\ []Prompt => []LoginLimit
<1>1. LoginInv => LoginLimit
  BY LimitMeans DEF LoginInv, SessionInv
<1> QED
  BY <1>1, LoginInit, LoginStep, PTL DEF Spec
=============================================================================
