------------------------- MODULE ClientAccessProofs -------------------------
(***************************************************************************)
(* Client access, for any number of keys, requests, administrators and     *)
(* policies: permits are counted exactly, a grant is one the key really    *)
(* had, revocation is final, and a minute's charges stay within the limit. *)
(*                                                                         *)
(* Two of the invariants need more than they say.  That the holders of a   *)
(* key's permits stay within the limit of one of them survives a release   *)
(* only because every subset of the holders does (Staged: whoever was      *)
(* admitted last among them was admitted beside the others).  That a grant *)
(* read with two statements is whole rests on the table itself always      *)
(* being whole (TableWhole) and on "all" being the policy of the empty     *)
(* scope list and of no other.                                             *)
(***************************************************************************)
EXTENDS ClientAccess, TLAPS, FiniteSetTheorems

Pairs == {"all", "allowlist"} \X SUBSET Models

CountsExact == \A k \in Keys : active[k] = Cardinality(Holders(k))

\* Among any holders of a key, one was admitted under a limit that covers them.
Staged ==
    \A k \in Keys : \A S \in SUBSET Holders(k) :
        S # {} => \E r \in S : Cardinality(S) <= call[r].row.slots

\* Policy and scopes in the table fit each other and are in the history.
TableWhole ==
    \A k \in Exists : /\ Fits(key[k].policy, scopes[k])
                      /\ <<key[k].policy, scopes[k]>> \in past[k]

\* The counter of the window is the number of charges of its minute, and later
\* minutes have none, as long as no charge has come late.
WindowTracks ==
    \A k \in clean :
        /\ charged[k][window[k].start] = window[k].count
        /\ \A m \in Minutes : m > window[k].start => charged[k][m] = 0

-----------------------------------------------------------------------------
(* The invariant, by who writes what: requests, handlers, the two tables.  *)

Call == [pc : {"idle", "scopes", "refuse", "clock", "charge", "acquire", "authorize", "serve"},
         key : Keys, row : Key, scopes : SUBSET Models, at : Minutes, counted : BOOLEAN]
Edit == [pc : {"idle", "check", "write", "revoke"}, key : Keys, draft : Draft]

Granted == {"clock", "charge", "acquire", "authorize", "serve"}

\* What AccessInv says of one request, and of one handler.
SoundCall(q) ==
    /\ q \in Call
    /\ q.counted => q.pc \in {"authorize", "serve"}
    /\ q.pc # "idle" => q.key \in Exists
    /\ q.pc \in Granted => <<q.row.policy, q.scopes>> \in past[q.key]

SoundEdit(h) ==
    /\ h \in Edit
    /\ h.pc # "idle" => h.key \in Exists
    /\ h.pc = "write" => Fits(h.draft.row.policy, h.draft.scopes)

CallsSound == call \in [Requests -> Call] /\ \A r \in Requests : SoundCall(call[r])
EditsSound == edit \in [Editors -> Edit] /\ \A e \in Editors : SoundEdit(edit[e])
TableSound == /\ Exists \subseteq Keys /\ key \in [Exists -> Key] /\ revoked \subseteq Exists
              /\ scopes \in [Keys -> SUBSET Models] /\ past \in [Keys -> SUBSET Pairs]
              /\ TableWhole
RateSound  == /\ window \in [Keys -> [start : Minutes, count : Nat]]
              /\ charged \in [Keys -> [Minutes -> Nat]] /\ clean \subseteq Keys
              /\ WindowTracks
PermitsSound == active \in [Keys -> Nat] /\ CountsExact /\ Staged

AccessInv == /\ CallsSound /\ EditsSound /\ TableSound /\ RateSound /\ PermitsSound
             /\ now \in Minutes

\* A call and an edit that have not begun have their types and hold nothing.
LEMMA IdleTypes ==
    /\ IdleCall \in Call /\ IdleCall.pc = "idle" /\ ~IdleCall.counted
    /\ IdleEdit \in Edit /\ IdleEdit.pc = "idle"
<1>1. SomeKey \in Keys
  BY ClientAccessAssumption DEF SomeKey
<1>2. NoRow \in Key /\ 0 \in Minutes
  BY ClientAccessAssumption DEF NoRow, Key, Minutes
<1> QED
  BY <1>1, <1>2 DEF IdleCall, IdleEdit, Call, Edit, Draft

\* A call and an edit that have not begun are sound.
LEMMA IdleSound == SoundCall(IdleCall) /\ SoundEdit(IdleEdit)
BY IdleTypes DEF SoundCall, SoundEdit, Granted

-----------------------------------------------------------------------------
(* Permits.                                                                *)

\* Holders of a permit are requests, so they can be counted.
LEMMA HoldersFinite ==
    ASSUME NEW S \in SUBSET Requests
    PROVE  IsFiniteSet(S) /\ Cardinality(S) \in Nat
BY ClientAccessAssumption, FS_Subset, FS_CardinalityType

\* Permits stay exact while calls and counters do not change.
LEMMA PermitsStill == PermitsSound /\ UNCHANGED <<call, active>> => PermitsSound'
<1> SUFFICES ASSUME PermitsSound, UNCHANGED <<call, active>> PROVE PermitsSound'
  OBVIOUS
<1>1. \A k \in Keys : Holders(k)' = Holders(k)
  BY DEF Holders
<1> QED
  BY <1>1 DEF PermitsSound, CountsExact, Staged

\* Permits stay exact when a call moves on without taking or returning one.
LEMMA PermitsKept ==
    ASSUME PermitsSound, call \in [Requests -> Call], NEW r \in Requests, NEW q \in Call,
           call' = [call EXCEPT ![r] = q], active' = active,
           q.counted = call[r].counted,
           q.counted => q.key = call[r].key /\ q.row = call[r].row
    PROVE  PermitsSound'
<1>1. \A k \in Keys : Holders(k)' = Holders(k)
  BY DEF Holders
<1>2. \A k \in Keys : \A p \in Holders(k) : call'[p].row = call[p].row
  BY DEF Holders
<1>3. CountsExact'
  BY <1>1 DEF PermitsSound, CountsExact
<1>4. Staged'
  BY <1>1, <1>2 DEF PermitsSound, Staged
<1> QED
  BY <1>3, <1>4 DEF PermitsSound

\* AcquireConcurrency: the newcomer's own limit covers it and all the others.
LEMMA PermitTaken ==
    ASSUME PermitsSound, call \in [Requests -> Call], NEW r \in Requests, NEW q \in Call,
           call' = [call EXCEPT ![r] = q], ~call[r].counted, q.counted,
           active[q.key] < q.row.slots,
           active' = [active EXCEPT ![q.key] = @ + 1]
    PROVE  PermitsSound'
<1> DEFINE k == q.key
           H == Holders(k)
<1>1. k \in Keys /\ q.row.slots \in Nat /\ active \in [Keys -> Nat]
  BY DEF Call, Key, PermitsSound
<1>2. H \in SUBSET Requests /\ r \notin H /\ Holders(k)' = H \cup {r}
      /\ \A j \in Keys \ {k} : Holders(j)' = Holders(j)
  BY DEF Holders
<1>3. \A p \in Requests \ {r} : call'[p] = call[p]
  OBVIOUS
<1>4. IsFiniteSet(H) /\ Cardinality(H) \in Nat /\ Cardinality(H \cup {r}) = Cardinality(H) + 1
      /\ active[k] = Cardinality(H)
  BY <1>1, <1>2, HoldersFinite, FS_AddElement DEF PermitsSound, CountsExact
<1>5. CountsExact'
  BY <1>1, <1>2, <1>4 DEF PermitsSound, CountsExact
<1>6. ASSUME NEW j \in Keys, NEW S \in SUBSET Holders(j)', S # {}
      PROVE  \E p \in S : Cardinality(S) <= call'[p].row.slots
  <2>1. CASE r \in S
    <3>1. j = k /\ S \subseteq H \cup {r} /\ IsFiniteSet(H \cup {r})
      BY <1>2, <1>4, <2>1, FS_AddElement DEF Holders
    <3>2. Cardinality(S) <= Cardinality(H) + 1 /\ Cardinality(S) \in Nat
      BY <1>2, <1>4, <3>1, FS_Subset, FS_CardinalityType
    <3> QED
      BY <1>1, <1>4, <2>1, <3>2
  <2>2. CASE r \notin S
    <3>1. S \in SUBSET Holders(j)
      BY <1>2, <2>2
    <3>2. PICK p \in S : Cardinality(S) <= call[p].row.slots
      BY <1>6, <3>1 DEF PermitsSound, Staged
    <3> QED
      BY <1>3, <2>2, <3>1, <3>2 DEF Holders
  <2> QED
    BY <2>1, <2>2
<1>7. active' \in [Keys -> Nat]
  BY <1>1
<1> QED
  BY <1>5, <1>6, <1>7 DEF PermitsSound, Staged

\* Release, whose guard against a count of zero never has to act.
LEMMA PermitReturned ==
    ASSUME PermitsSound, CallsSound, NEW r \in Requests, Release(r)
    PROVE  PermitsSound'
<1>0. call \in [Requests -> Call] /\ call' = [call EXCEPT ![r] = IdleCall]
      /\ IdleCall \in Call /\ ~IdleCall.counted
  BY IdleTypes DEF CallsSound, Release, Return
<1>k. PICK k \in Keys : k = call[r].key
  BY <1>0 DEF Call
<1> DEFINE H == Holders(k)
<1>1. CASE ~call[r].counted
  BY <1>0, <1>1, PermitsKept DEF Release, Call
<1>2. CASE call[r].counted
  <2>1. active \in [Keys -> Nat]
    BY DEF PermitsSound
  <2>2. H \in SUBSET Requests /\ r \in H /\ Holders(k)' = H \ {r}
        /\ \A j \in Keys \ {k} : Holders(j)' = Holders(j)
    BY <1>0, <1>k, <1>2 DEF Holders
  <2>3. /\ Cardinality(H) \in Nat \ {0} /\ Cardinality(H \ {r}) = Cardinality(H) - 1
        /\ active[k] = Cardinality(H)
    BY <2>1, <2>2, HoldersFinite, FS_RemoveElement, FS_EmptySet DEF PermitsSound, CountsExact
  <2>4. active' \in [Keys -> Nat]
        /\ \A j \in Keys : active'[j] = IF j = k THEN active[k] - 1 ELSE active[j]
    <3>1. active' = [active EXCEPT ![k] = IF active[k] <= 1 THEN 0 ELSE active[k] - 1]
      BY <1>k, <1>2 DEF Release
    <3>2. active[k] \in Nat \ {0}
      BY <2>1, <2>3
    <3>3. (IF active[k] <= 1 THEN 0 ELSE active[k] - 1) = active[k] - 1
      BY <3>2
    <3> QED
      BY <2>1, <3>1, <3>2, <3>3
  <2>5. CountsExact'
    <3> SUFFICES ASSUME NEW j \in Keys PROVE active'[j] = Cardinality(Holders(j)')
      BY DEF CountsExact
    <3> QED
      BY <2>2, <2>3, <2>4 DEF PermitsSound, CountsExact
  <2>6. \A j \in Keys : Holders(j)' \subseteq Holders(j)
    BY <2>2
  <2>7. \A j \in Keys : \A p \in Holders(j)' : call'[p] = call[p]
    BY <1>0 DEF Holders
  <2>8. Staged'
    BY <2>6, <2>7 DEF PermitsSound, Staged
  <2> QED
    BY <2>4, <2>5, <2>8 DEF PermitsSound
<1> QED
  BY <1>1, <1>2

-----------------------------------------------------------------------------
(* The steps of a request.                                                 *)

\* A request changes neither the tables of keys nor a handler.
RequestFrame == UNCHANGED <<key, revoked, scopes, past, edit, now>>

\* What is left to show of a step of request r.
LEMMA RequestMoves ==
    ASSUME AccessInv, RequestFrame, NEW r \in Requests, NEW q,
           SoundCall(q), call' = [call EXCEPT ![r] = q], RateSound', PermitsSound'
    PROVE  AccessInv'
<1>1. CallsSound /\ EditsSound /\ TableSound /\ now \in Minutes
  BY DEF AccessInv
<1>2. UNCHANGED <<key, past>> /\ Exists' = Exists
  BY DEF RequestFrame, Exists
<1>3. CallsSound'
  BY <1>1, <1>2 DEF CallsSound, SoundCall
<1>4. EditsSound' /\ TableSound' /\ now' \in Minutes
  BY <1>1, <1>2 DEF RequestFrame, EditsSound, SoundEdit, TableSound, TableWhole
<1> QED
  BY <1>3, <1>4 DEF AccessInv

\* The rate windows stay sound while nothing is charged.
LEMMA RateKept == RateSound /\ UNCHANGED <<window, charged, clean>> => RateSound'
BY DEF RateSound, WindowTracks

\* The permit is released and the request returns.
LEMMA ReleaseMoves ==
    ASSUME AccessInv, NEW r \in Requests, Release(r), RequestFrame,
           UNCHANGED <<window, charged, clean>>
    PROVE  AccessInv'
<1>1. CallsSound /\ RateSound /\ PermitsSound
  BY DEF AccessInv
<1>2. call' = [call EXCEPT ![r] = IdleCall]
  BY DEF Release, Return
<1> QED
  BY <1>1, <1>2, IdleSound, PermitReturned, RateKept, RequestMoves

\* Steps at which the request holds no permit, before and after.
LEMMA UncountedMoves ==
    ASSUME AccessInv, RequestFrame, NEW r \in Requests, NEW q, SoundCall(q), ~q.counted,
           ~call[r].counted, call' = [call EXCEPT ![r] = q], active' = active, RateSound'
    PROVE  AccessInv'
<1>1. PermitsSound /\ call \in [Requests -> Call] /\ q \in Call
  BY DEF AccessInv, CallsSound, SoundCall
<1>2. q.counted = call[r].counted
  BY <1>1 DEF Call
<1>3. PermitsSound'
  BY <1>1, <1>2, PermitsKept
<1> QED
  BY <1>3, RequestMoves

\* A request that returns before it has a permit.
LEMMA ReturnMoves ==
    ASSUME AccessInv, RequestFrame, NEW r \in Requests, Return(r), ~call[r].counted,
           UNCHANGED <<active, window, charged, clean>>
    PROVE  AccessInv'
<1>1. RateSound'
  BY RateKept DEF AccessInv
<1> QED
  BY <1>1, IdleSound, IdleTypes, UncountedMoves DEF Return

\* A call of a reachable state is sound and holds a permit only when authorized or served.
LEMMA CallSound ==
    ASSUME AccessInv, NEW r \in Requests
    PROVE  /\ SoundCall(call[r]) /\ call[r] \in Call
           /\ call[r].pc \notin {"authorize", "serve"} => ~call[r].counted
BY DEF AccessInv, CallsSound, SoundCall

\* Reading the key row of the credential.
LEMMA FindKeyMoves ==
    ASSUME AccessInv, NEW r \in Requests, NEW k \in Keys, FindKey(r, k)
    PROVE  AccessInv'
<1> DEFINE label == IF k \in revoked THEN "refuse" ELSE "scopes"
           row == [key[k] EXCEPT !.rpm = 0]
           q == [call[r] EXCEPT !.pc = label, !.key = k, !.row = row]
<1>1. SoundCall(call[r]) /\ call[r] \in Call /\ ~call[r].counted /\ k \in Exists
  BY CallSound DEF FindKey, At
<1>2. RequestFrame /\ UNCHANGED <<active, window, charged, clean>>
  BY DEF FindKey, table, RequestFrame
<1>3. RateSound' /\ key[k] \in Key /\ call \in [Requests -> Call]
  BY <1>1, <1>2, RateKept DEF AccessInv, TableSound, CallsSound
<1>4. row \in Key
  BY <1>3 DEF Key
<1>5. call' = [call EXCEPT ![r] = q]
  BY <1>3 DEF FindKey
<1>6. label \in {"refuse", "scopes"}
  OBVIOUS
<1> HIDE DEF label, row
<1>7. q \in Call /\ q.pc = label /\ q.key = k /\ q.counted = call[r].counted
  BY <1>1, <1>4, <1>6 DEF Call
<1>8. SoundCall(q) /\ ~q.counted
  BY <1>1, <1>6, <1>7 DEF SoundCall, Granted
<1> QED
  BY <1>1, <1>2, <1>3, <1>5, <1>8, UncountedMoves

\* The scopes are those of the key's present policy; the policy read before is
\* the same one when both fit them.
LEMMA LoadScopesMoves ==
    ASSUME AccessInv, NEW r \in Requests, LoadScopes(r)
    PROVE  AccessInv'
<1> DEFINE c == call[r]
           q == [c EXCEPT !.pc = "clock", !.scopes = scopes[c.key], !.row.expiry = 0]
<1>1. SoundCall(c) /\ c \in Call /\ ~c.counted /\ c.pc \in {"scopes", "refuse"}
  BY CallSound DEF LoadScopes, At
<1>2. RequestFrame /\ UNCHANGED <<active, window, charged, clean>>
  BY DEF LoadScopes, table, RequestFrame
<1>3. RateSound' /\ TableSound /\ call \in [Requests -> Call]
  BY <1>2, RateKept DEF AccessInv, CallsSound
<1>4. CASE Return(r)
  BY <1>1, <1>2, <1>4, ReturnMoves
<1>5. CASE Fits(c.row.policy, scopes[c.key]) /\ call' = [call EXCEPT ![r] = q]
  <2>1. c.key \in Exists /\ c.key \in Keys /\ scopes[c.key] \in SUBSET Models
    BY <1>1, <1>3 DEF SoundCall, Call, TableSound
  <2>2. [c.row EXCEPT !.expiry = 0] \in Key
        /\ [c.row EXCEPT !.expiry = 0].policy = c.row.policy
    BY <1>1 DEF Call, Key
  <2>3. q \in Call /\ q.pc = "clock" /\ q.key = c.key /\ q.scopes = scopes[c.key]
        /\ q.row.policy = c.row.policy /\ ~q.counted
    BY <1>1, <2>1, <2>2 DEF Call
  <2>4. c.row.policy = key[c.key].policy
    <3>1. c.row.policy \in {"all", "allowlist"} /\ key[c.key].policy \in {"all", "allowlist"}
      BY <1>1, <1>3, <2>1 DEF Call, Key, TableSound
    <3>2. Fits(key[c.key].policy, scopes[c.key])
      BY <1>3, <2>1 DEF TableSound, TableWhole
    <3> QED
      BY <1>5, <3>1, <3>2 DEF Fits
  <2>5. SoundCall(q)
    BY <1>3, <2>1, <2>3, <2>4 DEF SoundCall, TableSound, TableWhole
  <2> QED
    BY <1>1, <1>2, <1>3, <1>5, <2>3, <2>5, UncountedMoves
<1> QED
  BY <1>3, <1>4, <1>5 DEF LoadScopes

\* Reading the scopes and the clock.
LEMMA ReadClockMoves ==
    ASSUME AccessInv, NEW r \in Requests, ReadClock(r)
    PROVE  AccessInv'
<1> DEFINE q == [call[r] EXCEPT !.pc = "charge", !.at = now]
<1>1. SoundCall(call[r]) /\ call[r] \in Call /\ ~call[r].counted /\ call[r].pc = "clock"
  BY CallSound DEF ReadClock, At
<1>2. RequestFrame /\ UNCHANGED <<active, window, charged, clean>>
  BY DEF ReadClock, table, RequestFrame
<1>3. RateSound' /\ now \in Minutes /\ call \in [Requests -> Call]
  BY <1>2, RateKept DEF AccessInv, CallsSound
<1>4. call' = [call EXCEPT ![r] = q]
  BY <1>3 DEF ReadClock
<1>5. SoundCall(q) /\ ~q.counted
  BY <1>1, <1>3 DEF SoundCall, Call, Granted
<1> QED
  BY <1>1, <1>2, <1>3, <1>4, <1>5, UncountedMoves

\* A charge: the same minute is counted on, a later one starts at one, and an
\* earlier one takes the key out of the clean ones.
LEMMA ChargeTracked ==
    ASSUME RateSound, NEW k \in Keys, NEW m \in Minutes,
           window' = [window EXCEPT ![k] = Charged(@, m)],
           charged' = [charged EXCEPT ![k][m] = @ + 1],
           clean' = IF m < window[k].start THEN clean \ {k} ELSE clean
    PROVE  RateSound'
<1>1. Minutes \subseteq Nat
  BY ClientAccessAssumption DEF Minutes
<1>2. window[k].start \in Minutes /\ window[k].count \in Nat /\ charged[k][m] \in Nat
  BY DEF RateSound
<1>3. Charged(window[k], m) \in [start : Minutes, count : Nat]
  BY <1>2 DEF Charged
<1>4. window' \in [Keys -> [start : Minutes, count : Nat]] /\ clean' \subseteq clean
      /\ clean \subseteq Keys
  BY <1>3 DEF RateSound
<1>5. charged' \in [Keys -> [Minutes -> Nat]]
  BY <1>2 DEF RateSound
<1>6. /\ \A j \in Keys \ {k} : charged'[j] = charged[j] /\ window'[j] = window[j]
      /\ \A n \in Minutes : charged'[k][n] = IF n = m THEN charged[k][m] + 1 ELSE charged[k][n]
      /\ window'[k].start = m
      /\ window'[k].count = IF window[k].start # m THEN 1 ELSE window[k].count + 1
  BY DEF RateSound, Charged
<1>7. ASSUME NEW j \in clean'
      PROVE  /\ charged'[j][window'[j].start] = window'[j].count
             /\ \A n \in Minutes : n > window'[j].start => charged'[j][n] = 0
  <2>1. j \in Keys /\ j \in clean
    BY <1>4, <1>7
  <2>2. /\ charged[j][window[j].start] = window[j].count
        /\ \A n \in Minutes : n > window[j].start => charged[j][n] = 0
    BY <2>1 DEF RateSound, WindowTracks
  <2>3. CASE j # k
    BY <1>6, <2>1, <2>2, <2>3
  <2>4. CASE j = k
    <3>1. window[k].start <= m
      BY <1>1, <1>2, <1>7, <2>4
    <3> QED
      BY <1>1, <1>2, <1>6, <2>2, <2>4, <3>1
  <2> QED
    BY <2>3, <2>4
<1> QED
  BY <1>4, <1>5, <1>7 DEF RateSound, WindowTracks

\* Charging the minute window.
LEMMA ConsumeMoves ==
    ASSUME AccessInv, NEW r \in Requests, ConsumeRPM(r)
    PROVE  AccessInv'
<1> DEFINE q == [call[r] EXCEPT !.pc = "acquire", !.at = 0]
<1>1. SoundCall(call[r]) /\ call[r] \in Call /\ ~call[r].counted /\ call[r].pc = "charge"
  BY CallSound DEF ConsumeRPM, At
<1>2. RequestFrame /\ UNCHANGED active
  BY DEF ConsumeRPM, table, RequestFrame
<1>3. RateSound /\ call \in [Requests -> Call]
  BY DEF AccessInv, CallsSound
<1>4. CASE Return(r) /\ UNCHANGED <<window, charged, clean>>
  BY <1>1, <1>2, <1>4, ReturnMoves
<1>5. ASSUME Admit(r), RateSound'
      PROVE  AccessInv'
  <2>1. call' = [call EXCEPT ![r] = q]
    BY <1>3, <1>5 DEF Admit
  <2>2. 0 \in Minutes
    BY ClientAccessAssumption DEF Minutes
  <2>3. SoundCall(q) /\ ~q.counted
    BY <1>1, <2>2 DEF SoundCall, Call, Granted
  <2> QED
    BY <1>1, <1>2, <1>5, <2>1, <2>3, UncountedMoves
<1>6. CASE Admit(r) /\ UNCHANGED <<window, charged, clean>>
  BY <1>3, <1>5, <1>6, RateKept
<1>7. ASSUME Admit(r), window' = [window EXCEPT ![call[r].key] = Charged(@, call[r].at)],
             charged' = [charged EXCEPT ![call[r].key][call[r].at] = @ + 1],
             clean' = IF call[r].at < window[call[r].key].start THEN clean \ {call[r].key}
                      ELSE clean
      PROVE  AccessInv'
  <2>1. call[r].key \in Keys /\ call[r].at \in Minutes
    BY <1>1 DEF Call
  <2>2. RateSound'
    BY <1>3, <1>7, <2>1, ChargeTracked
  <2> QED
    BY <1>5, <1>7, <2>2
<1> QED
  BY <1>4, <1>6, <1>7 DEF ConsumeRPM

\* Taking a permit: the limit is the one of the row read before.
LEMMA AcquireMoves ==
    ASSUME AccessInv, NEW r \in Requests, AcquireConcurrency(r)
    PROVE  AccessInv'
<1>1. SoundCall(call[r]) /\ call[r] \in Call /\ ~call[r].counted /\ call[r].pc = "acquire"
  BY CallSound DEF AcquireConcurrency, At
<1>2. RequestFrame /\ UNCHANGED <<window, charged, clean>>
  BY DEF AcquireConcurrency, table, RequestFrame
<1>3. RateSound' /\ PermitsSound /\ call \in [Requests -> Call]
  BY <1>2, RateKept DEF AccessInv, CallsSound
<1>4. CASE Goto(r, "authorize") /\ UNCHANGED active
  <2> DEFINE q == [call[r] EXCEPT !.pc = "authorize"]
  <2>1. call' = [call EXCEPT ![r] = q]
    BY <1>3, <1>4 DEF Goto
  <2>2. SoundCall(q) /\ ~q.counted
    BY <1>1 DEF SoundCall, Call, Granted
  <2> QED
    BY <1>1, <1>2, <1>3, <1>4, <2>1, <2>2, UncountedMoves
<1>5. CASE Return(r) /\ UNCHANGED active
  BY <1>1, <1>2, <1>5, ReturnMoves
<1>6. CASE /\ ~Full(call[r].key, call[r].row.slots)
           /\ active' = [active EXCEPT ![call[r].key] = @ + 1]
           /\ call' = [call EXCEPT ![r].pc = "authorize", ![r].counted = TRUE]
  <2> DEFINE q == [call[r] EXCEPT !.pc = "authorize", !.counted = TRUE]
  <2>1. call' = [call EXCEPT ![r] = q]
    BY <1>3, <1>6
  <2>2. q \in Call /\ q.counted /\ q.key = call[r].key /\ q.row = call[r].row
    BY <1>1 DEF Call
  <2>3. SoundCall(q)
    BY <1>1 DEF SoundCall, Call, Granted
  <2>4. active[q.key] < q.row.slots
    <3>1. active[q.key] \in Nat /\ q.row.slots \in Nat
      BY <1>3, <2>2 DEF PermitsSound, Call, Key
    <3> QED
      BY <1>6, <2>2, <3>1 DEF Full
  <2>5. PermitsSound'
    BY <1>1, <1>3, <1>6, <2>1, <2>2, <2>4, PermitTaken
  <2> QED
    BY <1>2, <1>3, <2>1, <2>3, <2>5, RequestMoves
<1> QED
  BY <1>4, <1>5, <1>6 DEF AcquireConcurrency

\* Checking the model, or returning the permit.
LEMMA AuthorizeMoves ==
    ASSUME AccessInv, NEW r \in Requests, NEW model \in Models, AuthorizeModel(r, model)
    PROVE  AccessInv'
<1>1. SoundCall(call[r]) /\ call[r] \in Call /\ call[r].pc = "authorize"
  BY CallSound DEF AuthorizeModel, At
<1>2. RequestFrame /\ UNCHANGED <<window, charged, clean>>
  BY DEF AuthorizeModel, table, RequestFrame
<1>3. CASE Release(r)
  BY <1>2, <1>3, ReleaseMoves
<1>4. CASE Goto(r, "serve") /\ UNCHANGED active
  <2> DEFINE q == [call[r] EXCEPT !.pc = "serve"]
  <2>1. RateSound' /\ PermitsSound /\ call \in [Requests -> Call]
    BY <1>2, RateKept DEF AccessInv, CallsSound
  <2>2. call' = [call EXCEPT ![r] = q]
    BY <1>4, <2>1 DEF Goto
  <2>3. q \in Call /\ q.counted = call[r].counted /\ q.key = call[r].key /\ q.row = call[r].row
    BY <1>1 DEF Call
  <2>4. SoundCall(q)
    BY <1>1 DEF SoundCall, Call, Granted
  <2>5. PermitsSound'
    BY <1>4, <2>1, <2>2, <2>3, PermitsKept
  <2> QED
    BY <1>2, <2>1, <2>2, <2>4, <2>5, RequestMoves
<1> QED
  BY <1>3, <1>4 DEF AuthorizeModel

\* Returning the permit at the end of the response.
LEMMA DoneMoves ==
    ASSUME AccessInv, NEW r \in Requests, Done(r)
    PROVE  AccessInv'
<1>1. RequestFrame /\ UNCHANGED <<window, charged, clean>> /\ Release(r)
  BY DEF Done, table, RequestFrame
<1> QED
  BY <1>1, ReleaseMoves

-----------------------------------------------------------------------------
(* Administration.                                                         *)

\* A handler changes no request, no permit and no rate window.
AdminFrame == UNCHANGED <<window, active, now, call, charged, clean>>

\* What one write to the tables leaves: the key exists, its policy and scopes
\* are whole, and nothing is forgotten.
LEMMA StoreSound ==
    ASSUME TableSound, NEW k \in Keys, NEW d \in Draft, Fits(d.row.policy, d.scopes),
           Store(k, d), revoked' = revoked
    PROVE  /\ TableSound' /\ Exists' = Exists \cup {k}
           /\ \A j \in Keys : past[j] \subseteq past'[j]
<1>1. d.row \in Key /\ d.scopes \in SUBSET Models /\ <<d.row.policy, d.scopes>> \in Pairs
  BY DEF Draft, Key, Pairs
<1>2. Exists' = Exists \cup {k}
  BY DEF Store, Exists
<1>3. key' \in [Exists' -> Key]
  BY <1>1, <1>2 DEF Store, TableSound
<1>4. past' \in [Keys -> SUBSET Pairs] /\ \A j \in Keys : past[j] \subseteq past'[j]
  BY <1>1 DEF Store, TableSound
<1>5. scopes' \in [Keys -> SUBSET Models]
  BY <1>1 DEF Store, TableSound
<1>6. TableWhole'
  <2> SUFFICES ASSUME NEW j \in Exists'
               PROVE  /\ Fits(key'[j].policy, scopes'[j])
                      /\ <<key'[j].policy, scopes'[j]>> \in past'[j]
    BY DEF TableWhole, Fits
  <2>1. CASE j = k
    BY <1>2, <2>1 DEF Store, TableSound
  <2>2. CASE j # k
    <3>1. j \in Exists /\ j \in Keys
      BY <1>2, <2>2 DEF TableSound
    <3>2. key'[j] = key[j] /\ scopes'[j] = scopes[j]
      BY <1>2, <2>2, <3>1 DEF Store, TableSound
    <3>3. Fits(key[j].policy, scopes[j]) /\ <<key[j].policy, scopes[j]>> \in past[j]
      BY <3>1 DEF TableSound, TableWhole
    <3> QED
      BY <1>4, <3>1, <3>2, <3>3
  <2> QED
    BY <2>1, <2>2
<1> QED
  BY <1>2, <1>3, <1>4, <1>5, <1>6 DEF TableSound

\* Requests under way keep what they know when the tables only grow.
LEMMA GrownTables ==
    ASSUME AccessInv, AdminFrame, TableSound', EditsSound', Exists \subseteq Exists',
           \A j \in Keys : past[j] \subseteq past'[j]
    PROVE  AccessInv'
<1>1. CallsSound'
  <2>1. \A r \in Requests : SoundCall(call[r]) /\ call[r].key \in Keys
    BY DEF AccessInv, CallsSound, SoundCall, Call
  <2>2. \A r \in Requests : SoundCall(call[r])'
    BY <2>1 DEF AdminFrame, SoundCall
  <2> QED
    BY <2>2 DEF AccessInv, AdminFrame, CallsSound
<1>2. RateSound' /\ PermitsSound' /\ now' \in Minutes
  BY RateKept, PermitsStill DEF AccessInv, AdminFrame
<1> QED
  BY <1>1, <1>2 DEF AccessInv

\* Handlers whose own step does not write the tables.
LEMMA EditMoves ==
    ASSUME AccessInv, AdminFrame, UNCHANGED <<key, revoked, scopes, past>>,
           NEW e \in Editors, NEW h, SoundEdit(h), edit' = [edit EXCEPT ![e] = h]
    PROVE  AccessInv'
<1>1. Exists' = Exists
  BY DEF Exists
<1>2. EditsSound'
  BY <1>1 DEF AccessInv, EditsSound, SoundEdit
<1>3. TableSound'
  BY <1>1 DEF AccessInv, TableSound, TableWhole
<1> QED
  BY <1>1, <1>2, <1>3, GrownTables

\* An edit of a reachable state is sound.
LEMMA EditSound ==
    ASSUME AccessInv, NEW e \in Editors
    PROVE  SoundEdit(edit[e]) /\ edit[e] \in Edit
BY DEF AccessInv, EditsSound, SoundEdit

\* Creating a key.
LEMMA CreateMoves ==
    ASSUME AccessInv, NEW k \in Keys, NEW d \in Drafts, Create(k, d)
    PROVE  AccessInv'
<1>1. d \in Draft /\ Fits(d.row.policy, d.scopes) /\ Store(k, d)
      /\ revoked' = revoked /\ AdminFrame /\ edit' = edit
  BY ClientAccessAssumption DEF Create, Acceptable, AdminFrame
<1>2. TableSound' /\ Exists' = Exists \cup {k} /\ \A j \in Keys : past[j] \subseteq past'[j]
  BY <1>1, StoreSound DEF AccessInv
<1>3. EditsSound'
  BY <1>1, <1>2 DEF AccessInv, EditsSound, SoundEdit
<1> QED
  BY <1>1, <1>2, <1>3, GrownTables

\* Updating and revoking a key.
LEMMA AdministerMoves ==
    ASSUME AccessInv, NEW e \in Editors, Administer(e)
    PROVE  AccessInv'
<1>0. SoundEdit(edit[e]) /\ edit[e] \in Edit /\ edit \in [Editors -> Edit]
  BY EditSound DEF AccessInv, EditsSound
<1>1. ASSUME Respond(e), AdminFrame, UNCHANGED <<key, revoked, scopes, past>>
      PROVE  AccessInv'
  BY <1>1, IdleSound, EditMoves DEF Respond
<1>2. CASE Check(e)
  <2>1. AdminFrame /\ UNCHANGED <<key, revoked, scopes, past>>
    BY <1>2 DEF Check, table, AdminFrame
  <2>2. CASE Respond(e)
    BY <1>1, <2>1, <2>2
  <2>3. CASE Acceptable(edit[e].draft) /\ edit' = [edit EXCEPT ![e].pc = "write"]
    <3> DEFINE h == [edit[e] EXCEPT !.pc = "write"]
    <3>1. edit' = [edit EXCEPT ![e] = h] /\ edit[e].pc # "idle"
      BY <1>0, <1>2, <2>3 DEF Check, Editing
    <3>2. h \in Edit /\ h.key = edit[e].key /\ h.draft = edit[e].draft
      BY <1>0 DEF Edit
    <3>3. SoundEdit(h)
      BY <1>0, <2>3, <3>1, <3>2 DEF SoundEdit, Acceptable
    <3> QED
      BY <2>1, <3>1, <3>3, EditMoves
  <2> QED
    BY <1>2, <2>2, <2>3 DEF Check
<1>3. CASE Write(e)
  <2>1. edit[e].key \in Keys /\ edit[e].draft \in Draft /\ edit[e].key \in Exists
        /\ Fits(edit[e].draft.row.policy, edit[e].draft.scopes)
    BY <1>0, <1>3 DEF SoundEdit, Edit, Write, Editing
  <2>2. AdminFrame /\ revoked' = revoked /\ Store(edit[e].key, edit[e].draft)
        /\ edit' = [edit EXCEPT ![e] = IdleEdit]
    BY <1>3 DEF Write, AdminFrame, Respond
  <2>3. /\ TableSound' /\ Exists' = Exists
        /\ \A j \in Keys : past[j] \subseteq past'[j]
    BY <2>1, <2>2, StoreSound DEF AccessInv
  <2>4. EditsSound'
    BY <2>2, <2>3, IdleSound DEF AccessInv, EditsSound, SoundEdit
  <2> QED
    BY <2>2, <2>3, <2>4, GrownTables
<1>4. CASE Revoke(e)
  <2>1. edit[e].key \in Exists
    BY <1>0, <1>4 DEF SoundEdit, Revoke, Editing
  <2>2. AdminFrame /\ UNCHANGED <<key, scopes, past>> /\ Exists' = Exists
        /\ revoked' = revoked \cup {edit[e].key} /\ edit' = [edit EXCEPT ![e] = IdleEdit]
    BY <1>4 DEF Revoke, AdminFrame, Respond, Exists
  <2>3. TableSound'
    BY <2>1, <2>2 DEF AccessInv, TableSound, TableWhole
  <2>4. EditsSound'
    BY <2>2, IdleSound DEF AccessInv, EditsSound, SoundEdit
  <2> QED
    BY <2>2, <2>3, <2>4, GrownTables
<1>5. ASSUME NEW k \in Keys, StartRevoke(e, k) PROVE AccessInv'
  <2> DEFINE h == [edit[e] EXCEPT !.pc = "revoke", !.key = k]
  <2>1. edit' = [edit EXCEPT ![e] = h] /\ k \in Exists
        /\ AdminFrame /\ UNCHANGED <<key, revoked, scopes, past>>
    BY <1>0, <1>5 DEF StartRevoke, table, AdminFrame
  <2>2. SoundEdit(h)
    BY <1>0, <2>1 DEF SoundEdit, Edit
  <2> QED
    BY <2>1, <2>2, EditMoves
<1>6. ASSUME NEW k \in Keys, NEW d \in Drafts, Patch(e, k, d) PROVE AccessInv'
  <2> DEFINE h == [pc |-> "check", key |-> k, draft |-> d]
  <2>1. edit' = [edit EXCEPT ![e] = h] /\ k \in Exists
        /\ AdminFrame /\ UNCHANGED <<key, revoked, scopes, past>>
    BY <1>6 DEF Patch, table, AdminFrame
  <2>2. SoundEdit(h)
    BY <2>1, ClientAccessAssumption DEF SoundEdit, Edit
  <2> QED
    BY <2>1, <2>2, EditMoves
<1> QED
  BY <1>2, <1>3, <1>4, <1>5, <1>6 DEF Administer

\* A restart drops requests and handlers, and with them every permit.
LEMMA RestartMoves ==
    ASSUME AccessInv, Restart
    PROVE  AccessInv'
<1>1. /\ call' = [r \in Requests |-> IdleCall] /\ edit' = [e \in Editors |-> IdleEdit]
      /\ active' = [k \in Keys |-> 0]
      /\ UNCHANGED <<key, revoked, scopes, window, now, past, charged, clean>>
      /\ Exists' = Exists
  BY DEF Restart, table, Exists
<1>2. CallsSound' /\ EditsSound'
  BY <1>1, IdleSound, IdleTypes DEF CallsSound, EditsSound, SoundCall, SoundEdit
<1>3. TableSound' /\ RateSound' /\ now' \in Minutes
  BY <1>1, RateKept DEF AccessInv, TableSound, TableWhole
<1>4. \A k \in Keys : Holders(k)' = {}
  BY <1>1, IdleTypes DEF Holders
<1>5. PermitsSound'
  BY <1>1, <1>4, FS_EmptySet DEF PermitsSound, CountsExact, Staged
<1> QED
  BY <1>2, <1>3, <1>5 DEF AccessInv

-----------------------------------------------------------------------------
(* The invariant and what it gives.                                        *)

\* No keys and no calls satisfy the invariant.
LEMMA AccessInit == Init => AccessInv
<1> SUFFICES ASSUME Init PROVE AccessInv
  OBVIOUS
<1>1. 0 \in Minutes /\ Minutes \subseteq Nat /\ Exists = {}
  BY ClientAccessAssumption DEF Minutes, Init, Exists
<1>2. CallsSound /\ EditsSound
  BY IdleSound, IdleTypes DEF Init, CallsSound, EditsSound
<1>3. TableSound
  BY <1>1 DEF Init, TableSound, TableWhole
<1>4. RateSound
  BY <1>1 DEF Init, RateSound, WindowTracks
<1>5. \A k \in Keys : Holders(k) = {}
  BY IdleTypes DEF Init, Holders
<1>6. PermitsSound
  BY <1>5, FS_EmptySet DEF Init, PermitsSound, CountsExact, Staged
<1> QED
  BY <1>1, <1>2, <1>3, <1>4, <1>6 DEF AccessInv, Init

\* Every step keeps the invariant: one case per middleware or handler step.
LEMMA AccessStep == AccessInv /\ [Next]_vars => AccessInv'
<1> SUFFICES ASSUME AccessInv, [Next]_vars PROVE AccessInv'
  OBVIOUS
<1>1. ASSUME NEW r \in Requests, Serve(r) PROVE AccessInv'
  BY <1>1, LoadScopesMoves, ReadClockMoves, ConsumeMoves, AcquireMoves, AuthorizeMoves,
     DoneMoves DEF Serve
<1>2. ASSUME NEW r \in Requests, NEW k \in Keys, FindKey(r, k) PROVE AccessInv'
  BY <1>2, FindKeyMoves
<1>3. ASSUME NEW e \in Editors, Administer(e) PROVE AccessInv'
  BY <1>3, AdministerMoves
<1>4. ASSUME NEW k \in Keys, NEW d \in Drafts, Create(k, d) PROVE AccessInv'
  BY <1>4, CreateMoves
<1>5. ASSUME Tick \/ UNCHANGED vars PROVE AccessInv'
  <2>1. UNCHANGED <<key, revoked, scopes, window, active, call, edit, past, charged, clean>>
        /\ Exists' = Exists
    BY <1>5 DEF Tick, vars, table, Exists
  <2>2. now' \in Minutes
    BY <1>5, ClientAccessAssumption DEF AccessInv, Minutes, Tick, vars
  <2>3. CallsSound' /\ EditsSound' /\ TableSound' /\ RateSound'
    BY <2>1, RateKept DEF AccessInv, CallsSound, SoundCall, EditsSound, SoundEdit, TableSound,
                          TableWhole
  <2>4. PermitsSound'
    BY <2>1, PermitsStill DEF AccessInv
  <2> QED
    BY <2>2, <2>3, <2>4 DEF AccessInv
<1>6. CASE Restart
  BY <1>6, RestartMoves
<1> QED
  BY <1>1, <1>2, <1>3, <1>4, <1>5, <1>6 DEF Next

\* The invariant holds in every reachable state.
LEMMA AccessInvariant == Spec => []AccessInv
BY AccessInit, AccessStep, PTL DEF Spec

\* The counter of a key is the number of requests that hold one of its permits,
\* and never more than the limit one of them was admitted under
\* (AcquireConcurrency, clientPermit.Release); the types are part of it.
THEOREM PermitsCounted == Spec => []PermitsExact
<1>1. AccessInv => PermitsExact
  <2> SUFFICES ASSUME AccessInv PROVE PermitsExact
    OBVIOUS
  <2>1. TypeOK
    BY DEF AccessInv, CallsSound, EditsSound, TableSound, RateSound, PermitsSound, TypeOK,
           Call, Edit
  <2> QED
    BY <2>1 DEF AccessInv, PermitsSound, CountsExact, Staged, PermitsExact
<1> QED
  BY <1>1, AccessInvariant, PTL

\* A grant carries a policy and scopes the key had at one moment, although two
\* statements read them (getClientKey).
THEOREM GrantsWhole == Spec => []GrantWhole
<1>1. AccessInv => GrantWhole
  BY DEF AccessInv, CallsSound, SoundCall, GrantWhole, Granted
<1> QED
  BY <1>1, AccessInvariant, PTL

\* Nothing takes a revocation back, and a revoked key is not charged any more
\* (RevokeClientKey, UpdateClientKeyPolicy, ConsumeClientKeyRPM).
THEOREM RevocationIrreversible == Spec => RevocationFinal
<1> DEFINE Charges(r) == At(r, "charge") /\ call'[r].pc = "acquire"
           Final == /\ revoked \subseteq revoked'
                    /\ \A r \in Requests : Charges(r) => call[r].key \notin revoked
<1>1. AccessInv /\ [Next]_vars => [Final]_vars
  <2> SUFFICES ASSUME AccessInv, Next PROVE Final
    OBVIOUS
  <2>0. call \in [Requests -> Call] /\ IdleCall.pc = "idle"
    BY IdleTypes DEF AccessInv, CallsSound
  <2>1. ASSUME NEW r \in Requests, ConsumeRPM(r) PROVE Final
    <3>1. Charges(r) => call[r].key \notin revoked
      BY <2>0, <2>1 DEF ConsumeRPM, Return
    <3>2. \A p \in Requests \ {r} : ~Charges(p)
      BY <2>0, <2>1 DEF ConsumeRPM, Return, Admit, At
    <3> QED
      BY <2>1, <3>1, <3>2 DEF ConsumeRPM, table
  <2>2. ASSUME NEW r \in Requests,
               LoadScopes(r) \/ ReadClock(r) \/ AcquireConcurrency(r) \/ Done(r)
               \/ (\E model \in Models : AuthorizeModel(r, model))
               \/ (\E k \in Keys : FindKey(r, k))
        PROVE  Final
    <3>1. ~At(r, "charge") /\ revoked' = revoked
      BY <2>2 DEF LoadScopes, ReadClock, AcquireConcurrency, Done, AuthorizeModel, FindKey,
                  At, table
    <3>2. \A p \in Requests \ {r} : call'[p] = call[p]
      BY <2>0, <2>2 DEF LoadScopes, ReadClock, AcquireConcurrency, Done, AuthorizeModel,
                        FindKey, Release, Return, Goto
    <3> QED
      BY <3>1, <3>2 DEF At
  <2>3. ASSUME NEW e \in Editors, Administer(e) PROVE Final
    <3>1. call' = call /\ revoked \subseteq revoked'
      BY <2>3 DEF Administer, Check, Write, Revoke, StartRevoke, Patch, table
    <3> QED
      BY <3>1 DEF At
  <2>4. ASSUME NEW k \in Keys, NEW d \in Drafts, Create(k, d) PROVE Final
    BY <2>4 DEF Create, At
  <2>5. ASSUME Tick \/ Restart PROVE Final
    BY <2>0, <2>5 DEF Tick, Restart, table, At
  <2> QED
    BY <2>1, <2>2, <2>3, <2>4, <2>5 DEF Next, Serve
<1> QED
  BY <1>1, AccessInvariant, PTL DEF Spec, RevocationFinal

\* A charge that leaves a key clean keeps its minute within the limit in force
\* (ConsumeClientKeyRPM).
THEOREM RateLimited == Spec => RateHeld
<1> DEFINE Held == \A k \in clean, m \in Minutes :
                      charged'[k][m] # charged[k][m] /\ k \in clean'
                          => charged'[k][m] <= key[k].rpm
<1>1. AccessInv /\ [Next]_vars => [Held]_vars
  <2> SUFFICES ASSUME AccessInv, Next PROVE Held
    OBVIOUS
  <2>1. CASE UNCHANGED charged
    BY <2>1
  <2>2. ASSUME NEW r \in Requests, ConsumeRPM(r), charged' # charged PROVE Held
    <3> DEFINE k == call[r].key
               m == call[r].at
    <3>0. call[r].pc = "charge" /\ Minutes \subseteq Nat
      BY <2>2, ClientAccessAssumption DEF ConsumeRPM, At, Minutes
    <3>1. k \in Keys /\ m \in Minutes /\ k \in Exists
      BY <3>0, CallSound DEF SoundCall, Call
    <3>2. /\ key[k].rpm > 0 /\ Room(window[k], m, key[k].rpm)
          /\ charged' = [charged EXCEPT ![k][m] = @ + 1]
          /\ clean' = IF m < window[k].start THEN clean \ {k} ELSE clean
      BY <2>2 DEF ConsumeRPM
    <3>3. key[k].rpm \in Nat /\ RateSound
      BY <3>1 DEF AccessInv, TableSound, Key
    <3>4. ASSUME NEW j \in clean, NEW n \in Minutes, charged'[j][n] # charged[j][n], j \in clean'
          PROVE  charged'[j][n] <= key[j].rpm
      <4>1. j = k /\ n = m /\ charged'[k][m] = charged[k][m] + 1 /\ charged[k][m] \in Nat
        BY <3>1, <3>2, <3>3, <3>4 DEF RateSound
      <4>2. /\ window[k].start = m \/ window[k].start < m
            /\ window[k].start \in Nat /\ window[k].count \in Nat /\ m \in Nat
        <5>1. window[k].start \in Nat /\ window[k].count \in Nat /\ m \in Nat
          BY <3>0, <3>1, <3>3 DEF RateSound
        <5>2. ~(m < window[k].start)
          BY <3>2, <3>4, <4>1
        <5> QED
          BY <5>1, <5>2
      <4>3. CASE window[k].start = m
        BY <3>2, <3>3, <3>4, <4>1, <4>2, <4>3 DEF Room, RateSound, WindowTracks
      <4>4. CASE window[k].start < m
        BY <3>0, <3>1, <3>2, <3>3, <3>4, <4>1, <4>4 DEF RateSound, WindowTracks
      <4> QED
        BY <4>2, <4>3, <4>4
    <3> QED
      BY <3>4
  <2>3. charged' # charged => \E r \in Requests : ConsumeRPM(r)
    BY DEF Next, Serve, LoadScopes, ReadClock, AcquireConcurrency, Done, AuthorizeModel, FindKey,
           Administer, Check, Write, Revoke, StartRevoke, Patch, Create, Tick, Restart
  <2> QED
    BY <2>1, <2>2, <2>3
<1> QED
  BY <1>1, AccessInvariant, PTL DEF Spec, RateHeld
=============================================================================
