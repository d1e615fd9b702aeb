---------------------------- MODULE ClientAccess ----------------------------
(***************************************************************************)
(* The client keys in front of the inference endpoints: a request is       *)
(* authenticated, charged against the key's requests per minute, given a   *)
(* concurrency permit and authorized for its model                         *)
(* (api/client_auth.go, service/client_access.go), while administrators    *)
(* create, change and revoke keys (clientkeys/service.go) in the same      *)
(* SQLite database (sqlite/clientkey.go).                                  *)
(*                                                                         *)
(* The database has one connection, so a statement or a transaction is one *)
(* action; a credential is read with two statements, the key and then its  *)
(* scopes.  Time is counted in minutes.  Names, hashes and last_used_at    *)
(* are left out.  Start-up sets client_auth_required, so a request without *)
(* a known key is refused at once and changes nothing.                     *)
(***************************************************************************)
EXTENDS Naturals, FiniteSets

\* The policy part of a key.  A limit of 0 is unlimited, an expiry of 0 never.
Key == [policy : {"all", "allowlist"}, rpm : Nat, slots : Nat, expiry : Nat]

CONSTANTS
    Keys,      \* client keys
    Requests,  \* concurrent inference requests
    Editors,   \* concurrent admin handlers
    Models,    \* model ids
    Drafts,    \* policies administrators write
    MaxMinute  \* bound: the last minute considered

Minutes == 0 .. MaxMinute
Draft   == [row : Key, scopes : SUBSET Models]

ASSUME ClientAccessAssumption ==
    /\ IsFiniteSet(Requests)
    /\ Keys # {} /\ Drafts # {} /\ Drafts \subseteq Draft
    /\ MaxMinute \in Nat

VARIABLES
    key,      \* client_keys without revoked_at; a function on the keys that exist
    revoked,  \* keys with a revoked_at
    scopes,   \* client_key_model_scopes
    window,   \* client_key_rate_windows
    active,   \* ClientAccess.activeByKey
    now,      \* the clock
    call,     \* the requests
    edit,     \* the admin handlers
    past,     \* history: the policies and scopes a key has had
    charged,  \* history: charges of a key by the minute they were made for
    clean     \* history: keys with no charge yet for an earlier minute than the one before

table == <<key, revoked, scopes>>
vars  == <<key, revoked, scopes, window, active, now, call, edit, past, charged, clean>>

Exists == DOMAIN key

\* Mutant: policy and scopes are not compared.
Fits_Any(policy, set) == TRUE

\* NormalizeAndValidate: an allowlist has scopes, the policy "all" has none.
Fits(policy, set) == policy = "all" <=> set = {}

Expired(k, at) == k.expiry # 0 /\ at >= k.expiry

\* Requests that hold a counted permit of key k.
Holders(k) == {r \in Requests : call[r].counted /\ call[r].key = k}

SomeKey  == CHOOSE k \in Keys : TRUE
NoRow    == [policy |-> "all", rpm |-> 0, slots |-> 0, expiry |-> 0]
IdleCall == [pc |-> "idle", key |-> SomeKey, row |-> NoRow, scopes |-> {}, at |-> 0,
             counted |-> FALSE]
IdleEdit == [pc |-> "idle", key |-> SomeKey, draft |-> [row |-> NoRow, scopes |-> {}]]

Init ==
    /\ key = [k \in {} |-> {}]
    /\ revoked = {}
    /\ scopes = [k \in Keys |-> {}]
    /\ window = [k \in Keys |-> [start |-> 0, count |-> 0]]
    /\ active = [k \in Keys |-> 0]
    /\ now = 0
    /\ call = [r \in Requests |-> IdleCall]
    /\ edit = [e \in Editors |-> IdleEdit]
    /\ past = [k \in Keys |-> {}]
    /\ charged = [k \in Keys |-> [m \in Minutes |-> 0]]
    /\ clean = Keys
-----------------------------------------------------------------------------
(* A request.                                                              *)

At(r, label)   == call[r].pc = label
Goto(r, label) == call' = [call EXCEPT ![r].pc = label]
Return(r)      == call' = [call EXCEPT ![r] = IdleCall]
Admit(r)       == call' = [call EXCEPT ![r].pc = "acquire", ![r].at = 0]

\* Authenticate: the key found by its hash; the limits that are looked up
\* again later are dropped from the copy ...
FindKey(r, k) ==
    /\ At(r, "idle") /\ k \in Exists
    /\ call' = [call EXCEPT ![r].pc = IF k \in revoked THEN "refuse" ELSE "scopes",
                            ![r].key = k, ![r].row = [key[k] EXCEPT !.rpm = 0]]
    /\ UNCHANGED <<table, window, active, now, edit, past, charged, clean>>

\* ... then its scopes.  A credential that does not validate is an error, one
\* that is revoked or expired is not accepted.
LoadScopes(r) ==
    LET c == call[r] IN
    /\ At(r, "scopes") \/ At(r, "refuse")
    /\ IF At(r, "scopes") /\ Fits(c.row.policy, scopes[c.key]) /\ ~Expired(c.row, now)
       THEN call' = [call EXCEPT ![r].pc = "clock", ![r].scopes = scopes[c.key],
                                 ![r].row.expiry = 0]
       ELSE Return(r)
    /\ UNCHANGED <<table, window, active, now, edit, past, charged, clean>>

\* ConsumeRPM reads the clock before it has the database.
ReadClock(r) ==
    /\ At(r, "clock")
    /\ call' = [call EXCEPT ![r].pc = "charge", ![r].at = now]
    /\ UNCHANGED <<table, window, active, now, edit, past, charged, clean>>

\* Mutant: one request more than the limit.
Room_OffByOne(w, minute, limit) == w.start # minute \/ w.count <= limit

\* The upsert's condition: a new window, or room in the current one.
Room(w, minute, limit) == w.start # minute \/ w.count < limit

Charged(w, minute) == [start |-> minute, count |-> IF w.start # minute THEN 1 ELSE w.count + 1]

\* ConsumeClientKeyRPM, one transaction: policy and counter of the moment.
ConsumeRPM(r) ==
    LET k == call[r].key
        m == call[r].at
        limit == key[k].rpm
    IN
    /\ At(r, "charge")
    /\ \/ /\ k \in revoked \/ Expired(key[k], m)
          /\ Return(r) /\ UNCHANGED <<window, charged, clean>>
       \/ /\ k \notin revoked /\ ~Expired(key[k], m) /\ limit = 0
          /\ Admit(r) /\ UNCHANGED <<window, charged, clean>>
       \/ /\ k \notin revoked /\ ~Expired(key[k], m) /\ limit > 0
          /\ IF Room(window[k], m, limit)
             THEN /\ window' = [window EXCEPT ![k] = Charged(@, m)]
                  /\ Admit(r)
                  /\ charged' = [charged EXCEPT ![k][m] = @ + 1]
                  /\ clean' = IF m < window[k].start THEN clean \ {k} ELSE clean
             ELSE Return(r) /\ UNCHANGED <<window, charged, clean>>
    /\ UNCHANGED <<table, active, now, edit, past>>

Full(k, slots) == active[k] >= slots

\* AcquireConcurrency, by the limit in the grant.
AcquireConcurrency(r) ==
    LET k == call[r].key
        slots == call[r].row.slots
    IN
    /\ At(r, "acquire")
    /\ \/ slots = 0 /\ Goto(r, "authorize") /\ UNCHANGED active
       \/ slots > 0 /\ Full(k, slots) /\ Return(r) /\ UNCHANGED active
       \/ /\ slots > 0 /\ ~Full(k, slots)
          /\ active' = [active EXCEPT ![k] = @ + 1]
          /\ call' = [call EXCEPT ![r].pc = "authorize", ![r].counted = TRUE]
    /\ UNCHANGED <<table, window, now, edit, past, charged, clean>>

\* clientPermit.Release, deferred by the middleware; a permit of an unlimited
\* key is not counted.
Release(r) ==
    LET k == call[r].key IN
    /\ active' = IF call[r].counted THEN [active EXCEPT ![k] = IF @ <= 1 THEN 0 ELSE @ - 1]
                 ELSE active
    /\ Return(r)

AllowsModel(r, model) == call[r].row.policy = "all" \/ model \in call[r].scopes

\* Mutant: a refused model forgets the permit.
AuthorizeModel_Leak(r, model) ==
    /\ At(r, "authorize")
    /\ IF AllowsModel(r, model) THEN Goto(r, "serve") ELSE Return(r)
    /\ UNCHANGED <<table, window, active, now, edit, past, charged, clean>>

\* The model policy.  A body that is not JSON goes on to the protocol handler,
\* which rejects it.
AuthorizeModel(r, model) ==
    /\ At(r, "authorize")
    /\ \/ AllowsModel(r, model) /\ Goto(r, "serve") /\ UNCHANGED active
       \/ ~AllowsModel(r, model) /\ Release(r)
    /\ UNCHANGED <<table, window, now, edit, past, charged, clean>>

\* The response has been written, or reading the body failed.
Done(r) ==
    /\ At(r, "authorize") \/ At(r, "serve")
    /\ Release(r)
    /\ UNCHANGED <<table, window, now, edit, past, charged, clean>>

Serve(r) ==
    \/ LoadScopes(r) \/ ReadClock(r) \/ ConsumeRPM(r) \/ AcquireConcurrency(r)
    \/ (\E model \in Models : AuthorizeModel(r, model)) \/ Done(r)

-----------------------------------------------------------------------------
(* Administration.                                                         *)

Editing(e, label) == edit[e].pc = label
Respond(e)        == edit' = [edit EXCEPT ![e] = IdleEdit]

\* The statement pairs of CreateClientKey and UpdateClientKeyPolicy.
Store(k, d) ==
    /\ key' = [j \in Exists \cup {k} |-> IF j = k THEN d.row ELSE key[j]]
    /\ scopes' = [scopes EXCEPT ![k] = d.scopes]
    /\ past' = [past EXCEPT ![k] = @ \cup {<<d.row.policy, d.scopes>>}]

Acceptable(d) == Fits(d.row.policy, d.scopes) /\ ~Expired(d.row, now)

\* Create.
Create(k, d) ==
    /\ k \notin Exists /\ Acceptable(d)
    /\ Store(k, d)
    /\ UNCHANGED <<revoked, window, active, now, call, edit, charged, clean>>

\* PATCH: the handler reads the key and overlays the fields of the body on it;
\* the outcome may be any policy.
Patch(e, k, d) ==
    /\ Editing(e, "idle") /\ k \in Exists
    /\ edit' = [edit EXCEPT ![e] = [pc |-> "check", key |-> k, draft |-> d]]
    /\ UNCHANGED <<table, window, active, now, call, past, charged, clean>>

\* Service.Update and Service.Revoke read the key again and refuse one that
\* is revoked or expired; a read that falls between the two statements of
\* another change may fail.
Check(e) ==
    LET k == edit[e].key IN
    /\ Editing(e, "check")
    /\ \/ Respond(e)
       \/ /\ k \notin revoked /\ ~Expired(key[k], now)
          /\ Acceptable(edit[e].draft)
          /\ edit' = [edit EXCEPT ![e].pc = "write"]
    /\ UNCHANGED <<table, window, active, now, call, past, charged, clean>>

StartRevoke(e, k) ==
    /\ Editing(e, "idle") /\ k \in Exists
    /\ k \notin revoked /\ ~Expired(key[k], now)
    /\ edit' = [edit EXCEPT ![e].pc = "revoke", ![e].key = k]
    /\ UNCHANGED <<table, window, active, now, call, past, charged, clean>>

\* Mutant: the update writes the row it has checked, revoked_at included.
Write_WholeRow(e) ==
    /\ Editing(e, "write")
    /\ Store(edit[e].key, edit[e].draft)
    /\ revoked' = revoked \ {edit[e].key}
    /\ Respond(e)
    /\ UNCHANGED <<window, active, now, call, charged, clean>>

\* UpdateClientKeyPolicy leaves revoked_at alone.
Write(e) ==
    /\ Editing(e, "write")
    /\ Store(edit[e].key, edit[e].draft)
    /\ Respond(e)
    /\ UNCHANGED <<revoked, window, active, now, call, charged, clean>>

\* RevokeClientKey.
Revoke(e) ==
    /\ Editing(e, "revoke")
    /\ revoked' = revoked \cup {edit[e].key}
    /\ Respond(e)
    /\ UNCHANGED <<key, scopes, window, active, now, call, past, charged, clean>>

Administer(e) ==
    \/ Check(e) \/ Write(e) \/ Revoke(e)
    \/ \E k \in Keys : StartRevoke(e, k)
    \/ \E k \in Keys, d \in Drafts : Patch(e, k, d)

-----------------------------------------------------------------------------
Tick ==
    /\ now < MaxMinute
    /\ now' = now + 1
    /\ UNCHANGED <<table, window, active, call, edit, past, charged, clean>>

\* The process restarts; the database stays.
Restart ==
    /\ active' = [k \in Keys |-> 0]
    /\ call' = [r \in Requests |-> IdleCall]
    /\ edit' = [e \in Editors |-> IdleEdit]
    /\ UNCHANGED <<table, window, now, past, charged, clean>>

Next ==
    \/ \E r \in Requests : Serve(r) \/ (\E k \in Keys : FindKey(r, k))
    \/ \E e \in Editors : Administer(e)
    \/ \E k \in Keys, d \in Drafts : Create(k, d)
    \/ Tick \/ Restart

Spec == Init /\ [][Next]_vars

-----------------------------------------------------------------------------
(* Properties.                                                             *)

\* The tables, the counters and the requests keep their types.
TypeOK ==
    /\ Exists \subseteq Keys /\ key \in [Exists -> Key]
    /\ revoked \subseteq Exists
    /\ scopes \in [Keys -> SUBSET Models]
    /\ window \in [Keys -> [start : Minutes, count : Nat]]
    /\ active \in [Keys -> Nat]
    /\ now \in Minutes
    /\ call \in [Requests -> [pc : {"idle", "scopes", "refuse", "clock", "charge", "acquire",
                                    "authorize", "serve"},
                              key : Keys, row : Key, scopes : SUBSET Models, at : Minutes,
                              counted : BOOLEAN]]
    /\ edit \in [Editors -> [pc : {"idle", "check", "write", "revoke"}, key : Keys, draft : Draft]]

\* "The permit is retained while the request uploads, parses, and streams its
\* full response", and no longer: the counter of a key is the number of
\* requests that hold one of its permits, on every path through the
\* middlewares, across changes of the limit to and from unlimited, and after a
\* restart.  While limits change, they never exceed the limit that one of them
\* was admitted under (AcquireConcurrency).  The types are part of it.
PermitsExact ==
    /\ TypeOK
    /\ \A k \in Keys :
          /\ active[k] = Cardinality(Holders(k))
          /\ Holders(k) # {} =>
                \E r \in Holders(k) : Cardinality(Holders(k)) <= call[r].row.slots

\* A grant carries a policy and scopes the key really had together, although
\* they are read with two statements and an administrator may change both in
\* between (getClientKey).
GrantWhole ==
    \A r \in Requests :
        call[r].pc \in {"clock", "charge", "acquire", "authorize", "serve"} =>
            <<call[r].row.policy, call[r].scopes>> \in past[call[r].key]

\* "Irreversible revoke": no update under way when a key is revoked brings it
\* back, and no request is charged to it any more.
RevocationFinal ==
    [][/\ revoked \subseteq revoked'
       /\ \A r \in Requests :
             At(r, "charge") /\ call'[r].pc = "acquire" => call[r].key \notin revoked]_vars

\* "The persisted policy and counter are consumed atomically": in one minute a
\* key is charged at most as often as the limit in force allows, whatever the
\* limit was before and across restarts - as long as no request that read the
\* clock in an earlier minute is charged after one of a later minute.  That
\* case turns the window back and starts the count of the minute again.
RateHeld ==
    [][\A k \in clean, m \in Minutes :
          charged'[k][m] # charged[k][m] /\ k \in clean' => charged'[k][m] <= key[k].rpm]_vars
=============================================================================
