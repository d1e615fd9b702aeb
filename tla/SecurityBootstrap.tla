------------------------- MODULE SecurityBootstrap --------------------------
(***************************************************************************)
(* How the first administrator and the legacy client key come into the     *)
(* database: backend/internal/bootstrap and infra/persistence/sqlite/      *)
(* bootstrap.go.  Each operation is one transaction; serve runs the two    *)
(* legacy ones at its start, bootstrap-admin is a command that another     *)
(* process may run at any time.                                            *)
(*                                                                         *)
(* An administrator is the secret it logs in with.  client_auth_required   *)
(* is not modelled: opening the database sets it, before anything here.    *)
(***************************************************************************)
EXTENDS Naturals

CONSTANTS
    Strong,  \* passwords that validateAdminBootstrapPassword accepts
    Weak,    \* too short or too long ones
    Keys,    \* api_key values
    NoSecret \* an empty value in the configuration

ASSUME SecurityBootstrapAssumption ==
    Strong \cap Weak = {} /\ NoSecret \notin Strong \cup Weak \cup Keys

Markers == {"admin", "legacy_admin", "client_key"}

VARIABLES
    admin,    \* admin_users: the secret of its only row, or NoSecret
    markers,  \* one-time markers of app_meta
    legacy    \* the row of client_keys whose origin is config_api_key

securityVars == <<admin, markers, legacy>>

NoKey == [hash |-> NoSecret, revoked |-> FALSE]

SecurityInit == admin = NoSecret /\ markers = {} /\ legacy = NoKey

\* The administrator is inserted when there is none.
Insert(secret) == IF admin = NoSecret THEN secret ELSE admin

\* bootstrap-admin: a weak password is refused, a second run does nothing.
BootstrapAdmin(password) ==
    /\ password \in Strong /\ "admin" \notin markers
    /\ admin' = Insert(password)
    /\ markers' = markers \cup {"admin"}
    /\ UNCHANGED legacy

\* BootstrapLegacyAdmin for the panel password: skipped when there is none or
\* when it is weak.
BootstrapLegacyAdmin(password) ==
    IF password \in Strong /\ "legacy_admin" \notin markers
    THEN /\ admin' = Insert(password)
         /\ markers' = markers \cup {"legacy_admin"}
         /\ UNCHANGED legacy
    ELSE UNCHANGED securityVars

\* Mutant: the hashes are not compared.
Differs_Never(key) == FALSE

\* A key that differs from the migrated one stops serve.
Differs(key) == key # NoSecret /\ legacy # NoKey /\ legacy.hash # key

\* Mutant: the migrated row is written again.
Migrated_Again(key) == [hash |-> key, revoked |-> FALSE]

\* The row after the migration: kept when it exists, and not inserted a second
\* time.
Migrated(key) ==
    IF legacy # NoKey \/ "client_key" \in markers THEN legacy
    ELSE [hash |-> key, revoked |-> FALSE]

BootstrapLegacyClientKey(key) ==
    /\ ~Differs(key)
    /\ IF key = NoSecret THEN UNCHANGED securityVars
       ELSE /\ legacy' = Migrated(key)
            /\ markers' = markers \cup {"client_key"}
            /\ UNCHANGED admin

\* An administrator revokes the legacy key in the key list.
RevokeLegacyKey ==
    /\ legacy # NoKey /\ ~legacy.revoked
    /\ legacy' = [legacy EXCEPT !.revoked = TRUE]
    /\ UNCHANGED <<admin, markers>>
=============================================================================
