---------------------------- MODULE ControlPlane ----------------------------
(***************************************************************************)
(* The process and its managed configuration: the start of serve (open the *)
(* database, bootstrap the secrets, build every part from the stored       *)
(* settings and models), the settings and model handlers that change       *)
(* configuration while it serves, the bootstrap-admin command beside it,   *)
(* and a stop at any point.                                                *)
(***************************************************************************)
EXTENDS Settings, ModelRegistry, SecurityBootstrap

CONSTANTS
    Bodies,  \* the settings documents administrators send
    MaxOps   \* bound: saves, edits, starts and commands in a behaviour

ASSUME ControlPlaneAssumption == Bodies \subseteq Body /\ MaxOps \in Nat

VARIABLES
    phase,   \* progress of serve
    config,  \* the configuration file
    ops      \* operations so far

vars == <<settingsVars, registryVars, securityVars, phase, config, ops>>

Phases == {"down", "opened", "admin", "serving"}
Config == [panel : Strong \cup Weak \cup {NoSecret}, app : Strong \cup Weak \cup {NoSecret},
           key : Keys \cup {NoSecret}, proxy : Urls, trace : BOOLEAN]

Init ==
    /\ SettingsInit /\ RegistryInit /\ SecurityInit
    /\ phase = "down"
    /\ config = [panel |-> NoSecret, app |-> NoSecret, key |-> NoSecret,
                 proxy |-> NoUrl, trace |-> FALSE]
    /\ ops = 0

Count == ops < MaxOps /\ ops' = ops + 1

\* panel_password, or app_key when it is empty.
Password == IF config.panel # NoSecret THEN config.panel ELSE config.app

-----------------------------------------------------------------------------
(* The start.                                                              *)

\* OpenSQLite creates the settings row when it is missing (SettingsInit) and
\* seeds the models.
Open ==
    /\ phase = "down" /\ Count
    /\ phase' = "opened"
    /\ models' = SeedModels(models)
    /\ UNCHANGED <<settingsVars, catalog, edit, crossed, securityVars, config>>

BootstrapServeAdmin ==
    /\ phase = "opened"
    /\ phase' = "admin"
    /\ BootstrapLegacyAdmin(Password)
    /\ UNCHANGED <<settingsVars, registryVars, config, ops>>

\* The second transaction, then everything serve builds before it listens.
Serve ==
    /\ phase = "admin"
    /\ phase' = "serving"
    /\ BootstrapLegacyClientKey(config.key)
    /\ LoadSettings(config.proxy, config.trace)
    /\ LoadCatalog
    /\ UNCHANGED <<config, ops>>

\* A configured key that differs from the migrated one ends the process.
ServeRefuses ==
    /\ phase = "admin" /\ Differs(config.key)
    /\ phase' = "down"
    /\ UNCHANGED <<settingsVars, registryVars, securityVars, config, ops>>

Stop ==
    /\ phase # "down"
    /\ phase' = "down"
    /\ DropSettings /\ DropEdits
    /\ UNCHANGED <<securityVars, config, ops>>

-----------------------------------------------------------------------------
(* What operators and administrators do.                                   *)

\* The file is read at the start only.
EditConfig ==
    /\ phase = "down" /\ Count
    /\ \/ \E p \in Strong \cup Weak : config' = [config EXCEPT !.panel = p]
       \/ \E p \in Strong \cup Weak : config' = [config EXCEPT !.app = p]
       \/ \E k \in Keys : config' = [config EXCEPT !.key = k]
       \/ \E u \in GoodUrls : config' = [config EXCEPT !.proxy = u]
       \/ config' = [config EXCEPT !.trace = ~@]
    /\ config' # config
    /\ UNCHANGED <<settingsVars, registryVars, securityVars, phase>>

\* The command opens the database as serve does.
Command ==
    /\ Count
    /\ \E p \in Strong : BootstrapAdmin(p)
    /\ models' = SeedModels(models)
    /\ UNCHANGED <<settingsVars, catalog, edit, crossed, phase, config>>

SettingsHandler(a) ==
    /\ phase = "serving"
    /\ \/ GetSettings(a) /\ UNCHANGED ops
       \/ Count /\ \E b \in Bodies : PutSettings(a, b)
       \/ ApplySettings(a) /\ UNCHANGED ops
    /\ UNCHANGED <<registryVars, securityVars, phase, config>>

ModelHandler(e) ==
    /\ phase = "serving"
    /\ \/ /\ Count
          /\ \/ \E id \in Ids, to \in Targets, name \in Ids \cup {NoName} :
                   PutModel(e, id, [source |-> "managed", enabled |-> TRUE, to |-> to,
                                    alias |-> name])
             \/ \E id \in Ids : PatchModel(e, id)
       \/ /\ UNCHANGED ops
          /\ \/ \E v \in BOOLEAN : WritePatch(e, "enabled", v)
             \/ \E v \in Ids \cup {NoName} : WritePatch(e, "alias", v)
             \/ refreshModelCatalog(e)
    /\ UNCHANGED <<settingsVars, securityVars, phase, config>>

KeyHandler ==
    /\ phase = "serving" /\ Count
    /\ RevokeLegacyKey
    /\ UNCHANGED <<settingsVars, registryVars, phase, config>>

Next ==
    \/ Open \/ BootstrapServeAdmin \/ Serve \/ ServeRefuses \/ Stop
    \/ EditConfig \/ Command \/ KeyHandler
    \/ \E a \in Admins : SettingsHandler(a)
    \/ \E e \in Editors : ModelHandler(e)

Spec == Init /\ [][Next]_vars

-----------------------------------------------------------------------------
(* Properties.                                                             *)

\* Types of the tables, of the process's parts and of the requests.
TypeOK ==
    /\ stored \in Doc /\ seen \in [Admins -> Doc]
    /\ shared \in [value : Values, proxy : Urls]
    /\ live \in [value : [Knobs -> Values], proxy : GoodUrls \cup {NoUrl}, trace : BOOLEAN]
    /\ models \in Table
    /\ admin \in Strong \cup {NoSecret} /\ markers \subseteq Markers
    /\ legacy \in [hash : Keys \cup {NoSecret}, revoked : BOOLEAN]
    /\ phase \in Phases /\ config \in Config

\* An accepted PUT of the settings replaces the document its author had loaded:
\* no administrator overwrites a change he has not seen (expected_revision).
NoLostSave ==
    [][stored' # stored => \E a \in Admins : seen[a] = stored /\ seen'[a] = stored']_vars

\* When no save is being applied and the last one ran alone, every part of the
\* process runs with the stored document, also after restarts and after saves
\* that crossed: five parts have its numbers, an enabled proxy that is valid is
\* used, one that is stored but off is not, and the tracer follows the document
\* unless the file turns it on (ApplySettings, serve).  The types are part of it.
SettingsApplied ==
    /\ TypeOK
    /\ phase = "serving" /\ ~mixed /\ (\A a \in Admins : ~Saving(a)) =>
          /\ \A k \in Knobs : live.value[k] = stored.value
          /\ stored.on /\ stored.url \in GoodUrls => live.proxy = stored.url
          /\ ~stored.on /\ stored.url # NoUrl => live.proxy = NoUrl
          /\ stored.trace => live.trace
          /\ live.trace => stored.trace \/ config.trace

\* When no catalog is being rebuilt and the last row was written alone, the
\* bridge routes exactly the ids and aliases of the enabled rows, each to the
\* target of a row that has the name; with no enabled row, the default models
\* (refreshModelCatalog, CatalogFromRegistry).
CatalogFollowsRegistry ==
    LET Named(id) == {id, models[id].alias} \ {NoName}
        rebuilding(e) == At(e, "list") \/ At(e, "assign")
    IN  phase = "serving" /\ ~crossed /\ (\A e \in Editors : ~rebuilding(e)) =>
            IF Enabled(models) = {} THEN catalog = DefaultCatalog
            ELSE /\ DOMAIN catalog = UNION {Named(id) : id \in Enabled(models)}
                 /\ \A n \in DOMAIN catalog :
                       \E id \in Enabled(models) : n \in Named(id) /\ catalog[n] = models[id].to

\* "Seed defaults once; never overwrite managed edits": a row, once there, is
\* changed by an administrator's request only, never by a start or a command.
ManagedKept ==
    [][\A id \in Ids : Exists(models, id) /\ models'[id] # models[id]
          => phase = "serving" /\ edit' # edit]_vars

\* The secrets of the file are one-time inputs: starts, commands and edits of
\* the file never replace an administrator, a migrated key is never replaced,
\* and a revoked one does not come back (bootstrap.go).
BootstrapOnce ==
    [][/\ admin # NoSecret => admin' = admin
       /\ legacy # NoKey => legacy'.hash = legacy.hash
       /\ legacy.revoked => legacy'.revoked]_vars

\* A process that serves has done its bootstrap, whatever stops and commands
\* came between its two transactions: the configured key is the migrated one,
\* and a configured password that is accepted has produced an administrator.
ServesBootstrapped ==
    phase = "serving" =>
        /\ config.key # NoSecret => legacy.hash = config.key
        /\ Password \in Strong => admin # NoSecret
=============================================================================
