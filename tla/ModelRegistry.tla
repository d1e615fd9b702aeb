--------------------------- MODULE ModelRegistry ----------------------------
(***************************************************************************)
(* The model registry and the catalog the bridge routes with: backend/     *)
(* internal/api/models_admin_v1.go, infra/persistence/sqlite/models.go and *)
(* upstream/catalog.go.                                                    *)
(*                                                                         *)
(* A handler writes one row and then rebuilds the catalog from a list of   *)
(* the enabled rows; the row, the list and the assignment of the new       *)
(* catalog are separate steps.  A row keeps what decides the route: its    *)
(* upstream id, its alias, whether it is enabled, and its source.          *)
(***************************************************************************)
EXTENDS Naturals, Sequences

CONSTANTS
    Editors,   \* concurrent admin requests
    ModelIds,  \* model ids in the order of the table's listing, a sequence
    Seeds,     \* the ids of DefaultCatalog
    Targets    \* upstream ids an administrator enters

Ids    == {ModelIds[i] : i \in DOMAIN ModelIds}
NoName == "none"
Absent == [source |-> "absent"]

ASSUME ModelRegistryAssumption ==
    ModelIds \in Seq(Ids) /\ Seeds \subseteq Ids /\ NoName \notin Ids

Row   == [source : {"seed", "managed"}, enabled : BOOLEAN, to : Ids \cup Targets,
          alias : Ids \cup {NoName}]
Table == [Ids -> Row \cup {Absent}]

VARIABLES
    models,   \* the table models
    catalog,  \* Server.modelCatalog and Pipeline.Catalog: upstream id of a name
    edit,     \* admin requests in progress
    crossed   \* history: the last row was written while another catalog was being rebuilt

registryVars == <<models, catalog, edit, crossed>>

NoEdit == [step |-> "idle"]

Exists(t, id) == t[id] # Absent
Enabled(t)    == {id \in Ids : Exists(t, id) /\ t[id].enabled}

\* Model.Normalize: an alias that is the id itself is dropped.
Normalized(id, row) == [row EXCEPT !.alias = IF @ = id THEN NoName ELSE @]

SeedRow(id) == [source |-> "seed", enabled |-> TRUE, to |-> id, alias |-> NoName]

\* Mutant: a seed replaces the row it finds.
SeedModels_Overwrite(t) ==
    [id \in Ids |-> IF id \in Seeds THEN SeedRow(id) ELSE t[id]]

\* Missing defaults are inserted whenever the database is opened.
SeedModels(t) ==
    [id \in Ids |-> IF id \in Seeds /\ ~Exists(t, id) THEN SeedRow(id) ELSE t[id]]

-----------------------------------------------------------------------------
(* The catalog.                                                            *)

\* NewDefaultCatalog.
DefaultCatalog == [name \in Seeds |-> name]

\* Positions of the enabled rows that speak for a name.
Speaks(t, name) ==
    {i \in DOMAIN ModelIds :
        ModelIds[i] \in Enabled(t) /\ name \in {ModelIds[i], t[ModelIds[i]].alias}}

\* ListModels(ctx, false): the enabled rows.
Listed(t) == [id \in Ids |-> IF id \in Enabled(t) THEN t[id] ELSE Absent]

\* NewCatalog writes ids and aliases in the order of the list: the last row
\* that speaks for a name wins.  Without a row the default catalog is used.
BuildCatalog(t) ==
    LET names == {n \in Ids : Speaks(t, n) # {}}
        Last(S) == CHOOSE i \in S : \A j \in S : j <= i
    IN  IF names = {} THEN DefaultCatalog
        ELSE [n \in names |-> t[ModelIds[Last(Speaks(t, n))]].to]

-----------------------------------------------------------------------------
RegistryInit ==
    /\ models = [id \in Ids |-> Absent]
    /\ catalog = DefaultCatalog
    /\ edit = [e \in Editors |-> NoEdit]
    /\ crossed = FALSE

At(e, step)   == edit[e].step = step
Become(e, to) == edit' = [edit EXCEPT ![e] = to]

\* Mutant: the handler answers without refreshing the catalog.
Upsert_NoRefresh(e, id, row) ==
    /\ models' = [models EXCEPT ![id] = Normalized(id, [row EXCEPT !.source = "managed"])]
    /\ Become(e, NoEdit)
    /\ UNCHANGED <<catalog, crossed>>

\* UpsertModel, with the crossing of another handler's refresh noted.
Upsert(e, id, row) ==
    /\ models' = [models EXCEPT ![id] = Normalized(id, [row EXCEPT !.source = "managed"])]
    /\ crossed' = \E f \in Editors \ {e} : At(f, "list") \/ At(f, "assign")
    /\ Become(e, [step |-> "list"])
    /\ UNCHANGED catalog

\* PUT: the whole row, new or not.  It is read back before the refresh; nothing
\* deletes rows, so it is found.
PutModel(e, id, row) == At(e, "idle") /\ Upsert(e, id, row)

\* PATCH: the row is read, the fields of the body replaced, the row written.
PatchModel(e, id) ==
    /\ At(e, "idle") /\ Exists(models, id)
    /\ Become(e, [step |-> "patch", id |-> id, row |-> models[id]])
    /\ UNCHANGED <<models, catalog, crossed>>

apply(row, field, value) ==
    CASE field = "enabled" -> [row EXCEPT !.enabled = value]
      [] field = "alias"   -> [row EXCEPT !.alias = value]

WritePatch(e, field, value) ==
    /\ At(e, "patch")
    /\ Upsert(e, edit[e].id, apply(edit[e].row, field, value))

\* refreshModelCatalog lists ...
ListModels(e) ==
    /\ At(e, "list")
    /\ Become(e, [step |-> "assign", rows |-> Listed(models)])
    /\ UNCHANGED <<models, catalog, crossed>>

\* ... and assigns; the handler answers.
AssignCatalog(e) ==
    /\ At(e, "assign")
    /\ catalog' = BuildCatalog(edit[e].rows)
    /\ Become(e, NoEdit)
    /\ UNCHANGED <<models, crossed>>

refreshModelCatalog(e) == ListModels(e) \/ AssignCatalog(e)

\* newAPIHandler: CatalogFromRegistry of the listed rows.
LoadCatalog ==
    /\ catalog' = BuildCatalog(Listed(models))
    /\ crossed' = FALSE
    /\ UNCHANGED <<models, edit>>

DropEdits ==
    /\ edit' = [e \in Editors |-> NoEdit]
    /\ UNCHANGED <<models, catalog, crossed>>
=============================================================================
