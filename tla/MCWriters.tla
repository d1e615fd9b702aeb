----------------------------- MODULE MCWriters -----------------------------
(* Safety of Lifecycle for TLC.  All writers with everything they can do   *)
(* are too many states for one instance, so five settings divide them,     *)
(* each an instance of Lifecycle over the same variables.  A behaviour     *)
(* keeps the setting it starts in.                                         *)
EXTENDS Lifecycle, TLC

\* A request against an administrator who disables and enables.
Switching == INSTANCE Lifecycle WITH
    Operations <- {"disable", "enable"}, Failures <- {"quota"},
    MaxToken <- 0, MaxRestarts <- 0

\* A request against an administrator who disables and deletes, and a restart.
Deleting == INSTANCE Lifecycle WITH
    Operations <- {"disable", "delete"}, Failures <- {"quota"}, MaxToken <- 0

\* Two requests with the account at the same time, and a restart.
Sharing == INSTANCE Lifecycle WITH
    Operations <- {}, Failures <- {"quota"}, MaxToken <- 0, SavesFail <- FALSE

\* The worker against an administrator who edits, recovers and imports.
Editing == INSTANCE Lifecycle WITH
    Operations <- {"configure", "recover", "import"}, Failures <- {"auth"}

\* The worker against an administrator who asks the provider.
Refreshing == INSTANCE Lifecycle WITH
    Operations <- {"refreshCredential", "refreshQuota"}, Failures <- {"auth"}

VARIABLE setting

Busy == {r \in Requests : ~At(r, "idle")}

MCInit ==
    \/ setting = "switching"  /\ Switching!Init
    \/ setting = "deleting"   /\ Deleting!Init
    \/ setting = "sharing"    /\ Sharing!Init
    \/ setting = "editing"    /\ Editing!Init
    \/ setting = "refreshing" /\ Refreshing!Init

MCNext ==
    /\ UNCHANGED setting
    /\ \/ setting = "switching"  /\ Switching!Next  /\ Cardinality(Busy') <= 1
       \/ setting = "deleting"   /\ Deleting!Next   /\ Cardinality(Busy') <= 1
       \/ setting = "sharing"    /\ Sharing!Next
       \/ setting = "editing"    /\ Editing!Next    /\ Busy' = {}
       \/ setting = "refreshing" /\ Refreshing!Next /\ Busy' = {}

MCSpec == MCInit /\ [][MCNext]_<<vars, setting>>

Symmetric == Permutations(Requests)
=============================================================================
