----------------------------- MODULE LeasePool -----------------------------
(***************************************************************************)
(* What the scheduler promises its callers (the gateway), without lists,   *)
(* hot sets, sticky keys or channels: a set of serving accounts, a lease   *)
(* per client that is only ever granted on a serving account, and an epoch *)
(* that a caller may compare to learn that the serving set has changed.    *)
(* The quota circuit of the gateway relies on the last promise.            *)
(***************************************************************************)
CONSTANTS Ids, Clients, NoId

VARIABLES serving, epoch, holder

poolVars == <<serving, epoch, holder>>

Init ==
    /\ serving \subseteq Ids
    /\ holder = [c \in Clients |-> NoId]

\* A caller that remembers the epoch notices every change of the set.
Stamped == serving' # serving => epoch' # epoch

\* Granting may also take accounts out of service, never the granted one.
Grant(c) ==
    /\ holder[c] = NoId
    /\ \E id \in serving \cap serving' : holder' = [holder EXCEPT ![c] = id]
    /\ serving' \subseteq serving
    /\ Stamped

Return(c) ==
    /\ holder[c] # NoId
    /\ holder' = [holder EXCEPT ![c] = NoId]
    /\ UNCHANGED <<serving, epoch>>

Reshape ==
    /\ serving' \subseteq Ids
    /\ Stamped
    /\ UNCHANGED holder

Next == Reshape \/ \E c \in Clients : Grant(c) \/ Return(c)

Spec == Init /\ [][Next]_poolVars
=============================================================================
