---------------------------- MODULE MCScheduler ----------------------------
(* Instances of Scheduler for TLC.                                         *)
EXTENDS Scheduler, TLC

CONSTANTS c1, c2, k1

Cooling   == MarkUnavailable(Fresh, "cooldown", "future", "other")
Emptied   == SetQuota(Fresh, TRUE)

FreshOnly == {Fresh}
AnyItem   == {Fresh, Cooling, Emptied}

\* Both clients talk in the same session.
SharedKey == [c \in Clients |-> k1]
NoKeys    == [c \in Clients |-> NoKey]

RoundRobin == {"round-robin"}
FillFirst == {"fill-first"}
Symmetric == Permutations(Clients)
=============================================================================
