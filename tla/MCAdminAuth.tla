---------------------------- MODULE MCAdminAuth -----------------------------
(* Instances of AdminAuth for TLC.                                         *)
EXTENDS AdminAuth, TLC

Symmetric == Permutations(Sids) \cup Permutations(Callers)
=============================================================================
