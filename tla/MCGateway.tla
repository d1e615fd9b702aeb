----------------------------- MODULE MCGateway -----------------------------
(* Instances of Gateway for TLC.                                           *)
EXTENDS Gateway, TLC

Symmetric == Permutations(Requests) \cup Permutations(Ids)
=============================================================================
