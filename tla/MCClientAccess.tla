--------------------------- MODULE MCClientAccess ---------------------------
(* Instances of ClientAccess for TLC.                                      *)
EXTENDS ClientAccess, TLC

CONSTANTS m1, m2

Unlimited == [row |-> NoRow, scopes |-> {}]
Limited(rpm, slots, expiry, model) ==
    [row |-> [policy |-> "allowlist", rpm |-> rpm, slots |-> slots, expiry |-> expiry],
     scopes |-> {model}]

ThreePolicies == {Unlimited, Limited(1, 1, 0, m1), Limited(2, 2, 1, m2)}

Symmetric == Permutations(Requests) \cup Permutations(Editors)
=============================================================================
