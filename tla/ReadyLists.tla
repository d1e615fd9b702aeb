----------------------------- MODULE ReadyLists -----------------------------
(***************************************************************************)
(* The scheduler's ready list is a slice used as an ordered set, and       *)
(* removeReadyLocked filters it in place.  The filter is written with the  *)
(* ranks of the kept indices instead of recursion, so that it can be       *)
(* reasoned about (SchedulerProofs).                                       *)
(***************************************************************************)
EXTENDS Naturals, FiniteSets, Sequences

Elems(s) == {s[i] : i \in DOMAIN s}

NoDuplicates(s) == \A i, j \in DOMAIN s : s[i] = s[j] => i = j

\* The rank of an index in a finite set of indices, and the index of rank k.
Rank(K, i) == Cardinality({j \in K : j <= i})
Nth(K, k)  == CHOOSE i \in K : Rank(K, i) = k

\* s without the elements of P, in the same order.
Without(s, P) ==
    LET K == {i \in DOMAIN s : s[i] \notin P}
    IN  [k \in 1..Cardinality(K) |-> s[Nth(K, k)]]

\* The sequences that list a finite set: the order of a Go map is any of them.
Orders(S) == {s \in [1..Cardinality(S) -> S] : Elems(s) = S}
=============================================================================
