--------------------------- MODULE MCControlPlane ---------------------------
(* Instances of ControlPlane for TLC.                                      *)
EXTENDS ControlPlane, TLC

MCModels == <<"grok", "mini">>

\* A change of the numbers with a valid proxy, the same proxy stored but off, a
\* proxy that is refused, and numbers left out with everything off.
MCBodies ==
    {[value |-> 2, on |-> TRUE, url |-> "p", trace |-> TRUE],
     [value |-> 3, on |-> FALSE, url |-> "p", trace |-> FALSE],
     [value |-> 2, on |-> TRUE, url |-> "bad", trace |-> FALSE],
     [value |-> 0, on |-> FALSE, url |-> "", trace |-> FALSE]}
=============================================================================
