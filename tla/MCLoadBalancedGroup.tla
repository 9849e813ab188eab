------------------------- MODULE MCLoadBalancedGroup -------------------------
(***************************************************************************)
(* Instances of LoadBalancedGroup for TLC.                                 *)
(***************************************************************************)
EXTENDS LoadBalancedGroup

CONSTANTS c1, c2, m1, m2

MCConsumers == {c1, c2}
MCMessages == {m1, m2}
=============================================================================
