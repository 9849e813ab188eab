----------------------------- MODULE MCPublisher -----------------------------
(***************************************************************************)
(* Instances of Publisher for TLC.                                         *)
(***************************************************************************)
EXTENDS Publisher

CONSTANTS t1, t2, s1, s2

MCTasks == {t1, t2}
MCSlots == {s1, s2}
=============================================================================
