------------------------------- MODULE MCBroker -------------------------------
(***************************************************************************)
(* Instances of Broker for TLC.                                            *)
(***************************************************************************)
EXTENDS Broker

CONSTANTS t1, s1, s2, m1

MCTasks == {t1}
MCSlots == {s1, s2}
MCMembers == {m1}
=============================================================================
