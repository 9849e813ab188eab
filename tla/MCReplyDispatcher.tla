-------------------------- MODULE MCReplyDispatcher --------------------------
(***************************************************************************)
(* Instances of ReplyDispatcher for TLC: r1 and r2 use the same            *)
(* message_id (a retry of a cloned message), r3 one of its own; r2 is made *)
(* on a publisher.                                                         *)
(***************************************************************************)
EXTENDS ReplyDispatcher

MCCalls == {"r1", "r2", "r3"}
MCClientCalls == {"r1", "r3"}
MCIds == {"i1", "i2"}
MCIdOf == [c \in MCCalls |-> IF c = "r3" THEN "i2" ELSE "i1"]
=============================================================================
