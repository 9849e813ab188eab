------------------------------- MODULE WorkQueue -------------------------------
(***************************************************************************)
(* What a LoadBalanced group promises, without channels and tasks: a queue *)
(* whose messages are handed, in order, each to one consumer with empty    *)
(* hands, who receives it or drops it. Closing the queue loses only what   *)
(* nobody was handed. Each message is in one place, because every step     *)
(* moves it.                                                               *)
(***************************************************************************)
EXTENDS Sequences

CONSTANTS Consumers, Messages

VARIABLES
    open,       \* the queue accepts and hands out messages
    pending,    \* the accepted messages that nobody was handed
    held,       \* per consumer: the message it was handed, if any
    received, discarded

vars == <<open, pending, held, received, discarded>>

Init ==
    /\ open = TRUE /\ pending = <<>>
    /\ held = [c \in Consumers |-> {}]
    /\ received = {} /\ discarded = {}

Accept(m) ==
    /\ open
    /\ pending' = Append(pending, m)
    /\ UNCHANGED <<open, held, received, discarded>>

Hand(c) ==
    /\ open /\ pending # <<>> /\ held[c] = {}
    /\ held' = [held EXCEPT ![c] = {Head(pending)}]
    /\ pending' = Tail(pending)
    /\ UNCHANGED <<open, received, discarded>>

Receive(c) ==
    /\ held[c] # {}
    /\ received' = received \cup held[c]
    /\ held' = [held EXCEPT ![c] = {}]
    /\ UNCHANGED <<open, pending, discarded>>

Discard(c) ==
    /\ held[c] # {}
    /\ discarded' = discarded \cup held[c]
    /\ held' = [held EXCEPT ![c] = {}]
    /\ UNCHANGED <<open, pending, received>>

Close ==
    /\ open
    /\ open' = FALSE /\ pending' = <<>>
    /\ UNCHANGED <<held, received, discarded>>

Next ==
    \/ \E m \in Messages : Accept(m)
    \/ \E c \in Consumers : Hand(c) \/ Receive(c) \/ Discard(c)
    \/ Close

Spec == Init /\ [][Next]_vars
=============================================================================
