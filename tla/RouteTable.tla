------------------------------ MODULE RouteTable ------------------------------
(***************************************************************************)
(* What the registry promises its clients: a table of exclusive bindings.  *)
(* An address or pattern is bound only while no bound one shares an        *)
(* address with it, to a subscription that has no binding yet, and each    *)
(* binding ends on its own. Nothing else ever happens to a binding.        *)
(***************************************************************************)
EXTENDS Addressing

CONSTANTS
    Addresses,  \* the addresses and patterns that components bind
    Slots       \* subscription identities

VARIABLE table  \* the bindings: a set of <<address, slot>>

TableInit == table = {}

Bind(a, s) ==
    /\ \A b \in table : ~Overlap(b[1], a) /\ b[2] # s
    /\ table' = table \cup {<<a, s>>}

Unbind(b) ==
    /\ b \in table
    /\ table' = table \ {b}

TableNext ==
    \/ \E a \in Addresses, s \in Slots : Bind(a, s)
    \/ \E b \in table : Unbind(b)

TableSpec == TableInit /\ [][TableNext]_table
=============================================================================
