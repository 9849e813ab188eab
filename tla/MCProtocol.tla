------------------------------ MODULE MCProtocol ------------------------------
(***************************************************************************)
(* Instances of Protocol for TLC: bytes 0..3, where 1 stands for a letter, *)
(* 2 for ':', 3 for a byte that is not UTF-8 and 0 for a character that no *)
(* address may have.                                                       *)
(***************************************************************************)
EXTENDS Protocol

MCAddressChars == {1}
MCNotUtf8 == {3}

Zeros(n) == [i \in 1..n |-> 0]

\* One and two levels, then every way to be refused: empty, a leading, a
\* trailing and a double ':', a forbidden character, a byte that is not UTF-8,
\* one byte too long.
MCAddresses ==
    { <<1>>, <<1, 2, 1>>, <<>>, <<2, 1>>, <<1, 2>>, <<1, 2, 2, 1>>, <<0>>, <<3>>, <<1, 1, 1, 1, 1>> }

\* Payloads around the limit, and around the wrap of the length.
MCPayloads == {Zeros(n) : n \in {0, 1, 2, 3, 15, 16, 17}}

MCInputs ==
    [mode : {0, 1}, ident : {<<1>>}, msg_type : {<<>>, <<1>>, <<1, 3>>, <<1, 1, 1>>, <<1, 1, 1, 1>>},
     address : MCAddresses, reply_to : MCAddresses, payload : MCPayloads]

\* Any string can be a client_address: one that is valid, one that is not,
\* one whose length does not fit a u16.
MCClientAddresses == {<<1, 1>>, <<0>>, <<>>, [i \in 1..18 |-> 1]}

MCTails == {<<>>, <<1, 2>>}
=============================================================================
