------------------------------ MODULE MCRegistry ------------------------------
(***************************************************************************)
(* Instances of Registry for TLC.                                          *)
(***************************************************************************)
EXTENDS Registry, TLC

CONSTANTS t1, t2, s1, s2, s3

MCLiterals == {"a", "b"}
MCPartials == {"a*"}
MCThreads == {t1, t2}
MCSlots2 == {s1, s2}
MCSlots3 == {s1, s2, s3}
Symmetric2 == Permutations(MCThreads) \cup Permutations(MCSlots2)
Symmetric3 == Permutations(MCThreads) \cup Permutations(MCSlots3)

\* Exact addresses and single wildcards that overlap in every way: exact
\* under a wildcard, two wildcards that cross, one that is disjoint, an
\* address with an empty level, two patterns that are refused.
SingleAddresses ==
    { <<"a">>, <<"a", "b">>, <<"a", "">>, <<"a", "*">>,
      <<"a", "b", "*">>, <<"a", "*", "b">>, <<"*", "b">>, <<"a", "a*">> }

\* Prefix wildcards with the routes around them.
PrefixAddresses ==
    { <<"a">>, <<"a", "b">>, <<"a", "*">>, <<"a", "**">>,
      <<"a", "b", "**">>, <<"a", "*", "**">>, <<"a", "**", "b">> }
=============================================================================
