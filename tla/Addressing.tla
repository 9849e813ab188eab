------------------------------ MODULE Addressing ------------------------------
(***************************************************************************)
(* Logical addresses and wildcard patterns of LocalRegistry                *)
(* (broker_core/registry/mod.rs): the pattern syntax, the segment          *)
(* comparison and the two index scans, and beside them the reference       *)
(* meaning that the module documentation gives to `*` and `**`.            *)
(*                                                                         *)
(* An address is the non-empty sequence of its `:`-separated segments.     *)
(* The code works on bytes; at segment level nothing it tests is lost:     *)
(* a static prefix ends with `:` (a valid pattern has `*` only as a whole  *)
(* segment), so walk_prefix cuts between segments.                         *)
(***************************************************************************)
EXTENDS Naturals, Sequences
Sequence == INSTANCE SequencesExt

CONSTANTS
    Literals,   \* non-empty segments without `*`
    Partials    \* segments that mix `*` with other characters, such as "a*"

Star == "*"
StarStar == "**"
Empty == ""

ASSUME SegmentAssumption ==
    /\ Literals # {}
    /\ {Star, StarStar, Empty} \cap (Literals \cup Partials) = {}
    /\ Literals \cap Partials = {}

Plain == Literals \cup {Empty}              \* the segments without `*`
Segments == Plain \cup {Star, StarStar} \cup Partials
Address == Seq(Segments) \ {<<>>}

-----------------------------------------------------------------------------
(* Syntax *)

IsWildcard(a) == \E i \in 1..Len(a) : a[i] \notin Plain

\* `**` is last and is not the whole pattern, the pattern starts with a
\* literal, and no segment is empty or partial.
ValidateWildcardPattern(p) ==
    /\ p[1] \in Literals
    /\ \A i \in 1..Len(p) : /\ p[i] \in Literals \cup {Star, StarStar}
                            /\ p[i] = StarStar => i = Len(p)

EndsWithStarStar(p) == p[Len(p)] = StarStar

-----------------------------------------------------------------------------
(* compare_segments_bytes walks both sequences in step. Its loop is given  *)
(* by what happens at position i: it goes on, or it stops with TRUE, or    *)
(* (neither) it stops with FALSE.                                          *)

SegmentIs(s, i, seg) == i <= Len(s) /\ s[i] = seg

GoesOn(pattern, target, both, i) ==
    /\ i <= Len(pattern) /\ i <= Len(target)
    /\ pattern[i] # StarStar
    /\ both => target[i] # StarStar
    /\ \/ pattern[i] = Star
       \/ target[i] = Star
       \/ pattern[i] = target[i]

\* Mutant: the pattern may end before the target does.
StopsTrueEarly(pattern, target, both, i) ==
    \/ i = Len(pattern) + 1 /\ i <= Len(target) + 1
    \/ both /\ (SegmentIs(pattern, i, StarStar) \/ SegmentIs(target, i, StarStar))
    \/ ~both /\ SegmentIs(pattern, i, StarStar) /\ i = Len(pattern)

StopsTrue(pattern, target, both, i) ==
    \/ i = Len(pattern) + 1 /\ i = Len(target) + 1
    \/ both /\ (SegmentIs(pattern, i, StarStar) \/ SegmentIs(target, i, StarStar))
    \/ ~both /\ SegmentIs(pattern, i, StarStar) /\ i = Len(pattern)

CompareSegments(pattern, target, both) ==
    \E i \in 1..(Len(pattern) + 1) :
        /\ StopsTrue(pattern, target, both, i)
        /\ \A j \in 1..(i - 1) : GoesOn(pattern, target, both, j)

-----------------------------------------------------------------------------
(* The radix tree (iradix): walk_prefix yields the keys that start with    *)
(* the given bytes, walk_path and get_ancestor the keys that are a prefix  *)
(* of the given bytes.                                                     *)

\* key \in walk_prefix(static_prefix_bytes(pattern)): the key has the
\* pattern's segments up to the first `*`, and a segment in that place.
UnderStaticPrefix(pattern, key) ==
    \A i \in 1..Len(pattern) :
        (\A j \in 1..(i - 1) : pattern[j] \in Plain)
            => i <= Len(key) /\ (pattern[i] \in Plain => key[i] = pattern[i])

\* Mutant: the walk goes down instead of up.
OnPathOfSwapped(key, address) == Sequence!IsPrefix(address, key)

OnPathOf(key, address) == Sequence!IsPrefix(key, address)

-----------------------------------------------------------------------------
(* Reference meaning (registry/mod.rs, "Wildcard Rules"): `*` matches      *)
(* exactly one segment at its position, `**` zero or more trailing ones.   *)

Concrete == {a \in Address : ~IsWildcard(a)}

Covers(p, a) ==
    LET fixed == IF EndsWithStarStar(p) THEN Len(p) - 1 ELSE Len(p)
    IN  /\ IF EndsWithStarStar(p) THEN Len(a) >= fixed ELSE Len(a) = fixed
        /\ \A i \in 1..fixed : p[i] = Star \/ p[i] = a[i]

\* Two routes are ambiguous when one concrete address belongs to both. A
\* common address no longer than the longer route exists if any exists.
ConcreteUpTo(n) == UNION {[1..k -> Plain] : k \in 1..n}

Overlap(p, q) ==
    \E a \in ConcreteUpTo(IF Len(p) > Len(q) THEN Len(p) ELSE Len(q)) :
        Covers(p, a) /\ Covers(q, a)
=============================================================================
