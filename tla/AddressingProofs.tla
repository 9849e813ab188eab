--------------------------- MODULE AddressingProofs ---------------------------
(***************************************************************************)
(* What the segment comparison and the static-prefix scan of Addressing    *)
(* compute, for patterns and addresses of every length.                    *)
(***************************************************************************)
EXTENDS Addressing, TLAPS

\* A route key: a concrete address, or a pattern that passed validation.
WellFormed(p) ==
    /\ p \in Address
    /\ IsWildcard(p) => ValidateWildcardPattern(p)

\* In a route key `**` stands only at the end, and every segment is plain,
\* `*` or `**` (what validate_wildcard_pattern guarantees the comparison).
LEMMA KeyShape ==
    ASSUME NEW p, WellFormed(p)
    PROVE  /\ Len(p) \in Nat \ {0} /\ p \in Seq(Segments)
           /\ \A i \in 1..Len(p) : p[i] = StarStar => i = Len(p)
           /\ \A i \in 1..Len(p) : p[i] \in Plain \cup {Star, StarStar}
  <1>1. p \in Seq(Segments) /\ p # <<>>
    BY DEF WellFormed, Address
  <1>2. Len(p) \in Nat \ {0}
    BY <1>1
  <1>3. StarStar \notin Plain
    BY SegmentAssumption DEF Plain, StarStar, Empty, Star
  <1>4. CASE IsWildcard(p)
    BY <1>1, <1>2, <1>4 DEF WellFormed, ValidateWildcardPattern, Plain
  <1>5. CASE ~IsWildcard(p)
    BY <1>1, <1>2, <1>3, <1>5 DEF IsWildcard
  <1> QED BY <1>4, <1>5

\* The loop returns TRUE when it goes on at the first n positions and stops
\* with TRUE at the next one.
LEMMA CompareStops ==
    ASSUME NEW p, NEW q, NEW both, Len(p) \in Nat,
           NEW n \in Nat, n <= Len(p),
           StopsTrue(p, q, both, n + 1),
           \A j \in 1..n : GoesOn(p, q, both, j)
    PROVE  CompareSegments(p, q, both)
  <1>1. n + 1 \in 1..(Len(p) + 1) /\ (n + 1) - 1 = n
    OBVIOUS
  <1>2. SUFFICES \E i \in 1..(Len(p) + 1) :
            /\ StopsTrue(p, q, both, i)
            /\ \A j \in 1..(i - 1) : GoesOn(p, q, both, j)
    BY DEF CompareSegments
  <1>3. WITNESS n + 1 \in 1..(Len(p) + 1)
  <1>4. \A j \in 1..((n + 1) - 1) : GoesOn(p, q, both, j)
    BY <1>1
  <1> QED BY <1>4

\* Matching: for a route key and a concrete address, the loop of
\* compare_segments_bytes decides exactly what the documentation says.
THEOREM CompareDecidesCovers ==
    ASSUME NEW p, WellFormed(p), NEW a \in Concrete
    PROVE  CompareSegments(p, a, FALSE) <=> Covers(p, a)
  <1>1. /\ a \in Seq(Segments) /\ Len(a) \in Nat \ {0}
        /\ \A i \in 1..Len(a) : a[i] \in Plain
    BY DEF Concrete, Address, IsWildcard
  <1>2. Star \notin Plain /\ StarStar \notin Plain /\ Star # StarStar
    BY SegmentAssumption DEF Plain, StarStar, Empty, Star
  <1>3. /\ Len(p) \in Nat \ {0} /\ p \in Seq(Segments)
        /\ \A i \in 1..Len(p) : p[i] = StarStar => i = Len(p)
    BY KeyShape
  <1>4. ASSUME CompareSegments(p, a, FALSE) PROVE Covers(p, a)
    <2>1. PICK i \in 1..(Len(p) + 1) :
              /\ StopsTrue(p, a, FALSE, i)
              /\ \A j \in 1..(i - 1) : GoesOn(p, a, FALSE, j)
      BY <1>4 DEF CompareSegments
    <2>2. \A j \in 1..(i - 1) : j <= Len(a) /\ (p[j] = Star \/ p[j] = a[j]) /\ p[j] # StarStar
      BY <2>1, <1>1, <1>2, <1>3 DEF GoesOn
    <2>3. CASE i = Len(p) + 1 /\ i = Len(a) + 1
      <3>1. ~EndsWithStarStar(p)
        BY <2>2, <2>3, <1>3 DEF EndsWithStarStar
      <3> QED BY <3>1, <2>2, <2>3, <1>1, <1>3 DEF Covers
    <2>4. CASE SegmentIs(p, i, StarStar) /\ i = Len(p)
      <3>1. EndsWithStarStar(p)
        BY <2>4 DEF SegmentIs, EndsWithStarStar
      <3>2. Len(a) >= Len(p) - 1
        BY <2>2, <2>4, <1>1, <1>3
      <3> QED BY <3>1, <3>2, <2>2, <2>4, <1>1, <1>3 DEF Covers
    <2> QED BY <2>1, <2>3, <2>4 DEF StopsTrue
  <1>5. ASSUME Covers(p, a) PROVE CompareSegments(p, a, FALSE)
    <2>1. CASE EndsWithStarStar(p)
      <3>1. /\ Len(a) >= Len(p) - 1
            /\ \A j \in 1..(Len(p) - 1) : p[j] = Star \/ p[j] = a[j]
        BY <1>5, <2>1 DEF Covers
      <3>2. \A j \in 1..(Len(p) - 1) : GoesOn(p, a, FALSE, j)
        BY <3>1, <1>1, <1>3 DEF GoesOn
      <3>3. StopsTrue(p, a, FALSE, (Len(p) - 1) + 1)
        BY <2>1, <1>3 DEF StopsTrue, SegmentIs, EndsWithStarStar
      <3>4. Len(p) - 1 \in Nat /\ Len(p) - 1 <= Len(p)
        BY <1>3
      <3> QED BY <3>2, <3>3, <3>4, <1>3, CompareStops
    <2>2. CASE ~EndsWithStarStar(p)
      <3>1. Len(a) = Len(p) /\ \A j \in 1..Len(p) : p[j] = Star \/ p[j] = a[j]
        BY <1>5, <2>2 DEF Covers
      <3>2. \A j \in 1..Len(p) : p[j] # StarStar
        BY <2>2, <1>3 DEF EndsWithStarStar
      <3>3. \A j \in 1..Len(p) : GoesOn(p, a, FALSE, j)
        BY <3>1, <3>2, <1>1, <1>3 DEF GoesOn
      <3>4. StopsTrue(p, a, FALSE, Len(p) + 1)
        BY <3>1, <1>3 DEF StopsTrue
      <3>5. Len(p) \in Nat /\ Len(p) <= Len(p)
        BY <1>3
      <3> QED BY <3>3, <3>4, <3>5, CompareStops
    <2> QED BY <2>1, <2>2
  <1> QED BY <1>4, <1>5

\* Conflict detection: if two route keys share a concrete address, the
\* comparison with wildcards on both sides says so.
THEOREM CompareDetectsOverlap ==
    ASSUME NEW p, WellFormed(p), NEW q, WellFormed(q),
           NEW a \in Seq(Plain), Covers(p, a), Covers(q, a)
    PROVE  CompareSegments(p, q, TRUE)
  <1>1. /\ Len(p) \in Nat \ {0} /\ \A i \in 1..Len(p) : p[i] = StarStar => i = Len(p)
        /\ Len(q) \in Nat \ {0} /\ \A i \in 1..Len(q) : q[i] = StarStar => i = Len(q)
        /\ Len(a) \in Nat
    BY KeyShape
  <1> DEFINE Fixed(x) == IF EndsWithStarStar(x) THEN Len(x) - 1 ELSE Len(x)
  <1>2. /\ \A j \in 1..Fixed(p) : p[j] # StarStar /\ (p[j] = Star \/ p[j] = a[j])
        /\ \A j \in 1..Fixed(q) : q[j] # StarStar /\ (q[j] = Star \/ q[j] = a[j])
    BY <1>1 DEF Covers, EndsWithStarStar
  <1>3. \A j \in 1..Len(p) : (j <= Fixed(p) /\ j <= Fixed(q)) => GoesOn(p, q, TRUE, j)
    BY <1>1, <1>2 DEF GoesOn
  <1>4. CASE EndsWithStarStar(p) /\ Len(p) - 1 <= Fixed(q)
    <2>1. StopsTrue(p, q, TRUE, (Len(p) - 1) + 1) /\ Len(p) - 1 \in Nat
      BY <1>1, <1>4 DEF StopsTrue, SegmentIs, EndsWithStarStar
    <2>2. \A j \in 1..(Len(p) - 1) : GoesOn(p, q, TRUE, j)
      BY <1>1, <1>3, <1>4 DEF GoesOn
    <2>3. Len(p) \in Nat /\ Len(p) - 1 <= Len(p)
      BY <1>1
    <2> QED BY <2>1, <2>2, <2>3, CompareStops
  <1>5. CASE EndsWithStarStar(q) /\ Len(q) - 1 <= Fixed(p)
    <2>1. /\ StopsTrue(p, q, TRUE, (Len(q) - 1) + 1)
          /\ Len(q) - 1 \in Nat /\ Len(q) - 1 <= Len(p)
      BY <1>1, <1>5 DEF StopsTrue, SegmentIs, EndsWithStarStar
    <2>2. \A j \in 1..(Len(q) - 1) : GoesOn(p, q, TRUE, j)
      BY <1>1, <1>3, <1>5 DEF GoesOn
    <2> QED BY <1>1, <2>1, <2>2, CompareStops
  <1>6. CASE ~EndsWithStarStar(p) /\ ~EndsWithStarStar(q)
    <2>1. Len(p) = Len(q)
      BY <1>6 DEF Covers
    <2>2. StopsTrue(p, q, TRUE, Len(p) + 1)
      BY <2>1, <1>1 DEF StopsTrue
    <2>3. \A j \in 1..Len(p) : GoesOn(p, q, TRUE, j)
      BY <2>1, <1>1, <1>3, <1>6 DEF GoesOn
    <2>4. Len(p) \in Nat /\ Len(p) <= Len(p)
      BY <1>1
    <2> QED BY <2>2, <2>3, <2>4, CompareStops
  <1>7. \/ EndsWithStarStar(p) /\ Len(p) - 1 <= Fixed(q)
        \/ EndsWithStarStar(q) /\ Len(q) - 1 <= Fixed(p)
        \/ ~EndsWithStarStar(p) /\ ~EndsWithStarStar(q)
    BY <1>1 DEF Covers
  <1> QED BY <1>4, <1>5, <1>6, <1>7

\* The conflict check of a new single wildcard scans only the exact keys under
\* its static prefix: that scan misses no exact address the pattern covers.
THEOREM StaticPrefixScanComplete ==
    ASSUME NEW p, WellFormed(p), ~EndsWithStarStar(p),
           NEW k \in Concrete, Covers(p, k)
    PROVE  UnderStaticPrefix(p, k)
  <1>1. Star \notin Plain
    BY SegmentAssumption DEF Plain, StarStar, Empty, Star
  <1>2. Len(p) \in Nat \ {0} /\ Len(k) = Len(p)
    BY KeyShape DEF Covers
  <1> QED BY <1>1, <1>2 DEF UnderStaticPrefix, Covers

\* The segments of a route key before `**`, if it has one.
Fixed(p) == IF EndsWithStarStar(p) THEN Len(p) - 1 ELSE Len(p)

\* A route key has at least one segment before `**`, and each of them is plain
\* or `*`.
LEMMA FixedShape ==
    ASSUME NEW p, WellFormed(p)
    PROVE  /\ Fixed(p) \in Nat \ {0} /\ Fixed(p) <= Len(p) /\ Len(p) \in Nat
           /\ \A i \in 1..Fixed(p) : p[i] \in Plain \cup {Star} /\ p[i] # StarStar
           /\ IsWildcard(p) => p[1] \in Literals
  <1>1. /\ Len(p) \in Nat \ {0}
        /\ \A i \in 1..Len(p) : p[i] = StarStar => i = Len(p)
        /\ \A i \in 1..Len(p) : p[i] \in Plain \cup {Star, StarStar}
    BY KeyShape
  <1>2. StarStar \notin Plain /\ StarStar \notin Literals
    BY SegmentAssumption DEF Plain, StarStar, Empty, Star
  <1>3. IsWildcard(p) => p[1] \in Literals
    BY DEF WellFormed, ValidateWildcardPattern
  <1>4. ASSUME EndsWithStarStar(p) PROVE Len(p) # 1
    <2>1. IsWildcard(p)
      BY <1>1, <1>2, <1>4 DEF IsWildcard, EndsWithStarStar
    <2> QED BY <1>2, <1>3, <1>4, <2>1 DEF EndsWithStarStar
  <1>5. Fixed(p) \in Nat \ {0} /\ Fixed(p) <= Len(p)
    BY <1>1, <1>4 DEF Fixed
  <1>6. ASSUME NEW i \in 1..Fixed(p) PROVE i \in 1..Len(p) /\ p[i] # StarStar
    BY <1>1, <1>5 DEF Fixed, EndsWithStarStar
  <1> QED BY <1>1, <1>3, <1>5, <1>6

\* Two route keys share an address when they agree on the segments before the
\* `**` of the shorter, or on all segments when there is none.
LEMMA AgreementIsOverlap ==
    ASSUME NEW p, WellFormed(p), NEW q, WellFormed(q),
           Fixed(p) <= Fixed(q),
           EndsWithStarStar(p) \/ (~EndsWithStarStar(q) /\ Len(p) = Len(q)),
           \A j \in 1..Fixed(p) : p[j] = Star \/ q[j] = Star \/ p[j] = q[j]
    PROVE  Overlap(p, q) /\ Overlap(q, p)
  <1>1. /\ Fixed(p) \in Nat \ {0} /\ Fixed(p) <= Len(p) /\ Len(p) \in Nat
        /\ \A i \in 1..Fixed(p) : p[i] \in Plain \cup {Star} /\ p[i] # StarStar
    BY FixedShape
  <1>2. /\ Fixed(q) \in Nat \ {0} /\ Fixed(q) <= Len(q) /\ Len(q) \in Nat
        /\ \A i \in 1..Fixed(q) : q[i] \in Plain \cup {Star} /\ q[i] # StarStar
    BY FixedShape
  <1>3. Empty \in Plain
    BY DEF Plain
  <1> DEFINE b == [j \in 1..Fixed(q) |->
                      IF q[j] # Star THEN q[j]
                      ELSE IF j <= Fixed(p) /\ p[j] # Star THEN p[j] ELSE Empty]
  <1>4. b \in [1..Fixed(q) -> Plain]
    <2> SUFFICES ASSUME NEW j \in 1..Fixed(q) PROVE b[j] \in Plain
      OBVIOUS
    <2>1. j <= Fixed(p) => j \in 1..Fixed(p)
      BY <1>1, <1>2
    <2> QED BY <1>1, <1>2, <1>3, <2>1
  <1>5. b \in Seq(Plain) /\ Len(b) = Fixed(q)
    BY <1>2, <1>4
  <1>6. \A j \in 1..Fixed(q) : q[j] = Star \/ q[j] = b[j]
    OBVIOUS
  <1>7. \A j \in 1..Fixed(p) : p[j] = Star \/ p[j] = b[j]
    <2> SUFFICES ASSUME NEW j \in 1..Fixed(p) PROVE p[j] = Star \/ p[j] = b[j]
      OBVIOUS
    <2>1. j \in 1..Fixed(q) /\ j <= Fixed(p)
      BY <1>1, <1>2
    <2> QED BY <2>1
  <1> HIDE DEF b
  <1>8. Covers(q, b)
    BY <1>2, <1>5, <1>6 DEF Covers, Fixed
  <1>9. Covers(p, b)
    BY <1>1, <1>2, <1>5, <1>7 DEF Covers, Fixed
  <1>10. /\ b \in ConcreteUpTo(IF Len(p) > Len(q) THEN Len(p) ELSE Len(q))
         /\ b \in ConcreteUpTo(IF Len(q) > Len(p) THEN Len(q) ELSE Len(p))
    <2>1. /\ Fixed(q) \in 1..(IF Len(p) > Len(q) THEN Len(p) ELSE Len(q))
          /\ Fixed(q) \in 1..(IF Len(q) > Len(p) THEN Len(q) ELSE Len(p))
      BY <1>1, <1>2
    <2> QED BY <1>4, <2>1 DEF ConcreteUpTo
  <1> QED BY <1>8, <1>9, <1>10 DEF Overlap

\* Conflict detection is exact: when the comparison with wildcards on both
\* sides says two route keys conflict, a concrete address belongs to both.
THEOREM CompareMeansOverlap ==
    ASSUME NEW p, WellFormed(p), NEW q, WellFormed(q), CompareSegments(p, q, TRUE)
    PROVE  Overlap(p, q) /\ Overlap(q, p)
  <1>1. /\ Len(p) \in Nat \ {0} /\ \A i \in 1..Len(p) : p[i] = StarStar => i = Len(p)
        /\ Len(q) \in Nat \ {0} /\ \A i \in 1..Len(q) : q[i] = StarStar => i = Len(q)
    BY KeyShape
  <1>2. PICK i \in 1..(Len(p) + 1) :
            /\ StopsTrue(p, q, TRUE, i)
            /\ \A j \in 1..(i - 1) : GoesOn(p, q, TRUE, j)
    BY DEF CompareSegments
  <1>3. \A j \in 1..(i - 1) :
            /\ j <= Len(p) /\ j <= Len(q) /\ p[j] # StarStar /\ q[j] # StarStar
            /\ p[j] = Star \/ q[j] = Star \/ p[j] = q[j]
    BY <1>2 DEF GoesOn
  <1>4. i - 1 \in Nat /\ (i - 1 = 0 \/ (i - 1 \in 1..(i - 1)))
    BY <1>1, <1>2
  <1>5. i - 1 <= Fixed(p) /\ i - 1 <= Fixed(q)
    <2>1. CASE i - 1 = 0
      BY <1>1, <2>1 DEF Fixed
    <2>2. CASE i - 1 \in 1..(i - 1)
      <3>1. i - 1 <= Len(p) /\ i - 1 <= Len(q) /\ p[i - 1] # StarStar /\ q[i - 1] # StarStar
        BY <1>3, <2>2
      <3> QED BY <1>1, <1>2, <3>1 DEF Fixed, EndsWithStarStar
    <2> QED BY <1>4, <2>1, <2>2
  <1>6. CASE i = Len(p) + 1 /\ i = Len(q) + 1
    <2>1. ~EndsWithStarStar(p) /\ ~EndsWithStarStar(q) /\ Len(p) = Len(q)
      BY <1>1, <1>3, <1>6 DEF EndsWithStarStar
    <2>2. Fixed(p) = Len(p) /\ Fixed(q) = Len(q) /\ i - 1 = Len(p)
      BY <1>1, <1>6, <2>1 DEF Fixed
    <2>3. \A j \in 1..Fixed(p) : p[j] = Star \/ q[j] = Star \/ p[j] = q[j]
      BY <1>3, <2>2
    <2>4. Fixed(p) <= Fixed(q)
      BY <1>1, <2>1, <2>2
    <2> QED BY <2>1, <2>3, <2>4, AgreementIsOverlap
  <1>7. CASE SegmentIs(p, i, StarStar)
    <2>1. i = Len(p) /\ EndsWithStarStar(p)
      BY <1>1, <1>2, <1>7 DEF SegmentIs, EndsWithStarStar
    <2>2. Fixed(p) = i - 1
      BY <2>1 DEF Fixed
    <2>3. Fixed(p) <= Fixed(q)
      BY <1>5, <2>2
    <2>4. \A j \in 1..Fixed(p) : p[j] = Star \/ q[j] = Star \/ p[j] = q[j]
      BY <1>3, <2>2
    <2> QED BY <2>1, <2>3, <2>4, AgreementIsOverlap
  <1>8. CASE SegmentIs(q, i, StarStar)
    <2>1. i = Len(q) /\ EndsWithStarStar(q)
      BY <1>1, <1>2, <1>8 DEF SegmentIs, EndsWithStarStar
    <2>2. Fixed(q) = i - 1
      BY <2>1 DEF Fixed
    <2>3. Fixed(q) <= Fixed(p)
      BY <1>5, <2>2
    <2>4. \A j \in 1..Fixed(q) : q[j] = Star \/ p[j] = Star \/ q[j] = p[j]
      BY <1>3, <2>2
    <2> QED BY <2>1, <2>3, <2>4, AgreementIsOverlap
  <1> QED BY <1>2, <1>6, <1>7, <1>8 DEF StopsTrue
=============================================================================
