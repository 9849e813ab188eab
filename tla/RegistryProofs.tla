---------------------------- MODULE RegistryProofs ----------------------------
(***************************************************************************)
(* Safety of LocalRegistry for any number of threads, slots and addresses. *)
(***************************************************************************)
EXTENDS Registry, AddressingProofs, SequenceTheorems

-----------------------------------------------------------------------------
(* The conflict check *)

\* A witness of an overlap is a sequence of plain segments.
LEMMA OverlapWitness ==
    ASSUME NEW p, NEW q, Overlap(p, q), Len(p) \in Nat, Len(q) \in Nat
    PROVE  \E b \in Seq(Plain) : Covers(p, b) /\ Covers(q, b)
  <1>1. PICK b \in ConcreteUpTo(IF Len(p) > Len(q) THEN Len(p) ELSE Len(q)) :
            Covers(p, b) /\ Covers(q, b)
    BY DEF Overlap
  <1>2. PICK k \in Nat : b \in [1..k -> Plain]
    BY <1>1 DEF ConcreteUpTo
  <1>3. b \in Seq(Plain)
    BY <1>2
  <1> QED BY <1>1, <1>3

\* A concrete address covers itself and nothing else.
LEMMA ConcreteCoversItself ==
    ASSUME NEW c \in Concrete, NEW b \in Seq(Plain), Covers(c, b)
    PROVE  b = c
  <1>1. c \in Seq(Segments) /\ Len(c) \in Nat \ {0} /\ \A i \in 1..Len(c) : c[i] \in Plain
    BY DEF Concrete, Address, IsWildcard
  <1>2. Star \notin Plain /\ StarStar \notin Plain
    BY SegmentAssumption DEF Plain, StarStar, Empty, Star
  <1>3. ~EndsWithStarStar(c)
    BY <1>1, <1>2 DEF EndsWithStarStar
  <1>4. Len(b) = Len(c) /\ \A i \in 1..Len(c) : c[i] = b[i]
    BY <1>1, <1>2, <1>3 DEF Covers
  <1>5. b \in Seq(Segments)
    BY DEF Segments
  <1> QED BY <1>1, <1>4, <1>5

\* The part of exclusive binding that concerns a pair of exact addresses and
\* single wildcards.
Separate(p, q) ==
    (p # q /\ ~EndsWithStarStar(p) /\ ~EndsWithStarStar(q)) => ~Overlap(p, q)

\* When the check of register and get_existing_or_register finds the address
\* free, it is well-formed, new, and shares no address with any exact or
\* single-wildcard route of the snapshot.
THEOREM FreeIsSeparate ==
    ASSUME NEW snap, \A k \in DOMAIN snap : WellFormed(k),
           NEW a \in Address, LookupResult(snap, a) = "free"
    PROVE  /\ WellFormed(a)
           /\ a \notin DOMAIN snap
           /\ \A k \in DOMAIN snap : Separate(k, a) /\ Separate(a, k)
  <1>1. WellFormed(a)
    BY DEF WellFormed, LookupResult
  <1>2. a \notin DOMAIN snap
    BY DEF LookupResult, GetExact, GetWildcard, ExactTree
  <1>3. SUFFICES ASSUME NEW k \in DOMAIN snap, ~EndsWithStarStar(k), ~EndsWithStarStar(a),
                        NEW b \in Seq(Plain), Covers(k, b), Covers(a, b)
                 PROVE  FALSE
    <2>1. \A k \in DOMAIN snap : Len(k) \in Nat
      BY KeyShape
    <2>2. Len(a) \in Nat
      BY <1>1, KeyShape
    <2> QED BY <1>1, <1>2, <1>3, <2>1, <2>2, OverlapWitness DEF Separate
  <1>4. k \in ExactTree(snap) \/ k \in SingleWildcards(snap)
    BY <1>3 DEF ExactTree, SingleWildcards, PrefixTree
  <1>5. WellFormed(k) /\ k \in Address
    BY DEF WellFormed
  <1>6. CASE ~IsWildcard(a)
    <2>1. a \in Concrete /\ b = a
      BY <1>3, <1>6, ConcreteCoversItself DEF Concrete
    <2>2. CASE k \in ExactTree(snap)
      <3>1. k \in Concrete
        BY <1>5, <2>2 DEF Concrete, ExactTree
      <3> QED BY <1>2, <1>3, <2>1, <3>1, ConcreteCoversItself
    <2>3. CASE k \in SingleWildcards(snap)
      <3>1. CompareSegments(k, a, FALSE)
        BY <1>3, <1>5, <2>1, CompareDecidesCovers
      <3> QED BY <1>6, <2>3, <3>1 DEF LookupResult, GetExact
    <2> QED BY <1>4, <2>2, <2>3
  <1>7. CASE IsWildcard(a)
    <2>1. GetWildcard(snap, a) = "free"
      BY <1>7 DEF LookupResult
    <2>2. CASE k \in ExactTree(snap)
      <3>1. k \in Concrete
        BY <1>5, <2>2 DEF Concrete, ExactTree
      <3>2. b = k
        BY <1>3, <3>1, ConcreteCoversItself
      <3>3. UnderStaticPrefix(a, k)
        BY <1>1, <1>3, <3>1, <3>2, StaticPrefixScanComplete
      <3>4. CompareSegments(a, k, FALSE)
        BY <1>1, <1>3, <3>1, <3>2, CompareDecidesCovers
      <3> QED BY <2>1, <2>2, <3>3, <3>4 DEF GetWildcard
    <2>3. CASE k \in SingleWildcards(snap)
      <3>1. CompareSegments(k, a, TRUE)
        BY <1>1, <1>3, <1>5, CompareDetectsOverlap
      <3> QED BY <2>1, <2>3, <3>1 DEF GetWildcard
    <2> QED BY <1>4, <2>2, <2>3
  <1> QED BY <1>6, <1>7
\* No key with `**` is a prefix of a concrete address, segment by segment.
LEMMA NoPrefixKeyOnPath ==
    ASSUME NEW k, EndsWithStarStar(k), Len(k) \in Nat \ {0}, NEW a \in Concrete
    PROVE  ~OnPathOf(k, a)
  <1> SUFFICES ASSUME OnPathOf(k, a) PROVE FALSE
    OBVIOUS
  <1>1. a \in Seq(Segments) /\ Len(a) \in Nat /\ \A i \in 1..Len(a) : a[i] \in Plain
    BY DEF Concrete, Address, IsWildcard
  <1>2. Len(k) <= Len(a) /\ SubSeq(k, 1, Len(k)) = SubSeq(a, 1, Len(k))
    BY DEF OnPathOf, Sequence!IsPrefix
  <1>3. SubSeq(k, 1, Len(k))[Len(k)] = k[Len(k)] /\ SubSeq(a, 1, Len(k))[Len(k)] = a[Len(k)]
    BY <1>1, <1>2
  <1>4. a[Len(k)] = StarStar
    BY <1>2, <1>3 DEF EndsWithStarStar
  <1>5. StarStar \notin Plain
    BY SegmentAssumption DEF Plain, StarStar, Empty, Star
  <1> QED BY <1>1, <1>2, <1>4, <1>5

\* A concrete address covers itself.
LEMMA ConcreteIsCovered ==
    ASSUME NEW p, WellFormed(p), NEW c \in Concrete, Covers(p, c)
    PROVE  Overlap(p, c)
  <1>1. /\ c \in Seq(Segments) /\ Len(c) \in Nat \ {0} /\ \A i \in 1..Len(c) : c[i] \in Plain
    BY DEF Concrete, Address, IsWildcard
  <1>2. Star \notin Plain /\ StarStar \notin Plain
    BY SegmentAssumption DEF Plain, StarStar, Empty, Star
  <1>3. ~EndsWithStarStar(c)
    BY <1>1, <1>2 DEF EndsWithStarStar
  <1>4. Covers(c, c)
    BY <1>3 DEF Covers
  <1>5. c \in [1..Len(c) -> Plain]
    BY <1>1
  <1>6. Len(p) \in Nat
    BY KeyShape
  <1>7. Len(c) \in 1..(IF Len(p) > Len(c) THEN Len(p) ELSE Len(c))
    BY <1>1, <1>6
  <1> QED BY <1>4, <1>5, <1>7 DEF Overlap, ConcreteUpTo

\* When the check of a registration reports a conflict, some route of the
\* snapshot really shares a concrete address with the new one, prefix
\* wildcards included: the check may miss a conflict, it never invents one.
THEOREM ConflictIsReal ==
    ASSUME NEW snap, \A k \in DOMAIN snap : WellFormed(k),
           NEW a \in Address, LookupResult(snap, a) = "conflict"
    PROVE  \E r \in DOMAIN snap : Overlap(r, a)
  <1>1. CASE ~IsWildcard(a)
    <2>1. a \in Concrete /\ GetExact(snap, a) = "conflict"
      BY <1>1 DEF Concrete, LookupResult
    <2>2. \A k \in PrefixTree(snap) : ~OnPathOf(k, a)
      BY <2>1, KeyShape, NoPrefixKeyOnPath DEF PrefixTree
    <2>3. PICK k \in SingleWildcards(snap) : CompareSegments(k, a, FALSE)
      BY <2>1, <2>2 DEF GetExact
    <2>4. k \in DOMAIN snap /\ WellFormed(k)
      BY DEF SingleWildcards
    <2> QED BY <2>1, <2>3, <2>4, CompareDecidesCovers, ConcreteIsCovered
  <1>2. CASE IsWildcard(a)
    <2>1. WellFormed(a) /\ GetWildcard(snap, a) = "conflict"
      BY <1>2 DEF WellFormed, LookupResult
    <2>2. ASSUME NEW n \in 1..Len(a), \A i \in 1..n : a[i] # StarStar,
                 Append(SubSeq(a, 1, n), StarStar) \in PrefixTree(snap)
          PROVE  \E r \in DOMAIN snap : Overlap(r, a)
      <3> DEFINE k == Append(SubSeq(a, 1, n), StarStar)
      <3>1. k \in DOMAIN snap /\ WellFormed(k)
        BY <2>2 DEF PrefixTree
      <3>2. a \in Seq(Segments) /\ Len(a) \in Nat /\ StarStar \in Segments
        BY <2>1, KeyShape DEF Segments
      <3>3. /\ Len(SubSeq(a, 1, n)) = n /\ SubSeq(a, 1, n) \in Seq(Segments)
            /\ \A j \in 1..n : SubSeq(a, 1, n)[j] = a[j]
        BY <3>2
      <3>4. Len(k) = n + 1 /\ k[n + 1] = StarStar /\ \A j \in 1..n : k[j] = a[j]
        BY <3>2, <3>3
      <3> HIDE DEF k
      <3>5. EndsWithStarStar(k) /\ Fixed(k) = n
        BY <3>4 DEF EndsWithStarStar, Fixed
      <3>6. n <= Fixed(a)
        BY <2>2, <3>2 DEF Fixed, EndsWithStarStar
      <3>7. \A j \in 1..Fixed(k) : k[j] = Star \/ a[j] = Star \/ k[j] = a[j]
        BY <3>4, <3>5
      <3> QED BY <2>1, <3>1, <3>5, <3>6, <3>7, AgreementIsOverlap
    <2>3. ASSUME NEW k \in DOMAIN snap,
                 CompareSegments(a, k, TRUE) \/ CompareSegments(k, a, TRUE)
          PROVE  Overlap(k, a)
      BY <2>1, <2>3, CompareMeansOverlap
    <2>4. ASSUME NEW k \in ExactTree(snap), CompareSegments(a, k, FALSE)
          PROVE  \E r \in DOMAIN snap : Overlap(r, a)
      <3>1. k \in DOMAIN snap /\ WellFormed(k) /\ k \in Concrete
        BY DEF ExactTree, Concrete, WellFormed
      <3>2. Overlap(a, k)
        BY <2>1, <2>4, <3>1, CompareDecidesCovers, ConcreteIsCovered
      <3>3. Overlap(k, a)
        <4>1. PICK b \in Seq(Plain) : Covers(a, b) /\ Covers(k, b)
          BY <2>1, <3>1, <3>2, KeyShape, OverlapWitness
        <4>2. CompareSegments(k, a, TRUE)
          BY <2>1, <3>1, <4>1, CompareDetectsOverlap
        <4> QED BY <2>3, <3>1, <4>2
      <3> QED BY <3>1, <3>3
    <2> QED
      BY <2>1, <2>2, <2>3, <2>4
      DEF GetWildcard, CheckPrefixWildcardConflicts, PrefixTree, SingleWildcards
  <1> QED BY <1>1, <1>2

-----------------------------------------------------------------------------
(* The inductive invariant *)

Registering == {"register", "getOrRegister"}
Busy == Registering \cup {"unregister", "remove"}
Args == [addr : Addresses, slot : Slots, current : Snapshot]

\* A thread inside a call holds the mutex, and the snapshot it loaded is
\* still the published one; a thread outside a call has no arguments.
CallsExclusive ==
    \A t \in Threads :
        /\ pc[t] \in Busy => mutex = t /\ op[t] \in Args /\ op[t].current = inner
        /\ pc[t] \notin Busy => op[t] = NoOp

\* A registration works on a live slot that has no route yet; an unregister
\* that marked a slot is about to take that slot's route away.
CallSlots ==
    \A t \in Threads :
        /\ pc[t] \in Registering =>
              /\ kind[op[t].slot] # "none"
              /\ op[t].slot \notin removed
              /\ ~Routed(op[t].slot)
        /\ pc[t] = "remove" => OwnsRoute(inner, op[t].addr, op[t].slot)

\* Routes are valid, lead to allocated slots, one to each slot.
RouteKeys ==
    \A a \in DOMAIN inner :
        /\ WellFormed(a)
        /\ kind[inner[a]] # "none"
        /\ \A b \in DOMAIN inner : inner[a] = inner[b] => a = b

\* Exact and single-wildcard routes are pairwise separate.
RoutesSeparate == \A a, b \in DOMAIN inner : Separate(a, b)

RemovedAllocated == \A s \in removed : kind[s] # "none"

IInv == /\ TypeOK /\ CallsExclusive /\ CallSlots /\ RouteKeys /\ RoutesSeparate
        /\ RemovedAllocated /\ RemovedOnlyInTransit

\* A snapshot leads from addresses to slots.
LEMMA SnapshotRange ==
    ASSUME NEW snap \in Snapshot
    PROVE  DOMAIN snap \subseteq Addresses /\ \A x \in DOMAIN snap : snap[x] \in Slots
  BY DEF Snapshot

\* What Insert makes of a snapshot.
LEMMA InsertFacts ==
    ASSUME NEW snap \in Snapshot, NEW a \in Addresses, NEW s \in Slots
    PROVE  /\ Insert(snap, a, s) \in Snapshot
           /\ DOMAIN Insert(snap, a, s) = DOMAIN snap \cup {a}
           /\ Insert(snap, a, s)[a] = s
           /\ \A x \in DOMAIN snap \ {a} : Insert(snap, a, s)[x] = snap[x]
  <1>1. PICK D \in SUBSET Addresses : snap \in [D -> Slots]
    BY DEF Snapshot
  <1>2. Insert(snap, a, s) \in [D \cup {a} -> Slots]
    BY <1>1 DEF Insert
  <1>3. (D \cup {a}) \in SUBSET Addresses
    OBVIOUS
  <1>4. Insert(snap, a, s) \in Snapshot
    BY <1>2, <1>3 DEF Snapshot
  <1> QED BY <1>4 DEF Insert

\* What Remove makes of a snapshot.
LEMMA RemoveFacts ==
    ASSUME NEW snap \in Snapshot, NEW a \in Addresses
    PROVE  /\ Remove(snap, a) \in Snapshot
           /\ DOMAIN Remove(snap, a) = DOMAIN snap \ {a}
           /\ \A x \in DOMAIN snap \ {a} : Remove(snap, a)[x] = snap[x]
  <1>1. PICK D \in SUBSET Addresses : snap \in [D -> Slots]
    BY DEF Snapshot
  <1>2. Remove(snap, a) \in [D \ {a} -> Slots]
    BY <1>1 DEF Remove, Restrict
  <1>3. (D \ {a}) \in SUBSET Addresses
    OBVIOUS
  <1>4. Remove(snap, a) \in Snapshot
    BY <1>2, <1>3 DEF Snapshot
  <1> QED BY <1>4 DEF Remove, Restrict

\* The empty registry of LocalRegistry::new satisfies the invariant.
LEMMA InitIInv == Init => IInv
  <1> SUFFICES ASSUME Init PROVE IInv
    OBVIOUS
  <1>1. EmptySnapshot \in [{} -> Slots] /\ DOMAIN EmptySnapshot = {}
    BY DEF EmptySnapshot
  <1>2. inner \in Snapshot /\ DOMAIN inner = {}
    BY <1>1 DEF Init, Snapshot
  <1>3. TypeOK
    BY <1>2 DEF Init, TypeOK, Calls
  <1>4. CallsExclusive /\ CallSlots
    BY DEF Init, CallsExclusive, CallSlots, Busy, Registering
  <1> QED BY <1>2, <1>3, <1>4 DEF Init, IInv, RouteKeys, RoutesSeparate,
                                  RemovedAllocated, RemovedOnlyInTransit

\* Facts about a thread inside a call that every action's proof uses.
LEMMA BusyFacts ==
    ASSUME IInv, NEW t \in Threads, pc[t] \in Busy
    PROVE  /\ op[t].addr \in Addresses /\ op[t].slot \in Slots
           /\ op[t].current = inner /\ inner \in Snapshot /\ mutex = t
           /\ \A u \in Threads \ {t} : pc[u] \notin Busy /\ op[u] = NoOp
           /\ op[t].slot # "none"
  BY SlotsAssumption DEF IInv, CallsExclusive, TypeOK, Args

\* Every action keeps the inductive invariant.
LEMMA NextIInv == IInv /\ [Next]_vars => IInv'
  <1> SUFFICES ASSUME IInv, [Next]_vars PROVE IInv'
    OBVIOUS
  <1> USE DEF Routed
  <1>T. TypeOK /\ inner \in Snapshot
    BY DEF IInv, TypeOK
  <1>1. ASSUME NEW t \in Threads, NEW call \in Calls, NEW a \in Addresses, NEW s \in Slots,
               Begin(t, call, a, s)
        PROVE  IInv'
    <2>1. /\ pc[t] = "idle" /\ mutex = NoThread /\ mutex' = t
          /\ \A u \in Threads : pc[u] \notin Busy
      BY <1>1, ThreadsAssumption DEF Begin, Lock, IInv, CallsExclusive
    <2>2. TypeOK'
      BY <1>1, <1>T DEF Begin, Lock, TypeOK, KindAfter, HandlesAfter, Calls
    <2>3. CallsExclusive'
      BY <1>1, <1>T, <2>1 DEF Begin, Lock, TypeOK, IInv, CallsExclusive, Busy, Registering,
                         Calls, Args
    <2>4. call # "unregister" => kind[s] = "none"
      BY <1>1 DEF Begin, Callable
    <2>5. /\ \A x \in Slots : kind[x] # "none" => kind'[x] = kind[x]
          /\ call # "unregister" => kind'[s] # "none"
      BY <1>1, <1>T, <2>4 DEF Begin, KindAfter, TypeOK, Calls
    <2>6. \A x \in DOMAIN inner : inner[x] \in Slots
      BY <1>T, SnapshotRange
    <2>7. CallSlots'
      <3> SUFFICES ASSUME NEW u \in Threads PROVE CallSlots!(u)'
        BY DEF CallSlots
      <3>1. CASE u = t
        BY <3>1, <1>1, <1>T, <2>4, <2>5, <2>6
        DEF Begin, IInv, TypeOK, RouteKeys, RemovedAllocated, Registering, Calls
      <3>2. CASE u # t
        BY <3>2, <1>1, <1>T, <2>1 DEF Begin, TypeOK, Busy, Registering
      <3> QED BY <3>1, <3>2
    <2>8. RouteKeys'
      BY <1>1, <2>5, <2>6 DEF Begin, IInv, RouteKeys
    <2>9. RoutesSeparate' /\ RemovedAllocated'
      BY <1>1, <1>T, <2>5 DEF Begin, IInv, RoutesSeparate, RemovedAllocated, TypeOK
    <2>10. RemovedOnlyInTransit'
      BY <1>1, <1>T, <2>1, <2>5, <2>6 DEF Begin, IInv, RemovedOnlyInTransit, RouteKeys, Busy
    <2> QED BY <2>2, <2>3, <2>7, <2>8, <2>9, <2>10 DEF IInv
  <1>2. ASSUME NEW t \in Threads, NEW call \in Calls, NEW a \in Addresses, NEW s \in Slots,
               BeginPoisoned(t, call, a, s)
        PROVE  IInv'
    <2>1. TypeOK'
      BY <1>2, <1>T DEF BeginPoisoned, TypeOK, HandlesAfter, Calls
    <2>2. \A u \in Threads : pc'[u] # pc[u] => pc[u] = "idle" /\ pc'[u] = "panicked"
      BY <1>2, <1>T DEF BeginPoisoned, TypeOK
    <2>3. CallsExclusive' /\ CallSlots' /\ RemovedOnlyInTransit'
      BY <1>2, <2>2 DEF BeginPoisoned, IInv, CallsExclusive, CallSlots, RemovedOnlyInTransit,
                        Busy, Registering
    <2>4. RouteKeys' /\ RoutesSeparate' /\ RemovedAllocated'
      BY <1>2 DEF BeginPoisoned, IInv, RouteKeys, RoutesSeparate, RemovedAllocated
    <2> QED BY <2>1, <2>3, <2>4 DEF IInv
  <1>3. ASSUME NEW t \in Threads, Store(t) PROVE IInv'
    <2>1. pc[t] \in Registering /\ pc[t] \in Busy
      BY <1>3 DEF Store, Busy, Registering
    <2> DEFINE a == op[t].addr  s == op[t].slot
    <2>2. /\ a \in Addresses /\ s \in Slots
          /\ \A u \in Threads \ {t} : pc[u] \notin Busy /\ op[u] = NoOp
          /\ inner' = Insert(inner, a, s)
          /\ LookupResult(inner, a) = "free"
      BY <1>3, <2>1, BusyFacts DEF Store
    <2>3. /\ inner' \in Snapshot /\ DOMAIN inner' = DOMAIN inner \cup {a} /\ inner'[a] = s
          /\ \A x \in DOMAIN inner \ {a} : inner'[x] = inner[x]
      <3>1. inner \in Snapshot /\ a \in Addresses /\ s \in Slots
        BY <1>T, <2>2
      <3>2. /\ Insert(inner, a, s) \in Snapshot
            /\ DOMAIN Insert(inner, a, s) = DOMAIN inner \cup {a}
            /\ Insert(inner, a, s)[a] = s
            /\ \A x \in DOMAIN inner \ {a} : Insert(inner, a, s)[x] = inner[x]
        <4> HIDE DEF a, s
        <4> QED BY <3>1, InsertFacts
      <3> QED BY <3>2, <2>2
    <2>r. \A x \in DOMAIN inner : inner[x] \in Slots
      BY <1>T, SnapshotRange
    <2>4. /\ WellFormed(a) /\ a \notin DOMAIN inner
          /\ \A k \in DOMAIN inner : Separate(k, a) /\ Separate(a, k)
      BY <2>2, FreeIsSeparate, AddressesAssumption DEF IInv, RouteKeys
    <2>5. kind[s] # "none" /\ s \notin removed /\ \A x \in DOMAIN inner : inner[x] # s
      BY <2>1 DEF IInv, CallSlots
    <2>6. TypeOK'
      BY <1>3, <1>T, <2>2, <2>3 DEF Store, Return, TypeOK
    <2>7. \A u \in Threads : pc'[u] \notin Busy /\ op'[u] = NoOp
      BY <1>3, <1>T, <2>2 DEF Store, Return, TypeOK, Busy, Registering
    <2>8. CallsExclusive' /\ CallSlots'
      BY <2>7 DEF CallsExclusive, CallSlots, Busy
    <2>9. RouteKeys'
      BY <1>3, <2>3, <2>4, <2>5, <2>r DEF Store, IInv, RouteKeys
    <2>10. RoutesSeparate'
      BY <2>3, <2>4 DEF IInv, RoutesSeparate, Separate
    <2>11. RemovedAllocated'
      BY <1>3 DEF Store, IInv, RemovedAllocated
    <2>12. RemovedOnlyInTransit'
      BY <1>3, <2>1, <2>2, <2>3, <2>5, <2>r DEF Store, IInv, RemovedOnlyInTransit, Busy, Registering
    <2> QED BY <2>6, <2>8, <2>9, <2>10, <2>11, <2>12 DEF IInv
  <1>4. ASSUME NEW t \in Threads, Refuse(t) \/ FactoryPanic(t) PROVE IInv'
    <2>1. pc[t] \in Registering /\ pc[t] \in Busy
      BY <1>4 DEF Refuse, FactoryPanic, Busy, Registering
    <2>2. /\ op[t].slot \in Slots
          /\ \A u \in Threads \ {t} : pc[u] \notin Busy /\ op[u] = NoOp
      BY <2>1, BusyFacts
    <2>3. op[t].slot \notin removed /\ \A x \in DOMAIN inner : inner[x] # op[t].slot
      BY <2>1 DEF IInv, CallSlots
    <2>4. /\ kind' = [kind EXCEPT ![op[t].slot] = "none"]
          /\ inner' = inner /\ removed' = removed
      BY <1>4 DEF Refuse, FactoryPanic
    <2>5. TypeOK'
      <3>1. LookupResult(op[t].current, op[t].addr) \in {"duplicate", "conflict", "free", "invalid"}
        BY DEF LookupResult, GetExact, GetWildcard
      <3>2. CASE Refuse(t)
        BY <3>2, <1>T, <2>2, <3>1 DEF Refuse, Return, TypeOK
      <3>3. CASE FactoryPanic(t)
        BY <3>3, <1>T, <2>2 DEF FactoryPanic, TypeOK
      <3> QED BY <1>4, <3>2, <3>3
    <2>6. \A u \in Threads : pc'[u] \notin Busy /\ op'[u] = NoOp
      BY <1>4, <1>T, <2>2 DEF Refuse, FactoryPanic, Return, TypeOK, Busy, Registering
    <2>7. CallsExclusive' /\ CallSlots'
      BY <2>6 DEF CallsExclusive, CallSlots, Busy
    <2>8. \A x \in DOMAIN inner : inner[x] \in Slots /\ kind'[inner[x]] = kind[inner[x]]
      BY <1>T, <2>2, <2>3, <2>4, SnapshotRange DEF TypeOK
    <2>9. RouteKeys' /\ RoutesSeparate'
      BY <2>4, <2>8 DEF IInv, RouteKeys, RoutesSeparate
    <2>10. RemovedAllocated'
      BY <1>T, <2>2, <2>3, <2>4 DEF IInv, RemovedAllocated, TypeOK
    <2>11. RemovedOnlyInTransit'
      BY <2>1, <2>2, <2>4, <2>8 DEF IInv, RemovedOnlyInTransit, Busy, Registering
    <2> QED BY <2>5, <2>7, <2>9, <2>10, <2>11 DEF IInv
  <1>5. ASSUME NEW t \in Threads, MarkRemoved(t) PROVE IInv'
    <2>1. pc[t] \in Busy /\ pc[t] = "unregister"
      BY <1>5 DEF MarkRemoved, Busy
    <2>2. /\ op[t].slot \in Slots /\ mutex = t
          /\ \A u \in Threads \ {t} : pc[u] \notin Busy
          /\ OwnsRoute(inner, op[t].addr, op[t].slot)
          /\ removed' = removed \cup {op[t].slot}
      BY <1>5, <2>1, BusyFacts DEF MarkRemoved, OwnsRoute
    <2>3. /\ inner' = inner /\ kind' = kind /\ mutex' = mutex /\ op' = op
          /\ pc' = [pc EXCEPT ![t] = "remove"]
      BY <1>5 DEF MarkRemoved
    <2>4. TypeOK'
      BY <1>5, <1>T, <2>2 DEF MarkRemoved, TypeOK
    <2>5. CallsExclusive'
      BY <1>T, <2>1, <2>2, <2>3 DEF IInv, CallsExclusive, TypeOK, Busy
    <2>6. CallSlots'
      BY <1>T, <2>2, <2>3 DEF IInv, CallSlots, TypeOK, Busy, Registering
    <2>7. RouteKeys' /\ RoutesSeparate' /\ RemovedAllocated'
      BY <2>2, <2>3 DEF IInv, RouteKeys, RoutesSeparate, RemovedAllocated, OwnsRoute
    <2>8. RemovedOnlyInTransit'
      BY <1>T, <2>1, <2>2, <2>3 DEF IInv, RemovedOnlyInTransit, TypeOK
    <2> QED BY <2>4, <2>5, <2>6, <2>7, <2>8 DEF IInv
  <1>6. ASSUME NEW t \in Threads, RemoveStore(t) \/ UnregisterNoop(t) PROVE IInv'
    <2>1. pc[t] \in Busy /\ pc[t] \in {"remove", "unregister"}
      BY <1>6 DEF RemoveStore, UnregisterNoop, Busy
    <2>2. /\ op[t].addr \in Addresses /\ op[t].slot \in Slots
          /\ \A u \in Threads \ {t} : pc[u] \notin Busy /\ op[u] = NoOp
          /\ inner' \in {inner, Remove(inner, op[t].addr)}
      BY <1>6, <2>1, BusyFacts DEF RemoveStore, UnregisterNoop
    <2>3. /\ kind' = kind /\ removed' = removed
          /\ \A x \in DOMAIN inner' : x \in DOMAIN inner /\ inner'[x] = inner[x]
          /\ inner' \in Snapshot
      <3> DEFINE a == op[t].addr
      <3>1. /\ Remove(inner, a) \in Snapshot
            /\ DOMAIN Remove(inner, a) = DOMAIN inner \ {a}
            /\ \A x \in DOMAIN inner \ {a} : Remove(inner, a)[x] = inner[x]
        <4>1. inner \in Snapshot /\ a \in Addresses
          BY <1>T, <2>2
        <4> HIDE DEF a
        <4> QED BY <4>1, RemoveFacts
      <3> QED BY <1>6, <1>T, <2>2, <3>1 DEF RemoveStore, UnregisterNoop
    <2>4. TypeOK'
      BY <1>6, <1>T, <2>3 DEF RemoveStore, UnregisterNoop, Return, TypeOK
    <2>5. \A u \in Threads : pc'[u] \notin Busy /\ op'[u] = NoOp
      BY <1>6, <1>T, <2>2 DEF RemoveStore, UnregisterNoop, Return, TypeOK, Busy, Registering
    <2>6. CallsExclusive' /\ CallSlots'
      BY <2>5 DEF CallsExclusive, CallSlots, Busy
    <2>7. RouteKeys' /\ RoutesSeparate' /\ RemovedAllocated'
      BY <2>3 DEF IInv, RouteKeys, RoutesSeparate, RemovedAllocated
    <2>8. RemovedOnlyInTransit'
      <3>1. CASE RemoveStore(t)
        <4>1. /\ inner' = Remove(inner, op[t].addr)
              /\ OwnsRoute(inner, op[t].addr, op[t].slot)
          BY <3>1, <2>1, BusyFacts DEF RemoveStore, IInv, CallSlots
        <4>2. DOMAIN inner' = DOMAIN inner \ {op[t].addr}
          BY <1>T, <2>2, <4>1, RemoveFacts
        <4>3. \A x \in DOMAIN inner' : inner[x] # op[t].slot
          BY <4>1, <4>2 DEF IInv, RouteKeys, OwnsRoute
        <4>4. ASSUME NEW x \in DOMAIN inner', kind'[inner'[x]] = "Single", inner'[x] \in removed'
              PROVE  FALSE
          <5>1. PICK u \in Threads : pc[u] = "remove" /\ op[u].slot = inner[x]
            BY <2>3, <4>4 DEF IInv, RemovedOnlyInTransit
          <5>2. u = t
            BY <5>1, <2>2 DEF Busy
          <5> QED BY <5>1, <5>2, <4>3
        <4> QED BY <4>4 DEF RemovedOnlyInTransit
      <3>2. CASE UnregisterNoop(t)
        BY <3>2, <2>2, <2>3 DEF UnregisterNoop, IInv, RemovedOnlyInTransit, Busy
      <3> QED BY <1>6, <3>1, <3>2
    <2> QED BY <2>4, <2>6, <2>7, <2>8 DEF IInv
  <1>7. ASSUME NEW s \in Slots, GroupMarkRemoved(s) PROVE IInv'
    <2>1. TypeOK'
      BY <1>7, <1>T DEF GroupMarkRemoved, TypeOK
    <2>2. CallsExclusive' /\ CallSlots'
      BY <1>7 DEF GroupMarkRemoved, IInv, CallsExclusive, CallSlots
    <2>3. RouteKeys' /\ RoutesSeparate' /\ RemovedAllocated'
      BY <1>7 DEF GroupMarkRemoved, IInv, RouteKeys, RoutesSeparate, RemovedAllocated
    <2>4. RemovedOnlyInTransit'
      BY <1>7 DEF GroupMarkRemoved, IInv, RemovedOnlyInTransit
    <2> QED BY <2>1, <2>2, <2>3, <2>4 DEF IInv
  <1>8. ASSUME NEW s \in Slots, DropSlot(s) PROVE IInv'
    <2>1. TypeOK'
      BY <1>8, <1>T DEF DropSlot, TypeOK
    <2>2. /\ \A x \in DOMAIN inner : inner[x] \in Slots /\ inner[x] # s
          /\ \A u \in Threads : op[u].slot # s
      BY <1>8, <1>T, SnapshotRange DEF DropSlot
    <2>3. CallsExclusive'
      BY <1>8 DEF DropSlot, IInv, CallsExclusive
    <2>4. CallSlots'
      BY <1>8, <1>T, <2>2, BusyFacts DEF DropSlot, IInv, CallSlots, TypeOK, Busy, Registering
    <2>5. RouteKeys' /\ RoutesSeparate' /\ RemovedAllocated'
      BY <1>8, <1>T, <2>2 DEF DropSlot, IInv, RouteKeys, RoutesSeparate, RemovedAllocated, TypeOK
    <2>6. RemovedOnlyInTransit'
      BY <1>8, <1>T, <2>2 DEF DropSlot, IInv, RemovedOnlyInTransit, TypeOK
    <2> QED BY <2>1, <2>3, <2>4, <2>5, <2>6 DEF IInv
  <1>9. CASE UNCHANGED vars
    BY <1>9 DEF vars, IInv, TypeOK, CallsExclusive, CallSlots, RouteKeys, RoutesSeparate,
                RemovedAllocated, RemovedOnlyInTransit
  <1> QED BY <1>1, <1>2, <1>3, <1>4, <1>5, <1>6, <1>7, <1>8, <1>9 DEF Next
-----------------------------------------------------------------------------
(* Theorems *)

\* The inductive invariant holds in every reachable state.
THEOREM Invariance == Spec => []IInv
  BY InitIInv, NextIInv, PTL DEF Spec

\* Every published or loaded snapshot is well typed, whatever the threads do.
THEOREM TypeCorrect == Spec => []TypeOK
  <1>1. IInv => TypeOK
    BY DEF IInv
  <1> QED BY <1>1, Invariance, PTL

\* The addresses in use contain no prefix wildcard.
NoPrefixWildcards == \A a \in Addresses : ~EndsWithStarStar(a)

\* Exclusive binding holds for exact addresses and single wildcards: with any
\* number of threads, no two routes ever share a concrete address.
THEOREM ExclusiveBindingHolds ==
    ASSUME NoPrefixWildcards
    PROVE  Spec => []ExclusiveBinding
  <1>1. ASSUME IInv PROVE ExclusiveBinding
    <2>1. DOMAIN inner \subseteq Addresses
      BY <1>1, SnapshotRange DEF IInv, TypeOK
    <2> QED BY <1>1, <2>1 DEF IInv, RoutesSeparate, Separate, ExclusiveBinding,
                              NoPrefixWildcards
  <1> QED BY <1>1, Invariance, PTL

\* A removed Exclusive slot is visible to lookup only inside the critical
\* section of the unregister that removes its route.
THEOREM RemovedOnlyInTransitHolds == Spec => []RemovedOnlyInTransit
  <1>1. IInv => RemovedOnlyInTransit
    BY DEF IInv
  <1> QED BY <1>1, Invariance, PTL

\* lookup finds the owner of every concrete address: the target of the one
\* route that covers it, or nothing when there is none.
THEOREM LookupFindsOwnerHolds ==
    ASSUME NoPrefixWildcards
    PROVE  Spec => []LookupFindsOwner
  <1>1. ASSUME IInv PROVE LookupFindsOwner
    <2> SUFFICES ASSUME NEW a \in Probes
                 PROVE  Lookup(inner, a) = {inner[r] : r \in {x \in DOMAIN inner : Covers(x, a)}}
      BY DEF LookupFindsOwner
    <2>1. DOMAIN inner \subseteq Addresses /\ PrefixTree(inner) = {}
      BY <1>1, SnapshotRange DEF IInv, TypeOK, PrefixTree, NoPrefixWildcards
    <2>2. a \in Concrete /\ a \in Seq(Plain)
      <3>1. PICK k \in 1..ProbeLength : a \in [1..k -> Plain]
        BY ProbeAssumption DEF Probes, ConcreteUpTo
      <3>2. a \in Seq(Plain) /\ Len(a) = k
        BY <3>1
      <3>3. a \in Seq(Segments) /\ a # <<>>
        BY <3>1, <3>2 DEF Segments
      <3> QED BY <3>1, <3>2, <3>3 DEF Concrete, Address, IsWildcard
    <2>3. \A x \in DOMAIN inner : WellFormed(x) /\ x \in Address
      BY <1>1 DEF IInv, RouteKeys, WellFormed
    <2>4. \A x \in ExactTree(inner) : Covers(x, a) <=> x = a
      <3>1. ASSUME NEW x \in ExactTree(inner), Covers(x, a) PROVE x = a
        <4>1. x \in Concrete
          BY <2>3 DEF ExactTree, Concrete
        <4> QED BY <3>1, <4>1, <2>2, ConcreteCoversItself
      <3>2. ASSUME a \in ExactTree(inner) PROVE Covers(a, a)
        <4>1. ~EndsWithStarStar(a)
          BY <2>1, <3>2 DEF ExactTree, NoPrefixWildcards
        <4> QED BY <4>1 DEF Covers
      <3> QED BY <3>1, <3>2
    <2>5. \A x \in SingleWildcards(inner) : CompareSegments(x, a, FALSE) <=> Covers(x, a)
      BY <2>2, <2>3, CompareDecidesCovers DEF SingleWildcards
    <2>6. DOMAIN inner = ExactTree(inner) \cup SingleWildcards(inner)
      BY <2>1 DEF ExactTree, SingleWildcards
    <2>7. CASE a \in ExactTree(inner)
      <3>1. ASSUME NEW x \in DOMAIN inner, Covers(x, a) PROVE x = a
        <4>1. a \in DOMAIN inner /\ Covers(a, a)
          BY <2>4, <2>7 DEF ExactTree
        <4>2. a \in ConcreteUpTo(IF Len(x) > Len(a) THEN Len(x) ELSE Len(a))
          <5>1. Len(a) \in Nat \ {0} /\ a \in [1..Len(a) -> Plain]
            BY <2>2 DEF Concrete, Address
          <5>2. Len(x) \in Nat
            BY <2>3, KeyShape
          <5>3. Len(a) \in 1..(IF Len(x) > Len(a) THEN Len(x) ELSE Len(a))
            BY <5>1, <5>2
          <5> QED BY <5>1, <5>3 DEF ConcreteUpTo
        <4>3. Overlap(x, a)
          BY <3>1, <4>1, <4>2 DEF Overlap
        <4> QED BY <1>1, <2>1, <4>1, <4>3 DEF IInv, RoutesSeparate, Separate, NoPrefixWildcards
      <3>2. {x \in DOMAIN inner : Covers(x, a)} = {a}
        BY <3>1, <2>4, <2>7 DEF ExactTree
      <3>3. Lookup(inner, a) = {inner[a]}
        BY <2>7 DEF Lookup
      <3> QED BY <3>2, <3>3
    <2>8. CASE a \notin ExactTree(inner)
      <3>1. {x \in DOMAIN inner : Covers(x, a)} =
              {k \in SingleWildcards(inner) : CompareSegments(k, a, FALSE)}
        BY <2>4, <2>5, <2>6, <2>8
      <3>2. Lookup(inner, a) =
              {inner[k] : k \in {k \in SingleWildcards(inner) : CompareSegments(k, a, FALSE)}}
        BY <2>1, <2>8 DEF Lookup
      <3> QED BY <3>1, <3>2
    <2> QED BY <2>7, <2>8
  <1> QED BY <1>1, Invariance, PTL

\* A store changes the snapshot by exactly one route of its own thread: a
\* new route for a slot without one, or the removal of that slot's route.
LEMMA StepShape ==
    ASSUME IInv, [Next]_vars
    PROVE  \/ inner' = inner
           \/ \E t \in Threads : /\ Store(t) /\ op[t].current = inner
                                 /\ op[t].addr \in Addresses /\ op[t].slot \in Slots
           \/ \E t \in Threads : /\ RemoveStore(t) /\ op[t].current = inner
                                 /\ op[t].addr \in Addresses /\ op[t].slot \in Slots
                                 /\ OwnsRoute(inner, op[t].addr, op[t].slot)
  <1>1. ASSUME NEW t \in Threads, Store(t) \/ RemoveStore(t)
        PROVE  pc[t] \in Busy
    BY <1>1 DEF Store, RemoveStore, Busy, Registering
  <1>2. ASSUME NEW t \in Threads, RemoveStore(t)
        PROVE  OwnsRoute(inner, op[t].addr, op[t].slot)
    BY <1>2 DEF RemoveStore, IInv, CallSlots
  <1> QED BY <1>1, <1>2, BusyFacts DEF Next, vars, Begin, BeginPoisoned, Refuse, FactoryPanic,
                  MarkRemoved, UnregisterNoop, GroupMarkRemoved, DropSlot

\* A route disappears only by the unregister of the slot it leads to.
THEOREM OnlyOwnerRemovesHolds == Spec => OnlyOwnerRemoves
  <1> DEFINE Owned ==
          \A a \in DOMAIN inner :
              (a \in DOMAIN inner' => inner'[a] # inner[a]) =>
                  \E t \in Threads : /\ pc[t] = "remove"
                                     /\ op[t].addr = a /\ op[t].slot = inner[a]
  <1>1. ASSUME IInv, [Next]_vars PROVE [Owned]_vars
    <2>0. inner \in Snapshot
      BY <1>1 DEF IInv, TypeOK
    <2>1. CASE inner' = inner
      BY <2>1
    <2>2. ASSUME NEW t \in Threads, Store(t), op[t].current = inner,
                 op[t].addr \in Addresses, op[t].slot \in Slots
          PROVE  Owned
      <3> DEFINE a == op[t].addr  s == op[t].slot
      <3>1. inner' = Insert(inner, a, s) /\ LookupResult(inner, a) = "free"
        BY <2>2 DEF Store
      <3>2. a \notin DOMAIN inner
        BY <1>1, <2>2, <3>1, FreeIsSeparate, AddressesAssumption DEF IInv, RouteKeys
      <3>3. \A x \in DOMAIN inner : x \in DOMAIN inner' /\ inner'[x] = inner[x]
        <4>1. a \in Addresses /\ s \in Slots
          BY <2>2
        <4>2. /\ DOMAIN Insert(inner, a, s) = DOMAIN inner \cup {a}
              /\ \A x \in DOMAIN inner \ {a} : Insert(inner, a, s)[x] = inner[x]
          <5> HIDE DEF a, s
          <5> QED BY <2>0, <4>1, InsertFacts
        <4> QED BY <3>1, <3>2, <4>2
      <3> QED BY <3>3
    <2>3. ASSUME NEW t \in Threads, RemoveStore(t), op[t].current = inner,
                 op[t].addr \in Addresses, op[t].slot \in Slots,
                 OwnsRoute(inner, op[t].addr, op[t].slot)
          PROVE  Owned
      <3> DEFINE b == op[t].addr
      <3>1. inner' = Remove(inner, b) /\ pc[t] = "remove"
        BY <2>3 DEF RemoveStore
      <3>2. \A x \in DOMAIN inner : x # b => x \in DOMAIN inner' /\ inner'[x] = inner[x]
        <4>1. b \in Addresses
          BY <2>3
        <4> HIDE DEF b
        <4> QED BY <2>0, <3>1, <4>1, RemoveFacts
      <3> QED BY <2>3, <3>1, <3>2 DEF OwnsRoute
    <2> QED BY <1>1, <2>1, <2>2, <2>3, StepShape
  <1> QED BY <1>1, Invariance, PTL DEF Spec, OnlyOwnerRemoves
\* The abstract table and the registry mean the same by an overlap.
LEMMA SameOverlap == \A p, q : Table!Overlap(p, q) = Overlap(p, q)
  BY Zenon DEF Table!Overlap, Overlap, Table!ConcreteUpTo, ConcreteUpTo,
               Table!Covers, Covers, Table!EndsWithStarStar, EndsWithStarStar,
               Table!Plain, Plain, Table!Star, Star, Table!StarStar, StarStar,
               Table!Empty, Empty

\* The registry implements the table of exclusive bindings: the initial
\* snapshot is the empty table, the store of a registration is a Bind, the
\* store of an unregister is an Unbind, and every other step leaves the
\* table alone.
THEOREM ImplementsRouteTableHolds ==
    ASSUME NoPrefixWildcards
    PROVE  Spec => ImplementsRouteTable
  <1> DEFINE Tab == {<<a, inner[a]>> : a \in DOMAIN inner}
  <1>1. Init => Table!TableInit
    BY DEF Init, EmptySnapshot, Table!TableInit
  <1>2. ASSUME IInv, [Next]_vars PROVE [Table!TableNext]_Tab
    <2>0. inner \in Snapshot /\ DOMAIN inner \subseteq Addresses
      BY <1>2, SnapshotRange DEF IInv, TypeOK
    <2>1. CASE inner' = inner
      BY <2>1
    <2>2. ASSUME NEW t \in Threads, Store(t), op[t].current = inner,
                 op[t].addr \in Addresses, op[t].slot \in Slots
          PROVE  Table!TableNext
      <3> DEFINE a == op[t].addr  s == op[t].slot
      <3>1. /\ inner' = Insert(inner, a, s) /\ LookupResult(inner, a) = "free"
            /\ a \in Addresses /\ s \in Slots /\ pc[t] \in Registering
        BY <2>2 DEF Store, Registering
      <3>2. a \notin DOMAIN inner /\ \A k \in DOMAIN inner : Separate(k, a)
        BY <1>2, <3>1, FreeIsSeparate, AddressesAssumption DEF IInv, RouteKeys
      <3>3. \A k \in DOMAIN inner : ~Overlap(k, a)
        BY <2>0, <3>1, <3>2 DEF Separate, NoPrefixWildcards
      <3>4. \A k \in DOMAIN inner : inner[k] # s
        BY <1>2, <3>1 DEF IInv, CallSlots, Routed
      <3>5. /\ DOMAIN inner' = DOMAIN inner \cup {a} /\ inner'[a] = s
            /\ \A x \in DOMAIN inner : inner'[x] = inner[x]
        <4>1. /\ DOMAIN Insert(inner, a, s) = DOMAIN inner \cup {a}
              /\ Insert(inner, a, s)[a] = s
              /\ \A x \in DOMAIN inner \ {a} : Insert(inner, a, s)[x] = inner[x]
          <5> HIDE DEF a, s
          <5> QED BY <2>0, <3>1, InsertFacts
        <4> QED BY <3>1, <3>2, <4>1
      <3>6. Tab' = Tab \cup {<<a, s>>}
        BY <3>5
      <3>7. \A k \in DOMAIN inner : ~Table!Overlap(k, a)
        BY <3>3, SameOverlap
      <3>8. \A b \in Tab : ~Table!Overlap(b[1], a) /\ b[2] # s
        BY <3>4, <3>7
      <3>9. PICK x \in Addresses, y \in Slots : x = a /\ y = s
        BY <3>1
      <3>10. Table!Bind(x, y)
        BY <3>6, <3>8, <3>9 DEF Table!Bind
      <3> QED BY <3>10 DEF Table!TableNext
    <2>3. ASSUME NEW t \in Threads, RemoveStore(t), op[t].current = inner,
                 op[t].addr \in Addresses, op[t].slot \in Slots,
                 OwnsRoute(inner, op[t].addr, op[t].slot)
          PROVE  Table!TableNext
      <3> DEFINE b == op[t].addr
      <3>1. inner' = Remove(inner, b) /\ b \in DOMAIN inner /\ b \in Addresses
        BY <2>3 DEF RemoveStore, OwnsRoute
      <3>2. /\ DOMAIN inner' = DOMAIN inner \ {b}
            /\ \A x \in DOMAIN inner \ {b} : inner'[x] = inner[x]
        <4>1. /\ DOMAIN Remove(inner, b) = DOMAIN inner \ {b}
              /\ \A x \in DOMAIN inner \ {b} : Remove(inner, b)[x] = inner[x]
          <5> HIDE DEF b
          <5> QED BY <2>0, <3>1, RemoveFacts
        <4> QED BY <3>1, <4>1
      <3>3. <<b, inner[b]>> \in Tab /\ Tab' = Tab \ {<<b, inner[b]>>}
        BY <3>1, <3>2
      <3> QED BY <3>3 DEF Table!TableNext, Table!Unbind
    <2> QED BY <1>2, <2>1, <2>2, <2>3, StepShape
  <1> QED BY <1>1, <1>2, Invariance, PTL DEF Spec, ImplementsRouteTable, Table!TableSpec

\* A registration for get_existing_or_register brings the slot of a group.
GroupCalls ==
    \A t \in Threads : pc[t] = "getOrRegister" => kind[op[t].slot] = "LoadBalanced"

\* What holds of the Exclusive routes until a factory panics; a drop cannot
\* take the poisoned mutex and leaves its route.
HandleKept == ~poisoned => RouteHasHandle

\* Every step keeps a handle, or the drop of one, beside each Exclusive route.
LEMMA HandleStep ==
    ASSUME IInv, IInv', GroupCalls, HandleKept, [Next]_vars
    PROVE  GroupCalls' /\ HandleKept'
  <1> USE DEF Routed
  <1>T. /\ TypeOK /\ inner \in Snapshot
        /\ \A x \in DOMAIN inner : inner[x] \in Slots /\ kind[inner[x]] # "none"
    BY SnapshotRange DEF IInv, TypeOK, RouteKeys
  <1>1. ASSUME NEW t \in Threads, NEW call \in Calls, NEW a \in Addresses, NEW s \in Slots,
               Begin(t, call, a, s)
        PROVE  GroupCalls' /\ HandleKept'
    <2>1. \A u \in Threads : pc[u] \notin Busy
      BY <1>1, ThreadsAssumption DEF Begin, Lock, IInv, CallsExclusive
    <2>2. /\ pc' = [pc EXCEPT ![t] = call] /\ inner' = inner /\ poisoned' = poisoned
          /\ op' = [op EXCEPT ![t] = [addr |-> a, slot |-> s, current |-> inner]]
          /\ kind' = KindAfter(call, s) /\ handles' = HandlesAfter(call, a, s)
      BY <1>1 DEF Begin
    <2>3. op'[t].addr = a /\ op'[t].slot = s /\ pc'[t] = call
      BY <1>T, <2>2 DEF TypeOK
    <2>4. \A x \in DOMAIN inner : kind'[inner[x]] = kind[inner[x]]
      <3>1. call # "unregister" => kind[s] = "none"
        BY <1>1 DEF Begin, Callable
      <3> QED BY <1>T, <2>2, <3>1 DEF KindAfter, TypeOK, Calls
    <2>5. GroupCalls'
      <3> SUFFICES ASSUME NEW u \in Threads, pc'[u] = "getOrRegister"
                   PROVE  kind'[op'[u].slot] = "LoadBalanced"
        BY DEF GroupCalls
      <3>1. u = t
        BY <1>T, <2>1, <2>2 DEF TypeOK, Busy, Registering
      <3> QED BY <1>T, <2>2, <2>3, <3>1 DEF KindAfter, TypeOK
    <2>6. HandleKept'
      <3> SUFFICES ASSUME NEW x \in DOMAIN inner, kind[inner[x]] = "Single", ~poisoned
                   PROVE  \/ <<x, inner[x]>> \in handles'
                          \/ \E u \in Threads : /\ pc'[u] \in {"unregister", "remove"}
                                                /\ op'[u].addr = x /\ op'[u].slot = inner[x]
        BY <2>2, <2>4 DEF HandleKept, RouteHasHandle
      <3>1. <<x, inner[x]>> \in handles
        BY <2>1 DEF HandleKept, RouteHasHandle, Busy
      <3>2. CASE call = "unregister" /\ <<x, inner[x]>> = <<a, s>>
        BY <2>3, <3>2
      <3>3. CASE call # "unregister" \/ <<x, inner[x]>> # <<a, s>>
        BY <2>2, <3>1, <3>3 DEF HandlesAfter
      <3> QED BY <3>2, <3>3
    <2> QED BY <2>5, <2>6
  <1>2. ASSUME NEW t \in Threads, NEW call \in Calls, NEW a \in Addresses, NEW s \in Slots,
               BeginPoisoned(t, call, a, s)
        PROVE  GroupCalls' /\ HandleKept'
    <2>1. poisoned' = poisoned /\ poisoned /\ UNCHANGED <<op, kind>>
          /\ pc' = [pc EXCEPT ![t] = "panicked"]
      BY <1>2 DEF BeginPoisoned
    <2>2. GroupCalls'
      BY <1>T, <2>1 DEF GroupCalls, TypeOK
    <2> QED BY <2>1, <2>2 DEF HandleKept, RouteHasHandle
  \* A call that ends leaves no thread busy.
  <1>3. ASSUME NEW t \in Threads, pc[t] \in Busy, NEW p, p \notin Busy,
               pc' = [pc EXCEPT ![t] = p]
        PROVE  GroupCalls' /\ \A u \in Threads : pc'[u] \notin Busy
    <2>1. \A u \in Threads \ {t} : pc[u] \notin Busy
      BY <1>3, BusyFacts
    <2>2. \A u \in Threads : pc'[u] \notin Busy
      BY <1>3, <1>T, <2>1 DEF TypeOK
    <2> QED BY <2>2 DEF GroupCalls, Busy, Registering
  \* While a thread is registering, every Exclusive route has its handle.
  <1>4. ASSUME NEW t \in Threads, pc[t] \in Registering
        PROVE  \A x \in DOMAIN inner :
                   kind[inner[x]] = "Single" /\ ~poisoned => <<x, inner[x]>> \in handles
    <2>1. pc[t] \in Busy /\ pc[t] \notin {"unregister", "remove"}
      BY <1>4 DEF Busy, Registering
    <2>2. \A u \in Threads : pc[u] \notin {"unregister", "remove"}
      BY <2>1, BusyFacts DEF Busy
    <2> QED BY <2>2 DEF HandleKept, RouteHasHandle
  <1>5. ASSUME NEW t \in Threads, Store(t) PROVE GroupCalls' /\ HandleKept'
    <2>1. pc[t] \in Registering /\ pc[t] \in Busy
      BY <1>5 DEF Store, Busy, Registering
    <2> DEFINE a == op[t].addr  s == op[t].slot
    <2>2. /\ a \in Addresses /\ s \in Slots /\ inner' = Insert(inner, a, s)
          /\ kind' = kind /\ poisoned' = poisoned
          /\ handles' = IF pc[t] = "register" THEN handles \cup {<<a, s>>} ELSE handles
          /\ pc' = [pc EXCEPT ![t] = "idle"]
      BY <1>5, <2>1, BusyFacts DEF Store, Return
    <2>3. GroupCalls'
      BY <1>3, <2>1, <2>2 DEF Busy, Registering
    <2>4. pc[t] = "getOrRegister" => kind[s] = "LoadBalanced"
      BY DEF GroupCalls
    <2>5. /\ DOMAIN inner' = DOMAIN inner \cup {a} /\ inner'[a] = s
          /\ \A x \in DOMAIN inner \ {a} : inner'[x] = inner[x]
      <3>1. /\ DOMAIN Insert(inner, a, s) = DOMAIN inner \cup {a}
            /\ Insert(inner, a, s)[a] = s
            /\ \A x \in DOMAIN inner \ {a} : Insert(inner, a, s)[x] = inner[x]
        <4>1. a \in Addresses /\ s \in Slots
          BY <2>2
        <4> HIDE DEF a, s
        <4> QED BY <1>T, <4>1, InsertFacts
      <3> QED BY <2>2, <3>1
    <2>6. HandleKept'
      <3> SUFFICES ASSUME NEW x \in DOMAIN inner', kind'[inner'[x]] = "Single", ~poisoned'
                   PROVE  <<x, inner'[x]>> \in handles'
        BY DEF HandleKept, RouteHasHandle
      <3>1. CASE x = a
        BY <2>1, <2>2, <2>4, <2>5, <3>1 DEF Registering
      <3>2. CASE x # a
        <4>1. x \in DOMAIN inner /\ inner'[x] = inner[x]
          BY <2>5, <3>2
        <4>2. <<x, inner[x]>> \in handles
          BY <1>4, <2>1, <2>2, <4>1
        <4> QED BY <2>2, <4>1, <4>2
      <3> QED BY <3>1, <3>2
    <2> QED BY <2>3, <2>6
  <1>6. ASSUME NEW t \in Threads, Refuse(t) \/ FactoryPanic(t) PROVE GroupCalls' /\ HandleKept'
    <2>1. pc[t] \in Registering /\ pc[t] \in Busy
      BY <1>6 DEF Refuse, FactoryPanic, Busy, Registering
    <2>2. PICK p : p \notin Busy /\ pc' = [pc EXCEPT ![t] = p]
      BY <1>6 DEF Refuse, FactoryPanic, Return, Busy, Registering
    <2>3. /\ inner' = inner /\ handles' = handles /\ (poisoned => poisoned')
          /\ kind' = [kind EXCEPT ![op[t].slot] = "none"]
      BY <1>6 DEF Refuse, FactoryPanic
    <2>4. \A x \in DOMAIN inner : kind'[inner[x]] = "Single" => kind[inner[x]] = "Single"
      BY <1>T, <2>3 DEF TypeOK
    <2>5. HandleKept'
      BY <1>4, <2>1, <2>3, <2>4 DEF HandleKept, RouteHasHandle
    <2> QED BY <1>3, <2>1, <2>2, <2>5
  <1>7. ASSUME NEW t \in Threads, MarkRemoved(t) PROVE GroupCalls' /\ HandleKept'
    <2>1. /\ pc[t] = "unregister" /\ pc' = [pc EXCEPT ![t] = "remove"]
          /\ UNCHANGED <<inner, poisoned, op, kind, handles>>
      BY <1>7 DEF MarkRemoved
    <2>2. /\ \A u \in Threads \ {t} : pc'[u] = pc[u]
          /\ pc'[t] = "remove"
      BY <1>T, <2>1 DEF TypeOK
    <2>3. GroupCalls'
      BY <2>1, <2>2 DEF GroupCalls
    <2>4. \A u \in Threads : pc[u] \in {"unregister", "remove"} => pc'[u] \in {"unregister", "remove"}
      BY <2>2
    <2>5. HandleKept'
      BY <2>1, <2>4 DEF HandleKept, RouteHasHandle
    <2> QED BY <2>3, <2>5
  \* An unregister that ends had no route of its own, or has taken it out.
  <1>8. ASSUME NEW t \in Threads, UnregisterNoop(t) \/ RemoveStore(t)
        PROVE  GroupCalls' /\ HandleKept'
    <2>1. pc[t] \in {"unregister", "remove"} /\ pc[t] \in Busy
      BY <1>8 DEF UnregisterNoop, RemoveStore, Busy
    <2> DEFINE b == op[t].addr
    <2>2. /\ b \in Addresses /\ op[t].current = inner
          /\ \A u \in Threads \ {t} : pc[u] \notin Busy
      BY <2>1, BusyFacts
    <2>3. /\ kind' = kind /\ poisoned' = poisoned /\ handles' = handles
          /\ pc' = [pc EXCEPT ![t] = "idle"]
      BY <1>8 DEF UnregisterNoop, RemoveStore, Return
    <2>4. GroupCalls'
      BY <1>3, <2>1, <2>3 DEF Busy, Registering
    <2>5. \A x \in DOMAIN inner' :
              /\ x \in DOMAIN inner /\ inner'[x] = inner[x]
              /\ ~(op[t].addr = x /\ op[t].slot = inner[x])
      <3>1. CASE UnregisterNoop(t)
        BY <2>2, <3>1 DEF UnregisterNoop, OwnsRoute
      <3>2. CASE RemoveStore(t)
        <4>1. inner' = Remove(inner, b)
          BY <2>2, <3>2 DEF RemoveStore
        <4>2. /\ DOMAIN Remove(inner, b) = DOMAIN inner \ {b}
              /\ \A x \in DOMAIN inner \ {b} : Remove(inner, b)[x] = inner[x]
          <5>1. b \in Addresses
            BY <2>2
          <5> HIDE DEF b
          <5> QED BY <1>T, <5>1, RemoveFacts
        <4> QED BY <4>1, <4>2
      <3> QED BY <1>8, <3>1, <3>2
    <2>6. HandleKept'
      <3> SUFFICES ASSUME NEW x \in DOMAIN inner', kind'[inner'[x]] = "Single", ~poisoned'
                   PROVE  <<x, inner'[x]>> \in handles'
        BY DEF HandleKept, RouteHasHandle
      <3>1. \A u \in Threads : ~(/\ pc[u] \in {"unregister", "remove"}
                                 /\ op[u].addr = x /\ op[u].slot = inner[x])
        BY <2>2, <2>5 DEF Busy
      <3> QED BY <2>3, <2>5, <3>1 DEF HandleKept, RouteHasHandle
    <2> QED BY <2>4, <2>6
  <1>9. ASSUME NEW s \in Slots, GroupMarkRemoved(s) PROVE GroupCalls' /\ HandleKept'
    BY <1>9 DEF GroupMarkRemoved, GroupCalls, HandleKept, RouteHasHandle
  <1>10. ASSUME NEW s \in Slots, DropSlot(s) PROVE GroupCalls' /\ HandleKept'
    <2>1. /\ \A t \in Threads : op[t].slot # s
          /\ \A x \in DOMAIN inner : inner[x] # s
          /\ kind' = [kind EXCEPT ![s] = "none"]
          /\ UNCHANGED <<inner, poisoned, pc, op, handles>>
      BY <1>10 DEF DropSlot
    <2>2. \A x \in DOMAIN inner : kind'[inner[x]] = kind[inner[x]]
      BY <1>T, <2>1
    <2>3. HandleKept'
      BY <2>1, <2>2 DEF HandleKept, RouteHasHandle
    <2>4. GroupCalls'
      <3> SUFFICES ASSUME NEW t \in Threads, pc[t] = "getOrRegister"
                   PROVE  kind'[op[t].slot] = "LoadBalanced"
        BY <2>1 DEF GroupCalls
      <3>1. op[t].slot \in Slots
        BY BusyFacts DEF Busy, Registering
      <3> QED BY <1>T, <2>1, <3>1 DEF GroupCalls, TypeOK
    <2> QED BY <2>3, <2>4
  <1>11. CASE UNCHANGED vars
    BY <1>11 DEF vars, GroupCalls, HandleKept, RouteHasHandle
  <1> QED BY <1>1, <1>2, <1>5, <1>6, <1>7, <1>8, <1>9, <1>10, <1>11 DEF Next

\* RAII cleanup: unless a factory has panicked under the mutex, an Exclusive
\* route has a live handle or a thread is unregistering that very slot.
THEOREM RouteHasHandleHolds == Spec => [](~poisoned => RouteHasHandle)
  <1>1. Init => GroupCalls /\ HandleKept
    BY DEF Init, EmptySnapshot, GroupCalls, HandleKept, RouteHasHandle
  <1>2. IInv /\ IInv' /\ GroupCalls /\ HandleKept /\ [Next]_vars
            => GroupCalls' /\ HandleKept'
    BY HandleStep
  <1>3. HandleKept => (~poisoned => RouteHasHandle)
    BY DEF HandleKept
  <1> QED BY <1>1, <1>2, <1>3, Invariance, PTL DEF Spec

\* A poisoned mutex is with nobody: the thread that poisoned it has let go of
\* it in the same unwinding, and nobody takes it again.
PoisonedIsFree == poisoned => mutex = NoThread

\* After a factory's panic nothing is published any more, and the panicking
\* call published nothing either.
THEOREM PoisonIsFinalHolds == Spec => PoisonIsFinal
  <1> DEFINE Frozen == poisoned' => inner' = inner
  <1>1. Init => PoisonedIsFree
    BY DEF Init, PoisonedIsFree
  <1>2. ASSUME IInv, PoisonedIsFree, [Next]_vars PROVE PoisonedIsFree' /\ Frozen
    <2>1. ASSUME NEW t \in Threads, pc[t] \in Busy PROVE ~poisoned
      BY <1>2, <2>1, BusyFacts, ThreadsAssumption DEF PoisonedIsFree, IInv, CallsExclusive
    <2>2. ASSUME NEW t \in Threads, NEW call \in Calls, NEW a \in Addresses, NEW s \in Slots,
                 Begin(t, call, a, s) \/ BeginPoisoned(t, call, a, s)
          PROVE  PoisonedIsFree' /\ Frozen
      BY <1>2, <2>2 DEF Begin, BeginPoisoned, Lock, PoisonedIsFree
    <2>3. ASSUME NEW t \in Threads, Store(t) \/ RemoveStore(t) PROVE PoisonedIsFree' /\ Frozen
      BY <2>1, <2>3 DEF Store, RemoveStore, Return, PoisonedIsFree, Busy, Registering
    <2>4. ASSUME NEW t \in Threads, Refuse(t) \/ UnregisterNoop(t) \/ FactoryPanic(t)
          PROVE  PoisonedIsFree' /\ Frozen
      BY <2>4 DEF Refuse, UnregisterNoop, FactoryPanic, Return, PoisonedIsFree
    <2>5. ASSUME NEW t \in Threads, MarkRemoved(t) PROVE PoisonedIsFree' /\ Frozen
      BY <1>2, <2>5 DEF MarkRemoved, PoisonedIsFree
    <2>6. ASSUME NEW s \in Slots, GroupMarkRemoved(s) \/ DropSlot(s)
          PROVE  PoisonedIsFree' /\ Frozen
      BY <1>2, <2>6 DEF GroupMarkRemoved, DropSlot, PoisonedIsFree
    <2>7. CASE UNCHANGED vars
      BY <1>2, <2>7 DEF vars, PoisonedIsFree
    <2> QED BY <1>2, <2>2, <2>3, <2>4, <2>5, <2>6, <2>7 DEF Next
  <1> QED BY <1>1, <1>2, Invariance, PTL DEF Spec, PoisonIsFinal

\* register and get_existing_or_register refuse only for a route that is
\* there at that moment, with the same address or with a common one.
THEOREM RefusalJustifiedHolds == Spec => RefusalJustified
  <1> DEFINE Justified ==
          \A t \in Threads :
              result'[t] # result[t] =>
                  /\ result'[t] \in {"occupied", "exists"} => op[t].addr \in DOMAIN inner
                  /\ result'[t] = "conflict" => \E r \in DOMAIN inner : Overlap(r, op[t].addr)
  <1>1. ASSUME IInv, [Next]_vars PROVE Justified
    <2> SUFFICES ASSUME NEW t \in Threads, result'[t] # result[t],
                        result'[t] \in {"occupied", "exists", "conflict"}
                 PROVE  /\ result'[t] \in {"occupied", "exists"} => op[t].addr \in DOMAIN inner
                        /\ result'[t] = "conflict" =>
                              \E r \in DOMAIN inner : Overlap(r, op[t].addr)
      OBVIOUS
    <2>1. result \in [Threads -> {"none", "ok", "occupied", "exists", "conflict", "invalid"}]
      BY <1>1 DEF IInv, TypeOK
    <2>2. ASSUME NEW u \in Threads, NEW r \in {"none", "ok"}
          PROVE  result' # [result EXCEPT ![u] = r]
      BY <2>1
    <2>3. \E u \in Threads : Refuse(u)
      BY <1>1, <2>2 DEF Next, vars, Begin, BeginPoisoned, Store, Return, FactoryPanic, MarkRemoved,
                        RemoveStore, UnregisterNoop, GroupMarkRemoved, DropSlot
    <2>4. PICK u \in Threads : Refuse(u)
      BY <2>3
    <2>5. u = t
      BY <2>1, <2>4 DEF Refuse, Return
    <2>6. pc[t] \in Busy
      BY <2>4, <2>5 DEF Refuse, Busy, Registering
    <2> DEFINE a == op[t].addr
    <2>7. op[t].current = inner /\ a \in Address
      BY <1>1, <2>6, BusyFacts, AddressesAssumption
    <2> DEFINE r == LookupResult(inner, a)
    <2>8. result'[t] = IF r = "duplicate"
                       THEN IF pc[t] = "register" THEN "occupied" ELSE "exists"
                       ELSE r
      BY <2>1, <2>4, <2>5, <2>7 DEF Refuse, Return
    <2>9. /\ r \in {"duplicate", "conflict", "free", "invalid"}
          /\ r = "duplicate" => a \in DOMAIN inner
      BY DEF LookupResult, GetExact, GetWildcard, ExactTree
    <2>10. ASSUME r = "conflict" PROVE \E k \in DOMAIN inner : Overlap(k, a)
      <3>1. \A k \in DOMAIN inner : WellFormed(k)
        BY <1>1 DEF IInv, RouteKeys
      <3>2. LookupResult(inner, a) = "conflict"
        BY <2>10
      <3> HIDE DEF a, r
      <3> QED BY <2>7, <3>1, <3>2, ConflictIsReal
    <2> QED BY <2>8, <2>9, <2>10
  <1> QED BY <1>1, Invariance, PTL DEF Spec, RefusalJustified
=============================================================================
