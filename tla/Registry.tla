------------------------------- MODULE Registry -------------------------------
(***************************************************************************)
(* LocalRegistry (broker_core/registry/mod.rs) under concurrent callers:   *)
(* register, get_existing_or_register and unregister run on any thread     *)
(* and mutate a copy-on-write snapshot under register_mutex; lookup reads  *)
(* whatever snapshot is published, without the mutex.                      *)
(*                                                                         *)
(* The three collections of RegistryInner are one partial function from    *)
(* address to target: the shape of an address decides in which collection  *)
(* it lives. A target is named by its slot: every RouteTarget owns exactly *)
(* one SubscriptionSlot (a group's slot for LoadBalanced).                 *)
(***************************************************************************)
EXTENDS Addressing, Functions

CONSTANTS
    Threads,
    Addresses,          \* the addresses and patterns that callers use
    Slots,              \* identities of SubscriptionSlot allocations
    NoThread,
    FactoryMayPanic,    \* may the factory of get_existing_or_register panic?
    ProbeLength         \* the longest concrete address that lookup is asked for

ASSUME AddressesAssumption == Addresses \subseteq Address
ASSUME ThreadsAssumption == NoThread \notin Threads
ASSUME SlotsAssumption == "none" \notin Slots
ASSUME PanicAssumption == FactoryMayPanic \in BOOLEAN
ASSUME ProbeAssumption == ProbeLength \in Nat

VARIABLES
    inner,      \* the published snapshot
    mutex,      \* the thread inside register_mutex, or NoThread
    poisoned,   \* a thread panicked while it held register_mutex
    pc,         \* what each thread is doing
    op,         \* the thread's arguments and the snapshot it loaded
    kind,       \* RouteTarget variant of an allocated slot, or "none"
    removed,    \* the slots whose sender is None (mark_removed)
    handles,    \* <<address, slot>> of the live Exclusive SubscriptionHandles
    result      \* what the thread's last call returned

vars == <<inner, mutex, poisoned, pc, op, kind, removed, handles, result>>

-----------------------------------------------------------------------------
(* The snapshot *)

ExactTree(snap) == {a \in DOMAIN snap : ~IsWildcard(a)}
PrefixTree(snap) == {a \in DOMAIN snap : EndsWithStarStar(a)}
SingleWildcards(snap) == DOMAIN snap \ (ExactTree(snap) \cup PrefixTree(snap))

Snapshot == UNION {[D -> Slots] : D \in SUBSET Addresses}

\* Mutant: a pattern is stored under the bytes before its first `*`.
InsertByStaticPrefix(snap, a, s) ==
    LET n == CHOOSE i \in 0..Len(a) : /\ \A j \in 1..i : a[j] \in Plain
                                       /\ i < Len(a) => a[i + 1] \notin Plain
        key == IF IsWildcard(a) THEN Append(SubSeq(a, 1, n), Empty) ELSE a
    IN  [x \in DOMAIN snap \cup {key} |-> IF x = key THEN s ELSE snap[x]]

Insert(snap, a, s) == [x \in DOMAIN snap \cup {a} |-> IF x = a THEN s ELSE snap[x]]
Remove(snap, a) == Restrict(snap, DOMAIN snap \ {a})

Routed(s) == \E a \in DOMAIN inner : inner[a] = s

CheckPrefixWildcardConflicts(snap, p) ==
    \/ \E n \in 1..Len(p) :
          /\ \A i \in 1..n : p[i] # StarStar
          /\ Append(SubSeq(p, 1, n), StarStar) \in PrefixTree(snap)
    \/ \E k \in PrefixTree(snap) :
          k # p /\ UnderStaticPrefix(p, k) /\ CompareSegments(p, k, TRUE)

\* Mutant: the single wildcards are not scanned for an exact address.
GetExactUnscanned(snap, a) ==
    IF a \in ExactTree(snap) THEN "duplicate"
    ELSE IF \E k \in PrefixTree(snap) : OnPathOf(k, a) THEN "conflict" ELSE "free"

GetExact(snap, a) ==
    IF a \in ExactTree(snap) THEN "duplicate"
    ELSE IF \/ \E k \in PrefixTree(snap) : OnPathOf(k, a)
            \/ \E k \in SingleWildcards(snap) : CompareSegments(k, a, FALSE)
         THEN "conflict"
         ELSE "free"

\* Mutant: the exact addresses under a new wildcard are not scanned.
GetWildcardUnscanned(snap, p) ==
    IF p \in DOMAIN snap THEN "duplicate"
    ELSE IF \/ CheckPrefixWildcardConflicts(snap, p)
            \/ \E k \in SingleWildcards(snap) : CompareSegments(k, p, TRUE)
         THEN "conflict"
         ELSE "free"

GetWildcard(snap, p) ==
    IF p \in DOMAIN snap THEN "duplicate"
    ELSE IF \/ CheckPrefixWildcardConflicts(snap, p)
            \/ \E k \in SingleWildcards(snap) : CompareSegments(k, p, TRUE)
            \/ \E k \in ExactTree(snap) :
                  UnderStaticPrefix(p, k) /\ CompareSegments(p, k, FALSE)
         THEN "conflict"
         ELSE "free"

\* The validation and the conflict check of a registration.
LookupResult(snap, a) ==
    IF ~IsWildcard(a) THEN GetExact(snap, a)
    ELSE IF ~ValidateWildcardPattern(a) THEN "invalid"
    ELSE GetWildcard(snap, a)

\* The answers of lookup: exact, else the longest prefix wildcard on the
\* path, else a matching single wildcard (whichever comes first in the Vec).
Lookup(snap, a) ==
    LET ancestors == {k \in PrefixTree(snap) : OnPathOf(k, a)}
        singles == {k \in SingleWildcards(snap) : CompareSegments(k, a, FALSE)}
    IN  IF a \in ExactTree(snap) THEN {snap[a]}
        ELSE IF ancestors # {}
             THEN {snap[k] : k \in {m \in ancestors :
                                        \A n \in ancestors : Len(n) <= Len(m)}}
             ELSE {snap[k] : k \in singles}

-----------------------------------------------------------------------------
Calls == {"register", "getOrRegister", "unregister"}
EmptySnapshot == [a \in {} |-> "none"]
NoOp == [addr |-> <<>>, slot |-> "none", current |-> EmptySnapshot]

Init ==
    /\ inner = EmptySnapshot
    /\ mutex = NoThread
    /\ poisoned = FALSE
    /\ pc = [t \in Threads |-> "idle"]
    /\ op = [t \in Threads |-> NoOp]
    /\ kind = [s \in Slots |-> "none"]
    /\ removed = {}
    /\ handles = {}
    /\ result = [t \in Threads |-> "none"]

\* Mutant: the copy-on-write store is not serialised.
LockNothing(t) == ~poisoned /\ mutex' = t

\* lock().unwrap(): waits for the mutex, and goes on only if not poisoned.
Lock(t) ==
    /\ mutex = NoThread
    /\ ~poisoned
    /\ mutex' = t

\* The thread releases the mutex and its call returns r.
Return(t, r) ==
    /\ mutex' = NoThread
    /\ pc' = [pc EXCEPT ![t] = "idle"]
    /\ op' = [op EXCEPT ![t] = NoOp]
    /\ result' = [result EXCEPT ![t] = r]

\* The arguments a call can have: a registration brings a new slot, which
\* no other thread has; unregister gets a slot that somebody allocated.
Callable(call, s) == kind[s] = "none" <=> call # "unregister"

\* An unregister that comes from a dropped SubscriptionHandle ends the handle.
HandlesAfter(call, a, s) ==
    IF call = "unregister" THEN handles \ {<<a, s>>} ELSE handles

KindAfter(call, s) ==
    CASE call = "register" -> [kind EXCEPT ![s] = "Single"]
      [] call = "getOrRegister" -> [kind EXCEPT ![s] = "LoadBalanced"]
      [] OTHER -> kind

\* The first half of every call: take the mutex, then load the snapshot.
Begin(t, call, a, s) ==
    /\ pc[t] = "idle"
    /\ Callable(call, s)
    /\ Lock(t)
    /\ pc' = [pc EXCEPT ![t] = call]
    /\ op' = [op EXCEPT ![t] = [addr |-> a, slot |-> s, current |-> inner]]
    /\ kind' = KindAfter(call, s)
    /\ handles' = HandlesAfter(call, a, s)
    /\ result' = [result EXCEPT ![t] = "none"]
    /\ UNCHANGED <<inner, poisoned, removed>>

\* lock().unwrap() on a poisoned mutex panics. The handle being dropped is
\* gone, nothing else has happened.
BeginPoisoned(t, call, a, s) ==
    /\ pc[t] = "idle"
    /\ Callable(call, s)
    /\ poisoned
    /\ pc' = [pc EXCEPT ![t] = "panicked"]
    /\ handles' = HandlesAfter(call, a, s)
    /\ UNCHANGED <<inner, mutex, poisoned, op, kind, removed, result>>

\* Store the loaded snapshot with the new route. Only an Exclusive
\* registration hands out a SubscriptionHandle that unregisters.
Store(t) ==
    /\ pc[t] \in {"register", "getOrRegister"}
    /\ LookupResult(op[t].current, op[t].addr) = "free"
    /\ inner' = Insert(op[t].current, op[t].addr, op[t].slot)
    /\ handles' = IF pc[t] = "register"
                  THEN handles \cup {<<op[t].addr, op[t].slot>>}
                  ELSE handles
    /\ Return(t, "ok")
    /\ UNCHANGED <<poisoned, kind, removed>>

\* Duplicate, conflict or invalid pattern: the new slot is dropped, and
\* get_existing_or_register returns the duplicate's target instead.
Refuse(t) ==
    /\ pc[t] \in {"register", "getOrRegister"}
    /\ LET r == LookupResult(op[t].current, op[t].addr)
       IN  /\ r # "free"
           /\ Return(t, IF r = "duplicate"
                        THEN IF pc[t] = "register" THEN "occupied" ELSE "exists"
                        ELSE r)
    /\ kind' = [kind EXCEPT ![op[t].slot] = "none"]
    /\ UNCHANGED <<inner, poisoned, removed, handles>>

\* Mutant: the address is taken before the factory has made its target.
FactoryPanicPublished(t) ==
    /\ FactoryMayPanic
    /\ pc[t] = "getOrRegister"
    /\ LookupResult(op[t].current, op[t].addr) = "free"
    /\ inner' = Insert(op[t].current, op[t].addr, op[t].slot)
    /\ poisoned' = TRUE
    /\ mutex' = NoThread
    /\ pc' = [pc EXCEPT ![t] = "panicked"]
    /\ op' = [op EXCEPT ![t] = NoOp]
    /\ UNCHANGED <<kind, removed, handles, result>>

\* The factory panics under the mutex (a channel of capacity 0, or
\* tokio::spawn without a runtime): unwinding poisons the mutex.
FactoryPanic(t) ==
    /\ FactoryMayPanic
    /\ pc[t] = "getOrRegister"
    /\ LookupResult(op[t].current, op[t].addr) = "free"
    /\ poisoned' = TRUE
    /\ mutex' = NoThread
    /\ pc' = [pc EXCEPT ![t] = "panicked"]
    /\ op' = [op EXCEPT ![t] = NoOp]
    /\ kind' = [kind EXCEPT ![op[t].slot] = "none"]
    /\ UNCHANGED <<inner, removed, handles, result>>

\* Mutant: without Arc::ptr_eq, whoever knows the address removes the route.
OwnsRouteByAddress(snap, a, s) == a \in DOMAIN snap

\* remove_slot: Arc::ptr_eq between the target's slot and the caller's.
OwnsRoute(snap, a, s) == a \in DOMAIN snap /\ snap[a] = s

\* remove_slot marks the slot before the new snapshot is stored.
MarkRemoved(t) ==
    /\ pc[t] = "unregister"
    /\ OwnsRoute(op[t].current, op[t].addr, op[t].slot)
    /\ removed' = removed \cup {op[t].current[op[t].addr]}
    /\ pc' = [pc EXCEPT ![t] = "remove"]
    /\ UNCHANGED <<inner, mutex, poisoned, op, kind, handles, result>>

\* Mutant: the slot is marked and the snapshot is not stored.
RemoveStoreLost(t) ==
    /\ pc[t] = "remove"
    /\ Return(t, "ok")
    /\ UNCHANGED <<inner, poisoned, kind, removed, handles>>

RemoveStore(t) ==
    /\ pc[t] = "remove"
    /\ inner' = Remove(op[t].current, op[t].addr)
    /\ Return(t, "ok")
    /\ UNCHANGED <<poisoned, kind, removed, handles>>

\* Not found, or another slot lives there: a silent no-op.
UnregisterNoop(t) ==
    /\ pc[t] = "unregister"
    /\ ~OwnsRoute(op[t].current, op[t].addr, op[t].slot)
    /\ Return(t, "ok")
    /\ UNCHANGED <<inner, poisoned, kind, removed, handles>>

\* LoadBalancedGroup::shutdown from remove_consumer, and the dispatcher's
\* own mark_removed: neither holds the mutex, neither touches the route.
GroupMarkRemoved(s) ==
    /\ kind[s] = "LoadBalanced"
    /\ Routed(s)
    /\ removed' = removed \cup {s}
    /\ UNCHANGED <<inner, mutex, poisoned, pc, op, kind, handles, result>>

\* The last Arc of a slot is dropped; its identity can be allocated again.
DropSlot(s) ==
    /\ kind[s] # "none"
    /\ ~Routed(s)
    /\ \A t \in Threads : op[t].slot # s
    /\ \A h \in handles : h[2] # s
    /\ kind' = [kind EXCEPT ![s] = "none"]
    /\ removed' = removed \ {s}
    /\ UNCHANGED <<inner, mutex, poisoned, pc, op, handles, result>>

Next ==
    \/ \E t \in Threads, call \in Calls, a \in Addresses, s \in Slots :
          Begin(t, call, a, s) \/ BeginPoisoned(t, call, a, s)
    \/ \E t \in Threads : \/ Store(t) \/ Refuse(t) \/ FactoryPanic(t)
                          \/ MarkRemoved(t) \/ RemoveStore(t)
                          \/ UnregisterNoop(t)
    \/ \E s \in Slots : GroupMarkRemoved(s) \/ DropSlot(s)

Spec == Init /\ [][Next]_vars

-----------------------------------------------------------------------------
(* Properties *)

\* Type correctness of the registry's state: every published or loaded
\* snapshot maps addresses that callers use to slots.
TypeOK ==
    /\ inner \in Snapshot
    /\ mutex \in Threads \cup {NoThread}
    /\ poisoned \in BOOLEAN
    /\ pc \in [Threads -> Calls \cup {"idle", "remove", "panicked"}]
    /\ op \in [Threads -> {NoOp} \cup [addr : Addresses, slot : Slots,
                                       current : Snapshot]]
    /\ kind \in [Slots -> {"none", "Single", "LoadBalanced"}]
    /\ removed \in SUBSET Slots
    /\ handles \in SUBSET (Addresses \X Slots)
    /\ result \in [Threads -> {"none", "ok", "occupied", "exists",
                               "conflict", "invalid"}]

\* Exclusive binding (register, get_existing_or_register): no two published
\* routes share a concrete address, in whatever order threads registered.
ExclusiveBinding ==
    \A a, b \in DOMAIN inner : a # b => ~Overlap(a, b)

Probes == ConcreteUpTo(ProbeLength)

\* lookup on the published snapshot answers with the target of the one route
\* that covers the address, and with nothing when no route covers it.
LookupFindsOwner ==
    \A a \in Probes :
        Lookup(inner, a) = {inner[r] : r \in {x \in DOMAIN inner : Covers(x, a)}}

\* A registration is refused only because of a route that really is there:
\* the same address, or one that shares an address with the new one.
RefusalJustified ==
    [][\A t \in Threads :
          result'[t] # result[t] =>
              /\ result'[t] \in {"occupied", "exists"} => op[t].addr \in DOMAIN inner
              /\ result'[t] = "conflict" =>
                    \E r \in DOMAIN inner : Overlap(r, op[t].addr)]_vars

\* A published route disappears, or changes its target, only by the store of
\* an unregister for the very slot it leads to: no copy-on-write store loses
\* a concurrent registration, no stale unregister takes a newer route away.
OnlyOwnerRemoves ==
    [][\A a \in DOMAIN inner :
          (a \in DOMAIN inner' => inner'[a] # inner[a]) =>
              \E t \in Threads : /\ pc[t] = "remove"
                                 /\ op[t].addr = a /\ op[t].slot = inner[a]]_vars

\* unregister marks the slot before it stores the snapshot, so lookup can
\* hand out an Exclusive target that is already removed; it never does so
\* outside the critical section of that unregister.
RemovedOnlyInTransit ==
    \A a \in DOMAIN inner :
        (kind[inner[a]] = "Single" /\ inner[a] \in removed) =>
            \E t \in Threads : mutex = t /\ pc[t] = "remove" /\ op[t].slot = inner[a]

\* RAII cleanup: an Exclusive route outlives its SubscriptionHandle only
\* while a thread is inside the unregister call of the handle's drop.
RouteHasHandle ==
    \A a \in DOMAIN inner :
        kind[inner[a]] = "Single" =>
            \/ <<a, inner[a]>> \in handles
            \/ \E t \in Threads : /\ pc[t] \in {"unregister", "remove"}
                                  /\ op[t].addr = a /\ op[t].slot = inner[a]

\* A factory that panics under register_mutex has published nothing, and from
\* then on the routes stay as they are: lookup goes on with the last snapshot
\* that was stored whole, and no call stores another.
PoisonIsFinal == [][poisoned' => inner' = inner]_vars

Table == INSTANCE RouteTable WITH table <- {<<a, inner[a]>> : a \in DOMAIN inner}

\* The registry implements the table of exclusive bindings: each store is
\* one Bind or Unbind, whatever the threads do in between.
ImplementsRouteTable == Table!TableSpec
=============================================================================
