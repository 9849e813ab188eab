# A verification project for arcella-broker

TLA+ models of the in-process message broker `arcella-broker`, checked with TLC
on small instances and, where marked, proved with TLAPS for all values of the
constants. Paths below are relative to the repository (`src/...`); `PROJECT.json`
maps every definition to the lines it models.

## 1. The system

The crate is a library. Components of one process create a `Broker`, obtain
`BrokerClient`s from it, subscribe to addresses and send messages to addresses.
All concurrency is tokio tasks on a multi-threaded runtime and plain threads that
call the synchronous methods.

| Part | State | Operations | Interacts with |
|---|---|---|---|
| Addressing (`registry/mod.rs`) | none | `is_wildcard`, `validate_wildcard_pattern`, `compare_segments_bytes`, static prefix and path scans | used by the registry |
| `LocalRegistry` (`registry/mod.rs`) | a published snapshot (`ArcSwap`) of three indexes, `register_mutex` | `register`, `get_existing_or_register`, `unregister`, `lookup`, `has_local`, `has_route` | called by clients, handle drops, group dispatchers; runs a caller's factory under its mutex |
| `SubscriptionSlot`, `RouteTarget` (`registry/slot.rs`, `routing.rs`) | sender (or `None`), version | `mark_removed`, `is_closed`, `send`, `remove_slot` | shared by registry, cached endpoints, handles |
| `LoadBalancedGroup` (`registry/load_balanced_group.rs`) | dispatcher task, request channel, main channel, consumer count | `subscribe`, `remove_consumer`, `shutdown`, the dispatcher loop | calls `unregister` from its task; is shut down by `unregister` and by handle drops |
| `Subscriber`, `SubscriptionHandle` (`client/subscriber.rs`) | receiver or request sender; cleanup strategy | `recv`, `try_recv`, drop | registry or group |
| Channels (`transport/channel.rs`) | bounded queues | `send`, `recv`, `request`, ... | everywhere |
| `InMemoryTransport`, `InMemoryEndpoint` (`transport/in_memory.rs`) | endpoint = target + version at resolution | `resolve`, `send_to`, `is_valid` | registry, publisher |
| `Publisher` (`client/publisher.rs`) | one cached endpoint behind an `RwLock` | `send`, `request`, `invalidate_cache` | transport, reply dispatcher |
| `ReplyDispatcher` (`client/reply_dispatcher.rs`) | waiters map, listener task | `register_waiter`, guard drop, listener loop, drop | `BrokerClient::request`, `Publisher::request` |
| `Broker`, `BrokerClient` (`broker/mod.rs`, `client/mod.rs`) | configuration, registry, reply route | `client`, `subscribe`, `publisher`, `send`, `request` | all of the above |
| Configuration (`config/mod.rs`) | capacities, timeouts | setters with range checks | public fields bypass the checks |
| Protocol codec (`protocol/mod.rs`) | none | `Message::new`, `encode`, `decode`, `validate_address` | used by callers; the in-process path passes `Message` values |
| Server, binary | none | the server file is empty, the binary parses arguments | |

What is hard here: copy-on-write stores that must not lose each other; lookups
that run beside an unregister; an endpoint cache that outlives what it points to;
task abortion that takes effect only at an await; futures dropped at any await;
oneshot channels whose two ends die independently; replies that are late, missing
or duplicated; and RAII clean-up that crosses three components. `PROJECT.json`
lists the hazards at their lines with the properties aimed at them.

What makes each part correct: the registry binds every address to at most one
target and lookup finds it; a route goes away with its owner and only with it; a
group hands every accepted message to exactly one consumer in order, starves
nobody and ends cleanly; a publisher never sends to a former owner and recovers
from staleness; a request gets its own reply or an honest error, and always ends;
a frame that is read back is the message that was written, or is refused.

## 2. Modules

* `Addressing` - addresses and patterns as sequences of segments. The code
  compares bytes; since a valid pattern has `*` only as a whole segment, its byte
  prefixes cut between segments and nothing it tests is lost. The loop of
  `compare_segments_bytes` is given by what happens at each position (`GoesOn`,
  `StopsTrue`). `Covers` and `Overlap` are the reference: the meaning the module
  documentation gives to `*` and `**`.
* `RouteTable` - the abstract specification: a set of bindings, `Bind` allowed
  only for an address that overlaps no bound one, `Unbind` of single bindings.
* `Registry` - `LocalRegistry` under concurrent threads. One action takes the
  mutex and loads the snapshot (`Begin`), one ends the critical section (`Store`,
  `Refuse`, `UnregisterNoop`); the removal has two steps because the slot is
  marked before the snapshot is stored (`MarkRemoved`, `RemoveStore`).
  `FactoryPanic` and `BeginPoisoned` model the poisoned `std::sync::Mutex`.
  `GroupMarkRemoved` is what groups do to their slot outside the mutex; `DropSlot`
  frees an identity, so identities are reused as allocations are.
* `WorkQueue` - the abstract specification of a group: a queue that hands each
  message, in order, to one consumer; `LoadBalancedGroup` is shown to implement it.
* `LoadBalancedGroup` - one group from its publication on. The dispatcher is a
  program counter over its awaits with an explicit poll (`Wake`, `Park`): steps
  between two awaits cannot be cut by `abort`, which acts in `Reap`. Consumers
  find the group under `register_mutex` and join it after releasing it, as `subscribe`
  does. The two locks a group meets are variables: `register_mutex` (`mutex`) and the
  lock of `dispatcher_handle` (`latch`). The dispatcher's `unregister` is three steps -
  it takes the mutex (`UnregisterLock`), `remove_slot` calls `shutdown`, which waits for
  the latch (`UnregisterShutdown`), and the store releases the mutex (`Unregister`) -
  and a last handle's `shutdown` takes and releases the latch (`ShutdownLock`,
  `ShutdownAbort`) before it marks the slot.
* `ReplyDispatcher` - calls of `request`, the waiters map, the guards, the listener
  and the destruction of client and publisher. The recipient is the environment:
  it reads its channel or not and answers never, once or repeatedly.
* `Publisher` - tasks sharing one `Publisher` over an address that Exclusive
  subscribers take and give up. Reads of the cache, the lookup, the read of the
  version, the load of the sender and the push into the channel are separate
  steps, and so are the two writes of `mark_removed`.
* `Broker` - the composition on one address. It extends `Publisher` with LoadBalanced
  targets (whose version is the group's and whose `is_closed` only counts
  `RequestSender`s), members that find, join and leave groups and may keep their
  `Subscriber` longer or shorter than their handle, the two ends of a dispatcher
  (aborted, which leaves the route; or running its last lines, which take it out),
  and `BrokerClient::send`. What the dispatcher does with a message is left to
  `LoadBalancedGroup`; here it takes messages. The count and the abort of a last
  handle's drop are one step, since nothing in this module can come between.
* `Protocol` - a message's way through `Message::new`, perhaps `request()`, `encode`
  and `decode`. Bytes are numbers below `Base`, and the widths of `u16` and `u32` and
  the limits are constants, so that a wrap-around costs 16 bytes and not 4 GiB.
  `decode` is one action per field; `Read` panics when the buffer is too short, as the
  `bytes` crate does.
* `MC...` - the instances for TLC.
* `AddressingProofs`, `RegistryProofs`, `LoadBalancedGroupProofs`,
  `ReplyDispatcherProofs`, `PublisherProofs`, `BrokerProofs`, `ProtocolProofs` - the
  theorems about the module each is named after, and their proofs (section 4).

Definitions marked "Mutant" are altered copies of the definition that follows;
no specification uses them. Each shows that one property can fail: with the
mutant in place TLC finds that property violated.

## 3. Runs

| Run | Expectation | What it shows |
|---|---|---|
| `registry_exclusive` | pass | exact and `*` routes: exclusive binding, lookup finds the owner, removed slots visible only in transit, routes end with their handles, refinement of `RouteTable` |
| `registry_prefix` | pass | with `**` and panicking factories: refusals are justified, no route is lost or taken by a non-owner, a panic publishes nothing and freezes the routes |
| `registry_prefix_binding` | violation | `a:**` is registered beside `a`, and `a:b` under `a:**` |
| `registry_prefix_lookup` | violation | `lookup` never finds a `**` route |
| `group` | pass | FIFO hand-over, one receiver per message, no forgotten waiter, no starvation, no shutdown beside a member, the group's end gets through both locks, refinement of `WorkQueue` |
| `group_zombie` | violation | the last handle's drop leaves the address occupied |
| `reply_calls` | pass | correlation, no leak, every call returns if the recipient reads |
| `reply_hung` | violation | without that, a request can wait for ever in its send |
| `publisher` | pass | validity means currency, no send to a former owner, self-healing, sends return |
| `broker` | pass | groups and Exclusive subscribers in turn: no message after a shutdown, a live target keeps the address, the cache heals, the end of a group releases waiting sends |
| `protocol` | pass | no read past the buffer, round trip exactly for the messages that can survive it, truncation is recognised, limits, addresses and `reply_to` are checked on every frame, frames are canonical |
| `protocol_reserved` | violation | `decode` accepts frames with reserved flag bits |

The violations are disagreements between the code and its documentation; the
findings in `PROJECT.json` quote both sides.

Other observations, stated here because a passing property marks their limits:

* `RouteHasHandle` holds until a factory panics under `register_mutex`: from then on
  `lock().unwrap()` panics in every handle drop before the slot is marked
  (`registry/mod.rs:500`), and the route stays, although "Dropping the handle
  unregisters the subscription" (`client/mod.rs:151`). What remains true is
  `PoisonIsFinal`: lookups go on with the last snapshot that was stored whole.
* `MembersProtectGroup` protects members that have been counted. `subscribe` is given
  the group under `register_mutex` and counted after the mutex is released
  (`client/mod.rs:189`, `:213`). A newcomer is given a group with one member; that
  member's drop takes the count from 1 to 0 and its shutdown aborts the dispatcher; the
  newcomer is counted and holds a `Subscriber` of a group that routes nothing. The
  comment at `client/mod.rs:187` calls the operation atomic, "eliminating races".
* `NoSendToFormerOwner` is about sends called after the removal had returned. A send
  that had loaded the sender by then (`routing.rs:72`) may still deliver: the
  handle is dropped, another subscriber takes the address, and the old channel, whose
  `Subscriber` still exists, accepts the message. `publisher.rs:28` says that `is_valid`
  "guarantees that a message will not be sent to a "zombie" channel".
* `EndReleasesAll` is about the two ends of a group: a dispatcher that leaves its loop
  frees the address; a last handle's shutdown ends every waiting `recv`, but does not
  free the address (`group_zombie`). The locks are taken in one order,
  `register_mutex` before `dispatcher_handle`; the mutant, a shutdown that unregisters
  under its lock (the comment at `load_balanced_group.rs:171` warns of it), stops both.
* `UniqueCallUndisturbed` is about calls with an id of their own. With a reused id:
  the first call's waiter has been taken out by the listener, a second call registers
  under the same id, then the first call's guard removes it (`reply_dispatcher.rs:94`)
  and the second call ends with `ConnectionClosed`.
* `is_valid` "returns `true` only if the physical channel is alive"
  (`transport/mod.rs:139`). It does for Single targets (`ValidMeansCurrent`). An
  endpoint of a group that was shut down is valid while any `Subscriber` of that group
  lives. `GroupSelfHealing` shows that the explicit invalidation makes up for this; its
  mutant, which leaves that out, fails for ever.
* `SendsReturnIfRead` needs its premise: a group with handles but without `Subscriber`s
  accepts messages until its channel is full and then holds senders without a limit.
* `RoundTrip` names what `Message::new` lets through and the wire does not carry: a
  type that is not UTF-8, a payload whose length wraps as `u32`
  (`protocol/mod.rs:411`), a `client_address` (never validated) that `request()` puts
  into `reply_to`.
* `DecodedIsValid` looks at the mode bit of `flags` only, as `decode` does; the other
  bits "must be 0" (`protocol/mod.rs:58`) and are not checked (`protocol_reserved`).

### Bounds

* Registry: 2 threads (the mutex admits one; two are enough for every order of
  critical sections and for a lookup in between), 2 or 3 slots, 8 and 7 addresses
  that include exact addresses under wildcards, crossing wildcards, disjoint ones,
  an empty level, refused patterns, `**` at several depths. Lookup is asked for
  every concrete address of up to `ProbeLength` = 3 segments over the literals and
  the empty segment. Slots are reused without bound.
* Group: 2 consumers who may leave and return, 2 messages, main channel of 1 (so
  that sends wait), request channel of 2 (so that it holds a cancelled request and
  a live one). The ledgers of accepted and handed messages are bounded by the
  messages.
* Reply: 3 calls, two with one message_id, one of those through the publisher;
  channels of 1; at most `MaxReplies` = 2 replies in all, which covers a duplicate,
  a late one, and replies to two calls.
* Publisher: 2 tasks, 2 slots reused without bound, channels of 1.
* Broker: 1 task that sends through the publisher or the client, 2 targets of either
  kind reused without bound, 1 member that creates, leaves, re-joins dead groups, or
  keeps its Subscriber while the next target comes; a group is joined only below
  `MaxVersion` = 3, since every further join and leave of a dead group only raises its
  version. Several members of one group are the subject of `group`, several tasks on
  one cache of `publisher`.
* Protocol: bytes 0..3 (a letter, `:`, a character no address may have, a byte that is
  not UTF-8), lengths of two bytes, hence a wrap at 16; types, addresses and payloads
  at, below and above each limit; every cut and every change of one byte of every
  frame; nothing or two more bytes behind a whole frame.

Symmetry (threads, slots) is used only in registry runs, which have no liveness
property. `CHECK_DEADLOCK FALSE` appears where the system may stop: a registry
whose threads have all panicked, a group that has ended, calls that have returned, a
message that has been read.

### Fairness

A task that is ready is polled, a synchronous call that has begun returns, a timer
fires: weak fairness on the dispatcher, on the steps of a call or send that has
begun, on the listener. Waiting senders get room in turn (the channel's semaphore
is first-in first-out): strong fairness on `Push`. A dispatcher
that waits for a lock gets it in the end if the lock is released again and again: strong
fairness on `Dispatcher` (parking_lot hands a contended lock over after a while; for the
`std` mutex it is an assumption on the operating system, needed because consumers may
subscribe without end). What components decide - to
subscribe, read, cancel, drop, send, answer - carries no fairness, with two
stated exceptions: in `publisher` and `broker` a subscriber that exists reads its
channel (for a group: the dispatcher takes messages while a Subscriber exists), and
`ServedSpec` (`reply_calls`) adds that the recipient reads. `reply_hung` shows that
the second is necessary.

## 4. Proofs

Every invariant, every action property and both refinements that a run checks are
also proved, for every value of the constants. What stays with TLC alone is the
liveness of all modules. Each inductive invariant below was also checked by TLC on
the instance of the corresponding run.

Assumptions. `*`, `**` and the empty segment are not literals, and addresses are
non-empty sequences of segments (`Addressing`, `Registry`); values that stand for "no
thread", "no slot", "cancelled" or a state of a oneshot are not threads, slots,
consumers, messages or calls; capacities are at least 1; the consumers of a group and
the members in `Broker` are finitely many (their counts are `usize` counters of handles
that exist); a byte has at least two values, a `u16` and a `u32` have one to four bytes,
a message type's limit is the largest byte and the other limits fit their fields, as the
constants of `protocol/mod.rs` do; the bytes of addresses are UTF-8. No assumption
bounds the number of threads, slots, tasks, calls, messages or addresses, or the length
of an address or a buffer.

### Addressing and registry

* `AddressingProofs`: `CompareDecidesCovers` (the matching loop decides the
  documented meaning), `CompareDetectsOverlap` (patterns that share an address are
  reported) and its converse `CompareMeansOverlap` (patterns that are reported share
  one; `*` against `*` and `**` on either side included), `StaticPrefixScanComplete`
  (the radix scan under a `*` pattern's static prefix misses nothing it covers).
* `RegistryProofs`: `FreeIsSeparate` lifts completeness to the whole conflict check
  (for addresses without `**`) and `ConflictIsReal` soundness (for all).
  `Invariance` proves the inductive invariant `IInv`; from it follow `TypeCorrect`,
  `RemovedOnlyInTransitHolds`, `OnlyOwnerRemovesHolds`, `RefusalJustifiedHolds`,
  `PoisonIsFinalHolds`, `RouteHasHandleHolds` (as long as no factory has panicked) and, when no address ends in `**` (`NoPrefixWildcards`),
  `ExclusiveBindingHolds`, `LookupFindsOwnerHolds` and `ImplementsRouteTableHolds`.

`ExclusiveBinding` is not inductive: the next store uses a snapshot loaded earlier.
`IInv` adds that at most one thread is inside a call and holds the mutex, that the
snapshot it loaded is still the published one (`CallsExclusive`), what the slot of a
call is (`CallSlots`), that route keys are valid (`RouteKeys`) and pairwise separate
apart from `**` (`RoutesSeparate`), and who may have marked a slot. `RouteHasHandle`
needs besides that a call of `get_existing_or_register` brings a group's slot
(`GroupCalls`), since only `register` leaves a handle to an Exclusive route.
`PoisonIsFinal` needs that a poisoned mutex is with nobody (`PoisonedIsFree`). The restriction
to addresses without `**` is needed: the two prefix runs refute the statements with
them. The others need no restriction.

### Groups

`LoadBalancedGroupProofs` works in five layers, each proved from the ones before:
`ControlInv` (the count is the number of handles, the dispatcher holds a request or a
message exactly at the awaits where the code does, the types), `LockInv` (each lock is
with the one who is between taking and releasing it), `OrderInv`
(`HandoverIsFifo`, and no message is accepted twice, without which the ledger could not
tell a repeated hand-over from a repeated message), `RequestInv` (a `recv` waits exactly
if its request is queued or held, in one place), `HandedToOne`. The theorems are
`TypeCorrect`, `MembersProtected` (from the count), `Fifo`, `ExactlyOnePlace`,
`WaiterKnown` and `GroupIsWorkQueue`: under
the refinement mapping of `ImplementsWorkQueue` every step is a step of `WorkQueue` or
leaves it unchanged (`QueueStep` goes through the actions).

### Replies

`ReplyDispatcherProofs`: `Invariance`, `TypeCorrect`, `NoWaiterLeaks`,
`RepliesCorrelate`, `UniqueCallSafe`. What is said of a unique call is not inductive by
itself. It needs that a guard never removes a foreign entry under another id
(`NoLeakedWaiter`), that a oneshot lives no longer than the body of its call
(`ShotWhilePending`) and that the map is cleared only when no call borrows the client or
the publisher (`OwnerBorrowed`).

### Publisher and composition

`PublisherProofs`: `Invariance`, `TypeCorrect`, `ValidIsCurrent`, `FormerOwnerSafe`.
Validity is currency because of the order of two writes in `mark_removed`: the sender
is gone before the version moves (`SenderUntilRemoval`, `VersionCountsRemoval`) and the
route outlives both (`RouteUntilGone`). That a send spares a former owner rests on
`GoneStaysGone`: what had left when the send was called stays gone while the send holds
on to it. `BrokerProofs` reuses the lemmas about senders for targets of both kinds and
proves `BrokerInvariance`, `BrokerTypeCorrect`, `LiveTargetRouted`,
`BrokerFormerOwnerSafe`. A group ends along two paths, its shutdown and its dispatcher;
`DispatcherPhase` relates them, `MembersInGroups` says that late members hold on to a
group and never to a slot given to somebody else, and `CountsAreMembers` that the two
counters are the numbers of members they stand for.

### Codec

`ProtocolProofs`. First the numbers: `GetPut` and `PutGet` say that little-endian
writing and reading are inverse to each other for every base and every width of one to
four bytes. (The prover has no theory of exponentiation, which is why `Pow` is a table of
products.) Then three invariants.

* `IInv` (`CheckedSoFar`): what has been checked of the message at each field. It
  gives `TypeCorrect`, `DecodeNeverPanics` and `DecodedValid` for arbitrary buffers.
* `Consumed`: the bytes read so far are the encoding of what has been decoded so far.
  It gives `FrameIsCanonical`.
* `WellBuilt`, `Delivered`, `Follows`: the header of a built message tells the truth,
  the buffer holds the frame or a beginning of it, and every field decoded agrees with
  the field encoded. The position needs no invariant of its own, `Consumed` fixes it.
  They give `RoundTripHolds` and `CutFrameIsIncomplete`.

The actions that hand over a buffer limit it to a whole, a cut or a damaged frame, but
the proofs of the first two invariants use only that it is a sequence of bytes.

### Only model-checked

Liveness: `NoStarvation`, `EndReleasesAll`, `CallsReturn`, `SelfHealing`,
`SendsReturn`, `GroupSelfHealing`, `SendsReturnIfRead` (fairness and
`ENABLED` are outside what the prover handles).

## 5. Not modelled

Serde of the configuration, logging, error texts, the empty
server and the argument parser, the test helpers. `SubscriptionSlot::update`,
`try_send`, `try_request` and `recv_timeout` have no caller in the crate. Memory
orderings: the atomics are modelled as sequentially consistent; the protocols above
depend only on the order of two writes of one thread (`Release`) seen through
`Acquire` loads. `try_recv` on a push subscriber is a `recv` that does not wait; on a
pull subscriber it answers `Empty` and changes nothing. `has_local` and `has_route`
only read. The range checks of the configuration's setters are the assumptions on the
capacities. Sources of a frame other than a damaged or cut encoding (for instance
two changed bytes) are not enumerated.

## 6. Plan

1. A larger instance of `Broker` (two members on one group) where time allows.
2. Proofs: how far the conflict check goes with `**` (which overlaps it does find), so
   that the finding of `registry_prefix_binding` is bounded from the other side as well.
3. The safety part of the liveness properties (what a waiting party waits for) as
   invariants, where they can be proved.
