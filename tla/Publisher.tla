------------------------------- MODULE Publisher -------------------------------
(***************************************************************************)
(* One Publisher (client/publisher.rs) shared by several tasks: its cached *)
(* endpoint, the resolution through InMemoryTransport and the validity     *)
(* check of InMemoryEndpoint (broker_core/transport/in_memory.rs), over an *)
(* address that Exclusive subscribers take and give up one after another   *)
(* (registry/slot.rs, registry/routing.rs).                                *)
(*                                                                         *)
(* The registry is its view of this one address; what registering and      *)
(* unregistering guarantee there is the subject of module Registry. A      *)
(* target is Single here; module Broker adds LoadBalanced ones.            *)
(***************************************************************************)
EXTENDS Naturals

CONSTANTS
    Tasks,      \* the tasks that share the Publisher
    Slots,      \* the SubscriptionSlots of successive subscribers
    NoSlot,
    Capacity    \* channel_capacity of every subscriber

ASSUME NoSlotAssumption == NoSlot \notin Slots
ASSUME CapacityAssumption == Capacity \in Nat \ {0}

VARIABLES
    route,      \* the slot that lookup finds at the address, or NoSlot
    slot,       \* per slot: the kind of its target, sender is Some, the target's
                \* version, receiver exists, the RequestSenders of a group's members
    leaving,    \* per slot: how far its unregister has come
    queue,      \* per slot: how many messages are in its channel
    cache,      \* cached_endpoint
    task        \* per task: where its send is, whether it goes through the Publisher,
                \* its endpoint, and the slots whose removal had returned at its call

vars == <<route, slot, leaving, queue, cache, task>>
subscribers == <<route, slot, leaving>>

NoEndpoint == [slot |-> NoSlot, version |-> 0]
Fresh == [kind |-> "Single", sender |-> FALSE, version |-> 1, receiver |-> FALSE,
          consumers |-> 0]
Idle == [at |-> "idle", cached |-> TRUE, ep |-> NoEndpoint, gone |-> {}]

Init ==
    /\ route = NoSlot
    /\ slot = [s \in Slots |-> Fresh]
    /\ leaving = [s \in Slots |-> "unused"]
    /\ queue = [s \in Slots |-> 0]
    /\ cache = NoEndpoint
    /\ task = [t \in Tasks |-> Idle]

-----------------------------------------------------------------------------
(* The subscribers *)

\* Subscribe with a new slot; refused while the address is occupied.
Subscribe(s) ==
    /\ leaving[s] = "unused"
    /\ route = NoSlot
    /\ route' = s
    /\ slot' = [slot EXCEPT ![s] = [Fresh EXCEPT !.sender = TRUE, !.receiver = TRUE]]
    /\ leaving' = [leaving EXCEPT ![s] = "no"]
    /\ UNCHANGED <<queue, cache, task>>

\* Mutant: mark_removed leaves the sender in the slot.
StoreNothing(s) ==
    /\ leaving[s] = "no" /\ slot[s].kind = "Single"
    /\ leaving' = [leaving EXCEPT ![s] = "stored"]
    /\ UNCHANGED <<route, slot, queue, cache, task>>

\* The handle is dropped. mark_removed stores None, then bumps the version;
\* then unregister stores the snapshot without the route.
StoreNone(s) ==
    /\ leaving[s] = "no" /\ slot[s].kind = "Single"
    /\ slot' = [slot EXCEPT ![s].sender = FALSE]
    /\ leaving' = [leaving EXCEPT ![s] = "stored"]
    /\ UNCHANGED <<route, queue, cache, task>>

BumpVersion(s) ==
    /\ leaving[s] = "stored"
    /\ slot' = [slot EXCEPT ![s].version = @ + 1]
    /\ leaving' = [leaving EXCEPT ![s] = "bumped"]
    /\ UNCHANGED <<route, queue, cache, task>>

RemoveRoute(s) ==
    /\ leaving[s] = "bumped"
    /\ route' = NoSlot
    /\ leaving' = [leaving EXCEPT ![s] = "gone"]
    /\ UNCHANGED <<slot, queue, cache, task>>

Recv(s) ==
    /\ slot[s].kind = "Single" /\ slot[s].receiver /\ queue[s] > 0
    /\ queue' = [queue EXCEPT ![s] = @ - 1]
    /\ UNCHANGED <<subscribers, cache, task>>

\* The Subscriber is dropped, before or after its handle, with what it has
\* not read.
DropSubscriber(s) ==
    /\ slot[s].kind = "Single" /\ slot[s].receiver
    /\ slot' = [slot EXCEPT ![s].receiver = FALSE]
    /\ queue' = [queue EXCEPT ![s] = 0]
    /\ UNCHANGED <<route, leaving, cache, task>>

\* No endpoint, and no send under way, refers to the target.
NoEndpointOf(s) == cache.slot # s /\ \A t \in Tasks : task[t].ep.slot # s

\* The last Arc of the slot is dropped; its identity can be allocated again.
FreeSlot(s) ==
    /\ leaving[s] = "gone" /\ ~slot[s].receiver /\ slot[s].kind = "Single"
    /\ NoEndpointOf(s)
    /\ leaving' = [leaving EXCEPT ![s] = "unused"]
    /\ slot' = [slot EXCEPT ![s] = Fresh]
    /\ task' = [t \in Tasks |-> [task[t] EXCEPT !.gone = @ \ {s}]]
    /\ UNCHANGED <<route, queue, cache>>

-----------------------------------------------------------------------------
(* InMemoryEndpoint *)

\* Mutant: a removed slot counts as open while its reader is there.
IsClosedByReader(s) == ~slot[s].receiver

\* RouteTarget::is_closed: a Single target asks its slot, a LoadBalanced one
\* only whether any RequestSender is left besides the group's own.
IsClosed(s) ==
    IF slot[s].kind = "Single" THEN ~slot[s].sender \/ ~slot[s].receiver
                               ELSE slot[s].consumers = 0

\* is_valid: same version, and the target is open. (The version is read
\* first. A removal writes it last, so the pair of reads acts like one; only a
\* member that joins a group after its shutdown, between the two reads, makes
\* them succeed apart, and then the send fails as on any endpoint of it.)
IsValid(ep) ==
    /\ ep # NoEndpoint
    /\ slot[ep.slot].version = ep.version
    /\ ~IsClosed(ep.slot)

-----------------------------------------------------------------------------
(* Publisher::send. (Module Broker starts sends that look the address up   *)
(* for each message and neither read nor write the cache.)                 *)

Goto(t, at, ep) == task' = [task EXCEPT ![t].at = at, ![t].ep = ep]

Finish(t) == task' = [task EXCEPT ![t] = Idle]

\* The removal of the target has returned: unregister, or a group's shutdown.
Over(s) == leaving[s] \in {"over", "gone"}

Begin(t, at, cached) ==
    /\ task[t].at = "idle"
    /\ task' = [task EXCEPT ![t] = [at |-> at, cached |-> cached, ep |-> NoEndpoint,
                                    gone |-> {s \in Slots : Over(s)}]]
    /\ UNCHANGED <<subscribers, queue, cache>>

Send(t) == Begin(t, "check", TRUE)

\* The fast path, under the read lock.
Check(t) ==
    /\ task[t].at = "check"
    /\ IF IsValid(cache) THEN Goto(t, "load", cache) ELSE Goto(t, "lookup", NoEndpoint)
    /\ UNCHANGED <<subscribers, queue, cache>>

Lookup(t) ==
    /\ task[t].at = "lookup" /\ route # NoSlot
    /\ Goto(t, "endpoint", [slot |-> route, version |-> 0])
    /\ UNCHANGED <<subscribers, queue, cache>>

RecipientNotFound(t) ==
    /\ task[t].at = "lookup" /\ route = NoSlot
    /\ Finish(t)
    /\ UNCHANGED <<subscribers, queue, cache>>

\* InMemoryEndpoint::new reads the version of the target that was found.
NewEndpoint(t) ==
    /\ task[t].at = "endpoint"
    /\ Goto(t, IF task[t].cached THEN "update" ELSE "load",
            [task[t].ep EXCEPT !.version = slot[task[t].ep.slot].version])
    /\ UNCHANGED <<subscribers, queue, cache>>

\* Under the upgradable lock: another task's endpoint, if it is valid, else
\* this one. (An endpoint that is invalid stays so: one check acts for both.)
UpdateCache(t) ==
    /\ task[t].at = "update"
    /\ IF IsValid(cache)
       THEN Goto(t, "load", cache) /\ cache' = cache
       ELSE Goto(t, "load", task[t].ep) /\ cache' = task[t].ep
    /\ UNCHANGED <<subscribers, queue>>

\* RouteTarget::send: load the sender; None is ConnectionClosed. From here on
\* the loaded guard keeps the sender alive.
LoadSender(t) ==
    /\ task[t].at = "load"
    /\ Goto(t, IF slot[task[t].ep.slot].sender THEN "push" ELSE "invalidate", task[t].ep)
    /\ UNCHANGED <<subscribers, queue, cache>>

\* Mutant: an unbounded channel.
PushUnbounded(t) ==
    LET s == task[t].ep.slot
    IN  /\ task[t].at = "push"
        /\ slot[s].receiver
        /\ queue' = [queue EXCEPT ![s] = @ + 1]
        /\ Finish(t)
        /\ UNCHANGED <<subscribers, cache>>

Push(t) ==
    LET s == task[t].ep.slot
    IN  /\ task[t].at = "push"
        /\ slot[s].receiver /\ queue[s] < Capacity
        /\ queue' = [queue EXCEPT ![s] = @ + 1]
        /\ Finish(t)
        /\ UNCHANGED <<subscribers, cache>>

\* Mutant: a full channel is taken for a closed one.
ConnectionClosedOrFull(t) ==
    /\ task[t].at = "push"
    /\ ~slot[task[t].ep.slot].receiver \/ queue[task[t].ep.slot] = Capacity
    /\ Goto(t, "invalidate", task[t].ep)
    /\ UNCHANGED <<subscribers, queue, cache>>

ConnectionClosed(t) ==
    /\ task[t].at = "push" /\ ~slot[task[t].ep.slot].receiver
    /\ Goto(t, "invalidate", task[t].ep)
    /\ UNCHANGED <<subscribers, queue, cache>>

\* Mutant: the send starts again instead of returning the error.
InvalidateCacheRetrying(t) ==
    /\ task[t].at = "invalidate"
    /\ cache' = NoEndpoint
    /\ Goto(t, "check", NoEndpoint)
    /\ UNCHANGED <<subscribers, queue>>

\* Mutant: the error is returned and the cache kept.
InvalidateNothing(t) ==
    /\ task[t].at = "invalidate"
    /\ Finish(t)
    /\ UNCHANGED <<subscribers, queue, cache>>

\* ConnectionClosed clears the cache, whatever is in it by now.
InvalidateCache(t) ==
    /\ task[t].at = "invalidate"
    /\ cache' = IF task[t].cached THEN NoEndpoint ELSE cache
    /\ Finish(t)
    /\ UNCHANGED <<subscribers, queue>>

\* The caller drops the send future while it waits for room.
Cancel(t) ==
    /\ task[t].at = "push"
    /\ Finish(t)
    /\ UNCHANGED <<subscribers, queue, cache>>

\* invalidate_cache is public.
Invalidate ==
    /\ cache # NoEndpoint
    /\ cache' = NoEndpoint
    /\ UNCHANGED <<subscribers, queue, task>>

Step(t) ==
    \/ Check(t) \/ Lookup(t) \/ RecipientNotFound(t) \/ NewEndpoint(t)
    \/ UpdateCache(t) \/ LoadSender(t) \/ Push(t) \/ ConnectionClosed(t)
    \/ InvalidateCache(t)

Unregister(s) == StoreNone(s) \/ BumpVersion(s) \/ RemoveRoute(s)

Next ==
    \/ \E s \in Slots : \/ Subscribe(s) \/ Unregister(s) \/ Recv(s)
                        \/ DropSubscriber(s) \/ FreeSlot(s)
    \/ \E t \in Tasks : Send(t) \/ Step(t) \/ Cancel(t)
    \/ Invalidate

\* A send that was called goes on, room in a channel is given to waiting
\* sends in turn (the tokio semaphore is fair), an unregister that has begun
\* runs on, and a subscriber that exists reads its channel.
Fairness ==
    /\ \A t \in Tasks : WF_vars(Step(t)) /\ SF_vars(Push(t))
    /\ \A s \in Slots : /\ WF_vars(BumpVersion(s)) /\ WF_vars(RemoveRoute(s))
                        /\ WF_vars(Recv(s))

Spec == Init /\ [][Next]_vars /\ Fairness

-----------------------------------------------------------------------------
(* Properties *)

Endpoint == [slot : Slots \cup {NoSlot}, version : Nat]

SlotState == [kind : {"Single"}, sender : BOOLEAN, version : 1..2, receiver : BOOLEAN,
              consumers : {0}]

TaskState == [at : {"idle", "check", "lookup", "endpoint", "update", "load", "push",
                    "invalidate"},
              cached : BOOLEAN, ep : Endpoint, gone : SUBSET Slots]

\* Type correctness of the slots, the cached endpoint and the sends.
TypeOK ==
    /\ route \in Slots \cup {NoSlot}
    /\ slot \in [Slots -> SlotState]
    /\ leaving \in [Slots -> {"unused", "no", "stored", "bumped", "gone"}]
    /\ queue \in [Slots -> 0..Capacity]
    /\ cache \in Endpoint
    /\ task \in [Tasks -> TaskState]

\* is_valid vouches for the route: an endpoint that passes it, in the cache
\* or in a task's hands, leads to the subscriber that lookup would find now.
ValidMeansCurrent ==
    \A ep \in {cache} \cup {task[t].ep : t \in Tasks} : IsValid(ep) => route = ep.slot

\* A send that was called after a subscriber's unregister (or its group's
\* shutdown) had returned never reaches that subscriber's channel, whatever
\* the cache held and whichever task filled it.
NoSendToFormerOwner ==
    \A t \in Tasks : task[t].at = "push" => task[t].ep.slot \notin task[t].gone

\* Self-healing: once one subscriber stays registered and keeps its receiver,
\* sends stop failing with ConnectionClosed, also when tasks that hold old
\* endpoints go on filling and clearing the cache.
SelfHealing ==
    \A s \in Slots :
        <>[](route = s /\ ~IsClosed(s)) => <>[](\A t \in Tasks : task[t].at # "invalidate")

\* Every send returns: it is not passed between cache and registry for ever.
SendsReturn == \A t \in Tasks : (task[t].at # "idle") ~> (task[t].at = "idle")
=============================================================================
