-------------------------------- MODULE Broker --------------------------------
(***************************************************************************)
(* The parts together on one address (broker/mod.rs, client/mod.rs):       *)
(* Exclusive subscribers and LoadBalanced groups take it one after the     *)
(* other, tasks send to it through a Publisher (hot) and through           *)
(* BrokerClient::send (cold). Module Publisher is the senders and the      *)
(* Exclusive targets; this module adds the groups as the senders and the   *)
(* registry see them. What the dispatcher does with the messages it takes  *)
(* is the subject of module LoadBalancedGroup.                             *)
(***************************************************************************)
EXTENDS Publisher, FiniteSets

CONSTANTS
    Members,        \* components that subscribe with RoutingPolicy::LoadBalanced
    MaxVersion      \* bound: a group is joined only below this version

ASSUME MembersAssumption == IsFiniteSet(Members)
ASSUME MaxVersionAssumption == MaxVersion \in Nat \ {0}

VARIABLES
    member,     \* per member: where it is, the group, whether its Subscriber exists
    group       \* per slot: the dispatcher task and active_consumers

brokerVars == <<vars, member, group>>
groups == <<member, group>>

Out == [at |-> "out", slot |-> NoSlot, reader |-> FALSE]
NoGroup == [disp |-> "none", active |-> 0]

IsGroup(s) == slot[s].kind = "LoadBalanced"

BrokerInit ==
    /\ Init
    /\ member = [m \in Members |-> Out]
    /\ group = [s \in Slots |-> NoGroup]

-----------------------------------------------------------------------------
(* BrokerClient::subscribe with LoadBalanced. An address that an Exclusive *)
(* subscriber holds is refused (PolicyMismatch), which changes nothing.    *)

\* register_mutex: the unregister of a target holds it from its first write on.
MutexFree == \A s \in Slots : leaving[s] \notin {"stored", "bumped"}

Found(m, s) == member' = [member EXCEPT ![m] = [at |-> "found", slot |-> s, reader |-> FALSE]]

\* get_existing_or_register calls the factory: Registered.
CreateGroup(m, s) ==
    /\ member[m].at = "out"
    /\ MutexFree /\ route = NoSlot /\ leaving[s] = "unused"
    /\ route' = s
    /\ slot' = [slot EXCEPT ![s] = [Fresh EXCEPT !.kind = "LoadBalanced",
                                                 !.sender = TRUE, !.receiver = TRUE]]
    /\ leaving' = [leaving EXCEPT ![s] = "no"]
    /\ group' = [group EXCEPT ![s] = [disp |-> "running", active |-> 0]]
    /\ Found(m, s)
    /\ UNCHANGED <<queue, cache, task>>

\* get_existing_or_register finds a group: AlreadyExists.
FindGroup(m) ==
    /\ member[m].at = "out"
    /\ MutexFree /\ route # NoSlot /\ IsGroup(route)
    /\ slot[route].version < MaxVersion
    /\ Found(m, route)
    /\ UNCHANGED <<vars, group>>

\* group.subscribe(), outside the mutex: count the consumer, clone req_tx.
Join(m) ==
    LET s == member[m].slot
    IN  /\ member[m].at = "found"
        /\ group' = [group EXCEPT ![s].active = @ + 1]
        /\ slot' = [slot EXCEPT ![s].consumers = @ + 1]
        /\ member' = [member EXCEPT ![m].at = "in", ![m].reader = TRUE]
        /\ UNCHANGED <<route, leaving, queue, cache, task>>

-----------------------------------------------------------------------------
(* Dropping the Subscriber and the SubscriptionHandle, in either order *)

DropReader(m) ==
    LET s == member[m].slot
    IN  /\ member[m].reader
        /\ slot' = [slot EXCEPT ![s].consumers = @ - 1]
        /\ member' = [member EXCEPT ![m] =
                          IF @.at = "left" THEN Out ELSE [@ EXCEPT !.reader = FALSE]]
        /\ UNCHANGED <<route, leaving, queue, cache, task, group>>

\* The handle is gone; the Subscriber may live on.
HandleGone(m) ==
    member' = [member EXCEPT ![m] = IF @.reader THEN [@ EXCEPT !.at = "left"] ELSE Out]

\* remove_consumer: the last one goes on to shutdown, which aborts the
\* dispatcher, then marks the slot removed, then bumps the version. (Nothing
\* that happens between the count and the abort can tell them apart.)
DropHandle(m) ==
    LET s == member[m].slot
        last == group[s].active = 1
    IN  /\ member[m].at = "in"
        /\ group' = [group EXCEPT ![s].active = @ - 1,
                                  ![s].disp = IF last /\ @ = "running" THEN "aborted" ELSE @]
        /\ IF last THEN member' = [member EXCEPT ![m].at = "store"] ELSE HandleGone(m)
        /\ UNCHANGED vars

\* Mutant: shutdown aborts the dispatcher without marking the slot.
ShutdownStoreNothing(m) ==
    /\ member[m].at = "store"
    /\ member' = [member EXCEPT ![m].at = "bump"]
    /\ UNCHANGED <<vars, group>>

ShutdownStore(m) ==
    /\ member[m].at = "store"
    /\ slot' = [slot EXCEPT ![member[m].slot].sender = FALSE]
    /\ member' = [member EXCEPT ![m].at = "bump"]
    /\ UNCHANGED <<route, leaving, queue, cache, task, group>>

\* Mutant: shutdown also clears the address, without asking whose it is.
ShutdownBumpFreeing(m) ==
    LET s == member[m].slot
    IN  /\ member[m].at = "bump"
        /\ slot' = [slot EXCEPT ![s].version = @ + 1]
        /\ leaving' = [leaving EXCEPT ![s] = "gone"]
        /\ route' = NoSlot
        /\ HandleGone(m)
        /\ UNCHANGED <<queue, cache, task, group>>

ShutdownBump(m) ==
    LET s == member[m].slot
    IN  /\ member[m].at = "bump"
        /\ slot' = [slot EXCEPT ![s].version = @ + 1]
        /\ leaving' = [leaving EXCEPT ![s] = IF @ = "no" THEN "over" ELSE @]
        /\ HandleGone(m)
        /\ UNCHANGED <<route, queue, cache, task, group>>

-----------------------------------------------------------------------------
(* The dispatcher, as far as senders and registry can tell *)

\* It takes a message for a request, perhaps of a consumer that has given up.
DispatcherTakes(s) ==
    /\ group[s].disp \in {"running", "aborted"} /\ queue[s] > 0
    /\ queue' = [queue EXCEPT ![s] = @ - 1]
    /\ UNCHANGED <<subscribers, cache, task, groups>>

\* Mutant: the task's end leaves main_receiver open.
ReapKeepingReceiver(s) ==
    /\ group[s].disp = "aborted"
    /\ group' = [group EXCEPT ![s].disp = "dead"]
    /\ UNCHANGED <<vars, member>>

\* The runtime drops the aborted task with main_receiver; the route stays.
Reap(s) ==
    /\ group[s].disp = "aborted"
    /\ group' = [group EXCEPT ![s].disp = "dead"]
    /\ slot' = [slot EXCEPT ![s].receiver = FALSE]
    /\ queue' = [queue EXCEPT ![s] = 0]
    /\ UNCHANGED <<route, leaving, cache, task, member>>

\* Or the poll that abort did not interrupt finds the main queue closed: the
\* slot has no sender, no send under way holds one, nothing is queued.
LeaveLoop(s) ==
    /\ group[s].disp = "aborted"
    /\ ~slot[s].sender /\ queue[s] = 0
    /\ \A t \in Tasks : ~(task[t].at = "push" /\ task[t].ep.slot = s)
    /\ group' = [group EXCEPT ![s].disp = "cleanup"]
    /\ UNCHANGED <<vars, member>>

\* Its last lines: mark_removed and unregister, which finds the group in the
\* route, shuts it down once more and then (RemoveRoute) takes the route out.
UnregisterGroup(s) ==
    /\ group[s].disp = "cleanup" /\ MutexFree
    /\ slot' = [slot EXCEPT ![s].sender = FALSE, ![s].version = @ + 1]
    /\ leaving' = [leaving EXCEPT ![s] = "bumped"]
    /\ group' = [group EXCEPT ![s].disp = "unregister"]
    /\ UNCHANGED <<route, queue, cache, task, member>>

DispatcherEnds(s) ==
    /\ group[s].disp = "unregister" /\ leaving[s] = "gone"
    /\ group' = [group EXCEPT ![s].disp = "dead"]
    /\ slot' = [slot EXCEPT ![s].receiver = FALSE]
    /\ UNCHANGED <<route, leaving, queue, cache, task, member>>

\* The last Arc of an unregistered group is dropped.
FreeGroup(s) ==
    /\ IsGroup(s) /\ leaving[s] = "gone" /\ group[s].disp = "dead"
    /\ NoEndpointOf(s) /\ \A m \in Members : member[m].slot # s
    /\ leaving' = [leaving EXCEPT ![s] = "unused"]
    /\ slot' = [slot EXCEPT ![s] = Fresh]
    /\ group' = [group EXCEPT ![s] = NoGroup]
    /\ task' = [t \in Tasks |-> [task[t] EXCEPT !.gone = @ \ {s}]]
    /\ UNCHANGED <<route, queue, cache, member>>

-----------------------------------------------------------------------------
\* BrokerClient::send, Transport::send: resolve, then send_to, without a cache.
ClientSend(t) == Begin(t, "lookup", FALSE) /\ UNCHANGED groups

Dispatcher(s) == Reap(s) \/ LeaveLoop(s) \/ UnregisterGroup(s) \/ DispatcherEnds(s)

Shutdown(m) == ShutdownStore(m) \/ ShutdownBump(m)

BrokerNext ==
    \/ Next /\ UNCHANGED groups
    \/ \E m \in Members :
          \/ \E s \in Slots : CreateGroup(m, s)
          \/ FindGroup(m) \/ Join(m) \/ DropReader(m) \/ DropHandle(m) \/ Shutdown(m)
    \/ \E t \in Tasks : ClientSend(t)
    \/ \E s \in Slots : DispatcherTakes(s) \/ Dispatcher(s) \/ FreeGroup(s)

\* As in Publisher; and a handle drop, a join and the dispatcher of a group run
\* on, the dispatcher taking messages as long as a member is there to read.
BrokerFairness ==
    /\ \A t \in Tasks : /\ WF_brokerVars(Step(t) /\ UNCHANGED groups)
                        /\ SF_brokerVars(Push(t) /\ UNCHANGED groups)
    /\ \A s \in Slots :
          /\ WF_brokerVars((BumpVersion(s) \/ RemoveRoute(s)) /\ UNCHANGED groups)
          /\ WF_brokerVars(Recv(s) /\ UNCHANGED groups)
          /\ WF_brokerVars(Dispatcher(s))
          /\ WF_brokerVars(slot[s].consumers > 0 /\ DispatcherTakes(s))
    /\ \A m \in Members : WF_brokerVars(Join(m)) /\ WF_brokerVars(Shutdown(m))

BrokerSpec == BrokerInit /\ [][BrokerNext]_brokerVars /\ BrokerFairness

-----------------------------------------------------------------------------
(* Properties *)

TargetState == [kind : {"Single", "LoadBalanced"}, sender : BOOLEAN, version : Nat \ {0},
                receiver : BOOLEAN, consumers : Nat]

GroupState == [disp : {"none", "running", "aborted", "cleanup", "unregister", "dead"},
               active : Nat]

MemberState == [at : {"out", "found", "in", "store", "bump", "left"},
                slot : Slots \cup {NoSlot}, reader : BOOLEAN]

\* Type correctness of targets of both kinds, of members and dispatchers. The
\* counts of consumers never go below zero (active_consumers is an AtomicUsize).
BrokerTypeOK ==
    /\ route \in Slots \cup {NoSlot}
    /\ slot \in [Slots -> TargetState]
    /\ leaving \in [Slots -> {"unused", "no", "stored", "bumped", "over", "gone"}]
    /\ queue \in [Slots -> 0..Capacity]
    /\ cache \in Endpoint
    /\ task \in [Tasks -> TaskState]
    /\ group \in [Slots -> GroupState]
    /\ member \in [Members -> MemberState]

\* A target that has not begun to end is the one that senders find: nothing
\* that happens to former targets of the address, groups that still end and
\* members that still leave them included, takes the address away from it.
LiveTargetIsRouted ==
    \A s \in Slots :
        (IF IsGroup(s) THEN group[s].disp = "running" ELSE leaving[s] = "no") => route = s

\* Self-healing with targets of both kinds: once the route stays with a target
\* whose channel is open, sends stop failing, although an endpoint of a former
\* group can pass is_valid for as long as a Subscriber of it lives.
GroupSelfHealing ==
    \A s \in Slots :
        <>[](route = s /\ slot[s].sender /\ slot[s].receiver)
            => <>[](\A t \in Tasks : task[t].at # "invalidate")

\* Every send returns, unless it waits for a live group that is left without
\* a Subscriber: the end of a group releases the sends that wait for room.
SendsReturnIfRead ==
    (\A s \in Slots : <>[](group[s].disp = "running" => slot[s].consumers > 0))
        => \A t \in Tasks : (task[t].at # "idle") ~> (task[t].at = "idle")
=============================================================================
