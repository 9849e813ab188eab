---------------------------- MODULE PublisherProofs ----------------------------
(***************************************************************************)
(* The safety of the Publisher's cache for any number of tasks and         *)
(* subscribers: an endpoint that passes is_valid leads to the current      *)
(* subscriber, and no send reaches a subscriber that had left before the   *)
(* send was called.                                                        *)
(*                                                                         *)
(* Neither property is inductive. Both rest on what mark_removed and       *)
(* unregister write and in which order: the sender is there exactly while  *)
(* the removal has not begun (SenderUntilRemoval), and the route outlives  *)
(* the sender (RouteUntilGone). A slot that a send saw gone keeps its      *)
(* state until it is freed (GoneStaysGone), and only slots are sent to     *)
(* (EndpointHasSlot).                                                      *)
(***************************************************************************)
EXTENDS Publisher, TLAPS

\* mark_removed stores None before anything else of the removal happens, and
\* nothing stores a sender again.
SenderUntilRemoval == \A s \in Slots : slot[s].sender => leaving[s] = "no"

\* The version counts the removal, once.
VersionCountsRemoval ==
    \A s \in Slots : slot[s].version = IF leaving[s] \in {"bumped", "gone"} THEN 2 ELSE 1

\* The address belongs to the subscriber until its unregister has returned.
RouteUntilGone ==
    \A s \in Slots : route = s <=> leaving[s] \in {"no", "stored", "bumped"}

\* Past the lookup a send has an endpoint, and endpoints are of slots.
EndpointHasSlot ==
    /\ cache.slot = NoSlot => cache = NoEndpoint
    /\ \A t \in Tasks :
          IF task[t].at \in {"idle", "check", "lookup"} THEN task[t].ep = NoEndpoint
                                                        ELSE task[t].ep.slot \in Slots

\* What had left when the send was called has left, unless the slot is freed
\* ("bumped" only for a group, whose shutdown comes before its unregister).
GoneStaysGone ==
    \A t \in Tasks : \A s \in task[t].gone : leaving[s] \in {"over", "bumped", "gone"}

\* The senders' part of the state, whatever kinds of targets there are.
SendInv ==
    /\ queue \in [Slots -> 0..Capacity]
    /\ cache \in Endpoint
    /\ task \in [Tasks -> TaskState]
    /\ EndpointHasSlot
    /\ GoneStaysGone
    /\ NoSendToFormerOwner

IInv ==
    /\ TypeOK
    /\ SenderUntilRemoval
    /\ VersionCountsRemoval
    /\ RouteUntilGone
    /\ SendInv

-----------------------------------------------------------------------------
(* The senders. These lemmas also serve module BrokerProofs, where targets *)
(* are groups too.                                                         *)

\* The steps that leave sends and cache alone keep SendInv, if what has left
\* stays away.
LEMMA OthersKeepSendInv ==
    ASSUME SendInv, UNCHANGED <<cache, task>>, queue' \in [Slots -> 0..Capacity],
           \A s \in Slots : leaving[s] \in {"over", "bumped", "gone"}
                                => leaving'[s] \in {"over", "bumped", "gone"}
    PROVE  SendInv'
<1>1. \A t \in Tasks : task[t].gone \subseteq Slots
  BY DEF SendInv, TaskState
<1>2. GoneStaysGone'
  BY <1>1 DEF SendInv, GoneStaysGone
<1> QED
  BY <1>2 DEF SendInv, EndpointHasSlot, NoSendToFormerOwner

\* Freeing a slot that nothing refers to.
LEMMA FreeKeepsSendInv ==
    ASSUME SendInv, NEW s \in Slots, UNCHANGED <<queue, cache>>,
           task' = [t \in Tasks |-> [task[t] EXCEPT !.gone = @ \ {s}]],
           \A x \in Slots \ {s} : leaving'[x] = leaving[x]
    PROVE  SendInv'
<1>1. task \in [Tasks -> TaskState]
  BY DEF SendInv
<1>2. task' \in [Tasks -> TaskState]
  BY <1>1 DEF TaskState
<1>3. \A t \in Tasks : /\ task'[t].ep = task[t].ep /\ task'[t].at = task[t].at
                       /\ task'[t].gone = task[t].gone \ {s}
  BY <1>1 DEF TaskState
<1>4. \A t \in Tasks : task[t].gone \subseteq Slots
  BY <1>1 DEF TaskState
<1>5. EndpointHasSlot'
  BY <1>3 DEF SendInv, EndpointHasSlot
<1>6. GoneStaysGone'
  BY <1>3, <1>4 DEF SendInv, GoneStaysGone
<1>7. NoSendToFormerOwner'
  BY <1>3 DEF SendInv, NoSendToFormerOwner
<1> QED
  BY <1>2, <1>5, <1>6, <1>7 DEF SendInv

\* A step of a send: only its own task changes, the cache and the channel.
LEMMA TaskStep ==
    ASSUME SendInv, SenderUntilRemoval, route \in Slots \cup {NoSlot},
           \A s \in Slots : slot[s].version \in Nat,
           NEW t \in Tasks,
           \/ Begin(t, "check", TRUE) \/ Begin(t, "lookup", FALSE)
           \/ Step(t) \/ Cancel(t)
    PROVE  SendInv' /\ UNCHANGED subscribers
<1> USE NoSlotAssumption
<1>1. task \in [Tasks -> TaskState] /\ cache \in Endpoint
  BY DEF SendInv
<1>2. UNCHANGED subscribers
  BY DEF Begin, Step, Check, Lookup, RecipientNotFound, NewEndpoint, UpdateCache,
         LoadSender, Push, ConnectionClosed, InvalidateCache, Cancel
<1>3. queue' \in [Slots -> 0..Capacity]
  <2>1. CASE Push(t)
    <3>1. task[t].ep.slot \in Slots
      BY <2>1 DEF Push, SendInv, EndpointHasSlot
    <3>2. queue \in [Slots -> 0..Capacity] /\ queue[task[t].ep.slot] + 1 \in 0..Capacity
      BY CapacityAssumption, <2>1, <3>1 DEF Push, SendInv
    <3> QED
      BY <2>1, <3>1, <3>2 DEF Push
  <2>2. Push(t) \/ queue' = queue
    BY DEF Begin, Step, Check, Lookup, RecipientNotFound, NewEndpoint, UpdateCache,
           LoadSender, ConnectionClosed, InvalidateCache, Cancel
  <2> QED
    BY <2>1, <2>2 DEF SendInv
\* The task's next state, whatever the step.
<1>4. ASSUME NEW new, new \in TaskState, task' = [task EXCEPT ![t] = new],
             IF new.at \in {"idle", "check", "lookup"} THEN new.ep = NoEndpoint
                                                       ELSE new.ep.slot \in Slots,
             \A s \in new.gone : leaving[s] \in {"over", "bumped", "gone"},
             new.at = "push" => new.ep.slot \notin new.gone,
             cache' \in Endpoint, cache'.slot = NoSlot => cache' = NoEndpoint
      PROVE  SendInv'
  <2>1. task' \in [Tasks -> TaskState] /\ task'[t] = new
    BY <1>1, <1>4
  <2>2. \A u \in Tasks \ {t} : task'[u] = task[u]
    BY <1>1, <1>4
  <2>3. EndpointHasSlot'
    BY <1>4, <2>1, <2>2 DEF SendInv, EndpointHasSlot, NoEndpoint
  <2>4. GoneStaysGone'
    BY <1>2, <1>4, <2>1, <2>2 DEF SendInv, GoneStaysGone, subscribers
  <2>5. NoSendToFormerOwner'
    BY <1>4, <2>1, <2>2 DEF SendInv, NoSendToFormerOwner
  <2> QED
    BY <1>3, <1>4, <2>1, <2>3, <2>4, <2>5 DEF SendInv
<1>5. ASSUME NEW at \in {"lookup", "endpoint", "update", "load", "push", "invalidate"},
             NEW ep \in Endpoint, Goto(t, at, ep),
             IF at = "lookup" THEN ep = NoEndpoint ELSE ep.slot \in Slots,
             at = "push" => ep.slot \notin task[t].gone,
             cache' \in Endpoint, cache'.slot = NoSlot => cache' = NoEndpoint
      PROVE  SendInv'
  <2> DEFINE new == [task[t] EXCEPT !.at = at, !.ep = ep]
  <2>1. task[t] \in TaskState
    BY <1>1
  <2>2. new \in TaskState /\ new.at = at /\ new.ep = ep /\ new.gone = task[t].gone
    BY <2>1 DEF TaskState
  <2>3. task' = [task EXCEPT ![t] = new]
    BY <1>1, <1>5 DEF Goto
  <2>4. \A s \in new.gone : leaving[s] \in {"over", "bumped", "gone"}
    BY <2>2 DEF SendInv, GoneStaysGone
  <2> HIDE DEF new
  <2> QED
    BY <1>4, <1>5, <2>2, <2>3, <2>4
<1>6. ASSUME Finish(t), cache' \in Endpoint, cache'.slot = NoSlot => cache' = NoEndpoint
      PROVE  SendInv'
  <2>1. NoEndpoint \in Endpoint
    BY DEF NoEndpoint, Endpoint
  <2>2. Idle \in TaskState /\ Idle.at = "idle" /\ Idle.ep = NoEndpoint /\ Idle.gone = {}
    BY <2>1 DEF Idle, TaskState
  <2> QED
    BY <1>4, <1>6, <2>2 DEF Finish
<1>7. /\ NoEndpoint \in Endpoint /\ NoEndpoint.slot = NoSlot
      /\ cache.slot = NoSlot => cache = NoEndpoint
      /\ IsValid(cache) => cache.slot \in Slots
  BY <1>1 DEF SendInv, EndpointHasSlot, NoEndpoint, Endpoint, IsValid
<1>8. /\ task[t].ep \in Endpoint
      /\ task[t].at \notin {"idle", "check", "lookup"} => task[t].ep.slot \in Slots
  BY <1>1 DEF SendInv, EndpointHasSlot, TaskState
<1>9. ASSUME NEW at \in {"check", "lookup"}, NEW cached \in BOOLEAN, Begin(t, at, cached)
      PROVE  SendInv'
  <2> DEFINE new == [at |-> at, cached |-> cached, ep |-> NoEndpoint,
                     gone |-> {s \in Slots : Over(s)}]
  <2>1. {s \in Slots : Over(s)} \in SUBSET Slots
    OBVIOUS
  <2>2. new \in TaskState /\ new.at = at /\ new.ep = NoEndpoint
    BY <1>7, <1>9, <2>1 DEF TaskState
  <2>3. \A s \in new.gone : leaving[s] \in {"over", "bumped", "gone"}
    BY DEF Over
  <2>4. task' = [task EXCEPT ![t] = new] /\ cache' = cache
    BY <1>9 DEF Begin
  <2> HIDE DEF new
  <2> QED
    BY <1>1, <1>4, <1>7, <1>9, <2>2, <2>3, <2>4
<1>10. CASE Check(t)
  <2>1. CASE IsValid(cache)
    BY <1>1, <1>5, <1>7, <1>10, <2>1 DEF Check
  <2>2. CASE ~IsValid(cache)
    BY <1>1, <1>5, <1>7, <1>10, <2>2 DEF Check
  <2> QED
    BY <2>1, <2>2
<1>11. CASE Lookup(t)
  <2>1. route \in Slots
    BY <1>11 DEF Lookup
  <2>2. [slot |-> route, version |-> 0] \in Endpoint
    BY <2>1 DEF Endpoint
  <2> QED
    BY <1>1, <1>5, <1>7, <1>11, <2>1, <2>2 DEF Lookup
<1>12. CASE RecipientNotFound(t)
  BY <1>1, <1>6, <1>7, <1>12 DEF RecipientNotFound
<1>13. CASE NewEndpoint(t)
  <2> DEFINE new == [task[t].ep EXCEPT !.version = slot[task[t].ep.slot].version]
  <2>1. task[t].ep.slot \in Slots
    BY <1>8, <1>13 DEF NewEndpoint
  <2>2. slot[task[t].ep.slot].version \in Nat
    BY <2>1
  <2>3. new \in Endpoint /\ new.slot \in Slots
    BY <1>8, <2>1, <2>2 DEF Endpoint
  <2>4. Goto(t, "update", new) \/ Goto(t, "load", new)
    BY <1>13 DEF NewEndpoint
  <2>5. cache' \in Endpoint /\ (cache'.slot = NoSlot => cache' = NoEndpoint)
    BY <1>1, <1>7, <1>13 DEF NewEndpoint
  <2> HIDE DEF new
  <2> QED
    BY <1>2, <1>5, <2>3, <2>4, <2>5
<1>14. CASE UpdateCache(t)
  <2>1. CASE IsValid(cache)
    BY <1>1, <1>5, <1>7, <1>14, <2>1 DEF UpdateCache
  <2>2. CASE ~IsValid(cache)
    BY <1>5, <1>8, <1>14, <2>2 DEF UpdateCache
  <2> QED
    BY <2>1, <2>2
<1>15. CASE LoadSender(t)
  <2>1. task[t].ep.slot \in Slots
    BY <1>8, <1>15 DEF LoadSender
  <2>2. CASE slot[task[t].ep.slot].sender
    <3>1. leaving[task[t].ep.slot] = "no"
      BY <2>1, <2>2 DEF SenderUntilRemoval
    <3>2. task[t].ep.slot \notin task[t].gone
      BY <3>1 DEF SendInv, GoneStaysGone
    <3> QED
      BY <1>1, <1>5, <1>7, <1>8, <1>15, <2>1, <2>2, <3>2 DEF LoadSender
  <2>3. CASE ~slot[task[t].ep.slot].sender
    BY <1>1, <1>5, <1>7, <1>8, <1>15, <2>1, <2>3 DEF LoadSender
  <2> QED
    BY <2>2, <2>3
<1>16. CASE Push(t)
  BY <1>1, <1>6, <1>7, <1>16 DEF Push
<1>17. CASE ConnectionClosed(t)
  BY <1>1, <1>5, <1>7, <1>8, <1>17 DEF ConnectionClosed
<1>18. CASE InvalidateCache(t)
  BY <1>1, <1>6, <1>7, <1>18 DEF InvalidateCache
<1>19. CASE Cancel(t)
  BY <1>1, <1>6, <1>7, <1>19 DEF Cancel
<1> QED
  BY <1>2, <1>9, <1>10, <1>11, <1>12, <1>13, <1>14, <1>15, <1>16, <1>17, <1>18, <1>19 DEF Step

-----------------------------------------------------------------------------
\* A subscriber's steps: subscribe, the three writes of unregister, recv and
\* the two drops, each with the slot it concerns.
LEMMA SubscriberStep ==
    ASSUME IInv, NEW s \in Slots,
           Subscribe(s) \/ Unregister(s) \/ Recv(s) \/ DropSubscriber(s) \/ FreeSlot(s)
    PROVE  IInv'
<1> USE NoSlotAssumption
<1>1. slot \in [Slots -> SlotState]
  BY DEF IInv, TypeOK
<1>2. /\ slot \in [Slots -> SlotState]
      /\ leaving \in [Slots -> {"unused", "no", "stored", "bumped", "gone"}]
  BY DEF IInv, TypeOK
<1>3. SenderUntilRemoval /\ VersionCountsRemoval /\ RouteUntilGone /\ SendInv
  BY DEF IInv
<1>4. CASE Subscribe(s)
  <2>1. slot' \in [Slots -> SlotState]
    <3>1. slot'[s] = [kind |-> "Single", sender |-> TRUE, version |-> 1, receiver |-> TRUE,
                      consumers |-> 0]
      BY <1>1, <1>4 DEF Subscribe, Fresh
    <3>2. slot'[s] \in SlotState
      BY <3>1 DEF SlotState
    <3> QED
      BY <1>1, <1>4, <3>2 DEF Subscribe
  <2>2. SendInv'
    BY <1>2, <1>3, <1>4, OthersKeepSendInv DEF Subscribe, SendInv
  <2>3. TypeOK'
    BY <1>4, <2>1, <2>2 DEF Subscribe, IInv, TypeOK, SendInv
  <2>4. SenderUntilRemoval'
    BY <1>2, <1>3, <1>4 DEF Subscribe, Fresh, SlotState, SenderUntilRemoval
  <2>5. VersionCountsRemoval'
    BY <1>2, <1>3, <1>4 DEF Subscribe, Fresh, SlotState, VersionCountsRemoval
  <2>6. RouteUntilGone'
    BY <1>2, <1>3, <1>4 DEF Subscribe, RouteUntilGone
  <2> QED
    BY <2>2, <2>3, <2>4, <2>5, <2>6 DEF IInv
<1>5. CASE StoreNone(s)
  <2>1. slot' \in [Slots -> SlotState]
    BY <1>1, <1>5 DEF StoreNone, SlotState
  <2>2. SendInv'
    BY <1>2, <1>3, <1>5, OthersKeepSendInv DEF StoreNone, SendInv
  <2>3. TypeOK'
    BY <1>5, <2>1, <2>2 DEF StoreNone, IInv, TypeOK, SendInv
  <2>4. SenderUntilRemoval'
    BY <1>2, <1>3, <1>5 DEF StoreNone, SlotState, SenderUntilRemoval
  <2>5. VersionCountsRemoval'
    BY <1>2, <1>3, <1>5 DEF StoreNone, SlotState, VersionCountsRemoval
  <2>6. RouteUntilGone'
    BY <1>2, <1>3, <1>5 DEF StoreNone, RouteUntilGone
  <2> QED
    BY <2>2, <2>3, <2>4, <2>5, <2>6 DEF IInv
<1>6. CASE BumpVersion(s)
  <2>1. slot' \in [Slots -> SlotState]
    BY <1>1, <1>3, <1>6 DEF BumpVersion, SlotState, VersionCountsRemoval
  <2>2. SendInv'
    BY <1>2, <1>3, <1>6, OthersKeepSendInv DEF BumpVersion, SendInv
  <2>3. TypeOK'
    BY <1>6, <2>1, <2>2 DEF BumpVersion, IInv, TypeOK, SendInv
  <2>4. SenderUntilRemoval'
    BY <1>2, <1>3, <1>6 DEF BumpVersion, SlotState, SenderUntilRemoval
  <2>5. VersionCountsRemoval'
    BY <1>2, <1>3, <1>6 DEF BumpVersion, SlotState, VersionCountsRemoval
  <2>6. RouteUntilGone'
    BY <1>2, <1>3, <1>6 DEF BumpVersion, RouteUntilGone
  <2> QED
    BY <2>2, <2>3, <2>4, <2>5, <2>6 DEF IInv
<1>7. CASE RemoveRoute(s)
  <2>1. slot' \in [Slots -> SlotState]
    BY <1>1, <1>7 DEF RemoveRoute, SlotState
  <2>2. SendInv'
    BY <1>2, <1>3, <1>7, OthersKeepSendInv DEF RemoveRoute, SendInv
  <2>3. TypeOK'
    BY <1>7, <2>1, <2>2 DEF RemoveRoute, IInv, TypeOK, SendInv
  <2>4. SenderUntilRemoval'
    BY <1>2, <1>3, <1>7 DEF RemoveRoute, SlotState, SenderUntilRemoval
  <2>5. VersionCountsRemoval'
    BY <1>2, <1>3, <1>7 DEF RemoveRoute, SlotState, VersionCountsRemoval
  <2>6. RouteUntilGone'
    BY <1>2, <1>3, <1>7 DEF RemoveRoute, RouteUntilGone
  <2> QED
    BY <2>2, <2>3, <2>4, <2>5, <2>6 DEF IInv
<1>8. CASE Recv(s)
  <2>1. queue' \in [Slots -> 0..Capacity]
    BY CapacityAssumption, <1>3, <1>8 DEF Recv, SendInv
  <2>2. UNCHANGED <<route, slot, leaving, cache, task>>
    BY <1>8 DEF Recv, subscribers
  <2>3. SendInv'
    BY <1>3, <2>1, <2>2, OthersKeepSendInv
  <2> QED
    BY <2>1, <2>2, <2>3
    DEF IInv, TypeOK, SenderUntilRemoval, VersionCountsRemoval, RouteUntilGone
<1>9. CASE DropSubscriber(s)
  <2>1. slot' \in [Slots -> SlotState]
    BY <1>1, <1>9 DEF DropSubscriber, SlotState
  <2>2. SendInv'
    <3>1. queue' \in [Slots -> 0..Capacity]
      BY CapacityAssumption, <1>3, <1>9 DEF DropSubscriber, SendInv
    <3> QED
      BY <1>3, <1>9, <3>1, OthersKeepSendInv DEF DropSubscriber
  <2>3. TypeOK'
    BY <1>9, <2>1, <2>2 DEF DropSubscriber, IInv, TypeOK, SendInv
  <2>4. SenderUntilRemoval'
    BY <1>2, <1>3, <1>9 DEF DropSubscriber, SlotState, SenderUntilRemoval
  <2>5. VersionCountsRemoval'
    BY <1>2, <1>3, <1>9 DEF DropSubscriber, SlotState, VersionCountsRemoval
  <2>6. RouteUntilGone'
    BY <1>2, <1>3, <1>9 DEF DropSubscriber, RouteUntilGone
  <2> QED
    BY <2>2, <2>3, <2>4, <2>5, <2>6 DEF IInv
<1>10. CASE FreeSlot(s)
  <2>1. slot' \in [Slots -> SlotState]
    BY <1>1, <1>10 DEF FreeSlot, Fresh, SlotState
  <2>2. SendInv'
    BY <1>2, <1>3, <1>10, FreeKeepsSendInv DEF FreeSlot
  <2>3. TypeOK'
    BY <1>10, <2>1, <2>2 DEF FreeSlot, IInv, TypeOK, SendInv
  <2>4. SenderUntilRemoval'
    BY <1>2, <1>3, <1>10 DEF FreeSlot, Fresh, SlotState, SenderUntilRemoval
  <2>5. VersionCountsRemoval'
    BY <1>2, <1>3, <1>10 DEF FreeSlot, Fresh, SlotState, VersionCountsRemoval
  <2>6. RouteUntilGone'
    BY <1>2, <1>3, <1>10 DEF FreeSlot, RouteUntilGone
  <2> QED
    BY <2>2, <2>3, <2>4, <2>5, <2>6 DEF IInv
<1> QED
  BY <1>4, <1>5, <1>6, <1>7, <1>8, <1>9, <1>10 DEF Unregister

\* The invariant holds initially and every step keeps it.
LEMMA IInvInductive ==
    /\ Init => IInv
    /\ IInv /\ [Next]_vars => IInv'
<1>1. ASSUME Init PROVE IInv
  <2>1. NoEndpoint \in Endpoint
    BY DEF NoEndpoint, Endpoint
  <2>2. Fresh \in SlotState /\ Fresh.sender = FALSE /\ Fresh.version = 1
    BY DEF Fresh, SlotState
  <2>3. Idle \in TaskState /\ Idle.at = "idle" /\ Idle.ep = NoEndpoint /\ Idle.gone = {}
    BY <2>1 DEF Idle, TaskState
  <2>4. SenderUntilRemoval /\ VersionCountsRemoval /\ RouteUntilGone
    BY NoSlotAssumption, <1>1, <2>2
    DEF Init, SenderUntilRemoval, VersionCountsRemoval, RouteUntilGone
  <2>5. EndpointHasSlot /\ GoneStaysGone /\ NoSendToFormerOwner
    BY <1>1, <2>3 DEF Init, EndpointHasSlot, GoneStaysGone, NoSendToFormerOwner
  <2>6. SendInv
    BY CapacityAssumption, <1>1, <2>1, <2>3, <2>5 DEF Init, SendInv
  <2> QED
    BY <1>1, <2>2, <2>4, <2>6 DEF Init, IInv, TypeOK, SendInv
<1>2. ASSUME IInv, Invalidate PROVE IInv'
  <2>1. NoEndpoint \in Endpoint /\ NoEndpoint.slot = NoSlot
    BY DEF NoEndpoint, Endpoint
  <2>2. SendInv'
    BY <1>2, <2>1
    DEF Invalidate, subscribers, IInv, SendInv, EndpointHasSlot, GoneStaysGone, NoSendToFormerOwner
  <2> QED
    BY <1>2, <2>2
    DEF Invalidate, subscribers, IInv, SendInv, TypeOK, SenderUntilRemoval, VersionCountsRemoval,
        RouteUntilGone
<1>3. ASSUME IInv, NEW t \in Tasks, Send(t) \/ Step(t) \/ Cancel(t) PROVE IInv'
  <2>1. \A s \in Slots : slot[s].version \in Nat
    BY <1>3 DEF IInv, TypeOK, SlotState
  <2>2. SendInv' /\ UNCHANGED subscribers
    BY <1>3, <2>1, TaskStep DEF Send, IInv, TypeOK
  <2> QED
    BY <1>3, <2>2
    DEF subscribers, IInv, SendInv, TypeOK, SenderUntilRemoval, VersionCountsRemoval, RouteUntilGone
<1>4. ASSUME IInv, UNCHANGED vars PROVE IInv'
  BY <1>4 DEF vars, IInv, SendInv, TypeOK, SenderUntilRemoval, VersionCountsRemoval, RouteUntilGone,
              EndpointHasSlot, GoneStaysGone, NoSendToFormerOwner
<1> QED
  BY <1>1, <1>2, <1>3, <1>4, SubscriberStep DEF Next

-----------------------------------------------------------------------------
(* Theorems *)

\* The inductive invariant holds in every state of the Publisher and of the
\* subscribers whose channels it sends to.
THEOREM Invariance == Spec => []IInv
BY IInvInductive, PTL DEF Spec

\* Type correctness: in particular every channel stays within channel_capacity
\* and every version within the one bump of mark_removed.
THEOREM TypeCorrect == Spec => []TypeOK
<1>1. IInv => TypeOK
  BY DEF IInv
<1> QED
  BY <1>1, Invariance, PTL

\* Endpoint validity (is_valid) vouches for the route, for the cached endpoint
\* and for the one in any task's hands, at whatever point of a removal.
THEOREM ValidIsCurrent == Spec => []ValidMeansCurrent
<1>1. ASSUME IInv PROVE ValidMeansCurrent
  <2>1. SUFFICES ASSUME NEW ep \in {cache} \cup {task[t].ep : t \in Tasks}, IsValid(ep)
                 PROVE  route = ep.slot
    BY DEF ValidMeansCurrent
  <2>2. ep.slot \in Slots
    <3>1. CASE ep = cache
      BY <1>1, <2>1, <3>1 DEF IInv, SendInv, Endpoint, EndpointHasSlot, IsValid
    <3>2. ASSUME NEW t \in Tasks, ep = task[t].ep PROVE ep.slot \in Slots
      BY <1>1, <2>1, <3>2 DEF IInv, SendInv, EndpointHasSlot, IsValid
    <3> QED
      BY <2>1, <3>1, <3>2
  <2>3. slot[ep.slot].kind = "Single"
    BY <1>1, <2>2 DEF IInv, TypeOK, SlotState
  <2>4. slot[ep.slot].sender
    BY <2>1, <2>3 DEF IsValid, IsClosed
  <2> QED
    BY <1>1, <2>2, <2>4 DEF IInv, SenderUntilRemoval, RouteUntilGone
<1> QED
  BY <1>1, Invariance, PTL

\* No send that was called after unregister had returned reaches the channel
\* of the subscriber that left.
THEOREM FormerOwnerSafe == Spec => []NoSendToFormerOwner
<1>1. IInv => NoSendToFormerOwner
  BY DEF IInv, SendInv
<1> QED
  BY <1>1, Invariance, PTL
=============================================================================
