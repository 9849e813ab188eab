----------------------------- MODULE BrokerProofs -----------------------------
(***************************************************************************)
(* The safety of an address that Exclusive subscribers and LoadBalanced    *)
(* groups take one after the other, for any number of targets, members and *)
(* sending tasks. What concerns the sends alone is proved once, in         *)
(* PublisherProofs (SendInv).                                              *)
(*                                                                         *)
(* A group gives up its address in another order than a subscriber: its    *)
(* shutdown writes the slot and its dispatcher, later or never, takes the  *)
(* route out. DispatcherPhase says how far the one allows the other to be, *)
(* MembersInGroups that the members still to leave hold on to a group and  *)
(* not to a slot that was given to someone else, and the two counts are    *)
(* the numbers of members they stand for.                                  *)
(***************************************************************************)
EXTENDS Broker, PublisherProofs, FiniteSetTheorems

\* The address belongs to the target until it has been unregistered; the end
\* of a group's shutdown alone ("over") does not free it.
RouteUntilRemoved ==
    \A s \in Slots : route = s <=> leaving[s] \in {"no", "stored", "over", "bumped"}

\* How far the dispatcher is in its own end and how far the group in its removal.
DispatcherPhase ==
    \A s \in Slots :
        /\ group[s].disp = "none" <=> ~IsGroup(s)
        /\ IsGroup(s) => leaving[s] \in {"no", "over", "bumped", "gone"}
        /\ group[s].disp \in {"running", "aborted", "cleanup"} => leaving[s] \in {"no", "over"}
        /\ group[s].disp = "unregister" => leaving[s] \in {"bumped", "gone"}

\* A member that is not out is of a group, which is not freed under it.
MembersInGroups ==
    \A m \in Members :
        /\ member[m].slot = NoSlot <=> member[m].at = "out"
        /\ member[m].slot # NoSlot => IsGroup(member[m].slot)
        /\ member[m].reader => member[m].at \notin {"out", "found"}

\* Shutdown has taken the sender out before it bumps the version.
ShutdownMarks ==
    \A m \in Members : member[m].at = "bump" => ~slot[member[m].slot].sender

Readers(s) == {m \in Members : member[m].slot = s /\ member[m].reader}
Joined(s) == {m \in Members : member[m].slot = s /\ member[m].at = "in"}

\* Strong count of the request channel and active_consumers.
CountsAreMembers ==
    \A s \in Slots : /\ slot[s].consumers = Cardinality(Readers(s))
                     /\ group[s].active = Cardinality(Joined(s))

BrokerInv ==
    /\ BrokerTypeOK
    /\ SenderUntilRemoval
    /\ RouteUntilRemoved
    /\ DispatcherPhase
    /\ MembersInGroups
    /\ ShutdownMarks
    /\ CountsAreMembers
    /\ SendInv

LEMMA BrokerTypes ==
    BrokerInv => /\ slot \in [Slots -> TargetState] /\ group \in [Slots -> GroupState]
                 /\ member \in [Members -> MemberState]
                 /\ leaving \in [Slots -> {"unused", "no", "stored", "bumped", "over", "gone"}]
BY DEF BrokerInv, BrokerTypeOK

\* The sets that are counted are finite.
LEMMA CountedFinite ==
    ASSUME NEW s
    PROVE  /\ IsFiniteSet(Readers(s)) /\ Cardinality(Readers(s)) \in Nat
           /\ IsFiniteSet(Joined(s)) /\ Cardinality(Joined(s)) \in Nat
<1>1. Readers(s) \subseteq Members /\ Joined(s) \subseteq Members
  BY DEF Readers, Joined
<1> QED
  BY <1>1, MembersAssumption, FS_Subset, FS_CardinalityType

\* A slot that is not a group has no members.
LEMMA OnlyGroupsCount ==
    ASSUME BrokerInv, NEW s \in Slots, ~IsGroup(s)
    PROVE  /\ Readers(s) = {} /\ Joined(s) = {}
           /\ slot[s].consumers = 0 /\ group[s].active = 0
<1>1. Readers(s) = {} /\ Joined(s) = {}
  BY NoSlotAssumption DEF BrokerInv, MembersInGroups, Readers, Joined
<1> QED
  BY <1>1, FS_EmptySet DEF BrokerInv, CountsAreMembers

\* Steps that change neither members nor dispatchers.
LEMMA GroupsKept ==
    ASSUME BrokerInv, UNCHANGED groups,
           \A x \in Slots : slot'[x].kind = slot[x].kind /\ slot'[x].consumers = slot[x].consumers,
           \A x \in Slots : IsGroup(x) /\ slot'[x].sender => slot[x].sender
    PROVE  MembersInGroups' /\ ShutdownMarks' /\ CountsAreMembers'
<1>1. \A m \in Members : member[m].slot \in Slots \cup {NoSlot}
  BY DEF BrokerInv, BrokerTypeOK, MemberState
<1>2. MembersInGroups'
  BY <1>1 DEF BrokerInv, MembersInGroups, groups, IsGroup
<1>3. ShutdownMarks'
  <2>1. \A m \in Members : member[m].at = "bump" =>
            member[m].slot \in Slots /\ IsGroup(member[m].slot) /\ ~slot[member[m].slot].sender
    BY <1>1 DEF BrokerInv, MembersInGroups, ShutdownMarks
  <2> QED
    BY <2>1 DEF ShutdownMarks, groups
<1>4. CountsAreMembers'
  BY DEF BrokerInv, CountsAreMembers, Readers, Joined, groups
<1> QED
  BY <1>2, <1>3, <1>4

-----------------------------------------------------------------------------
\* The steps of Exclusive subscribers, as in PublisherProofs, beside groups.
LEMMA ExclusiveStep ==
    ASSUME BrokerInv, UNCHANGED groups, NEW s \in Slots,
           Subscribe(s) \/ Unregister(s) \/ Recv(s) \/ DropSubscriber(s) \/ FreeSlot(s)
    PROVE  BrokerInv'
<1> USE NoSlotAssumption
<1>0. slot \in [Slots -> TargetState]
  BY BrokerTypes
<1>1. /\ slot \in [Slots -> TargetState] /\ group \in [Slots -> GroupState]
      /\ leaving \in [Slots -> {"unused", "no", "stored", "bumped", "over", "gone"}]
  BY BrokerTypes
<1>2. SenderUntilRemoval /\ RouteUntilRemoved /\ DispatcherPhase /\ SendInv
  BY DEF BrokerInv
<1>3. UNCHANGED <<member, group>>
  BY DEF groups
<1>4. CASE Subscribe(s)
  <2>1. slot' \in [Slots -> TargetState]
    <3>1. slot'[s] = [kind |-> "Single", sender |-> TRUE, version |-> 1, receiver |-> TRUE,
                      consumers |-> 0]
      BY <1>0, <1>4 DEF Subscribe, Fresh
    <3>2. slot'[s] \in TargetState
      BY <3>1 DEF TargetState
    <3> QED
      BY <1>0, <1>4, <3>2 DEF Subscribe
  <2>2. SendInv'
    BY <1>1, <1>2, <1>4, OthersKeepSendInv DEF Subscribe, SendInv
  <2>3. \A x \in Slots : slot'[x].kind = slot[x].kind /\ slot'[x].consumers = slot[x].consumers
    <3>1. ~IsGroup(s) /\ slot[s].kind = "Single"
      BY <1>1, <1>2, <1>4 DEF Subscribe, DispatcherPhase, IsGroup, TargetState
    <3>2. slot[s].consumers = 0
      BY <3>1, OnlyGroupsCount
    <3> QED
      BY <1>0, <1>4, <3>1, <3>2 DEF Subscribe, Fresh, TargetState
  <2>4. SenderUntilRemoval'
    BY <1>1, <1>2, <1>4 DEF Subscribe, Fresh, TargetState, SenderUntilRemoval
  <2>5. RouteUntilRemoved'
    BY <1>1, <1>2, <1>4 DEF Subscribe, RouteUntilRemoved
  <2>6. \A x \in Slots : IsGroup(x) /\ slot'[x].sender => slot[x].sender
    BY <1>1, <1>2, <1>4 DEF Subscribe, Fresh, TargetState, IsGroup, DispatcherPhase
  <2>7. DispatcherPhase'
    BY <1>1, <1>2, <1>3, <1>4, <2>3 DEF Subscribe, DispatcherPhase, IsGroup
  <2>8. MembersInGroups' /\ ShutdownMarks' /\ CountsAreMembers'
    BY <2>3, <2>6, GroupsKept
  <2>9. BrokerTypeOK'
    BY <1>3, <1>4, <2>1, <2>2 DEF Subscribe, BrokerInv, BrokerTypeOK, SendInv
  <2> QED
    BY <2>2, <2>4, <2>5, <2>7, <2>8, <2>9 DEF BrokerInv
<1>5. CASE StoreNone(s)
  <2>1. slot' \in [Slots -> TargetState]
    BY <1>0, <1>5 DEF StoreNone, TargetState
  <2>2. SendInv'
    BY <1>1, <1>2, <1>5, OthersKeepSendInv DEF StoreNone, SendInv
  <2>3. \A x \in Slots : slot'[x].kind = slot[x].kind /\ slot'[x].consumers = slot[x].consumers
    BY <1>0, <1>5 DEF StoreNone, TargetState
  <2>4. SenderUntilRemoval'
    BY <1>1, <1>2, <1>5 DEF StoreNone, TargetState, SenderUntilRemoval
  <2>5. RouteUntilRemoved'
    BY <1>1, <1>2, <1>5 DEF StoreNone, RouteUntilRemoved
  <2>6. \A x \in Slots : IsGroup(x) /\ slot'[x].sender => slot[x].sender
    BY <1>1, <1>2, <1>5 DEF StoreNone, TargetState, IsGroup, DispatcherPhase
  <2>7. DispatcherPhase'
    BY <1>1, <1>2, <1>3, <1>5, <2>3 DEF StoreNone, DispatcherPhase, IsGroup
  <2>8. MembersInGroups' /\ ShutdownMarks' /\ CountsAreMembers'
    BY <2>3, <2>6, GroupsKept
  <2>9. BrokerTypeOK'
    BY <1>3, <1>5, <2>1, <2>2 DEF StoreNone, BrokerInv, BrokerTypeOK, SendInv
  <2> QED
    BY <2>2, <2>4, <2>5, <2>7, <2>8, <2>9 DEF BrokerInv
<1>6. CASE BumpVersion(s)
  <2>1. slot' \in [Slots -> TargetState]
    BY <1>0, <1>6 DEF BumpVersion, TargetState
  <2>2. SendInv'
    BY <1>1, <1>2, <1>6, OthersKeepSendInv DEF BumpVersion, SendInv
  <2>3. \A x \in Slots : slot'[x].kind = slot[x].kind /\ slot'[x].consumers = slot[x].consumers
    BY <1>0, <1>6 DEF BumpVersion, TargetState
  <2>4. SenderUntilRemoval'
    BY <1>1, <1>2, <1>6 DEF BumpVersion, TargetState, SenderUntilRemoval
  <2>5. RouteUntilRemoved'
    BY <1>1, <1>2, <1>6 DEF BumpVersion, RouteUntilRemoved
  <2>6. \A x \in Slots : IsGroup(x) /\ slot'[x].sender => slot[x].sender
    BY <1>1, <1>2, <1>6 DEF BumpVersion, TargetState, IsGroup, DispatcherPhase
  <2>7. DispatcherPhase'
    BY <1>1, <1>2, <1>3, <1>6, <2>3 DEF BumpVersion, DispatcherPhase, IsGroup
  <2>8. MembersInGroups' /\ ShutdownMarks' /\ CountsAreMembers'
    BY <2>3, <2>6, GroupsKept
  <2>9. BrokerTypeOK'
    BY <1>3, <1>6, <2>1, <2>2 DEF BumpVersion, BrokerInv, BrokerTypeOK, SendInv
  <2> QED
    BY <2>2, <2>4, <2>5, <2>7, <2>8, <2>9 DEF BrokerInv
<1>7. CASE RemoveRoute(s)
  <2>1. slot' \in [Slots -> TargetState]
    BY <1>0, <1>7 DEF RemoveRoute, TargetState
  <2>2. SendInv'
    BY <1>1, <1>2, <1>7, OthersKeepSendInv DEF RemoveRoute, SendInv
  <2>3. \A x \in Slots : slot'[x].kind = slot[x].kind /\ slot'[x].consumers = slot[x].consumers
    BY <1>0, <1>7 DEF RemoveRoute, TargetState
  <2>4. SenderUntilRemoval'
    BY <1>1, <1>2, <1>7 DEF RemoveRoute, TargetState, SenderUntilRemoval
  <2>5. RouteUntilRemoved'
    BY <1>1, <1>2, <1>7 DEF RemoveRoute, RouteUntilRemoved
  <2>6. \A x \in Slots : IsGroup(x) /\ slot'[x].sender => slot[x].sender
    BY <1>1, <1>2, <1>7 DEF RemoveRoute, TargetState, IsGroup, DispatcherPhase
  <2>7. DispatcherPhase'
    BY <1>1, <1>2, <1>3, <1>7, <2>3 DEF RemoveRoute, DispatcherPhase, IsGroup
  <2>8. MembersInGroups' /\ ShutdownMarks' /\ CountsAreMembers'
    BY <2>3, <2>6, GroupsKept
  <2>9. BrokerTypeOK'
    BY <1>3, <1>7, <2>1, <2>2 DEF RemoveRoute, BrokerInv, BrokerTypeOK, SendInv
  <2> QED
    BY <2>2, <2>4, <2>5, <2>7, <2>8, <2>9 DEF BrokerInv
<1>8. CASE Recv(s)
  <2>1. queue' \in [Slots -> 0..Capacity]
    BY CapacityAssumption, <1>2, <1>8 DEF Recv, SendInv
  <2>2. UNCHANGED <<route, slot, leaving, cache, task>>
    BY <1>8 DEF Recv, subscribers
  <2>3. SendInv'
    BY <1>2, <2>1, <2>2, OthersKeepSendInv
  <2>4. MembersInGroups' /\ ShutdownMarks' /\ CountsAreMembers'
    BY <2>2, GroupsKept
  <2> QED
    BY <1>3, <2>1, <2>2, <2>3, <2>4
    DEF BrokerInv, BrokerTypeOK, SenderUntilRemoval, RouteUntilRemoved, DispatcherPhase, IsGroup
<1>9. CASE DropSubscriber(s)
  <2>1. slot' \in [Slots -> TargetState]
    BY <1>0, <1>9 DEF DropSubscriber, TargetState
  <2>2. SendInv'
    <3>1. queue' \in [Slots -> 0..Capacity]
      BY CapacityAssumption, <1>2, <1>9 DEF DropSubscriber, SendInv
    <3> QED
      BY <1>2, <1>9, <3>1, OthersKeepSendInv DEF DropSubscriber
  <2>3. \A x \in Slots : slot'[x].kind = slot[x].kind /\ slot'[x].consumers = slot[x].consumers
    BY <1>0, <1>9 DEF DropSubscriber, TargetState
  <2>4. SenderUntilRemoval'
    BY <1>1, <1>2, <1>9 DEF DropSubscriber, TargetState, SenderUntilRemoval
  <2>5. RouteUntilRemoved'
    BY <1>1, <1>2, <1>9 DEF DropSubscriber, RouteUntilRemoved
  <2>6. \A x \in Slots : IsGroup(x) /\ slot'[x].sender => slot[x].sender
    BY <1>1, <1>2, <1>9 DEF DropSubscriber, TargetState, IsGroup, DispatcherPhase
  <2>7. DispatcherPhase'
    BY <1>1, <1>2, <1>3, <1>9, <2>3 DEF DropSubscriber, DispatcherPhase, IsGroup
  <2>8. MembersInGroups' /\ ShutdownMarks' /\ CountsAreMembers'
    BY <2>3, <2>6, GroupsKept
  <2>9. BrokerTypeOK'
    BY <1>3, <1>9, <2>1, <2>2 DEF DropSubscriber, BrokerInv, BrokerTypeOK, SendInv
  <2> QED
    BY <2>2, <2>4, <2>5, <2>7, <2>8, <2>9 DEF BrokerInv
<1>10. CASE FreeSlot(s)
  <2>1. slot' \in [Slots -> TargetState]
    BY <1>0, <1>10 DEF FreeSlot, Fresh, TargetState
  <2>2. SendInv'
    BY <1>1, <1>2, <1>10, FreeKeepsSendInv DEF FreeSlot
  <2>3. \A x \in Slots : slot'[x].kind = slot[x].kind /\ slot'[x].consumers = slot[x].consumers
    <3>1. ~IsGroup(s) /\ slot[s].kind = "Single"
      BY <1>1, <1>2, <1>10 DEF FreeSlot, DispatcherPhase, IsGroup, TargetState
    <3>2. slot[s].consumers = 0
      BY <3>1, OnlyGroupsCount
    <3> QED
      BY <1>0, <1>10, <3>1, <3>2 DEF FreeSlot, Fresh, TargetState
  <2>4. SenderUntilRemoval'
    BY <1>1, <1>2, <1>10 DEF FreeSlot, Fresh, TargetState, SenderUntilRemoval
  <2>5. RouteUntilRemoved'
    BY <1>1, <1>2, <1>10 DEF FreeSlot, RouteUntilRemoved
  <2>6. \A x \in Slots : IsGroup(x) /\ slot'[x].sender => slot[x].sender
    BY <1>1, <1>2, <1>10 DEF FreeSlot, Fresh, TargetState, IsGroup, DispatcherPhase
  <2>7. DispatcherPhase'
    BY <1>1, <1>2, <1>3, <1>10, <2>3 DEF FreeSlot, DispatcherPhase, IsGroup
  <2>8. MembersInGroups' /\ ShutdownMarks' /\ CountsAreMembers'
    BY <2>3, <2>6, GroupsKept
  <2>9. BrokerTypeOK'
    BY <1>3, <1>10, <2>1, <2>2 DEF FreeSlot, BrokerInv, BrokerTypeOK, SendInv
  <2> QED
    BY <2>2, <2>4, <2>5, <2>7, <2>8, <2>9 DEF BrokerInv
<1> QED
  BY <1>4, <1>5, <1>6, <1>7, <1>8, <1>9, <1>10 DEF Unregister

\* The steps of sends, cached or not, and of invalidate_cache.
LEMMA SendersStep ==
    ASSUME BrokerInv, UNCHANGED groups,
           \/ Invalidate
           \/ \E t \in Tasks : Send(t) \/ Begin(t, "lookup", FALSE) \/ Step(t) \/ Cancel(t)
    PROVE  BrokerInv'
<1>1. SendInv' /\ UNCHANGED <<route, slot, leaving>>
  <2>1. CASE Invalidate
    <3>1. NoEndpoint \in Endpoint /\ NoEndpoint.slot = NoSlot
      BY DEF NoEndpoint, Endpoint
    <3> QED
      BY <2>1, <3>1 DEF Invalidate, subscribers, BrokerInv, SendInv, EndpointHasSlot,
                        GoneStaysGone, NoSendToFormerOwner
  <2>2. ASSUME NEW t \in Tasks, Send(t) \/ Begin(t, "lookup", FALSE) \/ Step(t) \/ Cancel(t)
        PROVE  SendInv' /\ UNCHANGED <<route, slot, leaving>>
    <3>1. \A s \in Slots : slot[s].version \in Nat
      BY BrokerTypes DEF TargetState
    <3> QED
      BY <2>2, <3>1, TaskStep DEF Send, BrokerInv, BrokerTypeOK, subscribers
  <2> QED
    BY <2>1, <2>2
<1>2. MembersInGroups' /\ ShutdownMarks' /\ CountsAreMembers'
  BY <1>1, GroupsKept
<1> QED
  BY <1>1, <1>2
  DEF BrokerInv, BrokerTypeOK, SendInv, SenderUntilRemoval, RouteUntilRemoved, DispatcherPhase,
      IsGroup, groups

-----------------------------------------------------------------------------
(* Members and dispatchers *)

\* What a member in a state counts for at a slot.
AsReader(mm, x) == IF mm.slot = x /\ mm.reader THEN 1 ELSE 0
AsJoined(mm, x) == IF mm.slot = x /\ mm.at = "in" THEN 1 ELSE 0

\* A step of one member moves the counts of the sets it is in by one.
LEMMA CountsMove ==
    ASSUME BrokerInv, NEW m \in Members, NEW new \in MemberState,
           member' = [member EXCEPT ![m] = new], NEW x
    PROVE  /\ Cardinality(Readers(x)') = Cardinality(Readers(x))
                - AsReader(member[m], x) + AsReader(new, x)
           /\ Cardinality(Joined(x)') = Cardinality(Joined(x))
                - AsJoined(member[m], x) + AsJoined(new, x)
<1>1. /\ m \in Readers(x) <=> member[m].slot = x /\ member[m].reader
      /\ m \in Joined(x) <=> member[m].slot = x /\ member[m].at = "in"
  BY DEF Readers, Joined
<1>2. member' \in [Members -> MemberState] /\ member'[m] = new
  BY BrokerTypes
<1>3. \A n \in Members \ {m} : member'[n] = member[n]
  BY BrokerTypes
<1>4. Readers(x)' = IF new.slot = x /\ new.reader THEN Readers(x) \cup {m} ELSE Readers(x) \ {m}
  BY <1>2, <1>3 DEF Readers
<1>5. Joined(x)' = IF new.slot = x /\ new.at = "in" THEN Joined(x) \cup {m} ELSE Joined(x) \ {m}
  BY <1>2, <1>3 DEF Joined
<1>6. /\ Cardinality(Readers(x) \cup {m}) =
            IF m \in Readers(x) THEN Cardinality(Readers(x)) ELSE Cardinality(Readers(x)) + 1
      /\ Cardinality(Readers(x) \ {m}) =
            IF m \in Readers(x) THEN Cardinality(Readers(x)) - 1 ELSE Cardinality(Readers(x))
  BY CountedFinite, FS_AddElement, FS_RemoveElement
<1>7. /\ Cardinality(Joined(x) \cup {m}) =
            IF m \in Joined(x) THEN Cardinality(Joined(x)) ELSE Cardinality(Joined(x)) + 1
      /\ Cardinality(Joined(x) \ {m}) =
            IF m \in Joined(x) THEN Cardinality(Joined(x)) - 1 ELSE Cardinality(Joined(x))
  BY CountedFinite, FS_AddElement, FS_RemoveElement
<1>8. Cardinality(Readers(x)) \in Nat /\ Cardinality(Joined(x)) \in Nat
  BY CountedFinite
<1>9. Cardinality(Readers(x)') = Cardinality(Readers(x))
                - AsReader(member[m], x) + AsReader(new, x)
  BY <1>1, <1>4, <1>6, <1>8 DEF AsReader, AsJoined
<1> QED
  BY <1>1, <1>5, <1>7, <1>8, <1>9 DEF AsReader, AsJoined

\* What a step of one member has to leave true.
LEMMA MemberMoves ==
    ASSUME BrokerInv, NEW m \in Members, NEW new \in MemberState,
           member' = [member EXCEPT ![m] = new],
           new.slot = NoSlot <=> new.at = "out",
           new.slot # NoSlot => slot'[new.slot].kind = "LoadBalanced",
           new.reader => new.at \notin {"out", "found"},
           new.at = "bump" => ~slot'[new.slot].sender,
           \A x \in Slots : slot[x].kind = "LoadBalanced" =>
              slot'[x].kind = "LoadBalanced" /\ (slot'[x].sender => slot[x].sender),
           \A x \in Slots :
              /\ slot'[x].consumers = slot[x].consumers
                   - AsReader(member[m], x) + AsReader(new, x)
              /\ group'[x].active = group[x].active
                   - AsJoined(member[m], x) + AsJoined(new, x)
    PROVE  MembersInGroups' /\ ShutdownMarks' /\ CountsAreMembers'
<1>1. member' \in [Members -> MemberState] /\ member'[m] = new
  BY BrokerTypes
<1>2. \A n \in Members \ {m} : member'[n] = member[n]
  BY BrokerTypes
<1>3. \A n \in Members : member[n].slot \in Slots \cup {NoSlot}
  BY BrokerTypes DEF MemberState
<1>4. MembersInGroups'
  BY <1>1, <1>2, <1>3 DEF BrokerInv, MembersInGroups, IsGroup
<1>5. ShutdownMarks'
  <2>1. \A n \in Members : member[n].at = "bump" =>
            member[n].slot \in Slots /\ IsGroup(member[n].slot) /\ ~slot[member[n].slot].sender
    BY <1>3 DEF BrokerInv, MembersInGroups, ShutdownMarks
  <2> QED
    BY <1>1, <1>2, <2>1 DEF ShutdownMarks, IsGroup
<1>6. CountsAreMembers'
  <2>1. ASSUME NEW x \in Slots
        PROVE  slot'[x].consumers = Cardinality(Readers(x)') /\ group'[x].active = Cardinality(Joined(x)')
    <3>1. slot[x].consumers = Cardinality(Readers(x)) /\ group[x].active = Cardinality(Joined(x))
      BY DEF BrokerInv, CountsAreMembers
    <3>2. /\ slot'[x].consumers = slot[x].consumers
               - AsReader(member[m], x) + AsReader(new, x)
          /\ group'[x].active = group[x].active
               - AsJoined(member[m], x) + AsJoined(new, x)
      OBVIOUS
    <3>3. /\ Cardinality(Readers(x)') = Cardinality(Readers(x)) - AsReader(member[m], x) + AsReader(new, x)
          /\ Cardinality(Joined(x)') = Cardinality(Joined(x)) - AsJoined(member[m], x) + AsJoined(new, x)
      BY CountsMove
    <3> QED
      BY <3>1, <3>2, <3>3
  <2> QED
    BY <2>1 DEF CountsAreMembers
<1> QED
  BY <1>4, <1>5, <1>6

\* The steps of a member: it creates or finds a group, joins it, and drops its
\* Subscriber and its handle, the last of which shuts the group down.
LEMMA MemberStep ==
    ASSUME BrokerInv, NEW m \in Members,
           \/ \E s \in Slots : CreateGroup(m, s)
           \/ FindGroup(m) \/ Join(m) \/ DropReader(m) \/ DropHandle(m) \/ Shutdown(m)
    PROVE  BrokerInv'
<1> USE NoSlotAssumption
<1>1. /\ slot \in [Slots -> TargetState] /\ group \in [Slots -> GroupState]
      /\ leaving \in [Slots -> {"unused", "no", "stored", "bumped", "over", "gone"}]
  BY BrokerTypes
<1>2. SenderUntilRemoval /\ RouteUntilRemoved /\ DispatcherPhase /\ SendInv /\ ShutdownMarks
  BY DEF BrokerInv
<1>3. member[m] \in MemberState /\ member \in [Members -> MemberState]
  BY BrokerTypes
<1>4. /\ member[m].at # "out" => member[m].slot \in Slots /\ IsGroup(member[m].slot)
      /\ member[m].at = "out" => member[m].slot = NoSlot
      /\ member[m].reader => member[m].at \notin {"out", "found"}
  BY <1>3 DEF BrokerInv, MembersInGroups, MemberState
<1>5. ASSUME NEW s \in Slots, CreateGroup(m, s) PROVE BrokerInv'
  <2> DEFINE new == [at |-> "found", slot |-> s, reader |-> FALSE]
  <2>1. /\ new \in MemberState /\ member' = [member EXCEPT ![m] = new]
        /\ new.at = "found" /\ new.slot = s /\ ~new.reader
    BY <1>5 DEF CreateGroup, Found, MemberState
  <2> HIDE DEF new
  <2>2. slot'[s] = [kind |-> "LoadBalanced", sender |-> TRUE, version |-> 1, receiver |-> TRUE,
                    consumers |-> 0]
    BY <1>1, <1>5 DEF CreateGroup, Fresh
  <2>3. slot'[s] \in TargetState
    BY <2>2 DEF TargetState
  <2>4. slot' \in [Slots -> TargetState] /\ \A x \in Slots \ {s} : slot'[x] = slot[x]
    BY <1>1, <1>5, <2>3 DEF CreateGroup
  <2>5. /\ group' \in [Slots -> GroupState]
        /\ group'[s] = [disp |-> "running", active |-> 0]
        /\ \A x \in Slots \ {s} : group'[x] = group[x]
    BY <1>1, <1>5 DEF CreateGroup, GroupState
  <2>6. leaving'[s] = "no" /\ \A x \in Slots \ {s} : leaving'[x] = leaving[x]
    BY <1>1, <1>5 DEF CreateGroup
  <2>7. leaving[s] = "unused" /\ ~IsGroup(s)
    BY <1>2, <1>5 DEF CreateGroup, DispatcherPhase
  <2>8. slot[s].consumers = 0 /\ group[s].active = 0
    BY <2>7, OnlyGroupsCount
  <2>9. MembersInGroups' /\ ShutdownMarks' /\ CountsAreMembers'
    <3>1. member[m].slot = NoSlot /\ ~member[m].reader
      BY <1>4, <1>5 DEF CreateGroup
    <3>2. \A x \in Slots : slot'[x].consumers = slot[x].consumers /\ group'[x].active = group[x].active
      BY <2>2, <2>4, <2>5, <2>8
    <3>3. \A x \in Slots : slot[x].consumers \in Nat /\ group[x].active \in Nat
      BY <1>1 DEF TargetState, GroupState
    <3>4. \A x \in Slots : slot[x].kind = "LoadBalanced" =>
            slot'[x].kind = "LoadBalanced" /\ (slot'[x].sender => slot[x].sender)
      BY <2>4, <2>7 DEF IsGroup
    <3>5. slot'[new.slot].kind = "LoadBalanced"
      BY <2>1, <2>2
    <3> QED
      <4>1. \A x \in Slots : /\ AsReader(member[m], x) = 0 /\ AsReader(new, x) = 0
                             /\ AsJoined(member[m], x) = 0 /\ AsJoined(new, x) = 0
        BY <1>4, <1>5, <2>1, <3>1 DEF CreateGroup, AsReader, AsJoined
      <4>2. \A x \in Slots :
              /\ slot'[x].consumers = slot[x].consumers - AsReader(member[m], x) + AsReader(new, x)
              /\ group'[x].active = group[x].active - AsJoined(member[m], x) + AsJoined(new, x)
        BY <3>2, <3>3, <4>1
      <4> QED
        BY <1>5, <2>1, <3>4, <3>5, <4>2, MemberMoves
  <2>10. SenderUntilRemoval'
    BY <1>2, <2>2, <2>4, <2>6 DEF SenderUntilRemoval
  <2>11. RouteUntilRemoved'
    BY <1>2, <1>5, <2>6 DEF CreateGroup, RouteUntilRemoved
  <2>12. DispatcherPhase'
    BY <1>2, <2>2, <2>4, <2>5, <2>6 DEF DispatcherPhase, IsGroup
  <2>13. SendInv'
    BY <1>2, <1>5, <2>6, <2>7, OthersKeepSendInv DEF CreateGroup, SendInv
  <2>14. BrokerTypeOK'
    BY <1>3, <1>5, <2>1, <2>4, <2>5, <2>13 DEF CreateGroup, BrokerInv, BrokerTypeOK, SendInv
  <2> QED
    BY <2>9, <2>10, <2>11, <2>12, <2>13, <2>14 DEF BrokerInv
<1>6. CASE FindGroup(m)
  <2> DEFINE new == [at |-> "found", slot |-> route, reader |-> FALSE]
  <2>1. /\ new \in MemberState /\ member' = [member EXCEPT ![m] = new]
        /\ new.at = "found" /\ new.slot = route /\ ~new.reader
        /\ route \in Slots /\ slot[route].kind = "LoadBalanced"
    BY <1>6 DEF FindGroup, Found, MemberState, BrokerInv, BrokerTypeOK, IsGroup
  <2> HIDE DEF new
  <2>2. UNCHANGED <<route, slot, leaving, queue, cache, task, group>>
    BY <1>6 DEF FindGroup, vars
  <2>3. \A x \in Slots : /\ AsReader(member[m], x) = 0 /\ AsReader(new, x) = 0
                         /\ AsJoined(member[m], x) = 0 /\ AsJoined(new, x) = 0
    BY <1>4, <1>6, <2>1 DEF FindGroup, AsReader, AsJoined
  <2>4. \A x \in Slots : slot[x].consumers \in Nat /\ group[x].active \in Nat
    BY <1>1 DEF TargetState, GroupState
  <2>5. \A x \in Slots :
            /\ slot'[x].consumers = slot[x].consumers - AsReader(member[m], x) + AsReader(new, x)
            /\ group'[x].active = group[x].active - AsJoined(member[m], x) + AsJoined(new, x)
    BY <2>2, <2>3, <2>4
  <2>6. MembersInGroups' /\ ShutdownMarks' /\ CountsAreMembers'
    BY <2>1, <2>2, <2>5, MemberMoves
  <2>7. SendInv'
    BY <1>2, <2>2, OthersKeepSendInv DEF SendInv
  <2>8. member' \in [Members -> MemberState]
    BY <1>3, <2>1
  <2> QED
    BY <2>2, <2>6, <2>7, <2>8
    DEF BrokerInv, BrokerTypeOK, SenderUntilRemoval, RouteUntilRemoved, DispatcherPhase, IsGroup
<1>7. CASE Join(m)
  <2> DEFINE new == [member[m] EXCEPT !.at = "in", !.reader = TRUE]
  <2> DEFINE s == member[m].slot
  <2>1. /\ new \in MemberState /\ new.at = "in" /\ new.slot = s /\ new.reader
        /\ s \in Slots /\ IsGroup(s) /\ ~member[m].reader /\ member[m].at = "found"
    BY <1>3, <1>4, <1>7 DEF Join, MemberState
  <2>2. member' = [member EXCEPT ![m] = new]
    BY <1>3, <1>7 DEF Join
  <2> HIDE DEF new, s
  <2>3. UNCHANGED <<route, leaving, queue, cache, task>>
    BY <1>7 DEF Join
  <2>4. /\ slot' = [slot EXCEPT ![s].consumers = @ + 1]
        /\ group' = [group EXCEPT ![s].active = @ + 1]
    BY <1>7 DEF Join, s
  <2>5. /\ slot' \in [Slots -> TargetState]
        /\ \A x \in Slots : slot'[x].kind = slot[x].kind /\ slot'[x].sender = slot[x].sender
        /\ \A x \in Slots : slot'[x].consumers = IF x = s THEN slot[x].consumers + 1
                                                          ELSE slot[x].consumers
    BY <1>1, <2>1, <2>4 DEF TargetState
  <2>6. /\ group' \in [Slots -> GroupState]
        /\ \A x \in Slots : group'[x].disp = group[x].disp
        /\ \A x \in Slots : group'[x].active = IF x = s THEN group[x].active + 1
                                                        ELSE group[x].active
    BY <1>1, <2>1, <2>4 DEF GroupState
  <2>7. \A x \in Slots : /\ AsReader(member[m], x) = 0 /\ AsReader(new, x) = IF x = s THEN 1 ELSE 0
                         /\ AsJoined(member[m], x) = 0 /\ AsJoined(new, x) = IF x = s THEN 1 ELSE 0
    BY <2>1 DEF AsReader, AsJoined
  <2>8. \A x \in Slots : slot[x].consumers \in Nat /\ group[x].active \in Nat
    BY <1>1 DEF TargetState, GroupState
  <2>9. \A x \in Slots :
            /\ slot'[x].consumers = slot[x].consumers - AsReader(member[m], x) + AsReader(new, x)
            /\ group'[x].active = group[x].active - AsJoined(member[m], x) + AsJoined(new, x)
    BY <2>5, <2>6, <2>7, <2>8
  <2>10. MembersInGroups' /\ ShutdownMarks' /\ CountsAreMembers'
    <3>1. new.slot # NoSlot => slot'[new.slot].kind = "LoadBalanced"
      BY <2>1, <2>5 DEF IsGroup
    <3>2. new.slot = NoSlot <=> new.at = "out"
      BY <2>1
    <3>3. /\ new.reader => new.at \notin {"out", "found"}
          /\ new.at = "bump" => ~slot'[new.slot].sender
      BY <2>1
    <3>4. \A x \in Slots : slot[x].kind = "LoadBalanced" =>
              slot'[x].kind = "LoadBalanced" /\ (slot'[x].sender => slot[x].sender)
      BY <2>5
    <3>5. new \in MemberState
      BY <2>1
    <3> QED
      BY <2>2, <2>9, <3>1, <3>2, <3>3, <3>4, <3>5, MemberMoves
  <2>11. SendInv'
    BY <1>2, <2>3, OthersKeepSendInv DEF SendInv
  <2>12. member' \in [Members -> MemberState]
    BY <1>3, <2>1, <2>2
  <2> QED
    BY <2>3, <2>5, <2>6, <2>10, <2>11, <2>12
    DEF BrokerInv, BrokerTypeOK, SenderUntilRemoval, RouteUntilRemoved, DispatcherPhase, IsGroup
<1>8. CASE DropReader(m)
  <2> DEFINE new == IF member[m].at = "left" THEN Out ELSE [member[m] EXCEPT !.reader = FALSE]
  <2> DEFINE s == member[m].slot
  <2>1. s \in Slots /\ IsGroup(s) /\ member[m].reader /\ member[m].at \notin {"out", "found"}
    BY <1>3, <1>4, <1>8 DEF DropReader
  <2>2. /\ new \in MemberState /\ ~new.reader
        /\ member[m].at = "left" => new.at = "out" /\ new.slot = NoSlot
        /\ member[m].at # "left" => new.at = member[m].at /\ new.slot = s
    BY <1>3, <2>1 DEF MemberState, Out
  <2>3. member' = [member EXCEPT ![m] = new]
    BY <1>3, <1>8 DEF DropReader
  <2> HIDE DEF new, s
  <2>4. UNCHANGED <<route, leaving, queue, cache, task, group>>
    BY <1>8 DEF DropReader
  <2>5. slot' = [slot EXCEPT ![s].consumers = @ - 1]
    BY <1>8 DEF DropReader, s
  <2>6. \A x \in Slots : slot[x].consumers \in Nat /\ group[x].active \in Nat
    BY <1>1 DEF TargetState, GroupState
  <2>7. slot[s].consumers > 0
    <3>1. m \in Readers(s)
      BY <2>1 DEF Readers, s
    <3>2. Cardinality(Readers(s)) # 0
      BY <3>1, CountedFinite, FS_EmptySet
    <3> QED
      BY <2>1, <2>6, <3>2 DEF BrokerInv, CountsAreMembers
  <2>8. slot[s].consumers - 1 \in Nat
    BY <2>1, <2>6, <2>7
  <2>9. slot' \in [Slots -> TargetState]
    BY <1>1, <2>1, <2>5, <2>8 DEF TargetState
  <2>10. \A x \in Slots : slot'[x].kind = slot[x].kind /\ slot'[x].sender = slot[x].sender
    BY <1>1, <2>1, <2>5 DEF TargetState
  <2>11. \A x \in Slots : slot'[x].consumers = IF x = s THEN slot[x].consumers - 1
                                                        ELSE slot[x].consumers
    BY <1>1, <2>1, <2>5 DEF TargetState
  <2>12. \A x \in Slots : /\ AsReader(member[m], x) = IF x = s THEN 1 ELSE 0
                          /\ AsReader(new, x) = 0
                          /\ AsJoined(member[m], x) = AsJoined(new, x)
                          /\ AsJoined(new, x) \in Nat
    BY <2>1, <2>2 DEF AsReader, AsJoined, s
  <2>13. \A x \in Slots :
            /\ slot'[x].consumers = slot[x].consumers - AsReader(member[m], x) + AsReader(new, x)
            /\ group'[x].active = group[x].active - AsJoined(member[m], x) + AsJoined(new, x)
    BY <2>4, <2>6, <2>11, <2>12
  <2>14. MembersInGroups' /\ ShutdownMarks' /\ CountsAreMembers'
    <3>1. new.slot = NoSlot <=> new.at = "out"
      BY <2>1, <2>2
    <3>2. new.slot # NoSlot => slot'[new.slot].kind = "LoadBalanced"
      BY <2>1, <2>2, <2>10 DEF IsGroup
    <3>3. new.at = "bump" => ~slot'[new.slot].sender
      BY <1>2, <2>1, <2>2, <2>10 DEF ShutdownMarks, s
    <3> QED
      BY <2>2, <2>3, <2>10, <2>13, <3>1, <3>2, <3>3, MemberMoves
  <2>15. SendInv'
    BY <1>2, <2>4, OthersKeepSendInv DEF SendInv
  <2>16. member' \in [Members -> MemberState]
    BY <1>3, <2>2, <2>3
  <2> QED
    BY <2>4, <2>9, <2>10, <2>14, <2>15, <2>16
    DEF BrokerInv, BrokerTypeOK, SenderUntilRemoval, RouteUntilRemoved, DispatcherPhase, IsGroup
<1>9. CASE DropHandle(m)
  <2> DEFINE s == member[m].slot
  <2> DEFINE last == group[s].active = 1
  <2> DEFINE new == IF last THEN [member[m] EXCEPT !.at = "store"]
                    ELSE IF member[m].reader THEN [member[m] EXCEPT !.at = "left"] ELSE Out
  <2>1. s \in Slots /\ IsGroup(s) /\ member[m].at = "in"
    BY <1>3, <1>4, <1>9 DEF DropHandle
  <2>2. /\ new \in MemberState /\ new.at \in {"store", "left", "out"}
        /\ new.at = "out" => new.slot = NoSlot /\ ~new.reader /\ ~member[m].reader
        /\ new.at # "out" => new.slot = s /\ new.reader = member[m].reader
    BY <1>3, <2>1 DEF MemberState, Out
  <2>3. member' = [member EXCEPT ![m] = new]
    BY <1>3, <1>9 DEF DropHandle, HandleGone
  <2>4. UNCHANGED <<route, slot, leaving, queue, cache, task>>
    BY <1>9 DEF DropHandle, vars
  <2>5. \A x \in Slots : slot[x].consumers \in Nat /\ group[x].active \in Nat
    BY <1>1 DEF TargetState, GroupState
  <2>6. group[s].active > 0
    <3>1. m \in Joined(s)
      BY <2>1 DEF Joined, s
    <3>2. Cardinality(Joined(s)) # 0
      BY <3>1, CountedFinite, FS_EmptySet
    <3> QED
      BY <2>1, <2>5, <3>2 DEF BrokerInv, CountsAreMembers
  <2>7. group[s].active - 1 \in Nat
    BY <2>1, <2>5, <2>6
  <2> HIDE DEF new
  <2>8. group' = [group EXCEPT ![s].active = @ - 1,
                               ![s].disp = IF last /\ @ = "running" THEN "aborted" ELSE @]
    BY <1>9 DEF DropHandle
  <2> HIDE DEF s, last
  <2>9. /\ group' \in [Slots -> GroupState]
        /\ \A x \in Slots : \/ group'[x].disp = group[x].disp
                            \/ group[x].disp = "running" /\ group'[x].disp = "aborted"
        /\ \A x \in Slots : group'[x].active = IF x = s THEN group[x].active - 1
                                                        ELSE group[x].active
    BY <1>1, <2>1, <2>7, <2>8 DEF GroupState
  <2>10. \A x \in Slots : /\ AsReader(member[m], x) = AsReader(new, x) /\ AsReader(new, x) \in Nat
                          /\ AsJoined(member[m], x) = IF x = s THEN 1 ELSE 0
                          /\ AsJoined(new, x) = 0
    BY <2>1, <2>2 DEF AsReader, AsJoined, s
  <2>11. \A x \in Slots :
            /\ slot'[x].consumers = slot[x].consumers - AsReader(member[m], x) + AsReader(new, x)
            /\ group'[x].active = group[x].active - AsJoined(member[m], x) + AsJoined(new, x)
    BY <2>4, <2>5, <2>9, <2>10
  <2>12. MembersInGroups' /\ ShutdownMarks' /\ CountsAreMembers'
    <3>1. new.slot = NoSlot <=> new.at = "out"
      BY <2>1, <2>2
    <3>2. new.slot # NoSlot => slot'[new.slot].kind = "LoadBalanced"
      BY <2>1, <2>2, <2>4 DEF IsGroup
    <3> QED
      BY <2>2, <2>3, <2>4, <2>11, <3>1, <3>2, MemberMoves
  <2>13. SendInv'
    BY <1>2, <2>4, OthersKeepSendInv DEF SendInv
  <2>14. member' \in [Members -> MemberState]
    BY <1>3, <2>2, <2>3
  <2>15. DispatcherPhase'
    BY <1>2, <2>4, <2>9 DEF DispatcherPhase, IsGroup
  <2> QED
    BY <2>4, <2>9, <2>12, <2>13, <2>14, <2>15
    DEF BrokerInv, BrokerTypeOK, SenderUntilRemoval, RouteUntilRemoved
<1>10. CASE ShutdownStore(m)
  <2> DEFINE s == member[m].slot
  <2> DEFINE new == [member[m] EXCEPT !.at = "bump"]
  <2>1. s \in Slots /\ IsGroup(s) /\ member[m].at = "store"
    BY <1>3, <1>4, <1>10 DEF ShutdownStore
  <2>2. new \in MemberState /\ new.at = "bump" /\ new.slot = s /\ new.reader = member[m].reader
    BY <1>3, <2>1 DEF MemberState
  <2>3. member' = [member EXCEPT ![m] = new]
    BY <1>3, <1>10 DEF ShutdownStore
  <2> HIDE DEF new
  <2>4. UNCHANGED <<route, leaving, queue, cache, task, group>>
    BY <1>10 DEF ShutdownStore
  <2>5. slot' = [slot EXCEPT ![s].sender = FALSE]
    BY <1>10 DEF ShutdownStore
  <2> HIDE DEF s
  <2>6. slot' \in [Slots -> TargetState]
    BY <1>1, <2>1, <2>5 DEF TargetState
  <2>7. \A x \in Slots : slot'[x].kind = slot[x].kind /\ slot'[x].consumers = slot[x].consumers
    BY <1>1, <2>1, <2>5 DEF TargetState
  <2>8. ~slot'[s].sender /\ \A x \in Slots : slot'[x].sender => slot[x].sender
    BY <1>1, <2>1, <2>5 DEF TargetState
  <2>9. \A x \in Slots : slot[x].consumers \in Nat /\ group[x].active \in Nat
    BY <1>1 DEF TargetState, GroupState
  <2>10. \A x \in Slots : /\ AsReader(member[m], x) = AsReader(new, x) /\ AsReader(new, x) \in Nat
                          /\ AsJoined(member[m], x) = 0 /\ AsJoined(new, x) = 0
    BY <2>1, <2>2 DEF AsReader, AsJoined, s
  <2>11. \A x \in Slots :
            /\ slot'[x].consumers = slot[x].consumers - AsReader(member[m], x) + AsReader(new, x)
            /\ group'[x].active = group[x].active - AsJoined(member[m], x) + AsJoined(new, x)
    BY <2>4, <2>7, <2>9, <2>10
  <2>12. MembersInGroups' /\ ShutdownMarks' /\ CountsAreMembers'
    <3>1. new.slot # NoSlot => slot'[new.slot].kind = "LoadBalanced"
      BY <2>1, <2>2, <2>7 DEF IsGroup
    <3>2. ~slot'[new.slot].sender
      BY <2>2, <2>8
    <3> QED
      BY <2>1, <2>2, <2>3, <2>7, <2>8, <2>11, <3>1, <3>2, MemberMoves
  <2>13. SendInv'
    BY <1>2, <2>4, OthersKeepSendInv DEF SendInv
  <2>14. member' \in [Members -> MemberState]
    BY <1>3, <2>2, <2>3
  <2> QED
    BY <2>4, <2>6, <2>7, <2>8, <2>12, <2>13, <2>14
    DEF BrokerInv, BrokerTypeOK, SenderUntilRemoval, RouteUntilRemoved, DispatcherPhase, IsGroup
<1>11. CASE ShutdownBump(m)
  <2> DEFINE s == member[m].slot
  <2> DEFINE new == IF member[m].reader THEN [member[m] EXCEPT !.at = "left"] ELSE Out
  <2>1. s \in Slots /\ IsGroup(s) /\ member[m].at = "bump" /\ ~slot[s].sender
    BY <1>2, <1>3, <1>4, <1>11 DEF ShutdownBump, ShutdownMarks
  <2>2. /\ new \in MemberState /\ new.at \in {"left", "out"}
        /\ new.at = "out" => new.slot = NoSlot /\ ~new.reader /\ ~member[m].reader
        /\ new.at # "out" => new.slot = s /\ new.reader = member[m].reader
    BY <1>3, <2>1 DEF MemberState, Out
  <2>3. member' = [member EXCEPT ![m] = new]
    BY <1>3, <1>11 DEF ShutdownBump, HandleGone
  <2> HIDE DEF new
  <2>4. UNCHANGED <<route, queue, cache, task, group>>
    BY <1>11 DEF ShutdownBump
  <2>5. /\ slot' = [slot EXCEPT ![s].version = @ + 1]
        /\ leaving' = [leaving EXCEPT ![s] = IF @ = "no" THEN "over" ELSE @]
    BY <1>11 DEF ShutdownBump
  <2> HIDE DEF s
  <2>6. slot' \in [Slots -> TargetState]
    BY <1>1, <2>1, <2>5 DEF TargetState
  <2>7. \A x \in Slots : slot'[x].kind = slot[x].kind /\ slot'[x].consumers = slot[x].consumers
    BY <1>1, <2>1, <2>5 DEF TargetState
  <2>8. \A x \in Slots : slot'[x].sender = slot[x].sender
    BY <1>1, <2>1, <2>5 DEF TargetState
  <2>9. \A x \in Slots : slot[x].consumers \in Nat /\ group[x].active \in Nat
    BY <1>1 DEF TargetState, GroupState
  <2>10. \A x \in Slots : /\ AsReader(member[m], x) = AsReader(new, x) /\ AsReader(new, x) \in Nat
                          /\ AsJoined(member[m], x) = 0 /\ AsJoined(new, x) = 0
    BY <2>1, <2>2 DEF AsReader, AsJoined, s
  <2>11. \A x \in Slots :
            /\ slot'[x].consumers = slot[x].consumers - AsReader(member[m], x) + AsReader(new, x)
            /\ group'[x].active = group[x].active - AsJoined(member[m], x) + AsJoined(new, x)
    BY <2>4, <2>7, <2>9, <2>10
  <2>12. MembersInGroups' /\ ShutdownMarks' /\ CountsAreMembers'
    <3>1. new.slot = NoSlot <=> new.at = "out"
      BY <2>1, <2>2
    <3>2. new.slot # NoSlot => slot'[new.slot].kind = "LoadBalanced"
      BY <2>1, <2>2, <2>7 DEF IsGroup
    <3> QED
      BY <2>2, <2>3, <2>7, <2>8, <2>11, <3>1, <3>2, MemberMoves
  <2>13. \A x \in Slots : \/ leaving'[x] = leaving[x]
                          \/ x = s /\ leaving[x] = "no" /\ leaving'[x] = "over"
    BY <1>1, <2>1, <2>5
  <2>14. SendInv'
    BY <1>2, <2>4, <2>13, OthersKeepSendInv DEF SendInv
  <2>15. SenderUntilRemoval'
    BY <1>2, <2>1, <2>8, <2>13 DEF SenderUntilRemoval
  <2>16. RouteUntilRemoved'
    BY <1>2, <2>4, <2>13 DEF RouteUntilRemoved
  <2>17. DispatcherPhase'
    BY <1>2, <2>4, <2>7, <2>13 DEF DispatcherPhase, IsGroup
  <2>18. member' \in [Members -> MemberState]
    BY <1>3, <2>2, <2>3
  <2>19. leaving' \in [Slots -> {"unused", "no", "stored", "bumped", "over", "gone"}]
    BY <1>1, <2>1, <2>5
  <2> QED
    BY <2>4, <2>6, <2>12, <2>14, <2>15, <2>16, <2>17, <2>18, <2>19 DEF BrokerInv, BrokerTypeOK
<1> QED
  BY <1>5, <1>6, <1>7, <1>8, <1>9, <1>10, <1>11 DEF Shutdown
\* The steps of a group's dispatcher, and the end of the group.
LEMMA DispatcherStep ==
    ASSUME BrokerInv, NEW s \in Slots, DispatcherTakes(s) \/ Dispatcher(s) \/ FreeGroup(s)
    PROVE  BrokerInv'
<1> USE NoSlotAssumption
<1>1. /\ slot \in [Slots -> TargetState] /\ group \in [Slots -> GroupState]
      /\ leaving \in [Slots -> {"unused", "no", "stored", "bumped", "over", "gone"}]
  BY BrokerTypes
<1>2. SenderUntilRemoval /\ RouteUntilRemoved /\ DispatcherPhase /\ SendInv
  BY DEF BrokerInv
\* The dispatcher's own state is not the members' business.
<1>3. ASSUME UNCHANGED member, \A x \in Slots : group'[x].active = group[x].active,
             \A x \in Slots : slot'[x].kind = slot[x].kind /\ slot'[x].consumers = slot[x].consumers,
             \A x \in Slots : slot'[x].sender => slot[x].sender
      PROVE  MembersInGroups' /\ ShutdownMarks' /\ CountsAreMembers'
  <2>1. \A m \in Members : member[m].slot \in Slots \cup {NoSlot}
    BY BrokerTypes DEF MemberState
  <2>2. MembersInGroups'
    BY <1>3, <2>1 DEF BrokerInv, MembersInGroups, IsGroup
  <2>3. ShutdownMarks'
    <3>1. \A m \in Members : member[m].at = "bump" =>
              member[m].slot \in Slots /\ ~slot[member[m].slot].sender
      BY <2>1 DEF BrokerInv, MembersInGroups, ShutdownMarks
    <3> QED
      BY <1>3, <3>1 DEF ShutdownMarks
  <2>4. CountsAreMembers'
    BY <1>3 DEF BrokerInv, CountsAreMembers, Readers, Joined
  <2> QED
    BY <2>2, <2>3, <2>4
<1>4. CASE DispatcherTakes(s)
  <2>1. queue' \in [Slots -> 0..Capacity]
    BY CapacityAssumption, <1>2, <1>4 DEF DispatcherTakes, SendInv
  <2>2. UNCHANGED <<route, slot, leaving, cache, task, member, group>>
    BY <1>4 DEF DispatcherTakes, subscribers, groups
  <2>3. SendInv'
    BY <1>2, <2>1, <2>2, OthersKeepSendInv
  <2>4. MembersInGroups' /\ ShutdownMarks' /\ CountsAreMembers'
    BY <1>3, <2>2
  <2> QED
    BY <2>1, <2>2, <2>3, <2>4
    DEF BrokerInv, BrokerTypeOK, SenderUntilRemoval, RouteUntilRemoved, DispatcherPhase, IsGroup
<1>5. CASE Reap(s)
  <2>1. UNCHANGED <<route, leaving, cache, task, member>>
    BY <1>5 DEF Reap
  <2>2. /\ group' \in [Slots -> GroupState]
        /\ \A x \in Slots : group'[x].active = group[x].active
        /\ group[s].disp = "aborted" /\ group'[s].disp = "dead"
        /\ \A x \in Slots \ {s} : group'[x].disp = group[x].disp
    BY <1>1, <1>5 DEF Reap, GroupState
  <2>3. slot' \in [Slots -> TargetState]
    BY <1>1, <1>5 DEF Reap, TargetState
  <2>4. \A x \in Slots : /\ slot'[x].kind = slot[x].kind /\ slot'[x].consumers = slot[x].consumers
                         /\ slot'[x].sender = slot[x].sender
    BY <1>1, <1>5 DEF Reap, TargetState
  <2>5. queue' \in [Slots -> 0..Capacity]
    BY CapacityAssumption, <1>2, <1>5 DEF Reap, SendInv
  <2>6. SendInv'
    BY <1>2, <2>1, <2>5, OthersKeepSendInv
  <2>7. DispatcherPhase'
    BY <1>2, <2>1, <2>2, <2>4 DEF DispatcherPhase, IsGroup
  <2>8. MembersInGroups' /\ ShutdownMarks' /\ CountsAreMembers'
    BY <1>3, <2>1, <2>2, <2>4
  <2> QED
    BY <2>1, <2>2, <2>3, <2>4, <2>5, <2>6, <2>7, <2>8
    DEF BrokerInv, BrokerTypeOK, SenderUntilRemoval, RouteUntilRemoved
<1>6. CASE LeaveLoop(s)
  <2>1. UNCHANGED <<route, slot, leaving, queue, cache, task, member>>
    BY <1>6 DEF LeaveLoop, vars
  <2>2. /\ group' \in [Slots -> GroupState]
        /\ \A x \in Slots : group'[x].active = group[x].active
        /\ group[s].disp = "aborted" /\ group'[s].disp = "cleanup"
        /\ \A x \in Slots \ {s} : group'[x].disp = group[x].disp
    BY <1>1, <1>6 DEF LeaveLoop, GroupState
  <2>3. SendInv'
    BY <1>2, <2>1, OthersKeepSendInv DEF SendInv
  <2>4. DispatcherPhase'
    BY <1>2, <2>1, <2>2 DEF DispatcherPhase, IsGroup
  <2>5. MembersInGroups' /\ ShutdownMarks' /\ CountsAreMembers'
    BY <1>3, <2>1, <2>2
  <2> QED
    BY <2>1, <2>2, <2>3, <2>4, <2>5
    DEF BrokerInv, BrokerTypeOK, SenderUntilRemoval, RouteUntilRemoved
<1>7. CASE UnregisterGroup(s)
  <2>1. UNCHANGED <<route, queue, cache, task, member>>
    BY <1>7 DEF UnregisterGroup
  <2>2. /\ group' \in [Slots -> GroupState]
        /\ \A x \in Slots : group'[x].active = group[x].active
        /\ group[s].disp = "cleanup" /\ group'[s].disp = "unregister"
        /\ \A x \in Slots \ {s} : group'[x].disp = group[x].disp
    BY <1>1, <1>7 DEF UnregisterGroup, GroupState
  <2>3. slot' = [slot EXCEPT ![s].sender = FALSE, ![s].version = @ + 1]
    BY <1>7 DEF UnregisterGroup
  <2>4. slot' \in [Slots -> TargetState]
    BY <1>1, <2>3 DEF TargetState
  <2>5. \A x \in Slots : slot'[x].kind = slot[x].kind /\ slot'[x].consumers = slot[x].consumers
    BY <1>1, <2>3 DEF TargetState
  <2>6. ~slot'[s].sender /\ \A x \in Slots : slot'[x].sender => slot[x].sender
    BY <1>1, <2>3 DEF TargetState
  <2>7. leaving'[s] = "bumped" /\ \A x \in Slots \ {s} : leaving'[x] = leaving[x]
    BY <1>1, <1>7 DEF UnregisterGroup
  <2>8. leaving[s] \in {"no", "over"}
    BY <1>2, <2>2 DEF DispatcherPhase
  <2>9. SendInv'
    BY <1>2, <2>1, <2>7, OthersKeepSendInv DEF SendInv
  <2>10. SenderUntilRemoval'
    BY <1>2, <2>6, <2>7 DEF SenderUntilRemoval
  <2>11. RouteUntilRemoved'
    BY <1>2, <2>1, <2>7, <2>8 DEF RouteUntilRemoved
  <2>12. DispatcherPhase'
    BY <1>2, <2>2, <2>5, <2>7 DEF DispatcherPhase, IsGroup
  <2>13. MembersInGroups' /\ ShutdownMarks' /\ CountsAreMembers'
    BY <1>3, <2>1, <2>2, <2>5, <2>6
  <2>14. leaving' \in [Slots -> {"unused", "no", "stored", "bumped", "over", "gone"}]
    BY <1>1, <1>7 DEF UnregisterGroup
  <2> QED
    BY <2>1, <2>2, <2>4, <2>9, <2>10, <2>11, <2>12, <2>13, <2>14 DEF BrokerInv, BrokerTypeOK
<1>8. CASE DispatcherEnds(s)
  <2>1. UNCHANGED <<route, leaving, queue, cache, task, member>>
    BY <1>8 DEF DispatcherEnds
  <2>2. /\ group' \in [Slots -> GroupState]
        /\ \A x \in Slots : group'[x].active = group[x].active
        /\ group[s].disp = "unregister" /\ group'[s].disp = "dead"
        /\ \A x \in Slots \ {s} : group'[x].disp = group[x].disp
    BY <1>1, <1>8 DEF DispatcherEnds, GroupState
  <2>3. slot' \in [Slots -> TargetState]
    BY <1>1, <1>8 DEF DispatcherEnds, TargetState
  <2>4. \A x \in Slots : /\ slot'[x].kind = slot[x].kind /\ slot'[x].consumers = slot[x].consumers
                         /\ slot'[x].sender = slot[x].sender
    BY <1>1, <1>8 DEF DispatcherEnds, TargetState
  <2>5. SendInv'
    BY <1>2, <2>1, OthersKeepSendInv DEF SendInv
  <2>6. DispatcherPhase'
    BY <1>2, <2>1, <2>2, <2>4 DEF DispatcherPhase, IsGroup
  <2>7. MembersInGroups' /\ ShutdownMarks' /\ CountsAreMembers'
    BY <1>3, <2>1, <2>2, <2>4
  <2> QED
    BY <2>1, <2>2, <2>3, <2>4, <2>5, <2>6, <2>7
    DEF BrokerInv, BrokerTypeOK, SenderUntilRemoval, RouteUntilRemoved
<1>9. CASE FreeGroup(s)
  <2>1. UNCHANGED <<route, queue, cache, member>>
    BY <1>9 DEF FreeGroup
  <2>2. slot'[s] = Fresh /\ \A x \in Slots \ {s} : slot'[x] = slot[x]
    BY <1>1, <1>9 DEF FreeGroup
  <2>3. /\ slot' \in [Slots -> TargetState]
        /\ slot'[s].consumers = 0 /\ slot'[s].kind = "Single" /\ ~slot'[s].sender
    BY <1>1, <1>9, <2>2 DEF FreeGroup, Fresh, TargetState
  <2>4. /\ group' \in [Slots -> GroupState]
        /\ group'[s].disp = "none" /\ group'[s].active = 0
        /\ \A x \in Slots \ {s} : group'[x] = group[x]
    BY <1>1, <1>9 DEF FreeGroup, GroupState, NoGroup
  <2>5. /\ leaving' \in [Slots -> {"unused", "no", "stored", "bumped", "over", "gone"}]
        /\ leaving[s] = "gone" /\ leaving'[s] = "unused"
        /\ \A x \in Slots \ {s} : leaving'[x] = leaving[x]
    BY <1>1, <1>9 DEF FreeGroup
  <2>6. \A m \in Members : member[m].slot # s
    BY <1>9 DEF FreeGroup
  <2>7. SendInv'
    BY <1>2, <1>9, <2>5, FreeKeepsSendInv DEF FreeGroup
  <2>8. SenderUntilRemoval'
    BY <1>2, <2>2, <2>3, <2>5 DEF SenderUntilRemoval
  <2>9. RouteUntilRemoved'
    BY <1>2, <2>1, <2>5 DEF RouteUntilRemoved
  <2>10. DispatcherPhase'
    BY <1>2, <2>2, <2>3, <2>4, <2>5 DEF DispatcherPhase, IsGroup
  <2>11. \A m \in Members : member[m].slot \in Slots \cup {NoSlot}
    BY BrokerTypes DEF MemberState
  <2>12. MembersInGroups'
    BY <2>1, <2>2, <2>6, <2>11 DEF BrokerInv, MembersInGroups, IsGroup
  <2>13. ShutdownMarks'
    <3>1. \A m \in Members : member[m].at = "bump" => member[m].slot \in Slots \ {s}
      BY <2>6, <2>11 DEF BrokerInv, MembersInGroups
    <3> QED
      BY <2>1, <2>2, <3>1 DEF BrokerInv, ShutdownMarks
  <2>14. CountsAreMembers'
    <3>1. Readers(s) = {} /\ Joined(s) = {}
      BY <2>6 DEF Readers, Joined
    <3>2. \A x : Readers(x)' = Readers(x) /\ Joined(x)' = Joined(x)
      BY <2>1 DEF Readers, Joined
    <3> QED
      BY <2>2, <2>3, <2>4, <3>1, <3>2, FS_EmptySet DEF BrokerInv, CountsAreMembers
  <2>15. member' \in [Members -> MemberState]
    BY <2>1, BrokerTypes
  <2> QED
    BY <2>1, <2>3, <2>4, <2>5, <2>7, <2>8, <2>9, <2>10, <2>12, <2>13, <2>14, <2>15
    DEF BrokerInv, BrokerTypeOK, SendInv
<1> QED
  BY <1>4, <1>5, <1>6, <1>7, <1>8, <1>9 DEF Dispatcher

\* The invariant holds initially and every step keeps it.
LEMMA BrokerInvInductive ==
    /\ BrokerInit => BrokerInv
    /\ BrokerInv /\ [BrokerNext]_brokerVars => BrokerInv'
<1>1. ASSUME BrokerInit PROVE BrokerInv
  <2>1. IInv
    BY <1>1, IInvInductive DEF BrokerInit
  <2>2. SendInv /\ SenderUntilRemoval /\ route = NoSlot
    BY <1>1, <2>1 DEF IInv, BrokerInit, Init
  <2>3. \A s \in Slots : slot[s] = Fresh /\ leaving[s] = "unused" /\ group[s] = NoGroup
    BY <1>1 DEF BrokerInit, Init
  <2>4. Fresh \in TargetState /\ Fresh.kind = "Single" /\ Fresh.consumers = 0
    BY DEF Fresh, TargetState
  <2>5. NoGroup \in GroupState /\ NoGroup.disp = "none" /\ NoGroup.active = 0
    BY DEF NoGroup, GroupState
  <2>6. Out \in MemberState /\ Out.at = "out" /\ Out.slot = NoSlot /\ ~Out.reader
    BY DEF Out, MemberState
  <2>7. \A m \in Members : member[m] = Out
    BY <1>1 DEF BrokerInit
  <2>8. BrokerTypeOK
    BY <1>1, <2>2, <2>4, <2>5, <2>6 DEF BrokerTypeOK, BrokerInit, Init, SendInv
  <2>9. RouteUntilRemoved /\ DispatcherPhase
    BY NoSlotAssumption, <2>2, <2>3, <2>4, <2>5 DEF RouteUntilRemoved, DispatcherPhase, IsGroup
  <2>10. MembersInGroups /\ ShutdownMarks
    BY <2>6, <2>7 DEF MembersInGroups, ShutdownMarks
  <2>11. \A s \in Slots : Readers(s) = {} /\ Joined(s) = {}
    BY <2>6, <2>7 DEF Readers, Joined
  <2>12. CountsAreMembers
    BY <2>3, <2>4, <2>5, <2>11, FS_EmptySet DEF CountsAreMembers
  <2> QED
    BY <2>2, <2>8, <2>9, <2>10, <2>12 DEF BrokerInv
<1>2. ASSUME BrokerInv, Next, UNCHANGED groups PROVE BrokerInv'
  BY <1>2, ExclusiveStep, SendersStep DEF Next
<1>3. ASSUME BrokerInv, NEW t \in Tasks, ClientSend(t) PROVE BrokerInv'
  BY <1>3, SendersStep DEF ClientSend
<1>4. ASSUME BrokerInv, UNCHANGED brokerVars PROVE BrokerInv'
  <2>1. SendInv'
    BY <1>4, OthersKeepSendInv DEF brokerVars, vars, BrokerInv, SendInv
  <2>2. MembersInGroups' /\ ShutdownMarks' /\ CountsAreMembers'
    BY <1>4, GroupsKept DEF brokerVars, vars, groups
  <2> QED
    BY <1>4, <2>1, <2>2
    DEF brokerVars, vars, BrokerInv, BrokerTypeOK, SenderUntilRemoval, RouteUntilRemoved,
        DispatcherPhase, IsGroup
<1> QED
  BY <1>1, <1>2, <1>3, <1>4, MemberStep, DispatcherStep DEF BrokerNext

-----------------------------------------------------------------------------
(* Theorems *)

\* The inductive invariant holds in every state of the broker: among others,
\* active_consumers and the senders of the request channel count the members.
THEOREM BrokerInvariance == BrokerSpec => []BrokerInv
BY BrokerInvInductive, PTL DEF BrokerSpec

\* Type correctness, and with it that active_consumers and the strong count of
\* the request channel are never decremented below zero.
THEOREM BrokerTypeCorrect == BrokerSpec => []BrokerTypeOK
<1>1. BrokerInv => BrokerTypeOK
  BY DEF BrokerInv
<1> QED
  BY <1>1, BrokerInvariance, PTL

\* Nothing that former targets and their members still do takes the address
\* away from a live target.
THEOREM LiveTargetRouted == BrokerSpec => []LiveTargetIsRouted
<1>1. BrokerInv => LiveTargetIsRouted
  BY DEF BrokerInv, LiveTargetIsRouted, RouteUntilRemoved, DispatcherPhase
<1> QED
  BY <1>1, BrokerInvariance, PTL

\* With groups on the address too, a send that was called after a removal (or
\* a group's shutdown) had returned does not reach that target's channel.
THEOREM BrokerFormerOwnerSafe == BrokerSpec => []NoSendToFormerOwner
<1>1. BrokerInv => NoSendToFormerOwner
  BY DEF BrokerInv, SendInv
<1> QED
  BY <1>1, BrokerInvariance, PTL
=============================================================================
