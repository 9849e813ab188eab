------------------------- MODULE ReplyDispatcherProofs -------------------------
(***************************************************************************)
(* Request/response for any set of calls, any assignment of message_ids    *)
(* and any channel capacities: no waiter leaks, a reply reaches only a     *)
(* call with its message_id, and a call whose message_id is its own is     *)
(* undisturbed by all others.                                              *)
(*                                                                         *)
(* The last needs more than is said of the unique call itself: that a      *)
(* guard never closes a foreign oneshot (NoLeakedWaiter), that a oneshot   *)
(* lives no longer than the body of its call (ShotWhilePending), and that  *)
(* the map is cleared only when no call is left (OwnerBorrowed).           *)
(***************************************************************************)
EXTENDS ReplyDispatcher, TLAPS

\* The receiver is dropped with the function body.
ShotWhilePending == \A c \in Calls : shot[c] # "none" => c \in Pending

\* A call borrows the client or the publisher it is made on until it is over.
OwnerBorrowed == \A c \in Unfinished : Callable(c)

\* The oneshot of a call with a message_id of its own is in the map until it
\* has the call's own reply.
UniqueWaits ==
    \A c \in Calls :
        Unique(c) =>
            /\ outcome[c] \in {"none", "unsent", "cancelled", "timeout", c}
            /\ shot[c] \in {"none", "open", c}
            /\ shot[c] = "open" => IdOf[c] \in DOMAIN waiters /\ waiters[IdOf[c]] = c

CallInv == NoLeakedWaiter /\ ShotWhilePending /\ OwnerBorrowed

IInv == TypeOK /\ CallInv /\ ReplyMatchesId /\ UniqueWaits

-----------------------------------------------------------------------------
(* Types *)

\* Dropping oneshot senders closes oneshots that are open, and nothing else.
LEMMA HangUpType ==
    ASSUME shot \in [Calls -> {"none", "open", "closed"} \cup Calls], NEW ids
    PROVE  HangUp(ids) \in [Calls -> {"none", "open", "closed"} \cup Calls]
BY DEF HangUp

\* Type correctness is inductive by itself.
LEMMA TypeStep == ASSUME TypeOK, [Next]_vars PROVE TypeOK'
<1> USE CapacityAssumption
<1>1. /\ call \in [Calls -> {"idle", "registered", "sent", "returning", "done"}]
      /\ outcome \in [Calls -> {"none"} \cup Failures \cup Calls]
      /\ shot \in [Calls -> {"none", "open", "closed"} \cup Calls]
      /\ inbox \in Seq(Calls) /\ Len(inbox) <= InboxCapacity
      /\ replyQ \in Seq(Calls) /\ Len(replyQ) <= ReplyCapacity
  BY DEF TypeOK
<1>2. ASSUME NEW c \in Calls, RegisterWaiter(c) PROVE TypeOK'
  <2>1. IdOf[c] \in Ids
    BY CallsAssumption
  <2>2. /\ call' \in [Calls -> {"idle", "registered", "sent", "returning", "done"}]
        /\ shot' \in [Calls -> {"none", "open", "closed"} \cup Calls]
    BY <1>1, <1>2 DEF RegisterWaiter
  <2>3. DOMAIN waiters' \subseteq Ids /\ \A i \in DOMAIN waiters' : waiters'[i] \in Calls
    BY <1>2, <2>1 DEF RegisterWaiter, TypeOK
  <2> QED
    BY <1>2, <2>2, <2>3 DEF RegisterWaiter, TypeOK, recipient, owners
<1>3. ASSUME NEW c \in Calls, RegisterRefused(c) PROVE TypeOK'
  <2>1. /\ call' \in [Calls -> {"idle", "registered", "sent", "returning", "done"}]
        /\ outcome' \in [Calls -> {"none"} \cup Failures \cup Calls]
    BY <1>1, <1>3 DEF RegisterRefused, Failures
  <2> QED
    BY <1>3, <2>1 DEF RegisterRefused, TypeOK, recipient, owners
<1>4. ASSUME NEW c \in Calls, Send(c) PROVE TypeOK'
  <2>1. /\ call' \in [Calls -> {"idle", "registered", "sent", "returning", "done"}]
        /\ inbox' \in Seq(Calls) /\ Len(inbox') <= InboxCapacity
    BY <1>1, <1>4 DEF Send
  <2> QED
    BY <1>4, <2>1 DEF Send, TypeOK, owners
<1>5. ASSUME NEW c \in Calls, NEW r \in Failures \cup Calls, Leave(c, r) PROVE TypeOK'
  <2>1. /\ call' \in [Calls -> {"idle", "registered", "sent", "returning", "done"}]
        /\ outcome' \in [Calls -> {"none"} \cup Failures \cup Calls]
        /\ shot' \in [Calls -> {"none", "open", "closed"} \cup Calls]
    BY <1>1, <1>5 DEF Leave
  <2> QED
    BY <1>5, <2>1 DEF Leave, TypeOK, recipient, owners
<1>6. ASSUME NEW c \in Calls,
             SendFails(c) \/ CancelCall(c) \/ Answered(c) \/ Disconnected(c) \/ TimedOut(c)
      PROVE  TypeOK'
  BY <1>5, <1>6 DEF SendFails, CancelCall, Answered, Disconnected, TimedOut, Failures
<1>7. ASSUME NEW c \in Calls, DropGuard(c) PROVE TypeOK'
  <2>1. /\ call' \in [Calls -> {"idle", "registered", "sent", "returning", "done"}]
        /\ shot' \in [Calls -> {"none", "open", "closed"} \cup Calls]
    BY <1>1, <1>7, HangUpType DEF DropGuard
  <2>2. DOMAIN waiters' \subseteq Ids /\ \A i \in DOMAIN waiters' : waiters'[i] \in Calls
    BY <1>7 DEF DropGuard, Restrict, TypeOK
  <2> QED
    BY <1>7, <2>1, <2>2 DEF DropGuard, TypeOK, recipient, owners
<1>8. CASE Take
  <2>1. /\ inbox' \in Seq(Calls) /\ Len(inbox') <= InboxCapacity /\ Head(inbox) \in Calls
    BY <1>1, <1>8 DEF Take
  <2>2. taken' \subseteq Calls /\ replying' \subseteq taken'
    BY <1>8, <2>1 DEF Take, TypeOK
  <2> QED
    BY <1>8, <2>1, <2>2 DEF Take, TypeOK, owners
<1>9. ASSUME NEW c \in Calls, StartReply(c) PROVE TypeOK'
  BY <1>9 DEF StartReply, TypeOK, owners
<1>10. ASSUME NEW c \in Calls, FinishReply(c) PROVE TypeOK'
  <2>1. replyQ' \in Seq(Calls) /\ Len(replyQ') <= ReplyCapacity
    BY <1>1, <1>10 DEF FinishReply
  <2> QED
    BY <1>10, <2>1 DEF FinishReply, TypeOK, owners
<1>11. ASSUME NEW c \in Calls, FailReply(c) PROVE TypeOK'
  BY <1>11 DEF FailReply, TypeOK, owners
<1>12. CASE Dispatch
  <2>1. replyQ' \in Seq(Calls) /\ Len(replyQ') <= ReplyCapacity /\ Head(replyQ) \in Calls
    BY <1>1, <1>12 DEF Dispatch
  <2>2. shot' \in [Calls -> {"none", "open", "closed"} \cup Calls]
    BY <1>1, <1>12, <2>1 DEF Dispatch
  <2>3. DOMAIN waiters' \subseteq Ids /\ \A i \in DOMAIN waiters' : waiters'[i] \in Calls
    BY <1>12 DEF Dispatch, Restrict, TypeOK
  <2> QED
    BY <1>12, <2>1, <2>2, <2>3 DEF Dispatch, TypeOK, recipient, owners
<1>13. CASE ListenerEnds
  BY <1>13 DEF ListenerEnds, TypeOK, recipient, owners
<1>14. ASSUME DropDispatcher
       PROVE  /\ shot' \in [Calls -> {"none", "open", "closed"} \cup Calls]
              /\ DOMAIN waiters' = {} /\ listener' \in {"running", "ended", "aborted"}
              /\ replyQ' \in Seq(Calls) /\ Len(replyQ') <= ReplyCapacity
  <2>1. replyQ' \in Seq(Calls) /\ Len(replyQ') <= ReplyCapacity
    BY <1>14 DEF DropDispatcher
  <2>2. listener' \in {"running", "ended", "aborted"} /\ DOMAIN waiters' = {}
    BY <1>14 DEF DropDispatcher, TypeOK
  <2> QED
    BY <1>1, <1>14, <2>1, <2>2, HangUpType DEF DropDispatcher
<1>15. CASE DropClient \/ DropPublisher
  <2>1. /\ UNCHANGED <<call, outcome, recipient>>
        /\ client' \in BOOLEAN /\ publisher' \in BOOLEAN
    BY <1>15 DEF DropClient, DropPublisher, TypeOK
  <2>2. CASE KeepDispatcher
    BY <2>1, <2>2 DEF KeepDispatcher, TypeOK, recipient
  <2>3. CASE DropDispatcher
    BY <1>14, <2>1, <2>3 DEF TypeOK, recipient
  <2> QED
    BY <1>15, <2>2, <2>3 DEF DropClient, DropPublisher
<1>16. CASE UNCHANGED vars
  BY <1>16 DEF vars, TypeOK, recipient, owners
<1> QED
  BY <1>2, <1>3, <1>4, <1>6, <1>7, <1>8, <1>9, <1>10, <1>11, <1>12, <1>13, <1>15, <1>16
  DEF Next, Step

-----------------------------------------------------------------------------
(* Calls and their waiters *)

\* However the body of a call ends, it ends by Leave, with an error of its own
\* or with what its oneshot holds.
LEMMA Endings ==
    ASSUME NEW c \in Calls,
           SendFails(c) \/ CancelCall(c) \/ Answered(c) \/ Disconnected(c) \/ TimedOut(c)
    PROVE  /\ c \in Pending
           /\ \E r : /\ Leave(c, r)
                     /\ \/ r \in {"unsent", "cancelled", "timeout"}
                        \/ r = shot[c] /\ shot[c] \in Calls \cup {"closed"}
BY DEF SendFails, CancelCall, Answered, Disconnected, TimedOut, Pending

\* Steps of the recipient, of replies under way and of an idle listener.
Quiet ==
    \/ Take \/ ListenerEnds
    \/ \E c \in Calls : StartReply(c) \/ FinishReply(c) \/ FailReply(c)

LEMMA QuietStep ==
    ASSUME Quiet \/ UNCHANGED vars
    PROVE  UNCHANGED <<call, outcome, shot, waiters, client, publisher>>
BY DEF Quiet, Take, ListenerEnds, StartReply, FinishReply, FailReply, vars, owners

\* The last owner goes only after the last call: the map it clears is empty,
\* and no oneshot is closed.
LEMMA LastOwner ==
    ASSUME TypeOK, CallInv, DropClient \/ DropPublisher
    PROVE  /\ UNCHANGED <<call, outcome, shot>>
           /\ DOMAIN waiters' = DOMAIN waiters
           /\ \A i \in DOMAIN waiters : waiters'[i] = waiters[i]
           /\ \A c \in Unfinished : Callable(c)'
<1>1. UNCHANGED <<call, outcome>>
  BY DEF DropClient, DropPublisher
<1>2. \A c \in Unfinished : Callable(c)'
  BY CallsAssumption
  DEF DropClient, DropPublisher, CallInv, OwnerBorrowed, Callable, Unfinished, Pending
<1>3. CASE KeepDispatcher
  BY <1>1, <1>2, <1>3 DEF KeepDispatcher
<1>4. CASE DropDispatcher /\ ~client' /\ ~publisher'
  <2>1. Unfinished = {}
    BY <1>2, <1>4 DEF Callable
  <2>2. DOMAIN waiters = {}
    BY <2>1 DEF CallInv, NoLeakedWaiter
  <2>3. shot' = shot
    BY <1>4, <2>2 DEF DropDispatcher, HangUp, TypeOK
  <2>4. DOMAIN waiters' = {}
    BY <1>4 DEF DropDispatcher
  <2> QED
    BY <1>1, <1>2, <2>2, <2>3, <2>4
<1> QED
  BY <1>3, <1>4 DEF DropClient, DropPublisher

\* Every step keeps the map to unfinished calls, the oneshots to pending ones,
\* and the owners borrowed.
LEMMA CallStep == ASSUME TypeOK, CallInv, [Next]_vars PROVE CallInv'
<1> USE CallsAssumption
<1>1. /\ call \in [Calls -> {"idle", "registered", "sent", "returning", "done"}]
      /\ shot \in [Calls -> {"none", "open", "closed"} \cup Calls]
  BY DEF TypeOK
<1>2. ASSUME NEW c \in Calls, RegisterWaiter(c) PROVE CallInv'
  <2>1. Unfinished' = Unfinished \cup {c} /\ Pending' = Pending \cup {c}
    BY <1>1, <1>2 DEF RegisterWaiter, Unfinished, Pending
  <2>2. NoLeakedWaiter'
    BY <1>2, <2>1 DEF RegisterWaiter, CallInv, NoLeakedWaiter
  <2>3. ShotWhilePending'
    BY <1>1, <1>2, <2>1 DEF RegisterWaiter, CallInv, ShotWhilePending
  <2>4. OwnerBorrowed'
    BY <1>2, <2>1 DEF RegisterWaiter, CallInv, OwnerBorrowed, Callable, owners
  <2> QED
    BY <2>2, <2>3, <2>4 DEF CallInv
<1>3. ASSUME NEW c \in Calls, RegisterRefused(c) \/ Send(c) PROVE CallInv'
  <2>1. UNCHANGED <<shot, waiters, owners>>
    BY <1>3 DEF RegisterRefused, Send
  <2>2. Unfinished' = Unfinished /\ Pending' = Pending
    BY <1>1, <1>3 DEF RegisterRefused, Send, Unfinished, Pending
  <2> QED
    BY <2>1, <2>2
    DEF CallInv, NoLeakedWaiter, ShotWhilePending, OwnerBorrowed, Callable, owners
<1>4. ASSUME NEW c \in Calls, NEW r, Leave(c, r), c \in Pending PROVE CallInv'
  <2>1. UNCHANGED <<waiters, owners>> /\ shot' = [shot EXCEPT ![c] = "none"]
    BY <1>4 DEF Leave
  <2>2. Unfinished' = Unfinished /\ Pending' = Pending \ {c}
    BY <1>1, <1>4 DEF Leave, Unfinished, Pending
  <2> QED
    BY <1>1, <2>1, <2>2
    DEF CallInv, NoLeakedWaiter, ShotWhilePending, OwnerBorrowed, Callable, owners
<1>5. ASSUME NEW c \in Calls, DropGuard(c) PROVE CallInv'
  <2>1. Unfinished' = Unfinished \ {c} /\ Pending' = Pending
    BY <1>1, <1>5 DEF DropGuard, Unfinished, Pending
  <2>2. NoLeakedWaiter'
    BY <1>5, <2>1 DEF DropGuard, Restrict, CallInv, NoLeakedWaiter
  <2>3. ShotWhilePending'
    BY <1>5, <2>1 DEF DropGuard, HangUp, CallInv, ShotWhilePending
  <2>4. OwnerBorrowed'
    BY <1>5, <2>1 DEF DropGuard, CallInv, OwnerBorrowed, Callable, owners
  <2> QED
    BY <2>2, <2>3, <2>4 DEF CallInv
<1>6. CASE Dispatch
  <2>1. Unfinished' = Unfinished /\ Pending' = Pending /\ UNCHANGED owners
    BY <1>6 DEF Dispatch, Unfinished, Pending
  <2>2. NoLeakedWaiter'
    BY <1>6, <2>1 DEF Dispatch, Restrict, CallInv, NoLeakedWaiter
  <2>3. ShotWhilePending'
    <3>1. \A c \in Calls : shot'[c] = shot[c] \/ shot[c] = "open"
      BY <1>6 DEF Dispatch
    <3> QED
      BY <2>1, <3>1 DEF CallInv, ShotWhilePending
  <2> QED
    BY <2>1, <2>2, <2>3 DEF CallInv, OwnerBorrowed, Callable, owners
<1>7. CASE DropClient \/ DropPublisher
  <2>1. /\ UNCHANGED <<call, shot>> /\ DOMAIN waiters' = DOMAIN waiters
        /\ \A i \in DOMAIN waiters : waiters'[i] = waiters[i]
        /\ \A c \in Unfinished : Callable(c)'
    BY <1>7, LastOwner
  <2>2. Unfinished' = Unfinished /\ Pending' = Pending
    BY <2>1 DEF Unfinished, Pending
  <2> QED
    BY <2>1, <2>2 DEF CallInv, NoLeakedWaiter, ShotWhilePending, OwnerBorrowed
<1>8. CASE Quiet \/ UNCHANGED vars
  <2>1. UNCHANGED <<call, outcome, shot, waiters, client, publisher>>
    BY <1>8, QuietStep
  <2> QED
    BY <2>1 DEF CallInv, NoLeakedWaiter, ShotWhilePending, OwnerBorrowed, Callable,
                Unfinished, Pending
<1> QED
  BY <1>2, <1>3, <1>4, <1>5, <1>6, <1>7, <1>8, Endings DEF Next, Step, Quiet

-----------------------------------------------------------------------------
(* Correlation *)

\* What a reply to request d does to the oneshots and the map
Answers(d) ==
    /\ \A c \in Calls :
          \/ shot'[c] = shot[c] /\ (shot[c] = "open" => waiters[IdOf[c]] # c
                                       \/ IdOf[c] \notin DOMAIN waiters
                                       \/ IdOf[c] # IdOf[d])
          \/ shot[c] = "open" /\ shot'[c] = d /\ IdOf[c] = IdOf[d]
    /\ DOMAIN waiters' = DOMAIN waiters \ {IdOf[d]}
    /\ \A i \in DOMAIN waiters' : waiters'[i] = waiters[i]
    /\ UNCHANGED <<call, outcome>>

\* The listener answers only the call that waits under the reply's message_id.
LEMMA DispatchAnswers ==
    ASSUME TypeOK, CallInv, Dispatch
    PROVE  \E d \in Calls : Answers(d)
<1>1. PICK d \in Calls : d = Head(replyQ)
  BY DEF Dispatch, TypeOK
<1>2. /\ waiters' = Restrict(waiters, DOMAIN waiters \ {IdOf[d]})
      /\ shot' = [c \in Calls |->
                     IF IdOf[d] \in DOMAIN waiters /\ waiters[IdOf[d]] = c /\ shot[c] = "open"
                     THEN d ELSE shot[c]]
      /\ UNCHANGED <<call, outcome>>
  BY <1>1 DEF Dispatch
<1>3. ASSUME NEW c \in Calls, IdOf[d] \in DOMAIN waiters, waiters[IdOf[d]] = c
      PROVE  IdOf[c] = IdOf[d]
  BY <1>3 DEF CallInv, NoLeakedWaiter
<1>4. ASSUME NEW c \in Calls
      PROVE  \/ shot'[c] = shot[c] /\ (shot[c] = "open" => waiters[IdOf[c]] # c
                                          \/ IdOf[c] \notin DOMAIN waiters
                                          \/ IdOf[c] # IdOf[d])
             \/ shot[c] = "open" /\ shot'[c] = d /\ IdOf[c] = IdOf[d]
  <2>1. CASE IdOf[d] \in DOMAIN waiters /\ waiters[IdOf[d]] = c /\ shot[c] = "open"
    BY <1>2, <1>3, <2>1
  <2>2. CASE ~(IdOf[d] \in DOMAIN waiters /\ waiters[IdOf[d]] = c /\ shot[c] = "open")
    <3>1. shot'[c] = shot[c]
      BY <1>2, <2>2
    <3>2. ASSUME shot[c] = "open", IdOf[c] = IdOf[d], IdOf[c] \in DOMAIN waiters
          PROVE  waiters[IdOf[c]] # c
      BY <2>2, <3>2
    <3> QED
      BY <3>1, <3>2
  <2> QED
    BY <2>1, <2>2
<1>5. /\ DOMAIN waiters' = DOMAIN waiters \ {IdOf[d]}
      /\ \A i \in DOMAIN waiters' : waiters'[i] = waiters[i]
  BY <1>2 DEF Restrict
<1> QED
  BY <1>2, <1>4, <1>5 DEF Answers

\* Every step keeps replies with their message_id.
LEMMA ReplyStep == ASSUME TypeOK, CallInv, ReplyMatchesId, [Next]_vars PROVE ReplyMatchesId'
<1> USE CallsAssumption DEF Failures
<1>1. /\ outcome \in [Calls -> {"none"} \cup Failures \cup Calls]
      /\ shot \in [Calls -> {"none", "open", "closed"} \cup Calls]
  BY DEF TypeOK
<1>2. ASSUME NEW c \in Calls, RegisterWaiter(c) PROVE ReplyMatchesId'
  BY <1>1, <1>2 DEF RegisterWaiter, ReplyMatchesId
<1>3. ASSUME NEW c \in Calls, RegisterRefused(c) PROVE ReplyMatchesId'
  BY <1>1, <1>3 DEF RegisterRefused, ReplyMatchesId
<1>4. ASSUME NEW c \in Calls, Send(c) PROVE ReplyMatchesId'
  BY <1>4 DEF Send, ReplyMatchesId
<1>5. ASSUME NEW c \in Calls, NEW r, Leave(c, r),
             \/ r \in {"unsent", "cancelled", "timeout"}
             \/ r = shot[c] /\ shot[c] \in Calls \cup {"closed"}
      PROVE  ReplyMatchesId'
  <2>1. outcome' = [outcome EXCEPT ![c] = r] /\ shot' = [shot EXCEPT ![c] = "none"]
    BY <1>5 DEF Leave
  <2>2. \A d \in Calls : d = r => IdOf[c] = IdOf[d]
    BY <1>5 DEF ReplyMatchesId
  <2> QED
    BY <1>1, <2>1, <2>2 DEF ReplyMatchesId
<1>6. ASSUME NEW c \in Calls, DropGuard(c) PROVE ReplyMatchesId'
  <2>1. \A d \in Calls : shot'[d] \in {shot[d], "closed"}
    BY <1>6 DEF DropGuard, HangUp
  <2>2. UNCHANGED outcome
    BY <1>6 DEF DropGuard
  <2> QED
    BY <2>1, <2>2 DEF ReplyMatchesId
<1>7. CASE Dispatch
  <2>1. PICK d \in Calls : Answers(d)
    BY <1>7, DispatchAnswers
  <2> QED
    BY <2>1 DEF Answers, ReplyMatchesId
<1>8. CASE DropClient \/ DropPublisher
  <2>1. UNCHANGED <<outcome, shot>>
    BY <1>8, LastOwner
  <2> QED
    BY <2>1 DEF ReplyMatchesId
<1>9. CASE Quiet \/ UNCHANGED vars
  <2>1. UNCHANGED <<outcome, shot>>
    BY <1>9, QuietStep
  <2> QED
    BY <2>1 DEF ReplyMatchesId
<1> QED
  BY <1>2, <1>3, <1>4, <1>5, <1>6, <1>7, <1>8, <1>9, Endings DEF Next, Step, Quiet

\* Every step leaves the calls with a message_id of their own undisturbed.
LEMMA UniqueStep == ASSUME TypeOK, CallInv, UniqueWaits, [Next]_vars PROVE UniqueWaits'
<1> USE CallsAssumption DEF Failures
<1>1. /\ call \in [Calls -> {"idle", "registered", "sent", "returning", "done"}]
      /\ outcome \in [Calls -> {"none"} \cup Failures \cup Calls]
      /\ shot \in [Calls -> {"none", "open", "closed"} \cup Calls]
  BY DEF TypeOK
<1> SUFFICES ASSUME NEW u \in Calls, Unique(u)
             PROVE  /\ outcome'[u] \in {"none", "unsent", "cancelled", "timeout", u}
                    /\ shot'[u] \in {"none", "open", u}
                    /\ shot'[u] = "open" => IdOf[u] \in DOMAIN waiters' /\ waiters'[IdOf[u]] = u
  BY DEF UniqueWaits, Unique
<1>2. /\ outcome[u] \in {"none", "unsent", "cancelled", "timeout", u}
      /\ shot[u] \in {"none", "open", u}
      /\ shot[u] = "open" => IdOf[u] \in DOMAIN waiters /\ waiters[IdOf[u]] = u
  BY DEF UniqueWaits
<1>3. \A d \in Calls : IdOf[d] = IdOf[u] => d = u
  BY DEF Unique
<1>4. ASSUME NEW c \in Calls, RegisterWaiter(c)
      PROVE  /\ outcome'[u] = outcome[u]
             /\ shot'[u] \in {"none", "open", u}
             /\ shot'[u] = "open" => IdOf[u] \in DOMAIN waiters' /\ waiters'[IdOf[u]] = u
  <2>1. /\ UNCHANGED outcome /\ IdOf[c] \notin DOMAIN waiters
        /\ shot' = [shot EXCEPT ![c] = "open"]
        /\ DOMAIN waiters' = DOMAIN waiters \cup {IdOf[c]} /\ waiters'[IdOf[c]] = c
        /\ \A i \in DOMAIN waiters : waiters'[i] = waiters[i]
    BY <1>4 DEF RegisterWaiter
  <2> QED
    BY <1>1, <1>2, <1>3, <2>1
<1>5. ASSUME NEW c \in Calls, RegisterRefused(c) PROVE c # u
  <2>1. call[c] = "idle" /\ IdOf[c] \in DOMAIN waiters
    BY <1>5 DEF RegisterRefused
  <2>2. waiters[IdOf[c]] \in Unfinished /\ IdOf[waiters[IdOf[c]]] = IdOf[c]
    BY <2>1 DEF CallInv, NoLeakedWaiter
  <2>3. Unfinished \subseteq Calls /\ c \notin Unfinished
    BY <2>1 DEF Unfinished, Pending
  <2> QED
    BY <1>3, <2>2, <2>3
<1>6. ASSUME NEW c \in Calls, RegisterRefused(c) \/ Send(c)
      PROVE  outcome'[u] = outcome[u] /\ UNCHANGED <<shot, waiters>>
  BY <1>1, <1>5, <1>6 DEF RegisterRefused, Send
<1>7. ASSUME NEW c \in Calls, NEW r, Leave(c, r),
             \/ r \in {"unsent", "cancelled", "timeout"}
             \/ r = shot[c] /\ shot[c] \in Calls \cup {"closed"}
      PROVE  /\ outcome'[u] \in {"none", "unsent", "cancelled", "timeout", u}
             /\ shot'[u] \in {"none", shot[u]} /\ UNCHANGED waiters
  <2>1. /\ outcome' = [outcome EXCEPT ![c] = r] /\ shot' = [shot EXCEPT ![c] = "none"]
        /\ UNCHANGED waiters
    BY <1>7 DEF Leave
  <2>2. c = u => r \in {"unsent", "cancelled", "timeout", u}
    BY <1>2, <1>7
  <2> QED
    BY <1>1, <1>2, <2>1, <2>2
<1>8. ASSUME NEW c \in Calls, DropGuard(c)
      PROVE  /\ outcome'[u] = outcome[u]
             /\ shot'[u] = shot[u]
             /\ shot'[u] = "open" => IdOf[u] \in DOMAIN waiters' /\ waiters'[IdOf[u]] = u
  <2>1. /\ call[c] = "returning" /\ UNCHANGED outcome
        /\ waiters' = Restrict(waiters, DOMAIN waiters \ {IdOf[c]})
        /\ shot' = HangUp({IdOf[c]})
    BY <1>8 DEF DropGuard
  <2>2. CASE c = u
    <3>1. shot[u] = "none"
      BY <2>1, <2>2 DEF CallInv, ShotWhilePending, Pending
    <3> QED
      BY <2>1, <3>1 DEF HangUp
  <2>3. CASE c # u
    <3>1. IdOf[c] # IdOf[u]
      BY <1>3, <2>3
    <3>2. ~\E i \in {IdOf[c]} \cap DOMAIN waiters : waiters[i] = u
      BY <3>1 DEF CallInv, NoLeakedWaiter
    <3>3. shot'[u] = shot[u]
      BY <2>1, <3>2 DEF HangUp
    <3> QED
      BY <1>2, <2>1, <3>1, <3>3 DEF Restrict
  <2> QED
    BY <2>2, <2>3
<1>9. CASE Dispatch
  <2>1. PICK d \in Calls : Answers(d)
    BY <1>9, DispatchAnswers
  <2>2. CASE shot[u] = "open" /\ shot'[u] = d /\ IdOf[u] = IdOf[d]
    BY <1>2, <1>3, <2>1, <2>2 DEF Answers
  <2>3. CASE shot'[u] = shot[u] /\ (shot[u] = "open" => IdOf[u] # IdOf[d])
    BY <1>2, <2>1, <2>3 DEF Answers
  <2> QED
    BY <1>2, <2>1, <2>2, <2>3 DEF Answers
<1>10. CASE DropClient \/ DropPublisher
  BY <1>2, <1>10, LastOwner
<1>11. CASE Quiet \/ UNCHANGED vars
  BY <1>2, <1>11, QuietStep
<1>12. ASSUME NEW c \in Calls, RegisterWaiter(c) \/ RegisterRefused(c) \/ Send(c) \/ DropGuard(c)
       PROVE  /\ outcome'[u] \in {"none", "unsent", "cancelled", "timeout", u}
              /\ shot'[u] \in {"none", "open", u}
              /\ shot'[u] = "open" => IdOf[u] \in DOMAIN waiters' /\ waiters'[IdOf[u]] = u
  BY <1>2, <1>4, <1>6, <1>8, <1>12
<1>13. ASSUME NEW c \in Calls,
              SendFails(c) \/ CancelCall(c) \/ Answered(c) \/ Disconnected(c) \/ TimedOut(c)
       PROVE  /\ outcome'[u] \in {"none", "unsent", "cancelled", "timeout", u}
              /\ shot'[u] \in {"none", "open", u}
              /\ shot'[u] = "open" => IdOf[u] \in DOMAIN waiters' /\ waiters'[IdOf[u]] = u
  <2>1. PICK r : /\ Leave(c, r)
                 /\ \/ r \in {"unsent", "cancelled", "timeout"}
                    \/ r = shot[c] /\ shot[c] \in Calls \cup {"closed"}
    BY <1>13, Endings
  <2> QED
    BY <1>2, <1>7, <2>1
<1> QED
  BY <1>9, <1>10, <1>11, <1>12, <1>13 DEF Next, Step, Quiet

-----------------------------------------------------------------------------
(* The theorems *)

\* The inductive invariant of request/response.
THEOREM Invariance == Spec => []IInv
<1>1. ASSUME Init PROVE IInv
  <2>1. TypeOK
    <3>1. /\ inbox = <<>> /\ replyQ = <<>> /\ DOMAIN waiters = {}
          /\ taken = {} /\ replying = {} /\ replies = 0
          /\ listener = "running" /\ client = TRUE /\ publisher = TRUE
          /\ call \in [Calls -> {"idle", "registered", "sent", "returning", "done"}]
          /\ outcome \in [Calls -> {"none"} \cup Failures \cup Calls]
          /\ shot \in [Calls -> {"none", "open", "closed"} \cup Calls]
      BY <1>1 DEF Init
    <3> QED
      BY <3>1, CapacityAssumption DEF TypeOK
  <2>2. CallInv
    BY <1>1 DEF Init, CallInv, NoLeakedWaiter, ShotWhilePending, OwnerBorrowed,
                Unfinished, Pending
  <2>3. ReplyMatchesId
    BY <1>1, CallsAssumption DEF Init, ReplyMatchesId
  <2>4. UniqueWaits
    BY <1>1 DEF Init, UniqueWaits
  <2> QED
    BY <2>1, <2>2, <2>3, <2>4 DEF IInv
<1>2. IInv /\ [Next]_vars => IInv'
  BY TypeStep, CallStep, ReplyStep, UniqueStep DEF IInv
<1> QED
  BY <1>1, <1>2, PTL DEF Spec

\* Every state of calls, map, channels and listener is well typed: neither
\* channel exceeds its capacity, and only requests that were taken are answered.
THEOREM TypeCorrect == Spec => []TypeOK
<1>1. IInv => TypeOK
  BY DEF IInv
<1> QED
  BY <1>1, Invariance, PTL

\* However calls end, the map holds only the waiters of calls that are not
\* over, each under its own message_id.
THEOREM NoWaiterLeaks == Spec => []NoLeakedWaiter
<1>1. IInv => NoLeakedWaiter
  BY DEF IInv, CallInv
<1> QED
  BY <1>1, Invariance, PTL

\* A reply reaches only calls with the message_id it answers.
THEOREM RepliesCorrelate == Spec => []ReplyMatchesId
<1>1. IInv => ReplyMatchesId
  BY DEF IInv
<1> QED
  BY <1>1, Invariance, PTL

\* A call whose message_id nobody else uses is answered by its own reply or
\* fails by itself, whatever other calls, late and duplicate replies, and the
\* owners of client and publishers do.
THEOREM UniqueCallSafe == Spec => []UniqueCallUndisturbed
<1>1. IInv => UniqueCallUndisturbed
  BY DEF IInv, UniqueWaits, UniqueCallUndisturbed
<1> QED
  BY <1>1, Invariance, PTL

=============================================================================
