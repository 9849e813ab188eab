------------------------ MODULE LoadBalancedGroupProofs ------------------------
(***************************************************************************)
(* The dispatcher of a LoadBalanced group for any number of consumers and  *)
(* messages and any channel capacities: it hands every accepted message to *)
(* at most one consumer, in order, it knows every recv that waits, and it  *)
(* implements WorkQueue.                                                   *)
(*                                                                         *)
(* The invariants come in layers, each resting on the ones before: the     *)
(* types with what the dispatcher holds at each .await (ControlInv), who   *)
(* holds the locks (LockInv), the order of the messages (OrderInv), the    *)
(* requests (RequestInv), and where the handed messages are (HandedToOne). *)
(***************************************************************************)
EXTENDS LoadBalancedGroup, SequenceTheorems, FiniteSetTheorems, TLAPS

Held == {c \in Consumers : handle[c] = "held"}

\* active_consumers counts the handles, and a handle is of a consumer that
\* joined.
HandleInv ==
    /\ active \in Nat
    /\ stage \in [Consumers -> {"out", "locked", "found", "in"}]
    /\ handle \in [Consumers -> {"none", "held", "last", "locked", "aborted", "dropped"}]
    /\ active = Cardinality(Held)
    /\ \A c \in Consumers : stage[c] # "in" => handle[c] = "none"

\* The dispatcher holds a request only to answer it, and a message from the
\* moment it is taken until a oneshot takes it.
TaskInv ==
    /\ task \in TaskState
    /\ task.at \notin {"recvMsg", "deliver"} => task.reply = Cancelled
    /\ task.msg # <<>> <=> task.at \in {"deliver", "retryReq"}

ChannelTypes ==
    /\ {route, sender, taken} \subseteq BOOLEAN
    /\ shot \in [Consumers -> {"none", "open", "closed"} \cup Messages]
    /\ reqQ \in Seq(Consumers \cup {Cancelled}) /\ Len(reqQ) <= ReqCapacity
    /\ mainQ \in Seq(Messages) /\ Len(mainQ) <= MainCapacity
    /\ inflight \subseteq Messages /\ discarded \subseteq Messages /\ received \subseteq Messages
    /\ accepted \in Seq(Messages) /\ handed \in Seq(Messages)

ControlInv == HandleInv /\ TaskInv /\ ChannelTypes

\* No message is accepted twice, nor while it is being sent.
AcceptedOnce ==
    /\ \A i, j \in DOMAIN accepted : accepted[i] = accepted[j] => i = j
    /\ \A i \in DOMAIN accepted : accepted[i] \notin inflight

OrderInv == HandoverIsFifo /\ AcceptedOnce

\* A recv waits exactly if its request is queued or held, and then it is in one
\* place only.
RequestInv ==
    /\ \A i, j \in DOMAIN reqQ : reqQ[i] = reqQ[j] /\ reqQ[i] # Cancelled => i = j
    /\ \A i \in DOMAIN reqQ : reqQ[i] = task.reply => task.reply = Cancelled
    /\ \A c \in Consumers :
          shot[c] = "open" <=> task.reply = c \/ \E i \in DOMAIN reqQ : reqQ[i] = c

-----------------------------------------------------------------------------
(* Types and control *)

\* The handles: only joining, leaving and dropping change them.
LEMMA HandleStep == ASSUME HandleInv, [Next]_vars PROVE HandleInv'
<1>1. IsFiniteSet(Held)
  BY ConsumersAssumption, FS_Subset DEF Held
<1>2. ASSUME NEW c \in Consumers, SubscribeLock(c) \/ Find(c) \/ RegisterAnother(c)
      PROVE  HandleInv'
  <2>1. Held' = Held
    BY <1>2 DEF SubscribeLock, Find, RegisterAnother, Held
  <2> QED
    BY <1>2, <2>1 DEF SubscribeLock, Find, RegisterAnother, HandleInv
<1>3. ASSUME NEW c \in Consumers, Join(c) PROVE HandleInv'
  <2>1. c \notin Held /\ Held' = Held \cup {c}
    BY <1>3 DEF Join, HandleInv, Held
  <2>2. Cardinality(Held \cup {c}) = Cardinality(Held) + 1
    BY <1>1, <2>1, FS_AddElement
  <2> QED
    BY <1>3, <2>1, <2>2 DEF Join, HandleInv
<1>4. ASSUME NEW c \in Consumers, Leave(c) PROVE HandleInv'
  <2>1. Held' = Held
    BY <1>4 DEF Leave, HandleInv, Held
  <2> QED
    BY <1>4, <2>1 DEF Leave, HandleInv
<1>5. ASSUME NEW c \in Consumers, RemoveConsumer(c) PROVE HandleInv'
  <2>1. c \in Held /\ Held' = Held \ {c}
    BY <1>5 DEF RemoveConsumer, HandleInv, Held
  <2>2. Cardinality(Held \ {c}) = Cardinality(Held) - 1 /\ Cardinality(Held \ {c}) \in Nat
    BY <1>1, <2>1, FS_RemoveElement, FS_CardinalityType
  <2> QED
    BY <1>5, <2>1, <2>2 DEF RemoveConsumer, HandleInv
<1>6. ASSUME NEW c \in Consumers, ShutdownLock(c) \/ ShutdownAbort(c) \/ ShutdownMark(c)
      PROVE  HandleInv'
  <2>1. Held' = Held
    BY <1>6 DEF ShutdownLock, ShutdownAbort, ShutdownMark, HandleInv, Held
  <2> QED
    BY <1>6, <2>1 DEF ShutdownLock, ShutdownAbort, ShutdownMark, HandleInv
<1>7. ASSUME UNCHANGED <<active, stage, handle>> PROVE HandleInv'
  BY <1>7 DEF HandleInv, Held
<1>8. ASSUME Dispatcher PROVE UNCHANGED <<active, stage, handle>>
  BY <1>8 DEF Dispatcher, Wake, Park, Reap, TakeRequest, TakeMessage, LeaveLoop, Deliver,
              DeliverFails, Cleanup, UnregisterLock, UnregisterShutdown, Unregister
<1>9. ASSUME NEW c \in Consumers,
             Request(c) \/ Receive(c) \/ ReceiveNone(c) \/ Cancel(c)
      PROVE  UNCHANGED <<active, stage, handle>>
  BY <1>9 DEF Request, Receive, ReceiveNone, Cancel
<1>10. ASSUME NEW m \in Messages, StartSend(m) \/ FinishSend(m) \/ FailSend(m)
       PROVE  UNCHANGED <<active, stage, handle>>
  BY <1>10 DEF StartSend, FinishSend, FailSend
<1>11. ASSUME UNCHANGED vars PROVE UNCHANGED <<active, stage, handle>>
  BY <1>11 DEF vars
<1> QED
  BY <1>2, <1>3, <1>4, <1>5, <1>6, <1>7, <1>8, <1>9, <1>10, <1>11 DEF Next

\* The dispatcher's own state.
LEMMA TaskStep == ASSUME TaskInv, ChannelTypes, [Next]_vars PROVE TaskInv'
<1> USE CancelledAssumption
<1>1. task \in TaskState
  BY DEF TaskInv
<1>2. ASSUME NEW c \in Consumers, Cancel(c) PROVE TaskInv'
  <2>1. CASE task.reply = c
    <3>1. task' = [task EXCEPT !.reply = Cancelled]
      BY <1>2, <2>1 DEF Cancel
    <3> QED
      BY <1>1, <3>1 DEF TaskInv, TaskState
  <2>2. CASE task.reply # c
    BY <1>2, <2>2 DEF Cancel, TaskInv
  <2> QED
    BY <2>1, <2>2
<1>3. ASSUME NEW c \in Consumers, ShutdownAbort(c) PROVE TaskInv'
  <2>1. taken \in BOOLEAN
    BY DEF ChannelTypes
  <2> QED
    BY <1>1, <1>3, <2>1 DEF ShutdownAbort, TaskInv, TaskState
<1>4. CASE Wake
  BY <1>1, <1>4 DEF Wake, TaskInv, TaskState, Awaits, Finished
<1>5. CASE Park
  BY <1>1, <1>5 DEF Park, TaskInv, TaskState, Awaits, Finished
<1>6. CASE Cleanup \/ UnregisterLock
  BY <1>1, <1>6 DEF Cleanup, UnregisterLock, TaskInv, TaskState, Awaits, Finished
<1>7. CASE DeliverFails
  BY <1>1, <1>7 DEF DeliverFails, TaskInv, TaskState, Awaits, Finished
<1>8. CASE Deliver
  BY <1>1, <1>8 DEF Deliver, TaskInv, TaskState, Awaits, Finished
<1>9. CASE LeaveLoop
  BY <1>1, <1>9 DEF LeaveLoop, TaskInv, TaskState, Awaits, Finished
<1>10. CASE TakeRequest
  <2>1. Head(reqQ) \in Consumers \cup {Cancelled}
    BY <1>10 DEF TakeRequest, ChannelTypes
  <2> QED
    BY <1>1, <1>10, <2>1 DEF TakeRequest, TaskInv, TaskState, Awaits, Finished
<1>11. CASE TakeMessage
  <2>1. Head(mainQ) \in Messages
    BY <1>11 DEF TakeMessage, ChannelTypes
  <2> QED
    BY <1>1, <1>11, <2>1 DEF TakeMessage, TaskInv, TaskState, Awaits, Finished
<1>12. ASSUME NEW at \in Finished, EndTask(at) PROVE TaskInv'
  BY <1>1, <1>12 DEF EndTask, TaskInv, TaskState, Awaits, Finished
<1>13. CASE Reap \/ Unregister
  BY <1>12, <1>13 DEF Reap, Unregister, Finished
<1>14. ASSUME NEW c \in Consumers,
              \/ SubscribeLock(c) \/ Find(c) \/ RegisterAnother(c) \/ Join(c) \/ Request(c)
              \/ Receive(c) \/ ReceiveNone(c) \/ Leave(c) \/ RemoveConsumer(c)
              \/ ShutdownLock(c) \/ ShutdownMark(c)
       PROVE  task' = task
  BY <1>14 DEF SubscribeLock, Find, RegisterAnother, Join, Request, Receive, ReceiveNone, Leave,
              RemoveConsumer, ShutdownLock, ShutdownMark
<1>15. ASSUME NEW m \in Messages, StartSend(m) \/ FinishSend(m) \/ FailSend(m) PROVE task' = task
  BY <1>15 DEF StartSend, FinishSend, FailSend
<1>16. ASSUME task' = task PROVE TaskInv'
  BY <1>16 DEF TaskInv
<1>17. CASE UNCHANGED vars
  BY <1>16, <1>17 DEF vars
<1>18. CASE UnregisterShutdown
  <2>1. taken \in BOOLEAN
    BY DEF ChannelTypes
  <2> QED
    BY <1>1, <1>18, <2>1 DEF UnregisterShutdown, TaskInv, TaskState, Awaits, Finished
<1> QED
  BY <1>2, <1>3, <1>4, <1>5, <1>6, <1>7, <1>8, <1>9, <1>10, <1>11, <1>12, <1>13, <1>14, <1>15,
     <1>16, <1>17, <1>18
  DEF Next, Dispatcher

\* The channels and the ledger.
LEMMA ChannelStep == ASSUME ChannelTypes, TaskInv, [Next]_vars PROVE ChannelTypes'
<1> USE CapacityAssumption
<1>1. /\ shot \in [Consumers -> {"none", "open", "closed"} \cup Messages]
      /\ reqQ \in Seq(Consumers \cup {Cancelled}) /\ Len(reqQ) <= ReqCapacity
      /\ mainQ \in Seq(Messages) /\ Len(mainQ) <= MainCapacity
  BY DEF ChannelTypes
<1>2. ASSUME NEW c \in Consumers, Request(c) PROVE ChannelTypes'
  <2>1. /\ reqQ' \in Seq(Consumers \cup {Cancelled}) /\ Len(reqQ') <= ReqCapacity
    BY <1>1, <1>2 DEF Request
  <2>2. shot' \in [Consumers -> {"none", "open", "closed"} \cup Messages]
    BY <1>1, <1>2 DEF Request
  <2> QED
    BY <1>2, <2>1, <2>2 DEF Request, ChannelTypes, ledger
<1>3. ASSUME NEW c \in Consumers, Receive(c) \/ ReceiveNone(c) PROVE ChannelTypes'
  BY <1>3 DEF Receive, ReceiveNone, ChannelTypes, queues, ledger
<1>4. ASSUME NEW c \in Consumers, Cancel(c) PROVE ChannelTypes'
  <2>1. /\ reqQ' = [i \in 1..Len(reqQ) |-> IF reqQ[i] = c THEN Cancelled ELSE reqQ[i]]
    BY <1>1, <1>4 DEF Cancel
  <2>2. \A i \in 1..Len(reqQ) : (IF reqQ[i] = c THEN Cancelled ELSE reqQ[i]) \in Consumers \cup {Cancelled}
    BY <1>1
  <2>3. reqQ' \in Seq(Consumers \cup {Cancelled}) /\ Len(reqQ') = Len(reqQ)
    BY <1>1, <2>1, <2>2, IsASeq, LenProperties
  <2>4. shot' \in [Consumers -> {"none", "open", "closed"} \cup Messages]
    BY <1>1, <1>4 DEF Cancel
  <2>5. discarded' \subseteq Messages
    BY <1>4 DEF Cancel, ChannelTypes
  <2> QED
    BY <1>1, <1>4, <2>3, <2>4, <2>5 DEF Cancel, ChannelTypes
<1>5. ASSUME NEW m \in Messages, StartSend(m) \/ FailSend(m) PROVE ChannelTypes'
  BY <1>5 DEF StartSend, FailSend, ChannelTypes, queues, ledger
<1>6. ASSUME NEW m \in Messages, FinishSend(m) PROVE ChannelTypes'
  <2>1. mainQ' \in Seq(Messages) /\ Len(mainQ') <= MainCapacity
    BY <1>1, <1>6 DEF FinishSend
  <2>2. accepted' \in Seq(Messages)
    BY <1>6 DEF FinishSend, ChannelTypes
  <2> QED
    BY <1>6, <2>1, <2>2 DEF FinishSend, ChannelTypes
<1>7. ASSUME NEW at, EndTask(at)
      PROVE  /\ shot' \in [Consumers -> {"none", "open", "closed"} \cup Messages]
             /\ reqQ' \in Seq(Consumers \cup {Cancelled}) /\ Len(reqQ') <= ReqCapacity
             /\ mainQ' \in Seq(Messages) /\ Len(mainQ') <= MainCapacity
  BY <1>1, <1>7 DEF EndTask, Hangup
<1>8. CASE Reap
  BY <1>7, <1>8 DEF Reap, ChannelTypes, ledger
<1>9. CASE Unregister
  BY <1>7, <1>9 DEF Unregister, ChannelTypes, ledger
<1>10. CASE TakeRequest
  <2>1. reqQ' \in Seq(Consumers \cup {Cancelled}) /\ Len(reqQ') <= ReqCapacity
    BY <1>1, <1>10 DEF TakeRequest
  <2> QED
    BY <1>10, <2>1 DEF TakeRequest, ChannelTypes, ledger
<1>11. CASE TakeMessage
  <2>1. mainQ' \in Seq(Messages) /\ Len(mainQ') <= MainCapacity
    BY <1>1, <1>11 DEF TakeMessage
  <2> QED
    BY <1>11, <2>1 DEF TakeMessage, ChannelTypes, ledger
<1>12. CASE LeaveLoop
  BY <1>12 DEF LeaveLoop, Hangup, ChannelTypes, queues, ledger
<1>13. CASE Deliver
  <2>1. PICK m \in Messages : task.msg = <<m>>
    <3>1. task.msg # <<>> /\ task.msg \in {<<>>} \cup {<<m>> : m \in Messages}
      BY <1>13 DEF Deliver, TaskInv, TaskState
    <3> QED
      BY <3>1
  <2>2. shot' \in [Consumers -> {"none", "open", "closed"} \cup Messages]
    <3>1. shot' = [shot EXCEPT ![task.reply] = m]
      BY <1>13, <2>1 DEF Deliver
    <3> QED
      BY <1>1, <3>1
  <2>3. handed' \in Seq(Messages)
    BY <1>13, <2>1 DEF Deliver, ChannelTypes
  <2> QED
    BY <1>13, <2>2, <2>3 DEF Deliver, ChannelTypes, queues
<1>14. CASE Wake \/ Park \/ DeliverFails \/ Cleanup \/ UnregisterLock \/ UnregisterShutdown
  BY <1>14 DEF Wake, Park, DeliverFails, Cleanup, UnregisterLock, UnregisterShutdown,
               ChannelTypes, queues, ledger
<1>15. ASSUME NEW c \in Consumers,
              \/ SubscribeLock(c) \/ Find(c) \/ RegisterAnother(c) \/ Join(c) \/ Leave(c)
              \/ RemoveConsumer(c) \/ ShutdownLock(c) \/ ShutdownAbort(c) \/ ShutdownMark(c)
       PROVE  ChannelTypes'
  BY <1>15 DEF SubscribeLock, Find, RegisterAnother, Join, Leave, RemoveConsumer, ShutdownLock,
               ShutdownAbort, ShutdownMark, ChannelTypes, queues, ledger
<1>16. CASE UNCHANGED vars
  BY <1>16 DEF vars, ChannelTypes
<1> QED
  BY <1>2, <1>3, <1>4, <1>5, <1>6, <1>8, <1>9, <1>10, <1>11, <1>12, <1>13, <1>14, <1>15, <1>16
  DEF Next, Dispatcher

\* Types and control hold in every state.
LEMMA Control == Spec => []ControlInv
<1>1. ASSUME Init PROVE ControlInv
  <2>1. HandleInv
    <3>1. Held = {}
      BY <1>1 DEF Init, Held
    <3> QED
      BY <1>1, <3>1, FS_EmptySet DEF Init, HandleInv
  <2>2. TaskInv
    BY <1>1 DEF Init, TaskInv, TaskState, Awaits, Finished
  <2>3. ChannelTypes
    <3>1. /\ {route, sender, taken} \subseteq BOOLEAN
          /\ shot \in [Consumers -> {"none", "open", "closed"} \cup Messages]
          /\ inflight = {} /\ discarded = {} /\ received = {}
          /\ reqQ = <<>> /\ mainQ = <<>> /\ accepted = <<>> /\ handed = <<>>
      BY <1>1 DEF Init
    <3> QED
      BY <3>1, CapacityAssumption DEF ChannelTypes
  <2> QED
    BY <2>1, <2>2, <2>3 DEF ControlInv
<1>2. ControlInv /\ [Next]_vars => ControlInv'
  BY HandleStep, TaskStep, ChannelStep DEF ControlInv
<1> QED
  BY <1>1, <1>2, PTL DEF Spec

-----------------------------------------------------------------------------
(* The locks *)

\* Each lock is with the one who is past taking it and not yet past releasing
\* it, so no two calls are ever between the two.
LockInv ==
    /\ mutex \in Consumers \cup {"nobody", "task"}
    /\ latch \in Consumers \cup {"nobody"}
    /\ \A c \in Consumers : mutex = c <=> stage[c] = "locked"
    /\ mutex = "task" <=> task.at \in {"remove_slot", "store"}
    /\ \A c \in Consumers : latch = c <=> handle[c] = "locked"

\* The locks change hands only where the code locks and unlocks them.
LEMMA LockStep == ASSUME ControlInv, LockInv, [Next]_vars PROVE LockInv'
<1> USE OwnersAssumption
<1>1. /\ stage \in [Consumers -> {"out", "locked", "found", "in"}]
      /\ handle \in [Consumers -> {"none", "held", "last", "locked", "aborted", "dropped"}]
      /\ task \in TaskState
      /\ \A c \in Consumers : stage[c] # "in" => handle[c] = "none"
  BY DEF ControlInv, HandleInv, TaskInv
<1>2. ASSUME NEW c \in Consumers, SubscribeLock(c) \/ Find(c) \/ RegisterAnother(c)
      PROVE  LockInv'
  BY <1>1, <1>2 DEF SubscribeLock, Find, RegisterAnother, LockInv
<1>3. ASSUME NEW c \in Consumers, Join(c) \/ Leave(c) \/ RemoveConsumer(c) \/ ShutdownMark(c)
      PROVE  LockInv'
  BY <1>1, <1>3 DEF Join, Leave, RemoveConsumer, ShutdownMark, LockInv, locks
<1>4. ASSUME NEW c \in Consumers, ShutdownLock(c) PROVE LockInv'
  BY <1>1, <1>4 DEF ShutdownLock, LockInv
<1>5. ASSUME NEW c \in Consumers, ShutdownAbort(c) PROVE LockInv'
  <2>1. task'.at = task.at
    BY <1>1, <1>5 DEF ShutdownAbort, TaskState
  <2> QED
    BY <1>1, <1>5, <2>1 DEF ShutdownAbort, LockInv
<1>6. ASSUME UNCHANGED <<locks, stage, handle>>,
             task'.at \in {"remove_slot", "store"} <=> task.at \in {"remove_slot", "store"}
      PROVE  LockInv'
  BY <1>6 DEF LockInv, locks
<1>7. ASSUME NEW c \in Consumers, Request(c) \/ Receive(c) \/ ReceiveNone(c) \/ Cancel(c)
      PROVE  UNCHANGED <<locks, stage, handle>> /\ task'.at = task.at
  BY <1>1, <1>7 DEF Request, Receive, ReceiveNone, Cancel, TaskState
<1>8. ASSUME NEW m \in Messages, StartSend(m) \/ FinishSend(m) \/ FailSend(m)
      PROVE  UNCHANGED <<locks, stage, handle, task>>
  BY <1>8 DEF StartSend, FinishSend, FailSend
<1>9. ASSUME \/ Wake \/ Park \/ TakeRequest \/ TakeMessage \/ LeaveLoop \/ Deliver
             \/ DeliverFails \/ Cleanup
      PROVE  /\ UNCHANGED <<locks, stage, handle>>
             /\ {task.at, task'.at} \cap {"remove_slot", "store"} = {}
  BY <1>1, <1>9 DEF Wake, Park, TakeRequest, TakeMessage, LeaveLoop, Deliver, DeliverFails,
                    Cleanup, TaskState, Awaits
<1>10. CASE Reap
  <2>1. /\ UNCHANGED <<locks, stage, handle>>
        /\ {task.at, task'.at} \cap {"remove_slot", "store"} = {}
    BY <1>1, <1>10 DEF Reap, EndTask, TaskState, Awaits
  <2> QED
    BY <1>6, <2>1
<1>11. CASE UnregisterLock
  BY <1>1, <1>11 DEF UnregisterLock, LockInv, TaskState
<1>12. CASE UnregisterShutdown
  <2>1. /\ UNCHANGED <<locks, stage, handle>>
        /\ task.at = "remove_slot" /\ task'.at = "store"
    BY <1>1, <1>12 DEF UnregisterShutdown, TaskState
  <2> QED
    BY <1>6, <2>1
<1>13. CASE Unregister
  <2>1. /\ UNCHANGED <<latch, stage, handle>> /\ mutex' = "nobody"
        /\ task.at = "store" /\ task'.at = "ended"
    BY <1>1, <1>13 DEF Unregister, EndTask, TaskState
  <2> QED
    BY <1>1, <2>1 DEF LockInv
<1>14. CASE UNCHANGED vars
  BY <1>6, <1>14 DEF vars, locks
<1> QED
  BY <1>2, <1>3, <1>4, <1>5, <1>6, <1>7, <1>8, <1>9, <1>10, <1>11, <1>12, <1>13, <1>14
  DEF Next, Dispatcher

\* The locks are consistent with the calls in every state.
LEMMA Locks == Spec => []LockInv
<1>1. ASSUME Init PROVE LockInv
  BY <1>1, OwnersAssumption DEF Init, LockInv
<1>2. ControlInv /\ LockInv /\ [Next]_vars => LockInv'
  BY LockStep
<1> QED
  BY <1>1, <1>2, Control, PTL DEF Spec

-----------------------------------------------------------------------------
(* The order of the messages *)

\* A sequence is a prefix of its extensions.
LEMMA PrefixOfExtension ==
    ASSUME NEW s \in Seq(Messages), NEW t \in Seq(Messages) PROVE IsPrefix(s, s \o t)
<1>1. Len(s \o t) = Len(s) + Len(t) /\ Len(s) \in Nat /\ Len(t) \in Nat
  OBVIOUS
<1>2. SubSeq(s \o t, 1, Len(s)) = s /\ SubSeq(s, 1, Len(s)) = s
  OBVIOUS
<1> QED
  BY <1>1, <1>2 DEF IsPrefix

\* Concatenation is associative, and appending is to its right operand.
LEMMA JoinAssociative ==
    ASSUME NEW s \in Seq(Messages), NEW t \in Seq(Messages), NEW u \in Seq(Messages)
    PROVE  (s \o t) \o u = s \o (t \o u)
OBVIOUS

LEMMA ConcatAppend ==
    ASSUME NEW s \in Seq(Messages), NEW t \in Seq(Messages), NEW x \in Messages
    PROVE  s \o Append(t, x) = Append(s \o t, x)
OBVIOUS

\* What the steps that neither move a message nor end the task leave alone.
LEMMA NoMessageMoves ==
    ASSUME [Next]_vars, TaskInv, ChannelTypes,
           \A m \in Messages : ~StartSend(m) /\ ~FinishSend(m) /\ ~FailSend(m),
           ~TakeMessage, ~Deliver, ~Reap, ~Unregister
    PROVE  /\ UNCHANGED <<mainQ, inflight, accepted, handed>>
           /\ task'.msg = task.msg
           /\ ReceiversAlive' <=> ReceiversAlive
<1>1. task \in TaskState
  BY DEF TaskInv
<1>2. ASSUME NEW c \in Consumers, Cancel(c)
      PROVE  /\ UNCHANGED <<mainQ, inflight, accepted, handed>>
             /\ task'.msg = task.msg /\ task'.at = task.at
  BY <1>1, <1>2 DEF Cancel, TaskState
<1>3. ASSUME NEW c \in Consumers, ShutdownAbort(c)
      PROVE  /\ UNCHANGED <<mainQ, inflight, accepted, handed>>
             /\ task'.msg = task.msg /\ task'.at = task.at
  BY <1>1, <1>3 DEF ShutdownAbort, TaskState, queues, ledger
<1>4. ASSUME NEW c \in Consumers,
             \/ SubscribeLock(c) \/ Find(c) \/ RegisterAnother(c) \/ Join(c) \/ Request(c)
             \/ Receive(c) \/ ReceiveNone(c) \/ Leave(c) \/ RemoveConsumer(c)
             \/ ShutdownLock(c) \/ ShutdownMark(c)
      PROVE  UNCHANGED <<mainQ, inflight, accepted, handed, task>>
  BY <1>4 DEF SubscribeLock, Find, RegisterAnother, Join, Request, Receive, ReceiveNone, Leave,
              RemoveConsumer, ShutdownLock, ShutdownMark,
              queues, ledger
<1>5. ASSUME \/ Wake \/ Park \/ TakeRequest \/ LeaveLoop \/ DeliverFails \/ Cleanup
             \/ UnregisterLock \/ UnregisterShutdown
      PROVE  /\ UNCHANGED <<mainQ, inflight, accepted, handed>>
             /\ task'.msg = task.msg
             /\ task.at \notin Finished /\ task'.at \notin Finished
  BY <1>1, <1>5 DEF Wake, Park, TakeRequest, LeaveLoop, DeliverFails, Cleanup, UnregisterLock,
                    UnregisterShutdown, TaskState, Awaits, Finished, queues, ledger
<1>6. CASE UNCHANGED vars
  BY <1>6 DEF vars, ReceiversAlive
<1> QED
  BY <1>2, <1>3, <1>4, <1>5, <1>6 DEF Next, Dispatcher, ReceiversAlive

\* Every step keeps the order.
LEMMA OrderStep == ASSUME ControlInv, ControlInv', OrderInv, [Next]_vars PROVE OrderInv'
<1>1. /\ TaskInv /\ ChannelTypes
      /\ mainQ \in Seq(Messages) /\ accepted \in Seq(Messages) /\ handed \in Seq(Messages)
      /\ mainQ' \in Seq(Messages) /\ handed' \in Seq(Messages) /\ accepted' \in Seq(Messages)
  BY DEF ControlInv, ChannelTypes
<1>2. task.msg \in Seq(Messages) /\ task'.msg \in Seq(Messages)
  <2>1. ASSUME NEW t \in TaskState PROVE t.msg \in Seq(Messages)
    <3>1. t.msg = <<>> \/ \E m \in Messages : t.msg = <<m>>
      BY <2>1 DEF TaskState
    <3>2. \A m \in Messages : <<m>> \in Seq(Messages)
      OBVIOUS
    <3>3. <<>> \in Seq(Messages)
      OBVIOUS
    <3> QED
      BY <3>1, <3>2, <3>3
  <2> QED
    BY <2>1 DEF ControlInv, TaskInv
<1>3. (handed' \o task'.msg) \o mainQ' = handed' \o (task'.msg \o mainQ')
  <2>1. handed' \in Seq(Messages) /\ task'.msg \in Seq(Messages) /\ mainQ' \in Seq(Messages)
    BY <1>1, <1>2
  <2> QED
    <3>1. ASSUME NEW s \in Seq(Messages), NEW t \in Seq(Messages), NEW u \in Seq(Messages)
          PROVE  (s \o t) \o u = s \o (t \o u)
      BY JoinAssociative
    <3> QED
      BY ONLY <2>1, <3>1
<1>4. ASSUME accepted' = handed' \o task'.msg \o mainQ' PROVE HandoverIsFifo'
  <2>1. task'.msg \o mainQ' \in Seq(Messages)
    BY <1>1, <1>2
  <2>2. accepted' = handed' \o (task'.msg \o mainQ')
    BY <1>4, <1>3
  <2>3. IsPrefix(handed', accepted')
    BY <1>1, <2>1, <2>2, PrefixOfExtension
  <2> QED
    BY <1>4, <2>3 DEF HandoverIsFifo
<1>5. ASSUME UNCHANGED accepted, inflight' \subseteq inflight PROVE AcceptedOnce'
  BY <1>5 DEF OrderInv, AcceptedOnce
<1>6. ASSUME NEW m \in Messages, StartSend(m) PROVE OrderInv'
  <2>1. HandoverIsFifo'
    BY <1>6 DEF StartSend, OrderInv, HandoverIsFifo, ReceiversAlive, queues, ledger
  <2>2. AcceptedOnce'
    BY <1>6 DEF StartSend, OrderInv, AcceptedOnce, ToSet, ledger
  <2> QED
    BY <2>1, <2>2 DEF OrderInv
<1>7. ASSUME NEW m \in Messages, FinishSend(m) PROVE OrderInv'
  <2>1. accepted = handed \o task.msg \o mainQ
    BY <1>7 DEF FinishSend, OrderInv, HandoverIsFifo
  <2>2. /\ accepted' = Append(accepted, m) /\ mainQ' = Append(mainQ, m)
        /\ UNCHANGED <<handed, task>> /\ m \in inflight /\ inflight' = inflight \ {m}
    BY <1>7 DEF FinishSend
  <2>3. handed \o task.msg \in Seq(Messages)
    BY <1>1, <1>2
  <2>4. accepted' = handed' \o task'.msg \o mainQ'
    BY <1>1, <2>1, <2>2, <2>3, ConcatAppend
  <2>5. /\ Len(accepted') = Len(accepted) + 1 /\ accepted'[Len(accepted) + 1] = m
        /\ \A i \in 1..Len(accepted) : accepted'[i] = accepted[i]
        /\ Len(accepted) \in Nat
        /\ DOMAIN accepted' = 1..Len(accepted') /\ DOMAIN accepted = 1..Len(accepted)
    BY <1>1, <2>2
  <2>6. \A i \in DOMAIN accepted : accepted[i] # m
    BY <2>2 DEF OrderInv, AcceptedOnce
  <2>7. AcceptedOnce'
    BY <2>2, <2>5, <2>6 DEF OrderInv, AcceptedOnce
  <2> QED
    BY <1>4, <2>4, <2>7 DEF OrderInv
<1>8. ASSUME NEW m \in Messages, FailSend(m) PROVE OrderInv'
  <2>1. HandoverIsFifo'
    BY <1>8 DEF FailSend, OrderInv, HandoverIsFifo, ReceiversAlive, queues, ledger
  <2>2. UNCHANGED accepted /\ inflight' \subseteq inflight
    BY <1>8 DEF FailSend, ledger
  <2> QED
    BY <1>5, <2>1, <2>2 DEF OrderInv
<1>9. CASE TakeMessage
  <2>1. ReceiversAlive /\ task.msg = <<>>
    BY <1>9 DEF TakeMessage, ReceiversAlive, Finished, ControlInv, TaskInv
  <2>2. task'.msg = <<Head(mainQ)>> /\ mainQ' = Tail(mainQ) /\ mainQ # <<>>
    BY <1>1, <1>9 DEF TakeMessage, TaskInv, TaskState
  <2>3. accepted = handed \o mainQ
    BY <1>1, <2>1 DEF OrderInv, HandoverIsFifo
  <2>4. mainQ = <<Head(mainQ)>> \o Tail(mainQ)
    BY <1>1, <2>2
  <2>5. UNCHANGED <<accepted, handed, inflight>>
    BY <1>9 DEF TakeMessage, ledger
  <2>6. accepted' = handed' \o (task'.msg \o mainQ')
    BY <2>2, <2>3, <2>4, <2>5
  <2>7. accepted' = handed' \o task'.msg \o mainQ'
    BY <1>3, <2>6
  <2> QED
    BY <1>4, <1>5, <2>5, <2>7 DEF OrderInv
<1>10. CASE Deliver
  <2>1. ReceiversAlive
    BY <1>10 DEF Deliver, ReceiversAlive, Finished
  <2>2. task'.msg = <<>> /\ handed' = handed \o task.msg /\ UNCHANGED <<mainQ, accepted, inflight>>
    BY <1>1, <1>10 DEF Deliver, TaskInv, TaskState, queues
  <2>3. accepted' = handed' \o task'.msg \o mainQ'
    BY <1>1, <1>2, <2>1, <2>2 DEF OrderInv, HandoverIsFifo
  <2> QED
    BY <1>4, <1>5, <2>2, <2>3 DEF OrderInv
<1>11. CASE Reap \/ Unregister
  <2>1. task'.at \in Finished
    BY <1>1, <1>11 DEF Reap, Unregister, EndTask, TaskInv, TaskState, Finished
  <2>2. UNCHANGED <<accepted, handed, inflight>>
    BY <1>11 DEF Reap, Unregister, ledger
  <2>3. HandoverIsFifo'
    BY <2>1, <2>2 DEF OrderInv, HandoverIsFifo, ReceiversAlive
  <2> QED
    BY <1>5, <2>2, <2>3 DEF OrderInv
<1>12. ASSUME UNCHANGED <<mainQ, inflight, accepted, handed>>, task'.msg = task.msg,
              ReceiversAlive' <=> ReceiversAlive
       PROVE  OrderInv'
  BY <1>12 DEF OrderInv, AcceptedOnce, HandoverIsFifo
<1> QED
  BY <1>1, <1>6, <1>7, <1>8, <1>9, <1>10, <1>11, <1>12, NoMessageMoves

\* The order holds in every state.
LEMMA Order == Spec => []OrderInv
<1>1. ASSUME Init PROVE OrderInv
  <2>1. /\ accepted = <<>> /\ handed = <<>> /\ mainQ = <<>> /\ task.msg = <<>>
    BY <1>1 DEF Init
  <2>2. accepted = handed \o task.msg \o mainQ
    BY <2>1
  <2>3. IsPrefix(handed, accepted)
    BY <2>1, PrefixOfExtension DEF IsPrefix
  <2>4. AcceptedOnce
    BY <2>1 DEF AcceptedOnce
  <2> QED
    BY <2>2, <2>3, <2>4 DEF OrderInv, HandoverIsFifo
<1>2. ControlInv /\ ControlInv' /\ OrderInv /\ [Next]_vars => OrderInv'
  BY OrderStep
<1> QED
  BY <1>1, <1>2, Control, PTL DEF Spec

-----------------------------------------------------------------------------
(* The requests *)

\* Steps that leave the requests and the waiting recvs alone.
LEMMA NoRequestMoves ==
    ASSUME [Next]_vars, TaskInv,
           \A c \in Consumers : ~Request(c) /\ ~Receive(c) /\ ~ReceiveNone(c) /\ ~Cancel(c),
           ~TakeRequest, ~LeaveLoop, ~Deliver, ~Reap, ~Unregister
    PROVE  UNCHANGED <<reqQ, shot>> /\ task'.reply = task.reply
<1>1. task \in TaskState
  BY DEF TaskInv
<1>2. ASSUME NEW c \in Consumers, ShutdownAbort(c)
      PROVE  UNCHANGED <<reqQ, shot>> /\ task'.reply = task.reply
  BY <1>1, <1>2 DEF ShutdownAbort, TaskState, queues
<1>3. ASSUME NEW c \in Consumers,
             \/ SubscribeLock(c) \/ Find(c) \/ RegisterAnother(c) \/ Join(c) \/ Leave(c)
             \/ RemoveConsumer(c) \/ ShutdownLock(c) \/ ShutdownMark(c)
      PROVE  UNCHANGED <<reqQ, shot, task>>
  BY <1>3 DEF SubscribeLock, Find, RegisterAnother, Join, Leave, RemoveConsumer, ShutdownLock,
              ShutdownMark, queues
<1>4. ASSUME NEW m \in Messages, StartSend(m) \/ FinishSend(m) \/ FailSend(m)
      PROVE  UNCHANGED <<reqQ, shot, task>>
  BY <1>4 DEF StartSend, FinishSend, FailSend, queues
<1>5. ASSUME \/ Wake \/ Park \/ TakeMessage \/ DeliverFails \/ Cleanup
             \/ UnregisterLock \/ UnregisterShutdown
      PROVE  UNCHANGED <<reqQ, shot>> /\ task'.reply = task.reply
  BY <1>1, <1>5 DEF Wake, Park, TakeMessage, DeliverFails, Cleanup, UnregisterLock,
                    UnregisterShutdown, TaskState, queues
<1>6. CASE UNCHANGED vars
  BY <1>6 DEF vars
<1> QED
  BY <1>2, <1>3, <1>4, <1>5, <1>6 DEF Next, Dispatcher

\* Every step keeps requests and waiting recvs together.
LEMMA RequestStep == ASSUME ControlInv, RequestInv, [Next]_vars PROVE RequestInv'
<1> USE CancelledAssumption, MessagesAssumption
<1>1. /\ TaskInv /\ task \in TaskState
      /\ shot \in [Consumers -> {"none", "open", "closed"} \cup Messages]
      /\ reqQ \in Seq(Consumers \cup {Cancelled})
      /\ Len(reqQ) \in Nat /\ DOMAIN reqQ = 1..Len(reqQ)
  BY DEF ControlInv, TaskInv, ChannelTypes
<1>2. ASSUME NEW c \in Consumers, Request(c) PROVE RequestInv'
  <2>1. /\ reqQ' = Append(reqQ, c) /\ task' = task
        /\ shot' = [shot EXCEPT ![c] = "open"] /\ shot[c] = "none"
    BY <1>2 DEF Request
  <2>2. task.reply # c /\ \A i \in DOMAIN reqQ : reqQ[i] # c
    BY <2>1 DEF RequestInv
  <2>3. /\ DOMAIN reqQ' = 1..(Len(reqQ) + 1) /\ reqQ'[Len(reqQ) + 1] = c
        /\ \A i \in 1..Len(reqQ) : reqQ'[i] = reqQ[i]
    BY <1>1, <2>1
  <2>4. \A i, j \in DOMAIN reqQ' : reqQ'[i] = reqQ'[j] /\ reqQ'[i] # Cancelled => i = j
    BY <1>1, <2>2, <2>3 DEF RequestInv
  <2>5. \A i \in DOMAIN reqQ' : reqQ'[i] = task'.reply => task'.reply = Cancelled
    BY <1>1, <2>1, <2>2, <2>3 DEF RequestInv
  <2>6. ASSUME NEW d \in Consumers
        PROVE  shot'[d] = "open" <=> task'.reply = d \/ \E i \in DOMAIN reqQ' : reqQ'[i] = d
    <3>1. CASE d = c
      BY <1>1, <2>1, <2>3, <3>1
    <3>2. CASE d # c
      <4>1. shot'[d] = shot[d]
        BY <1>1, <2>1, <3>2
      <4>2. (\E i \in DOMAIN reqQ' : reqQ'[i] = d) <=> (\E i \in DOMAIN reqQ : reqQ[i] = d)
        BY <1>1, <2>3, <3>2
      <4> QED
        BY <2>1, <4>1, <4>2 DEF RequestInv
    <3> QED
      BY <3>1, <3>2
  <2> QED
    BY <2>4, <2>5, <2>6 DEF RequestInv
<1>3. ASSUME NEW c \in Consumers, Receive(c) \/ ReceiveNone(c) PROVE RequestInv'
  <2>1. /\ UNCHANGED <<reqQ, task>> /\ shot[c] # "open"
        /\ shot' = [shot EXCEPT ![c] = "none"]
    BY <1>1, <1>3 DEF Receive, ReceiveNone, queues
  <2> QED
    BY <1>1, <2>1 DEF RequestInv
<1>4. ASSUME NEW c \in Consumers, Cancel(c) PROVE RequestInv'
  <2>1. /\ DOMAIN reqQ' = DOMAIN reqQ
        /\ \A i \in DOMAIN reqQ : reqQ'[i] = IF reqQ[i] = c THEN Cancelled ELSE reqQ[i]
        /\ shot' = [shot EXCEPT ![c] = "none"]
    BY <1>4 DEF Cancel
  <2>2. task'.reply = IF task.reply = c THEN Cancelled ELSE task.reply
    BY <1>1, <1>4 DEF Cancel, TaskState
  <2>3. \A i, j \in DOMAIN reqQ' : reqQ'[i] = reqQ'[j] /\ reqQ'[i] # Cancelled => i = j
    BY <2>1 DEF RequestInv
  <2>4. \A i \in DOMAIN reqQ' : reqQ'[i] = task'.reply => task'.reply = Cancelled
    BY <2>1, <2>2 DEF RequestInv
  <2>5. ASSUME NEW d \in Consumers
        PROVE  shot'[d] = "open" <=> task'.reply = d \/ \E i \in DOMAIN reqQ' : reqQ'[i] = d
    BY <1>1, <2>1, <2>2 DEF RequestInv
  <2> QED
    BY <2>3, <2>4, <2>5 DEF RequestInv
<1>5. CASE TakeRequest
  <2>1. /\ task.reply = Cancelled /\ reqQ # <<>> /\ reqQ' = Tail(reqQ) /\ UNCHANGED shot
        /\ task'.reply = Head(reqQ)
    BY <1>1, <1>5 DEF TakeRequest, TaskInv, TaskState
  <2>2. /\ DOMAIN reqQ' = 1..(Len(reqQ) - 1) /\ Head(reqQ) = reqQ[1] /\ Len(reqQ) > 0
        /\ \A i \in 1..(Len(reqQ) - 1) : reqQ'[i] = reqQ[i + 1]
    BY <1>1, <2>1
  <2>3. \A i, j \in DOMAIN reqQ' : reqQ'[i] = reqQ'[j] /\ reqQ'[i] # Cancelled => i = j
    <3> SUFFICES ASSUME NEW i \in DOMAIN reqQ', NEW j \in DOMAIN reqQ',
                        reqQ'[i] = reqQ'[j], reqQ'[i] # Cancelled
                 PROVE  i = j
      OBVIOUS
    <3>1. i + 1 \in DOMAIN reqQ /\ j + 1 \in DOMAIN reqQ /\ i \in Int /\ j \in Int
      BY <1>1, <2>2
    <3>2. i + 1 = j + 1
      BY <2>2, <3>1 DEF RequestInv
    <3> QED
      BY <3>1, <3>2
  <2>4. \A i \in DOMAIN reqQ' : reqQ'[i] = task'.reply => task'.reply = Cancelled
    <3> SUFFICES ASSUME NEW i \in DOMAIN reqQ', reqQ'[i] = task'.reply, task'.reply # Cancelled
                 PROVE  FALSE
      OBVIOUS
    <3>1. i + 1 \in DOMAIN reqQ /\ 1 \in DOMAIN reqQ /\ i \in Int /\ i > 0
      BY <1>1, <2>2
    <3>2. i + 1 = 1
      BY <2>1, <2>2, <3>1 DEF RequestInv
    <3> QED
      BY <3>1, <3>2
  <2>5. ASSUME NEW d \in Consumers
        PROVE  shot'[d] = "open" <=> task'.reply = d \/ \E i \in DOMAIN reqQ' : reqQ'[i] = d
    <3>1. (\E i \in DOMAIN reqQ : reqQ[i] = d)
             <=> Head(reqQ) = d \/ \E i \in DOMAIN reqQ' : reqQ'[i] = d
      <4>1. ASSUME NEW i \in DOMAIN reqQ, reqQ[i] = d
            PROVE  Head(reqQ) = d \/ \E j \in DOMAIN reqQ' : reqQ'[j] = d
        <5>1. CASE i = 1
          BY <2>2, <4>1, <5>1
        <5>2. CASE i # 1
          <6>1. i - 1 \in DOMAIN reqQ' /\ reqQ'[i - 1] = reqQ[i]
            BY <1>1, <2>2, <5>2
          <6> QED
            BY <4>1, <6>1
        <5> QED
          BY <5>1, <5>2
      <4>2. ASSUME NEW i \in DOMAIN reqQ', reqQ'[i] = d PROVE \E j \in DOMAIN reqQ : reqQ[j] = d
        <5>1. i + 1 \in DOMAIN reqQ /\ reqQ[i + 1] = d
          BY <1>1, <2>2, <4>2
        <5> QED
          BY <5>1
      <4>3. 1 \in DOMAIN reqQ
        BY <1>1, <2>2
      <4> QED
        BY <2>2, <4>1, <4>2, <4>3
    <3> QED
      BY <2>1, <3>1 DEF RequestInv
  <2> QED
    BY <2>3, <2>4, <2>5 DEF RequestInv
<1>6. CASE LeaveLoop
  <2>1. task'.reply = Cancelled /\ UNCHANGED reqQ
    BY <1>1, <1>6 DEF LeaveLoop, TaskState, queues
  <2>2. \A d \in Consumers : shot'[d] = "open" <=> shot[d] = "open" /\ d # task.reply
    BY <1>1, <1>6 DEF LeaveLoop, Hangup
  <2> QED
    BY <2>1, <2>2 DEF RequestInv
<1>7. CASE Deliver
  <2>1. /\ task'.reply = Cancelled /\ UNCHANGED reqQ
        /\ task.reply \in Consumers /\ shot' = [shot EXCEPT ![task.reply] = task.msg[1]]
    BY <1>1, <1>7 DEF Deliver, TaskState, queues
  <2>2. PICK m \in Messages : task.msg = <<m>>
    <3>1. task.msg # <<>> /\ task.msg \in {<<>>} \cup {<<m>> : m \in Messages}
      BY <1>1, <1>7 DEF Deliver, TaskInv, TaskState
    <3> QED
      BY <3>1
  <2>3. task.msg[1] = m /\ m # "open"
    BY <2>2
  <2>4. \A d \in Consumers : shot'[d] = "open" <=> shot[d] = "open" /\ d # task.reply
    BY <1>1, <2>1, <2>3
  <2> QED
    BY <2>1, <2>4 DEF RequestInv
<1>8. CASE Reap \/ Unregister
  <2>1. PICK at : EndTask(at)
    BY <1>8 DEF Reap, Unregister
  <2>2. reqQ' = <<>> /\ task'.reply = Cancelled
    BY <1>1, <2>1 DEF EndTask, TaskState
  <2>3. \A d \in Consumers : shot'[d] # "open"
    BY <1>1, <2>1 DEF EndTask, Hangup
  <2>4. DOMAIN reqQ' = {}
    BY <2>2
  <2> QED
    BY <2>2, <2>3, <2>4 DEF RequestInv
<1>9. ASSUME UNCHANGED <<reqQ, shot>>, task'.reply = task.reply PROVE RequestInv'
  BY <1>9 DEF RequestInv
<1> QED
  BY <1>1, <1>2, <1>3, <1>4, <1>5, <1>6, <1>7, <1>8, <1>9, NoRequestMoves

\* Requests and waiting recvs agree in every state.
LEMMA Requests == Spec => []RequestInv
<1>1. ASSUME Init PROVE RequestInv
  <2>1. /\ DOMAIN reqQ = {} /\ task.reply = Cancelled
        /\ \A c \in Consumers : shot[c] = "none"
    BY <1>1 DEF Init
  <2> QED
    BY <2>1, CancelledAssumption DEF RequestInv
<1>2. ControlInv /\ RequestInv /\ [Next]_vars => RequestInv'
  BY RequestStep
<1> QED
  BY <1>1, <1>2, Control, PTL DEF Spec

-----------------------------------------------------------------------------
(* Where the handed messages are *)

\* Steps that leave every handed message where it is.
LEMMA NoHandedMoves ==
    ASSUME [Next]_vars, ControlInv,
           \A c \in Consumers : ~Receive(c) /\ ~Cancel(c), ~Deliver
    PROVE  /\ UNCHANGED <<handed, discarded, received>>
           /\ \A c \in Consumers : \/ shot'[c] = shot[c]
                                   \/ {shot[c], shot'[c]} \subseteq {"none", "open", "closed"}
<1>1. shot \in [Consumers -> {"none", "open", "closed"} \cup Messages]
  BY DEF ControlInv, ChannelTypes
<1>2. ASSUME NEW c \in Consumers, Request(c) \/ ReceiveNone(c)
      PROVE  /\ UNCHANGED <<handed, discarded, received>>
             /\ \A d \in Consumers : \/ shot'[d] = shot[d]
                                     \/ {shot[d], shot'[d]} \subseteq {"none", "open", "closed"}
  BY <1>1, <1>2 DEF Request, ReceiveNone, ledger
<1>3. ASSUME Reap \/ Unregister \/ LeaveLoop
      PROVE  /\ UNCHANGED <<handed, discarded, received>>
             /\ \A d \in Consumers : \/ shot'[d] = shot[d]
                                     \/ {shot[d], shot'[d]} \subseteq {"none", "open", "closed"}
  BY <1>1, <1>3 DEF Reap, Unregister, EndTask, LeaveLoop, Hangup, ledger
<1>4. ASSUME NEW c \in Consumers,
             \/ SubscribeLock(c) \/ Find(c) \/ RegisterAnother(c) \/ Join(c) \/ Leave(c)
             \/ RemoveConsumer(c) \/ ShutdownLock(c) \/ ShutdownAbort(c) \/ ShutdownMark(c)
      PROVE  UNCHANGED <<shot, handed, discarded, received>>
  BY <1>4 DEF SubscribeLock, Find, RegisterAnother, Join, Leave, RemoveConsumer, ShutdownLock,
              ShutdownAbort, ShutdownMark, ledger
<1>5. ASSUME NEW m \in Messages, StartSend(m) \/ FinishSend(m) \/ FailSend(m)
      PROVE  UNCHANGED <<shot, handed, discarded, received>>
  BY <1>5 DEF StartSend, FinishSend, FailSend, ledger
<1>6. ASSUME \/ Wake \/ Park \/ TakeRequest \/ TakeMessage \/ DeliverFails \/ Cleanup
             \/ UnregisterLock \/ UnregisterShutdown
      PROVE  UNCHANGED <<shot, handed, discarded, received>>
  BY <1>6 DEF Wake, Park, TakeRequest, TakeMessage, DeliverFails, Cleanup, UnregisterLock,
              UnregisterShutdown, ledger
<1>7. CASE UNCHANGED vars
  BY <1>7 DEF vars
<1> QED
  BY <1>2, <1>3, <1>4, <1>5, <1>6, <1>7 DEF Next, Dispatcher

\* The message the dispatcher holds has not been handed over, and its oneshot
\* is waiting.
LEMMA HeldIsFresh ==
    ASSUME ControlInv, OrderInv, RequestInv, Deliver
    PROVE  \E m \in Messages :
               /\ task.msg = <<m>> /\ m \notin ToSet(handed)
               /\ handed' = Append(handed, m) /\ ToSet(handed') = ToSet(handed) \cup {m}
               /\ task.reply \in Consumers /\ shot[task.reply] = "open"
               /\ shot' = [shot EXCEPT ![task.reply] = m]
<1>1. PICK m \in Messages : task.msg = <<m>>
  <2>1. task.msg # <<>> /\ task.msg \in {<<>>} \cup {<<m>> : m \in Messages}
    BY DEF Deliver, ControlInv, TaskInv, TaskState
  <2> QED
    BY <2>1
<1>2. handed \in Seq(Messages) /\ mainQ \in Seq(Messages)
  BY DEF ControlInv, ChannelTypes
<1>3. task.reply \in Consumers /\ shot[task.reply] = "open"
  BY DEF Deliver, ControlInv, TaskInv, TaskState, RequestInv
<1>4. shot' = [shot EXCEPT ![task.reply] = m] /\ handed' = Append(handed, m)
  <2>1. handed' = handed \o <<m>> /\ shot' = [shot EXCEPT ![task.reply] = m]
    BY <1>1 DEF Deliver
  <2> QED
    BY <1>2, <2>1
<1>5. accepted = handed \o <<m>> \o mainQ
  BY <1>1 DEF Deliver, OrderInv, HandoverIsFifo, ReceiversAlive, Finished
<1>6. /\ Len(handed) \in Nat /\ DOMAIN handed = 1..Len(handed)
      /\ DOMAIN accepted = 1..Len(accepted)
      /\ Len(accepted) = Len(handed) + 1 + Len(mainQ) /\ Len(mainQ) \in Nat
      /\ accepted[Len(handed) + 1] = m
      /\ \A i \in 1..Len(handed) : accepted[i] = handed[i]
  BY <1>2, <1>5
<1>7. m \notin ToSet(handed)
  <2> SUFFICES ASSUME NEW i \in 1..Len(handed), handed[i] = m PROVE FALSE
    BY <1>6 DEF ToSet
  <2>1. i \in DOMAIN accepted /\ Len(handed) + 1 \in DOMAIN accepted
        /\ accepted[i] = accepted[Len(handed) + 1] /\ i # Len(handed) + 1
    BY <1>6
  <2> QED
    BY <2>1 DEF OrderInv, AcceptedOnce
<1>8. /\ DOMAIN handed' = 1..(Len(handed) + 1) /\ handed'[Len(handed) + 1] = m
      /\ \A i \in 1..Len(handed) : handed'[i] = handed[i]
  BY <1>2, <1>4
<1>9. ToSet(handed') = ToSet(handed) \cup {m}
  <2>1. ASSUME NEW x \in ToSet(handed') PROVE x \in ToSet(handed) \cup {m}
    BY <1>6, <1>8, <2>1 DEF ToSet
  <2>2. ASSUME NEW x \in ToSet(handed) PROVE x \in ToSet(handed')
    BY <1>6, <1>8, <2>2 DEF ToSet
  <2>3. m \in ToSet(handed')
    BY <1>6, <1>8 DEF ToSet
  <2> QED
    BY <2>1, <2>2, <2>3
<1> QED
  BY <1>1, <1>3, <1>4, <1>7, <1>9

\* Every step keeps each handed message in one place.
LEMMA HandedStep ==
    ASSUME ControlInv, OrderInv, RequestInv, HandedToOne, [Next]_vars PROVE HandedToOne'
<1> USE MessagesAssumption
<1> DEFINE Unread(s) == {m \in Messages : \E c \in Consumers : s[c] = m}
<1>1. /\ shot \in [Consumers -> {"none", "open", "closed"} \cup Messages]
      /\ discarded \subseteq Messages /\ received \subseteq Messages
  BY DEF ControlInv, ChannelTypes
<1>2. ASSUME NEW c \in Consumers, Receive(c) PROVE HandedToOne'
  <2>1. PICK m \in Messages : shot[c] = m
    BY <1>2 DEF Receive
  <2>2. /\ received' = received \cup {m} /\ UNCHANGED <<handed, discarded>>
        /\ shot' = [shot EXCEPT ![c] = "none"]
    BY <1>2, <2>1 DEF Receive
  <2>3. Unread(shot) = Unread(shot') \cup {m} /\ \A d \in Consumers : shot'[d] # m
    BY <1>1, <2>1, <2>2 DEF HandedToOne
  <2>4. ToSet(handed') = received' \cup discarded' \cup Unread(shot')
    BY <2>2, <2>3 DEF HandedToOne
  <2>5. \A x, y \in Consumers : shot'[x] \in Messages /\ shot'[x] = shot'[y] => x = y
    BY <1>1, <2>2 DEF HandedToOne
  <2>6. received' \cap discarded' = {}
    BY <2>1, <2>2 DEF HandedToOne
  <2>7. \A x \in Consumers : shot'[x] \notin received' \cup discarded'
    BY <1>1, <2>2, <2>3 DEF HandedToOne
  <2> QED
    BY <2>4, <2>5, <2>6, <2>7 DEF HandedToOne
<1>3. ASSUME NEW c \in Consumers, Cancel(c), shot[c] \in Messages PROVE HandedToOne'
  <2>1. PICK m \in Messages : shot[c] = m
    BY <1>3
  <2>2. /\ discarded' = discarded \cup {m} /\ UNCHANGED <<handed, received>>
        /\ shot' = [shot EXCEPT ![c] = "none"]
    BY <1>3, <2>1 DEF Cancel
  <2>3. Unread(shot) = Unread(shot') \cup {m} /\ \A d \in Consumers : shot'[d] # m
    BY <1>1, <2>1, <2>2 DEF HandedToOne
  <2>4. ToSet(handed') = received' \cup discarded' \cup Unread(shot')
    BY <2>2, <2>3 DEF HandedToOne
  <2>5. \A x, y \in Consumers : shot'[x] \in Messages /\ shot'[x] = shot'[y] => x = y
    BY <1>1, <2>2 DEF HandedToOne
  <2>6. received' \cap discarded' = {}
    BY <2>1, <2>2 DEF HandedToOne
  <2>7. \A x \in Consumers : shot'[x] \notin received' \cup discarded'
    BY <1>1, <2>2, <2>3 DEF HandedToOne
  <2> QED
    BY <2>4, <2>5, <2>6, <2>7 DEF HandedToOne
<1>4. CASE Deliver
  <2>1. PICK m \in Messages :
              /\ m \notin ToSet(handed) /\ ToSet(handed') = ToSet(handed) \cup {m}
              /\ task.reply \in Consumers /\ shot[task.reply] = "open"
              /\ shot' = [shot EXCEPT ![task.reply] = m]
    BY <1>4, HeldIsFresh
  <2>2. UNCHANGED <<discarded, received>>
    BY <1>4 DEF Deliver
  <2>3. m \notin received /\ m \notin discarded /\ \A d \in Consumers : shot[d] # m
    BY <2>1 DEF HandedToOne
  <2>4. Unread(shot') = Unread(shot) \cup {m}
    BY <1>1, <2>1
  <2>5. ToSet(handed') = received' \cup discarded' \cup Unread(shot')
    BY <2>1, <2>2, <2>4 DEF HandedToOne
  <2>6. \A x, y \in Consumers : shot'[x] \in Messages /\ shot'[x] = shot'[y] => x = y
    BY <1>1, <2>1, <2>3 DEF HandedToOne
  <2>7. \A x \in Consumers : shot'[x] \notin received' \cup discarded'
    BY <1>1, <2>1, <2>2, <2>3 DEF HandedToOne
  <2> QED
    BY <2>2, <2>5, <2>6, <2>7 DEF HandedToOne
<1>5. ASSUME UNCHANGED <<handed, discarded, received>>,
             \A c \in Consumers : \/ shot'[c] = shot[c]
                                  \/ {shot[c], shot'[c]} \subseteq {"none", "open", "closed"}
      PROVE  HandedToOne'
  <2>1. Unread(shot') = Unread(shot)
    BY <1>5
  <2>2. ToSet(handed') = received' \cup discarded' \cup Unread(shot')
    BY <1>5, <2>1 DEF HandedToOne
  <2>3. \A x, y \in Consumers : shot'[x] \in Messages /\ shot'[x] = shot'[y] => x = y
    BY <1>5 DEF HandedToOne
  <2>4. \A x \in Consumers : shot'[x] \notin received' \cup discarded'
    BY <1>1, <1>5 DEF HandedToOne
  <2> QED
    BY <1>5, <2>2, <2>3, <2>4 DEF HandedToOne
<1>6. ASSUME NEW c \in Consumers, Cancel(c), shot[c] \notin Messages PROVE HandedToOne'
  <2>1. /\ UNCHANGED <<handed, discarded, received>>
        /\ shot' = [shot EXCEPT ![c] = "none"]
    BY <1>6 DEF Cancel
  <2>2. \A d \in Consumers : \/ shot'[d] = shot[d]
                             \/ {shot[d], shot'[d]} \subseteq {"none", "open", "closed"}
    BY <1>1, <1>6, <2>1
  <2> QED
    BY <1>5, <2>1, <2>2
<1> QED
  BY <1>2, <1>3, <1>4, <1>5, <1>6, NoHandedMoves

\* Handed messages are in one place in every state.
LEMMA Handed == Spec => []HandedToOne
<1>1. ASSUME Init PROVE HandedToOne
  <2>1. /\ handed = <<>> /\ received = {} /\ discarded = {}
        /\ \A c \in Consumers : shot[c] = "none"
    BY <1>1 DEF Init
  <2>2. ToSet(handed) = {}
    BY <2>1 DEF ToSet
  <2> QED
    BY <2>1, <2>2, MessagesAssumption DEF HandedToOne
<1>2. ControlInv /\ OrderInv /\ RequestInv /\ HandedToOne /\ [Next]_vars => HandedToOne'
  BY HandedStep
<1> QED
  BY <1>1, <1>2, Control, Order, Requests, PTL DEF Spec

-----------------------------------------------------------------------------
(* The theorems *)

\* Every state of a group is well typed: in particular neither channel ever
\* holds more than its capacity, and active_consumers never goes below zero.
THEOREM TypeCorrect == Spec => []TypeOK
<1>1. ControlInv /\ LockInv => TypeOK
  BY DEF ControlInv, HandleInv, TaskInv, ChannelTypes, LockInv, TypeOK
<1> QED
  BY <1>1, Control, Locks, PTL

\* No drop of a handle is the last one, which shuts the group down, while
\* another member keeps its handle.
THEOREM MembersProtected == Spec => MembersProtectGroup
<1>1. ASSUME HandleInv, [Next]_vars, NEW c \in Consumers, NEW d \in Consumers,
             handle[c] = "held", handle'[c] = "held", handle'[d] = "last"
      PROVE  handle[d] = "last"
  <2>1. CASE RemoveConsumer(d)
    <3>1. c # d /\ c \in Held /\ d \in Held /\ active = 1
      BY <1>1, <2>1 DEF RemoveConsumer, HandleInv, Held
    <3>2. IsFiniteSet(Held)
      BY ConsumersAssumption, FS_Subset DEF Held
    <3>3. PICK x : Held = {x}
      BY <1>1, <3>1, <3>2, FS_Singleton DEF HandleInv
    <3> QED
      BY <3>1, <3>3
  <2>2. CASE ~RemoveConsumer(d)
    <3>1. CASE \E x \in Consumers : RemoveConsumer(x)
      BY <1>1, <2>2, <3>1 DEF RemoveConsumer, HandleInv
    <3>2. CASE \E x \in Consumers : Join(x) \/ Leave(x) \/ ShutdownLock(x)
                                      \/ ShutdownAbort(x) \/ ShutdownMark(x)
      BY <1>1, <3>2 DEF Join, Leave, ShutdownLock, ShutdownAbort, ShutdownMark, HandleInv
    <3>3. CASE UNCHANGED handle
      BY <1>1, <3>3
    <3>4. ASSUME Dispatcher PROVE UNCHANGED handle
      BY <3>4 DEF Dispatcher, Wake, Park, Reap, TakeRequest, TakeMessage, LeaveLoop,
                  Deliver, DeliverFails, Cleanup, UnregisterLock, UnregisterShutdown,
                  Unregister
    <3>5. ASSUME NEW x \in Consumers,
                 \/ SubscribeLock(x) \/ Find(x) \/ RegisterAnother(x) \/ Request(x)
                 \/ Receive(x) \/ ReceiveNone(x) \/ Cancel(x)
          PROVE  UNCHANGED handle
      BY <3>5 DEF SubscribeLock, Find, RegisterAnother, Request, Receive, ReceiveNone, Cancel
    <3>6. ASSUME NEW m \in Messages, StartSend(m) \/ FinishSend(m) \/ FailSend(m)
          PROVE  UNCHANGED handle
      BY <3>6 DEF StartSend, FinishSend, FailSend
    <3>7. ASSUME UNCHANGED vars PROVE UNCHANGED handle
      BY <3>7 DEF vars
    <3> QED
      BY <1>1, <3>1, <3>2, <3>3, <3>4, <3>5, <3>6, <3>7 DEF Next
  <2> QED
    BY <2>1, <2>2
<1>2. HandleInv /\ [Next]_vars
          => [\A c, d \in Consumers :
                 handle[c] = "held" /\ handle'[c] = "held" /\ handle'[d] = "last"
                     => handle[d] = "last"]_vars
  BY <1>1
<1>3. ControlInv => HandleInv
  BY DEF ControlInv
<1> QED
  BY <1>2, <1>3, Control, PTL DEF Spec, MembersProtectGroup

\* The dispatcher hands over the accepted messages once each, in the order of
\* acceptance, and until it ends it has the rest in hand or queued.
THEOREM Fifo == Spec => []HandoverIsFifo
<1>1. OrderInv => HandoverIsFifo
  BY DEF OrderInv
<1> QED
  BY <1>1, Order, PTL

\* Each handed message is unread in one oneshot, was returned by one recv, or
\* was dropped unread with a cancelled recv.
THEOREM ExactlyOnePlace == Spec => []HandedToOne
BY Handed

\* A recv waits exactly if the dispatcher holds its request or has it queued
\* once: none waits on a dispatcher that has forgotten it.
THEOREM WaiterKnown == Spec => []WaiterHasRequest
<1>1. ControlInv /\ RequestInv => WaiterHasRequest
  <2> SUFFICES ASSUME ControlInv, RequestInv, NEW c \in Consumers
               PROVE  LET places == {i \in DOMAIN reqQ : reqQ[i] = c}
                      IN  IF shot[c] = "open"
                          THEN IF task.reply = c
                               THEN places = {} ELSE \E i \in DOMAIN reqQ : places = {i}
                          ELSE places = {} /\ task.reply # c
    BY DEF WaiterHasRequest
  <2>1. c # Cancelled
    BY CancelledAssumption
  <2>2. CASE shot[c] = "open" /\ task.reply = c
    BY <2>1, <2>2 DEF RequestInv
  <2>3. CASE shot[c] = "open" /\ task.reply # c
    <3>1. PICK i \in DOMAIN reqQ : reqQ[i] = c
      BY <2>3 DEF RequestInv
    <3>2. {j \in DOMAIN reqQ : reqQ[j] = c} = {i}
      BY <2>1, <3>1 DEF RequestInv
    <3> QED
      BY <2>3, <3>2
  <2>4. CASE shot[c] # "open"
    BY <2>4 DEF RequestInv
  <2> QED
    BY <2>2, <2>3, <2>4
<1> QED
  BY <1>1, Control, Requests, PTL

-----------------------------------------------------------------------------
(* The refinement *)

\* The messages nobody was handed, and each consumer's unread message: the
\* work queue's pending and held.
Pending == task.msg \o mainQ
HeldBy == [c \in Consumers |-> {shot[c]} \cap Messages]

\* Every step of the group is a step of the work queue or leaves it alone.
LEMMA QueueStep ==
    ASSUME ControlInv, OrderInv, RequestInv, [Next]_vars
    PROVE  [Queue!Next]_(Queue!vars)
<1> USE MessagesAssumption
<1>1. /\ TaskInv /\ ChannelTypes /\ task \in TaskState
      /\ shot \in [Consumers -> {"none", "open", "closed"} \cup Messages]
      /\ mainQ \in Seq(Messages)
  BY DEF ControlInv, TaskInv, ChannelTypes
<1>2. task.msg \in Seq(Messages)
  <2>1. task.msg = <<>> \/ \E m \in Messages : task.msg = <<m>>
    BY <1>1 DEF TaskState
  <2>2. \A m \in Messages : <<m>> \in Seq(Messages)
    OBVIOUS
  <2>3. <<>> \in Seq(Messages)
    OBVIOUS
  <2> QED
    BY <2>1, <2>2, <2>3
<1>3. ASSUME ReceiversAlive' = ReceiversAlive, Pending' = Pending, HeldBy' = HeldBy,
             UNCHANGED <<received, discarded>>
      PROVE  UNCHANGED Queue!vars
  BY <1>3 DEF Queue!vars, Pending, HeldBy
<1>4. ASSUME NEW m \in Messages, FinishSend(m) PROVE Queue!Next
  <2>1. /\ ReceiversAlive /\ mainQ' = Append(mainQ, m)
        /\ UNCHANGED <<task, shot, received, discarded>>
    BY <1>4 DEF FinishSend
  <2>2. Pending' = Append(Pending, m)
    BY <1>1, <1>2, <2>1, ConcatAppend DEF Pending
  <2>3. Queue!Accept(m)
    BY <2>1, <2>2 DEF Queue!Accept, Pending, ReceiversAlive
  <2> QED
    BY <2>3 DEF Queue!Next
<1>5. CASE Deliver
  <2>1. PICK m \in Messages :
              /\ task.msg = <<m>> /\ task.reply \in Consumers /\ shot[task.reply] = "open"
              /\ shot' = [shot EXCEPT ![task.reply] = m]
    BY <1>5, HeldIsFresh
  <2>2. PICK c \in Consumers : c = task.reply
    BY <2>1
  <2>3. /\ ReceiversAlive /\ ReceiversAlive' /\ task'.msg = <<>>
        /\ UNCHANGED <<mainQ, received, discarded>>
    BY <1>1, <1>5 DEF Deliver, ReceiversAlive, Finished, TaskState, queues
  <2>4. Pending = <<m>> \o mainQ /\ Pending' = mainQ
    BY <1>1, <2>1, <2>3 DEF Pending
  <2>5. Pending # <<>> /\ Head(Pending) = m /\ Tail(Pending) = mainQ
    BY <1>1, <2>4
  <2>6. HeldBy[c] = {} /\ HeldBy' = [HeldBy EXCEPT ![c] = {m}]
    BY <1>1, <2>1, <2>2 DEF HeldBy
  <2>7. Queue!Hand(c)
    BY <2>3, <2>4, <2>5, <2>6 DEF Queue!Hand, Pending, HeldBy
  <2> QED
    BY <2>7 DEF Queue!Next
<1>6. ASSUME NEW c \in Consumers, Receive(c) PROVE Queue!Next
  <2>1. PICK m \in Messages : shot[c] = m
    BY <1>6 DEF Receive
  <2>2. /\ received' = received \cup {m} /\ UNCHANGED <<task, mainQ, discarded>>
        /\ shot' = [shot EXCEPT ![c] = "none"]
    BY <1>6, <2>1 DEF Receive, queues
  <2>3. HeldBy[c] = {m} /\ HeldBy' = [HeldBy EXCEPT ![c] = {}]
    BY <1>1, <2>1, <2>2 DEF HeldBy
  <2>4. Queue!Receive(c)
    BY <2>2, <2>3 DEF Queue!Receive, HeldBy, ReceiversAlive
  <2> QED
    BY <2>4 DEF Queue!Next
<1>7. ASSUME NEW c \in Consumers, Cancel(c)
      PROVE  /\ ReceiversAlive' = ReceiversAlive /\ Pending' = Pending
             /\ UNCHANGED received
             /\ discarded' = discarded \cup ({shot[c]} \cap Messages)
             /\ shot' = [shot EXCEPT ![c] = "none"]
  BY <1>1, <1>7 DEF Cancel, Pending, ReceiversAlive, TaskState
<1>8. ASSUME NEW c \in Consumers, Cancel(c), shot[c] \in Messages PROVE Queue!Next
  <2>1. HeldBy[c] = {shot[c]} /\ HeldBy' = [HeldBy EXCEPT ![c] = {}]
    BY <1>1, <1>7, <1>8 DEF HeldBy
  <2>2. Queue!Discard(c)
    BY <1>7, <1>8, <2>1 DEF Queue!Discard, HeldBy, Pending
  <2> QED
    BY <2>2 DEF Queue!Next
<1>9. ASSUME NEW c \in Consumers, Cancel(c), shot[c] \notin Messages PROVE UNCHANGED Queue!vars
  <2>1. HeldBy' = HeldBy /\ discarded' = discarded
    BY <1>1, <1>7, <1>9 DEF HeldBy
  <2> QED
    BY <1>3, <1>7, <1>9, <2>1
<1>10. CASE Reap \/ Unregister
  <2>1. /\ ReceiversAlive /\ UNCHANGED <<received, discarded>>
    BY <1>10 DEF Reap, Unregister, ReceiversAlive, Awaits, Finished, ledger
  <2>2. PICK at \in Finished : EndTask(at)
    BY <1>10 DEF Reap, Unregister, Finished
  <2>3. task'.at = at /\ task'.msg = <<>> /\ mainQ' = <<>> /\ shot' = Hangup(Consumers)
    BY <1>1, <2>2 DEF EndTask, TaskState
  <2>4. ~ReceiversAlive' /\ Pending' = <<>>
    BY <2>3 DEF ReceiversAlive, Pending
  <2>5. HeldBy' = HeldBy
    BY <1>1, <2>3 DEF HeldBy, Hangup
  <2>6. Queue!Close
    BY <2>1, <2>4, <2>5 DEF Queue!Close, Pending, HeldBy
  <2> QED
    BY <2>6 DEF Queue!Next
<1>11. CASE TakeMessage
  <2>1. /\ mainQ # <<>> /\ mainQ' = Tail(mainQ) /\ task.msg = <<>>
        /\ task'.msg = <<Head(mainQ)>> /\ UNCHANGED <<shot, received, discarded>>
        /\ ReceiversAlive /\ ReceiversAlive'
    BY <1>1, <1>11 DEF TakeMessage, TaskInv, TaskState, ReceiversAlive, Finished, ledger
  <2>2. Pending = mainQ /\ Pending' = <<Head(mainQ)>> \o Tail(mainQ)
    BY <1>1, <2>1 DEF Pending
  <2>3. <<Head(mainQ)>> \o Tail(mainQ) = mainQ
    BY <1>1, <2>1
  <2> QED
    BY <1>3, <2>1, <2>2, <2>3 DEF HeldBy
<1>12. ASSUME NEW m \in Messages, StartSend(m) \/ FailSend(m) PROVE UNCHANGED Queue!vars
  <2>1. UNCHANGED <<task, mainQ, shot, received, discarded>>
    BY <1>12 DEF StartSend, FailSend, queues, ledger
  <2> QED
    BY <1>3, <2>1 DEF Pending, HeldBy, ReceiversAlive
<1>13. ASSUME \A m \in Messages : ~StartSend(m) /\ ~FinishSend(m) /\ ~FailSend(m),
              \A c \in Consumers : ~Receive(c) /\ ~Cancel(c),
              ~TakeMessage, ~Deliver, ~Reap, ~Unregister
       PROVE  UNCHANGED Queue!vars
  <2>1. UNCHANGED mainQ /\ task'.msg = task.msg /\ (ReceiversAlive' <=> ReceiversAlive)
    BY <1>1, <1>13, NoMessageMoves
  <2>2. /\ UNCHANGED <<discarded, received>>
        /\ \A c \in Consumers : \/ shot'[c] = shot[c]
                                \/ {shot[c], shot'[c]} \subseteq {"none", "open", "closed"}
    BY <1>13, NoHandedMoves
  <2>3. HeldBy' = HeldBy
    <3>1. \A c \in Consumers : {shot'[c]} \cap Messages = {shot[c]} \cap Messages
      BY <2>2
    <3> QED
      BY <3>1 DEF HeldBy
  <2>4. ReceiversAlive' = ReceiversAlive
    BY <2>1 DEF ReceiversAlive
  <2> QED
    BY <1>3, <2>1, <2>2, <2>3, <2>4 DEF Pending
<1> QED
  BY <1>4, <1>5, <1>6, <1>8, <1>9, <1>10, <1>11, <1>12, <1>13

\* The group implements the work queue: a finished send is an Accept, a
\* delivery a Hand, the return of a recv a Receive, a cancelled recv with an
\* unread message a Discard, the end of the task a Close, and every other step
\* of consumers, senders and dispatcher leaves the queue alone.
THEOREM GroupIsWorkQueue == Spec => ImplementsWorkQueue
<1>1. ASSUME Init PROVE Queue!Init
  <2>1. /\ ReceiversAlive = TRUE /\ task.msg \o mainQ = <<>> /\ received = {} /\ discarded = {}
    BY <1>1 DEF Init, ReceiversAlive, Finished
  <2>2. [c \in Consumers |-> {shot[c]} \cap Messages] = [c \in Consumers |-> {}]
    BY <1>1, MessagesAssumption DEF Init
  <2> QED
    BY <2>1, <2>2 DEF Queue!Init
<1>2. ControlInv /\ OrderInv /\ RequestInv /\ [Next]_vars => [Queue!Next]_(Queue!vars)
  BY QueueStep
<1> QED
  BY <1>1, <1>2, Control, Order, Requests, PTL DEF Spec, ImplementsWorkQueue, Queue!Spec

=============================================================================
