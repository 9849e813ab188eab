--------------------------- MODULE LoadBalancedGroup ---------------------------
(***************************************************************************)
(* One LoadBalancedGroup (broker_core/registry/load_balanced_group.rs)     *)
(* from the moment get_existing_or_register has published it: the          *)
(* dispatcher task between the request channel and the main channel, the   *)
(* consumers that pull from it (BrokerClient::subscribe, Subscriber,       *)
(* SubscriptionHandle), and the senders that reach it through its slot.    *)
(*                                                                         *)
(* A pull request is a oneshot sender. A consumer has at most one recv     *)
(* under way, so a request is named by its consumer; once that recv is     *)
(* cancelled the queued request is Cancelled, whoever it belonged to.      *)
(*                                                                         *)
(* Two locks matter to a group: the registry's register_mutex (std) and    *)
(* the group's dispatcher_handle (parking_lot), which shutdown takes also  *)
(* when unregister calls it under register_mutex.                          *)
(***************************************************************************)
EXTENDS Naturals, SequencesExt

CONSTANTS
    Consumers,
    Messages,
    MainCapacity,       \* channel_capacity of the group's main channel
    ReqCapacity,        \* capacity of the request channel (1000 in the code)
    Cancelled           \* a request whose oneshot receiver is dropped

ASSUME CapacityAssumption ==
    MainCapacity \in Nat \ {0} /\ ReqCapacity \in Nat \ {0}
ASSUME ConsumersAssumption == IsFiniteSet(Consumers)
ASSUME CancelledAssumption == Cancelled \notin Consumers
ASSUME OwnersAssumption == {"nobody", "task"} \cap Consumers = {}
ASSUME MessagesAssumption ==      \* a oneshot holds a message or one of these
    {"none", "open", "closed"} \cap Messages = {}

VARIABLES
    route,      \* the registry maps the address to this group
    sender,     \* slot.sender holds Some(sender)
    active,     \* active_consumers
    taken,      \* dispatcher_handle has been taken by a shutdown
    mutex,      \* who holds register_mutex: a consumer, "task" or "nobody"
    latch,      \* who holds the lock of dispatcher_handle
    stage,      \* where each consumer is in BrokerClient::subscribe
    handle,     \* each consumer's SubscriptionHandle
    shot,       \* the oneshot of each consumer's recv
    reqQ,       \* the request channel
    mainQ,      \* the main channel
    inflight,   \* messages whose send has loaded the sender and waits for room
    accepted,   \* messages accepted by the main channel, in order
    handed,     \* messages the dispatcher handed to a oneshot, in order
    discarded,  \* handed messages whose oneshot was dropped unread
    received,   \* messages returned by recv
    task        \* the dispatcher: where it is, what it holds, how it runs

vars == <<route, sender, active, taken, mutex, latch, stage, handle, shot, reqQ,
          mainQ, inflight, accepted, handed, discarded, received, task>>

locks == <<mutex, latch>>
queues == <<reqQ, mainQ>>
ledger == <<accepted, handed, discarded, received>>

Awaits == {"recvReq", "recvMsg", "retryReq"}    \* the dispatcher's .await points
Finished == {"ended", "aborted"}

Init ==
    /\ route = TRUE
    /\ sender = TRUE
    /\ active = 0
    /\ taken = FALSE
    /\ mutex = "nobody" /\ latch = "nobody"
    /\ \E c \in Consumers :     \* the creator, on its way to group.subscribe()
          stage = [x \in Consumers |-> IF x = c THEN "found" ELSE "out"]
    /\ handle = [c \in Consumers |-> "none"]
    /\ shot = [c \in Consumers |-> "none"]
    /\ reqQ = <<>> /\ mainQ = <<>> /\ inflight = {}
    /\ accepted = <<>> /\ handed = <<>> /\ discarded = {} /\ received = {}
    /\ task = [at |-> "recvReq", reply |-> Cancelled, msg |-> <<>>,
               polling |-> FALSE, aborted |-> FALSE]

-----------------------------------------------------------------------------
(* Subscribing. The group is found under register_mutex and joined after   *)
(* the mutex is released.                                                  *)

SubscribeLock(c) ==
    /\ stage[c] = "out"
    /\ mutex = "nobody"
    /\ mutex' = c
    /\ stage' = [stage EXCEPT ![c] = "locked"]
    /\ UNCHANGED <<route, sender, active, taken, latch, handle, shot, queues,
                   inflight, ledger, task>>

Find(c) ==
    /\ stage[c] = "locked"
    /\ route
    /\ mutex' = "nobody"
    /\ stage' = [stage EXCEPT ![c] = "found"]
    /\ UNCHANGED <<route, sender, active, taken, latch, handle, shot, queues,
                   inflight, ledger, task>>

\* The address is free: the factory makes another group, whose life is not
\* followed here.
RegisterAnother(c) ==
    /\ stage[c] = "locked"
    /\ ~route
    /\ mutex' = "nobody"
    /\ stage' = [stage EXCEPT ![c] = "out"]
    /\ UNCHANGED <<route, sender, active, taken, latch, handle, shot, queues,
                   inflight, ledger, task>>

Join(c) ==
    /\ stage[c] = "found"
    /\ active' = active + 1
    /\ stage' = [stage EXCEPT ![c] = "in"]
    /\ handle' = [handle EXCEPT ![c] = "held"]
    /\ UNCHANGED <<route, sender, taken, locks, shot, queues, inflight, ledger, task>>

-----------------------------------------------------------------------------
(* Subscriber::recv in pull mode *)

\* The oneshot senders that disappear with the dispatcher: its receiver
\* halves resolve to an error.
Hangup(cs) ==
    [c \in Consumers |-> IF c \in cs /\ shot[c] = "open" THEN "closed" ELSE shot[c]]

ReceiversAlive == task.at \notin Finished

\* RequestSender::request: queue a fresh oneshot once the channel has room.
Request(c) ==
    /\ stage[c] = "in" /\ shot[c] = "none"
    /\ ReceiversAlive
    /\ Len(reqQ) < ReqCapacity
    /\ reqQ' = Append(reqQ, c)
    /\ shot' = [shot EXCEPT ![c] = "open"]
    /\ UNCHANGED <<route, sender, active, taken, locks, stage, handle, mainQ,
                   inflight, ledger, task>>

\* The oneshot resolves: recv returns the message.
Receive(c) ==
    /\ shot[c] \in Messages
    /\ received' = received \cup {shot[c]}
    /\ shot' = [shot EXCEPT ![c] = "none"]
    /\ UNCHANGED <<route, sender, active, taken, locks, stage, handle, queues,
                   inflight, accepted, handed, discarded, task>>

\* The oneshot sender was dropped: recv returns None.
ReceiveNone(c) ==
    /\ shot[c] = "closed"
    /\ shot' = [shot EXCEPT ![c] = "none"]
    /\ UNCHANGED <<route, sender, active, taken, locks, stage, handle, queues,
                   inflight, ledger, task>>

\* The recv future is dropped (a timeout or select! in the consumer). The
\* request stays queued with a dead oneshot; an unread message is dropped.
Cancel(c) ==
    /\ shot[c] # "none"
    /\ discarded' = discarded \cup ({shot[c]} \cap Messages)
    /\ reqQ' = [i \in DOMAIN reqQ |-> IF reqQ[i] = c THEN Cancelled ELSE reqQ[i]]
    /\ task' = IF task.reply = c THEN [task EXCEPT !.reply = Cancelled] ELSE task
    /\ shot' = [shot EXCEPT ![c] = "none"]
    /\ UNCHANGED <<route, sender, active, taken, locks, stage, handle, mainQ,
                   inflight, accepted, handed, received>>

\* The Subscriber is dropped, after its handle; the component may come back.
Leave(c) ==
    /\ stage[c] = "in" /\ handle[c] = "dropped" /\ shot[c] = "none"
    /\ stage' = [stage EXCEPT ![c] = "out"]
    /\ handle' = [handle EXCEPT ![c] = "none"]
    /\ UNCHANGED <<route, sender, active, taken, locks, shot, queues, inflight,
                   ledger, task>>

-----------------------------------------------------------------------------
(* RouteTarget::send: load slot.sender, then wait for room in the channel. *)

StartSend(m) ==
    /\ sender
    /\ m \notin inflight \cup ToSet(accepted)
    /\ inflight' = inflight \cup {m}
    /\ UNCHANGED <<route, sender, active, taken, locks, stage, handle, shot, queues,
                   ledger, task>>

\* Mutant: an unbounded main channel.
FinishSendUnbounded(m) ==
    /\ m \in inflight
    /\ ReceiversAlive
    /\ mainQ' = Append(mainQ, m)
    /\ accepted' = Append(accepted, m)
    /\ inflight' = inflight \ {m}
    /\ UNCHANGED <<route, sender, active, taken, locks, stage, handle, shot, reqQ,
                   handed, discarded, received, task>>

FinishSend(m) ==
    /\ m \in inflight
    /\ ReceiversAlive
    /\ Len(mainQ) < MainCapacity
    /\ mainQ' = Append(mainQ, m)
    /\ accepted' = Append(accepted, m)
    /\ inflight' = inflight \ {m}
    /\ UNCHANGED <<route, sender, active, taken, locks, stage, handle, shot, reqQ,
                   handed, discarded, received, task>>

\* main_receiver is gone: ConnectionClosed, and the caller may try again.
FailSend(m) ==
    /\ m \in inflight
    /\ ~ReceiversAlive
    /\ inflight' = inflight \ {m}
    /\ UNCHANGED <<route, sender, active, taken, locks, stage, handle, shot, queues,
                   ledger, task>>

\* main_receiver.recv() yields None once the slot and every send in progress
\* have dropped their sender and the queue is empty.
MainClosed == ~sender /\ inflight = {} /\ mainQ = <<>>

-----------------------------------------------------------------------------
(* The dispatcher task. It takes steps only while the runtime polls it; a  *)
(* poll ends at an .await that is not ready, and abort() takes effect only *)
(* between polls.                                                          *)

\* Mutant: with a message in hand the dispatcher waits for another message.
ReadyForMessage ==
    IF task.at = "recvReq" THEN reqQ # <<>> ELSE mainQ # <<>> \/ MainClosed

Ready == IF task.at = "recvMsg" THEN mainQ # <<>> \/ MainClosed ELSE reqQ # <<>>

\* Mutant: the oneshot senders outlive the task.
EndTaskSilent(at) ==
    /\ task' = [task EXCEPT !.at = at, !.polling = FALSE, !.reply = Cancelled, !.msg = <<>>]
    /\ reqQ' = <<>> /\ mainQ' = <<>>
    /\ UNCHANGED shot

\* The task ends, naturally or not: both receivers, the request and the
\* message it holds are dropped.
EndTask(at) ==
    /\ task' = [task EXCEPT !.at = at, !.polling = FALSE, !.reply = Cancelled, !.msg = <<>>]
    /\ reqQ' = <<>> /\ mainQ' = <<>>
    /\ shot' = Hangup(Consumers)

Wake ==
    /\ ~task.polling /\ ~task.aborted /\ task.at \in Awaits /\ Ready
    /\ task' = [task EXCEPT !.polling = TRUE]
    /\ UNCHANGED <<route, sender, active, taken, locks, stage, handle, shot, queues,
                   inflight, ledger>>

Park ==
    /\ task.polling /\ task.at \in Awaits /\ ~Ready /\ ~task.aborted
    /\ task' = [task EXCEPT !.polling = FALSE]
    /\ UNCHANGED <<route, sender, active, taken, locks, stage, handle, shot, queues,
                   inflight, ledger>>

\* The runtime drops an aborted task, unless a poll of it is still running:
\* then not before that poll reaches an .await.
Reap ==
    /\ task.aborted /\ task.at \in Awaits
    /\ EndTask("aborted")
    /\ UNCHANGED <<route, sender, active, taken, locks, stage, handle, inflight, ledger>>

\* req_rx.recv(): the first request, or the next one after a dead oneshot.
TakeRequest ==
    /\ task.polling /\ task.at \in {"recvReq", "retryReq"} /\ reqQ # <<>>
    /\ reqQ' = Tail(reqQ)
    /\ task' = [task EXCEPT !.reply = Head(reqQ),
                            !.at = IF task.at = "recvReq" THEN "recvMsg" ELSE "deliver"]
    /\ UNCHANGED <<route, sender, active, taken, locks, stage, handle, shot, mainQ,
                   inflight, ledger>>

TakeMessage ==
    /\ task.polling /\ task.at = "recvMsg" /\ mainQ # <<>>
    /\ mainQ' = Tail(mainQ)
    /\ task' = [task EXCEPT !.at = "deliver", !.msg = <<Head(mainQ)>>]
    /\ UNCHANGED <<route, sender, active, taken, locks, stage, handle, shot, reqQ,
                   inflight, ledger>>

\* main_receiver.recv() is None: leave the loop, dropping the request.
LeaveLoop ==
    /\ task.polling /\ task.at = "recvMsg" /\ MainClosed
    /\ task' = [task EXCEPT !.at = "cleanup", !.reply = Cancelled]
    /\ shot' = Hangup({task.reply})
    /\ UNCHANGED <<route, sender, active, taken, locks, stage, handle, queues,
                   inflight, ledger>>

\* Mutant: no break after Ok, so the message goes to the next consumer too.
DeliverAgain ==
    /\ task.polling /\ task.at = "deliver" /\ task.reply # Cancelled
    /\ shot' = [shot EXCEPT ![task.reply] = task.msg[1]]
    /\ handed' = handed \o task.msg
    /\ task' = [task EXCEPT !.at = "retryReq", !.reply = Cancelled]
    /\ UNCHANGED <<route, sender, active, taken, locks, stage, handle, queues,
                   inflight, accepted, discarded, received>>

Deliver ==
    /\ task.polling /\ task.at = "deliver" /\ task.reply # Cancelled
    /\ shot' = [shot EXCEPT ![task.reply] = task.msg[1]]
    /\ handed' = handed \o task.msg
    /\ task' = [task EXCEPT !.at = "recvReq", !.reply = Cancelled, !.msg = <<>>]
    /\ UNCHANGED <<route, sender, active, taken, locks, stage, handle, queues,
                   inflight, accepted, discarded, received>>

\* Mutant: a failed oneshot send loses the message.
DeliverFailsDropping ==
    /\ task.polling /\ task.at = "deliver" /\ task.reply = Cancelled
    /\ task' = [task EXCEPT !.at = "recvReq", !.msg = <<>>]
    /\ UNCHANGED <<route, sender, active, taken, locks, stage, handle, shot, queues,
                   inflight, ledger>>

\* Mutant: a message that was not delivered goes to the end of the queue.
DeliverFailsRequeueing ==
    /\ task.polling /\ task.at = "deliver" /\ task.reply = Cancelled
    /\ mainQ' = mainQ \o task.msg
    /\ task' = [task EXCEPT !.at = "recvReq", !.msg = <<>>]
    /\ UNCHANGED <<route, sender, active, taken, locks, stage, handle, shot, reqQ,
                   inflight, ledger>>

\* oneshot send returns Err(msg): keep the message, ask for another request.
DeliverFails ==
    /\ task.polling /\ task.at = "deliver" /\ task.reply = Cancelled
    /\ task' = [task EXCEPT !.at = "retryReq"]
    /\ UNCHANGED <<route, sender, active, taken, locks, stage, handle, shot, queues,
                   inflight, ledger>>

\* After the loop: mark_removed, then unregister.
Cleanup ==
    /\ task.polling /\ task.at = "cleanup"
    /\ sender' = FALSE
    /\ task' = [task EXCEPT !.at = "unregister"]
    /\ UNCHANGED <<route, active, taken, locks, stage, handle, shot, queues, inflight,
                   ledger>>

\* unregister waits for register_mutex ...
UnregisterLock ==
    /\ task.polling /\ task.at = "unregister"
    /\ mutex = "nobody"
    /\ mutex' = "task"
    /\ task' = [task EXCEPT !.at = "remove_slot"]
    /\ UNCHANGED <<route, sender, active, taken, latch, stage, handle, shot, queues,
                   inflight, ledger>>

\* ... remove_slot calls shutdown on this very group, which waits for the lock
\* of dispatcher_handle and aborts the task it runs in (no .await follows) ...
UnregisterShutdown ==
    /\ task.polling /\ task.at = "remove_slot"
    /\ latch = "nobody"
    /\ taken' = TRUE
    /\ sender' = FALSE
    /\ task' = [task EXCEPT !.at = "store", !.aborted = @ \/ ~taken]
    /\ UNCHANGED <<route, active, locks, stage, handle, shot, queues, inflight, ledger>>

\* ... and the snapshot without the route is stored, the mutex released.
Unregister ==
    /\ task.polling /\ task.at = "store"
    /\ route' = FALSE
    /\ mutex' = "nobody"
    /\ EndTask("ended")
    /\ UNCHANGED <<sender, active, taken, latch, stage, handle, inflight, ledger>>

Dispatcher ==
    \/ Wake \/ Park \/ Reap \/ TakeRequest \/ TakeMessage \/ LeaveLoop
    \/ Deliver \/ DeliverFails \/ Cleanup
    \/ UnregisterLock \/ UnregisterShutdown \/ Unregister

-----------------------------------------------------------------------------
(* Dropping a SubscriptionHandle: remove_consumer, and for the last one    *)
(* shutdown, which aborts the task under the lock of dispatcher_handle and *)
(* then marks the slot.                                                    *)

\* Mutant: fetch_sub is taken to return the count after the subtraction.
RemoveConsumerMiscounting(c) ==
    /\ handle[c] = "held"
    /\ active' = active - 1
    /\ handle' = [handle EXCEPT ![c] = IF active = 2 THEN "last" ELSE "dropped"]
    /\ UNCHANGED <<route, sender, taken, locks, stage, shot, queues, inflight, ledger, task>>

RemoveConsumer(c) ==
    /\ handle[c] = "held"
    /\ active' = active - 1
    /\ handle' = [handle EXCEPT ![c] = IF active = 1 THEN "last" ELSE "dropped"]
    /\ UNCHANGED <<route, sender, taken, locks, stage, shot, queues, inflight, ledger, task>>

ShutdownLock(c) ==
    /\ handle[c] = "last"
    /\ latch = "nobody"
    /\ latch' = c
    /\ handle' = [handle EXCEPT ![c] = "locked"]
    /\ UNCHANGED <<route, sender, active, taken, mutex, stage, shot, queues, inflight,
                   ledger, task>>

\* Mutant: shutdown also takes the route out, for which it needs the mutex.
ShutdownAbortUnregistering(c) ==
    /\ handle[c] = "locked"
    /\ mutex = "nobody"
    /\ route' = FALSE
    /\ latch' = "nobody"
    /\ handle' = [handle EXCEPT ![c] = "aborted"]
    /\ taken' = TRUE
    /\ task' = [task EXCEPT !.aborted = @ \/ ~taken]
    /\ UNCHANGED <<sender, active, mutex, stage, shot, queues, inflight, ledger>>

ShutdownAbort(c) ==
    /\ handle[c] = "locked"
    /\ latch' = "nobody"
    /\ handle' = [handle EXCEPT ![c] = "aborted"]
    /\ taken' = TRUE
    /\ task' = [task EXCEPT !.aborted = @ \/ ~taken]
    /\ UNCHANGED <<route, sender, active, mutex, stage, shot, queues, inflight, ledger>>

ShutdownMark(c) ==
    /\ handle[c] = "aborted"
    /\ handle' = [handle EXCEPT ![c] = "dropped"]
    /\ sender' = FALSE
    /\ UNCHANGED <<route, active, taken, locks, stage, shot, queues, inflight, ledger, task>>

-----------------------------------------------------------------------------
Next ==
    \/ Dispatcher
    \/ \E c \in Consumers :
          \/ SubscribeLock(c) \/ Find(c) \/ RegisterAnother(c) \/ Join(c) \/ Request(c)
          \/ Receive(c) \/ ReceiveNone(c) \/ Cancel(c) \/ Leave(c)
          \/ RemoveConsumer(c) \/ ShutdownLock(c) \/ ShutdownAbort(c) \/ ShutdownMark(c)
    \/ \E m \in Messages : StartSend(m) \/ FinishSend(m) \/ FailSend(m)

\* Code that has been started runs on: the runtime polls a ready task, a
\* synchronous call returns, a woken future is polled. What components
\* decide (subscribe, recv, cancel, drop, send) is under no obligation. A
\* dispatcher that waits for a lock gets it in the end if the lock is released
\* again and again (strong fairness; at its .awaits weak fairness would do).
Fairness ==
    /\ SF_vars(Dispatcher)
    /\ \A c \in Consumers : /\ WF_vars(Find(c)) /\ WF_vars(RegisterAnother(c))
                            /\ WF_vars(Join(c)) /\ WF_vars(ShutdownLock(c))
                            /\ WF_vars(Receive(c)) /\ WF_vars(ReceiveNone(c))
                            /\ WF_vars(ShutdownAbort(c)) /\ WF_vars(ShutdownMark(c))
    /\ \A m \in Messages : WF_vars(FinishSend(m)) /\ WF_vars(FailSend(m))

Spec == Init /\ [][Next]_vars /\ Fairness

-----------------------------------------------------------------------------
(* Properties *)

TaskState == [at : Awaits \cup Finished \cup {"deliver", "cleanup", "unregister",
                                               "remove_slot", "store"},
              reply : Consumers \cup {Cancelled},
              msg : {<<>>} \cup {<<m>> : m \in Messages},
              polling : BOOLEAN, aborted : BOOLEAN]

\* Type correctness of the group, its dispatcher and its consumers.
TypeOK ==
    /\ {route, sender, taken} \subseteq BOOLEAN
    /\ {mutex, latch} \subseteq Consumers \cup {"nobody", "task"}
    /\ active \in Nat
    /\ stage \in [Consumers -> {"out", "locked", "found", "in"}]
    /\ handle \in [Consumers -> {"none", "held", "last", "locked", "aborted", "dropped"}]
    /\ shot \in [Consumers -> {"none", "open", "closed"} \cup Messages]
    /\ reqQ \in Seq(Consumers \cup {Cancelled}) /\ Len(reqQ) <= ReqCapacity
    /\ mainQ \in Seq(Messages) /\ Len(mainQ) <= MainCapacity
    /\ inflight \subseteq Messages /\ discarded \subseteq Messages /\ received \subseteq Messages
    /\ accepted \in Seq(Messages) /\ handed \in Seq(Messages)
    /\ task \in TaskState

\* The dispatcher hands over every accepted message, once and in the order of
\* acceptance, whichever consumers give up in between: what it has not handed
\* over it still holds, or has queued. Only the end of the task drops the rest.
HandoverIsFifo ==
    /\ IsPrefix(handed, accepted)
    /\ ReceiversAlive => accepted = handed \o task.msg \o mainQ

\* A handed message is in exactly one place: one consumer's oneshot, returned
\* by one recv, or dropped unread with the recv future that was cancelled.
HandedToOne ==
    /\ \A c, d \in Consumers : shot[c] \in Messages /\ shot[c] = shot[d] => c = d
    /\ ToSet(handed) = received \cup discarded \cup {m \in Messages : \E c \in Consumers : shot[c] = m}
    /\ received \cap discarded = {}
    /\ \A c \in Consumers : shot[c] \notin received \cup discarded

Queue == INSTANCE WorkQueue WITH
    open <- ReceiversAlive,
    pending <- task.msg \o mainQ,
    held <- [c \in Consumers |-> {shot[c]} \cap Messages]

\* The group implements the work queue: whatever the polls, the two channels,
\* the oneshots and the shutdown do in between, each step moves at most one
\* message, forward, or closes the queue.
ImplementsWorkQueue == Queue!Spec

\* No drop is the last one, which shuts the group down, while another member
\* keeps its handle: the count that fetch_sub returned is that of the handles,
\* whatever joins and drops run beside it.
MembersProtectGroup ==
    [][\A c, d \in Consumers :
          handle[c] = "held" /\ handle'[c] = "held" /\ handle'[d] = "last"
              => handle[d] = "last"]_vars

\* Each waiting recv has exactly one live request, queued or held by the
\* dispatcher; a dispatcher that is gone has left nobody waiting.
WaiterHasRequest ==
    \A c \in Consumers :
        LET places == {i \in DOMAIN reqQ : reqQ[i] = c}
        IN  IF shot[c] = "open"
            THEN IF task.reply = c THEN places = {} ELSE \E i \in DOMAIN reqQ : places = {i}
            ELSE places = {} /\ task.reply # c

\* No recv waits for ever beside a message: if a consumer goes on waiting, the
\* dispatcher stays alive and in the end holds and queues nothing, however
\* often other consumers ask and give up.
NoStarvation ==
    \A c \in Consumers :
        <>[](shot[c] = "open") => <>[](ReceiversAlive /\ mainQ = <<>> /\ task.msg = <<>>)

\* The end of a group gets through its locks: register_mutex and the lock of
\* dispatcher_handle are given back whenever somebody takes them, also when a
\* dispatcher's unregister and a last handle's shutdown run into each other; a
\* dispatcher that leaves its loop frees the address and ends; and no recv
\* waits on after a shutdown.
EndReleasesAll ==
    /\ []<>(mutex = "nobody") /\ []<>(latch = "nobody")
    /\ []<>(task.at \notin {"cleanup", "unregister", "remove_slot", "store"})
    /\ \A c \in Consumers : []<>~(taken /\ shot[c] = "open")

\* Dropping the last handle frees the address.
LastHandleFreesAddress ==
    (taken /\ \A c \in Consumers : stage[c] # "found" /\ handle[c] \in {"none", "dropped"})
        ~> ~route
=============================================================================
