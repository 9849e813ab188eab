---------------------------- MODULE ReplyDispatcher ----------------------------
(***************************************************************************)
(* Request/response of one BrokerClient: BrokerClient::request and         *)
(* Publisher::request (client/mod.rs, client/publisher.rs) over the        *)
(* waiters map, the guards and the listener task of ReplyDispatcher        *)
(* (client/reply_dispatcher.rs). The recipient of the requests is the      *)
(* environment: it takes requests out of its channel if it likes, and      *)
(* answers a taken one never, once or more often, early or late. A reply   *)
(* carries the message_id of the request it answers and is named by it.    *)
(***************************************************************************)
EXTENDS Naturals, Sequences, Functions

CONSTANTS
    Calls,          \* the calls of request
    ClientCalls,    \* those made on the BrokerClient; the others on a Publisher
    Ids,            \* message identifiers
    IdOf,           \* the message_id each call uses; a retry may reuse one
    InboxCapacity,  \* channel_capacity of the recipient
    ReplyCapacity,  \* reply_channel_capacity
    MaxReplies      \* bound: how many replies are sent in all

Failures == {"exists", "unsent", "cancelled", "closed", "timeout"}

ASSUME CallsAssumption ==
    /\ ClientCalls \subseteq Calls /\ IdOf \in [Calls -> Ids]
    /\ Calls \cap (Failures \cup {"none", "open"}) = {}
ASSUME CapacityAssumption ==
    {InboxCapacity, ReplyCapacity} \subseteq Nat \ {0} /\ MaxReplies \in Nat

VARIABLES
    call,       \* how far each call has come
    outcome,    \* what it returned
    shot,       \* its oneshot: "open", "closed", or the request whose reply is in it
    waiters,    \* the map: message_id -> the call whose oneshot sender it holds
    inbox,      \* the recipient's channel
    taken,      \* the requests the recipient has taken out of it
    replies,    \* how many replies have been sent
    replying,   \* replies whose send has loaded the reply slot's sender
    replyQ,     \* the client's reply channel: the requests being answered
    listener,   \* the listener task
    client,     \* the BrokerClient exists (and with it the reply route)
    publisher   \* a Publisher of the client exists

recipient == <<inbox, taken, replies, replying>>
owners == <<client, publisher>>
vars == <<call, outcome, shot, waiters, recipient, replyQ, listener, owners>>

Pending == {c \in Calls : call[c] \in {"registered", "sent"}}
Unfinished == Pending \cup {c \in Calls : call[c] = "returning"}

Init ==
    /\ call = [c \in Calls |-> "idle"]
    /\ outcome = [c \in Calls |-> "none"]
    /\ shot = [c \in Calls |-> "none"]
    /\ waiters = [i \in {} |-> "none"]
    /\ inbox = <<>> /\ taken = {}
    /\ replies = 0 /\ replying = {}
    /\ replyQ = <<>>
    /\ listener = "running"
    /\ client = TRUE
    /\ publisher = TRUE

-----------------------------------------------------------------------------
(* A call of request *)

\* The object the call is made on is borrowed for as long as the call lasts.
Callable(c) == IF c \in ClientCalls THEN client ELSE publisher

\* register_waiter: the oneshot sender goes into the map.
RegisterWaiter(c) ==
    /\ call[c] = "idle" /\ Callable(c)
    /\ IdOf[c] \notin DOMAIN waiters
    /\ waiters' = [i \in DOMAIN waiters \cup {IdOf[c]} |->
                      IF i = IdOf[c] THEN c ELSE waiters[i]]
    /\ call' = [call EXCEPT ![c] = "registered"]
    /\ shot' = [shot EXCEPT ![c] = "open"]
    /\ UNCHANGED <<outcome, recipient, replyQ, listener, owners>>

\* WaiterAlreadyExists: the call fails before it has a guard.
RegisterRefused(c) ==
    /\ call[c] = "idle" /\ Callable(c)
    /\ IdOf[c] \in DOMAIN waiters
    /\ call' = [call EXCEPT ![c] = "done"]
    /\ outcome' = [outcome EXCEPT ![c] = "exists"]
    /\ UNCHANGED <<shot, waiters, recipient, replyQ, listener, owners>>

\* send().await: waits for room in the recipient's channel, without a limit.
Send(c) ==
    /\ call[c] = "registered"
    /\ Len(inbox) < InboxCapacity
    /\ inbox' = Append(inbox, c)
    /\ call' = [call EXCEPT ![c] = "sent"]
    /\ UNCHANGED <<outcome, shot, waiters, taken, replies, replying, replyQ,
                   listener, owners>>

\* The function body is left with result r: the receiver is dropped, and the
\* guard is about to be.
Leave(c, r) ==
    /\ call' = [call EXCEPT ![c] = "returning"]
    /\ outcome' = [outcome EXCEPT ![c] = r]
    /\ shot' = [shot EXCEPT ![c] = "none"]
    /\ UNCHANGED <<waiters, recipient, replyQ, listener, owners>>

\* RecipientNotFound or ConnectionClosed from the transport.
SendFails(c) == call[c] = "registered" /\ Leave(c, "unsent")

\* The caller drops the future.
CancelCall(c) == c \in Pending /\ Leave(c, "cancelled")

Answered(c) == call[c] = "sent" /\ shot[c] \in Calls /\ Leave(c, shot[c])

Disconnected(c) == call[c] = "sent" /\ shot[c] = "closed" /\ Leave(c, "closed")

\* Mutant: the timer does not end a wait that is still open.
TimedOutIfClosed(c) == call[c] = "sent" /\ shot[c] = "closed" /\ Leave(c, "timeout")

\* timeout() polls the receiver first, so an answer that is there wins.
TimedOut(c) == call[c] = "sent" /\ shot[c] = "open" /\ Leave(c, "timeout")

\* Taking an entry out of the map drops its oneshot sender, if that was
\* still somebody's.
HangUp(ids) ==
    [c \in Calls |-> IF /\ shot[c] = "open"
                        /\ \E i \in ids \cap DOMAIN waiters : waiters[i] = c
                     THEN "closed" ELSE shot[c]]

\* Mutant: the guard leaves the entry in the map.
DropGuardNothing(c) ==
    /\ call[c] = "returning"
    /\ call' = [call EXCEPT ![c] = "done"]
    /\ UNCHANGED <<waiters, shot, outcome, recipient, replyQ, listener, owners>>

\* Mutant: the guard clears the map.
DropGuardClears(c) ==
    /\ call[c] = "returning"
    /\ call' = [call EXCEPT ![c] = "done"]
    /\ waiters' = [i \in {} |-> "none"]
    /\ shot' = HangUp(DOMAIN waiters)
    /\ UNCHANGED <<outcome, recipient, replyQ, listener, owners>>

\* WaiterGuard::drop removes whatever is registered under the call's id.
DropGuard(c) ==
    /\ call[c] = "returning"
    /\ call' = [call EXCEPT ![c] = "done"]
    /\ waiters' = Restrict(waiters, DOMAIN waiters \ {IdOf[c]})
    /\ shot' = HangUp({IdOf[c]})
    /\ UNCHANGED <<outcome, recipient, replyQ, listener, owners>>

-----------------------------------------------------------------------------
(* The recipient *)

Take ==
    /\ inbox # <<>>
    /\ inbox' = Tail(inbox)
    /\ taken' = taken \cup {Head(inbox)}
    /\ UNCHANGED <<call, outcome, shot, waiters, replies, replying, replyQ,
                   listener, owners>>

\* A reply goes to client_address: the send loads the reply slot's sender,
\* while the client's route is there, and then waits for room.
StartReply(c) ==
    /\ c \in taken \ replying
    /\ replies < MaxReplies
    /\ client
    /\ replying' = replying \cup {c}
    /\ replies' = replies + 1
    /\ UNCHANGED <<call, outcome, shot, waiters, inbox, taken, replyQ, listener, owners>>

\* Mutant: an unbounded reply channel.
FinishReplyUnbounded(c) ==
    /\ c \in replying
    /\ listener = "running"
    /\ replyQ' = Append(replyQ, c)
    /\ replying' = replying \ {c}
    /\ UNCHANGED <<call, outcome, shot, waiters, inbox, taken, replies, listener, owners>>

FinishReply(c) ==
    /\ c \in replying
    /\ listener = "running"
    /\ Len(replyQ) < ReplyCapacity
    /\ replyQ' = Append(replyQ, c)
    /\ replying' = replying \ {c}
    /\ UNCHANGED <<call, outcome, shot, waiters, inbox, taken, replies, listener, owners>>

\* The reply channel has no receiver any more.
FailReply(c) ==
    /\ c \in replying
    /\ listener # "running"
    /\ replying' = replying \ {c}
    /\ UNCHANGED <<call, outcome, shot, waiters, inbox, taken, replies, replyQ,
                   listener, owners>>

-----------------------------------------------------------------------------
(* The listener task *)

\* Mutant: replies are matched to waiters by arrival, not by message_id.
DispatchNext ==
    /\ listener = "running" /\ replyQ # <<>> /\ DOMAIN waiters # {}
    /\ \E id \in DOMAIN waiters :
          /\ waiters' = Restrict(waiters, DOMAIN waiters \ {id})
          /\ shot' = [c \in Calls |-> IF waiters[id] = c /\ shot[c] = "open"
                                      THEN Head(replyQ) ELSE shot[c]]
    /\ replyQ' = Tail(replyQ)
    /\ UNCHANGED <<call, outcome, recipient, listener, owners>>

\* The waiter is taken out and answered under one lock of the map; a reply
\* that nobody waits for is dropped.
Dispatch ==
    /\ listener = "running" /\ replyQ # <<>>
    /\ LET id == IdOf[Head(replyQ)]
       IN  /\ waiters' = Restrict(waiters, DOMAIN waiters \ {id})
           /\ shot' = [c \in Calls |->
                          IF id \in DOMAIN waiters /\ waiters[id] = c /\ shot[c] = "open"
                          THEN Head(replyQ) ELSE shot[c]]
    /\ replyQ' = Tail(replyQ)
    /\ UNCHANGED <<call, outcome, recipient, listener, owners>>

\* recv() is None once the reply slot and every reply being sent have
\* dropped the sender. The waiters stay in the map.
ListenerEnds ==
    /\ listener = "running" /\ ~client /\ replying = {} /\ replyQ = <<>>
    /\ listener' = "ended"
    /\ UNCHANGED <<call, outcome, shot, waiters, recipient, replyQ, owners>>

-----------------------------------------------------------------------------
(* Dropping the client and its publishers. The client's reply handle       *)
(* unregisters the reply route; ReplyDispatcher::drop runs with the last   *)
(* owner: it aborts the listener and clears the map.                       *)

DropDispatcher ==
    /\ listener' = IF listener = "running" THEN "aborted" ELSE listener
    /\ waiters' = [i \in {} |-> "none"]
    /\ shot' = HangUp(DOMAIN waiters)
    /\ replyQ' = <<>>

KeepDispatcher == UNCHANGED <<listener, waiters, shot, replyQ>>

DropClient ==
    /\ client /\ Unfinished \cap ClientCalls = {}
    /\ client' = FALSE
    /\ IF publisher THEN KeepDispatcher ELSE DropDispatcher
    /\ UNCHANGED <<call, outcome, recipient, publisher>>

DropPublisher ==
    /\ publisher /\ Unfinished \subseteq ClientCalls
    /\ publisher' = FALSE
    /\ IF client THEN KeepDispatcher ELSE DropDispatcher
    /\ UNCHANGED <<call, outcome, recipient, client>>

-----------------------------------------------------------------------------
Step(c) ==
    \/ Send(c) \/ Answered(c) \/ Disconnected(c) \/ TimedOut(c) \/ DropGuard(c)

Next ==
    \/ \E c \in Calls : \/ RegisterWaiter(c) \/ RegisterRefused(c) \/ Step(c)
                        \/ SendFails(c) \/ CancelCall(c)
                        \/ StartReply(c) \/ FinishReply(c) \/ FailReply(c)
    \/ Take \/ Dispatch \/ ListenerEnds \/ DropClient \/ DropPublisher

\* A call that has begun is polled until it returns (the timer fires), and
\* the listener is polled while it has something to do. Callers, recipients
\* and the owners of client and publisher owe nothing.
Fairness == (\A c \in Calls : WF_vars(Step(c))) /\ WF_vars(Dispatch \/ ListenerEnds)

Spec == Init /\ [][Next]_vars /\ Fairness

\* The same with a recipient that goes on reading its channel.
ServedSpec == Spec /\ WF_vars(Take)

-----------------------------------------------------------------------------
(* Properties *)

\* Type correctness of the calls, the waiters map and the listener.
TypeOK ==
    /\ call \in [Calls -> {"idle", "registered", "sent", "returning", "done"}]
    /\ outcome \in [Calls -> {"none"} \cup Failures \cup Calls]
    /\ shot \in [Calls -> {"none", "open", "closed"} \cup Calls]
    /\ DOMAIN waiters \subseteq Ids /\ \A i \in DOMAIN waiters : waiters[i] \in Calls
    /\ inbox \in Seq(Calls) /\ Len(inbox) <= InboxCapacity
    /\ taken \subseteq Calls /\ replying \subseteq taken
    /\ replies \in 0..MaxReplies
    /\ replyQ \in Seq(Calls) /\ Len(replyQ) <= ReplyCapacity
    /\ listener \in {"running", "ended", "aborted"}
    /\ {client, publisher} \subseteq BOOLEAN

\* The map holds no waiter of a call that is over: however calls end
\* (answer, timeout, failed send, cancellation), no entry leaks.
NoLeakedWaiter ==
    \A i \in DOMAIN waiters : waiters[i] \in Unfinished /\ IdOf[waiters[i]] = i

\* A call whose message_id no other call uses
Unique(c) == \A d \in Calls \ {c} : IdOf[d] # IdOf[c]

\* Correlation: a call with a message_id of its own gets the reply to its own
\* request or an honest failure, never another call's reply, a refusal or a
\* disconnection, and while it is unanswered it stays in the map, whatever
\* calls with other ids do, whatever late and duplicate replies arrive.
UniqueCallUndisturbed ==
    \A c \in Calls :
        Unique(c) =>
            /\ outcome[c] \in {"none", "unsent", "cancelled", "timeout", c}
            /\ shot[c] = "open" => IdOf[c] \in DOMAIN waiters /\ waiters[IdOf[c]] = c

\* Even with reused identifiers a reply reaches only a call with its id.
ReplyMatchesId ==
    \A c, d \in Calls : d \in {outcome[c], shot[c]} => IdOf[c] = IdOf[d]

\* Every call returns: with an answer, an error or by its timeout, also when
\* the client and the reply route go away under a publisher's call. (It does
\* under ServedSpec; under Spec a recipient that hangs can hold it for ever.)
CallsReturn == \A c \in Calls : (c \in Pending) ~> (call[c] = "done")
=============================================================================
