------------------------------- MODULE MsgFlow -------------------------------
(***************************************************************************)
(* The threads that share message objects: the servers that receive them,  *)
(* the message queue that routes them, the request handlers that answer    *)
(* them, and the connection queue that sends the answers.  A message is    *)
(* owned by whoever holds a pointer to it; nothing but the order of calls  *)
(* and the state field keeps two threads from using one object at once.    *)
(*                                                                         *)
(*   UDP server --Dispatch-->  pool --scan--> priority queue               *)
(*   connection queue (TCP) ---^  ^             |        |                 *)
(*   application --------------^  |         job queue  outbound queue      *)
(*                                |             |        |                 *)
(*                 reply: -- request handler <--+  connection queue        *)
(*                                                 (transmits)             *)
(*                                                                         *)
(* Operators named X_Y are faulty variants of X, kept to show that the     *)
(* properties can tell them apart; the specification does not use them.    *)
(***************************************************************************)
EXTENDS MsgQueue

CONSTANTS
    UDPServers,   \* the threads of the UDP servers
    Apps,         \* threads that send messages through the cIMsgQueue interface
    Handlers,     \* the threads the web server may start (m_iMaxHandlers)
    CQ,           \* the connection queue thread
    AppKinds,     \* the connection types application threads use
    Froms,        \* whom their internal messages say they are from
    Priorities,   \* the priorities request headers ask for,
    ReplyActions, \* the reply actions,
    NotifyActions \* and whether to notify

Servers == UDPServers \cup {CQ}
Threads == Servers \cup Apps \cup Handlers

ASSUME ThreadAssumption ==
    /\ CQ \notin UDPServers \cup Apps \cup Handlers
    /\ UDPServers \cap Handlers = {}
    /\ Apps \cap (UDPServers \cup Handlers) = {}

ASSUME InputAssumption ==
    /\ AppKinds \subseteq {"INTERNAL", "OB_TCP", "OB_UDP"}
    /\ Froms \subseteq Commands \cup {NoCommand}
    /\ Priorities \subseteq MSG_PRIORITY
    /\ ReplyActions \subseteq MSG_REPLY_ACTION
    /\ NotifyActions \subseteq BOOLEAN

VARIABLES
    held,     \* the message each thread is building or handling
    reply,    \* the reply each handler is building
    replied,  \* the handlers that dispatched the reply to the request they hold
    tail,     \* the message each UDP server still writes to after dispatching it
    cqCur,    \* the message the connection queue has just tried to send and not
              \* popped, which its queue does not count any more
    produced  \* how many messages producers created

threadVars == <<held, reply, replied, tail, cqCur, produced>>
vars == <<poolVars, msgVars, mqVars, m_jobQueue, job, m_outbound_priority_queue,
          cqpc, alive, threadVars>>

Init ==
    /\ InitPool
    /\ InitQueue
    /\ held = [t \in Threads |-> NoMsg]
    /\ reply = [h \in Handlers |-> NoMsg]
    /\ replied = {}
    /\ tail = [u \in UDPServers |-> NoMsg]
    /\ cqCur = NoMsg
    /\ produced = 0

\* A step of the message queue thread changes nothing of the other threads.
MsgQueueThread == QueueStep /\ UNCHANGED threadVars

-----------------------------------------------------------------------------
\* Producers.  MaxNew bounds what they create.

\* A thread gets a message from the pool to build a message in, with an id of
\* its own (clients that put a MsgID in the header are taken to use fresh ones).
Create(t, fields) ==
    /\ held[t] = NoMsg
    /\ ~PoolLocked
    /\ produced < MaxNew
    /\ produced' = produced + 1
    /\ \E m \in Msgs : GetMessage(m, [fields EXCEPT !.MsgID = produced']) /\
                       held' = [held EXCEPT ![t] = m]
    /\ UNCHANGED <<mqVars, m_jobQueue, job, m_outbound_priority_queue, cqpc, alive,
                   reply, replied, tail, cqCur>>

\* The message thread t built goes to the queue, and t lets go of it.
Dispatch(t, fields) ==
    LET m == held[t] IN
    /\ m # NoMsg
    /\ MsgState' = [MsgState EXCEPT ![m] = "PENDING"]
    /\ msg' = [msg EXCEPT ![m] =
                 [fields EXCEPT !.MsgConnectionType = DispatchedType(@)]]
    /\ held' = [held EXCEPT ![t] = NoMsg]
    /\ UNCHANGED <<poolVars, mqVars, m_jobQueue, job, m_outbound_priority_queue,
                   cqpc, alive, reply, replied, cqCur, produced>>

\* cMsg::Parse: what the header of an inbound request sets.
Parse(fields, ct, priority, action, notify, command) ==
    [fields EXCEPT !.MsgConnectionType = ct,
                   !.MsgPriority = priority,
                   !.MsgReplyAction = action,
                   !.MsgNotifyAction = notify,
                   !.MsgCommand = command]

\* Thread t dispatches the request it has parsed.
DispatchParsed(t, ct) ==
    \E p \in Priorities, r \in ReplyActions, n \in NotifyActions, c \in Commands :
      Dispatch(t, Parse(msg[held[t]], ct, p, r, n, c))

\* cUDPServer::Run: a datagram has arrived.
UDPCreate(u) ==
    /\ tail[u] = NoMsg
    /\ Create(u, ResetMsg)

\* It cannot be received, or its sender is denied.  (The thread that gives up
\* on an empty datagram keeps its message: here it is one that stops.)
UDPDiscard(u) ==
    /\ held[u] # NoMsg
    /\ MsgState' = [MsgState EXCEPT ![held[u]] = "MARKFORREUSE"]
    /\ held' = [held EXCEPT ![u] = NoMsg]
    /\ UNCHANGED <<poolVars, msg, mqVars, m_jobQueue, job, m_outbound_priority_queue,
                   cqpc, alive, reply, replied, tail, cqCur, produced>>

\* It is parsed and dispatched; the thread goes on to look at the message.
UDPDispatch(u) ==
    /\ held[u] # NoMsg
    /\ DispatchParsed(u, "IB_UDP")
    /\ tail' = [tail EXCEPT ![u] = held[u]]

\* The thread records where the answer goes in the object it dispatched,
\* whatever that object is by now.
UDPAfterDispatch(u) ==
    LET m == tail[u] IN
    /\ m # NoMsg
    /\ tail' = [tail EXCEPT ![u] = NoMsg]
    /\ msg' = IF msg[m].MsgReplyAction = "WAIT"
              THEN [msg EXCEPT ![m].UDPSocketHandle = TRUE]
              ELSE msg
    /\ UNCHANGED <<poolVars, MsgState, mqVars, m_jobQueue, job,
                   m_outbound_priority_queue, cqpc, alive, held, reply, replied,
                   cqCur, produced>>

\* cConnectionHandlerInbound::ProcessMCP and ProcessHTTP: a connection has a
\* whole request in its buffer.
TCPCreate ==
    /\ cqpc = "inbound"
    /\ Create(CQ, [ResetMsg EXCEPT !.TCPSocketHandle = TRUE,
                                   !.MsgConnectionType = "IB_TCP"])

\* HTTP requests are those with priority HIGH, reply WAIT and no notification.
TCPDispatch ==
    /\ held[CQ] # NoMsg
    /\ DispatchParsed(CQ, "IB_TCP")
    /\ UNCHANGED tail

\* An application asks for an internal message or for one of its own, which says whom
\* it is from.
AppCreate(a) ==
    \E ct \in AppKinds :
      Create(a, [ResetMsg EXCEPT !.MsgConnectionType = ct,
                                 !.MsgPriority = IF ct = "INTERNAL"
                                                 THEN MSG_PRIORITY_HIGH
                                                 ELSE MSG_PRIORITY_MID])

AppDispatch(a) ==
    LET fields == msg[held[a]]
        internal == fields.MsgConnectionType = "INTERNAL"
        actions == IF internal THEN {"NONE"} ELSE ReplyActions
        froms == IF internal THEN Froms ELSE {NoCommand}
    IN  /\ held[a] # NoMsg
        /\ \E c \in Commands, r \in actions, f \in froms :
             Dispatch(a, [fields EXCEPT !.MsgCommand = c, !.MsgReplyAction = r, !.MsgFrom = f])
        /\ UNCHANGED tail

-----------------------------------------------------------------------------
\* Request handlers

StateWhenBusy_Kept(s) == s

\* The state of a request the web server cannot take now.
StateWhenBusy(s) == "PENDING"

\* cWebServer::OnProcess gives a request to an idle handler or, when all of them
\* are busy, back to the message queue.
OnProcess(m) ==
    \/ /\ \E h \in Handlers :
            /\ held[h] = NoMsg
            /\ held' = [held EXCEPT ![h] = m]
       /\ UNCHANGED MsgState
    \/ /\ \A h \in Handlers : held[h] # NoMsg
       /\ MsgState' = [MsgState EXCEPT ![m] = StateWhenBusy(@)]
       /\ UNCHANGED held

\* cCommandHandlerDecorator::Run calls OnProcess with the top job, ...
TakeJob(m) ==
    /\ job = NoMsg
    /\ IsTop(m_jobQueue, m)
    /\ job' = m
    /\ OnProcess(m)
    /\ UNCHANGED <<poolVars, msg, mqVars, m_jobQueue, m_outbound_priority_queue, cqpc,
                   alive, reply, replied, tail, cqCur, produced>>

\* ... and pops it.  Meanwhile whoever has the job by then may go on with it: a request
\* that was handed back may be queued anew, one that was given to a handler answered,
\* reused or deleted.  The heap pops its first place without a look at what it holds.
PopJob ==
    /\ job # NoMsg
    /\ m_jobQueue' = Pop(m_jobQueue, job)
    /\ job' = NoMsg
    /\ UNCHANGED <<poolVars, msgVars, mqVars, m_outbound_priority_queue, cqpc, alive,
                   threadVars>>

\* cMsgQueue::CreateMessageReply: the answer to request m goes where m came
\* from, with the priority of m.  An internal one is a message to the command m is from.
ReplyFields(m) ==
    LET to == msg[m]
        internal == to.MsgConnectionType = "INTERNAL"
    IN  [ResetMsg EXCEPT
           !.MsgConnectionType = AnswerType(to.MsgConnectionType),
           !.TCPSocketHandle = to.TCPSocketHandle,
           !.UDPSocketHandle = ~internal /\ to.UDPSocketHandle,
           !.MsgID = to.MsgID,
           !.MsgPriority = to.MsgPriority,
           !.MsgCommand = IF internal THEN to.MsgFrom ELSE NoCommand,
           !.MsgReplyAction = IF internal THEN "NONE" ELSE to.MsgReplyAction,
           !.MsgNotifyAction = ~internal /\ to.MsgNotifyAction]

\* cWebRequestHandler::Process, as far as messages go: create the reply ...
CreateMessageReply(h) ==
    /\ held[h] # NoMsg
    /\ reply[h] = NoMsg
    /\ h \notin replied
    /\ ~PoolLocked
    /\ \E p \in Msgs : GetMessage(p, ReplyFields(held[h])) /\
                       reply' = [reply EXCEPT ![h] = p]
    /\ UNCHANGED <<mqVars, m_jobQueue, job, m_outbound_priority_queue, cqpc, alive,
                   held, replied, tail, cqCur, produced>>

\* ... dispatch it ...
DispatchReply(h) ==
    LET p == reply[h] IN
    /\ p # NoMsg
    /\ MsgState' = [MsgState EXCEPT ![p] = "PENDING"]
    /\ msg' = [msg EXCEPT ![p].MsgConnectionType = DispatchedType(@)]
    /\ reply' = [reply EXCEPT ![h] = NoMsg]
    /\ replied' = replied \cup {h}
    /\ UNCHANGED <<poolVars, mqVars, m_jobQueue, job, m_outbound_priority_queue, cqpc,
                   alive, held, tail, cqCur, produced>>

StateProcessed_Kept(s) == s

\* cMsg::MarkProcessed: the state of a request that was answered.
StateProcessed(s) == "DELIVERED"

\* ... and mark the request as delivered.  The handler is idle again.
MarkProcessed(h) ==
    /\ h \in replied
    /\ MsgState' = [MsgState EXCEPT ![held[h]] = StateProcessed(@)]
    /\ held' = [held EXCEPT ![h] = NoMsg]
    /\ replied' = replied \ {h}
    /\ UNCHANGED <<poolVars, msg, mqVars, m_jobQueue, job, m_outbound_priority_queue,
                   cqpc, alive, reply, tail, cqCur, produced>>

-----------------------------------------------------------------------------
\* cConnectionQueue::Run: under one hold of its lock, the thread reads what has
\* arrived, then sends what is to be sent, until its queue is empty.

CQBegin ==
    /\ cqpc = "idle"
    /\ cqpc' = "inbound"
    /\ UNCHANGED <<poolVars, msgVars, mqVars, m_jobQueue, job,
                   m_outbound_priority_queue, alive, threadVars>>

\* The thread has something to send, or it unlocks.
SendOrUnlock ==
    cqpc' = IF \E m \in Msgs : m_outbound_priority_queue[m] > 0 THEN "outbound" ELSE "idle"

CQOutbound ==
    /\ cqpc = "inbound"
    /\ held[CQ] = NoMsg
    /\ SendOrUnlock
    /\ UNCHANGED <<poolVars, msgVars, mqVars, m_jobQueue, job,
                   m_outbound_priority_queue, alive, threadVars>>

\* What may come of sending message fields: the state it ends in, and whether
\* it has a connection then.

\* cConnectionHandlerOutbound::UDPSend
UDPSend(fields) ==
    {<<"DELIVERED", fields.TCPSocketHandle>>,
     <<"UNDELIVERED", fields.TCPSocketHandle>>}

\* cConnectionHandlerOutbound::OpenTCP, for a message without a connection.
OpenTCP(fields) == {<<"DELIVERED", TRUE>>, <<"UNDELIVERED", FALSE>>}

\* cConnectionHandlerOutbound::TCPSend.  TransmitMsg reports a failure for HTTP
\* only; HTTP and MCP replies are not told apart here.
TCPSend(fields) == {<<"DELIVERED", TRUE>>, <<"UNDELIVERED", TRUE>>}

\* cConnectionHandlerOutbound::TransmitMsg
TransmitMsg(fields) ==
    {result \in {"DELIVERED", "UNDELIVERED"} \X BOOLEAN :
       \/ fields.MsgConnectionType = "OB_UDP" /\ result \in UDPSend(fields)
       \/ /\ fields.MsgConnectionType = "OB_TCP"
          /\ IF fields.TCPSocketHandle THEN result \in TCPSend(fields)
                                       ELSE result \in OpenTCP(fields)}

\* cConnectionQueue::ProcessOutboundTasks sends the top message.  Its entry stays at
\* the top until the thread goes on, and is cqCur by then: the queue's lock is held.
Transmit(m) ==
    /\ cqpc = "outbound"
    /\ cqCur = NoMsg
    /\ IsTop(m_outbound_priority_queue, m)
    /\ m_outbound_priority_queue' = Pop(m_outbound_priority_queue, m)
    /\ cqCur' = m
    /\ \E result \in TransmitMsg(msg[m]) :
         /\ MsgState' = [MsgState EXCEPT ![m] = result[1]]
         /\ msg' = [msg EXCEPT ![m].TCPSocketHandle = result[2]]
    /\ UNCHANGED <<poolVars, mqVars, m_jobQueue, job, cqpc, alive, held, reply,
                   replied, tail, produced>>

\* The thread reads the message once more, to see if its connection is to be
\* freed, and goes on to the next.
AfterTransmit ==
    /\ cqCur # NoMsg
    /\ cqCur' = NoMsg
    /\ SendOrUnlock
    /\ UNCHANGED <<poolVars, msgVars, mqVars, m_jobQueue, job,
                   m_outbound_priority_queue, alive, held, reply, replied, tail,
                   produced>>

-----------------------------------------------------------------------------
ConnectionQueueThread ==
    \/ CQBegin \/ TCPCreate \/ TCPDispatch \/ CQOutbound
    \/ \E m \in Msgs : Transmit(m)
    \/ AfterTransmit

UDPServerThread(u) ==
    UDPCreate(u) \/ UDPDiscard(u) \/ UDPDispatch(u) \/ UDPAfterDispatch(u)

AppThread(a) == AppCreate(a) \/ AppDispatch(a)

HandlerThread(h) == CreateMessageReply(h) \/ DispatchReply(h) \/ MarkProcessed(h)

Running ==
    /\ alive
    /\ \/ MsgQueueThread
       \/ ConnectionQueueThread
       \/ \E u \in UDPServers : UDPServerThread(u)
       \/ \E a \in Apps : AppThread(a)
       \/ (\E m \in Msgs : TakeJob(m)) \/ PopJob
       \/ \E h \in Handlers : HandlerThread(h)

\* A process that died does nothing more.
Dead == ~alive /\ UNCHANGED vars

Next == Running \/ Dead

Spec == Init /\ [][Next]_vars

-----------------------------------------------------------------------------
\* Fairness.  Every thread keeps running (the operating system schedules them
\* all), except that nobody has to send a request.  A thread that waits for a
\* lock which is free time and again gets it: the message queue waits for the
\* lock of the connection queue, whose thread sleeps between two holds of it,
\* and handlers wait for that of the pool.  A message whose retry delay is
\* checked again and again is found due some time, and so is the flush timer.
\* Hence strong fairness.
RetryVisit == \E m \in Msgs : Retry(m) /\ PendingVisit(m)

Fairness ==
    /\ SF_vars(alive /\ MsgQueueThread)
    /\ SF_vars(alive /\ BeginFlush /\ UNCHANGED threadVars)
    /\ SF_vars(alive /\ RetryVisit /\ UNCHANGED threadVars)
    /\ WF_vars(alive /\ (CQBegin \/ CQOutbound \/ AfterTransmit \/ TCPDispatch
                         \/ \E m \in Msgs : Transmit(m)))
    /\ \A u \in UDPServers :
         WF_vars(alive /\ (UDPDispatch(u) \/ UDPAfterDispatch(u)))
    /\ \A a \in Apps : WF_vars(alive /\ AppDispatch(a))
    /\ WF_vars(alive /\ (PopJob \/ \E m \in Msgs : TakeJob(m)))
    /\ \A h \in Handlers : SF_vars(alive /\ HandlerThread(h))

FairSpec == Spec /\ Fairness
-----------------------------------------------------------------------------
\* Safety

TypeOK ==
    /\ PoolTypeOK
    /\ QueueTypeOK
    /\ held \in [Threads -> Msgs \cup {NoMsg}]
    /\ reply \in [Handlers -> Msgs \cup {NoMsg}]
    /\ replied \in SUBSET Handlers
    /\ tail \in [UDPServers -> Msgs \cup {NoMsg}]
    /\ cqCur \in Msgs \cup {NoMsg}
    /\ produced \in 0 .. MaxNew

\* Thread t has m to itself.
WorksOn(t, m) == held[t] = m \/ (t \in Handlers /\ reply[t] = m)

\* The jobs the decorator has still to give away: without the one that it has given to
\* the web server and is about to pop.
JobsLeft == IF job = NoMsg THEN m_jobQueue ELSE Pop(m_jobQueue, job)

\* How many queue entries will give m to somebody.
Queued(m) == m_priority_queue[m] + JobsLeft[m] + m_outbound_priority_queue[m]

\* A message object has one owner at a time: nobody will get it from two queues, or
\* twice from one, nor from a queue while a thread works on it, nor have two threads
\* got it (msgpool.cpp:97: "so that another thread doesn't grab it").  What may still
\* refer to it is the entry the decorator or the connection queue is about to pop: a
\* request handed back (webserver.cpp:129) may be on the message queue's queue by
\* then, but not behind itself on the job queue.
SoleOwner ==
    \A m \in Msgs :
      /\ Queued(m) <= 1
      /\ \A t \in Threads : WorksOn(t, m) => Queued(m) = 0
      /\ \A t, u \in Threads : WorksOn(t, m) /\ WorksOn(u, m) => t = u
      /\ \A h \in Handlers : ~(held[h] = m /\ reply[h] = m)
      /\ m_jobQueue[m] <= 1

\* The free stack holds each object at most once, and only objects that exist,
\* that are inactive and that no queue will give away and no thread refers to: a
\* message taken from the pool is nobody else's.
FreeStackSound ==
    \A m \in Msgs :
      m_FreeMsgStack[m] > 0 =>
        /\ m_FreeMsgStack[m] = 1
        /\ m \in m_Messages
        /\ MsgState[m] = "INACTIVE"
        /\ Queued(m) = 0
        /\ \A t \in Threads : ~WorksOn(t, m)

\* Flushing deletes no message that a queue will give away, that is on the free stack,
\* or that a thread which builds, handles or answers it still refers to.
NoDanglingRef ==
    \A m \in Msgs \ m_Messages :
      /\ Queued(m) = 0
      /\ m_FreeMsgStack[m] = 0
      /\ \A t \in Threads : ~WorksOn(t, m)

\* A message in use is on its way: some queue or some thread has it.  One that
\* nobody has would stay in use for ever, unanswered, and never be reused.
NoLostMessage ==
    \A m \in Msgs :
      MsgState[m] = "INUSE" => Queued(m) > 0 \/ \E t \in Threads : WorksOn(t, m)

\* The inductive invariant behind these four.  What they do not say and the proof
\* needs: an owned message is in use, so that no scan touches it; while a job is not
\* popped it is not pushed again; a message in use exists; and during a flush the
\* messages still to be visited are off the free stack, which is why FlushFreeStack
\* comes first.

OwnedInUse ==
    \A m \in Msgs :
      /\ Queued(m) <= 1
      /\ Queued(m) > 0 => MsgState[m] = "INUSE"
      /\ \A t \in Threads : WorksOn(t, m) => MsgState[m] = "INUSE" /\ Queued(m) = 0
      /\ job = m => JobsLeft[m] = 0

OneHolder ==
    \A m \in Msgs :
      /\ \A t, u \in Threads : WorksOn(t, m) /\ WorksOn(u, m) => t = u
      /\ \A h \in Handlers : ~(held[h] = m /\ reply[h] = m)

FreeInactive ==
    \A m \in Msgs :
      /\ m_FreeMsgStack[m] <= 1
      /\ m_FreeMsgStack[m] > 0 => MsgState[m] = "INACTIVE" /\ m \in m_Messages

ActiveExists == \A m \in Msgs : MsgState[m] # "INACTIVE" => m \in m_Messages

ScanSound ==
    /\ todo \subseteq m_Messages
    /\ mqpc = "flush" => \A m \in todo : m_FreeMsgStack[m] = 0

Ownership ==
    /\ TypeOK
    /\ OwnedInUse
    /\ OneHolder
    /\ FreeInactive
    /\ ActiveExists
    /\ ScanSound
    /\ NoLostMessage

\* The message is part of an exchange, not waiting to be reused.
Active(m) == MsgState[m] \in {"PENDING", "INUSE", "UNDELIVERED", "DELIVERED"}

IsNotify(m) == msg[m].MsgPriority = NotifyPriority

\* m is the reply to the request with its id (as opposed to the notification).
IsReply(m) == Active(m) /\ IsOutbound(m) /\ ~IsNotify(m) /\ msg[m].MsgID # 0

\* A request gets one reply: there are never two replies with the same id, and
\* while there is one, the request itself is with the handler that replied or
\* done with - it will not be handled again, even if it was sent back to the
\* message queue because all handlers were busy.
OneReply ==
    \A p, q \in Msgs :
      IsReply(p) /\ Active(q) /\ msg[q].MsgID = msg[p].MsgID /\ p # q =>
        /\ ~IsReply(q)
        /\ IsInbound(q) /\ MsgState[q] \in {"PENDING", "INUSE"} =>
             \E h \in Handlers : held[h] = q

\* Two messages of one exchange.
SameExchange(p, q) == p # q /\ Active(p) /\ Active(q) /\ msg[p].MsgID = msg[q].MsgID

\* An id belongs to what one producer made: nothing else has it while that is being
\* built, and of a request that came from outside there is one.
OneRequest ==
    /\ \A m \in Msgs : Active(m) => msg[m].MsgID \in 1 .. produced
    /\ \A p, q \in Msgs : SameExchange(p, q) =>
         /\ \A t \in Servers \cup Apps : held[t] # p
         /\ IsInbound(p) => IsOutbound(q)

\* Handlers are given nothing that goes out, and answer what they hold.
JobsAreRequests ==
    /\ \A m \in Msgs : JobsLeft[m] > 0 => ~IsOutbound(m)
    /\ \A h \in Handlers :
         /\ held[h] # NoMsg => ~IsOutbound(held[h])
         /\ reply[h] # NoMsg \/ h \in replied => held[h] # NoMsg
         /\ h \in replied => reply[h] = NoMsg

\* The handler that replied to a request keeps it until it is done with.
RepliedOnce ==
    \A p, q \in Msgs : SameExchange(p, q) /\ IsReply(p) =>
      /\ ~IsReply(q)
      /\ IsInbound(q) => \/ MsgState[q] = "DELIVERED"
                         \/ \E h \in Handlers : /\ held[h] = q
                                                /\ reply[h] = p \/ h \in replied

\* A notification on its way that was not tried before.
Fresh(n) == /\ IsNotify(n)
            /\ MsgState[n] \in {"PENDING", "INUSE"}
            /\ msg[n].MsgSendRetryCount = 0

\* Notifications are the message queue's and go straight to the connection queue.
NotifyKind ==
    /\ \A m \in Msgs : Active(m) /\ IsNotify(m) =>
         IsOutbound(m) /\ msg[m].MsgReplyAction # "NONE"
    /\ \A m \in Msgs, t \in Threads : WorksOn(t, m) => ~IsNotify(m)

\* A pending one is enqueued by the next scan, and no reply of its exchange comes
\* to the connection queue before it.
NotifyAhead ==
    /\ \A n \in Msgs : Fresh(n) /\ MsgState[n] = "PENDING" =>
         mqpc # "queue" /\ (mqpc = "pending" => n \in todo)
    /\ \A n, p \in Msgs : SameExchange(n, p) /\ Fresh(n) /\ IsReply(p) =>
         /\ MsgState[n] = "PENDING" =>
              /\ m_outbound_priority_queue[p] = 0
              /\ m_priority_queue[p] > 0 => mqpc = "pending"
         /\ MsgState[n] = "INUSE" /\ m_outbound_priority_queue[p] > 0 =>
              m_outbound_priority_queue[n] > 0

\* The inductive invariant, strong enough for OneReply and NotifyFirst.
IInv ==
    /\ Ownership
    /\ OneRequest
    /\ JobsAreRequests
    /\ RepliedOnce
    /\ NotifyKind
    /\ NotifyAhead

\* The states a message may move to from state s.
Successors(s) ==
    CASE s = "INACTIVE" -> {"INUSE", "PENDING"}
      [] s = "INUSE" -> {"PENDING", "UNDELIVERED", "DELIVERED", "MARKFORREUSE"}
      [] s = "PENDING" -> {"INUSE"}
      [] s = "UNDELIVERED" -> {"PENDING", "MARKFORREUSE"}
      [] s \in {"DELIVERED", "PROCESSED", "MARKFORREUSE"} -> {"INACTIVE"}

FollowsLifecycle ==
    \A m \in Msgs : MsgState'[m] # MsgState[m] =>
                      MsgState'[m] \in Successors(MsgState[m])

\* No thread changes the state of a message under another thread's hands: each
\* message goes through its states in order, and once it was delivered or
\* dropped it is not sent again before it has been through the pool.
Lifecycle == [][FollowsLifecycle]_vars

\* Whoever asked to be notified gets the notification first: when a reply is
\* sent, the notification with its id has been tried before (or was refused, and
\* waits to be sent again).
NotifyFirst ==
    [][\A p \in Msgs :
         cqCur' = p /\ cqCur # p /\ ~IsNotify(p) =>
           ~\E n \in Msgs : /\ IsNotify(n)
                             /\ msg[n].MsgID = msg[p].MsgID
                             /\ MsgState[n] \in {"PENDING", "INUSE"}
                             /\ msg[n].MsgSendRetryCount = 0]_vars

\* udpserver.cpp:146 says, where the request is dispatched, that it "is now ready
\* to be processed by a message handler": a reply that is to go back over the
\* server's own socket knows that socket and the sender's port.
UDPReplyAddressed ==
    \A p \in Msgs :
      /\ Active(p)
      /\ msg[p].MsgConnectionType = "OB_UDP"
      /\ msg[p].MsgReplyAction = "WAIT"
      => msg[p].UDPSocketHandle

-----------------------------------------------------------------------------
\* Liveness, for a bounded number of requests, all of which have a handler

\* Everything that is sent or received is done with in the end: every message
\* object becomes reusable, whatever was delivered, refused, retried or sent
\* back because the handlers were busy.
PoolDrains == <>[](\A m \in m_Messages : MsgState[m] = "INACTIVE")

\* A request that is to be answered is answered: the connection queue tries to
\* send a reply with its id.
RequestAnswered ==
    \A i \in 1 .. MaxNew :
      (\E r \in Msgs : /\ MsgState[r] = "PENDING"
                       /\ IsInbound(r)
                       /\ msg[r].MsgID = i
                       /\ msg[r].MsgReplyAction # "NONE")
      ~> (\E p \in Msgs : cqCur = p /\ msg[p].MsgID = i /\ ~IsNotify(p))
=============================================================================
