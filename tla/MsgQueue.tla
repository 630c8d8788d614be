------------------------------- MODULE MsgQueue ------------------------------
(***************************************************************************)
(* The message queue thread (cMsgQueue::Run, msgqueue.cpp).  Each turn of  *)
(* its loop scans the pool for pending and undelivered messages, routes    *)
(* the one message at the top of its priority queue, and, once a second,   *)
(* flushes the pool.                                                       *)
(*                                                                         *)
(* A scan holds the pool's lock, so nobody creates a message during one,   *)
(* but other threads change message states under each message's own lock:  *)
(* every visit of a scan is a step.  The order of the list is abstracted:  *)
(* a scan may visit the messages in any order.                             *)
(*                                                                         *)
(* Time is abstracted: whether a retry delay has run out, an idle message  *)
(* is older than a minute, or the flush timer is ready, may go either way. *)
(***************************************************************************)
EXTENDS MsgPool, FiniteSets

CONSTANTS
    Registered      \* the commands a handler is registered for

ASSUME RegisteredAssumption == Registered \subseteq Commands

VARIABLES
    mqpc,             \* where the message queue thread is in its loop
    todo,             \* the messages the scan under way has yet to visit
    m_priority_queue, \* how often each message is on the MsgQueue's queue
    m_jobQueue,       \* ... on the job queue of the registered handler
    job,              \* the job at its top that the decorator has given away and not
                      \* yet popped: its lock is free only at NoMsg
    m_outbound_priority_queue,  \* ... on the ConnectionQueue's queue
    cqpc,             \* where the connection queue thread is: its lock is free
                      \* only at "idle"
    alive             \* FALSE once the process died of a null handler

mqVars == <<mqpc, todo, m_priority_queue>>
queues == <<m_priority_queue, m_jobQueue, job, m_outbound_priority_queue>>

IsTop_Lowest(q, m) ==
    /\ q[m] > 0
    /\ \A x \in Msgs : q[x] > 0 => msg[x].MsgPriority >= msg[m].MsgPriority

\* cMsgPriorityComp: m can be at the top of the priority queue q.  Messages of
\* the same priority have no defined order.
IsTop(q, m) ==
    /\ q[m] > 0
    /\ \A x \in Msgs : q[x] > 0 => msg[x].MsgPriority <= msg[m].MsgPriority

Push(q, m) == [q EXCEPT ![m] = @ + 1]
Pop(q, m) == [q EXCEPT ![m] = @ - 1]

InitQueue ==
    /\ mqpc = "top"
    /\ todo = {}
    /\ m_priority_queue = [m \in Msgs |-> 0]
    /\ m_jobQueue = [m \in Msgs |-> 0]
    /\ job = NoMsg
    /\ m_outbound_priority_queue = [m \in Msgs |-> 0]
    /\ cqpc = "idle"
    /\ alive = TRUE

\* cMsgPool::Lock is held for the whole of a scan.
PoolLocked == mqpc \in {"pending", "flush"}

\* cMsgPool::GetHead: a scan starts at the head of the list, unless it is empty.
GetHead(scan, next) ==
    /\ todo' = m_Messages
    /\ mqpc' = IF m_Messages = {} THEN next ELSE scan

\* cMsgPool::GetNext: the scan goes on to the messages in rest, or ends.
GetNext(rest, next) ==
    /\ todo' = rest
    /\ mqpc' = IF rest = {} THEN next ELSE mqpc

-----------------------------------------------------------------------------
\* cMsgQueue::ProcessPendingMessages

BeginPending ==
    /\ mqpc = "top"
    /\ GetHead("pending", "queue")
    /\ UNCHANGED <<poolVars, msgVars, queues, cqpc, alive>>

\* The state of a message on the priority queue.
QueuedState == "INUSE"

EnqueuePending(m) ==
    /\ MsgState[m] = "PENDING"
    /\ MsgState' = [MsgState EXCEPT ![m] = QueuedState]
    /\ m_priority_queue' = Push(m_priority_queue, m)
    /\ UNCHANGED msg

\* Undelivered on a connection: the peer is gone, so is the message.
DropUndelivered(m) ==
    /\ MsgState[m] = "UNDELIVERED"
    /\ msg[m].TCPSocketHandle
    /\ MsgState' = [MsgState EXCEPT ![m] = "MARKFORREUSE"]
    /\ UNCHANGED <<msg, m_priority_queue>>

TooManyRetries(count) == count > MAX_MSG_RETRY - 1

\* The count after one more attempt.  The first attempt sets it to 1.
RetryCountAfter(count) == count + 1

\* Undelivered without a connection: try again, MAX_MSG_RETRY times at most.
Retry(m) ==
    LET count == msg[m].MsgSendRetryCount IN
    /\ MsgState[m] = "UNDELIVERED"
    /\ ~msg[m].TCPSocketHandle
    /\ \/ /\ TooManyRetries(count)
          /\ MsgState' = [MsgState EXCEPT ![m] = "MARKFORREUSE"]
          /\ UNCHANGED msg
       \/ /\ ~TooManyRetries(count)
          /\ MsgState' = [MsgState EXCEPT ![m] = "PENDING"]
          /\ msg' = [msg EXCEPT ![m].MsgSendRetryCount = RetryCountAfter(count)]
    /\ UNCHANGED m_priority_queue

\* The delay since the last attempt has not run out.
AwaitRetry(m) ==
    /\ MsgState[m] = "UNDELIVERED"
    /\ ~msg[m].TCPSocketHandle
    /\ msg[m].MsgSendRetryCount # 0
    /\ UNCHANGED <<MsgState, msg, m_priority_queue>>

PassOver(m) ==
    /\ MsgState[m] \notin {"PENDING", "UNDELIVERED"}
    /\ UNCHANGED <<MsgState, msg, m_priority_queue>>

PendingVisit(m) ==
    /\ mqpc = "pending"
    /\ m \in todo
    /\ \/ EnqueuePending(m)
       \/ DropUndelivered(m)
       \/ Retry(m)
       \/ AwaitRetry(m)
       \/ PassOver(m)
    /\ GetNext(todo \ {m}, "queue")
    /\ UNCHANGED <<poolVars, m_jobQueue, job, m_outbound_priority_queue, cqpc, alive>>

-----------------------------------------------------------------------------
\* cMsgQueue::ProcessPriorityQueue: at most one message per turn.

QueueEmpty ==
    /\ mqpc = "queue"
    /\ \A m \in Msgs : m_priority_queue[m] = 0
    /\ mqpc' = "timer"
    /\ UNCHANGED <<poolVars, msgVars, todo, queues, cqpc, alive>>

\* m is taken off the queue to be routed.
TakeTop(m) ==
    /\ mqpc = "queue"
    /\ IsTop(m_priority_queue, m)
    /\ m_priority_queue' = Pop(m_priority_queue, m)
    /\ mqpc' = "timer"
    /\ UNCHANGED <<todo, cqpc>>

\* cCommandHandlerFactory::GetCommandHandler
HasHandler(m) == msg[m].MsgCommand \in Registered

PushJob_NoWait(m) == m_jobQueue' = Push(m_jobQueue, m)

\* cCommandHandlerDecorator::OnProcess waits for the decorator's lock.
PushJob(m) ==
    /\ job = NoMsg
    /\ m_jobQueue' = Push(m_jobQueue, m)

\* cMsgQueue::ProcessInternalMessage
ProcessInternalMessage(m) ==
    /\ msg[m].MsgConnectionType = "INTERNAL"
    /\ TakeTop(m)
    /\ \/ /\ HasHandler(m)
          /\ PushJob(m)
          /\ UNCHANGED MsgState
       \/ /\ ~HasHandler(m)
          /\ MsgState' = [MsgState EXCEPT ![m] = "UNDELIVERED"]
          /\ UNCHANGED m_jobQueue
    /\ UNCHANGED <<poolVars, msg, job, m_outbound_priority_queue, alive>>

IsInbound(m) == msg[m].MsgConnectionType \in {"IB_UDP", "IB_TCP"}
IsOutbound(m) == msg[m].MsgConnectionType \in {"OB_UDP", "OB_TCP"}

\* The connection type of an answer to a message of type ct.
AnswerType(ct) ==
    CASE ct = "IB_UDP" -> "OB_UDP"
      [] ct = "IB_TCP" -> "OB_TCP"
      [] ct = "INTERNAL" -> "INTERNAL"
      [] OTHER -> "NOTSET"

\* cMsgQueue::PostNotifyMessage: the notification about request m.
NotifyFields(m) ==
    [ResetMsg EXCEPT
       !.MsgConnectionType = AnswerType(msg[m].MsgConnectionType),
       !.TCPSocketHandle = msg[m].TCPSocketHandle,
       !.MsgID = msg[m].MsgID,
       !.MsgPriority = NotifyPriority,
       !.MsgReplyAction = "NOWAIT",
       !.MsgNotifyAction = TRUE]

\* The notify flag of a request is taken down once the notification is posted.
NotifiedOnce(fields) == [fields EXCEPT !.MsgNotifyAction = FALSE]

PostNotifyMessage(n, m) ==
    /\ GetReusableMessage(n)
    /\ MsgState' = [MsgState EXCEPT ![n] = "PENDING"]
    /\ msg' = [msg EXCEPT ![n] = NotifyFields(m), ![m] = NotifiedOnce(@)]

\* cMsgQueue::ProcessInboundMessage: post a notification if the sender wants
\* one, then hand the request to its handler.  The two are one step: only this
\* thread scans the pool, so nobody sees the notification in between.
ProcessInboundMessage(m) ==
    /\ IsInbound(m)
    /\ HasHandler(m)
    /\ TakeTop(m)
    /\ \/ /\ msg[m].MsgNotifyAction
          /\ \E n \in Msgs : PostNotifyMessage(n, m)
       \/ /\ ~msg[m].MsgNotifyAction
          /\ UNCHANGED <<poolVars, msgVars>>
    /\ PushJob(m)
    /\ UNCHANGED <<job, m_outbound_priority_queue, alive>>

\* No branch of ProcessInboundMessage covers a command without a handler: the
\* call through the null pointer ends the process.
NullHandler(m) ==
    /\ mqpc = "queue"
    /\ IsTop(m_priority_queue, m)
    /\ IsInbound(m)
    /\ ~HasHandler(m)
    /\ alive' = FALSE
    /\ UNCHANGED <<poolVars, msgVars, mqpc, todo, queues, cqpc>>

\* cMsgQueue::ProcessOutboundMessage.  cConnectionQueue::SendMsg waits for the
\* connection queue's lock.
ProcessOutboundMessage(m) ==
    /\ IsOutbound(m)
    /\ TakeTop(m)
    /\ \/ /\ msg[m].MsgReplyAction # "NONE"
          /\ cqpc = "idle"
          /\ m_outbound_priority_queue' = Push(m_outbound_priority_queue, m)
          /\ UNCHANGED MsgState
       \/ /\ msg[m].MsgReplyAction = "NONE"
          /\ MsgState' = [MsgState EXCEPT ![m] = "DELIVERED"]
          /\ UNCHANGED m_outbound_priority_queue
    /\ UNCHANGED <<poolVars, msg, m_jobQueue, job, alive>>

-----------------------------------------------------------------------------
\* cMsgQueue::FlushMessages

SkipFlush ==
    /\ mqpc = "timer"
    /\ mqpc' = "top"
    /\ UNCHANGED <<poolVars, msgVars, todo, queues, cqpc, alive>>

BeginFlush ==
    /\ mqpc = "timer"
    /\ m_FreeMsgStack' = FlushFreeStack
    /\ GetHead("flush", "top")
    /\ UNCHANGED <<m_Messages, msgVars, queues, cqpc, alive>>

Reusable_NotDelivered(s) == s \in {"INACTIVE", "PROCESSED", "MARKFORREUSE"}

\* The states whose messages go back to the pool.
Reusable(s) == s \in {"INACTIVE", "DELIVERED", "PROCESSED", "MARKFORREUSE"}

Deletable_AnyOld(s) == s \in {"INACTIVE", "INUSE"}

\* The state whose messages are deleted when a minute old.
Deletable(s) == s = "INACTIVE"

FlushReturn(m) ==
    /\ Reusable(MsgState[m])
    /\ ReturnToPool(m)
    /\ GetNext(todo \ {m}, "top")

\* DeleteCurrent leaves the iterator two places on, so that GetNext passes over
\* up to two messages: they are off the free stack until the next flush.
FlushDelete(m) ==
    LET rest == todo \ {m} IN
    /\ Deletable(MsgState[m])
    /\ DeleteCurrent(m)
    /\ \E skipped \in SUBSET rest :
         /\ \/ Cardinality(skipped) = 2
            \/ Cardinality(skipped) < 2 /\ skipped = rest
         /\ GetNext(rest \ skipped, "top")

FlushKeep(m) ==
    /\ ~Reusable(MsgState[m])
    /\ GetNext(todo \ {m}, "top")
    /\ UNCHANGED <<poolVars, msgVars>>

FlushVisit(m) ==
    /\ mqpc = "flush"
    /\ m \in todo
    /\ FlushReturn(m) \/ FlushDelete(m) \/ FlushKeep(m)
    /\ UNCHANGED <<queues, cqpc, alive>>

-----------------------------------------------------------------------------
\* One step of cMsgQueue::Run
QueueStep ==
    \/ BeginPending
    \/ QueueEmpty
    \/ SkipFlush
    \/ BeginFlush
    \/ \E m \in Msgs :
         \/ PendingVisit(m)
         \/ ProcessInternalMessage(m)
         \/ ProcessInboundMessage(m)
         \/ NullHandler(m)
         \/ ProcessOutboundMessage(m)
         \/ FlushVisit(m)

QueueTypeOK ==
    /\ mqpc \in {"top", "pending", "queue", "timer", "flush"}
    /\ todo \in SUBSET Msgs
    /\ m_priority_queue \in [Msgs -> Nat]
    /\ m_jobQueue \in [Msgs -> Nat]
    /\ job \in Msgs \cup {NoMsg} /\ (job # NoMsg => m_jobQueue[job] > 0)
    /\ m_outbound_priority_queue \in [Msgs -> Nat]
    /\ cqpc \in {"idle", "inbound", "outbound"}
    /\ alive \in BOOLEAN
=============================================================================
