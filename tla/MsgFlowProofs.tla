---------------------------- MODULE MsgFlowProofs ----------------------------
(***************************************************************************)
(* Proofs about MsgFlow.                                                   *)
(***************************************************************************)
EXTENDS MsgFlow, TLAPS

-----------------------------------------------------------------------------
\* Records of message fields

LEMMA ResetMsgType == ResetMsg \in MsgFields
BY PoolAssumption DEF ResetMsg, MsgFields, MSG_CT, MSG_PRIORITY, MSG_PRIORITY_MID, MSG_REPLY_ACTION

\* Setting a field to a value of its type.
LEMMA SetField ==
    ASSUME NEW f \in MsgFields
    PROVE  /\ \A v \in MSG_CT : [f EXCEPT !.MsgConnectionType = v] \in MsgFields
           /\ \A v \in BOOLEAN : [f EXCEPT !.TCPSocketHandle = v] \in MsgFields
           /\ \A v \in BOOLEAN : [f EXCEPT !.UDPSocketHandle = v] \in MsgFields
           /\ \A v \in 0 .. MAX_MSG_RETRY :
                [f EXCEPT !.MsgSendRetryCount = v] \in MsgFields
           /\ \A v \in MSG_PRIORITY \cup {NotifyPriority} :
                [f EXCEPT !.MsgPriority = v] \in MsgFields
           /\ \A v \in BOOLEAN : [f EXCEPT !.MsgNotifyAction = v] \in MsgFields
           /\ \A v \in MSG_REPLY_ACTION : [f EXCEPT !.MsgReplyAction = v] \in MsgFields
           /\ \A v \in 0 .. MaxNew : [f EXCEPT !.MsgID = v] \in MsgFields
           /\ \A v \in Commands \cup {NoCommand} :
                /\ [f EXCEPT !.MsgCommand = v] \in MsgFields
                /\ [f EXCEPT !.MsgFrom = v] \in MsgFields
BY DEF MsgFields, NotifyPriority

LEMMA AnswerTypeType == \A ct : AnswerType(ct) \in MSG_CT
BY DEF AnswerType, MSG_CT

LEMMA NotifyFieldsType ==
    ASSUME PoolTypeOK, NEW m \in Msgs
    PROVE  NotifyFields(m) \in MsgFields
<1> DEFINE f1 == [ResetMsg EXCEPT !.MsgConnectionType =
                                      AnswerType(msg[m].MsgConnectionType)]
           f2 == [f1 EXCEPT !.TCPSocketHandle = msg[m].TCPSocketHandle]
           f3 == [f2 EXCEPT !.MsgID = msg[m].MsgID]
           f4 == [f3 EXCEPT !.MsgPriority = NotifyPriority]
           f5 == [f4 EXCEPT !.MsgReplyAction = "NOWAIT"]
           f6 == [f5 EXCEPT !.MsgNotifyAction = TRUE]
<1>1. NotifyFields(m) = f6
  BY Zenon DEF NotifyFields
<1>2. msg[m].TCPSocketHandle \in BOOLEAN /\ msg[m].MsgID \in 0 .. MaxNew
  BY DEF PoolTypeOK, MsgFields
<1>3. f1 \in MsgFields
  BY ResetMsgType, AnswerTypeType, SetField
<1>4. f2 \in MsgFields
  BY <1>2, <1>3, SetField
<1>5. f3 \in MsgFields
  BY <1>2, <1>4, SetField
<1>6. f4 \in MsgFields
  BY <1>5, SetField
<1>7. f5 \in MsgFields
  BY <1>6, SetField DEF MSG_REPLY_ACTION
<1>8. f6 \in MsgFields
  BY <1>7, SetField
<1>9. QED
  BY <1>1, <1>8

LEMMA ReplyFieldsType ==
    ASSUME PoolTypeOK, NEW m \in Msgs
    PROVE  ReplyFields(m) \in MsgFields
<1> DEFINE to == msg[m]
           internal == to.MsgConnectionType = "INTERNAL"
           udp == ~internal /\ to.UDPSocketHandle
           command == IF internal THEN to.MsgFrom ELSE NoCommand
           action == IF internal THEN "NONE" ELSE to.MsgReplyAction
           notify == ~internal /\ to.MsgNotifyAction
           f1 == [ResetMsg EXCEPT !.MsgConnectionType =
                                      AnswerType(to.MsgConnectionType)]
           f2 == [f1 EXCEPT !.TCPSocketHandle = to.TCPSocketHandle]
           f3 == [f2 EXCEPT !.UDPSocketHandle = udp]
           f4 == [f3 EXCEPT !.MsgID = to.MsgID]
           f5 == [f4 EXCEPT !.MsgPriority = to.MsgPriority]
           f6 == [f5 EXCEPT !.MsgCommand = command]
           f7 == [f6 EXCEPT !.MsgReplyAction = action]
           f8 == [f7 EXCEPT !.MsgNotifyAction = notify]
<1>1. ReplyFields(m) = f8
  BY Zenon DEF ReplyFields
<1>2. /\ to.TCPSocketHandle \in BOOLEAN
      /\ to.MsgID \in 0 .. MaxNew
      /\ to.MsgPriority \in MSG_PRIORITY \cup {NotifyPriority}
      /\ command \in Commands \cup {NoCommand}
      /\ action \in MSG_REPLY_ACTION
  BY DEF PoolTypeOK, MsgFields, MSG_REPLY_ACTION, NotifyPriority
<1>3. udp \in BOOLEAN /\ notify \in BOOLEAN
  OBVIOUS
<1> HIDE DEF to, internal, udp, command, action, notify
<1>4. f1 \in MsgFields
  BY ResetMsgType, AnswerTypeType, SetField
<1>5. f2 \in MsgFields
  BY <1>2, <1>4, SetField
<1>6. f3 \in MsgFields
  BY <1>3, <1>5, SetField
<1>7. f4 \in MsgFields
  BY <1>2, <1>6, SetField
<1>8. f5 \in MsgFields
  BY <1>2, <1>7, SetField
<1>9. f6 \in MsgFields
  BY <1>2, <1>8, SetField
<1>10. f7 \in MsgFields
  BY <1>2, <1>9, SetField
<1>11. f8 \in MsgFields
  BY <1>3, <1>10, SetField
<1>12. QED
  BY <1>1, <1>11

LEMMA ParseType ==
    ASSUME NEW fields \in MsgFields, NEW ct \in MSG_CT,
           NEW p \in Priorities, NEW r \in ReplyActions,
           NEW n \in NotifyActions, NEW c \in Commands
    PROVE  Parse(fields, ct, p, r, n, c) \in MsgFields
<1> DEFINE f1 == [fields EXCEPT !.MsgConnectionType = ct]
           f2 == [f1 EXCEPT !.MsgPriority = p]
           f3 == [f2 EXCEPT !.MsgReplyAction = r]
           f4 == [f3 EXCEPT !.MsgNotifyAction = n]
           f5 == [f4 EXCEPT !.MsgCommand = c]
<1>1. p \in MSG_PRIORITY \cup {NotifyPriority}
  BY InputAssumption
<1>2. f1 \in MsgFields
  BY SetField
<1>3. f2 \in MsgFields
  BY <1>1, <1>2, SetField
<1>4. f3 \in MsgFields
  BY <1>3, SetField, InputAssumption
<1>5. f4 \in MsgFields
  BY <1>4, SetField, InputAssumption
<1>6. f5 \in MsgFields
  BY <1>5, SetField
<1>7. QED
  BY <1>6, Zenon DEF Parse

-----------------------------------------------------------------------------
\* Type correctness

\* The steps that change the pool, with what they do to its types.

LEMMA GetReusableType ==
    ASSUME PoolTypeOK, NEW m \in Msgs, GetReusableMessage(m)
    PROVE  /\ m_Messages' \in SUBSET Msgs
           /\ m_FreeMsgStack' \in [Msgs -> Nat]
BY DEF PoolTypeOK, GetReusableMessage

LEMMA GetMessageType ==
    ASSUME PoolTypeOK, NEW m \in Msgs, NEW fields \in MsgFields, GetMessage(m, fields)
    PROVE  PoolTypeOK'
BY GetReusableType DEF PoolTypeOK, GetMessage, MSG_STATE

LEMMA PushPopType ==
    ASSUME NEW q \in [Msgs -> Nat], NEW m \in Msgs
    PROVE  /\ Push(q, m) \in [Msgs -> Nat]
           /\ IsTop(q, m) => Pop(q, m) \in [Msgs -> Nat]
BY DEF Push, Pop, IsTop

\* The message queue thread.

LEMMA PendingVisitType ==
    ASSUME TypeOK, NEW m \in Msgs, PendingVisit(m), UNCHANGED threadVars
    PROVE  TypeOK'
<1>1. MsgState' \in [Msgs -> MSG_STATE]
  BY DEF TypeOK, PoolTypeOK, PendingVisit, EnqueuePending, DropUndelivered,
         Retry, AwaitRetry, PassOver, QueuedState, MSG_STATE
<1>2. msg' \in [Msgs -> MsgFields]
  <2>1. CASE UNCHANGED msg
    BY <2>1 DEF TypeOK, PoolTypeOK
  <2>2. CASE msg' = [msg EXCEPT ![m].MsgSendRetryCount =
                                  RetryCountAfter(msg[m].MsgSendRetryCount)]
             /\ ~TooManyRetries(msg[m].MsgSendRetryCount)
    <3>1. msg[m] \in MsgFields
      BY DEF TypeOK, PoolTypeOK
    <3>2. RetryCountAfter(msg[m].MsgSendRetryCount) \in 0 .. MAX_MSG_RETRY
      BY <2>2, <3>1, PoolAssumption DEF MsgFields, RetryCountAfter, TooManyRetries
    <3>3. [msg[m] EXCEPT !.MsgSendRetryCount =
                           RetryCountAfter(msg[m].MsgSendRetryCount)] \in MsgFields
      BY <3>1, <3>2, SetField
    <3>4. QED
      BY <2>2, <3>3 DEF TypeOK, PoolTypeOK
  <2>3. QED
    BY <2>1, <2>2 DEF PendingVisit, EnqueuePending, DropUndelivered, Retry,
                      AwaitRetry, PassOver
<1>3. m_priority_queue' \in [Msgs -> Nat]
  BY PushPopType DEF TypeOK, QueueTypeOK, PendingVisit, EnqueuePending,
     DropUndelivered, Retry, AwaitRetry, PassOver
<1>4. todo' \in SUBSET Msgs /\ mqpc' \in {"pending", "queue"}
  BY DEF TypeOK, QueueTypeOK, PendingVisit, GetNext
<1>5. QED
  BY <1>1, <1>2, <1>3, <1>4
     DEF TypeOK, PoolTypeOK, QueueTypeOK, PendingVisit, poolVars, threadVars

LEMMA RouteType ==
    ASSUME TypeOK, NEW m \in Msgs, UNCHANGED threadVars,
           \/ ProcessInternalMessage(m)
           \/ ProcessInboundMessage(m)
           \/ NullHandler(m)
           \/ ProcessOutboundMessage(m)
    PROVE  TypeOK'
<1>1. CASE ProcessInternalMessage(m)
  BY <1>1, PushPopType DEF TypeOK, PoolTypeOK, QueueTypeOK, threadVars, poolVars,
     ProcessInternalMessage, TakeTop, PushJob, MSG_STATE
<1>2. CASE ProcessInboundMessage(m)
  <2>1. PoolTypeOK'
    <3>1. CASE UNCHANGED <<poolVars, msgVars>>
      BY <3>1 DEF TypeOK, PoolTypeOK, poolVars, msgVars
    <3>2. ASSUME NEW n \in Msgs, PostNotifyMessage(n, m)
          PROVE  PoolTypeOK'
      <4>1. /\ m_Messages' \in SUBSET Msgs
            /\ m_FreeMsgStack' \in [Msgs -> Nat]
            /\ MsgState' \in [Msgs -> MSG_STATE]
        BY <3>2, GetReusableType DEF TypeOK, PoolTypeOK, PostNotifyMessage, MSG_STATE
      <4>2. NotifyFields(m) \in MsgFields
        BY NotifyFieldsType DEF TypeOK
      <4>3. \A f \in MsgFields : NotifiedOnce(f) \in MsgFields
        BY SetField DEF NotifiedOnce
      <4>4. msg' \in [Msgs -> MsgFields]
        BY <3>2, <4>2, <4>3 DEF TypeOK, PoolTypeOK, PostNotifyMessage
      <4>5. QED
        BY <4>1, <4>4 DEF PoolTypeOK
    <3>3. QED
      BY <1>2, <3>1, <3>2 DEF ProcessInboundMessage
  <2>2. QueueTypeOK'
    BY <1>2, PushPopType DEF TypeOK, QueueTypeOK, ProcessInboundMessage, TakeTop, PushJob
  <2>3. QED
    BY <2>1, <2>2 DEF TypeOK, threadVars
<1>3. CASE NullHandler(m)
  BY <1>3 DEF TypeOK, PoolTypeOK, QueueTypeOK, threadVars, poolVars, msgVars, queues,
     NullHandler
<1>4. CASE ProcessOutboundMessage(m)
  <2>1. PoolTypeOK'
    BY <1>4 DEF TypeOK, PoolTypeOK, poolVars, ProcessOutboundMessage, MSG_STATE
  <2>2. m_priority_queue' \in [Msgs -> Nat] /\ m_outbound_priority_queue' \in [Msgs -> Nat]
    BY <1>4, PushPopType DEF TypeOK, QueueTypeOK, ProcessOutboundMessage, TakeTop
  <2>3. QED
    BY <1>4, <2>1, <2>2 DEF TypeOK, QueueTypeOK, threadVars, ProcessOutboundMessage, TakeTop
<1>5. QED
  BY <1>1, <1>2, <1>3, <1>4

LEMMA FlushVisitType ==
    ASSUME TypeOK, NEW m \in Msgs, FlushVisit(m), UNCHANGED threadVars
    PROVE  TypeOK'
<1>1. PoolTypeOK'
  <2>1. CASE FlushReturn(m)
    BY <2>1 DEF TypeOK, PoolTypeOK, FlushReturn, ReturnToPool, StateInPool, MSG_STATE
  <2>2. CASE FlushDelete(m)
    BY <2>2, ResetMsgType DEF TypeOK, PoolTypeOK, FlushDelete, DeleteCurrent, MSG_STATE
  <2>3. CASE FlushKeep(m)
    BY <2>3 DEF TypeOK, PoolTypeOK, FlushKeep, poolVars, msgVars
  <2>4. QED
    BY <2>1, <2>2, <2>3 DEF FlushVisit
<1>2. todo' \in SUBSET Msgs /\ mqpc' \in {"flush", "top"}
  BY DEF TypeOK, QueueTypeOK, FlushVisit, FlushReturn, FlushDelete, FlushKeep, GetNext
<1>3. QED
  BY <1>1, <1>2 DEF TypeOK, QueueTypeOK, FlushVisit, queues, threadVars

LEMMA QueueThreadType ==
    ASSUME TypeOK, MsgQueueThread
    PROVE  TypeOK'
<1>1. CASE BeginPending
  BY <1>1 DEF TypeOK, PoolTypeOK, QueueTypeOK, MsgQueueThread, BeginPending, GetHead,
     poolVars, msgVars, queues, threadVars
<1>2. CASE QueueEmpty \/ SkipFlush
  BY <1>2 DEF TypeOK, PoolTypeOK, QueueTypeOK, MsgQueueThread, QueueEmpty, SkipFlush,
     poolVars, msgVars, queues, threadVars
<1>3. CASE BeginFlush
  BY <1>3 DEF TypeOK, PoolTypeOK, QueueTypeOK, MsgQueueThread, BeginFlush, GetHead,
     FlushFreeStack, msgVars, queues, threadVars
<1>4. QED
  BY <1>1, <1>2, <1>3, PendingVisitType, RouteType, FlushVisitType
     DEF MsgQueueThread, QueueStep

\* Producers.

LEMMA CreateType ==
    ASSUME TypeOK, NEW t \in Threads, NEW fields \in MsgFields, Create(t, fields)
    PROVE  TypeOK'
<1>1. produced' \in 0 .. MaxNew
  BY PoolAssumption DEF TypeOK, Create
<1>2. PICK m \in Msgs : /\ GetMessage(m, [fields EXCEPT !.MsgID = produced'])
                        /\ held' = [held EXCEPT ![t] = m]
  BY DEF Create
<1>3. PoolTypeOK'
  BY <1>1, <1>2, SetField, GetMessageType DEF TypeOK
<1>4. held' \in [Threads -> Msgs \cup {NoMsg}]
  BY <1>2 DEF TypeOK
<1>5. QED
  BY <1>1, <1>3, <1>4 DEF TypeOK, QueueTypeOK, Create, mqVars

LEMMA DispatchType ==
    ASSUME TypeOK, NEW t \in Threads, NEW fields \in MsgFields, Dispatch(t, fields),
           tail' \in [UDPServers -> Msgs \cup {NoMsg}]
    PROVE  TypeOK'
<1> DEFINE m == held[t]
           sent == [fields EXCEPT !.MsgConnectionType = DispatchedType(@)]
<1>1. m \in Msgs
  BY DEF TypeOK, Dispatch
<1>2. sent \in MsgFields
  <2>1. DispatchedType(fields.MsgConnectionType) \in MSG_CT
    BY DEF DispatchedType, MsgFields, MSG_CT
  <2>2. QED
    BY <2>1, SetField
<1>3. PoolTypeOK'
  BY <1>1, <1>2 DEF TypeOK, PoolTypeOK, Dispatch, poolVars, MSG_STATE
<1>4. held' \in [Threads -> Msgs \cup {NoMsg}]
  BY DEF TypeOK, Dispatch
<1>5. QED
  BY <1>3, <1>4 DEF TypeOK, QueueTypeOK, Dispatch, mqVars

LEMMA DispatchParsedType ==
    ASSUME TypeOK, NEW t \in Threads, NEW ct \in MSG_CT, DispatchParsed(t, ct),
           tail' \in [UDPServers -> Msgs \cup {NoMsg}]
    PROVE  TypeOK'
<1>1. PICK p \in Priorities, r \in ReplyActions, n \in NotifyActions, c \in Commands :
             Dispatch(t, Parse(msg[held[t]], ct, p, r, n, c))
  BY DEF DispatchParsed
<1>2. held[t] \in Msgs
  BY <1>1 DEF TypeOK, Dispatch
<1>3. Parse(msg[held[t]], ct, p, r, n, c) \in MsgFields
  BY <1>2, ParseType DEF TypeOK, PoolTypeOK
<1>4. QED
  BY <1>1, <1>3, DispatchType

LEMMA ThreadKinds ==
    /\ UDPServers \subseteq Threads
    /\ Apps \subseteq Threads
    /\ Handlers \subseteq Threads
    /\ CQ \in Threads
BY DEF Threads, Servers

LEMMA UDPServerType ==
    ASSUME TypeOK, NEW u \in UDPServers, UDPServerThread(u)
    PROVE  TypeOK'
<1>1. CASE UDPCreate(u)
  BY <1>1, ThreadKinds, ResetMsgType, CreateType DEF UDPCreate
<1>2. CASE UDPDiscard(u)
  BY <1>2, ThreadKinds DEF TypeOK, PoolTypeOK, QueueTypeOK, UDPDiscard, poolVars, mqVars,
     MSG_STATE
<1>3. CASE UDPDispatch(u)
  <2>1. tail' \in [UDPServers -> Msgs \cup {NoMsg}]
    BY <1>3, ThreadKinds DEF TypeOK, UDPDispatch
  <2>2. QED
    BY <1>3, <2>1, ThreadKinds, DispatchParsedType DEF UDPDispatch, MSG_CT
<1>4. CASE UDPAfterDispatch(u)
  <2>1. tail[u] \in Msgs
    BY <1>4 DEF TypeOK, UDPAfterDispatch
  <2>2. [msg[tail[u]] EXCEPT !.UDPSocketHandle = TRUE] \in MsgFields
    BY <2>1, SetField DEF TypeOK, PoolTypeOK
  <2>3. msg' \in [Msgs -> MsgFields]
    BY <1>4, <2>1, <2>2 DEF TypeOK, PoolTypeOK, UDPAfterDispatch
  <2>4. QED
    BY <1>4, <2>3 DEF TypeOK, PoolTypeOK, QueueTypeOK, UDPAfterDispatch, poolVars, mqVars
<1>5. QED
  BY <1>1, <1>2, <1>3, <1>4 DEF UDPServerThread

LEMMA AppFieldsType ==
    ASSUME NEW ct \in AppKinds
    PROVE  [ResetMsg EXCEPT !.MsgConnectionType = ct,
                            !.MsgPriority = IF ct = "INTERNAL"
                                            THEN MSG_PRIORITY_HIGH
                                            ELSE MSG_PRIORITY_MID] \in MsgFields
<1> DEFINE priority == IF ct = "INTERNAL" THEN MSG_PRIORITY_HIGH ELSE MSG_PRIORITY_MID
           f1 == [ResetMsg EXCEPT !.MsgConnectionType = ct]
           f2 == [f1 EXCEPT !.MsgPriority = priority]
<1>1. priority \in MSG_PRIORITY
  BY DEF MSG_PRIORITY, MSG_PRIORITY_HIGH, MSG_PRIORITY_MID
<1>2. f1 \in MsgFields
  BY InputAssumption, ResetMsgType, SetField DEF MSG_CT
<1>3. QED
  <2> HIDE DEF f1, priority
  <2>1. f2 \in MsgFields
    BY <1>1, <1>2, SetField
  <2>2. QED
    BY <2>1, Zenon DEF f1, priority

LEMMA AppType ==
    ASSUME TypeOK, NEW a \in Apps, AppThread(a)
    PROVE  TypeOK'
<1>1. CASE AppCreate(a)
  <2>1. PICK fields \in MsgFields : Create(a, fields)
    BY <1>1, AppFieldsType DEF AppCreate
  <2>2. QED
    BY <2>1, ThreadKinds, CreateType
<1>2. CASE AppDispatch(a)
  <2>1. PICK c \in Commands, r \in MSG_REPLY_ACTION, f \in Commands \cup {NoCommand} :
               Dispatch(a, [msg[held[a]] EXCEPT !.MsgCommand = c, !.MsgReplyAction = r,
                                                !.MsgFrom = f])
    BY <1>2, InputAssumption DEF AppDispatch, MSG_REPLY_ACTION
  <2> DEFINE f1 == [msg[held[a]] EXCEPT !.MsgCommand = c]
             f2 == [f1 EXCEPT !.MsgReplyAction = r]
             f3 == [f2 EXCEPT !.MsgFrom = f]
  <2>2. msg[held[a]] \in MsgFields
    BY <1>2, ThreadKinds DEF TypeOK, PoolTypeOK, AppDispatch
  <2>3. f1 \in MsgFields
    BY <2>2, SetField
  <2> HIDE DEF f1
  <2>4. f2 \in MsgFields
    BY <2>3, SetField
  <2> HIDE DEF f2
  <2>5. f3 \in MsgFields
    BY <2>4, SetField
  <2>6. Dispatch(a, f3)
    BY <2>1, Zenon DEF f1, f2
  <2>7. tail' \in [UDPServers -> Msgs \cup {NoMsg}]
    BY <1>2 DEF TypeOK, AppDispatch
  <2>8. QED
    BY <2>5, <2>6, <2>7, ThreadKinds, DispatchType
<1>3. QED
  BY <1>1, <1>2 DEF AppThread

\* Request handlers.

LEMMA TakeJobType ==
    ASSUME TypeOK, NEW m \in Msgs, TakeJob(m)
    PROVE  TypeOK'
<1>1. MsgState' \in [Msgs -> MSG_STATE] /\ held' \in [Threads -> Msgs \cup {NoMsg}]
  BY ThreadKinds DEF TypeOK, PoolTypeOK, TakeJob, OnProcess, StateWhenBusy, MSG_STATE
<1>2. QED
  BY <1>1 DEF TypeOK, PoolTypeOK, QueueTypeOK, TakeJob, IsTop, poolVars, mqVars

LEMMA PopJobType ==
    ASSUME TypeOK, PopJob
    PROVE  TypeOK'
<1>1. m_jobQueue' \in [Msgs -> Nat]
  BY DEF TypeOK, QueueTypeOK, PopJob, Pop
<1>2. QED
  BY <1>1 DEF TypeOK, PoolTypeOK, QueueTypeOK, PopJob, poolVars, msgVars, mqVars, threadVars

LEMMA HandlerType ==
    ASSUME TypeOK, NEW h \in Handlers, HandlerThread(h)
    PROVE  TypeOK'
<1>1. CASE CreateMessageReply(h)
  <2>1. PICK p \in Msgs : /\ GetMessage(p, ReplyFields(held[h]))
                          /\ reply' = [reply EXCEPT ![h] = p]
    BY <1>1 DEF CreateMessageReply
  <2>2. ReplyFields(held[h]) \in MsgFields
    BY <1>1, ThreadKinds, ReplyFieldsType DEF TypeOK, CreateMessageReply
  <2>3. PoolTypeOK'
    BY <2>1, <2>2, GetMessageType DEF TypeOK
  <2>4. QED
    BY <1>1, <2>1, <2>3 DEF TypeOK, QueueTypeOK, CreateMessageReply, mqVars
<1>2. CASE DispatchReply(h)
  <2>1. reply[h] \in Msgs
    BY <1>2 DEF TypeOK, DispatchReply
  <2>2. DispatchedType(msg[reply[h]].MsgConnectionType) \in MSG_CT
    BY <2>1 DEF TypeOK, PoolTypeOK, DispatchedType, MsgFields, MSG_CT
  <2>3. [msg[reply[h]] EXCEPT !.MsgConnectionType = DispatchedType(@)] \in MsgFields
    BY <2>1, <2>2, SetField DEF TypeOK, PoolTypeOK
  <2>4. PoolTypeOK'
    BY <1>2, <2>1, <2>3 DEF TypeOK, PoolTypeOK, DispatchReply, poolVars, MSG_STATE
  <2>5. QED
    BY <1>2, <2>4 DEF TypeOK, QueueTypeOK, DispatchReply, mqVars
<1>3. CASE MarkProcessed(h)
  BY <1>3, ThreadKinds DEF TypeOK, PoolTypeOK, QueueTypeOK, MarkProcessed, StateProcessed, poolVars, mqVars,
     MSG_STATE
<1>4. QED
  BY <1>1, <1>2, <1>3 DEF HandlerThread

\* The connection queue thread.

LEMMA TCPFieldsType ==
    [ResetMsg EXCEPT !.TCPSocketHandle = TRUE, !.MsgConnectionType = "IB_TCP"] \in MsgFields
<1> DEFINE f1 == [ResetMsg EXCEPT !.TCPSocketHandle = TRUE]
           f2 == [f1 EXCEPT !.MsgConnectionType = "IB_TCP"]
<1>1. f1 \in MsgFields
  BY ResetMsgType, SetField
<1>2. f2 \in MsgFields
  <2> HIDE DEF f1
  <2>1. QED
    BY <1>1, SetField DEF MSG_CT
<1>3. QED
  BY <1>2, Zenon

LEMMA ConnectionQueueType ==
    ASSUME TypeOK, ConnectionQueueThread
    PROVE  TypeOK'
<1>1. CASE CQBegin \/ CQOutbound
  BY <1>1 DEF TypeOK, PoolTypeOK, QueueTypeOK, CQBegin, CQOutbound, SendOrUnlock,
     poolVars, msgVars, mqVars, threadVars
<1>2. CASE TCPCreate
  BY <1>2, ThreadKinds, TCPFieldsType, CreateType DEF TCPCreate
<1>3. CASE TCPDispatch
  <2>1. tail' \in [UDPServers -> Msgs \cup {NoMsg}]
    BY <1>3 DEF TypeOK, TCPDispatch
  <2>2. QED
    BY <1>3, <2>1, ThreadKinds, DispatchParsedType DEF TCPDispatch, MSG_CT
<1>4. ASSUME NEW m \in Msgs, Transmit(m)
      PROVE  TypeOK'
  <2>1. PICK result \in {"DELIVERED", "UNDELIVERED"} \X BOOLEAN :
               /\ MsgState' = [MsgState EXCEPT ![m] = result[1]]
               /\ msg' = [msg EXCEPT ![m].TCPSocketHandle = result[2]]
    BY <1>4 DEF Transmit, TransmitMsg
  <2>2. [msg[m] EXCEPT !.TCPSocketHandle = result[2]] \in MsgFields
    BY SetField DEF TypeOK, PoolTypeOK
  <2>3. PoolTypeOK'
    BY <1>4, <2>1, <2>2 DEF TypeOK, PoolTypeOK, Transmit, poolVars, MSG_STATE
  <2>4. m_outbound_priority_queue' \in [Msgs -> Nat]
    BY <1>4, PushPopType DEF TypeOK, QueueTypeOK, Transmit
  <2>5. QED
    BY <1>4, <2>3, <2>4 DEF TypeOK, QueueTypeOK, Transmit, mqVars
<1>5. CASE AfterTransmit
  BY <1>5 DEF TypeOK, PoolTypeOK, QueueTypeOK, AfterTransmit, SendOrUnlock, poolVars, msgVars, mqVars
<1>6. QED
  BY <1>1, <1>2, <1>3, <1>4, <1>5 DEF ConnectionQueueThread

\* The variables of the specification have their types whatever the threads do:
\* counts never go negative and no retry passes MAX_MSG_RETRY.
THEOREM TypeCorrect == Spec => []TypeOK
<1>1. Init => TypeOK
  BY PoolAssumption, ResetMsgType
     DEF Init, InitPool, InitQueue, TypeOK, PoolTypeOK, QueueTypeOK, MSG_STATE
<1>2. TypeOK /\ [Next]_vars => TypeOK'
  <2> SUFFICES ASSUME TypeOK, [Next]_vars
               PROVE  TypeOK'
    OBVIOUS
  <2>1. CASE Running
    BY <2>1, QueueThreadType, ConnectionQueueType, UDPServerType, AppType, TakeJobType,
       PopJobType, HandlerType DEF Running
  <2>2. CASE UNCHANGED vars
    BY <2>2 DEF TypeOK, PoolTypeOK, QueueTypeOK, vars, poolVars, msgVars, mqVars, threadVars
  <2>3. QED
    BY <2>1, <2>2 DEF Next, Dead
<1>3. QED
  BY <1>1, <1>2, PTL DEF Spec

-----------------------------------------------------------------------------
\* The jobs left

LEMMA JobsLeftType ==
    ASSUME TypeOK
    PROVE  JobsLeft \in [Msgs -> Nat]
<1>1. CASE job = NoMsg
  BY <1>1 DEF TypeOK, QueueTypeOK, JobsLeft
<1>2. CASE job # NoMsg
  BY <1>2 DEF TypeOK, QueueTypeOK, JobsLeft, Pop
<1>3. QED
  BY <1>1, <1>2

LEMMA NextJobsLeftType ==
    ASSUME TypeOK'
    PROVE  JobsLeft' \in [Msgs -> Nat]
<1>1. CASE job' = NoMsg
  BY <1>1 DEF TypeOK, QueueTypeOK, JobsLeft
<1>2. CASE job' # NoMsg
  BY <1>2 DEF TypeOK, QueueTypeOK, JobsLeft, Pop
<1>3. QED
  BY <1>1, <1>2

\* A job is left once it was pushed, and no more once it was given away: popping it
\* makes no difference then.
LEMMA JobsLeftAfter ==
    ASSUME TypeOK
    PROVE  /\ UNCHANGED <<m_jobQueue, job>> => UNCHANGED JobsLeft
           /\ \A m \in Msgs : PushJob(m) /\ UNCHANGED job => JobsLeft' = Push(JobsLeft, m)
           /\ \A m \in Msgs : TakeJob(m) => /\ IsTop(JobsLeft, m)
                                            /\ JobsLeft' = Pop(JobsLeft, m)
           /\ PopJob => UNCHANGED JobsLeft
<1>1. UNCHANGED <<m_jobQueue, job>> => UNCHANGED JobsLeft
  BY DEF JobsLeft
<1>2. ASSUME NEW m \in Msgs, PushJob(m), UNCHANGED job
      PROVE  JobsLeft' = Push(JobsLeft, m)
  BY <1>2 DEF JobsLeft, PushJob
<1>3. ASSUME NEW m \in Msgs, TakeJob(m)
      PROVE  IsTop(JobsLeft, m) /\ JobsLeft' = Pop(JobsLeft, m)
  BY <1>3, PoolAssumption DEF JobsLeft, TakeJob
<1>4. ASSUME PopJob
      PROVE  UNCHANGED JobsLeft
  BY <1>4 DEF JobsLeft, PopJob
<1>5. QED
  BY <1>1, <1>2, <1>3, <1>4

-----------------------------------------------------------------------------
\* Ownership: the inductive invariant Ownership

LEMMA NotInUse ==
    ASSUME Ownership, NEW m \in Msgs, MsgState[m] # "INUSE"
    PROVE  Queued(m) = 0 /\ \A t \in Threads : ~WorksOn(t, m)
<1>1. Queued(m) \in Nat
  BY JobsLeftType DEF Ownership, TypeOK, QueueTypeOK, Queued
<1>2. QED
  BY <1>1 DEF Ownership, OwnedInUse

\* What GetReusableMessage hands out: a message nobody else has.
LEMMA GotMessage ==
    ASSUME Ownership, NEW m \in Msgs, GetReusableMessage(m)
    PROVE  /\ MsgState[m] = "INACTIVE"
           /\ Queued(m) = 0
           /\ \A t \in Threads : ~WorksOn(t, m)
           /\ m \in m_Messages'
           /\ m_Messages \subseteq m_Messages'
           /\ m_FreeMsgStack'[m] = 0
           /\ \A x \in Msgs : m_FreeMsgStack'[x] <= m_FreeMsgStack[x]
<1>1. MsgState[m] = "INACTIVE"
  <2>1. CASE m_FreeMsgStack[m] > 0
    BY <2>1 DEF Ownership, FreeInactive
  <2>2. CASE m \notin m_Messages
    BY <2>2 DEF Ownership, ActiveExists
  <2>3. QED
    BY <2>1, <2>2 DEF GetReusableMessage
<1>2. Queued(m) = 0 /\ \A t \in Threads : ~WorksOn(t, m)
  BY <1>1, NotInUse
<1>3. m_FreeMsgStack[m] <= 1
  BY DEF Ownership, FreeInactive
<1>4. QED
  BY <1>1, <1>2, <1>3 DEF Ownership, TypeOK, PoolTypeOK, FreeInactive, GetReusableMessage

LEMMA BeginPendingInv ==
    ASSUME Ownership, BeginPending, UNCHANGED threadVars
    PROVE  Ownership'
<1>1. TypeOK'
  BY QueueThreadType DEF Ownership, MsgQueueThread, QueueStep
<1>2. QED
  BY <1>1 DEF Ownership, OwnedInUse, OneHolder, FreeInactive, ActiveExists, ScanSound,
     NoLostMessage, Queued, JobsLeft, WorksOn, BeginPending, GetHead, poolVars, msgVars, queues,
     threadVars

LEMMA PendingVisitInv ==
    ASSUME Ownership, NEW m \in Msgs, PendingVisit(m), UNCHANGED threadVars
    PROVE  Ownership'
<1>1. TypeOK'
  BY QueueThreadType DEF Ownership, MsgQueueThread, QueueStep
<1>0. JobsLeft \in [Msgs -> Nat] /\ UNCHANGED <<JobsLeft, job>>
  BY JobsLeftType, JobsLeftAfter DEF Ownership, PendingVisit
<1>2. OwnedInUse'
  BY <1>0 DEF Ownership, TypeOK, PoolTypeOK, QueueTypeOK, OwnedInUse, Queued, WorksOn,
     PendingVisit, EnqueuePending, DropUndelivered, Retry, AwaitRetry, PassOver,
     QueuedState, Push, threadVars
<1>3. OneHolder'
  BY DEF Ownership, OneHolder, WorksOn, threadVars
<1>4. FreeInactive' /\ ActiveExists' /\ ScanSound'
  BY DEF Ownership, TypeOK, PoolTypeOK, FreeInactive, ActiveExists, ScanSound,
     PendingVisit, EnqueuePending, DropUndelivered, Retry, AwaitRetry, PassOver,
     QueuedState, GetNext, poolVars
<1>5. NoLostMessage'
  BY <1>0 DEF Ownership, TypeOK, PoolTypeOK, QueueTypeOK, NoLostMessage, Queued, WorksOn,
     PendingVisit, EnqueuePending, DropUndelivered, Retry, AwaitRetry, PassOver,
     QueuedState, Push, threadVars
<1>6. QED
  BY <1>1, <1>2, <1>3, <1>4, <1>5 DEF Ownership

\* The steps that route the top message m: it leaves the priority queue, and
\* goes on to at most one other.

LEMMA TakeTopOwner ==
    ASSUME Ownership, NEW m \in Msgs, TakeTop(m)
    PROVE  /\ MsgState[m] = "INUSE"
           /\ m_priority_queue[m] = 1
           /\ JobsLeft[m] = 0
           /\ m_outbound_priority_queue[m] = 0
           /\ m_priority_queue' = [m_priority_queue EXCEPT ![m] = 0]
           /\ \A t \in Threads : ~WorksOn(t, m)
<1>1. /\ m_priority_queue[m] \in Nat
      /\ JobsLeft[m] \in Nat
      /\ m_outbound_priority_queue[m] \in Nat
      /\ m_priority_queue[m] > 0
  BY JobsLeftType DEF Ownership, TypeOK, QueueTypeOK, TakeTop, IsTop
<1>2. Queued(m) <= 1
  BY DEF Ownership, OwnedInUse
<1>3. /\ m_priority_queue[m] = 1
      /\ JobsLeft[m] = 0
      /\ m_outbound_priority_queue[m] = 0
  BY <1>1, <1>2 DEF Queued
<1>4. Queued(m) = 1
  BY <1>3 DEF Queued
<1>5. QED
  BY <1>3, <1>4 DEF Ownership, OwnedInUse, TakeTop, Pop

LEMMA ProcessInternalInv ==
    ASSUME Ownership, NEW m \in Msgs, ProcessInternalMessage(m), UNCHANGED threadVars
    PROVE  Ownership'
<1>1. TypeOK'
  BY QueueThreadType DEF Ownership, MsgQueueThread, QueueStep
<1>0. TakeTop(m)
  BY DEF ProcessInternalMessage
<1>7. /\ JobsLeft \in [Msgs -> Nat]
      /\ UNCHANGED <<job, m_outbound_priority_queue>>
      /\ \/ UNCHANGED JobsLeft /\ MsgState' = [MsgState EXCEPT ![m] = "UNDELIVERED"]
         \/ UNCHANGED MsgState /\ JobsLeft' = Push(JobsLeft, m) /\ job = NoMsg
  BY JobsLeftType, JobsLeftAfter DEF Ownership, ProcessInternalMessage, PushJob
<1>2. OwnedInUse'
  BY <1>0, <1>7, TakeTopOwner, PoolAssumption DEF Ownership, TypeOK, PoolTypeOK, QueueTypeOK, OwnedInUse, Queued, WorksOn,
     Push, threadVars
<1>3. OneHolder'
  BY DEF Ownership, OneHolder, WorksOn, threadVars
<1>4. FreeInactive' /\ ActiveExists' /\ ScanSound'
  BY <1>0, TakeTopOwner DEF Ownership, TypeOK, PoolTypeOK, FreeInactive, ActiveExists, ScanSound,
     ProcessInternalMessage, TakeTop, poolVars
<1>5. NoLostMessage'
  BY <1>0, <1>7, TakeTopOwner DEF Ownership, TypeOK, PoolTypeOK, QueueTypeOK, NoLostMessage, Queued,
     WorksOn, Push, threadVars
<1>6. QED
  BY <1>1, <1>2, <1>3, <1>4, <1>5 DEF Ownership

LEMMA ProcessInboundInv ==
    ASSUME Ownership, NEW m \in Msgs, ProcessInboundMessage(m), UNCHANGED threadVars
    PROVE  Ownership'
<1>1. TypeOK'
  BY QueueThreadType DEF Ownership, MsgQueueThread, QueueStep
<1>0. TakeTop(m)
  BY DEF ProcessInboundMessage
<1>7. /\ JobsLeft \in [Msgs -> Nat] /\ JobsLeft' = Push(JobsLeft, m)
      /\ job = NoMsg /\ UNCHANGED <<job, m_outbound_priority_queue>>
  BY JobsLeftType, JobsLeftAfter DEF Ownership, ProcessInboundMessage, PushJob
<1>2. /\ \A x \in Msgs : Queued(x)' = Queued(x)
      /\ \A x \in Msgs : job' # x
  BY <1>0, <1>7, TakeTopOwner, PoolAssumption DEF Ownership, TypeOK, QueueTypeOK, Queued, Push
<1>3. \A x \in Msgs, t \in Threads : WorksOn(t, x)' <=> WorksOn(t, x)
  BY DEF WorksOn, threadVars
<1>4. CASE UNCHANGED <<poolVars, msgVars>>
  BY <1>1, <1>0, <1>2, <1>3, <1>4 DEF Ownership, OwnedInUse, OneHolder, FreeInactive, ActiveExists,
     ScanSound, NoLostMessage, TakeTop, poolVars, msgVars, threadVars
<1>5. ASSUME NEW n \in Msgs, PostNotifyMessage(n, m)
      PROVE  Ownership'
  <2>1. GetReusableMessage(n) /\ MsgState' = [MsgState EXCEPT ![n] = "PENDING"]
    BY <1>5 DEF PostNotifyMessage
  <2>2. n \in m_Messages' /\ m_FreeMsgStack'[n] = 0
    BY <2>1, GotMessage
  <2>3. OwnedInUse' /\ NoLostMessage'
    BY <1>2, <1>3, <2>1, GotMessage DEF Ownership, TypeOK, PoolTypeOK, OwnedInUse, NoLostMessage
  <2>4. OneHolder'
    BY DEF Ownership, OneHolder, WorksOn, threadVars
  <2>5. FreeInactive' /\ ActiveExists'
    BY <1>1, <2>1, GotMessage DEF Ownership, TypeOK, PoolTypeOK, FreeInactive, ActiveExists
  <2>6. ScanSound'
    BY <1>0, <2>1, GotMessage DEF Ownership, ScanSound, TakeTop
  <2>7. QED
    BY <1>1, <2>3, <2>4, <2>5, <2>6 DEF Ownership
<1>6. QED
  BY <1>4, <1>5 DEF ProcessInboundMessage

LEMMA ProcessOutboundInv ==
    ASSUME Ownership, NEW m \in Msgs, ProcessOutboundMessage(m), UNCHANGED threadVars
    PROVE  Ownership'
<1>1. TypeOK'
  BY QueueThreadType DEF Ownership, MsgQueueThread, QueueStep
<1>0. TakeTop(m)
  BY DEF ProcessOutboundMessage
<1>7. JobsLeft \in [Msgs -> Nat] /\ UNCHANGED <<JobsLeft, job>>
  BY JobsLeftType, JobsLeftAfter DEF Ownership, ProcessOutboundMessage
<1>2. OwnedInUse'
  BY <1>0, <1>7, TakeTopOwner DEF Ownership, TypeOK, PoolTypeOK, QueueTypeOK, OwnedInUse, Queued, WorksOn,
     ProcessOutboundMessage, Push, threadVars
<1>3. OneHolder'
  BY DEF Ownership, OneHolder, WorksOn, threadVars
<1>4. FreeInactive' /\ ActiveExists' /\ ScanSound'
  BY <1>0, TakeTopOwner DEF Ownership, TypeOK, PoolTypeOK, FreeInactive, ActiveExists, ScanSound,
     ProcessOutboundMessage, TakeTop, poolVars
<1>5. NoLostMessage'
  BY <1>0, <1>7, TakeTopOwner DEF Ownership, TypeOK, PoolTypeOK, QueueTypeOK, NoLostMessage, Queued, WorksOn,
     ProcessOutboundMessage, Push, threadVars
<1>6. QED
  BY <1>1, <1>2, <1>3, <1>4, <1>5 DEF Ownership

LEMMA FlushVisitInv ==
    ASSUME Ownership, NEW m \in Msgs, FlushVisit(m), UNCHANGED threadVars
    PROVE  Ownership'
<1>1. TypeOK'
  BY QueueThreadType DEF Ownership, MsgQueueThread, QueueStep
<1>2. /\ m \in m_Messages
      /\ m_FreeMsgStack[m] = 0
  BY DEF Ownership, ScanSound, FlushVisit
<1>3. /\ \A x \in Msgs : Queued(x)' = Queued(x)
      /\ \A x \in Msgs, t \in Threads : WorksOn(t, x)' <=> WorksOn(t, x)
      /\ UNCHANGED <<JobsLeft, job>>
  BY DEF Queued, JobsLeft, WorksOn, FlushVisit, queues, threadVars
<1>4. OneHolder'
  BY <1>3 DEF Ownership, OneHolder, WorksOn, threadVars
<1>5. CASE FlushReturn(m)
  <2>1. MsgState[m] # "INUSE"
    BY <1>5 DEF FlushReturn, Reusable
  <2>2. OwnedInUse' /\ NoLostMessage'
    BY <1>3, <1>5, <2>1
       DEF Ownership, TypeOK, PoolTypeOK, OwnedInUse, NoLostMessage, FlushReturn, ReturnToPool,
           StateInPool
  <2>3. FreeInactive' /\ ActiveExists'
    BY <1>2, <1>5 DEF Ownership, TypeOK, PoolTypeOK, FreeInactive, ActiveExists, FlushReturn,
       ReturnToPool, StateInPool
  <2>4. ScanSound'
    BY <1>5 DEF Ownership, TypeOK, PoolTypeOK, ScanSound, FlushVisit, FlushReturn, ReturnToPool,
       GetNext
  <2>5. QED
    BY <1>1, <1>4, <2>2, <2>3, <2>4 DEF Ownership
<1>6. CASE FlushDelete(m)
  <2>1. MsgState[m] = "INACTIVE"
    BY <1>6 DEF FlushDelete, Deletable
  <2>2. OwnedInUse' /\ NoLostMessage'
    BY <1>3, <1>6, <2>1
       DEF Ownership, TypeOK, PoolTypeOK, OwnedInUse, NoLostMessage, FlushDelete, DeleteCurrent
  <2>3. FreeInactive' /\ ActiveExists'
    BY <1>2, <1>6 DEF Ownership, TypeOK, PoolTypeOK, FreeInactive, ActiveExists, FlushDelete,
       DeleteCurrent
  <2>4. ScanSound'
    BY <1>6 DEF Ownership, ScanSound, FlushVisit, FlushDelete, DeleteCurrent, GetNext
  <2>5. QED
    BY <1>1, <1>4, <2>2, <2>3, <2>4 DEF Ownership
<1>7. CASE FlushKeep(m)
  BY <1>1, <1>3, <1>4, <1>7
     DEF Ownership, OwnedInUse, FreeInactive, ActiveExists, ScanSound, NoLostMessage,
         FlushVisit, FlushKeep, GetNext, poolVars, msgVars
<1>8. QED
  BY <1>5, <1>6, <1>7 DEF FlushVisit

LEMMA BeginFlushInv ==
    ASSUME Ownership, BeginFlush, UNCHANGED threadVars
    PROVE  Ownership'
<1>1. TypeOK'
  BY QueueThreadType DEF Ownership, MsgQueueThread, QueueStep
<1>2. OwnedInUse' /\ OneHolder' /\ NoLostMessage'
  BY DEF Ownership, OwnedInUse, OneHolder, NoLostMessage, Queued, JobsLeft, WorksOn, BeginFlush,
     msgVars, queues, threadVars
<1>3. FreeInactive' /\ ActiveExists' /\ ScanSound'
  <2>1. \A x \in Msgs : m_FreeMsgStack'[x] = 0
    BY DEF BeginFlush, FlushFreeStack
  <2>2. UNCHANGED <<m_Messages, MsgState>> /\ todo' = m_Messages
    BY DEF BeginFlush, GetHead, msgVars
  <2>3. QED
    BY <2>1, <2>2 DEF Ownership, TypeOK, PoolTypeOK, FreeInactive, ActiveExists, ScanSound
<1>4. QED
  BY <1>1, <1>2, <1>3 DEF Ownership

LEMMA QueueThreadInv ==
    ASSUME Ownership, MsgQueueThread
    PROVE  Ownership'
<1>1. TypeOK'
  BY QueueThreadType DEF Ownership
<1>2. CASE QueueEmpty \/ SkipFlush \/ \E m \in Msgs : NullHandler(m)
  BY <1>1, <1>2
     DEF Ownership, OwnedInUse, OneHolder, FreeInactive, ActiveExists, ScanSound, NoLostMessage,
         Queued, JobsLeft, WorksOn, MsgQueueThread, QueueEmpty, SkipFlush, NullHandler, poolVars,
         msgVars, queues, threadVars
<1>3. QED
  BY <1>2, BeginPendingInv, BeginFlushInv, PendingVisitInv, ProcessInternalInv,
     ProcessInboundInv, ProcessOutboundInv, FlushVisitInv DEF MsgQueueThread, QueueStep

\* The other threads.  They leave the scan and its list of messages alone.

LEMMA CreateInv ==
    ASSUME Ownership, NEW t \in Threads, NEW fields \in MsgFields, Create(t, fields)
    PROVE  Ownership'
<1>1. TypeOK'
  BY CreateType DEF Ownership
<1>2. PICK m \in Msgs : /\ GetReusableMessage(m)
                        /\ MsgState' = [MsgState EXCEPT ![m] = "INUSE"]
                        /\ held' = [held EXCEPT ![t] = m]
  BY DEF Create, GetMessage
<1>3. (\A x \in Msgs : Queued(x)' = Queued(x)) /\ UNCHANGED <<JobsLeft, job>>
  BY DEF Queued, JobsLeft, Create, mqVars
<1>4. \A x \in Msgs, u \in Threads : WorksOn(u, x)' <=> WorksOn(u, x) \/ (u = t /\ x = m)
  BY <1>2, PoolAssumption DEF Ownership, TypeOK, WorksOn, Create
<1>5. OwnedInUse' /\ NoLostMessage'
  BY <1>2, <1>3, <1>4, GotMessage DEF Ownership, TypeOK, PoolTypeOK, OwnedInUse, NoLostMessage
<1>6. OneHolder'
  <2>1. \A x \in Msgs : \A u, v \in Threads :
          WorksOn(u, x)' /\ WorksOn(v, x)' => u = v
    BY <1>2, <1>4, GotMessage DEF Ownership, OneHolder
  <2>2. \A h \in Handlers : reply[h] # m
    BY <1>2, GotMessage, ThreadKinds DEF WorksOn
  <2>3. QED
    BY <1>2, <2>1, <2>2 DEF Ownership, TypeOK, OneHolder, Create
<1>7. FreeInactive' /\ ActiveExists' /\ ScanSound'
  BY <1>1, <1>2, GotMessage DEF Ownership, TypeOK, PoolTypeOK, FreeInactive, ActiveExists,
     ScanSound, Create, mqVars, PoolLocked
<1>8. QED
  BY <1>1, <1>5, <1>6, <1>7 DEF Ownership

\* A thread lets go of the message it holds, in a state other than in use.
LEMMA LetGo ==
    ASSUME Ownership, NEW t \in Threads, held[t] # NoMsg, NEW s \in MSG_STATE \ {"INUSE", "INACTIVE"},
           MsgState' = [MsgState EXCEPT ![held[t]] = s],
           held' = [held EXCEPT ![t] = NoMsg],
           UNCHANGED <<poolVars, mqVars, m_jobQueue, job, m_outbound_priority_queue, reply>>,
           TypeOK'
    PROVE  Ownership'
<1> DEFINE m == held[t]
<1>1. /\ m \in Msgs
      /\ WorksOn(t, m)
      /\ MsgState[m] = "INUSE"
  BY DEF Ownership, TypeOK, WorksOn, OwnedInUse
<1>2. (\A x \in Msgs : Queued(x)' = Queued(x)) /\ UNCHANGED <<JobsLeft, job>>
  BY DEF Queued, JobsLeft, mqVars
<1>3. \A x \in Msgs, u \in Threads : WorksOn(u, x)' <=> WorksOn(u, x) /\ x # m
  <2>1. \A u \in Threads : WorksOn(u, m) => u = t
    BY <1>1 DEF Ownership, OneHolder
  <2>2. t \in Handlers => reply[t] # m
    BY <1>1 DEF Ownership, OneHolder
  <2>3. QED
    BY <1>1, <2>1, <2>2, PoolAssumption DEF Ownership, TypeOK, WorksOn
<1>4. OwnedInUse' /\ NoLostMessage'
  BY <1>1, <1>2, <1>3 DEF Ownership, TypeOK, PoolTypeOK, OwnedInUse, NoLostMessage
<1>5. OneHolder'
  BY <1>3, PoolAssumption DEF Ownership, TypeOK, OneHolder
<1>6. FreeInactive' /\ ActiveExists' /\ ScanSound'
  BY <1>1 DEF Ownership, TypeOK, PoolTypeOK, FreeInactive, ActiveExists, ScanSound, poolVars, mqVars
<1>7. QED
  BY <1>4, <1>5, <1>6 DEF Ownership

LEMMA DispatchInv ==
    ASSUME Ownership, NEW t \in Threads, NEW fields, Dispatch(t, fields), TypeOK'
    PROVE  Ownership'
BY LetGo DEF Dispatch, MSG_STATE

LEMMA UDPServerInv ==
    ASSUME Ownership, NEW u \in UDPServers, UDPServerThread(u)
    PROVE  Ownership'
<1>1. TypeOK'
  BY UDPServerType DEF Ownership
<1>2. CASE UDPCreate(u)
  BY <1>2, ThreadKinds, ResetMsgType, CreateInv DEF UDPCreate
<1>3. CASE UDPDiscard(u)
  BY <1>1, <1>3, ThreadKinds, LetGo DEF UDPDiscard, MSG_STATE
<1>4. CASE UDPDispatch(u)
  BY <1>1, <1>4, ThreadKinds, DispatchInv DEF UDPDispatch, DispatchParsed
<1>5. CASE UDPAfterDispatch(u)
  BY <1>1, <1>5 DEF Ownership, OwnedInUse, OneHolder, FreeInactive, ActiveExists, ScanSound,
     NoLostMessage, Queued, JobsLeft, WorksOn, UDPAfterDispatch, poolVars, mqVars
<1>6. QED
  BY <1>2, <1>3, <1>4, <1>5 DEF UDPServerThread

LEMMA AppInv ==
    ASSUME Ownership, NEW a \in Apps, AppThread(a)
    PROVE  Ownership'
<1>1. TypeOK'
  BY AppType DEF Ownership
<1>2. CASE AppCreate(a)
  <2>1. PICK fields \in MsgFields : Create(a, fields)
    BY <1>2, AppFieldsType DEF AppCreate
  <2>2. QED
    BY <2>1, ThreadKinds, CreateInv
<1>3. CASE AppDispatch(a)
  BY <1>1, <1>3, ThreadKinds, DispatchInv DEF AppDispatch
<1>4. QED
  BY <1>2, <1>3 DEF AppThread

LEMMA TakeJobInv ==
    ASSUME Ownership, NEW m \in Msgs, TakeJob(m)
    PROVE  Ownership'
<1>1. TypeOK'
  BY TakeJobType DEF Ownership
<1>2. /\ MsgState[m] = "INUSE"
      /\ \A t \in Threads : ~WorksOn(t, m)
      /\ Queued(m)' = 0 /\ JobsLeft'[m] = 0 /\ job' = m
      /\ \A x \in Msgs \ {m} : Queued(x)' = Queued(x)
  <2>1. /\ m_priority_queue[m] \in Nat
        /\ JobsLeft[m] \in Nat
        /\ m_outbound_priority_queue[m] \in Nat
        /\ JobsLeft[m] > 0
    BY JobsLeftType, JobsLeftAfter DEF Ownership, TypeOK, QueueTypeOK, IsTop
  <2>2. Queued(m) <= 1 /\ Queued(m) > 0
    BY <2>1 DEF Ownership, OwnedInUse, Queued
  <2>3. /\ m_priority_queue[m] = 0
        /\ JobsLeft[m] = 1
        /\ m_outbound_priority_queue[m] = 0
    BY <2>1, <2>2 DEF Queued
  <2>4. /\ JobsLeft' = [JobsLeft EXCEPT ![m] = @ - 1]
        /\ UNCHANGED <<m_priority_queue, m_outbound_priority_queue>>
        /\ job' = m
    BY JobsLeftAfter DEF Ownership, TakeJob, Pop, mqVars
  <2>5. JobsLeft'[m] = 0 /\ \A x \in Msgs \ {m} : JobsLeft'[x] = JobsLeft[x]
    BY <2>3, <2>4, JobsLeftType DEF Ownership
  <2>6. QED
    BY <2>2, <2>3, <2>4, <2>5 DEF Ownership, OwnedInUse, Queued
<1>3. CASE \E h \in Handlers : /\ held[h] = NoMsg
                               /\ held' = [held EXCEPT ![h] = m]
                               /\ UNCHANGED MsgState
  <2>1. PICK h \in Handlers : /\ held[h] = NoMsg
                              /\ held' = [held EXCEPT ![h] = m]
                              /\ UNCHANGED MsgState
    BY <1>3
  <2>2. \A x \in Msgs, u \in Threads :
          WorksOn(u, x)' <=> WorksOn(u, x) \/ (u = h /\ x = m)
    BY <2>1, PoolAssumption, ThreadKinds DEF Ownership, TypeOK, WorksOn, TakeJob, OnProcess
  <2>3. OwnedInUse' /\ NoLostMessage'
    BY <1>2, <2>1, <2>2, ThreadKinds DEF Ownership, OwnedInUse, NoLostMessage
  <2>4. OneHolder'
    <3>1. \A x \in Msgs : \A u, v \in Threads :
            WorksOn(u, x)' /\ WorksOn(v, x)' => u = v
      BY <1>2, <2>2 DEF Ownership, OneHolder
    <3>2. reply[h] # m
      BY <1>2, ThreadKinds DEF WorksOn
    <3>3. QED
      BY <2>1, <3>1, <3>2 DEF Ownership, TypeOK, OneHolder, TakeJob, OnProcess
  <2>5. FreeInactive' /\ ActiveExists' /\ ScanSound'
    BY <2>1 DEF Ownership, FreeInactive, ActiveExists, ScanSound, TakeJob, OnProcess, poolVars, mqVars
  <2>6. QED
    BY <1>1, <2>3, <2>4, <2>5 DEF Ownership
<1>4. CASE MsgState' = [MsgState EXCEPT ![m] = StateWhenBusy(@)] /\ UNCHANGED held
  <2>1. \A x \in Msgs, u \in Threads : WorksOn(u, x)' <=> WorksOn(u, x)
    BY <1>4 DEF WorksOn, TakeJob, OnProcess
  <2>2. OwnedInUse' /\ NoLostMessage'
    BY <1>2, <1>4, <2>1
       DEF Ownership, TypeOK, PoolTypeOK, OwnedInUse, NoLostMessage, StateWhenBusy
  <2>3. OneHolder'
    BY <1>4 DEF Ownership, OneHolder, WorksOn, TakeJob, OnProcess
  <2>4. FreeInactive' /\ ActiveExists' /\ ScanSound'
    BY <1>2, <1>4 DEF Ownership, TypeOK, PoolTypeOK, FreeInactive, ActiveExists, ScanSound,
       StateWhenBusy, TakeJob, OnProcess, poolVars, mqVars
  <2>5. QED
    BY <1>1, <2>2, <2>3, <2>4 DEF Ownership
<1>5. QED
  BY <1>3, <1>4 DEF TakeJob, OnProcess

\* Popping the job that was given away takes it from nobody.
LEMMA PopJobInv ==
    ASSUME Ownership, PopJob
    PROVE  Ownership'
<1>1. TypeOK'
  BY PopJobType DEF Ownership
<1>2. UNCHANGED <<m_priority_queue, JobsLeft, m_outbound_priority_queue>> /\ job' = NoMsg
  BY JobsLeftAfter DEF Ownership, PopJob, mqVars
<1>3. \A x \in Msgs : Queued(x)' = Queued(x)
  BY <1>2 DEF Queued
<1>4. \A x \in Msgs, t \in Threads : WorksOn(t, x)' <=> WorksOn(t, x)
  BY DEF WorksOn, PopJob, threadVars
<1>5. OwnedInUse' /\ NoLostMessage'
  BY <1>2, <1>3, <1>4, PoolAssumption DEF Ownership, OwnedInUse, NoLostMessage, PopJob, msgVars
<1>6. OneHolder'
  BY <1>4 DEF Ownership, OneHolder, PopJob, threadVars
<1>7. FreeInactive' /\ ActiveExists' /\ ScanSound'
  BY DEF Ownership, FreeInactive, ActiveExists, ScanSound, PopJob, poolVars, msgVars, mqVars
<1>8. QED
  BY <1>1, <1>5, <1>6, <1>7 DEF Ownership

LEMMA HandlerInv ==
    ASSUME Ownership, NEW h \in Handlers, HandlerThread(h)
    PROVE  Ownership'
<1>1. TypeOK'
  BY HandlerType DEF Ownership
<1>2. (\A x \in Msgs : Queued(x)' = Queued(x)) /\ UNCHANGED <<JobsLeft, job>>
  BY DEF Queued, JobsLeft, HandlerThread, CreateMessageReply, DispatchReply, MarkProcessed,
     StateProcessed, mqVars
<1>3. CASE CreateMessageReply(h)
  <2>1. PICK p \in Msgs : /\ GetReusableMessage(p)
                          /\ MsgState' = [MsgState EXCEPT ![p] = "INUSE"]
                          /\ reply' = [reply EXCEPT ![h] = p]
    BY <1>3 DEF CreateMessageReply, GetMessage
  <2>2. \A x \in Msgs, u \in Threads : WorksOn(u, x)' <=> WorksOn(u, x) \/ (u = h /\ x = p)
    BY <1>3, <2>1, PoolAssumption, ThreadKinds DEF Ownership, TypeOK, WorksOn, CreateMessageReply
  <2>3. OwnedInUse' /\ NoLostMessage'
    BY <1>2, <2>1, <2>2, GotMessage, ThreadKinds
       DEF Ownership, TypeOK, PoolTypeOK, OwnedInUse, NoLostMessage
  <2>4. OneHolder'
    <3>1. \A x \in Msgs : \A u, v \in Threads :
            WorksOn(u, x)' /\ WorksOn(v, x)' => u = v
      BY <2>1, <2>2, GotMessage DEF Ownership, OneHolder
    <3>2. held[h] # p
      BY <2>1, GotMessage, ThreadKinds DEF WorksOn
    <3>3. QED
      BY <1>3, <2>1, <3>1, <3>2 DEF Ownership, TypeOK, OneHolder, CreateMessageReply
  <2>5. FreeInactive' /\ ActiveExists' /\ ScanSound'
    BY <1>1, <1>3, <2>1, GotMessage DEF Ownership, TypeOK, PoolTypeOK, FreeInactive,
       ActiveExists, ScanSound, CreateMessageReply, mqVars, PoolLocked
  <2>6. QED
    BY <1>1, <2>3, <2>4, <2>5 DEF Ownership
<1>4. CASE DispatchReply(h)
  <2>0. PICK p \in Msgs : p = reply[h]
    BY <1>4 DEF Ownership, TypeOK, DispatchReply
  <2>1. p = reply[h] /\ WorksOn(h, p) /\ MsgState[p] = "INUSE"
    BY <2>0, ThreadKinds DEF Ownership, WorksOn, OwnedInUse
  <2>2. \A x \in Msgs, u \in Threads : WorksOn(u, x)' <=> WorksOn(u, x) /\ x # p
    <3>1. \A u \in Threads : WorksOn(u, p) => u = h
      BY <2>1, ThreadKinds DEF Ownership, OneHolder
    <3>2. held[h] # p
      BY <2>1 DEF Ownership, OneHolder
    <3>3. /\ held' = held
          /\ \A g \in Handlers : reply'[g] = IF g = h THEN NoMsg ELSE reply[g]
      BY <1>4 DEF Ownership, TypeOK, DispatchReply
    <3>4. QED
      <4> SUFFICES ASSUME NEW x \in Msgs, NEW u \in Threads
                   PROVE  WorksOn(u, x)' <=> WorksOn(u, x) /\ x # p
        OBVIOUS
      <4>1. CASE u = h
        BY <2>1, <3>2, <3>3, <4>1, PoolAssumption DEF WorksOn
      <4>2. CASE u # h
        BY <2>1, <3>1, <3>3, <4>2 DEF WorksOn
      <4>3. QED
        BY <4>1, <4>2
  <2>3. OwnedInUse' /\ NoLostMessage'
    <3>1. MsgState' = [MsgState EXCEPT ![p] = "PENDING"]
      BY <1>4, <2>1 DEF DispatchReply
    <3>2. QED
      BY <1>2, <2>1, <2>2, <3>1, ThreadKinds
         DEF Ownership, TypeOK, PoolTypeOK, OwnedInUse, NoLostMessage
  <2>4. OneHolder'
    BY <1>4, <2>2, PoolAssumption DEF Ownership, TypeOK, OneHolder, DispatchReply
  <2>5. FreeInactive' /\ ActiveExists' /\ ScanSound'
    BY <1>4, <2>1 DEF Ownership, TypeOK, PoolTypeOK, FreeInactive, ActiveExists, ScanSound,
       DispatchReply, poolVars, mqVars
  <2>6. QED
    BY <1>1, <2>3, <2>4, <2>5 DEF Ownership
<1>5. CASE MarkProcessed(h)
  <2>1. CASE held[h] # NoMsg
    BY <1>1, <1>5, <2>1, ThreadKinds, LetGo DEF MarkProcessed, StateProcessed, MSG_STATE
  <2>2. CASE held[h] = NoMsg
    <3>1. UNCHANGED <<MsgState, held>>
      BY <1>5, <2>2, ThreadKinds, PoolAssumption DEF Ownership, TypeOK, PoolTypeOK, MarkProcessed, StateProcessed
    <3>2. QED
      BY <1>1, <1>2, <1>5, <3>1 DEF Ownership, OwnedInUse, OneHolder, FreeInactive,
         ActiveExists, ScanSound, NoLostMessage, WorksOn, MarkProcessed, StateProcessed, poolVars, mqVars
  <2>3. QED
    BY <2>1, <2>2
<1>6. QED
  BY <1>3, <1>4, <1>5 DEF HandlerThread

LEMMA ConnectionQueueInv ==
    ASSUME Ownership, ConnectionQueueThread
    PROVE  Ownership'
<1>1. TypeOK'
  BY ConnectionQueueType DEF Ownership
<1>2. CASE CQBegin \/ CQOutbound \/ AfterTransmit
  BY <1>1, <1>2
     DEF Ownership, OwnedInUse, OneHolder, FreeInactive, ActiveExists, ScanSound, NoLostMessage,
         Queued, JobsLeft, WorksOn, CQBegin, CQOutbound, AfterTransmit, poolVars, msgVars,
         mqVars, threadVars
<1>3. CASE TCPCreate
  <2>1. [ResetMsg EXCEPT !.TCPSocketHandle = TRUE, !.MsgConnectionType = "IB_TCP"] \in MsgFields
    BY TCPFieldsType
  <2>2. QED
    BY <1>3, <2>1, ThreadKinds, CreateInv DEF TCPCreate
<1>4. CASE TCPDispatch
  BY <1>1, <1>4, ThreadKinds, DispatchInv DEF TCPDispatch, DispatchParsed
<1>5. ASSUME NEW m \in Msgs, Transmit(m)
      PROVE  Ownership'
  <2>1. PICK s \in {"DELIVERED", "UNDELIVERED"} : MsgState' = [MsgState EXCEPT ![m] = s]
    BY <1>5 DEF Transmit, TransmitMsg
  <2>2. /\ MsgState[m] = "INUSE"
        /\ \A t \in Threads : ~WorksOn(t, m)
        /\ Queued(m)' = 0
        /\ \A x \in Msgs \ {m} : Queued(x)' = Queued(x)
        /\ UNCHANGED <<JobsLeft, job>>
    <3>1. /\ m_priority_queue[m] \in Nat
          /\ JobsLeft[m] \in Nat
          /\ m_outbound_priority_queue[m] \in Nat
          /\ m_outbound_priority_queue[m] > 0
          /\ UNCHANGED <<m_priority_queue, JobsLeft, job>>
      BY <1>5, JobsLeftType, JobsLeftAfter DEF Ownership, TypeOK, QueueTypeOK, Transmit, IsTop, mqVars
    <3>2. Queued(m) <= 1 /\ Queued(m) > 0
      BY <3>1 DEF Ownership, OwnedInUse, Queued
    <3>3. /\ m_priority_queue[m] = 0
          /\ JobsLeft[m] = 0
          /\ m_outbound_priority_queue[m] = 1
      BY <3>1, <3>2 DEF Queued
    <3>4. QED
      BY <1>5, <3>1, <3>2, <3>3 DEF Ownership, TypeOK, QueueTypeOK, OwnedInUse, Queued, Transmit,
         Pop
  <2>3. \A x \in Msgs, u \in Threads : WorksOn(u, x)' <=> WorksOn(u, x)
    BY <1>5 DEF WorksOn, Transmit
  <2>4. OwnedInUse' /\ NoLostMessage'
    BY <2>1, <2>2, <2>3 DEF Ownership, TypeOK, PoolTypeOK, OwnedInUse, NoLostMessage
  <2>5. OneHolder'
    BY <1>5 DEF Ownership, OneHolder, WorksOn, Transmit
  <2>6. FreeInactive' /\ ActiveExists' /\ ScanSound'
    BY <1>5, <2>1, <2>2 DEF Ownership, TypeOK, PoolTypeOK, FreeInactive, ActiveExists, ScanSound,
       Transmit, poolVars, mqVars
  <2>7. QED
    BY <1>1, <2>4, <2>5, <2>6 DEF Ownership
<1>6. QED
  BY <1>2, <1>3, <1>4, <1>5 DEF ConnectionQueueThread

\* Whatever the threads do, every message in use has exactly one owner and every
\* message on the free stack has none.
THEOREM OwnershipHolds == Spec => []Ownership
<1>1. Init => Ownership
  <2> SUFFICES ASSUME Init
               PROVE  Ownership
    OBVIOUS
  <2>1. TypeOK
    BY PoolAssumption, ResetMsgType
       DEF Init, InitPool, InitQueue, TypeOK, PoolTypeOK, QueueTypeOK, MSG_STATE
  <2>2. \A m \in Msgs : Queued(m) = 0 /\ \A t \in Threads : ~WorksOn(t, m)
    <3>1. ASSUME NEW m \in Msgs
          PROVE  Queued(m) = 0
      BY DEF Init, InitQueue, Queued, JobsLeft
    <3>2. ASSUME NEW m \in Msgs, NEW t \in Threads
          PROVE  ~WorksOn(t, m)
      BY PoolAssumption DEF Init, WorksOn
    <3>3. QED
      BY <3>1, <3>2
  <2>3. OwnedInUse /\ OneHolder
    BY <2>2, PoolAssumption DEF OwnedInUse, OneHolder, Init, InitQueue
  <2>4. FreeInactive /\ ActiveExists /\ ScanSound /\ NoLostMessage
    BY DEF FreeInactive, ActiveExists, ScanSound, NoLostMessage, Init, InitPool, InitQueue
  <2>5. QED
    BY <2>1, <2>3, <2>4 DEF Ownership
<1>2. Ownership /\ [Next]_vars => Ownership'
  <2> SUFFICES ASSUME Ownership, [Next]_vars
               PROVE  Ownership'
    OBVIOUS
  <2>1. CASE Running
    BY <2>1, QueueThreadInv, ConnectionQueueInv, UDPServerInv, AppInv, TakeJobInv, PopJobInv, HandlerInv
       DEF Running
  <2>2. CASE UNCHANGED vars
    <3>1. TypeOK'
      BY <2>2 DEF Ownership, TypeOK, PoolTypeOK, QueueTypeOK, vars, poolVars, msgVars, mqVars,
         threadVars
    <3>2. QED
      BY <2>2, <3>1 DEF Ownership, OwnedInUse, OneHolder, FreeInactive, ActiveExists, ScanSound,
         NoLostMessage, Queued, JobsLeft, WorksOn, vars, poolVars, msgVars, mqVars, threadVars
  <2>3. QED
    BY <2>1, <2>2 DEF Next, Dead
<1>3. QED
  BY <1>1, <1>2, PTL DEF Spec

\* A message object has one owner at a time, however the threads interleave.
THEOREM OneOwner == Spec => []SoleOwner
<1>1. Ownership => SoleOwner
  <2> SUFFICES ASSUME Ownership
               PROVE  \A m \in Msgs : m_jobQueue[m] <= 1
    BY DEF Ownership, OwnedInUse, OneHolder, SoleOwner
  <2> TAKE m \in Msgs
  <2>1. JobsLeft[m] <= 1
    BY JobsLeftType DEF Ownership, TypeOK, QueueTypeOK, OwnedInUse, Queued
  <2>2. CASE job # m
    BY <2>1, <2>2 DEF Ownership, TypeOK, QueueTypeOK, JobsLeft, Pop
  <2>3. CASE job = m
    <3>1. JobsLeft[m] = 0 /\ m # NoMsg
      BY <2>3, PoolAssumption DEF Ownership, OwnedInUse
    <3>2. JobsLeft[m] = m_jobQueue[m] - 1
      BY <2>3, <3>1 DEF Ownership, TypeOK, QueueTypeOK, JobsLeft, Pop
    <3>3. QED
      BY <3>1, <3>2 DEF Ownership, TypeOK, QueueTypeOK
  <2>4. QED
    BY <2>2, <2>3
<1>2. QED
  BY <1>1, OwnershipHolds, PTL

\* Whatever the pool hands out is nobody else's.
THEOREM PoolHandsOutFreeMessages == Spec => []FreeStackSound
<1>1. Ownership => FreeStackSound
  <2> SUFFICES ASSUME Ownership, NEW m \in Msgs, m_FreeMsgStack[m] > 0
               PROVE  /\ m_FreeMsgStack[m] = 1
                      /\ m \in m_Messages
                      /\ MsgState[m] = "INACTIVE"
                      /\ Queued(m) = 0
                      /\ \A t \in Threads : ~WorksOn(t, m)
    BY DEF FreeStackSound
  <2>1. MsgState[m] = "INACTIVE" /\ m \in m_Messages /\ m_FreeMsgStack[m] = 1
    BY DEF Ownership, TypeOK, PoolTypeOK, FreeInactive
  <2>2. QED
    BY <2>1, NotInUse
<1>2. QED
  BY <1>1, OwnershipHolds, PTL

\* The flush deletes only objects nothing refers to any more.
THEOREM NothingDangles == Spec => []NoDanglingRef
<1>1. Ownership => NoDanglingRef
  <2> SUFFICES ASSUME Ownership, NEW m \in Msgs \ m_Messages
               PROVE  /\ Queued(m) = 0
                      /\ m_FreeMsgStack[m] = 0
                      /\ \A t \in Threads : ~WorksOn(t, m)
    BY DEF NoDanglingRef
  <2>1. MsgState[m] # "INUSE"
    BY DEF Ownership, ActiveExists
  <2>2. m_FreeMsgStack[m] = 0
    BY DEF Ownership, TypeOK, PoolTypeOK, FreeInactive
  <2>3. QED
    BY <2>1, <2>2, NotInUse
<1>2. QED
  BY <1>1, OwnershipHolds, PTL

\* No message in use is ever forgotten: some queue or some thread has it.
THEOREM NothingLost == Spec => []NoLostMessage
<1>1. Ownership => NoLostMessage
  BY DEF Ownership
<1>2. QED
  BY <1>1, OwnershipHolds, PTL

-----------------------------------------------------------------------------
\* Every step moves every message along its lifecycle

\* The one message a step may move is m.
LEMMA OneMoves ==
    ASSUME TypeOK, NEW m \in Msgs, NEW s,
           MsgState' = [MsgState EXCEPT ![m] = s],
           s = MsgState[m] \/ s \in Successors(MsgState[m])
    PROVE  FollowsLifecycle
BY DEF TypeOK, PoolTypeOK, FollowsLifecycle

LEMMA QueueThreadLifecycle ==
    ASSUME Ownership, MsgQueueThread
    PROVE  FollowsLifecycle
<1>1. TypeOK
  BY DEF Ownership
<1>2. CASE UNCHANGED MsgState
  BY <1>2 DEF FollowsLifecycle
<1>3. ASSUME NEW m \in Msgs, PendingVisit(m)
      PROVE  FollowsLifecycle
  BY <1>1, <1>2, <1>3, OneMoves
     DEF PendingVisit, EnqueuePending, DropUndelivered, Retry, AwaitRetry, PassOver,
         QueuedState, Successors
<1>4. ASSUME NEW m \in Msgs, ProcessInternalMessage(m)
      PROVE  FollowsLifecycle
  <2>1. MsgState[m] = "INUSE"
    BY <1>4, TakeTopOwner DEF ProcessInternalMessage
  <2>2. QED
    BY <1>1, <1>2, <1>4, <2>1, OneMoves DEF ProcessInternalMessage, Successors
<1>5. ASSUME NEW m \in Msgs, ProcessInboundMessage(m)
      PROVE  FollowsLifecycle
  <2>1. ASSUME NEW n \in Msgs, PostNotifyMessage(n, m)
        PROVE  FollowsLifecycle
    <3>1. MsgState[n] = "INACTIVE"
      BY <2>1, GotMessage DEF PostNotifyMessage
    <3>2. QED
      BY <1>1, <2>1, <3>1, OneMoves DEF PostNotifyMessage, Successors
  <2>2. QED
    BY <1>2, <1>5, <2>1 DEF ProcessInboundMessage, msgVars
<1>6. ASSUME NEW m \in Msgs, ProcessOutboundMessage(m)
      PROVE  FollowsLifecycle
  <2>1. MsgState[m] = "INUSE"
    BY <1>6, TakeTopOwner DEF ProcessOutboundMessage
  <2>2. QED
    BY <1>1, <1>2, <1>6, <2>1, OneMoves DEF ProcessOutboundMessage, Successors
<1>7. ASSUME NEW m \in Msgs, FlushVisit(m)
      PROVE  FollowsLifecycle
  BY <1>1, <1>2, <1>7, OneMoves
     DEF FlushVisit, FlushReturn, ReturnToPool, StateInPool, Reusable, FlushDelete, Deletable,
         DeleteCurrent, FlushKeep, msgVars, Successors
<1>8. CASE BeginPending \/ QueueEmpty \/ SkipFlush \/ BeginFlush \/ \E m \in Msgs : NullHandler(m)
  BY <1>2, <1>8 DEF BeginPending, QueueEmpty, SkipFlush, BeginFlush, NullHandler, msgVars
<1>9. QED
  BY <1>3, <1>4, <1>5, <1>6, <1>7, <1>8 DEF MsgQueueThread, QueueStep

LEMMA HeldInUse ==
    ASSUME Ownership, NEW t \in Threads, held[t] # NoMsg
    PROVE  held[t] \in Msgs /\ MsgState[held[t]] = "INUSE"
BY DEF Ownership, TypeOK, OwnedInUse, WorksOn

LEMMA ProducersLifecycle ==
    ASSUME Ownership, NEW t \in Threads, NEW fields,
           Create(t, fields) \/ Dispatch(t, fields)
    PROVE  FollowsLifecycle
<1>1. TypeOK
  BY DEF Ownership
<1>2. CASE Create(t, fields)
  <2>1. PICK m \in Msgs : GetReusableMessage(m) /\ MsgState' = [MsgState EXCEPT ![m] = "INUSE"]
    BY <1>2 DEF Create, GetMessage
  <2>2. QED
    BY <1>1, <2>1, GotMessage, OneMoves DEF Successors
<1>3. CASE Dispatch(t, fields)
  BY <1>1, <1>3, HeldInUse, OneMoves DEF Dispatch, Successors
<1>4. QED
  BY <1>2, <1>3

LEMMA OthersLifecycle ==
    ASSUME Ownership,
           \/ ConnectionQueueThread
           \/ \E u \in UDPServers : UDPServerThread(u)
           \/ \E a \in Apps : AppThread(a)
           \/ (\E m \in Msgs : TakeJob(m)) \/ PopJob
           \/ \E h \in Handlers : HandlerThread(h)
    PROVE  FollowsLifecycle
<1>1. TypeOK
  BY DEF Ownership
<1>2. CASE UNCHANGED MsgState
  BY <1>2 DEF FollowsLifecycle
<1>3. CASE ConnectionQueueThread
  <2>1. CASE CQBegin \/ CQOutbound \/ AfterTransmit
    BY <1>2, <2>1 DEF CQBegin, CQOutbound, AfterTransmit, msgVars
  <2>2. CASE TCPCreate \/ TCPDispatch
    BY <2>2, ThreadKinds, ProducersLifecycle DEF TCPCreate, TCPDispatch, DispatchParsed
  <2>3. ASSUME NEW m \in Msgs, Transmit(m)
        PROVE  FollowsLifecycle
    <3>1. PICK s \in {"DELIVERED", "UNDELIVERED"} : MsgState' = [MsgState EXCEPT ![m] = s]
      BY <2>3 DEF Transmit, TransmitMsg
    <3>2. MsgState[m] = "INUSE"
      <4>1. Queued(m) > 0
        BY <2>3, JobsLeftType DEF Ownership, TypeOK, QueueTypeOK, Queued, Transmit, IsTop
      <4>2. QED
        BY <4>1 DEF Ownership, OwnedInUse
    <3>3. QED
      BY <1>1, <3>1, <3>2, OneMoves DEF Successors
  <2>4. QED
    BY <1>3, <2>1, <2>2, <2>3 DEF ConnectionQueueThread
<1>4. ASSUME NEW u \in UDPServers, UDPServerThread(u)
      PROVE  FollowsLifecycle
  <2>1. CASE UDPCreate(u) \/ UDPDispatch(u)
    BY <2>1, ThreadKinds, ProducersLifecycle DEF UDPCreate, UDPDispatch, DispatchParsed
  <2>2. CASE UDPDiscard(u)
    BY <1>1, <2>2, ThreadKinds, HeldInUse, OneMoves DEF UDPDiscard, Successors
  <2>3. CASE UDPAfterDispatch(u)
    BY <1>2, <2>3 DEF UDPAfterDispatch
  <2>4. QED
    BY <1>4, <2>1, <2>2, <2>3 DEF UDPServerThread
<1>5. ASSUME NEW a \in Apps, AppThread(a)
      PROVE  FollowsLifecycle
  BY <1>5, ThreadKinds, ProducersLifecycle DEF AppThread, AppCreate, AppDispatch
<1>6. ASSUME NEW m \in Msgs, TakeJob(m)
      PROVE  FollowsLifecycle
  <2>1. MsgState[m] = "INUSE"
    <3>1. Queued(m) > 0
      BY <1>6, JobsLeftType, JobsLeftAfter DEF Ownership, TypeOK, QueueTypeOK, Queued, IsTop
    <3>2. QED
      BY <3>1 DEF Ownership, OwnedInUse
  <2>2. QED
    BY <1>1, <1>2, <1>6, <2>1, OneMoves DEF TakeJob, OnProcess, StateWhenBusy, Successors
<1>7. ASSUME NEW h \in Handlers, HandlerThread(h)
      PROVE  FollowsLifecycle
  <2>1. CASE CreateMessageReply(h)
    <3>1. PICK p \in Msgs : /\ GetReusableMessage(p)
                            /\ MsgState' = [MsgState EXCEPT ![p] = "INUSE"]
      BY <2>1 DEF CreateMessageReply, GetMessage
    <3>2. QED
      BY <1>1, <3>1, GotMessage, OneMoves DEF Successors
  <2>2. CASE DispatchReply(h)
    <3>1. reply[h] \in Msgs /\ MsgState[reply[h]] = "INUSE"
      BY <2>2, ThreadKinds DEF Ownership, TypeOK, OwnedInUse, WorksOn, DispatchReply
    <3>2. QED
      BY <1>1, <2>2, <3>1, OneMoves DEF DispatchReply, Successors
  <2>3. CASE MarkProcessed(h)
    <3>1. CASE held[h] = NoMsg
      BY <1>1, <1>2, <2>3, <3>1, PoolAssumption DEF TypeOK, PoolTypeOK, MarkProcessed, StateProcessed
    <3>2. CASE held[h] # NoMsg
      BY <1>1, <2>3, <3>2, ThreadKinds, HeldInUse, OneMoves DEF MarkProcessed, StateProcessed, Successors
    <3>3. QED
      BY <3>1, <3>2
  <2>4. QED
    BY <1>7, <2>1, <2>2, <2>3 DEF HandlerThread
<1>8. CASE PopJob
  BY <1>2, <1>8 DEF PopJob, msgVars
<1>9. QED
  BY <1>3, <1>4, <1>5, <1>6, <1>7, <1>8

\* No thread changes the state of a message under another thread's hands.
THEOREM StatesInOrder == Spec => Lifecycle
<1>1. Ownership /\ [Next]_vars => [FollowsLifecycle]_vars
  BY QueueThreadLifecycle, OthersLifecycle DEF Next, Running, Dead
<1>2. QED
  BY <1>1, OwnershipHolds, PTL DEF Spec, Lifecycle

-----------------------------------------------------------------------------
\* Exchanges: the rest of IInv

\* What tells the messages of an exchange apart.
Face(m) == <<msg[m].MsgID, DispatchedType(msg[m].MsgConnectionType),
             msg[m].MsgPriority, msg[m].MsgReplyAction>>

\* The step makes m no active message, and leaves it its face if it is one.
Quiet(m) == Active(m)' => Active(m) /\ Face(m)' = Face(m)

Exchanges ==
    /\ OneRequest
    /\ JobsAreRequests
    /\ RepliedOnce
    /\ NotifyKind
    /\ NotifyAhead

LEMMA QuietKinds ==
    ASSUME NEW m \in Msgs, Quiet(m), Active(m)'
    PROVE  /\ Active(m)
           /\ msg'[m].MsgID = msg[m].MsgID
           /\ IsInbound(m)' = IsInbound(m)
           /\ IsOutbound(m)' = IsOutbound(m)
           /\ IsNotify(m)' = IsNotify(m)
           /\ IsReply(m)' = IsReply(m)
           /\ msg'[m].MsgReplyAction = msg[m].MsgReplyAction
           /\ msg'[m].MsgPriority = msg[m].MsgPriority
<1>1. /\ Active(m)
      /\ msg'[m].MsgID = msg[m].MsgID
      /\ DispatchedType(msg'[m].MsgConnectionType) = DispatchedType(msg[m].MsgConnectionType)
      /\ msg'[m].MsgPriority = msg[m].MsgPriority
      /\ msg'[m].MsgReplyAction = msg[m].MsgReplyAction
  BY DEF Quiet, Face
<1>2. QED
  BY <1>1 DEF IsInbound, IsOutbound, IsNotify, IsReply, DispatchedType

LEMMA QuietExchange ==
    ASSUME \A m \in Msgs : Quiet(m), NEW p \in Msgs, NEW q \in Msgs, SameExchange(p, q)'
    PROVE  /\ SameExchange(p, q)
           /\ Active(p)' /\ Active(q)'
BY QuietKinds DEF SameExchange

\* Threads that are at work on a message have it in use.
LEMMA WorkedOnActive ==
    ASSUME Ownership, NEW m \in Msgs, NEW t \in Threads, WorksOn(t, m)
    PROVE  Active(m) /\ MsgState[m] = "INUSE" /\ Queued(m) = 0
BY DEF Ownership, OwnedInUse, Active

LEMMA QueuedActive ==
    ASSUME Ownership, NEW m \in Msgs,
           \/ m_priority_queue[m] > 0
           \/ JobsLeft[m] > 0
           \/ m_outbound_priority_queue[m] > 0
    PROVE  Active(m) /\ MsgState[m] = "INUSE" /\ \A t \in Threads : ~WorksOn(t, m)
<1>1. Queued(m) > 0
  BY JobsLeftType DEF Ownership, TypeOK, QueueTypeOK, Queued
<1>2. MsgState[m] = "INUSE" /\ \A t \in Threads : ~WorksOn(t, m)
  BY <1>1 DEF Ownership, OwnedInUse
<1>3. QED
  BY <1>2 DEF Active

LEMMA EmptyQueues ==
    ASSUME TypeOK, NEW m \in Msgs, Queued(m) = 0
    PROVE  /\ m_priority_queue[m] = 0
           /\ JobsLeft[m] = 0
           /\ m_outbound_priority_queue[m] = 0
<1>1. /\ m_priority_queue[m] \in Nat /\ JobsLeft[m] \in Nat
      /\ m_outbound_priority_queue[m] \in Nat
  BY JobsLeftType DEF TypeOK, QueueTypeOK
<1>2. m_priority_queue[m] + JobsLeft[m] + m_outbound_priority_queue[m] = 0
  BY DEF Queued
<1>3. \A a, b, c \in Nat : a + b + c = 0 => a = 0 /\ b = 0 /\ c = 0
  OBVIOUS
<1>4. QED
  BY <1>1, <1>2, <1>3

LEMMA QuietOneRequest ==
    ASSUME OneRequest, \A m \in Msgs : Quiet(m), produced' = produced,
           \A t \in Servers \cup Apps : held'[t] = held[t] \/ held'[t] = NoMsg
    PROVE  OneRequest'
<1>1. ASSUME NEW m \in Msgs, Active(m)'
      PROVE  (msg[m].MsgID \in 1 .. produced)'
  BY <1>1, QuietKinds DEF OneRequest
<1>2. ASSUME NEW p \in Msgs, NEW q \in Msgs, SameExchange(p, q)'
      PROVE  /\ \A t \in Servers \cup Apps : held'[t] # p
             /\ IsInbound(p)' => IsOutbound(q)'
  BY <1>2, QuietKinds, QuietExchange, PoolAssumption DEF OneRequest
<1>3. QED
  BY <1>1, <1>2 DEF OneRequest

LEMMA QuietJobs ==
    ASSUME Ownership', JobsAreRequests, \A m \in Msgs : Quiet(m),
           \A m \in Msgs : JobsLeft'[m] > 0 => JobsLeft[m] > 0 \/ ~IsOutbound(m),
           \A h \in Handlers :
             held'[h] # NoMsg => held'[h] = held[h] \/ ~IsOutbound(held'[h]),
           \A h \in Handlers :
             /\ reply'[h] # NoMsg \/ h \in replied' => held'[h] # NoMsg
             /\ h \in replied' => reply'[h] = NoMsg
    PROVE  JobsAreRequests'
<1>1. ASSUME NEW m \in Msgs, JobsLeft'[m] > 0
      PROVE  ~IsOutbound(m)'
  <2>1. Active(m)'
    <3>1. Queued(m)' > 0
      <4>1. JobsLeft' \in [Msgs -> Nat]
        BY NextJobsLeftType DEF Ownership
      <4>2. QED
        BY <1>1, <4>1 DEF Ownership, TypeOK, QueueTypeOK, Queued
    <3>2. QED
      BY <3>1 DEF Ownership, OwnedInUse, Active
  <2>2. QED
    BY <1>1, <2>1, QuietKinds DEF JobsAreRequests
<1>2. ASSUME NEW h \in Handlers, held'[h] # NoMsg
      PROVE  ~(IsOutbound(held[h])')
  <2>1. PICK m \in Msgs : m = held'[h]
    BY <1>2, ThreadKinds DEF Ownership, TypeOK
  <2>2. Active(m)'
    <3>1. WorksOn(h, m)'
      BY <2>1 DEF WorksOn
    <3>2. QED
      BY <3>1, ThreadKinds DEF Ownership, OwnedInUse, Active
  <2>3. ~IsOutbound(m)
    BY <1>2, <2>1 DEF JobsAreRequests
  <2>4. ~IsOutbound(m)'
    BY <2>2, <2>3, QuietKinds
  <2>5. QED
    BY <2>1, <2>4 DEF IsOutbound
<1>3. QED
  BY <1>1, <1>2 DEF JobsAreRequests

LEMMA QuietRepliedOnce ==
    ASSUME RepliedOnce, \A m \in Msgs : Quiet(m),
           \A q \in Msgs : MsgState[q] = "DELIVERED" => MsgState'[q] \in {"DELIVERED", "INACTIVE"},
           \A h \in Handlers, p, q \in Msgs :
             held[h] = q /\ (reply[h] = p \/ h \in replied) =>
               \/ MsgState'[q] = "DELIVERED"
               \/ held'[h] = q /\ (reply'[h] = p \/ h \in replied')
    PROVE  RepliedOnce'
<1> SUFFICES ASSUME NEW p \in Msgs, NEW q \in Msgs, SameExchange(p, q)', IsReply(p)'
             PROVE  /\ ~IsReply(q)'
                    /\ IsInbound(q)' =>
                         \/ MsgState'[q] = "DELIVERED"
                         \/ \E h \in Handlers : /\ held'[h] = q
                                                /\ reply'[h] = p \/ h \in replied'
  BY DEF RepliedOnce
<1>1. SameExchange(p, q) /\ Active(p)' /\ Active(q)'
  BY QuietExchange
<1>2. IsReply(p) /\ IsReply(q)' = IsReply(q) /\ IsInbound(q)' = IsInbound(q)
  BY <1>1, QuietKinds
<1>3. ~IsReply(q)'
  BY <1>1, <1>2 DEF RepliedOnce
<1>4. ASSUME IsInbound(q)'
      PROVE  \/ MsgState'[q] = "DELIVERED"
             \/ \E h \in Handlers : held'[h] = q /\ (reply'[h] = p \/ h \in replied')
  <2>1. \/ MsgState[q] = "DELIVERED"
        \/ \E h \in Handlers : held[h] = q /\ (reply[h] = p \/ h \in replied)
    BY <1>1, <1>2, <1>4 DEF RepliedOnce
  <2>2. MsgState'[q] # "INACTIVE"
    BY <1>1 DEF Active
  <2>3. QED
    BY <2>1, <2>2
<1>5. QED
  BY <1>3, <1>4

LEMMA QuietNotifyKind ==
    ASSUME Ownership', NotifyKind, \A m \in Msgs : Quiet(m),
           \A m \in Msgs, t \in Threads : WorksOn(t, m)' => WorksOn(t, m) \/ ~IsNotify(m)
    PROVE  NotifyKind'
<1>1. ASSUME NEW m \in Msgs, Active(m)', IsNotify(m)'
      PROVE  IsOutbound(m)' /\ msg'[m].MsgReplyAction # "NONE"
  BY <1>1, QuietKinds DEF NotifyKind
<1>2. ASSUME NEW m \in Msgs, NEW t \in Threads, WorksOn(t, m)'
      PROVE  ~IsNotify(m)'
  <2>1. Active(m)'
    BY <1>2 DEF Ownership, OwnedInUse, Active
  <2>2. QED
    BY <1>2, <2>1, QuietKinds DEF NotifyKind
<1>3. QED
  BY <1>1, <1>2 DEF NotifyKind

\* A step of another thread than the message queue.
LEMMA OthersNotifyAhead ==
    ASSUME NotifyAhead, UNCHANGED mqVars,
           \A n \in Msgs : Fresh(n)' => /\ Fresh(n) /\ Active(n)
                                        /\ MsgState'[n] = MsgState[n]
                                        /\ msg'[n].MsgID = msg[n].MsgID
                                        /\ m_outbound_priority_queue'[n] = m_outbound_priority_queue[n],
           \A p \in Msgs : IsReply(p)' =>
             \/ /\ IsReply(p)
                /\ msg'[p].MsgID = msg[p].MsgID
                /\ m_outbound_priority_queue'[p] \in {0, m_outbound_priority_queue[p]}
             \/ m_outbound_priority_queue'[p] = 0 /\ m_priority_queue[p] = 0
    PROVE  NotifyAhead'
<1>1. ASSUME NEW n \in Msgs, Fresh(n)', MsgState'[n] = "PENDING"
      PROVE  mqpc' # "queue" /\ (mqpc' = "pending" => n \in todo')
  BY <1>1 DEF NotifyAhead, mqVars
<1>2. ASSUME NEW n \in Msgs, NEW p \in Msgs, SameExchange(n, p)', Fresh(n)', IsReply(p)'
      PROVE  /\ MsgState'[n] = "PENDING" =>
                  /\ m_outbound_priority_queue'[p] = 0
                  /\ m_priority_queue'[p] > 0 => mqpc' = "pending"
             /\ MsgState'[n] = "INUSE" /\ m_outbound_priority_queue'[p] > 0 =>
                  m_outbound_priority_queue'[n] > 0
  <2>1. Fresh(n) /\ MsgState'[n] = MsgState[n]
    BY <1>2
  <2>2. CASE m_outbound_priority_queue'[p] = 0 /\ m_priority_queue[p] = 0
    BY <2>2 DEF mqVars
  <2>3. CASE /\ IsReply(p)
             /\ msg'[p].MsgID = msg[p].MsgID
             /\ m_outbound_priority_queue'[p] \in {0, m_outbound_priority_queue[p]}
    <3>1. SameExchange(n, p)
      BY <1>2, <2>3 DEF SameExchange, IsReply
    <3>2. QED
      BY <1>2, <2>1, <2>3, <3>1 DEF NotifyAhead, mqVars
  <2>4. QED
    BY <1>2, <2>2, <2>3
<1>3. QED
  BY <1>1, <1>2 DEF NotifyAhead

\* The message queue thread, but for the notifications it makes.
LEMMA QueueStepExchanges ==
    ASSUME Ownership', Exchanges, \A m \in Msgs : Quiet(m), UNCHANGED threadVars,
           \A m \in Msgs : JobsLeft'[m] > 0 => JobsLeft[m] > 0 \/ ~IsOutbound(m),
           \A m \in Msgs : MsgState[m] = "DELIVERED" => MsgState'[m] \in {"DELIVERED", "INACTIVE"},
           NotifyAhead'
    PROVE  Exchanges'
<1>1. OneRequest'
  BY QuietOneRequest DEF Exchanges, threadVars
<1>2. JobsAreRequests'
  <2>1. \A h \in Handlers :
          /\ reply'[h] # NoMsg \/ h \in replied' => held'[h] # NoMsg
          /\ h \in replied' => reply'[h] = NoMsg
    BY DEF Exchanges, JobsAreRequests, threadVars
  <2>2. \A h \in Handlers : held'[h] = held[h]
    BY DEF threadVars
  <2>3. JobsAreRequests
    BY DEF Exchanges
  <2>4. QED
    BY <2>1, <2>2, <2>3, QuietJobs
<1>3. RepliedOnce'
  <2>1. \A h \in Handlers, p, q \in Msgs :
          held[h] = q /\ (reply[h] = p \/ h \in replied) =>
            held'[h] = q /\ (reply'[h] = p \/ h \in replied')
    BY DEF threadVars
  <2>2. RepliedOnce
    BY DEF Exchanges
  <2>3. QED
    BY <2>1, <2>2, QuietRepliedOnce
<1>4. NotifyKind'
  <2>1. \A m \in Msgs, t \in Threads : WorksOn(t, m)' => WorksOn(t, m)
    BY DEF WorksOn, threadVars
  <2>2. QED
    BY <2>1, QuietNotifyKind DEF Exchanges
<1>5. QED
  BY <1>1, <1>2, <1>3, <1>4 DEF Exchanges

\* A fresh notification that is in use is on one of the outbound thread's queues.
LEMMA NotifyQueued ==
    ASSUME Ownership, Exchanges, NEW n \in Msgs, Fresh(n), MsgState[n] = "INUSE"
    PROVE  m_priority_queue[n] > 0 \/ m_outbound_priority_queue[n] > 0
<1>1. Active(n) /\ IsNotify(n)
  BY DEF Fresh, Active
<1>2. IsOutbound(n) /\ \A t \in Threads : ~WorksOn(t, n)
  BY <1>1 DEF Exchanges, NotifyKind
<1>3. Queued(n) > 0
  BY <1>2 DEF Ownership, NoLostMessage
<1>4. ~(JobsLeft[n] > 0)
  BY <1>2 DEF Exchanges, JobsAreRequests
<1>5. QED
  BY <1>3, <1>4, JobsLeftType DEF Ownership, TypeOK, QueueTypeOK, Queued

\* A message that is no notification never tops a queue with one on it.
LEMMA NotifyOnTop ==
    ASSUME PoolTypeOK, NEW q, NEW p \in Msgs, NEW n \in Msgs,
           IsTop(q, p), q[n] > 0, IsNotify(n)
    PROVE  IsNotify(p)
<1>1. msg[n].MsgPriority <= msg[p].MsgPriority
  BY DEF IsTop
<1>2. msg[p].MsgPriority \in MSG_PRIORITY \cup {MSG_PRIORITY_HIGHEST + 1000}
  BY DEF PoolTypeOK, MsgFields
<1>3. QED
  BY <1>1, <1>2 DEF IsNotify, NotifyPriority, MSG_PRIORITY, MSG_PRIORITY_HIGHEST

LEMMA BeginPendingExchanges ==
    ASSUME Ownership, Ownership', Exchanges, BeginPending, UNCHANGED threadVars
    PROVE  Exchanges'
<1>1. \A m \in Msgs : Quiet(m) /\ Active(m)' = Active(m)
  BY DEF BeginPending, msgVars, Quiet, Active, Face
<1>2. NotifyAhead'
  <2>1. ASSUME NEW n \in Msgs, Fresh(n)', MsgState'[n] = "PENDING"
        PROVE  mqpc' = "pending" /\ n \in todo'
    <3>1. n \in m_Messages
      BY <2>1 DEF Ownership, ActiveExists, BeginPending, msgVars
    <3>2. QED
      BY <3>1 DEF BeginPending, GetHead
  <2>2. \A n \in Msgs : Fresh(n)' = Fresh(n)
    BY DEF BeginPending, msgVars, Fresh, IsNotify
  <2>3. \A p \in Msgs : IsReply(p)' = IsReply(p)
    BY DEF BeginPending, msgVars, IsReply, Active, IsOutbound, IsNotify
  <2>4. \A n, p \in Msgs : SameExchange(n, p)' = SameExchange(n, p)
    BY DEF BeginPending, msgVars, SameExchange, Active
  <2>5. UNCHANGED <<MsgState, m_priority_queue, m_outbound_priority_queue>>
    BY DEF BeginPending, msgVars, queues
  <2>6. QED
    BY <2>1, <2>2, <2>3, <2>4, <2>5 DEF Exchanges, NotifyAhead
<1>3. QED
  BY <1>1, <1>2, QueueStepExchanges DEF BeginPending, msgVars, queues, JobsLeft

LEMMA PendingVisitExchanges ==
    ASSUME Ownership, Ownership', Exchanges, NEW m \in Msgs, PendingVisit(m),
           UNCHANGED threadVars
    PROVE  Exchanges'
<1>1. /\ \A x \in Msgs \ {m} : MsgState'[x] = MsgState[x] /\ msg'[x] = msg[x]
      /\ Face(m)' = Face(m)
      /\ Active(m)' => Active(m)
      /\ Fresh(m)' => /\ Fresh(m)
                      /\ MsgState[m] \in {"PENDING", "INUSE"}
                      /\ MsgState'[m] = "INUSE"
      /\ MsgState[m] = "DELIVERED" => MsgState'[m] = "DELIVERED"
      /\ MsgState[m] # "PENDING" => m_priority_queue' = m_priority_queue
      /\ MsgState[m] = "PENDING" => m_priority_queue' = Push(m_priority_queue, m)
  <2>1. CASE EnqueuePending(m)
    <3>1. /\ MsgState[m] = "PENDING" /\ MsgState'[m] = "INUSE"
          /\ \A x \in Msgs \ {m} : MsgState'[x] = MsgState[x]
          /\ msg' = msg /\ m_priority_queue' = Push(m_priority_queue, m)
      BY <2>1 DEF Ownership, TypeOK, PoolTypeOK, EnqueuePending, QueuedState
    <3>2. QED
      BY <3>1 DEF Face, Active, Fresh, IsNotify
  <2>2. CASE DropUndelivered(m)
    BY <2>2 DEF Ownership, TypeOK, PoolTypeOK, DropUndelivered, Face, Active, Fresh, IsNotify
  <2>3. CASE Retry(m)
    <3>1. msg[m] \in MsgFields
      BY DEF Ownership, TypeOK, PoolTypeOK
    <3>2. RetryCountAfter(msg[m].MsgSendRetryCount) # 0
      BY <3>1, PoolAssumption DEF MsgFields, RetryCountAfter
    <3>3. /\ MsgState[m] = "UNDELIVERED"
          /\ \A x \in Msgs \ {m} : MsgState'[x] = MsgState[x] /\ msg'[x] = msg[x]
          /\ m_priority_queue' = m_priority_queue
      BY <2>3 DEF Ownership, TypeOK, PoolTypeOK, Retry
    <3>4. CASE MsgState'[m] = "MARKFORREUSE" /\ msg' = msg
      BY <3>3, <3>4 DEF Face, Active, Fresh, IsNotify
    <3>5. CASE /\ MsgState'[m] = "PENDING"
               /\ msg'[m] = [msg[m] EXCEPT !.MsgSendRetryCount =
                                               RetryCountAfter(msg[m].MsgSendRetryCount)]
      <4>1. /\ Face(m)' = Face(m)
            /\ msg'[m].MsgSendRetryCount # 0
        BY <3>1, <3>2, <3>5 DEF Face, MsgFields
      <4>2. QED
        BY <3>3, <3>5, <4>1 DEF Active, Fresh
    <3>6. QED
      BY <2>3, <3>3, <3>4, <3>5 DEF Retry, Ownership, TypeOK, PoolTypeOK
  <2>4. CASE AwaitRetry(m) \/ PassOver(m)
    BY <2>4 DEF AwaitRetry, PassOver, Face, Active, Fresh, IsNotify
  <2>5. QED
    BY <2>1, <2>2, <2>3, <2>4 DEF PendingVisit
<1>2. \A x \in Msgs : Quiet(x)
  BY <1>1 DEF Quiet, Active, Face
<1>3. /\ mqpc = "pending" /\ m \in todo
      /\ todo' = todo \ {m}
      /\ mqpc' = IF todo' = {} THEN "queue" ELSE "pending"
      /\ m_outbound_priority_queue' = m_outbound_priority_queue
      /\ JobsLeft' = JobsLeft
  BY DEF PendingVisit, GetNext, JobsLeft
<1>4. NotifyAhead'
  <2>1. \A n \in Msgs : Fresh(n)' =>
          /\ Fresh(n)
          /\ \/ MsgState'[n] = MsgState[n] /\ (MsgState[n] = "PENDING" => n # m)
             \/ MsgState[n] = "PENDING" /\ MsgState'[n] = "INUSE"
    BY <1>1 DEF Fresh, IsNotify
  <2>2. ASSUME NEW n \in Msgs, Fresh(n)', MsgState'[n] = "PENDING"
        PROVE  mqpc' = "pending" /\ n \in todo'
    <3>1. Fresh(n) /\ MsgState[n] = "PENDING" /\ n # m
      BY <2>1, <2>2
    <3>2. QED
      BY <1>3, <3>1 DEF Exchanges, NotifyAhead
  <2>3. ASSUME NEW n \in Msgs, NEW p \in Msgs, SameExchange(n, p)', Fresh(n)', IsReply(p)'
        PROVE  /\ MsgState'[n] = "PENDING" => m_outbound_priority_queue'[p] = 0
               /\ MsgState'[n] = "INUSE" /\ m_outbound_priority_queue'[p] > 0 =>
                    m_outbound_priority_queue'[n] > 0
    <3>1. SameExchange(n, p) /\ IsReply(p)
      BY <1>2, <2>3, QuietExchange, QuietKinds
    <3>2. Fresh(n)
      BY <2>1, <2>3
    <3>3. CASE MsgState[n] = "PENDING"
      <4>1. m_outbound_priority_queue[p] = 0
        BY <3>1, <3>2, <3>3 DEF Exchanges, NotifyAhead
      <4>2. QED
        BY <1>3, <4>1
    <3>4. CASE MsgState'[n] = MsgState[n]
      BY <1>3, <3>1, <3>2, <3>4 DEF Exchanges, NotifyAhead
    <3>5. QED
      BY <2>1, <2>3, <3>3, <3>4
  <2>4. QED
    BY <2>2, <2>3 DEF NotifyAhead
<1>5. QED
  BY <1>1, <1>2, <1>3, <1>4, QueueStepExchanges

\* The top message is routed, with no notification made: it may go to the
\* connection queue now.
LEMMA RouteExchanges ==
    ASSUME Ownership, Ownership', Exchanges, NEW m \in Msgs, TakeTop(m),
           UNCHANGED <<threadVars, msg>>,
           MsgState' = MsgState \/
             \E s \in {"UNDELIVERED", "DELIVERED"} : MsgState' = [MsgState EXCEPT ![m] = s],
           JobsLeft' = JobsLeft \/ (JobsLeft' = Push(JobsLeft, m) /\ ~IsOutbound(m)),
           \/ m_outbound_priority_queue' = m_outbound_priority_queue
           \/ m_outbound_priority_queue' = Push(m_outbound_priority_queue, m)
    PROVE  Exchanges'
<1>1. MsgState[m] = "INUSE"
  BY TakeTopOwner
<1>2. /\ \A x \in Msgs \ {m} : MsgState'[x] = MsgState[x]
      /\ MsgState'[m] \in {"INUSE", "UNDELIVERED", "DELIVERED"}
  BY <1>1 DEF Ownership, TypeOK, PoolTypeOK
<1>3. \A x \in Msgs : Quiet(x)
  BY <1>1, <1>2 DEF Quiet, Active, Face
<1>4. \A x \in Msgs : /\ JobsLeft'[x] > 0 => JobsLeft[x] > 0 \/ ~IsOutbound(x)
                      /\ MsgState[x] = "DELIVERED" => MsgState'[x] = "DELIVERED"
  BY <1>1, <1>2, JobsLeftType DEF Push, Ownership
<1>5. mqpc = "queue" /\ mqpc' = "timer" /\ IsTop(m_priority_queue, m)
  BY DEF TakeTop
<1>6. NotifyAhead'
  <2>1. \A n \in Msgs : Fresh(n)' => Fresh(n) /\ MsgState'[n] = MsgState[n]
    BY <1>1, <1>2 DEF Fresh, IsNotify
  <2>2. \A n \in Msgs : Fresh(n) => MsgState[n] # "PENDING"
    BY <1>5 DEF Exchanges, NotifyAhead
  <2>3. ASSUME NEW n \in Msgs, NEW p \in Msgs, SameExchange(n, p)', Fresh(n)', IsReply(p)',
               MsgState'[n] = "INUSE", m_outbound_priority_queue'[p] > 0
        PROVE  m_outbound_priority_queue'[n] > 0
    <3>1. SameExchange(n, p) /\ IsReply(p)
      BY <1>3, <2>3, QuietExchange, QuietKinds
    <3>2. Fresh(n) /\ MsgState[n] = "INUSE"
      BY <2>1, <2>3
    <3>3. m_outbound_priority_queue[n] > 0
      <4>1. CASE m_outbound_priority_queue[p] > 0
        BY <3>1, <3>2, <4>1 DEF Exchanges, NotifyAhead
      <4>2. CASE ~(m_outbound_priority_queue[p] > 0)
        <5>1. p = m
          BY <2>3, <4>2 DEF Push, Ownership, TypeOK, QueueTypeOK
        <5>2. IsNotify(n) /\ ~IsNotify(p)
          BY <3>1, <3>2 DEF Fresh, IsReply
        <5>3. ~(m_priority_queue[n] > 0)
          BY <1>5, <5>1, <5>2, NotifyOnTop DEF Ownership, TypeOK
        <5>4. QED
          BY <3>2, <5>3, NotifyQueued
      <4>3. QED
        BY <4>1, <4>2
    <3>4. QED
      BY <3>3 DEF Push, Ownership, TypeOK, QueueTypeOK
  <2>4. QED
    BY <1>5, <2>1, <2>2, <2>3 DEF NotifyAhead
<1>7. QED
  BY <1>3, <1>4, <1>6, QueueStepExchanges

\* A notification about the top message is made: there is no reply yet.
LEMMA PostNotifyExchanges ==
    ASSUME Ownership, Ownership', Exchanges, NEW m \in Msgs, NEW n \in Msgs,
           TakeTop(m), IsInbound(m), PostNotifyMessage(n, m), UNCHANGED threadVars,
           JobsLeft' = Push(JobsLeft, m),
           UNCHANGED m_outbound_priority_queue
    PROVE  Exchanges'
<1>1. /\ MsgState[m] = "INUSE" /\ m \in Msgs
      /\ \A t \in Threads : ~WorksOn(t, m)
  BY TakeTopOwner
<1>2. /\ MsgState[n] = "INACTIVE"
      /\ \A t \in Threads : ~WorksOn(t, n)
      /\ JobsLeft[n] = 0
  <2>1. Queued(n) = 0 /\ MsgState[n] = "INACTIVE" /\ \A t \in Threads : ~WorksOn(t, n)
    BY GotMessage DEF PostNotifyMessage
  <2>2. QED
    BY <2>1, EmptyQueues DEF Ownership, TypeOK
<1>3. n # m
  BY <1>1, <1>2
<1>4. /\ \A x \in Msgs \ {n} : MsgState'[x] = MsgState[x]
      /\ MsgState'[n] = "PENDING"
      /\ \A x \in Msgs \ {n, m} : msg'[x] = msg[x]
      /\ msg'[m] = NotifiedOnce(msg[m])
      /\ msg'[n] = NotifyFields(m)
  BY <1>3 DEF PostNotifyMessage, Ownership, TypeOK, PoolTypeOK
<1>5. Face(m)' = Face(m) /\ IsOutbound(n)' /\ IsNotify(n)' /\ ~IsInbound(n)'
      /\ msg'[n].MsgID = msg[m].MsgID /\ msg'[n].MsgReplyAction # "NONE"
  <2>1. msg[m] \in MsgFields
    BY DEF Ownership, TypeOK, PoolTypeOK
  <2>2. Face(m)' = Face(m)
    BY <1>4, <2>1 DEF NotifiedOnce, MsgFields, Face
  <2>3. /\ msg'[n].MsgID = msg[m].MsgID
        /\ msg'[n].MsgPriority = NotifyPriority
        /\ msg'[n].MsgReplyAction = "NOWAIT"
        /\ msg'[n].MsgConnectionType = AnswerType(msg[m].MsgConnectionType)
    BY <1>4 DEF NotifyFields, ResetMsg
  <2>4. msg'[n].MsgConnectionType \in {"OB_UDP", "OB_TCP"}
    BY <2>3 DEF IsInbound, AnswerType
  <2>5. QED
    BY <2>2, <2>3, <2>4 DEF IsOutbound, IsNotify, IsInbound
<1>6. \A x \in Msgs \ {n} : Quiet(x) /\ Active(x)' = Active(x)
  BY <1>4, <1>5 DEF Quiet, Active, Face
<1>7. Active(m)
  BY <1>1 DEF Active
<1>8. ~IsReply(n)'
  BY <1>5 DEF IsReply
<1>9. \A x \in Msgs \ {n, m} : SameExchange(n, x)' \/ SameExchange(x, n)' => SameExchange(m, x) /\ SameExchange(x, m)
  BY <1>4, <1>5, <1>6, <1>7 DEF SameExchange
<1>10. \A x, y \in Msgs \ {n} : SameExchange(x, y)' => SameExchange(x, y)
  BY <1>6, QuietKinds DEF SameExchange
<1>11. \A x \in Msgs \ {n} : SameExchange(x, m) => ~IsReply(x)
  <2> SUFFICES ASSUME NEW x \in Msgs \ {n}, SameExchange(x, m), IsReply(x)
               PROVE  FALSE
    OBVIOUS
  <2>1. \E h \in Handlers : held[h] = m
    BY <1>1 DEF Exchanges, RepliedOnce
  <2>2. QED
    BY <1>1, <2>1, ThreadKinds DEF WorksOn
<1>12. OneRequest'
  <2>1. ASSUME NEW x \in Msgs, Active(x)'
        PROVE  msg'[x].MsgID \in 1 .. produced'
    BY <1>5, <1>6, <1>7, <2>1, QuietKinds DEF Exchanges, OneRequest, threadVars
  <2>2. ASSUME NEW x \in Msgs, NEW y \in Msgs, SameExchange(x, y)'
        PROVE  /\ \A t \in Servers \cup Apps : held'[t] # x
               /\ IsInbound(x)' => IsOutbound(y)'
    <3>1. Active(x)' /\ Active(y)' /\ x # y
      BY <2>2 DEF SameExchange
    <3>2. CASE x = n
      BY <1>2, <1>5, <3>2 DEF WorksOn, Threads, threadVars
    <3>3. CASE y = n
      <4>1. \A t \in Servers \cup Apps : held[t] # x
        <5>1. CASE x = m
          BY <1>1, <5>1 DEF WorksOn, Threads
        <5>2. CASE x # m
          BY <1>9, <2>2, <3>1, <3>3, <5>2 DEF Exchanges, OneRequest
        <5>3. QED
          BY <5>1, <5>2
      <4>2. QED
        BY <1>5, <3>3, <4>1 DEF threadVars
    <3>4. CASE x # n /\ y # n
      BY <1>6, <1>10, <2>2, <3>1, <3>4, QuietKinds DEF Exchanges, OneRequest, threadVars
    <3>5. QED
      BY <3>2, <3>3, <3>4
  <2>3. QED
    BY <2>1, <2>2 DEF OneRequest
<1>13. JobsAreRequests'
  <2>1. ASSUME NEW x \in Msgs, JobsLeft'[x] > 0
        PROVE  ~IsOutbound(x)'
    <3>1. x # n
      BY <1>2, <1>3, <2>1 DEF Push, Ownership, TypeOK, QueueTypeOK
    <3>2. ~IsOutbound(x)
      BY <2>1 DEF Push, Ownership, TypeOK, QueueTypeOK, IsInbound, IsOutbound, Exchanges, JobsAreRequests
    <3>3. Active(x)'
      BY <2>1, QueuedActive, <3>1, <1>4, <1>6, <1>7 DEF Push, Ownership, TypeOK, QueueTypeOK
    <3>4. QED
      BY <1>6, <3>1, <3>2, <3>3, QuietKinds
  <2>2. ASSUME NEW h \in Handlers, held'[h] # NoMsg
        PROVE  ~(IsOutbound(held[h])')
    <3>1. PICK x \in Msgs : x = held[h] /\ held'[h] = x /\ WorksOn(h, x)
      BY <2>2, ThreadKinds DEF Ownership, TypeOK, WorksOn, threadVars
    <3>2. x # n /\ Active(x)
      BY <1>2, <3>1, ThreadKinds, WorkedOnActive
    <3>3. ~IsOutbound(x)
      BY <2>2, <3>1 DEF Exchanges, JobsAreRequests, threadVars
    <3>4. ~IsOutbound(x)'
      BY <1>6, <3>2, <3>3, QuietKinds
    <3>5. QED
      BY <3>1, <3>4 DEF IsOutbound
  <2>3. \A h \in Handlers :
          /\ reply'[h] # NoMsg \/ h \in replied' => held'[h] # NoMsg
          /\ h \in replied' => reply'[h] = NoMsg
    BY DEF Exchanges, JobsAreRequests, threadVars
  <2>4. QED
    BY <2>1, <2>2, <2>3 DEF JobsAreRequests
<1>14. RepliedOnce'
  <2> SUFFICES ASSUME NEW p \in Msgs, NEW q \in Msgs, SameExchange(p, q)', IsReply(p)'
               PROVE  /\ ~IsReply(q)'
                      /\ IsInbound(q)' =>
                           \/ MsgState'[q] = "DELIVERED"
                           \/ \E h \in Handlers : /\ held'[h] = q
                                                  /\ reply'[h] = p \/ h \in replied'
    BY DEF RepliedOnce
  <2>1. p # n /\ IsReply(p) /\ Active(p)' /\ Active(q)' /\ p # q
    BY <1>6, <1>8, QuietKinds DEF SameExchange
  <2>2. CASE q = n
    BY <1>5, <1>8, <2>2
  <2>3. CASE q # n
    BY <1>4, <1>6, <1>10, <2>1, <2>3, QuietKinds DEF Exchanges, RepliedOnce, threadVars
  <2>4. QED
    BY <2>2, <2>3
<1>15. NotifyKind'
  <2>1. ASSUME NEW x \in Msgs, Active(x)', IsNotify(x)'
        PROVE  IsOutbound(x)' /\ msg'[x].MsgReplyAction # "NONE"
    BY <1>5, <1>6, <2>1, QuietKinds DEF Exchanges, NotifyKind
  <2>2. ASSUME NEW x \in Msgs, NEW t \in Threads, WorksOn(t, x)'
        PROVE  ~IsNotify(x)'
    <3>1. WorksOn(t, x)
      BY <2>2 DEF WorksOn, threadVars
    <3>2. x # n /\ Active(x)
      BY <1>2, <3>1, WorkedOnActive
    <3>3. QED
      BY <1>6, <3>1, <3>2, QuietKinds DEF Exchanges, NotifyKind
  <2>3. QED
    BY <2>1, <2>2 DEF NotifyKind
<1>16. NotifyAhead'
  <2>1. mqpc = "queue" /\ mqpc' = "timer"
    BY DEF TakeTop
  <2>2. \A x \in Msgs \ {n} : Fresh(x)' => Fresh(x) /\ MsgState'[x] = MsgState[x]
    <3>1. msg[m] \in MsgFields
      BY DEF Ownership, TypeOK, PoolTypeOK
    <3>2. /\ msg'[m].MsgPriority = msg[m].MsgPriority
          /\ msg'[m].MsgSendRetryCount = msg[m].MsgSendRetryCount
      BY <1>4, <3>1 DEF NotifiedOnce, MsgFields
    <3>3. QED
      BY <1>4, <3>2 DEF Fresh, IsNotify
  <2>3. ASSUME NEW x \in Msgs, NEW p \in Msgs, SameExchange(x, p)', Fresh(x)', IsReply(p)'
        PROVE  /\ MsgState'[x] # "PENDING"
               /\ m_outbound_priority_queue'[p] > 0 => m_outbound_priority_queue'[x] > 0
    <3>1. p # n /\ IsReply(p) /\ Active(p)' /\ Active(x)' /\ x # p
      BY <1>6, <1>8, <2>3, QuietKinds DEF SameExchange
    <3>2. x # n
      <4> SUFFICES ASSUME x = n
                   PROVE  FALSE
        OBVIOUS
      <4>1. CASE p = m
        BY <3>1, <4>1 DEF IsReply, IsInbound, IsOutbound
      <4>2. CASE p # m
        BY <1>9, <1>11, <2>3, <3>1, <4>2
      <4>3. QED
        BY <4>1, <4>2
    <3>3. SameExchange(x, p) /\ Fresh(x) /\ MsgState'[x] = MsgState[x]
      BY <1>10, <2>2, <2>3, <3>1, <3>2
    <3>4. MsgState[x] \in {"PENDING", "INUSE"} /\ MsgState[x] # "PENDING"
      BY <2>1, <3>3 DEF Fresh, Exchanges, NotifyAhead
    <3>5. QED
      BY <3>1, <3>3, <3>4 DEF Exchanges, NotifyAhead
  <2>4. QED
    BY <2>1, <2>3 DEF NotifyAhead
<1>17. QED
  BY <1>12, <1>13, <1>14, <1>15, <1>16 DEF Exchanges

LEMMA FlushVisitExchanges ==
    ASSUME Ownership, Ownership', Exchanges, NEW m \in Msgs, FlushVisit(m),
           UNCHANGED threadVars
    PROVE  Exchanges'
<1>1. /\ \A x \in Msgs \ {m} : MsgState'[x] = MsgState[x] /\ msg'[x] = msg[x]
      /\ \/ MsgState'[m] = "INACTIVE"
         \/ MsgState'[m] = MsgState[m] /\ msg'[m] = msg[m]
  BY DEF Ownership, TypeOK, PoolTypeOK, FlushVisit, FlushReturn, ReturnToPool, StateInPool,
     FlushDelete, DeleteCurrent, FlushKeep, msgVars
<1>2. \A x \in Msgs : Quiet(x)
  BY <1>1 DEF Quiet, Active, Face
<1>3. /\ mqpc = "flush" /\ mqpc' \in {"flush", "top"}
      /\ UNCHANGED queues
  BY DEF FlushVisit, FlushReturn, FlushDelete, FlushKeep, GetNext
<1>4. NotifyAhead'
  <2>1. \A n \in Msgs : Fresh(n)' => Fresh(n) /\ MsgState'[n] = MsgState[n]
    BY <1>1 DEF Fresh, IsNotify
  <2>2. \A p, q \in Msgs : SameExchange(p, q)' => SameExchange(p, q)
    BY <1>2, QuietExchange
  <2>3. \A p \in Msgs : IsReply(p)' => IsReply(p)
    BY <1>2, QuietKinds DEF IsReply
  <2>4. QED
    BY <1>3, <2>1, <2>2, <2>3 DEF Exchanges, NotifyAhead, queues
<1>5. QED
  BY <1>1, <1>2, <1>3, <1>4, QueueStepExchanges DEF queues, JobsLeft

LEMMA TimerExchanges ==
    ASSUME Ownership, Ownership', Exchanges, UNCHANGED threadVars,
           QueueEmpty \/ SkipFlush \/ BeginFlush \/ \E m \in Msgs : NullHandler(m)
    PROVE  Exchanges'
<1>1. UNCHANGED <<msgVars, queues>>
  BY DEF QueueEmpty, SkipFlush, BeginFlush, NullHandler
<1>2. \A x \in Msgs : Quiet(x)
  BY <1>1 DEF Quiet, Active, Face, msgVars
<1>3. NotifyAhead'
  <2>1. \/ UNCHANGED <<mqpc, todo>>
        \/ /\ mqpc \in {"queue", "timer"}
           /\ mqpc' \in {"timer", "top", "flush"}
           /\ mqpc = "queue" => \A m \in Msgs : m_priority_queue[m] = 0
    BY DEF QueueEmpty, SkipFlush, BeginFlush, GetHead, NullHandler
  <2>2. /\ \A n \in Msgs : Fresh(n)' = Fresh(n)
        /\ \A p \in Msgs : IsReply(p)' = IsReply(p)
        /\ \A n, p \in Msgs : SameExchange(n, p)' = SameExchange(n, p)
    BY <1>1 DEF msgVars, Fresh, IsReply, SameExchange, Active, IsNotify, IsOutbound
  <2>3. UNCHANGED <<MsgState, m_priority_queue, m_outbound_priority_queue>>
    BY <1>1 DEF msgVars, queues
  <2>4. QED
    BY <2>1, <2>2, <2>3 DEF Exchanges, NotifyAhead
<1>4. QED
  BY <1>1, <1>2, <1>3, QueueStepExchanges DEF msgVars, queues, JobsLeft

LEMMA QueueThreadExchanges ==
    ASSUME Ownership, Exchanges, MsgQueueThread
    PROVE  Exchanges'
<1>1. Ownership' /\ UNCHANGED threadVars
  BY QueueThreadInv DEF MsgQueueThread
<1>2. CASE BeginPending
  BY <1>1, <1>2, BeginPendingExchanges
<1>3. CASE QueueEmpty \/ SkipFlush \/ BeginFlush \/ \E m \in Msgs : NullHandler(m)
  BY <1>1, <1>3, TimerExchanges
<1>4. ASSUME NEW m \in Msgs, PendingVisit(m) \/ FlushVisit(m)
      PROVE  Exchanges'
  BY <1>1, <1>4, PendingVisitExchanges, FlushVisitExchanges
<1>5. ASSUME NEW m \in Msgs, ProcessInternalMessage(m)
      PROVE  Exchanges'
  <2>1. TakeTop(m) /\ UNCHANGED <<msg, m_outbound_priority_queue>> /\ ~IsOutbound(m)
    BY <1>5 DEF ProcessInternalMessage, IsOutbound
  <2>2. /\ MsgState' = MsgState \/ MsgState' = [MsgState EXCEPT ![m] = "UNDELIVERED"]
        /\ JobsLeft' = JobsLeft \/ JobsLeft' = Push(JobsLeft, m)
    BY <1>5, JobsLeftAfter DEF Ownership, ProcessInternalMessage
  <2>3. QED
    BY <1>1, <2>1, <2>2, RouteExchanges
<1>6. ASSUME NEW m \in Msgs, ProcessInboundMessage(m)
      PROVE  Exchanges'
  <2>1. /\ TakeTop(m) /\ IsInbound(m) /\ UNCHANGED m_outbound_priority_queue
        /\ JobsLeft' = Push(JobsLeft, m)
    BY <1>6, JobsLeftAfter DEF Ownership, ProcessInboundMessage
  <2>2. CASE UNCHANGED <<poolVars, msgVars>>
    BY <1>1, <2>1, <2>2, RouteExchanges DEF IsInbound, IsOutbound, msgVars
  <2>3. CASE \E n \in Msgs : PostNotifyMessage(n, m)
    BY <1>1, <2>1, <2>3, PostNotifyExchanges
  <2>4. QED
    BY <1>6, <2>2, <2>3 DEF ProcessInboundMessage
<1>7. ASSUME NEW m \in Msgs, ProcessOutboundMessage(m)
      PROVE  Exchanges'
  <2>1. TakeTop(m) /\ UNCHANGED <<msg, JobsLeft>>
    BY <1>7, JobsLeftAfter DEF Ownership, ProcessOutboundMessage
  <2>2. QED
    BY <1>1, <1>7, <2>1, RouteExchanges DEF ProcessOutboundMessage
<1>8. QED
  BY <1>2, <1>3, <1>4, <1>5, <1>6, <1>7 DEF MsgQueueThread, QueueStep

\* The other threads: steps that make no message, ...
LEMMA OthersQuiet ==
    ASSUME Ownership', Exchanges, \A x \in Msgs : Quiet(x), UNCHANGED <<mqVars, produced>>,
           \A t \in Servers \cup Apps : held'[t] = held[t] \/ held'[t] = NoMsg,
           \A h \in Handlers :
             /\ held'[h] # NoMsg => held'[h] = held[h] \/ ~IsOutbound(held'[h])
             /\ reply'[h] # NoMsg \/ h \in replied' => held'[h] # NoMsg
             /\ h \in replied' => reply'[h] = NoMsg,
           \A h \in Handlers, p, q \in Msgs :
             held[h] = q /\ (reply[h] = p \/ h \in replied) =>
               \/ MsgState'[q] = "DELIVERED"
               \/ held'[h] = q /\ (reply'[h] = p \/ h \in replied'),
           \A x \in Msgs, t \in Threads : WorksOn(t, x)' => WorksOn(t, x) \/ ~IsNotify(x),
           \A x \in Msgs :
             /\ MsgState[x] = "DELIVERED" => MsgState'[x] = "DELIVERED"
             /\ JobsLeft'[x] > 0 => JobsLeft[x] > 0
             /\ m_outbound_priority_queue'[x] \in {0, m_outbound_priority_queue[x]}
             /\ Fresh(x)' => /\ Fresh(x) /\ MsgState'[x] = MsgState[x]
                             /\ m_outbound_priority_queue'[x] = m_outbound_priority_queue[x]
    PROVE  Exchanges'
<1>1. OneRequest'
  BY QuietOneRequest DEF Exchanges
<1>2. JobsAreRequests'
  <2>1. JobsAreRequests
    BY DEF Exchanges
  <2>2. QED
    BY <2>1, QuietJobs
<1>3. RepliedOnce'
  <2>1. RepliedOnce
    BY DEF Exchanges
  <2>2. QED
    BY <2>1, QuietRepliedOnce
<1>4. NotifyKind'
  BY QuietNotifyKind DEF Exchanges
<1>5. NotifyAhead'
  <2>1. \A n \in Msgs : Fresh(n)' => Active(n)'
    BY DEF Fresh, Active
  <2>2. \A n \in Msgs : Fresh(n)' => Active(n) /\ msg'[n].MsgID = msg[n].MsgID
    BY <2>1, QuietKinds
  <2>3. \A p \in Msgs : IsReply(p)' => IsReply(p) /\ msg'[p].MsgID = msg[p].MsgID
    BY QuietKinds DEF IsReply
  <2>4. NotifyAhead
    BY DEF Exchanges
  <2>5. QED
    BY <2>2, <2>3, <2>4, OthersNotifyAhead
<1>6. QED
  BY <1>1, <1>2, <1>3, <1>4, <1>5 DEF Exchanges

\* ... and steps of a producer on message m, which is the only one with its id.
LEMMA LoneMessage ==
    ASSUME Ownership, Ownership', Exchanges, NEW m \in Msgs,
           \A x \in Msgs \ {m} : MsgState'[x] = MsgState[x] /\ msg'[x] = msg[x],
           \A x \in Msgs : ~SameExchange(m, x)' /\ ~SameExchange(x, m)',
           ~IsNotify(m)',
           msg'[m].MsgID \in 1 .. produced',
           produced' \in {produced, produced + 1},
           UNCHANGED <<mqVars, JobsLeft, m_outbound_priority_queue, reply, replied>>,
           \A t \in Servers \cup Apps : held'[t] \in {held[t], NoMsg, m},
           \A h \in Handlers : held'[h] = held[h] /\ held[h] # m,
           Queued(m) = 0
    PROVE  Exchanges'
<1>1. \A x \in Msgs \ {m} : Quiet(x) /\ Active(x)' = Active(x)
  BY DEF Quiet, Active, Face
<1>2. \A x, y \in Msgs : SameExchange(x, y)' =>
        /\ x # m /\ y # m /\ SameExchange(x, y) /\ Active(x)' /\ Active(y)'
  BY <1>1 DEF SameExchange
<1>3. /\ m_priority_queue[m] = 0 /\ JobsLeft[m] = 0
      /\ m_outbound_priority_queue[m] = 0
  BY EmptyQueues DEF Ownership, TypeOK
<1>4. OneRequest'
  <2>1. ASSUME NEW x \in Msgs, Active(x)', x # m
        PROVE  msg'[x].MsgID \in 1 .. produced'
    <3>1. Active(x) /\ msg'[x].MsgID = msg[x].MsgID
      BY <1>1, <2>1
    <3>2. msg[x].MsgID \in 1 .. produced
      BY <3>1 DEF Exchanges, OneRequest
    <3>3. produced \in Nat
      BY DEF Ownership, TypeOK
    <3>4. QED
      BY <3>1, <3>2, <3>3
  <2>2. ASSUME NEW x \in Msgs, NEW y \in Msgs, SameExchange(x, y)'
        PROVE  /\ \A t \in Servers \cup Apps : held'[t] # x
               /\ IsInbound(x)' => IsOutbound(y)'
    <3>1. x # m /\ y # m /\ SameExchange(x, y) /\ Active(x)' /\ Active(y)'
      BY <1>2, <2>2
    <3>2. IsInbound(x)' = IsInbound(x) /\ IsOutbound(y)' = IsOutbound(y)
      BY <1>1, <3>1, QuietKinds
    <3>3. \A t \in Servers \cup Apps : held[t] # x
      BY <3>1 DEF Exchanges, OneRequest
    <3>4. IsInbound(x) => IsOutbound(y)
      BY <3>1 DEF Exchanges, OneRequest
    <3>5. QED
      BY <3>1, <3>2, <3>3, <3>4, PoolAssumption
  <2>3. QED
    BY <2>1, <2>2 DEF OneRequest
<1>5. JobsAreRequests'
  <2>1. ASSUME NEW x \in Msgs, JobsLeft'[x] > 0
        PROVE  ~IsOutbound(x)'
    <3>1. JobsLeft[x] > 0 /\ x # m
      BY <1>3, <2>1
    <3>2. msg'[x] = msg[x] /\ ~IsOutbound(x)
      BY <3>1 DEF Exchanges, JobsAreRequests
    <3>3. QED
      BY <3>2 DEF IsOutbound
  <2>2. ASSUME NEW h \in Handlers, held'[h] # NoMsg
        PROVE  ~(IsOutbound(held[h])')
    <3>1. held'[h] = held[h] /\ held[h] \in Msgs \ {m}
      BY <2>2, ThreadKinds DEF Ownership, TypeOK
    <3>2. ~IsOutbound(held[h])
      BY <2>2, <3>1 DEF Exchanges, JobsAreRequests
    <3>3. QED
      BY <3>1, <3>2 DEF IsOutbound
  <2>3. \A h \in Handlers :
          /\ reply'[h] # NoMsg \/ h \in replied' => held'[h] # NoMsg
          /\ h \in replied' => reply'[h] = NoMsg
    BY DEF Exchanges, JobsAreRequests
  <2>4. QED
    BY <2>1, <2>2, <2>3 DEF JobsAreRequests
<1>6. RepliedOnce'
  <2> SUFFICES ASSUME NEW p \in Msgs, NEW q \in Msgs, SameExchange(p, q)', IsReply(p)'
               PROVE  /\ ~IsReply(q)'
                      /\ IsInbound(q)' =>
                           \/ MsgState'[q] = "DELIVERED"
                           \/ \E h \in Handlers : /\ held'[h] = q
                                                  /\ reply'[h] = p \/ h \in replied'
    BY DEF RepliedOnce
  <2>1. p # m /\ q # m /\ SameExchange(p, q) /\ Active(p)' /\ Active(q)'
    BY <1>2
  <2>2. IsReply(p) /\ IsReply(q)' = IsReply(q) /\ IsInbound(q)' = IsInbound(q)
    BY <1>1, <2>1, QuietKinds
  <2>3. /\ ~IsReply(q)
        /\ IsInbound(q) => \/ MsgState[q] = "DELIVERED"
                           \/ \E h \in Handlers : held[h] = q /\ (reply[h] = p \/ h \in replied)
    BY <2>1, <2>2 DEF Exchanges, RepliedOnce
  <2>4. QED
    BY <2>1, <2>2, <2>3
<1>7. NotifyKind'
  <2>1. ASSUME NEW x \in Msgs, Active(x)', IsNotify(x)'
        PROVE  IsOutbound(x)' /\ msg'[x].MsgReplyAction # "NONE"
    <3>1. x # m
      BY <2>1
    <3>2. QED
      BY <1>1, <2>1, <3>1, QuietKinds DEF Exchanges, NotifyKind
  <2>2. ASSUME NEW x \in Msgs, NEW t \in Threads, WorksOn(t, x)', x # m
        PROVE  ~IsNotify(x)'
    <3>1. WorksOn(t, x)
      BY <2>2, PoolAssumption DEF WorksOn, Threads
    <3>2. ~IsNotify(x) /\ msg'[x] = msg[x]
      BY <2>2, <3>1 DEF Exchanges, NotifyKind
    <3>3. QED
      BY <3>2 DEF IsNotify
  <2>3. QED
    BY <2>1, <2>2 DEF NotifyKind
<1>8. NotifyAhead'
  <2>1. \A n \in Msgs : Fresh(n)' =>
          /\ Fresh(n) /\ Active(n)
          /\ MsgState'[n] = MsgState[n] /\ msg'[n].MsgID = msg[n].MsgID
    BY DEF Fresh, Active, IsNotify
  <2>2. \A p \in Msgs \ {m} : IsReply(p)' => IsReply(p) /\ msg'[p].MsgID = msg[p].MsgID
    BY DEF IsReply, Active, IsNotify, IsOutbound
  <2>3. NotifyAhead
    BY DEF Exchanges
  <2>4. QED
    BY <1>3, <2>1, <2>2, <2>3, OthersNotifyAhead
<1>9. QED
  BY <1>4, <1>5, <1>6, <1>7, <1>8 DEF Exchanges

LEMMA CreateExchanges ==
    ASSUME Ownership, Ownership', Exchanges, NEW t \in Servers \cup Apps,
           NEW fields \in MsgFields, fields.MsgPriority \in MSG_PRIORITY, Create(t, fields)
    PROVE  Exchanges'
<1>1. PICK m \in Msgs : /\ GetMessage(m, [fields EXCEPT !.MsgID = produced'])
                        /\ held' = [held EXCEPT ![t] = m]
  BY DEF Create
<1>2. /\ t \in Threads /\ t \notin Handlers
      /\ produced \in Nat /\ produced' = produced + 1
      /\ UNCHANGED <<mqVars, JobsLeft, m_outbound_priority_queue, reply, replied>>
  BY ThreadAssumption, JobsLeftAfter DEF Threads, Servers, Create, Ownership, TypeOK
<1>3. /\ MsgState[m] = "INACTIVE" /\ Queued(m) = 0
      /\ \A u \in Threads : ~WorksOn(u, m)
  BY <1>1, GotMessage DEF GetMessage
<1>4. /\ \A x \in Msgs \ {m} : MsgState'[x] = MsgState[x] /\ msg'[x] = msg[x]
      /\ msg'[m] = [fields EXCEPT !.MsgID = produced']
      /\ \A u \in Threads \ {t} : held'[u] = held[u]
      /\ held'[t] = m
  BY <1>1, <1>2 DEF GetMessage, Ownership, TypeOK, PoolTypeOK
<1>5. msg'[m].MsgID = produced' /\ msg'[m].MsgPriority = fields.MsgPriority
  BY <1>4 DEF MsgFields
<1>6. ~IsNotify(m)'
  BY <1>5 DEF IsNotify, NotifyPriority, MSG_PRIORITY, MSG_PRIORITY_HIGHEST
<1>7. \A x \in Msgs : ~SameExchange(m, x)' /\ ~SameExchange(x, m)'
  <2> SUFFICES ASSUME NEW x \in Msgs \ {m}, Active(x)'
               PROVE  msg'[x].MsgID # msg'[m].MsgID
    BY DEF SameExchange
  <2>1. msg'[x].MsgID \in 1 .. produced
    BY <1>4 DEF Active, Exchanges, OneRequest
  <2>2. QED
    BY <1>2, <1>5, <2>1
<1>8. \A h \in Handlers : held'[h] = held[h] /\ held[h] # m
  BY <1>2, <1>3, <1>4, ThreadKinds DEF WorksOn
<1>9. \A u \in Servers \cup Apps : held'[u] \in {held[u], NoMsg, m}
  BY <1>4 DEF Threads
<1>10. msg'[m].MsgID \in 1 .. produced' /\ produced' \in {produced, produced + 1}
  BY <1>2, <1>5
<1>11. QED
  BY <1>2, <1>3, <1>4, <1>6, <1>7, <1>8, <1>9, <1>10, LoneMessage

LEMMA DispatchExchanges ==
    ASSUME Ownership, Ownership', Exchanges, NEW t \in Servers \cup Apps,
           NEW fields \in MsgFields, Dispatch(t, fields),
           fields.MsgID = msg[held[t]].MsgID, fields.MsgPriority \in MSG_PRIORITY
    PROVE  Exchanges'
<1>1. PICK m \in Msgs : m = held[t]
  BY DEF Dispatch, Ownership, TypeOK, Threads
<1>2. /\ t \in Threads /\ t \notin Handlers
      /\ produced \in Nat /\ produced' = produced
      /\ UNCHANGED <<mqVars, JobsLeft, m_outbound_priority_queue, reply, replied>>
  BY ThreadAssumption, JobsLeftAfter DEF Threads, Servers, Dispatch, Ownership, TypeOK
<1>3. WorksOn(t, m) /\ Active(m) /\ Queued(m) = 0
  BY <1>1, <1>2, WorkedOnActive DEF WorksOn
<1>4. /\ \A x \in Msgs \ {m} : MsgState'[x] = MsgState[x] /\ msg'[x] = msg[x]
      /\ msg'[m] = [fields EXCEPT !.MsgConnectionType = DispatchedType(@)]
      /\ \A u \in Threads \ {t} : held'[u] = held[u]
      /\ held'[t] = NoMsg
  BY <1>1, <1>2 DEF Dispatch, Ownership, TypeOK, PoolTypeOK
<1>5. msg'[m].MsgID = msg[m].MsgID /\ msg'[m].MsgPriority = fields.MsgPriority
  BY <1>1, <1>4 DEF MsgFields
<1>6. ~IsNotify(m)'
  BY <1>5 DEF IsNotify, NotifyPriority, MSG_PRIORITY, MSG_PRIORITY_HIGHEST
<1>7. \A x \in Msgs : ~SameExchange(m, x)' /\ ~SameExchange(x, m)'
  <2>1. \A x \in Msgs : ~SameExchange(m, x)
    BY <1>1 DEF Exchanges, OneRequest
  <2>2. QED
    BY <1>3, <1>4, <1>5, <2>1 DEF SameExchange, Active
<1>8. \A h \in Handlers : held'[h] = held[h] /\ held[h] # m
  <2>1. \A h \in Handlers : held[h] = m => h = t
    BY <1>2, <1>3, ThreadKinds DEF Ownership, OneHolder, WorksOn
  <2>2. QED
    BY <1>2, <1>4, <2>1, ThreadKinds
<1>9. \A u \in Servers \cup Apps : held'[u] \in {held[u], NoMsg, m}
  BY <1>4 DEF Threads
<1>10. msg'[m].MsgID \in 1 .. produced' /\ produced' \in {produced, produced + 1}
  BY <1>2, <1>3, <1>5 DEF Exchanges, OneRequest
<1>11. QED
  BY <1>2, <1>3, <1>4, <1>6, <1>7, <1>8, <1>9, <1>10, LoneMessage

LEMMA DispatchParsedExchanges ==
    ASSUME Ownership, Ownership', Exchanges, NEW t \in Servers \cup Apps, NEW ct \in MSG_CT,
           DispatchParsed(t, ct)
    PROVE  Exchanges'
<1>1. PICK p \in Priorities, r \in ReplyActions, n \in NotifyActions, c \in Commands :
             Dispatch(t, Parse(msg[held[t]], ct, p, r, n, c))
  BY DEF DispatchParsed
<1>2. msg[held[t]] \in MsgFields
  BY <1>1 DEF Dispatch, Ownership, TypeOK, PoolTypeOK, Threads
<1> DEFINE fields == Parse(msg[held[t]], ct, p, r, n, c)
<1>3. fields \in MsgFields
  BY <1>2, ParseType
<1>4. fields.MsgID = msg[held[t]].MsgID /\ fields.MsgPriority = p
  BY <1>2 DEF Parse, MsgFields
<1>5. p \in MSG_PRIORITY
  BY InputAssumption
<1>6. QED
  <2> HIDE DEF fields
  <2>1. Dispatch(t, fields)
    BY <1>1 DEF fields
  <2>2. QED
    BY <1>3, <1>4, <1>5, <2>1, DispatchExchanges

LEMMA UDPServerExchanges ==
    ASSUME Ownership, Exchanges, NEW u \in UDPServers, UDPServerThread(u)
    PROVE  Exchanges'
<1>1. Ownership' /\ u \in Servers \cup Apps /\ u \in Threads /\ u \notin Handlers
  BY UDPServerInv, ThreadAssumption DEF Servers, Threads
<1>2. CASE UDPCreate(u)
  <2>1. ResetMsg.MsgPriority \in MSG_PRIORITY
    BY DEF ResetMsg, MSG_PRIORITY, MSG_PRIORITY_MID
  <2>2. QED
    BY <1>1, <1>2, <2>1, ResetMsgType, CreateExchanges DEF UDPCreate
<1>3. CASE UDPDiscard(u)
  <2>1. PICK m \in Msgs : m = held[u]
    BY <1>1, <1>3 DEF UDPDiscard, Ownership, TypeOK
  <2>2. /\ \A x \in Msgs \ {m} : MsgState'[x] = MsgState[x]
        /\ MsgState'[m] = "MARKFORREUSE"
        /\ MsgState[m] = "INUSE"
    BY <1>1, <1>3, <2>1, HeldInUse, PoolAssumption DEF UDPDiscard, Ownership, TypeOK, PoolTypeOK
  <2>3. /\ UNCHANGED <<msg, mqVars, JobsLeft, m_outbound_priority_queue, reply, replied, produced>>
        /\ \A t \in Threads : held'[t] = IF t = u THEN NoMsg ELSE held[t]
    BY <1>1, <1>3, JobsLeftAfter DEF UDPDiscard, Ownership, TypeOK
  <2>4. \A x \in Msgs : Quiet(x)
    BY <2>2, <2>3 DEF Quiet, Active, Face
  <2>5. \A x \in Msgs : /\ Fresh(x)' => Fresh(x) /\ MsgState'[x] = MsgState[x]
                        /\ MsgState[x] = "DELIVERED" => MsgState'[x] = "DELIVERED"
    BY <2>2, <2>3 DEF Fresh, IsNotify
  <2>6. \A h \in Handlers : held'[h] = held[h]
    BY <1>1, <2>3, ThreadKinds
  <2>7. \A x \in Msgs, t \in Threads : WorksOn(t, x)' => WorksOn(t, x)
    BY <2>3, PoolAssumption DEF WorksOn
  <2>8. \A h \in Handlers : /\ reply[h] # NoMsg \/ h \in replied => held[h] # NoMsg
                            /\ h \in replied => reply[h] = NoMsg
    BY DEF Exchanges, JobsAreRequests
  <2>9. \A t \in Servers \cup Apps : held'[t] = held[t] \/ held'[t] = NoMsg
    BY <2>3 DEF Threads
  <2>10. QED
    BY <1>1, <2>3, <2>4, <2>5, <2>6, <2>7, <2>8, <2>9, OthersQuiet
<1>4. CASE UDPDispatch(u)
  BY <1>1, <1>4, DispatchParsedExchanges DEF UDPDispatch, MSG_CT
<1>5. CASE UDPAfterDispatch(u)
  <2>1. PICK m \in Msgs : m = tail[u]
    BY <1>5 DEF UDPAfterDispatch, Ownership, TypeOK
  <2>2. /\ UNCHANGED <<MsgState, mqVars, JobsLeft, m_outbound_priority_queue, held, reply,
                       replied, produced>>
        /\ msg' = msg \/ msg' = [msg EXCEPT ![m].UDPSocketHandle = TRUE]
    BY <1>5, <2>1, JobsLeftAfter DEF UDPAfterDispatch, Ownership
  <2>3. \A x \in Msgs : /\ Face(x)' = Face(x)
                        /\ msg'[x].MsgPriority = msg[x].MsgPriority
                        /\ msg'[x].MsgSendRetryCount = msg[x].MsgSendRetryCount
    <3>1. \A x \in Msgs : msg[x] \in MsgFields
      BY DEF Ownership, TypeOK, PoolTypeOK
    <3>2. QED
      BY <2>2, <3>1 DEF Face, MsgFields, Ownership, TypeOK, PoolTypeOK
  <2>4. \A x \in Msgs : Quiet(x)
    BY <2>2, <2>3 DEF Quiet, Active
  <2>5. \A x \in Msgs : Fresh(x)' => Fresh(x) /\ MsgState'[x] = MsgState[x]
    BY <2>2, <2>3 DEF Fresh, IsNotify
  <2>6. \A x \in Msgs, t \in Threads : WorksOn(t, x)' => WorksOn(t, x)
    BY <2>2 DEF WorksOn
  <2>7. \A h \in Handlers : /\ reply[h] # NoMsg \/ h \in replied => held[h] # NoMsg
                            /\ h \in replied => reply[h] = NoMsg
    BY DEF Exchanges, JobsAreRequests
  <2>8. QED
    BY <1>1, <2>2, <2>4, <2>5, <2>6, <2>7, OthersQuiet
<1>6. QED
  BY <1>2, <1>3, <1>4, <1>5 DEF UDPServerThread

LEMMA AppExchanges ==
    ASSUME Ownership, Exchanges, NEW a \in Apps, AppThread(a)
    PROVE  Exchanges'
<1>1. Ownership' /\ a \in Servers \cup Apps /\ a \in Threads
  BY AppInv DEF Threads
<1>2. CASE AppCreate(a)
  <2>1. PICK ct \in AppKinds :
               Create(a, [ResetMsg EXCEPT !.MsgConnectionType = ct,
                                          !.MsgPriority = IF ct = "INTERNAL"
                                                          THEN MSG_PRIORITY_HIGH
                                                          ELSE MSG_PRIORITY_MID])
    BY <1>2 DEF AppCreate
  <2> DEFINE fields == [ResetMsg EXCEPT !.MsgConnectionType = ct,
                                        !.MsgPriority = IF ct = "INTERNAL"
                                                        THEN MSG_PRIORITY_HIGH
                                                        ELSE MSG_PRIORITY_MID]
  <2>2. fields \in MsgFields
    BY AppFieldsType
  <2>3. fields.MsgPriority \in MSG_PRIORITY
    BY DEF ResetMsg, MSG_PRIORITY, MSG_PRIORITY_HIGH, MSG_PRIORITY_MID
  <2>4. Create(a, fields)
    BY <2>1
  <2> HIDE DEF fields
  <2>5. QED
    BY <1>1, <2>2, <2>3, <2>4, CreateExchanges
<1>3. CASE AppDispatch(a)
  <2>1. PICK c \in Commands, r \in MSG_REPLY_ACTION, f \in Commands \cup {NoCommand} :
               Dispatch(a, [msg[held[a]] EXCEPT !.MsgCommand = c, !.MsgReplyAction = r,
                                                !.MsgFrom = f])
    BY <1>3, InputAssumption DEF AppDispatch, MSG_REPLY_ACTION
  <2>2. PICK m \in Msgs : m = held[a]
    BY <1>1, <1>3 DEF AppDispatch, Ownership, TypeOK
  <2> DEFINE f1 == [msg[held[a]] EXCEPT !.MsgCommand = c]
             f2 == [f1 EXCEPT !.MsgReplyAction = r]
             f3 == [f2 EXCEPT !.MsgFrom = f]
  <2>3. msg[m] \in MsgFields
    BY DEF Ownership, TypeOK, PoolTypeOK
  <2>4. f3 \in MsgFields /\ f3.MsgID = msg[m].MsgID /\ f3.MsgPriority = msg[m].MsgPriority
    <3>1. f1 \in MsgFields
      BY <2>2, <2>3, SetField
    <3>2. f1.MsgID = msg[m].MsgID /\ f1.MsgPriority = msg[m].MsgPriority
      BY <2>2, <2>3 DEF MsgFields
    <3> HIDE DEF f1
    <3>3. f2 \in MsgFields
      BY <3>1, SetField
    <3>4. f2.MsgID = msg[m].MsgID /\ f2.MsgPriority = msg[m].MsgPriority
      BY <3>1, <3>2, <3>3 DEF MsgFields
    <3> HIDE DEF f2
    <3>5. f3 \in MsgFields
      BY <3>3, SetField
    <3>6. QED
      BY <3>3, <3>4, <3>5 DEF MsgFields
  <2>5. msg[m].MsgPriority \in MSG_PRIORITY
    <3>1. ~IsNotify(m)
      BY <1>1, <2>2 DEF Exchanges, NotifyKind, WorksOn
    <3>2. QED
      BY <2>3, <3>1 DEF IsNotify, MsgFields, NotifyPriority
  <2>6. Dispatch(a, f3)
    BY <2>1, Zenon DEF f1, f2
  <2> HIDE DEF f3
  <2>7. QED
    BY <1>1, <2>2, <2>4, <2>5, <2>6, DispatchExchanges
<1>4. QED
  BY <1>2, <1>3 DEF AppThread

LEMMA HandlersKept ==
    ASSUME Exchanges
    PROVE  \A h \in Handlers : /\ reply[h] # NoMsg \/ h \in replied => held[h] # NoMsg
                               /\ h \in replied => reply[h] = NoMsg
BY DEF Exchanges, JobsAreRequests

LEMMA ConnectionQueueExchanges ==
    ASSUME Ownership, Exchanges, ConnectionQueueThread
    PROVE  Exchanges'
<1>1. Ownership' /\ CQ \in Servers \cup Apps /\ CQ \in Threads
  BY ConnectionQueueInv DEF Servers, Threads
<1>2. CASE CQBegin \/ CQOutbound \/ AfterTransmit
  <2>1. UNCHANGED <<msgVars, mqVars, JobsLeft, m_outbound_priority_queue, held, reply,
                    replied, produced>>
    BY <1>2, JobsLeftAfter DEF CQBegin, CQOutbound, AfterTransmit, threadVars, Ownership
  <2>2. \A x \in Msgs : Quiet(x) /\ (Fresh(x)' => Fresh(x))
    BY <2>1 DEF Quiet, Active, Face, Fresh, IsNotify, msgVars
  <2>3. \A x \in Msgs, t \in Threads : WorksOn(t, x)' => WorksOn(t, x)
    BY <2>1 DEF WorksOn
  <2>4. QED
    BY <1>1, <2>1, <2>2, <2>3, HandlersKept, OthersQuiet DEF msgVars
<1>3. CASE TCPCreate
  <2> DEFINE fields == [ResetMsg EXCEPT !.TCPSocketHandle = TRUE, !.MsgConnectionType = "IB_TCP"]
  <2>1. fields \in MsgFields
    BY TCPFieldsType
  <2>2. fields.MsgPriority \in MSG_PRIORITY
    BY DEF ResetMsg, MSG_PRIORITY, MSG_PRIORITY_MID
  <2>3. Create(CQ, fields)
    BY <1>3 DEF TCPCreate
  <2> HIDE DEF fields
  <2>4. QED
    BY <1>1, <2>1, <2>2, <2>3, CreateExchanges
<1>4. CASE TCPDispatch
  BY <1>1, <1>4, DispatchParsedExchanges DEF TCPDispatch, MSG_CT
<1>5. ASSUME NEW m \in Msgs, Transmit(m)
      PROVE  Exchanges'
  <2>1. PICK result \in {"DELIVERED", "UNDELIVERED"} \X BOOLEAN :
               /\ MsgState' = [MsgState EXCEPT ![m] = result[1]]
               /\ msg' = [msg EXCEPT ![m].TCPSocketHandle = result[2]]
    BY <1>5 DEF Transmit, TransmitMsg
  <2>2. m_outbound_priority_queue[m] > 0 /\ MsgState[m] = "INUSE"
    BY <1>5, QueuedActive DEF Transmit, IsTop
  <2>3. /\ \A x \in Msgs \ {m} : MsgState'[x] = MsgState[x] /\ msg'[x] = msg[x]
        /\ MsgState'[m] \in {"DELIVERED", "UNDELIVERED"}
    BY <2>1 DEF Ownership, TypeOK, PoolTypeOK
  <2>4. Face(m)' = Face(m)
    <3>1. msg[m] \in MsgFields
      BY DEF Ownership, TypeOK, PoolTypeOK
    <3>2. msg'[m] = [msg[m] EXCEPT !.TCPSocketHandle = result[2]]
      BY <2>1 DEF Ownership, TypeOK, PoolTypeOK
    <3>3. QED
      BY <3>1, <3>2 DEF Face, MsgFields
  <2>5. \A x \in Msgs : Quiet(x)
    BY <2>2, <2>3, <2>4 DEF Quiet, Active, Face
  <2>6. /\ m_outbound_priority_queue'[m] = 0
        /\ \A x \in Msgs \ {m} : m_outbound_priority_queue'[x] = m_outbound_priority_queue[x]
    <3>1. /\ m_priority_queue[m] \in Nat /\ JobsLeft[m] \in Nat
          /\ m_outbound_priority_queue \in [Msgs -> Nat]
      BY JobsLeftType DEF Ownership, TypeOK, QueueTypeOK
    <3>2. Queued(m) <= 1
      BY DEF Ownership, OwnedInUse
    <3>3. m_outbound_priority_queue[m] = 1
      BY <2>2, <3>1, <3>2 DEF Queued
    <3>4. QED
      BY <1>5, <3>1, <3>3 DEF Transmit, Pop
  <2>7. \A x \in Msgs : Fresh(x)' => x # m /\ Fresh(x)
    BY <2>3 DEF Fresh, IsNotify
  <2>8. UNCHANGED <<mqVars, JobsLeft, held, reply, replied, produced>>
    BY <1>5, JobsLeftAfter DEF Transmit, Ownership
  <2>9. \A x \in Msgs, t \in Threads : WorksOn(t, x)' => WorksOn(t, x)
    BY <2>8 DEF WorksOn
  <2>10. \A x \in Msgs : MsgState[x] = "DELIVERED" => MsgState'[x] = "DELIVERED"
    BY <2>2, <2>3
  <2>11. QED
    BY <1>1, <2>3, <2>5, <2>6, <2>7, <2>8, <2>9, <2>10, HandlersKept, OthersQuiet
<1>6. QED
  BY <1>2, <1>3, <1>4, <1>5 DEF ConnectionQueueThread

LEMMA TakeJobExchanges ==
    ASSUME Ownership, Exchanges, NEW m \in Msgs, TakeJob(m)
    PROVE  Exchanges'
<1>1. Ownership'
  BY TakeJobInv
<1>2. MsgState[m] = "INUSE" /\ JobsLeft[m] > 0
  BY QueuedActive, JobsLeftAfter DEF IsTop, Ownership
<1>3. ~IsOutbound(m) /\ ~IsNotify(m)
  BY <1>2 DEF Exchanges, JobsAreRequests, NotifyKind, Active
<1>4. /\ UNCHANGED <<msg, mqVars, m_outbound_priority_queue, reply, replied, produced>>
      /\ \A x \in Msgs : JobsLeft'[x] > 0 => JobsLeft[x] > 0
  <2>1. JobsLeft' = [JobsLeft EXCEPT ![m] = @ - 1]
    BY JobsLeftAfter DEF Ownership, Pop
  <2>2. \A x \in Msgs : JobsLeft'[x] > 0 => JobsLeft[x] > 0
    BY <2>1, JobsLeftType DEF Ownership
  <2>3. QED
    BY <2>2 DEF TakeJob
<1>5. \/ /\ UNCHANGED MsgState
         /\ \E h \in Handlers : held[h] = NoMsg /\ held' = [held EXCEPT ![h] = m]
      \/ MsgState' = [MsgState EXCEPT ![m] = "PENDING"] /\ UNCHANGED held
  BY DEF TakeJob, OnProcess, StateWhenBusy
<1>6. \A x \in Msgs : /\ Quiet(x)
                      /\ Fresh(x)' => Fresh(x) /\ MsgState'[x] = MsgState[x]
                      /\ MsgState[x] = "DELIVERED" => MsgState'[x] = "DELIVERED"
  BY <1>2, <1>3, <1>4, <1>5 DEF Quiet, Active, Face, Fresh, IsNotify, Ownership, TypeOK, PoolTypeOK
<1>7. \A t \in Threads : \/ held'[t] = held[t]
                         \/ t \in Handlers /\ held[t] = NoMsg /\ held'[t] = m
  BY <1>5 DEF Ownership, TypeOK
<1>8. \A x \in Msgs, t \in Threads : WorksOn(t, x)' => WorksOn(t, x) \/ ~IsNotify(x)
  BY <1>3, <1>4, <1>7 DEF WorksOn
<1>9. \A t \in Servers \cup Apps : held'[t] = held[t]
  BY <1>7, ThreadAssumption DEF Servers, Threads
<1>10. \A h \in Handlers :
         /\ held'[h] # NoMsg => held'[h] = held[h] \/ ~IsOutbound(held'[h])
         /\ held[h] # NoMsg => held'[h] = held[h]
  BY <1>3, <1>7, ThreadKinds
<1>11. \A h \in Handlers :
         /\ reply'[h] # NoMsg \/ h \in replied' => held'[h] # NoMsg
         /\ h \in replied' => reply'[h] = NoMsg
  BY <1>4, <1>10, HandlersKept
<1>12. \A h \in Handlers, p, q \in Msgs :
         held[h] = q /\ (reply[h] = p \/ h \in replied) =>
           held'[h] = q /\ (reply'[h] = p \/ h \in replied')
  BY <1>4, <1>10, PoolAssumption
<1>13. QED
  BY <1>1, <1>4, <1>6, <1>8, <1>9, <1>10, <1>11, <1>12, OthersQuiet

LEMMA PopJobExchanges ==
    ASSUME Ownership, Exchanges, PopJob
    PROVE  Exchanges'
<1>1. Ownership'
  BY PopJobInv
<1>2. UNCHANGED <<msgVars, mqVars, JobsLeft, m_outbound_priority_queue, held, reply, replied,
                  produced>>
  BY JobsLeftAfter DEF Ownership, PopJob, threadVars
<1>3. \A x \in Msgs : Quiet(x) /\ (Fresh(x)' => Fresh(x))
  BY <1>2 DEF Quiet, Active, Face, Fresh, IsNotify, msgVars
<1>4. \A x \in Msgs, t \in Threads : WorksOn(t, x)' => WorksOn(t, x)
  BY <1>2 DEF WorksOn
<1>5. QED
  BY <1>1, <1>2, <1>3, <1>4, HandlersKept, OthersQuiet DEF msgVars

\* A handler makes the reply to the request it holds: there is no other, or the
\* handler would hold the request with its reply made already.
LEMMA CreateReplyExchanges ==
    ASSUME Ownership, Ownership', Exchanges, NEW h \in Handlers, CreateMessageReply(h)
    PROVE  Exchanges'
<1>1. PICK p \in Msgs : /\ GetMessage(p, ReplyFields(held[h]))
                        /\ reply' = [reply EXCEPT ![h] = p]
  BY DEF CreateMessageReply
<1>2. PICK q \in Msgs : q = held[h]
  BY ThreadKinds DEF CreateMessageReply, Ownership, TypeOK
<1>3. /\ reply[h] = NoMsg /\ h \notin replied
      /\ UNCHANGED <<mqVars, JobsLeft, m_outbound_priority_queue, held, replied, produced>>
  BY JobsLeftAfter DEF CreateMessageReply, Ownership
<1>4. WorksOn(h, q) /\ Active(q) /\ MsgState[q] = "INUSE" /\ Queued(q) = 0
  BY <1>2, ThreadKinds, WorkedOnActive DEF WorksOn
<1>5. /\ MsgState[p] = "INACTIVE" /\ Queued(p) = 0
      /\ \A u \in Threads : ~WorksOn(u, p)
  BY <1>1, GotMessage DEF GetMessage
<1>6. p # q
  BY <1>4, <1>5
<1>7. /\ \A x \in Msgs \ {p} : MsgState'[x] = MsgState[x] /\ msg'[x] = msg[x]
      /\ msg'[p] = ReplyFields(q)
      /\ MsgState'[p] = "INUSE"
      /\ reply'[h] = p
      /\ \A g \in Handlers \ {h} : reply'[g] = reply[g]
  BY <1>1, <1>2 DEF GetMessage, Ownership, TypeOK, PoolTypeOK
<1>8. /\ msg'[p].MsgID = msg[q].MsgID
      /\ msg'[p].MsgPriority = msg[q].MsgPriority
      /\ msg'[p].MsgConnectionType = AnswerType(msg[q].MsgConnectionType)
  BY <1>7 DEF ReplyFields, ResetMsg
<1>9. ~IsOutbound(q) /\ ~IsNotify(q)
  <2>1. ~IsOutbound(q)
    BY <1>2, PoolAssumption DEF Exchanges, JobsAreRequests
  <2>2. QED
    BY <1>4, <2>1, ThreadKinds DEF Exchanges, NotifyKind
<1>10. /\ ~IsNotify(p)' /\ ~IsInbound(p)'
       /\ IsOutbound(p)' <=> IsInbound(q)
  BY <1>8, <1>9 DEF IsNotify, IsInbound, IsOutbound, AnswerType
<1>11. \A x \in Msgs \ {p} : Quiet(x) /\ Active(x)' = Active(x)
  BY <1>7 DEF Quiet, Active, Face
<1>12. \A x, y \in Msgs \ {p} : SameExchange(x, y)' => SameExchange(x, y)
  BY <1>7, <1>11 DEF SameExchange
<1>13. \A x \in Msgs \ {p, q} : SameExchange(p, x)' \/ SameExchange(x, p)' =>
                                  SameExchange(q, x) /\ SameExchange(x, q)
  BY <1>4, <1>7, <1>8, <1>11 DEF SameExchange
<1>14. \A x \in Msgs : SameExchange(x, q) => ~IsReply(x) \/ ~IsInbound(q)
  <2> SUFFICES ASSUME NEW x \in Msgs, SameExchange(x, q), IsReply(x), IsInbound(q)
               PROVE  FALSE
    OBVIOUS
  <2>1. PICK g \in Handlers : held[g] = q /\ (reply[g] = x \/ g \in replied)
    BY <1>4 DEF Exchanges, RepliedOnce
  <2>2. g = h
    BY <1>4, <2>1, ThreadKinds DEF Ownership, OneHolder, WorksOn
  <2>3. QED
    BY <1>3, <2>1, <2>2, PoolAssumption
<1>15. OneRequest'
  <2>1. ASSUME NEW x \in Msgs, Active(x)'
        PROVE  msg'[x].MsgID \in 1 .. produced'
    BY <1>3, <1>4, <1>7, <1>8, <1>11, <2>1 DEF Exchanges, OneRequest
  <2>2. ASSUME NEW x \in Msgs, NEW y \in Msgs, SameExchange(x, y)'
        PROVE  /\ \A t \in Servers \cup Apps : held'[t] # x
               /\ IsInbound(x)' => IsOutbound(y)'
    <3>1. Active(x)' /\ Active(y)' /\ x # y
      BY <2>2 DEF SameExchange
    <3>2. CASE x = p
      BY <1>3, <1>5, <1>10, <3>2 DEF WorksOn, Threads
    <3>3. CASE x = q /\ y = p
      <4>1. \A t \in Servers \cup Apps : held[t] # q
        <5>1. \A t \in Servers \cup Apps : t \notin Handlers
          BY ThreadAssumption DEF Servers
        <5>2. QED
          BY <1>4, <5>1 DEF Ownership, OneHolder, WorksOn, Threads
      <4>2. IsInbound(q)' = IsInbound(q)
        BY <1>6, <1>7 DEF IsInbound
      <4>3. QED
        BY <1>3, <1>10, <3>3, <4>1, <4>2
    <3>4. CASE x \notin {p, q} /\ y = p
      <4>1. SameExchange(x, q)
        BY <1>13, <2>2, <3>4
      <4>2. IsInbound(x) => IsOutbound(q)
        BY <4>1 DEF Exchanges, OneRequest
      <4>3. ~IsInbound(x)'
        BY <1>7, <1>9, <3>4, <4>2 DEF IsInbound
      <4>4. QED
        BY <1>3, <4>1, <4>3 DEF Exchanges, OneRequest
    <3>5. CASE x # p /\ y # p
      BY <1>3, <1>11, <1>12, <2>2, <3>1, <3>5, QuietKinds DEF Exchanges, OneRequest
    <3>6. QED
      BY <3>1, <3>2, <3>3, <3>4, <3>5
  <2>3. QED
    BY <2>1, <2>2 DEF OneRequest
<1>16. JobsAreRequests'
  <2>1. ASSUME NEW x \in Msgs, JobsLeft'[x] > 0
        PROVE  ~IsOutbound(x)'
    <3>1. JobsLeft[x] > 0 /\ x # p
      BY <1>3, <1>5, <2>1, EmptyQueues DEF Ownership, TypeOK
    <3>2. msg'[x] = msg[x] /\ ~IsOutbound(x)
      BY <1>7, <3>1 DEF Exchanges, JobsAreRequests
    <3>3. QED
      BY <3>2 DEF IsOutbound
  <2>2. ASSUME NEW g \in Handlers, held'[g] # NoMsg
        PROVE  ~(IsOutbound(held[g])')
    <3>1. PICK x \in Msgs : x = held[g] /\ held'[g] = x /\ WorksOn(g, x)
      BY <1>3, <2>2, ThreadKinds DEF Ownership, TypeOK, WorksOn
    <3>2. x # p
      BY <1>5, <3>1, ThreadKinds
    <3>3. msg'[x] = msg[x] /\ ~IsOutbound(x)
      BY <1>3, <1>7, <2>2, <3>1, <3>2 DEF Exchanges, JobsAreRequests
    <3>4. QED
      BY <3>1, <3>3 DEF IsOutbound
  <2>3. \A g \in Handlers :
          /\ reply'[g] # NoMsg \/ g \in replied' => held'[g] # NoMsg
          /\ g \in replied' => reply'[g] = NoMsg
    BY <1>2, <1>3, <1>7, HandlersKept, PoolAssumption
  <2>4. QED
    BY <2>1, <2>2, <2>3 DEF JobsAreRequests
<1>17. RepliedOnce'
  <2> SUFFICES ASSUME NEW x \in Msgs, NEW y \in Msgs, SameExchange(x, y)', IsReply(x)'
               PROVE  /\ ~IsReply(y)'
                      /\ IsInbound(y)' =>
                           \/ MsgState'[y] = "DELIVERED"
                           \/ \E g \in Handlers : /\ held'[g] = y
                                                  /\ reply'[g] = x \/ g \in replied'
    BY DEF RepliedOnce
  <2>1. Active(x)' /\ Active(y)' /\ x # y
    BY DEF SameExchange
  <2>2. CASE x = p
    <3>1. IsInbound(q)
      BY <1>10, <2>2 DEF IsReply
    <3>2. CASE y = q
      <4>1. ~IsReply(q)'
        BY <1>6, <1>7, <1>9 DEF IsReply, IsOutbound
      <4>2. held'[h] = q /\ reply'[h] = p
        BY <1>2, <1>3, <1>7
      <4>3. QED
        BY <2>2, <3>2, <4>1, <4>2
    <3>3. CASE y # q
      <4>1. SameExchange(q, y) /\ SameExchange(y, q)
        BY <1>13, <2>1, <2>2, <3>3
      <4>2. ~IsReply(y) /\ ~IsInbound(y)
        <5>1. ~IsReply(y)
          BY <1>14, <3>1, <4>1
        <5>2. IsOutbound(y)
          BY <3>1, <4>1 DEF Exchanges, OneRequest
        <5>3. QED
          BY <5>1, <5>2 DEF IsInbound, IsOutbound
      <4>3. y # p
        BY <2>1, <2>2
      <4>4. QED
        BY <1>11, <2>1, <4>2, <4>3, QuietKinds
    <3>4. QED
      BY <3>2, <3>3
  <2>3. CASE x # p /\ y = p
    <3>1. x # q
      BY <1>7, <1>9, <2>3 DEF IsReply, IsOutbound
    <3>2. SameExchange(x, q)
      BY <1>13, <2>3, <3>1
    <3>3. IsReply(x)
      BY <1>11, <2>1, <2>3, QuietKinds
    <3>4. ~IsInbound(q)
      BY <1>14, <3>2, <3>3
    <3>5. ~IsReply(p)' /\ ~IsInbound(p)'
      BY <1>10, <3>4 DEF IsReply
    <3>6. QED
      BY <2>3, <3>5
  <2>4. CASE x # p /\ y # p
    <3>1. SameExchange(x, y)
      BY <1>12, <2>4
    <3>2. IsReply(x) /\ IsReply(y)' = IsReply(y) /\ IsInbound(y)' = IsInbound(y)
      BY <1>11, <2>1, <2>4, QuietKinds
    <3>3. /\ ~IsReply(y)
          /\ IsInbound(y) => \/ MsgState[y] = "DELIVERED"
                             \/ \E g \in Handlers : held[g] = y /\ (reply[g] = x \/ g \in replied)
      BY <3>1, <3>2 DEF Exchanges, RepliedOnce
    <3>4. \A g \in Handlers : reply[g] = x => reply'[g] = x
      BY <1>3, <1>7, PoolAssumption
    <3>5. QED
      BY <1>3, <1>7, <2>4, <3>2, <3>3, <3>4
  <2>5. QED
    BY <2>2, <2>3, <2>4
<1>18. NotifyKind'
  <2>1. ASSUME NEW x \in Msgs, Active(x)', IsNotify(x)'
        PROVE  IsOutbound(x)' /\ msg'[x].MsgReplyAction # "NONE"
    <3>1. x # p
      BY <1>10, <2>1
    <3>2. QED
      BY <1>11, <2>1, <3>1, QuietKinds DEF Exchanges, NotifyKind
  <2>2. ASSUME NEW x \in Msgs, NEW t \in Threads, WorksOn(t, x)', x # p
        PROVE  ~IsNotify(x)'
    <3>1. WorksOn(t, x)
      BY <1>3, <1>7, <2>2 DEF WorksOn
    <3>2. ~IsNotify(x) /\ msg'[x] = msg[x]
      BY <1>7, <2>2, <3>1 DEF Exchanges, NotifyKind
    <3>3. QED
      BY <3>2 DEF IsNotify
  <2>3. QED
    BY <1>10, <2>1, <2>2 DEF NotifyKind
<1>19. NotifyAhead'
  <2>1. \A n \in Msgs : Fresh(n)' =>
          /\ Fresh(n) /\ Active(n)
          /\ MsgState'[n] = MsgState[n] /\ msg'[n].MsgID = msg[n].MsgID
    BY <1>7, <1>10 DEF Fresh, Active, IsNotify
  <2>2. \A x \in Msgs \ {p} : IsReply(x)' => IsReply(x) /\ msg'[x].MsgID = msg[x].MsgID
    BY <1>7 DEF IsReply, Active, IsNotify, IsOutbound
  <2>3. m_outbound_priority_queue[p] = 0 /\ m_priority_queue[p] = 0
    BY <1>5, EmptyQueues DEF Ownership, TypeOK
  <2>4. NotifyAhead
    BY DEF Exchanges
  <2>5. QED
    BY <1>3, <2>1, <2>2, <2>3, <2>4, OthersNotifyAhead
<1>20. QED
  BY <1>15, <1>16, <1>17, <1>18, <1>19 DEF Exchanges

LEMMA HandlerExchanges ==
    ASSUME Ownership, Exchanges, NEW h \in Handlers, HandlerThread(h)
    PROVE  Exchanges'
<1>1. Ownership' /\ h \in Threads /\ h \notin Servers \cup Apps
  BY HandlerInv, ThreadKinds, ThreadAssumption DEF Servers
<1>2. CASE CreateMessageReply(h)
  BY <1>1, <1>2, CreateReplyExchanges
<1>3. CASE DispatchReply(h)
  <2>1. PICK p \in Msgs : p = reply[h]
    BY <1>3 DEF DispatchReply, Ownership, TypeOK
  <2>2. WorksOn(h, p) /\ Active(p) /\ MsgState[p] = "INUSE" /\ ~IsNotify(p)
    BY <1>1, <2>1, WorkedOnActive DEF WorksOn, Exchanges, NotifyKind
  <2>3. /\ \A x \in Msgs \ {p} : MsgState'[x] = MsgState[x] /\ msg'[x] = msg[x]
        /\ MsgState'[p] = "PENDING"
        /\ msg'[p] = [msg[p] EXCEPT !.MsgConnectionType = DispatchedType(@)]
        /\ reply'[h] = NoMsg /\ \A g \in Handlers \ {h} : reply'[g] = reply[g]
        /\ replied' = replied \cup {h}
        /\ UNCHANGED <<mqVars, JobsLeft, m_outbound_priority_queue, held, produced>>
    BY <1>3, <2>1, JobsLeftAfter DEF DispatchReply, Ownership, TypeOK, PoolTypeOK
  <2>4. /\ Face(p)' = Face(p)
        /\ msg'[p].MsgPriority = msg[p].MsgPriority
    <3>1. msg[p] \in MsgFields
      BY DEF Ownership, TypeOK, PoolTypeOK
    <3>2. QED
      BY <2>3, <3>1 DEF Face, DispatchedType, MsgFields
  <2>5. \A x \in Msgs : /\ Quiet(x)
                        /\ Fresh(x)' => Fresh(x) /\ MsgState'[x] = MsgState[x]
                        /\ MsgState[x] = "DELIVERED" => MsgState'[x] = "DELIVERED"
    BY <2>2, <2>3, <2>4 DEF Quiet, Active, Face, Fresh, IsNotify
  <2>6. \A x \in Msgs, t \in Threads : WorksOn(t, x)' => WorksOn(t, x)
    BY <2>3, PoolAssumption DEF WorksOn
  <2>7. held[h] # NoMsg
    BY <2>1, HandlersKept, PoolAssumption
  <2>8. \A g \in Handlers :
          /\ reply'[g] # NoMsg \/ g \in replied' => held'[g] # NoMsg
          /\ g \in replied' => reply'[g] = NoMsg
    BY <2>3, <2>7, HandlersKept
  <2>9. \A g \in Handlers, x, y \in Msgs :
          held[g] = y /\ (reply[g] = x \/ g \in replied) =>
            held'[g] = y /\ (reply'[g] = x \/ g \in replied')
    BY <2>3
  <2>10. QED
    BY <1>1, <2>3, <2>5, <2>6, <2>8, <2>9, OthersQuiet
<1>4. CASE MarkProcessed(h)
  <2>1. /\ h \in replied /\ held[h] # NoMsg /\ reply[h] = NoMsg
    BY <1>4, HandlersKept DEF MarkProcessed
  <2>2. PICK q \in Msgs : q = held[h]
    BY <1>1, <2>1 DEF Ownership, TypeOK
  <2>3. /\ MsgState[q] = "INUSE"
        /\ MsgState' = [MsgState EXCEPT ![q] = "DELIVERED"]
    BY <1>1, <1>4, <2>1, <2>2, HeldInUse DEF MarkProcessed, StateProcessed
  <2>4. /\ UNCHANGED <<msg, mqVars, JobsLeft, m_outbound_priority_queue, reply, produced>>
        /\ \A t \in Threads : held'[t] = IF t = h THEN NoMsg ELSE held[t]
        /\ replied' = replied \ {h}
    BY <1>1, <1>4, JobsLeftAfter DEF MarkProcessed, Ownership, TypeOK
  <2>5. \A x \in Msgs : /\ Quiet(x)
                        /\ Fresh(x)' => Fresh(x) /\ MsgState'[x] = MsgState[x]
                        /\ MsgState[x] = "DELIVERED" => MsgState'[x] = "DELIVERED"
    BY <2>3, <2>4 DEF Quiet, Active, Face, Fresh, IsNotify, Ownership, TypeOK, PoolTypeOK
  <2>6. \A x \in Msgs, t \in Threads : WorksOn(t, x)' => WorksOn(t, x)
    BY <2>4, PoolAssumption DEF WorksOn
  <2>7. \A g \in Handlers :
          /\ reply'[g] # NoMsg \/ g \in replied' => held'[g] # NoMsg
          /\ g \in replied' => reply'[g] = NoMsg
          /\ held'[g] # NoMsg => held'[g] = held[g]
    BY <2>1, <2>4, HandlersKept, ThreadKinds
  <2>8. \A g \in Handlers, x, y \in Msgs :
          held[g] = y /\ (reply[g] = x \/ g \in replied) =>
            \/ MsgState'[y] = "DELIVERED"
            \/ held'[g] = y /\ (reply'[g] = x \/ g \in replied')
    BY <2>2, <2>3, <2>4, ThreadKinds DEF Ownership, TypeOK, PoolTypeOK
  <2>9. \A t \in Servers \cup Apps : held'[t] = held[t]
    BY <1>1, <2>4 DEF Threads
  <2>10. QED
    BY <1>1, <2>4, <2>5, <2>6, <2>7, <2>8, <2>9, OthersQuiet
<1>5. QED
  BY <1>2, <1>3, <1>4 DEF HandlerThread

\* The inductive invariant: who owns a message, and how the messages of one
\* exchange - request, notification, reply - stand to each other.
THEOREM InductiveInvariant == Spec => []IInv
<1>1. Init => Exchanges
  <2> SUFFICES ASSUME Init
               PROVE  Exchanges
    OBVIOUS
  <2>1. \A m \in Msgs : ~Active(m) /\ MsgState[m] = "INACTIVE" /\ JobsLeft[m] = 0
    BY DEF Init, InitPool, InitQueue, Active, JobsLeft
  <2>2. \A t \in Threads : held[t] = NoMsg
    BY DEF Init
  <2>3. replied = {} /\ \A h \in Handlers : reply[h] = NoMsg
    BY DEF Init
  <2>4. OneRequest /\ RepliedOnce
    BY <2>1 DEF OneRequest, RepliedOnce, SameExchange
  <2>5. JobsAreRequests
    BY <2>1, <2>2, <2>3, ThreadKinds DEF JobsAreRequests
  <2>6. NotifyKind /\ NotifyAhead
    BY <2>1, <2>2, <2>3, ThreadKinds, PoolAssumption
       DEF NotifyKind, NotifyAhead, SameExchange, Fresh, WorksOn
  <2>7. QED
    BY <2>4, <2>5, <2>6 DEF Exchanges
<1>2. Ownership /\ Exchanges /\ [Next]_vars => Exchanges'
  <2> SUFFICES ASSUME Ownership, Exchanges, [Next]_vars
               PROVE  Exchanges'
    OBVIOUS
  <2>1. CASE Running
    BY <2>1, QueueThreadExchanges, ConnectionQueueExchanges, UDPServerExchanges, AppExchanges,
       TakeJobExchanges, PopJobExchanges, HandlerExchanges DEF Running
  <2>2. CASE UNCHANGED vars
    BY <2>2 DEF Exchanges, OneRequest, JobsAreRequests, RepliedOnce, NotifyKind, NotifyAhead,
       SameExchange, Fresh, IsReply, Active, IsInbound, IsOutbound, IsNotify, WorksOn, JobsLeft,
       vars, poolVars, msgVars, mqVars, threadVars
  <2>3. QED
    BY <2>1, <2>2 DEF Next, Dead
<1>3. Ownership /\ Exchanges => IInv
  BY DEF Exchanges, IInv
<1>4. QED
  BY <1>1, <1>2, <1>3, OwnershipHolds, PTL DEF Spec

\* A request gets one reply, and is not handled again once it has it, even if it
\* went back to the message queue because all handlers were busy.
THEOREM OneReplyPerRequest == Spec => []OneReply
<1>1. IInv => OneReply
  <2> SUFFICES ASSUME IInv, NEW p \in Msgs, NEW q \in Msgs, IsReply(p), Active(q),
                      msg[q].MsgID = msg[p].MsgID, p # q
               PROVE  /\ ~IsReply(q)
                      /\ IsInbound(q) /\ MsgState[q] \in {"PENDING", "INUSE"} =>
                           \E h \in Handlers : held[h] = q
    BY DEF OneReply
  <2>1. SameExchange(p, q)
    BY DEF SameExchange, IsReply
  <2>2. QED
    BY <2>1 DEF IInv, RepliedOnce
<1>2. QED
  BY <1>1, InductiveInvariant, PTL

\* The connection queue tries to send a reply only after it has tried to send the
\* notification of its exchange.
THEOREM NotificationFirst == Spec => NotifyFirst
<1> DEFINE FirstInStep ==
             \A p \in Msgs :
               cqCur' = p /\ cqCur # p /\ ~IsNotify(p) =>
                 ~\E n \in Msgs : /\ IsNotify(n)
                                   /\ msg[n].MsgID = msg[p].MsgID
                                   /\ MsgState[n] \in {"PENDING", "INUSE"}
                                   /\ msg[n].MsgSendRetryCount = 0
<1>1. ASSUME IInv, [Next]_vars, NEW p \in Msgs, cqCur' = p, cqCur # p
      PROVE  Transmit(p)
  <2>1. CASE UNCHANGED cqCur
    BY <1>1, <2>1
  <2>2. CASE cqCur' = NoMsg
    BY <1>1, <2>2, PoolAssumption
  <2>3. \/ UNCHANGED cqCur
        \/ cqCur' = NoMsg
        \/ \E m \in Msgs : Transmit(m)
    <3>1. CASE UNCHANGED vars
      BY <3>1 DEF vars, threadVars
    <3>2. CASE MsgQueueThread
      BY <3>2 DEF MsgQueueThread, threadVars
    <3>3. CASE ConnectionQueueThread
      BY <3>3 DEF ConnectionQueueThread, CQBegin, CQOutbound, AfterTransmit, TCPCreate,
         TCPDispatch, DispatchParsed, Create, Dispatch, threadVars
    <3>4. CASE \E u \in UDPServers : UDPServerThread(u)
      BY <3>4 DEF UDPServerThread, UDPCreate, UDPDiscard, UDPDispatch, UDPAfterDispatch,
         DispatchParsed, Create, Dispatch
    <3>5. CASE \E a \in Apps : AppThread(a)
      BY <3>5 DEF AppThread, AppCreate, AppDispatch, Create, Dispatch
    <3>6. CASE \E m \in Msgs : TakeJob(m)
      BY <3>6 DEF TakeJob
    <3>7. CASE \E h \in Handlers : HandlerThread(h)
      BY <3>7 DEF HandlerThread, CreateMessageReply, DispatchReply, MarkProcessed
    <3>8. CASE PopJob
      BY <3>8 DEF PopJob, threadVars
    <3>9. QED
      BY <1>1, <3>1, <3>2, <3>3, <3>4, <3>5, <3>6, <3>7, <3>8 DEF Next, Running, Dead
  <2>4. \A m \in Msgs : Transmit(m) => m = p
    BY <1>1 DEF Transmit
  <2>5. QED
    BY <2>1, <2>2, <2>3, <2>4
<1>2. IInv /\ [Next]_vars => FirstInStep
  <2> SUFFICES ASSUME IInv, [Next]_vars, NEW p \in Msgs, cqCur' = p, cqCur # p, ~IsNotify(p),
                      NEW n \in Msgs, IsNotify(n), msg[n].MsgID = msg[p].MsgID,
                      MsgState[n] \in {"PENDING", "INUSE"}, msg[n].MsgSendRetryCount = 0
               PROVE  FALSE
    OBVIOUS
  <2>1. Transmit(p) /\ Ownership /\ Exchanges
    BY <1>1 DEF IInv, Exchanges
  <2>2. IsTop(m_outbound_priority_queue, p)
    BY <2>1 DEF Transmit
  <2>3. Active(p) /\ m_outbound_priority_queue[p] > 0
    BY <2>1, <2>2, QueuedActive DEF IsTop
  <2>4. IsOutbound(p)
    BY <2>1 DEF Transmit, TransmitMsg, IsOutbound
  <2>5. msg[p].MsgID # 0
    <3>1. msg[p].MsgID \in 1 .. produced
      BY <2>1, <2>3 DEF Exchanges, OneRequest
    <3>2. produced \in Nat
      BY <2>1 DEF Ownership, TypeOK
    <3>3. QED
      BY <3>1, <3>2
  <2>6. IsReply(p) /\ Fresh(n) /\ SameExchange(n, p)
    BY <2>3, <2>4, <2>5 DEF IsReply, Fresh, SameExchange, Active
  <2>7. m_outbound_priority_queue[n] > 0
    BY <2>1, <2>3, <2>6 DEF Exchanges, NotifyAhead
  <2>8. QED
    BY <2>1, <2>2, <2>7, NotifyOnTop DEF Ownership, TypeOK
<1>3. QED
  BY <1>2, InductiveInvariant, PTL DEF Spec, NotifyFirst
=============================================================================
