------------------------------- MODULE MsgPool -------------------------------
(***************************************************************************)
(* The pool of message objects (cMsgPool, msgpool.cpp) and the fields of a *)
(* message (cMsg, msg.cpp) that the routing of messages depends on.        *)
(*                                                                         *)
(* The order of m_Messages and of m_FreeMsgStack is abstracted: the list   *)
(* is the set of the objects that exist, the stack is a bag (how often an  *)
(* object is on it), so that a double return is visible.  Any object on    *)
(* the bag may be popped.                                                  *)
(***************************************************************************)
EXTENDS Naturals

CONSTANTS
    Msgs,           \* the addresses a message object can have (bounds the heap)
    NoMsg,          \* the null pointer
    Commands,       \* the commands messages carry
    NoCommand,      \* the empty command of a fresh message
    MaxNew,         \* bound on the messages producers create, and so on MsgIDs
    MAX_MSG_RETRY   \* 10 in the code (msgqueue.cpp, line 54)

ASSUME PoolAssumption ==
    /\ NoMsg \notin Msgs
    /\ NoCommand \notin Commands
    /\ MaxNew \in Nat
    /\ MAX_MSG_RETRY \in Nat \ {0}

VARIABLES
    m_Messages,     \* the message objects that exist
    m_FreeMsgStack, \* how often each object is on the stack of free messages
    MsgState,       \* MSG_STATE of each object
    msg             \* the other fields of each object

poolVars == <<m_Messages, m_FreeMsgStack>>
msgVars == <<MsgState, msg>>

MSG_STATE == {"INACTIVE", "PENDING", "INUSE", "UNDELIVERED", "DELIVERED",
              "PROCESSED", "MARKFORREUSE"}

MSG_CT == {"NOTSET", "IB_UDP", "IB_TCP", "OB_UDP", "OB_TCP", "INTERNAL"}

MSG_REPLY_ACTION == {"NONE", "WAIT", "NOWAIT"}

\* The five levels a message header can ask for.
MSG_PRIORITY == {0, 64, 128, 192, 255}
MSG_PRIORITY_MID == 128
MSG_PRIORITY_HIGH == 192
MSG_PRIORITY_HIGHEST == 255

\* A notification overtakes every message with a priority of its own.
NotifyPriority == MSG_PRIORITY_HIGHEST + 1000

\* TCPSocketHandle and UDPSocketHandle are only compared with -1: TRUE stands
\* for a handle.  MsgID 0 is an id nobody refers to yet.  MsgLastRetryTS is 0
\* exactly when MsgSendRetryCount is, so the count stands for both.  MsgFrom is kept
\* of internal messages only, whose answers take it for their command.
MsgFields ==
    [MsgConnectionType : MSG_CT,
     TCPSocketHandle   : BOOLEAN,
     UDPSocketHandle   : BOOLEAN,
     MsgSendRetryCount : 0 .. MAX_MSG_RETRY,
     MsgPriority       : MSG_PRIORITY \cup {MSG_PRIORITY_HIGHEST + 1000},
     MsgNotifyAction   : BOOLEAN,
     MsgReplyAction    : MSG_REPLY_ACTION,
     MsgID             : 0 .. MaxNew,
     MsgCommand        : Commands \cup {NoCommand},
     MsgFrom           : Commands \cup {NoCommand}]

\* cMsg::ResetMsg: the fields of a message fresh from the pool.
ResetMsg ==
    [MsgConnectionType |-> "NOTSET",
     TCPSocketHandle   |-> FALSE,
     UDPSocketHandle   |-> FALSE,
     MsgSendRetryCount |-> 0,
     MsgPriority       |-> MSG_PRIORITY_MID,
     MsgNotifyAction   |-> FALSE,
     MsgReplyAction    |-> "NONE",
     MsgID             |-> 0,
     MsgCommand        |-> NoCommand,
     MsgFrom           |-> NoCommand]

\* cMsg::DispatchMsg: a message nobody gave a connection type is internal.
DispatchedType(ct) == IF ct = "NOTSET" THEN "INTERNAL" ELSE ct

InitPool ==
    /\ m_Messages = {}
    /\ m_FreeMsgStack = [m \in Msgs |-> 0]
    /\ MsgState = [m \in Msgs |-> "INACTIVE"]
    /\ msg = [m \in Msgs |-> ResetMsg]

-----------------------------------------------------------------------------
\* cMsgPool::GetReusableMessage yields m: popped from the free stack, or, when
\* the stack is empty, an object that did not exist before.
GetReusableMessage(m) ==
    \/ /\ m_FreeMsgStack[m] > 0
       /\ m_FreeMsgStack' = [m_FreeMsgStack EXCEPT ![m] = @ - 1]
       /\ UNCHANGED m_Messages
    \/ /\ \A x \in Msgs : m_FreeMsgStack[x] = 0
       /\ m \notin m_Messages
       /\ m_Messages' = m_Messages \cup {m}
       /\ UNCHANGED m_FreeMsgStack

\* cMsgPool::GetMessage, called by a thread that then works on m.  The caller
\* gives the fields it sets before anybody else can see the message.
GetMessage(m, fields) ==
    /\ GetReusableMessage(m)
    /\ MsgState' = [MsgState EXCEPT ![m] = "INUSE"]
    /\ msg' = [msg EXCEPT ![m] = fields]

StateInPool_Forgotten(s) == s

\* The state cMsgPool::ReturnToPool leaves a message with, whatever it was.
StateInPool(s) == "INACTIVE"

ReturnToPool(m) ==
    /\ m_FreeMsgStack' = [m_FreeMsgStack EXCEPT ![m] = @ + 1]
    /\ MsgState' = [MsgState EXCEPT ![m] = StateInPool(@)]
    /\ UNCHANGED <<m_Messages, msg>>

FlushFreeStack_Skipped == m_FreeMsgStack

\* cMsgPool::FlushFreeStack
FlushFreeStack == [m \in Msgs |-> 0]

\* cMsgPool::DeleteCurrent and the delete that follows it: the object is gone,
\* and its address is as good as one never allocated.
DeleteCurrent(m) ==
    /\ m_Messages' = m_Messages \ {m}
    /\ MsgState' = [MsgState EXCEPT ![m] = "INACTIVE"]
    /\ msg' = [msg EXCEPT ![m] = ResetMsg]
    /\ UNCHANGED m_FreeMsgStack

PoolTypeOK ==
    /\ m_Messages \in SUBSET Msgs
    /\ m_FreeMsgStack \in [Msgs -> Nat]
    /\ MsgState \in [Msgs -> MSG_STATE]
    /\ msg \in [Msgs -> MsgFields]
=============================================================================
