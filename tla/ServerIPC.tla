------------------------------- MODULE ServerIPC -------------------------------
(***************************************************************************)
(* cServerIPC (serveripc.cpp): the client by which another program talks   *)
(* to a server.  Its one caller makes any of the calls in any order; the   *)
(* peer sends, closes and takes what it is sent whenever it likes, also    *)
(* between two passes of the loops in Send and CheckForResponse.           *)
(*                                                                         *)
(* What the peer sends is a sequence of numbers that go on from one        *)
(* connection to the next, so that every piece is told from every other.   *)
(***************************************************************************)
EXTENDS Integers, Sequences

CONSTANTS
    MaxDelay,   \* the longest delay a caller gives, in seconds
    MaxSize,    \* the longest content a caller sends
    MaxPieces,  \* bound: the pieces peers send in all
    MaxOpens    \* bound: the sockets the kernel gives

ASSUME ServerIPCAssumption ==
    MaxDelay \in Nat /\ MaxSize \in Nat /\ MaxPieces \in Nat /\ MaxOpens \in Nat

VARIABLES
    m_Socketfd,     \* 0 when there is none, -1 when socket() failed
    m_buffer,
    opened,         \* sockets the kernel has given to the object
    kernel,         \* those that are open
    wire,           \* what the peer sent and was not received
    closed,         \* how the peer has ended the connection: "no", "fin" or "rst"
    given,          \* what the peer sent since the connection, or Reset
    pieces,         \* how many it sent in all
    call            \* the call being made: [op, size, status, delay, end, anything, rc]

object == <<m_Socketfd, m_buffer>>
net == <<wire, closed, given, pieces>>
ipcVars == <<object, opened, kernel, net, call>>

Idle(op, rc) == [op |-> op, size |-> 0, status |-> 0, delay |-> -1, end |-> 0,
                 anything |-> 0, rc |-> rc]
Free == call.op \notin {"Send", "CheckForResponse"}

IPCInit ==
    /\ m_Socketfd = 0 /\ m_buffer = <<>>
    /\ opened = 0 /\ kernel = {}
    /\ wire = <<>> /\ closed = "no" /\ given = <<>> /\ pieces = 0
    /\ call = Idle("none", "SUCCESS")

-----------------------------------------------------------------------------
\* Close: what the peer still sends is lost, and the buffer is emptied.
AfterClose_Kept == m_buffer
AfterClose == <<>>

Closed_None == kernel
Closed == kernel \ {m_Socketfd}

Close ==
    /\ Free
    /\ m_Socketfd' = 0 /\ m_buffer' = AfterClose /\ kernel' = Closed
    /\ wire' = <<>> /\ given' = <<>> /\ closed' = "no"
    /\ call' = Idle("Close", "SUCCESS")
    /\ UNCHANGED <<opened, pieces>>

\* Open closes what was open, and fails before there is a socket, for want of one, or
\* because nobody listens.
Open(outcome) ==
    /\ Free
    /\ m_buffer' = AfterClose
    /\ wire' = <<>> /\ given' = <<>> /\ closed' = "no"
    /\ \/ /\ outcome = "SUCCESS" /\ opened < MaxOpens
          /\ opened' = opened + 1
          /\ m_Socketfd' = opened + 1 /\ kernel' = Closed \cup {opened + 1}
       \/ /\ outcome \in {"INVALID_PARAMS", "UNABLE_TO_CONNECT_TO_HOST"}
          /\ m_Socketfd' = 0 /\ kernel' = Closed /\ UNCHANGED opened
       \/ /\ outcome = "UNABLE_TO_CREATE_SOCKET"
          /\ m_Socketfd' = -1 /\ kernel' = Closed /\ UNCHANGED opened
    /\ call' = Idle("Open", outcome)
    /\ UNCHANGED pieces

Reset ==
    /\ Free
    /\ m_buffer' = <<>> /\ given' = wire
    /\ call' = Idle("Reset", "SUCCESS")
    /\ UNCHANGED <<m_Socketfd, opened, kernel, wire, closed, pieces>>

\* A connection is there: without one, send and recv fail.
Connected == m_Socketfd \in kernel

StartSend(size) ==
    /\ Free
    /\ call' = [Idle("Send", "SUCCESS") EXCEPT !.size = size]
    /\ UNCHANGED <<object, opened, kernel, net>>

Left == call.size - call.status

\* The kernel takes some of what is left.
SendSome(n) ==
    /\ call.op = "Send" /\ Connected /\ closed # "rst" /\ n \in 1 .. Left
    /\ call' = [call EXCEPT !.status = @ + n]
    /\ UNCHANGED <<object, opened, kernel, net>>

SendEnds ==
    /\ call.op = "Send" /\ call.status = call.size
    /\ call' = Idle("sent", "SUCCESS")
    /\ UNCHANGED <<object, opened, kernel, net>>

SendFails ==
    /\ call.op = "Send" /\ call.status # call.size
    /\ ~Connected \/ closed # "no"
    /\ call' = Idle("sent", "SENDDATA_FAILED")
    /\ UNCHANGED <<object, opened, kernel, net>>

-----------------------------------------------------------------------------
StartCheck(delay) ==
    /\ Free
    /\ call' = [Idle("CheckForResponse", "SUCCESS") EXCEPT !.delay = delay]
    /\ UNCHANGED <<object, opened, kernel, net>>

TimeIsUp == call.delay # -1 /\ call.delay <= call.end

Checking == call.op = "CheckForResponse"

\* Seconds after the start, when this pass ends.  Later seconds are all alike.
Later == {call.end, IF call.end < MaxDelay THEN call.end + 1 ELSE call.end}

Return(rc) ==
    /\ call' = [Idle("checked", rc) EXCEPT !.delay = call.delay, !.anything = call.anything]
    /\ UNCHANGED <<object, opened, kernel, net>>

CheckTimesOut ==
    /\ Checking /\ TimeIsUp
    /\ Return(IF call.anything # 0 THEN "SUCCESS" ELSE "TIMEDOUT")

Receive(n) ==
    /\ Checking /\ ~TimeIsUp /\ Connected /\ n \in 1 .. Len(wire)
    /\ m_buffer' = m_buffer \o SubSeq(wire, 1, n)
    /\ wire' = SubSeq(wire, n + 1, Len(wire))
    /\ \E end \in Later : call' = [call EXCEPT !.anything = n, !.end = end]
    /\ UNCHANGED <<m_Socketfd, opened, kernel, closed, given, pieces>>

NothingThere == Checking /\ ~TimeIsUp /\ Connected /\ wire = <<>> /\ closed = "no"

NotReady == NothingThere /\ call.delay = -1 /\ Return("NOT_READY")

Waits == Later

WaitMore ==
    /\ NothingThere /\ call.delay # -1
    /\ \E end \in Waits : call' = [call EXCEPT !.end = end]
    /\ UNCHANGED <<object, opened, kernel, net>>

PeerHasClosed ==
    /\ Checking /\ ~TimeIsUp /\ Connected /\ wire = <<>> /\ closed = "fin"
    /\ Return("SUCCESS")

NotConnected ==
    /\ Checking /\ ~TimeIsUp /\ (~Connected \/ closed = "rst")
    /\ Return("CONNECTION_CLOSED")

-----------------------------------------------------------------------------
(* The peer. *)

PeerSends ==
    /\ Connected /\ closed = "no" /\ pieces < MaxPieces
    /\ pieces' = pieces + 1
    /\ wire' = Append(wire, pieces + 1) /\ given' = Append(given, pieces + 1)
    /\ UNCHANGED <<object, opened, kernel, closed, call>>

\* A peer that breaks the connection off takes back what was not received.
PeerCloses ==
    /\ Connected /\ closed = "no"
    /\ \/ closed' = "fin" /\ UNCHANGED wire
       \/ closed' = "rst" /\ wire' = <<>>
    /\ UNCHANGED <<object, opened, kernel, given, pieces, call>>

Outcomes == {"SUCCESS", "INVALID_PARAMS", "UNABLE_TO_CONNECT_TO_HOST",
             "UNABLE_TO_CREATE_SOCKET"}

Check ==
    \/ CheckTimesOut \/ (\E n \in 1 .. Len(wire) : Receive(n))
    \/ NotReady \/ WaitMore \/ PeerHasClosed \/ NotConnected

IPCNext ==
    \/ Close \/ Reset \/ \E o \in Outcomes : Open(o)
    \/ \E n \in 0 .. MaxSize : StartSend(n) \/ SendSome(n)
    \/ SendEnds \/ SendFails
    \/ \E d \in -1 .. MaxDelay : StartCheck(d)
    \/ Check
    \/ PeerSends \/ PeerCloses

\* The caller's thread runs on, and the clock with it: a pass that finds nothing and
\* in which no second ends is no step.
IPCFairness == WF_ipcVars(Check)

IPCSpec == IPCInit /\ [][IPCNext]_ipcVars /\ IPCFairness

-----------------------------------------------------------------------------
IPCTypeOK ==
    /\ m_Socketfd \in -1 .. MaxOpens
    /\ kernel \subseteq 1 .. opened
    /\ call.status \in 0 .. call.size
    /\ call.end \in 0 .. MaxDelay
    /\ Len(given) <= pieces /\ pieces <= MaxPieces

\* The object never has more than one socket, and loses none: what it opened and has
\* not closed is the one it knows, whichever way Open failed (serveripc.cpp:126).
NoSocketLost == kernel \subseteq {m_Socketfd}

\* What the caller reads is what the peer sent on this connection since Reset, from
\* the first piece on, in order, and nothing of an earlier connection
\* (serveripc.cpp:288).
ResponseInOrder ==
    LET seen == m_buffer \o wire
    IN Len(seen) <= Len(given) /\ seen = SubSeq(given, 1, Len(seen))

=============================================================================
