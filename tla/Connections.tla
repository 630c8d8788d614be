----------------------------- MODULE Connections -----------------------------
(***************************************************************************)
(* TCP connections: the TCP server that accepts them (cTCPServer::Run),    *)
(* the pre-queue, the connection cache and the connection queue's thread   *)
(* (cConnectionQueue::Run), with the handlers that read requests and write *)
(* replies.  Every message carries the number of the socket it came from,  *)
(* and the kernel gives that number to another client as soon as it is     *)
(* closed; the client a message is about is kept here as a ghost.          *)
(*                                                                         *)
(* A request is two tokens, "head" and "tail", that arrive separately.     *)
(* Between a request and its reply lie the message queue and the handlers  *)
(* (MsgFlow), one step here.  time(0) is abstracted to whether a record is *)
(* older than the time-out.  Left out: a client that never reads, on which *)
(* TCPSend spins.  A step after a list iterator was invalidated is not     *)
(* modelled: the queue's thread stops there.                               *)
(***************************************************************************)
EXTENDS Integers, Sequences, FiniteSets, FiniteSetsExt, SequencesExt, Functions

CONSTANTS
    Fds,          \* the socket numbers the kernel has
    Clients,      \* every connection a client makes
    NoClient, NoFd,
    Server,       \* another server, which accepts connections from this one
    FD_SETSIZE,   \* how many sockets one select takes
    KeepAlive,    \* the keep-alive flags replies may have
    Scenarios     \* [events, requests, dials, clients]: the last three bound the
                  \* requests of one client, the messages that an application sends
                  \* to Server, and the clients that come; events says what may
                  \* happen beside requests answered in turn: a client may "leave",
                  \* even with a reply due ("abandon"), send a request before it has
                  \* the last reply ("pipeline") or what is none ("garbage"); a
                  \* connection may time out ("age"), even while its request is
                  \* processed ("slow")

ASSUME ConnectionAssumption ==
    /\ NoFd \notin Fds
    /\ Server \notin Clients /\ NoClient \notin Clients \cup {Server}
    /\ FD_SETSIZE \in Nat \ {0}
    /\ KeepAlive \subseteq BOOLEAN
    /\ Scenarios \subseteq
         [events : SUBSET {"leave", "abandon", "pipeline", "garbage", "age", "slow"},
          requests : Nat, dials : Nat, clients : 0 .. Cardinality(Clients)]

VARIABLES
    scenario,    \* what may happen
    owner,       \* kernel: who is at the other end of each open socket
    conn,        \* kernel: the state of each client's connection
    unread,      \* kernel: what each client has sent and nobody has received
    asked,       \* the requests each client has sent
    answered,    \* the replies to its own requests each client got
    strayed,     \* whether a client ever got the reply to another's request
    accepted,    \* the socket the TCP server's thread has accepted
    m_PreQueue,
    m_ConnectionMap,         \* the record of each socket number, never removed
    m_ActiveConnectionList,  \* of records, as their numbers
    m_it,                    \* the list's enumerator
    m_itIncompleteMarker,    \* where the next select begins
    m_outbound_priority_queue,
    inProcess,   \* the messages that are not answered yet
    dialled,     \* the messages applications have sent
    m_stReadfds,
    m_bSocketCreated,
    qpc          \* where the queue's thread is in Run

kernelVars == <<owner, conn, unread>>
clientVars == <<asked, answered, strayed>>
queueVars == <<m_outbound_priority_queue, inProcess, dialled, m_bSocketCreated>>
listVars == <<m_ActiveConnectionList, m_it, m_itIncompleteMarker>>
cacheVars == <<m_ConnectionMap, listVars>>
vars == <<scenario, kernelVars, clientVars, queueVars, cacheVars, accepted, m_PreQueue,
          m_stReadfds, qpc>>

End == 0        \* the list's end(), as a position
Invalid == -1   \* an iterator whose element was erased

\* The m_it of a record, if "listed", is its last place in the list.
FreeRecord ==
    [State |-> "FREE", pendingwrite |-> FALSE, listed |-> FALSE, old |-> FALSE, buffer |-> <<>>]

Init ==
    /\ scenario \in Scenarios
    /\ owner = [fd \in Fds |-> NoClient]
    /\ \E come \in SUBSET Clients :
         /\ Cardinality(come) = scenario.clients
         /\ conn = [c \in Clients |-> IF c \in come THEN "new" ELSE "closed"]
    /\ unread = [c \in Clients |-> <<>>]
    /\ asked = [c \in Clients |-> 0]
    /\ answered = [c \in Clients |-> 0]
    /\ strayed = FALSE
    /\ accepted = NoFd
    /\ m_PreQueue = <<>>
    /\ m_ConnectionMap = [fd \in Fds |-> FreeRecord]
    /\ m_ActiveConnectionList = <<>>
    /\ m_it = End
    /\ m_itIncompleteMarker = End
    /\ m_outbound_priority_queue = {}
    /\ inProcess = {}
    /\ dialled = 0
    /\ m_stReadfds = {}
    /\ m_bSocketCreated = FALSE
    /\ qpc = "unlocked"

-----------------------------------------------------------------------------
\* The kernel

\* Closing sockets, or numbers that are no sockets.
CloseSockets(fds) ==
    /\ owner' = [fd \in Fds |-> IF fd \in fds THEN NoClient ELSE owner[fd]]
    /\ conn' = [c \in Clients |-> IF \E fd \in fds : owner[fd] = c THEN "closed" ELSE conn[c]]

FreeFds == {fd \in Fds : owner[fd] = NoClient}

IsClient(fd) == owner[fd] \in Clients

Readable(fd) == /\ IsClient(fd)
                /\ (unread[owner[fd]] # <<>> \/ conn[owner[fd]] \in {"left", "reset"})

\* select: with a number that is no socket it fails and leaves the set as it is.
Selected(fds) ==
    IF \E fd \in fds : owner[fd] = NoClient THEN fds ELSE {fd \in fds : Readable(fd)}

SocketFails(fd) == owner[fd] = NoClient \/ (IsClient(fd) /\ conn[owner[fd]] = "reset")

Received(fd) == IF IsClient(fd) /\ ~SocketFails(fd) THEN unread[owner[fd]] ELSE <<>>

\* Whether send may succeed, and whether it may fail: what is sent to a client
\* that has left may be lost.
SendOutcomes(fd) ==
    {sent \in BOOLEAN :
       /\ sent => ~SocketFails(fd)
       /\ ~sent => SocketFails(fd) \/ (IsClient(fd) /\ conn[owner[fd]] = "left")}

-----------------------------------------------------------------------------
\* The connection cache

BufferOfNew_Kept(buffer) == buffer

\* buffer.Reset()
BufferOfNew(buffer) == <<>>

\* AddConnection of sockets, one after the other.
AddConnections(fds) ==
    /\ m_ConnectionMap' =
         [fd \in Fds |->
            IF fd \in Range(fds)
            THEN [State |-> "WAITING", pendingwrite |-> FALSE, listed |-> TRUE, old |-> FALSE,
                  buffer |-> BufferOfNew(m_ConnectionMap[fd].buffer)]
            ELSE m_ConnectionMap[fd]]
    /\ m_ActiveConnectionList' = m_ActiveConnectionList \o fds
    /\ UNCHANGED <<m_it, m_itIncompleteMarker>>

\* The m_it of a record, if it is listed.
PlaceOf(fd) ==
    Max({i \in DOMAIN m_ActiveConnectionList : m_ActiveConnectionList[i] = fd})

\* An iterator after the element at a position was erased.
Shifted(it, pos) == IF it = pos THEN Invalid ELSE IF it > pos THEN it - 1 ELSE it

\* FreeConnection, which also closes the socket, when the records are map and
\* the enumerator is at it.
FreeConnection(map, it, fd) ==
    /\ m_ConnectionMap' = [map EXCEPT ![fd] = [FreeRecord EXCEPT !.buffer = map[fd].buffer]]
    /\ IF map[fd].listed
       THEN /\ m_ActiveConnectionList' = RemoveAt(m_ActiveConnectionList, PlaceOf(fd))
            /\ m_it' = Shifted(it, PlaceOf(fd))
            /\ m_itIncompleteMarker' = Shifted(m_itIncompleteMarker, PlaceOf(fd))
       ELSE /\ m_it' = it
            /\ UNCHANGED <<m_ActiveConnectionList, m_itIncompleteMarker>>
    /\ CloseSockets({fd})

MarkPendingWrite_Not(map, fd) == map

MarkPendingWrite(map, fd) ==
    IF fd = NoFd THEN map ELSE [map EXCEPT ![fd].pendingwrite = TRUE]

\* The places of what TimeoutConnections frees.
TimedOut ==
    {i \in DOMAIN m_ActiveConnectionList :
       LET r == m_ConnectionMap[m_ActiveConnectionList[i]]
       IN  r.State = "WAITING" /\ ~r.pendingwrite /\ r.old}

MarkerAfter_Kept(last) == End

\* m_itIncompleteMarker after a full batch: the place after the last one taken.
MarkerAfter(last) == IF last = Len(m_ActiveConnectionList) THEN End ELSE last + 1

\* SetActiveConnections: the places it takes, beginning at the marker, ...
Batch ==
    LET waiting == {i \in DOMAIN m_ActiveConnectionList :
                      /\ i >= m_itIncompleteMarker
                      /\ m_ConnectionMap[m_ActiveConnectionList[i]].State = "WAITING"}
    IN  {i \in waiting : Cardinality({j \in waiting : j <= i}) <= FD_SETSIZE}

\* ... and the marker it leaves.
SetActiveConnections ==
    m_itIncompleteMarker' = IF Cardinality(Batch) = FD_SETSIZE THEN MarkerAfter(Max(Batch)) ELSE End

\* GetNextSetRecord: the places it may return from where the enumerator is.
SetRecords ==
    {i \in DOMAIN m_ActiveConnectionList :
       LET fd == m_ActiveConnectionList[i]
       IN  /\ i >= m_it
           /\ m_ConnectionMap[fd].State = "WAITING"
           /\ fd \in m_stReadfds \/ m_ConnectionMap[fd].buffer # <<>>}

-----------------------------------------------------------------------------
\* Clients

Due(c) == asked[c] > answered[c]

\* What of it the server has received and not yet used.
Kept(fd) == IF m_ConnectionMap[fd].State = "WAITING" THEN m_ConnectionMap[fd].buffer ELSE <<>>

\* Whether the client has sent only the head of its last request.
Half(c) ==
    \E fd \in Fds : /\ owner[fd] = c
                    /\ LET sent == Kept(fd) \o unread[c]
                       IN  sent # <<>> /\ Last(sent) = <<c, asked[c], "head">>

SendHead(c) ==
    /\ conn[c] = "open"
    /\ asked[c] < scenario.requests
    /\ ~Half(c)
    /\ "pipeline" \in scenario.events \/ ~Due(c)
    /\ unread' = [unread EXCEPT ![c] = Append(@, <<c, asked[c] + 1, "head">>)]
    /\ asked' = [asked EXCEPT ![c] = @ + 1]
    /\ UNCHANGED <<owner, conn, answered, strayed, queueVars, accepted, m_PreQueue,
                   cacheVars, m_stReadfds, qpc>>

SendTail(c) ==
    /\ conn[c] = "open"
    /\ Half(c)
    /\ unread' = [unread EXCEPT ![c] = Append(@, <<c, asked[c], "tail">>)]
    /\ UNCHANGED <<owner, conn, clientVars, queueVars, accepted, m_PreQueue,
                   cacheVars, m_stReadfds, qpc>>

\* The client closes its connection, or it breaks.
Leave(c) ==
    /\ conn[c] = "open"
    /\ "leave" \in scenario.events
    /\ "abandon" \in scenario.events \/ ~Due(c)
    /\ \E s \in {"left", "reset"} : conn' = [conn EXCEPT ![c] = s]
    /\ UNCHANGED <<owner, unread, clientVars, queueVars, accepted, m_PreQueue,
                   cacheVars, m_stReadfds, qpc>>

\* The time-out of a connection passes; TimeoutConnections asks for the time
\* once.
Age(fd) ==
    /\ "age" \in scenario.events
    /\ qpc # "timeout"
    /\ m_ConnectionMap[fd].State = "WAITING"
    /\ ~m_ConnectionMap[fd].old
    /\ "slow" \in scenario.events \/ \A m \in inProcess : m.fd # fd
    /\ m_ConnectionMap' = [m_ConnectionMap EXCEPT ![fd].old = TRUE]
    /\ UNCHANGED <<kernelVars, clientVars, queueVars, listVars, accepted, m_PreQueue,
                   m_stReadfds, qpc>>

-----------------------------------------------------------------------------
\* The TCP server's thread (cTCPServer::Run)

\* accept; a client the IP access list denies is closed at once.
Accept(c, fd) ==
    /\ accepted = NoFd
    /\ conn[c] = "new"
    /\ fd \in FreeFds
    /\ \/ /\ owner' = [owner EXCEPT ![fd] = c]
          /\ conn' = [conn EXCEPT ![c] = "open"]
          /\ accepted' = fd
       \/ /\ conn' = [conn EXCEPT ![c] = "closed"]
          /\ UNCHANGED <<owner, accepted>>
    /\ UNCHANGED <<unread, clientVars, queueVars, m_PreQueue, cacheVars, m_stReadfds, qpc>>

\* cConnectionQueue::AddConnection, under a lock of its own.
PreQueue ==
    /\ accepted # NoFd
    /\ m_PreQueue' = Append(m_PreQueue, accepted)
    /\ accepted' = NoFd
    /\ UNCHANGED <<kernelVars, clientVars, queueVars, cacheVars, m_stReadfds, qpc>>

-----------------------------------------------------------------------------
\* The message queue's thread and applications

\* cConnectionQueue::SendMsg, under the lock the queue's thread takes for a
\* round: the reply to a request.
SendMsg(m) ==
    /\ qpc = "unlocked"
    /\ m \in inProcess
    /\ inProcess' = inProcess \ {m}
    /\ m_outbound_priority_queue' = m_outbound_priority_queue \cup {m}
    /\ m_ConnectionMap' = MarkPendingWrite(m_ConnectionMap, m.fd)
    /\ UNCHANGED <<kernelVars, clientVars, dialled, m_bSocketCreated, listVars, accepted,
                   m_PreQueue, m_stReadfds, qpc>>

\* SendMsg of a message to another server, which has no socket yet.
SendOut ==
    /\ qpc = "unlocked"
    /\ dialled < scenario.dials
    /\ dialled' = dialled + 1
    /\ \E keep \in KeepAlive :
         m_outbound_priority_queue' = m_outbound_priority_queue \cup
             {[fd |-> NoFd, from |-> Server, n |-> dialled', keep |-> keep]}
    /\ UNCHANGED <<kernelVars, clientVars, inProcess, m_bSocketCreated, accepted, m_PreQueue,
                   cacheVars, m_stReadfds, qpc>>

-----------------------------------------------------------------------------
\* The connection queue's thread (cConnectionQueue::Run), which holds its lock
\* from Lock to Unlock

\* Lock; the timer may be ready.
Lock ==
    /\ qpc = "unlocked"
    /\ qpc' \in {"timeout", "add"}
    /\ UNCHANGED <<kernelVars, clientVars, queueVars, cacheVars, accepted, m_PreQueue, m_stReadfds>>

\* TimeoutConnections frees the first that has timed out and begins again.
TimeoutConnection ==
    /\ qpc = "timeout"
    /\ \E i \in TimedOut :
         /\ \A j \in TimedOut : i <= j
         /\ FreeConnection(m_ConnectionMap, End, m_ActiveConnectionList[i])
    /\ UNCHANGED <<unread, clientVars, queueVars, accepted, m_PreQueue, m_stReadfds, qpc>>

EndTimeouts ==
    /\ qpc = "timeout"
    /\ TimedOut = {}
    /\ qpc' = "add"
    /\ UNCHANGED <<kernelVars, clientVars, queueVars, cacheVars, accepted, m_PreQueue, m_stReadfds>>

PreQueueAfter_Kept(queue) == queue

\* m_PreQueueIndex = 0
PreQueueAfter(queue) == <<>>

\* The index is read without the lock of AddConnection ...
CheckPreQueue ==
    /\ qpc = "add"
    /\ qpc' = IF m_PreQueue # <<>> THEN "drain" ELSE "poll"
    /\ UNCHANGED <<kernelVars, clientVars, queueVars, cacheVars, accepted, m_PreQueue, m_stReadfds>>

\* ... under which the sockets are then added.
AddPreQueued ==
    /\ qpc = "drain"
    /\ AddConnections(m_PreQueue)
    /\ m_PreQueue' = PreQueueAfter(m_PreQueue)
    /\ qpc' = "poll"
    /\ UNCHANGED <<kernelVars, clientVars, queueVars, accepted, m_stReadfds>>

\* PrepareConnections, CheckConnections and ResetEnumerator.
Poll ==
    /\ qpc = "poll"
    /\ m_itIncompleteMarker # Invalid
    /\ m_stReadfds' = Selected({m_ActiveConnectionList[i] : i \in Batch})
    /\ SetActiveConnections
    /\ m_it' = 1
    /\ qpc' = "inbound"
    /\ UNCHANGED <<kernelVars, clientVars, queueVars, accepted, m_PreQueue, m_ConnectionMap,
                   m_ActiveConnectionList>>

\* Where the first message of a buffer ends, or 0 (AnalyzeProtocol).
m_msgSize(buffer) == LET ends == {i \in DOMAIN buffer : buffer[i][3] = "tail"}
                     IN  IF ends = {} THEN 0 ELSE Min(ends)

\* Process: the message a complete request becomes, which is dispatched.
MessageOf(fd, buffer, keep) ==
    [fd |-> fd, from |-> buffer[m_msgSize(buffer)][1], n |-> buffer[m_msgSize(buffer)][2],
     keep |-> keep]

\* The buffer and the records after HandleConnection received what there is and
\* took a message of this size off the buffer.
Filled(fd) == m_ConnectionMap[fd].buffer \o Received(fd)

Taken(fd, size) ==
    [m_ConnectionMap EXCEPT ![fd] =
        [m_ConnectionMap[fd] EXCEPT
            !.buffer = SubSeq(Filled(fd), size + 1, Len(Filled(fd))),
            !.old = @ /\ Received(fd) = <<>>]]

\* cConnectionHandlerInbound::HandleConnection for the record at a place:
\* receive, and process at most one message.  One that is not understood, and
\* a socket error, close the connection.
ReceiveFrom(i) ==
    LET fd == m_ActiveConnectionList[i]
        size == m_msgSize(Filled(fd))
        stay == /\ m_ConnectionMap' = Taken(fd, size)
                /\ m_it' = i + 1
                /\ UNCHANGED <<m_ActiveConnectionList, m_itIncompleteMarker, owner, conn>>
        close == FreeConnection(Taken(fd, size), i + 1, fd)
    IN  /\ unread' = [c \in Clients |->
                        IF c = owner[fd] /\ Received(fd) # <<>> THEN <<>> ELSE unread[c]]
        /\ \/ /\ size # 0
              /\ \E keep \in KeepAlive :
                   inProcess' = inProcess \cup {MessageOf(fd, Filled(fd), keep)}
              /\ IF SocketFails(fd) THEN close ELSE stay
           \/ /\ size # 0 /\ "garbage" \in scenario.events
              /\ close
              /\ UNCHANGED inProcess
           \/ /\ size = 0
              /\ IF SocketFails(fd) THEN close ELSE stay
              /\ UNCHANGED inProcess

\* The next step of ProcessInboundTasks' loop.
ProcessInboundTask ==
    /\ qpc = "inbound"
    /\ m_it # Invalid
    /\ \E i \in SetRecords : (\A j \in SetRecords : i <= j) /\ ReceiveFrom(i)
    /\ UNCHANGED <<clientVars, m_outbound_priority_queue, dialled, m_bSocketCreated, accepted,
                   m_PreQueue, m_stReadfds, qpc>>

EndInbound ==
    /\ qpc = "inbound"
    /\ m_it # Invalid
    /\ SetRecords = {}
    /\ qpc' = "outbound"
    /\ UNCHANGED <<kernelVars, clientVars, queueVars, cacheVars, accepted, m_PreQueue, m_stReadfds>>

\* The reply to m has reached whoever is at the other end of fd.
Deliver(m, fd) ==
    /\ answered' = [c \in Clients |-> IF c = m.from /\ owner[fd] = c
                                      THEN answered[c] + 1 ELSE answered[c]]
    /\ strayed' = (strayed \/ owner[fd] # m.from)
    /\ UNCHANGED asked

\* TCPSend: a send that fails closes the socket itself if OpenTCP ever made one,
\* and otherwise leaves that to the caller (m_bCloseConnection).
ClosesAfter(m, sent) == ~m.keep \/ (~sent /\ ~m_bSocketCreated)

\* The records after a message was written, or could not be: a successful
\* TCPSend sets the time.
Written(fd, sent) ==
    [m_ConnectionMap EXCEPT ![fd] =
        [m_ConnectionMap[fd] EXCEPT !.pendingwrite = FALSE, !.old = @ /\ ~sent]]

\* cConnectionHandlerOutbound::HandleConnection of a message with a socket.
Transmit(m, sent) ==
    /\ IF sent THEN Deliver(m, m.fd) ELSE UNCHANGED clientVars
    /\ IF ClosesAfter(m, sent)
       THEN FreeConnection(Written(m.fd, sent), m_it, m.fd)
       ELSE /\ m_ConnectionMap' = Written(m.fd, sent)
            /\ CloseSockets(IF sent THEN {} ELSE {m.fd})
            /\ UNCHANGED listVars
    \* what is not delivered may be tried again (MsgQueue)
    /\ inProcess' \in IF sent THEN {inProcess} ELSE {inProcess, inProcess \cup {m}}
    /\ UNCHANGED m_bSocketCreated

\* What TransmitMsg does with a message without one: OpenTCP, send, and close unless the
\* message says keep-alive.
OpenTCP(m) ==
    /\ \/ \E fd \in FreeFds :
            /\ m_bSocketCreated' = TRUE
            /\ IF m.keep
               THEN owner' = [owner EXCEPT ![fd] = Server] /\ UNCHANGED <<conn, cacheVars>>
               ELSE FreeConnection(m_ConnectionMap, m_it, fd)
       \* connect fails, and the socket stays open
       \/ /\ \E fd \in FreeFds : owner' = [owner EXCEPT ![fd] = Server]
          /\ UNCHANGED <<conn, m_bSocketCreated, cacheVars>>
       \* no address, or no socket
       \/ UNCHANGED <<owner, conn, m_bSocketCreated, cacheVars>>
    /\ UNCHANGED <<clientVars, inProcess>>

\* m_outbound_priority_queue.pop()
Popped(queue, m) == queue \ {m}

\* The next step of ProcessOutboundTasks' loop.
ProcessOutboundTask(m) ==
    /\ qpc = "outbound"
    /\ m \in m_outbound_priority_queue
    /\ m_outbound_priority_queue' = Popped(m_outbound_priority_queue, m)
    /\ IF m.fd = NoFd THEN OpenTCP(m) ELSE \E sent \in SendOutcomes(m.fd) : Transmit(m, sent)
    /\ UNCHANGED <<unread, dialled, accepted, m_PreQueue, m_stReadfds, qpc>>

Unlock ==
    /\ qpc = "outbound"
    /\ m_outbound_priority_queue = {}
    /\ qpc' = "unlocked"
    /\ UNCHANGED <<kernelVars, clientVars, queueVars, cacheVars, accepted, m_PreQueue, m_stReadfds>>

-----------------------------------------------------------------------------
Run ==
    \/ Lock \/ TimeoutConnection \/ EndTimeouts \/ CheckPreQueue \/ AddPreQueued \/ Poll
    \/ ProcessInboundTask \/ EndInbound
    \/ \E m \in m_outbound_priority_queue : ProcessOutboundTask(m)
    \/ Unlock

Step ==
    \/ Run \/ PreQueue \/ SendOut
    \/ \E m \in inProcess : SendMsg(m)
    \/ \E c \in Clients : \/ SendHead(c) \/ SendTail(c) \/ Leave(c)
                          \/ \E fd \in Fds : Accept(c, fd)
    \/ \E fd \in Fds : Age(fd)

Next == Step /\ UNCHANGED scenario

Spec == Init /\ [][Next]_vars

\* The threads run; whoever has a request answers it and gets the lock, since
\* the queue's thread sleeps without it between rounds (YieldSleep).
Fair(A) == A /\ UNCHANGED scenario
Fairness ==
    /\ WF_vars(Fair(Run)) /\ WF_vars(Fair(PreQueue))
    /\ SF_vars(Fair(\E m \in inProcess : SendMsg(m)))

FairSpec == Spec /\ Fairness

-----------------------------------------------------------------------------
Tokens == Clients \X (1..scenario.requests) \X {"head", "tail"}

Requests == [fd : Fds, from : Clients, n : Nat, keep : BOOLEAN]

Messages == Requests \cup [fd : {NoFd}, from : {Server}, n : Nat, keep : BOOLEAN]

Records == [State : {"FREE", "WAITING"}, pendingwrite : BOOLEAN, listed : BOOLEAN,
            old : BOOLEAN, buffer : Seq(Tokens)]

\* Types.
TypeOK ==
    /\ scenario \in Scenarios
    /\ owner \in [Fds -> Clients \cup {NoClient, Server}]
    /\ conn \in [Clients -> {"new", "open", "left", "reset", "closed"}]
    /\ unread \in [Clients -> Seq(Tokens)]
    /\ asked \in [Clients -> 0..scenario.requests]
    /\ answered \in [Clients -> Nat]
    /\ strayed \in BOOLEAN /\ m_bSocketCreated \in BOOLEAN
    /\ accepted \in Fds \cup {NoFd} /\ m_PreQueue \in Seq(Fds)
    /\ m_ConnectionMap \in [Fds -> Records]
    /\ m_ActiveConnectionList \in Seq(Fds)
    /\ m_it \in Nat \cup {Invalid} /\ m_itIncompleteMarker \in Nat \cup {Invalid}
    /\ m_outbound_priority_queue \subseteq Messages /\ inProcess \subseteq Requests
    /\ dialled \in 0..scenario.dials /\ m_stReadfds \subseteq Fds
    /\ qpc \in {"unlocked", "timeout", "add", "drain", "poll", "inbound", "outbound"}

\* Where a socket number is: with the TCP server's thread, in the pre-queue, on
\* the list of active connections.
Places(fd) == (IF accepted = fd THEN {"server"} ELSE {})
                \cup (IF fd \in Range(m_PreQueue) THEN {"prequeue"} ELSE {})
                \cup (IF fd \in Range(m_ActiveConnectionList) THEN {"cache"} ELSE {})

\* Every client waits for its reply, and no handler takes longer for one than a
\* connection may be idle.
Orderly == scenario.events \cap {"abandon", "pipeline", "slow"} = {}

\* No connection is lost between the threads or handed over twice, and no socket
\* number is kept of one that is closed (AddConnection, FreeConnection).
Accounted ==
    /\ IsInjective(m_PreQueue) /\ IsInjective(m_ActiveConnectionList)
    /\ \A fd \in Fds :
         LET r == m_ConnectionMap[fd]
         IN /\ IF IsClient(fd)
               THEN Places(fd) \in {{"server"}, {"prequeue"}, {"cache"}}
               ELSE Places(fd) = {}
            /\ r.listed = (fd \in Range(m_ActiveConnectionList))
            /\ r.listed = (r.State = "WAITING")

\* A client has one socket while its connection is open, and has sent nothing
\* before.
OneSocket ==
    \A c \in Clients :
        /\ conn[c] \in {"new", "closed"} <=> \A fd \in Fds : owner[fd] # c
        /\ \A f, g \in Fds : owner[f] = c /\ owner[g] = c => f = g
        /\ conn[c] = "new" => unread[c] = <<>>

\* What has arrived from a client, read or not, is its last request or the head
\* of it, and the client waits for the answer.
InTurn(fd, c) ==
    LET head == <<c, asked[c], "head">>
        tail == <<c, asked[c], "tail">>
    IN  /\ \/ Kept(fd) = <<>> /\ unread[c] \in {<<>>, <<head>>, <<head, tail>>}
           \/ Kept(fd) = <<head>> /\ unread[c] \in {<<>>, <<tail>>}
        /\ Kept(fd) # <<>> \/ unread[c] # <<>> => Due(c) /\ conn[c] = "open"

DataInTurn == \A fd \in Fds, c \in Clients : owner[fd] = c => InTurn(fd, c)

Unanswered == inProcess \cup m_outbound_priority_queue

\* A message that came by a socket is the one unanswered request of the client
\* that is still there, which has sent nothing since; it cannot time out.
Meant(m) ==
    LET r == m_ConnectionMap[m.fd]
    IN  /\ owner[m.fd] = m.from /\ conn[m.from] = "open"
        /\ m.n = asked[m.from] /\ Due(m.from)
        /\ r.State = "WAITING" /\ r.buffer = <<>> /\ unread[m.from] = <<>>
        /\ m \in inProcess => ~r.old /\ m \notin m_outbound_priority_queue
        /\ m \in m_outbound_priority_queue => r.pendingwrite
        /\ \A k \in Unanswered : k.fd = m.fd => k = m

MessagesMeant == \A m \in Unanswered \cap Requests : Meant(m)

\* Whoever gets a reply asked for it: "connections wait for a reply"
\* (connectionhandlerinbound.cpp:201).  But a reply carries no more than the number of a
\* socket (connectionhandleroutbound.cpp:315), and its connection may have timed out.
RepliesToSender == ~strayed

\* What a record's buffer holds was received from the client the socket now
\* belongs to, so that no request is put together from two connections: among
\* orderly clients, and among all as long as the server has opened no connection
\* itself.  After that a TCPSend that fails closes a socket and leaves its record.
OwnData ==
    Orderly \/ ~m_bSocketCreated =>
        \A fd \in Fds : \A i \in DOMAIN Kept(fd) : Kept(fd)[i][1] = owner[fd]

\* The list holds what is marked as on it.
ListedThere == \A fd \in Fds : m_ConnectionMap[fd].listed => fd \in Range(m_ActiveConnectionList)

\* What waits to be read was sent by the client it is kept for.
OwnUnread == \A c \in Clients : \A i \in DOMAIN unread[c] : unread[c][i][1] = c

\* No client gets more replies than it has sent requests.
RepliesAsked == \A c \in Clients : answered[c] <= asked[c]

\* SendMsg marks the record of every reply that is queued, until it is sent.
PendingMarked ==
    qpc \in {"unlocked", "timeout"} =>
        \A m \in m_outbound_priority_queue \cap Requests : m_ConnectionMap[m.fd].pendingwrite

\* The inductive invariant.  What the cache and the queue keep has its type;
\* among orderly clients every socket is in one place and every message is about
\* the client at the other end of its socket.
CacheInv ==
    /\ TypeOK
    /\ OneSocket /\ ListedThere /\ OwnUnread /\ OwnData /\ PendingMarked
    /\ Orderly => Accounted /\ DataInTurn /\ MessagesMeant /\ RepliesAsked /\ ~strayed

\* TimeoutConnections closes no connection for which a reply is queued.
TimeoutSparesReplies ==
    [][qpc = "timeout" =>
         \A m \in m_outbound_priority_queue :
            m.fd # NoFd => m_ConnectionMap'[m.fd].State = m_ConnectionMap[m.fd].State]_vars

\* The queue's thread has used an iterator that was erased.
Stopped == Invalid \in {m_it, m_itIncompleteMarker}

\* A client that stays gets the replies due to it, unless the server closes its
\* connection, however many connections there are beyond what one select takes and
\* whichever of them are freed between two (connectioncache.cpp:183).
RepliesArrive ==
    \A c \in Clients :
        Due(c) /\ ~Half(c) ~> ~Due(c) \/ Half(c) \/ conn[c] # "open" \/ Stopped
=============================================================================
