------------------------------ MODULE Lifetime -------------------------------
(***************************************************************************)
(* The life of the server: cCore::Init creates the objects of the system   *)
(* and starts their threads one after the other while those already        *)
(* started take connections and datagrams, and cCore::Deinit stops the     *)
(* threads and deletes the objects while the others still run              *)
(* (core.cpp, thread.cpp, and the Start, Stop and Run of each thread).     *)
(*                                                                         *)
(* A step is one object created, one thread told to start or stop, or one  *)
(* deletion by the main thread, and one test or one pass of a thread's     *)
(* loop.  A client's connection is one request on its way: in the          *)
(* connection queue's pre-queue, then in the message queue.  A thread that *)
(* uses a deleted object, or calls through a null pointer, may end the     *)
(* process (crashed) or find the memory as it was.                         *)
(***************************************************************************)
EXTENDS Integers, Sequences

CONSTANTS
    TCPServers,    \* the TCP servers of <module>.xml, in the order of their ports
    UDPServers,    \* its UDP servers, at most one
    System,        \* "LINUX" or "WIN32"
    Failures,      \* a subset of {"socket", "bind"}: what Start may meet
    MaxRequests    \* bound: how many requests the clients make

TCPNames == {TCPServers[i] : i \in DOMAIN TCPServers}
Servers == TCPNames \cup UDPServers

\* A name stands for one object.  Without a file SetDefaults has the first TCP server.
ASSUME LifetimeAssumption ==
    /\ TCPServers \in Seq(TCPNames) /\ TCPServers # <<>>
    /\ TCPNames \cap UDPServers = {}
    /\ Servers \cap {"uid", "msgq", "connq", "web", "metrics"} = {}
    /\ System \in {"LINUX", "WIN32"}
    /\ Failures \subseteq {"socket", "bind"}
    /\ MaxRequests \in Nat

\* The objects Init creates; each but the web server's handlers has one thread.
Objects == Servers \cup {"uid", "msgq", "connq", "web"}

\* The web server's thread is its decorator's; metrics is a member of cCore.
Threads == Objects \cup {"metrics"}

VARIABLES
    configFile,  \* whether <module>.xml can be opened
    main,        \* where the main thread is in Init or Deinit
    server,      \* the TCP servers Init has still to start, or Deinit to stop
    pointee,     \* the object behind each pointer: "none", "alive" or "deleted"
    m_bActive,   \* cThread::m_bActive
    loop,        \* the thread's loop: "none", "check", "body" or "done"
    socket,      \* a server's listening socket: "none", "open" or "closed"
    admits,       \* whether m_IPAccess lets the clients in
    registered,  \* whether the factory knows the web server
    preQueue,    \* cConnectionQueue::m_PreQueueIndex
    requests,    \* requests in the message queue
    requestsMade, \* requests made so far (bound)
    crashed      \* the process ended by a fault

objects == <<main, server, pointee, m_bActive, socket, admits, registered>>
traffic == <<preQueue, requests, requestsMade>>
lifeVars == <<configFile, objects, loop, traffic, crashed>>

LifeInit ==
    /\ configFile \in BOOLEAN
    /\ main = "off"
    /\ server = <<>>
    /\ pointee = [o \in Objects |-> "none"]
    /\ m_bActive = [t \in Threads |-> FALSE]
    /\ loop = [t \in Threads |-> "none"]
    /\ socket = [s \in Servers |-> "none"]
    /\ admits = FALSE
    /\ registered = FALSE
    /\ preQueue = 0
    /\ requests = 0
    /\ requestsMade = 0
    /\ crashed = FALSE

-----------------------------------------------------------------------------
(* cCore::Init, in the order of its statements. *)

New(o) == pointee' = [pointee EXCEPT ![o] = "alive"]

\* cThread::Create and Start: the thread is there, and will test m_bActive.
StartThread(t) ==
    /\ m_bActive' = [m_bActive EXCEPT ![t] = TRUE]
    /\ loop' = [loop EXCEPT ![t] = "check"]

Goes(a, b) == main = a /\ main' = b

\* Someone starts the process, whose main calls cCore::Init.
Launch ==
    /\ Goes("off", "uid")
    /\ UNCHANGED <<server, pointee, m_bActive, loop, socket, admits, registered, traffic>>

\* cUniqueIDProvider::Create.
StartUniqueIDs ==
    /\ Goes("uid", "new msgq")
    /\ New("uid")
    /\ StartThread("uid")
    /\ UNCHANGED <<server, socket, admits, registered, traffic>>

NewMsgQueue ==
    /\ Goes("new msgq", "config")
    /\ New("msgq")
    /\ UNCHANGED <<server, m_bActive, loop, socket, admits, registered, traffic>>

AfterConfig_NoConnQueue == "tcp"

\* The connection queue exists before the servers that hand it connections.
AfterConfig == "new connq"

\* Without a file, SetDefaults has one TCP server and no UDP server.
TCPList == IF configFile THEN TCPServers ELSE SubSeq(TCPServers, 1, 1)
UDPSet == IF configFile THEN UDPServers ELSE {}

\* LoadConfig: without a file, SetDefaults lets every address in at once.
LoadConfig ==
    /\ Goes("config", AfterConfig)
    /\ server' = TCPList
    /\ admits' = ~configFile
    /\ UNCHANGED <<pointee, m_bActive, loop, socket, registered, traffic>>

NewConnQueue ==
    /\ Goes("new connq", "tcp")
    /\ New("connq")
    /\ UNCHANGED <<server, m_bActive, loop, socket, admits, registered, traffic>>

\* A server's Start: a socket, its address, a thread.  The TCP server throws if
\* it gets no socket; a server that cannot bind, and a UDP server without a
\* socket, has no thread, which its caller does not notice.
Starts(s) ==
    /\ New(s)
    /\ \/ /\ socket' = [socket EXCEPT ![s] = "open"]
          /\ StartThread(s)
       \/ /\ "bind" \in Failures
          /\ socket' = [socket EXCEPT ![s] = "open"]
          /\ UNCHANGED <<m_bActive, loop>>

StartTCPServer ==
    /\ main = "tcp" /\ server # <<>>
    /\ Starts(Head(server))
    /\ server' = Tail(server)
    /\ UNCHANGED <<main, admits, registered, traffic>>

\* Init catches the exception only to throw again (LOGALL): main ends the process.
TCPServerThrows ==
    /\ main = "tcp" /\ server # <<>>
    /\ "socket" \in Failures
    /\ crashed' = TRUE
    /\ UNCHANGED <<objects, loop, traffic>>

TCPServersDone ==
    /\ server = <<>>
    /\ Goes("tcp", "udp")
    /\ UNCHANGED <<server, pointee, m_bActive, loop, socket, admits, registered, traffic>>

AfterUDPServers_SkipConnQueue == "start msgq"

\* Where Init goes after the UDP servers: the connection queue's thread.
AfterUDPServers == "start connq"

StartUDPServer(s) ==
    /\ Goes("udp", AfterUDPServers)
    /\ \/ Starts(s)
       \/ "socket" \in Failures /\ New(s) /\ UNCHANGED <<m_bActive, loop, socket>>
    /\ UNCHANGED <<server, admits, registered, traffic>>

NoUDPServer ==
    /\ UDPSet = {}
    /\ Goes("udp", AfterUDPServers)
    /\ UNCHANGED <<server, pointee, m_bActive, loop, socket, admits, registered, traffic>>

\* The connection queue's, the message queue's and the metrics' Start.
StartQueueThread(t, a, b) ==
    /\ Goes(a, b)
    /\ StartThread(t)
    /\ UNCHANGED <<server, pointee, socket, admits, registered, traffic>>

\* The web server is made and registered; OnStartup then starts its decorator.
RegisterWebServer ==
    /\ Goes("new web", "start web")
    /\ New("web")
    /\ registered' = TRUE
    /\ UNCHANGED <<server, m_bActive, loop, socket, admits, traffic>>

\* DoPostProcesses: with a file, ProcessIPRules now lets the clients in, ...
ProcessIPRules ==
    /\ Goes("post", "routes")
    /\ admits' = TRUE
    /\ UNCHANGED <<server, pointee, m_bActive, loop, socket, registered, traffic>>

\* ... and ProcessHandlers reads the routing rules.
ProcessHandlers ==
    /\ Goes("routes", "running")
    /\ UNCHANGED <<server, pointee, m_bActive, loop, socket, admits, registered, traffic>>

StartsUp ==
    \/ StartUniqueIDs \/ NewMsgQueue \/ LoadConfig \/ NewConnQueue
    \/ StartTCPServer \/ TCPServersDone
    \/ (\E s \in UDPSet : StartUDPServer(s)) \/ NoUDPServer
    \/ StartQueueThread("connq", "start connq", "start msgq")
    \/ StartQueueThread("msgq", "start msgq", "start metrics")
    \/ StartQueueThread("metrics", "start metrics", "new web")
    \/ RegisterWebServer
    \/ StartQueueThread("web", "start web", "post")
    \/ ProcessIPRules \/ ProcessHandlers

-----------------------------------------------------------------------------
(* cCore::Deinit: on WIN32, a WM_QUIT that another program posts ends the   *)
(* message loop, and DoShutdown destroys the core; on LINUX DoShutdown only *)
(* exits.  Closing the window, or a signal, ends the process at once.       *)

Shutdown ==
    /\ System = "WIN32"
    /\ main = "running"
    /\ main' = "servers"
    /\ server' = TCPList
    /\ UNCHANGED <<pointee, m_bActive, loop, socket, admits, registered, traffic>>

WaitsFor_Always(t) == TRUE

\* cThread::Destroy waits for the thread if, after Stop, it is still active.
WaitsFor(t) == m_bActive'[t]

\* cThread::Destroy: Stop clears m_bActive.
Destroy(t) ==
    /\ m_bActive' = [m_bActive EXCEPT ![t] = FALSE]
    /\ WaitsFor(t) => loop[t] = "done"

SocketClosed(s) == socket' = [socket EXCEPT ![s] = "closed"]
Delete(o) == pointee' = [pointee EXCEPT ![o] = "deleted"]

\* A server's Stop: it closes the socket, to end the thread's select.
StopTCPServer ==
    /\ main = "servers" /\ server # <<>>
    /\ SocketClosed(Head(server))
    /\ Destroy(Head(server))
    /\ main' = "delete server"
    /\ UNCHANGED <<server, pointee, loop, admits, registered, traffic>>

DeleteTCPServer ==
    /\ Goes("delete server", "servers")
    /\ Delete(Head(server))
    /\ server' = Tail(server)
    /\ UNCHANGED <<m_bActive, loop, socket, admits, registered, traffic>>

TCPServersStopped ==
    /\ server = <<>>
    /\ Goes("servers", IF UDPSet = {} THEN "stop connq" ELSE "stop udp")
    /\ UNCHANGED <<server, pointee, m_bActive, loop, socket, admits, registered, traffic>>

StopUDPServer(s) ==
    /\ Goes("stop udp", "delete udp")
    /\ SocketClosed(s)
    /\ Destroy(s)
    /\ UNCHANGED <<server, pointee, loop, admits, registered, traffic>>

DeleteUDPServer(s) ==
    /\ Goes("delete udp", "stop connq")
    /\ Delete(s)
    /\ UNCHANGED <<server, m_bActive, loop, socket, admits, registered, traffic>>

\* The Stop of a thread that has no socket.
StopThread(t, a, b) ==
    /\ Goes(a, b)
    /\ Destroy(t)
    /\ UNCHANGED <<server, pointee, loop, socket, admits, registered, traffic>>

DeleteObject(o, a, b) ==
    /\ Goes(a, b)
    /\ pointee' = [pointee EXCEPT ![o] = IF @ = "none" THEN "none" ELSE "deleted"]
    /\ UNCHANGED <<server, m_bActive, loop, socket, admits, registered, traffic>>

\* Nobody stops the web server's decorator or its handlers.
WindsDown ==
    \/ Shutdown \/ StopTCPServer \/ DeleteTCPServer \/ TCPServersStopped
    \/ (\E s \in UDPServers : StopUDPServer(s) \/ DeleteUDPServer(s))
    \/ StopThread("connq", "stop connq", "delete connq")
    \/ DeleteObject("connq", "delete connq", "delete web")
    \/ DeleteObject("web", "delete web", "stop msgq")
    \/ StopThread("msgq", "stop msgq", "delete msgq")
    \/ DeleteObject("msgq", "delete msgq", "stop uid")
    \/ StopThread("uid", "stop uid", "delete uid")
    \/ DeleteObject("uid", "delete uid", "stop metrics")
    \/ StopThread("metrics", "stop metrics", "gone")

-----------------------------------------------------------------------------
(* The threads. *)

\* cThread::ThreadRunning, once the thread need not wait any more.
LoopTest(t) ==
    /\ loop[t] = "check" /\ m_bActive[t]
    /\ loop' = [loop EXCEPT ![t] = "body"]
    /\ UNCHANGED <<objects, traffic>>

InBody(t) == loop[t] = "body"
Loops(t) == loop' = [loop EXCEPT ![t] = "check"]

\* cIPAccess::Validate of a client: denied as long as there are no rules.
Admitted == admits

\* cTCPServer::Run: a connection is denied, or put in the pre-queue.
Accept(t) ==
    /\ InBody(t) /\ socket[t] = "open"
    /\ requestsMade < MaxRequests
    /\ preQueue' = IF Admitted THEN preQueue + 1 ELSE preQueue
    /\ requestsMade' = requestsMade + 1
    /\ Loops(t)
    /\ UNCHANGED <<objects, requests>>

\* cUDPServer::Run: a datagram is denied, or a request of the message queue.
ReceiveUDP(t) ==
    /\ InBody(t) /\ socket[t] = "open"
    /\ requestsMade < MaxRequests
    /\ requests' = IF Admitted THEN requests + 1 ELSE requests
    /\ requestsMade' = requestsMade + 1
    /\ Loops(t)
    /\ UNCHANGED <<objects, preQueue>>

\* The select of a server ends after ten seconds without a client, ...
SelectTimesOut(t) ==
    /\ InBody(t)
    /\ Loops(t)
    /\ UNCHANGED <<objects, traffic>>

\* ... or fails when the socket is closed.  A thread leaves its loop when it is told
\* to stop, a server when its select fails, the UDP server on an empty datagram too.
Leaves(t) ==
    \/ loop[t] = "check" /\ ~m_bActive[t]
    \/ t \in Servers /\ InBody(t) /\ (socket[t] = "closed" \/ t \in UDPServers)

ThreadEnds(t) ==
    /\ Leaves(t) /\ t \notin TCPNames
    /\ loop' = [loop EXCEPT ![t] = "done"]
    /\ IF t \in UDPServers THEN SocketClosed(t) ELSE UNCHANGED socket
    /\ UNCHANGED <<main, server, pointee, m_bActive, admits, registered, traffic>>

\* The TCP server's last words are a LOGALL, which throws: nobody catches it.
TCPServerEnds(t) ==
    /\ Leaves(t)
    /\ crashed' = TRUE
    /\ UNCHANGED <<objects, loop, traffic>>

\* cConnectionQueue::Run: the pre-queued connections and their requests.
TakePreQueue ==
    /\ InBody("connq")
    /\ requests' = requests + preQueue
    /\ preQueue' = 0
    /\ Loops("connq")
    /\ UNCHANGED <<objects, requestsMade>>

RequestsAfter_Untested == requests - 1

\* The message queue takes a request only if there is one.
RequestsAfter == IF requests > 0 THEN requests - 1 ELSE 0

\* cMsgQueue::Run: a request goes to the web server, ...
TakeRequest ==
    /\ InBody("msgq")
    /\ requests > 0 => registered
    /\ requests' = RequestsAfter
    /\ Loops("msgq")
    /\ UNCHANGED <<objects, preQueue, requestsMade>>

\* ... which, if it is not there yet, is a null pointer.
NoWebServer ==
    /\ InBody("msgq")
    /\ requests > 0 /\ ~registered
    /\ crashed' = TRUE
    /\ UNCHANGED <<objects, loop, traffic>>

\* One pass of a thread that only works for itself.
OwnPass(t) ==
    /\ InBody(t)
    /\ Loops(t)
    /\ UNCHANGED <<objects, traffic>>

\* What a thread in its loop touches.
Touches(t) ==
    CASE t \in TCPNames   -> {t} \cup (IF InBody(t) THEN {"connq"} ELSE {})
      [] t \in UDPServers -> {t} \cup (IF InBody(t) THEN {"msgq"} ELSE {})
      [] t = "connq"      -> {"connq"} \cup (IF InBody(t) THEN {"msgq"} ELSE {})
      [] t = "msgq"       -> {"msgq"} \cup (IF InBody(t) /\ registered
                                           THEN {"connq", "web"} ELSE {})
      [] t = "web"        -> {"web", "msgq"}
      [] t = "uid"        -> {"uid"}
      [] t = "metrics"    -> {}

InLoop(t) == loop[t] \in {"check", "body"}

\* A thread that touches what was deleted may fault.
Fault(t) ==
    /\ InLoop(t)
    /\ \E o \in Touches(t) : pointee[o] = "deleted"
    /\ crashed' = TRUE
    /\ UNCHANGED <<objects, loop, traffic>>

Pass ==
    \/ \E t \in Threads : LoopTest(t) \/ ThreadEnds(t)
    \/ \E t \in TCPNames : Accept(t)
    \/ \E t \in UDPServers : ReceiveUDP(t)
    \/ \E t \in Servers : SelectTimesOut(t)
    \/ TakePreQueue \/ TakeRequest
    \/ \E t \in {"uid", "metrics", "web"} : OwnPass(t)

LifeNext ==
    /\ ~crashed
    /\ UNCHANGED configFile
    /\ \/ (Launch \/ StartsUp \/ WindsDown \/ Pass) /\ UNCHANGED crashed
       \/ TCPServerThrows \/ NoWebServer
       \/ (\E t \in TCPNames : TCPServerEnds(t)) \/ (\E t \in Threads : Fault(t))

LifeSpec == LifeInit /\ [][LifeNext]_lifeVars

\* The scheduler runs every thread: the main thread takes its next step of Init, if
\* the process was started, and once asked to stop of Deinit; a thread tests
\* m_bActive and ends a pass.
Fair(A) == ~crashed /\ A /\ UNCHANGED <<configFile, crashed>>

LifeFairness ==
    /\ WF_lifeVars(Fair(StartsUp \/ (WindsDown /\ ~Shutdown)))
    /\ \A t \in Threads : WF_lifeVars(Fair(LoopTest(t)))
    /\ \A t \in Servers : WF_lifeVars(Fair(SelectTimesOut(t)))
    /\ WF_lifeVars(Fair(TakePreQueue))

LifeFairSpec == LifeSpec /\ LifeFairness

-----------------------------------------------------------------------------
LifeTypeOK ==
    /\ main \in {"off", "uid", "new msgq", "config", "new connq", "tcp", "udp", "start connq",
                  "start msgq", "start metrics", "new web", "start web", "post", "routes",
                  "running", "servers", "delete server", "stop udp", "delete udp",
                  "stop connq", "delete connq", "delete web", "stop msgq",
                  "delete msgq", "stop uid", "delete uid", "stop metrics", "gone"}
    /\ server \in Seq(TCPNames)
    /\ pointee \in [Objects -> {"none", "alive", "deleted"}]
    /\ m_bActive \in [Threads -> BOOLEAN]
    /\ loop \in [Threads -> {"none", "check", "body", "done"}]
    /\ socket \in [Servers -> {"none", "open", "closed"}]
    /\ admits \in BOOLEAN /\ registered \in BOOLEAN /\ crashed \in BOOLEAN
    /\ preQueue \in Nat /\ requests \in Nat /\ requestsMade \in 0 .. MaxRequests

\* No thread reaches what Init has not made yet, in whatever order the threads
\* already started run beside it (core.cpp:161): neither an object nor, with a
\* configuration file, a request the web server that is to be registered for it,
\* because nobody is let in before the rules are read (core.cpp:235, core.cpp:496).
NoEarlyUse ==
    /\ \A t \in Threads : InLoop(t) => \A o \in Touches(t) : pointee[o] # "none"
    /\ configFile /\ requests > 0 => registered

\* Deinit comes to its end, also after servers that could not bind and so have no
\* thread to wait for (thread.cpp:105), unless the process faults.
DeinitEnds == main = "servers" ~> (main = "gone" \/ crashed)

\* A connection accepted while Init is still under way does not stay in the
\* pre-queue (core.cpp:222).
AcceptedGetsQueued ==
    preQueue > 0 ~> (preQueue = 0 \/ crashed \/ main \in {"delete connq", "delete web",
        "stop msgq", "delete msgq", "stop uid", "delete uid", "stop metrics", "gone"})
=============================================================================
