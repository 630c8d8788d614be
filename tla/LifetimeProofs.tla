--------------------------- MODULE LifetimeProofs ----------------------------
(***************************************************************************)
(* While Init starts the threads one after the other, none of them reaches *)
(* what is not there yet: for any servers, any failures of their Start and *)
(* any number of requests.                                                 *)
(***************************************************************************)
EXTENDS Lifetime, SequenceTheorems, TLAPS

(* What Init has not passed yet, by the object that is missing. *)
BeforeMsgQueue == {"off", "uid", "new msgq"}
BeforeConnQueue == BeforeMsgQueue \cup {"config", "new connq"}
BeforeWebServer == BeforeConnQueue \cup {"tcp", "udp", "start connq", "start msgq",
                                         "start metrics", "new web"}

\* What Init has made stays known, alive or deleted.
MadeInOrder ==
    /\ main \notin BeforeMsgQueue => pointee["msgq"] # "none"
    /\ main \notin BeforeConnQueue => pointee["connq"] # "none"
    /\ main \notin BeforeWebServer => pointee["web"] # "none" /\ registered
    /\ registered => main \notin BeforeWebServer

\* A thread is started after its object is made and, but for the one of the unique
\* ids, after both queues.
StartedInOrder ==
    /\ \A t \in Objects : loop[t] # "none" => pointee[t] # "none"
    /\ \A t \in Threads \ {"uid"} : loop[t] # "none" => main \notin BeforeConnQueue

\* With a configuration file nobody is let in before the web server is there, and
\* what was not let in is on no queue.
LetInLate ==
    configFile =>
        /\ admits => registered
        /\ ~admits => preQueue = 0 /\ requests = 0

\* Deinit deletes a server of its list.
DeletesOne == main = "delete server" => server # <<>>

IInv == LifeTypeOK /\ MadeInOrder /\ StartedInOrder /\ LetInLate /\ DeletesOne

LEMMA Names ==
  /\ TCPNames \subseteq Servers /\ UDPServers \subseteq Servers /\ Servers \subseteq Objects
  /\ Objects \subseteq Threads /\ {"uid", "msgq", "connq", "web"} \subseteq Objects
  /\ Threads = Objects \cup {"metrics"} /\ "metrics" \notin Objects
  /\ Servers \cap {"uid", "msgq", "connq", "web", "metrics"} = {}
  /\ TCPNames \cap UDPServers = {}
BY LifetimeAssumption DEF Servers, Objects, Threads

LEMMA TCPListTyped == TCPList \in Seq(TCPNames)
<1>1. Len(TCPServers) \in Nat /\ Len(TCPServers) >= 1
  BY LifetimeAssumption
<1>2. SubSeq(TCPServers, 1, 1) \in Seq(TCPNames)
  BY <1>1, LifetimeAssumption
<1> QED
  BY <1>2, LifetimeAssumption DEF TCPList

LEMMA InitHolds == LifeInit => IInv
<1> SUFFICES ASSUME LifeInit PROVE IInv
  OBVIOUS
<1>1. LifeTypeOK
  <2>1. server \in Seq(TCPNames)
    BY DEF LifeInit
  <2>2. requestsMade \in 0 .. MaxRequests
    BY LifetimeAssumption DEF LifeInit
  <2> QED
    BY <2>1, <2>2 DEF LifeInit, LifeTypeOK
<1>2. MadeInOrder /\ StartedInOrder /\ LetInLate /\ DeletesOne
  BY Names DEF LifeInit, MadeInOrder, StartedInOrder, LetInLate, DeletesOne, BeforeMsgQueue,
              BeforeConnQueue, BeforeWebServer
<1> QED
  BY <1>1, <1>2 DEF IInv

\* A thread told to start keeps the types.
LEMMA StartTyped ==
  ASSUME LifeTypeOK, NEW t \in Threads, StartThread(t)
  PROVE  /\ m_bActive' \in [Threads -> BOOLEAN]
         /\ loop' \in [Threads -> {"none", "check", "body", "done"}]
BY DEF LifeTypeOK, StartThread

LEMMA NewTyped ==
  ASSUME LifeTypeOK, NEW o, New(o)
  PROVE  pointee' \in [Objects -> {"none", "alive", "deleted"}]
BY DEF LifeTypeOK, New

LEMMA DestroyTyped ==
  ASSUME LifeTypeOK, NEW t, Destroy(t)
  PROVE  m_bActive' \in [Threads -> BOOLEAN]
BY DEF LifeTypeOK, Destroy

LEMMA StartsTyped ==
  ASSUME LifeTypeOK, NEW s \in Servers, Starts(s)
  PROVE  /\ m_bActive' \in [Threads -> BOOLEAN]
         /\ loop' \in [Threads -> {"none", "check", "body", "done"}]
         /\ pointee' \in [Objects -> {"none", "alive", "deleted"}]
         /\ socket' \in [Servers -> {"none", "open", "closed"}]
<1>1. s \in Threads
  BY Names
<1>2. pointee' \in [Objects -> {"none", "alive", "deleted"}]
  BY NewTyped DEF Starts
<1>3. socket' \in [Servers -> {"none", "open", "closed"}]
  BY DEF Starts, LifeTypeOK
<1>4. CASE StartThread(s)
  BY <1>1, <1>2, <1>3, <1>4, StartTyped
<1>5. CASE UNCHANGED <<m_bActive, loop>>
  BY <1>2, <1>3, <1>5 DEF LifeTypeOK
<1> QED
  BY <1>4, <1>5 DEF Starts

\* Starting up keeps the types.
LEMMA StartsUpTyped ==
  ASSUME LifeTypeOK, Launch \/ StartsUp, UNCHANGED crashed
  PROVE  LifeTypeOK'
<1> USE DEF Goes, traffic
<1>1. CASE Launch
  BY <1>1 DEF Launch, LifeTypeOK
<1>2. CASE StartUniqueIDs
  BY <1>2, Names, StartTyped, NewTyped DEF StartUniqueIDs, LifeTypeOK
<1>3. CASE NewMsgQueue
  BY <1>3, NewTyped DEF NewMsgQueue, LifeTypeOK
<1>4. CASE LoadConfig
  BY <1>4, TCPListTyped DEF LoadConfig, LifeTypeOK, AfterConfig
<1>5. CASE NewConnQueue
  BY <1>5, NewTyped DEF NewConnQueue, LifeTypeOK
<1>6. CASE StartTCPServer
  <2>1. Head(server) \in Servers /\ Tail(server) \in Seq(TCPNames)
    BY <1>6, Names DEF StartTCPServer, LifeTypeOK
  <2>2. server' \in Seq(TCPNames)
    BY <1>6, <2>1 DEF StartTCPServer
  <2> QED
    BY <1>6, <2>1, <2>2, StartsTyped DEF StartTCPServer, LifeTypeOK
<1>7. CASE TCPServersDone
  BY <1>7 DEF TCPServersDone, LifeTypeOK
<1>8. ASSUME NEW s \in UDPSet, StartUDPServer(s) PROVE LifeTypeOK'
  <2>1. s \in Servers
    BY Names DEF UDPSet
  <2>2. CASE Starts(s)
    BY <1>8, <2>1, <2>2, StartsTyped DEF StartUDPServer, LifeTypeOK, AfterUDPServers
  <2>3. CASE New(s) /\ UNCHANGED <<m_bActive, loop, socket>>
    BY <1>8, <2>3, NewTyped DEF StartUDPServer, LifeTypeOK, AfterUDPServers
  <2> QED
    BY <1>8, <2>2, <2>3 DEF StartUDPServer
<1>9. CASE NoUDPServer
  BY <1>9 DEF NoUDPServer, LifeTypeOK, AfterUDPServers
<1>10. CASE StartQueueThread("connq", "start connq", "start msgq")
  BY <1>10, Names, StartTyped DEF StartQueueThread, LifeTypeOK
<1>11. CASE StartQueueThread("msgq", "start msgq", "start metrics")
  BY <1>11, Names, StartTyped DEF StartQueueThread, LifeTypeOK
<1>12. CASE StartQueueThread("metrics", "start metrics", "new web")
  BY <1>12, Names, StartTyped DEF StartQueueThread, LifeTypeOK
<1>13. CASE RegisterWebServer
  BY <1>13, NewTyped DEF RegisterWebServer, LifeTypeOK
<1>14. CASE StartQueueThread("web", "start web", "post")
  BY <1>14, Names, StartTyped DEF StartQueueThread, LifeTypeOK
<1>15. CASE ProcessIPRules
  BY <1>15 DEF ProcessIPRules, LifeTypeOK
<1>16. CASE ProcessHandlers
  BY <1>16 DEF ProcessHandlers, LifeTypeOK
<1> QED
  BY <1>1, <1>2, <1>3, <1>4, <1>5, <1>6, <1>7, <1>8, <1>9, <1>10, <1>11, <1>12, <1>13, <1>14,
     <1>15, <1>16 DEF StartsUp

\* Winding down keeps the types.
LEMMA WindsDownTyped ==
  ASSUME LifeTypeOK, DeletesOne, WindsDown, UNCHANGED crashed
  PROVE  LifeTypeOK'
<1> USE DEF Goes, traffic
<1>1. CASE Shutdown
  BY <1>1, TCPListTyped DEF Shutdown, LifeTypeOK
<1>2. CASE StopTCPServer
  <2>1. m_bActive' \in [Threads -> BOOLEAN]
    BY <1>2, DestroyTyped DEF StopTCPServer
  <2> QED
    BY <1>2, <2>1 DEF StopTCPServer, SocketClosed, LifeTypeOK
<1>3. CASE DeleteTCPServer
  <2>1. server \in Seq(TCPNames) /\ server # <<>>
    BY <1>3 DEF DeleteTCPServer, LifeTypeOK, DeletesOne
  <2>2. Tail(server) \in Seq(TCPNames)
    BY <2>1
  <2> QED
    BY <1>3, <2>2 DEF DeleteTCPServer, Delete, LifeTypeOK
<1>4. CASE TCPServersStopped
  BY <1>4 DEF TCPServersStopped, LifeTypeOK
<1>5. ASSUME NEW s \in UDPServers, StopUDPServer(s) PROVE LifeTypeOK'
  <2>1. m_bActive' \in [Threads -> BOOLEAN]
    BY <1>5, DestroyTyped DEF StopUDPServer
  <2> QED
    BY <1>5, <2>1 DEF StopUDPServer, SocketClosed, LifeTypeOK
<1>6. ASSUME NEW s \in UDPServers, DeleteUDPServer(s) PROVE LifeTypeOK'
  BY <1>6 DEF DeleteUDPServer, Delete, LifeTypeOK
<1>7. ASSUME NEW t, NEW a, NEW b \in {"delete connq", "delete msgq", "delete uid", "gone"},
             StopThread(t, a, b)
      PROVE  LifeTypeOK'
  <2>1. m_bActive' \in [Threads -> BOOLEAN]
    BY <1>7, DestroyTyped DEF StopThread
  <2> QED
    BY <1>7, <2>1 DEF StopThread, LifeTypeOK
<1>8. ASSUME NEW o, NEW a, NEW b \in {"delete web", "stop msgq", "stop uid", "stop metrics"},
             DeleteObject(o, a, b)
      PROVE  LifeTypeOK'
  BY <1>8 DEF DeleteObject, LifeTypeOK
<1> QED
  BY <1>1, <1>2, <1>3, <1>4, <1>5, <1>6, <1>7, <1>8 DEF WindsDown

\* A pass of a thread keeps the types.
LEMMA PassTyped ==
  ASSUME LifeTypeOK, Pass, UNCHANGED crashed
  PROVE  LifeTypeOK'
<1> USE DEF objects, traffic, InBody, Loops
<1>1. requestsMade < MaxRequests => requestsMade + 1 \in 0 .. MaxRequests
  <2>1. requestsMade \in 0 .. MaxRequests /\ MaxRequests \in Nat
    BY LifetimeAssumption DEF LifeTypeOK
  <2> QED
    BY <2>1
<1>0. preQueue \in Nat /\ requests \in Nat
  BY DEF LifeTypeOK
<1>2. ASSUME NEW t, LoopTest(t) PROVE LifeTypeOK'
  BY <1>2 DEF LoopTest, LifeTypeOK
<1>3. ASSUME NEW t, ThreadEnds(t) PROVE LifeTypeOK'
  <2>1. loop' \in [Threads -> {"none", "check", "body", "done"}]
    BY <1>3 DEF ThreadEnds, LifeTypeOK
  <2>2. socket' \in [Servers -> {"none", "open", "closed"}]
    BY <1>3 DEF ThreadEnds, SocketClosed, LifeTypeOK
  <2> QED
    BY <1>3, <2>1, <2>2 DEF ThreadEnds, LifeTypeOK
<1>4. ASSUME NEW t, Accept(t) PROVE LifeTypeOK'
  <2>1. requestsMade' \in 0 .. MaxRequests /\ preQueue' \in Nat
    BY <1>0, <1>1, <1>4 DEF Accept
  <2> QED
    BY <1>4, <2>1 DEF Accept, LifeTypeOK
<1>5. ASSUME NEW t, ReceiveUDP(t) PROVE LifeTypeOK'
  <2>1. requestsMade' \in 0 .. MaxRequests /\ requests' \in Nat
    BY <1>0, <1>1, <1>5 DEF ReceiveUDP
  <2> QED
    BY <1>5, <2>1 DEF ReceiveUDP, LifeTypeOK
<1>6. ASSUME NEW t, SelectTimesOut(t) PROVE LifeTypeOK'
  BY <1>6 DEF SelectTimesOut, LifeTypeOK
<1>7. CASE TakePreQueue
  <2>1. requests' \in Nat
    BY <1>0, <1>7 DEF TakePreQueue
  <2> QED
    BY <1>7, <2>1 DEF TakePreQueue, LifeTypeOK
<1>8. CASE TakeRequest
  <2>1. requests' \in Nat
    BY <1>0, <1>8 DEF TakeRequest, RequestsAfter
  <2> QED
    BY <1>8, <2>1 DEF TakeRequest, LifeTypeOK
<1>9. ASSUME NEW t, OwnPass(t) PROVE LifeTypeOK'
  BY <1>9 DEF OwnPass, LifeTypeOK
<1> QED
  BY <1>2, <1>3, <1>4, <1>5, <1>6, <1>7, <1>8, <1>9 DEF Pass

LEMMA StepTyped ==
  ASSUME LifeTypeOK, DeletesOne, LifeNext
  PROVE  LifeTypeOK'
<1>1. CASE UNCHANGED crashed /\ (Launch \/ StartsUp \/ WindsDown \/ Pass)
  BY <1>1, StartsUpTyped, WindsDownTyped, PassTyped
<1>2. CASE crashed' = TRUE /\ UNCHANGED <<objects, loop, traffic>>
  BY <1>2 DEF objects, traffic, LifeTypeOK
<1> QED
  BY <1>1, <1>2 DEF LifeNext, TCPServerThrows, NoWebServer, TCPServerEnds, Fault

\* A step that keeps what is made, what is started and who is let in.
LEMMA SameOrder ==
  ASSUME IInv, UNCHANGED configFile, UNCHANGED <<main, server, pointee, registered>>,
         \A t \in Threads : loop[t] = "none" => loop'[t] = "none",
         configFile => /\ admits' => registered
                       /\ ~admits' => preQueue' = 0 /\ requests' = 0
  PROVE  MadeInOrder' /\ StartedInOrder' /\ LetInLate' /\ DeletesOne'
<1>1. MadeInOrder' /\ DeletesOne'
  BY DEF IInv, MadeInOrder, DeletesOne
<1>2. LetInLate'
  BY DEF LetInLate
<1>3. \A t \in Objects : loop'[t] # "none" => pointee'[t] # "none"
  BY Names DEF IInv, StartedInOrder
<1>4. \A t \in Threads \ {"uid"} : loop'[t] # "none" => main' \notin BeforeConnQueue
  BY DEF IInv, StartedInOrder
<1> QED
  BY <1>1, <1>2, <1>3, <1>4 DEF StartedInOrder

LEMMA PassOrdered ==
  ASSUME IInv, UNCHANGED configFile, Pass
  PROVE  MadeInOrder' /\ StartedInOrder' /\ LetInLate' /\ DeletesOne'
<1> USE DEF objects, traffic, InBody, Loops
<1>1. UNCHANGED <<main, server, pointee, registered, admits>>
  BY DEF Pass, LoopTest, ThreadEnds, Accept, ReceiveUDP, SelectTimesOut, TakePreQueue, TakeRequest,
         OwnPass
<1>2. \A t \in Threads : loop[t] = "none" => loop'[t] = "none"
  <2>1. ASSUME NEW t, NEW l, loop[t] \in {"check", "body"}, loop' = [loop EXCEPT ![t] = l]
        PROVE  \A u \in Threads : loop[u] = "none" => loop'[u] = "none"
    BY <2>1 DEF IInv, LifeTypeOK
  <2>2. ASSUME NEW t, ThreadEnds(t) PROVE loop[t] \in {"check", "body"}
    BY <2>2 DEF ThreadEnds, Leaves
  <2> QED
    BY <2>1, <2>2 DEF Pass, LoopTest, ThreadEnds, Accept, ReceiveUDP, SelectTimesOut, TakePreQueue,
                      TakeRequest, OwnPass
<1>3. configFile => /\ admits' => registered
                    /\ ~admits' => preQueue' = 0 /\ requests' = 0
  <2> SUFFICES ASSUME configFile PROVE /\ admits => registered
                                       /\ ~admits => preQueue' = 0 /\ requests' = 0
    BY <1>1
  <2>1. admits => registered
    BY DEF IInv, LetInLate
  <2>2. ASSUME ~admits PROVE preQueue' = 0 /\ requests' = 0
    <3>1. preQueue = 0 /\ requests = 0
      BY <2>2 DEF IInv, LetInLate
    <3> QED
      BY <2>2, <3>1 DEF Pass, LoopTest, ThreadEnds, Accept, ReceiveUDP, Admitted, SelectTimesOut,
                        TakePreQueue, TakeRequest, RequestsAfter, OwnPass
  <2> QED
    BY <2>1, <2>2
<1> QED
  BY <1>1, <1>2, <1>3, SameOrder

\* A step of Init that starts no thread and lets nobody in.
LEMMA NoThreadStarted ==
  ASSUME IInv, UNCHANGED <<configFile, loop, admits, traffic>>,
         \A o \in Objects : pointee[o] # "none" => pointee'[o] # "none",
         registered => registered',
         main' \in BeforeConnQueue => main \in BeforeConnQueue
  PROVE  StartedInOrder' /\ LetInLate'
<1>1. LetInLate'
  BY DEF IInv, LetInLate, traffic
<1>2. \A t \in Objects : loop'[t] # "none" => pointee'[t] # "none"
  BY DEF IInv, StartedInOrder
<1>3. \A t \in Threads \ {"uid"} : loop'[t] # "none" => main' \notin BeforeConnQueue
  BY DEF IInv, StartedInOrder
<1> QED
  BY <1>1, <1>2, <1>3 DEF StartedInOrder

\* A step of Init that starts at most one thread, whose object is there.
LEMMA ThreadStarted ==
  ASSUME IInv, UNCHANGED <<configFile, admits, registered, traffic>>,
         NEW t \in Threads, StartThread(t),
         \A o \in Objects : pointee[o] # "none" => pointee'[o] # "none",
         t # "metrics" => pointee'[t] # "none",
         main' \in BeforeConnQueue => main \in BeforeConnQueue,
         t # "uid" => main' \notin BeforeConnQueue
  PROVE  StartedInOrder' /\ LetInLate'
<1>1. LetInLate'
  BY DEF IInv, LetInLate, traffic
<1>2. \A u \in Threads : loop'[u] # "none" => u = t \/ loop[u] # "none"
  BY DEF IInv, LifeTypeOK, StartThread
<1>3. \A u \in Objects : loop'[u] # "none" => pointee'[u] # "none"
  BY <1>2, Names DEF IInv, StartedInOrder
<1>4. \A u \in Threads \ {"uid"} : loop'[u] # "none" => main' \notin BeforeConnQueue
  BY <1>2 DEF IInv, StartedInOrder
<1> QED
  BY <1>1, <1>3, <1>4 DEF StartedInOrder

LEMMA NewKnown ==
  ASSUME LifeTypeOK, NEW o \in Objects, New(o)
  PROVE  /\ pointee'[o] # "none"
         /\ \A p \in Objects : pointee[p] # "none" => pointee'[p] # "none"
BY DEF LifeTypeOK, New

LEMMA StartsUpOrdered ==
  ASSUME IInv, UNCHANGED configFile, Launch \/ StartsUp
  PROVE  MadeInOrder' /\ StartedInOrder' /\ LetInLate' /\ DeletesOne'
<1> DEFINE Kept == \A o \in Objects : pointee[o] # "none" => pointee'[o] # "none"
           Places == {BeforeMsgQueue, BeforeConnQueue, BeforeWebServer}
           Onward == \A b \in Places : main' \in b => main \in b
<1> USE DEF Goes, BeforeMsgQueue, BeforeConnQueue, BeforeWebServer
<1>0. LifeTypeOK /\ MadeInOrder /\ StartedInOrder /\ LetInLate
  BY DEF IInv
<1>1. CASE Launch
  <2>1. MadeInOrder' /\ DeletesOne'
    BY <1>0, <1>1 DEF Launch, MadeInOrder, DeletesOne
  <2> QED
    BY <1>1, <2>1, NoThreadStarted DEF Launch
<1>2. CASE StartUniqueIDs
  <2>1. "uid" \in Objects /\ "uid" \in Threads
    BY Names
  <2>2. pointee'["uid"] # "none" /\ Kept
    BY <1>0, <1>2, <2>1, NewKnown DEF StartUniqueIDs
  <2>3. MadeInOrder' /\ DeletesOne'
    BY <1>0, <1>2 DEF StartUniqueIDs, MadeInOrder, DeletesOne
  <2> QED
    BY <1>2, <2>1, <2>2, <2>3, ThreadStarted DEF StartUniqueIDs
<1>3. CASE NewMsgQueue
  <2>1. pointee'["msgq"] # "none" /\ Kept
    BY <1>0, <1>3, Names, NewKnown DEF NewMsgQueue
  <2>2. MadeInOrder' /\ DeletesOne'
    BY <1>0, <1>3, <2>1 DEF NewMsgQueue, MadeInOrder, DeletesOne
  <2> QED
    BY <1>3, <2>1, <2>2, NoThreadStarted DEF NewMsgQueue
<1>4. CASE LoadConfig
  <2>1. MadeInOrder' /\ DeletesOne'
    BY <1>0, <1>4 DEF LoadConfig, AfterConfig, MadeInOrder, DeletesOne
  <2>2. StartedInOrder'
    BY <1>0, <1>4 DEF LoadConfig, AfterConfig, StartedInOrder
  <2>3. ~registered
    BY <1>0, <1>4 DEF LoadConfig, MadeInOrder
  <2>4. LetInLate'
    BY <1>0, <1>4, <2>3 DEF LoadConfig, LetInLate, traffic
  <2> QED
    BY <2>1, <2>2, <2>4
<1>5. CASE NewConnQueue
  <2>1. pointee'["connq"] # "none" /\ Kept
    BY <1>0, <1>5, Names, NewKnown DEF NewConnQueue
  <2>2. MadeInOrder' /\ DeletesOne'
    BY <1>0, <1>5, <2>1, Names DEF NewConnQueue, MadeInOrder, DeletesOne
  <2>3. \A t \in Threads \ {"uid"} : loop[t] = "none"
    BY <1>0, <1>5 DEF NewConnQueue, StartedInOrder
  <2> QED
    BY <1>5, <2>1, <2>2, NoThreadStarted DEF NewConnQueue
<1>6. ASSUME NEW s \in Servers, Starts(s), Onward, main' \notin BeforeConnQueue,
             main' # "delete server", main \notin BeforeConnQueue, main' \in BeforeWebServer,
             UNCHANGED <<admits, registered, traffic>>
      PROVE  MadeInOrder' /\ StartedInOrder' /\ LetInLate' /\ DeletesOne'
  <2>1. s \in Objects /\ s \in Threads /\ s # "metrics" /\ s # "uid"
    BY Names
  <2>2. pointee'[s] # "none" /\ Kept
    BY <1>0, <1>6, <2>1, NewKnown DEF Starts
  <2>3. MadeInOrder' /\ DeletesOne'
    BY <1>0, <1>6, <2>2, Names DEF MadeInOrder, DeletesOne
  <2>4. CASE StartThread(s)
    BY <1>6, <2>1, <2>2, <2>3, <2>4, ThreadStarted
  <2>5. CASE UNCHANGED <<m_bActive, loop>>
    BY <1>6, <2>2, <2>3, <2>5, NoThreadStarted
  <2> QED
    BY <1>6, <2>4, <2>5 DEF Starts
<1>7. CASE StartTCPServer
  <2>1. Head(server) \in Servers
    BY <1>0, <1>7, Names DEF StartTCPServer, LifeTypeOK
  <2> QED
    BY <1>6, <1>7, <2>1 DEF StartTCPServer
<1>8. CASE TCPServersDone
  <2>1. MadeInOrder' /\ DeletesOne'
    BY <1>0, <1>8 DEF TCPServersDone, MadeInOrder, DeletesOne
  <2> QED
    BY <1>8, <2>1, NoThreadStarted DEF TCPServersDone
<1>9. ASSUME NEW s \in UDPSet, StartUDPServer(s)
      PROVE  MadeInOrder' /\ StartedInOrder' /\ LetInLate' /\ DeletesOne'
  <2>1. s \in Servers /\ s \in Objects
    BY Names DEF UDPSet
  <2>2. CASE Starts(s)
    BY <1>6, <1>9, <2>1, <2>2 DEF StartUDPServer, AfterUDPServers
  <2>3. CASE New(s) /\ UNCHANGED <<m_bActive, loop, socket>>
    <3>1. Kept
      BY <1>0, <2>1, <2>3, NewKnown
    <3>2. MadeInOrder' /\ DeletesOne'
      BY <1>0, <1>9, <3>1, Names DEF StartUDPServer, AfterUDPServers, MadeInOrder, DeletesOne
    <3> QED
      BY <1>9, <2>3, <3>1, <3>2, NoThreadStarted DEF StartUDPServer, AfterUDPServers
  <2> QED
    BY <1>9, <2>2, <2>3 DEF StartUDPServer
<1>10. CASE NoUDPServer
  <2>1. MadeInOrder' /\ DeletesOne'
    BY <1>0, <1>10 DEF NoUDPServer, AfterUDPServers, MadeInOrder, DeletesOne
  <2> QED
    BY <1>10, <2>1, NoThreadStarted DEF NoUDPServer, AfterUDPServers
<1>11. ASSUME NEW t \in {"connq", "msgq", "web", "metrics"}, NEW a, NEW b,
              StartQueueThread(t, a, b), Onward, main \notin BeforeConnQueue,
              main' \notin BeforeConnQueue, t = "web" => main \notin BeforeWebServer,
              main' \notin BeforeWebServer => main \notin BeforeWebServer,
              main' # "delete server"
       PROVE  MadeInOrder' /\ StartedInOrder' /\ LetInLate' /\ DeletesOne'
  <2>1. t \in Threads /\ (t # "metrics" => pointee'[t] # "none")
    BY <1>0, <1>11, Names DEF StartQueueThread, MadeInOrder
  <2>2. MadeInOrder' /\ DeletesOne'
    BY <1>0, <1>11 DEF StartQueueThread, MadeInOrder, DeletesOne
  <2> QED
    BY <1>11, <2>1, <2>2, ThreadStarted DEF StartQueueThread
<1>12. CASE StartQueueThread("connq", "start connq", "start msgq")
  BY <1>11, <1>12 DEF StartQueueThread
<1>13. CASE StartQueueThread("msgq", "start msgq", "start metrics")
  BY <1>11, <1>13 DEF StartQueueThread
<1>14. CASE StartQueueThread("metrics", "start metrics", "new web")
  BY <1>11, <1>14 DEF StartQueueThread
<1>15. CASE StartQueueThread("web", "start web", "post")
  BY <1>11, <1>15 DEF StartQueueThread
<1>16. CASE RegisterWebServer
  <2>1. pointee'["web"] # "none" /\ Kept
    BY <1>0, <1>16, Names, NewKnown DEF RegisterWebServer
  <2>2. MadeInOrder' /\ DeletesOne'
    BY <1>0, <1>16, <2>1, Names DEF RegisterWebServer, MadeInOrder, DeletesOne
  <2> QED
    BY <1>16, <2>1, <2>2, NoThreadStarted DEF RegisterWebServer
<1>17. CASE ProcessIPRules
  <2>1. MadeInOrder' /\ DeletesOne'
    BY <1>0, <1>17 DEF ProcessIPRules, MadeInOrder, DeletesOne
  <2>2. StartedInOrder'
    BY <1>0, <1>17 DEF ProcessIPRules, StartedInOrder
  <2>3. registered
    BY <1>0, <1>17 DEF ProcessIPRules, MadeInOrder
  <2>4. LetInLate'
    BY <1>17, <2>3 DEF ProcessIPRules, LetInLate
  <2> QED
    BY <2>1, <2>2, <2>4
<1>18. CASE ProcessHandlers
  <2>1. MadeInOrder' /\ DeletesOne'
    BY <1>0, <1>18 DEF ProcessHandlers, MadeInOrder, DeletesOne
  <2> QED
    BY <1>18, <2>1, NoThreadStarted DEF ProcessHandlers
<1> QED
  BY <1>1, <1>2, <1>3, <1>4, <1>5, <1>7, <1>8, <1>9, <1>10, <1>12, <1>13, <1>14, <1>15, <1>16,
     <1>17, <1>18 DEF StartsUp

\* Deinit makes nothing unknown, and starts nothing.
LEMMA WindsDownKeeps ==
  ASSUME IInv, UNCHANGED configFile, UNCHANGED <<loop, admits, registered, traffic>>,
         \A o \in Objects : pointee[o] # "none" => pointee'[o] # "none",
         main \notin BeforeWebServer, main' \notin BeforeWebServer
  PROVE  MadeInOrder' /\ StartedInOrder' /\ LetInLate'
<1>1. main' \notin BeforeMsgQueue /\ main' \notin BeforeConnQueue
      /\ main \notin BeforeMsgQueue /\ main \notin BeforeConnQueue
  BY DEF BeforeMsgQueue, BeforeConnQueue, BeforeWebServer
<1>2. MadeInOrder'
  BY <1>1, Names DEF IInv, MadeInOrder
<1> QED
  BY <1>1, <1>2, NoThreadStarted

LEMMA WindsDownOrdered ==
  ASSUME IInv, UNCHANGED configFile, WindsDown
  PROVE  MadeInOrder' /\ StartedInOrder' /\ LetInLate' /\ DeletesOne'
<1> DEFINE Kept == \A o \in Objects : pointee[o] # "none" => pointee'[o] # "none"
<1> USE DEF Goes, BeforeMsgQueue, BeforeConnQueue, BeforeWebServer
<1>0. pointee \in [Objects -> {"none", "alive", "deleted"}]
  BY DEF IInv, LifeTypeOK
<1>1. ASSUME NEW o, Delete(o) PROVE Kept
  BY <1>0, <1>1 DEF Delete
<1>2. CASE Shutdown
  BY <1>2, WindsDownKeeps DEF Shutdown, DeletesOne
<1>3. CASE StopTCPServer
  BY <1>3, WindsDownKeeps DEF StopTCPServer, DeletesOne
<1>4. CASE DeleteTCPServer
  BY <1>1, <1>4, WindsDownKeeps DEF DeleteTCPServer, DeletesOne
<1>5. CASE TCPServersStopped
  BY <1>5, WindsDownKeeps DEF TCPServersStopped, DeletesOne
<1>6. ASSUME NEW s, StopUDPServer(s)
      PROVE  MadeInOrder' /\ StartedInOrder' /\ LetInLate' /\ DeletesOne'
  BY <1>6, WindsDownKeeps DEF StopUDPServer, DeletesOne
<1>7. ASSUME NEW s, DeleteUDPServer(s)
      PROVE  MadeInOrder' /\ StartedInOrder' /\ LetInLate' /\ DeletesOne'
  BY <1>1, <1>7, WindsDownKeeps DEF DeleteUDPServer, DeletesOne
<1>8. ASSUME NEW t, NEW a \in {"stop connq", "stop msgq", "stop uid", "stop metrics"},
             NEW b \in {"delete connq", "delete msgq", "delete uid", "gone"},
             StopThread(t, a, b)
      PROVE  MadeInOrder' /\ StartedInOrder' /\ LetInLate' /\ DeletesOne'
  BY <1>8, WindsDownKeeps DEF StopThread, DeletesOne
<1>9. ASSUME NEW o, NEW a \in {"delete connq", "delete web", "delete msgq", "delete uid"},
             NEW b \in {"delete web", "stop msgq", "stop uid", "stop metrics"},
             DeleteObject(o, a, b)
      PROVE  MadeInOrder' /\ StartedInOrder' /\ LetInLate' /\ DeletesOne'
  <2>1. Kept
    BY <1>0, <1>9 DEF DeleteObject
  <2> QED
    BY <1>9, <2>1, WindsDownKeeps DEF DeleteObject, DeletesOne
<1> QED
  BY <1>2, <1>3, <1>4, <1>5, <1>6, <1>7, <1>8, <1>9 DEF WindsDown

LEMMA StepKeeps == IInv /\ [LifeNext]_lifeVars => IInv'
<1> SUFFICES ASSUME IInv, [LifeNext]_lifeVars PROVE IInv'
  OBVIOUS
<1>1. CASE LifeNext
  <2>1. LifeTypeOK'
    BY <1>1, StepTyped DEF IInv
  <2>2. UNCHANGED configFile
    BY <1>1 DEF LifeNext
  <2>3. CASE Launch \/ StartsUp
    BY <2>1, <2>2, <2>3, StartsUpOrdered DEF IInv
  <2>4. CASE WindsDown
    BY <2>1, <2>2, <2>4, WindsDownOrdered DEF IInv
  <2>5. CASE Pass
    BY <2>1, <2>2, <2>5, PassOrdered DEF IInv
  <2>6. CASE UNCHANGED <<objects, loop, traffic>>
    <3>1. MadeInOrder' /\ StartedInOrder' /\ LetInLate' /\ DeletesOne'
      BY <2>2, <2>6 DEF IInv, MadeInOrder, StartedInOrder, LetInLate, DeletesOne, objects, traffic
    <3> QED
      BY <2>1, <3>1 DEF IInv
  <2> QED
    BY <1>1, <2>3, <2>4, <2>5, <2>6 DEF LifeNext, TCPServerThrows, NoWebServer, TCPServerEnds,
                                         Fault
<1>2. CASE UNCHANGED lifeVars
  <2>1. LifeTypeOK'
    BY <1>2 DEF lifeVars, objects, traffic, IInv, LifeTypeOK
  <2>2. MadeInOrder' /\ DeletesOne'
    BY <1>2 DEF lifeVars, objects, IInv, MadeInOrder, DeletesOne
  <2>3. StartedInOrder'
    BY <1>2 DEF lifeVars, objects, IInv, StartedInOrder
  <2>4. LetInLate'
    BY <1>2 DEF lifeVars, objects, traffic, IInv, LetInLate
  <2> QED
    BY <2>1, <2>2, <2>3, <2>4 DEF IInv
<1> QED
  BY <1>1, <1>2

\* No thread whose loop runs touches an object of its own kind, or of one of the queues
\* or the web server, before it is made.
LEMMA NothingEarly == IInv => NoEarlyUse
<1> SUFFICES ASSUME IInv PROVE NoEarlyUse
  OBVIOUS
<1> USE DEF IInv, BeforeMsgQueue, BeforeConnQueue, BeforeWebServer
<1>1. ASSUME NEW t \in Threads, InLoop(t), NEW o \in Touches(t) PROVE pointee[o] # "none"
  <2>1. loop[t] # "none"
    BY <1>1 DEF InLoop
  <2>2. t # "metrics" => pointee[t] # "none"
    BY <2>1, Names DEF StartedInOrder
  <2>3. t # "uid" => pointee["connq"] # "none" /\ pointee["msgq"] # "none"
    BY <2>1 DEF StartedInOrder, MadeInOrder
  <2>4. registered => pointee["web"] # "none"
    BY DEF MadeInOrder
  <2>5. CASE t \in TCPNames
    BY <1>1, <2>2, <2>3, <2>5, Names DEF Touches
  <2>6. CASE t \in UDPServers
    BY <1>1, <2>2, <2>3, <2>6, Names DEF Touches
  <2>7. CASE t = "connq"
    BY <1>1, <2>2, <2>3, <2>7, Names DEF Touches
  <2>8. CASE t = "msgq"
    BY <1>1, <2>2, <2>3, <2>4, <2>8, Names DEF Touches
  <2>9. CASE t = "web"
    BY <1>1, <2>2, <2>3, <2>9, Names DEF Touches
  <2>10. CASE t \in {"uid", "metrics"}
    BY <1>1, <2>2, <2>10, Names DEF Touches
  <2> QED
    BY <2>5, <2>6, <2>7, <2>8, <2>9, <2>10 DEF Threads, Objects, Servers
<1>2. configFile /\ requests > 0 => registered
  BY DEF LetInLate
<1> QED
  BY <1>1, <1>2 DEF NoEarlyUse

\* The order in which Init makes and starts things holds whatever the threads that run
\* already do beside it, and whatever Deinit deletes later.
THEOREM InOrder == LifeSpec => []IInv
BY InitHolds, StepKeeps, PTL DEF LifeSpec

\* Every variable of Lifetime keeps its type.
THEOREM TypeCorrect == LifeSpec => []LifeTypeOK
<1>1. IInv => LifeTypeOK
  BY DEF IInv
<1> QED
  BY <1>1, InOrder, PTL

\* No thread reaches what Init has not made yet, and with a configuration file no
\* request is there before the web server (core.cpp:161, core.cpp:235).
THEOREM NothingUsedEarly == LifeSpec => []NoEarlyUse
BY InOrder, NothingEarly, PTL
=============================================================================
