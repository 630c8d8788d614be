------------------------------ MODULE WebServer ------------------------------
(***************************************************************************)
(* The web server (cWebServer::OnProcess, webserver.cpp), called by the    *)
(* thread of its decorator, and the request handlers it starts             *)
(* (cWebRequestHandler, webrequesthandler.cpp), each a thread.  They share *)
(* m_bConnected and m_pIMsg without a lock; starting and suspending a      *)
(* handler goes through Thread.                                            *)
(*                                                                         *)
(* The vector of handlers is abstracted to the set of those that exist:    *)
(* a search may test them in any order.  Creating a thread does not fail.  *)
(***************************************************************************)
EXTENDS Thread, Naturals

CONSTANTS
    Jobs,    \* the message objects requests come in
    NoJob,
    NoHandler

ASSUME JobAssumption ==
    /\ NoJob \notin Jobs
    /\ NoHandler \notin Handlers

VARIABLES
    offered,               \* the requests to be given to a handler
    answers,               \* how often each was answered since it was offered
    m_WebRequestHandlers,  \* the handlers that exist
    m_bConnected,          \* whether each handler is taken
    m_pIMsg,               \* the request each handler was given last
    hpc,                   \* where the handler's thread is in Run's loop
    pMessage,              \* the request it is processing
    spc,                   \* where the decorator's thread is in OnProcess
    job,                   \* the request OnProcess was called with
    tested,                \* the handlers found busy
    target                 \* the handler found idle

serverVars == <<m_WebRequestHandlers, spc, job, tested, target>>
threadVars == <<m_bSuspended, m_EventObject, tpc>>
handlerVars == <<m_bConnected, m_pIMsg, hpc, pMessage>>
webVars == <<offered, answers, serverVars, threadVars, handlerVars>>

\* These requests are waiting when the server starts.
StartWith(requests) ==
    /\ InitThread
    /\ offered = requests
    /\ answers = [j \in Jobs |-> 0]
    /\ m_WebRequestHandlers = {}
    /\ m_bConnected = [h \in Handlers |-> FALSE]
    /\ m_pIMsg = [h \in Handlers |-> NoJob]
    /\ hpc = [h \in Handlers |-> "running"]
    /\ pMessage = [h \in Handlers |-> NoJob]
    /\ spc = "idle"
    /\ job = NoJob
    /\ tested = {}
    /\ target = NoHandler

WebInit == StartWith(Jobs)

\* The message queue has a new request in the object of an answered one.
Submit(j) ==
    /\ j \notin offered
    /\ answers[j] = 1
    /\ offered' = offered \cup {j}
    /\ answers' = [answers EXCEPT ![j] = 0]
    /\ UNCHANGED <<serverVars, threadVars, handlerVars>>

-----------------------------------------------------------------------------
\* The decorator's thread

\* It returns from OnProcess, whose variables are gone.
EndOnProcess ==
    /\ spc' = "idle"
    /\ job' = NoJob
    /\ tested' = {}
    /\ target' = NoHandler

\* It calls OnProcess with the next request.
OnProcess(j) ==
    /\ spc = "idle"
    /\ j \in offered
    /\ job' = j
    /\ spc' = "search"
    /\ UNCHANGED <<offered, answers, m_WebRequestHandlers, tested, target,
                   threadVars, handlerVars>>

FindBusy(h) ==
    /\ spc = "search"
    /\ h \in m_WebRequestHandlers \ tested
    /\ m_bConnected[h]
    /\ tested' = tested \cup {h}
    /\ UNCHANGED <<offered, answers, m_WebRequestHandlers, spc, job, target,
                   threadVars, handlerVars>>

\* cWebRequestHandler::Setup, for a handler found idle or, when all are busy, a
\* new one: it is taken, ...
Setup(h) ==
    /\ spc = "search"
    /\ \/ h \in m_WebRequestHandlers \ tested /\ ~m_bConnected[h]
       \/ m_WebRequestHandlers \subseteq tested /\ h \notin m_WebRequestHandlers
    /\ m_WebRequestHandlers' = m_WebRequestHandlers \cup {h}
    /\ m_bConnected' = [m_bConnected EXCEPT ![h] = TRUE]
    /\ offered' = offered \ {job}
    /\ target' = h
    /\ spc' = "setup"
    /\ UNCHANGED <<answers, job, tested, threadVars, m_pIMsg, hpc, pMessage>>

\* ... and given the request.
SetMessage ==
    /\ spc = "setup"
    /\ m_pIMsg' = [m_pIMsg EXCEPT ![target] = job]
    /\ spc' = "start"
    /\ UNCHANGED <<offered, answers, m_WebRequestHandlers, job, tested, target,
                   threadVars, m_bConnected, hpc, pMessage>>

\* All m_iMaxHandlers handlers are busy: the request goes back.
HandBack ==
    /\ spc = "search"
    /\ Handlers \subseteq m_WebRequestHandlers \cap tested
    /\ EndOnProcess
    /\ UNCHANGED <<offered, answers, m_WebRequestHandlers, threadVars, handlerVars>>

\* cWebRequestHandler::Start: the thread is created the first time, ...
StartCreate ==
    /\ spc = "start"
    /\ Create(target)
    /\ spc' = "resume"
    /\ UNCHANGED <<offered, answers, m_WebRequestHandlers, job, tested, target,
                   m_bSuspended, m_EventObject, handlerVars>>

\* ... and resumed.
StartResume ==
    /\ spc = "resume"
    /\ ResumeFlag(target)
    /\ spc' = "signal"
    /\ UNCHANGED <<offered, answers, m_WebRequestHandlers, job, tested, target,
                   m_EventObject, tpc, handlerVars>>

StartSignal ==
    /\ spc = "signal"
    /\ ResumeSignal(target)
    /\ EndOnProcess
    /\ UNCHANGED <<offered, answers, m_WebRequestHandlers, m_bSuspended, handlerVars>>

-----------------------------------------------------------------------------
\* A handler's thread: cWebRequestHandler::Run

Then_FreeFirst(pc) ==
    CASE pc = "process" -> "free"
      [] pc = "free" -> "suspend"
      [] pc = "suspend" -> "reset"
      [] pc = "reset" -> "running"

\* The order of the loop's body.
Then(pc) ==
    CASE pc = "process" -> "suspend"
      [] pc = "suspend" -> "reset"
      [] pc = "reset" -> "free"
      [] pc = "free" -> "running"

\* The thread goes on in the loop's body, or, at its end, to ThreadRunning.
GoOn(h) ==
    /\ hpc' = [hpc EXCEPT ![h] = Then(@)]
    /\ tpc' = IF Then(hpc[h]) = "running" THEN [tpc EXCEPT ![h] = "enter"] ELSE tpc

CallThreadRunning(h) ==
    /\ hpc[h] = "running"
    /\ ThreadRunning(h)
    /\ UNCHANGED <<offered, answers, serverVars, handlerVars>>

\* Process is called with the request as it is now.
CallProcess(h) ==
    /\ hpc[h] = "running"
    /\ tpc[h] = "run"
    /\ pMessage' = [pMessage EXCEPT ![h] = m_pIMsg[h]]
    /\ hpc' = [hpc EXCEPT ![h] = "process"]
    /\ UNCHANGED <<offered, answers, serverVars, threadVars, m_bConnected, m_pIMsg>>

\* It answers the request (as MsgFlow has in detail).
Process(h) ==
    /\ hpc[h] = "process"
    /\ answers' = [answers EXCEPT ![pMessage[h]] = @ + 1]
    /\ pMessage' = [pMessage EXCEPT ![h] = NoJob]
    /\ GoOn(h)
    /\ UNCHANGED <<offered, serverVars, m_bSuspended, m_EventObject, m_bConnected,
                   m_pIMsg>>

\* The handler suspends its own thread, ...
SuspendSelf(h) ==
    /\ hpc[h] = "suspend"
    /\ SuspendFlag(h)
    /\ GoOn(h)
    /\ UNCHANGED <<offered, answers, serverVars, m_EventObject, m_bConnected,
                   m_pIMsg, pMessage>>

ResetSelf(h) ==
    /\ hpc[h] = "reset"
    /\ SuspendEvent(h)
    /\ GoOn(h)
    /\ UNCHANGED <<offered, answers, serverVars, m_bSuspended, m_bConnected,
                   m_pIMsg, pMessage>>

\* ... and declares itself idle.
FreeSelf(h) ==
    /\ hpc[h] = "free"
    /\ m_bConnected' = [m_bConnected EXCEPT ![h] = FALSE]
    /\ GoOn(h)
    /\ UNCHANGED <<offered, answers, serverVars, m_bSuspended, m_EventObject,
                   m_pIMsg, pMessage>>

-----------------------------------------------------------------------------
ServerThread ==
    \/ \E j \in Jobs : OnProcess(j)
    \/ \E h \in Handlers : FindBusy(h) \/ Setup(h)
    \/ SetMessage
    \/ HandBack
    \/ StartCreate
    \/ StartResume
    \/ StartSignal

RunHandler(h) ==
    \/ CallThreadRunning(h)
    \/ CallProcess(h)
    \/ Process(h)
    \/ SuspendSelf(h)
    \/ ResetSelf(h)
    \/ FreeSelf(h)

WebNext ==
    \/ \E j \in Jobs : Submit(j)
    \/ ServerThread
    \/ \E h \in Handlers : RunHandler(h)

WebSpec == WebInit /\ [][WebNext]_webVars

\* The operating system runs every thread that can run.  Nobody has to send
\* another request.
WebFairness == WF_webVars(ServerThread) /\ \A h \in Handlers : WF_webVars(RunHandler(h))

WebFairSpec == WebSpec /\ WebFairness

-----------------------------------------------------------------------------
WebTypeOK ==
    /\ ThreadTypeOK
    /\ offered \in SUBSET Jobs
    /\ answers \in [Jobs -> Nat]
    /\ m_WebRequestHandlers \in SUBSET Handlers
    /\ m_bConnected \in [Handlers -> BOOLEAN]
    /\ m_pIMsg \in [Handlers -> Jobs \cup {NoJob}]
    /\ hpc \in [Handlers -> {"running", "process", "suspend", "reset", "free"}]
    /\ pMessage \in [Handlers -> Jobs \cup {NoJob}]
    /\ spc \in {"idle", "search", "setup", "start", "resume", "signal"}
    /\ job \in Jobs \cup {NoJob}
    /\ tested \in SUBSET Handlers
    /\ target \in Handlers \cup {NoHandler}

\* The decorator's thread is starting a handler.
Starting == spc \in {"setup", "start", "resume", "signal"}

\* The request handler h has been given and has not answered.
Given(h) ==
    IF ~m_bConnected[h] \/ hpc[h] \in {"suspend", "reset", "free"} THEN NoJob
    ELSE IF spc = "setup" /\ target = h THEN job
    ELSE m_pIMsg[h]

\* webrequesthandler.cpp:115-118: a handler has completed its task, and runs
\* again only when it is given another.  So no request is processed twice.
RunOnce == \A j \in Jobs : answers[j] <= 1

\* Why the handover works on WIN32.  The event of a handler is set exactly while
\* it has work: it stays set from the end of Start to the handler's own Suspend,
\* so no wake-up is lost, and it is not set while the handler is idle or being
\* set up, so none comes twice.

ServerSound ==
    /\ Starting <=> target # NoHandler
    /\ spc = "search" => job \in offered
    /\ Starting => job \in Jobs \ offered /\ m_bConnected[target]
    /\ spc \in {"start", "resume", "signal"} => m_pIMsg[target] = job

HandlerSound ==
    \A h \in Handlers :
      /\ m_bConnected[h] => h \in m_WebRequestHandlers
      /\ ~m_bConnected[h] \/ h = target =>
           hpc[h] = "running" /\ tpc[h] # "run" /\ ~m_EventObject[h]
      /\ m_bConnected[h] /\ h # target =>
           m_pIMsg[h] \in Jobs /\ (m_EventObject[h] <=> hpc[h] # "free")
      /\ hpc[h] = "process" => pMessage[h] = m_pIMsg[h]

OneGiven ==
    /\ \A j \in offered : answers[j] = 0
    /\ \A h \in Handlers : Given(h) # NoJob =>
         /\ Given(h) \notin offered
         /\ answers[Given(h)] = 0
         /\ \A g \in Handlers : Given(g) = Given(h) => g = h

HandoverInv == WebTypeOK /\ ServerSound /\ HandlerSound /\ OneGiven /\ RunOnce

\* What the web server and its handlers come to: Handover.
H == INSTANCE Handover WITH
       busy <- {h \in Handlers : m_bConnected[h]},
       held <- [h \in Handlers |-> Given(h)]

\* webrequesthandler.cpp:116-118: the web server "will restart the thread when it
\* has another task for the this handler to process".
TaskProcessed ==
    \A h \in Handlers, j \in Jobs :
      Given(h) = j ~> answers[j] > 0
=============================================================================
