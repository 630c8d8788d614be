--------------------------- MODULE WebServerProofs ---------------------------
(***************************************************************************)
(* On WIN32 the web server hands requests over as Handover says, for any   *)
(* number of handlers and requests.                                        *)
(***************************************************************************)
EXTENDS WebServer, TLAPS

\* WebTypeOK is kept by every step, on both platforms.
LEMMA TypePreserved == WebTypeOK /\ [WebNext]_webVars => WebTypeOK'
<1> SUFFICES ASSUME WebTypeOK, [WebNext]_webVars PROVE WebTypeOK'
  OBVIOUS
<1> USE DEF WebTypeOK, ThreadTypeOK
<1>1. ASSUME NEW j \in Jobs, Submit(j) PROVE WebTypeOK'
  BY <1>1 DEF Submit, serverVars, threadVars, handlerVars
<1>2. ASSUME ServerThread PROVE WebTypeOK'
  <2>1. ASSUME NEW j \in Jobs, OnProcess(j) PROVE WebTypeOK'
    BY <2>1 DEF OnProcess, threadVars, handlerVars
  <2>2. ASSUME NEW h \in Handlers, FindBusy(h) PROVE WebTypeOK'
    BY <2>2 DEF FindBusy, threadVars, handlerVars
  <2>3. ASSUME NEW h \in Handlers, Setup(h) PROVE WebTypeOK'
    BY <2>3 DEF Setup, threadVars
  <2>4. CASE SetMessage
    BY <2>4 DEF SetMessage, threadVars
  <2>5. CASE HandBack
    BY <2>5 DEF HandBack, EndOnProcess, threadVars, handlerVars
  <2>6. CASE StartCreate
    BY <2>6 DEF StartCreate, Create, handlerVars
  <2>7. CASE StartResume
    BY <2>7 DEF StartResume, ResumeFlag, handlerVars
  <2>8. CASE StartSignal
    BY <2>8 DEF StartSignal, ResumeSignal, EndOnProcess, handlerVars
  <2>9. QED
    BY <1>2, <2>1, <2>2, <2>3, <2>4, <2>5, <2>6, <2>7, <2>8 DEF ServerThread
<1>3. ASSUME NEW h \in Handlers, RunHandler(h) PROVE WebTypeOK'
  <2>1. CASE CallThreadRunning(h)
    BY <2>1 DEF CallThreadRunning, ThreadRunning, Enter, Block, Wake, serverVars,
       handlerVars
  <2>2. CASE CallProcess(h)
    BY <2>2 DEF CallProcess, serverVars, threadVars
  <2>3. CASE Process(h)
    <3>1. answers' \in [Jobs -> Nat]
      <4>1. CASE pMessage[h] \in Jobs
        BY <2>3, <4>1 DEF Process
      <4>2. CASE pMessage[h] = NoJob
        BY <2>3, <4>2, JobAssumption DEF Process
      <4>3. QED
        BY <4>1, <4>2
    <3>2. /\ hpc' = [hpc EXCEPT ![h] = "suspend"]
          /\ tpc' = tpc
      BY <2>3 DEF Process, GoOn, Then
    <3>3. QED
      BY <2>3, <3>1, <3>2 DEF Process, serverVars
  <2>4. CASE SuspendSelf(h)
    BY <2>4 DEF SuspendSelf, SuspendFlag, GoOn, Then, serverVars
  <2>5. CASE ResetSelf(h)
    BY <2>5 DEF ResetSelf, SuspendEvent, EventAfterSuspend, GoOn, Then, serverVars
  <2>6. CASE FreeSelf(h)
    BY <2>6 DEF FreeSelf, GoOn, Then, serverVars
  <2>7. QED
    BY <1>3, <2>1, <2>2, <2>3, <2>4, <2>5, <2>6 DEF RunHandler
<1>4. CASE UNCHANGED webVars
  BY <1>4 DEF webVars, serverVars, threadVars, handlerVars
<1>5. QED
  BY <1>1, <1>2, <1>3, <1>4 DEF WebNext

-----------------------------------------------------------------------------
\* What the steps do to ServerSound and HandlerSound.

\* The decorator's thread keeps both.
LEMMA ServerKeepsSound ==
    ASSUME Platform = "WIN32", HandoverInv, ServerThread
    PROVE  ServerSound' /\ HandlerSound'
<1> USE JobAssumption DEF HandoverInv, WebTypeOK, ThreadTypeOK, ServerSound, HandlerSound,
    Starting
<1>1. ASSUME NEW j \in Jobs, OnProcess(j) PROVE ServerSound' /\ HandlerSound'
  BY <1>1 DEF OnProcess, threadVars, handlerVars
<1>2. ASSUME NEW h \in Handlers, FindBusy(h) PROVE ServerSound' /\ HandlerSound'
  BY <1>2 DEF FindBusy, threadVars, handlerVars
<1>3. ASSUME NEW h \in Handlers, Setup(h) PROVE ServerSound' /\ HandlerSound'
  BY <1>3 DEF Setup, threadVars
<1>4. CASE SetMessage
  BY <1>4 DEF SetMessage, threadVars
<1>5. CASE HandBack
  BY <1>5 DEF HandBack, EndOnProcess, threadVars, handlerVars
<1>6. CASE StartCreate
  BY <1>6 DEF StartCreate, Create, handlerVars
<1>7. CASE StartResume
  BY <1>7 DEF StartResume, ResumeFlag, handlerVars
<1>8. CASE StartSignal
  BY <1>8 DEF StartSignal, ResumeSignal, EndOnProcess, handlerVars
<1>9. QED
  BY <1>1, <1>2, <1>3, <1>4, <1>5, <1>6, <1>7, <1>8 DEF ServerThread

\* A handler's thread keeps both: while it is idle or being set up it can only
\* go to sleep, and it clears its event before it becomes idle.
LEMMA HandlerKeepsSound ==
    ASSUME Platform = "WIN32", HandoverInv, NEW h \in Handlers, RunHandler(h)
    PROVE  ServerSound' /\ HandlerSound'
<1> USE JobAssumption DEF HandoverInv, WebTypeOK, ThreadTypeOK, ServerSound, HandlerSound,
    Starting
<1>1. CASE CallThreadRunning(h)
  BY <1>1 DEF CallThreadRunning, ThreadRunning, Enter, HasToWait, Block, Wake,
     serverVars, handlerVars
<1>2. CASE CallProcess(h)
  BY <1>2 DEF CallProcess, serverVars, threadVars
<1>3. CASE Process(h)
  BY <1>3 DEF Process, GoOn, Then, serverVars
<1>4. CASE SuspendSelf(h)
  BY <1>4 DEF SuspendSelf, SuspendFlag, GoOn, Then, serverVars
<1>5. CASE ResetSelf(h)
  BY <1>5 DEF ResetSelf, SuspendEvent, EventAfterSuspend, GoOn, Then, serverVars
<1>6. CASE FreeSelf(h)
  BY <1>6 DEF FreeSelf, GoOn, Then, serverVars
<1>7. QED
  BY <1>1, <1>2, <1>3, <1>4, <1>5, <1>6 DEF RunHandler

-----------------------------------------------------------------------------
\* How the steps map to those of Handover.  The lemmas say what becomes of
\* Given, the request a handler has yet to answer.

Busy == {h \in Handlers : m_bConnected[h]}

\* The steps that Handover does not see.
Hidden ==
    /\ \A h \in Handlers : Given(h)' = Given(h)
    /\ UNCHANGED <<offered, answers, Busy>>

TakeStep(h) ==
    /\ h \notin Busy
    /\ job \in offered
    /\ offered' = offered \ {job}
    /\ Busy' = Busy \cup {h}
    /\ Given(h)' = job
    /\ \A g \in Handlers \ {h} : Given(g)' = Given(g)
    /\ UNCHANGED answers

AnswerStep(h) ==
    /\ Given(h) # NoJob
    /\ answers' = [answers EXCEPT ![Given(h)] = @ + 1]
    /\ Given(h)' = NoJob
    /\ \A g \in Handlers \ {h} : Given(g)' = Given(g)
    /\ UNCHANGED <<offered, Busy>>

ReleaseStep(h) ==
    /\ h \in Busy
    /\ Given(h) = NoJob
    /\ Busy' = Busy \ {h}
    /\ \A g \in Handlers : Given(g)' = Given(g)
    /\ UNCHANGED <<offered, answers>>

\* Of OnProcess, only setting a handler up is visible: it takes the request.
LEMMA ServerMaps ==
    ASSUME Platform = "WIN32", HandoverInv, ServerThread
    PROVE  Hidden \/ \E h \in Handlers : TakeStep(h)
<1> USE JobAssumption DEF HandoverInv, WebTypeOK, ThreadTypeOK, ServerSound, HandlerSound,
    Starting, Given, Busy
<1>1. ASSUME NEW j \in Jobs, OnProcess(j) PROVE Hidden
  BY <1>1 DEF OnProcess, threadVars, handlerVars, Hidden
<1>2. ASSUME NEW h \in Handlers, FindBusy(h) PROVE Hidden
  BY <1>2 DEF FindBusy, threadVars, handlerVars, Hidden
<1>3. ASSUME NEW h \in Handlers, Setup(h) PROVE Hidden \/ TakeStep(h)
  BY <1>3 DEF Setup, threadVars, TakeStep
<1>4. CASE SetMessage
  BY <1>4 DEF SetMessage, threadVars, Hidden
<1>5. CASE HandBack
  BY <1>5 DEF HandBack, EndOnProcess, threadVars, handlerVars, Hidden
<1>6. CASE StartCreate
  BY <1>6 DEF StartCreate, Create, handlerVars, Hidden
<1>7. CASE StartResume
  BY <1>7 DEF StartResume, ResumeFlag, handlerVars, Hidden
<1>8. CASE StartSignal
  BY <1>8 DEF StartSignal, ResumeSignal, EndOnProcess, handlerVars, Hidden
<1>9. QED
  BY <1>1, <1>2, <1>3, <1>4, <1>5, <1>6, <1>7, <1>8 DEF ServerThread

\* Of RunHandler, answering the request and becoming idle again are visible.
LEMMA HandlerMaps ==
    ASSUME Platform = "WIN32", HandoverInv, NEW h \in Handlers, RunHandler(h)
    PROVE  Hidden \/ AnswerStep(h) \/ ReleaseStep(h)
<1> USE JobAssumption DEF HandoverInv, WebTypeOK, ThreadTypeOK, ServerSound, HandlerSound,
    Starting, Given, Busy
<1>1. CASE CallThreadRunning(h)
  BY <1>1 DEF CallThreadRunning, ThreadRunning, Enter, HasToWait, Block, Wake,
     serverVars, handlerVars, Hidden
<1>2. CASE CallProcess(h)
  BY <1>2 DEF CallProcess, serverVars, threadVars, Hidden
<1>3. CASE Process(h)
  <2>1. /\ hpc[h] = "process" /\ hpc' = [hpc EXCEPT ![h] = "suspend"]
        /\ pMessage' = [pMessage EXCEPT ![h] = NoJob]
        /\ answers' = [answers EXCEPT ![pMessage[h]] = @ + 1]
        /\ UNCHANGED <<offered, serverVars, m_bConnected, m_pIMsg>>
    BY <1>3 DEF Process, GoOn, Then
  <2>2. pMessage[h] = Given(h) /\ Given(h) # NoJob
    BY <2>1
  <2>3. Given(h)' = NoJob
    BY <2>1
  <2>4. \A g \in Handlers \ {h} : Given(g)' = Given(g)
    BY <2>1 DEF serverVars
  <2>5. UNCHANGED <<offered, Busy>>
    BY <2>1
  <2>6. QED
    BY <2>1, <2>2, <2>3, <2>4, <2>5 DEF AnswerStep
<1>4. CASE SuspendSelf(h)
  BY <1>4 DEF SuspendSelf, SuspendFlag, GoOn, Then, serverVars, Hidden
<1>5. CASE ResetSelf(h)
  BY <1>5 DEF ResetSelf, SuspendEvent, EventAfterSuspend, GoOn, Then, serverVars, Hidden
<1>6. CASE FreeSelf(h)
  BY <1>6 DEF FreeSelf, GoOn, Then, serverVars, ReleaseStep
<1>7. QED
  BY <1>1, <1>2, <1>3, <1>4, <1>5, <1>6 DEF RunHandler

LEMMA SubmitMaps ==
    ASSUME NEW j \in Jobs, Submit(j)
    PROVE  /\ \A h \in Handlers : Given(h)' = Given(h)
           /\ Busy' = Busy
  BY DEF Submit, serverVars, handlerVars, Given, Busy

LEMMA GivenType == WebTypeOK => \A h \in Handlers : Given(h) \in Jobs \cup {NoJob}
  BY DEF WebTypeOK, Given

-----------------------------------------------------------------------------
\* A request is with one handler, unanswered, or offered, or answered once.
LEMMA OneGivenKept ==
    ASSUME Platform = "WIN32", HandoverInv, WebNext
    PROVE  OneGiven' /\ RunOnce'
<1> USE JobAssumption DEF HandoverInv, WebTypeOK, OneGiven, RunOnce
<1>1. ASSUME Hidden PROVE OneGiven' /\ RunOnce'
  BY <1>1 DEF Hidden
<1>2. ASSUME NEW h \in Handlers, TakeStep(h) PROVE OneGiven' /\ RunOnce'
  BY <1>2, GivenType DEF TakeStep
<1>3. ASSUME NEW h \in Handlers, AnswerStep(h) PROVE OneGiven' /\ RunOnce'
  BY <1>3, GivenType DEF AnswerStep
<1>4. ASSUME NEW h \in Handlers, ReleaseStep(h) PROVE OneGiven' /\ RunOnce'
  BY <1>4 DEF ReleaseStep
<1>5. ASSUME NEW j \in Jobs, Submit(j) PROVE OneGiven' /\ RunOnce'
  <2>1. \A h \in Handlers : Given(h)' = Given(h) /\ Given(h) # j
    <3>1. \A h \in Handlers : Given(h)' = Given(h)
      BY <1>5, SubmitMaps
    <3>2. \A h \in Handlers : Given(h) # j
      BY <1>5 DEF Submit
    <3>3. QED
      BY <3>1, <3>2
  <2>2. \A h \in Handlers : Given(h) # NoJob => answers'[Given(h)] = answers[Given(h)]
    BY <1>5, <2>1, GivenType DEF Submit
  <2>3. \A x \in offered' : answers'[x] = 0
    BY <1>5 DEF Submit
  <2>4. \A x \in Jobs : answers'[x] <= 1
    BY <1>5 DEF Submit
  <2>5. QED
    BY <1>5, <2>1, <2>2, <2>3, <2>4 DEF Submit
<1>6. QED
  BY <1>1, <1>2, <1>3, <1>4, <1>5, ServerMaps, HandlerMaps DEF WebNext

LEMMA SoundKept ==
    ASSUME Platform = "WIN32", HandoverInv, WebNext
    PROVE  ServerSound' /\ HandlerSound'
<1>1. ASSUME NEW j \in Jobs, Submit(j) PROVE ServerSound' /\ HandlerSound'
  <2>1. Starting => job # j
    <3>1. Starting => target \in Handlers /\ job # NoJob /\ Given(target) = job
      BY JobAssumption DEF HandoverInv, WebTypeOK, ServerSound, HandlerSound, Starting, Given
    <3>2. QED
      BY <1>1, <3>1 DEF HandoverInv, OneGiven, Submit
  <2>2. QED
    BY <1>1, <2>1 DEF HandoverInv, ServerSound, HandlerSound, Starting, Submit,
       serverVars, threadVars, handlerVars
<1>2. QED
  BY <1>1, ServerKeepsSound, HandlerKeepsSound DEF WebNext

\* On WIN32, HandoverInv holds in every reachable state: wake-ups are neither
\* lost nor repeated, and a request is with one handler at a time.
THEOREM HandoverSound == ASSUME Platform = "WIN32" PROVE WebSpec => []HandoverInv
<1>1. WebInit => HandoverInv
  <2> SUFFICES ASSUME WebInit PROVE HandoverInv
    OBVIOUS
  <2> USE JobAssumption DEF WebInit, StartWith, InitThread
  <2>1. WebTypeOK
    BY DEF WebTypeOK, ThreadTypeOK
  <2>2. ServerSound /\ HandlerSound
    BY DEF ServerSound, HandlerSound, Starting
  <2>3. OneGiven /\ RunOnce
    BY DEF OneGiven, RunOnce, Given
  <2>4. QED
    BY <2>1, <2>2, <2>3 DEF HandoverInv
<1>2. HandoverInv /\ [WebNext]_webVars => HandoverInv'
  <2> SUFFICES ASSUME HandoverInv, [WebNext]_webVars PROVE HandoverInv'
    OBVIOUS
  <2>1. WebTypeOK'
    BY TypePreserved DEF HandoverInv
  <2>2. CASE WebNext
    BY <2>1, <2>2, SoundKept, OneGivenKept DEF HandoverInv
  <2>3. CASE UNCHANGED webVars
    BY <2>1, <2>3 DEF HandoverInv, ServerSound, HandlerSound, OneGiven, RunOnce, Starting,
       Given, webVars, serverVars, threadVars, handlerVars
  <2>4. QED
    BY <2>2, <2>3
<1>3. QED
  BY <1>1, <1>2, PTL DEF WebSpec

\* On WIN32 no request is processed twice (cWebRequestHandler::Run).
THEOREM ProcessedOnce == ASSUME Platform = "WIN32" PROVE WebSpec => []RunOnce
<1>1. HandoverInv => RunOnce
  BY DEF HandoverInv
<1>2. QED
  BY <1>1, HandoverSound, PTL

-----------------------------------------------------------------------------
\* On WIN32, cWebServer::OnProcess and cWebRequestHandler::Run implement the
\* atomic handover: every step is one of Handover's, or one it does not see.
THEOREM ImplementsHandover == ASSUME Platform = "WIN32" PROVE WebSpec => H!Spec
<1>1. WebInit => H!Init
  BY DEF WebInit, StartWith, H!Init, Given
<1>2. HandoverInv /\ [WebNext]_webVars => [H!Next]_(H!vars)
  <2> SUFFICES ASSUME HandoverInv, [WebNext]_webVars PROVE [H!Next]_(H!vars)
    OBVIOUS
  <2> DEFINE held == [h \in Handlers |-> Given(h)]
  <2>1. ASSUME Hidden PROVE UNCHANGED H!vars
    BY <2>1 DEF Hidden, Busy, H!vars
  <2>2. ASSUME NEW h \in Handlers, TakeStep(h) PROVE H!Next
    <3>1. PICK j \in Jobs : j = job
      BY <2>2 DEF TakeStep, HandoverInv, WebTypeOK
    <3>2. held' = [held EXCEPT ![h] = job]
      BY <2>2 DEF TakeStep
    <3>3. H!Take(h, j)
      BY <2>2, <3>1, <3>2 DEF TakeStep, Busy, H!Take
    <3>4. QED
      BY <3>3 DEF H!Next
  <2>3. ASSUME NEW h \in Handlers, AnswerStep(h) PROVE H!Next
    <3>1. held' = [held EXCEPT ![h] = NoJob]
      <4>1. Given(h)' = NoJob /\ \A g \in Handlers \ {h} : Given(g)' = Given(g)
        BY <2>3 DEF AnswerStep
      <4>2. QED
        BY <4>1
    <3>2. H!Answer(h)
      BY <2>3, <3>1 DEF AnswerStep, Busy, H!Answer
    <3>3. QED
      BY <3>2 DEF H!Next
  <2>4. ASSUME NEW h \in Handlers, ReleaseStep(h) PROVE H!Next
    <3>1. H!Release(h)
      BY <2>4 DEF ReleaseStep, Busy, H!Release
    <3>2. QED
      BY <3>1 DEF H!Next
  <2>5. ASSUME NEW j \in Jobs, Submit(j) PROVE H!Next
    <3>1. H!Submit(j)
      BY <2>5, SubmitMaps DEF Submit, Busy, H!Submit
    <3>2. QED
      BY <3>1 DEF H!Next
  <2>6. CASE UNCHANGED webVars
    BY <2>6 DEF webVars, serverVars, threadVars, handlerVars, Given, H!vars
  <2>7. QED
    BY <2>1, <2>2, <2>3, <2>4, <2>5, <2>6, ServerMaps, HandlerMaps DEF WebNext
<1>3. QED
  BY <1>1, <1>2, HandoverSound, PTL DEF WebSpec, H!Spec
=============================================================================
