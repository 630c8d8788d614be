------------------------------- MODULE Thread --------------------------------
(***************************************************************************)
(* Suspending and resuming a thread (cThread, thread.cpp), on either of    *)
(* the platforms it is written for.  On LINUX a thread waits for its       *)
(* condition variable if it finds m_bSuspended set; neither the flag nor   *)
(* the signal is protected by the mutex, and the wait is not in a loop.    *)
(* On WIN32 it waits for a manual-reset event.                             *)
(*                                                                         *)
(* Every read or write of what two threads share is a step.  Only the      *)
(* thread itself locks m_mutex.  Left out are Destroy, Sleep, which these  *)
(* threads never call, and waits on LINUX that end by themselves, which    *)
(* POSIX allows.                                                           *)
(***************************************************************************)

CONSTANTS
    Handlers,   \* the threads
    Platform    \* "LINUX" or "WIN32"

ASSUME PlatformAssumption == Platform \in {"LINUX", "WIN32"}

VARIABLES
    m_bSuspended,
    m_EventObject,    \* WIN32: whether the event is set
    tpc               \* where the thread is in ThreadRunning

InitThread ==
    /\ m_bSuspended = [t \in Handlers |-> TRUE]
    /\ m_EventObject = [t \in Handlers |-> FALSE]
    /\ tpc = [t \in Handlers |-> "none"]

\* cThread::Create: the thread runs, and calls ThreadRunning.
Create(t) == tpc' = [tpc EXCEPT ![t] = IF @ = "none" THEN "enter" ELSE @]

\* The flag as a thread reads it in ThreadRunning: on WIN32 it always waits.
HasToWait(t) == Platform = "WIN32" \/ m_bSuspended[t]

\* cThread::ThreadRunning: decide whether to wait, ...
Enter(t) ==
    /\ tpc[t] = "enter"
    /\ tpc' = [tpc EXCEPT ![t] = IF HasToWait(t) THEN "block" ELSE "run"]
    /\ UNCHANGED <<m_bSuspended, m_EventObject>>

\* ... wait (a signal that came before is not remembered, a set event is), ...
Block(t) ==
    /\ tpc[t] = "block"
    /\ tpc' = [tpc EXCEPT ![t] = "waiting"]
    /\ UNCHANGED <<m_bSuspended, m_EventObject>>

\* ... and return when the event is set (on LINUX, ResumeSignal ends the wait).
Wake(t) ==
    /\ tpc[t] = "waiting"
    /\ Platform = "WIN32" /\ m_EventObject[t]
    /\ tpc' = [tpc EXCEPT ![t] = "run"]
    /\ UNCHANGED <<m_bSuspended, m_EventObject>>

ThreadRunning(t) == Enter(t) \/ Block(t) \/ Wake(t)

EventAfterSuspend_Kept(set) == set

\* The event after ResetEvent.
EventAfterSuspend(set) == FALSE

\* cThread::Suspend: first the flag, then the event.
SuspendFlag(t) == m_bSuspended' = [m_bSuspended EXCEPT ![t] = TRUE]
SuspendEvent(t) == m_EventObject' = [m_EventObject EXCEPT ![t] = EventAfterSuspend(@)]

\* cThread::Resume: first the flag, then the event, or a signal that reaches t
\* only if it is waiting.
ResumeFlag(t) == m_bSuspended' = [m_bSuspended EXCEPT ![t] = FALSE]

ResumeSignal(t) ==
    IF Platform = "WIN32"
    THEN /\ m_EventObject' = [m_EventObject EXCEPT ![t] = TRUE]
         /\ UNCHANGED tpc
    ELSE /\ tpc' = [tpc EXCEPT ![t] = IF @ = "waiting" THEN "run" ELSE @]
         /\ UNCHANGED m_EventObject

ThreadTypeOK ==
    /\ m_bSuspended \in [Handlers -> BOOLEAN]
    /\ m_EventObject \in [Handlers -> BOOLEAN]
    /\ tpc \in [Handlers -> {"none", "enter", "block", "waiting", "run"}]
=============================================================================
