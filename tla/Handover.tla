------------------------------ MODULE Handover -------------------------------
(***************************************************************************)
(* What the web server promises about requests: each is given to one idle  *)
(* handler, which answers it once and is then idle again.  These are the   *)
(* steps MsgFlow's TakeJob and MarkProcessed take for granted; WebServer   *)
(* has the calls and threads that bring them about.                        *)
(***************************************************************************)
EXTENDS Naturals

CONSTANTS
    Handlers,   \* the handlers the web server may use
    Jobs,       \* the message objects requests come in
    NoJob

VARIABLES
    offered,    \* the requests no handler has been given
    busy,       \* the handlers that are not idle
    held,       \* the request each handler is to answer
    answers     \* how often each request was answered since it was offered

vars == <<offered, busy, held, answers>>

Init ==
    /\ offered = Jobs
    /\ busy = {}
    /\ held = [h \in Handlers |-> NoJob]
    /\ answers = [j \in Jobs |-> 0]

\* The object of an answered request comes back with another request.
Submit(j) ==
    /\ j \notin offered
    /\ answers[j] = 1
    /\ offered' = offered \cup {j}
    /\ answers' = [answers EXCEPT ![j] = 0]
    /\ UNCHANGED <<busy, held>>

Take(h, j) ==
    /\ j \in offered
    /\ h \notin busy
    /\ offered' = offered \ {j}
    /\ busy' = busy \cup {h}
    /\ held' = [held EXCEPT ![h] = j]
    /\ UNCHANGED answers

Answer(h) ==
    /\ held[h] # NoJob
    /\ answers' = [answers EXCEPT ![held[h]] = @ + 1]
    /\ held' = [held EXCEPT ![h] = NoJob]
    /\ UNCHANGED <<offered, busy>>

Release(h) ==
    /\ h \in busy
    /\ held[h] = NoJob
    /\ busy' = busy \ {h}
    /\ UNCHANGED <<offered, held, answers>>

Next ==
    \/ \E j \in Jobs : Submit(j)
    \/ \E h \in Handlers : \/ \E j \in Jobs : Take(h, j)
                           \/ Answer(h)
                           \/ Release(h)

Spec == Init /\ [][Next]_vars

\* A request that is offered while a handler is idle is taken, and handlers
\* that were given one answer it and become idle.
Fairness ==
    /\ WF_vars(\E h \in Handlers, j \in Jobs : Take(h, j))
    /\ \A h \in Handlers : WF_vars(Answer(h)) /\ WF_vars(Release(h))

FairSpec == Spec /\ Fairness
=============================================================================
