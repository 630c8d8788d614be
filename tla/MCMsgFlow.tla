------------------------------ MODULE MCMsgFlow ------------------------------
(***************************************************************************)
(* MsgFlow on small instances.  Each .cfg names the message objects and    *)
(* the threads; the sets of inputs are given here.                         *)
(***************************************************************************)
EXTENDS MsgFlow, TLC

NoThreads == {}
NoKinds == {}
SomeKinds == {"INTERNAL", "OB_TCP"}
OnePriority == {MSG_PRIORITY_HIGHEST}
WaitOnly == {"WAIT"}
WaitOrNone == {"WAIT", "NONE"}
AnyReply == MSG_REPLY_ACTION
NoNotify == {FALSE}
AnyNotify == BOOLEAN

\* Message objects, and threads of a kind, are interchangeable.
Symmetry == Permutations(Msgs) \cup Permutations(Handlers)
            \cup Permutations(UDPServers)
=============================================================================
