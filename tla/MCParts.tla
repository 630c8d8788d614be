------------------------------- MODULE MCParts --------------------------------
(***************************************************************************)
(* Four parts of the server that the rest of it calls and that share no    *)
(* state: the list of addresses, the buffer, the unique ids and the client *)
(* side of the inter-process calls.  A behaviour is one of one part; the   *)
(* others stay as they begin.                                              *)
(***************************************************************************)
EXTENDS IPAccess, Buffer, UniqueIds, ServerIPC

VARIABLE part

vars == <<part, ipVars, buffer, idVars, ipcVars>>

Init ==
    /\ part \in {"access", "buffer", "ids", "ipc"}
    /\ IPInit /\ BufferInit /\ IdInit /\ IPCInit
    /\ part # "access" => allow = <<>> /\ block = <<>>

AccessPart == part = "access" /\ IPNext /\ UNCHANGED <<part, buffer, idVars, ipcVars>>
BufferPart == part = "buffer" /\ BufferNext /\ UNCHANGED <<part, ipVars, idVars, ipcVars>>
IdPart == part = "ids" /\ IdNext /\ UNCHANGED <<part, ipVars, buffer, ipcVars>>
IPCPart == part = "ipc" /\ IPCNext /\ UNCHANGED <<part, ipVars, buffer, idVars>>

Next == AccessPart \/ BufferPart \/ IdPart \/ IPCPart

Spec == Init /\ [][Next]_vars /\ IPCFairness

\* The parts keep their types.
TypeOK == IPTypeOK /\ BufferTypeOK /\ IdTypeOK /\ IPCTypeOK

-----------------------------------------------------------------------------
(* Two octets of the four: each is tested like the others.  300 is an octet   *)
(* that no rule may have.                                                     *)
MCAddresses == [{1, 2} -> {1, 2}]
MCRuleTexts == {<<1, Star>>, <<Star, 2>>, <<1, 300>>}

(* Bytes 0, 1 and 2; strings of one and two bytes, a zero among them. *)
MCByte == 0 .. 2
MCData == {<<1>>, <<2>>, <<1, 2>>, <<1, 1>>, <<0, 1>>}
MCPatterns == {<<1>>, <<1, 1>>, <<1, 2>>}
=============================================================================
