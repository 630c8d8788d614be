------------------------------- MODULE MCInputs -------------------------------
(***************************************************************************)
(* What the server reads and what it makes of it: the header of a request, *)
(* and of the answer that goes back (MsgHeader); the file the cache gives  *)
(* for it (WebResources); the text of the configuration (XmlText), its     *)
(* elements (Config), and the routing rules, which are added while         *)
(* messages are routed by them (Router).  A behaviour is one of one part;  *)
(* the others stay as they begin.  Each part has its own instance: what    *)
(* one hands to the next is there abstracted in another way.               *)
(***************************************************************************)
EXTENDS MCMsgHeader, MCWebResources, MCXmlText, MCConfig, MCRouter, TLC

VARIABLE part

vars == <<part, headerVars, resourceVars, xmlVars, configVars, routerVars>>

Others(p) == part \in {"header", "files", "parse", "read", "route"} \ {p}

\* Where a part stays that is not the one chosen.
SomeDisk == [p \in Paths |-> Absent]
SomeDocument == CHOOSE d \in Documents : TRUE
SomeLayout == CHOOSE l \in Layouts : TRUE
SomeFile == CHOOSE f \in Files : TRUE

Init ==
    /\ part \in {"header", "files", "parse", "read", "route"}
    /\ HeaderInit
    /\ ResourcesInit /\ (Others("files") => disk = SomeDisk)
    /\ \/ part = "parse" /\ XmlInit
       \/ Others("parse") /\ BeginWith(SomeDocument, SomeLayout)
    /\ \/ part = "read" /\ ConfigInit
       \/ Others("read") /\ LoadFile(SomeFile)
    /\ RouterInit

Header == part = "header" /\ HeaderNext /\ UNCHANGED <<part, resourceVars, xmlVars, configVars, routerVars>>
Resources == part = "files" /\ ResourcesNext /\ UNCHANGED <<part, headerVars, xmlVars, configVars, routerVars>>
Parsing == part = "parse" /\ XmlNext /\ UNCHANGED <<part, headerVars, resourceVars, configVars, routerVars>>
Reading == part = "read" /\ ConfigNext /\ UNCHANGED <<part, headerVars, resourceVars, xmlVars, routerVars>>
Routing == part = "route" /\ RouterNext /\ UNCHANGED <<part, headerVars, resourceVars, xmlVars, configVars>>

Next == Header \/ Resources \/ Parsing \/ Reading \/ Routing

Spec == Init /\ [][Next]_vars

\* A part that stays as it begins needs no test.
TypeOK ==
    /\ part = "header" => HeaderTypeOK
    /\ part = "files" => ResourcesTypeOK
    /\ part = "parse" => XmlTypeOK
    /\ part = "read" => ConfigTypeOK
    /\ part = "route" => RouterTypeOK

\* The handlers are interchangeable.
Symmetry == Permutations(Handlers)
=============================================================================
