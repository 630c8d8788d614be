------------------------------- MODULE MCServer -------------------------------
(***************************************************************************)
(* The parts of the server that the rest of it calls (MCParts), its        *)
(* threads, which start and stop (Lifetime), and its web server            *)
(* (WebServer).  A behaviour is one of one part; the others stay as they   *)
(* begin.  Each part has its own instance.                                 *)
(***************************************************************************)
EXTENDS MCParts, Lifetime, MCWebServer

serverParts == <<vars, lifeVars, webVars>>

\* A part that is not the one chosen stays where it has nothing to do.
ServerInit ==
    /\ \/ Init
       \/ /\ part \in {"live", "web"}
          /\ IPInit /\ allow = <<>> /\ block = <<>>
          /\ BufferInit /\ IdInit /\ IPCInit
    /\ LifeInit /\ (part # "live" => configFile = TRUE)
    /\ StartWith(IF part = "web" THEN Jobs ELSE {})

Parts == Next /\ UNCHANGED <<lifeVars, webVars>>
Living == part = "live" /\ LifeNext /\ UNCHANGED <<vars, webVars>>
Serving == part = "web" /\ WebNext /\ UNCHANGED <<vars, lifeVars>>

ServerNext == Parts \/ Living \/ Serving

\* A part that rests can take none of the steps for which fairness is assumed, so that
\* what is assumed of one part binds none of the behaviours of another.
ServerSpec ==
    ServerInit /\ [][ServerNext]_serverParts /\ IPCFairness /\ LifeFairness /\ WebFairness

\* The type of WebServer is part of HandoverInv.
ServerTypeOK == TypeOK /\ LifeTypeOK

\* The web server gives each request to one idle handler, which answers it once and is
\* idle again; and it does give, answer and release them (Handover, with its fairness).
Implements == (part = "web" => H!Init) /\ [][H!Next]_(H!vars) /\ H!Fairness

MCOneServer == <<"tcp1">>
=============================================================================
