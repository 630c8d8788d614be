----------------------------- MODULE MCWebServer -----------------------------
(***************************************************************************)
(* WebServer on small instances.  Submit has no bound: the state space is  *)
(* finite because a request is answered before its object comes back.      *)
(***************************************************************************)
EXTENDS WebServer
=============================================================================
