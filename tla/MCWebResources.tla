--------------------------- MODULE MCWebResources ---------------------------
(* A host and a port, of which one has a directory. *)
EXTENDS WebResources

MCTargets == {[host |-> "host_a", port |-> "port_80"], [host |-> "", port |-> "port_90"]}
MCOneTarget == {[host |-> "host_a", port |-> "port_80"]}
MCOnePath == [k \in {"host_a"} |-> "a"]
=============================================================================
