---------------------------- MODULE MCConnections ----------------------------
(***************************************************************************)
(* Connections on small instances.                                         *)
(***************************************************************************)
EXTENDS Connections, TLC

Symmetry == Permutations(Fds) \cup Permutations(Clients)

Either == {TRUE, FALSE}

\* Clients that wait for each reply before they send more or leave, three of them for
\* two sockets or beside a connection the server makes; clients that leave with a reply
\* due; clients that send the next request before it.
AllManners ==
    {[events |-> {"leave", "age", "garbage"}, requests |-> 1, dials |-> 0, clients |-> 3],
     [events |-> {"leave", "age", "garbage"}, requests |-> 1, dials |-> 1, clients |-> 2],
     [events |-> {"leave", "abandon", "garbage", "age", "slow"},
      requests |-> 2, dials |-> 0, clients |-> 2],
     [events |-> {"pipeline", "garbage", "age", "slow"},
      requests |-> 2, dials |-> 0, clients |-> 2]}

\* Three clients for two sockets, of which the server closes some after a reply; clients
\* that send one request after the other and may leave between.
Batches ==
    {[events |-> {}, requests |-> 1, dials |-> 0, clients |-> 3],
     [events |-> {"leave"}, requests |-> 2, dials |-> 0, clients |-> 2]}

\* Clients that wait for their replies, and handlers slower than the time-out.
SlowHandlers == {[events |-> {"age", "slow"}, requests |-> 1, dials |-> 0, clients |-> 2]}
=============================================================================
