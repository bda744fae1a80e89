------------------------------ MODULE MCServer ------------------------------
(***************************************************************************)
(* Instances of Server for TLC.                                            *)
(***************************************************************************)
EXTENDS Server, TLC

MCFds == 5 .. 4 + MaxConns

\* subscribe and unsubscribe on every topic.
Commands == [type : 0 .. 2, topic : Topics]

\* Requests the server ignores.
Invalid == [type : {3}, topic : Topics]

Symmetry == Permutations(IDs)

\* The marks the scan is still to come to.  Those behind it are overwritten by
\* the next poll, and so is where exactly it stands between two of them.
Marks ==
  LET ahead == {k \in slot .. num_clients : pollfds[k].revents # "none"}
  IN  [k \in ahead |-> pollfds[k].revents]

\* What the last handler sent changes nothing the server does.
View ==
  <<state, wanted, doubled, corrupt, pc, num_clients, Marks, [k \in DOMAIN pollfds |-> pollfds[k].fd], kernel>>

\* Do not go on once a stale pointer has been read.
Sane == corrupt = {}
=============================================================================
