------------------------------ MODULE MCBroker ------------------------------
(***************************************************************************)
(* Instances of Broker for TLC.                                            *)
(***************************************************************************)
EXTENDS Broker, TLC

\* accept returns descriptors from 5 on: 0-2 are the standard streams, 3 and
\* 4 the listening sockets.  One more than there are clients, so that a stale
\* read may always yield a number nobody has open.
MCFds == 5 .. 5 + Cardinality(IDs)

\* IDs are only ever compared for equality.
Symmetry == Permutations(IDs) \cup Permutations(Topics) \cup Permutations(Msgs)

\* What the last handler sent does not change what the next one does.
View == <<state, wanted, doubled, corrupt>>

\* Do not go on once a stale pointer has been read, nor once two pairs have
\* had two entries...
Sane == corrupt = {} /\ Cardinality(doubled) <= 1

\* ... unless there are at most two clients.
SaneCrowd == Sane \/ Len(clients) <= 2
=============================================================================
