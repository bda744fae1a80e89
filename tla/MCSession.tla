----------------------------- MODULE MCSession -----------------------------
(***************************************************************************)
(* Instances of Session for TLC.                                           *)
(***************************************************************************)
EXTENDS Session, TLC

MCMsgs == {"short", "long"}
MCSize == [short |-> 1, long |-> 2]
=============================================================================
