----------------------------- MODULE MCPayload -----------------------------
(***************************************************************************)
(* Instances of Payload for TLC.                                           *)
(***************************************************************************)
EXTENDS Payload

Ints   == [type : {INT}, sign : 0 .. 1, abs : {7, 8}]
Shorts == [type : {SHORT_REAL}, abs : {3}]
Floats == [type : {FLOAT}, sign : {1}, abs : {9}, pow : {2}]

\* A short one, terminated or not, and one that fills content.
Strings ==
  [type : {CHARS}, chars : {<<2>>}, ended : BOOLEAN]
    \cup [type : {CHARS}, chars : {[i \in 1 .. Size |-> 2]}, ended : {FALSE}]

Mixed == Ints \cup Shorts \cup Floats \cup Strings \cup [type : {CHARS + 1}]
=============================================================================
