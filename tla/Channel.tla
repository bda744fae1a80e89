------------------------------ MODULE Channel ------------------------------
(***************************************************************************)
(* What framing promises for one direction of a connection: items are      *)
(* received whole, in the order in which they were sent, each once.  What  *)
(* is still under way when the connection ends is never received.          *)
(***************************************************************************)
EXTENDS Sequences, Naturals

CONSTANT Items   \* what is sent: requests or messages

VARIABLES sent,  \* everything sent so far
          got    \* everything received so far

Init == sent = << >> /\ got = << >>

Send(x) == sent' = Append(sent, x) /\ UNCHANGED got

Receive ==
  /\ Len(got) < Len(sent)
  /\ got' = Append(got, sent[Len(got) + 1])
  /\ UNCHANGED sent

Next == Receive \/ \E x \in Items : Send(x)

Spec == Init /\ [][Next]_<<sent, got>>
=============================================================================
