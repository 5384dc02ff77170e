-------------------------------- MODULE Pipe --------------------------------
(* What one direction of a transparent connection promises: the receiver    *)
(* gets what the sender sent, in order, each piece at most once, and        *)
(* nothing else.                                                            *)
EXTENDS Naturals, Sequences

CONSTANT Data            \* the pieces a sender may send

VARIABLES sent, rcvd

Init == sent = <<>> /\ rcvd = <<>>

Send ==
  /\ \E d \in Data : sent' = Append(sent, d)
  /\ UNCHANGED rcvd

Deliver ==
  /\ Len(rcvd) < Len(sent)
  /\ rcvd' = Append(rcvd, sent[Len(rcvd) + 1])
  /\ UNCHANGED sent

Spec == Init /\ [][Send \/ Deliver]_<<sent, rcvd>>
=============================================================================
