------------------------------ MODULE Channel -------------------------------
(***************************************************************************)
(* What one direction of a connection promises to the protocol above it:   *)
(* messages arrive whole, once, and in the order they were sent.  Those    *)
(* sent last may never arrive.                                             *)
(***************************************************************************)
EXTENDS Sequences, Naturals

CONSTANT Message

VARIABLES sent, received

Init == sent = <<>> /\ received = <<>>

Send ==
    /\ \E m \in Message : sent' = Append(sent, m)
    /\ UNCHANGED received

Deliver ==
    /\ Len(received) < Len(sent)
    /\ received' = Append(received, sent[Len(received) + 1])
    /\ UNCHANGED sent

Next == Send \/ Deliver

Spec == Init /\ [][Next]_<<sent, received>>
=============================================================================
