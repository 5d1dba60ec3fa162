------------------------------ MODULE Channel ------------------------------
(***************************************************************************)
(* What the framed TCP protocol promises the receiver of one direction of  *)
(* a connection (net.hpp:3-8): the frames it is handed are the frames that *)
(* were put on the wire, whole, each once and in order.  Frames may be     *)
(* missing at the end, when the connection breaks, and nowhere else.       *)
(***************************************************************************)
EXTENDS Naturals, Sequences

CONSTANT Frames        \* the frames a sender may pass to send_frame

VARIABLES sent,        \* frames put on the wire, at least in part, in order
          got          \* frames recv_frame has handed to its caller, in order

Init == sent = <<>> /\ got = <<>>

Send == /\ \E f \in Frames : sent' = Append(sent, f)
        /\ UNCHANGED got

Receive == /\ Len(got) < Len(sent)
           /\ got' = Append(got, sent[Len(got) + 1])
           /\ UNCHANGED sent

Spec == Init /\ [][Send \/ Receive]_<<sent, got>>
=============================================================================
