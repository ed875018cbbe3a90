----------------------------- MODULE FrameStore -----------------------------
(***************************************************************************)
(* What a .bin file is for: frames go in one after the other, and later    *)
(* come out in the same order, each as it went in. How many come out is    *)
(* not promised.                                                           *)
(***************************************************************************)
EXTENDS Naturals, Sequences

CONSTANT Frame

VARIABLES handed, delivered

Init == handed \in Seq(Frame) /\ delivered = <<>>

Put ==
  /\ delivered = <<>>
  /\ handed' \in Seq(Frame)
  /\ Len(handed') = Len(handed) + 1
  /\ \A i \in DOMAIN handed : handed'[i] = handed[i]
  /\ UNCHANGED delivered

Get ==
  /\ Len(delivered) < Len(handed)
  /\ delivered' = Append(delivered, handed[Len(delivered) + 1])
  /\ UNCHANGED handed

Spec == Init /\ [][Put \/ Get]_<<handed, delivered>>
=============================================================================
