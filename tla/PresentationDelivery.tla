------------------------ MODULE PresentationDelivery ------------------------
(***************************************************************************)
(* What the analyzer promises of an intact stream, seen from outside: the  *)
(* pictures are reported one after the other in presentation order, none   *)
(* is skipped or reported twice, and success is announced only when all of *)
(* them were.  It may stop early with a failure.                           *)
(***************************************************************************)
EXTENDS Integers, Sequences, Functions

CONSTANT Failures   \* the verdicts that are not "Success"

VARIABLES
  pictures,    \* the places of the stream's pictures in presentation order
  delivered,   \* those reported so far
  verdict

deliveryVars == <<pictures, delivered, verdict>>

DeliveryInit ==
  /\ delivered = <<>>
  /\ verdict = "none"

Outstanding == pictures \ Range(delivered)

Deliver ==
  /\ verdict = "none"
  /\ \E p \in Outstanding :
       /\ \A q \in Outstanding : p <= q
       /\ delivered' = Append(delivered, p)
  /\ UNCHANGED <<pictures, verdict>>

Succeed ==
  /\ verdict = "none"
  /\ Outstanding = {}
  /\ verdict' = "Success"
  /\ UNCHANGED <<pictures, delivered>>

Fail ==
  /\ verdict = "none"
  /\ verdict' \in Failures
  /\ UNCHANGED <<pictures, delivered>>

DeliveryNext == Deliver \/ Succeed \/ Fail

DeliverySpec == DeliveryInit /\ [][DeliveryNext]_deliveryVars
=============================================================================
