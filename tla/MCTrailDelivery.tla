-------------------------- MODULE MCTrailDelivery --------------------------
(***************************************************************************)
(* Small instances of TrailDelivery.                                       *)
(***************************************************************************)
EXTENDS TrailDelivery

TwoRounds == <<3, 4>>
=============================================================================
