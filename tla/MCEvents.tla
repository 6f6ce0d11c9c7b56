------------------------------ MODULE MCEvents ------------------------------
(***************************************************************************)
(* A subscriber of the hand's events, which come in batches, with rows of  *)
(* the other topic between them.                                           *)
(***************************************************************************)
EXTENDS EventDelivery

MCTopic(s) == IF s = "table" THEN "hand.events" ELSE "seat.events"
=============================================================================
