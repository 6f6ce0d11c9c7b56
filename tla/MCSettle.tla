------------------------------ MODULE MCSettle ------------------------------
(***************************************************************************)
(* Plans that pay two seats.                                               *)
(***************************************************************************)
EXTENDS SettlementLoop

TwoSeats == <<0, 1>>
=============================================================================
