----------------------------- MODULE EngineTurns -----------------------------
(***************************************************************************)
(* EngineMachine with a bit that flips at every action, so that an action  *)
(* which leaves the engine as it found it (a check repeated after the      *)
(* action number has saturated) is still a step, and fairness can speak    *)
(* of it.                                                                  *)
(***************************************************************************)
EXTENDS EngineMachine

VARIABLE flip

turnVars == <<vars, flip>>

TurnInit == Init /\ flip = 0

TakeTurn ==
    /\ \E s \in Seat : \E a \in ActionsOf(s) : Act(a)
    /\ flip' = 1 - flip

Arrive ==
    /\ DealHand \/ \E s \in Seat : SeatPlayer(s)
    /\ UNCHANGED flip

TurnNext == TakeTurn \/ Arrive

\* The seat to act always acts: its player does, or the turn timer folds it.
FairSpec == TurnInit /\ [][TurnNext]_turnVars /\ WF_turnVars(TakeTurn)

\* "摊牌或全员弃牌后结束本手": a hand in which the seat to act always acts comes to its
\* showdown or to its folds (advance_turn, advance_street).
HandTerminates == eng.status = "Running" ~> eng.status # "Running"
=============================================================================
