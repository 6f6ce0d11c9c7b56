---------------------------- MODULE HandLifecycle ----------------------------
(***************************************************************************)
(* What a room promises about its hands, whatever the cards and the chips: *)
(* hands follow each other, at most one is open, and a hand that is over   *)
(* stays over.  The room does not promise that a hand is settled before    *)
(* the next one is dealt: Ready deals whenever no seat is to act, and at a *)
(* showdown no seat is.                                                    *)
(***************************************************************************)
EXTENDS Naturals

VARIABLES
    hand,      \* snapshot.hand_id: how many hands were dealt
    status     \* snapshot.status

lifeVars == <<hand, status>>

Init == hand = 0 /\ status = "Created"

\* deal_new_hand_internal, from Ready
StartHand ==
    /\ status # "Running"
    /\ hand' = hand + 1
    /\ status' = "Running"

\* The last action of a hand: all but one seat folded, or the betting is over.
PlayOut ==
    /\ status = "Running"
    /\ status' \in {"Settled", "Showdown"}
    /\ UNCHANGED hand

\* A transaction of the hand failed (ChainTxVerified).
GiveUp ==
    /\ status \in {"Running", "Showdown"}
    /\ status' = "Aborted"
    /\ UNCHANGED hand

\* CompleteSettlement
Close ==
    /\ status = "Showdown"
    /\ status' = "Settled"
    /\ UNCHANGED hand

Next == StartHand \/ PlayOut \/ GiveUp \/ Close

Spec == Init /\ [][Next]_lifeVars
=============================================================================
