---------------------------- MODULE EngineMachine ----------------------------
(***************************************************************************)
(* The rules engine driven by its callers: players sit down at any moment  *)
(* (RoomCommand::Join), a hand is dealt whenever no seat is to act         *)
(* (RoomCommand::Ready), and actions arrive one after the other.           *)
(***************************************************************************)
EXTENDS PokerEngine

VARIABLES
    eng,          \* the EngineState
    foldedNow,    \* history: the seats that folded in the current hand
    torn          \* history: an action of this hand failed half way

vars == <<eng, foldedNow, torn>>

Init ==
    /\ eng = NewEngineState
    /\ foldedNow = {}
    /\ torn = FALSE

SeatPlayer(s) ==
    /\ s \notin eng.seated
    /\ eng' = [eng EXCEPT !.seated = @ \cup {s}]
    /\ UNCHANGED <<foldedNow, torn>>

DealHandAnyTime ==
    /\ CanDeal(eng)
    /\ eng.handId < MaxHands
    /\ eng' = Deal(eng)
    /\ foldedNow' = {}
    /\ torn' = FALSE

DealHand ==
    /\ eng.acting = NoSeat
    /\ CanDeal(eng)
    /\ eng.handId < MaxHands
    /\ eng' = Deal(eng)
    /\ foldedNow' = {}
    /\ torn' = FALSE

\* What a client can submit for the seat that is to act.
ActionsOf(s) ==
    [handId : {eng.handId}, seq : {eng.seq}, seat : {s},
     type : {"Fold", "Check", "Call"}, amount : {NoAmount}]
    \cup
    [handId : {eng.handId}, seq : {eng.seq}, seat : {s},
     type : {"RaiseTo", "AllIn"}, amount : Amounts]

\* apply_action, accepted or failed after its first assignments.  An action
\* refused by its checks changes nothing and is no step.
Act(a) ==
    /\ Allowed(eng, a)
    /\ eng' = ApplyAction(eng, a)
    /\ foldedNow' = IF a.type = "Fold" THEN foldedNow \cup {a.seat} ELSE foldedNow
    /\ torn' = (torn \/ Overflows(eng, a))

Next ==
    \/ \E s \in Seat : SeatPlayer(s)
    \/ DealHand
    \/ \E s \in Seat : \E a \in ActionsOf(s) : Act(a)

Spec == Init /\ [][Next]_vars
-----------------------------------------------------------------------------
(***************************************************************************)
(* Invariants.                                                             *)
(***************************************************************************)
\* The engine state has the shape of the code's struct, and exactly a running
\* hand has a seat to act, which sits at the table (advance_turn).
TypeOK ==
    /\ eng \in EngineState
    /\ eng.status = "Running" <=> eng.acting # NoSeat
    /\ eng.status = "Running" => eng.acting \in eng.seated
    /\ foldedNow \subseteq Seat
    /\ torn \in BOOLEAN

\* No seat's bet of the round exceeds the bet to match, and, unless an action of
\* the hand failed half way, every chip bet in the round was paid into the pot.
BetsCovered ==
    \A s \in Seat : /\ eng.bets[s] <= eng.bet
                    /\ ~torn => eng.bets[s] <= eng.contrib[s]

\* At the showdown all seats that were dealt in, did not fold and are not all-in
\* have paid the same total over the four streets, and no all-in seat has paid
\* more than they did: every bet was called before the cards are compared
\* (is_betting_round_complete over all streets).
MatchedAtShowdown ==
    eng.status = "Showdown" /\ ~torn =>
        LET in == eng.dealtIn \ eng.folded
        IN  \A s \in in \ eng.allIn : \A t \in in :
                /\ t \notin eng.allIn => eng.contrib[t] = eng.contrib[s]
                /\ eng.contrib[t] <= eng.contrib[s]

\* legal_actions and apply_action agree for the seat to act: an action whose
\* type is listed and whose amount lies in the listed bounds passes the checks of
\* apply_action, and an action that passes them is listed.  An all-in is listed
\* without bounds; it needs an amount above the seat's bet.
LegalMatchesApply ==
    \A s \in eng.seated : \A a \in ActionsOf(s) :
        LET listed == {l \in LegalActions(eng, s) : l.type = a.type}
            inBounds == \E l \in listed :
                a.type \in {"RaiseTo", "AllIn"} => a.amount >= l.min
        IN  Allowed(eng, a) <=>
                inBounds /\ (a.type = "AllIn" => a.amount > eng.bets[s])

\* As long as nobody is all-in and nobody sat down during the hand, the seat to
\* act has not acted since the last raise: a round asks every seat once
\* (advance_turn, the acted_seats reset of apply_action).
AskedOncePerRound ==
    eng.status = "Running" /\ eng.allIn = {} /\ eng.seated = eng.dealtIn /\ ~torn =>
        eng.acting \notin eng.acted
-----------------------------------------------------------------------------
(***************************************************************************)
(* What a step may do.                                                     *)
(***************************************************************************)
SameHand == eng'.handId = eng.handId

\* Within a hand chips only enter the pot, all that enter in one step are booked
\* to one seat, and that seat is the one whose turn it was.
ChipsEnterByActingSeat ==
    [][SameHand /\ eng'.pot # eng.pot =>
        /\ eng'.pot > eng.pot
        /\ \A s \in Seat \ {eng.acting} : eng'.contrib[s] = eng.contrib[s]
        /\ eng'.contrib[eng.acting] - eng.contrib[eng.acting] = eng'.pot - eng.pot
      ]_vars

\* The abstract hand of HandLifecycle.
Lifecycle == INSTANCE HandLifecycle WITH hand <- eng.handId, status <- eng.status

\* The engine keeps the promise of HandLifecycle: hands are dealt one after the
\* other, only when none is played, and play ends a hand at most once.
RefinesLifecycle == Lifecycle!Spec
-----------------------------------------------------------------------------
(***************************************************************************)
(* Statements of the repository's documents.                               *)
(***************************************************************************)
\* "摊牌或全员弃牌后结束本手": play ends a hand short of the showdown only when all
\* but one of the seats that were dealt in folded in that hand (advance_turn).
HandEndsByFolds ==
    [][SameHand /\ eng.status = "Running" /\ eng'.status = "Settled" =>
        Cardinality(eng.dealtIn \ foldedNow') <= 1]_vars
=============================================================================
