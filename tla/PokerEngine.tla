----------------------------- MODULE PokerEngine -----------------------------
(***************************************************************************)
(* The rules engine of crates/poker-engine: dealing, betting, turn order   *)
(* and streets of the hands of one room.                                   *)
(*                                                                         *)
(* EngineState is one record value, as it is one struct in the code; the   *)
(* engine's methods are operators from a state to the next one.  Cards are *)
(* abstracted to the number of board cards shown and the set of seats that *)
(* hold cards: no rule of play looks at a card before the showdown.        *)
(***************************************************************************)
EXTENDS PotLayers, Integers

CONSTANTS
    Seat,         \* seat numbers (SeatId, a u8)
    NoSeat,       \* Option::<SeatId>::None
    MaxChips,     \* the largest Chips value (u128::MAX)
    MaxSeq,       \* the largest ActionSeq (u32::MAX), where it saturates
    MaxHands,     \* bound: hands dealt in a behaviour
    Amounts       \* the amounts clients name in raise_to and all_in

SmallBlind == 1
BigBlind == 2

ASSUME SeatAssumption == Seat \subseteq Nat /\ NoSeat \notin Seat
ASSUME ChipsAssumption == MaxChips \in Nat /\ MaxChips >= SmallBlind + BigBlind
ASSUME BoundAssumption == MaxSeq \in Nat \ {0} /\ MaxHands \in Nat
ASSUME AmountsAssumption == Amounts \subseteq 1 .. MaxChips

Chips == 0 .. MaxChips
HandStatus == {"Created", "Running", "Showdown", "Settling", "Settled", "Aborted"}
Street == {"Preflop", "Flop", "Turn", "River", "Showdown"}
ActionType == {"Fold", "Check", "Call", "RaiseTo", "AllIn"}

\* An Option<Chips> that is None.  Some(0) is refused wherever None is.
NoAmount == 0

EngineState ==
    [status   : HandStatus,
     street   : Street,
     handNo   : Nat,
     handId   : Nat,                \* fresh at each deal
     seq      : 1 .. MaxSeq,        \* next_action_seq
     acting   : Seat \cup {NoSeat},
     seated   : SUBSET Seat,        \* hand.seated_players
     folded   : SUBSET Seat,
     allIn    : SUBSET Seat,
     bet      : Chips,              \* betting_round.current_bet
     minRaise : Chips,              \* min_raise_to, NoAmount for None
     bets     : [Seat -> Chips],    \* betting_round.player_bets
     acted    : SUBSET Seat,
     pot      : Chips,              \* main_pot, which is also pot_total
     contrib  : [Seat -> Chips],    \* pot.player_contributions
     board    : 0 .. 5,             \* snapshot.board_cards.len()
     dealtIn  : SUBSET Seat]        \* the keys of dealing.hole_cards

PlayerAction ==
    [handId : Nat, seq : Nat, seat : Seat, type : ActionType, amount : Chips]

\* EngineState::new(room_id, 1)
NewEngineState ==
    [status |-> "Created", street |-> "Preflop", handNo |-> 1, handId |-> 0,
     seq |-> 1, acting |-> NoSeat, seated |-> {}, folded |-> {}, allIn |-> {},
     bet |-> 0, minRaise |-> NoAmount, bets |-> [s \in Seat |-> 0],
     acted |-> {}, pot |-> 0, contrib |-> [s \in Seat |-> 0], board |-> 0,
     dealtIn |-> {}]
-----------------------------------------------------------------------------
(***************************************************************************)
(* Seats in order.                                                         *)
(***************************************************************************)
\* The first of the candidates clockwise from s, s itself coming last.
NextClockwise(s, candidates) ==
    LET later == {c \in candidates : c > s}
    IN  Min(IF later # {} THEN later ELSE candidates)

\* seats_sorted[i]
NthSeat(seats, i) ==
    CHOOSE s \in seats : Cardinality({t \in seats : t < s}) = i

\* state_dealer_index, with the seat it points at
Dealer(e) == NthSeat(e.seated, (e.handNo - 1) % Cardinality(e.seated))

SmallBlindSeat(e) ==
    IF Cardinality(e.seated) = 2 THEN Dealer(e)
    ELSE NextClockwise(Dealer(e), e.seated)

BigBlindSeat(e) == NextClockwise(SmallBlindSeat(e), e.seated)

\* Heads up this is the dealer again, who posts the small blind.
FirstToAct(e) == NextClockwise(BigBlindSeat(e), e.seated)

ActiveSeats(e) == e.seated \ e.folded
ActionableSeats(e) == ActiveSeats(e) \ e.allIn
-----------------------------------------------------------------------------
(***************************************************************************)
(* deal_new_hand_internal.  The hand number grows except from Created.     *)
(* folded and allIn are not assigned: the code clears them only in         *)
(* EngineState::start, which no deal calls.                                *)
(***************************************************************************)
DeckSize == 52

\* Two hole cards a seat, three burns and five board cards.
CanDeal(e) ==
    /\ Cardinality(e.seated) >= 2
    /\ 2 * Cardinality(e.seated) + 8 <= DeckSize

DealtHandNo(e) == IF e.status = "Created" THEN e.handNo ELSE e.handNo + 1

Deal(e) ==
    LET n == [e EXCEPT !.handNo = DealtHandNo(e)]
        blinds == [s \in Seat |-> CASE s = SmallBlindSeat(n) -> SmallBlind
                                    [] s = BigBlindSeat(n) -> BigBlind
                                    [] OTHER -> 0]
    IN  [n EXCEPT !.handId = @ + 1, !.seq = 1, !.status = "Running",
                  !.street = "Preflop", !.board = 0, !.acting = FirstToAct(n),
                  !.bet = BigBlind,
                  !.minRaise = IF 2 * BigBlind <= MaxChips
                               THEN 2 * BigBlind ELSE BigBlind,
                  !.bets = blinds, !.acted = {}, !.contrib = blinds,
                  !.pot = SmallBlind + BigBlind, !.dealtIn = e.seated]
-----------------------------------------------------------------------------
(***************************************************************************)
(* Turn order: advance_turn and advance_street.                            *)
(***************************************************************************)
\* is_betting_round_complete
RoundComplete(e) ==
    \A s \in ActiveSeats(e) :
        s \in e.acted /\ (s \in e.allIn \/ e.bets[s] = e.bet)

NextStreet(street) ==
    CASE street = "Preflop" -> "Flop"
      [] street = "Flop" -> "Turn"
      [] street = "Turn" -> "River"
      [] OTHER -> "Showdown"

RevealCount(street) ==
    CASE street = "Preflop" -> 0
      [] street = "Flop" -> 3
      [] street = "Turn" -> 4
      [] OTHER -> 5

ToShowdownSeatKept(e) ==
    [e EXCEPT !.status = "Showdown", !.street = "Showdown"]

ToShowdown(e) ==
    [e EXCEPT !.status = "Showdown", !.street = "Showdown", !.acting = NoSeat]

AdvanceStreet(e) ==
    LET next == NextStreet(e.street)
    IN  IF next = "Showdown"
        THEN [ToShowdown(e) EXCEPT !.board = RevealCount(next)]
        ELSE [e EXCEPT !.street = next, !.board = RevealCount(next),
                       !.bet = 0, !.minRaise = NoAmount,
                       !.bets = [s \in Seat |-> 0], !.acted = {},
                       !.acting = NextClockwise(Dealer(e), ActiveSeats(e))]

AdvanceTurnOneCanAct(e, current) ==
    IF Cardinality(ActiveSeats(e)) <= 1
    THEN [e EXCEPT !.status = "Settled", !.acting = NoSeat]
    ELSE IF RoundComplete(e) THEN AdvanceStreet(e)
    ELSE IF Cardinality(ActionableSeats(e)) <= 1 THEN ToShowdown(e)
    ELSE [e EXCEPT !.acting = NextClockwise(current, ActionableSeats(e))]

AdvanceTurn(e, current) ==
    IF Cardinality(ActiveSeats(e)) <= 1
    THEN [e EXCEPT !.status = "Settled", !.acting = NoSeat]
    ELSE IF RoundComplete(e) THEN AdvanceStreet(e)
    ELSE IF ActionableSeats(e) = {} THEN ToShowdown(e)
    ELSE [e EXCEPT !.acting = NextClockwise(current, ActionableSeats(e))]
-----------------------------------------------------------------------------
(***************************************************************************)
(* apply_action.  The action's hand_id is not looked at.                   *)
(***************************************************************************)
ToCall(e, s) == IF e.bets[s] < e.bet THEN e.bet - e.bets[s] ELSE 0

\* The total the seat's bet is to reach in this round.
Target(e, a) == IF a.type = "Call" THEN e.bet ELSE a.amount

IsRaiseOnlyRaiseTo(e, a) == a.type = "RaiseTo" /\ Target(e, a) > e.bet

IsRaise(e, a) == a.type \in {"RaiseTo", "AllIn"} /\ Target(e, a) > e.bet

RaiseInBoundsNoMinimum(e, a) ==
    a.amount > e.bets[a.seat] /\ a.amount > e.bet

RaiseInBounds(e, a) ==
    /\ a.amount > e.bets[a.seat]
    /\ a.amount > e.bet
    /\ a.amount >= e.minRaise

\* The checks that come before the first assignment.
Allowed(e, a) ==
    /\ a.seq = e.seq
    /\ e.acting = a.seat
    /\ CASE a.type = "Fold" -> TRUE
         [] a.type = "Check" -> ToCall(e, a.seat) = 0
         [] a.type = "Call" -> ToCall(e, a.seat) # 0
         [] a.type = "RaiseTo" -> RaiseInBounds(e, a)
         [] a.type = "AllIn" -> a.amount > e.bets[a.seat]

MovesChips(a) == a.type \in {"Call", "RaiseTo", "AllIn"}

\* The chips the action adds to the pot.
Delta(e, a) == IF MovesChips(a) THEN Target(e, a) - e.bets[a.seat] ELSE 0

\* main_pot.checked_add(delta) fails.
Overflows(e, a) == e.pot + Delta(e, a) > MaxChips

NextMinRaise(bet, target) ==
    IF target + (target - bet) <= MaxChips THEN target + (target - bet) ELSE target

\* The assignments before the first fallible addition.
PlaceBet(e, a) ==
    IF ~MovesChips(a) THEN e
    ELSE [e EXCEPT !.bets[a.seat] = Target(e, a),
                   !.bet = IF IsRaise(e, a) THEN Target(e, a) ELSE @,
                   !.minRaise = IF IsRaise(e, a)
                                THEN NextMinRaise(e.bet, Target(e, a)) ELSE @]

AddContributionOverwrites(contrib, s, delta) == [contrib EXCEPT ![s] = delta]

AddContribution(contrib, s, delta) == [contrib EXCEPT ![s] = @ + delta]

AllInAfter(e, a) == IF a.type = "AllIn" THEN e.allIn \cup {a.seat} ELSE e.allIn

ActedAfterNoReset(e, a) == e.acted \cup {a.seat}

\* A raise re-opens the round for every seat that is not all-in.
ActedAfter(e, a) ==
    (IF IsRaise(e, a) THEN AllInAfter(e, a) ELSE e.acted) \cup {a.seat}

\* Everything else up to the change of turn.
Commit(e, a) ==
    [PlaceBet(e, a) EXCEPT
        !.pot = @ + Delta(e, a),
        !.contrib = AddContribution(@, a.seat, Delta(e, a)),
        !.folded = IF a.type = "Fold" THEN @ \cup {a.seat} ELSE @,
        !.allIn = AllInAfter(e, a),
        !.acted = ActedAfter(e, a),
        !.seq = IF @ < MaxSeq THEN @ + 1 ELSE @]

Accepted(e, a) == Allowed(e, a) /\ ~Overflows(e, a)

\* The state apply_action leaves behind.  An addition that overflows returns
\* its error after the bet was already recorded.
ApplyAction(e, a) ==
    IF ~Allowed(e, a) THEN e
    ELSE IF Overflows(e, a) THEN PlaceBet(e, a)
    ELSE AdvanceTurn(Commit(e, a), a.seat)

\* legal_actions: each action with its least and greatest amount.
LegalActions(e, s) ==
    IF e.acting # s THEN {}
    ELSE {[type |-> "Fold", min |-> NoAmount, max |-> NoAmount],
          IF ToCall(e, s) = 0
          THEN [type |-> "Check", min |-> NoAmount, max |-> NoAmount]
          ELSE [type |-> "Call", min |-> ToCall(e, s), max |-> ToCall(e, s)],
          [type |-> "RaiseTo",
           min  |-> IF e.minRaise # NoAmount THEN e.minRaise
                    ELSE IF e.bet < MaxChips THEN e.bet + 1 ELSE e.bet,
           max  |-> NoAmount],
          [type |-> "AllIn", min |-> NoAmount, max |-> NoAmount]}
=============================================================================
