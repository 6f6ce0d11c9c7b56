------------------------- MODULE EngineMachineProofs -------------------------
(***************************************************************************)
(* The theorems about the rules engine, for any set of seats, any amounts  *)
(* and any number of hands.                                                *)
(***************************************************************************)
EXTENDS EngineMachine, PokerEngineProofs

\* The inductive invariant.  MatchedAtShowdown speaks of showdowns only; that it
\* is kept needs to be known of the stakes of every earlier street (MatchedOK).
\* A failed addition (torn) leaves a bet that was not paid.
IInv ==
    /\ EngineOK(eng)
    /\ ~torn => MatchedOK(eng)
    /\ foldedNow \subseteq Seat
    /\ torn \in BOOLEAN

\* Clients submit well-formed actions.
LEMMA ActionsTyped ==
    ASSUME EngineOK(eng), NEW s \in Seat, NEW a \in ActionsOf(s)
    PROVE  a \in PlayerAction
<1>1. /\ a = [handId |-> a.handId, seq |-> a.seq, seat |-> a.seat,
               type |-> a.type, amount |-> a.amount]
      /\ a.handId = eng.handId /\ a.seq = eng.seq /\ a.seat = s
      /\ a.type \in ActionType /\ a.amount \in {NoAmount} \cup Amounts
  BY DEF ActionsOf, ActionType
<1>2. eng.handId \in Nat /\ eng.seq \in Nat
  BY DEF EngineOK, EngineState
<1>3. {NoAmount} \cup Amounts \subseteq Chips
  <2>1. 0 \in 0 .. MaxChips /\ \A x \in 1 .. MaxChips : x \in 0 .. MaxChips
    BY ChipsAssumption, SMT
  <2> QED BY <2>1, AmountsAssumption, Zenon DEF NoAmount, Chips
<1> QED BY <1>1, <1>2, <1>3 DEF PlayerAction

\* The invariant holds initially.
LEMMA InitIInv == Init => IInv
BY NewEngineOK DEF Init, IInv

\* Sitting down during a hand or between hands changes no rule of it.
LEMMA SeatPlayerIInv ==
    ASSUME IInv, NEW s \in Seat, SeatPlayer(s)
    PROVE  IInv'
<1> DEFINE seats == eng.seated \cup {s}
<1>1. eng \in EngineState /\ eng' = [eng EXCEPT !.seated = seats]
  BY DEF IInv, EngineOK, SeatPlayer
<1>2. seats \in SUBSET Seat /\ eng.seated \subseteq seats
  BY <1>1 DEF EngineState
<1> HIDE DEF seats
<1>3. eng' \in EngineState
  BY <1>1, <1>2 DEF EngineState
<1>4. /\ eng'.status = eng.status /\ eng'.acting = eng.acting /\ eng'.seated = seats
      /\ eng'.dealtIn = eng.dealtIn /\ eng'.bets = eng.bets /\ eng'.bet = eng.bet
      /\ eng'.contrib = eng.contrib /\ eng'.pot = eng.pot
      /\ eng'.folded = eng.folded /\ eng'.allIn = eng.allIn
  BY <1>1 DEF EngineState
<1>5. EngineOK(eng')
  BY <1>2, <1>3, <1>4 DEF IInv, EngineOK
<1>6. MatchedOK(eng) => MatchedOK(eng')
  BY <1>4 DEF MatchedOK, StillIn, Stake
<1> QED BY <1>5, <1>6 DEF IInv, SeatPlayer

\* Dealing keeps the invariant.
LEMMA DealHandIInv ==
    ASSUME IInv, DealHand
    PROVE  IInv'
BY DealOK DEF IInv, DealHand

\* An action keeps the invariant, accepted or failed half way.
LEMMA ActIInv ==
    ASSUME IInv, NEW s \in Seat, NEW a \in ActionsOf(s), Act(a)
    PROVE  IInv'
<1>1. a \in PlayerAction /\ a.seat \in Seat
  BY ActionsTyped DEF IInv, PlayerAction
<1>2. /\ EngineOK(eng')
      /\ ~Overflows(eng, a) /\ MatchedOK(eng) => MatchedOK(eng')
  BY <1>1, ApplyActionOK DEF IInv, Act
<1>3. torn' \in BOOLEAN /\ (~torn' => ~torn /\ ~Overflows(eng, a))
  BY Zenon DEF Act
<1>4. foldedNow' \subseteq Seat
  BY <1>1 DEF IInv, Act
<1> QED BY <1>2, <1>3, <1>4, Zenon DEF IInv

\* Every step keeps the invariant.
LEMMA NextIInv == IInv /\ [Next]_vars => IInv'
<1> SUFFICES ASSUME IInv, [Next]_vars
             PROVE  IInv'
  OBVIOUS
<1>1. CASE UNCHANGED vars
  BY <1>1 DEF vars, IInv
<1>2. ASSUME NEW s \in Seat, SeatPlayer(s) PROVE IInv'
  BY <1>2, SeatPlayerIInv
<1>3. CASE DealHand
  BY <1>3, DealHandIInv
<1>4. ASSUME NEW s \in Seat, NEW a \in ActionsOf(s), Act(a) PROVE IInv'
  BY <1>4, ActIInv
<1> QED BY <1>1, <1>2, <1>3, <1>4 DEF Next

\* The invariant holds throughout.
THEOREM Invariance == Spec => []IInv
BY InitIInv, NextIInv, PTL DEF Spec

\* The engine state always has its type, and exactly a running hand has a seat to
\* act, which sits at the table.
THEOREM TypeCorrect == Spec => []TypeOK
<1>1. IInv => TypeOK
  BY DEF IInv, TypeOK, EngineOK
<1> QED BY <1>1, Invariance, PTL

\* No bet exceeds the bet to match, and every chip bet was paid into the pot.
THEOREM BetsAreCovered == Spec => []BetsCovered
<1>1. IInv => BetsCovered
  BY DEF IInv, BetsCovered, EngineOK, MatchedOK
<1> QED BY <1>1, Invariance, PTL

\* Every bet is called before the cards are compared: at the showdown the seats
\* still in that are not all-in have paid the same, and nobody has paid more.
THEOREM ShowdownIsMatched == Spec => []MatchedAtShowdown
<1>1. IInv => MatchedAtShowdown
  <2> SUFFICES ASSUME IInv, eng.status = "Showdown", ~torn,
                      NEW s \in (eng.dealtIn \ eng.folded) \ eng.allIn,
                      NEW t \in eng.dealtIn \ eng.folded
               PROVE  /\ t \notin eng.allIn => eng.contrib[t] = eng.contrib[s]
                      /\ eng.contrib[t] <= eng.contrib[s]
    BY DEF MatchedAtShowdown
  <2>1. /\ eng.contrib[t] <= eng.contrib[s]
        /\ t \notin eng.allIn => eng.contrib[s] <= eng.contrib[t]
    BY DEF IInv, MatchedOK, StillIn
  <2>2. eng.contrib[s] \in Nat /\ eng.contrib[t] \in Nat
    BY DEF IInv, EngineOK, EngineState, Chips
  <2> QED BY <2>1, <2>2
<1> QED BY <1>1, Invariance, PTL

\* Chips enter the pot only from the seat whose turn it is, which is booked for
\* exactly as many.
THEOREM ChipsComeFromActingSeat == Spec => ChipsEnterByActingSeat
<1> DEFINE Booked ==
      SameHand /\ eng'.pot # eng.pot =>
        /\ eng'.pot > eng.pot
        /\ \A s \in Seat \ {eng.acting} : eng'.contrib[s] = eng.contrib[s]
        /\ eng'.contrib[eng.acting] - eng.contrib[eng.acting] = eng'.pot - eng.pot
<1>1. IInv /\ [Next]_vars => [Booked]_vars
  <2> SUFFICES ASSUME IInv, Next, SameHand, eng'.pot # eng.pot
               PROVE  Booked
    BY DEF vars
  <2>1. ASSUME NEW s \in Seat, SeatPlayer(s) PROVE FALSE
    BY <2>1 DEF SeatPlayer, IInv, EngineOK, EngineState
  <2>2. CASE DealHand
    <3>1. eng'.handId = eng.handId + 1 /\ eng.handId \in Nat
      BY <2>2 DEF DealHand, Deal, IInv, EngineOK, EngineState
    <3> QED BY <3>1 DEF SameHand
  <2>3. ASSUME NEW s \in Seat, NEW a \in ActionsOf(s), Act(a) PROVE Booked
    <3> DEFINE d == Delta(eng, a)
    <3>1. a \in PlayerAction /\ a.seat \in Seat /\ a.seat = eng.acting /\ Allowed(eng, a)
      BY <2>3, ActionsTyped DEF IInv, PlayerAction, Act, Allowed
    <3>2. ~Overflows(eng, a) /\ EngineOK(eng) /\ eng' = ApplyAction(eng, a)
      BY <2>3, <3>1, ApplyActionOK DEF IInv, Act
    <3>3. /\ eng'.pot = eng.pot + d
          /\ eng'.contrib = [eng.contrib EXCEPT ![a.seat] = @ + d]
      BY <3>1, <3>2, ApplyActionOK
    <3>4. d \in Nat /\ eng.pot \in Nat /\ eng.contrib \in [Seat -> Nat]
      BY <3>1, <3>2, AllowedAmounts DEF EngineOK, EngineState, Chips
    <3> HIDE DEF d
    <3> QED BY <3>1, <3>3, <3>4
  <2> QED BY <2>1, <2>2, <2>3 DEF Next
<1>2. [][Booked]_vars => ChipsEnterByActingSeat
  BY PTL DEF ChipsEnterByActingSeat
<1> QED BY <1>1, <1>2, Invariance, PTL DEF Spec

\* The engine implements HandLifecycle: every step of the engine is a step of the
\* abstract hand or leaves it alone.
THEOREM EngineRefinesLifecycle == Spec => RefinesLifecycle
<1>1. Init => Lifecycle!Init
  BY DEF Init, NewEngineState, Lifecycle!Init
<1>2. IInv /\ [Next]_vars => [Lifecycle!Next]_(Lifecycle!lifeVars)
  <2> SUFFICES ASSUME IInv, [Next]_vars
               PROVE  Lifecycle!Next \/ UNCHANGED <<eng.handId, eng.status>>
    BY DEF Lifecycle!lifeVars
  <2> USE DEF Lifecycle!Next, Lifecycle!StartHand, Lifecycle!PlayOut
  <2>1. CASE UNCHANGED vars
    BY <2>1 DEF vars
  <2>2. ASSUME NEW s \in Seat, SeatPlayer(s)
        PROVE  UNCHANGED <<eng.handId, eng.status>>
    BY <2>2 DEF SeatPlayer, IInv, EngineOK, EngineState
  <2>3. CASE DealHand
    BY <2>3 DEF DealHand, Deal, IInv, EngineOK, EngineState
  <2>4. ASSUME NEW s \in Seat, NEW a \in ActionsOf(s), Act(a)
        PROVE  Lifecycle!PlayOut \/ UNCHANGED <<eng.handId, eng.status>>
    <3>1. a \in PlayerAction /\ Allowed(eng, a) /\ eng' = ApplyAction(eng, a) /\ EngineOK(eng)
      BY <2>4, ActionsTyped DEF IInv, Act
    <3>2. /\ eng.status = "Running" /\ eng'.handId = eng.handId
          /\ eng'.status \in {"Running", "Settled", "Showdown"}
      BY <3>1, AllowedAmounts, ApplyActionOK, ApplyActionStatus
    <3> QED BY <3>2
  <2> QED BY <2>1, <2>2, <2>3, <2>4 DEF Next
<1> QED BY <1>1, <1>2, Invariance, PTL DEF Spec, RefinesLifecycle, Lifecycle!Spec

\* While nobody is all-in, nobody sat down during the hand and no action failed half way,
\* the seats act in order (TurnOrder).  Actions and arrivals never restore this within a
\* hand, so where it holds of a state it held since the deal.
Steady(e, t) == e.status = "Running" /\ e.allIn = {} /\ e.seated = e.dealtIn /\ ~t
OrderInv == Steady(eng, torn) => TurnOrder(eng)

\* An action adds nobody to the table and takes nobody's all-in back.
LEMMA ActionKeepsSeats ==
    ASSUME NEW e, EngineOK(e), NEW a \in PlayerAction, Accepted(e, a)
    PROVE  LET n == ApplyAction(e, a)
           IN  n.seated = e.seated /\ n.dealtIn = e.dealtIn /\ e.allIn \subseteq n.allIn
<1> DEFINE c == Commit(e, a)
           n == AdvanceTurn(c, a.seat)
<1>1. ApplyAction(e, a) = n
  BY DEF ApplyAction, Accepted
<1>2. c \in EngineState
  BY CommitOK DEF EngineOK
<1>3. c.seated = e.seated /\ c.dealtIn = e.dealtIn /\ e.allIn \subseteq c.allIn
  BY CommitFields DEF AllInAfter
<1> HIDE DEF c
<1>4. n.seated = c.seated /\ n.dealtIn = c.dealtIn /\ n.allIn = c.allIn
  BY <1>2 DEF AdvanceTurn, AdvanceStreet, ToShowdown, EngineState
<1> QED BY <1>1, <1>3, <1>4

\* Every step keeps the order.
LEMMA NextOrder == IInv /\ OrderInv /\ [Next]_vars => OrderInv'
<1> SUFFICES ASSUME IInv, OrderInv, [Next]_vars, Steady(eng', torn')
             PROVE  TurnOrder(eng')
  BY DEF OrderInv
<1>0. eng \in EngineState /\ EngineOK(eng)
  BY DEF IInv, EngineOK
<1>1. CASE UNCHANGED vars
  <2>1. eng' = eng /\ torn' = torn
    BY <1>1 DEF vars
  <2> QED BY <2>1 DEF OrderInv
<1>2. ASSUME NEW s \in Seat, SeatPlayer(s) PROVE FALSE
  <2>1. /\ eng'.seated = eng.seated \cup {s} /\ s \notin eng.seated
        /\ eng'.dealtIn = eng.dealtIn /\ eng.dealtIn \subseteq eng.seated
    BY <1>0, <1>2 DEF SeatPlayer, EngineOK, EngineState
  <2> QED BY <2>1 DEF Steady
<1>3. CASE DealHand
  <2>1. eng'.acted = {}
    BY <1>0, <1>3 DEF DealHand, Deal, EngineState
  <2> QED BY <2>1 DEF TurnOrder
<1>4. ASSUME NEW s \in Seat, NEW a \in ActionsOf(s), Act(a) PROVE TurnOrder(eng')
  <2>1. a \in PlayerAction /\ eng' = ApplyAction(eng, a) /\ Allowed(eng, a)
    BY <1>0, <1>4, ActionsTyped DEF Act
  <2>2. ~torn /\ ~Overflows(eng, a)
    BY <1>4, Zenon DEF Act, Steady
  <2>3. Accepted(eng, a)
    BY <2>1, <2>2 DEF Accepted
  <2>4. /\ eng'.seated = eng.seated /\ eng'.dealtIn = eng.dealtIn /\ eng.allIn \subseteq eng'.allIn
    BY <1>0, <2>1, <2>3, ActionKeepsSeats
  <2>5. eng.status = "Running"
    BY <1>0, <2>1, AllowedAmounts
  <2>6. TurnOrder(eng)
    BY <2>2, <2>4, <2>5 DEF OrderInv, Steady
  <2>7. ApplyAction(eng, a).allIn = {} /\ ApplyAction(eng, a).status = "Running"
    BY <2>1 DEF Steady
  <2>8. TurnOrder(ApplyAction(eng, a))
    BY <1>0, <2>1, <2>3, <2>6, <2>7, ApplyActionOrder
  <2> QED BY <2>1, <2>8
<1> QED BY <1>1, <1>2, <1>3, <1>4 DEF Next

\* A round of betting asks every seat once, unless somebody raises: advance_turn never
\* comes back to a seat that has acted.
THEOREM RoundsAskOnce == Spec => []AskedOncePerRound
<1>1. Init => OrderInv
  BY DEF Init, NewEngineState, OrderInv, Steady
<1>2. OrderInv => AskedOncePerRound
  BY DEF OrderInv, Steady, TurnOrder, AskedOncePerRound
<1> QED BY <1>1, <1>2, NextOrder, Invariance, PTL DEF Spec

\* The least raise stays above the bet.
LEMMA NextRaise ==
    ASSUME RaisesFit
    PROVE  IInv /\ RaiseOK(eng) /\ [Next]_vars => RaiseOK(eng)'
<1> SUFFICES ASSUME IInv, RaiseOK(eng), [Next]_vars
             PROVE  RaiseOK(eng')
  OBVIOUS
<1>0. eng \in EngineState /\ EngineOK(eng)
  BY DEF IInv, EngineOK
<1>1. CASE UNCHANGED vars
  BY <1>1 DEF vars
<1>2. ASSUME NEW s \in Seat, SeatPlayer(s) PROVE RaiseOK(eng')
  <2>1. eng'.minRaise = eng.minRaise /\ eng'.bet = eng.bet
    BY <1>0, <1>2 DEF SeatPlayer, EngineState
  <2> QED BY <2>1 DEF RaiseOK
<1>3. CASE DealHand
  BY <1>0, <1>3, DealRaise DEF DealHand
<1>4. ASSUME NEW s \in Seat, NEW a \in ActionsOf(s), Act(a) PROVE RaiseOK(eng')
  <2>1. a \in PlayerAction /\ eng' = ApplyAction(eng, a) /\ Allowed(eng, a)
    BY <1>0, <1>4, ActionsTyped DEF Act
  <2>2. a.amount \in {NoAmount} \cup Amounts
    BY DEF ActionsOf
  <2>3. 2 * a.amount <= MaxChips
    <3>1. CASE a.amount = NoAmount
      BY <3>1, ChipsAssumption DEF NoAmount
    <3>2. CASE a.amount \in Amounts
      BY <3>2 DEF RaisesFit
    <3> QED BY <2>2, <3>1, <3>2
  <2> QED BY <1>0, <2>1, <2>3, ApplyActionRaise
<1> QED BY <1>1, <1>2, <1>3, <1>4 DEF Next

\* What legal_actions lists is what apply_action accepts, as long as the sums it forms of
\* the amounts fit.  Where they do not, min_raise_to falls back to the bet itself.
THEOREM LegalIsAccepted ==
    ASSUME RaisesFit
    PROVE  Spec => []LegalMatchesApply
<1>1. Init => RaiseOK(eng)
  BY DealRaise DEF Init
<1>2. IInv /\ RaiseOK(eng) => LegalMatchesApply
  <2> SUFFICES ASSUME IInv, RaiseOK(eng), NEW s \in eng.seated, NEW a \in ActionsOf(s)
               PROVE  LET listed == {l \in LegalActions(eng, s) : l.type = a.type}
                          inBounds == \E l \in listed :
                              a.type \in {"RaiseTo", "AllIn"} => a.amount >= l.min
                      IN  Allowed(eng, a) <=>
                              inBounds /\ (a.type = "AllIn" => a.amount > eng.bets[s])
    BY DEF LegalMatchesApply
  <2> DEFINE inBounds == \E l \in LegalActions(eng, s) :
                 l.type = a.type /\ (a.type \in {"RaiseTo", "AllIn"} => a.amount >= l.min)
             lowest == IF eng.minRaise # NoAmount THEN eng.minRaise
                       ELSE IF eng.bet < MaxChips THEN eng.bet + 1 ELSE eng.bet
  <2>1. /\ eng \in EngineState /\ s \in Seat /\ a.seat = s /\ a.seq = eng.seq
        /\ a.type \in ActionType
        /\ a.type \in {"RaiseTo", "AllIn"} => a.amount \in Amounts
    BY DEF IInv, EngineOK, EngineState, ActionsOf, ActionType
  <2>2. /\ eng.bet \in Nat /\ eng.minRaise \in Nat /\ eng.bets[s] \in Nat
        /\ eng.bets[s] <= eng.bet /\ eng.bet <= MaxChips
    BY <2>1 DEF IInv, EngineOK, EngineState, Chips
  <2>3. CASE eng.acting # s
    BY <2>1, <2>3 DEF LegalActions, Allowed
  <2>4. CASE eng.acting = s
    <3>1. LegalActions(eng, s) =
              {[type |-> "Fold", min |-> NoAmount, max |-> NoAmount],
               IF ToCall(eng, s) = 0
               THEN [type |-> "Check", min |-> NoAmount, max |-> NoAmount]
               ELSE [type |-> "Call", min |-> ToCall(eng, s), max |-> ToCall(eng, s)],
               [type |-> "RaiseTo", min |-> lowest, max |-> NoAmount],
               [type |-> "AllIn", min |-> NoAmount, max |-> NoAmount]}
      BY <2>4 DEF LegalActions
    <3> HIDE DEF lowest
    <3>2. CASE a.type \in {"Fold", "Check", "Call"}
      <4>1. inBounds <=> \E l \in LegalActions(eng, s) : l.type = a.type
        BY <3>2
      <4>2. Allowed(eng, a) <=> \E l \in LegalActions(eng, s) : l.type = a.type
        <5>1. CASE a.type = "Fold"
          BY <2>1, <2>4, <3>1, <5>1 DEF Allowed
        <5>2. CASE a.type = "Check"
          <6>1. Allowed(eng, a) <=> ToCall(eng, s) = 0
            BY <2>1, <2>4, <5>2 DEF Allowed
          <6> QED BY <3>1, <5>2, <6>1
        <5>3. CASE a.type = "Call"
          <6>1. Allowed(eng, a) <=> ToCall(eng, s) # 0
            BY <2>1, <2>4, <5>3 DEF Allowed
          <6> QED BY <3>1, <5>3, <6>1
        <5> QED BY <3>2, <5>1, <5>2, <5>3
      <4> QED BY <3>2, <4>1, <4>2
    <3>3. CASE a.type = "AllIn"
      <4>1. a.amount \in Nat
        <5>1. a.amount \in 1 .. MaxChips
          BY <2>1, <3>3, AmountsAssumption
        <5> QED BY <5>1, ChipsAssumption
      <4>2. inBounds
        BY <3>1, <3>3, <4>1 DEF NoAmount
      <4>3. Allowed(eng, a) <=> a.amount > eng.bets[s]
        BY <2>1, <2>4, <3>3 DEF Allowed
      <4> QED BY <3>3, <4>2, <4>3
    <3>4. CASE a.type = "RaiseTo"
      <4>1. a.amount \in 1 .. MaxChips /\ 2 * a.amount <= MaxChips
        BY <2>1, <3>4, AmountsAssumption DEF RaisesFit
      <4>2. inBounds <=> a.amount >= lowest
        BY <3>1, <3>4
      <4>3. Allowed(eng, a) <=> RaiseInBounds(eng, a)
        BY <2>1, <2>4, <3>4 DEF Allowed
      <4>4. RaiseInBounds(eng, a) <=> a.amount >= lowest
        <5> DEFINE x == a.amount
        <5>1. x \in Nat /\ MaxChips \in Nat /\ x <= MaxChips /\ 2 * x <= MaxChips /\ x > 0
          BY <4>1, ChipsAssumption
        <5>2. RaiseInBounds(eng, a) <=> x > eng.bets[s] /\ x > eng.bet /\ x >= eng.minRaise
          BY <2>1 DEF RaiseInBounds
        <5> HIDE DEF x
        <5>3. CASE eng.minRaise = 0
          <6>1. lowest = IF eng.bet < MaxChips THEN eng.bet + 1 ELSE eng.bet
            BY <5>3 DEF lowest, NoAmount
          <6> QED BY <2>2, <5>1, <5>2, <5>3, <6>1 DEF x
        <5>4. CASE eng.minRaise # 0
          <6>1. lowest = eng.minRaise /\ eng.minRaise > eng.bet
            BY <5>4 DEF lowest, NoAmount, RaiseOK
          <6> QED BY <2>2, <5>1, <5>2, <6>1 DEF x
        <5> QED BY <5>3, <5>4
      <4> QED BY <3>4, <4>2, <4>3, <4>4
    <3> QED BY <2>1, <3>2, <3>3, <3>4 DEF ActionType
  <2> QED BY <2>3, <2>4
<1> QED BY <1>1, <1>2, NextRaise, Invariance, PTL DEF Spec
=============================================================================
