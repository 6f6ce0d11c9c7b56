-------------------------- MODULE PokerEngineProofs --------------------------
(***************************************************************************)
(* What the operations of the rules engine preserve, for any set of seats  *)
(* and any chip values.                                                    *)
(***************************************************************************)
EXTENDS PokerEngine, TLAPS, FiniteSetTheorems, WellFoundedInduction

\* What every engine state satisfies: exactly a running hand has a seat to act,
\* no bet exceeds the bet to match, and no seat has paid more than the pot.
EngineOK(e) ==
    /\ e \in EngineState
    /\ e.status = "Running" <=> e.acting # NoSeat
    /\ e.status = "Running" => e.acting \in e.seated
    /\ e.dealtIn \subseteq e.seated
    /\ \A s \in Seat : e.bets[s] <= e.bet /\ e.contrib[s] <= e.pot

\* The seats that were dealt in and have not folded.
StillIn(e) == e.dealtIn \ e.folded

\* What a seat paid in the streets before the current one.
Stake(e, s) == e.contrib[s] - e.bets[s]

\* Every chip bet was paid, and no seat paid more in the earlier streets than a
\* seat that is still in and can still bet; at the showdown the same holds of
\* the whole hand.
MatchedOK(e) ==
    /\ \A s \in Seat : e.bets[s] <= e.contrib[s]
    /\ \A s \in StillIn(e) \ e.allIn : \A t \in StillIn(e) :
           /\ Stake(e, t) <= Stake(e, s)
           /\ e.status = "Showdown" => e.contrib[t] <= e.contrib[s]

USE SeatAssumption, ChipsAssumption, BoundAssumption
-----------------------------------------------------------------------------
(***************************************************************************)
(* Seats.                                                                  *)
(***************************************************************************)
\* A non-empty set of seats has a least element, so Min finds it.
LEMMA MinIsMember ==
    ASSUME NEW S, S \subseteq Nat, S # {}
    PROVE  Min(S) \in S /\ \A y \in S : Min(S) <= y
<1> DEFINE R == {p \in Nat \X Nat : p[1] < p[2]}
<1>1. IsWellFoundedOn(R, Nat)
  <2>1. R = OpToRel(<, Nat)
    BY Zenon DEF OpToRel
  <2> QED BY <2>1, NatLessThanWellFounded, Zenon
<1> HIDE DEF R
<1>2. PICK x \in S : \A y \in S : ~(<<y, x>> \in R)
  BY <1>1, WFMin, Zenon
<1>3. \A y \in S : x <= y
  <2>1. ASSUME NEW y \in S, y < x
        PROVE  <<y, x>> \in R
    BY <2>1, SMT DEF R
  <2>2. \A y \in S : ~(y < x)
    BY <2>1, <1>2, Zenon
  <2> QED BY <2>2, SMT
<1> QED BY <1>3, Zenon DEF Min

\* The seat after another one is one of the candidates.
LEMMA NextClockwiseIsCandidate ==
    ASSUME NEW s, NEW C, C \subseteq Seat, C # {}
    PROVE  NextClockwise(s, C) \in C
<1> DEFINE later == {c \in C : c > s}
           from == IF later # {} THEN later ELSE C
<1>1. from \subseteq C /\ from # {} /\ C \subseteq Nat
  OBVIOUS
<1>2. NextClockwise(s, C) = Min(from)
  BY Zenon DEF NextClockwise
<1> HIDE DEF from
<1> QED BY <1>1, <1>2, MinIsMember

\* Two seats or more are not none.
LEMMA SeveralIsNonEmpty ==
    ASSUME NEW S, ~(Cardinality(S) <= 1)
    PROVE  S # {}
BY FS_EmptySet, SMT
-----------------------------------------------------------------------------
(***************************************************************************)
(* A new engine, and a new hand.                                           *)
(***************************************************************************)
\* The engine starts in a good state.
LEMMA NewEngineOK == EngineOK(NewEngineState) /\ MatchedOK(NewEngineState)
<1>1. EngineOK(NewEngineState)
  BY DEF EngineOK, NewEngineState, EngineState, Chips, HandStatus, Street, NoAmount
<1>2. MatchedOK(NewEngineState)
  BY DEF MatchedOK, NewEngineState, StillIn, Stake
<1> QED BY <1>1, <1>2

\* The values a deal assigns have the right types.
LEMMA DealtFields ==
    ASSUME NEW n \in EngineState, NEW first \in Seat, NEW m \in Chips,
           NEW bs \in [Seat -> Chips], NEW dealt \in SUBSET Seat
    PROVE  [n EXCEPT !.handId = @ + 1, !.seq = 1, !.status = "Running",
                     !.street = "Preflop", !.board = 0, !.acting = first,
                     !.bet = BigBlind, !.minRaise = m, !.bets = bs, !.acted = {},
                     !.contrib = bs, !.pot = SmallBlind + BigBlind,
                     !.dealtIn = dealt] \in EngineState
<1> DEFINE id == n.handId + 1
           one == 1
           zero == 0
           none == {}
           running == "Running"
           preflop == "Preflop"
           pot == SmallBlind + BigBlind
<1>1. id \in Nat
  BY DEF EngineState
<1>2. /\ one \in 1 .. MaxSeq /\ zero \in 0 .. 5 /\ none \in SUBSET Seat
      /\ BigBlind \in Chips /\ pot \in Chips
      /\ running \in HandStatus /\ preflop \in Street
  BY DEF Chips, SmallBlind, BigBlind, HandStatus, Street
<1> SUFFICES [n EXCEPT !.handId = id, !.seq = one, !.status = running,
                       !.street = preflop, !.board = zero, !.acting = first,
                       !.bet = BigBlind, !.minRaise = m, !.bets = bs,
                       !.acted = none, !.contrib = bs, !.pot = pot,
                       !.dealtIn = dealt] \in EngineState
  OBVIOUS
<1> HIDE DEF id, one, zero, none, running, preflop, pot
<1> QED BY <1>1, <1>2 DEF EngineState

\* Dealing a hand leaves a good state, in which nothing was paid but the blinds.
LEMMA DealOK ==
    ASSUME NEW e, EngineOK(e), CanDeal(e)
    PROVE  EngineOK(Deal(e)) /\ MatchedOK(Deal(e))
<1> DEFINE n == [e EXCEPT !.handNo = DealtHandNo(e)]
           blinds == [s \in Seat |-> CASE s = SmallBlindSeat(n) -> SmallBlind
                                       [] s = BigBlindSeat(n) -> BigBlind
                                       [] OTHER -> 0]
           first == FirstToAct(n)
           minRaise == IF 2 * BigBlind <= MaxChips THEN 2 * BigBlind ELSE BigBlind
           d == [n EXCEPT !.handId = @ + 1, !.seq = 1, !.status = "Running",
                          !.street = "Preflop", !.board = 0, !.acting = first,
                          !.bet = BigBlind, !.minRaise = minRaise,
                          !.bets = blinds, !.acted = {}, !.contrib = blinds,
                          !.pot = SmallBlind + BigBlind, !.dealtIn = e.seated]
<1>1. Deal(e) = d
  BY Zenon DEF Deal
<1>2. /\ n \in EngineState /\ n.seated = e.seated /\ n.handId + 1 \in Nat
      /\ e.seated \in SUBSET Seat
  BY DEF DealtHandNo, EngineOK, EngineState
<1>3. first \in e.seated /\ first \in Seat
  <2>1. e.seated # {}
    BY SeveralIsNonEmpty, FS_EmptySet, SMT DEF CanDeal
  <2>2. first \in e.seated
    BY <1>2, <2>1, NextClockwiseIsCandidate DEF FirstToAct
  <2> QED BY <2>2, <1>2
<1>4. /\ blinds \in [Seat -> Chips]
      /\ \A s \in Seat : blinds[s] <= BigBlind
  BY DEF Chips, SmallBlind, BigBlind
<1>5. minRaise \in Chips
  BY DEF BigBlind, SmallBlind, Chips
<1> HIDE DEF n, blinds, first, minRaise
<1>6. d \in EngineState
  BY <1>2, <1>3, <1>4, <1>5, DealtFields
<1>7. /\ d.status = "Running" /\ d.acting = first /\ d.seated = e.seated
      /\ d.dealtIn = e.seated /\ d.bets = blinds /\ d.contrib = blinds
      /\ d.bet = BigBlind /\ d.pot = SmallBlind + BigBlind
  BY <1>2 DEF EngineState
<1> HIDE DEF d
<1>8. EngineOK(d)
  BY <1>2, <1>3, <1>4, <1>6, <1>7 DEF EngineOK, SmallBlind, BigBlind, Chips
<1>9. MatchedOK(d)
  <2>1. StillIn(d) \subseteq Seat
    BY <1>2, <1>7 DEF StillIn
  <2>2. \A s, t \in Seat : d.bets[s] <= d.contrib[s] /\ Stake(d, t) <= Stake(d, s)
    BY <1>4, <1>7 DEF Stake, Chips
  <2>3. d.status # "Showdown"
    BY <1>7
  <2> QED BY <2>1, <2>2, <2>3, Zenon DEF MatchedOK
<1> QED BY <1>1, <1>8, <1>9
-----------------------------------------------------------------------------
(***************************************************************************)
(* An action.                                                              *)
(***************************************************************************)
\* What the checks of apply_action establish about the chips of an action.
LEMMA AllowedAmounts ==
    ASSUME NEW e, EngineOK(e), NEW a \in PlayerAction, Allowed(e, a)
    PROVE  /\ a.seat \in Seat /\ e.status = "Running"
           /\ Target(e, a) \in Chips
           /\ Delta(e, a) \in Nat
           /\ ~MovesChips(a) => Delta(e, a) = 0
           /\ MovesChips(a) => Delta(e, a) > 0 /\ Target(e, a) = e.bets[a.seat] + Delta(e, a)
           /\ IsRaise(e, a) => /\ MovesChips(a)
                               /\ Target(e, a) > e.bet
                               /\ NextMinRaise(e.bet, Target(e, a)) \in Chips
           /\ MovesChips(a) /\ ~IsRaise(e, a) => Target(e, a) <= e.bet
<1>1. /\ a.seat \in Seat /\ a.amount \in Chips /\ a.type \in ActionType
      /\ e.bet \in Chips /\ e.bets[a.seat] \in Chips /\ e.bets[a.seat] <= e.bet
      /\ e.acting = a.seat
  BY DEF EngineOK, EngineState, PlayerAction, Allowed
<1>2. e.status = "Running"
  BY <1>1 DEF EngineOK
<1>3. Target(e, a) \in Chips
  BY <1>1 DEF Target
<1>4. MovesChips(a) => Target(e, a) > e.bets[a.seat]
  BY <1>1 DEF MovesChips, Target, Allowed, ToCall, RaiseInBounds, Chips
<1>5. /\ Delta(e, a) \in Nat
      /\ ~MovesChips(a) => Delta(e, a) = 0
      /\ MovesChips(a) => Delta(e, a) > 0 /\ Target(e, a) = e.bets[a.seat] + Delta(e, a)
  BY <1>1, <1>3, <1>4 DEF Delta, Chips
<1>6. IsRaise(e, a) => MovesChips(a) /\ Target(e, a) > e.bet
  BY DEF IsRaise, MovesChips
<1>7. Target(e, a) > e.bet => NextMinRaise(e.bet, Target(e, a)) \in Chips
  BY <1>1, <1>3 DEF NextMinRaise, Chips
<1>8. MovesChips(a) /\ ~IsRaise(e, a) => Target(e, a) <= e.bet
  BY <1>1, <1>3 DEF MovesChips, IsRaise, Target, Chips
<1> QED BY <1>1, <1>2, <1>3, <1>5, <1>6, <1>7, <1>8

\* Recording the bet, which is all that remains of an action whose addition
\* overflows, leaves a good state and touches only the betting round.
LEMMA PlaceBetOK ==
    ASSUME NEW e, EngineOK(e), NEW a \in PlayerAction, Allowed(e, a)
    PROVE  LET p == PlaceBet(e, a)
           IN  /\ EngineOK(p)
               /\ p.bets = [e.bets EXCEPT ![a.seat] = @ + Delta(e, a)]
               /\ \A f \in {"status", "street", "handNo", "handId", "seq", "acting",
                            "seated", "folded", "allIn", "acted", "pot", "contrib",
                            "board", "dealtIn"} : p[f] = e[f]
<1> DEFINE p == PlaceBet(e, a)
           t == Target(e, a)
           nb == IF IsRaise(e, a) THEN t ELSE e.bet
           nm == IF IsRaise(e, a) THEN NextMinRaise(e.bet, t) ELSE e.minRaise
<1>1. e \in EngineState
  BY DEF EngineOK
<1>2. CASE ~MovesChips(a)
  <2>1. p = e
    BY <1>2 DEF PlaceBet
  <2>2. e.bets = [e.bets EXCEPT ![a.seat] = @ + Delta(e, a)]
    <3>1. Delta(e, a) = 0 /\ a.seat \in Seat
      BY <1>2, AllowedAmounts
    <3>2. e.bets \in [Seat -> Chips]
      BY <1>1 DEF EngineState
    <3>3. \A x \in Chips : x + 0 = x
      BY DEF Chips
    <3> QED BY <3>1, <3>2, <3>3
  <2> QED BY <2>1, <2>2
<1>3. CASE MovesChips(a)
  <2> DEFINE bets == [e.bets EXCEPT ![a.seat] = t]
  <2>1. p = [e EXCEPT !.bets = bets, !.bet = nb, !.minRaise = nm]
    BY <1>1, <1>3 DEF PlaceBet, EngineState
  <2>2. /\ t \in Chips /\ nb \in Chips /\ nm \in Chips /\ a.seat \in Seat
        /\ t <= nb /\ e.bet <= nb
        /\ t = e.bets[a.seat] + Delta(e, a)
    BY <1>1, <1>3, AllowedAmounts DEF EngineState, Chips
  <2> HIDE DEF t, nb, nm
  <2>3. bets \in [Seat -> Chips]
    BY <1>1, <2>2 DEF EngineState
  <2> HIDE DEF bets, p
  <2>4. p \in EngineState
    <3>1. nb \in Chips /\ nm \in Chips /\ e \in EngineState
      BY <1>1, <2>2
    <3> QED BY <2>1, <2>3, <3>1 DEF EngineState
  <2>5. /\ p.bets = bets /\ p.bet = nb
        /\ p.status = e.status /\ p.acting = e.acting /\ p.seated = e.seated
        /\ p.contrib = e.contrib /\ p.pot = e.pot /\ p.dealtIn = e.dealtIn
    BY <1>1, <2>1 DEF EngineState
  <2>6. \A f \in {"status", "street", "handNo", "handId", "seq", "acting",
                  "seated", "folded", "allIn", "acted", "pot", "contrib",
                  "board", "dealtIn"} : p[f] = e[f]
    BY <1>1, <2>1 DEF EngineState
  <2>7. \A s \in Seat : p.bets[s] <= p.bet
    BY <1>1, <2>2, <2>5 DEF EngineOK, EngineState, Chips, bets
  <2>8. EngineOK(p)
    BY <2>4, <2>5, <2>7 DEF EngineOK
  <2> QED BY <2>2, <2>5, <2>6, <2>8 DEF p, bets
<1> QED BY <1>2, <1>3

\* A share of the pot that grows as the pot does stays a share of it
\* (main_pot.checked_add, add_contribution).
LEMMA ChipsAdd ==
    ASSUME NEW x \in Nat, NEW y \in Nat, NEW d \in Nat, x <= y, y + d <= MaxChips
    PROVE  x + d \in Chips /\ x + d <= y + d /\ x <= y + d
BY DEF Chips

\* An action that passes its checks and whose addition does not overflow leaves,
\* before the turn moves on, a good state with the stakes of earlier streets as
\* they were.
LEMMA CommitOK ==
    ASSUME NEW e, EngineOK(e), NEW a \in PlayerAction, Accepted(e, a)
    PROVE  LET c == Commit(e, a)
           IN  /\ EngineOK(c)
               /\ c.status = "Running"
               /\ c.handId = e.handId
               /\ c.pot = e.pot + Delta(e, a)
               /\ c.contrib = [e.contrib EXCEPT ![a.seat] = @ + Delta(e, a)]
               /\ MatchedOK(e) => MatchedOK(c)
<1> DEFINE p == PlaceBet(e, a)
           c == Commit(e, a)
           d == Delta(e, a)
           pot == e.pot + d
           paid == [e.contrib EXCEPT ![a.seat] = @ + d]
           folded == IF a.type = "Fold" THEN e.folded \cup {a.seat} ELSE e.folded
           allIn == AllInAfter(e, a)
           acted == ActedAfter(e, a)
           seq == IF e.seq < MaxSeq THEN e.seq + 1 ELSE e.seq
<1>1. Allowed(e, a)
  BY DEF Accepted
<1>2. /\ EngineOK(p) /\ p.status = "Running" /\ p.seq = e.seq /\ p.folded = e.folded
      /\ p.pot = e.pot /\ p.contrib = e.contrib /\ p.handId = e.handId
      /\ p.dealtIn = e.dealtIn /\ p.allIn = e.allIn
      /\ p.bets = [e.bets EXCEPT ![a.seat] = @ + d]
  BY <1>1, PlaceBetOK, AllowedAmounts
<1>3. d \in Nat /\ a.seat \in Seat /\ e \in EngineState
  BY <1>1, AllowedAmounts DEF EngineOK
<1>4. /\ \A s \in Seat : paid[s] <= pot
      /\ pot \in Chips
      /\ paid \in [Seat -> Chips]
  <2>1. /\ e.contrib \in [Seat -> Chips] /\ e.pot \in Chips
        /\ \A s \in Seat : e.contrib[s] <= e.pot
    BY DEF EngineOK, EngineState
  <2>2. e.pot + d <= MaxChips
    BY <1>3, <2>1 DEF Accepted, Overflows, Chips
  <2> HIDE DEF d
  <2>3. ASSUME NEW s \in Seat
        PROVE  e.contrib[s] + d \in Chips /\ e.contrib[s] + d <= pot
    <3>1. e.contrib[s] \in Nat /\ e.pot \in Nat /\ e.contrib[s] <= e.pot
      BY <2>1 DEF Chips
    <3> QED BY <1>3, <2>2, <3>1, ChipsAdd
  <2>4. paid \in [Seat -> Chips]
    BY <1>3, <2>1, <2>3
  <2>5. pot \in Chips
    BY <1>3, <2>1, <2>2 DEF Chips
  <2>6. ASSUME NEW s \in Seat PROVE paid[s] <= pot
    <3>1. paid[s] = e.contrib[s] + d \/ paid[s] = e.contrib[s]
      BY <1>3, <2>1
    <3>2. e.contrib[s] \in Nat /\ e.pot \in Nat /\ e.contrib[s] <= e.pot
      BY <2>1 DEF Chips
    <3> QED BY <1>3, <2>2, <3>1, <3>2, ChipsAdd
  <2> QED BY <2>4, <2>5, <2>6
<1>5. /\ folded \in SUBSET Seat /\ allIn \in SUBSET Seat /\ acted \in SUBSET Seat
      /\ seq \in 1 .. MaxSeq
      /\ e.allIn \subseteq allIn /\ e.folded \subseteq folded
  BY <1>3 DEF EngineState, AllInAfter, ActedAfter
<1>6. c = [p EXCEPT !.pot = pot, !.contrib = paid, !.folded = folded,
                    !.allIn = allIn, !.acted = acted, !.seq = seq]
  BY <1>2 DEF Commit, AddContribution, EngineOK, EngineState
<1> HIDE DEF p, c, d, pot, paid, folded, allIn, acted, seq
<1>7. c \in EngineState
  BY <1>2, <1>4, <1>5, <1>6 DEF EngineOK, EngineState
<1>8. /\ c.status = "Running" /\ c.acting = p.acting /\ c.seated = p.seated
      /\ c.dealtIn = p.dealtIn /\ c.bets = p.bets /\ c.bet = p.bet
      /\ c.contrib = paid /\ c.pot = pot /\ c.folded = folded
      /\ c.allIn = allIn /\ c.handId = e.handId
  BY <1>2, <1>6 DEF EngineOK, EngineState
<1>9. EngineOK(c)
  BY <1>2, <1>4, <1>7, <1>8 DEF EngineOK
<1>10. ASSUME MatchedOK(e) PROVE MatchedOK(c)
  <2>1. \A s \in Seat : c.bets[s] <= c.contrib[s] /\ Stake(c, s) = Stake(e, s)
    BY <1>2, <1>3, <1>8, <1>10 DEF MatchedOK, Stake, EngineState, Chips, paid
  <2>2. StillIn(c) \subseteq StillIn(e) /\ StillIn(e) \subseteq Seat /\ e.allIn \subseteq c.allIn
    BY <1>2, <1>3, <1>5, <1>8 DEF StillIn, EngineState
  <2>3. c.status # "Showdown"
    BY <1>8
  <2> QED BY <1>10, <2>1, <2>2, <2>3, Zenon DEF MatchedOK
<1> QED BY <1>8, <1>9, <1>10 DEF c, paid, pot, d
-----------------------------------------------------------------------------
(***************************************************************************)
(* The turn.                                                               *)
(***************************************************************************)
\* When the round is complete, no seat has paid more over the hand than a seat
\* that is still in and not all-in.
LEMMA RoundMatched ==
    ASSUME NEW e, EngineOK(e), MatchedOK(e), RoundComplete(e)
    PROVE  \A s \in StillIn(e) \ e.allIn : \A t \in StillIn(e) :
               e.contrib[t] <= e.contrib[s]
<1> SUFFICES ASSUME NEW s \in StillIn(e) \ e.allIn, NEW t \in StillIn(e)
             PROVE  e.contrib[t] <= e.contrib[s]
  OBVIOUS
<1>1. s \in Seat /\ t \in Seat /\ s \in ActiveSeats(e)
  BY DEF StillIn, ActiveSeats, EngineOK, EngineState
<1>2. e.bets[s] = e.bet /\ e.bets[t] <= e.bet /\ Stake(e, t) <= Stake(e, s)
  BY <1>1 DEF RoundComplete, EngineOK, MatchedOK
<1>3. /\ e.bets[s] \in Nat /\ e.bets[t] \in Nat /\ e.bet \in Nat
      /\ e.contrib[s] \in Nat /\ e.contrib[t] \in Nat
  BY <1>1 DEF EngineOK, EngineState, Chips
<1> QED BY <1>2, <1>3 DEF Stake

\* Moving on to the next street, or to the showdown.
LEMMA AdvanceStreetOK ==
    ASSUME NEW e, EngineOK(e), e.status = "Running", ActiveSeats(e) # {}
    PROVE  LET n == AdvanceStreet(e)
           IN  /\ EngineOK(n)
               /\ n.handId = e.handId /\ n.pot = e.pot /\ n.contrib = e.contrib
               /\ MatchedOK(e) /\ RoundComplete(e) => MatchedOK(n)
<1> DEFINE n == AdvanceStreet(e)
           street == NextStreet(e.street)
           board == RevealCount(street)
           next == NextClockwise(Dealer(e), ActiveSeats(e))
           noBets == [s \in Seat |-> 0]
           showdown == "Showdown"
           none == {}
           zero == 0
<1>1. /\ e \in EngineState /\ ActiveSeats(e) \subseteq e.seated /\ e.seated \subseteq Seat
  BY DEF EngineOK, EngineState, ActiveSeats
<1>2. /\ next \in e.seated /\ next \in Seat
  BY <1>1, NextClockwiseIsCandidate
<1>3. /\ street \in Street /\ board \in 0 .. 5 /\ zero \in Chips /\ none \in SUBSET Seat
      /\ noBets \in [Seat -> Chips] /\ showdown \in HandStatus
  BY DEF NextStreet, RevealCount, Street, Chips, HandStatus
<1>4. CASE street = "Showdown"
  <2>1. n = [e EXCEPT !.status = showdown, !.street = street, !.acting = NoSeat,
                      !.board = board]
    BY <1>1, <1>4 DEF AdvanceStreet, ToShowdown, EngineState
  <2> HIDE DEF street, board, showdown, n
  <2>2. n \in EngineState
    BY <1>1, <1>3, <2>1 DEF EngineState
  <2>3. /\ n.status = showdown /\ n.acting = NoSeat /\ n.seated = e.seated
        /\ n.dealtIn = e.dealtIn /\ n.bets = e.bets /\ n.bet = e.bet
        /\ n.contrib = e.contrib /\ n.pot = e.pot /\ n.folded = e.folded
        /\ n.allIn = e.allIn /\ n.handId = e.handId
    BY <1>1, <2>1 DEF EngineState
  <2>4. EngineOK(n)
    BY <2>2, <2>3 DEF EngineOK, showdown
  <2>5. ASSUME MatchedOK(e), RoundComplete(e) PROVE MatchedOK(n)
    BY <2>3, <2>5, RoundMatched DEF MatchedOK, StillIn, Stake
  <2> QED BY <2>3, <2>4, <2>5 DEF n
<1>5. CASE street # "Showdown"
  <2>1. n = [e EXCEPT !.street = street, !.board = board, !.bet = zero,
                      !.minRaise = zero, !.bets = noBets, !.acted = none,
                      !.acting = next]
    BY <1>1, <1>5 DEF AdvanceStreet, NoAmount
  <2> HIDE DEF street, board, next, noBets, none, zero, n
  <2>2. n \in EngineState
    BY <1>1, <1>2, <1>3, <2>1 DEF EngineState
  <2>3. /\ n.status = e.status /\ n.acting = next /\ n.seated = e.seated
        /\ n.dealtIn = e.dealtIn /\ n.bets = noBets /\ n.bet = 0
        /\ n.contrib = e.contrib /\ n.pot = e.pot /\ n.folded = e.folded
        /\ n.allIn = e.allIn /\ n.handId = e.handId
    BY <1>1, <2>1 DEF EngineState, zero
  <2>4. EngineOK(n)
    <3>1. \A s \in Seat : n.bets[s] <= n.bet
      BY <2>3 DEF noBets
    <3>2. \A s \in Seat : n.contrib[s] <= n.pot
      BY <2>3 DEF EngineOK
    <3>3. n.status = "Running" /\ n.acting # NoSeat /\ n.dealtIn \subseteq n.seated
      BY <1>2, <2>3 DEF EngineOK
    <3> QED BY <1>2, <2>2, <2>3, <3>1, <3>2, <3>3, Zenon DEF EngineOK
  <2>5. ASSUME MatchedOK(e), RoundComplete(e) PROVE MatchedOK(n)
    <3>1. \A x \in Chips : 0 <= x /\ x - 0 = x
      BY DEF Chips
    <3>2. \A s \in Seat : n.bets[s] = 0 /\ n.contrib[s] = e.contrib[s] /\ e.contrib[s] \in Chips
      BY <1>1, <2>3 DEF EngineState, noBets
    <3>3. \A s \in Seat : n.bets[s] <= n.contrib[s] /\ Stake(n, s) = e.contrib[s]
      BY <3>1, <3>2, Zenon DEF Stake
    <3>4. /\ StillIn(n) = StillIn(e) /\ StillIn(e) \subseteq Seat
          /\ n.status # "Showdown" /\ n.allIn = e.allIn
      BY <1>1, <2>3 DEF StillIn, EngineState
    <3>5. \A s \in StillIn(e) \ e.allIn : \A t \in StillIn(e) : e.contrib[t] <= e.contrib[s]
      BY <2>5, RoundMatched
    <3>6. \A s \in StillIn(e) \ e.allIn : \A t \in StillIn(e) : Stake(n, t) <= Stake(n, s)
      BY <3>3, <3>4, <3>5, Zenon
    <3> QED BY <3>3, <3>4, <3>6, Zenon DEF MatchedOK
  <2> QED BY <2>3, <2>4, <2>5 DEF n
<1> QED BY <1>4, <1>5

\* The turn moves on, a street ends, or the hand does: the state stays good, and
\* no chip moves.
LEMMA AdvanceTurnOK ==
    ASSUME NEW e, EngineOK(e), e.status = "Running", NEW current
    PROVE  LET n == AdvanceTurn(e, current)
           IN  /\ EngineOK(n)
               /\ n.handId = e.handId /\ n.pot = e.pot /\ n.contrib = e.contrib
               /\ MatchedOK(e) => MatchedOK(n)
<1> DEFINE n == AdvanceTurn(e, current)
<1>1. /\ e \in EngineState
      /\ ActionableSeats(e) \subseteq e.seated /\ e.seated \subseteq Seat
      /\ StillIn(e) \ e.allIn \subseteq ActionableSeats(e)
  BY DEF EngineOK, EngineState, ActionableSeats, ActiveSeats, StillIn
<1>2. CASE Cardinality(ActiveSeats(e)) <= 1
  <2> DEFINE st == "Settled"
  <2>1. n = [e EXCEPT !.status = st, !.acting = NoSeat]
    BY <1>2 DEF AdvanceTurn
  <2>2. st \in HandStatus /\ st # "Running" /\ st # "Showdown"
    BY DEF HandStatus
  <2> HIDE DEF st, n
  <2>3. n \in EngineState
    BY <1>1, <2>1, <2>2 DEF EngineState
  <2>4. /\ n.status = st /\ n.acting = NoSeat /\ n.seated = e.seated
        /\ n.dealtIn = e.dealtIn /\ n.bets = e.bets /\ n.bet = e.bet
        /\ n.contrib = e.contrib /\ n.pot = e.pot /\ n.folded = e.folded
        /\ n.allIn = e.allIn /\ n.handId = e.handId
    BY <1>1, <2>1 DEF EngineState
  <2>5. EngineOK(n)
    BY <2>2, <2>3, <2>4 DEF EngineOK
  <2>6. MatchedOK(e) => MatchedOK(n)
    BY <2>2, <2>4 DEF MatchedOK, StillIn, Stake
  <2> QED BY <2>4, <2>5, <2>6 DEF n
<1>3. CASE ~(Cardinality(ActiveSeats(e)) <= 1) /\ RoundComplete(e)
  BY <1>3, SeveralIsNonEmpty, AdvanceStreetOK DEF AdvanceTurn
<1>4. CASE /\ ~(Cardinality(ActiveSeats(e)) <= 1) /\ ~RoundComplete(e)
           /\ ActionableSeats(e) = {}
  <2> DEFINE st == "Showdown"
  <2>1. n = [e EXCEPT !.status = st, !.street = st, !.acting = NoSeat]
    BY <1>4 DEF AdvanceTurn, ToShowdown
  <2>2. st \in HandStatus /\ st \in Street /\ st # "Running"
    BY DEF HandStatus, Street
  <2> HIDE DEF st, n
  <2>3. n \in EngineState
    BY <1>1, <2>1, <2>2 DEF EngineState
  <2>4. /\ n.status = st /\ n.acting = NoSeat /\ n.seated = e.seated
        /\ n.dealtIn = e.dealtIn /\ n.bets = e.bets /\ n.bet = e.bet
        /\ n.contrib = e.contrib /\ n.pot = e.pot /\ n.folded = e.folded
        /\ n.allIn = e.allIn /\ n.handId = e.handId
    BY <1>1, <2>1 DEF EngineState
  <2>5. EngineOK(n)
    BY <2>2, <2>3, <2>4 DEF EngineOK
  <2>6. MatchedOK(e) => MatchedOK(n)
    BY <1>1, <1>4, <2>4 DEF MatchedOK, StillIn
  <2> QED BY <2>4, <2>5, <2>6 DEF n
<1>5. CASE /\ ~(Cardinality(ActiveSeats(e)) <= 1) /\ ~RoundComplete(e)
           /\ ActionableSeats(e) # {}
  <2> DEFINE next == NextClockwise(current, ActionableSeats(e))
  <2>1. n = [e EXCEPT !.acting = next]
    BY <1>5 DEF AdvanceTurn
  <2>2. next \in e.seated /\ next \in Seat
    BY <1>1, <1>5, NextClockwiseIsCandidate
  <2> HIDE DEF next, n
  <2>3. n \in EngineState
    BY <1>1, <2>1, <2>2 DEF EngineState
  <2>4. /\ n.status = e.status /\ n.acting = next /\ n.seated = e.seated
        /\ n.dealtIn = e.dealtIn /\ n.bets = e.bets /\ n.bet = e.bet
        /\ n.contrib = e.contrib /\ n.pot = e.pot /\ n.folded = e.folded
        /\ n.allIn = e.allIn /\ n.handId = e.handId
    BY <1>1, <2>1 DEF EngineState
  <2>5. EngineOK(n)
    BY <2>2, <2>3, <2>4 DEF EngineOK
  <2>6. MatchedOK(e) => MatchedOK(n)
    BY <2>4 DEF MatchedOK, StillIn, Stake
  <2> QED BY <2>4, <2>5, <2>6 DEF n
<1> QED BY <1>2, <1>3, <1>4, <1>5

\* apply_action as a whole.  An action that is not refused keeps the state good;
\* if its addition does not overflow, the chips it moves go from the seat that
\* acts into the pot, and the bets stay matched.
LEMMA ApplyActionOK ==
    ASSUME NEW e, EngineOK(e), NEW a \in PlayerAction, Allowed(e, a)
    PROVE  LET n == ApplyAction(e, a)
           IN  /\ EngineOK(n)
               /\ n.handId = e.handId
               /\ Overflows(e, a) => n.pot = e.pot /\ n.contrib = e.contrib
               /\ ~Overflows(e, a) =>
                      /\ n.pot = e.pot + Delta(e, a)
                      /\ n.contrib = [e.contrib EXCEPT ![a.seat] = @ + Delta(e, a)]
                      /\ MatchedOK(e) => MatchedOK(n)
<1>1. CASE Overflows(e, a)
  BY <1>1, PlaceBetOK DEF ApplyAction
<1>2. CASE ~Overflows(e, a)
  <2>1. ApplyAction(e, a) = AdvanceTurn(Commit(e, a), a.seat)
    BY <1>2 DEF ApplyAction
  <2>2. Accepted(e, a)
    BY <1>2 DEF Accepted
  <2> QED BY <1>2, <2>1, <2>2, CommitOK, AdvanceTurnOK
<1> QED BY <1>1, <1>2

\* The turn stays in the hand or ends its play.
LEMMA AdvanceTurnStatus ==
    ASSUME NEW e \in EngineState, e.status = "Running", NEW current
    PROVE  AdvanceTurn(e, current).status \in {"Running", "Settled", "Showdown"}
<1>1. CASE Cardinality(ActiveSeats(e)) <= 1
  BY <1>1 DEF AdvanceTurn, EngineState
<1>2. CASE ~(Cardinality(ActiveSeats(e)) <= 1) /\ RoundComplete(e)
  <2>1. AdvanceTurn(e, current) = AdvanceStreet(e)
    BY <1>2 DEF AdvanceTurn
  <2> QED BY <2>1 DEF AdvanceStreet, ToShowdown, EngineState
<1>3. CASE ~(Cardinality(ActiveSeats(e)) <= 1) /\ ~RoundComplete(e)
  BY <1>3 DEF AdvanceTurn, ToShowdown, EngineState
<1> QED BY <1>1, <1>2, <1>3

\* An action stays in the hand or ends its play.
LEMMA ApplyActionStatus ==
    ASSUME NEW e, EngineOK(e), NEW a \in PlayerAction, Allowed(e, a)
    PROVE  ApplyAction(e, a).status \in {"Running", "Settled", "Showdown"}
<1>1. e.status = "Running"
  BY AllowedAmounts
<1>2. CASE Overflows(e, a)
  BY <1>1, <1>2, PlaceBetOK DEF ApplyAction
<1>3. CASE ~Overflows(e, a)
  <2>1. ApplyAction(e, a) = AdvanceTurn(Commit(e, a), a.seat)
    BY <1>3 DEF ApplyAction
  <2>2. Commit(e, a) \in EngineState /\ Commit(e, a).status = "Running"
    BY <1>3, CommitOK DEF Accepted, EngineOK
  <2> QED BY <2>1, <2>2, AdvanceTurnStatus
<1> QED BY <1>2, <1>3
-----------------------------------------------------------------------------
(***************************************************************************)
(* Whom a round asks.                                                      *)
(***************************************************************************)
\* Clockwise from x, c is met before d; x itself is met last.
Precedes(x, c, d) == IF c > x THEN d > x => c < d ELSE d <= x /\ c < d

\* The seat to act has not acted.  Those that have acted have matched the bet, and come
\* clockwise after all that have not.
TurnOrder(e) ==
    /\ e.acting \notin e.acted
    /\ \A s \in ActiveSeats(e) \cap e.acted :
           /\ e.bets[s] = e.bet
           /\ \A t \in (ActiveSeats(e) \ e.acted) \ {e.acting} : Precedes(e.acting, t, s)

\* The same when the seat x has just acted.
ActedInOrder(e, x) ==
    /\ x \in e.acted
    /\ \A s \in ActiveSeats(e) \cap e.acted :
           /\ e.bets[s] = e.bet
           /\ s # x => \A t \in ActiveSeats(e) \ e.acted : Precedes(x, t, s)

\* The next seat clockwise precedes all other candidates.
LEMMA NextClockwiseIsFirst ==
    ASSUME NEW x \in Nat, NEW C, C \subseteq Seat, C # {}
    PROVE  \A c \in C : c # NextClockwise(x, C) => Precedes(x, NextClockwise(x, C), c)
<1> DEFINE later == {c \in C : c > x}
           from == IF later # {} THEN later ELSE C
           y == NextClockwise(x, C)
<1>1. from \subseteq C /\ from # {} /\ C \subseteq Nat
  OBVIOUS
<1>2. y = Min(from)
  BY Zenon DEF NextClockwise
<1>3. y \in from /\ \A c \in from : y <= c
  <2> HIDE DEF from, y
  <2> QED BY <1>1, <1>2, MinIsMember
<1> HIDE DEF y
<1>4. ASSUME NEW c \in C, c # y
      PROVE  Precedes(x, y, c)
  <2>1. y \in Nat /\ c \in Nat
    BY <1>1, <1>3
  <2>2. CASE later # {}
    <3>1. y > x /\ (c > x => y <= c)
      BY <1>3, <2>2
    <3> QED BY <1>4, <2>1, <3>1 DEF Precedes
  <2>3. CASE later = {}
    <3>1. ~(y > x) /\ ~(c > x) /\ y <= c
      BY <1>1, <1>3, <2>3
    <3> QED BY <1>4, <2>1, <3>1 DEF Precedes
  <2> QED BY <2>2, <2>3
<1> QED BY <1>4 DEF y

\* What is met in this order from x is met in this order from the first of them.
LEMMA OrderTurns ==
    ASSUME NEW x \in Nat, NEW y \in Nat, NEW t \in Nat, NEW s \in Nat,
           Precedes(x, y, t), Precedes(x, t, s)
    PROVE  Precedes(y, t, s)
BY DEF Precedes

\* Every other seat is met before x.
LEMMA LastIsMetLast ==
    ASSUME NEW x \in Nat, NEW t \in Nat, t # x
    PROVE  Precedes(x, t, x)
BY DEF Precedes

\* No seat is met before a seat that is met before it.
LEMMA OrderIsStrict ==
    ASSUME NEW x \in Nat, NEW t \in Nat, NEW s \in Nat, Precedes(x, t, s)
    PROVE  ~Precedes(x, s, t) /\ s # t
BY DEF Precedes

\* While the round is not complete, advance_turn finds a seat that has not acted.
LEMMA AdvanceTurnOrder ==
    ASSUME NEW e, EngineOK(e), e.status = "Running", e.allIn = {}, NEW x \in Seat,
           ActedInOrder(e, x), AdvanceTurn(e, x).status = "Running"
    PROVE  TurnOrder(AdvanceTurn(e, x))
<1> DEFINE n == AdvanceTurn(e, x)
<1>1. /\ e \in EngineState /\ ActionableSeats(e) = ActiveSeats(e)
      /\ ActiveSeats(e) \subseteq Seat /\ Seat \subseteq Nat
  BY DEF EngineOK, EngineState, ActionableSeats, ActiveSeats
<1>2. CASE Cardinality(ActiveSeats(e)) <= 1
  <2>1. n.status = "Settled"
    BY <1>1, <1>2 DEF AdvanceTurn, EngineState
  <2> QED BY <2>1
<1>3. CASE ~(Cardinality(ActiveSeats(e)) <= 1) /\ RoundComplete(e)
  <2>1. n = AdvanceStreet(e)
    BY <1>3 DEF AdvanceTurn
  <2>2. CASE NextStreet(e.street) = "Showdown"
    <3>1. n.status = "Showdown"
      BY <1>1, <2>1, <2>2 DEF AdvanceStreet, ToShowdown, EngineState
    <3> QED BY <3>1
  <2>3. CASE NextStreet(e.street) # "Showdown"
    <3>1. n.acted = {}
      BY <1>1, <2>1, <2>3 DEF AdvanceStreet, EngineState
    <3> HIDE DEF n
    <3>2. TurnOrder(n)
      BY <3>1 DEF TurnOrder
    <3> QED BY <3>2 DEF n
  <2> QED BY <2>2, <2>3
<1>4. CASE ~(Cardinality(ActiveSeats(e)) <= 1) /\ ~RoundComplete(e)
  <2> DEFINE A == ActiveSeats(e)
             y == NextClockwise(x, A)
  <2>1. PICK u \in A : u \notin e.acted
    BY <1>1, <1>4 DEF RoundComplete, ActedInOrder
  <2>2. n = [e EXCEPT !.acting = y]
    BY <1>1, <1>4, <2>1 DEF AdvanceTurn
  <2>3. y \in A /\ \A c \in A : c # y => Precedes(x, y, c)
    BY <1>1, <2>1, NextClockwiseIsCandidate, NextClockwiseIsFirst
  <2> HIDE DEF y
  <2>4. /\ n.acting = y /\ n.acted = e.acted /\ n.bets = e.bets /\ n.bet = e.bet
        /\ ActiveSeats(n) = A
    BY <1>1, <2>2 DEF EngineState, ActiveSeats
  <2>5. x \in Nat /\ y \in Nat /\ A \subseteq Nat /\ x \in e.acted
    BY <1>1, <2>3 DEF ActedInOrder
  <2> HIDE DEF A, n
  <2>6. y \notin e.acted
    <3> SUFFICES ASSUME y \in e.acted PROVE FALSE
      OBVIOUS
    <3>1. u # y /\ Precedes(x, y, u) /\ u \in Nat /\ u # x
      BY <2>1, <2>3, <2>5
    <3>2. CASE y = x
      BY <2>5, <3>1, <3>2, LastIsMetLast, OrderIsStrict
    <3>3. CASE y # x
      <4>1. Precedes(x, u, y)
        BY <2>1, <2>3, <3>3 DEF ActedInOrder, A
      <4> QED BY <2>5, <3>1, <4>1, OrderIsStrict
    <3> QED BY <3>2, <3>3
  <2>7. ASSUME NEW s \in A \cap e.acted, NEW t \in (A \ e.acted) \ {y}
        PROVE  Precedes(y, t, s)
    <3>1. s \in Nat /\ t \in Nat /\ t # x /\ Precedes(x, y, t)
      BY <2>3, <2>5, <2>7
    <3>2. Precedes(x, t, s)
      <4>1. CASE s = x
        BY <2>5, <3>1, <4>1, LastIsMetLast
      <4>2. CASE s # x
        BY <2>7, <4>2 DEF ActedInOrder, A
      <4> QED BY <4>1, <4>2
    <3> QED BY <2>5, <3>1, <3>2, OrderTurns
  <2>8. \A s \in A \cap e.acted : e.bets[s] = e.bet
    BY DEF ActedInOrder, A
  <2>9. TurnOrder(n)
    BY <2>4, <2>6, <2>7, <2>8 DEF TurnOrder
  <2> QED BY <2>9 DEF n
<1> QED BY <1>2, <1>3, <1>4

\* The betting round after an action is recorded.
LEMMA PlaceBetRound ==
    ASSUME NEW e, EngineOK(e), NEW a \in PlayerAction
    PROVE  /\ PlaceBet(e, a).bet = IF IsRaise(e, a) THEN Target(e, a) ELSE e.bet
           /\ PlaceBet(e, a).minRaise =
                  IF IsRaise(e, a) THEN NextMinRaise(e.bet, Target(e, a)) ELSE e.minRaise
<1>1. e \in EngineState
  BY DEF EngineOK
<1>2. CASE ~MovesChips(a)
  <2>1. PlaceBet(e, a) = e /\ ~IsRaise(e, a)
    BY <1>2 DEF PlaceBet, MovesChips, IsRaise
  <2> QED BY <2>1
<1>3. CASE MovesChips(a)
  <2> DEFINE t == Target(e, a)
             nb == IF IsRaise(e, a) THEN t ELSE e.bet
             nm == IF IsRaise(e, a) THEN NextMinRaise(e.bet, t) ELSE e.minRaise
             bets == [e.bets EXCEPT ![a.seat] = t]
  <2>1. PlaceBet(e, a) = [e EXCEPT !.bets = bets, !.bet = nb, !.minRaise = nm]
    BY <1>1, <1>3 DEF PlaceBet, EngineState
  <2> HIDE DEF nb, nm, bets
  <2>2. PlaceBet(e, a).bet = nb /\ PlaceBet(e, a).minRaise = nm
    BY <1>1, <2>1 DEF EngineState
  <2> QED BY <2>2 DEF nb, nm
<1> QED BY <1>2, <1>3

\* And after the whole action, before the turn moves on.
LEMMA CommitFields ==
    ASSUME NEW e, EngineOK(e), NEW a \in PlayerAction, Accepted(e, a)
    PROVE  LET c == Commit(e, a)
               p == PlaceBet(e, a)
           IN  /\ c.bets = p.bets /\ c.bet = p.bet /\ c.minRaise = p.minRaise
               /\ c.seated = e.seated /\ c.dealtIn = e.dealtIn
               /\ c.folded = IF a.type = "Fold" THEN e.folded \cup {a.seat} ELSE e.folded
               /\ c.allIn = AllInAfter(e, a) /\ c.acted = ActedAfter(e, a)
<1> DEFINE p == PlaceBet(e, a)
           c == Commit(e, a)
           pot == p.pot + Delta(e, a)
           paid == AddContribution(p.contrib, a.seat, Delta(e, a))
           folded == IF a.type = "Fold" THEN p.folded \cup {a.seat} ELSE p.folded
           allIn == AllInAfter(e, a)
           acted == ActedAfter(e, a)
           seq == IF p.seq < MaxSeq THEN p.seq + 1 ELSE p.seq
<1>1. /\ p \in EngineState /\ p.seated = e.seated /\ p.dealtIn = e.dealtIn
      /\ p.folded = e.folded
  BY PlaceBetOK DEF Accepted, EngineOK
<1>2. c = [p EXCEPT !.pot = pot, !.contrib = paid, !.folded = folded,
                    !.allIn = allIn, !.acted = acted, !.seq = seq]
  BY <1>1 DEF Commit, EngineState
<1> HIDE DEF p, c, pot, paid, folded, allIn, acted, seq
<1>3. /\ c.bets = p.bets /\ c.bet = p.bet /\ c.minRaise = p.minRaise
      /\ c.seated = p.seated /\ c.dealtIn = p.dealtIn
      /\ c.folded = folded /\ c.allIn = allIn /\ c.acted = acted
  BY <1>1, <1>2 DEF EngineState
<1> QED BY <1>1, <1>3 DEF p, c, folded, allIn, acted

\* An action that is no all-in leaves the seats that have acted in order and matched:
\* a raise asks all the others again.
LEMMA CommitOrder ==
    ASSUME NEW e, EngineOK(e), NEW a \in PlayerAction, Accepted(e, a), TurnOrder(e),
           Commit(e, a).allIn = {}
    PROVE  ActedInOrder(Commit(e, a), a.seat)
<1> DEFINE c == Commit(e, a)
           x == a.seat
           A == ActiveSeats(c)
<1>1. /\ Allowed(e, a) /\ e.acting = x /\ x \in Seat /\ e \in EngineState
      /\ e.bets \in [Seat -> Chips] /\ e.bet \in Chips /\ e.bets[x] <= e.bet
  BY AllowedAmounts DEF Accepted, Allowed, EngineOK, EngineState
<1>2. a.type \in {"Fold", "Check", "Call", "RaiseTo"}
  <2>1. AllInAfter(e, a) = {} /\ a.type \in ActionType
    BY CommitFields DEF PlayerAction
  <2> QED BY <2>1 DEF AllInAfter, ActionType
<1>3. /\ c.acted = ActedAfter(e, a) /\ c.seated = e.seated
      /\ c.folded = (IF a.type = "Fold" THEN e.folded \cup {x} ELSE e.folded)
      /\ c.bets = PlaceBet(e, a).bets /\ c.bet = PlaceBet(e, a).bet
      /\ AllInAfter(e, a) = {}
  BY CommitFields
<1>4. /\ c.bets = [e.bets EXCEPT ![x] = @ + Delta(e, a)]
      /\ c.bet = IF IsRaise(e, a) THEN Target(e, a) ELSE e.bet
  BY <1>1, <1>3, PlaceBetOK, PlaceBetRound
<1>5. A \subseteq ActiveSeats(e) /\ A \subseteq Seat /\ (a.type = "Fold" => x \notin A)
  BY <1>1, <1>3 DEF ActiveSeats, EngineState
<1>6. x \in c.acted
  BY <1>3 DEF ActedAfter
<1>7. ASSUME x \in A PROVE c.bets[x] = c.bet
  <2>1. a.type # "Fold" /\ c.bets[x] = e.bets[x] + Delta(e, a)
    BY <1>1, <1>4, <1>5, <1>7
  <2>2. CASE a.type = "Check"
    <3>1. Delta(e, a) = 0 /\ ~IsRaise(e, a) /\ ToCall(e, x) = 0
      BY <1>1, <2>2 DEF Delta, MovesChips, IsRaise, Allowed
    <3>2. e.bets[x] \in Nat /\ e.bet \in Nat
      <4>1. e.bets[x] \in Chips /\ e.bet \in Chips
        BY <1>1
      <4>2. Chips \subseteq Nat
        BY DEF Chips
      <4> QED BY <4>1, <4>2
    <3>3. e.bets[x] = e.bet
      BY <1>1, <3>1, <3>2 DEF ToCall
    <3> QED BY <1>4, <2>1, <3>1, <3>2, <3>3
  <2>3. CASE a.type = "Call" \/ a.type = "RaiseTo"
    <3>1. Target(e, a) = e.bets[x] + Delta(e, a)
      BY <1>1, <2>3, AllowedAmounts DEF MovesChips
    <3>2. a.type = "RaiseTo" => IsRaise(e, a)
      BY <1>1 DEF Allowed, RaiseInBounds, IsRaise, Target
    <3>3. a.type = "Call" => ~IsRaise(e, a) /\ Target(e, a) = e.bet
      BY DEF IsRaise, Target
    <3> QED BY <1>4, <2>1, <2>3, <3>1, <3>2, <3>3
  <2> QED BY <1>2, <2>1, <2>2, <2>3
<1>8. ASSUME NEW s \in A \cap c.acted, s # x
      PROVE  c.bets[s] = c.bet /\ \A t \in A \ c.acted : Precedes(x, t, s)
  <2>1. ~IsRaise(e, a) /\ s \in e.acted
    BY <1>3, <1>8 DEF ActedAfter
  <2>2. s \in ActiveSeats(e) \cap e.acted /\ c.bets[s] = e.bets[s] /\ c.bet = e.bet
    BY <1>1, <1>4, <1>5, <1>8, <2>1
  <2>3. A \ c.acted \subseteq (ActiveSeats(e) \ e.acted) \ {x}
    BY <1>3, <1>5, <2>1 DEF ActedAfter
  <2> QED BY <1>1, <2>2, <2>3 DEF TurnOrder
<1> QED BY <1>6, <1>7, <1>8 DEF ActedInOrder

\* apply_action as a whole: the seat it asks next has not acted.
LEMMA ApplyActionOrder ==
    ASSUME NEW e, EngineOK(e), NEW a \in PlayerAction, Accepted(e, a), TurnOrder(e),
           ApplyAction(e, a).allIn = {}, ApplyAction(e, a).status = "Running"
    PROVE  TurnOrder(ApplyAction(e, a))
<1> DEFINE c == Commit(e, a)
<1>1. ApplyAction(e, a) = AdvanceTurn(c, a.seat) /\ a.seat \in Seat
  BY AllowedAmounts DEF ApplyAction, Accepted
<1>2. EngineOK(c) /\ c.status = "Running"
  BY CommitOK
<1>3. AdvanceTurn(c, a.seat).allIn = c.allIn
  <2>1. c \in EngineState
    BY <1>2 DEF EngineOK
  <2> HIDE DEF c
  <2> QED BY <2>1 DEF AdvanceTurn, AdvanceStreet, ToShowdown, EngineState
<1>4. ActedInOrder(c, a.seat)
  BY <1>1, <1>3, CommitOrder
<1> HIDE DEF c
<1> QED BY <1>1, <1>2, <1>3, <1>4, AdvanceTurnOrder
-----------------------------------------------------------------------------
(***************************************************************************)
(* What a raise must reach.                                                *)
(***************************************************************************)
\* Doubling the blind or an amount a client names does not overflow.
RaisesFit == 2 * BigBlind <= MaxChips /\ \A x \in Amounts : 2 * x <= MaxChips

\* The least raise is above the bet to match.
RaiseOK(e) == e.minRaise # NoAmount => e.minRaise > e.bet

\* A new engine asks for no least raise, and a new hand for twice the blind.
LEMMA DealRaise ==
    ASSUME RaisesFit
    PROVE  RaiseOK(NewEngineState) /\ \A e : EngineOK(e) => RaiseOK(Deal(e))
<1>1. RaiseOK(NewEngineState)
  BY DEF RaiseOK, NewEngineState
<1>2. ASSUME NEW e, EngineOK(e) PROVE RaiseOK(Deal(e))
  <2>1. e \in EngineState
    BY <1>2 DEF EngineOK
  <2>2. Deal(e).bet = BigBlind /\ Deal(e).minRaise = 2 * BigBlind
    BY <2>1 DEF Deal, RaisesFit, EngineState
  <2> QED BY <2>2 DEF RaiseOK, BigBlind
<1> QED BY <1>1, <1>2

\* The least raise grows with the bet by the last increase.
LEMMA PlaceBetRaise ==
    ASSUME NEW e, EngineOK(e), RaiseOK(e), NEW a \in PlayerAction, Allowed(e, a),
           2 * a.amount <= MaxChips
    PROVE  RaiseOK(PlaceBet(e, a))
<1> DEFINE t == Target(e, a)
<1>1. e.bet \in Nat /\ MaxChips \in Nat
  BY DEF EngineOK, EngineState, Chips
<1>2. CASE IsRaise(e, a)
  <2>1. t = a.amount /\ t > e.bet /\ t \in Nat
    BY <1>2 DEF IsRaise, Target, PlayerAction, Chips
  <2>2. NextMinRaise(e.bet, t) > t
    BY <1>1, <2>1 DEF NextMinRaise
  <2>3. PlaceBet(e, a).bet = t /\ PlaceBet(e, a).minRaise = NextMinRaise(e.bet, t)
    BY <1>2, PlaceBetRound
  <2> QED BY <2>2, <2>3 DEF RaiseOK
<1>3. CASE ~IsRaise(e, a)
  BY <1>3, PlaceBetRound DEF RaiseOK
<1> QED BY <1>2, <1>3

\* The turn keeps the least raise, or a new street drops it.
LEMMA AdvanceTurnRaise ==
    ASSUME NEW e \in EngineState, RaiseOK(e), NEW x
    PROVE  RaiseOK(AdvanceTurn(e, x))
<1> DEFINE n == AdvanceTurn(e, x)
<1>1. (n.minRaise = e.minRaise /\ n.bet = e.bet) \/ n.minRaise = NoAmount
  BY DEF AdvanceTurn, AdvanceStreet, ToShowdown, EngineState
<1> HIDE DEF n
<1>2. RaiseOK(n)
  BY <1>1 DEF RaiseOK
<1> QED BY <1>2 DEF n

\* apply_action as a whole.
LEMMA ApplyActionRaise ==
    ASSUME NEW e, EngineOK(e), RaiseOK(e), NEW a \in PlayerAction, Allowed(e, a),
           2 * a.amount <= MaxChips
    PROVE  RaiseOK(ApplyAction(e, a))
<1>1. CASE Overflows(e, a)
  BY <1>1, PlaceBetRaise DEF ApplyAction
<1>2. CASE ~Overflows(e, a)
  <2>1. Accepted(e, a) /\ ApplyAction(e, a) = AdvanceTurn(Commit(e, a), a.seat)
    BY <1>2 DEF ApplyAction, Accepted
  <2>2. RaiseOK(Commit(e, a)) /\ Commit(e, a) \in EngineState
    <3>1. Commit(e, a) \in EngineState
      BY <2>1, CommitOK DEF EngineOK
    <3>2. /\ Commit(e, a).bet = PlaceBet(e, a).bet
          /\ Commit(e, a).minRaise = PlaceBet(e, a).minRaise
      BY <2>1, CommitFields
    <3>3. RaiseOK(PlaceBet(e, a))
      BY PlaceBetRaise
    <3> QED BY <3>1, <3>2, <3>3 DEF RaiseOK
  <2> QED BY <2>1, <2>2, AdvanceTurnRaise
<1> QED BY <1>1, <1>2
=============================================================================
