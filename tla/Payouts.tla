------------------------------- MODULE Payouts -------------------------------
(***************************************************************************)
(* From the contributions of a hand to its settlement plan: the pot layers *)
(* of poker-engine, the winners of each layer, and the plan that the       *)
(* settlement crate builds from them.  Seats put chips in and fold in any  *)
(* order; at the showdown the hands are ranked and the plan is built.      *)
(*                                                                         *)
(* Any contributions on top of the blinds can be met at a showdown: a seat *)
(* may be all-in for any amount (for none if it was all-in in the hand     *)
(* before, which the deal does not undo), and may fold after any amount.   *)
(***************************************************************************)
EXTENDS PotLayers

CONSTANTS
    Seat,
    MaxMoney,     \* u128::MAX, where saturating_mul stops
    MaxPut,       \* bound: the chips a seat puts in
    Ranks,        \* the ranks of hands, a set of numbers
    RakeBps       \* the rake policies, in basis points

ASSUME SeatsAreNumbers == Seat \subseteq Nat /\ IsFiniteSet(Seat)
ASSUME MoneyIsNat == MaxMoney \in Nat /\ MaxPut \in Nat
ASSUME BlindsFit == MaxPut >= 2
ASSUME RanksAreNumbers == Ranks \subseteq Nat
ASSUME RakeIsAShare == \A bps \in RakeBps : bps \in Nat /\ bps <= 10000

VARIABLES contrib, folded, plan

vars == <<contrib, folded, plan>>

SatMul(a, b) == IF a * b > MaxMoney THEN MaxMoney ELSE a * b

RakeAmountFor(total, bps) == SatMul(total, bps) \div 10000

\* evaluate_showdown_for_eligible: the seats with the best of the ranked hands.
WinnerSeats(rank, eligible) ==
    {s \in eligible : \A t \in eligible : rank[t] <= rank[s]}

SplitAmountFloor(amount, winners) ==
    [s \in winners |-> amount \div Cardinality(winners)]

SplitAmountToFirst(amount, winners) ==
    [s \in winners |->
        amount \div Cardinality(winners)
        + IF \A t \in winners : s <= t THEN amount % Cardinality(winners) ELSE 0]

\* split_amount_deterministic: the lowest seats get the odd chips.
SplitAmount(amount, winners) ==
    [s \in winners |->
        amount \div Cardinality(winners)
        + IF Cardinality({t \in winners : t < s}) < amount % Cardinality(winners)
          THEN 1 ELSE 0]

\* What each seat wins before the rake.
GrossBySeat(layers, rank) ==
    LET Won(s) == {l \in DOMAIN layers : s \in WinnerSeats(rank, layers[l].eligible)}
    IN  [s \in {t \in Seat : Won(t) # {}} |->
            SumFunction([l \in Won(s) |->
                SplitAmount(layers[l].amount, WinnerSeats(rank, layers[l].eligible))[s]])]

Floor(gross, target, s) == SatMul(gross[s], target) \div SumFunction(gross)
Rem(gross, target, s) == SatMul(gross[s], target) % SumFunction(gross)

\* target.saturating_sub(floor_sum)
Extra(gross, target) ==
    LET floors == SumFunction([s \in DOMAIN gross |-> Floor(gross, target, s)])
    IN  IF floors < target THEN target - floors ELSE 0

\* The rows sorted by remainder, the largest first, then by seat.
RowsBefore(gross, target, s) ==
    {t \in DOMAIN gross :
        \/ Rem(gross, target, t) > Rem(gross, target, s)
        \/ Rem(gross, target, t) = Rem(gross, target, s) /\ t < s}

ApportionToFirst(gross, target) ==
    [s \in DOMAIN gross |-> Floor(gross, target, s)
        + IF RowsBefore(gross, target, s) = {} THEN Extra(gross, target) ELSE 0]

ApportionByWeight(gross, target) ==
    [s \in DOMAIN gross |-> Floor(gross, target, s)
        + IF Cardinality(RowsBefore(gross, target, s)) < Extra(gross, target)
          THEN 1 ELSE 0]

\* build_plan_from_pot_awards; a payout of 0 is left out.
BuildPlan(layers, rank, bps) ==
    LET gross == GrossBySeat(layers, rank)
        total == SumFunction(gross)
        rake  == RakeAmountFor(total, bps)
    IN  [status  |-> "planned", rank |-> rank, bps |-> bps, gross |-> gross,
         rake    |-> rake,
         payouts |-> RestrictValues(ApportionByWeight(gross, total - rake),
                                    LAMBDA amount : amount > 0)]

\* build_settlement_plan_from_showdown: every layer needs a hand that can win it.
Plan(rank, bps) ==
    LET layers == BuildPotLayers(contrib, folded)
    IN  IF DOMAIN layers = {} \/ \E l \in DOMAIN layers : layers[l].eligible = {}
        THEN [status |-> "refused"]
        ELSE BuildPlan(layers, rank, bps)
-----------------------------------------------------------------------------
\* The blinds are in: 1 and 2 chips (deal_new_hand_with_deck).
Init ==
    /\ \E sb \in Seat : \E bb \in Seat \ {sb} :
           contrib = [s \in Seat |-> IF s = sb THEN 1 ELSE IF s = bb THEN 2 ELSE 0]
    /\ folded = {}
    /\ plan = [status |-> "none"]

\* Chips enter the pot (add_contribution).
PutIn(s, n) ==
    /\ plan.status = "none"
    /\ s \notin folded
    /\ contrib[s] + n <= MaxPut
    /\ contrib' = [contrib EXCEPT ![s] = @ + n]
    /\ UNCHANGED <<folded, plan>>

\* The last fold but one ends the hand without a showdown.
FoldSeat(s) ==
    /\ plan.status = "none"
    /\ s \notin folded
    /\ Cardinality(Seat \ folded) > 2
    /\ folded' = folded \cup {s}
    /\ UNCHANGED <<contrib, plan>>

Settle(rank, bps) ==
    /\ plan.status = "none"
    /\ plan' = Plan(rank, bps)
    /\ UNCHANGED <<contrib, folded>>

Next ==
    \/ \E s \in Seat : FoldSeat(s) \/ \E n \in 1 .. MaxPut : PutIn(s, n)
    \/ \E rank \in [Seat -> Ranks] : \E bps \in RakeBps : Settle(rank, bps)

Spec == Init /\ [][Next]_vars
-----------------------------------------------------------------------------
Planned == plan.status = "planned"
PaidTo(s) == IF s \in DOMAIN plan.payouts THEN plan.payouts[s] ELSE 0
GrossOf(s) == IF s \in DOMAIN plan.gross THEN plan.gross[s] ELSE 0
NotFolded == Seat \ folded

\* The payouts and the rake of a plan are exactly the chips that some other seat
\* matched: two roundings, over layers with different winners, neither make nor
\* lose a chip (split_amount_deterministic, apportion_by_weight).
PlanConserves ==
    Planned => SumFunction(plan.payouts) + plan.rake = Contested(contrib)

\* After the rake every winner is within one chip of its exact share, and the one
\* who won more before the rake is not paid less (apportion_by_weight).
SharesAreFair ==
    Planned =>
        LET total == SumFunction(plan.gross)
        IN  \A s \in Seat :
                /\ PaidTo(s) * total < GrossOf(s) * (total - plan.rake) + total
                /\ GrossOf(s) * (total - plan.rake) < PaidTo(s) * total + total
                /\ \A t \in Seat : GrossOf(s) > GrossOf(t) => PaidTo(s) >= PaidTo(t)

\* Before the rake no seat wins more than the pot owes it at best, from each other
\* seat as much as it put in itself, and a seat whose hand beats all others wins
\* exactly that; a seat that folded wins nothing (build_pot_layers with
\* evaluate_showdown_for_eligible).
WinsUpToItsClaim ==
    Planned =>
        /\ \A s \in folded : GrossOf(s) = 0
        /\ \A s \in NotFolded :
               /\ GrossOf(s) <= Claim(contrib, s)
               /\ (\A t \in NotFolded \ {s} : plan.rank[t] < plan.rank[s]) =>
                      GrossOf(s) = Claim(contrib, s)

\* Seats with equal hands that put in the same win the same, up to one odd chip in
\* each layer (split_amount_deterministic).
EqualHandsWinEqually ==
    Planned => \A s, t \in NotFolded :
        plan.rank[s] = plan.rank[t] /\ contrib[s] = contrib[t] =>
            GrossOf(s) <= GrossOf(t) + Cardinality(LayerLevels(contrib))
-----------------------------------------------------------------------------
(***************************************************************************)
(* Statements of the repository's tests and documents.                     *)
(***************************************************************************)
\* "扣除 3% rake，生成结算计划" after the showdown: a showdown in which every seat
\* still in has paid gets a plan (build_settlement_plan_from_showdown).
ShowdownIsPlanned ==
    (\A s \in NotFolded : contrib[s] > 0) => plan.status # "refused"
=============================================================================
