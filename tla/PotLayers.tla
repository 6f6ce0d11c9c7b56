------------------------------ MODULE PotLayers ------------------------------
(***************************************************************************)
(* The pot arithmetic of poker-engine: how the contributions of a hand are *)
(* cut into a main pot and side pots (build_pot_layers).  Contributions    *)
(* are a function from seats to chips, 0 for a seat that is absent from    *)
(* the code's HashMap.                                                     *)
(***************************************************************************)
EXTENDS Naturals, FiniteSets, FiniteSetsExt, Functions

\* The sorted, de-duplicated positive amounts the loop walks through.
Levels(contrib) == {contrib[s] : s \in DOMAIN contrib} \ {0}

\* levels[idx..]: everyone who put in at least this much.
Contributors(contrib, level) == {s \in DOMAIN contrib : contrib[s] >= level}

\* The value of `prev` when the loop reaches this level.
PrevLevel(contrib, level) == Max({0} \cup {l \in Levels(contrib) : l < level})

\* The loop breaks at the first level that has a single contributor, and the
\* number of contributors only falls as the level rises.
LayerLevels(contrib) ==
    {l \in Levels(contrib) : Cardinality(Contributors(contrib, l)) > 1}

EligibleSeatsOfAnyLevel(contrib, folded, level) == Contributors(contrib, 1) \ folded

EligibleSeats(contrib, folded, level) == Contributors(contrib, level) \ folded

PotLayer(contrib, folded, level) ==
    [amount   |-> (level - PrevLevel(contrib, level))
                      * Cardinality(Contributors(contrib, level)),
     eligible |-> EligibleSeats(contrib, folded, level),
     isMain   |-> level = Min(Levels(contrib))]

\* The layers, indexed by the level each one ends at.
BuildPotLayers(contrib, folded) ==
    [l \in LayerLevels(contrib) |-> PotLayer(contrib, folded, l)]

\* build_side_pots: the layers that are not the main pot.
BuildSidePots(contrib, folded) ==
    RestrictValues(BuildPotLayers(contrib, folded), LAMBDA layer : ~layer.isMain)
-----------------------------------------------------------------------------
(***************************************************************************)
(* What the layers are for, stated without levels: a chip can be won only  *)
(* if some other seat matched it, and a seat can win from each other seat  *)
(* at most what it put in itself.                                          *)
(***************************************************************************)
MinOf(a, b) == IF a < b THEN a ELSE b

\* The highest amount that at least two seats reached; 0 if no chip is matched.
MatchedUpTo(contrib) ==
    Max({0} \cup {contrib[s] : s \in {t \in DOMAIN contrib :
            \E u \in DOMAIN contrib \ {t} : contrib[u] >= contrib[t]}})

\* The chips of the pot that are not an uncalled excess.
Contested(contrib) ==
    SumFunction([s \in DOMAIN contrib |-> MinOf(contrib[s], MatchedUpTo(contrib))])

\* What seat s can win at most.
Claim(contrib, s) ==
    SumFunction([t \in DOMAIN contrib |->
        MinOf(contrib[t], MinOf(contrib[s], MatchedUpTo(contrib)))])

LayersFor(layers, s) ==
    RestrictValues(layers, LAMBDA layer : s \in layer.eligible)
=============================================================================
