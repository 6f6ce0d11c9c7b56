---------------------------- MODULE PayoutsProofs ----------------------------
(***************************************************************************)
(* The theorems about settlement plans, for any finite set of seats, any   *)
(* contributions, folds and ranks of hands, and any rake up to 10000 basis *)
(* points: every plan pays out what the layers hold, within the claims of  *)
(* the seats, and in the shares of their winnings.                         *)
(***************************************************************************)
EXTENDS Payouts, FiniteSetTheorems, TLAPS

USE Zenon
-----------------------------------------------------------------------------
(***************************************************************************)
(* Sums.  The induction is over finite sets, with the sets for which the   *)
(* claim holds collected in a set of sets.                                 *)
(***************************************************************************)
LEMMA FiniteInduction ==
    ASSUME NEW D, IsFiniteSet(D), NEW Good,
           \A T \in SUBSET D : (\A x \in T : T \ {x} \in Good) => T \in Good
    PROVE  D \in Good
<1> SUFFICES ASSUME D \notin Good PROVE FALSE
  OBVIOUS
<1> DEFINE Bad == {T \in SUBSET D : T \notin Good}
<1>1. Bad # {} /\ Bad \subseteq SUBSET D
  OBVIOUS
<1>2. IsWellFoundedOn(StrictSubsetOrdering(D), SUBSET D)
  <2>1. FiniteSubsetsOf(D) = SUBSET D
    BY FS_FiniteSubsetsOfFinite
  <2>2. IsWellFoundedOn(StrictSubsetOrdering(D), FiniteSubsetsOf(D))
    BY FS_StrictSubsetOrderingWellFounded
  <2> QED BY <2>1, <2>2
<1> HIDE DEF Bad
<1>3. PICK T \in Bad : \A U \in Bad : <<U, T>> \notin StrictSubsetOrdering(D)
  BY <1>1, <1>2, WFMin
<1>4. ASSUME NEW x \in T, T \ {x} \notin Good
      PROVE  FALSE
  <2>1. T \ {x} \in Bad
    BY <1>4, <1>1, <1>3 DEF Bad
  <2>2. T \in SUBSET D /\ T \ {x} \in SUBSET D /\ T \ {x} \subseteq T /\ T \ {x} # T
    BY <1>1, <1>3, SMT
  <2>3. <<T \ {x}, T>> \in StrictSubsetOrdering(D)
    BY <2>2, SMT DEF StrictSubsetOrdering
  <2> QED BY <1>3, <2>1, <2>3
<1>5. T \in SUBSET D /\ T \notin Good
  BY <1>3 DEF Bad
<1> QED BY <1>4, <1>5

\* The element the fold takes next.
Taken(S) == CHOOSE x \in S : TRUE

\* What the fold of SumFunctionOnSet computes for the sets of a family Q.
FoldOn(it, f, Q) ==
    it = [S \in Q |-> IF S = {} THEN 0 ELSE f[Taken(S)] + it[S \ {Taken(S)}]]

\* The fold takes a member.
LEMMA TakenIsIn ==
    ASSUME NEW S, S # {}
    PROVE  Taken(S) \in S
BY DEF Taken

\* A sum is the value of a solution of the recursion, if there is one.
LEMMA SumIsFold ==
    ASSUME NEW f, NEW D, \E it : FoldOn(it, f, SUBSET D)
    PROVE  \E it : FoldOn(it, f, SUBSET D) /\ SumFunctionOnSet(f, D) = it[D]
<1> DEFINE it == CHOOSE h : FoldOn(h, f, SUBSET D)
<1>1. FoldOn(it, f, SUBSET D)
  OBVIOUS
<1>2. SumFunctionOnSet(f, D) = it[D]
  BY DEF SumFunctionOnSet, FoldFunctionOnSet, MapThenFoldSet, FoldOn, Taken
<1> QED BY <1>1, <1>2

\* One member less is one less.
LEMMA OneLess ==
    ASSUME NEW S, IsFiniteSet(S), NEW x \in S
    PROVE  /\ IsFiniteSet(S \ {x}) /\ Cardinality(S \ {x}) = Cardinality(S) - 1
           /\ Cardinality(S) \in Nat /\ Cardinality(S) > 0
<1>1. Cardinality(S) \in Nat /\ Cardinality(S \ {x}) \in Nat /\ IsFiniteSet(S \ {x})
  BY FS_CardinalityType, FS_RemoveElement
<1>2. Cardinality(S \ {x}) = Cardinality(S) - 1
  BY FS_RemoveElement
<1> QED BY <1>1, <1>2, SMT

\* The recursion of the fold has a solution on the subsets of a finite set: on the
\* sets of at most n members it is computed from the solution for n - 1.
LEMMA FoldExists ==
    ASSUME NEW f, NEW D, IsFiniteSet(D)
    PROVE  \E it : FoldOn(it, f, SUBSET D)
<1> DEFINE UpTo(n) == {S \in SUBSET D : Cardinality(S) <= n}
           Good == {T \in SUBSET D : \E it : FoldOn(it, f, UpTo(Cardinality(T)))}
<1>1. ASSUME NEW T \in SUBSET D, \A x \in T : T \ {x} \in Good
      PROVE  T \in Good
  <2>0. IsFiniteSet(T) /\ Cardinality(T) \in Nat
    BY FS_Subset, FS_CardinalityType
  <2>1. CASE T = {}
    <3> DEFINE g == [S \in UpTo(0) |-> 0]
    <3>1. \A S \in UpTo(0) : S = {}
      <4> SUFFICES ASSUME NEW S \in SUBSET D, Cardinality(S) <= 0 PROVE S = {}
        OBVIOUS
      <4>1. IsFiniteSet(S) /\ Cardinality(S) \in Nat
        BY FS_Subset, FS_CardinalityType
      <4>2. Cardinality(S) = 0
        BY <4>1, SMT
      <4> QED BY <4>1, <4>2, FS_EmptySet
    <3>2. FoldOn(g, f, UpTo(0))
      <4> HIDE DEF UpTo
      <4> QED BY <3>1 DEF FoldOn
    <3>3. Cardinality(T) = 0
      BY <2>1, FS_EmptySet
    <3> QED BY <3>2, <3>3
  <2>2. ASSUME NEW x \in T
        PROVE  T \in Good
    <3> DEFINE n == Cardinality(T)
    <3>1. Cardinality(T \ {x}) = n - 1 /\ T \ {x} \in Good
      BY <1>1, <2>0, OneLess
    <3>2. PICK g : FoldOn(g, f, UpTo(n - 1))
      BY <3>1, SMT
    <3> DEFINE h == [S \in UpTo(n) |-> IF S = {} THEN 0 ELSE f[Taken(S)] + g[S \ {Taken(S)}]]
    <3>3. ASSUME NEW S \in UpTo(n), S # {}
          PROVE  S \ {Taken(S)} \in UpTo(n - 1) /\ S \ {Taken(S)} \in UpTo(n)
      <4>1. IsFiniteSet(S) /\ Taken(S) \in S /\ Cardinality(S) <= n /\ n \in Nat
        BY <2>0, <3>3, FS_Subset, TakenIsIn
      <4>2. Cardinality(S \ {Taken(S)}) = Cardinality(S) - 1 /\ Cardinality(S) \in Nat
        BY <4>1, OneLess
      <4>3. Cardinality(S \ {Taken(S)}) <= n - 1 /\ Cardinality(S \ {Taken(S)}) <= n
        BY <4>1, <4>2, SMT
      <4> QED BY <4>3
    <3> HIDE DEF UpTo, n
    <3>4. \A S \in UpTo(n) : S \in UpTo(n - 1) => g[S] = h[S]
      BY <3>2 DEF FoldOn
    <3>5. FoldOn(h, f, UpTo(n))
      BY <3>3, <3>4 DEF FoldOn
    <3> QED BY <3>5 DEF n
  <2> QED BY <2>1, <2>2
<1> HIDE DEF Good
<1>2. D \in Good
  BY <1>1, FiniteInduction
<1>3. UpTo(Cardinality(D)) = SUBSET D
  BY FS_Subset
<1> HIDE DEF UpTo
<1> QED BY <1>2, <1>3, SMT DEF Good

\* Two folds of f, one over the subsets of D and one over those of a part C of it.
TwoFolds(g, h, f, C, D) ==
    /\ C \subseteq D /\ IsFiniteSet(C)
    /\ FoldOn(g, f, SUBSET D) /\ FoldOn(h, f, SUBSET C)

\* Solutions for a set and for a larger one agree on it.
LEMMA FoldsAgree ==
    ASSUME NEW f, NEW C, NEW D, NEW g, NEW h, TwoFolds(g, h, f, C, D)
    PROVE  g[C] = h[C]
<1>0. /\ C \subseteq D /\ IsFiniteSet(C)
      /\ FoldOn(g, f, SUBSET D) /\ FoldOn(h, f, SUBSET C)
  BY DEF TwoFolds
<1> DEFINE Good == {T \in SUBSET C : g[T] = h[T]}
<1>1. ASSUME NEW T \in SUBSET C, \A x \in T : T \ {x} \in Good
      PROVE  T \in Good
  <2>1. T \in SUBSET C /\ T \in SUBSET D
    BY <1>0
  <2>2. /\ g[T] = IF T = {} THEN 0 ELSE f[Taken(T)] + g[T \ {Taken(T)}]
        /\ h[T] = IF T = {} THEN 0 ELSE f[Taken(T)] + h[T \ {Taken(T)}]
    BY <1>0, <2>1 DEF FoldOn
  <2>3. T # {} => g[T \ {Taken(T)}] = h[T \ {Taken(T)}]
    BY <1>1, TakenIsIn
  <2> QED BY <2>2, <2>3
<1> HIDE DEF Good
<1>2. C \in Good
  BY <1>0, <1>1, FiniteInduction
<1> QED BY <1>2 DEF Good

\* The sum of nothing is 0, and a sum is the value at the member the fold takes
\* and the sum of the others.
LEMMA SumUnfolds ==
    ASSUME NEW f, NEW D, IsFiniteSet(D)
    PROVE  SumFunctionOnSet(f, D) =
               IF D = {} THEN 0 ELSE f[Taken(D)] + SumFunctionOnSet(f, D \ {Taken(D)})
<1> DEFINE C == D \ {Taken(D)}
<1>1. PICK g : FoldOn(g, f, SUBSET D) /\ SumFunctionOnSet(f, D) = g[D]
  BY FoldExists, SumIsFold
<1>2. IsFiniteSet(C) /\ C \subseteq D /\ D \in SUBSET D
  BY FS_Subset
<1>3. g[D] = IF D = {} THEN 0 ELSE f[Taken(D)] + g[C]
  BY <1>1, <1>2 DEF FoldOn
<1> HIDE DEF C
<1>4. PICK h : FoldOn(h, f, SUBSET C) /\ SumFunctionOnSet(f, C) = h[C]
  BY <1>2, FoldExists, SumIsFold
<1>5. g[C] = h[C]
  <2>1. TwoFolds(g, h, f, C, D)
    BY <1>1, <1>2, <1>4 DEF TwoFolds
  <2> QED BY ONLY <2>1, FoldsAgree, SMT
<1> QED BY <1>1, <1>3, <1>4, <1>5 DEF C

\* The sum of nothing is 0.
LEMMA SumEmpty ==
    ASSUME NEW f
    PROVE  SumFunctionOnSet(f, {}) = 0
BY FS_EmptySet, SumUnfolds

\* A sum of natural numbers is one.
LEMMA SumNat ==
    ASSUME NEW f, NEW D, IsFiniteSet(D), \A x \in D : f[x] \in Nat
    PROVE  SumFunctionOnSet(f, D) \in Nat
<1> DEFINE Good == {T \in SUBSET D : SumFunctionOnSet(f, T) \in Nat}
<1>1. ASSUME NEW T \in SUBSET D, \A x \in T : T \ {x} \in Good
      PROVE  T \in Good
  <2>1. IsFiniteSet(T)
    BY FS_Subset
  <2>2. CASE T = {}
    BY <2>2, SumEmpty, SMT
  <2>3. CASE T # {}
    <3>1. /\ SumFunctionOnSet(f, T) = f[Taken(T)] + SumFunctionOnSet(f, T \ {Taken(T)})
          /\ Taken(T) \in T
      BY <2>1, <2>3, SumUnfolds, TakenIsIn
    <3>2. f[Taken(T)] \in Nat /\ SumFunctionOnSet(f, T \ {Taken(T)}) \in Nat
      BY <1>1, <3>1
    <3>3. SumFunctionOnSet(f, T) \in Nat
      BY <3>1, <3>2, SMT
    <3> QED BY <3>3
  <2> QED BY <2>2, <2>3
<1> HIDE DEF Good
<1>2. D \in Good
  BY <1>1, FiniteInduction
<1> QED BY <1>2 DEF Good

\* The order in which the values are added does not matter: any of them can be
\* taken first.
LEMMA SumRemove ==
    ASSUME NEW f, NEW D, IsFiniteSet(D), \A x \in D : f[x] \in Nat
    PROVE  \A x \in D : SumFunctionOnSet(f, D) = f[x] + SumFunctionOnSet(f, D \ {x})
<1> DEFINE Sum(T) == SumFunctionOnSet(f, T)
           Good == {T \in SUBSET D : \A y \in T : Sum(T) = f[y] + Sum(T \ {y})}
<1>1. ASSUME NEW T \in SUBSET D, \A y \in T : T \ {y} \in Good
      PROVE  T \in Good
  <2>1. IsFiniteSet(T)
    BY FS_Subset
  <2>2. ASSUME NEW y \in T
        PROVE  Sum(T) = f[y] + Sum(T \ {y})
    <3> DEFINE z == Taken(T)
    <3>1. z \in T /\ Sum(T) = f[z] + Sum(T \ {z})
      BY <2>1, TakenIsIn, SumUnfolds
    <3> HIDE DEF z
    <3>2. CASE y # z
      <4>1. /\ y \in T \ {z} /\ z \in T \ {y} /\ T \ {z} \in Good /\ T \ {y} \in Good
            /\ (T \ {z}) \ {y} = (T \ {y}) \ {z}
        BY <1>1, <2>2, <3>1, <3>2
      <4>2. /\ Sum(T \ {z}) = f[y] + Sum((T \ {z}) \ {y})
            /\ Sum(T \ {y}) = f[z] + Sum((T \ {y}) \ {z})
        BY <4>1
      <4>3. f[y] \in Nat /\ f[z] \in Nat /\ y \in D /\ z \in D
        BY <3>1
      <4>4. Sum((T \ {z}) \ {y}) \in Nat
        <5>1. IsFiniteSet((T \ {z}) \ {y}) /\ \A v \in (T \ {z}) \ {y} : f[v] \in Nat
          BY <2>1, FS_Subset
        <5> QED BY <5>1, SumNat
      <4> QED
        <5> HIDE DEF Sum
        <5>1. Sum((T \ {z}) \ {y}) = Sum((T \ {y}) \ {z})
          BY <4>1
        <5> QED BY <3>1, <4>2, <4>3, <4>4, <5>1, SMT
    <3> QED BY <3>1, <3>2
  <2> QED BY <2>2
<1> HIDE DEF Good
<1>2. D \in Good
  BY <1>1, FiniteInduction
<1> QED BY <1>2 DEF Good

\* Equal values have equal sums.
LEMMA SumSame ==
    ASSUME NEW f, NEW g, NEW D, IsFiniteSet(D), \A x \in D : f[x] = g[x]
    PROVE  SumFunctionOnSet(f, D) = SumFunctionOnSet(g, D)
<1> DEFINE Good == {T \in SUBSET D : SumFunctionOnSet(f, T) = SumFunctionOnSet(g, T)}
<1>1. ASSUME NEW T \in SUBSET D, \A x \in T : T \ {x} \in Good
      PROVE  T \in Good
  <2>1. IsFiniteSet(T)
    BY FS_Subset
  <2>2. T # {} => /\ f[Taken(T)] = g[Taken(T)]
                  /\ SumFunctionOnSet(f, T \ {Taken(T)}) = SumFunctionOnSet(g, T \ {Taken(T)})
    BY <1>1, TakenIsIn
  <2>3. /\ SumFunctionOnSet(f, T) =
               IF T = {} THEN 0 ELSE f[Taken(T)] + SumFunctionOnSet(f, T \ {Taken(T)})
        /\ SumFunctionOnSet(g, T) =
               IF T = {} THEN 0 ELSE g[Taken(T)] + SumFunctionOnSet(g, T \ {Taken(T)})
    BY <2>1, SumUnfolds
  <2>4. SumFunctionOnSet(f, T) = SumFunctionOnSet(g, T)
    BY <2>2, <2>3
  <2> QED BY <2>4
<1> HIDE DEF Good
<1>2. D \in Good
  BY <1>1, FiniteInduction
<1> QED BY <1>2 DEF Good

\* One step of the inductions below.
LEMMA SumStep ==
    ASSUME NEW f, NEW D, IsFiniteSet(D), \A y \in D : f[y] \in Nat,
           NEW T \in SUBSET D, NEW x \in T
    PROVE  /\ SumFunctionOnSet(f, T) = f[x] + SumFunctionOnSet(f, T \ {x})
           /\ SumFunctionOnSet(f, T \ {x}) \in Nat /\ f[x] \in Nat
<1>1. IsFiniteSet(T) /\ IsFiniteSet(T \ {x})
  BY FS_Subset, FS_RemoveElement
<1>2. (\A y \in T : f[y] \in Nat) /\ (\A y \in T \ {x} : f[y] \in Nat)
  OBVIOUS
<1>3. \A y \in T : SumFunctionOnSet(f, T) = f[y] + SumFunctionOnSet(f, T \ {y})
  BY ONLY <1>1, <1>2, SumRemove, SMT
<1>4. SumFunctionOnSet(f, T \ {x}) \in Nat
  BY <1>1, <1>2, SumNat
<1> QED BY <1>3, <1>4

\* The sum of sums, value by value.
LEMMA SumAdd ==
    ASSUME NEW f, NEW g, NEW h, NEW D, IsFiniteSet(D),
           \A x \in D : f[x] \in Nat /\ g[x] \in Nat /\ h[x] = f[x] + g[x]
    PROVE  SumFunctionOnSet(h, D) = SumFunctionOnSet(f, D) + SumFunctionOnSet(g, D)
<1> DEFINE Good == {T \in SUBSET D :
              SumFunctionOnSet(h, T) = SumFunctionOnSet(f, T) + SumFunctionOnSet(g, T)}
<1>1. (\A x \in D : f[x] \in Nat) /\ (\A x \in D : g[x] \in Nat) /\ (\A x \in D : h[x] \in Nat)
  BY SMT
<1>2. ASSUME NEW T \in SUBSET D, \A x \in T : T \ {x} \in Good
      PROVE  T \in Good
  <2>1. CASE T = {}
    <3>1. SumFunctionOnSet(h, {}) = SumFunctionOnSet(f, {}) + SumFunctionOnSet(g, {})
      BY SumEmpty, FS_EmptySet, SMT
    <3> QED BY <2>1, <3>1
  <2>2. ASSUME NEW x \in T
        PROVE  T \in Good
    <3>1. /\ SumFunctionOnSet(f, T) = f[x] + SumFunctionOnSet(f, T \ {x})
          /\ SumFunctionOnSet(f, T \ {x}) \in Nat /\ f[x] \in Nat
      BY <1>1, SumStep
    <3>2. /\ SumFunctionOnSet(g, T) = g[x] + SumFunctionOnSet(g, T \ {x})
          /\ SumFunctionOnSet(g, T \ {x}) \in Nat /\ g[x] \in Nat
      BY <1>1, SumStep
    <3>3. /\ SumFunctionOnSet(h, T) = h[x] + SumFunctionOnSet(h, T \ {x})
          /\ SumFunctionOnSet(h, T \ {x}) \in Nat /\ h[x] \in Nat
      BY <1>1, SumStep
    <3>4. /\ SumFunctionOnSet(h, T \ {x}) = SumFunctionOnSet(f, T \ {x}) + SumFunctionOnSet(g, T \ {x})
          /\ h[x] = f[x] + g[x]
      BY <1>2
    <3>5. SumFunctionOnSet(h, T) = SumFunctionOnSet(f, T) + SumFunctionOnSet(g, T)
      BY <3>1, <3>2, <3>3, <3>4, SMT
    <3> QED BY <3>5
  <2> QED BY <2>1, <2>2
<1> HIDE DEF Good
<1>3. D \in Good
  BY <1>2, FiniteInduction
<1> QED BY <1>3 DEF Good

\* A common factor can be taken out.
LEMMA SumScale ==
    ASSUME NEW f, NEW h, NEW D, IsFiniteSet(D), NEW c \in Nat,
           \A x \in D : f[x] \in Nat /\ h[x] = f[x] * c
    PROVE  SumFunctionOnSet(h, D) = SumFunctionOnSet(f, D) * c
<1> DEFINE Good == {T \in SUBSET D :
              SumFunctionOnSet(h, T) = SumFunctionOnSet(f, T) * c}
<1>1. (\A x \in D : f[x] \in Nat) /\ (\A x \in D : h[x] \in Nat)
  BY SMT
<1>2. ASSUME NEW T \in SUBSET D, \A x \in T : T \ {x} \in Good
      PROVE  T \in Good
  <2>1. CASE T = {}
    <3>1. SumFunctionOnSet(h, {}) = SumFunctionOnSet(f, {}) * c
      BY SumEmpty, FS_EmptySet, SMT
    <3> QED BY <2>1, <3>1
  <2>2. ASSUME NEW x \in T
        PROVE  T \in Good
    <3>1. /\ SumFunctionOnSet(f, T) = f[x] + SumFunctionOnSet(f, T \ {x})
          /\ SumFunctionOnSet(f, T \ {x}) \in Nat /\ f[x] \in Nat
      BY <1>1, SumStep
    <3>2. /\ SumFunctionOnSet(h, T) = h[x] + SumFunctionOnSet(h, T \ {x})
          /\ SumFunctionOnSet(h, T \ {x}) \in Nat /\ h[x] \in Nat
      BY <1>1, SumStep
    <3>3. /\ SumFunctionOnSet(h, T \ {x}) = SumFunctionOnSet(f, T \ {x}) * c
          /\ h[x] = f[x] * c
      BY <1>2
    <3>4. SumFunctionOnSet(h, T) = SumFunctionOnSet(f, T) * c
      BY <3>1, <3>2, <3>3, SMT
    <3> QED BY <3>4
  <2> QED BY <2>1, <2>2
<1> HIDE DEF Good
<1>3. D \in Good
  BY <1>2, FiniteInduction
<1> QED BY <1>3 DEF Good

\* If no value exceeds another by more than c, the sums differ by at most c for
\* each of the values.
LEMMA SumBound ==
    ASSUME NEW f, NEW g, NEW D, IsFiniteSet(D), NEW c \in Nat,
           \A x \in D : f[x] \in Nat /\ g[x] \in Nat /\ f[x] <= g[x] + c
    PROVE  SumFunctionOnSet(f, D) <= SumFunctionOnSet(g, D) + Cardinality(D) * c
<1> DEFINE Good == {T \in SUBSET D :
              SumFunctionOnSet(f, T) <= SumFunctionOnSet(g, T) + Cardinality(T) * c}
<1>1. (\A x \in D : f[x] \in Nat) /\ (\A x \in D : g[x] \in Nat)
  BY SMT
<1>2. ASSUME NEW T \in SUBSET D, \A x \in T : T \ {x} \in Good
      PROVE  T \in Good
  <2>1. CASE T = {}
    <3>1. SumFunctionOnSet(f, {}) <= SumFunctionOnSet(g, {}) + Cardinality({}) * c
      BY SumEmpty, FS_EmptySet, SMT
    <3> QED BY <2>1, <3>1
  <2>2. ASSUME NEW x \in T
        PROVE  T \in Good
    <3>1. /\ SumFunctionOnSet(f, T) = f[x] + SumFunctionOnSet(f, T \ {x})
          /\ SumFunctionOnSet(f, T \ {x}) \in Nat /\ f[x] \in Nat
      BY <1>1, SumStep
    <3>2. /\ SumFunctionOnSet(g, T) = g[x] + SumFunctionOnSet(g, T \ {x})
          /\ SumFunctionOnSet(g, T \ {x}) \in Nat /\ g[x] \in Nat
      BY <1>1, SumStep
    <3>3. /\ SumFunctionOnSet(f, T \ {x}) <= SumFunctionOnSet(g, T \ {x}) + Cardinality(T \ {x}) * c
          /\ f[x] <= g[x] + c
      BY <1>2
    <3>4. Cardinality(T \ {x}) = Cardinality(T) - 1 /\ Cardinality(T) \in Nat
      BY FS_Subset, OneLess
    <3>5. SumFunctionOnSet(f, T) <= SumFunctionOnSet(g, T) + Cardinality(T) * c
      BY <3>1, <3>2, <3>3, <3>4, SMT
    <3> QED BY <3>5
  <2> QED BY <2>1, <2>2
<1> HIDE DEF Good
<1>3. D \in Good
  BY <1>2, FiniteInduction
<1> QED BY <1>3 DEF Good

\* Equal values add up to their number times the value.
LEMMA SumConst ==
    ASSUME NEW f, NEW D, IsFiniteSet(D), NEW c \in Nat, \A x \in D : f[x] = c
    PROVE  SumFunctionOnSet(f, D) = Cardinality(D) * c
<1> DEFINE Good == {T \in SUBSET D :
              SumFunctionOnSet(f, T) = Cardinality(T) * c}
<1>1. (\A x \in D : f[x] \in Nat)
  BY SMT
<1>2. ASSUME NEW T \in SUBSET D, \A x \in T : T \ {x} \in Good
      PROVE  T \in Good
  <2>1. CASE T = {}
    <3>1. SumFunctionOnSet(f, {}) = Cardinality({}) * c
      BY SumEmpty, FS_EmptySet, SMT
    <3> QED BY <2>1, <3>1
  <2>2. ASSUME NEW x \in T
        PROVE  T \in Good
    <3>1. /\ SumFunctionOnSet(f, T) = f[x] + SumFunctionOnSet(f, T \ {x})
          /\ SumFunctionOnSet(f, T \ {x}) \in Nat /\ f[x] \in Nat
      BY <1>1, SumStep
    <3>2. /\ SumFunctionOnSet(f, T \ {x}) = Cardinality(T \ {x}) * c
          /\ f[x] = c
      BY <1>2
    <3>3. Cardinality(T \ {x}) = Cardinality(T) - 1 /\ Cardinality(T) \in Nat
      BY FS_Subset, OneLess
    <3>4. SumFunctionOnSet(f, T) = Cardinality(T) * c
      BY <3>1, <3>2, <3>3, SMT
    <3> QED BY <3>4
  <2> QED BY <2>1, <2>2
<1> HIDE DEF Good
<1>3. D \in Good
  BY <1>2, FiniteInduction
<1> QED BY <1>3 DEF Good

\* What is 0 can be left out.
LEMMA SumSubset ==
    ASSUME NEW f, NEW D, IsFiniteSet(D), \A x \in D : f[x] \in Nat,
           NEW E, E \subseteq D, \A x \in D \ E : f[x] = 0
    PROVE  SumFunctionOnSet(f, D) = SumFunctionOnSet(f, E)
<1> DEFINE Good == {T \in SUBSET D : SumFunctionOnSet(f, T) = SumFunctionOnSet(f, T \cap E)}
<1>1. ASSUME NEW T \in SUBSET D, \A x \in T : T \ {x} \in Good
      PROVE  T \in Good
  <2>1. CASE T = {}
    <3>1. T \cap E = T
      BY <2>1
    <3> QED BY <3>1
  <2>2. ASSUME NEW x \in T
        PROVE  T \in Good
    <3>1. /\ SumFunctionOnSet(f, T) = f[x] + SumFunctionOnSet(f, T \ {x})
          /\ SumFunctionOnSet(f, T \ {x}) \in Nat /\ f[x] \in Nat
      BY SumStep
    <3>2. SumFunctionOnSet(f, T \ {x}) = SumFunctionOnSet(f, (T \ {x}) \cap E)
      BY <1>1
    <3>3. CASE x \in E
      <4>1. (T \ {x}) \cap E = (T \cap E) \ {x} /\ T \cap E \in SUBSET D /\ x \in T \cap E
        BY <3>3
      <4>2. SumFunctionOnSet(f, T \cap E) = f[x] + SumFunctionOnSet(f, (T \cap E) \ {x})
        <5>1. IsFiniteSet(D) /\ \A y \in D : f[y] \in Nat
          OBVIOUS
        <5> QED BY ONLY <4>1, <5>1, SumStep, SMT
      <4>3. SumFunctionOnSet(f, T) = SumFunctionOnSet(f, T \cap E)
        BY <3>1, <3>2, <4>1, <4>2
      <4> QED BY <4>3
    <3>4. CASE x \notin E
      <4>1. (T \ {x}) \cap E = T \cap E /\ f[x] = 0
        BY <3>4
      <4>2. SumFunctionOnSet(f, T) = SumFunctionOnSet(f, T \ {x})
        BY <3>1, <4>1, SMT
      <4>3. SumFunctionOnSet(f, T) = SumFunctionOnSet(f, T \cap E)
        BY <3>2, <4>1, <4>2
      <4> QED BY <4>3
    <3> QED BY <3>3, <3>4
  <2> QED BY <2>1, <2>2
<1> HIDE DEF Good
<1>2. D \in Good
  BY <1>1, FiniteInduction
<1>3. D \cap E = E
  OBVIOUS
<1> QED BY <1>2, <1>3 DEF Good

\* A table, by rows and by columns, with the sums of its rows and of its columns.
IsTable(A, B, m, n, r, c) ==
    /\ IsFiniteSet(A) /\ IsFiniteSet(B)
    /\ \A a \in A, b \in B : m[a][b] \in Nat /\ n[b][a] = m[a][b]
    /\ \A a \in A : r[a] = SumFunctionOnSet(m[a], B)
    /\ \A b \in B : c[b] = SumFunctionOnSet(n[b], A)

\* A table can be added up by rows or by columns.
LEMMA SumExchange ==
    ASSUME NEW A, NEW B, NEW m, NEW n, NEW r, NEW c, IsTable(A, B, m, n, r, c)
    PROVE  SumFunctionOnSet(r, A) = SumFunctionOnSet(c, B)
<1> USE DEF IsTable
<1> DEFINE Col(T) == [b \in B |-> SumFunctionOnSet(n[b], T)]
           Good == {T \in SUBSET A : SumFunctionOnSet(r, T) = SumFunctionOnSet(Col(T), B)}
<1>0. /\ \A a \in A : \A b \in B : m[a][b] \in Nat
      /\ \A b \in B : \A a \in A : n[b][a] \in Nat
      /\ \A a \in A : r[a] \in Nat
  <2>1. \A a \in A : \A b \in B : m[a][b] \in Nat
    OBVIOUS
  <2>2. \A a \in A : SumFunctionOnSet(m[a], B) \in Nat
    BY <2>1, SumNat
  <2> QED BY <2>1, <2>2
<1>1. ASSUME NEW T \in SUBSET A, \A x \in T : T \ {x} \in Good
      PROVE  T \in Good
  <2>1. CASE T = {}
    <3>1. \A b \in B : Col(T)[b] = 0
      BY <2>1, SumEmpty
    <3> HIDE DEF Col
    <3>2. SumFunctionOnSet(Col(T), B) = Cardinality(B) * 0 /\ Cardinality(B) \in Nat
      <4>1. 0 \in Nat
        BY SMT
      <4> QED BY <3>1, <4>1, SumConst, FS_CardinalityType, SMT
    <3>3. SumFunctionOnSet(Col(T), B) = 0
      BY <3>2, SMT
    <3> QED BY <2>1, <3>3, SumEmpty
  <2>2. ASSUME NEW x \in T
        PROVE  T \in Good
    <3>0. IsFiniteSet(A) /\ T \in SUBSET A /\ x \in T /\ x \in A
      OBVIOUS
    <3>1. SumFunctionOnSet(r, T) = r[x] + SumFunctionOnSet(r, T \ {x})
      BY ONLY <1>0, <3>0, SumStep, SMT
    <3>2. SumFunctionOnSet(r, T \ {x}) = SumFunctionOnSet(Col(T \ {x}), B)
      BY <1>1
    <3>3. ASSUME NEW b \in B
          PROVE  Col(T)[b] = n[b][x] + Col(T \ {x})[b] /\ Col(T \ {x})[b] \in Nat
      <4>1. \A a \in A : n[b][a] \in Nat
        BY <1>0
      <4>2. /\ SumFunctionOnSet(n[b], T) = n[b][x] + SumFunctionOnSet(n[b], T \ {x})
            /\ SumFunctionOnSet(n[b], T \ {x}) \in Nat
        BY ONLY <3>0, <4>1, SumStep, SMT
      <4> QED BY <4>2
    <3> HIDE DEF Col
    <3>4. \A b \in B : /\ m[x][b] \in Nat /\ Col(T \ {x})[b] \in Nat
                       /\ Col(T)[b] = m[x][b] + Col(T \ {x})[b]
      BY <3>3
    <3>5. SumFunctionOnSet(Col(T), B)
              = SumFunctionOnSet(m[x], B) + SumFunctionOnSet(Col(T \ {x}), B)
      <4>1. \A f, g, h : (\A b \in B : f[b] \in Nat /\ g[b] \in Nat /\ h[b] = f[b] + g[b]) =>
                SumFunctionOnSet(h, B) = SumFunctionOnSet(f, B) + SumFunctionOnSet(g, B)
        BY SumAdd, SMT
      <4> QED BY ONLY <3>4, <4>1, SMT
    <3>6. SumFunctionOnSet(r, T) = SumFunctionOnSet(Col(T), B)
      BY <3>1, <3>2, <3>5
    <3> QED BY <3>6
  <2> QED BY <2>1, <2>2
<1>2. \A b \in B : Col(A)[b] = c[b]
  OBVIOUS
<1> HIDE DEF Good, Col
<1>3. A \in Good
  BY <1>1, FiniteInduction
<1>4. SumFunctionOnSet(Col(A), B) = SumFunctionOnSet(c, B)
  <2>1. IsFiniteSet(B)
    OBVIOUS
  <2> QED BY ONLY <1>2, <2>1, SumSame, Zenon
<1> QED BY <1>3, <1>4 DEF Good
-----------------------------------------------------------------------------
(***************************************************************************)
(* Odd chips: exactly k members of a strictly ordered set have fewer than  *)
(* k members before them.                                                  *)
(***************************************************************************)
StrictOrder(W, before) ==
    /\ before \in [W -> SUBSET W]
    /\ \A v \in W : v \notin before[v]
    /\ \A v, w \in W : v \in before[w] => before[v] \subseteq before[w]
    /\ \A v, w \in W : v = w \/ v \in before[w] \/ w \in before[v]

\* Who comes earlier has fewer before it.
LEMMA EarlierHasFewer ==
    ASSUME NEW W, IsFiniteSet(W), NEW before, StrictOrder(W, before),
           NEW w \in W, NEW v \in before[w]
    PROVE  Cardinality(before[v]) < Cardinality(before[w])
<1>1. before[w] \subseteq W /\ v \in W /\ before[v] \subseteq before[w] /\ before[v] # before[w]
  BY DEF StrictOrder
<1>2. IsFiniteSet(before[w])
  BY <1>1, FS_Subset
<1>3. /\ IsFiniteSet(before[v])
      /\ Cardinality(before[v]) <= Cardinality(before[w])
      /\ Cardinality(before[w]) # Cardinality(before[v])
  BY <1>1, <1>2, FS_Subset
<1>4. Cardinality(before[v]) \in Nat /\ Cardinality(before[w]) \in Nat
  BY <1>2, <1>3, FS_CardinalityType
<1> QED BY <1>3, <1>4, SMT

\* Exactly k members have fewer than k before them.
LEMMA FewBefore ==
    ASSUME NEW W, IsFiniteSet(W), NEW before, StrictOrder(W, before),
           NEW k \in Nat, k <= Cardinality(W)
    PROVE  Cardinality({w \in W : Cardinality(before[w]) < k}) = k
<1> DEFINE n == Cardinality(W)
           pos == [w \in W |-> Cardinality(before[w])]
           K == {w \in W : Cardinality(before[w]) < k}
           low == [w \in K |-> Cardinality(before[w])]
<1>0. n \in Nat
  BY FS_CardinalityType
<1>1. \A w \in W : pos[w] \in 0 .. n - 1
  <2> SUFFICES ASSUME NEW w \in W PROVE Cardinality(before[w]) \in 0 .. n - 1
    OBVIOUS
  <2>1. before[w] \subseteq W /\ before[w] # W
    BY DEF StrictOrder
  <2>2. /\ IsFiniteSet(before[w]) /\ Cardinality(before[w]) <= n
        /\ n # Cardinality(before[w])
    BY <2>1, FS_Subset
  <2>3. Cardinality(before[w]) \in Nat
    BY <2>2, FS_CardinalityType
  <2> QED BY <1>0, <2>2, <2>3, SMT
<1>2. \A v, w \in W : Cardinality(before[v]) = Cardinality(before[w]) => v = w
  <2> SUFFICES ASSUME NEW v \in W, NEW w \in W, v # w,
                      Cardinality(before[v]) = Cardinality(before[w])
               PROVE  FALSE
    OBVIOUS
  <2>1. v \in before[w] \/ w \in before[v]
    BY DEF StrictOrder
  <2>2. \/ Cardinality(before[v]) < Cardinality(before[w])
        \/ Cardinality(before[w]) < Cardinality(before[v])
    BY <2>1, EarlierHasFewer
  <2>3. Cardinality(before[v]) \in Nat /\ Cardinality(before[w]) \in Nat
    BY <1>0, <1>1, SMT
  <2> QED BY <2>2, <2>3, SMT
<1>3. pos \in Injection(W, 0 .. n - 1)
  BY <1>1, <1>2 DEF Injection, IsInjective
<1>4. IsFiniteSet(0 .. n - 1) /\ Cardinality(0 .. n - 1) = n
  <2>1. 0 \in Int /\ n - 1 \in Int
    BY <1>0, SMT
  <2>2. IsFiniteSet(0 .. n - 1) /\ Cardinality(0 .. n - 1) = IF 0 > n - 1 THEN 0 ELSE (n - 1) - 0 + 1
    BY <2>1, FS_Interval
  <2> QED BY <1>0, <2>2, SMT
<1>5. pos \in Surjection(W, 0 .. n - 1)
  <2> HIDE DEF n, pos
  <2> QED BY <1>3, <1>4, FS_Injection DEF n
<1>6. IsFiniteSet(0 .. k - 1) /\ Cardinality(0 .. k - 1) = k
  <2>1. 0 \in Int /\ k - 1 \in Int
    BY SMT
  <2>2. IsFiniteSet(0 .. k - 1) /\ Cardinality(0 .. k - 1) = IF 0 > k - 1 THEN 0 ELSE (k - 1) - 0 + 1
    BY <2>1, FS_Interval
  <2> QED BY <2>2, SMT
<1>7. low \in Bijection(K, 0 .. k - 1)
  <2>1. \A w \in K : low[w] \in 0 .. k - 1
    BY <1>0, <1>1, SMT
  <2>2. \A i \in 0 .. k - 1 : \E w \in K : low[w] = i
    <3> SUFFICES ASSUME NEW i \in 0 .. k - 1 PROVE \E w \in K : low[w] = i
      OBVIOUS
    <3>1. i \in 0 .. n - 1 /\ i < k
      BY <1>0, SMT
    <3>2. PICK w \in W : pos[w] = i
      BY <1>5, <3>1 DEF Surjection
    <3> QED BY <3>1, <3>2
  <2>3. \A v, w \in K : low[v] = low[w] => v = w
    BY <1>2
  <2> QED BY <2>1, <2>2, <2>3 DEF Bijection, Injection, Surjection, IsInjective
<1>8. IsFiniteSet(K)
  BY FS_Subset
<1> HIDE DEF K, low
<1>9. Cardinality(0 .. k - 1) = Cardinality(K)
  BY <1>7, <1>8, FS_Bijection DEF ExistsBijection
<1> QED BY <1>6, <1>9 DEF K

\* One chip for each of the first k, on top of what everyone gets.
LEMMA OddChips ==
    ASSUME NEW W, IsFiniteSet(W), NEW before, StrictOrder(W, before),
           NEW k \in Nat, k <= Cardinality(W), NEW q, NEW f,
           \A w \in W : /\ q[w] \in Nat
                        /\ f[w] = q[w] + IF Cardinality(before[w]) < k THEN 1 ELSE 0
    PROVE  SumFunctionOnSet(f, W) = SumFunctionOnSet(q, W) + k
<1> DEFINE K == {w \in W : Cardinality(before[w]) < k}
           e == [w \in W |-> IF Cardinality(before[w]) < k THEN 1 ELSE 0]
<1>1. Cardinality(K) = k /\ IsFiniteSet(K) /\ K \subseteq W
  BY FewBefore, FS_Subset
<1>2. /\ \A w \in W : e[w] \in Nat
      /\ \A w \in K : e[w] = 1
      /\ \A w \in W \ K : e[w] = 0
      /\ \A w \in W : q[w] \in Nat /\ e[w] \in Nat /\ f[w] = q[w] + e[w]
  <2>1. 0 \in Nat /\ 1 \in Nat
    BY SMT
  <2> QED BY <2>1
<1> HIDE DEF K, e
<1>3. SumFunctionOnSet(e, K) = Cardinality(K) * 1
  <2>1. 1 \in Nat
    BY SMT
  <2> QED BY ONLY <1>1, <1>2, <2>1, SumConst, SMT
<1>4. SumFunctionOnSet(e, W) = SumFunctionOnSet(e, K)
  <2>1. IsFiniteSet(W)
    OBVIOUS
  <2> QED BY ONLY <1>1, <1>2, <2>1, SumSubset, SMT
<1>5. SumFunctionOnSet(f, W) = SumFunctionOnSet(q, W) + SumFunctionOnSet(e, W)
  <2>1. IsFiniteSet(W)
    OBVIOUS
  <2> QED BY ONLY <1>2, <2>1, SumAdd, SMT
<1>6. SumFunctionOnSet(e, W) = k
  BY <1>1, <1>3, <1>4, SMT
<1> QED BY <1>5, <1>6

\* Quotient and remainder.
LEMMA DivMod ==
    ASSUME NEW a \in Nat, NEW b \in Nat, b > 0
    PROVE  /\ a \div b \in Nat /\ a % b \in Nat /\ a % b < b
           /\ a = b * (a \div b) + (a % b)
BY SMT

\* No value exceeds the sum.
LEMMA SumMember ==
    ASSUME NEW f, NEW D, IsFiniteSet(D), \A x \in D : f[x] \in Nat, NEW x \in D
    PROVE  f[x] <= SumFunctionOnSet(f, D)
<1>1. \A y \in D : SumFunctionOnSet(f, D) = f[y] + SumFunctionOnSet(f, D \ {y})
  BY SumRemove, SMT
<1>2. SumFunctionOnSet(f, D \ {x}) \in Nat
  <2>1. IsFiniteSet(D \ {x}) /\ \A y \in D \ {x} : f[y] \in Nat
    BY FS_RemoveElement
  <2> QED BY <2>1, SumNat
<1>3. f[x] \in Nat
  OBVIOUS
<1> QED BY <1>1, <1>2, <1>3, SMT
-----------------------------------------------------------------------------
(***************************************************************************)
(* split_amount_deterministic.                                             *)
(***************************************************************************)
\* The shares of a layer add up to it and differ by at most one chip.
LEMMA SplitConserves ==
    ASSUME NEW W, W \subseteq Nat, IsFiniteSet(W), W # {}, NEW amount \in Nat
    PROVE  /\ SumFunctionOnSet(SplitAmount(amount, W), W) = amount
           /\ \A s \in W : SplitAmount(amount, W)[s] \in Nat
           /\ \A s, t \in W : SplitAmount(amount, W)[s] <= SplitAmount(amount, W)[t] + 1
<1> DEFINE n == Cardinality(W)
           k == amount % n
           q == [s \in W |-> amount \div n]
           f == SplitAmount(amount, W)
           before == [s \in W |-> {t \in W : t < s}]
<1>1. n \in Nat /\ n > 0
  <2>1. n \in Nat /\ n # 0
    BY FS_CardinalityType, FS_EmptySet
  <2> QED BY <2>1, SMT
<1>2. amount \div n \in Nat /\ k \in Nat /\ k < n /\ amount = n * (amount \div n) + k
  <2> HIDE DEF n
  <2> QED BY <1>1, DivMod
<1>3. StrictOrder(W, before)
  <2>1. before \in [W -> SUBSET W]
    OBVIOUS
  <2>2. \A v, w \in W : v \in before[w] <=> v < w
    OBVIOUS
  <2> HIDE DEF before
  <2>3. \A v \in W : v \notin before[v]
    BY <2>2, SMT
  <2>4. \A v, w \in W : v = w \/ v \in before[w] \/ w \in before[v]
    BY <2>2, SMT
  <2>5. \A u, v, w \in W : u \in before[v] /\ v \in before[w] => u \in before[w]
    BY <2>2, SMT
  <2>6. \A v, w \in W : v \in before[w] => before[v] \subseteq before[w]
    BY <2>1, <2>5
  <2> QED BY <2>1, <2>3, <2>4, <2>6 DEF StrictOrder
<1>4. \A s \in W : /\ q[s] \in Nat
                   /\ f[s] = q[s] + IF Cardinality(before[s]) < k THEN 1 ELSE 0
  BY <1>2 DEF SplitAmount
<1>5. SumFunctionOnSet(q, W) = n * (amount \div n)
  <2>1. IsFiniteSet(W) /\ \A s \in W : q[s] = amount \div n
    OBVIOUS
  <2> HIDE DEF q, n
  <2>2. SumFunctionOnSet(q, W) = Cardinality(W) * (amount \div n)
    BY ONLY <1>2, <2>1, SumConst, SMT
  <2> QED BY <2>2 DEF n
<1>6. SumFunctionOnSet(f, W) = SumFunctionOnSet(q, W) + k
  <2>1. k <= Cardinality(W) /\ k \in Nat /\ IsFiniteSet(W)
    BY <1>1, <1>2, SMT
  <2> HIDE DEF before, q, k, f
  <2> QED BY ONLY <1>3, <1>4, <2>1, OddChips, SMT
<1>7. SumFunctionOnSet(f, W) = amount
  <2> HIDE DEF f, n, q, k
  <2> QED BY <1>1, <1>2, <1>5, <1>6, SMT
<1>8. \A s \in W : f[s] \in Nat /\ (f[s] = amount \div n \/ f[s] = amount \div n + 1)
  <2> HIDE DEF f, n, k, before
  <2> QED BY <1>2, <1>4, SMT
<1>9. \A s, t \in W : f[s] <= f[t] + 1
  <2> HIDE DEF f, n
  <2> QED BY <1>2, <1>8, SMT
<1> QED BY <1>7, <1>8, <1>9
-----------------------------------------------------------------------------
(***************************************************************************)
(* apportion_by_weight.                                                    *)
(***************************************************************************)
\* Products are monotonic.
LEMMA MulMono ==
    ASSUME NEW a \in Nat, NEW b \in Nat, NEW c \in Nat, a <= b
    PROVE  a * c <= b * c
BY SMT

\* A positive factor can be cancelled.
LEMMA MulCancel ==
    ASSUME NEW a \in Nat, NEW b \in Nat, NEW c \in Nat, c > 0, a * c <= b * c
    PROVE  a <= b
<1> SUFFICES ASSUME b + 1 <= a PROVE FALSE
  BY SMT
<1>1. (b + 1) * c <= a * c
  BY MulMono, SMT
<1> QED BY <1>1, SMT

\* Products with a positive factor are strictly monotonic.
LEMMA MulStrict ==
    ASSUME NEW a \in Nat, NEW b \in Nat, NEW c \in Nat, c > 0, a < b
    PROVE  a * c < b * c
<1>1. (a + 1) * c <= b * c
  BY MulMono, SMT
<1> QED BY <1>1, SMT

\* Quotients are ordered as what is divided.
LEMMA QuotientMono ==
    ASSUME NEW n \in Nat, NEW f \in Nat, NEW g \in Nat, NEW r \in Nat, NEW p \in Nat,
           r < n, p < n, n * g + p < n * f + r
    PROVE  g < f \/ (g = f /\ p < r)
<1> SUFFICES ASSUME f + 1 <= g PROVE FALSE
  BY SMT
<1>1. (f + 1) * n <= g * n
  BY MulMono, SMT
<1> QED BY <1>1, SMT

\* The sum over the whole domain.
LEMMA SumFunctionNat ==
    ASSUME NEW D, IsFiniteSet(D), NEW f \in [D -> Nat]
    PROVE  SumFunction(f) = SumFunctionOnSet(f, D) /\ SumFunction(f) \in Nat
<1>1. DOMAIN f = D /\ \A x \in D : f[x] \in Nat
  OBVIOUS
<1> QED BY <1>1, SumNat DEF SumFunction

\* The hypotheses under which the apportionment is exact: something is shared out,
\* no more than all of it, and the products stay below the largest u128.
CanApportion(G, gross, target) ==
    /\ IsFiniteSet(G) /\ G \subseteq Nat /\ gross \in [G -> Nat]
    /\ target \in Nat /\ SumFunction(gross) > 0
    /\ SumFunction(gross) * target <= MaxMoney

\* Without saturation a floor and a remainder make up the exact share.
LEMMA FloorAndRem ==
    ASSUME NEW G, NEW gross, NEW target, CanApportion(G, gross, target)
    PROVE  /\ \A s \in G : Floor(gross, target, s) \in Nat
           /\ \A s \in G : Rem(gross, target, s) \in Nat
           /\ \A s \in G : Rem(gross, target, s) < SumFunction(gross)
           /\ \A s \in G : gross[s] * target =
                  SumFunction(gross) * Floor(gross, target, s) + Rem(gross, target, s)
<1> SUFFICES ASSUME NEW s \in G
             PROVE  /\ Floor(gross, target, s) \in Nat /\ Rem(gross, target, s) \in Nat
                    /\ Rem(gross, target, s) < SumFunction(gross)
                    /\ gross[s] * target =
                           SumFunction(gross) * Floor(gross, target, s) + Rem(gross, target, s)
  OBVIOUS
<1> DEFINE total == SumFunction(gross)
<1>1. /\ IsFiniteSet(G) /\ gross \in [G -> Nat] /\ target \in Nat
      /\ total > 0 /\ total * target <= MaxMoney
  BY DEF CanApportion
<1>2. total = SumFunctionOnSet(gross, G) /\ total \in Nat
  BY <1>1, SumFunctionNat
<1>3. gross[s] \in Nat /\ \A x \in G : gross[x] \in Nat
  BY <1>1
<1>4. gross[s] <= total
  BY <1>1, <1>2, <1>3, SumMember
<1> HIDE DEF total
<1>5. gross[s] * target <= total * target
  BY <1>1, <1>2, <1>3, <1>4, MulMono
<1>6. gross[s] * target \in Nat /\ ~(gross[s] * target > MaxMoney)
  BY <1>1, <1>2, <1>3, <1>5, MoneyIsNat, SMT
<1>7. SatMul(gross[s], target) = gross[s] * target
  BY <1>6 DEF SatMul
<1>8. /\ Floor(gross, target, s) = (gross[s] * target) \div total
      /\ Rem(gross, target, s) = (gross[s] * target) % total
  BY <1>7 DEF Floor, Rem, total
<1>9. /\ (gross[s] * target) \div total \in Nat /\ (gross[s] * target) % total \in Nat
      /\ (gross[s] * target) % total < total
      /\ gross[s] * target = total * ((gross[s] * target) \div total) + ((gross[s] * target) % total)
  BY <1>1, <1>2, <1>6, DivMod
<1> QED BY <1>8, <1>9 DEF total

\* The rows that have a remainder.
Uneven(gross, target) == {s \in DOMAIN gross : Rem(gross, target, s) > 0}

\* What the floors leave over is exactly the remainders, and there are at least as
\* many rows with a remainder as chips left over.
LEMMA ExtraIsCovered ==
    ASSUME NEW G, NEW gross, NEW target, CanApportion(G, gross, target)
    PROVE  /\ Extra(gross, target) \in Nat
           /\ SumFunctionOnSet([s \in G |-> Floor(gross, target, s)], G) \in Nat
           /\ target = SumFunctionOnSet([s \in G |-> Floor(gross, target, s)], G)
                           + Extra(gross, target)
           /\ IsFiniteSet(Uneven(gross, target))
           /\ Extra(gross, target) <= Cardinality(Uneven(gross, target))
           /\ Extra(gross, target) <= Cardinality(G)
<1> DEFINE total == SumFunction(gross)
           F == [s \in G |-> Floor(gross, target, s)]
           R == [s \in G |-> Rem(gross, target, s)]
           P == [s \in G |-> gross[s] * target]
           Q == [s \in G |-> Floor(gross, target, s) * total]
           U == Uneven(gross, target)
           Z == [s \in U |-> 0]
           SF == SumFunctionOnSet(F, G)
           SR == SumFunctionOnSet(R, G)
<1>1. /\ IsFiniteSet(G) /\ gross \in [G -> Nat] /\ DOMAIN gross = G /\ target \in Nat
      /\ total > 0
  BY DEF CanApportion
<1>2. total = SumFunctionOnSet(gross, G) /\ total \in Nat
  BY <1>1, SumFunctionNat
<1>3. /\ \A s \in G : F[s] \in Nat
      /\ \A s \in G : R[s] \in Nat /\ R[s] < total
      /\ \A s \in G : gross[s] \in Nat /\ P[s] = gross[s] * target
      /\ \A s \in G : P[s] = total * F[s] + R[s]
      /\ \A s \in G : F[s] \in Nat /\ Q[s] = F[s] * total
  <2>1. /\ \A s \in G : Floor(gross, target, s) \in Nat
        /\ \A s \in G : Rem(gross, target, s) \in Nat
        /\ \A s \in G : Rem(gross, target, s) < SumFunction(gross)
        /\ \A s \in G : gross[s] * target =
               SumFunction(gross) * Floor(gross, target, s) + Rem(gross, target, s)
    BY FloorAndRem
  <2>2. \A s \in G : gross[s] \in Nat
    BY <1>1
  <2> QED BY <2>1, <2>2
<1>4. \A s \in G : Q[s] \in Nat /\ R[s] \in Nat /\ P[s] = Q[s] + R[s]
  <2> HIDE DEF F, R, P, Q, total
  <2> QED BY <1>2, <1>3, SMT
<1>5. U \subseteq G /\ \A s \in G \ U : ~(R[s] > 0)
  BY <1>1 DEF Uneven
<1>6. \A s \in U : Z[s] = 0
  OBVIOUS
<1>7. IsFiniteSet(U) /\ Cardinality(U) \in Nat /\ Cardinality(U) <= Cardinality(G)
      /\ Cardinality(G) \in Nat
  BY <1>1, <1>5, FS_Subset, FS_CardinalityType
<1>8. Extra(gross, target) = IF SF < target THEN target - SF ELSE 0
  BY <1>1 DEF Extra, SumFunction
<1> HIDE DEF F, R, P, Q, U, Z, total
<1>9. SumFunctionOnSet(P, G) = total * target
  BY ONLY <1>1, <1>2, <1>3, SumScale, SMT
<1>10. SumFunctionOnSet(Q, G) = SF * total
  BY ONLY <1>1, <1>2, <1>3, SumScale, SMT
<1>11. SumFunctionOnSet(P, G) = SumFunctionOnSet(Q, G) + SR
  BY ONLY <1>1, <1>4, SumAdd, SMT
<1>12. SF \in Nat /\ SR \in Nat
  <2>1. (\A s \in G : F[s] \in Nat) /\ (\A s \in G : R[s] \in Nat)
    BY <1>3
  <2> QED BY <1>1, <2>1, SumNat
<1>13. SR = SumFunctionOnSet(R, U)
  <2>1. (\A s \in G : R[s] \in Nat) /\ \A s \in G \ U : R[s] = 0
    BY <1>3, <1>5, SMT
  <2> QED BY ONLY <1>1, <1>5, <2>1, SumSubset, SMT
<1>14. SumFunctionOnSet(R, U) <= SumFunctionOnSet(Z, U) + Cardinality(U) * total
  <2>1. \A s \in U : R[s] \in Nat /\ Z[s] \in Nat /\ R[s] <= Z[s] + total
    BY <1>2, <1>3, <1>5, <1>6, SMT
  <2> QED BY ONLY <1>2, <1>7, <2>1, SumBound, SMT
<1>15. SumFunctionOnSet(Z, U) = Cardinality(U) * 0
  BY ONLY <1>6, <1>7, SumConst, SMT
<1> HIDE DEF SF, SR
<1>16. SR <= Cardinality(U) * total
  BY <1>7, <1>13, <1>14, <1>15, <1>2, <1>12, SMT
<1>17. SF * total + SR = target * total
  BY <1>1, <1>2, <1>9, <1>10, <1>11, <1>12, SMT
<1>18. SF <= target
  <2>1. SF * total <= target * total
    BY <1>1, <1>2, <1>12, <1>17, SMT
  <2> QED BY <1>1, <1>2, <1>12, <2>1, MulCancel
<1>19. Extra(gross, target) = target - SF /\ Extra(gross, target) \in Nat
  BY <1>1, <1>8, <1>12, <1>18, SMT
<1>20. Extra(gross, target) <= Cardinality(U)
  <2>1. target <= SF + Cardinality(U)
    <3>1. target * total <= (SF + Cardinality(U)) * total
      BY <1>1, <1>2, <1>7, <1>12, <1>16, <1>17, SMT
    <3>2. SF + Cardinality(U) \in Nat
      BY <1>7, <1>12, SMT
    <3> QED BY <1>1, <1>2, <3>1, <3>2, MulCancel
  <2> QED BY <1>1, <1>7, <1>12, <1>19, <2>1, SMT
<1>21. Extra(gross, target) <= Cardinality(G) /\ target = SF + Extra(gross, target)
  BY <1>1, <1>7, <1>12, <1>19, <1>20, SMT
<1> QED BY <1>7, <1>12, <1>19, <1>20, <1>21 DEF U, SF, F

\* Sorting the rows by remainder and seat is a strict order.
LEMMA RowsAreOrdered ==
    ASSUME NEW G, NEW gross, NEW target, CanApportion(G, gross, target)
    PROVE  StrictOrder(G, [s \in G |-> RowsBefore(gross, target, s)])
<1> DEFINE before == [s \in G |-> RowsBefore(gross, target, s)]
           R == [s \in G |-> Rem(gross, target, s)]
<1>1. G \subseteq Nat /\ DOMAIN gross = G
  BY DEF CanApportion
<1>2. \A s \in G : R[s] \in Nat
  BY FloorAndRem
<1>3. \A t, s \in G : t \in before[s] <=> R[t] > R[s] \/ (R[t] = R[s] /\ t < s)
  BY <1>1 DEF RowsBefore
<1>4. before \in [G -> SUBSET G]
  BY <1>1 DEF RowsBefore
<1> HIDE DEF before, R
<1>5. \A v \in G : v \notin before[v]
  BY <1>1, <1>2, <1>3, SMT
<1>6. \A v, w \in G : v = w \/ v \in before[w] \/ w \in before[v]
  BY <1>1, <1>2, <1>3, SMT
<1>7. \A u, v, w \in G : u \in before[v] /\ v \in before[w] => u \in before[w]
  BY <1>1, <1>2, <1>3, SMT
<1>8. \A v, w \in G : v \in before[w] => before[v] \subseteq before[w]
  BY <1>4, <1>7
<1> QED BY <1>4, <1>5, <1>6, <1>8 DEF StrictOrder, before

\* The chip a row gets on top of its floor.
OddChip(gross, target, s) ==
    IF Cardinality(RowsBefore(gross, target, s)) < Extra(gross, target) THEN 1 ELSE 0

\* A row without a remainder comes after all that have one, and gets no odd chip.
LEMMA EvenRowsGetNoOddChip ==
    ASSUME NEW G, NEW gross, NEW target, CanApportion(G, gross, target),
           NEW s \in G, Rem(gross, target, s) = 0
    PROVE  OddChip(gross, target, s) = 0
<1> DEFINE B == RowsBefore(gross, target, s)
           U == Uneven(gross, target)
<1>1. IsFiniteSet(G) /\ DOMAIN gross = G
  BY DEF CanApportion
<1>2. U \subseteq B /\ B \subseteq G
  BY <1>1 DEF Uneven, RowsBefore
<1> HIDE DEF B, U
<1>3. /\ IsFiniteSet(B) /\ Cardinality(U) <= Cardinality(B)
      /\ Cardinality(U) \in Nat /\ Cardinality(B) \in Nat
  BY <1>1, <1>2, FS_Subset, FS_CardinalityType
<1>4. Extra(gross, target) \in Nat /\ Extra(gross, target) <= Cardinality(U)
  BY ExtraIsCovered DEF U
<1>5. ~(Cardinality(B) < Extra(gross, target))
  BY <1>3, <1>4, SMT
<1> QED BY <1>5 DEF OddChip, B

\* Nothing is lost or made, everyone is within one chip of its share, and who has
\* more does not get less.
LEMMA ApportionIsFair ==
    ASSUME NEW G, NEW gross, NEW target, CanApportion(G, gross, target)
    PROVE  LET pay == ApportionByWeight(gross, target)
               total == SumFunction(gross)
           IN  /\ pay \in [G -> Nat]
               /\ SumFunctionOnSet(pay, G) = target
               /\ \A s \in G : pay[s] * total < gross[s] * target + total
               /\ \A s \in G : gross[s] * target < pay[s] * total + total
               /\ \A s, t \in G : gross[s] > gross[t] => pay[s] >= pay[t]
<1> DEFINE pay == ApportionByWeight(gross, target)
           total == SumFunction(gross)
           F == [s \in G |-> Floor(gross, target, s)]
           R == [s \in G |-> Rem(gross, target, s)]
           O == [s \in G |-> OddChip(gross, target, s)]
           before == [s \in G |-> RowsBefore(gross, target, s)]
           k == Extra(gross, target)
<1>1. /\ IsFiniteSet(G) /\ gross \in [G -> Nat] /\ DOMAIN gross = G /\ target \in Nat
      /\ total > 0
  BY DEF CanApportion
<1>2. total \in Nat
  BY <1>1, SumFunctionNat
<1>3. /\ \A s \in G : F[s] \in Nat /\ R[s] \in Nat /\ R[s] < total
      /\ \A s \in G : gross[s] \in Nat /\ gross[s] * target = total * F[s] + R[s]
  <2>1. /\ \A s \in G : Floor(gross, target, s) \in Nat
        /\ \A s \in G : Rem(gross, target, s) \in Nat
        /\ \A s \in G : Rem(gross, target, s) < SumFunction(gross)
        /\ \A s \in G : gross[s] * target =
               SumFunction(gross) * Floor(gross, target, s) + Rem(gross, target, s)
    BY FloorAndRem
  <2>2. \A s \in G : gross[s] \in Nat
    BY <1>1
  <2> QED BY <2>1, <2>2
<1>4. /\ k \in Nat /\ k <= Cardinality(G) /\ target = SumFunctionOnSet(F, G) + k
      /\ SumFunctionOnSet(F, G) \in Nat
  <2>1. /\ Extra(gross, target) \in Nat
        /\ SumFunctionOnSet([s \in G |-> Floor(gross, target, s)], G) \in Nat
        /\ target = SumFunctionOnSet([s \in G |-> Floor(gross, target, s)], G)
                        + Extra(gross, target)
        /\ Extra(gross, target) <= Cardinality(G)
    BY ExtraIsCovered, SMT
  <2> QED BY <2>1
<1>5. \A s \in G : /\ O[s] = IF Cardinality(before[s]) < k THEN 1 ELSE 0
                   /\ R[s] = 0 => O[s] = 0
  BY EvenRowsGetNoOddChip DEF OddChip
<1>6. \A s \in G : pay[s] = F[s] + O[s]
  BY <1>1 DEF ApportionByWeight, OddChip
<1>7. StrictOrder(G, before)
  BY RowsAreOrdered
<1>8. DOMAIN pay = G /\ pay = [s \in G |-> pay[s]]
  BY <1>1 DEF ApportionByWeight
<1>9. \A s, t \in G : R[s] > R[t] => s \in before[t]
  BY <1>1 DEF RowsBefore
<1> HIDE DEF pay, total, F, R, O, before, k
<1>10. \A s \in G : /\ O[s] \in Nat /\ O[s] <= 1 /\ pay[s] \in Nat
                    /\ O[s] = 1 => R[s] > 0
  BY <1>3, <1>5, <1>6, SMT
<1>11. pay \in [G -> Nat]
  BY <1>8, <1>10
<1>12. SumFunctionOnSet(pay, G) = target
  <2>1. \A s \in G : /\ F[s] \in Nat
                     /\ pay[s] = F[s] + IF Cardinality(before[s]) < k THEN 1 ELSE 0
    BY <1>3, <1>5, <1>6
  <2>2. SumFunctionOnSet(pay, G) = SumFunctionOnSet(F, G) + k
    BY ONLY <1>1, <1>4, <1>7, <2>1, OddChips, SMT
  <2> QED BY <1>4, <2>2
<1>13. ASSUME NEW s \in G
       PROVE  /\ pay[s] * total < gross[s] * target + total
              /\ gross[s] * target < pay[s] * total + total
  <2>1. CASE O[s] = 0
    <3>1. pay[s] = F[s]
      BY <1>3, <1>6, <2>1, SMT
    <3> QED BY <1>2, <1>3, <1>1, <3>1, SMT
  <2>2. CASE O[s] = 1
    <3>1. pay[s] = F[s] + 1 /\ R[s] > 0
      BY <1>6, <1>10, <2>2
    <3>2. pay[s] * total = total * F[s] + total
      BY <1>2, <1>3, <3>1, SMT
    <3> QED BY <1>2, <1>3, <3>1, <3>2, SMT
  <2> QED BY <1>10, <2>1, <2>2, SMT
<1>14. ASSUME NEW s \in G, NEW t \in G, gross[s] > gross[t]
       PROVE  pay[s] >= pay[t]
  <2>1. CASE target = 0
    <3>1. total * F[t] + R[t] = 0
      BY <1>3, <2>1, SMT
    <3>2. F[t] = 0 /\ R[t] = 0
      <4>0. total * F[t] \in Nat /\ R[t] \in Nat
        BY <1>2, <1>3, SMT
      <4>1. R[t] = 0 /\ total * F[t] = 0
        BY <3>1, <4>0, SMT
      <4>2. F[t] * total <= 0 * total
        BY <1>2, <1>3, <4>1, SMT
      <4>3. F[t] <= 0
        BY <1>1, <1>2, <1>3, <4>2, MulCancel, SMT
      <4> QED BY <1>3, <4>1, <4>3, SMT
    <3>3. O[t] = 0
      BY <1>5, <3>2
    <3> QED BY <1>6, <1>10, <3>2, <3>3, SMT
  <2>2. CASE target > 0
    <3>1. gross[t] * target < gross[s] * target
      BY <1>1, <1>3, <1>14, <2>2, MulStrict, SMT
    <3>2. total * F[t] + R[t] < total * F[s] + R[s]
      BY <1>3, <3>1
    <3>3. F[t] < F[s] \/ (F[t] = F[s] /\ R[t] < R[s])
      BY <1>2, <1>3, <3>2, QuotientMono
    <3>4. CASE F[t] < F[s]
      BY <1>3, <1>6, <1>10, <3>4, SMT
    <3>5. CASE F[t] = F[s] /\ R[t] < R[s]
      <4>1. s \in before[t]
        BY <1>3, <1>9, <3>5, SMT
      <4>2. Cardinality(before[s]) < Cardinality(before[t])
        BY <1>1, <1>7, <4>1, EarlierHasFewer
      <4>3. Cardinality(before[s]) \in Nat /\ Cardinality(before[t]) \in Nat
        BY <1>1, <1>7, FS_Subset, FS_CardinalityType DEF StrictOrder
      <4>4. O[s] >= O[t]
        BY <1>4, <1>5, <4>2, <4>3, SMT
      <4> QED BY <1>3, <1>6, <1>10, <3>5, <4>4, SMT
    <3> QED BY <3>3, <3>4, <3>5
  <2> QED BY <1>1, <2>1, <2>2, SMT
<1>15. \A s, t \in G : gross[s] > gross[t] => pay[s] >= pay[t]
  BY <1>14
<1> QED BY <1>11, <1>12, <1>13, <1>15 DEF pay, total
-----------------------------------------------------------------------------
(***************************************************************************)
(* build_pot_layers: levels and the chips of the layers up to a level.     *)
(***************************************************************************)
LEMMA MaxIsMember ==
    ASSUME NEW A, IsFiniteSet(A), A # {}, A \subseteq Nat
    PROVE  Max(A) \in A /\ Max(A) \in Nat /\ \A y \in A : y <= Max(A)
<1> DEFINE Good == {T \in SUBSET A : T = {} \/ \E x \in T : \A y \in T : x >= y}
<1>1. ASSUME NEW T \in SUBSET A, \A x \in T : T \ {x} \in Good
      PROVE  T \in Good
  <2>1. ASSUME NEW x \in T
        PROVE  \E v \in T : \A y \in T : v >= y
    <3>1. T \subseteq Nat /\ x \in Nat
      OBVIOUS
    <3>2. CASE T \ {x} = {}
      <4>1. \A y \in T : x >= y
        <5>1. \A y \in T : y = x
          BY <3>2
        <5> QED BY <3>1, <5>1, SMT
      <4> QED BY <4>1
    <3>3. CASE T \ {x} # {}
      <4>1. PICK v \in T \ {x} : \A y \in T \ {x} : v >= y
        BY <1>1, <3>3
      <4>2. v \in T /\ v \in Nat
        BY <3>1
      <4>3. CASE v >= x
        BY <4>1, <4>2, <4>3
      <4>4. CASE x > v
        <5>1. \A y \in T : x >= y
          BY <3>1, <4>1, <4>2, <4>4, SMT
        <5> QED BY <5>1
      <4> QED BY <3>1, <4>2, <4>3, <4>4, SMT
    <3> QED BY <3>2, <3>3
  <2> QED BY <2>1
<1> HIDE DEF Good
<1>2. A \in Good
  BY <1>1, FiniteInduction
<1>3. \E x \in A : \A y \in A : x >= y
  BY <1>2 DEF Good
<1>4. Max(A) \in A /\ \A y \in A : Max(A) >= y
  BY <1>3 DEF Max
<1>5. Max(A) \in Nat /\ \A y \in A : y \in Nat
  BY <1>4
<1> HIDE DEF Max
<1>6. \A y \in A : y <= Max(A)
  BY ONLY <1>4, <1>5, SMT
<1> QED BY <1>4, <1>5, <1>6

\* The levels are finitely many positive amounts, one for each seat that paid.
LEMMA LevelsAreFinite ==
    ASSUME NEW c \in [Seat -> Nat]
    PROVE  /\ IsFiniteSet(Levels(c)) /\ Levels(c) \subseteq Nat
           /\ \A l \in Levels(c) : l > 0
           /\ \A s \in Seat : c[s] \in Levels(c) \cup {0}
           /\ LayerLevels(c) \subseteq Levels(c) /\ IsFiniteSet(LayerLevels(c))
<1>1. Levels(c) = {c[s] : s \in Seat} \ {0}
  BY DEF Levels
<1>2. IsFiniteSet({c[s] : s \in Seat})
  <2> DEFINE A == {c[s] : s \in Seat}
  <2>1. c \in Surjection(Seat, A)
    BY DEF Surjection
  <2> HIDE DEF A
  <2>2. IsFiniteSet(A)
    BY <2>1, SeatsAreNumbers, FS_Surjection
  <2> QED BY <2>2 DEF A
<1>3. IsFiniteSet(Levels(c)) /\ Levels(c) \subseteq Nat /\ \A l \in Levels(c) : l # 0
  BY <1>1, <1>2, FS_Subset
<1>4. LayerLevels(c) \subseteq Levels(c)
  BY DEF LayerLevels
<1>5. \A s \in Seat : c[s] \in Levels(c) \cup {0}
  BY <1>1
<1>6. \A l \in Levels(c) : l > 0
  BY <1>3, SMT
<1> QED BY <1>3, <1>4, <1>5, <1>6, FS_Subset

\* The level before is a level or 0, it is lower, and no level lies between.
LEMMA PrevIsBelow ==
    ASSUME NEW c \in [Seat -> Nat], NEW l \in Levels(c)
    PROVE  /\ PrevLevel(c, l) \in Levels(c) \cup {0}
           /\ PrevLevel(c, l) \in Nat /\ PrevLevel(c, l) < l
           /\ \A k \in Levels(c) : k < l <=> k <= PrevLevel(c, l)
<1> DEFINE A == {0} \cup {k \in Levels(c) : k < l}
           p == PrevLevel(c, l)
<1>1. IsFiniteSet(Levels(c)) /\ Levels(c) \subseteq Nat /\ l \in Nat /\ l > 0
  BY LevelsAreFinite
<1>2. IsFiniteSet(A)
  <2>1. IsFiniteSet({k \in Levels(c) : k < l}) /\ IsFiniteSet({0})
    BY <1>1, FS_Subset, FS_Singleton
  <2> QED BY <2>1, FS_Union
<1>3. A # {} /\ A \subseteq Nat /\ \A k \in A : k < l
  BY <1>1, SMT
<1>4. p = Max(A)
  BY DEF PrevLevel
<1>5. \A k \in Levels(c) : k < l => k \in A
  OBVIOUS
<1>6. A \subseteq Levels(c) \cup {0}
  OBVIOUS
<1> HIDE DEF A, p
<1>7. p \in A /\ p \in Nat /\ \A k \in A : k <= p
  BY <1>2, <1>3, <1>4, MaxIsMember
<1>8. p < l /\ p \in Levels(c) \cup {0}
  BY <1>3, <1>6, <1>7
<1>9. \A k \in Levels(c) : k < l <=> k <= p
  BY <1>1, <1>5, <1>7, <1>8, SMT
<1> QED BY <1>7, <1>8, <1>9 DEF p

\* The chips each contributor of a level pays into its layer.
Slice(c) == [l \in Levels(c) |-> l - PrevLevel(c, l)]

LevelsUpTo(c, x) == {l \in Levels(c) : l <= x}

\* A slice has at least one chip.
LEMMA SliceIsNat ==
    ASSUME NEW c \in [Seat -> Nat]
    PROVE  \A l \in Levels(c) : Slice(c)[l] \in Nat /\ Slice(c)[l] > 0
<1> SUFFICES ASSUME NEW l \in Levels(c) PROVE Slice(c)[l] \in Nat /\ Slice(c)[l] > 0
  OBVIOUS
<1>1. PrevLevel(c, l) \in Nat /\ PrevLevel(c, l) < l /\ l \in Nat
  BY PrevIsBelow, LevelsAreFinite
<1>2. Slice(c)[l] = l - PrevLevel(c, l)
  BY DEF Slice
<1> QED BY <1>1, <1>2, SMT

\* The slices up to a level add up to it.
LEMMA SlicesTelescope ==
    ASSUME NEW c \in [Seat -> Nat]
    PROVE  \A x \in Levels(c) \cup {0} : SumFunctionOnSet(Slice(c), LevelsUpTo(c, x)) = x
<1> DEFINE L == Levels(c)
           Good == {T \in SUBSET L : \A x \in L \cup {0} :
                        T = LevelsUpTo(c, x) => SumFunctionOnSet(Slice(c), T) = x}
<1>1. IsFiniteSet(L) /\ L \subseteq Nat /\ \A l \in L : l > 0
  BY LevelsAreFinite
<1>2. \A l \in L : Slice(c)[l] \in Nat
  BY SliceIsNat
<1>3. ASSUME NEW T \in SUBSET L, \A y \in T : T \ {y} \in Good,
             NEW x \in L \cup {0}, T = LevelsUpTo(c, x)
      PROVE  SumFunctionOnSet(Slice(c), T) = x
  <2>1. CASE x = 0
    <3>1. T = {}
      <4>1. \A l \in L : ~(l <= 0)
        BY <1>1, SMT
      <4> QED BY <1>3, <2>1, <4>1 DEF LevelsUpTo
    <3> QED BY <2>1, <3>1, SumEmpty
  <2>2. CASE x \in L
    <3> DEFINE p == PrevLevel(c, x)
    <3>1. /\ p \in L \cup {0} /\ p \in Nat /\ p < x
          /\ \A k \in L : k < x <=> k <= p
      BY <2>2, PrevIsBelow
    <3>2. x \in Nat
      BY <1>1, <2>2
    <3> HIDE DEF p
    <3>3. x \in T
      <4>1. x <= x
        BY <3>2, SMT
      <4> QED BY <1>3, <2>2, <4>1 DEF LevelsUpTo
    <3>4. T \ {x} = LevelsUpTo(c, p)
      <4>1. \A k \in L : (k <= x /\ k # x) <=> k <= p
        BY <1>1, <3>1, <3>2, SMT
      <4>2. \A k : k \in T <=> k \in L /\ k <= x
        BY <1>3 DEF LevelsUpTo
      <4>3. \A k : k \in LevelsUpTo(c, p) <=> k \in L /\ k <= p
        BY DEF LevelsUpTo
      <4> QED BY ONLY <4>1, <4>2, <4>3, Zenon
    <3>5. SumFunctionOnSet(Slice(c), T \ {x}) = p
      BY <1>3, <3>1, <3>3, <3>4
    <3>6. SumFunctionOnSet(Slice(c), T) = Slice(c)[x] + SumFunctionOnSet(Slice(c), T \ {x})
      <4>1. IsFiniteSet(L) /\ T \in SUBSET L
        BY <1>1
      <4> QED BY ONLY <1>2, <3>3, <4>1, SumStep, SMT
    <3>7. Slice(c)[x] = x - p
      BY <2>2 DEF Slice, p
    <3> QED BY <3>1, <3>2, <3>5, <3>6, <3>7, SMT
  <2> QED BY <2>1, <2>2
<1>4. \A T \in SUBSET L : (\A y \in T : T \ {y} \in Good) => T \in Good
  BY <1>3
<1> SUFFICES ASSUME NEW x \in L \cup {0}
             PROVE  SumFunctionOnSet(Slice(c), LevelsUpTo(c, x)) = x
  OBVIOUS
<1> DEFINE U == LevelsUpTo(c, x)
<1>5. U \subseteq L /\ IsFiniteSet(U)
  BY <1>1, FS_Subset DEF LevelsUpTo
<1>6. \A T \in SUBSET U : (\A y \in T : T \ {y} \in Good) => T \in Good
  BY <1>4, <1>5
<1> HIDE DEF Good, U
<1>7. U \in Good
  BY <1>5, <1>6, FiniteInduction
<1> QED BY <1>7 DEF Good, U

\* The layers are those of the levels up to the highest amount that two seats
\* reached: this is where the loop breaks.
LEMMA LayersReachTheMatched ==
    ASSUME NEW c \in [Seat -> Nat]
    PROVE  /\ MatchedUpTo(c) \in Levels(c) \cup {0} /\ MatchedUpTo(c) \in Nat
           /\ \A l \in Levels(c) : l \in LayerLevels(c) <=> l <= MatchedUpTo(c)
<1> DEFINE Met == {t \in Seat : \E u \in Seat \ {t} : c[u] >= c[t]}
           A == {0} \cup {c[s] : s \in Met}
           M == MatchedUpTo(c)
<1>1. /\ IsFiniteSet(Levels(c)) /\ Levels(c) \subseteq Nat
      /\ \A l \in Levels(c) : l > 0
      /\ \A s \in Seat : c[s] \in Levels(c) \cup {0}
  BY LevelsAreFinite
<1>2. M = Max(A)
  BY DEF MatchedUpTo
<1>3. A \subseteq Levels(c) \cup {0} /\ A # {}
  BY <1>1
<1>4. IsFiniteSet(A) /\ A \subseteq Nat
  <2>1. IsFiniteSet(Levels(c) \cup {0})
    BY <1>1, FS_Singleton, FS_Union
  <2>2. Levels(c) \cup {0} \subseteq Nat
    BY <1>1, SMT
  <2> HIDE DEF A
  <2> QED BY <1>3, <2>1, <2>2, FS_Subset
<1>5. \A s \in Seat : \A u \in Seat : u # s /\ c[u] >= c[s] => c[s] \in A
  OBVIOUS
<1>6. \A a \in A : a # 0 => \E s, u \in Seat : s # u /\ a = c[s] /\ c[u] >= c[s]
  OBVIOUS
<1> HIDE DEF A, M
<1>7. M \in A /\ M \in Nat /\ \A y \in A : y <= M
  BY <1>2, <1>3, <1>4, MaxIsMember
<1>8. \A l \in Levels(c) : Contributors(c, l) \subseteq Seat /\ IsFiniteSet(Contributors(c, l))
  BY SeatsAreNumbers, FS_Subset DEF Contributors
<1>9. ASSUME NEW l \in LayerLevels(c)
      PROVE  l <= M
  <2>1. l \in Levels(c) /\ Cardinality(Contributors(c, l)) > 1
    BY DEF LayerLevels
  <2>2. PICK s \in Seat : l = c[s]
    BY <2>1 DEF Levels
  <2>3. \E u \in Seat : u # s /\ c[u] >= c[s]
    <3> SUFFICES ASSUME \A u \in Seat : u # s => ~(c[u] >= c[s]) PROVE FALSE
      OBVIOUS
    <3>1. Contributors(c, l) \subseteq {s}
      BY <2>2 DEF Contributors
    <3>2. IsFiniteSet({s}) /\ Cardinality({s}) = 1
      BY FS_Singleton
    <3>3. /\ Cardinality(Contributors(c, l)) <= 1
          /\ Cardinality(Contributors(c, l)) \in Nat
      <4> DEFINE C == Contributors(c, l)
      <4> HIDE DEF C
      <4>1. C \subseteq {s}
        BY <3>1 DEF C
      <4>2. IsFiniteSet(C) /\ Cardinality(C) <= Cardinality({s})
        BY <3>2, <4>1, FS_Subset
      <4>3. Cardinality(C) \in Nat
        BY <4>2, FS_CardinalityType
      <4> QED BY <3>2, <4>2, <4>3 DEF C
    <3> QED BY <2>1, <3>3, SMT
  <2> QED BY <1>5, <1>7, <2>2, <2>3
<1>10. ASSUME NEW l \in Levels(c), l <= M
       PROVE  l \in LayerLevels(c)
  <2>1. l \in Nat /\ l > 0 /\ M # 0
    BY <1>1, <1>7, <1>10, SMT
  <2>2. PICK s \in Seat, u \in Seat : s # u /\ M = c[s] /\ c[u] >= c[s]
    BY <1>6, <1>7, <2>1
  <2>3. c[s] >= l /\ c[u] >= l
    BY <1>7, <1>10, <2>1, <2>2, SMT
  <2>4. {s, u} \subseteq Contributors(c, l)
    BY <2>3 DEF Contributors
  <2>5. IsFiniteSet({s}) /\ Cardinality({s}) = 1 /\ u \notin {s}
    BY <2>2, FS_Singleton
  <2>6. Cardinality({s} \cup {u}) = 2
    <3>1. Cardinality({s} \cup {u}) = Cardinality({s}) + 1
      BY <2>5, FS_AddElement
    <3> QED BY <2>5, <3>1, SMT
  <2>7. {s} \cup {u} \subseteq Contributors(c, l)
    BY <2>4
  <2>8. /\ Cardinality({s} \cup {u}) <= Cardinality(Contributors(c, l))
        /\ Cardinality(Contributors(c, l)) \in Nat
    BY <1>8, <2>7, FS_Subset, FS_CardinalityType
  <2>9. Cardinality(Contributors(c, l)) > 1
    BY <2>6, <2>8, SMT
  <2> QED BY <2>9 DEF LayerLevels
<1>11. M \in Levels(c) \cup {0}
  BY <1>3, <1>7
<1> QED BY <1>7, <1>9, <1>10, <1>11 DEF M

\* The chips of the layers, and the layers up to an amount.
Amount(c) == [l \in LayerLevels(c) |-> Slice(c)[l] * Cardinality(Contributors(c, l))]
LayersUpTo(c, x) == {l \in LayerLevels(c) : l <= x}

\* What a seat pays into the layers up to an amount.
Paid(c, x) == [t \in Seat |-> MinOf(c[t], MinOf(x, MatchedUpTo(c)))]

\* No layer is empty.
LEMMA AmountIsPositive ==
    ASSUME NEW c \in [Seat -> Nat]
    PROVE  \A l \in LayerLevels(c) : Amount(c)[l] \in Nat /\ Amount(c)[l] > 0
<1> SUFFICES ASSUME NEW l \in LayerLevels(c) PROVE Amount(c)[l] \in Nat /\ Amount(c)[l] > 0
  OBVIOUS
<1>1. l \in Levels(c) /\ Cardinality(Contributors(c, l)) > 1
  BY DEF LayerLevels
<1>2. Slice(c)[l] \in Nat /\ Slice(c)[l] > 0
  BY <1>1, SliceIsNat
<1>3. Cardinality(Contributors(c, l)) \in Nat
  BY SeatsAreNumbers, FS_Subset, FS_CardinalityType DEF Contributors
<1>4. Amount(c)[l] = Slice(c)[l] * Cardinality(Contributors(c, l))
  BY DEF Amount
<1>5. 0 * Cardinality(Contributors(c, l)) < Slice(c)[l] * Cardinality(Contributors(c, l))
  BY <1>1, <1>2, <1>3, MulStrict, SMT
<1> QED BY <1>2, <1>3, <1>4, <1>5, SMT

\* The layers up to an amount hold what the seats paid up to it.
LEMMA LayersAddUp ==
    ASSUME NEW c \in [Seat -> Nat], NEW x \in Levels(c) \cup {0}
    PROVE  SumFunctionOnSet(Amount(c), LayersUpTo(c, x)) = SumFunctionOnSet(Paid(c, x), Seat)
<1> DEFINE M == MatchedUpTo(c)
           B == LayersUpTo(c, x)
           m == [l \in B |-> [t \in Seat |-> IF c[t] >= l THEN Slice(c)[l] ELSE 0]]
           n == [t \in Seat |-> [l \in B |-> IF c[t] >= l THEN Slice(c)[l] ELSE 0]]
<1>1. /\ IsFiniteSet(Levels(c)) /\ Levels(c) \subseteq Nat
      /\ \A s \in Seat : c[s] \in Levels(c) \cup {0}
      /\ LayerLevels(c) \subseteq Levels(c) /\ IsFiniteSet(LayerLevels(c))
      /\ x \in Nat
  <2>1. 0 \in Nat
    BY SMT
  <2> QED BY <2>1, LevelsAreFinite
<1>2. /\ M \in Levels(c) \cup {0} /\ M \in Nat
      /\ \A l \in Levels(c) : l \in LayerLevels(c) <=> l <= M
  BY LayersReachTheMatched
<1>3. \A l \in Levels(c) : Slice(c)[l] \in Nat
  BY SliceIsNat
<1>4. B \subseteq LayerLevels(c) /\ IsFiniteSet(B) /\ B \subseteq Levels(c) /\ IsFiniteSet(Seat)
  BY <1>1, FS_Subset, SeatsAreNumbers DEF LayersUpTo
<1>5. \A k : k \in B <=> k \in Levels(c) /\ k <= M /\ k <= x
  BY <1>1, <1>2 DEF LayersUpTo
<1>6. \A l \in B : Amount(c)[l] = Slice(c)[l] * Cardinality(Contributors(c, l))
  BY <1>4 DEF Amount
<1>7. /\ \A l \in B : \A t \in Seat : c[t] >= l => m[l][t] = Slice(c)[l]
      /\ \A l \in B : \A t \in Seat : ~(c[t] >= l) => m[l][t] = 0
      /\ \A l \in B, t \in Seat : n[t][l] = m[l][t]
  OBVIOUS
<1> HIDE DEF m, n, B, M
<1>8. \A l \in B, t \in Seat : m[l][t] \in Nat /\ n[t][l] = m[l][t]
  <2>1. 0 \in Nat
    BY SMT
  <2> QED BY <1>3, <1>4, <1>7, <2>1
<1>9. \A l \in B : Amount(c)[l] = SumFunctionOnSet(m[l], Seat)
  <2> SUFFICES ASSUME NEW l \in B PROVE Amount(c)[l] = SumFunctionOnSet(m[l], Seat)
    OBVIOUS
  <2> DEFINE C == Contributors(c, l)
             f == m[l]
             d == Slice(c)[l]
  <2>1. C \subseteq Seat /\ \A t \in Seat : t \in C <=> c[t] >= l
    BY DEF Contributors
  <2>2. IsFiniteSet(C) /\ Cardinality(C) \in Nat /\ d \in Nat
    BY <1>3, <1>4, <2>1, FS_Subset, FS_CardinalityType
  <2>3. /\ \A t \in Seat : f[t] \in Nat
        /\ \A t \in Seat \ C : f[t] = 0
        /\ \A t \in C : f[t] = d
    BY <1>7, <1>8, <2>1
  <2>4. Amount(c)[l] = d * Cardinality(C)
    BY <1>6
  <2> HIDE DEF C, f, d
  <2>5. SumFunctionOnSet(f, Seat) = SumFunctionOnSet(f, C)
    BY ONLY <1>4, <2>1, <2>3, SumSubset, SMT
  <2>6. SumFunctionOnSet(f, C) = Cardinality(C) * d
    BY ONLY <2>2, <2>3, SumConst, SMT
  <2>7. Amount(c)[l] = SumFunctionOnSet(f, Seat)
    BY <2>2, <2>4, <2>5, <2>6, SMT
  <2> QED BY <2>7 DEF f
<1>10. \A t \in Seat : Paid(c, x)[t] = SumFunctionOnSet(n[t], B)
  <2> SUFFICES ASSUME NEW t \in Seat PROVE Paid(c, x)[t] = SumFunctionOnSet(n[t], B)
    OBVIOUS
  <2> DEFINE y == MinOf(c[t], MinOf(x, M))
             f == n[t]
             E == LevelsUpTo(c, y)
  <2>1. c[t] \in Nat /\ c[t] \in Levels(c) \cup {0}
    BY <1>1
  <2>2. y = c[t] \/ y = x \/ y = M
    BY DEF MinOf
  <2>3. \A k \in Nat : k <= y <=> k <= c[t] /\ k <= x /\ k <= M
    BY <1>1, <1>2, <2>1, SMT DEF MinOf
  <2>4. Paid(c, x)[t] = y
    BY DEF Paid, M
  <2>5. y \in Levels(c) \cup {0}
    BY <1>2, <2>1, <2>2
  <2> HIDE DEF y, f, E
  <2>6. SumFunctionOnSet(Slice(c), E) = y
    BY <2>5, SlicesTelescope DEF E
  <2>7. \A k : k \in E <=> k \in Levels(c) /\ k <= y
    BY DEF E, LevelsUpTo
  <2>8. \A k : k \in E <=> k \in B /\ k <= c[t]
    BY <1>1, <1>5, <2>3, <2>7
  <2>9. \A k \in Levels(c) : k <= c[t] <=> c[t] >= k
    BY <1>1, <2>1, SMT
  <2>10. /\ E \subseteq B
         /\ \A l \in B : f[l] \in Nat
         /\ \A l \in B \ E : f[l] = 0
         /\ \A l \in E : f[l] = Slice(c)[l]
    <3>1. E \subseteq B
      BY <2>8
    <3>2. \A l \in B : f[l] \in Nat /\ f[l] = m[l][t]
      BY <1>8 DEF f
    <3>3. \A l \in B : l \in E <=> c[t] >= l
      BY <1>4, <2>8, <2>9
    <3>4. \A l \in B \ E : f[l] = 0
      BY <1>7, <3>2, <3>3
    <3>5. \A l \in E : f[l] = Slice(c)[l]
      BY <1>7, <3>1, <3>2, <3>3
    <3> QED BY <3>1, <3>2, <3>4, <3>5
  <2>11. IsFiniteSet(E)
    BY <1>4, <2>10, FS_Subset
  <2>12. SumFunctionOnSet(f, B) = SumFunctionOnSet(f, E)
    BY ONLY <1>4, <2>10, SumSubset, SMT
  <2>13. SumFunctionOnSet(f, E) = SumFunctionOnSet(Slice(c), E)
    BY ONLY <2>10, <2>11, SumSame, SMT
  <2> QED BY <2>4, <2>6, <2>12, <2>13 DEF f
<1>11. SumFunctionOnSet(Amount(c), B) = SumFunctionOnSet(Paid(c, x), Seat)
  <2> DEFINE r == Amount(c)
             p == Paid(c, x)
  <2>1. (\A l \in B : r[l] = SumFunctionOnSet(m[l], Seat)) /\ IsFiniteSet(B)
    BY <1>4, <1>9
  <2>2. (\A t \in Seat : p[t] = SumFunctionOnSet(n[t], B)) /\ IsFiniteSet(Seat)
    BY <1>4, <1>10
  <2> HIDE DEF r, p
  <2>3. SumFunctionOnSet(r, B) = SumFunctionOnSet(p, Seat)
    <3>1. IsTable(B, Seat, m, n, r, p)
      BY <1>8, <2>1, <2>2 DEF IsTable
    <3> QED BY ONLY <3>1, SumExchange, SMT
  <2> QED BY <2>3 DEF r, p
<1> QED BY <1>11 DEF B

\* All the layers together are the contested chips.
LEMMA LayersAreContested ==
    ASSUME NEW c \in [Seat -> Nat]
    PROVE  SumFunctionOnSet(Amount(c), LayerLevels(c)) = Contested(c)
<1> DEFINE M == MatchedUpTo(c)
<1>1. /\ M \in Levels(c) \cup {0} /\ M \in Nat
      /\ \A l \in Levels(c) : l \in LayerLevels(c) <=> l <= M
  BY LayersReachTheMatched
<1>2. LayersUpTo(c, M) = LayerLevels(c)
  BY <1>1, LevelsAreFinite DEF LayersUpTo
<1>3. MinOf(M, M) = M
  BY DEF MinOf
<1>4. Contested(c) = SumFunctionOnSet([s \in Seat |-> MinOf(c[s], M)], Seat)
  BY DEF Contested, SumFunction
<1>5. Paid(c, M) = [s \in Seat |-> MinOf(c[s], M)]
  BY <1>3 DEF Paid
<1>6. SumFunctionOnSet(Amount(c), LayersUpTo(c, M)) = SumFunctionOnSet(Paid(c, M), Seat)
  BY <1>1, LayersAddUp
<1> QED BY <1>2, <1>4, <1>5, <1>6

\* The layers a seat is in for are its claim.
LEMMA LayersAreTheClaim ==
    ASSUME NEW c \in [Seat -> Nat], NEW s \in Seat
    PROVE  SumFunctionOnSet(Amount(c), LayersUpTo(c, c[s])) = Claim(c, s)
<1>1. c[s] \in Levels(c) \cup {0}
  BY LevelsAreFinite
<1>2. SumFunctionOnSet(Amount(c), LayersUpTo(c, c[s])) = SumFunctionOnSet(Paid(c, c[s]), Seat)
  BY <1>1, LayersAddUp
<1>3. Claim(c, s) = SumFunctionOnSet(Paid(c, c[s]), Seat)
  BY DEF Claim, Paid, SumFunction
<1> QED BY <1>2, <1>3
-----------------------------------------------------------------------------
(***************************************************************************)
(* What the seats win: winners, shares and their sums.                     *)
(***************************************************************************)
Win(c, out, rank, l) == WinnerSeats(rank, EligibleSeats(c, out, l))

\* A showdown that is planned: every layer has a hand that can win it.
Showdown(c, out, rank) ==
    /\ c \in [Seat -> Nat] /\ rank \in [Seat -> Nat] /\ out \subseteq Seat
    /\ \A l \in LayerLevels(c) : EligibleSeats(c, out, l) # {}

\* What a seat gets of each layer, and of all of them.
Share(c, out, rank) ==
    [s \in Seat |-> [l \in LayerLevels(c) |->
        IF s \in Win(c, out, rank, l)
        THEN SplitAmount(Amount(c)[l], Win(c, out, rank, l))[s] ELSE 0]]
Wins(c, out, rank) ==
    [s \in Seat |-> SumFunctionOnSet(Share(c, out, rank)[s], LayerLevels(c))]

\* A layer someone can win has a winner.
LEMMA WinnersExist ==
    ASSUME NEW c, NEW out, NEW rank, Showdown(c, out, rank), NEW l \in LayerLevels(c)
    PROVE  /\ Win(c, out, rank, l) # {} /\ IsFiniteSet(Win(c, out, rank, l))
           /\ Win(c, out, rank, l) \subseteq Seat /\ Win(c, out, rank, l) \subseteq Nat
<1> DEFINE E == EligibleSeats(c, out, l)
           A == {rank[s] : s \in E}
<1>1. E # {} /\ E \subseteq Seat /\ rank \in [Seat -> Nat]
  BY DEF Showdown, EligibleSeats, Contributors
<1>2. IsFiniteSet(E)
  BY <1>1, SeatsAreNumbers, FS_Subset
<1> HIDE DEF E
<1>3. IsFiniteSet(A) /\ A \subseteq Nat /\ A # {}
  <2> DEFINE r == [s \in E |-> rank[s]]
  <2>1. r \in Surjection(E, A) /\ A \subseteq Nat /\ A # {}
    BY <1>1 DEF Surjection
  <2> HIDE DEF A, r
  <2> QED BY <1>2, <2>1, FS_Surjection
<1>4. PICK s \in E : rank[s] = Max(A)
  <2>1. \A a \in A : \E s \in E : rank[s] = a
    OBVIOUS
  <2> HIDE DEF A
  <2> QED BY <1>3, <2>1, MaxIsMember
<1>5. \A t \in E : rank[t] <= Max(A)
  <2>1. \A t \in E : rank[t] \in A
    OBVIOUS
  <2> HIDE DEF A
  <2> QED BY <1>3, <2>1, MaxIsMember
<1>6. s \in Win(c, out, rank, l)
  BY <1>4, <1>5 DEF Win, WinnerSeats, E
<1>7. Win(c, out, rank, l) \subseteq E
  BY DEF Win, WinnerSeats, E
<1>8. Win(c, out, rank, l) \subseteq Seat
  BY <1>1, <1>7
<1> QED BY <1>2, <1>6, <1>7, <1>8, FS_Subset, SeatsAreNumbers

\* The shares of one layer, and what is right about them.
Column(c, out, rank, l) == [s \in Seat |-> Share(c, out, rank)[s][l]]

SharedOut(c, W, l, column) ==
    /\ \A s \in Seat : column[s] \in Nat
    /\ \A s \in Seat \ W : column[s] = 0
    /\ \A s, t \in W : column[s] <= column[t] + 1
    /\ SumFunctionOnSet(column, Seat) = Amount(c)[l]
    /\ SumFunctionOnSet(column, W) = Amount(c)[l]
    /\ \A s \in Seat : column[s] <= Amount(c)[l]

\* The shares of a layer add up to it.
LEMMA SharesAddUp ==
    ASSUME NEW c, NEW out, NEW rank, Showdown(c, out, rank), NEW l \in LayerLevels(c)
    PROVE  SharedOut(c, Win(c, out, rank, l), l, Column(c, out, rank, l))
<1> DEFINE column == Column(c, out, rank, l)
           W == Win(c, out, rank, l)
           a == Amount(c)[l]
           split == SplitAmount(a, W)
<1>1. W # {} /\ IsFiniteSet(W) /\ W \subseteq Seat /\ W \subseteq Nat
  BY WinnersExist
<1>2. a \in Nat
  BY AmountIsPositive DEF Showdown
<1>3. \A s \in Seat : column[s] = IF s \in W THEN split[s] ELSE 0
  BY DEF Share, Column
<1> HIDE DEF column, W, a, split
<1>4. /\ SumFunctionOnSet(split, W) = a
      /\ \A s \in W : split[s] \in Nat
      /\ \A s, t \in W : split[s] <= split[t] + 1
  <2>1. /\ SumFunctionOnSet(SplitAmount(a, W), W) = a
        /\ \A s \in W : SplitAmount(a, W)[s] \in Nat
        /\ \A s, t \in W : SplitAmount(a, W)[s] <= SplitAmount(a, W)[t] + 1
    BY ONLY <1>1, <1>2, SplitConserves, Zenon
  <2> QED BY <2>1 DEF split
<1>5. /\ \A s \in Seat : column[s] \in Nat
      /\ \A s \in Seat \ W : column[s] = 0
      /\ \A s \in W : column[s] = split[s]
      /\ \A s, t \in W : column[s] <= column[t] + 1
  <2>1. 0 \in Nat
    BY SMT
  <2>2. (\A s \in Seat : column[s] \in Nat) /\ \A s \in W : column[s] = split[s]
    BY <1>1, <1>3, <1>4, <2>1
  <2>3. \A s \in Seat \ W : column[s] = 0
    BY <1>3
  <2> QED BY <1>4, <2>2, <2>3
<1>6. IsFiniteSet(Seat)
  BY SeatsAreNumbers
<1>7. SumFunctionOnSet(column, Seat) = SumFunctionOnSet(column, W)
  <2>1. W \subseteq Seat /\ (\A s \in Seat : column[s] \in Nat) /\ \A s \in Seat \ W : column[s] = 0
    BY <1>1, <1>5
  <2> QED BY ONLY <1>6, <2>1, SumSubset, SMT
<1>8. SumFunctionOnSet(column, W) = SumFunctionOnSet(split, W)
  <2>1. IsFiniteSet(W) /\ \A s \in W : column[s] = split[s]
    BY <1>1, <1>5
  <2> QED BY ONLY <2>1, SumSame, SMT
<1>9. \A s \in Seat : column[s] <= SumFunctionOnSet(column, Seat)
  BY <1>5, <1>6, SumMember
<1>10. /\ SumFunctionOnSet(column, Seat) = a /\ SumFunctionOnSet(column, W) = a
       /\ \A s \in Seat : column[s] <= a
  BY <1>4, <1>7, <1>8, <1>9
<1> QED BY <1>5, <1>10 DEF column, W, a, SharedOut

\* The same facts, seat by seat.
SharedBySeat(c, out, rank, share) ==
    /\ \A s \in Seat : \A l \in LayerLevels(c) : share[s][l] \in Nat
    /\ \A s \in Seat : \A l \in LayerLevels(c) : share[s][l] <= Amount(c)[l]
    /\ \A s \in Seat : \A l \in LayerLevels(c) :
           s \notin Win(c, out, rank, l) => share[s][l] = 0
    /\ \A s, t \in Seat : \A l \in LayerLevels(c) :
           s \in Win(c, out, rank, l) /\ t \in Win(c, out, rank, l) =>
               share[s][l] <= share[t][l] + 1
    /\ \A s \in Seat : \A l \in LayerLevels(c) :
           Win(c, out, rank, l) = {s} => share[s][l] = Amount(c)[l]

\* No share exceeds its layer, only winners have one, and a sole winner has all.
LEMMA ShareFacts ==
    ASSUME NEW c, NEW out, NEW rank, Showdown(c, out, rank)
    PROVE  SharedBySeat(c, out, rank, Share(c, out, rank))
<1> DEFINE share == Share(c, out, rank)
<1> SUFFICES ASSUME NEW l \in LayerLevels(c)
             PROVE  /\ \A s \in Seat : share[s][l] \in Nat
                    /\ \A s \in Seat : share[s][l] <= Amount(c)[l]
                    /\ \A s \in Seat : s \notin Win(c, out, rank, l) => share[s][l] = 0
                    /\ \A s, t \in Seat :
                           s \in Win(c, out, rank, l) /\ t \in Win(c, out, rank, l) =>
                               share[s][l] <= share[t][l] + 1
                    /\ \A s \in Seat :
                           Win(c, out, rank, l) = {s} => share[s][l] = Amount(c)[l]
  BY DEF SharedBySeat
<1> DEFINE column == Column(c, out, rank, l)
           W == Win(c, out, rank, l)
<1>1. /\ \A s \in Seat : column[s] \in Nat
      /\ \A s \in Seat \ W : column[s] = 0
      /\ \A s, t \in W : column[s] <= column[t] + 1
      /\ SumFunctionOnSet(column, W) = Amount(c)[l]
      /\ \A s \in Seat : column[s] <= Amount(c)[l]
  <2>1. SharedOut(c, W, l, column)
    BY SharesAddUp
  <2> HIDE DEF column, W
  <2> QED BY <2>1 DEF SharedOut
<1>2. \A s \in Seat : column[s] = share[s][l]
  BY DEF Column
<1>3. ASSUME NEW s \in Seat, W = {s}
      PROVE  column[s] = Amount(c)[l]
  <2> HIDE DEF column, W
  <2>1. IsFiniteSet({s}) /\ (\A x \in {s} : column[x] \in Nat) /\ {s} \ {s} = {} /\ s \in {s}
    BY <1>1, FS_Singleton
  <2>2. \A x \in {s} : SumFunctionOnSet(column, {s}) = column[x] + SumFunctionOnSet(column, {s} \ {x})
    BY <2>1, SumRemove
  <2>3. SumFunctionOnSet(column, {s} \ {s}) = 0
    BY <2>1, SumEmpty
  <2>4. SumFunctionOnSet(column, {s}) = column[s] + 0 /\ column[s] \in Nat
    BY <2>1, <2>2, <2>3
  <2>5. SumFunctionOnSet(column, {s}) = column[s]
    BY <2>4, SMT
  <2> QED BY <1>1, <1>3, <2>5
<1> HIDE DEF column, share
<1> QED BY <1>1, <1>2, <1>3

\* What the seats win adds up to the contested chips.
LEMMA WinsAddUp ==
    ASSUME NEW c, NEW out, NEW rank, Showdown(c, out, rank)
    PROVE  /\ \A s \in Seat : Wins(c, out, rank)[s] \in Nat
           /\ SumFunctionOnSet(Wins(c, out, rank), Seat) = Contested(c)
<1> DEFINE L == LayerLevels(c)
           share == Share(c, out, rank)
           column == [l \in L |-> Column(c, out, rank, l)]
           r == Wins(c, out, rank)
           a == Amount(c)
<1>1. IsFiniteSet(L) /\ IsFiniteSet(Seat) /\ c \in [Seat -> Nat]
  BY LevelsAreFinite, SeatsAreNumbers DEF Showdown
<1>2. \A s \in Seat : \A l \in L : share[s][l] \in Nat
  BY ShareFacts DEF SharedBySeat
<1>3. \A s \in Seat, l \in L : share[s][l] \in Nat /\ column[l][s] = share[s][l]
  BY <1>2 DEF Column
<1>4. \A s \in Seat : r[s] = SumFunctionOnSet(share[s], L)
  BY DEF Wins
<1>5. \A l \in L : a[l] = SumFunctionOnSet(column[l], Seat)
  BY SharesAddUp DEF SharedOut
<1> HIDE DEF L, share, column, r, a
<1>6. IsTable(Seat, L, share, column, r, a)
  BY <1>1, <1>3, <1>4, <1>5 DEF IsTable
<1>7. SumFunctionOnSet(r, Seat) = SumFunctionOnSet(a, L)
  BY ONLY <1>6, SumExchange, SMT
<1>8. SumFunctionOnSet(a, L) = Contested(c)
  BY <1>1, LayersAreContested DEF a, L
<1>9. \A s \in Seat : r[s] \in Nat
  BY <1>1, <1>2, <1>4, SumNat
<1> QED BY <1>7, <1>8, <1>9 DEF r

\* The gross amounts of the plan are what the seats win, without the zeros.
IsGross(c, out, rank, gross) ==
    /\ DOMAIN gross \subseteq Seat /\ gross \in [DOMAIN gross -> Nat]
    /\ \A s \in DOMAIN gross : gross[s] = Wins(c, out, rank)[s]
    /\ \A s \in Seat \ DOMAIN gross : Wins(c, out, rank)[s] = 0
    /\ SumFunction(gross) = Contested(c)

\* The code's gross amounts by seat are what the seats win.
LEMMA GrossIsWins ==
    ASSUME NEW c, NEW out, NEW rank, Showdown(c, out, rank)
    PROVE  IsGross(c, out, rank, GrossBySeat(BuildPotLayers(c, out), rank))
<1> DEFINE L == LayerLevels(c)
           layers == BuildPotLayers(c, out)
           share == Share(c, out, rank)
           Won(s) == {l \in L : s \in Win(c, out, rank, l)}
           Part(s) == [l \in Won(s) |-> SplitAmount(Amount(c)[l], Win(c, out, rank, l))[s]]
           G == {s \in Seat : Won(s) # {}}
           gross == GrossBySeat(layers, rank)
           wins == Wins(c, out, rank)
<1>1. IsFiniteSet(L) /\ IsFiniteSet(Seat) /\ c \in [Seat -> Nat]
  BY LevelsAreFinite, SeatsAreNumbers DEF Showdown
<1>2. /\ DOMAIN layers = L
      /\ \A l \in L : layers[l].amount = Amount(c)[l]
      /\ \A l \in L : layers[l].eligible = EligibleSeats(c, out, l)
  <2>1. \A l \in L : l \in Levels(c)
    BY <1>1, LevelsAreFinite
  <2> QED BY <2>1 DEF BuildPotLayers, PotLayer, Amount, Slice
<1>3. gross = [s \in G |-> SumFunction(Part(s))]
  <2> DEFINE Won2(s) == {l \in DOMAIN layers : s \in WinnerSeats(rank, layers[l].eligible)}
             Part2(s) == [l \in Won2(s) |->
                 SplitAmount(layers[l].amount, WinnerSeats(rank, layers[l].eligible))[s]]
  <2>1. gross = [s \in {t \in Seat : Won2(t) # {}} |-> SumFunction(Part2(s))]
    BY DEF GrossBySeat
  <2> HIDE DEF layers, gross
  <2>2. \A s : Won2(s) = Won(s)
    BY <1>2 DEF Win
  <2>3. \A s : Part2(s) = Part(s)
    <3> SUFFICES ASSUME NEW s PROVE Part2(s) = Part(s)
      OBVIOUS
    <3>1. \A l \in Won(s) : /\ layers[l].amount = Amount(c)[l]
                            /\ WinnerSeats(rank, layers[l].eligible) = Win(c, out, rank, l)
      BY <1>2 DEF Win
    <3> QED BY <2>2, <3>1
  <2>4. {t \in Seat : Won2(t) # {}} = G
    BY <2>2
  <2> HIDE DEF Won2, Part2, Won, Part, G
  <2> QED BY <2>1, <2>3, <2>4
<1>4. \A s \in Seat : \A l \in L : share[s][l] \in Nat
  BY ShareFacts DEF SharedBySeat
<1>5. ASSUME NEW s \in Seat
      PROVE  /\ SumFunction(Part(s)) = wins[s]
             /\ Won(s) = {} => wins[s] = 0
  <2> DEFINE W == Won(s)
             f == share[s]
             g == Part(s)
  <2>1. W \subseteq L /\ DOMAIN g = W
    OBVIOUS
  <2>2. \A l \in L : f[l] = IF l \in W THEN g[l] ELSE 0
    BY DEF Share
  <2>3. wins[s] = SumFunctionOnSet(f, L)
    BY DEF Wins
  <2>4. \A l \in L : f[l] \in Nat
    BY <1>4
  <2>5. SumFunction(Part(s)) = SumFunctionOnSet(g, W)
    BY DEF SumFunction
  <2>6. Won(s) = {} => W = {}
    OBVIOUS
  <2> HIDE DEF W, f, g, L
  <2>7. IsFiniteSet(W)
    BY <1>1, <2>1, FS_Subset
  <2>8. SumFunctionOnSet(f, L) = SumFunctionOnSet(f, W)
    <3>1. IsFiniteSet(L) /\ W \subseteq L /\ \A l \in L \ W : f[l] = 0
      BY <1>1, <2>1, <2>2
    <3> QED BY ONLY <2>4, <3>1, SumSubset, SMT
  <2>9. SumFunctionOnSet(f, W) = SumFunctionOnSet(g, W)
    <3>1. \A l \in W : f[l] = g[l]
      BY <2>1, <2>2
    <3> QED BY ONLY <2>7, <3>1, SumSame, SMT
  <2>10. W = {} => SumFunctionOnSet(g, W) = 0
    BY SumEmpty
  <2> QED BY <2>3, <2>5, <2>6, <2>8, <2>9, <2>10
<1>6. G \subseteq Seat /\ \A s \in Seat \ G : Won(s) = {}
  OBVIOUS
<1> HIDE DEF Won, Part, G, gross, wins
<1>7. /\ DOMAIN gross = G
      /\ \A s \in G : gross[s] = wins[s]
      /\ \A s \in Seat \ G : wins[s] = 0
      /\ gross = [s \in G |-> gross[s]]
  BY <1>3, <1>5, <1>6
<1>8. (\A s \in Seat : wins[s] \in Nat) /\ SumFunctionOnSet(wins, Seat) = Contested(c)
  BY WinsAddUp DEF wins
<1>9. gross \in [G -> Nat]
  BY <1>6, <1>7, <1>8
<1>10. SumFunction(gross) = Contested(c)
  <2>1. IsFiniteSet(G)
    BY <1>1, <1>6, FS_Subset
  <2>2. SumFunctionOnSet(wins, Seat) = SumFunctionOnSet(wins, G)
    <3>1. IsFiniteSet(Seat) /\ (\A s \in Seat : wins[s] \in Nat) /\ G \subseteq Seat
          /\ \A s \in Seat \ G : wins[s] = 0
      BY <1>1, <1>6, <1>7, <1>8
    <3> QED BY ONLY <3>1, SumSubset, SMT
  <2>3. SumFunctionOnSet(gross, G) = SumFunctionOnSet(wins, G)
    <3>1. \A s \in G : gross[s] = wins[s]
      BY <1>7
    <3> QED BY ONLY <2>1, <3>1, SumSame, SMT
  <2>4. SumFunction(gross) = SumFunctionOnSet(gross, G)
    BY <1>7 DEF SumFunction
  <2> QED BY <1>8, <2>2, <2>3, <2>4
<1>11. DOMAIN gross \subseteq Seat /\ gross \in [DOMAIN gross -> Nat]
  BY <1>6, <1>7, <1>9
<1>12. (\A s \in DOMAIN gross : gross[s] = wins[s]) /\ \A s \in Seat \ DOMAIN gross : wins[s] = 0
  BY <1>7
<1> QED BY <1>10, <1>11, <1>12 DEF IsGross, gross, wins

\* A folded seat wins nothing, the others at most their claim; the best hand alone
\* wins all of it.
LEMMA WinsAreClaims ==
    ASSUME NEW c, NEW out, NEW rank, Showdown(c, out, rank), NEW s \in Seat
    PROVE  /\ s \in out => Wins(c, out, rank)[s] = 0
           /\ Wins(c, out, rank)[s] <= Claim(c, s)
           /\ s \notin out /\ (\A t \in (Seat \ out) \ {s} : rank[t] < rank[s]) =>
                  Wins(c, out, rank)[s] = Claim(c, s)
<1> DEFINE L == LayerLevels(c)
           B == LayersUpTo(c, c[s])
           f == Share(c, out, rank)[s]
           a == Amount(c)
           w == Wins(c, out, rank)[s]
           Best == \A t \in (Seat \ out) \ {s} : rank[t] < rank[s]
<1>1. /\ IsFiniteSet(L) /\ c \in [Seat -> Nat] /\ rank \in [Seat -> Nat]
      /\ L \subseteq Levels(c) /\ Levels(c) \subseteq Nat
  BY LevelsAreFinite DEF Showdown
<1>2. /\ \A l \in L : f[l] \in Nat
      /\ \A l \in L : f[l] <= a[l]
      /\ \A l \in L : s \notin Win(c, out, rank, l) => f[l] = 0
      /\ \A l \in L : Win(c, out, rank, l) = {s} => f[l] = a[l]
  <2> DEFINE share == Share(c, out, rank)
  <2>1. SharedBySeat(c, out, rank, share)
    BY ShareFacts
  <2> HIDE DEF share
  <2>2. /\ \A l \in L : share[s][l] \in Nat
        /\ \A l \in L : share[s][l] <= a[l]
        /\ \A l \in L : s \notin Win(c, out, rank, l) => share[s][l] = 0
        /\ \A l \in L : Win(c, out, rank, l) = {s} => share[s][l] = a[l]
    BY <2>1 DEF SharedBySeat
  <2> QED BY <2>2 DEF share
<1>3. \A l \in L : s \in Win(c, out, rank, l) => s \notin out /\ c[s] >= l
  BY DEF Win, WinnerSeats, EligibleSeats, Contributors
<1>4. w = SumFunctionOnSet(f, L)
  BY DEF Wins
<1>5. B \subseteq L /\ \A l \in L : l \in B <=> l <= c[s]
  BY DEF LayersUpTo
<1>6. IsFiniteSet(B)
  BY <1>1, <1>5, FS_Subset
<1>7. \A l \in L : l <= c[s] <=> c[s] >= l
  <2>1. (\A l \in L : l \in Nat) /\ c[s] \in Nat
    BY <1>1
  <2> HIDE DEF L
  <2> QED BY <2>1, SMT
<1>8. \A l \in L : a[l] \in Nat
  BY <1>1, AmountIsPositive
<1>9. SumFunctionOnSet(a, B) = Claim(c, s)
  BY <1>1, LayersAreTheClaim
<1>10. ASSUME s \notin out, Best, NEW l \in B
       PROVE  Win(c, out, rank, l) = {s}
  <2> DEFINE E == EligibleSeats(c, out, l)
             W == Win(c, out, rank, l)
  <2>1. W # {} /\ W = {t \in E : \A u \in E : rank[u] <= rank[t]}
    <3>1. W # {}
      BY <1>5, WinnersExist
    <3>2. W = {t \in E : \A u \in E : rank[u] <= rank[t]}
      BY DEF Win, WinnerSeats
    <3> QED BY <3>1, <3>2
  <2>2. s \in E /\ E \subseteq Seat \ out
    <3>1. c[s] >= l
      BY <1>5, <1>7
    <3>2. E = {t \in Seat : c[t] >= l} \ out
      BY <1>1 DEF EligibleSeats, Contributors
    <3> HIDE DEF E
    <3> QED BY <1>10, <3>1, <3>2
  <2>3. \A t \in Seat : rank[t] \in Nat
    BY <1>1
  <2> HIDE DEF E, W
  <2>4. ASSUME NEW t \in W, t # s PROVE FALSE
    <3>1. t \in (Seat \ out) \ {s} /\ rank[s] <= rank[t]
      BY <2>1, <2>2, <2>4
    <3>2. rank[t] < rank[s]
      BY <1>10, <3>1
    <3>3. rank[t] \in Nat /\ rank[s] \in Nat
      BY <2>3, <3>1
    <3> QED BY <3>1, <3>2, <3>3, SMT
  <2> QED BY <2>1, <2>4 DEF W
<1> HIDE DEF L, B, f, a, w, Best
<1>11. \A l \in L \ B : f[l] = 0
  BY <1>2, <1>3, <1>5, <1>7
<1>12. w = SumFunctionOnSet(f, B)
  <2>1. SumFunctionOnSet(f, L) = SumFunctionOnSet(f, B)
    <3>1. (\A l \in L : f[l] \in Nat) /\ IsFiniteSet(L) /\ B \subseteq L
      BY <1>1, <1>2, <1>5
    <3> QED BY ONLY <1>11, <3>1, SumSubset, SMT
  <2> QED BY <1>4, <2>1
<1>13. w <= Claim(c, s)
  <2>1. \A l \in B : f[l] \in Nat /\ a[l] \in Nat /\ f[l] <= a[l] + 0
    <3>1. \A l \in B : f[l] \in Nat /\ a[l] \in Nat /\ f[l] <= a[l]
      BY <1>2, <1>5, <1>8
    <3> QED BY <3>1, SMT
  <2>2. SumFunctionOnSet(f, B) <= SumFunctionOnSet(a, B) + Cardinality(B) * 0
    BY ONLY <1>6, <2>1, SumBound, SMT
  <2>3. SumFunctionOnSet(a, B) \in Nat /\ SumFunctionOnSet(f, B) \in Nat /\ Cardinality(B) \in Nat
    BY <1>6, <2>1, SumNat, FS_CardinalityType
  <2>4. SumFunctionOnSet(f, B) <= SumFunctionOnSet(a, B)
    BY <2>2, <2>3, SMT
  <2> QED BY <1>9, <1>12, <2>4
<1>14. ASSUME s \in out PROVE w = 0
  <2>1. \A l \in L : f[l] = 0
    BY <1>2, <1>3, <1>14
  <2>2. SumFunctionOnSet(f, L) = Cardinality(L) * 0
    <3>1. 0 \in Nat
      BY SMT
    <3> QED BY ONLY <1>1, <2>1, <3>1, SumConst, SMT
  <2>3. Cardinality(L) \in Nat
    BY <1>1, FS_CardinalityType
  <2> QED BY <1>4, <2>2, <2>3, SMT
<1>15. ASSUME s \notin out, Best PROVE w = Claim(c, s)
  <2>1. \A l \in B : f[l] = a[l]
    BY <1>2, <1>5, <1>10, <1>15
  <2>2. SumFunctionOnSet(f, B) = SumFunctionOnSet(a, B)
    BY ONLY <1>6, <2>1, SumSame, SMT
  <2> QED BY <1>9, <1>12, <2>2
<1> QED BY <1>13, <1>14, <1>15 DEF w, Best

\* Equal hands with equal contributions win the same layers, up to an odd chip in each.
LEMMA EqualHandsWinAlike ==
    ASSUME NEW c, NEW out, NEW rank, Showdown(c, out, rank),
           NEW s \in Seat \ out, NEW t \in Seat \ out, rank[s] = rank[t], c[s] = c[t]
    PROVE  Wins(c, out, rank)[s] <= Wins(c, out, rank)[t] + Cardinality(LayerLevels(c))
<1> DEFINE L == LayerLevels(c)
           f == Share(c, out, rank)[s]
           g == Share(c, out, rank)[t]
           W(l) == Win(c, out, rank, l)
<1>1. IsFiniteSet(L) /\ c \in [Seat -> Nat]
  BY LevelsAreFinite DEF Showdown
<1>2. \A l \in L : s \in W(l) <=> t \in W(l)
  BY <1>1 DEF Win, WinnerSeats, EligibleSeats, Contributors
<1>3. /\ \A l \in L : f[l] \in Nat /\ g[l] \in Nat
      /\ \A l \in L : s \notin W(l) => f[l] = 0
      /\ \A l \in L : s \in W(l) /\ t \in W(l) => f[l] <= g[l] + 1
  <2> DEFINE share == Share(c, out, rank)
  <2>1. SharedBySeat(c, out, rank, share)
    BY ShareFacts
  <2> HIDE DEF share
  <2>2. /\ \A l \in L : share[s][l] \in Nat /\ share[t][l] \in Nat
        /\ \A l \in L : s \notin W(l) => share[s][l] = 0
        /\ \A l \in L : s \in W(l) /\ t \in W(l) => share[s][l] <= share[t][l] + 1
    BY <2>1 DEF SharedBySeat
  <2> QED BY <2>2 DEF share
<1>4. /\ Wins(c, out, rank)[s] = SumFunctionOnSet(f, L)
      /\ Wins(c, out, rank)[t] = SumFunctionOnSet(g, L)
  BY DEF Wins
<1> HIDE DEF L, f, g, W
<1>5. \A l \in L : f[l] \in Nat /\ g[l] \in Nat /\ f[l] <= g[l] + 1
  <2> SUFFICES ASSUME NEW l \in L PROVE f[l] \in Nat /\ g[l] \in Nat /\ f[l] <= g[l] + 1
    OBVIOUS
  <2>1. f[l] \in Nat /\ g[l] \in Nat /\ (f[l] = 0 \/ f[l] <= g[l] + 1)
    BY <1>2, <1>3
  <2> QED BY <2>1, SMT
<1>6. SumFunctionOnSet(f, L) <= SumFunctionOnSet(g, L) + Cardinality(L) * 1
  <2>1. 1 \in Nat
    BY SMT
  <2> QED BY ONLY <1>1, <1>5, <2>1, SumBound, SMT
<1>7. Cardinality(L) * 1 = Cardinality(L)
  <2>1. Cardinality(L) \in Nat
    BY <1>1, FS_CardinalityType
  <2> QED BY <2>1, SMT
<1> QED BY <1>4, <1>6, <1>7 DEF L
-----------------------------------------------------------------------------
(***************************************************************************)
(* The plan.                                                               *)
(***************************************************************************)
\* A plan of a showdown with something to win.
IsPlanOf(p, c, out, rank, bps) ==
    /\ Showdown(c, out, rank) /\ LayerLevels(c) # {} /\ bps \in RakeBps
    /\ p = BuildPlan(BuildPotLayers(c, out), rank, bps)

\* No product of the apportionment reaches the largest u128.
PotFitsMoney(c) == Contested(c) * Contested(c) <= MaxMoney

\* A quotient is at most what is divided, measured in divisors.
LEMMA QuotientBound ==
    ASSUME NEW a \in Nat, NEW b \in Nat, b > 0, NEW t \in Nat, a <= b * t
    PROVE  a \div b \in Nat /\ a \div b <= t
<1>1. a \div b \in Nat /\ a % b \in Nat /\ a = b * (a \div b) + (a % b)
  BY DivMod
<1> DEFINE q == a \div b
<1> HIDE DEF q
<1>2. q * b <= t * b /\ q \in Nat
  BY <1>1, SMT DEF q
<1>3. q <= t
  BY <1>2, MulCancel
<1> QED BY <1>2, <1>3 DEF q

\* A part of a whole is no more than all of it, even when the product saturates.
LEMMA ShareOf ==
    ASSUME NEW total \in Nat, NEW part \in Nat, NEW whole \in Nat, whole > 0, part <= whole
    PROVE  SatMul(total, part) \div whole \in Nat /\ SatMul(total, part) \div whole <= total
<1> DEFINE product == SatMul(total, part)
<1>1. part * total <= whole * total
  BY MulMono
<1>2. product \in Nat /\ product <= whole * total
  BY <1>1, MoneyIsNat, SMT DEF SatMul
<1> HIDE DEF product
<1>3. product \div whole \in Nat /\ product \div whole <= total
  BY <1>2, QuotientBound
<1> QED BY <1>3 DEF product

\* The rake is part of the pot.
LEMMA RakeIsPart ==
    ASSUME NEW total \in Nat, NEW bps \in RakeBps
    PROVE  RakeAmountFor(total, bps) \in Nat /\ RakeAmountFor(total, bps) <= total
<1>1. bps \in Nat /\ bps <= 10000 /\ 10000 \in Nat /\ 10000 > 0
  BY RakeIsAShare, SMT
<1>2. total \in Nat
  OBVIOUS
<1>3. /\ SatMul(total, bps) \div 10000 \in Nat
      /\ SatMul(total, bps) \div 10000 <= total
  BY ONLY <1>1, <1>2, ShareOf, SMT
<1> QED BY <1>3, SMT DEF RakeAmountFor

\* With a layer there is something to win.
LEMMA ContestedIsPositive ==
    ASSUME NEW c \in [Seat -> Nat], LayerLevels(c) # {}
    PROVE  Contested(c) \in Nat /\ Contested(c) > 0
<1> DEFINE L == LayerLevels(c)
           a == Amount(c)
<1>1. IsFiniteSet(L) /\ \A l \in L : a[l] \in Nat /\ a[l] > 0
  BY LevelsAreFinite, AmountIsPositive
<1>2. SumFunctionOnSet(a, L) = Contested(c)
  BY LayersAreContested
<1>3. PICK l \in L : TRUE
  OBVIOUS
<1> HIDE DEF L, a
<1>4. SumFunctionOnSet(a, L) \in Nat /\ a[l] <= SumFunctionOnSet(a, L)
  BY <1>1, <1>3, SumNat, SumMember
<1>5. a[l] \in Nat /\ a[l] > 0
  BY <1>1, <1>3
<1> QED BY <1>2, <1>4, <1>5, SMT

\* The fields of a plan.
LEMMA PlanFields ==
    ASSUME NEW p, NEW c, NEW out, NEW rank, NEW bps, IsPlanOf(p, c, out, rank, bps)
    PROVE  /\ IsGross(c, out, rank, p.gross) /\ p.rank = rank
           /\ p.rake \in Nat /\ p.rake <= Contested(c)
           /\ p.payouts = RestrictValues(ApportionByWeight(p.gross, Contested(c) - p.rake),
                                         LAMBDA amount : amount > 0)
<1> DEFINE gross == GrossBySeat(BuildPotLayers(c, out), rank)
           total == SumFunction(gross)
           rake == RakeAmountFor(total, bps)
<1>1. /\ Showdown(c, out, rank) /\ c \in [Seat -> Nat] /\ LayerLevels(c) # {}
      /\ bps \in RakeBps
  BY DEF IsPlanOf, Showdown
<1>2. IsGross(c, out, rank, gross)
  BY <1>1, GrossIsWins
<1>3. total = Contested(c)
  BY <1>2 DEF IsGross
<1>4. /\ p.gross = gross /\ p.rank = rank /\ p.rake = rake
      /\ p.payouts = RestrictValues(ApportionByWeight(gross, total - rake),
                                    LAMBDA amount : amount > 0)
  BY DEF IsPlanOf, BuildPlan
<1>5. Contested(c) \in Nat
  BY <1>1, ContestedIsPositive
<1> HIDE DEF gross, total
<1>6. rake \in Nat /\ rake <= Contested(c)
  BY <1>1, <1>3, <1>5, RakeIsPart
<1> HIDE DEF rake
<1> QED BY <1>2, <1>3, <1>4, <1>6

\* What the plan pays when no product saturates.
LEMMA PlanPays ==
    ASSUME NEW p, NEW c, NEW out, NEW rank, NEW bps, IsPlanOf(p, c, out, rank, bps),
           PotFitsMoney(c)
    PROVE  /\ CanApportion(DOMAIN p.gross, p.gross, Contested(c) - p.rake)
           /\ p.payouts = [s \in {t \in DOMAIN p.gross :
                  ApportionByWeight(p.gross, Contested(c) - p.rake)[t] > 0} |->
                      ApportionByWeight(p.gross, Contested(c) - p.rake)[s]]
<1> DEFINE T == Contested(c)
           target == T - p.rake
           gross == p.gross
           G == DOMAIN gross
           pay == ApportionByWeight(gross, target)
<1>1. c \in [Seat -> Nat] /\ LayerLevels(c) # {}
  BY DEF IsPlanOf, Showdown
<1>2. T \in Nat /\ T > 0
  BY <1>1, ContestedIsPositive
<1>3. /\ IsGross(c, out, rank, gross) /\ p.rake \in Nat /\ p.rake <= T
      /\ p.payouts = RestrictValues(pay, LAMBDA amount : amount > 0)
  BY PlanFields
<1>4. DOMAIN pay = G
  BY DEF ApportionByWeight
<1>5. p.payouts = [s \in {t \in G : pay[t] > 0} |-> pay[s]]
  BY <1>3, <1>4 DEF RestrictValues, Restrict
<1>6. T * T <= MaxMoney
  BY DEF PotFitsMoney
<1>7. G \subseteq Seat /\ gross \in [G -> Nat] /\ SumFunction(gross) = T
  BY <1>3 DEF IsGross
<1>8. IsFiniteSet(G) /\ G \subseteq Nat
  BY <1>7, SeatsAreNumbers, FS_Subset
<1> HIDE DEF T
<1>9. target \in Nat /\ target <= T
  BY <1>2, <1>3, SMT
<1>10. T * target <= MaxMoney
  <2> HIDE DEF target
  <2>1. target * T <= T * T
    BY <1>2, <1>9, MulMono
  <2> QED BY <1>2, <1>6, <1>9, <2>1, MoneyIsNat, SMT
<1>11. CanApportion(G, gross, target)
  BY <1>2, <1>7, <1>8, <1>9, <1>10 DEF CanApportion
<1> QED BY <1>5, <1>11 DEF T

\* The payouts and the rake of a plan are the contested chips.
LEMMA PlanIsExact ==
    ASSUME NEW p, NEW c, NEW out, NEW rank, NEW bps, IsPlanOf(p, c, out, rank, bps),
           PotFitsMoney(c)
    PROVE  SumFunction(p.payouts) + p.rake = Contested(c)
<1> DEFINE T == Contested(c)
           target == T - p.rake
           gross == p.gross
           G == DOMAIN gross
           pay == ApportionByWeight(gross, target)
           paid == p.payouts
           P == {t \in G : pay[t] > 0}
<1>1. c \in [Seat -> Nat] /\ LayerLevels(c) # {}
  BY DEF IsPlanOf, Showdown
<1>2. T \in Nat /\ p.rake \in Nat /\ p.rake <= T
  BY <1>1, ContestedIsPositive, PlanFields
<1>3. CanApportion(G, gross, target) /\ paid = [s \in P |-> pay[s]]
  BY PlanPays
<1>4. IsFiniteSet(G) /\ P \subseteq G
  BY <1>3 DEF CanApportion
<1>5. pay \in [G -> Nat] /\ SumFunctionOnSet(pay, G) = target
  BY <1>3, ApportionIsFair
<1>6. \A s \in G \ P : ~(pay[s] > 0)
  OBVIOUS
<1> HIDE DEF T, gross, G, pay, paid, P
<1>7. DOMAIN paid = P /\ \A s \in P : paid[s] = pay[s]
  BY <1>3
<1>8. /\ \A s \in G : pay[s] \in Nat
      /\ \A s \in G \ P : pay[s] = 0
  <2>1. \A s \in G : pay[s] \in Nat
    BY <1>5
  <2> QED BY <1>6, <2>1, SMT
<1>9. IsFiniteSet(P)
  BY <1>4, FS_Subset
<1>10. SumFunctionOnSet(pay, G) = SumFunctionOnSet(pay, P)
  BY ONLY <1>4, <1>8, SumSubset, SMT
<1>11. SumFunctionOnSet(paid, P) = SumFunctionOnSet(pay, P)
  <2>1. \A s \in P : paid[s] = pay[s]
    BY <1>7
  <2> QED BY ONLY <1>9, <2>1, SumSame, SMT
<1>12. SumFunction(paid) = SumFunctionOnSet(paid, P)
  BY <1>7 DEF SumFunction
<1>13. SumFunction(paid) = T - p.rake
  BY <1>5, <1>10, <1>11, <1>12
<1>14. SumFunction(paid) + p.rake = T
  BY <1>2, <1>13, SMT
<1> QED BY <1>14 DEF paid, T

\* What a plan pays a seat, 0 when it is left out.
At(f, s) == IF s \in DOMAIN f THEN f[s] ELSE 0

\* Every payout is within a chip of the exact share, and more is not paid less.
LEMMA PlanIsFair ==
    ASSUME NEW p, NEW c, NEW out, NEW rank, NEW bps, IsPlanOf(p, c, out, rank, bps),
           PotFitsMoney(c)
    PROVE  LET total == SumFunction(p.gross)
           IN  \A s \in Seat :
                 /\ At(p.payouts, s) * total < At(p.gross, s) * (total - p.rake) + total
                 /\ At(p.gross, s) * (total - p.rake) < At(p.payouts, s) * total + total
                 /\ \A t \in Seat : At(p.gross, s) > At(p.gross, t) =>
                        At(p.payouts, s) >= At(p.payouts, t)
<1> DEFINE T == Contested(c)
           target == T - p.rake
           gross == p.gross
           G == DOMAIN gross
           pay == ApportionByWeight(gross, target)
           paid == p.payouts
           P == {t \in G : pay[t] > 0}
<1>1. c \in [Seat -> Nat] /\ LayerLevels(c) # {}
  BY DEF IsPlanOf, Showdown
<1>2. T \in Nat /\ T > 0 /\ p.rake \in Nat /\ p.rake <= T
  BY <1>1, ContestedIsPositive, PlanFields
<1>3. CanApportion(G, gross, target) /\ paid = [s \in P |-> pay[s]]
  BY PlanPays
<1>4. SumFunction(gross) = T /\ gross \in [G -> Nat]
  BY PlanFields DEF IsGross
<1>5. /\ pay \in [G -> Nat]
      /\ \A s \in G : pay[s] * T < gross[s] * target + T
      /\ \A s \in G : gross[s] * target < pay[s] * T + T
      /\ \A s, t \in G : gross[s] > gross[t] => pay[s] >= pay[t]
  <2> HIDE DEF T, target, gross, G
  <2> QED BY <1>3, <1>4, ApportionIsFair
<1>6. P \subseteq G /\ \A s \in G : s \notin P => ~(pay[s] > 0)
  OBVIOUS
<1>7. target \in Nat
  <2> HIDE DEF T
  <2> QED BY <1>2, SMT
<1> HIDE DEF T, gross, G, pay, paid, P, target
<1>8. DOMAIN paid = P /\ \A s \in P : paid[s] = pay[s]
  BY <1>3
<1>9. \A s \in G : At(gross, s) = gross[s] /\ At(paid, s) = pay[s] /\ gross[s] \in Nat /\ pay[s] \in Nat
  <2> SUFFICES ASSUME NEW s \in G
               PROVE  At(gross, s) = gross[s] /\ At(paid, s) = pay[s] /\ gross[s] \in Nat /\ pay[s] \in Nat
    OBVIOUS
  <2>1. gross[s] \in Nat /\ pay[s] \in Nat /\ At(gross, s) = gross[s]
    BY <1>4, <1>5 DEF At, G
  <2>2. s \notin P => pay[s] = 0
    BY <1>6, <2>1, SMT
  <2>3. At(paid, s) = pay[s]
    BY <1>8, <2>2 DEF At
  <2> QED BY <2>1, <2>3
<1>10. \A s : s \notin G => At(gross, s) = 0 /\ At(paid, s) = 0
  BY <1>6, <1>8 DEF At, G
<1>11. ASSUME NEW s \in Seat
       PROVE  /\ At(paid, s) * T < At(gross, s) * target + T
              /\ At(gross, s) * target < At(paid, s) * T + T
  <2>1. CASE s \in G
    BY <1>5, <1>9, <2>1
  <2>2. CASE s \notin G
    <3>1. At(gross, s) = 0 /\ At(paid, s) = 0
      BY <1>10, <2>2
    <3> QED BY <1>2, <1>7, <3>1, SMT
  <2> QED BY <2>1, <2>2
<1>12. ASSUME NEW s \in Seat, NEW t \in Seat, At(gross, s) > At(gross, t)
       PROVE  At(paid, s) >= At(paid, t)
  <2>1. CASE s \in G /\ t \in G
    BY <1>5, <1>9, <1>12, <2>1
  <2>2. CASE s \in G /\ t \notin G
    <3>1. At(paid, s) \in Nat /\ At(paid, t) = 0
      BY <1>9, <1>10, <2>2
    <3> QED BY <3>1, SMT
  <2>3. CASE s \notin G
    <3>1. At(gross, s) = 0 /\ (At(gross, t) = 0 \/ At(gross, t) \in Nat)
      BY <1>9, <1>10, <2>3
    <3> QED BY <1>12, <3>1, SMT
  <2> QED BY <2>1, <2>2, <2>3
<1>13. target = SumFunction(p.gross) - p.rake /\ SumFunction(p.gross) = T
  BY <1>4 DEF target, gross
<1> QED BY <1>11, <1>12, <1>13 DEF gross, paid
-----------------------------------------------------------------------------
(***************************************************************************)
(* The specification.  Once there is a plan, neither the contributions nor *)
(* the folds change: the plan is always the plan of the current state.     *)
(***************************************************************************)
HasPlan(p, c, out) ==
    \/ p = [status |-> "none"]
    \/ p = [status |-> "refused"]
    \/ \E rank \in [Seat -> Ranks] : \E bps \in RakeBps : IsPlanOf(p, c, out, rank, bps)

IInv ==
    /\ contrib \in [Seat -> Nat] /\ folded \subseteq Seat
    /\ \A s \in Seat : contrib[s] <= MaxPut
    /\ HasPlan(plan, contrib, folded)

\* The blinds are in, and there is no plan.
LEMMA InitIInv ==
    Init => IInv
<1> SUFFICES ASSUME Init PROVE IInv
  OBVIOUS
<1>1. PICK sb \in Seat, bb \in Seat :
          contrib = [s \in Seat |-> IF s = sb THEN 1 ELSE IF s = bb THEN 2 ELSE 0]
  BY DEF Init
<1>2. \A s \in Seat : contrib[s] \in {0, 1, 2}
  BY <1>1
<1>3. \A k \in {0, 1, 2} : k \in Nat /\ k <= MaxPut
  BY MoneyIsNat, BlindsFit, SMT
<1>4. contrib \in [Seat -> Nat] /\ \A s \in Seat : contrib[s] <= MaxPut
  <2>1. contrib = [s \in Seat |-> contrib[s]]
    BY <1>1
  <2> QED BY <1>2, <1>3, <2>1
<1>5. folded \subseteq Seat /\ plan = [status |-> "none"]
  BY DEF Init
<1> QED BY <1>4, <1>5 DEF IInv, HasPlan

\* Settling computes the plan of the state, or refuses.
LEMMA PlanIsOfTheState ==
    ASSUME IInv, NEW rank \in [Seat -> Ranks], NEW bps \in RakeBps
    PROVE  HasPlan(Plan(rank, bps), contrib, folded)
<1> DEFINE layers == BuildPotLayers(contrib, folded)
           Refused == DOMAIN layers = {} \/ \E l \in DOMAIN layers : layers[l].eligible = {}
<1>1. Plan(rank, bps) = IF Refused THEN [status |-> "refused"] ELSE BuildPlan(layers, rank, bps)
  BY DEF Plan
<1>2. /\ DOMAIN layers = LayerLevels(contrib)
      /\ \A l \in LayerLevels(contrib) :
             layers[l].eligible = EligibleSeats(contrib, folded, l)
  BY DEF BuildPotLayers, PotLayer
<1>3. CASE Refused
  BY <1>1, <1>3 DEF HasPlan
<1>4. CASE ~Refused
  <2>1. rank \in [Seat -> Nat]
    BY RanksAreNumbers
  <2>2. /\ LayerLevels(contrib) # {}
        /\ \A l \in LayerLevels(contrib) : EligibleSeats(contrib, folded, l) # {}
    BY <1>2, <1>4
  <2>3. Showdown(contrib, folded, rank)
    BY <2>1, <2>2 DEF Showdown, IInv
  <2>4. Plan(rank, bps) = BuildPlan(layers, rank, bps)
    BY <1>1, <1>4
  <2> HIDE DEF Refused
  <2>5. IsPlanOf(Plan(rank, bps), contrib, folded, rank, bps)
    BY <2>2, <2>3, <2>4 DEF IsPlanOf
  <2> QED BY <2>5 DEF HasPlan
<1> QED BY <1>3, <1>4

\* Before the showdown there is no plan to be of the state.
LEMMA NoPlanYet ==
    ASSUME NEW p, NEW c, NEW out, HasPlan(p, c, out), p.status = "none"
    PROVE  p = [status |-> "none"]
<1>1. CASE p = [status |-> "refused"]
  <2>1. p.status = "refused"
    BY <1>1
  <2> QED BY <2>1, SMT
<1>2. CASE \E rank \in [Seat -> Ranks] : \E bps \in RakeBps : IsPlanOf(p, c, out, rank, bps)
  <2>1. p.status = "planned"
    <3>1. PICK rank, bps : IsPlanOf(p, c, out, rank, bps)
      BY <1>2
    <3>2. p = BuildPlan(BuildPotLayers(c, out), rank, bps)
      BY <3>1 DEF IsPlanOf
    <3> QED BY <3>2 DEF BuildPlan
  <2> QED BY <2>1, SMT
<1> QED BY <1>1, <1>2 DEF HasPlan

\* Nothing changes the contributions or the folds once there is a plan.
LEMMA NextIInv ==
    IInv /\ [Next]_vars => IInv'
<1> SUFFICES ASSUME IInv, [Next]_vars PROVE IInv'
  OBVIOUS
<1>1. ASSUME NEW s \in Seat, FoldSeat(s) PROVE IInv'
  <2>1. /\ plan = [status |-> "none"] /\ plan' = plan /\ contrib' = contrib
        /\ folded' = folded \cup {s}
    BY <1>1, NoPlanYet DEF IInv, FoldSeat
  <2> QED BY <2>1 DEF IInv, HasPlan
<1>2. ASSUME NEW s \in Seat, NEW n \in 1 .. MaxPut, PutIn(s, n) PROVE IInv'
  <2>1. /\ plan = [status |-> "none"] /\ plan' = plan /\ folded' = folded
        /\ contrib' = [contrib EXCEPT ![s] = contrib[s] + n]
        /\ contrib[s] + n <= MaxPut
    BY <1>2, NoPlanYet DEF IInv, PutIn
  <2>2. contrib[s] + n \in Nat
    <3>1. contrib[s] \in Nat
      BY DEF IInv
    <3> QED BY <3>1, MoneyIsNat, SMT
  <2>3. /\ contrib' \in [Seat -> Nat]
        /\ \A t \in Seat : contrib'[t] = IF t = s THEN contrib[s] + n ELSE contrib[t]
    BY <2>1, <2>2 DEF IInv
  <2>4. \A t \in Seat : contrib'[t] <= MaxPut
    BY <2>1, <2>3 DEF IInv
  <2> QED BY <2>1, <2>3, <2>4 DEF IInv, HasPlan
<1>3. ASSUME NEW rank \in [Seat -> Ranks], NEW bps \in RakeBps, Settle(rank, bps) PROVE IInv'
  <2>1. plan' = Plan(rank, bps) /\ contrib' = contrib /\ folded' = folded
    BY <1>3 DEF Settle
  <2>2. HasPlan(Plan(rank, bps), contrib, folded)
    BY PlanIsOfTheState
  <2>3. HasPlan(plan', contrib', folded')
    BY <2>1, <2>2
  <2> QED BY <2>1, <2>3 DEF IInv
<1>4. CASE UNCHANGED vars
  BY <1>4 DEF IInv, vars
<1> QED BY <1>1, <1>2, <1>3, <1>4 DEF Next

\* The inductive invariant.
LEMMA AlwaysIInv ==
    Spec => []IInv
<1> QED BY InitIInv, NextIInv, PTL DEF Spec

\* A plan in a reachable state is the plan of its contributions and folds.
LEMMA PlannedIsPlan ==
    ASSUME IInv, Planned
    PROVE  \E rank, bps : IsPlanOf(plan, contrib, folded, rank, bps)
<1>1. plan.status = "planned"
  BY DEF Planned
<1>2. plan # [status |-> "none"] /\ plan # [status |-> "refused"]
  BY <1>1, SMT
<1> QED BY <1>2 DEF IInv, HasPlan
-----------------------------------------------------------------------------
\* No seat wins more than its claim, the best hand wins all of it and a folded seat
\* nothing, for any seats, contributions, folds and ranks, whatever saturates: the
\* layers up to a seat's contribution add up to its claim (build_pot_layers,
\* evaluate_showdown_for_eligible, split_amount_deterministic).
THEOREM WinsStayWithinClaims ==
    Spec => []WinsUpToItsClaim
<1>1. IInv => WinsUpToItsClaim
  <2> SUFFICES ASSUME IInv, Planned
               PROVE  /\ \A s \in folded : GrossOf(s) = 0
                      /\ \A s \in NotFolded :
                           /\ GrossOf(s) <= Claim(contrib, s)
                           /\ (\A t \in NotFolded \ {s} : plan.rank[t] < plan.rank[s]) =>
                                  GrossOf(s) = Claim(contrib, s)
    BY DEF WinsUpToItsClaim
  <2>1. PICK rank, bps : IsPlanOf(plan, contrib, folded, rank, bps)
    BY PlannedIsPlan
  <2>2. Showdown(contrib, folded, rank) /\ folded \subseteq Seat
    BY <2>1 DEF IsPlanOf, IInv
  <2>3. IsGross(contrib, folded, rank, plan.gross) /\ plan.rank = rank
    BY <2>1, PlanFields
  <2>4. \A s \in Seat : GrossOf(s) = Wins(contrib, folded, rank)[s]
    BY <2>3 DEF IsGross, GrossOf
  <2>5. \A s \in Seat :
          /\ s \in folded => Wins(contrib, folded, rank)[s] = 0
          /\ Wins(contrib, folded, rank)[s] <= Claim(contrib, s)
          /\ s \notin folded /\ (\A t \in (Seat \ folded) \ {s} : rank[t] < rank[s]) =>
                 Wins(contrib, folded, rank)[s] = Claim(contrib, s)
    <3> SUFFICES ASSUME NEW s \in Seat
                 PROVE  /\ s \in folded => Wins(contrib, folded, rank)[s] = 0
                        /\ Wins(contrib, folded, rank)[s] <= Claim(contrib, s)
                        /\ s \notin folded /\ (\A t \in (Seat \ folded) \ {s} : rank[t] < rank[s]) =>
                               Wins(contrib, folded, rank)[s] = Claim(contrib, s)
      OBVIOUS
    <3>1. s \in Seat
      OBVIOUS
    <3> QED BY ONLY <2>2, <3>1, WinsAreClaims, SMT
  <2>6. NotFolded = Seat \ folded
    BY DEF NotFolded
  <2> QED BY <2>2, <2>3, <2>4, <2>5, <2>6
<1> QED BY <1>1, AlwaysIInv, PTL

\* Equal hands that put in the same win the same up to one odd chip a layer, for any
\* number of winners and layers (split_amount_deterministic).
THEOREM EqualHandsAlwaysWinEqually ==
    Spec => []EqualHandsWinEqually
<1>1. IInv => EqualHandsWinEqually
  <2> SUFFICES ASSUME IInv, Planned, NEW s \in NotFolded, NEW t \in NotFolded,
                      plan.rank[s] = plan.rank[t], contrib[s] = contrib[t]
               PROVE  GrossOf(s) <= GrossOf(t) + Cardinality(LayerLevels(contrib))
    BY DEF EqualHandsWinEqually
  <2>1. PICK rank, bps : IsPlanOf(plan, contrib, folded, rank, bps)
    BY PlannedIsPlan
  <2>2. Showdown(contrib, folded, rank)
    BY <2>1 DEF IsPlanOf
  <2>3. IsGross(contrib, folded, rank, plan.gross) /\ plan.rank = rank
    BY <2>1, PlanFields
  <2>4. \A u \in Seat : GrossOf(u) = Wins(contrib, folded, rank)[u]
    BY <2>3 DEF IsGross, GrossOf
  <2>5. s \in Seat \ folded /\ t \in Seat \ folded /\ rank[s] = rank[t]
    BY <2>3 DEF NotFolded
  <2>6. Wins(contrib, folded, rank)[s]
            <= Wins(contrib, folded, rank)[t] + Cardinality(LayerLevels(contrib))
    BY <2>2, <2>5, EqualHandsWinAlike
  <2> QED BY <2>4, <2>5, <2>6
<1> QED BY <1>1, AlwaysIInv, PTL

\* The payouts and the rake of a plan are the contested chips, for any seats,
\* contributions, ranks and rake, as long as the square of the pot stays below the
\* largest u128 (build_plan_from_pot_awards, apportion_by_weight).
THEOREM PlansConserve ==
    Spec => [](PotFitsMoney(contrib) => PlanConserves)
<1>1. IInv => (PotFitsMoney(contrib) => PlanConserves)
  <2> SUFFICES ASSUME IInv, PotFitsMoney(contrib), Planned
               PROVE  SumFunction(plan.payouts) + plan.rake = Contested(contrib)
    BY DEF PlanConserves
  <2>1. PICK rank, bps : IsPlanOf(plan, contrib, folded, rank, bps)
    BY PlannedIsPlan
  <2> QED BY <2>1, PlanIsExact
<1> QED BY <1>1, AlwaysIInv, PTL

\* Under the same condition every payout is within one chip of the exact share and
\* keeps the order of the gross amounts (apportion_by_weight).
THEOREM SharesStayFair ==
    Spec => [](PotFitsMoney(contrib) => SharesAreFair)
<1>1. IInv => (PotFitsMoney(contrib) => SharesAreFair)
  <2> SUFFICES ASSUME IInv, PotFitsMoney(contrib), Planned
               PROVE  LET total == SumFunction(plan.gross)
                      IN  \A s \in Seat :
                            /\ PaidTo(s) * total < GrossOf(s) * (total - plan.rake) + total
                            /\ GrossOf(s) * (total - plan.rake) < PaidTo(s) * total + total
                            /\ \A t \in Seat : GrossOf(s) > GrossOf(t) => PaidTo(s) >= PaidTo(t)
    BY DEF SharesAreFair
  <2>1. PICK rank, bps : IsPlanOf(plan, contrib, folded, rank, bps)
    BY PlannedIsPlan
  <2>2. \A s : PaidTo(s) = At(plan.payouts, s) /\ GrossOf(s) = At(plan.gross, s)
    BY DEF PaidTo, GrossOf, At
  <2> QED BY <2>1, <2>2, PlanIsFair
<1> QED BY <1>1, AlwaysIInv, PTL

\* The pot of a hand in which nobody puts in more than MaxPut.
LEMMA PotIsBounded ==
    ASSUME IInv,
           (Cardinality(Seat) * MaxPut) * (Cardinality(Seat) * MaxPut) <= MaxMoney
    PROVE  PotFitsMoney(contrib)
<1> DEFINE M == MatchedUpTo(contrib)
           f == [s \in Seat |-> MinOf(contrib[s], M)]
           z == [s \in Seat |-> 0]
           N == Cardinality(Seat) * MaxPut
           T == Contested(contrib)
<1>1. contrib \in [Seat -> Nat] /\ \A s \in Seat : contrib[s] <= MaxPut
  BY DEF IInv
<1>2. M \in Nat
  BY <1>1, LayersReachTheMatched
<1>3. T = SumFunctionOnSet(f, Seat)
  BY <1>1 DEF Contested, SumFunction
<1>4. \A s \in Seat : f[s] = MinOf(contrib[s], M) /\ z[s] = 0
  OBVIOUS
<1>5. IsFiniteSet(Seat) /\ Cardinality(Seat) \in Nat
  BY SeatsAreNumbers, FS_CardinalityType
<1>6. N * N <= MaxMoney
  OBVIOUS
<1> HIDE DEF f, z, M, T
<1>7. \A s \in Seat : f[s] \in Nat /\ z[s] \in Nat /\ f[s] <= z[s] + MaxPut
  <2>1. \A s \in Seat : contrib[s] \in Nat /\ contrib[s] <= MaxPut
    BY <1>1
  <2> QED BY <1>2, <1>4, <2>1, MoneyIsNat, SMT DEF MinOf
<1>8. SumFunctionOnSet(f, Seat) <= SumFunctionOnSet(z, Seat) + N
  BY ONLY <1>5, <1>7, MoneyIsNat, SumBound, SMT
<1>9. SumFunctionOnSet(z, Seat) = Cardinality(Seat) * 0
  <2>1. 0 \in Nat /\ \A s \in Seat : z[s] = 0
    BY <1>4, SMT
  <2> QED BY ONLY <1>5, <2>1, SumConst, SMT
<1>10. SumFunctionOnSet(f, Seat) \in Nat
  BY <1>5, <1>7, SumNat
<1>11. N \in Nat
  BY <1>5, MoneyIsNat, SMT
<1> HIDE DEF N
<1>12. T \in Nat /\ T <= N
  BY <1>3, <1>5, <1>8, <1>9, <1>10, <1>11, SMT
<1>13. T * T <= N * T /\ T * N <= N * N
  BY <1>11, <1>12, MulMono
<1>14. T * T <= MaxMoney
  BY <1>6, <1>11, <1>12, <1>13, MoneyIsNat, SMT
<1> QED BY <1>14 DEF PotFitsMoney, T

\* With stakes that cannot reach the square root of the largest u128 the condition
\* always holds: every plan conserves the pot and is fair.
THEOREM SmallStakesArePaidExactly ==
    ASSUME (Cardinality(Seat) * MaxPut) * (Cardinality(Seat) * MaxPut) <= MaxMoney
    PROVE  Spec => [](PlanConserves /\ SharesAreFair)
<1>1. IInv => PotFitsMoney(contrib)
  BY PotIsBounded
<1> QED BY <1>1, AlwaysIInv, PlansConserve, SharesStayFair, PTL
=============================================================================
