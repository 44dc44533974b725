----------------------------- MODULE FiniteSums -----------------------------
(* Induction over the subsets of a finite set, and what it proves about    *)
(* the sums that the amounts of the ledger and of an execution are.        *)
(*                                                                         *)
(* The library's induction theorems take the predicate as an operator.     *)
(* Here it is a set, the set of the subsets it holds of, so that a proof   *)
(* can cite them; what is needed of the well-founded order comes from      *)
(* theorems that speak of sets only.                                       *)
EXTENDS Integers, FiniteSets, FiniteSetsExt, FiniteSetTheorems, TLAPS

\* What holds of a set as soon as it holds of every smaller one holds.
LEMMA SubsetInduction ==
  ASSUME NEW S, IsFiniteSet(S), NEW Q,
         \A T \in SUBSET S : (\A U \in SUBSET T : U # T => U \in Q) => T \in Q
  PROVE  SUBSET S \subseteq Q
  <1> DEFINE Bad == (SUBSET S) \ Q
  <1>1. SUFFICES ASSUME Bad # {} PROVE FALSE
    OBVIOUS
  <1>2. IsWellFoundedOn(StrictSubsetOrdering(S), SUBSET S)
    BY FS_StrictSubsetOrderingWellFounded, FS_FiniteSubsetsOfFinite
  <1>3. PICK T \in Bad : \A U \in Bad : ~(<<U, T>> \in StrictSubsetOrdering(S))
    <2>1. Bad \subseteq SUBSET S
      OBVIOUS
    <2> HIDE DEF Bad
    <2>2. QED
      BY <1>1, <1>2, <2>1, WFMin
  <1>4. ASSUME NEW U \in SUBSET T, U # T
        PROVE  U \in Q
    <2>1. <<U, T>> \in StrictSubsetOrdering(S)
      BY <1>4 DEF StrictSubsetOrdering
    <2>2. QED
      BY <1>3, <2>1
  <1>5. QED
    BY <1>3, <1>4

\* The same for numbers up to a bound, one after the other.
LEMMA CountingUp ==
  ASSUME NEW N \in Nat, NEW Q, 0 \in Q, \A n \in 0..(N - 1) : n \in Q => n + 1 \in Q
  PROVE  \A n \in 0..N : n \in Q
  <1> DEFINE Upto == 1..N
             Reached == {T \in SUBSET Upto : \A k \in 0..N : T = 1..k => k \in Q}
  <1>1. ASSUME NEW T \in SUBSET Upto, \A U \in SUBSET T : U # T => U \in Reached,
               NEW k \in 0..N, T = 1..k
        PROVE  k \in Q
    <2>1. CASE k = 0
      BY <2>1
    <2>2. CASE k # 0
      <3>1. /\ k - 1 \in 0..(N - 1) /\ k - 1 \in 0..N /\ (k - 1) + 1 = k
            /\ 1..(k - 1) \in SUBSET T /\ k \in T /\ k \notin 1..(k - 1)
        BY <1>1, <2>2
      <3>2. 1..(k - 1) \in Reached
        BY <1>1, <3>1
      <3>3. k - 1 \in Q
        BY <3>1, <3>2
      <3>4. QED
        BY <3>1, <3>3
    <2>3. QED
      BY <2>1, <2>2
  <1>2. \A T \in SUBSET Upto : (\A U \in SUBSET T : U # T => U \in Reached) => T \in Reached
    BY <1>1
  <1>3. IsFiniteSet(Upto)
    BY FS_Interval
  <1> HIDE DEF Reached, Upto
  <1>4. SUBSET Upto \subseteq Reached
    BY <1>2, <1>3, SubsetInduction
  <1>5. ASSUME NEW k \in 0..N PROVE k \in Q
    <2>1. 1..k \in Reached
      BY <1>4 DEF Upto
    <2>2. QED
      BY <2>1 DEF Reached
  <1>6. QED
    BY <1>5

-----------------------------------------------------------------------------
(* The sum is well defined *)

Sum(amounts, S) == MapThenSumSet(LAMBDA k : amounts[k], S)

\* The element the fold removes first.
First(s) == CHOOSE x \in s : TRUE

\* g adds up the amounts of every subset of S, one element at a time.
Adds(amounts, S, g) ==
  g = [s \in SUBSET S |->
          IF s = {} THEN 0 ELSE amounts[First(s)] + g[s \ {First(s)}]]

Adder(amounts, S) == CHOOSE g : Adds(amounts, S, g)

LEMMA SumIsFold ==
  ASSUME NEW amounts, NEW S
  PROVE  Sum(amounts, S) = Adder(amounts, S)[S]
  BY DEF Sum, MapThenSumSet, MapThenFoldSet, Adds, Adder, First

LEMMA FirstIsElement == \A s : s # {} => First(s) \in s
  BY DEF First

\* How a fold reads a set, whatever set it was made for.
LEMMA AddsReads ==
  ASSUME NEW amounts, NEW S, NEW g, Adds(amounts, S, g), NEW s \in SUBSET S
  PROVE  g[s] = IF s = {} THEN 0 ELSE amounts[First(s)] + g[s \ {First(s)}]
  BY DEF Adds

LEMMA AddsAgree ==
  ASSUME NEW amounts, NEW S, NEW T, NEW g, NEW h, IsFiniteSet(S),
         Adds(amounts, S, g), Adds(amounts, T, h), S \subseteq T
  PROVE  \A s \in SUBSET S : g[s] = h[s]
  <1> DEFINE Q == {s \in SUBSET S : g[s] = h[s]}
  <1>1. ASSUME NEW s \in SUBSET S, \A u \in SUBSET s : u # s => u \in Q
        PROVE  s \in Q
    <2>1. s # {} => s \ {First(s)} \in SUBSET s /\ s \ {First(s)} # s
      BY FirstIsElement
    <2>2. s # {} => g[s \ {First(s)}] = h[s \ {First(s)}]
      BY <1>1, <2>1
    <2>3. s \in SUBSET T
      OBVIOUS
    <2>4. g[s] = h[s]
      BY <2>2, <2>3, AddsReads
    <2>5. QED
      BY <2>4
  <1>2. SUBSET S \subseteq Q
    <2> HIDE DEF Q
    <2>1. QED
      BY <1>1, SubsetInduction
  <1>3. QED
    BY <1>2

LEMMA AdderAdds ==
  ASSUME NEW amounts, NEW S, IsFiniteSet(S)
  PROVE  Adds(amounts, S, Adder(amounts, S))
  <1> DEFINE Q == {T \in SUBSET S : \E g : Adds(amounts, T, g)}
             Rest(s) == s \ {First(s)}
  <1>1. ASSUME NEW T \in SUBSET S, \A U \in SUBSET T : U # T => U \in Q
        PROVE  T \in Q
    <2> DEFINE g == [s \in SUBSET T |->
                        IF s = {} THEN 0
                        ELSE amounts[First(s)] + Adder(amounts, Rest(s))[Rest(s)]]
    <2>1. ASSUME NEW U \in SUBSET T, U # T
          PROVE  Adds(amounts, U, Adder(amounts, U)) /\ IsFiniteSet(U)
      <3>1. PICK h : Adds(amounts, U, h)
        BY <1>1, <2>1
      <3>2. Adds(amounts, U, Adder(amounts, U))
        BY <3>1 DEF Adder
      <3>3. IsFiniteSet(U)
        BY FS_Subset
      <3>4. QED
        BY <3>2, <3>3
    <2>2. ASSUME NEW U \in SUBSET T, U # T
          PROVE  g[U] = Adder(amounts, U)[U]
      <3>1. CASE U = {}
        BY <2>1, <2>2, <3>1, AddsReads
      <3>2. CASE U # {}
        <4>1. Rest(U) \in SUBSET T /\ Rest(U) # T /\ Rest(U) \subseteq U /\ Rest(U) # U
          BY <2>2, <3>2, FirstIsElement
        <4>2. Adder(amounts, Rest(U))[Rest(U)] = Adder(amounts, U)[Rest(U)]
          <5>1. /\ Adds(amounts, Rest(U), Adder(amounts, Rest(U)))
                /\ Adds(amounts, U, Adder(amounts, U))
                /\ IsFiniteSet(Rest(U))
            BY <2>1, <2>2, <4>1
          <5>2. Rest(U) \in SUBSET Rest(U)
            OBVIOUS
          <5> HIDE DEF Rest
          <5>3. QED
            BY <4>1, <5>1, <5>2, AddsAgree
        <4>3. Adder(amounts, U)[U] = amounts[First(U)] + Adder(amounts, U)[Rest(U)]
          BY <2>1, <2>2, <3>2, AddsReads
        <4>4. QED
          BY <2>2, <3>2, <4>2, <4>3
      <3>3. QED
        BY <3>1, <3>2
    <2>3. \A s \in SUBSET T : s # {} => Rest(s) \in SUBSET T /\ Rest(s) # T
      BY FirstIsElement
    <2>4. g = [s \in SUBSET T |->
                  IF s = {} THEN 0 ELSE amounts[First(s)] + g[Rest(s)]]
      <3>1. \A s \in SUBSET T : s # {} => g[Rest(s)] = Adder(amounts, Rest(s))[Rest(s)]
        BY <2>2, <2>3
      <3>2. QED
        BY <3>1
    <2>5. QED
      BY <2>4 DEF Adds
  <1>2. SUBSET S \subseteq Q
    <2> HIDE DEF Q
    <2>1. QED
      BY <1>1, SubsetInduction
  <1>3. PICK g : Adds(amounts, S, g)
    BY <1>2
  <1>4. QED
    BY <1>3 DEF Adder

-----------------------------------------------------------------------------
(* Sums *)

LEMMA SumOfNothing ==
  ASSUME NEW amounts
  PROVE  Sum(amounts, {}) = 0
  <1>1. IsFiniteSet({})
    BY FS_EmptySet
  <1>2. QED
    BY <1>1, AdderAdds, AddsReads, SumIsFold

LEMMA SumWithoutFirst ==
  ASSUME NEW amounts, NEW S, IsFiniteSet(S), S # {}
  PROVE  Sum(amounts, S) = amounts[First(S)] + Sum(amounts, S \ {First(S)})
  <1> DEFINE R == S \ {First(S)}
  <1>1. IsFiniteSet(R) /\ R \subseteq S
    BY FS_Subset
  <1>2. Adds(amounts, S, Adder(amounts, S)) /\ Adds(amounts, R, Adder(amounts, R))
    BY <1>1, AdderAdds
  <1>3. Adder(amounts, R)[R] = Adder(amounts, S)[R]
    <2> HIDE DEF R
    <2>1. R \in SUBSET R
      OBVIOUS
    <2>2. QED
      BY <1>1, <1>2, <2>1, AddsAgree
  <1>4. Adder(amounts, S)[S] = amounts[First(S)] + Adder(amounts, S)[R]
    BY <1>2, AddsReads
  <1>5. QED
    BY <1>3, <1>4, SumIsFold

LEMMA SumIsNumber ==
  ASSUME NEW amounts, NEW S, IsFiniteSet(S), \A k \in S : amounts[k] \in Nat
  PROVE  Sum(amounts, S) \in Nat
  <1> DEFINE Q == {T \in SUBSET S : Sum(amounts, T) \in Nat}
  <1>1. ASSUME NEW T \in SUBSET S, \A U \in SUBSET T : U # T => U \in Q
        PROVE  T \in Q
    <2>1. CASE T = {}
      BY <2>1, SumOfNothing
    <2>2. CASE T # {}
      <3>1. First(T) \in T /\ IsFiniteSet(T)
        BY <2>2, FirstIsElement, FS_Subset
      <3>2. Sum(amounts, T \ {First(T)}) \in Nat
        BY <1>1, <3>1
      <3>3. Sum(amounts, T) = amounts[First(T)] + Sum(amounts, T \ {First(T)})
        BY <2>2, <3>1, SumWithoutFirst
      <3>4. QED
        BY <3>1, <3>2, <3>3
    <2>3. QED
      BY <2>1, <2>2
  <1>2. SUBSET S \subseteq Q
    <2> HIDE DEF Q
    <2>1. QED
      BY <1>1, SubsetInduction
  <1>3. QED
    BY <1>2

\* The order in which the amounts are added does not matter.
LEMMA SumWithout ==
  ASSUME NEW amounts, NEW S, IsFiniteSet(S), \A k \in S : amounts[k] \in Nat,
         NEW x \in S
  PROVE  Sum(amounts, S) = amounts[x] + Sum(amounts, S \ {x})
  <1> DEFINE Q == {T \in SUBSET S :
                     \A y \in T : Sum(amounts, T) = amounts[y] + Sum(amounts, T \ {y})}
  <1>1. ASSUME NEW T \in SUBSET S, \A U \in SUBSET T : U # T => U \in Q
        PROVE  T \in Q
    <2>1. SUFFICES ASSUME NEW y \in T
                   PROVE  Sum(amounts, T) = amounts[y] + Sum(amounts, T \ {y})
      OBVIOUS
    <2> DEFINE c == First(T)
               R == (T \ {y}) \ {c}
    <2>2. c \in T /\ IsFiniteSet(T) /\ IsFiniteSet(T \ {y}) /\ IsFiniteSet(R)
      BY FirstIsElement, FS_Subset
    <2>3. Sum(amounts, T) = amounts[c] + Sum(amounts, T \ {c})
      BY SumWithoutFirst, <2>2
    <2>4. CASE c = y
      BY <2>3, <2>4
    <2>5. CASE c # y
      <3>1. T \ {c} \in Q /\ T \ {y} \in Q
        BY <1>1, <2>2
      <3>2. (T \ {c}) \ {y} = R
        OBVIOUS
      <3>3. Sum(amounts, T \ {c}) = amounts[y] + Sum(amounts, R)
        BY <2>5, <3>1, <3>2
      <3>4. Sum(amounts, T \ {y}) = amounts[c] + Sum(amounts, R)
        BY <2>2, <2>5, <3>1
      <3>5. amounts[c] \in Nat /\ amounts[y] \in Nat /\ Sum(amounts, R) \in Nat
        BY <2>2, SumIsNumber
      <3>6. QED
        BY <2>3, <3>3, <3>4, <3>5
    <2>6. QED
      BY <2>4, <2>5
  <1>2. SUBSET S \subseteq Q
    <2> HIDE DEF Q
    <2>1. QED
      BY <1>1, SubsetInduction
  <1>3. QED
    BY <1>2

\* A sum depends on its amounts only.
LEMMA SameSum ==
  ASSUME NEW amounts, NEW others, NEW S, IsFiniteSet(S),
         \A k \in S : amounts[k] = others[k]
  PROVE  Sum(amounts, S) = Sum(others, S)
  <1> DEFINE Q == {T \in SUBSET S : Sum(amounts, T) = Sum(others, T)}
  <1>1. ASSUME NEW T \in SUBSET S, \A U \in SUBSET T : U # T => U \in Q
        PROVE  T \in Q
    <2>1. CASE T = {}
      BY <2>1, SumOfNothing
    <2>2. CASE T # {}
      <3>1. First(T) \in T /\ IsFiniteSet(T)
        BY <2>2, FirstIsElement, FS_Subset
      <3>2. Sum(amounts, T \ {First(T)}) = Sum(others, T \ {First(T)})
        BY <1>1, <3>1
      <3>3. /\ Sum(amounts, T) = amounts[First(T)] + Sum(amounts, T \ {First(T)})
            /\ Sum(others, T) = others[First(T)] + Sum(others, T \ {First(T)})
        BY <2>2, <3>1, SumWithoutFirst
      <3>4. QED
        BY <3>1, <3>2, <3>3
    <2>3. QED
      BY <2>1, <2>2
  <1>2. SUBSET S \subseteq Q
    <2> HIDE DEF Q
    <2>1. QED
      BY <1>1, SubsetInduction
  <1>3. QED
    BY <1>2

\* Larger amounts have a larger sum.
LEMMA SumIsMonotone ==
  ASSUME NEW amounts, NEW others, NEW S, IsFiniteSet(S),
         \A k \in S : amounts[k] \in Nat /\ others[k] \in Nat /\ amounts[k] <= others[k]
  PROVE  Sum(amounts, S) <= Sum(others, S)
  <1> DEFINE Q == {T \in SUBSET S : Sum(amounts, T) <= Sum(others, T)}
  <1>1. ASSUME NEW T \in SUBSET S, \A U \in SUBSET T : U # T => U \in Q
        PROVE  T \in Q
    <2>1. CASE T = {}
      BY <2>1, SumOfNothing
    <2>2. CASE T # {}
      <3> DEFINE R == T \ {First(T)}
      <3>1. First(T) \in T /\ IsFiniteSet(T) /\ IsFiniteSet(R)
        BY <2>2, FirstIsElement, FS_Subset
      <3>2. Sum(amounts, R) <= Sum(others, R)
        BY <1>1, <3>1
      <3>3. /\ Sum(amounts, T) = amounts[First(T)] + Sum(amounts, R)
            /\ Sum(others, T) = others[First(T)] + Sum(others, R)
        BY <2>2, <3>1, SumWithoutFirst
      <3>4. Sum(amounts, R) \in Nat /\ Sum(others, R) \in Nat
        BY <3>1, SumIsNumber
      <3>5. QED
        BY <3>1, <3>2, <3>3, <3>4
    <2>3. QED
      BY <2>1, <2>2
  <1>2. SUBSET S \subseteq Q
    <2> HIDE DEF Q
    <2>1. QED
      BY <1>1, SubsetInduction
  <1>3. QED
    BY <1>2

\* Two sets that share nothing add up.
LEMMA SumOfUnion ==
  ASSUME NEW amounts, NEW S, NEW T, IsFiniteSet(S), IsFiniteSet(T), S \cap T = {},
         \A k \in S \cup T : amounts[k] \in Nat
  PROVE  Sum(amounts, S \cup T) = Sum(amounts, S) + Sum(amounts, T)
  <1> DEFINE Q == {U \in SUBSET S :
                     Sum(amounts, U \cup T) = Sum(amounts, U) + Sum(amounts, T)}
  <1>0. Sum(amounts, T) \in Nat
    BY SumIsNumber
  <1>1. ASSUME NEW U \in SUBSET S, \A V \in SUBSET U : V # U => V \in Q
        PROVE  U \in Q
    <2>1. CASE U = {}
      <3>1. U \cup T = T
        BY <2>1
      <3>2. QED
        BY <1>0, <2>1, <3>1, SumOfNothing
    <2>2. CASE U # {}
      <3>1. PICK x \in U : TRUE
        BY <2>2
      <3> DEFINE R == U \ {x}
      <3>2. R \in Q
        BY <1>1, <3>1
      <3>3. IsFiniteSet(U) /\ IsFiniteSet(U \cup T) /\ IsFiniteSet(R)
        BY FS_Subset, FS_Union
      <3>4. (U \cup T) \ {x} = R \cup T
        BY <3>1
      <3>5. /\ Sum(amounts, U) = amounts[x] + Sum(amounts, R)
            /\ Sum(amounts, U \cup T) = amounts[x] + Sum(amounts, (U \cup T) \ {x})
        BY <3>1, <3>3, SumWithout
      <3>6. Sum(amounts, R) \in Nat /\ amounts[x] \in Nat
        BY <3>3, SumIsNumber
      <3>7. Sum(amounts, R \cup T) = Sum(amounts, R) + Sum(amounts, T)
        BY <3>2
      <3>8. Sum(amounts, U \cup T) = Sum(amounts, U) + Sum(amounts, T)
        <4>1. Sum(amounts, U \cup T) = amounts[x] + Sum(amounts, R \cup T)
          BY <3>4, <3>5, Zenon
        <4> HIDE DEF R
        <4>2. QED
          BY <1>0, <3>5, <3>6, <3>7, <4>1
      <3>9. QED
        BY <3>8
    <2>3. QED
      BY <2>1, <2>2
  <1>2. SUBSET S \subseteq Q
    <2> HIDE DEF Q
    <2>1. QED
      BY <1>1, SubsetInduction
  <1>3. QED
    BY <1>2

\* A part of a sum is no more than the whole.
LEMMA SumOfPart ==
  ASSUME NEW amounts, NEW S, IsFiniteSet(S), NEW T \in SUBSET S,
         \A k \in S : amounts[k] \in Nat
  PROVE  Sum(amounts, T) <= Sum(amounts, S)
  <1>1. IsFiniteSet(T) /\ IsFiniteSet(S \ T) /\ T \cup (S \ T) = S
    BY FS_Subset
  <1>2. Sum(amounts, T) \in Nat /\ Sum(amounts, S \ T) \in Nat
    BY <1>1, SumIsNumber
  <1>3. Sum(amounts, S) = Sum(amounts, T) + Sum(amounts, S \ T)
    BY <1>1, SumOfUnion
  <1>4. QED
    BY <1>2, <1>3

\* One amount is no more than the sum it is part of.
LEMMA SumCoversEach ==
  ASSUME NEW amounts, NEW S, IsFiniteSet(S), \A k \in S : amounts[k] \in Nat, NEW x \in S
  PROVE  amounts[x] <= Sum(amounts, S)
  <1>1. Sum(amounts, S \ {x}) \in Nat
    BY FS_Subset, SumIsNumber
  <1>2. QED
    BY <1>1, SumWithout

\* Amounts that are all zero add up to zero.
LEMMA SumOfZeros ==
  ASSUME NEW amounts, NEW S, IsFiniteSet(S), \A k \in S : amounts[k] = 0
  PROVE  Sum(amounts, S) = 0
  <1> DEFINE Q == {T \in SUBSET S : Sum(amounts, T) = 0}
  <1>1. ASSUME NEW T \in SUBSET S, \A U \in SUBSET T : U # T => U \in Q
        PROVE  T \in Q
    <2>1. T # {} => First(T) \in T /\ IsFiniteSet(T)
      BY FirstIsElement, FS_Subset
    <2>2. T # {} => Sum(amounts, T) = amounts[First(T)] + Sum(amounts, T \ {First(T)})
      BY <2>1, SumWithoutFirst
    <2>3. T # {} => Sum(amounts, T \ {First(T)}) = 0
      BY <1>1, <2>1
    <2>4. Sum(amounts, T) = 0
      <3>1. CASE T = {}
        BY <3>1, SumOfNothing
      <3>2. CASE T # {}
        BY <3>2, <2>1, <2>2, <2>3
      <3>3. QED
        BY <3>1, <3>2
    <2>5. QED
      BY <2>4
  <1>2. SUBSET S \subseteq Q
    <2> HIDE DEF Q
    <2>1. QED
      BY <1>1, SubsetInduction
  <1>3. QED
    BY <1>2

\* What a change of one amount does to a sum.
LEMMA SumChanged ==
  ASSUME NEW amounts, NEW others, NEW S, IsFiniteSet(S), NEW x \in S,
         \A k \in S : amounts[k] \in Nat /\ others[k] \in Nat,
         \A k \in S \ {x} : amounts[k] = others[k]
  PROVE  Sum(others, S) + amounts[x] = Sum(amounts, S) + others[x]
  <1>1. IsFiniteSet(S \ {x})
    BY FS_Subset
  <1>2. Sum(amounts, S \ {x}) = Sum(others, S \ {x}) /\ Sum(amounts, S \ {x}) \in Nat
    BY <1>1, SameSum, SumIsNumber
  <1>3. /\ Sum(amounts, S) = amounts[x] + Sum(amounts, S \ {x})
        /\ Sum(others, S) = others[x] + Sum(others, S \ {x})
    BY SumWithout
  <1>4. QED
    BY <1>2, <1>3

\* The sum over a part is the sum over the whole with nothing for the rest.
LEMMA SumOfSelected ==
  ASSUME NEW amounts, NEW S, IsFiniteSet(S), NEW T \in SUBSET S,
         \A k \in S : amounts[k] \in Nat
  PROVE  Sum(amounts, T) = Sum([k \in S |-> IF k \in T THEN amounts[k] ELSE 0], S)
  <1> DEFINE g == [k \in S |-> IF k \in T THEN amounts[k] ELSE 0]
  <1>1. IsFiniteSet(T) /\ IsFiniteSet(S \ T) /\ T \cup (S \ T) = S
    BY FS_Subset
  <1>2. /\ \A k \in S : g[k] \in Nat
        /\ \A k \in T : g[k] = amounts[k]
        /\ \A k \in S \ T : g[k] = 0
    OBVIOUS
  <1> HIDE DEF g
  <1>3. Sum(g, S) = Sum(g, T) + Sum(g, S \ T)
    BY <1>1, <1>2, SumOfUnion
  <1>4. Sum(g, S \ T) = 0 /\ Sum(g, T) = Sum(amounts, T)
    BY <1>1, <1>2, SumOfZeros, SameSum
  <1>5. Sum(g, T) \in Nat
    BY <1>1, <1>2, SumIsNumber
  <1>6. Sum(amounts, T) = Sum(g, S)
    BY <1>3, <1>4, <1>5
  <1>7. QED
    BY <1>6 DEF g

\* n amounts of at most c add up to at most n times c.
LEMMA SumIsBounded ==
  ASSUME NEW amounts, NEW S, IsFiniteSet(S), NEW c \in Nat,
         \A k \in S : amounts[k] \in Nat /\ amounts[k] <= c
  PROVE  Sum(amounts, S) <= Cardinality(S) * c
  <1> DEFINE Q == {T \in SUBSET S : Sum(amounts, T) <= Cardinality(T) * c}
  <1>1. ASSUME NEW T \in SUBSET S, \A U \in SUBSET T : U # T => U \in Q
        PROVE  T \in Q
    <2>1. CASE T = {}
      BY <2>1, SumOfNothing, FS_EmptySet
    <2>2. CASE T # {}
      <3> DEFINE x == First(T)
                 U == T \ {x}
      <3>1. x \in T /\ U \in SUBSET T /\ U # T
        BY <2>2, FirstIsElement
      <3>2. IsFiniteSet(T) /\ IsFiniteSet(U)
        BY FS_Subset
      <3>3. Sum(amounts, T) = amounts[x] + Sum(amounts, U)
        BY <2>2, <3>2, SumWithoutFirst
      <3>4. Cardinality(U) = Cardinality(T) - 1 /\ Cardinality(T) \in Nat
        BY <3>1, <3>2, FS_RemoveElement, FS_CardinalityType
      <3>5. Cardinality(U) \in Nat
        BY <3>2, FS_CardinalityType
      <3>6. Sum(amounts, U) <= Cardinality(U) * c
        BY <1>1, <3>1
      <3>7. Sum(amounts, U) \in Nat
        BY <3>2, SumIsNumber
      <3>8. amounts[x] \in Nat /\ amounts[x] <= c
        BY <3>1
      <3> DEFINE n == Cardinality(U)
                 m == Cardinality(T)
                 s == Sum(amounts, U)
                 a == amounts[x]
      <3> HIDE DEF n, m, s, a
      <3>9. n \in Nat /\ m \in Nat /\ n = m - 1 /\ s \in Nat /\ a \in Nat /\ a <= c /\ s <= n * c
        BY <3>4, <3>5, <3>6, <3>7, <3>8 DEF n, m, s, a
      <3>10. m * c = n * c + c
        BY <3>9
      <3>11. n * c \in Nat
        BY <3>9
      <3>12. a + s <= m * c
        BY <3>9, <3>10, <3>11
      <3>13. Sum(amounts, T) <= Cardinality(T) * c
        BY <3>3, <3>12 DEF n, m, s, a
      <3>14. QED
        BY <3>13
    <2>3. QED
      BY <2>1, <2>2
  <1> HIDE DEF Q
  <1>2. S \in Q
    BY <1>1, SubsetInduction
  <1>3. QED
    BY <1>2 DEF Q
=============================================================================
