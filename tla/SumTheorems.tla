----------------------------- MODULE SumTheorems -----------------------------
(***************************************************************************)
(* Facts about the sums of the models (SumFunctionOnSet of the community   *)
(* modules, a fold whose order is the choice of CHOOSE): the sum of the    *)
(* values that a function has on a finite set, whatever the order.         *)
(*                                                                         *)
(* An induction over the size of the set is needed.  It is stated for a    *)
(* set of numbers, not for a predicate, and follows from the well-founded  *)
(* order of the naturals.                                                  *)
(***************************************************************************)
EXTENDS Integers, FiniteSets, Functions, FiniteSetTheorems,
        WellFoundedInduction, TLAPS

-----------------------------------------------------------------------------
(* Induction                                                               *)

\* A set with 0 and with every successor of its numbers has every number.
LEMMA NatSetInduction ==
    ASSUME NEW N, 0 \in N, \A n \in Nat : n \in N => n + 1 \in N
    PROVE  Nat \subseteq N
<1> SUFFICES ASSUME Nat \ N # {}
             PROVE  FALSE
  OBVIOUS
<1>1. IsWellFoundedOn(OpToRel(<, Nat), Nat)
  BY Zenon, NatLessThanWellFounded
<1>2. PICK t \in Nat \ N : \A y \in Nat \ N : ~(<<y, t>> \in OpToRel(<, Nat))
  <2> PICK R : R = OpToRel(<, Nat)
    OBVIOUS
  <2>1. IsWellFoundedOn(R, Nat)
    BY Zenon, <1>1
  <2> DEFINE T == Nat \ N
  <2>2. T \subseteq Nat /\ T # {}
    OBVIOUS
  <2>3. \E x \in T : \A y \in T : ~(<<y, x>> \in R)
    <3> HIDE DEF T
    <3> QED
      BY <2>1, <2>2, WFMin
  <2> QED
    BY <2>3
<1>3. \A y \in Nat \ N : ~(y < t)
  BY <1>2 DEF OpToRel
<1>4. t # 0 /\ t - 1 \in Nat
  OBVIOUS
<1>5. t - 1 \in N
  BY <1>3, <1>4
<1> QED
  BY <1>4, <1>5

\* What holds of a finite set if it holds of all of its smaller subsets holds
\* of the set: Good are the subsets of which it holds.
LEMMA SubsetInduction ==
    ASSUME NEW S, IsFiniteSet(S), NEW Good,
           {} \in Good,
           \A T \in SUBSET S :
              T # {} /\ (\A x \in T : T \ {x} \in Good) => T \in Good
    PROVE  S \in Good
<1> DEFINE N == {n \in Nat : \A T \in SUBSET S : Cardinality(T) = n => T \in Good}
<1>1. \A T \in SUBSET S : IsFiniteSet(T) /\ Cardinality(T) \in Nat
  BY FS_Subset, FS_CardinalityType
<1>2. 0 \in N
  <2>1. \A T \in SUBSET S : Cardinality(T) = 0 => T = {}
    BY <1>1, FS_EmptySet
  <2> QED
    BY <2>1
<1>3. ASSUME NEW n \in Nat, n \in N
      PROVE  n + 1 \in N
  <2> SUFFICES ASSUME NEW T \in SUBSET S, Cardinality(T) = n + 1
               PROVE  T \in Good
    OBVIOUS
  <2>1. T # {}
    <3>1. Cardinality({}) = 0
      BY FS_EmptySet
    <3>2. n + 1 # 0
      OBVIOUS
    <3> QED
      BY <3>1, <3>2
  <2>2. ASSUME NEW x \in T
        PROVE  T \ {x} \in Good
    <3>1. Cardinality(T \ {x}) = Cardinality(T) - 1
      BY <1>1, FS_RemoveElement
    <3>2. Cardinality(T \ {x}) = n
      BY <3>1
    <3> QED
      BY <1>3, <3>2
  <2> QED
    BY <2>1, <2>2
<1>4. Nat \subseteq N
  <2> HIDE DEF N
  <2> QED
    BY <1>2, <1>3, NatSetInduction
<1> QED
  BY <1>1, <1>4

-----------------------------------------------------------------------------
(* The fold                                                                *)

ChosenOf(s) == CHOOSE x \in s : TRUE

\* The equation of the fold, for a function on the subsets of S.
IsSumOn(g, f, S) ==
    g = [s \in SUBSET S |-> IF s = {} THEN 0 ELSE f[ChosenOf(s)] + g[s \ {ChosenOf(s)}]]

\* There is a function that satisfies the equation.
LEMMA FoldExists ==
    ASSUME NEW f, NEW S, IsFiniteSet(S)
    PROVE  \E g : IsSumOn(g, f, S)
<1> DEFINE Step(g, s) == IF s = {} THEN 0 ELSE f[ChosenOf(s)] + g[s \ {ChosenOf(s)}]
           Upto(g, n) == \A s \in SUBSET S : Cardinality(s) <= n => g[s] = Step(g, s)
           N == {n \in Nat : \E g : Upto(g, n)}
<1>1. \A s \in SUBSET S : IsFiniteSet(s) /\ Cardinality(s) \in Nat
  BY FS_Subset, FS_CardinalityType
<1>2. 0 \in N
  <2> DEFINE g == [s \in SUBSET S |-> 0]
  <2>1. \A s \in SUBSET S : Cardinality(s) <= 0 => s = {}
    BY <1>1, FS_EmptySet
  <2>2. Upto(g, 0)
    BY <2>1
  <2> QED
    BY <2>2
<1>3. ASSUME NEW n \in Nat, n \in N
      PROVE  n + 1 \in N
  <2>1. PICK g : Upto(g, n)
    BY <1>3
  <2> DEFINE h == [s \in SUBSET S |-> Step(g, s)]
  <2>2. ASSUME NEW s \in SUBSET S, Cardinality(s) <= n + 1
        PROVE  h[s] = Step(h, s)
    <3>1. CASE s = {}
      BY <3>1
    <3>2. CASE s # {}
      <4> DEFINE x == ChosenOf(s)
      <4>1. x \in s
        BY <3>2 DEF ChosenOf
      <4>2. Cardinality(s \ {x}) = Cardinality(s) - 1
        BY <1>1, <4>1, FS_RemoveElement
      <4>3. Cardinality(s \ {x}) <= n
        BY <1>1, <2>2, <4>2
      <4>4. s \ {x} \in SUBSET S
        OBVIOUS
      <4> HIDE DEF x
      <4>5. g[s \ {x}] = Step(g, s \ {x})
        BY <2>1, <4>3, <4>4
      <4>6. h[s \ {x}] = g[s \ {x}]
        BY <4>4, <4>5
      <4>7. h[s] = f[x] + g[s \ {x}]
        BY <3>2 DEF x
      <4> QED
        BY <3>2, <4>6, <4>7 DEF x
    <3> QED
      BY <3>1, <3>2
  <2>3. Upto(h, n + 1)
    BY <2>2
  <2> HIDE DEF h, Upto
  <2> QED
    BY <2>3
<1>4. Nat \subseteq N
  <2> HIDE DEF N
  <2> QED
    BY <1>2, <1>3, NatSetInduction
<1>5. PICK g : Upto(g, Cardinality(S))
  BY <1>1, <1>4
<1>6. \A s \in SUBSET S : Cardinality(s) <= Cardinality(S)
  BY FS_Subset
<1> DEFINE h == [s \in SUBSET S |-> Step(g, s)]
<1>7. \A s \in SUBSET S : h[s] = g[s]
  BY <1>5, <1>6
<1>8. \A s \in SUBSET S : Step(h, s) = Step(g, s)
  BY <1>7 DEF ChosenOf
<1>9. h = [s \in SUBSET S |-> Step(h, s)]
  BY <1>8
<1> QED
  BY <1>9 DEF IsSumOn

\* The equation determines the function, and does so on every subset.
LEMMA FoldsAgree ==
    ASSUME NEW f, NEW S, IsFiniteSet(S), NEW T \in SUBSET S,
           NEW g, IsSumOn(g, f, S), NEW h, IsSumOn(h, f, T)
    PROVE  g[T] = h[T]
<1> DEFINE Good == {s \in SUBSET T : \A u \in SUBSET s : g[u] = h[u]}
<1>1. /\ g[{}] = 0 /\ h[{}] = 0
      /\ \A s \in SUBSET T : s # {} =>
            /\ g[s] = f[ChosenOf(s)] + g[s \ {ChosenOf(s)}]
            /\ h[s] = f[ChosenOf(s)] + h[s \ {ChosenOf(s)}]
  BY DEF IsSumOn
<1>2. {} \in Good
  BY <1>1
<1>3. ASSUME NEW U \in SUBSET T, U # {}, \A x \in U : U \ {x} \in Good
      PROVE  U \in Good
  <2> SUFFICES ASSUME NEW s \in SUBSET U
               PROVE  g[s] = h[s]
    OBVIOUS
  <2>1. CASE s = {}
    BY <1>1, <2>1
  <2>2. CASE s # {}
    <3> DEFINE x == ChosenOf(s)
    <3>1. x \in s /\ x \in U
      BY <2>2 DEF ChosenOf
    <3>2. U \ {x} \in Good /\ s \ {x} \in SUBSET (U \ {x})
      BY <1>3, <3>1
    <3>3. g[s \ {x}] = h[s \ {x}]
      BY <3>2
    <3> QED
      BY <1>1, <2>2, <3>3
  <2> QED
    BY <2>1, <2>2
<1>4. T \in Good
  <2>1. IsFiniteSet(T)
    BY FS_Subset
  <2> HIDE DEF Good
  <2> QED
    BY <1>2, <1>3, <2>1, SubsetInduction
<1> QED
  BY <1>4

\* The sum is the value of every such function.
LEMMA SumIsFold ==
    ASSUME NEW f, NEW S, IsFiniteSet(S), NEW T \in SUBSET S,
           NEW g, IsSumOn(g, f, S)
    PROVE  SumFunctionOnSet(f, T) = g[T]
<1> DEFINE h == CHOOSE h : IsSumOn(h, f, T)
<1>1. IsFiniteSet(T)
  BY FS_Subset
<1>2. IsSumOn(h, f, T)
  BY <1>1, FoldExists
<1>3. SumFunctionOnSet(f, T) = h[T]
  BY DEF SumFunctionOnSet, FoldFunctionOnSet, MapThenFoldSet, IsSumOn, ChosenOf
<1> HIDE DEF h
<1> QED
  BY <1>2, <1>3, FoldsAgree

-----------------------------------------------------------------------------
(* Sums                                                                    *)

\* The sum over no element.
THEOREM SumEmpty == ASSUME NEW f PROVE SumFunctionOnSet(f, {}) = 0
<1>1. IsFiniteSet({})
  BY FS_EmptySet
<1>2. PICK g : IsSumOn(g, f, {})
  BY <1>1, FoldExists
<1>3. g[{}] = 0
  BY <1>2 DEF IsSumOn
<1> QED
  BY <1>1, <1>2, <1>3, SumIsFold

\* The sum of a nonempty set unfolds at the element that is chosen ...
LEMMA SumUnfolds ==
    ASSUME NEW f, NEW S, IsFiniteSet(S), S # {}
    PROVE  /\ ChosenOf(S) \in S
           /\ SumFunctionOnSet(f, S)
                = f[ChosenOf(S)] + SumFunctionOnSet(f, S \ {ChosenOf(S)})
<1>1. PICK g : IsSumOn(g, f, S)
  BY FoldExists
<1>2. g[S] = f[ChosenOf(S)] + g[S \ {ChosenOf(S)}]
  BY <1>1 DEF IsSumOn
<1>3. SumFunctionOnSet(f, S) = g[S]
  BY <1>1, SumIsFold
<1>4. SumFunctionOnSet(f, S \ {ChosenOf(S)}) = g[S \ {ChosenOf(S)}]
  BY <1>1, SumIsFold
<1> QED
  BY <1>2, <1>3, <1>4 DEF ChosenOf

\* Sums of integers are integers.
THEOREM SumIsInt ==
    ASSUME NEW f, NEW S, IsFiniteSet(S), \A x \in S : f[x] \in Int
    PROVE  SumFunctionOnSet(f, S) \in Int
<1> DEFINE Good == {T \in SUBSET S : SumFunctionOnSet(f, T) \in Int}
<1>1. {} \in Good
  BY SumEmpty
<1>2. ASSUME NEW T \in SUBSET S, T # {}, \A x \in T : T \ {x} \in Good
      PROVE  T \in Good
  <2>1. IsFiniteSet(T)
    BY FS_Subset
  <2>2. /\ ChosenOf(T) \in T
        /\ SumFunctionOnSet(f, T)
             = f[ChosenOf(T)] + SumFunctionOnSet(f, T \ {ChosenOf(T)})
    BY <1>2, <2>1, SumUnfolds
  <2>3. SumFunctionOnSet(f, T \ {ChosenOf(T)}) \in Int
    BY <1>2, <2>2
  <2>4. f[ChosenOf(T)] \in Int
    BY <2>2
  <2>5. SumFunctionOnSet(f, T) \in Int
    BY <2>2, <2>3, <2>4
  <2> QED
    BY <2>5
<1>3. S \in Good
  <2> HIDE DEF Good
  <2> QED
    BY <1>1, <1>2, SubsetInduction
<1> QED
  BY <1>3

\* ... and at every other one.
THEOREM SumSplit ==
    ASSUME NEW f, NEW S, IsFiniteSet(S), \A x \in S : f[x] \in Int
    PROVE  \A x \in S :
              SumFunctionOnSet(f, S) = f[x] + SumFunctionOnSet(f, S \ {x})
<1> DEFINE Sum(T) == SumFunctionOnSet(f, T)
           Good == {T \in SUBSET S : \A x \in T : Sum(T) = f[x] + Sum(T \ {x})}
<1>1. {} \in Good
  OBVIOUS
<1>2. ASSUME NEW T \in SUBSET S, T # {}, \A x \in T : T \ {x} \in Good
      PROVE  T \in Good
  <2> DEFINE y == ChosenOf(T)
  <2>1. IsFiniteSet(T)
    BY FS_Subset
  <2>2. y \in T /\ Sum(T) = f[y] + Sum(T \ {y})
    BY <1>2, <2>1, SumUnfolds
  <2> HIDE DEF y
  <2> SUFFICES ASSUME NEW x \in T
               PROVE  Sum(T) = f[x] + Sum(T \ {x})
    OBVIOUS
  <2>3. CASE x = y
    BY <2>2, <2>3
  <2>4. CASE x # y
    <3> DEFINE rest == T \ {x, y}
    <3>1. T \ {x} \in Good /\ T \ {y} \in Good
      BY <1>2, <2>2
    <3>2. y \in T \ {x} /\ x \in T \ {y}
      BY <2>2, <2>4
    <3>3. /\ Sum(T \ {x}) = f[y] + Sum((T \ {x}) \ {y})
          /\ Sum(T \ {y}) = f[x] + Sum((T \ {y}) \ {x})
      BY <3>1, <3>2
    <3>4. (T \ {x}) \ {y} = rest /\ (T \ {y}) \ {x} = rest
      OBVIOUS
    <3>5. IsFiniteSet(rest) /\ \A z \in rest : f[z] \in Int
      BY <2>1, FS_Subset
    <3>6. Sum(rest) \in Int /\ f[x] \in Int /\ f[y] \in Int
      BY <2>2, <3>5, SumIsInt
    <3>7. Sum(T \ {x}) = f[y] + Sum(rest) /\ Sum(T \ {y}) = f[x] + Sum(rest)
      BY Zenon, <3>3, <3>4
    <3>8. ASSUME NEW a \in Int, NEW b \in Int, NEW c \in Int
          PROVE  a + (b + c) = b + (a + c)
      OBVIOUS
    <3>9. f[y] + (f[x] + Sum(rest)) = f[x] + (f[y] + Sum(rest))
      BY <3>6, <3>8
    <3> HIDE DEF Sum, rest
    <3> QED
      BY Zenon, <2>2, <3>7, <3>9
  <2> QED
    BY <2>3, <2>4
<1>3. S \in Good
  <2> HIDE DEF Good
  <2> QED
    BY <1>1, <1>2, SubsetInduction
<1> QED
  BY <1>3

\* Functions that agree on a set have the same sum on it.
THEOREM SumAgrees ==
    ASSUME NEW f, NEW g, NEW S, IsFiniteSet(S), \A x \in S : f[x] = g[x]
    PROVE  SumFunctionOnSet(f, S) = SumFunctionOnSet(g, S)
<1> DEFINE Good == {T \in SUBSET S : SumFunctionOnSet(f, T) = SumFunctionOnSet(g, T)}
<1>1. {} \in Good
  BY SumEmpty
<1>2. ASSUME NEW T \in SUBSET S, T # {}, \A x \in T : T \ {x} \in Good
      PROVE  T \in Good
  <2>1. IsFiniteSet(T)
    BY FS_Subset
  <2>2. /\ ChosenOf(T) \in T
        /\ SumFunctionOnSet(f, T)
             = f[ChosenOf(T)] + SumFunctionOnSet(f, T \ {ChosenOf(T)})
        /\ SumFunctionOnSet(g, T)
             = g[ChosenOf(T)] + SumFunctionOnSet(g, T \ {ChosenOf(T)})
    BY <1>2, <2>1, SumUnfolds
  <2>3. SumFunctionOnSet(f, T \ {ChosenOf(T)}) = SumFunctionOnSet(g, T \ {ChosenOf(T)})
    BY <1>2, <2>2
  <2>4. SumFunctionOnSet(f, T) = SumFunctionOnSet(g, T)
    BY <2>2, <2>3
  <2> QED
    BY <2>4
<1>3. S \in Good
  <2> HIDE DEF Good
  <2> QED
    BY <1>1, <1>2, SubsetInduction
<1> QED
  BY <1>3

\* The sum of a disjoint union is the sum of the sums.
THEOREM SumUnion ==
    ASSUME NEW f, NEW R, IsFiniteSet(R), NEW S, IsFiniteSet(S), R \cap S = {},
           \A x \in R \cup S : f[x] \in Int
    PROVE  SumFunctionOnSet(f, R \cup S)
             = SumFunctionOnSet(f, R) + SumFunctionOnSet(f, S)
<1> DEFINE Sum(T) == SumFunctionOnSet(f, T)
           Good == {T \in SUBSET S : Sum(R \cup T) = Sum(R) + Sum(T)}
<1>1. {} \in Good
  <2>1. Sum(R) \in Int /\ Sum({}) = 0 /\ R \cup {} = R
    BY SumIsInt, SumEmpty
  <2> QED
    BY <2>1
<1>2. ASSUME NEW T \in SUBSET S, T # {}, \A x \in T : T \ {x} \in Good
      PROVE  T \in Good
  <2>1. PICK x \in T : TRUE
    BY <1>2
  <2>2. Sum(R \cup (T \ {x})) = Sum(R) + Sum(T \ {x})
    BY <1>2, <2>1
  <2>3. IsFiniteSet(T) /\ IsFiniteSet(R \cup T)
    BY FS_Subset, FS_Union
  <2>4. \A y \in R \cup T : f[y] \in Int
    OBVIOUS
  <2>5. Sum(T) = f[x] + Sum(T \ {x})
    BY <2>1, <2>3, <2>4, SumSplit
  <2>6. Sum(R \cup T) = f[x] + Sum((R \cup T) \ {x})
    BY <2>1, <2>3, <2>4, SumSplit
  <2>7. (R \cup T) \ {x} = R \cup (T \ {x})
    BY <2>1
  <2>8. IsFiniteSet(T \ {x})
    BY <2>3, FS_Subset
  <2>9. Sum(R) \in Int /\ Sum(T \ {x}) \in Int /\ f[x] \in Int
    BY <2>1, <2>4, <2>8, SumIsInt
  <2>10. Sum(R \cup T) = f[x] + (Sum(R) + Sum(T \ {x}))
    BY Zenon, <2>2, <2>6, <2>7
  <2>11. ASSUME NEW a \in Int, NEW b \in Int, NEW c \in Int
         PROVE  a + (b + c) = b + (a + c)
    OBVIOUS
  <2>12. f[x] + (Sum(R) + Sum(T \ {x})) = Sum(R) + (f[x] + Sum(T \ {x}))
    BY <2>9, <2>11
  <2> HIDE DEF Sum
  <2>13. Sum(R \cup T) = Sum(R) + Sum(T)
    BY Zenon, <2>5, <2>10, <2>12
  <2> QED
    BY <2>13
<1>3. S \in Good
  <2> HIDE DEF Good
  <2> QED
    BY <1>1, <1>2, SubsetInduction
<1> QED
  BY <1>3

\* The sum of zeros is zero.
THEOREM SumZeros ==
    ASSUME NEW f, NEW S, IsFiniteSet(S), \A x \in S : f[x] = 0
    PROVE  SumFunctionOnSet(f, S) = 0
<1> DEFINE Good == {T \in SUBSET S : SumFunctionOnSet(f, T) = 0}
<1>1. {} \in Good
  BY SumEmpty
<1>2. ASSUME NEW T \in SUBSET S, T # {}, \A x \in T : T \ {x} \in Good
      PROVE  T \in Good
  <2>1. IsFiniteSet(T)
    BY FS_Subset
  <2>2. /\ ChosenOf(T) \in T
        /\ SumFunctionOnSet(f, T)
             = f[ChosenOf(T)] + SumFunctionOnSet(f, T \ {ChosenOf(T)})
    BY <1>2, <2>1, SumUnfolds
  <2>3. SumFunctionOnSet(f, T \ {ChosenOf(T)}) = 0 /\ f[ChosenOf(T)] = 0
    BY <1>2, <2>2
  <2>4. SumFunctionOnSet(f, T) = 0
    BY <2>2, <2>3
  <2> QED
    BY <2>4
<1>3. S \in Good
  <2> HIDE DEF Good
  <2> QED
    BY <1>1, <1>2, SubsetInduction
<1> QED
  BY <1>3

\* When one value changes, the sums it is in change by as much.
THEOREM SumExcept ==
    ASSUME NEW D, NEW f \in [D -> Int], NEW g \in [D -> Int],
           NEW n \in D, NEW a \in Int, g[n] = f[n] + a,
           \A x \in D : x # n => g[x] = f[x],
           NEW S \in SUBSET D, IsFiniteSet(S)
    PROVE  SumFunctionOnSet(g, S)
             = SumFunctionOnSet(f, S) + (IF n \in S THEN a ELSE 0)
<1> DEFINE rest == S \ {n}
<1>1. \A x \in S : f[x] \in Int /\ g[x] \in Int
  OBVIOUS
<1>2. IsFiniteSet(rest)
  BY FS_Subset
<1>3. \A x \in rest : f[x] = g[x]
  OBVIOUS
<1>4. SumFunctionOnSet(f, rest) = SumFunctionOnSet(g, rest)
  <2> HIDE DEF rest
  <2> QED
    BY <1>2, <1>3, SumAgrees
<1>5. SumFunctionOnSet(f, rest) \in Int
  BY <1>1, <1>2, SumIsInt
<1>6. CASE n \in S
  <2>1. SumFunctionOnSet(f, S) = f[n] + SumFunctionOnSet(f, rest)
    BY <1>1, <1>6, SumSplit
  <2>2. SumFunctionOnSet(g, S) = g[n] + SumFunctionOnSet(g, rest)
    BY <1>1, <1>6, SumSplit
  <2>3. f[n] \in Int
    OBVIOUS
  <2> HIDE DEF rest
  <2> QED
    BY <1>4, <1>5, <1>6, <2>1, <2>2, <2>3
<1>7. CASE n \notin S
  <2>1. rest = S
    BY <1>7
  <2> HIDE DEF rest
  <2> QED
    BY <1>4, <1>5, <1>7, <2>1
<1> QED
  BY <1>6, <1>7

=============================================================================
