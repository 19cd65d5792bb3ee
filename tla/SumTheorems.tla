---------------------------- MODULE SumTheorems ----------------------------
(***************************************************************************)
(* Facts about sums over finite sets of any size, as the conservation law  *)
(* of GlobalMaxInflight and the quotas of QuotaAllocation need them.       *)
(*                                                                         *)
(* SumFunctionOnSet is defined by a recursive function.  The library's     *)
(* induction theorems have an operator as a parameter, which the provers   *)
(* cannot instantiate.  The proofs look at a smallest counterexample       *)
(* instead: strict inclusion is well founded on the subsets of a finite    *)
(* set, and that theorem (WFMin) only speaks of sets.                      *)
(***************************************************************************)
EXTENDS Integers, FiniteSets, Functions, FiniteSetTheorems, TLAPS

\* Of the sets of a family of subsets of a finite set one has no other below it.
LEMMA MinimalSubset ==
    ASSUME NEW S, IsFiniteSet(S), NEW B \in SUBSET SUBSET S, B # {}
    PROVE  \E T \in B : \A U \in B : U \subseteq T => U = T
<1>1. IsWellFoundedOn(StrictSubsetOrdering(S), SUBSET S)
  BY FS_StrictSubsetOrderingWellFounded, FS_FiniteSubsetsOfFinite, Zenon
<1>2. \E T \in B : \A U \in B : ~(<<U, T>> \in StrictSubsetOrdering(S))
  BY <1>1, WFMin
<1>3. QED
  BY <1>2, Zenon DEF StrictSubsetOrdering

\* The sum over s, when g has the sums over smaller sets.
SumStep(f, g, s) ==
    IF s = {} THEN 0 ELSE LET x == CHOOSE x \in s : TRUE IN f[x] + g[s \ {x}]

\* The sums over the subsets of S, as the library computes them.
Iter(f, S) == CHOOSE g : g = [s \in SUBSET S |-> SumStep(f, g, s)]

\* The sum over S is the last of them.
LEMMA SumIter == ASSUME NEW f, NEW S PROVE SumFunctionOnSet(f, S) = Iter(f, S)[S]
  BY DEF SumFunctionOnSet, FoldFunctionOnSet, MapThenFoldSet, Iter, SumStep

\* The recursion has a solution: it can be solved up to a cardinality, and then for sets
\* with one more element.
LEMMA IterExists ==
    ASSUME NEW f, NEW S, IsFiniteSet(S)
    PROVE  \E g : g = [s \in SUBSET S |-> SumStep(f, g, s)]
<1> DEFINE Solves(g, T) == \A s \in SUBSET S :
                              Cardinality(s) <= Cardinality(T) => g[s] = SumStep(f, g, s)
           Solvable(T) == \E g : g = [s \in SUBSET S |-> g[s]] /\ Solves(g, T)
           B == {T \in SUBSET S : ~Solvable(T)}
<1>0. \A s \in SUBSET S : IsFiniteSet(s) /\ Cardinality(s) \in Nat
  BY FS_Subset, FS_CardinalityType
<1>1. ASSUME B # {} PROVE FALSE
  <2>0. B \in SUBSET SUBSET S
    OBVIOUS
  <2>1. PICK T \in B : \A U \in B : U \subseteq T => U = T
    <3> HIDE DEF B
    <3> QED
      BY <1>1, <2>0, MinimalSubset
  <2>2. T # {}
    <3>1. SUFFICES Solvable({})
      BY <2>1, Zenon
    <3> DEFINE g == [s \in SUBSET S |-> 0]
    <3>2. \A s \in SUBSET S : Cardinality(s) <= Cardinality({}) => s = {}
      BY <1>0, FS_EmptySet
    <3>3. Solves(g, {})
      BY <3>2 DEF SumStep
    <3>4. g = [s \in SUBSET S |-> g[s]]
      OBVIOUS
    <3>5. QED
      BY <3>3, <3>4, Zenon
  <2>3. PICK x \in T : TRUE
    BY <2>2
  <2>4. /\ T \ {x} \in SUBSET S /\ T \ {x} # T /\ T \in SUBSET S
        /\ Cardinality(T \ {x}) = Cardinality(T) - 1
    BY <1>0, <2>1, <2>3, FS_RemoveElement
  <2>5. Solvable(T \ {x})
    BY <2>1, <2>4, Zenon
  <2>6. PICK g : g = [s \in SUBSET S |-> g[s]] /\ Solves(g, T \ {x})
    BY <2>5, Zenon
  <2> DEFINE h == [s \in SUBSET S |-> IF Cardinality(s) <= Cardinality(T) - 1
                                      THEN g[s] ELSE SumStep(f, g, s)]
  <2>7. \A s \in SUBSET S : \/ h[s] = SumStep(f, g, s)
                            \/ Cardinality(s) <= Cardinality(T) - 1 /\ h[s] = g[s]
    OBVIOUS
  <2>8. \A s \in SUBSET S : h[s] = SumStep(f, g, s)
    BY <2>4, <2>6, <2>7, Zenon
  <2>9. ASSUME NEW s \in SUBSET S, Cardinality(s) <= Cardinality(T)
        PROVE  SumStep(f, h, s) = SumStep(f, g, s)
    <3>1. CASE s = {}
      BY <3>1 DEF SumStep
    <3>2. CASE s # {}
      <4> DEFINE y == CHOOSE y \in s : TRUE
      <4>1. y \in s
        BY <3>2
      <4>2. s \ {y} \in SUBSET S /\ Cardinality(s \ {y}) = Cardinality(s) - 1
        BY <1>0, <4>1, FS_RemoveElement, Zenon
      <4>3. Cardinality(s \ {y}) <= Cardinality(T) - 1
        BY <1>0, <2>4, <2>9, <4>2
      <4>4. h[s \ {y}] = g[s \ {y}]
        BY <4>2, <4>3
      <4>5. QED
        BY <3>2, <4>4 DEF SumStep
    <3>3. QED
      BY <3>1, <3>2
  <2>10. Solves(h, T)
    BY <2>8, <2>9, Zenon
  <2>11. h = [s \in SUBSET S |-> h[s]]
    OBVIOUS
  <2>12. Solvable(T)
    BY <2>10, <2>11, Zenon
  <2>13. QED
    BY <2>1, <2>12, Zenon
<1>2. Solvable(S)
  BY <1>1, Zenon
<1>3. PICK g : g = [s \in SUBSET S |-> g[s]] /\ Solves(g, S)
  BY <1>2, Zenon
<1>4. \A s \in SUBSET S : g[s] = SumStep(f, g, s)
  BY <1>0, <1>3, FS_Subset, Zenon
<1>5. g = [s \in SUBSET S |-> SumStep(f, g, s)]
  BY <1>3, <1>4, Zenon
<1>6. QED
  BY <1>5

\* So the function that CHOOSE picks is one.
LEMMA IterEq ==
    ASSUME NEW f, NEW S, IsFiniteSet(S)
    PROVE  \A s \in SUBSET S : Iter(f, S)[s] = SumStep(f, Iter(f, S), s)
<1>1. Iter(f, S) = [s \in SUBSET S |-> SumStep(f, Iter(f, S), s)]
  BY IterExists DEF Iter
<1>2. QED
  BY <1>1

\* The sum over a subset does not depend on the set it is a subset of.
LEMMA IterAgree ==
    ASSUME NEW f, NEW S, IsFiniteSet(S), NEW T \in SUBSET S
    PROVE  Iter(f, S)[T] = Iter(f, T)[T]
<1> DEFINE B == {U \in SUBSET T : Iter(f, S)[U] # Iter(f, T)[U]}
<1>1. IsFiniteSet(T)
  BY FS_Subset
<1>2. ASSUME B # {} PROVE FALSE
  <2>0. B \in SUBSET SUBSET T
    OBVIOUS
  <2>1. PICK U \in B : \A V \in B : V \subseteq U => V = U
    <3> HIDE DEF B
    <3> QED
      BY <1>1, <1>2, <2>0, MinimalSubset
  <2>2. /\ Iter(f, S)[U] = SumStep(f, Iter(f, S), U)
        /\ Iter(f, T)[U] = SumStep(f, Iter(f, T), U)
    BY <1>1, <2>1, IterEq
  <2>3. CASE U = {}
    BY <2>1, <2>2, <2>3 DEF SumStep
  <2>4. CASE U # {}
    <3> DEFINE x == CHOOSE x \in U : TRUE
    <3>1. x \in U
      BY <2>4
    <3>2. U \ {x} \in SUBSET T /\ U \ {x} \subseteq U /\ U \ {x} # U
      BY <2>1, <3>1
    <3>3. Iter(f, S)[U \ {x}] = Iter(f, T)[U \ {x}]
      BY <2>1, <3>2
    <3>4. QED
      BY <2>1, <2>2, <2>4, <3>3 DEF SumStep
  <2>5. QED
    BY <2>3, <2>4
<1>3. QED
  BY <1>2

\* The sum over no elements.
LEMMA SumEmpty == ASSUME NEW f PROVE SumFunctionOnSet(f, {}) = 0
<1>1. IsFiniteSet({})
  BY FS_EmptySet
<1>2. Iter(f, {})[{}] = SumStep(f, Iter(f, {}), {})
  BY <1>1, IterEq
<1>3. QED
  BY <1>2, SumIter DEF SumStep

\* The recursion that SumFunctionOnSet is defined by.
LEMMA SumRecursion ==
    ASSUME NEW f, NEW S, IsFiniteSet(S), S # {}
    PROVE  \E x \in S : SumFunctionOnSet(f, S) = f[x] + SumFunctionOnSet(f, S \ {x})
<1> DEFINE x == CHOOSE x \in S : TRUE
<1>1. x \in S
  OBVIOUS
<1>2. Iter(f, S)[S] = SumStep(f, Iter(f, S), S)
  BY IterEq
<1>3. Iter(f, S)[S] = f[x] + Iter(f, S)[S \ {x}]
  BY <1>2 DEF SumStep
<1>4. Iter(f, S)[S \ {x}] = Iter(f, S \ {x})[S \ {x}]
  BY IterAgree
<1>5. QED
  BY <1>1, <1>3, <1>4, SumIter, Zenon

\* A sum of integers is an integer.
LEMMA SumType ==
    ASSUME NEW S, IsFiniteSet(S), NEW f, \A x \in S : f[x] \in Int
    PROVE  SumFunctionOnSet(f, S) \in Int
<1> DEFINE B == {T \in SUBSET S : SumFunctionOnSet(f, T) \notin Int}
<1>1. ASSUME B # {} PROVE FALSE
  <2>0. B \in SUBSET SUBSET S
    OBVIOUS
  <2>1. PICK T \in B : \A U \in B : U \subseteq T => U = T
    <3> HIDE DEF B
    <3> QED
      BY <1>1, <2>0, MinimalSubset
  <2>2. IsFiniteSet(T) /\ T \in SUBSET S
    BY <2>1, FS_Subset
  <2>3. T # {}
    <3>1. SumFunctionOnSet(f, {}) = 0
      BY SumEmpty
    <3>2. {} \notin B
      BY <3>1
    <3> HIDE DEF B
    <3>3. QED
      BY <2>1, <3>2, Zenon
  <2>4. PICK x \in T : SumFunctionOnSet(f, T) = f[x] + SumFunctionOnSet(f, T \ {x})
    BY <2>2, <2>3, SumRecursion
  <2>5. SumFunctionOnSet(f, T \ {x}) \in Int
    BY <2>1, <2>2
  <2>6. f[x] \in Int
    BY <2>2
  <2>7. QED
    BY <2>1, <2>4, <2>5, <2>6
<1>2. QED
  BY <1>1

\* Any element can be taken out first.
LEMMA SumRemove ==
    ASSUME NEW S, IsFiniteSet(S), NEW f, \A y \in S : f[y] \in Int, NEW x \in S
    PROVE  SumFunctionOnSet(f, S) = f[x] + SumFunctionOnSet(f, S \ {x})
<1> DEFINE Splits(T, z) == SumFunctionOnSet(f, T) = f[z] + SumFunctionOnSet(f, T \ {z})
           B == {T \in SUBSET S : \E z \in T : ~Splits(T, z)}
<1>1. ASSUME B # {} PROVE FALSE
  <2>0. B \in SUBSET SUBSET S
    OBVIOUS
  <2>1. PICK T \in B : \A U \in B : U \subseteq T => U = T
    <3> HIDE DEF B
    <3> QED
      BY <1>1, <2>0, MinimalSubset
  <2>2. IsFiniteSet(T) /\ T \in SUBSET S
    BY <2>1, FS_Subset
  <2>3. PICK z \in T : ~Splits(T, z)
    BY <2>1
  <2>4. PICK y \in T : Splits(T, y)
    BY <2>2, <2>3, SumRecursion
  <2>5. y # z
    BY <2>3, <2>4
  <2>6. ASSUME NEW v \in T, NEW w \in T \ {v} PROVE Splits(T \ {v}, w)
    <3>1. T \ {v} \in SUBSET S /\ T \ {v} \subseteq T /\ T \ {v} # T
      BY <2>2
    <3>2. T \ {v} \notin B
      BY <2>1, <3>1, Zenon
    <3>3. QED
      BY <2>6, <3>1, <3>2, Zenon
  <2>7. Splits(T \ {y}, z) /\ Splits(T \ {z}, y)
    BY <2>5, <2>6
  <2>8. (T \ {y}) \ {z} = (T \ {z}) \ {y}
    OBVIOUS
  <2>9. f[y] \in Int /\ f[z] \in Int /\ SumFunctionOnSet(f, (T \ {z}) \ {y}) \in Int
    <3>1. IsFiniteSet((T \ {z}) \ {y})
      BY <2>2, FS_Subset
    <3>2. \A w \in (T \ {z}) \ {y} : f[w] \in Int
      BY <2>2
    <3>3. QED
      BY <2>2, <3>1, <3>2, SumType
  <2>10. PICK r \in Int : r = SumFunctionOnSet(f, (T \ {z}) \ {y})
    BY <2>9
  <2>11. SumFunctionOnSet(f, T) = f[y] + (f[z] + r) /\ SumFunctionOnSet(f, T \ {z}) = f[y] + r
    BY <2>4, <2>7, <2>8, <2>10
  <2>12. SumFunctionOnSet(f, T) # f[z] + (f[y] + r)
    BY <2>3, <2>11
  <2> HIDE DEF B
  <2>13. QED
    BY <2>9, <2>11, <2>12
<1>2. QED
  BY <1>1, Zenon

\* A sum grows with its summands, and by summands that are not negative.
LEMMA SumLeq ==
    ASSUME NEW S, IsFiniteSet(S), NEW T \in SUBSET S, NEW f, NEW g,
           \A x \in T : f[x] \in Int /\ f[x] <= g[x],
           \A x \in S : g[x] \in Int,
           \A x \in S \ T : 0 <= g[x]
    PROVE  SumFunctionOnSet(f, T) <= SumFunctionOnSet(g, S)
<1> DEFINE Below(V) == SumFunctionOnSet(f, T \cap V) <= SumFunctionOnSet(g, V)
           B == {V \in SUBSET S : ~Below(V)}
<1>1. ASSUME B # {} PROVE FALSE
  <2>0. B \in SUBSET SUBSET S
    OBVIOUS
  <2>1. PICK V \in B : \A U \in B : U \subseteq V => U = V
    <3> HIDE DEF B
    <3> QED
      BY <1>1, <2>0, MinimalSubset
  <2>2. V \in SUBSET S /\ ~Below(V)
    BY <2>1
  <2>3. IsFiniteSet(V) /\ IsFiniteSet(T \cap V)
    BY <2>2, FS_Subset
  <2>4. V # {}
    <3>1. SumFunctionOnSet(f, {}) = 0 /\ SumFunctionOnSet(g, {}) = 0
      BY SumEmpty
    <3>2. T \cap {} = {}
      OBVIOUS
    <3>3. QED
      BY <2>2, <3>1, <3>2
  <2>5. PICK x \in V : TRUE
    BY <2>4
  <2>6. Below(V \ {x})
    <3>1. V \ {x} \in SUBSET S /\ V \ {x} \subseteq V /\ V \ {x} # V
      BY <2>2, <2>5
    <3>2. QED
      BY <2>1, <3>1
  <2>7. SumFunctionOnSet(g, V) = g[x] + SumFunctionOnSet(g, V \ {x})
    BY <2>2, <2>3, <2>5, SumRemove
  <2>8. g[x] \in Int /\ SumFunctionOnSet(g, V \ {x}) \in Int
    <3>1. IsFiniteSet(V \ {x}) /\ \A y \in V \ {x} : g[y] \in Int
      BY <2>2, <2>3, FS_Subset
    <3>2. QED
      BY <2>2, <2>5, <3>1, SumType
  <2>9. SumFunctionOnSet(f, T \cap (V \ {x})) \in Int
    <3>1. IsFiniteSet(T \cap (V \ {x})) /\ \A y \in T \cap (V \ {x}) : f[y] \in Int
      BY <2>2, <2>3, FS_Subset
    <3>2. QED
      BY <3>1, SumType
  <2>10. CASE x \in T
    <3>1. \A y \in T \cap V : f[y] \in Int
      OBVIOUS
    <3>2. SumFunctionOnSet(f, T \cap V) = f[x] + SumFunctionOnSet(f, (T \cap V) \ {x})
      BY <2>3, <2>5, <2>10, <3>1, SumRemove
    <3>3. (T \cap V) \ {x} = T \cap (V \ {x})
      OBVIOUS
    <3>4. f[x] \in Int /\ f[x] <= g[x]
      BY <2>10
    <3>5. PICK a \in Int : a = SumFunctionOnSet(f, T \cap (V \ {x}))
      BY <2>9
    <3>6. PICK b \in Int : b = SumFunctionOnSet(g, V \ {x})
      BY <2>8
    <3>7. a <= b /\ ~(f[x] + a <= g[x] + b)
      BY <2>2, <2>6, <2>7, <3>2, <3>3, <3>5, <3>6, Zenon
    <3> HIDE DEF B
    <3>8. QED
      BY <2>8, <3>4, <3>7
  <2>11. CASE x \notin T
    <3>1. T \cap V = T \cap (V \ {x})
      BY <2>11
    <3>2. 0 <= g[x]
      BY <2>2, <2>5, <2>11
    <3>3. QED
      BY <2>2, <2>6, <2>7, <2>8, <2>9, <3>1, <3>2
  <2>12. QED
    BY <2>10, <2>11
<1>2. Below(S)
  BY <1>1
<1>3. T \cap S = T
  OBVIOUS
<1>4. QED
  BY <1>2, <1>3

\* A sum depends on the summands that are not 0.
LEMMA SumSupport ==
    ASSUME NEW S, IsFiniteSet(S), NEW T \in SUBSET S, NEW f, NEW g,
           \A x \in S : g[x] \in Int,
           \A x \in T : f[x] = g[x],
           \A x \in S \ T : g[x] = 0
    PROVE  SumFunctionOnSet(f, T) = SumFunctionOnSet(g, S)
<1> DEFINE Same(V) == SumFunctionOnSet(f, T \cap V) = SumFunctionOnSet(g, V)
           B == {V \in SUBSET S : ~Same(V)}
<1>1. ASSUME B # {} PROVE FALSE
  <2>0. B \in SUBSET SUBSET S
    OBVIOUS
  <2>1. PICK V \in B : \A U \in B : U \subseteq V => U = V
    <3> HIDE DEF B
    <3> QED
      BY <1>1, <2>0, MinimalSubset
  <2>2. V \in SUBSET S /\ ~Same(V)
    BY <2>1
  <2>3. IsFiniteSet(V) /\ IsFiniteSet(T \cap V)
    BY <2>2, FS_Subset
  <2>4. V # {}
    <3>1. SumFunctionOnSet(f, {}) = 0 /\ SumFunctionOnSet(g, {}) = 0
      BY SumEmpty
    <3>2. T \cap {} = {}
      OBVIOUS
    <3>3. QED
      BY <2>2, <3>1, <3>2, Zenon
  <2>5. PICK x \in V : TRUE
    BY <2>4
  <2>6. Same(V \ {x})
    <3>1. V \ {x} \in SUBSET S /\ V \ {x} \subseteq V /\ V \ {x} # V
      BY <2>2, <2>5
    <3>2. QED
      BY <2>1, <3>1
  <2>7. SumFunctionOnSet(g, V) = g[x] + SumFunctionOnSet(g, V \ {x})
    BY <2>2, <2>3, <2>5, SumRemove
  <2>8. CASE x \in T
    <3>1. \A y \in T \cap V : f[y] \in Int
      BY <2>2
    <3>2. SumFunctionOnSet(f, T \cap V) = f[x] + SumFunctionOnSet(f, (T \cap V) \ {x})
      BY <2>3, <2>5, <2>8, <3>1, SumRemove
    <3>3. (T \cap V) \ {x} = T \cap (V \ {x})
      OBVIOUS
    <3>4. QED
      BY <2>2, <2>6, <2>7, <2>8, <3>2, <3>3, Zenon
  <2>9. CASE x \notin T
    <3>1. T \cap V = T \cap (V \ {x})
      BY <2>9
    <3>2. g[x] = 0
      BY <2>2, <2>5, <2>9
    <3>3. SumFunctionOnSet(g, V \ {x}) \in Int
      <4>1. IsFiniteSet(V \ {x}) /\ \A y \in V \ {x} : g[y] \in Int
        BY <2>2, <2>3, FS_Subset
      <4>2. QED
        BY <4>1, SumType
    <3>4. SumFunctionOnSet(g, V) = SumFunctionOnSet(g, V \ {x})
      <4>1. PICK r \in Int : r = SumFunctionOnSet(g, V \ {x})
        BY <3>3
      <4>2. QED
        BY <2>7, <3>2, <4>1
    <3>5. QED
      BY <2>2, <2>6, <3>1, <3>4
  <2>10. QED
    BY <2>8, <2>9
<1>2. Same(S)
  BY <1>1
<1>3. T \cap S = T
  OBVIOUS
<1>4. QED
  BY <1>2, <1>3

\* A sum depends on the summands only.
LEMMA SumEqual ==
    ASSUME NEW S, IsFiniteSet(S), NEW f, NEW g, \A x \in S : f[x] \in Int /\ f[x] = g[x]
    PROVE  SumFunctionOnSet(f, S) = SumFunctionOnSet(g, S)
BY SumSupport

\* When one summand changes, the sum changes by as much.
LEMMA SumChange ==
    ASSUME NEW S, IsFiniteSet(S), NEW f \in [S -> Int], NEW g \in [S -> Int], NEW x \in S,
           \A y \in S \ {x} : g[y] = f[y]
    PROVE  SumFunction(g) = SumFunction(f) + g[x] - f[x]
<1>1. IsFiniteSet(S \ {x})
  BY FS_Subset
<1>2. SumFunctionOnSet(f, S \ {x}) = SumFunctionOnSet(g, S \ {x})
  BY <1>1, SumEqual
<1>3. SumFunctionOnSet(f, S \ {x}) \in Int
  BY <1>1, SumType
<1>4. /\ SumFunctionOnSet(f, S) = f[x] + SumFunctionOnSet(f, S \ {x})
      /\ SumFunctionOnSet(g, S) = g[x] + SumFunctionOnSet(g, S \ {x})
  BY SumRemove
<1>5. f[x] \in Int /\ g[x] \in Int
  OBVIOUS
<1>6. QED
  BY <1>2, <1>3, <1>4, <1>5 DEF SumFunction

\* Nothing adds up to nothing.
LEMMA SumZero ==
    ASSUME NEW S, IsFiniteSet(S), NEW f \in [S -> Int], \A x \in S : f[x] = 0
    PROVE  SumFunction(f) = 0
<1>1. SumFunctionOnSet(f, {}) = SumFunctionOnSet(f, S)
  BY SumSupport
<1>2. QED
  BY <1>1, SumEmpty DEF SumFunction
=============================================================================
