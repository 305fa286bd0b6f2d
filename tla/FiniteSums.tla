----------------------------- MODULE FiniteSums -----------------------------
(***************************************************************************)
(* Facts about SumFunctionOnSet and SumFunction of module Functions, the   *)
(* sums in which the properties of InventoryService and ProductCatalog are *)
(* stated: a sum over a finite set depends on the values in it alone, and  *)
(* an element contributes its value, whichever the order of summation.     *)
(*                                                                         *)
(* The sums are defined by recursion over subsets.  Each fact is proved    *)
(* by a least counterexample: the cardinalities of the sets that           *)
(* contradict it, were there any, would have a least one.                  *)
(***************************************************************************)
EXTENDS Integers, FiniteSets, Functions, FiniteSetTheorems,
        WellFoundedInduction, TLAPS

LEMMA LeastNumber ==
  ASSUME NEW T \in SUBSET Nat, T # {}
  PROVE  \E n \in T : \A m \in T : n <= m
<1> DEFINE R == OpToRel(<, Nat)
<1>1. IsWellFoundedOn(R, Nat)
  BY NatLessThanWellFounded
<1>2. PICK n \in T : \A m \in T : <<m, n>> \notin R
  <2> HIDE DEF R
  <2> QED BY <1>1, WFMin
<1>3. \A m \in T : ~(m < n)
  BY <1>2 DEF OpToRel
<1> QED BY <1>3

\* The least counterexample among the subsets of a finite set.
LEMMA SmallestSet ==
  ASSUME NEW S, IsFiniteSet(S), NEW B \in SUBSET (SUBSET S), B # {}
  PROVE  \E T \in B : \A U \in SUBSET T : U # T => U \notin B
<1> DEFINE Sizes == {Cardinality(T) : T \in B}
<1>1. \A T \in SUBSET S : IsFiniteSet(T) /\ Cardinality(T) \in Nat
  BY FS_Subset, FS_CardinalityType
<1>2. Sizes \in SUBSET Nat /\ Sizes # {}
  BY <1>1
<1>3. PICK n \in Sizes : \A m \in Sizes : n <= m
  <2> HIDE DEF Sizes
  <2> QED BY <1>2, LeastNumber
<1>4. PICK T \in B : Cardinality(T) = n
  BY <1>3
<1>5. ASSUME NEW U \in SUBSET T, U # T, U \in B
      PROVE  FALSE
  <2>1. Cardinality(U) < Cardinality(T)
    BY <1>1, <1>5, FS_Subset
  <2>2. Cardinality(U) \in Sizes
    BY <1>5
  <2> QED BY <1>1, <1>3, <1>4, <1>5, <2>1, <2>2
<1> QED BY <1>4, <1>5

-----------------------------------------------------------------------------
(***************************************************************************)
(* The recursion is well defined                                           *)
(***************************************************************************)

First(S) == CHOOSE x \in S : TRUE

\* What the recursion makes of its values on smaller sets.
Step(f, g, T) == IF T = {} THEN 0 ELSE f[First(T)] + g[T \ {First(T)}]

Sums(f, S) == CHOOSE g : g = [T \in SUBSET S |-> Step(f, g, T)]

LEMMA SumIsTheLast ==
  ASSUME NEW f, NEW S
  PROVE  SumFunctionOnSet(f, S) = Sums(f, S)[S]
BY DEF SumFunctionOnSet, FoldFunctionOnSet, MapThenFoldSet, Sums, Step, First

LEMMA FirstIsIn ==
  ASSUME NEW S, S # {}
  PROVE  First(S) \in S /\ S \ {First(S)} # S
BY DEF First

LEMMA SumsExist ==
  ASSUME NEW f, NEW S, IsFiniteSet(S)
  PROVE  \E g : g = [T \in SUBSET S |-> Step(f, g, T)]
<1> DEFINE Sized(n) == {T \in SUBSET S : Cardinality(T) <= n}
           Summed(n, g) == g = [T \in Sized(n) |-> Step(f, g, T)]
           Bad == {n \in Nat : ~ \E g : Summed(n, g)}
<1>1. \A T \in SUBSET S : /\ IsFiniteSet(T)
                          /\ Cardinality(T) \in Nat
                          /\ Cardinality(T) <= Cardinality(S)
  BY FS_Subset, FS_CardinalityType
<1>2. ASSUME NEW n \in Nat, \A m \in 0..(n - 1) : \E g : Summed(m, g)
      PROVE  \E g : Summed(n, g)
  <2>1. CASE n = 0
    <3> DEFINE g == [T \in Sized(0) |-> 0]
    <3>1. \A T \in Sized(0) : T = {}
      BY <1>1, FS_EmptySet
    <3>2. \A T \in Sized(0) : Step(f, g, T) = 0
      BY <3>1 DEF Step
    <3>3. Summed(0, g)
      BY <3>2
    <3> QED BY <2>1, <3>3
  <2>2. CASE n # 0
    <3>1. n - 1 \in 0..(n - 1)
      BY <2>2
    <3>2. PICK g : Summed(n - 1, g)
      BY <1>2, <3>1
    <3> DEFINE h == [T \in Sized(n) |-> Step(f, g, T)]
    <3>3. ASSUME NEW T \in Sized(n)
          PROVE  Step(f, g, T) = Step(f, h, T)
      <4>1. CASE T = {}
        BY <4>1 DEF Step
      <4>2. CASE T # {}
        <5> DEFINE U == T \ {First(T)}
        <5>1. U \in Sized(n - 1) /\ U \in Sized(n)
          BY <1>1, <4>2, FirstIsIn, FS_RemoveElement
        <5>2. h[U] = g[U]
          BY <3>2, <5>1
        <5> QED BY <4>2, <5>2 DEF Step
      <4> QED BY <4>1, <4>2
    <3>4. Summed(n, h)
      BY <3>3
    <3> QED BY <3>4
  <2> QED BY <2>1, <2>2
<1>3. Bad = {}
  <2>1. ASSUME Bad # {} PROVE FALSE
    <3>1. PICK n \in Bad : \A m \in Bad : n <= m
      <4>1. Bad \in SUBSET Nat
        OBVIOUS
      <4> HIDE DEF Bad
      <4> QED BY <2>1, <4>1, LeastNumber
    <3>2. \A m \in 0..(n - 1) : \E g : Summed(m, g)
      <4>1. \A m \in 0..(n - 1) : m \in Nat /\ ~(n <= m)
        BY <3>1
      <4>2. \A m \in 0..(n - 1) : m \notin Bad
        BY <3>1, <4>1
      <4> HIDE DEF Summed
      <4> QED BY <4>1, <4>2
    <3> QED BY <1>2, <3>1, <3>2
  <2> QED BY <2>1
<1>4. PICK g : Summed(Cardinality(S), g)
  BY <1>1, <1>3
<1>5. Sized(Cardinality(S)) = SUBSET S
  BY <1>1
<1> QED BY <1>4, <1>5

LEMMA SumsRecursion ==
  ASSUME NEW f, NEW S, IsFiniteSet(S), NEW T \in SUBSET S
  PROVE  Sums(f, S)[T] = Step(f, Sums(f, S), T)
<1>1. Sums(f, S) = [U \in SUBSET S |-> Step(f, Sums(f, S), U)]
  BY SumsExist DEF Sums
<1> QED BY <1>1

LEMMA SumsAgree ==
  ASSUME NEW f, NEW g, NEW S, NEW T, IsFiniteSet(S), IsFiniteSet(T),
         NEW V \in SUBSET (S \cap T), \A x \in V : f[x] = g[x]
  PROVE  Sums(f, S)[V] = Sums(g, T)[V]
<1> DEFINE Bad == {U \in SUBSET V : Sums(f, S)[U] # Sums(g, T)[U]}
<1>1. SUFFICES ASSUME Bad # {} PROVE FALSE
  OBVIOUS
<1>2. IsFiniteSet(V)
  BY FS_Subset
<1>3. PICK U \in Bad : \A W \in SUBSET U : W # U => W \notin Bad
  <2>1. Bad \in SUBSET (SUBSET V)
    OBVIOUS
  <2> HIDE DEF Bad
  <2> QED BY <1>1, <1>2, <2>1, SmallestSet
<1>4. /\ Sums(f, S)[U] = Step(f, Sums(f, S), U)
      /\ Sums(g, T)[U] = Step(g, Sums(g, T), U)
  <2>1. U \in SUBSET S /\ U \in SUBSET T
    OBVIOUS
  <2> QED BY <2>1, SumsRecursion
<1>5. U # {}
  BY <1>4 DEF Step
<1> DEFINE W == U \ {First(U)}
<1>6. Sums(f, S)[W] = Sums(g, T)[W]
  BY <1>3, <1>5, FirstIsIn
<1>7. f[First(U)] = g[First(U)]
  BY <1>5, FirstIsIn
<1> QED BY <1>4, <1>5, <1>6, <1>7 DEF Step

-----------------------------------------------------------------------------
(***************************************************************************)
(* What the sums are                                                       *)
(***************************************************************************)

\* A sum depends on the values it adds, not on the function around them.
LEMMA SumDependsOnValues ==
  ASSUME NEW f, NEW g, NEW S, IsFiniteSet(S), \A x \in S : f[x] = g[x]
  PROVE  SumFunctionOnSet(f, S) = SumFunctionOnSet(g, S)
BY SumIsTheLast, SumsAgree

LEMMA SumOfNothing ==
  ASSUME NEW f
  PROVE  SumFunctionOnSet(f, {}) = 0
<1>1. Sums(f, {})[{}] = Step(f, Sums(f, {}), {})
  BY FS_EmptySet, SumsRecursion
<1> QED BY <1>1, SumIsTheLast DEF Step

LEMMA SumWithoutFirst ==
  ASSUME NEW f, NEW S, IsFiniteSet(S), S # {}
  PROVE  SumFunctionOnSet(f, S)
            = f[First(S)] + SumFunctionOnSet(f, S \ {First(S)})
<1> DEFINE T == S \ {First(S)}
<1>1. Sums(f, S)[S] = f[First(S)] + Sums(f, S)[T]
  BY SumsRecursion DEF Step
<1>2. Sums(f, S)[T] = Sums(f, T)[T]
  BY FS_Subset, SumsAgree
<1> QED BY <1>1, <1>2, SumIsTheLast

LEMMA SumIsNatural ==
  ASSUME NEW f, NEW S, IsFiniteSet(S), \A x \in S : f[x] \in Nat
  PROVE  SumFunctionOnSet(f, S) \in Nat
<1> DEFINE Bad == {T \in SUBSET S : SumFunctionOnSet(f, T) \notin Nat}
<1>1. SUFFICES ASSUME Bad # {} PROVE FALSE
  OBVIOUS
<1>2. PICK T \in Bad : \A U \in SUBSET T : U # T => U \notin Bad
  <2>1. Bad \in SUBSET (SUBSET S)
    OBVIOUS
  <2> HIDE DEF Bad
  <2> QED BY <1>1, <2>1, SmallestSet
<1>3. T # {}
  BY SumOfNothing
<1>4. T \in SUBSET S /\ IsFiniteSet(T)
  BY FS_Subset
<1> DEFINE U == T \ {First(T)}
<1>5. SumFunctionOnSet(f, U) \in Nat
  BY <1>2, <1>3, <1>4, FirstIsIn
<1>6. f[First(T)] \in Nat
  BY <1>3, <1>4, FirstIsIn
<1>7. SumFunctionOnSet(f, T) = f[First(T)] + SumFunctionOnSet(f, U)
  BY <1>3, <1>4, SumWithoutFirst
<1> QED BY <1>5, <1>6, <1>7

LEMMA SumOfZeros ==
  ASSUME NEW f, NEW S, IsFiniteSet(S), \A x \in S : f[x] = 0
  PROVE  SumFunctionOnSet(f, S) = 0
<1> DEFINE Bad == {T \in SUBSET S : SumFunctionOnSet(f, T) # 0}
<1>1. SUFFICES ASSUME Bad # {} PROVE FALSE
  OBVIOUS
<1>2. PICK T \in Bad : \A U \in SUBSET T : U # T => U \notin Bad
  <2>1. Bad \in SUBSET (SUBSET S)
    OBVIOUS
  <2> HIDE DEF Bad
  <2> QED BY <1>1, <2>1, SmallestSet
<1>3. T # {} /\ T \in SUBSET S /\ IsFiniteSet(T)
  BY SumOfNothing, FS_Subset
<1> DEFINE U == T \ {First(T)}
<1>4. SumFunctionOnSet(f, U) = 0 /\ f[First(T)] = 0
  BY <1>2, <1>3, FirstIsIn
<1>5. SumFunctionOnSet(f, T) = f[First(T)] + SumFunctionOnSet(f, U)
  BY <1>3, SumWithoutFirst
<1> QED BY <1>4, <1>5

\* Every element contributes its value.
LEMMA SumWithoutElement ==
  ASSUME NEW f, NEW S, IsFiniteSet(S), \A x \in S : f[x] \in Nat,
         NEW x \in S
  PROVE  SumFunctionOnSet(f, S) = f[x] + SumFunctionOnSet(f, S \ {x})
<1> DEFINE Sum(T) == SumFunctionOnSet(f, T)
           Splits(T, z) == Sum(T) = f[z] + Sum(T \ {z})
           Bad == {T \in SUBSET S : ~ \A z \in T : Splits(T, z)}
<1>1. SUFFICES ASSUME Bad # {} PROVE FALSE
  OBVIOUS
<1>2. PICK T \in Bad : \A U \in SUBSET T : U # T => U \notin Bad
  <2>1. Bad \in SUBSET (SUBSET S)
    OBVIOUS
  <2> HIDE DEF Bad
  <2> QED BY <1>1, <2>1, SmallestSet
<1>3. PICK z \in T : ~Splits(T, z)
  BY <1>2
<1> DEFINE y == First(T)
<1>4. T \in SUBSET S /\ y \in T /\ Splits(T, y)
  BY <1>3, FirstIsIn, FS_Subset, SumWithoutFirst
<1>5. y # z
  BY <1>3, <1>4
<1>6. \A U \in SUBSET T : U # T => \A u \in U : Splits(U, u)
  BY <1>2, <1>4
<1>7. Sum(T \ {y}) = f[z] + Sum(T \ {y, z})
  <2>1. /\ z \in T \ {y} /\ T \ {y} # T
        /\ (T \ {y}) \ {z} = T \ {y, z}
    BY <1>3, <1>4, <1>5
  <2> QED BY <1>6, <2>1
<1>8. Sum(T \ {z}) = f[y] + Sum(T \ {y, z})
  <2>1. /\ y \in T \ {z} /\ T \ {z} # T
        /\ (T \ {z}) \ {y} = T \ {y, z}
    BY <1>3, <1>4, <1>5
  <2> QED BY <1>6, <2>1
<1>9. Sum(T \ {y, z}) \in Nat /\ f[y] \in Nat /\ f[z] \in Nat
  <2>1. T \ {y, z} \in SUBSET S
    BY <1>4
  <2> QED BY <1>3, <1>4, <2>1, FS_Subset, SumIsNatural
<1> HIDE DEF Sum
<1> QED BY <1>3, <1>4, <1>7, <1>8, <1>9

LEMMA SumWithElement ==
  ASSUME NEW f, NEW S, IsFiniteSet(S), \A z \in S : f[z] \in Nat,
         NEW x, x \notin S, f[x] \in Nat
  PROVE  SumFunctionOnSet(f, S \cup {x}) = SumFunctionOnSet(f, S) + f[x]
<1>1. IsFiniteSet(S \cup {x}) /\ (S \cup {x}) \ {x} = S
  BY FS_AddElement
<1>2. SumFunctionOnSet(f, S) \in Nat
  BY SumIsNatural
<1> QED BY <1>1, <1>2, SumWithoutElement


LEMMA SumOfOnes ==
  ASSUME NEW f, NEW S, IsFiniteSet(S), \A x \in S : f[x] = 1
  PROVE  SumFunctionOnSet(f, S) = Cardinality(S)
<1> DEFINE Bad == {T \in SUBSET S :
                     SumFunctionOnSet(f, T) # Cardinality(T)}
<1>1. SUFFICES ASSUME Bad # {} PROVE FALSE
  OBVIOUS
<1>2. PICK T \in Bad : \A U \in SUBSET T : U # T => U \notin Bad
  <2>1. Bad \in SUBSET (SUBSET S)
    OBVIOUS
  <2> HIDE DEF Bad
  <2> QED BY <1>1, <2>1, SmallestSet
<1>3. T # {} /\ T \in SUBSET S /\ IsFiniteSet(T)
  BY SumOfNothing, FS_EmptySet, FS_Subset
<1> DEFINE x == First(T)
           U == T \ {x}
<1>4. x \in T /\ f[x] = 1 /\ SumFunctionOnSet(f, U) = Cardinality(U)
  BY <1>2, <1>3, FirstIsIn
<1>5. SumFunctionOnSet(f, T) = f[x] + SumFunctionOnSet(f, U)
  BY <1>3, SumWithoutFirst
<1>6. /\ Cardinality(U) = Cardinality(T) - 1
      /\ Cardinality(T) \in Nat /\ Cardinality(U) \in Nat
  BY <1>3, <1>4, FS_RemoveElement, FS_CardinalityType
<1> QED BY <1>4, <1>5, <1>6

\* One value changes: the sum changes by as much.
LEMMA SumChangesWithValue ==
  ASSUME NEW f, NEW g, NEW S, IsFiniteSet(S), NEW x \in S,
         \A z \in S : f[z] \in Nat /\ g[z] \in Nat,
         \A z \in S \ {x} : g[z] = f[z]
  PROVE  SumFunctionOnSet(g, S) + f[x] = SumFunctionOnSet(f, S) + g[x]
<1> DEFINE T == S \ {x}
<1>1. IsFiniteSet(T)
  BY FS_Subset
<1>2. SumFunctionOnSet(g, T) = SumFunctionOnSet(f, T)
  BY <1>1, SumDependsOnValues
<1>3. SumFunctionOnSet(f, T) \in Nat
  BY <1>1, SumIsNatural
<1>4. /\ SumFunctionOnSet(f, S) = f[x] + SumFunctionOnSet(f, T)
      /\ SumFunctionOnSet(g, S) = g[x] + SumFunctionOnSet(g, T)
  BY SumWithoutElement
<1> QED BY <1>2, <1>3, <1>4

\* Fewer and smaller values have a smaller sum.
LEMMA SumIsMonotone ==
  ASSUME NEW f, NEW g, NEW S, IsFiniteSet(S), NEW T \in SUBSET S,
         \A z \in S : f[z] \in Nat /\ g[z] \in Nat,
         \A z \in T : f[z] <= g[z]
  PROVE  SumFunctionOnSet(f, T) <= SumFunctionOnSet(g, S)
<1> DEFINE F(U) == SumFunctionOnSet(f, U \cap T)
           G(U) == SumFunctionOnSet(g, U)
           Bad == {U \in SUBSET S : ~(F(U) <= G(U))}
<1>1. SUFFICES ASSUME Bad # {} PROVE FALSE
  <2>1. S \cap T = T
    OBVIOUS
  <2> QED BY <2>1
<1>2. PICK U \in Bad : \A V \in SUBSET U : V # U => V \notin Bad
  <2>1. Bad \in SUBSET (SUBSET S)
    OBVIOUS
  <2> HIDE DEF Bad
  <2> QED BY <1>1, <2>1, SmallestSet
<1>3. U # {}
  <2>1. CASE U = {}
    <3>1. U \cap T = {}
      BY <2>1
    <3>2. F(U) = 0 /\ G(U) = 0
      BY <2>1, <3>1, SumOfNothing
    <3> QED BY <3>2
  <2> QED BY <2>1
<1> DEFINE y == First(U)
           V == U \ {y}
<1>4. U \in SUBSET S /\ y \in U /\ V \in SUBSET U /\ V # U
  BY <1>3, FirstIsIn
<1>5. \A W \in SUBSET S : IsFiniteSet(W)
  BY FS_Subset
<1>6. \A W \in SUBSET S : F(W) \in Nat /\ G(W) \in Nat
  <2> TAKE W \in SUBSET S
  <2>1. W \cap T \in SUBSET S /\ IsFiniteSet(W \cap T) /\ IsFiniteSet(W)
    BY <1>5
  <2> QED BY <2>1, SumIsNatural
<1>7. F(V) <= G(V)
  BY <1>2, <1>4
<1>8. G(U) = g[y] + G(V)
  BY <1>4, <1>5, SumWithoutElement
<1>9. F(U) <= g[y] + F(V)
  <2>1. CASE y \in T
    <3>1. /\ y \in U \cap T /\ (U \cap T) \ {y} = V \cap T
          /\ U \cap T \in SUBSET S /\ IsFiniteSet(U \cap T)
      BY <1>4, <1>5, <2>1
    <3>2. F(U) = f[y] + F(V)
      BY <3>1, SumWithoutElement
    <3>3. f[y] <= g[y] /\ f[y] \in Nat /\ g[y] \in Nat /\ F(V) \in Nat
      BY <1>4, <1>6, <2>1
    <3> HIDE DEF F
    <3> QED BY <3>2, <3>3
  <2>2. CASE y \notin T
    <3>1. U \cap T = V \cap T
      BY <2>2
    <3>2. F(U) = F(V) /\ g[y] \in Nat /\ F(V) \in Nat
      BY <1>4, <1>6, <3>1
    <3> HIDE DEF F
    <3> QED BY <3>2
  <2> QED BY <2>1, <2>2
<1>10. /\ F(U) \in Nat /\ F(V) \in Nat /\ G(U) \in Nat /\ G(V) \in Nat
       /\ g[y] \in Nat /\ ~(F(U) <= G(U))
  BY <1>4, <1>6
<1> HIDE DEF F, G
<1> QED BY <1>7, <1>8, <1>9, <1>10

=============================================================================
