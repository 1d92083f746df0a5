-------------------------------- MODULE Sums --------------------------------
(***************************************************************************)
(* Facts about SumFunction of module Functions over a finite set: its      *)
(* type, and how it moves when one summand does.  The ledgers' invariants  *)
(* are such sums.  Induction is over sets here: a property is the set of   *)
(* what has it, which the provers can instantiate.                         *)
(***************************************************************************)
EXTENDS Integers, Functions, FiniteSetTheorems, TLAPS

(* Natural induction in the form the provers can use: the property is a set, not an operator. *)
LEMMA NatSetInduction ==
  ASSUME NEW G, 0 \in G, \A n \in Nat : n \in G => n + 1 \in G
  PROVE  \A n \in Nat : n \in G
<1> SUFFICES ASSUME NEW m \in Nat, m \notin G
             PROVE  FALSE
  OBVIOUS
<1> DEFINE bad == {n \in Nat : n \notin G}
           R == {p \in Nat \X Nat : p[1] < p[2]}
<1>1. IsWellFoundedOn(R, Nat)
  BY NatLessThanWellFounded DEF OpToRel
<1>2. PICK n \in bad : \A k \in bad : ~(<<k, n>> \in R)
  <2>1. bad \subseteq Nat /\ bad # {}
    OBVIOUS
  <2> HIDE DEF bad, R
  <2>2. \E n \in bad : \A k \in bad : ~(<<k, n>> \in R)
    BY <1>1, <2>1, WFMin, ZenonT(60)
  <2> QED BY <2>2
<1>3. n # 0 /\ n \in Nat /\ n - 1 \in Nat
  BY <1>2
<1>4. n - 1 \notin G
  <2>1. (n - 1) + 1 = n
    BY <1>3
  <2> QED BY <1>2, <1>3, <2>1
<1>5. <<n - 1, n>> \in R
  BY <1>3
<1> QED BY <1>2, <1>3, <1>4, <1>5

(* The element the fold takes next, and one unfolding of the fold. *)
Pick(T) == CHOOSE x \in T : TRUE
Unfolded(f, g, T) == IF T = {} THEN 0 ELSE f[Pick(T)] + g[T \ {Pick(T)}]
IsSum(f, g, S) == g = [T \in SUBSET S |-> Unfolded(f, g, T)]
SumFcn(f, S) == CHOOSE g : IsSum(f, g, S)

(* The picked element belongs to the set. *)
LEMMA PickIn ==
  ASSUME NEW T, T # {}
  PROVE  Pick(T) \in T
BY DEF Pick

(* Removing the picked element of a non-empty finite set leaves a smaller set. *)
LEMMA PickSmaller ==
  ASSUME NEW S, IsFiniteSet(S), NEW T \in SUBSET S, T # {}
  PROVE  /\ Pick(T) \in T
         /\ T \ {Pick(T)} \in SUBSET S
         /\ Cardinality(T) \in Nat
         /\ Cardinality(T \ {Pick(T)}) \in Nat
         /\ Cardinality(T \ {Pick(T)}) = Cardinality(T) - 1
<1>1. Pick(T) \in T
  BY DEF Pick
<1>2. IsFiniteSet(T)
  BY FS_Subset
<1> HIDE DEF Pick
<1>3. IsFiniteSet(T \ {Pick(T)}) /\ Cardinality(T \ {Pick(T)}) = Cardinality(T) - 1
  BY <1>1, <1>2, FS_RemoveElement
<1> QED BY <1>1, <1>2, <1>3, FS_CardinalityType

(* The recursive function behind the sum of a finite set exists. *)
LEMMA SumFcnExists ==
  ASSUME NEW S, IsFiniteSet(S), NEW f
  PROVE  \E g : IsSum(f, g, S)
<1> DEFINE upTo(g, n) == \A T \in SUBSET S : Cardinality(T) <= n => g[T] = Unfolded(f, g, T)
           G == {n \in Nat : \E g : upTo(g, n)}
<1>0. \A T \in SUBSET S : Cardinality(T) \in Nat /\ (Cardinality(T) = 0 <=> T = {})
  BY FS_Subset, FS_CardinalityType, FS_EmptySet
<1>1. 0 \in G
  <2> DEFINE g0 == [T \in SUBSET S |-> 0]
  <2>1. upTo(g0, 0)
    BY <1>0 DEF Unfolded
  <2> QED BY <2>1
<1>2. ASSUME NEW n \in Nat, n \in G
      PROVE  n + 1 \in G
  <2>1. PICK g : upTo(g, n)
    BY <1>2
  <2> DEFINE h == [T \in SUBSET S |-> IF Cardinality(T) <= n THEN g[T] ELSE Unfolded(f, g, T)]
  <2>2. ASSUME NEW T \in SUBSET S
        PROVE  h[T] = Unfolded(f, g, T)
    BY <2>1
  <2>3. ASSUME NEW T \in SUBSET S, Cardinality(T) <= n + 1
        PROVE  Unfolded(f, h, T) = Unfolded(f, g, T)
    <3>1. CASE T = {}
      BY <3>1 DEF Unfolded
    <3>2. CASE T # {}
      <4> DEFINE U == T \ {Pick(T)}
      <4>1. U \in SUBSET S /\ Cardinality(U) <= n
        BY <2>3, <3>2, PickSmaller
      <4>2. h[U] = g[U]
        BY <4>1
      <4> QED BY <3>2, <4>2 DEF Unfolded
    <3> QED BY <3>1, <3>2
  <2> HIDE DEF h
  <2>4. upTo(h, n + 1)
    <3>1. ASSUME NEW T \in SUBSET S, Cardinality(T) <= n + 1
          PROVE  h[T] = Unfolded(f, h, T)
      BY <2>2, <2>3, <3>1, ZenonT(60)
    <3> QED BY <3>1
  <2>5. \E k : upTo(k, n + 1)
    <3> HIDE DEF upTo
    <3> QED BY <2>4
  <2> QED BY <2>5
<1>3. Cardinality(S) \in G
  <2>1. S \in SUBSET S
    OBVIOUS
  <2> HIDE DEF G
  <2> QED BY <1>0, <1>1, <1>2, <2>1, NatSetInduction
<1>4. PICK g : upTo(g, Cardinality(S))
  BY <1>3
<1> DEFINE h == [T \in SUBSET S |-> g[T]]
<1>5. ASSUME NEW T \in SUBSET S
      PROVE  g[T] = Unfolded(f, g, T)
  BY <1>4, FS_Subset
<1>6. ASSUME NEW T \in SUBSET S
      PROVE  Unfolded(f, h, T) = Unfolded(f, g, T)
  BY DEF Unfolded
<1>7. h = [T \in SUBSET S |-> Unfolded(f, h, T)]
  <2>1. ASSUME NEW T \in SUBSET S
        PROVE  g[T] = Unfolded(f, h, T)
    <3> HIDE DEF h
    <3> QED BY <1>5, <1>6, ZenonT(60)
  <2>2. h = [T \in SUBSET S |-> g[T]]
    OBVIOUS
  <2> HIDE DEF h
  <2> QED BY <2>1, <2>2, ZenonT(60)
<1> HIDE DEF h
<1> QED BY <1>7 DEF IsSum

(* What the recursive function returns on every subset. *)
LEMMA SumFcnUnfolds ==
  ASSUME NEW S, IsFiniteSet(S), NEW f, NEW T \in SUBSET S
  PROVE  SumFcn(f, S)[T] = Unfolded(f, SumFcn(f, S), T)
<1>1. IsSum(f, SumFcn(f, S), S)
  BY SumFcnExists DEF SumFcn
<1> QED BY <1>1 DEF IsSum

(* The library's sum is the value of that function at the whole set. *)
LEMMA SumIsFcn ==
  ASSUME NEW S, NEW f
  PROVE  SumFunctionOnSet(f, S) = SumFcn(f, S)[S]
BY DEF SumFunctionOnSet, FoldFunctionOnSet, MapThenFoldSet, SumFcn, IsSum, Unfolded, Pick

(* Induction over the subsets of a finite set, again with the property as a set. *)
LEMMA SubsetInduction ==
  ASSUME NEW S, IsFiniteSet(S), NEW G, {} \in G,
         \A T \in SUBSET S : T # {} /\ T \ {Pick(T)} \in G => T \in G
  PROVE  S \in G
<1> DEFINE H == {n \in Nat : \A T \in SUBSET S : Cardinality(T) = n => T \in G}
<1>0. \A T \in SUBSET S : Cardinality(T) \in Nat /\ (Cardinality(T) = 0 <=> T = {})
  BY FS_Subset, FS_CardinalityType, FS_EmptySet
<1>1. 0 \in H
  BY <1>0
<1>2. ASSUME NEW n \in Nat, n \in H
      PROVE  n + 1 \in H
  <2>1. ASSUME NEW T \in SUBSET S, Cardinality(T) = n + 1
        PROVE  T \in G
    <3>1. T # {}
      BY <1>0, <2>1
    <3>2. T \ {Pick(T)} \in SUBSET S /\ Cardinality(T \ {Pick(T)}) = n
      BY <2>1, <3>1, PickSmaller
    <3> QED BY <1>2, <3>1, <3>2
  <2> QED BY <2>1
<1>3. S \in SUBSET S
  OBVIOUS
<1>4. Cardinality(S) \in H
  <2> HIDE DEF H
  <2> QED BY <1>0, <1>1, <1>2, <1>3, NatSetInduction
<1> QED BY <1>3, <1>4

(* The function of a larger set agrees with the function of a smaller one. *)
LEMMA SumFcnAgrees ==
  ASSUME NEW S, IsFiniteSet(S), NEW f, NEW T \in SUBSET S
  PROVE  SumFcn(f, S)[T] = SumFcn(f, T)[T]
<1> DEFINE G == {U \in SUBSET T : SumFcn(f, S)[U] = SumFcn(f, T)[U]}
<1>0. IsFiniteSet(T) /\ SUBSET T \subseteq SUBSET S
  BY FS_Subset
<1>1. ASSUME NEW U \in SUBSET T
      PROVE  /\ SumFcn(f, S)[U] = Unfolded(f, SumFcn(f, S), U)
             /\ SumFcn(f, T)[U] = Unfolded(f, SumFcn(f, T), U)
  BY <1>0, SumFcnUnfolds
<1>2. {} \in G
  BY <1>1 DEF Unfolded
<1>3. ASSUME NEW U \in SUBSET T, U # {}, U \ {Pick(U)} \in G
      PROVE  U \in G
  BY <1>1, <1>3 DEF Unfolded
<1>4. T \in G
  <2> HIDE DEF G
  <2> QED BY <1>0, <1>2, <1>3, SubsetInduction
<1> QED BY <1>4

(* The sum over the empty set is zero. *)
LEMMA SumEmpty ==
  ASSUME NEW f
  PROVE  SumFunctionOnSet(f, {}) = 0
<1>1. SumFcn(f, {})[{}] = Unfolded(f, SumFcn(f, {}), {})
  BY FS_EmptySet, SumFcnUnfolds
<1> QED BY <1>1, SumIsFcn DEF Unfolded

(* The sum over a non-empty set is the picked value and the sum of the rest. *)
LEMMA SumPick ==
  ASSUME NEW S, IsFiniteSet(S), S # {}, NEW f
  PROVE  SumFunctionOnSet(f, S) = f[Pick(S)] + SumFunctionOnSet(f, S \ {Pick(S)})
<1>1. S \in SUBSET S /\ S \ {Pick(S)} \in SUBSET S
  OBVIOUS
<1>2. SumFcn(f, S)[S] = f[Pick(S)] + SumFcn(f, S)[S \ {Pick(S)}]
  BY <1>1, SumFcnUnfolds DEF Unfolded
<1>3. SumFcn(f, S)[S \ {Pick(S)}] = SumFcn(f, S \ {Pick(S)})[S \ {Pick(S)}]
  BY <1>1, SumFcnAgrees
<1> QED BY <1>2, <1>3, SumIsFcn

(* A sum of integers is an integer. *)
LEMMA SumInt ==
  ASSUME NEW S, IsFiniteSet(S), NEW f, \A x \in S : f[x] \in Int
  PROVE  SumFunctionOnSet(f, S) \in Int
<1> DEFINE G == {T \in SUBSET S : SumFunctionOnSet(f, T) \in Int}
<1>1. {} \in G
  BY SumEmpty
<1>2. ASSUME NEW T \in SUBSET S, T # {}, T \ {Pick(T)} \in G
      PROVE  T \in G
  <2>1. IsFiniteSet(T)
    BY FS_Subset
  <2>2. Pick(T) \in S
    BY <1>2, PickIn
  <2>3. SumFunctionOnSet(f, T) = f[Pick(T)] + SumFunctionOnSet(f, T \ {Pick(T)})
    BY <1>2, <2>1, SumPick, ZenonT(60)
  <2> QED BY <1>2, <2>2, <2>3
<1>3. S \in G
  <2> HIDE DEF G
  <2> QED BY <1>1, <1>2, SubsetInduction
<1> QED BY <1>3

(* A sum of naturals is a natural. *)
LEMMA SumNat ==
  ASSUME NEW S, IsFiniteSet(S), NEW f, \A x \in S : f[x] \in Nat
  PROVE  SumFunctionOnSet(f, S) \in Nat
<1> DEFINE G == {T \in SUBSET S : SumFunctionOnSet(f, T) \in Nat}
<1>1. {} \in G
  BY SumEmpty
<1>2. ASSUME NEW T \in SUBSET S, T # {}, T \ {Pick(T)} \in G
      PROVE  T \in G
  <2>1. IsFiniteSet(T)
    BY FS_Subset
  <2>2. Pick(T) \in S
    BY <1>2, PickIn
  <2>3. SumFunctionOnSet(f, T) = f[Pick(T)] + SumFunctionOnSet(f, T \ {Pick(T)})
    BY <1>2, <2>1, SumPick, ZenonT(60)
  <2> QED BY <1>2, <2>2, <2>3
<1>3. S \in G
  <2> HIDE DEF G
  <2> QED BY <1>1, <1>2, SubsetInduction
<1> QED BY <1>3

(* Any element can be taken out of a sum of integers first. *)
LEMMA SumTake ==
  ASSUME NEW S, IsFiniteSet(S), NEW f, \A x \in S : f[x] \in Int, NEW e \in S
  PROVE  SumFunctionOnSet(f, S) = f[e] + SumFunctionOnSet(f, S \ {e})
<1> DEFINE sum(T) == SumFunctionOnSet(f, T)
           H == {n \in Nat : \A T \in SUBSET S : Cardinality(T) = n =>
                   \A x \in T : sum(T) = f[x] + sum(T \ {x})}
<1>0. ASSUME NEW T \in SUBSET S
      PROVE  IsFiniteSet(T) /\ Cardinality(T) \in Nat /\ (Cardinality(T) = 0 <=> T = {})
  BY FS_Subset, FS_CardinalityType, FS_EmptySet
<1>1. ASSUME NEW T \in SUBSET S
      PROVE  sum(T) \in Int
  BY <1>0, SumInt
<1>2. ASSUME NEW T \in SUBSET S, T # {}
      PROVE  sum(T) = f[Pick(T)] + sum(T \ {Pick(T)})
  BY <1>0, <1>2, SumPick, ZenonT(60)
<1> HIDE DEF sum
<1>3. 0 \in H
  BY <1>0
<1>4. ASSUME NEW n \in Nat, n \in H
      PROVE  n + 1 \in H
  <2>1. ASSUME NEW T \in SUBSET S, Cardinality(T) = n + 1, NEW x \in T
        PROVE  sum(T) = f[x] + sum(T \ {x})
    <3> DEFINE p == Pick(T)
    <3>0. T # {}
      OBVIOUS
    <3>1. p \in T /\ sum(T) = f[p] + sum(T \ {p})
      BY <1>2, <3>0, PickIn
    <3> HIDE DEF p
    <3>2. CASE x = p
      BY <3>1, <3>2
    <3>3. CASE x # p
      <4> DEFINE U == T \ {p}  V == T \ {x}  W == T \ {p, x}
      <4>1. U \in SUBSET S /\ V \in SUBSET S /\ W \in SUBSET S /\ x \in U /\ p \in V
        BY <3>1, <3>3
      <4>2. Cardinality(U) = n /\ Cardinality(V) = n
        BY <1>0, <2>1, <3>1, FS_RemoveElement
      <4>3. U \ {x} = W /\ V \ {p} = W
        OBVIOUS
      <4>4. f[x] \in Int /\ f[p] \in Int /\ sum(W) \in Int
        BY <1>1, <3>1, <4>1
      <4>5. sum(U) = f[x] + sum(U \ {x}) /\ sum(V) = f[p] + sum(V \ {p})
        BY <1>4, <4>1, <4>2
      <4>6. sum(T) = f[p] + sum(U)
        BY <3>1
      <4>7. sum(T) = f[x] + sum(V)
        <5> HIDE DEF U, V, W
        <5>1. sum(U) = f[x] + sum(W) /\ sum(V) = f[p] + sum(W)
          BY <4>3, <4>5, ZenonT(60)
        <5> QED BY <4>4, <4>6, <5>1
      <4> QED BY <4>7
    <3> QED BY <3>2, <3>3
  <2> QED BY <2>1
<1>5. S \in SUBSET S
  OBVIOUS
<1>6. Cardinality(S) \in H
  <2> HIDE DEF H
  <2> QED BY <1>0, <1>3, <1>4, <1>5, NatSetInduction
<1> QED BY <1>5, <1>6 DEF sum

(* Sums of functions that agree on the set are equal. *)
LEMMA SumAgree ==
  ASSUME NEW S, IsFiniteSet(S), NEW f, NEW g, \A x \in S : f[x] = g[x]
  PROVE  SumFunctionOnSet(f, S) = SumFunctionOnSet(g, S)
<1> DEFINE G == {T \in SUBSET S : SumFunctionOnSet(f, T) = SumFunctionOnSet(g, T)}
<1>1. {} \in G
  BY SumEmpty
<1>2. ASSUME NEW T \in SUBSET S, T # {}, T \ {Pick(T)} \in G
      PROVE  T \in G
  <2>1. IsFiniteSet(T)
    BY FS_Subset
  <2>2. Pick(T) \in S
    BY <1>2, PickIn
  <2>3. /\ SumFunctionOnSet(f, T) = f[Pick(T)] + SumFunctionOnSet(f, T \ {Pick(T)})
        /\ SumFunctionOnSet(g, T) = g[Pick(T)] + SumFunctionOnSet(g, T \ {Pick(T)})
    BY <1>2, <2>1, SumPick, ZenonT(60)
  <2> QED BY <1>2, <2>2, <2>3
<1>3. S \in G
  <2> HIDE DEF G
  <2> QED BY <1>1, <1>2, SubsetInduction
<1> QED BY <1>3

(* Changing one value of the function changes the sum by the difference. *)
LEMMA SumChange ==
  ASSUME NEW S, IsFiniteSet(S), NEW f, NEW g, NEW e \in S,
         \A x \in S : f[x] \in Int /\ g[x] \in Int,
         \A x \in S : x # e => f[x] = g[x]
  PROVE  SumFunctionOnSet(g, S) = SumFunctionOnSet(f, S) + (g[e] - f[e])
<1>1. IsFiniteSet(S \ {e})
  BY FS_RemoveElement
<1>2. SumFunctionOnSet(f, S \ {e}) = SumFunctionOnSet(g, S \ {e})
  <2>1. \A x \in S \ {e} : f[x] = g[x]
    OBVIOUS
  <2> QED BY <1>1, <2>1, SumAgree
<1>3. SumFunctionOnSet(f, S \ {e}) \in Int
  BY <1>1, SumInt
<1>4. SumFunctionOnSet(f, S) = f[e] + SumFunctionOnSet(f, S \ {e})
  BY SumTake
<1>5. SumFunctionOnSet(g, S) = g[e] + SumFunctionOnSet(g, S \ {e})
  BY SumTake
<1> QED BY <1>2, <1>3, <1>4, <1>5

(* One of the values of a sum of naturals is at most the sum. *)
LEMMA SumBounds ==
  ASSUME NEW S, IsFiniteSet(S), NEW f, \A x \in S : f[x] \in Nat, NEW e \in S
  PROVE  f[e] <= SumFunctionOnSet(f, S)
<1>1. IsFiniteSet(S \ {e})
  BY FS_RemoveElement
<1>2. SumFunctionOnSet(f, S \ {e}) \in Nat
  BY <1>1, SumNat
<1>3. SumFunctionOnSet(f, S) = f[e] + SumFunctionOnSet(f, S \ {e})
  <2>1. \A x \in S : f[x] \in Int
    OBVIOUS
  <2> QED BY <2>1, SumTake
<1> QED BY <1>2, <1>3

(* A sum of zeros is zero. *)
LEMMA SumZero ==
  ASSUME NEW S, IsFiniteSet(S), NEW f, \A x \in S : f[x] = 0
  PROVE  SumFunctionOnSet(f, S) = 0
<1> DEFINE G == {T \in SUBSET S : SumFunctionOnSet(f, T) = 0}
<1>1. {} \in G
  BY SumEmpty
<1>2. ASSUME NEW T \in SUBSET S, T # {}, T \ {Pick(T)} \in G
      PROVE  T \in G
  <2>1. IsFiniteSet(T)
    BY FS_Subset
  <2>2. Pick(T) \in S
    BY <1>2, PickIn
  <2>3. SumFunctionOnSet(f, T) = f[Pick(T)] + SumFunctionOnSet(f, T \ {Pick(T)})
    BY <1>2, <2>1, SumPick, ZenonT(60)
  <2> QED BY <1>2, <2>2, <2>3
<1>3. S \in G
  <2> HIDE DEF G
  <2> QED BY <1>1, <1>2, SubsetInduction
<1> QED BY <1>3

(* The sum of a function with integer values is an integer, and a natural when they are. *)
LEMMA SumFunctionType ==
  ASSUME NEW S, IsFiniteSet(S), NEW f
  PROVE  /\ f \in [S -> Int] => SumFunction(f) \in Int
         /\ f \in [S -> Nat] => SumFunction(f) \in Nat
BY SumInt, SumNat DEF SumFunction

(* Changing a function in one place changes its sum by the difference. *)
LEMMA SumFunctionChange ==
  ASSUME NEW S, IsFiniteSet(S), NEW f \in [S -> Int], NEW g \in [S -> Int], NEW e \in S,
         \A x \in S : x # e => g[x] = f[x]
  PROVE  SumFunction(g) = SumFunction(f) + (g[e] - f[e])
BY SumChange DEF SumFunction

(* A function of zeros sums to zero. *)
LEMMA SumFunctionZero ==
  ASSUME NEW S, IsFiniteSet(S), NEW f \in [S -> Int], \A x \in S : f[x] = 0
  PROVE  SumFunction(f) = 0
BY SumZero DEF SumFunction

(* Sums of integers add up value by value. *)
LEMMA SumAdd ==
  ASSUME NEW S, IsFiniteSet(S), NEW f, NEW g, NEW h,
         \A x \in S : f[x] \in Int /\ g[x] \in Int /\ h[x] = f[x] + g[x]
  PROVE  SumFunctionOnSet(h, S) = SumFunctionOnSet(f, S) + SumFunctionOnSet(g, S)
<1> DEFINE G == {T \in SUBSET S :
                   /\ SumFunctionOnSet(f, T) \in Int /\ SumFunctionOnSet(g, T) \in Int
                   /\ SumFunctionOnSet(h, T) = SumFunctionOnSet(f, T) + SumFunctionOnSet(g, T)}
<1>1. {} \in G
  BY SumEmpty
<1>2. ASSUME NEW T \in SUBSET S, T # {}, T \ {Pick(T)} \in G
      PROVE  T \in G
  <2>1. IsFiniteSet(T)
    BY FS_Subset
  <2>2. Pick(T) \in S
    BY <1>2, PickIn
  <2>3. /\ SumFunctionOnSet(f, T) = f[Pick(T)] + SumFunctionOnSet(f, T \ {Pick(T)})
        /\ SumFunctionOnSet(g, T) = g[Pick(T)] + SumFunctionOnSet(g, T \ {Pick(T)})
        /\ SumFunctionOnSet(h, T) = h[Pick(T)] + SumFunctionOnSet(h, T \ {Pick(T)})
    BY <1>2, <2>1, SumPick, ZenonT(60)
  <2>4. f[Pick(T)] \in Int /\ g[Pick(T)] \in Int /\ h[Pick(T)] = f[Pick(T)] + g[Pick(T)]
    BY <2>2
  <2> QED BY <1>2, <2>3, <2>4
<1>3. S \in G
  <2> HIDE DEF G
  <2> QED BY <1>1, <1>2, SubsetInduction, ZenonT(60)
<1> QED BY <1>3

(* A function that is the sum of two, value by value, sums to both sums. *)
LEMMA SumFunctionAdd ==
  ASSUME NEW S, IsFiniteSet(S), NEW f \in [S -> Int], NEW g \in [S -> Int], NEW h \in [S -> Int],
         \A x \in S : h[x] = f[x] + g[x]
  PROVE  SumFunction(h) = SumFunction(f) + SumFunction(g)
BY SumAdd DEF SumFunction
=============================================================================
