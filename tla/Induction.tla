-------------------------------- MODULE Induction --------------------------------
(***************************************************************************)
(* Induction on the natural numbers, stated for a set instead of an        *)
(* operator, so that the provers can use it: what is to be shown of every  *)
(* number is that it belongs to a set defined by comprehension. With it,   *)
(* what a sum over finitely many values is.                                *)
(***************************************************************************)
EXTENDS Integers, Functions, FiniteSetTheorems, WellFoundedInduction, TLAPS

(* A set of natural numbers has a least element.                           *)
LEMMA LeastElement ==
    ASSUME NEW T, T \subseteq Nat, T # {}
    PROVE  \E x \in T : \A y \in T : x <= y
  <1> DEFINE R == OpToRel(<, Nat)
  <1>1. IsWellFoundedOn(R, Nat)
    BY NatLessThanWellFounded
  <1>2. \A x, y \in Nat : x < y => <<x, y>> \in R
    BY DEF OpToRel
  <1> HIDE DEF R
  <1>3. PICK x \in T : \A y \in T : ~(<<y, x>> \in R)
    BY <1>1, WFMin
  <1>4. ASSUME NEW y \in T PROVE x <= y
    <2>1. ~(y < x)
      BY <1>2, <1>3
    <2> QED
      BY <2>1
  <1> QED
    BY <1>4

(* A set that has zero and with each number the next one has them all.     *)
LEMMA SetInduction ==
    ASSUME NEW S, 0 \in S, \A n \in Nat : n \in S => n + 1 \in S
    PROVE  Nat \subseteq S
  <1> DEFINE T == Nat \ S
  <1> SUFFICES ASSUME T # {} PROVE FALSE
    OBVIOUS
  <1>1. PICK x \in T : \A y \in T : x <= y
    BY LeastElement
  <1>2. x # 0 /\ x - 1 \in Nat
    BY <1>1
  <1>3. x - 1 \notin T
    BY <1>1, <1>2
  <1>4. (x - 1) + 1 = x
    BY <1>1
  <1> QED
    BY <1>2, <1>3, <1>4

-----------------------------------------------------------------------------
(* Sums                                                                    *)

(* The recursive definition of the sum over a finite domain is one: the    *)
(* sum of no value is zero, and any other that of a value and the rest.    *)
LEMMA SumEquation ==
    ASSUME NEW f, IsFiniteSet(DOMAIN f)
    PROVE  \E sum : /\ SumFunction(f) = sum[DOMAIN f] /\ sum[{}] = 0
                    /\ \A s \in SUBSET DOMAIN f :
                          s # {} => \E x \in s : sum[s] = f[x] + sum[s \ {x}]
  <1> DEFINE D == DOMAIN f
             Pick(s) == CHOOSE x \in s : TRUE
             Of(g, s) == IF s = {} THEN 0 ELSE f[Pick(s)] + g[s \ {Pick(s)}]
             Small(n) == {s \in SUBSET D : Cardinality(s) <= n}
             Defined == {n \in Nat : \E g : g = [s \in Small(n) |-> Of(g, s)]}
             sum == CHOOSE g : g = [s \in SUBSET D |-> Of(g, s)]
  <1>1. SumFunction(f) = sum[D]
    BY DEF SumFunction, SumFunctionOnSet, FoldFunctionOnSet, MapThenFoldSet
  <1>2. \A s \in SUBSET D : IsFiniteSet(s) /\ Cardinality(s) \in Nat
    BY FS_Subset, FS_CardinalityType
  <1>3. \A s \in SUBSET D : s # {} => Pick(s) \in s
    OBVIOUS
  <1> HIDE DEF Pick
  <1>4. \A n \in Nat : \A s \in Small(n + 1) : s # {} => s \ {Pick(s)} \in Small(n)
    <2> SUFFICES ASSUME NEW n \in Nat, NEW s \in Small(n + 1), s # {}
                 PROVE  s \ {Pick(s)} \in Small(n)
      OBVIOUS
    <2>1. Cardinality(s \ {Pick(s)}) = Cardinality(s) - 1
      BY <1>2, <1>3, FS_RemoveElement
    <2> QED
      BY <1>2, <2>1
  <1>5. 0 \in Defined
    <2>1. \A s \in Small(0) : s = {}
      BY <1>2, FS_EmptySet
    <2> DEFINE g == [s \in Small(0) |-> 0]
    <2>2. g = [s \in Small(0) |-> Of(g, s)]
      BY <2>1
    <2> QED
      BY <2>2
  <1>6. ASSUME NEW n \in Nat, n \in Defined
        PROVE  n + 1 \in Defined
    <2>1. PICK h : h = [s \in Small(n) |-> Of(h, s)]
      BY <1>6
    <2> DEFINE g == [s \in Small(n + 1) |-> Of(h, s)]
    <2>2. Small(n) \subseteq Small(n + 1)
      BY <1>2
    <2>3. \A s \in Small(n) : h[s] = Of(h, s)
      BY <2>1
    <2> HIDE DEF Small, Of
    <2>4. \A s \in Small(n) : g[s] = h[s]
      BY <2>2, <2>3
    <2>5. ASSUME NEW s \in Small(n + 1)
          PROVE  Of(h, s) = Of(g, s)
      <3>1. CASE s = {}
        BY <3>1 DEF Of
      <3>2. CASE s # {}
        BY <1>4, <2>4, <3>2 DEF Of
      <3> QED
        BY <3>1, <3>2
    <2>6. g = [s \in Small(n + 1) |-> Of(g, s)]
      BY <2>5
    <2> HIDE DEF g
    <2> QED
      BY <2>6
  <1>7. Cardinality(D) \in Defined
    <2> HIDE DEF Defined
    <2> QED
      BY <1>2, <1>5, <1>6, SetInduction
  <1>8. Small(Cardinality(D)) = SUBSET D
    BY FS_Subset
  <1>9. sum = [s \in SUBSET D |-> Of(sum, s)]
    <2> HIDE DEF Small, Of
    <2> QED
      BY <1>7, <1>8
  <1> HIDE DEF sum
  <1>10. sum[{}] = 0
    BY <1>9
  <1>11. ASSUME NEW s \in SUBSET D, s # {}
         PROVE  \E x \in s : sum[s] = f[x] + sum[s \ {x}]
    <2>1. sum[s] = f[Pick(s)] + sum[s \ {Pick(s)}]
      BY <1>9, <1>11
    <2> QED
      BY <1>3, <1>11, <2>1
  <1> QED
    BY <1>1, <1>10, <1>11

(* A sum is in every set that is closed under addition and holds zero and  *)
(* the values.                                                             *)
LEMMA SumStaysIn ==
    ASSUME NEW T, 0 \in T, \A a, b \in T : a + b \in T,
           NEW f, IsFiniteSet(DOMAIN f), \A x \in DOMAIN f : f[x] \in T
    PROVE  SumFunction(f) \in T
  <1> DEFINE D == DOMAIN f
  <1>1. PICK sum : /\ SumFunction(f) = sum[D] /\ sum[{}] = 0
                   /\ \A s \in SUBSET D : s # {} => \E x \in s : sum[s] = f[x] + sum[s \ {x}]
    BY SumEquation
  <1> DEFINE Shown == {n \in Nat : \A s \in SUBSET D : Cardinality(s) <= n => sum[s] \in T}
  <1>2. \A s \in SUBSET D : IsFiniteSet(s) /\ Cardinality(s) \in Nat
    BY FS_Subset, FS_CardinalityType
  <1>3. 0 \in Shown
    <2>1. \A s \in SUBSET D : Cardinality(s) <= 0 => s = {}
      BY <1>2, FS_EmptySet
    <2> QED
      BY <1>1, <2>1
  <1>4. ASSUME NEW n \in Nat, n \in Shown
        PROVE  n + 1 \in Shown
    <2>1. ASSUME NEW s \in SUBSET D, Cardinality(s) <= n + 1, s # {}
          PROVE  sum[s] \in T
      <3>1. PICK x \in s : sum[s] = f[x] + sum[s \ {x}]
        BY <1>1, <2>1
      <3>2. Cardinality(s \ {x}) = Cardinality(s) - 1
        BY <1>2, FS_RemoveElement
      <3>3. sum[s \ {x}] \in T
        BY <1>2, <1>4, <2>1, <3>2
      <3> QED
        BY <3>1, <3>3
    <2>2. \A s \in SUBSET D : Cardinality(s) <= n + 1 => sum[s] \in T
      BY <1>1, <2>1
    <2> QED
      BY <2>2
  <1>5. Cardinality(D) \in Shown
    <2> HIDE DEF Shown
    <2> QED
      BY <1>2, <1>3, <1>4, SetInduction
  <1> QED
    BY <1>1, <1>2, <1>5
=============================================================================
