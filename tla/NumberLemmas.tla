---------------------------- MODULE NumberLemmas ----------------------------
(***************************************************************************)
(* What Min and Max of FiniteSetsExt return.                               *)
(***************************************************************************)
EXTENDS Integers, FiniteSets, FiniteSetsExt, FiniteSetTheorems, WellFoundedInduction, TLAPS

(* Every set of naturals with an element has a least one.                  *)
LEMMA LeastNatural ==
    ASSUME NEW S \in SUBSET Nat, S # {}
    PROVE  \E x \in S : \A y \in S : x <= y
<1>1. PICK x \in S : \A y \in S : ~ (<<y, x>> \in OpToRel(<, Nat))
  BY NatLessThanWellFounded, WFMin
<1>2. \A y \in S : ~(y < x)
  BY <1>1 DEF OpToRel
<1> QED BY <1>2

(* Min is the least element.                                               *)
LEMMA MinIsLeast ==
    ASSUME NEW S \in SUBSET Nat, S # {}
    PROVE  Min(S) \in S /\ \A y \in S : Min(S) <= y
BY LeastNatural DEF Min

(* A finite set of naturals with an element has a greatest one: among the  *)
(* subsets without one a smallest could be made smaller.                   *)
LEMMA GreatestNatural ==
    ASSUME NEW S \in SUBSET Nat, S # {}, IsFiniteSet(S)
    PROVE  \E x \in S : \A y \in S : x >= y
<1> DEFINE Unbounded == {T \in SUBSET S : T # {} /\ \A x \in T : \E y \in T : x < y}
           Sizes == {Cardinality(T) : T \in Unbounded}
<1>1. SUFFICES ASSUME Unbounded # {} PROVE FALSE
  OBVIOUS
<1>0. \A T \in Unbounded : Cardinality(T) \in Nat
  BY FS_Subset, FS_CardinalityType
<1>2. Sizes \in SUBSET Nat /\ Sizes # {}
  BY <1>0, <1>1
<1>3. PICK n \in Sizes : \A m \in Sizes : n <= m
  BY <1>2, LeastNatural
<1>4. PICK T \in Unbounded : Cardinality(T) = n
  BY <1>3
<1>5. PICK x \in T : TRUE
  OBVIOUS
<1>6. T \ {x} # {}
  BY <1>5
<1>7. T \ {x} \in Unbounded
  <2> SUFFICES ASSUME NEW z \in T \ {x} PROVE \E y \in T \ {x} : z < y
    BY <1>6
  <2>1. PICK y \in T : z < y
    OBVIOUS
  <2>2. PICK w \in T : y < w
    OBVIOUS
  <2> QED BY <2>1, <2>2
<1>8. IsFiniteSet(T)
  BY FS_Subset
<1>9. Cardinality(T \ {x}) = Cardinality(T) - 1
  BY <1>5, <1>8, FS_RemoveElement
<1>10. Cardinality(T \ {x}) \in Sizes
  BY <1>7
<1>11. n \in Nat /\ n <= n - 1
  BY <1>2, <1>3, <1>4, <1>9, <1>10
<1> QED BY <1>11

(* Max is the greatest element.                                            *)
LEMMA MaxIsGreatest ==
    ASSUME NEW S \in SUBSET Nat, S # {}, IsFiniteSet(S)
    PROVE  Max(S) \in S /\ \A y \in S : Max(S) >= y
BY GreatestNatural DEF Max
=============================================================================
