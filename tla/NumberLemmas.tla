---------------------------- MODULE NumberLemmas ----------------------------
(***************************************************************************)
(* The least and the greatest element of a set of naturals.                *)
(***************************************************************************)
EXTENDS Integers, FiniteSetsExt, TLAPS, FiniteSetTheorems

\* Min is the least element of a nonempty set of naturals (the first
\* occurrence that filter_messages keeps).
LEMMA MinOfNats ==
  ASSUME NEW S \in SUBSET Nat, S # {}
  PROVE  Min(S) \in S /\ \A y \in S : Min(S) <= y
<1> DEFINE R == StrictSubsetOrdering(Nat)
           T == {0 .. x : x \in S}
<1>1. T \subseteq FiniteSubsetsOf(Nat) /\ T # {}
  <2>1. ASSUME NEW x \in S PROVE 0 .. x \in SUBSET Nat /\ IsFiniteSet(0 .. x)
    BY FS_Interval
  <2> QED
    BY Zenon, <2>1 DEF FiniteSubsetsOf
<1>2. PICK u \in T : \A v \in T : ~ (<<v, u>> \in R)
  <2> HIDE DEF R, T
  <2>1. IsWellFoundedOn(R, FiniteSubsetsOf(Nat))
    BY FS_StrictSubsetOrderingWellFounded DEF R
  <2> QED
    BY <1>1, <2>1, WFMin
<1>3. PICK x \in S : u = 0 .. x
  OBVIOUS
<1>4. \A y \in S : x <= y
  <2> SUFFICES ASSUME NEW y \in S, y < x PROVE FALSE
    OBVIOUS
  <2>1. 0 .. y \subseteq 0 .. x /\ 0 .. y # 0 .. x
    OBVIOUS
  <2>2. <<0 .. y, 0 .. x>> \in R
    BY <2>1 DEF StrictSubsetOrdering
  <2> QED
    BY Zenon, <1>2, <1>3, <2>2
<1> QED
  BY Zenon, <1>4 DEF Min

\* Max is the greatest element of a nonempty bounded set of naturals (the last
\* occurrence that promote_stubs keeps).
LEMMA MaxOfBounded ==
  ASSUME NEW S \in SUBSET Nat, S # {}, NEW b \in Nat, \A x \in S : x <= b
  PROVE  Max(S) \in S /\ \A y \in S : y <= Max(S)
<1> DEFINE T == {b - x : x \in S}
<1>1. T \in SUBSET Nat /\ T # {}
  <2>1. ASSUME NEW x \in S PROVE b - x \in Nat
    <3>1. x \in Nat /\ x <= b
      OBVIOUS
    <3> QED
      BY <3>1
  <2>2. T \in SUBSET Nat
    BY <2>1
  <2>3. PICK x : x \in S
    OBVIOUS
  <2>4. b - x \in T
    BY <2>3
  <2> QED
    BY <2>2, <2>4
<1>2. PICK x \in S : Min(T) = b - x
  BY Zenon, <1>1, MinOfNats
<1>3. \A y \in S : y <= x
  BY <1>1, <1>2, MinOfNats
<1> QED
  BY Zenon, <1>3 DEF Max
=============================================================================
