------------------------------ MODULE Extrema -------------------------------
(***************************************************************************)
(* Least and greatest elements of sets of naturals, as Min and Max of      *)
(* FiniteSetsExt choose them: the head of a queue, the first and the last  *)
(* generation a job carries.                                               *)
(***************************************************************************)
EXTENDS Naturals, FiniteSetsExt, TLAPS
LOCAL INSTANCE WellFoundedInduction

\* The order by (created_at, id) that get_head_queued_job takes the first of has
\* one: Min of a non-empty set of naturals is its least element.
LEMMA MinLeast ==
  ASSUME NEW S \in SUBSET Nat, S # {}
  PROVE  Min(S) \in S /\ \A y \in S : Min(S) <= y
<1> DEFINE R == OpToRel(<, Nat)
<1>1. PICK x \in S : \A y \in S : ~(<<y, x>> \in R)
  <2>1. IsWellFoundedOn(R, Nat)
    BY NatLessThanWellFounded
  <2> HIDE DEF R
  <2> QED BY <2>1, WFMin, Zenon
<1>2. \A y \in S : x <= y
  <2> SUFFICES ASSUME NEW y \in S, y < x PROVE FALSE
    OBVIOUS
  <2>1. \A m, n \in Nat : m < n => <<m, n>> \in R
    BY Zenon DEF OpToRel
  <2> HIDE DEF R
  <2> QED BY <1>1, <2>1, Zenon
<1> QED BY <1>2, Zenon DEF Min

\* The last generation a job carries (executing_generation orders by seq
\* descending): Max of a non-empty set of bounded naturals is its greatest.
LEMMA MaxGreatest ==
  ASSUME NEW N \in Nat, NEW S \in SUBSET (0 .. N), S # {}
  PROVE  Max(S) \in S /\ \A y \in S : y <= Max(S)
<1> DEFINE T == {N - n : n \in S}
<1>1. T \in SUBSET Nat /\ T # {}
  <2>1. \A n \in S : N - n \in Nat
    OBVIOUS
  <2> QED BY <2>1
<1>2. Min(T) \in T /\ \A y \in T : Min(T) <= y
  BY <1>1, MinLeast, Zenon
<1>3. PICK x \in S : Min(T) = N - x
  BY <1>2, Zenon
<1>4. \A y \in S : x >= y
  <2> TAKE y \in S
  <2>1. N - x <= N - y
    BY <1>2, <1>3, Zenon
  <2> QED BY <2>1
<1> QED BY <1>4, Zenon DEF Max
=============================================================================
