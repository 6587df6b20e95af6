----------------------------- MODULE Induction -----------------------------
(***************************************************************************)
(* Induction over the naturals with a set in the place of the predicate,   *)
(* so that every prover can instantiate it.                                *)
(***************************************************************************)
EXTENDS Integers, FiniteSetTheorems, TLAPS

(* A set that holds 0, and the successor of each of its numbers, holds every  *)
(* number: among the intervals 0..k whose end it misses, none is the least,   *)
(* while the subsets of a finite set are well founded.                        *)
LEMMA SetInduction ==
    ASSUME NEW S, 0 \in S, \A n \in Nat : n \in S => n + 1 \in S
    PROVE  Nat \subseteq S
<1> SUFFICES ASSUME NEW n \in Nat, n \notin S PROVE FALSE
  OBVIOUS
<1> DEFINE U == 0 .. n
           R == StrictSubsetOrdering(U)
           T == {0 .. k : k \in {j \in U : j \notin S}}
<1>1. IsWellFoundedOn(R, FiniteSubsetsOf(U))
  BY FS_StrictSubsetOrderingWellFounded
<1>2. FiniteSubsetsOf(U) = SUBSET U
  <2>1. IsFiniteSet(U)
    BY FS_Interval
  <2> QED
    BY <2>1, FS_FiniteSubsetsOfFinite
<1>3. T \subseteq SUBSET U /\ T # {}
  OBVIOUS
<1>4. PICK x \in T : \A y \in T : ~(<<y, x>> \in R)
  <2> HIDE DEF T, R, U
  <2> QED
    BY <1>1, <1>2, <1>3, WFMin
<1>5. PICK k \in U : k \notin S /\ x = 0 .. k
  OBVIOUS
<1>6. k # 0 /\ k - 1 \in U /\ k - 1 \in Nat
  BY <1>5
<1>7. k - 1 \notin S
  <2>1. k - 1 \in S => k \in S
    BY <1>6
  <2> QED
    BY <1>5, <2>1
<1>8. 0 .. (k - 1) \in T
  BY <1>6, <1>7
<1>9. <<0 .. (k - 1), 0 .. k>> \in R
  <2>1. 0 .. (k - 1) \subseteq 0 .. k /\ k \in 0 .. k /\ k \notin 0 .. (k - 1)
    BY <1>6
  <2>2. 0 .. k \in SUBSET U /\ 0 .. (k - 1) \in SUBSET U
    BY <1>6
  <2> QED
    BY <2>1, <2>2 DEF StrictSubsetOrdering
<1> QED
  BY <1>4, <1>5, <1>8, <1>9
=============================================================================
