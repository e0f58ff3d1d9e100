----------------------------- MODULE Induction ------------------------------
(***************************************************************************)
(* Induction over numbers and over finite sets, stated for a set that       *)
(* collects the cases and not for a predicate: P(n) for every n is          *)
(* Nat \subseteq {n \in Nat : P(n)}.  The facts about loops and recursive   *)
(* functions in the proof modules rest on these.                            *)
(***************************************************************************)
EXTENDS Integers, FiniteSets, FiniteSetTheorems, WellFoundedInduction, TLAPS

(* A leaf is for Zenon to prove unless it cites SMT, for arithmetic,        *)
(* sequences and records, or PTL, for temporal logic.                       *)
USE Zenon

(* Every non-empty set of naturals has a least element.                     *)
LEMMA LeastNatural ==
  ASSUME NEW T, T \subseteq Nat, T # {}
  PROVE  \E n \in T : \A m \in T : n <= m
<1>1. PICK n \in T : \A m \in T : ~(<<m, n>> \in OpToRel(<, Nat))
  BY NatLessThanWellFounded, WFMin
<1>2. \A m \in T : ~(m < n)
  BY <1>1 DEF OpToRel
<1> QED
  BY <1>2, SMT

(* A set with 0 and with the successor of each of its naturals has them all. *)
LEMMA NatSetInduction ==
  ASSUME NEW T, 0 \in T, \A n \in Nat : n \in T => n + 1 \in T
  PROVE  Nat \subseteq T
<1> SUFFICES ASSUME Nat \ T # {} PROVE FALSE
  OBVIOUS
<1>1. PICK n \in Nat \ T : \A m \in Nat \ T : n <= m
  BY LeastNatural
<1>2. n - 1 \in Nat /\ n - 1 \in T
  BY <1>1, SMT
<1> QED
  BY <1>1, <1>2, SMT

(* The same below a bound.                                                  *)
LEMMA IntervalInduction ==
  ASSUME NEW k \in Nat, NEW T, 0 \in T, \A n \in 0..(k - 1) : n \in T => n + 1 \in T
  PROVE  0..k \subseteq T
<1> DEFINE U == {n \in Nat : n <= k => n \in T}
<1>1. Nat \subseteq U
  <2>1. 0 \in U
    OBVIOUS
  <2>2. \A n \in Nat : n \in U => n + 1 \in U
    BY SMT
  <2> HIDE DEF U
  <2> QED
    BY <2>1, <2>2, NatSetInduction
<1> QED
  BY <1>1, SMT

(* A family of subsets of a finite set that has the empty set, and any      *)
(* other whenever it has that one without a certain element, has them all.  *)
LEMMA FiniteSetInduction ==
  ASSUME NEW S, IsFiniteSet(S), NEW F, {} \in F,
         \A T \in SUBSET S : T # {} => \E x \in T : T \ {x} \in F => T \in F
  PROVE  SUBSET S \subseteq F
<1> SUFFICES ASSUME (SUBSET S) \ F # {} PROVE FALSE
  OBVIOUS
<1>1. (SUBSET S) \ F \subseteq FiniteSubsetsOf(S)
  BY FS_FiniteSubsetsOfFinite, SMT
<1>2. PICK T \in (SUBSET S) \ F :
        \A U \in (SUBSET S) \ F : ~(<<U, T>> \in StrictSubsetOrdering(S))
  BY <1>1, FS_StrictSubsetOrderingWellFounded, WFMin
<1>3. PICK x \in T : T \ {x} \in F => T \in F
  BY <1>2
<1>4. <<T \ {x}, T>> \in StrictSubsetOrdering(S)
  BY <1>3 DEF StrictSubsetOrdering
<1>5. T \ {x} \in F
  BY <1>2, <1>4
<1> QED
  BY <1>2, <1>3, <1>5

=============================================================================
