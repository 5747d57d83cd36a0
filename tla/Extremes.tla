------------------------------ MODULE Extremes ------------------------------
(* Sets of numbers have the extremes that Min and Max of FiniteSetsExt     *)
(* choose.                                                                 *)
EXTENDS Integers, FiniteSetsExt, WellFoundedInduction, TLAPS

(* The provers, in the order in which a leaf is given to them.             *)
USE ZenonT(5), SMTT(30), ZenonT(30)

(* The least element of a set of numbers is one of its elements.           *)
LEMMA MinIn ==
    ASSUME NEW S, S \subseteq Nat, S # {}
    PROVE  Min(S) \in S /\ \A x \in S : Min(S) <= x
  <1> DEFINE R == {ss \in Nat \X Nat : ss[1] < ss[2]}
  <1>1. IsWellFoundedOn(R, Nat)
    BY NatLessThanWellFounded DEF OpToRel
  <1> HIDE DEF R
  <1>2. PICK x \in S : \A y \in S : ~(<<y, x>> \in R)
    BY <1>1, WFMin
  <1>3. \A y \in S : x <= y
    <2> SUFFICES ASSUME NEW y \in S, y < x PROVE FALSE
      OBVIOUS
    <2>1. <<y, x>> \in Nat \X Nat /\ <<y, x>>[1] < <<y, x>>[2]
      OBVIOUS
    <2>2. <<y, x>> \in R
      BY <2>1 DEF R
    <2>3. QED
      BY <1>2, <2>2
  <1>4. QED
    BY <1>3 DEF Min

(* The greatest element of a bounded set is one of its elements.          *)
LEMMA MaxIn ==
    ASSUME NEW S, NEW n \in Nat, S \subseteq 0..n, S # {}
    PROVE  Max(S) \in S /\ \A x \in S : Max(S) >= x
  <1> DEFINE T == {n - x : x \in S}
  <1>1. \A x \in S : x \in Nat /\ n - x \in Nat
    OBVIOUS
  <1>2. T \subseteq Nat /\ T # {}
    <2>1. T \subseteq Nat
      BY <1>1
    <2>2. T # {}
      OBVIOUS
    <2>3. QED
      BY <2>1, <2>2
  <1>3. PICK t \in T : \A y \in T : t <= y
    BY <1>2, MinIn
  <1>4. PICK x \in S : t = n - x
    BY <1>3
  <1>5. \A y \in S : x >= y
    BY <1>1, <1>3, <1>4
  <1>6. QED
    BY <1>5 DEF Max
=============================================================================
