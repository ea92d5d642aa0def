----------------------------- MODULE ProofLemmas -----------------------------
(***************************************************************************)
(* Facts about natural numbers and finite sets that the proofs about the   *)
(* loops and recursive functions of the model rest on.                     *)
(***************************************************************************)
EXTENDS Integers, FiniteSetsExt, WellFoundedInduction, TLAPS

(***************************************************************************)
(* Induction, as a statement about a set: what holds of an iteration for   *)
(* every number of rounds is proved with the set of numbers for which it   *)
(* holds.                                                                  *)
(***************************************************************************)
LEMMA SetInduction ==
    ASSUME NEW S, 0 \in S, \A n \in Nat : n \in S => n + 1 \in S
    PROVE  \A n \in Nat : n \in S
  <1> SUFFICES ASSUME NEW m \in Nat, m \notin S PROVE FALSE OBVIOUS
  <1> DEFINE T == {n \in Nat : n \notin S}
             R == {p \in Nat \X Nat : p[1] < p[2]}
  <1>0. IsWellFoundedOn(R, Nat) BY NatLessThanWellFounded DEF OpToRel
  <1>1. T \subseteq Nat /\ T # {} OBVIOUS
  <1>2. PICK x \in T : \A y \in T : ~(<<y, x>> \in R)
    <2> HIDE DEF T, R
    <2> QED BY <1>0, <1>1, WFMin
  <1>3. x \in Nat /\ x # 0 OBVIOUS
  <1>4. x - 1 \in Nat /\ x - 1 < x /\ (x - 1) + 1 = x BY <1>3
  <1>5. x - 1 \notin T BY <1>2, <1>3, <1>4
  <1> QED BY <1>3, <1>4, <1>5

\* Min answers the smallest element of a set of naturals.
LEMMA MinOfNats ==
    ASSUME NEW S, S \subseteq Nat, S # {}
    PROVE  Min(S) \in S /\ \A y \in S : Min(S) <= y
  <1> DEFINE R == {p \in Nat \X Nat : p[1] < p[2]}
  <1>1. IsWellFoundedOn(R, Nat) BY NatLessThanWellFounded DEF OpToRel
  <1>2. PICK x \in S : \A y \in S : ~(<<y, x>> \in R)
    <2> HIDE DEF R
    <2> QED BY <1>1, WFMin
  <1>3. \A y \in S : x <= y
    <2> SUFFICES ASSUME NEW y \in S PROVE x <= y OBVIOUS
    <2>1. x \in Nat /\ y \in Nat OBVIOUS
    <2>2. ~(y < x) BY <1>2, <2>1
    <2> QED BY <2>1, <2>2
  <1> QED BY <1>3 DEF Min

\* Max answers the largest element of a bounded set of naturals.
LEMMA MaxOfNats ==
    ASSUME NEW S, S \subseteq Nat, S # {}, NEW b \in Nat, \A y \in S : y <= b
    PROVE  Max(S) \in S /\ \A y \in S : y <= Max(S)
  <1> DEFINE T == {k \in Nat : \A y \in S : y <= k}
  <1>1. T \subseteq Nat /\ T # {} OBVIOUS
  <1>2. Min(T) \in T /\ \A k \in T : Min(T) <= k
    <2> HIDE DEF T
    <2> QED BY <1>1, MinOfNats
  <1> DEFINE m == Min(T)
  <1>3. m \in Nat /\ \A y \in S : y <= m BY <1>2
  <1>4. m \in S
    <2> SUFFICES ASSUME m \notin S PROVE FALSE OBVIOUS
    <2> HIDE DEF m
    <2>1. PICK y \in S : TRUE OBVIOUS
    <2>2. m > 0 BY <2>1, <1>3
    <2>3. m - 1 \in Nat /\ \A z \in S : z <= m - 1 BY <2>2, <1>3
    <2>4. m <= m - 1 BY <2>3, <1>2 DEF m
    <2> QED BY <2>4, <1>3
  <1>5. \E x \in S : \A y \in S : x >= y
    <2> HIDE DEF m
    <2> QED BY <1>3, <1>4
  <1> QED BY <1>5 DEF Max
=============================================================================
