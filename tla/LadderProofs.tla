---------------------------- MODULE LadderProofs ----------------------------
(***************************************************************************)
(* Facts about the escalation ladder, for ladders of every length.         *)
(***************************************************************************)
EXTENDS Ladder, WellFoundedInduction, SequenceTheorems, TLAPS

(* Every non-empty set of naturals has a least element.                     *)
LEMMA LeastElement ==
  ASSUME NEW T \in SUBSET Nat, T # {}
  PROVE  \E x \in T : \A y \in T : x <= y
<1> DEFINE R == OpToRel(<, Nat)
<1>1. IsWellFoundedOn(R, Nat)
  BY NatLessThanWellFounded
<1>2. \A x, y \in Nat : y < x => <<y, x>> \in R
  BY DEF OpToRel
<1> HIDE DEF R
<1>3. PICK x \in T : \A y \in T : ~ (<<y, x>> \in R)
  BY <1>1, WFMin
<1>4. ASSUME NEW y \in T PROVE x <= y
  <2>1. x \in Nat /\ y \in Nat
    OBVIOUS
  <2>2. ~ (y < x)
    BY <1>2, <1>3, <2>1, Zenon
  <2> QED BY <2>1, <2>2
<1> QED BY <1>4

(* A non-empty set of indices up to a bound has a largest element.          *)
LEMMA LargestIndex ==
  ASSUME NEW k \in Nat, NEW S \in SUBSET (1 .. k), S # {}
  PROVE  \E i \in S : \A j \in S : j <= i
<1> DEFINE T == {d \in Nat : k - d \in S}
<1>1. T \in SUBSET Nat
  OBVIOUS
<1>2. \A i \in S : i \in Nat /\ k - i \in Nat /\ k - (k - i) = i
  OBVIOUS
<1>3. \A i \in S : k - i \in T
  BY <1>2
<1>4. T # {}
  BY <1>3
<1>5. PICK x \in T : \A y \in T : x <= y
  <2> HIDE DEF T
  <2> QED BY <1>1, <1>4, LeastElement
<1>6. k - x \in S /\ \A j \in S : j <= k - x
  BY <1>2, <1>3, <1>5
<1> QED BY <1>6

(* When some step is eligible the selected one is, and no later one is.     *)
LEMMA SelectedIsEligible ==
  ASSUME NEW S, NEW ladder \in Seq(S), NEW n, Eligible(ladder, n) # {}
  PROVE  /\ Selected(ladder, n) \in Eligible(ladder, n)
         /\ \A j \in Eligible(ladder, n) : j <= Selected(ladder, n)
<1>1. Eligible(ladder, n) \in SUBSET (1 .. Len(ladder)) /\ Len(ladder) \in Nat
  BY DEF Eligible
<1>2. \E i \in Eligible(ladder, n) : \A j \in Eligible(ladder, n) : j <= i
  BY <1>1, LargestIndex
<1> QED BY <1>2 DEF Selected

LEMMA ThresholdsAreIntegers ==
  ASSUME NEW ladder \in Seq(StepsOver(Int)), NEW i \in DOMAIN ladder
  PROVE  ladder[i].max_attempts \in Int
<1>1. ladder[i] \in StepsOver(Int)
  BY ElementOfSeq
<1> QED BY <1>1 DEF StepsOver

(* A ladder that loads has thresholds that never decrease: the test of      *)
(* neighbours in _validate_buildable says so of every two steps.            *)
LEMMA ThresholdsAscend ==
  ASSUME NEW ladder \in Seq(StepsOver(Int)), ValidLadder(ladder),
         NEW i \in DOMAIN ladder, NEW j \in DOMAIN ladder, i <= j
  PROVE  ladder[i].max_attempts <= ladder[j].max_attempts
<1> DEFINE T == {m \in DOMAIN ladder :
                   i <= m /\ ladder[m].max_attempts < ladder[i].max_attempts}
<1>0. DOMAIN ladder = 1 .. Len(ladder) /\ Len(ladder) \in Nat
  OBVIOUS
<1>1. \A m \in DOMAIN ladder : ladder[m].max_attempts \in Int
  BY ThresholdsAreIntegers
<1>2. SUFFICES ASSUME T # {} PROVE FALSE
  BY <1>1
<1>3. PICK x \in T : \A y \in T : x <= y
  <2>1. T \in SUBSET Nat
    BY <1>0
  <2> HIDE DEF T
  <2> QED BY <1>2, <2>1, LeastElement
<1>4. x \in DOMAIN ladder /\ i <= x /\ ladder[x].max_attempts < ladder[i].max_attempts
  BY <1>3
<1>5. x # i
  BY <1>1, <1>4
<1>6. x - 1 \in DOMAIN ladder /\ i <= x - 1 /\ x # 1
  BY <1>0, <1>4, <1>5
<1>7. ladder[x].max_attempts >= ladder[x - 1].max_attempts
  BY <1>4, <1>6 DEF ValidLadder, LastThreshold
<1>8. x - 1 \in T
  <2>1. /\ ladder[x].max_attempts \in Int /\ ladder[x - 1].max_attempts \in Int
        /\ ladder[i].max_attempts \in Int
    BY <1>1, <1>4, <1>6
  <2> QED BY <1>4, <1>6, <1>7, <2>1
<1>9. x <= x - 1
  BY <1>3, <1>8
<1> QED BY <1>0, <1>4, <1>9

(* "most-escalated eligible is well-defined" (models.py:66-68): of a ladder *)
(* that loads, of any length and with any thresholds, the eligible steps    *)
(* are the first ones, up to the selected one.                              *)
THEOREM EligibleStepsAreAPrefix ==
  ASSUME NEW ladder \in Seq(StepsOver(Int)), ValidLadder(ladder),
         NEW n \in Int, Eligible(ladder, n) # {}
  PROVE  Eligible(ladder, n) = 1 .. Selected(ladder, n)
<1>0. DOMAIN ladder = 1 .. Len(ladder) /\ Len(ladder) \in Nat
  OBVIOUS
<1>1. \A m \in DOMAIN ladder : ladder[m].max_attempts \in Int
  BY ThresholdsAreIntegers
<1>2. /\ Selected(ladder, n) \in Eligible(ladder, n)
      /\ \A j \in Eligible(ladder, n) : j <= Selected(ladder, n)
  BY SelectedIsEligible
<1>3. Selected(ladder, n) \in DOMAIN ladder
      /\ n >= ladder[Selected(ladder, n)].max_attempts
  BY <1>2 DEF Eligible
<1>4. ASSUME NEW j \in 1 .. Selected(ladder, n) PROVE j \in Eligible(ladder, n)
  <2>1. j \in DOMAIN ladder /\ j <= Selected(ladder, n)
    BY <1>0, <1>3
  <2>2. ladder[j].max_attempts <= ladder[Selected(ladder, n)].max_attempts
    BY <1>3, <2>1, ThresholdsAscend
  <2> QED BY <1>1, <1>3, <2>1, <2>2 DEF Eligible
<1>5. ASSUME NEW j \in Eligible(ladder, n) PROVE j \in 1 .. Selected(ladder, n)
  BY <1>0, <1>2, <1>3 DEF Eligible
<1> QED BY <1>4, <1>5
=============================================================================
