----------------------------- MODULE DataLemmas -----------------------------
(***************************************************************************)
(* Facts about numbers that the proofs of several components need: least   *)
(* and largest elements of sets of numbers, induction, and the existence   *)
(* of what a fold goes through.                                            *)
(***************************************************************************)
EXTENDS Naturals, FiniteSetsExt, FiniteSetTheorems, WellFoundedInduction, TLAPS

\* A set of numbers that is not empty has a least one: its initial segments
\* are finite sets, which inclusion orders well.
LEMMA LeastNumber ==
    ASSUME NEW T \in SUBSET Nat, T # {}
    PROVE  \E m \in T : \A n \in T : m <= n
<1> DEFINE Segments == {0..n : n \in T}
<1>1. Segments \subseteq FiniteSubsetsOf(Nat)
  <2>1. ASSUME NEW n \in T PROVE 0..n \in FiniteSubsetsOf(Nat)
    <3>1. n \in Nat /\ 0 \in Int /\ n \in Int
      OBVIOUS
    <3>2. IsFiniteSet(0..n)
      BY <3>1, FS_Interval
    <3>3. 0..n \subseteq Nat
      BY <3>1
    <3> QED
      BY <3>2, <3>3 DEF FiniteSubsetsOf
  <2> QED
    BY <2>1
<1>2. Segments # {}
  OBVIOUS
<1>3. IsWellFoundedOn(StrictSubsetOrdering(Nat), FiniteSubsetsOf(Nat))
  BY FS_StrictSubsetOrderingWellFounded
<1> HIDE DEF Segments
<1>4. \E s \in Segments : \A t \in Segments : ~ (<<t, s>> \in StrictSubsetOrdering(Nat))
  BY <1>1, <1>2, <1>3, WFMin
<1>5. PICK m \in T : \A n \in T : ~ (<<0..n, 0..m>> \in StrictSubsetOrdering(Nat))
  BY <1>4 DEF Segments
<1>6. ASSUME NEW n \in T PROVE m <= n
  <2>1. SUFFICES ASSUME ~(m <= n) PROVE FALSE
    OBVIOUS
  <2>2. m \in Nat /\ n \in Nat /\ n < m
    BY <2>1
  <2>3. 0..n \subseteq 0..m /\ m \in 0..m /\ m \notin 0..n /\ 0..n \in SUBSET Nat /\ 0..m \in SUBSET Nat
    BY <2>2
  <2>4. 0..n # 0..m
    BY <2>3
  <2>5. <<0..n, 0..m>> \in StrictSubsetOrdering(Nat)
    BY <2>3, <2>4 DEF StrictSubsetOrdering
  <2> QED
    BY <2>5, <1>5
<1> QED
  BY <1>6

\* Min is the least number of a set that is not empty.
LEMMA MinOf ==
    ASSUME NEW T \in SUBSET Nat, T # {}
    PROVE  Min(T) \in T /\ \A n \in T : Min(T) <= n
<1>1. \E m \in T : \A n \in T : m <= n
  BY LeastNumber
<1> QED
  BY <1>1 DEF Min

\* Max is the number of a set that is above the others, if there is one.
LEMMA MaxIs ==
    ASSUME NEW T \in SUBSET Nat, NEW m \in T, \A n \in T : n <= m
    PROVE  Max(T) = m
<1>1. m \in T /\ \A n \in T : m >= n
  OBVIOUS
<1>2. Max(T) \in T /\ \A n \in T : Max(T) >= n
  BY <1>1 DEF Max
<1>3. Max(T) \in Nat /\ m \in Nat /\ Max(T) >= m /\ m >= Max(T)
  BY <1>1, <1>2
<1> QED
  BY <1>3

\* A set of numbers up to a bound has one.
LEMMA MaxOf ==
    ASSUME NEW T \in SUBSET Nat, T # {}, NEW bound \in Nat, \A n \in T : n <= bound
    PROVE  Max(T) \in T /\ \A n \in T : n <= Max(T)
<1> DEFINE Above == {k \in Nat : \A n \in T : n <= k}
<1>1. Above \in SUBSET Nat /\ bound \in Above
  OBVIOUS
<1>2. PICK m \in Above : \A k \in Above : m <= k
  BY <1>1, LeastNumber
<1>3. m \in T
  <2>1. SUFFICES ASSUME m \notin T PROVE FALSE
    OBVIOUS
  <2>2. m \in Nat /\ \A n \in T : n \in Nat /\ n < m
    BY <1>2, <2>1
  <2>3. PICK t \in T : TRUE
    OBVIOUS
  <2>4. t \in Nat /\ t < m
    BY <2>2
  <2>5. m - 1 \in Nat /\ \A n \in T : n <= m - 1
    BY <2>2, <2>4
  <2>6. m - 1 \in Above
    BY <2>5
  <2>7. m <= m - 1
    BY <1>2, <2>6
  <2> QED
    BY <2>2, <2>7
<1>4. \A n \in T : n <= m
  BY <1>2
<1>5. Max(T) = m
  BY <1>3, <1>4, MaxIs
<1> QED
  BY <1>3, <1>4, <1>5

\* What holds at 0, and at n + 1 when it holds at n, holds at every number.
LEMMA Induction ==
    ASSUME NEW T \in SUBSET Nat, 0 \in T, \A n \in T : n + 1 \in T
    PROVE  T = Nat
<1>1. SUFFICES ASSUME Nat \ T # {} PROVE FALSE
  OBVIOUS
<1>2. PICK m \in Nat \ T : \A n \in Nat \ T : m <= n
  BY <1>1, LeastNumber
<1>3. m \in Nat /\ m # 0
  BY <1>2
<1>4. m - 1 \in Nat /\ m - 1 < m
  BY <1>3
<1>5. m - 1 \in T
  BY <1>2, <1>4
<1>6. m - 1 + 1 \in T
  BY <1>5
<1> QED
  BY <1>2, <1>3, <1>6

\* A set of places has its largest among them.
LEMMA MaxOfPlaces ==
    ASSUME NEW n \in Nat, NEW t \in SUBSET (1..n), t # {}
    PROVE  Max(t) \in t /\ \A k \in t : k <= Max(t)
<1>1. t \in SUBSET Nat /\ \A k \in t : k <= n
  OBVIOUS
<1> QED
  BY <1>1, MaxOf

\* The first n + 1 places, of which the last is the largest.
LEMMA FirstPlaces ==
    ASSUME NEW n \in Nat
    PROVE  /\ (1..n + 1) = (1..n) \cup {n + 1} /\ (1..n + 1) \ {n + 1} = 1..n
           /\ (1..n + 1) # {} /\ Max(1..n + 1) = n + 1
<1>1. (1..n + 1) = (1..n) \cup {n + 1} /\ n + 1 \notin 1..n
  OBVIOUS
<1>2. (1..n + 1) \in SUBSET Nat /\ n + 1 \in 1..n + 1 /\ \A k \in 1..n + 1 : k <= n + 1
  OBVIOUS
<1>3. Max(1..n + 1) = n + 1
  BY <1>2, MaxIs
<1> QED
  BY <1>1, <1>2, <1>3

\* it goes through the states of a fold of F over n places: one for every set
\* of places, which the largest of them reaches from the others.
FoldsTo(it, n, base, F) ==
    \A t \in SUBSET (1..n) : it[t] = IF t = {} THEN base ELSE F[<<it[t \ {Max(t)}], Max(t)>>]

LEMMA FoldStates ==
    ASSUME NEW n \in Nat, NEW S, NEW base \in S, NEW F \in [S \X (1..n) -> S]
    PROVE  \E it \in [SUBSET (1..n) -> S] : FoldsTo(it, n, base, F)
<1> DEFINE Upto(k) == \E it \in [SUBSET (1..k) -> S] : \A t \in SUBSET (1..k) :
                         it[t] = IF t = {} THEN base ELSE F[<<it[t \ {Max(t)}], Max(t)>>]
           T == {k \in Nat : k <= n => Upto(k)}
<1>1. Upto(0)
  <2> DEFINE it == [t \in SUBSET (1..0) |-> base]
  <2>1. it \in [SUBSET (1..0) -> S] /\ \A t \in SUBSET (1..0) : t = {} /\ it[t] = base
    OBVIOUS
  <2> HIDE DEF it
  <2> QED
    BY <2>1
<1>2. ASSUME NEW k \in Nat, k + 1 <= n, Upto(k) PROVE Upto(k + 1)
  <2>3. PICK it \in [SUBSET (1..k) -> S] : \A t \in SUBSET (1..k) :
           it[t] = IF t = {} THEN base ELSE F[<<it[t \ {Max(t)}], Max(t)>>]
    BY <1>2
  <2> DEFINE top == k + 1
             wider == [t \in SUBSET (1..top) |->
                          IF top \in t THEN F[<<it[t \ {top}], top>>] ELSE it[t]]
  <2>4. top \in Nat /\ top \in 1..n /\ top \notin 1..k /\ (1..top) = (1..k) \cup {top}
    BY <1>2
  <2> HIDE DEF top
  <2>5. ASSUME NEW t \in SUBSET (1..top)
        PROVE  /\ wider[t] \in S
               /\ wider[t] = IF t = {} THEN base ELSE F[<<wider[t \ {Max(t)}], Max(t)>>]
    <3>1. CASE top \in t
      <4>1. t \ {top} \in SUBSET (1..k) /\ t \ {top} \in SUBSET (1..top) /\ top \notin t \ {top} /\ t # {}
        <5>1. \A x \in t : x = top \/ x \in 1..k
          BY <2>4
        <5> QED
          BY <2>4, <3>1, <5>1
      <4>2. Max(t) = top
        <5>1. t \in SUBSET Nat /\ \A j \in t : j <= top
          BY <2>4
        <5> QED
          BY <3>1, <5>1, MaxIs
      <4>3. wider[t] = F[<<it[t \ {top}], top>>] /\ wider[t \ {top}] = it[t \ {top}]
        BY <3>1, <4>1
      <4>4. it[t \ {top}] \in S
        BY <4>1
      <4>5. F[<<it[t \ {top}], top>>] \in S
        BY <2>4, <4>4
      <4> QED
        BY <4>1, <4>2, <4>3, <4>5
    <3>2. CASE top \notin t
      <4>1. t \in SUBSET (1..k) /\ wider[t] = it[t] /\ it[t] \in S
        BY <2>4, <3>2
      <4>2. CASE t = {}
        BY <4>1, <4>2, <2>3
      <4>3. CASE t # {}
        <5>1. Max(t) \in t
          BY <4>1, <4>3, MaxOfPlaces
        <5>2. /\ t \ {Max(t)} \in SUBSET (1..k) /\ t \ {Max(t)} \in SUBSET (1..top)
              /\ top \notin t \ {Max(t)}
          BY <2>4, <3>2, <4>1
        <5>3. wider[t \ {Max(t)}] = it[t \ {Max(t)}]
          BY <5>2
        <5> QED
          BY <2>3, <4>1, <4>3, <5>3
      <4> QED
        BY <4>2, <4>3
    <3> QED
      BY <3>1, <3>2
  <2>6. wider \in [SUBSET (1..top) -> S]
    <3>1. \A t \in SUBSET (1..top) : wider[t] \in S
      BY <2>5
    <3>2. wider = [t \in SUBSET (1..top) |-> wider[t]]
      OBVIOUS
    <3> HIDE DEF wider
    <3> QED
      BY <3>1, <3>2
  <2> HIDE DEF wider
  <2>7. \A t \in SUBSET (1..top) : wider[t] = IF t = {} THEN base ELSE F[<<wider[t \ {Max(t)}], Max(t)>>]
    BY <2>5
  <2>8. Upto(top)
    BY <2>6, <2>7
  <2> QED
    BY <2>8 DEF top
<1> HIDE DEF Upto
<1>3. T \in SUBSET Nat /\ 0 \in T /\ \A k \in T : k + 1 \in T
  BY <1>1, <1>2
<1>4. n \in T
  <2> HIDE DEF T
  <2> QED
    BY <1>3, Induction
<1>5. Upto(n)
  BY <1>4
<1> QED
  BY <1>5 DEF Upto, FoldsTo
=============================================================================
