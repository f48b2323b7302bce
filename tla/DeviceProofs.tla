---------------------------- MODULE DeviceProofs ----------------------------
(***************************************************************************)
(* What is made through the context, for any layouts, costs and pool size, *)
(* any threads and any block size: descriptor pools are in one place and   *)
(* follow the demand; fences, commands and layouts are used by Vulkan's    *)
(* rules up to the stated exceptions; every byte of a buffer is bound once.*)
(***************************************************************************)
EXTENDS DescriptorPool, VulkanContext, SequenceTheorems, TLAPS

-----------------------------------------------------------------------------
(* What the sequence operations do to the set of pools in a list.          *)

\* Append adds its element and keeps a list free of repetitions.
LEMMA AppendRange ==
    ASSUME NEW S, NEW s \in Seq(S), NEW e \in S
    PROVE  /\ Append(s, e) \in Seq(S) /\ Len(Append(s, e)) = Len(s) + 1
           /\ Range(Append(s, e)) = Range(s) \cup {e}
           /\ IsInjective(s) /\ e \notin Range(s) => IsInjective(Append(s, e))
<1> DEFINE t == Append(s, e)
<1>1. t \in Seq(S) /\ Len(t) = Len(s) + 1
    OBVIOUS
<1>2. \A i \in 1..Len(s) : t[i] = s[i]
    OBVIOUS
<1>3. t[Len(s) + 1] = e
    OBVIOUS
<1>4. DOMAIN t = 1..Len(s) + 1 /\ DOMAIN s = 1..Len(s)
    OBVIOUS
<1>5. Range(t) = Range(s) \cup {e}
    <2>0. Len(s) \in Nat
        OBVIOUS
    <2>1. \A x \in Range(t) : x \in Range(s) \cup {e}
        BY <1>2, <1>3, <1>4, <2>0 DEF Range
    <2>2. \A x \in Range(s) : x \in Range(t)
        BY <1>2, <1>4, <2>0 DEF Range
    <2>3. e \in Range(t)
        BY <1>3, <1>4, <2>0 DEF Range
    <2> QED
        BY <2>1, <2>2, <2>3
<1>6. IsInjective(s) /\ e \notin Range(s) => IsInjective(t)
    BY <1>2, <1>3, <1>4 DEF IsInjective, Range
<1> QED
    BY <1>1, <1>5, <1>6

\* What is left when the last element of a list is taken.
LEMMA FrontRange ==
    ASSUME NEW S, NEW s \in Seq(S), s # <<>>
    PROVE  /\ SubSeq(s, 1, Len(s) - 1) \in Seq(S)
           /\ Len(SubSeq(s, 1, Len(s) - 1)) = Len(s) - 1
           /\ s[Len(s)] \in S
           /\ Range(s) = Range(SubSeq(s, 1, Len(s) - 1)) \cup {s[Len(s)]}
           /\ IsInjective(s) => /\ IsInjective(SubSeq(s, 1, Len(s) - 1))
                                /\ s[Len(s)] \notin Range(SubSeq(s, 1, Len(s) - 1))
<1> DEFINE t == SubSeq(s, 1, Len(s) - 1)
<1>1. Len(s) \in Nat \ {0}
    OBVIOUS
<1>0. 1 \in Int /\ Len(s) - 1 \in Int /\ \A i \in 1..Len(s) - 1 : s[i] \in S
    BY <1>1
<1>2. /\ t \in Seq(S)
      /\ Len(t) = IF 1 <= Len(s) - 1 THEN Len(s) - 1 - 1 + 1 ELSE 0
      /\ \A i \in 1..Len(s) - 1 - 1 + 1 : t[i] = s[1 + i - 1]
    BY <1>0, SubSeqProperties
<1> HIDE DEF t
<1>3. Len(t) = Len(s) - 1 /\ s[Len(s)] \in S /\ \A i \in 1..Len(s) - 1 : t[i] = s[i]
    <2>1. Len(t) = Len(s) - 1
        <3> DEFINE n == Len(s)
        <3>1. n \in Nat \ {0} /\ Len(t) = IF 1 <= n - 1 THEN n - 1 - 1 + 1 ELSE 0
            BY <1>1, <1>2
        <3> HIDE DEF n
        <3>2. (IF 1 <= n - 1 THEN n - 1 - 1 + 1 ELSE 0) = n - 1
            BY <3>1
        <3> QED
            BY <3>1, <3>2 DEF n
    <2>2. s[Len(s)] \in S
        BY <1>1
    <2>3. \A i \in 1..Len(s) - 1 : 1 + i - 1 = i /\ i \in 1..Len(s) - 1 - 1 + 1
        BY <1>1
    <2>4. \A i \in 1..Len(s) - 1 : t[i] = s[i]
        BY <1>2, <2>3
    <2> QED
        BY <2>1, <2>2, <2>4
<1>4. DOMAIN t = 1..Len(s) - 1 /\ DOMAIN s = 1..Len(s)
    BY <1>1, <1>2, <1>3
<1>5. Range(s) = Range(t) \cup {s[Len(s)]}
    <2>1. \A x \in Range(s) : x \in Range(t) \cup {s[Len(s)]}
        <3> SUFFICES ASSUME NEW i \in 1..Len(s), i # Len(s) PROVE s[i] \in Range(t)
            BY <1>4 DEF Range
        <3>1. i \in 1..Len(s) - 1
            BY <1>1
        <3> QED
            BY <3>1, <1>3, <1>4 DEF Range
    <2>2. \A x \in Range(t) : x \in Range(s)
        BY <1>1, <1>3, <1>4 DEF Range
    <2>3. s[Len(s)] \in Range(s)
        BY <1>1, <1>4 DEF Range
    <2> QED
        BY <2>1, <2>2, <2>3
<1>6. IsInjective(s) => IsInjective(t) /\ s[Len(s)] \notin Range(t)
    BY <1>1, <1>3, <1>4 DEF IsInjective, Range
<1> QED
    BY <1>2, <1>3, <1>5, <1>6 DEF t

\* Concatenation joins the lists.
LEMMA ConcatRange ==
    ASSUME NEW S, NEW s \in Seq(S), NEW t \in Seq(S)
    PROVE  /\ s \o t \in Seq(S) /\ Len(s \o t) = Len(s) + Len(t)
           /\ Range(s \o t) = Range(s) \cup Range(t)
           /\ IsInjective(s) /\ IsInjective(t) /\ Range(s) \cap Range(t) = {}
                => IsInjective(s \o t)
<1> DEFINE u == s \o t
<1>1. u \in Seq(S) /\ Len(u) = Len(s) + Len(t)
    OBVIOUS
<1>2. /\ DOMAIN u = 1..Len(s) + Len(t) /\ DOMAIN s = 1..Len(s) /\ DOMAIN t = 1..Len(t)
      /\ Len(s) \in Nat /\ Len(t) \in Nat
    BY <1>1
<1>3. \A i \in 1..Len(s) : u[i] = s[i]
    OBVIOUS
<1>4. \A i \in 1..Len(t) : u[Len(s) + i] = t[i]
    OBVIOUS
<1>5. \A i \in DOMAIN u : i \in 1..Len(s) \/ \E j \in 1..Len(t) : i = Len(s) + j
    <2> SUFFICES ASSUME NEW i \in DOMAIN u, i \notin 1..Len(s)
                 PROVE  \E j \in 1..Len(t) : i = Len(s) + j
        OBVIOUS
    <2>1. i - Len(s) \in 1..Len(t) /\ i = Len(s) + (i - Len(s))
        BY <1>2
    <2> QED
        BY <2>1
<1>6. Range(u) = Range(s) \cup Range(t)
    <2>1. \A x \in Range(u) : x \in Range(s) \cup Range(t)
        BY <1>2, <1>3, <1>4, <1>5 DEF Range
    <2>2. \A x \in Range(s) : x \in Range(u)
        BY <1>2, <1>3 DEF Range
    <2>3. \A x \in Range(t) : x \in Range(u)
        <3> SUFFICES ASSUME NEW j \in 1..Len(t) PROVE t[j] \in Range(u)
            BY <1>2 DEF Range
        <3>1. Len(s) + j \in DOMAIN u /\ u[Len(s) + j] = t[j]
            BY <1>2, <1>4
        <3> QED
            BY <3>1 DEF Range
    <2> QED
        BY <2>1, <2>2, <2>3
<1>7. ASSUME IsInjective(s), IsInjective(t), Range(s) \cap Range(t) = {}
      PROVE  IsInjective(u)
    <2> SUFFICES ASSUME NEW i \in DOMAIN u, NEW j \in DOMAIN u, u[i] = u[j]
                 PROVE  i = j
        BY DEF IsInjective
    <2>1. CASE i \in 1..Len(s) /\ j \in 1..Len(s)
        BY <2>1, <1>2, <1>3, <1>7 DEF IsInjective
    <2>2. CASE i \notin 1..Len(s) /\ j \notin 1..Len(s)
        BY <2>2, <1>2, <1>4, <1>5, <1>7 DEF IsInjective
    <2>3. CASE i \in 1..Len(s) /\ j \notin 1..Len(s)
        <3>1. PICK k \in 1..Len(t) : j = Len(s) + k
            BY <2>3, <1>5
        <3>2. u[i] \in Range(s) /\ u[j] \in Range(t)
            BY <2>3, <3>1, <1>2, <1>3, <1>4 DEF Range
        <3> QED
            BY <3>2, <1>7
    <2>4. CASE i \notin 1..Len(s) /\ j \in 1..Len(s)
        <3>1. PICK k \in 1..Len(t) : i = Len(s) + k
            BY <2>4, <1>5
        <3>2. u[j] \in Range(s) /\ u[i] \in Range(t)
            BY <2>4, <3>1, <1>2, <1>3, <1>4 DEF Range
        <3> QED
            BY <3>2, <1>7
    <2> QED
        BY <2>1, <2>2, <2>3, <2>4
<1> QED
    BY <1>1, <1>6, <1>7

\* A list of pools stays one when another pool is made.
LEMMA WiderSeq ==
    ASSUME NEW n \in Nat, NEW s \in Seq(1..n)
    PROVE  s \in Seq(1..n + 1)
<1>1. 1..n \subseteq 1..n + 1
    OBVIOUS
<1> QED
    BY <1>1

-----------------------------------------------------------------------------
(* The inductive invariant.  Full is what a pool put aside holds at least. *)

Full == PoolSize - MaxCost + 1

\* A pool put aside is never empty.
LEMMA FullType == Full \in Nat /\ Full > 0
BY SizeAssumption DEF Full

\* FreeIsEmpty by pool instead of by place.
LEMMA FreeByPool ==
    ASSUME TypeOK
    PROVE  FreeIsEmpty <=> \A p \in Range(free) : taken[p] = 0
BY DEF FreeIsEmpty, Range

\* The constructor makes no pool.
LEMMA InitIInv == Init => IInv
<1> SUFFICES ASSUME Init PROVE IInv
    OBVIOUS
<1>1. TypeOK
    BY DEF Init, TypeOK
<1>2. EachPoolOnce
    BY DEF Init, EachPoolOnce, IsInjective, Range
<1>3. FreeIsEmpty /\ PoolsFollowDemand
    BY DEF Init, FreeIsEmpty, PoolsFollowDemand
<1>4. Len(put) * (PoolSize - MaxCost + 1) = 0
    BY FullType DEF Init, Full
<1> QED
    BY <1>1, <1>2, <1>3, <1>4 DEF Init, IInv

\* A call begins: only the demand grows.
LEMMA AllocateSetStep ==
    ASSUME IInv, NEW l \in Layout, allocate_set(l)
    PROVE  IInv'
<1>0. /\ TypeOK /\ Cost[l] \in 1..MaxCost /\ MaxCost \in Nat /\ held \in Nat /\ peak \in Nat
    BY CostAssumption, SizeAssumption DEF IInv, TypeOK
<1>1. UNCHANGED <<created, current, free, put, taken, held, destroyed>> /\ job' = l
    BY DEF allocate_set
<1>2. peak' \in Nat /\ peak' >= peak /\ peak' >= held + Cost[l]
    BY <1>0 DEF allocate_set
<1>3. TypeOK'
    BY <1>0, <1>1, <1>2 DEF TypeOK
<1>4. EachPoolOnce' /\ FreeIsEmpty'
    BY <1>1 DEF IInv, EachPoolOnce, FreeIsEmpty
<1>5. PoolsFollowDemand'
    <2> DEFINE product == (created - 1) * (PoolSize - MaxCost + 1)
    <2>1. product \in Int
        BY <1>0, FullType DEF Full, TypeOK
    <2>2. created > 0 => product < peak
        BY DEF IInv, PoolsFollowDemand
    <2> HIDE DEF product
    <2>3. created > 0 => product < peak'
        BY <2>1, <2>2, <1>0, <1>2
    <2> QED
        BY <2>3, <1>1 DEF product, PoolsFollowDemand
<1> QED
    BY <1>0, <1>1, <1>2, <1>3, <1>4, <1>5 DEF IInv

\* The pool at hand has room.
LEMMA SucceedStep ==
    ASSUME IInv, Succeed
    PROVE  IInv'
<1>0. /\ TypeOK /\ job \in Layout /\ Cost[job] \in 1..MaxCost /\ MaxCost \in Nat
      /\ current \in 1..created /\ taken[current] \in 0..PoolSize /\ PoolSize \in Nat
      /\ taken[current] + Cost[job] <= PoolSize
    BY SMTT(30), CostAssumption, SizeAssumption DEF IInv, TypeOK, Succeed, Fits
<1>1. /\ UNCHANGED <<created, current, free, put, peak, destroyed>> /\ job' = None
      /\ taken' = [taken EXCEPT ![current] = @ + Cost[job]]
      /\ held' = held + Cost[job]
    BY DEF Succeed
<1>2. TypeOK'
    <2>1. taken[current] + Cost[job] \in 0..PoolSize
        BY <1>0
    <2>2. taken' \in [1..created -> 0..PoolSize]
        BY <1>0, <1>1, <2>1 DEF TypeOK
    <2> QED
        BY <1>0, <1>1, <2>2 DEF TypeOK
<1>3. EachPoolOnce'
    BY <1>1 DEF IInv, EachPoolOnce
<1>4. FreeIsEmpty'
    <2>1. current \notin Range(free)
        BY DEF IInv, EachPoolOnce
    <2>2. \A i \in DOMAIN free : free[i] # current /\ free[i] \in 1..created
        BY <2>1, <1>0 DEF Range, TypeOK
    <2> QED
        BY <2>2, <1>0, <1>1 DEF IInv, FreeIsEmpty, TypeOK
<1>5. PoolsFollowDemand'
    BY <1>1 DEF IInv, PoolsFollowDemand
<1>6. taken'[current] = taken[current] + Cost[job]
    BY <1>0, <1>1 DEF TypeOK
<1>7. held' >= Len(put') * (PoolSize - MaxCost + 1) + (IF current' = 0 THEN 0 ELSE taken'[current'])
    <2> DEFINE product == Len(put) * (PoolSize - MaxCost + 1)
    <2>1. product \in Int /\ held \in Nat
        BY <1>0, FullType DEF Full, TypeOK
    <2>2. held >= product + taken[current]
        BY <1>0 DEF IInv
    <2> HIDE DEF product
    <2>3. held + Cost[job] >= product + (taken[current] + Cost[job])
        BY <2>1, <2>2, <1>0
    <2> QED
        BY <2>3, <1>0, <1>1, <1>6 DEF product
<1>8. peak' >= held'
    BY <1>0, <1>1, CostAssumption DEF IInv
<1> QED
    BY <1>1, <1>2, <1>3, <1>4, <1>5, <1>7, <1>8 DEF IInv

\* A pool that does not fit the call is at least Full when it is put aside.
LEMMA PutAsideFull ==
    ASSUME IInv, job # None, ~Fits, current # 0
    PROVE  /\ current \in 1..created /\ job \in Layout
           /\ PutAside = Append(put, current)
           /\ PutAside \in Seq(1..created) /\ Len(PutAside) = Len(put) + 1
           /\ Range(PutAside) = Range(put) \cup {current}
           /\ IsInjective(PutAside)
           /\ held >= (Len(put) + 1) * Full
<1>1. /\ TypeOK /\ current \in 1..created /\ job \in Layout /\ Cost[job] \in 1..MaxCost
      /\ taken[current] \in 0..PoolSize /\ PoolSize \in Nat /\ MaxCost \in Nat
      /\ put \in Seq(1..created) /\ Len(put) \in Nat /\ held \in Nat
    <2>1. TypeOK /\ current \in 1..created /\ job \in Layout /\ put \in Seq(1..created) /\ held \in Nat
        BY DEF IInv, TypeOK
    <2>2. taken[current] \in 0..PoolSize
        BY <2>1 DEF TypeOK
    <2> QED
        BY <2>1, <2>2, CostAssumption, SizeAssumption
<1>2. taken[current] >= Full
    BY <1>1 DEF Fits, Full
<1>3. PutAside = Append(put, current)
    BY DEF PutAside
<1>4. current \notin Range(put) /\ IsInjective(put)
    BY DEF IInv, EachPoolOnce
<1>5. held >= Len(put) * Full + taken[current]
    BY DEF IInv, Full
<1>6. (Len(put) + 1) * Full = Len(put) * Full + Full /\ Len(put) * Full \in Nat
    BY <1>1, FullType
<1>7. held >= (Len(put) + 1) * Full
    BY <1>1, <1>2, <1>5, <1>6, FullType
<1> QED
    BY ZenonT(40), <1>1, <1>3, <1>4, <1>7, AppendRange

\* The last free pool becomes the current one.
LEMMA TakeFreeStep ==
    ASSUME IInv, TakeFree
    PROVE  IInv'
<1> DEFINE last == free[Len(free)]
           rest == SubSeq(free, 1, Len(free) - 1)
<1>0. /\ TypeOK /\ EachPoolOnce /\ FreeIsEmpty /\ job # None /\ ~Fits /\ free # <<>>
      /\ created \in Nat /\ free \in Seq(1..created) /\ put \in Seq(1..created)
      /\ Len(free) \in Nat /\ Len(put) \in Nat /\ held \in Nat /\ peak \in Nat
    BY DEF IInv, TakeFree, TypeOK
<1>1. /\ UNCHANGED <<created, taken, job, held, peak, destroyed>>
      /\ put' = PutAside /\ current' = last /\ free' = rest
    BY DEF TakeFree
<1>2. /\ rest \in Seq(1..created) /\ Len(rest) = Len(free) - 1 /\ last \in 1..created
      /\ Range(free) = Range(rest) \cup {last}
      /\ IsInjective(rest) /\ last \notin Range(rest)
    BY <1>0, FrontRange DEF EachPoolOnce
<1>3. current # 0
    <2>1. Len(free) > 0
        BY <1>0
    <2> QED
        BY <2>1, <1>0 DEF IInv
<1>4. /\ current \in 1..created
      /\ PutAside \in Seq(1..created) /\ Len(PutAside) = Len(put) + 1
      /\ Range(PutAside) = Range(put) \cup {current}
      /\ IsInjective(PutAside)
      /\ held >= (Len(put) + 1) * Full
    BY <1>0, <1>3, PutAsideFull
<1> HIDE DEF last, rest
<1>5. TypeOK'
    BY <1>0, <1>1, <1>2, <1>4 DEF TypeOK
<1>6. EachPoolOnce'
    BY <1>0, <1>1, <1>2, <1>3, <1>4 DEF EachPoolOnce
<1>7. \A p \in Range(free) : taken[p] = 0
    BY <1>0, FreeByPool
<1>8. FreeIsEmpty'
    BY <1>1, <1>2, <1>7 DEF FreeIsEmpty, Range
<1>9. PoolsFollowDemand'
    BY <1>1 DEF IInv, PoolsFollowDemand
<1>10. created = Len(free) + Len(put) + 1
    BY <1>3 DEF IInv
<1>11. created' = Len(free') + Len(put') + (IF current' = 0 THEN 0 ELSE 1)
    <2>1. current' # 0
        BY <1>0, <1>1, <1>2
    <2>2. Len(free') = Len(free) - 1 /\ Len(put') = Len(put) + 1
        BY <1>1, <1>2, <1>4
    <2>3. created' = (Len(free) - 1) + (Len(put) + 1) + 1
        BY <1>0, <1>1, <1>10
    <2> QED
        BY <2>1, <2>2, <2>3
<1>12. taken'[current'] = 0
    BY <1>1, <1>2, <1>7
<1>13. held' >= Len(put') * (PoolSize - MaxCost + 1) + (IF current' = 0 THEN 0 ELSE taken'[current'])
    <2> DEFINE product == (Len(put) + 1) * Full
    <2>1. product \in Nat
        BY <1>0, FullType
    <2>2. held >= product + 0
        BY <1>0, <1>4, <2>1
    <2> QED
        BY <2>2, <1>1, <1>2, <1>4, <1>12 DEF Full
<1>14. (current' = 0 => created' = 0) /\ peak' >= held' /\ (job' # None => peak' >= held' + Cost[job'])
    BY <1>0, <1>1, <1>2 DEF IInv
<1> QED
    BY <1>5, <1>6, <1>8, <1>9, <1>11, <1>13, <1>14 DEF IInv

\* A pool is made when none is free.
LEMMA CreateStep ==
    ASSUME IInv, Create
    PROVE  IInv'
<1> DEFINE fresh == created + 1
<1>0. /\ TypeOK /\ EachPoolOnce /\ job # None /\ ~Fits /\ free = <<>>
      /\ created \in Nat /\ put \in Seq(1..created) /\ Len(put) \in Nat
      /\ current \in 0..created /\ Range(free) = {} /\ Len(free) = 0
      /\ held \in Nat /\ peak \in Nat /\ job \in Layout /\ Cost[job] \in 1..MaxCost
    BY CostAssumption DEF IInv, Create, TypeOK, Range
<1>1. /\ UNCHANGED <<free, job, held, peak, destroyed>>
      /\ put' = PutAside /\ created' = fresh /\ current' = fresh
      /\ taken' = [p \in 1..fresh |-> IF p = fresh THEN 0 ELSE taken[p]]
    BY DEF Create, NewPool
<1>2. /\ PutAside \in Seq(1..created) /\ Len(PutAside) = Len(put) + (IF current = 0 THEN 0 ELSE 1)
      /\ Range(PutAside) = Range(put) \cup ({current} \ {0})
      /\ IsInjective(PutAside)
      /\ held >= Len(PutAside) * Full
    <2>1. CASE current = 0
        <3>1. PutAside = put /\ IsInjective(put)
            BY <2>1, <1>0 DEF PutAside, EachPoolOnce
        <3>2. held >= Len(put) * (PoolSize - MaxCost + 1) + 0
            BY <2>1 DEF IInv
        <3>3. Len(put) * (PoolSize - MaxCost + 1) \in Nat
            BY <1>0, FullType DEF Full
        <3>4. held >= Len(put) * Full
            BY <3>2, <3>3, <1>0 DEF Full
        <3> QED
            BY <2>1, <1>0, <3>1, <3>4
    <2>2. CASE current # 0
        BY <2>2, <1>0, PutAsideFull
    <2> QED
        BY <2>1, <2>2
<1>3. Len(PutAside) = created
    BY <1>0, <1>2 DEF IInv
<1>4. TypeOK'
    <2>1. put' \in Seq(1..created') /\ free' \in Seq(1..created')
        BY <1>0, <1>1, <1>2, WiderSeq
    <2>2. taken' \in [1..fresh -> 0..PoolSize]
        <3> SUFFICES ASSUME NEW p \in 1..fresh, p # fresh PROVE taken[p] \in 0..PoolSize
            BY <1>1, SizeAssumption
        <3>1. p \in 1..created
            BY <1>0
        <3> QED
            BY <3>1, <1>0 DEF TypeOK
    <2>3. destroyed' = None \/ destroyed' \in Seq(1..created')
        BY <1>0, <1>1, WiderSeq DEF TypeOK
    <2> QED
        BY <1>0, <1>1, <2>1, <2>2, <2>3 DEF TypeOK
<1>5. EachPoolOnce'
    <2>1. 1..created = Range(put) \cup ({current} \ {0})
        BY <1>0 DEF EachPoolOnce
    <2>2. 1..fresh = (1..created) \cup {fresh} /\ fresh \notin 1..created /\ fresh # 0
        BY <1>0
    <2> QED
        BY <1>0, <1>1, <1>2, <2>1, <2>2 DEF EachPoolOnce
<1>6. FreeIsEmpty'
    BY <1>0, <1>1 DEF FreeIsEmpty
<1>7. peak >= held + Cost[job]
    BY <1>0 DEF IInv
<1>8. PoolsFollowDemand'
    <2>1. held >= created * Full /\ created * Full \in Nat
        <3>1. created * Full \in Nat
            BY <1>0, FullType
        <3>2. held >= created * Full
            BY <1>2, <1>3
        <3> QED
            BY <3>1, <3>2
    <2>2. created * Full < peak
        BY <2>1, <1>0, <1>7, SizeAssumption
    <2>3. created' - 1 = created
        BY <1>0, <1>1
    <2> QED
        BY <1>1, <2>2, <2>3 DEF PoolsFollowDemand, Full
<1>9. created' = Len(free') + Len(put') + (IF current' = 0 THEN 0 ELSE 1)
    <2>1. current' # 0 /\ created' = created + 1
        BY <1>0, <1>1
    <2>2. Len(free') = 0 /\ Len(put') = created
        BY <1>0, <1>1, <1>3
    <2> QED
        BY <1>0, <2>1, <2>2
<1>10. held' >= Len(put') * (PoolSize - MaxCost + 1) + (IF current' = 0 THEN 0 ELSE taken'[current'])
    <2>1. taken'[current'] = 0
        BY <1>0, <1>1
    <2>2. Len(PutAside) * Full \in Nat
        BY <1>0, <1>3, FullType
    <2>3. held >= Len(PutAside) * Full + 0
        BY <1>0, <1>2, <2>2
    <2> QED
        BY <1>0, <1>1, <2>1, <2>3 DEF Full
<1>11. (current' = 0 => created' = 0) /\ peak' >= held' /\ (job' # None => peak' >= held' + Cost[job'])
    BY <1>0, <1>1, <1>7 DEF IInv
<1> QED
    BY <1>4, <1>5, <1>6, <1>8, <1>9, <1>10, <1>11 DEF IInv

\* The used pools become free, all of them empty.
LEMMA ResetStep ==
    ASSUME IInv, Reset
    PROVE  IInv'
<1>0. /\ TypeOK /\ EachPoolOnce /\ FreeIsEmpty /\ job = None
      /\ created \in Nat /\ free \in Seq(1..created) /\ put \in Seq(1..created)
      /\ current \in 0..created /\ Len(free) \in Nat /\ Len(put) \in Nat /\ peak \in Nat /\ PoolSize \in Nat
    BY SizeAssumption DEF IInv, Reset, TypeOK
<1>1. /\ UNCHANGED <<created, current, job, peak, destroyed>>
      /\ taken' = [p \in 1..created |-> IF p = current \/ p \in Range(put) THEN 0 ELSE taken[p]]
      /\ free' = free \o put /\ put' = <<>> /\ held' = 0
    BY DEF Reset
<1>2. /\ free' \in Seq(1..created) /\ Len(free') = Len(free) + Len(put)
      /\ Range(free') = Range(free) \cup Range(put) /\ IsInjective(free')
    BY <1>0, <1>1, ConcatRange DEF EachPoolOnce
<1>3. put' \in Seq(1..created) /\ Len(put') = 0 /\ Range(put') = {} /\ IsInjective(put')
    BY <1>1 DEF Range, IsInjective
<1>4. TypeOK'
    <2>1. taken' \in [1..created -> 0..PoolSize]
        BY <1>0, <1>1 DEF TypeOK
    <2> QED
        BY <1>0, <1>1, <1>2, <1>3, <2>1 DEF TypeOK
<1>5. EachPoolOnce'
    BY <1>0, <1>1, <1>2, <1>3 DEF EachPoolOnce
<1>6. FreeIsEmpty'
    <2>1. \A p \in Range(free) : taken[p] = 0
        BY <1>0, FreeByPool
    <2>2. Range(free') \subseteq 1..created
        BY <1>0, <1>2 DEF EachPoolOnce
    <2>3. \A p \in Range(free') : taken'[p] = 0
        BY <1>1, <1>2, <2>1, <2>2
    <2> QED
        BY <2>3 DEF FreeIsEmpty, Range
<1>7. PoolsFollowDemand'
    BY <1>1 DEF IInv, PoolsFollowDemand
<1>8. created' = Len(free') + Len(put') + (IF current' = 0 THEN 0 ELSE 1)
    BY <1>0, <1>1, <1>2, <1>3 DEF IInv
<1>9. held' >= Len(put') * (PoolSize - MaxCost + 1) + (IF current' = 0 THEN 0 ELSE taken'[current'])
    <2>1. 0 * Full = 0
        BY FullType
    <2>2. current' # 0 => taken'[current'] = 0
        BY <1>0, <1>1
    <2> QED
        BY <1>1, <1>3, <2>1, <2>2 DEF Full
<1>10. (current' = 0 => created' = 0) /\ peak' >= held' /\ (job' # None => peak' >= held' + Cost[job'])
    BY <1>0, <1>1 DEF IInv
<1> QED
    BY <1>4, <1>5, <1>6, <1>7, <1>8, <1>9, <1>10 DEF IInv

\* The list the destructor walks holds every pool once.
LEMMA DestroyedPools ==
    ASSUME IInv, Destroy
    PROVE  destroyed' \in Seq(1..created) /\ IsInjective(destroyed') /\ Range(destroyed') = 1..created
<1> DEFINE head == IF current = 0 THEN <<>> ELSE <<current>>
<1>1. /\ created \in Nat /\ free \in Seq(1..created) /\ put \in Seq(1..created) /\ current \in 0..created
      /\ EachPoolOnce
    BY DEF IInv, TypeOK
<1>2. head \in Seq(1..created) /\ IsInjective(head) /\ Range(head) = {current} \ {0}
    <2>1. CASE current = 0
        BY <2>1 DEF Range, IsInjective
    <2>2. CASE current # 0
        BY <2>2, <1>1 DEF Range, IsInjective
    <2> QED
        BY <2>1, <2>2
<1> HIDE DEF head
<1>3. /\ head \o free \in Seq(1..created) /\ IsInjective(head \o free)
      /\ Range(head \o free) = Range(head) \cup Range(free)
    BY <1>1, <1>2, ConcatRange DEF EachPoolOnce
<1>4. /\ (head \o free) \o put \in Seq(1..created) /\ IsInjective((head \o free) \o put)
      /\ Range((head \o free) \o put) = Range(head \o free) \cup Range(put)
    <2>1. Range(head \o free) \cap Range(put) = {} /\ IsInjective(put)
        BY <1>1, <1>2, <1>3 DEF EachPoolOnce
    <2> DEFINE both == head \o free
    <2>2. both \in Seq(1..created) /\ IsInjective(both) /\ Range(both) \cap Range(put) = {}
        BY <1>3, <2>1
    <2> HIDE DEF both
    <2>3. /\ both \o put \in Seq(1..created) /\ IsInjective(both \o put)
          /\ Range(both \o put) = Range(both) \cup Range(put)
        BY <1>1, <2>1, <2>2, ConcatRange
    <2> QED
        BY <2>3 DEF both
<1>5. destroyed' = (head \o free) \o put
    BY DEF Destroy, head
<1> QED
    BY <1>1, <1>2, <1>3, <1>4, <1>5 DEF EachPoolOnce

\* The destructor, and a step that changes nothing.
LEMMA QuietStep ==
    ASSUME IInv, Destroy \/ UNCHANGED vars
    PROVE  IInv'
<1>1. UNCHANGED <<created, current, free, put, taken, job, held, peak>>
    BY DEF Destroy, vars
<1>2. destroyed' = None \/ destroyed' \in Seq(1..created)
    BY DestroyedPools DEF IInv, TypeOK, vars
<1>3. TypeOK'
    BY <1>1, <1>2 DEF IInv, TypeOK
<1>4. EachPoolOnce' /\ FreeIsEmpty' /\ PoolsFollowDemand'
    BY <1>1 DEF IInv, EachPoolOnce, FreeIsEmpty, PoolsFollowDemand
<1> QED
    BY <1>1, <1>3, <1>4 DEF IInv

\* IInv is inductive.
LEMMA NextIInv == IInv /\ [Next]_vars => IInv'
<1> SUFFICES ASSUME IInv, [Next]_vars PROVE IInv'
    OBVIOUS
<1>1. CASE \E l \in Layout : allocate_set(l)
    BY <1>1, AllocateSetStep
<1>2. CASE AllocateStep
    BY <1>2, SucceedStep, TakeFreeStep, CreateStep DEF AllocateStep
<1>3. CASE Reset
    BY <1>3, ResetStep
<1>4. CASE Destroy \/ UNCHANGED vars
    BY <1>4, QuietStep
<1> QED
    BY <1>1, <1>2, <1>3, <1>4 DEF Next

\* Where every pool is and how full it is, in every reachable state.
THEOREM PoolsAccounted == Spec => []IInv
BY InitIInv, NextIInv, PTL DEF Spec

-----------------------------------------------------------------------------
(* What follows.                                                           *)

\* No pool is allocated from twice, forgotten or listed twice.
THEOREM PoolsOnce == Spec => []EachPoolOnce
<1>1. IInv => EachPoolOnce
    BY DEF IInv
<1> QED
    BY <1>1, PoolsAccounted, PTL

\* What next_pool takes from the free list has all its room.
THEOREM FreeEmpty == Spec => []FreeIsEmpty
<1>1. IInv => FreeIsEmpty
    BY DEF IInv
<1> QED
    BY <1>1, PoolsAccounted, PTL

\* The pools made are bounded by the largest demand, whatever the number of
\* resets.
THEOREM DemandBoundsPools == Spec => []PoolsFollowDemand
<1>1. IInv => PoolsFollowDemand
    BY DEF IInv
<1> QED
    BY <1>1, PoolsAccounted, PTL

\* The destructor runs outside a call and destroys each pool once.
THEOREM DestroyedOnce == Spec => []DestroysEach
<1> DEFINE Dead == DestroysEach /\ (job # None => destroyed = None)
<1>1. Init => Dead
    BY DEF Init, DestroysEach
<1>2. IInv /\ Dead /\ [Next]_vars => Dead'
    <2> SUFFICES ASSUME IInv, Dead, [Next]_vars PROVE Dead'
        OBVIOUS
    <2>1. CASE \E l \in Layout : allocate_set(l)
        BY <2>1 DEF allocate_set, Alive, DestroysEach
    <2>2. CASE AllocateStep
        BY <2>2 DEF AllocateStep, Succeed, TakeFree, Create, DestroysEach
    <2>3. CASE Reset
        BY <2>3 DEF Reset, Alive, DestroysEach
    <2>4. CASE Destroy
        <3>1. IsInjective(destroyed') /\ Range(destroyed') = 1..created
            BY <2>4, DestroyedPools
        <3> QED
            BY <2>4, <3>1 DEF Destroy, DestroysEach
    <2>5. CASE UNCHANGED vars
        BY <2>5 DEF vars, DestroysEach
    <2> QED
        BY <2>1, <2>2, <2>3, <2>4, <2>5 DEF Next
<1>3. Dead => DestroysEach
    OBVIOUS
<1> QED
    BY <1>1, <1>2, <1>3, PoolsAccounted, PTL DEF Spec

-----------------------------------------------------------------------------
(* VulkanContext.                                                          *)

\* A thread has begun a call when it is inside one, which it is, or has a
\* fence that is not to be explained, only while there is a context.  Of two
\* threads inside calls that submit, one began its call while the other was.
ThreadsInv ==
    /\ alive => device # 0
    /\ \A t \in Thread :
          /\ pc[t] \in {"recording", "queueing", "submitted", "bindqueue", "binding", "layout"} => calls[t] # 0 /\ alive
          /\ fence[t] # 0 => (alive /\ fence[t] = device) \/ "outlived" \in risk
    /\ \A s, t \in Thread : Submitting(s) /\ Submitting(t) => s = t \/ "shared" \in risk

InHand == {<<device, t, calls[t]>> : t \in {s \in Thread : pc[s] = "layout"}}

\* Every layout that exists is queued or about to be; while the context is the
\* first, every layout queued exists and is of its device.
LayoutsInv ==
    /\ existing \subseteq Queued \cup InHand
    /\ InHand \subseteq existing
    /\ device = 0 => queue = <<>>
    /\ alive /\ "second" \notin risk => \A l \in Queued : l[1] = device /\ l \in existing

-----------------------------------------------------------------------------
(* Arithmetic of blocks.                                                   *)

\* The quotient is the number of whole divisors.
LEMMA DivBounds ==
    ASSUME NEW x \in Nat, NEW d \in Nat \ {0}
    PROVE  x \div d \in Nat /\ (x \div d) * d <= x /\ x < (x \div d) * d + d
  BY Z3

\* Multiples leave no rest, and numbers without one are multiples.
LEMMA Multiples ==
    ASSUME NEW x \in Nat, NEW d \in Nat \ {0}
    PROVE  (x * d) % d = 0 /\ (x % d = 0 => x = (x \div d) * d)
  BY Z3

\* Between two multiples lies a divisor.
LEMMA MultiplesApart ==
    ASSUME NEW q \in Nat, NEW k \in Nat, NEW d \in Nat \ {0}, q * d < k * d + d
    PROVE  q * d <= k * d
  BY Z3

\* Rounding up (resize of GrowableBuffer) reaches the next multiple.
LEMMA RoundUpReaches ==
    ASSUME NEW n \in Nat
    PROVE  RoundUp(n) \in Nat /\ RoundUp(n) >= n /\ RoundUp(n) % BlockSize = 0
<1>. DEFINE x == n + BlockSize - 1
            q == x \div BlockSize
<1>1. x \in Nat /\ BlockSize \in Nat \ {0}
  BY ContextAssumption
<1>2. q \in Nat /\ q * BlockSize <= x /\ x < q * BlockSize + BlockSize
  BY <1>1, DivBounds
<1>3. (q * BlockSize) % BlockSize = 0
  BY <1>1, <1>2, Multiples
<1>4. q * BlockSize \in Nat
  BY <1>1, <1>2
<1>5. RoundUp(n) = q * BlockSize
  BY DEF RoundUp
<1>. HIDE DEF q
<1>. QED BY <1>1, <1>2, <1>3, <1>4, <1>5

\* Rounding up a smaller number reaches no further, whatever the limit is.
LEMMA RoundUpMonotone ==
    ASSUME NEW n \in Nat, NEW m \in Nat, n <= m
    PROVE  RoundUp(n) <= RoundUp(m)
<1>. DEFINE x == n + BlockSize - 1
            y == m + BlockSize - 1
            q == x \div BlockSize
            k == y \div BlockSize
<1>1. x \in Nat /\ y \in Nat /\ x <= y /\ BlockSize \in Nat \ {0}
  BY ContextAssumption
<1>2. q \in Nat /\ k \in Nat /\ q * BlockSize <= x /\ y < k * BlockSize + BlockSize
  BY <1>1, DivBounds
<1>3. RoundUp(n) = q * BlockSize /\ RoundUp(m) = k * BlockSize
  BY DEF RoundUp
<1>4. q * BlockSize \in Nat /\ k * BlockSize \in Nat
  BY <1>1, <1>2
<1>. HIDE DEF q, k
<1>5. q * BlockSize < k * BlockSize + BlockSize
  BY <1>1, <1>2, <1>4
<1>. QED BY <1>1, <1>2, <1>3, <1>5, MultiplesApart

-----------------------------------------------------------------------------
(* The buffer.                                                             *)

BufferInv == grown \in 0..RoundUp(MaxBytes) /\ binds \in [Offset -> Nat] /\ BlocksBound

\* The blocks are counted from the first.
LEMMA OffsetsFit == Offset \subseteq Nat
  BY ContextAssumption, RoundUpReaches, DivBounds DEF Offset

\* A resize binds the blocks between the old size and the new, and no other.
LEMMA ResizeBinds ==
    ASSUME BufferInv, NEW t \in Thread, NEW bytes \in 1..MaxBytes, resize(t, bytes)
    PROVE  BufferInv'
<1>0. MaxBytes \in Nat /\ RoundUp(MaxBytes) \in Nat
  BY ContextAssumption, RoundUpReaches
<1>1. grown \in Nat /\ grown < bytes /\ bytes \in Nat
  BY <1>0 DEF resize, BufferInv
<1>2. grown' \in bytes..RoundUp(MaxBytes) /\ grown' % BlockSize = 0
  <2>1. /\ RoundUp(bytes) \in Nat /\ RoundUp(bytes) >= bytes /\ RoundUp(bytes) % BlockSize = 0
        /\ RoundUp(bytes) <= RoundUp(MaxBytes)
    BY <1>0, <1>1, RoundUpReaches, RoundUpMonotone
  <2>. QED BY <1>0, <1>1, <2>1 DEF resize
<1>3. \A b \in Offset : b * BlockSize \in Nat
  BY ContextAssumption, OffsetsFit
<1>4. /\ binds' \in [Offset -> Nat]
      /\ \A b \in Offset : binds'[b] = IF b * BlockSize < grown' THEN 1 ELSE 0
  <2>1. ASSUME NEW b \in Offset
        PROVE  /\ binds'[b] \in Nat
               /\ binds'[b] = IF b * BlockSize < grown' THEN 1 ELSE 0
    <3>. DEFINE at == b * BlockSize
    <3>1. binds'[b] = IF grown <= at /\ at < grown' THEN binds[b] + 1 ELSE binds[b]
      BY DEF resize
    <3>2. binds[b] = IF at < grown THEN 1 ELSE 0
      BY DEF BufferInv, BlocksBound
    <3>3. at \in Nat
      BY <1>3
    <3>. HIDE DEF at
    <3>4. binds'[b] = IF at < grown' THEN 1 ELSE 0
      BY <1>1, <1>2, <3>1, <3>2, <3>3
    <3>. QED BY <3>4 DEF at
  <2>2. binds' = [b \in Offset |-> binds'[b]]
    BY DEF resize
  <2>. QED BY <2>1, <2>2
<1>. QED BY <1>0, <1>1, <1>2, <1>4 DEF BufferInv, BlocksBound

\* Nothing else touches the buffer.
LEMMA NextKeepsBuffer ==
    ASSUME BufferInv, [ContextNext]_contextVars
    PROVE  BufferInv'
<1>1. CASE \E t \in Thread, bytes \in 1..MaxBytes : resize(t, bytes)
  BY <1>1, ResizeBinds
<1>2. CASE UNCHANGED bufferVars
  BY <1>2 DEF bufferVars, BufferInv, BlocksBound
<1>3. (\E t \in Thread, bytes \in 1..MaxBytes : resize(t, bytes)) \/ UNCHANGED bufferVars
  BY DEF ContextNext, ThreadStep, Record, EnterSubmit, Submit, Complete, Return, TimeOut, CreateLayout, Enqueue,
         EndThread, init, cleanup_conext, Teardown, contextVars
<1>. QED BY <1>1, <1>2, <1>3

\* Every byte below the size of the buffer is bound once, for every block size
\* and every sequence of resizes (GrowableBuffer::resize).
THEOREM BoundOnce == ContextSpec => []BlocksBound
<1>1. ContextInit => BufferInv
  <2>. SUFFICES ASSUME ContextInit PROVE BufferInv
    OBVIOUS
  <2>1. grown = 0 /\ binds = [b \in Offset |-> 0]
    BY DEF ContextInit
  <2>2. 0 % BlockSize = 0 /\ \A b \in Offset : ~(b * BlockSize < 0)
    BY ContextAssumption, Multiples, OffsetsFit
  <2>. QED BY <2>1, <2>2, ContextAssumption, RoundUpReaches DEF BufferInv, BlocksBound
<1>2. BufferInv => BlocksBound
  BY DEF BufferInv
<1>. QED BY <1>1, <1>2, NextKeepsBuffer, PTL DEF ContextSpec

-----------------------------------------------------------------------------
(* Threads, the device and layouts.  What a thread does to its own entry   *)
(* of pc, calls, fence and jobs is all that can disturb the invariants.    *)

CallTypes ==
    /\ checked \in BOOLEAN /\ alive \in BOOLEAN
    /\ device \in 0..MaxDevices
    /\ pc \in [Thread -> {"idle", "recording", "queueing", "submitted", "bindqueue", "binding",
                      "layout", "ended", "aborted"}]
    /\ calls \in [Thread -> 0..MaxCalls]
    /\ fence \in [Thread -> 0..MaxDevices]
    /\ signalled \subseteq Thread
    /\ jobs \subseteq Thread \X (1..MaxCalls)
    /\ queue \in Seq(MadeLayout) /\ existing \subseteq MadeLayout
    /\ misuse \subseteq {"busy", "fence", "layout", "queue"}
    /\ risk \subseteq {"timeout", "outlived", "second", "shared"}

CallsInv == CallTypes /\ UsesExplained /\ WaitsForOwn /\ TornDown /\ ThreadsInv /\ LayoutsInv

\* The types of what one thread changes.
LEMMA StepKeepsTypes ==
    ASSUME CallsInv, [ContextNext]_contextVars
    PROVE  CallTypes'
<1>. USE ContextAssumption DEF CallsInv, CallTypes
<1>1. CASE UNCHANGED contextVars
  BY <1>1 DEF contextVars, deviceVars, callVars, layoutVars, bufferVars, MadeLayout
<1>2. ASSUME NEW t \in Thread, Submit(t) PROVE CallTypes'
  <2>1. <<t, calls[t]>> \in Thread \X (1..MaxCalls)
    BY <1>2 DEF Submit, ThreadsInv
  <2>. QED BY <1>2, <2>1 DEF Submit, Leaves, Goes, deviceVars, layoutVars, MadeLayout
<1>13. ASSUME NEW t \in Thread, EnterSubmit(t) PROVE CallTypes'
  <2>1. misuse' \subseteq {"busy", "fence", "layout", "queue"}
    BY <1>13 DEF EnterSubmit, Enters
  <2>. QED BY <1>13, <2>1 DEF EnterSubmit, Enters, Goes, deviceVars, layoutVars, MadeLayout
<1>3. ASSUME NEW t \in Thread, Return(t) PROVE CallTypes'
  BY <1>3 DEF Return, Goes, Misused, deviceVars, layoutVars, MadeLayout
<1>4. ASSUME NEW t \in Thread, TimeOut(t) PROVE CallTypes'
  BY <1>4 DEF TimeOut, Goes, Misused, deviceVars, layoutVars, MadeLayout
<1>5. ASSUME NEW t \in Thread, Enqueue(t) PROVE CallTypes'
  <2>1. <<device, t, calls[t]>> \in MadeLayout
    BY <1>5 DEF Enqueue, ThreadsInv, MadeLayout
  <2>2. queue' \in Seq(MadeLayout)
    BY <1>5, <2>1 DEF Enqueue
  <2>. QED BY <1>5, <2>2 DEF Enqueue, Goes, deviceVars, MadeLayout
<1>6. ASSUME NEW t \in Thread, Record(t) PROVE CallTypes'
  BY <1>6 DEF Record, Begins, Calls, Goes, deviceVars, layoutVars, MadeLayout
<1>7. ASSUME NEW t \in Thread, CreateLayout(t) PROVE CallTypes'
  <2>1. calls'[t] \in 1..MaxCalls /\ device \in 1..MaxDevices
    BY <1>7 DEF CreateLayout, Calls, ThreadsInv
  <2>. QED BY <1>7, <2>1 DEF CreateLayout, Calls, Goes, deviceVars, MadeLayout
<1>8. ASSUME NEW t \in Thread, EndThread(t) PROVE CallTypes'
  BY <1>8 DEF EndThread, Goes, deviceVars, layoutVars, MadeLayout
<1>9. ASSUME NEW t \in Thread, NEW bytes \in 1..MaxBytes, resize(t, bytes) PROVE CallTypes'
  <2>1. /\ misuse' \subseteq {"busy", "fence", "layout", "queue"}
        /\ risk' \subseteq {"timeout", "outlived", "second", "shared"}
    BY <1>9 DEF resize, Enters, Begins
  <2>. QED BY <1>9, <2>1 DEF resize, Calls, Enters, Goes, deviceVars, layoutVars, MadeLayout
<1>10. ASSUME NEW task \in jobs, Complete(task) PROVE CallTypes'
  BY <1>10 DEF Complete, deviceVars, layoutVars, MadeLayout
<1>11. CASE init
  BY <1>11 DEF init, callVars, layoutVars, MadeLayout
<1>12. CASE cleanup_conext
  BY <1>12 DEF cleanup_conext, Teardown, callVars, MadeLayout
<1>. QED
  BY <1>1, <1>2, <1>3, <1>4, <1>5, <1>6, <1>7, <1>8, <1>9, <1>10, <1>11, <1>12, <1>13
     DEF ContextNext, ThreadStep

\* A thread that is inside a call has begun one.
LEMMA StepKeepsThreads ==
    ASSUME CallsInv, [ContextNext]_contextVars
    PROVE  ThreadsInv'
<1>. USE ContextAssumption DEF CallsInv, CallTypes, ThreadsInv, Submitting
<1>a. CallTypes'
  BY StepKeepsTypes
<1>1. CASE UNCHANGED contextVars
  BY <1>1 DEF contextVars, deviceVars, callVars, layoutVars, bufferVars, Busy
<1>2. ASSUME NEW t \in Thread, Submit(t) PROVE ThreadsInv'
  <2>1. UNCHANGED <<alive, device, calls, fence, risk>>
    BY <1>2 DEF Submit, deviceVars
  <2>2. /\ pc[t] \in {"queueing", "bindqueue"} /\ pc'[t] \in {"submitted", "binding"}
        /\ \A s \in Thread \ {t} : pc'[s] = pc[s]
    BY <1>2 DEF Submit, Goes
  <2>. QED BY <2>1, <2>2
<1>13. ASSUME NEW t \in Thread, EnterSubmit(t) PROVE ThreadsInv'
  <2>1. UNCHANGED <<alive, device, calls, risk>>
    BY <1>13 DEF EnterSubmit, deviceVars
  <2>2. \A s \in Thread \ {t} : pc'[s] = pc[s] /\ fence'[s] = fence[s]
    BY <1>13 DEF EnterSubmit, Enters, Goes
  <2>3. /\ pc[t] = "recording" /\ pc'[t] = "queueing"
        /\ fence'[t] = IF fence[t] = 0 THEN device ELSE fence[t]
    BY <1>13 DEF EnterSubmit, Enters, Goes
  <2>. QED BY <2>1, <2>2, <2>3
<1>3. ASSUME NEW t \in Thread, Return(t) PROVE ThreadsInv'
  BY <1>3, <1>a DEF Return, Goes, Misused, Busy, deviceVars, callVars, layoutVars
<1>4. ASSUME NEW t \in Thread, TimeOut(t) PROVE ThreadsInv'
  BY <1>4, <1>a DEF TimeOut, Goes, Misused, Busy, deviceVars, callVars, layoutVars
<1>5. ASSUME NEW t \in Thread, Enqueue(t) PROVE ThreadsInv'
  BY <1>5, <1>a DEF Enqueue, Goes, Busy, deviceVars, callVars, layoutVars
<1>6. ASSUME NEW t \in Thread, Record(t) PROVE ThreadsInv'
  <2>1. UNCHANGED <<alive, device, fence>> /\ alive /\ calls'[t] # 0 /\ pc'[t] = "recording"
    BY <1>6 DEF Record, Calls, Goes, deviceVars
  <2>2. \A s \in Thread \ {t} : pc'[s] = pc[s] /\ calls'[s] = calls[s]
    BY <1>6 DEF Record, Calls, Goes
  <2>3. risk \subseteq risk' /\ \A s \in Thread \ {t} : Submitting(s) => "shared" \in risk'
    BY <1>6 DEF Record, Begins
  <2>. QED BY <2>1, <2>2, <2>3
<1>7. ASSUME NEW t \in Thread, CreateLayout(t) PROVE ThreadsInv'
  BY <1>7, <1>a DEF CreateLayout, Calls, Goes, Busy, deviceVars, callVars, layoutVars
<1>8. ASSUME NEW t \in Thread, EndThread(t) PROVE ThreadsInv'
  BY <1>8, <1>a DEF EndThread, Goes, Busy, deviceVars, callVars, layoutVars
<1>9. ASSUME NEW t \in Thread, NEW bytes \in 1..MaxBytes, resize(t, bytes) PROVE ThreadsInv'
  <2>1. UNCHANGED <<alive, device>> /\ alive /\ calls'[t] # 0 /\ pc'[t] = "bindqueue"
    BY <1>9 DEF resize, Calls, Goes, deviceVars
  <2>2. \A s \in Thread \ {t} : pc'[s] = pc[s] /\ calls'[s] = calls[s] /\ fence'[s] = fence[s]
    BY <1>9 DEF resize, Enters, Calls, Goes
  <2>3. fence'[t] = IF fence[t] = 0 THEN device ELSE fence[t]
    BY <1>9 DEF resize, Enters
  <2>4. risk \subseteq risk' /\ \A s \in Thread \ {t} : Submitting(s) => "shared" \in risk'
    BY <1>9 DEF resize, Begins
  <2>. QED BY <2>1, <2>2, <2>3, <2>4
<1>10. ASSUME NEW task \in jobs, Complete(task) PROVE ThreadsInv'
  BY <1>10, <1>a DEF Complete, Busy, deviceVars, callVars, layoutVars
<1>11. CASE init
  BY <1>11, <1>a DEF init, Busy, deviceVars, callVars, layoutVars
<1>12. CASE cleanup_conext
  BY <1>12, <1>a DEF cleanup_conext, Teardown, Busy, deviceVars, callVars, layoutVars
<1>. QED
  BY <1>1, <1>2, <1>3, <1>4, <1>5, <1>6, <1>7, <1>8, <1>9, <1>10, <1>11, <1>12, <1>13
     DEF ContextNext, ThreadStep

\* The submissions of a thread, before and after one of a thread is added.
JobsOf(t) == {task \in jobs : task[1] = t}

\* A submission that is not done is one of its thread's, which is busy.
LEMMA JobsHaveThreads ==
    ASSUME CallTypes
    PROVE  /\ \A task \in jobs : task = <<task[1], task[2]>> /\ task[1] \in Thread /\ task[2] \in 1..MaxCalls
           /\ \A task \in jobs : Busy(task[1])
           /\ \A t \in Thread : ~Busy(t) => JobsOf(t) = {}
<1>1. \A task \in jobs : task = <<task[1], task[2]>> /\ task[1] \in Thread /\ task[2] \in 1..MaxCalls
  BY DEF CallTypes
<1>2. \A task \in jobs : Busy(task[1])
  <2>1. ASSUME NEW task \in jobs PROVE Busy(task[1])
    <3>1. PICK n \in 1..MaxCalls : n = task[2]
      BY <1>1
    <3>2. <<task[1], n>> = task
      BY <1>1, <3>1
    <3>. QED BY <3>2 DEF Busy
  <2>. QED BY <2>1
<1>. QED BY <1>1, <1>2 DEF JobsOf

\* A thread's submissions are its own.
LEMMA JobAdded ==
    ASSUME NEW t \in Thread, NEW n, jobs' = jobs \cup {<<t, n>>}
    PROVE  /\ JobsOf(t)' = JobsOf(t) \cup {<<t, n>>}
           /\ \A s \in Thread \ {t} : JobsOf(s)' = JobsOf(s)
  BY DEF JobsOf

\* What a thread waits for: its own submission, unless that is done or lost.
OwnAwaited(t) ==
    /\ (Busy(t) \/ t \in signalled) => pc[t] \in {"submitted", "binding"}
    /\ pc[t] \in {"submitted", "binding"} =>
          \/ JobsOf(t) = IF t \in signalled THEN {} ELSE {<<t, calls[t]>>}
          \/ JobsOf(t) = {} /\ "queue" \in misuse

\* A thread that is not in a wait, before and after a step, goes on without one.
LEMMA NotAwaiting ==
    ASSUME CallsInv, NEW t \in Thread, Running, UNCHANGED <<jobs, signalled>>,
           risk \subseteq risk', "timeout" \in risk' => "timeout" \in risk, misuse \subseteq misuse',
           pc[t] \notin {"submitted", "binding"}, pc'[t] \notin {"submitted", "binding"},
           \A s \in Thread \ {t} : pc'[s] = pc[s] /\ calls'[s] = calls[s]
    PROVE  WaitsForOwn'
<1>. SUFFICES ASSUME "timeout" \notin risk, NEW s \in Thread PROVE OwnAwaited(s)'
  BY DEF WaitsForOwn, OwnAwaited, JobsOf
<1>1. OwnAwaited(s)
  BY DEF CallsInv, WaitsForOwn, OwnAwaited, JobsOf
<1>2. JobsOf(s)' = JobsOf(s) /\ (Busy(s)' <=> Busy(s))
  BY DEF JobsOf, Busy
<1>. QED BY <1>1, <1>2 DEF OwnAwaited

\* A submission of a thread that waits for none is the only one of it.
LEMMA SubmissionIsOwn ==
    ASSUME CallsInv, NEW t \in Thread, Submit(t)
    PROVE  WaitsForOwn'
<1>. USE DEF CallsInv, CallTypes
<1>1. /\ Running /\ UNCHANGED <<risk, signalled, misuse, calls>> /\ Leaves(t)
      /\ pc[t] \in {"queueing", "bindqueue"} /\ pc'[t] \in {"submitted", "binding"}
      /\ \A s \in Thread \ {t} : pc'[s] = pc[s]
  BY DEF Submit, Goes
<1>. SUFFICES ASSUME "timeout" \notin risk, NEW s \in Thread PROVE OwnAwaited(s)'
  BY <1>1 DEF WaitsForOwn, OwnAwaited, JobsOf
<1>2. OwnAwaited(s) /\ OwnAwaited(t)
  BY <1>1 DEF WaitsForOwn, OwnAwaited, JobsOf
<1>3. ~Busy(t) /\ t \notin signalled /\ JobsOf(t) = {}
  BY <1>1, <1>2, JobsHaveThreads DEF OwnAwaited
<1>4. CASE jobs' = jobs \cup {<<t, calls[t]>>}
  <2>1. CASE s = t
    BY <1>1, <1>3, <1>4, <2>1, JobAdded DEF OwnAwaited
  <2>2. CASE s # t
    <3>1. JobsOf(s)' = JobsOf(s)
      BY <1>4, <2>2, JobAdded
    <3>2. Busy(s)' => Busy(s)
      BY <1>4, <2>2 DEF Busy
    <3>. QED BY <1>1, <1>2, <2>2, <3>1, <3>2 DEF OwnAwaited
  <2>. QED BY <2>1, <2>2
<1>5. CASE "queue" \in misuse /\ UNCHANGED jobs
  <2>1. JobsOf(s)' = JobsOf(s) /\ (Busy(s)' <=> Busy(s))
    BY <1>5 DEF JobsOf, Busy
  <2>. QED BY <1>1, <1>2, <1>3, <1>5, <2>1 DEF OwnAwaited
<1>. QED BY <1>1, <1>4, <1>5 DEF Leaves

\* Each thread waits for its own submission: no other can signal its fence.
LEMMA StepKeepsWaits ==
    ASSUME CallsInv, [ContextNext]_contextVars
    PROVE  WaitsForOwn'
<1>. USE ContextAssumption DEF CallsInv, CallTypes, WaitsForOwn
<1>a. CallTypes'
  BY StepKeepsTypes
<1>1. CASE UNCHANGED contextVars
  BY <1>1 DEF contextVars, deviceVars, callVars, layoutVars, bufferVars, Busy, Running
<1>2. ASSUME NEW t \in Thread, Submit(t) PROVE WaitsForOwn'
  BY <1>2, SubmissionIsOwn
<1>13. ASSUME NEW t \in Thread, EnterSubmit(t) PROVE WaitsForOwn'
  <2>1. /\ risk \subseteq risk' /\ ("timeout" \in risk' => "timeout" \in risk) /\ misuse \subseteq misuse'
        /\ Running /\ UNCHANGED <<jobs, signalled>> /\ pc[t] = "recording" /\ pc'[t] = "queueing"
        /\ \A s \in Thread \ {t} : pc'[s] = pc[s] /\ calls'[s] = calls[s]
    BY <1>13 DEF EnterSubmit, Enters, Goes
  <2>. QED BY <2>1, NotAwaiting
<1>3. ASSUME NEW t \in Thread, Return(t) PROVE WaitsForOwn'
  <2>. SUFFICES ASSUME "timeout" \notin risk, NEW s \in Thread PROVE OwnAwaited(s)'
    BY <1>3 DEF Return, OwnAwaited, JobsOf
  <2>1. OwnAwaited(s) /\ OwnAwaited(t)
    BY <1>3 DEF Return, OwnAwaited, JobsOf
  <2>2. /\ pc[t] \in {"submitted", "binding"} /\ pc'[t] = "idle" /\ t \in signalled
        /\ signalled' = signalled \ {t} /\ UNCHANGED <<jobs, calls>> /\ misuse \subseteq misuse'
        /\ \A r \in Thread \ {t} : pc'[r] = pc[r]
    BY <1>3 DEF Return, Goes, Misused
  <2>3. JobsOf(t) = {}
    BY <2>1, <2>2 DEF OwnAwaited
  <2>4. ~Busy(t)
    <3>1. \A n : <<t, n>> \in jobs => <<t, n>> \in JobsOf(t)
      BY DEF JobsOf
    <3>. QED BY <2>3, <3>1, Zenon DEF Busy
  <2>5. JobsOf(s)' = JobsOf(s) /\ (Busy(s)' <=> Busy(s))
    BY <2>2 DEF JobsOf, Busy
  <2>. QED BY <2>1, <2>2, <2>4, <2>5 DEF OwnAwaited
<1>4. ASSUME NEW t \in Thread, TimeOut(t) PROVE WaitsForOwn'
  BY <1>4, <1>a DEF TimeOut, Goes, Misused, Busy, deviceVars, callVars, layoutVars, Running
<1>5. ASSUME NEW t \in Thread, Enqueue(t) PROVE WaitsForOwn'
  BY <1>5, <1>a DEF Enqueue, Goes, Busy, deviceVars, callVars, layoutVars, Running
<1>6. ASSUME NEW t \in Thread, Record(t) PROVE WaitsForOwn'
  <2>1. /\ risk \subseteq risk' /\ ("timeout" \in risk' => "timeout" \in risk)
        /\ Running /\ UNCHANGED <<jobs, signalled, misuse>> /\ pc[t] = "idle" /\ pc'[t] = "recording"
        /\ \A s \in Thread \ {t} : pc'[s] = pc[s] /\ calls'[s] = calls[s]
    BY <1>6 DEF Record, Begins, Calls, Goes
  <2>. QED BY <2>1, NotAwaiting
<1>7. ASSUME NEW t \in Thread, CreateLayout(t) PROVE WaitsForOwn'
  BY <1>7, <1>a DEF CreateLayout, Calls, Goes, Busy, deviceVars, callVars, layoutVars, Running
<1>8. ASSUME NEW t \in Thread, EndThread(t) PROVE WaitsForOwn'
  BY <1>8, <1>a DEF EndThread, Goes, Busy, deviceVars, callVars, layoutVars, Running
<1>9. ASSUME NEW t \in Thread, NEW bytes \in 1..MaxBytes, resize(t, bytes) PROVE WaitsForOwn'
  <2>1. /\ risk \subseteq risk' /\ ("timeout" \in risk' => "timeout" \in risk) /\ misuse \subseteq misuse'
        /\ Running /\ UNCHANGED <<jobs, signalled>> /\ pc[t] = "idle" /\ pc'[t] = "bindqueue"
        /\ \A s \in Thread \ {t} : pc'[s] = pc[s] /\ calls'[s] = calls[s]
    BY <1>9 DEF resize, Enters, Begins, Calls, Goes
  <2>. QED BY <2>1, NotAwaiting
<1>10. ASSUME NEW task \in jobs, Complete(task) PROVE WaitsForOwn'
  <2>. SUFFICES ASSUME "timeout" \notin risk, NEW s \in Thread PROVE OwnAwaited(s)'
    BY <1>10 DEF Complete, OwnAwaited, JobsOf
  <2>1. OwnAwaited(s)
    BY <1>10 DEF Complete, OwnAwaited, JobsOf
  <2>2. /\ jobs' = jobs \ {task} /\ signalled' = signalled \cup {task[1]}
        /\ task[1] \in Thread /\ Busy(task[1]) /\ UNCHANGED <<pc, calls, misuse>>
    BY <1>10, JobsHaveThreads DEF Complete
  <2>3. Busy(s)' => Busy(s)
    BY <2>2 DEF Busy
  <2>4. CASE s = task[1]
    <3>1. Busy(s) /\ task \in JobsOf(s)
      BY <2>2, <2>4 DEF JobsOf
    <3>2. pc[s] \in {"submitted", "binding"}
      BY <2>1, <3>1 DEF OwnAwaited
    <3>3. JobsOf(s) = {} \/ JobsOf(s) = {<<s, calls[s]>>}
      BY <2>1, <3>2, Zenon DEF OwnAwaited
    <3>4. JobsOf(s) = {task}
      <4>. DEFINE x == <<s, calls[s]>>
      <4>. HIDE DEF x
      <4>1. JobsOf(s) = {} \/ JobsOf(s) = {x}
        BY <3>3 DEF x
      <4>. QED BY <3>1, <4>1
    <3>5. JobsOf(s)' = {}
      BY <2>2, <3>4 DEF JobsOf
    <3>. QED BY <2>2, <2>4, <3>2, <3>5 DEF OwnAwaited
  <2>5. CASE s # task[1]
    <3>1. JobsOf(s)' = JobsOf(s)
      BY <2>2, <2>5 DEF JobsOf
    <3>. QED BY <2>1, <2>2, <2>3, <2>5, <3>1 DEF OwnAwaited
  <2>. QED BY <2>4, <2>5
<1>11. CASE init
  BY <1>11, <1>a DEF init, Busy, deviceVars, callVars, layoutVars, Running
<1>12. CASE cleanup_conext
  BY <1>12, <1>a DEF cleanup_conext, Teardown, Busy, deviceVars, callVars, layoutVars, Running
<1>. QED
  BY <1>1, <1>2, <1>3, <1>4, <1>5, <1>6, <1>7, <1>8, <1>9, <1>10, <1>11, <1>12, <1>13
     DEF ContextNext, ThreadStep

\* A thread that enters the queue with its fence idle.
LEMMA EntersExplained ==
    ASSUME CallsInv, NEW t \in Thread, Running, Enters(t), risk \subseteq risk', alive,
           pc[t] \in {"idle", "recording"},
           \A s \in Thread \ {t} : Submitting(s) => "shared" \in risk'
    PROVE  UsesExplained'
<1>. USE DEF CallsInv, CallTypes
<1>1. "timeout" \notin risk => ~Busy(t) /\ t \notin signalled
  BY DEF WaitsForOwn
<1>2. fence'[t] # device => "outlived" \in risk
  BY ContextAssumption DEF Enters, ThreadsInv
<1>3. (\E s \in Thread \ {t} : pc[s] \in {"queueing", "bindqueue"}) => "shared" \in risk'
  BY DEF Submitting
<1>4. /\ "busy" \in misuse' => "busy" \in misuse \/ Busy(t) \/ t \in signalled
      /\ "fence" \in misuse' => "fence" \in misuse \/ fence'[t] # device
      /\ "layout" \in misuse' => "layout" \in misuse
      /\ "queue" \in misuse' => "queue" \in misuse \/ \E s \in Thread \ {t} : pc[s] \in {"queueing", "bindqueue"}
  BY DEF Enters
<1>. QED BY <1>1, <1>2, <1>3, <1>4 DEF UsesExplained

\* A fence that is given to a submission is idle, and so are commands that are destroyed.
LEMMA StepKeepsUses ==
    ASSUME CallsInv, [ContextNext]_contextVars
    PROVE  UsesExplained'
<1>. USE ContextAssumption DEF CallsInv, CallTypes, UsesExplained
<1>a. CallTypes'
  BY StepKeepsTypes
<1>1. CASE UNCHANGED contextVars
  BY <1>1 DEF contextVars, deviceVars, callVars, layoutVars, bufferVars, Busy, Running, WaitsForOwn, ThreadsInv
<1>2. ASSUME NEW t \in Thread, Submit(t) PROVE UsesExplained'
  BY <1>2 DEF Submit
<1>13. ASSUME NEW t \in Thread, EnterSubmit(t) PROVE UsesExplained'
  <2>1. pc[t] = "recording" /\ risk' = risk /\ Running /\ Enters(t)
    BY <1>13 DEF EnterSubmit
  <2>2. alive /\ \A s \in Thread \ {t} : Submitting(s) => "shared" \in risk
    BY <2>1 DEF ThreadsInv, Submitting
  <2>. QED BY <2>1, <2>2, EntersExplained
<1>3. ASSUME NEW t \in Thread, Return(t) PROVE UsesExplained'
  BY <1>3, <1>a DEF Return, Goes, Misused, Busy, deviceVars, callVars, layoutVars, Running, WaitsForOwn, ThreadsInv
<1>4. ASSUME NEW t \in Thread, TimeOut(t) PROVE UsesExplained'
  BY <1>4, <1>a DEF TimeOut, Goes, Misused, Busy, deviceVars, callVars, layoutVars, Running, WaitsForOwn, ThreadsInv
<1>5. ASSUME NEW t \in Thread, Enqueue(t) PROVE UsesExplained'
  BY <1>5, <1>a DEF Enqueue, Goes, Busy, deviceVars, callVars, layoutVars, Running, WaitsForOwn, ThreadsInv
<1>6. ASSUME NEW t \in Thread, Record(t) PROVE UsesExplained'
  BY <1>6, <1>a DEF Record, Begins, Calls, Goes, Busy, deviceVars, callVars, layoutVars, Running, WaitsForOwn, ThreadsInv
<1>7. ASSUME NEW t \in Thread, CreateLayout(t) PROVE UsesExplained'
  BY <1>7, <1>a DEF CreateLayout, Calls, Goes, Busy, deviceVars, callVars, layoutVars, Running, WaitsForOwn, ThreadsInv
<1>8. ASSUME NEW t \in Thread, EndThread(t) PROVE UsesExplained'
  BY <1>8, <1>a DEF EndThread, Goes, Busy, deviceVars, callVars, layoutVars, Running, WaitsForOwn, ThreadsInv
<1>9. ASSUME NEW t \in Thread, NEW bytes \in 1..MaxBytes, resize(t, bytes) PROVE UsesExplained'
  <2>1. pc[t] = "idle" /\ Running /\ Enters(t) /\ Begins(t) /\ alive
    BY <1>9 DEF resize, Calls
  <2>2. risk \subseteq risk' /\ \A s \in Thread \ {t} : Submitting(s) => "shared" \in risk'
    BY <2>1 DEF Begins
  <2>. QED BY <2>1, <2>2, EntersExplained
<1>10. ASSUME NEW task \in jobs, Complete(task) PROVE UsesExplained'
  BY <1>10, <1>a DEF Complete, Busy, deviceVars, callVars, layoutVars, Running, WaitsForOwn, ThreadsInv
<1>11. CASE init
  BY <1>11, <1>a DEF init, Busy, deviceVars, callVars, layoutVars, Running, WaitsForOwn, ThreadsInv
<1>12. CASE cleanup_conext
  <2>1. "timeout" \in risk \/ jobs = {}
    <3>1. Running /\ \A t \in Thread : pc[t] \notin {"submitted", "binding"}
      BY <1>12 DEF cleanup_conext, Teardown
    <3>2. \A t \in Thread : "timeout" \notin risk => ~Busy(t)
      BY <3>1 DEF WaitsForOwn
    <3>3. \A task \in jobs : task[1] \in Thread /\ Busy(task[1])
      BY JobsHaveThreads
    <3>. QED BY <3>2, <3>3
  <2>2. (\E l \in Queued : l[1] # device \/ l \notin existing) => "second" \in risk
    BY <1>12 DEF cleanup_conext, Teardown, LayoutsInv
  <2>3. risk \subseteq risk'
    BY <1>12 DEF cleanup_conext, Teardown
  <2>. QED BY <1>12, <2>1, <2>2, <2>3 DEF cleanup_conext, Teardown
<1>. QED
  BY <1>1, <1>2, <1>3, <1>4, <1>5, <1>6, <1>7, <1>8, <1>9, <1>10, <1>11, <1>12, <1>13
     DEF ContextNext, ThreadStep

\* The layouts in hand change with what the threads that hold them do.
LEMMA HandsUnchanged ==
    ASSUME device' = device, NEW t \in Thread, pc[t] # "layout", pc'[t] # "layout",
           \A s \in Thread \ {t} : pc'[s] = pc[s] /\ calls'[s] = calls[s]
    PROVE  InHand' = InHand
  BY DEF InHand

\* The elements of a queue that is appended to.
LEMMA Appended ==
    ASSUME queue \in Seq(MadeLayout), NEW l, queue' = Append(queue, l)
    PROVE  Queued' = Queued \cup {l}
<1>1. DOMAIN queue' = 1..Len(queue) + 1 /\ DOMAIN queue = 1..Len(queue) /\ Len(queue) \in Nat
  BY Z3
<1>2. \A i \in 1..Len(queue) : queue'[i] = queue[i]
  BY Z3
<1>3. queue'[Len(queue) + 1] = l
  BY Z3
<1>4. 1..Len(queue) + 1 = (1..Len(queue)) \cup {Len(queue) + 1}
  BY <1>1
<1>. QED BY <1>1, <1>2, <1>3, <1>4 DEF Queued

\* A step that leaves the layouts, who holds them and the context alone.
LEMMA LayoutsUntouched ==
    ASSUME CallsInv, UNCHANGED <<alive, device, layoutVars>>, InHand' = InHand, risk \subseteq risk'
    PROVE  LayoutsInv' /\ TornDown'
<1>1. Queued' = Queued
  BY DEF layoutVars, Queued
<1>. QED BY <1>1 DEF CallsInv, LayoutsInv, TornDown, layoutVars

\* Every layout that exists is queued or in a thread's hand, and the end of
\* the context finds none in a hand.
LEMMA StepKeepsLayouts ==
    ASSUME CallsInv, [ContextNext]_contextVars
    PROVE  LayoutsInv' /\ TornDown'
<1>. USE DEF CallsInv, CallTypes, Goes
<1>1. CASE UNCHANGED contextVars
  <2>1. InHand' = InHand
    BY <1>1 DEF contextVars, deviceVars, callVars, InHand
  <2>. QED BY <1>1, <2>1, LayoutsUntouched DEF contextVars, deviceVars
<1>2. ASSUME NEW t \in Thread, Submit(t) PROVE LayoutsInv' /\ TornDown'
  BY <1>2, HandsUnchanged, LayoutsUntouched DEF Submit, deviceVars
<1>13. ASSUME NEW t \in Thread, EnterSubmit(t) PROVE LayoutsInv' /\ TornDown'
  BY <1>13, HandsUnchanged, LayoutsUntouched DEF EnterSubmit, deviceVars
<1>3. ASSUME NEW t \in Thread, Return(t) PROVE LayoutsInv' /\ TornDown'
  BY <1>3, HandsUnchanged, LayoutsUntouched DEF Return, deviceVars
<1>4. ASSUME NEW t \in Thread, TimeOut(t) PROVE LayoutsInv' /\ TornDown'
  BY <1>4, HandsUnchanged, LayoutsUntouched DEF TimeOut, deviceVars
<1>5. ASSUME NEW t \in Thread, Enqueue(t) PROVE LayoutsInv' /\ TornDown'
  <2>. DEFINE l == <<device, t, calls[t]>>
  <2>1. /\ pc[t] = "layout" /\ pc'[t] = "idle" /\ UNCHANGED <<device, alive, calls, existing, risk>>
        /\ \A s \in Thread \ {t} : pc'[s] = pc[s]
        /\ queue' = Append(queue, l)
    BY <1>5 DEF Enqueue, deviceVars
  <2>2. Queued' = Queued \cup {l}
    <3>1. queue \in Seq(MadeLayout) /\ queue' = Append(queue, l)
      BY <2>1
    <3>. HIDE DEF l
    <3>. QED BY <3>1, Appended
  <2>3. InHand \subseteq InHand' \cup {l} /\ InHand' \subseteq InHand /\ l \in InHand
    BY <2>1 DEF InHand
  <2>4. alive /\ device # 0
    BY <2>1 DEF ThreadsInv
  <2>5. existing' \subseteq Queued' \cup InHand' /\ InHand' \subseteq existing'
    BY <2>1, <2>2, <2>3 DEF LayoutsInv
  <2>6. l[1] = device /\ l \in existing
    BY <2>3 DEF LayoutsInv
  <2>7. "second" \notin risk => \A k \in Queued' : k[1] = device /\ k \in existing
    <3>. HIDE DEF l
    <3>. QED BY <2>2, <2>4, <2>6 DEF LayoutsInv
  <2>. HIDE DEF l
  <2>. QED BY <2>1, <2>4, <2>5, <2>7 DEF LayoutsInv, TornDown
<1>6. ASSUME NEW t \in Thread, Record(t) PROVE LayoutsInv' /\ TornDown'
  BY <1>6, HandsUnchanged, LayoutsUntouched DEF Record, Begins, Calls, deviceVars
<1>7. ASSUME NEW t \in Thread, CreateLayout(t) PROVE LayoutsInv' /\ TornDown'
  <2>. DEFINE l == <<device, t, calls'[t]>>
  <2>1. /\ pc[t] = "idle" /\ pc'[t] = "layout" /\ UNCHANGED <<device, alive, queue, risk>>
        /\ \A s \in Thread \ {t} : pc'[s] = pc[s] /\ calls'[s] = calls[s]
        /\ existing' = existing \cup {l} /\ alive
    BY <1>7 DEF CreateLayout, Calls, deviceVars
  <2>2. InHand' = InHand \cup {l}
    BY <2>1 DEF InHand
  <2>3. Queued' = Queued
    BY <2>1 DEF Queued
  <2>. QED BY <2>1, <2>2, <2>3 DEF LayoutsInv, TornDown
<1>8. ASSUME NEW t \in Thread, EndThread(t) PROVE LayoutsInv' /\ TornDown'
  BY <1>8, HandsUnchanged, LayoutsUntouched DEF EndThread, deviceVars
<1>9. ASSUME NEW t \in Thread, NEW bytes \in 1..MaxBytes, resize(t, bytes) PROVE LayoutsInv' /\ TornDown'
  BY <1>9, HandsUnchanged, LayoutsUntouched DEF resize, Begins, Calls, deviceVars
<1>10. ASSUME NEW task \in jobs, Complete(task) PROVE LayoutsInv' /\ TornDown'
  <2>1. InHand' = InHand
    BY <1>10 DEF Complete, deviceVars, InHand
  <2>. QED BY <1>10, <2>1, LayoutsUntouched DEF Complete, deviceVars
<1>11. CASE init
  <2>1. InHand = {} /\ InHand' = {} /\ Queued' = Queued
    BY <1>11 DEF init, ThreadsInv, InHand, Queued, callVars, layoutVars
  <2>2. device' # 0 /\ alive' /\ existing' = existing /\ queue' = queue
    BY <1>11 DEF init, layoutVars
  <2>3. device = 0 => Queued = {}
    BY DEF LayoutsInv, Queued
  <2>4. device # 0 => "second" \in risk'
    BY <1>11 DEF init
  <2>. QED BY <2>1, <2>2, <2>3, <2>4 DEF LayoutsInv, TornDown
<1>12. CASE cleanup_conext
  <2>1. /\ InHand = {} /\ InHand' = {} /\ Queued' = Queued
        /\ ~alive' /\ device' = device /\ queue' = queue /\ existing' = existing \ Queued
    BY <1>12 DEF cleanup_conext, Teardown, InHand, Queued, callVars
  <2>2. existing' = {}
    BY <2>1 DEF LayoutsInv
  <2>. QED BY <2>1, <2>2 DEF LayoutsInv, TornDown
<1>. QED
  BY <1>1, <1>2, <1>3, <1>4, <1>5, <1>6, <1>7, <1>8, <1>9, <1>10, <1>11, <1>12, <1>13
     DEF ContextNext, ThreadStep

\* Fences, commands and layouts are used by Vulkan's rules up to the stated
\* exceptions, every thread waits for its own submission, and a context takes
\* all layouts with it, for any number of threads, calls and contexts.
THEOREM ContextSafe == ContextSpec => []ContextInv
<1>1. ContextInit => BufferInv /\ CallsInv
  <2>. SUFFICES ASSUME ContextInit PROVE BufferInv /\ CallsInv
    OBVIOUS
  <2>. USE DEF ContextInit
  <2>1. BufferInv
    <3>1. 0 % BlockSize = 0 /\ \A b \in Offset : ~(b * BlockSize < 0)
      BY ContextAssumption, Multiples, OffsetsFit
    <3>. QED BY <3>1, ContextAssumption, RoundUpReaches DEF BufferInv, BlocksBound
  <2>2. CallTypes
    <3>1. queue = <<>> /\ <<>> \in Seq(MadeLayout)
      OBVIOUS
    <3>2. existing = {} /\ jobs = {} /\ signalled = {} /\ misuse = {} /\ risk = {}
      OBVIOUS
    <3>3. /\ pc \in [Thread -> {"idle", "recording", "queueing", "submitted", "bindqueue", "binding",
                      "layout", "ended", "aborted"}]
          /\ calls \in [Thread -> 0..MaxCalls] /\ fence \in [Thread -> 0..MaxDevices]
      BY ContextAssumption
    <3>4. checked \in BOOLEAN /\ alive \in BOOLEAN
      BY Zenon
    <3>5. device \in 0..MaxDevices
      BY ContextAssumption
    <3>. HIDE DEF ContextInit
    <3>. QED BY <3>1, <3>2, <3>3, <3>4, <3>5, ContextAssumption DEF CallTypes
  <2>3. UsesExplained /\ TornDown /\ ThreadsInv
    BY DEF UsesExplained, TornDown, ThreadsInv, Submitting
  <2>4. WaitsForOwn
    BY DEF WaitsForOwn, Busy
  <2>5. LayoutsInv
    BY DEF LayoutsInv, InHand, Queued
  <2>. QED BY <2>1, <2>2, <2>3, <2>4, <2>5 DEF CallsInv
<1>2. BufferInv /\ CallsInv /\ [ContextNext]_contextVars => BufferInv' /\ CallsInv'
  BY NextKeepsBuffer, StepKeepsTypes, StepKeepsThreads, StepKeepsWaits, StepKeepsUses, StepKeepsLayouts
     DEF CallsInv
<1>3. BufferInv /\ CallsInv => ContextInv
  BY DEF BufferInv, CallsInv, CallTypes, ContextInv, ContextTypeOK
<1>. QED BY <1>1, <1>2, <1>3, PTL DEF ContextSpec

=============================================================================
