--------------------------- MODULE RefCountProofs ---------------------------
(***************************************************************************)
(* Proofs about RefCount, for any threads, resources, handles and members. *)
(***************************************************************************)
EXTENDS RefCount, FiniteSetTheorems, TLAPS

\* The handles of a resource can be counted.
LEMMA HandlesFinite ==
    ASSUME TypeOK, NEW r \in Res
    PROVE  /\ IsFiniteSet(Handles(r))
           /\ Cardinality(Handles(r)) \in Nat
  <1>1. Handles(r) \subseteq Slot
    BY DEF Handles
  <1>2. IsFiniteSet(Handles(r))
    BY <1>1, SlotAssumption, FS_Subset
  <1>3. QED
    BY <1>2, FS_CardinalityType

\* A resource some handle points at is counted, its counter is positive and
\* nobody is about to delete it.
LEMMA HeldIsCounted ==
    ASSUME IInv, NEW s \in Slot, ptr[s] # Null
    PROVE  /\ ptr[s] \in Res
           /\ own[ptr[s]] = "counted"
           /\ count[ptr[s]] \in Nat \ {0}
           /\ \A u \in Thread : ptr[s] \notin victims[u]
  <1>1. ptr[s] \in Res /\ own[ptr[s]] = "counted" /\ s \in Handles(ptr[s])
    BY DEF IInv, TypeOK, HandlesCounted, Handles
  <1>2. count[ptr[s]] = Cardinality(Handles(ptr[s]))
    BY <1>1 DEF IInv, CountIsHandles
  <1>3. count[ptr[s]] \in Nat \ {0}
    BY <1>1, <1>2, HandlesFinite, FS_EmptySet DEF IInv
  <1>4. QED
    BY <1>1, <1>3 DEF IInv, VictimsUnheld

\* A call that writes a member works on a resource still being built.
LEMMA WrittenMember ==
    ASSUME IInv, NEW u \in Thread, dst[u] # Null, Home[dst[u]] # Null
    PROVE  /\ dst[u] \in Slot /\ Home[dst[u]] \in Res
           /\ own[Home[dst[u]]] = "owned" /\ ~Passed(Home[dst[u]])
  BY HomeAssumption DEF IInv, TypeOK, SlotHomes

\* A handle a member is read through keeps its resource counted, unless the
\* call writes that very handle.
LEMMA SourceHeld ==
    ASSUME IInv, NEW u \in Thread, src[u] # Null, Home[src[u]] # Null
    PROVE  /\ src[u] \in Slot /\ via[u] \in Slot /\ Home[src[u]] \in Res
           /\ ~Replaced(u) => own[Home[src[u]]] = "counted"
  <1>1. /\ src[u] \in Slot /\ via[u] \in Slot /\ Home[src[u]] \in Res
        /\ via[u] # dst[u] => ptr[via[u]] = Home[src[u]]
    BY HomeAssumption DEF IInv, TypeOK, SlotHomes, SourceHome
  <1>2. via[u] # dst[u] => own[Home[src[u]]] = "counted"
    BY <1>1, HeldIsCounted, NullAssumption
  <1>3. QED
    BY <1>1, <1>2, NullAssumption DEF Replaced, IInv, SlotHomes, SourceHome

\* What a pending increment counts is still counted, unless the source went
\* with the resource it was a member of.
LEMMA PendingIsCounted ==
    ASSUME IInv, NEW u \in Thread, pc[u] = "increment", ~Gone(src[u])
    PROVE  /\ obj[u] \in Res /\ own[obj[u]] = "counted" /\ count[obj[u]] # 0
           /\ \A w \in Thread : obj[u] \notin victims[w]
  <1>1. src[u] \in Slot /\ ptr[src[u]] # Null /\ obj[u] = ptr[src[u]]
    BY DEF IInv, TypeOK, CallState
  <1>2. QED
    BY <1>1, HeldIsCounted

\* A resource that is not counted has no handle.
LEMMA UncountedUnheld ==
    ASSUME IInv, NEW r \in Res, own[r] # "counted"
    PROVE  Handles(r) = {}
  BY NullAssumption DEF IInv, HandlesCounted, Handles

\* One handle more, one handle less.
LEMMA HandleAdded ==
    ASSUME IInv, NEW r \in Res, NEW d \in Slot, ptr[d] = Null
    PROVE  Cardinality(Handles(r) \cup {d}) = Cardinality(Handles(r)) + 1
  <1>1. d \notin Handles(r)
    BY NullAssumption DEF Handles
  <1>2. QED
    BY <1>1, HandlesFinite, FS_AddElement DEF IInv

\* A handle of r given up is counted out.
LEMMA HandleRemoved ==
    ASSUME IInv, NEW r \in Res, NEW s \in Handles(r)
    PROVE  Cardinality(Handles(r) \ {s}) = Cardinality(Handles(r)) - 1
  BY HandlesFinite, FS_RemoveElement DEF IInv

\* The invariant holds before the first call.
LEMMA InitIInv == Init => IInv
  <1> SUFFICES ASSUME Init PROVE IInv
    OBVIOUS
  <1> USE NullAssumption, HomeAssumption DEF Init
  <1>1. TypeOK
    BY DEF TypeOK, Life, Releasing
  <1>2. SlotsExclusive
    BY DEF SlotsExclusive, Writes, Reads, Gone
  <1>3. SlotHomes
    BY DEF SlotHomes, SourceHome
  <1>4. CallState
    BY DEF CallState, Gone, SourceHome, SlotHomes, Released
  <1>5. PassedOnce
    BY DEF PassedOnce
  <1>6. HandlesCounted /\ VictimsUnheld /\ CountIsHandles
    BY DEF HandlesCounted, VictimsUnheld, CountIsHandles
  <1>7. QED
    BY <1>1, <1>2, <1>3, <1>4, <1>5, <1>6 DEF IInv

\* Construct.
LEMMA ConstructStep ==
    ASSUME IInv, NEW t \in Thread, NEW r \in Res, Construct(t, r)
    PROVE  IInv'
  <1> USE NullAssumption, HomeAssumption DEF IInv, Construct, registers, Life, Releasing
  <1>1. TypeOK'
    BY DEF TypeOK
  <1>2. SlotsExclusive'
    BY DEF SlotsExclusive, Writes, Reads, Gone
  <1>3. SlotHomes'
    BY DEF SlotHomes, SourceHome, Passed, TypeOK
  <1>4. CallState'
    BY DEF CallState, Gone, SourceHome, SlotHomes, Released, TypeOK
  <1>5. PassedOnce'
    BY DEF PassedOnce
  <1>6. HandlesCounted' /\ VictimsUnheld'
    BY DEF HandlesCounted, VictimsUnheld, TypeOK
  <1>7. CountIsHandles'
    BY DEF CountIsHandles, Handles, TypeOK
  <1>8. QED
    BY <1>1, <1>2, <1>3, <1>4, <1>5, <1>6, <1>7

\* DestroyOwned: a resource still under its unique_ptr has no handle, so only
\* its members are left to release.
LEMMA DestroyOwnedStep ==
    ASSUME IInv, NEW t \in Thread, NEW r \in Res, DestroyOwned(t, r)
    PROVE  IInv'
  <1> USE NullAssumption, HomeAssumption DEF IInv, DestroyOwned, Call, Life, Releasing
  <1>1. TypeOK'
    BY DEF TypeOK, Members
  <1>2. SlotsExclusive'
    BY DEF SlotsExclusive, Writes, Reads, Gone, Free, InUse, Members, TypeOK
  <1>3. SlotHomes'
    BY DEF SlotHomes, SourceHome, Passed, TypeOK, Free, InUse, Members, Writes, Reads
  <1>4. CallState'
    BY DEF CallState, Gone, SourceHome, SlotHomes, Released, TypeOK, Free, Passed
  <1>5. PassedOnce'
    BY DEF PassedOnce, TypeOK
  <1>6. HandlesCounted' /\ VictimsUnheld'
    BY DEF HandlesCounted, VictimsUnheld, TypeOK, Free
  <1>7. CountIsHandles'
    BY DEF CountIsHandles, Handles, TypeOK
  <1>8. QED
    BY <1>1, <1>2, <1>3, <1>4, <1>5, <1>6, <1>7

\* CopyConstruct: the source keeps the resource alive until the increment.
LEMMA CopyConstructStep ==
    ASSUME IInv, NEW t \in Thread, NEW d \in Slot, NEW s \in Slot,
           NEW v \in Slot \cup {Null}, CopyConstruct(t, d, s, v)
    PROVE  IInv'
  <1> USE NullAssumption, HomeAssumption DEF IInv, CopyConstruct, registers, memory, Life, Releasing, Call
  <1>1. TypeOK'
    BY DEF TypeOK
  <1>2. SlotsExclusive'
    BY DEF SlotsExclusive, Writes, Reads, Gone, InUse, MayRead, MayWrite, TypeOK
  <1>3. SlotHomes'
    <2>1. \A q \in Res : Passed(q)' => Passed(q)
      BY DEF Passed, TypeOK, CallState
    <2>2. (\A u \in Thread : SourceHome(u))'
      <3>1. Home[s] # Null => own[Home[s]] = "counted"
        BY HeldIsCounted DEF MayRead
      <3>2. SourceHome(t)'
        BY <3>1 DEF SourceHome, MayRead, TypeOK
      <3>3. ASSUME NEW u \in Thread, u # t
            PROVE  SourceHome(u)'
        BY <3>3 DEF SlotHomes, SourceHome, TypeOK
      <3>4. QED
        BY <3>2, <3>3
    <2>3. (\A u \in Thread : dst[u] # Null /\ Home[dst[u]] # Null =>
              own[Home[dst[u]]] = "owned" /\ ~Passed(Home[dst[u]]))'
      BY <2>1 DEF SlotHomes, SourceHome, TypeOK, MayWrite, InUse, Members, Writes, Reads
    <2>4. (\A u \in Thread : \A x \in drain[u] :
              x # dst[u] => Home[x] # Null /\ own[Home[x]] = "deleted")'
      BY DEF SlotHomes, SourceHome, TypeOK, CallState, Released
    <2>5. QED
      BY <2>2, <2>3, <2>4 DEF SlotHomes, SourceHome
  <1>4. CallState'
    BY DEF CallState, Gone, SourceHome, SlotHomes, Released, TypeOK, Passed, Writes, Reads, SlotsExclusive, InUse, MayRead, MayWrite
  <1>5. PassedOnce'
    BY DEF PassedOnce, TypeOK, Passed
  <1>6. HandlesCounted' /\ VictimsUnheld'
    BY DEF HandlesCounted, VictimsUnheld, TypeOK
  <1>7. CountIsHandles'
    BY DEF CountIsHandles, Handles, TypeOK
  <1>8. QED
    BY <1>1, <1>2, <1>3, <1>4, <1>5, <1>6, <1>7

\* MoveConstruct: one handle leaves as the other comes, the count stands.
LEMMA MoveConstructStep ==
    ASSUME IInv, NEW t \in Thread, NEW d \in Slot, NEW s \in Slot, MoveConstruct(t, d, s)
    PROVE  IInv'
  <1> USE NullAssumption, HomeAssumption DEF IInv, MoveConstruct, registers, memory, Life, Releasing
  <1>1. TypeOK'
    BY DEF TypeOK
  <1>2. SlotsExclusive'
    BY DEF SlotsExclusive, Writes, Reads, Gone, InUse, MayRead, MayWrite, TypeOK
  <1>3. SlotHomes'
    BY DEF SlotHomes, SourceHome, Passed, TypeOK, InUse, MayRead, MayWrite, Writes, Reads
  <1>4. CallState'
    BY DEF CallState, Gone, SourceHome, SlotHomes, Released, TypeOK, Passed, Writes, Reads, SlotsExclusive, InUse, MayRead, MayWrite
  <1>5. PassedOnce'
    BY DEF PassedOnce, TypeOK, Passed
  <1>6. HandlesCounted' /\ VictimsUnheld'
    BY DEF HandlesCounted, VictimsUnheld, TypeOK
  <1>7. CountIsHandles'
    <2> SUFFICES ASSUME NEW q \in Res, own[q] = "counted"
                 PROVE  count[q] = Cardinality(Handles(q)')
      BY DEF CountIsHandles
    <2>1. CASE ptr[s] = q
      <3>1. Handles(q)' = (Handles(q) \ {s}) \cup {d}
        BY <2>1 DEF Handles, TypeOK
      <3>2. IsFiniteSet(Handles(q) \ {s}) /\ d \notin Handles(q)
        BY HandlesFinite, FS_RemoveElement DEF Handles
      <3>3. s \in Handles(q)
        BY <2>1 DEF Handles
      <3>4. Cardinality((Handles(q) \ {s}) \cup {d}) = Cardinality(Handles(q) \ {s}) + 1
        BY <3>2, FS_AddElement
      <3>5. Cardinality(Handles(q) \ {s}) = Cardinality(Handles(q)) - 1
        BY <3>3, HandleRemoved
      <3>6. QED
        BY <3>1, <3>4, <3>5, HandlesFinite DEF CountIsHandles
    <2>2. CASE ptr[s] # q
      <3>1. Handles(q)' = Handles(q)
        BY <2>2 DEF Handles, TypeOK
      <3>2. QED
        BY <3>1 DEF CountIsHandles
    <2>3. QED
      BY <2>1, <2>2
  <1>8. QED
    BY <1>1, <1>2, <1>3, <1>4, <1>5, <1>6, <1>7

\* Destroy: the slot is taken to be released by this thread alone.
LEMMA DestroyStep ==
    ASSUME IInv, NEW t \in Thread, NEW d \in Slot, Destroy(t, d)
    PROVE  IInv'
  <1> USE NullAssumption, HomeAssumption DEF IInv, Destroy, registers, memory, Life, Releasing, Call
  <1>1. TypeOK'
    BY DEF TypeOK
  <1>2. SlotsExclusive'
    BY DEF SlotsExclusive, Writes, Reads, Gone, InUse, MayRead, MayWrite, TypeOK
  <1>3. SlotHomes'
    BY DEF SlotHomes, SourceHome, Passed, TypeOK, InUse, MayRead, MayWrite, Writes, Reads
  <1>4. CallState'
    BY DEF CallState, Gone, SourceHome, SlotHomes, Released, TypeOK, Passed, Writes, Reads, SlotsExclusive, InUse, MayRead, MayWrite
  <1>5. PassedOnce'
    BY DEF PassedOnce, TypeOK, Passed
  <1>6. HandlesCounted' /\ VictimsUnheld'
    BY DEF HandlesCounted, VictimsUnheld, TypeOK
  <1>7. CountIsHandles'
    BY DEF CountIsHandles, Handles, TypeOK
  <1>8. QED
    BY <1>1, <1>2, <1>3, <1>4, <1>5, <1>6, <1>7

\* CopyAssign: the slot is taken to be released, its source stays readable.
LEMMA CopyAssignStep ==
    ASSUME IInv, NEW t \in Thread, NEW d \in Slot, NEW s \in Slot,
           NEW v \in Slot \cup {Null}, CopyAssign(t, d, s, v)
    PROVE  IInv'
  <1> USE NullAssumption, HomeAssumption DEF IInv, CopyAssign, registers, memory, Life, Releasing, Call
  <1>1. TypeOK'
    BY DEF TypeOK
  <1>2. SlotsExclusive'
    BY DEF SlotsExclusive, Writes, Reads, Gone, InUse, MayRead, MayWrite, TypeOK
  <1>3. SlotHomes'
    <2>1. \A q \in Res : Passed(q)' => Passed(q)
      BY DEF Passed, TypeOK, CallState
    <2>2. (\A u \in Thread : SourceHome(u))'
      <3>1. Home[s] # Null => own[Home[s]] = "counted"
        BY HeldIsCounted DEF MayRead
      <3>2. SourceHome(t)'
        BY <3>1 DEF SourceHome, MayRead, TypeOK
      <3>3. ASSUME NEW u \in Thread, u # t
            PROVE  SourceHome(u)'
        BY <3>3 DEF SlotHomes, SourceHome, TypeOK
      <3>4. QED
        BY <3>2, <3>3
    <2>3. (\A u \in Thread : dst[u] # Null /\ Home[dst[u]] # Null =>
              own[Home[dst[u]]] = "owned" /\ ~Passed(Home[dst[u]]))'
      BY <2>1 DEF SlotHomes, SourceHome, TypeOK, MayWrite, InUse, Members, Writes, Reads
    <2>4. (\A u \in Thread : \A x \in drain[u] :
              x # dst[u] => Home[x] # Null /\ own[Home[x]] = "deleted")'
      BY DEF SlotHomes, SourceHome, TypeOK, CallState, Released
    <2>5. QED
      BY <2>2, <2>3, <2>4 DEF SlotHomes, SourceHome
  <1>4. CallState'
    BY DEF CallState, Gone, SourceHome, SlotHomes, Released, TypeOK, Passed, Writes, Reads, SlotsExclusive, InUse, MayRead, MayWrite
  <1>5. PassedOnce'
    BY DEF PassedOnce, TypeOK, Passed
  <1>6. HandlesCounted' /\ VictimsUnheld'
    BY DEF HandlesCounted, VictimsUnheld, TypeOK
  <1>7. CountIsHandles'
    BY DEF CountIsHandles, Handles, TypeOK
  <1>8. QED
    BY <1>1, <1>2, <1>3, <1>4, <1>5, <1>6, <1>7

\* UniqueConstruct: a resource without handles gets its first, and the count 1.
LEMMA UniqueConstructStep ==
    ASSUME IInv, NEW t \in Thread, NEW d \in Slot, NEW r \in Res, UniqueConstruct(t, d, r)
    PROVE  IInv'
  <1> USE NullAssumption, HomeAssumption DEF IInv, UniqueConstruct, registers, memory, Life, Releasing, Reset, Free
  <1>1. TypeOK'
    BY DEF TypeOK
  <1>2. SlotsExclusive'
    BY DEF SlotsExclusive, Writes, Reads, Gone, InUse, MayRead, MayWrite, TypeOK
  <1>3. SlotHomes'
    <2>1. \A q \in Res : Passed(q)' => Passed(q)
      BY DEF Passed, TypeOK, CallState
    <2>2. (\A u \in Thread : SourceHome(u))'
      BY DEF SlotHomes, SourceHome, TypeOK, MayRead
    <2>3. (\A u \in Thread : dst[u] # Null /\ Home[dst[u]] # Null =>
              own[Home[dst[u]]] = "owned" /\ ~Passed(Home[dst[u]]))'
      <3> SUFFICES ASSUME NEW u \in Thread, dst'[u] # Null, Home[dst'[u]] # Null
                   PROVE  own'[Home[dst'[u]]] = "owned" /\ ~(Passed(Home[dst[u]])')
        OBVIOUS
      <3>1. dst'[u] = dst[u]
        BY DEF TypeOK
      <3>2. /\ dst[u] \in Slot /\ Home[dst[u]] \in Res
            /\ own[Home[dst[u]]] = "owned" /\ ~Passed(Home[dst[u]])
        BY <3>1, WrittenMember
      <3>3. Home[dst[u]] # r
        BY <3>2 DEF InUse, Members, Writes
      <3>5. QED
        BY <2>1, <3>1, <3>2, <3>3 DEF TypeOK
    <2>4. (\A u \in Thread : \A x \in drain[u] :
              x # dst[u] => Home[x] # Null /\ own[Home[x]] = "deleted")'
      BY DEF SlotHomes, SourceHome, TypeOK, CallState, Released
    <2>5. QED
      BY <2>2, <2>3, <2>4 DEF SlotHomes, SourceHome
  <1>4. CallState'
    BY DEF CallState, Gone, SourceHome, SlotHomes, Released, TypeOK, Passed, Writes, Reads, SlotsExclusive, InUse, MayRead, MayWrite
  <1>5. PassedOnce'
    BY DEF PassedOnce, TypeOK, Passed
  <1>6. HandlesCounted' /\ VictimsUnheld'
    BY DEF HandlesCounted, VictimsUnheld, TypeOK
  <1>7. CountIsHandles'
    <2> SUFFICES ASSUME NEW q \in Res, own'[q] = "counted"
                 PROVE  count'[q] = Cardinality(Handles(q)')
      BY DEF CountIsHandles
    <2>1. CASE q = r
      <3>1. Handles(r) = {}
        BY UncountedUnheld
      <3>2. Handles(r)' = {d}
        BY <3>1 DEF Handles, TypeOK
      <3>3. QED
        BY <2>1, <3>2, FS_Singleton DEF TypeOK
    <2>2. CASE q # r
      <3>1. Handles(q)' = Handles(q)
        BY <2>2 DEF Handles, TypeOK
      <3>2. QED
        BY <2>2, <3>1 DEF CountIsHandles, TypeOK
    <2>3. QED
      BY <2>1, <2>2
  <1>8. QED
    BY <1>1, <1>2, <1>3, <1>4, <1>5, <1>6, <1>7

\* UniqueAssign: the unique_ptr is moved into this call and no other.
LEMMA UniqueAssignStep ==
    ASSUME IInv, NEW t \in Thread, NEW d \in Slot, NEW r \in Res, UniqueAssign(t, d, r)
    PROVE  IInv'
  <1> USE NullAssumption, HomeAssumption DEF IInv, UniqueAssign, registers, memory, Life, Releasing, Call, Free
  <1>1. TypeOK'
    BY DEF TypeOK
  <1>2. SlotsExclusive'
    BY DEF SlotsExclusive, Writes, Reads, Gone, InUse, MayRead, MayWrite, TypeOK
  <1>3. SlotHomes'
    <2>1. \A q \in Res : Passed(q)' => Passed(q) \/ q = r
      BY DEF Passed, TypeOK, CallState
    <2>2. (\A u \in Thread : SourceHome(u))'
      BY DEF SlotHomes, SourceHome, TypeOK, MayRead
    <2>3. (\A u \in Thread : dst[u] # Null /\ Home[dst[u]] # Null =>
              own[Home[dst[u]]] = "owned" /\ ~Passed(Home[dst[u]]))'
      BY <2>1 DEF SlotHomes, SourceHome, TypeOK, MayWrite, InUse, Members, Writes, Reads
    <2>4. (\A u \in Thread : \A x \in drain[u] :
              x # dst[u] => Home[x] # Null /\ own[Home[x]] = "deleted")'
      BY DEF SlotHomes, SourceHome, TypeOK, CallState, Released
    <2>5. QED
      BY <2>2, <2>3, <2>4 DEF SlotHomes, SourceHome
  <1>4. CallState'
    BY DEF CallState, Gone, SourceHome, SlotHomes, Released, TypeOK, Passed, Writes, Reads, SlotsExclusive, InUse, MayRead, MayWrite
  <1>5. PassedOnce'
    BY DEF PassedOnce, TypeOK, Passed
  <1>6. HandlesCounted' /\ VictimsUnheld'
    BY DEF HandlesCounted, VictimsUnheld, TypeOK
  <1>7. CountIsHandles'
    BY DEF CountIsHandles, Handles, TypeOK
  <1>8. QED
    BY <1>1, <1>2, <1>3, <1>4, <1>5, <1>6, <1>7

\* Release: the handle is counted out, and the thread that counts out the last
\* one is the only one to claim the deletion.
LEMMA ReleaseStep ==
    ASSUME IInv, NEW t \in Thread, NEW s \in Slot, Release(t, s)
    PROVE  IInv'
  <1> USE NullAssumption, HomeAssumption DEF IInv, Release, registers, memory, Life, Releasing
  <1>a. ptr[s] # Null => ptr[s] \in Res /\ count[ptr[s]] \in Nat \ {0}
    BY HeldIsCounted
  <1>1. TypeOK'
    BY <1>a DEF TypeOK
  <1>2. SlotsExclusive'
    BY DEF SlotsExclusive, Writes, Reads, Gone, InUse, MayRead, MayWrite, TypeOK
  <1>3. SlotHomes'
    <2>1. \A q \in Res : Passed(q)' => Passed(q)
      BY DEF Passed, TypeOK
    <2>2. (\A u \in Thread : SourceHome(u))'
      <3> SUFFICES ASSUME NEW u \in Thread
                   PROVE  SourceHome(u)'
        OBVIOUS
      <3>1. via[u] # Null /\ via[u] # dst[u] => via[u] # s
        BY DEF SlotHomes, SourceHome, SlotsExclusive, Writes, TypeOK
      <3>2. QED
        BY <3>1 DEF SlotHomes, SourceHome, TypeOK
    <2>3. (\A u \in Thread : dst[u] # Null /\ Home[dst[u]] # Null =>
              own[Home[dst[u]]] = "owned" /\ ~Passed(Home[dst[u]]))'
      BY <2>1, WrittenMember DEF TypeOK
    <2>4. (\A u \in Thread : \A x \in drain[u] :
              x # dst[u] => Home[x] # Null /\ own[Home[x]] = "deleted")'
      BY DEF SlotHomes, TypeOK
    <2>5. QED
      BY <2>2, <2>3, <2>4 DEF SlotHomes
  <1>4. CallState'
    BY DEF CallState, Gone, SourceHome, SlotHomes, Released, TypeOK, Passed, Writes, Reads, SlotsExclusive, InUse, MayRead, MayWrite
  <1>5. PassedOnce'
    BY DEF PassedOnce, TypeOK, Passed
  <1>6. HandlesCounted' /\ VictimsUnheld'
    <2>1. HandlesCounted'
      BY DEF HandlesCounted, TypeOK
    <2>2. CASE ptr[s] = Null
      BY <2>1, <2>2 DEF VictimsUnheld
    <2>3. CASE ptr[s] # Null
      <3>1. /\ own[ptr[s]] = "counted" /\ count[ptr[s]] \in Nat \ {0}
            /\ \A u \in Thread : ptr[s] \notin victims[u]
        BY <2>3, HeldIsCounted
      <3>2. (\A u \in Thread : \A r \in victims[u] : own[r] = "counted" /\ count[r] = 0)'
        BY <2>3, <3>1 DEF VictimsUnheld, TypeOK
      <3>3. (\A u, v \in Thread : u # v => victims[u] \cap victims[v] = {})'
        BY <2>3, <3>1 DEF VictimsUnheld, TypeOK
      <3>4. QED
        BY <2>1, <3>2, <3>3 DEF VictimsUnheld
    <2>4. QED
      BY <2>1, <2>2, <2>3
  <1>7. CountIsHandles'
    <2> SUFFICES ASSUME NEW q \in Res, own[q] = "counted"
                 PROVE  count'[q] = Cardinality(Handles(q)')
      BY DEF CountIsHandles
    <2>1. CASE ptr[s] = q
      <3>1. Handles(q)' = Handles(q) \ {s} /\ s \in Handles(q)
        BY <2>1 DEF Handles, TypeOK
      <3>2. count'[q] = count[q] - 1
        BY <2>1, NullAssumption DEF TypeOK
      <3>3. QED
        BY <3>1, <3>2, HandleRemoved DEF CountIsHandles
    <2>2. CASE ptr[s] # q
      <3>1. Handles(q)' = Handles(q)
        BY <2>2 DEF Handles, TypeOK
      <3>2. QED
        BY <2>2, <3>1 DEF CountIsHandles, TypeOK
    <2>3. QED
      BY <2>1, <2>2
  <1>8. QED
    BY <1>1, <1>2, <1>3, <1>4, <1>5, <1>6, <1>7

\* Delete: nobody holds or claims the resource any more, and its members are
\* this thread's to release.
LEMMA DeleteStep ==
    ASSUME IInv, NEW t \in Thread, NEW r \in Res, Delete(t, r)
    PROVE  IInv'
  <1> USE NullAssumption, HomeAssumption DEF IInv, Delete, registers, memory, Life, Releasing
  <1>a. own[r] = "counted" /\ count[r] = 0
    BY DEF VictimsUnheld
  <1>b. Members(r) \subseteq Slot /\ \A s \in Members(r) : Home[s] = r /\ Home[s] # Null
    BY DEF Members
  <1>c. \A s \in Members(r), u \in Thread : s \notin Writes(u) /\ s # via[u]
    <2> SUFFICES ASSUME NEW s \in Members(r), NEW u \in Thread, s \in Writes(u) \/ s = via[u]
                 PROVE  FALSE
      OBVIOUS
    <2>1. CASE s = via[u]
      BY <2>1, <1>b DEF SlotHomes, SourceHome
    <2>2. CASE s = dst[u]
      BY <2>2, <1>a, <1>b, WrittenMember
    <2>3. CASE s # dst[u] /\ s \in drain[u]
      BY <2>3, <1>a, <1>b DEF SlotHomes
    <2>4. QED
      BY <2>1, <2>2, <2>3 DEF Writes
  <1>1. TypeOK'
    BY <1>b DEF TypeOK
  <1>2. SlotsExclusive'
    <2> SUFFICES ASSUME NEW u \in Thread, NEW v \in Thread, NEW s \in Slot,
                        u # v, s \in Writes(u)'
                 PROVE  s \notin Writes(v)' /\ s # via'[v] /\ (s = src'[v] => Gone(s)')
      BY DEF SlotsExclusive
    <2>1. CASE s \in Members(r)
      <3>1. u = t
        BY <1>c, <2>1 DEF Writes, TypeOK
      <3>2. s \notin Writes(v)' /\ s # via'[v]
        BY <1>c, <2>1, <3>1 DEF Writes, TypeOK
      <3>3. Gone(s)'
        BY <1>b, <2>1 DEF Gone, TypeOK
      <3>4. QED
        BY <3>2, <3>3
    <2>2. CASE s \notin Members(r)
      <3>1. s \in Writes(u) /\ (s \in Writes(v)' => s \in Writes(v))
        BY <2>2 DEF Writes, TypeOK
      <3>2. Gone(s) => Gone(s)'
        BY DEF Gone, TypeOK
      <3>3. QED
        BY <3>1, <3>2 DEF SlotsExclusive
    <2>3. QED
      BY <2>1, <2>2
  <1>3. SlotHomes'
    <2>1. \A q \in Res : Passed(q)' => Passed(q)
      BY DEF Passed, TypeOK, CallState
    <2>2. (\A u \in Thread : SourceHome(u))'
      BY DEF SlotHomes, SourceHome, TypeOK, MayRead, Members
    <2>3. (\A u \in Thread : dst[u] # Null /\ Home[dst[u]] # Null =>
              own[Home[dst[u]]] = "owned" /\ ~Passed(Home[dst[u]]))'
      <3> SUFFICES ASSUME NEW u \in Thread, dst'[u] # Null, Home[dst'[u]] # Null
                   PROVE  own'[Home[dst'[u]]] = "owned" /\ ~(Passed(Home[dst[u]])')
        OBVIOUS
      <3>1. dst'[u] = dst[u]
        BY DEF TypeOK
      <3>2. /\ dst[u] \in Slot /\ Home[dst[u]] \in Res
            /\ own[Home[dst[u]]] = "owned" /\ ~Passed(Home[dst[u]])
        BY <3>1, WrittenMember
      <3>3. Home[dst[u]] # r
        BY <3>2 DEF VictimsUnheld
      <3>5. QED
        BY <2>1, <3>1, <3>2, <3>3 DEF TypeOK
    <2>4. (\A u \in Thread : \A x \in drain[u] :
              x # dst[u] => Home[x] # Null /\ own[Home[x]] = "deleted")'
      BY DEF SlotHomes, SourceHome, TypeOK, CallState, Released, Members
    <2>5. QED
      BY <2>2, <2>3, <2>4 DEF SlotHomes, SourceHome
  <1>4. CallState'
    BY <1>a DEF CallState, Gone, SourceHome, SlotHomes, Released, TypeOK
  <1>5. PassedOnce'
    BY DEF PassedOnce, TypeOK, Passed
  <1>6. HandlesCounted' /\ VictimsUnheld'
    <2>1. Handles(r) = {}
      <3>1. Cardinality(Handles(r)) = 0
        BY <1>a DEF CountIsHandles
      <3>2. QED
        BY <3>1, HandlesFinite, FS_EmptySet
    <2>2. HandlesCounted'
      BY <2>1 DEF HandlesCounted, Handles, TypeOK
    <2>3. VictimsUnheld'
      BY DEF VictimsUnheld, TypeOK
    <2>4. QED
      BY <2>2, <2>3
  <1>7. CountIsHandles'
    BY DEF CountIsHandles, Handles, TypeOK
  <1>8. QED
    BY <1>1, <1>2, <1>3, <1>4, <1>5, <1>6, <1>7

\* FinishDestroy: the slot is empty and given back.
LEMMA FinishDestroyStep ==
    ASSUME IInv, NEW t \in Thread, FinishDestroy(t)
    PROVE  IInv'
  <1> USE NullAssumption, HomeAssumption DEF IInv, FinishDestroy, registers, memory, Life, Releasing, Return
  <1>1. TypeOK'
    BY DEF TypeOK
  <1>2. SlotsExclusive'
    BY DEF SlotsExclusive, Writes, Reads, Gone, InUse, MayRead, MayWrite, TypeOK
  <1>3. SlotHomes'
    <2>1. \A q \in Res : Passed(q)' => Passed(q)
      BY DEF Passed, TypeOK
    <2>2. (\A u \in Thread : SourceHome(u))'
      BY DEF SlotHomes, SourceHome, TypeOK
    <2>3. (\A u \in Thread : dst[u] # Null /\ Home[dst[u]] # Null =>
              own[Home[dst[u]]] = "owned" /\ ~Passed(Home[dst[u]]))'
      <3> SUFFICES ASSUME NEW u \in Thread, dst'[u] # Null, Home[dst'[u]] # Null
                   PROVE  own'[Home[dst'[u]]] = "owned" /\ ~(Passed(Home[dst[u]])')
        OBVIOUS
      <3>1. dst'[u] = dst[u]
        BY DEF TypeOK
      <3>2. /\ dst[u] \in Slot /\ Home[dst[u]] \in Res
            /\ own[Home[dst[u]]] = "owned" /\ ~Passed(Home[dst[u]])
        BY <3>1, WrittenMember
      <3>5. QED
        BY <2>1, <3>1, <3>2 DEF TypeOK
    <2>4. (\A u \in Thread : \A x \in drain[u] :
              x # dst[u] => Home[x] # Null /\ own[Home[x]] = "deleted")'
      BY DEF SlotHomes, SourceHome, TypeOK, Released
    <2>5. QED
      BY <2>2, <2>3, <2>4 DEF SlotHomes, SourceHome
  <1>4. CallState'
    BY DEF CallState, Gone, SourceHome, SlotHomes, Released, TypeOK, Passed, Writes, Reads, SlotsExclusive, InUse, MayRead, MayWrite
  <1>5. PassedOnce'
    BY DEF PassedOnce, TypeOK, Passed
  <1>6. HandlesCounted' /\ VictimsUnheld'
    BY DEF HandlesCounted, VictimsUnheld, TypeOK
  <1>7. CountIsHandles'
    BY DEF CountIsHandles, Handles, TypeOK
  <1>8. QED
    BY <1>1, <1>2, <1>3, <1>4, <1>5, <1>6, <1>7

\* FinishCopyAssign: the source has not been written since the call began, so
\* what it holds is still counted.
LEMMA FinishCopyAssignStep ==
    ASSUME IInv, NEW t \in Thread, FinishCopyAssign(t)
    PROVE  IInv'
  <1> USE NullAssumption, HomeAssumption DEF IInv, FinishCopyAssign, registers, memory, Life, Releasing, Return
  <1>1. TypeOK'
    <2>1. CASE ptr[src[t]] = Null
      BY <2>1 DEF TypeOK
    <2>2. CASE ptr[src[t]] # Null
      <3>1. ptr[src[t]] \in Res
        BY <2>2 DEF TypeOK, CallState
      <3>2. QED
        BY <2>2, <3>1 DEF TypeOK
    <2>3. QED
      BY <2>1, <2>2
  <1>2. SlotsExclusive'
    BY DEF SlotsExclusive, Writes, Reads, Gone, InUse, MayRead, MayWrite, TypeOK
  <1>3. SlotHomes'
    <2>1. \A q \in Res : Passed(q)' => Passed(q)
      BY DEF Passed, TypeOK, CallState
    <2>2. (\A u \in Thread : SourceHome(u))'
      BY DEF SlotHomes, SourceHome, TypeOK, MayRead
    <2>3. (\A u \in Thread : dst[u] # Null /\ Home[dst[u]] # Null =>
              own[Home[dst[u]]] = "owned" /\ ~Passed(Home[dst[u]]))'
      BY <2>1 DEF SlotHomes, SourceHome, TypeOK, MayWrite, InUse, Members, Writes, Reads
    <2>4. (\A u \in Thread : \A x \in drain[u] :
              x # dst[u] => Home[x] # Null /\ own[Home[x]] = "deleted")'
      BY DEF SlotHomes, SourceHome, TypeOK, CallState, Released
    <2>5. QED
      BY <2>2, <2>3, <2>4 DEF SlotHomes, SourceHome
  <1>4. CallState'
    BY DEF CallState, Gone, SourceHome, SlotHomes, Released, TypeOK, Passed, Writes, Reads, SlotsExclusive, InUse, MayRead, MayWrite
  <1>5. PassedOnce'
    BY DEF PassedOnce, TypeOK, Passed
  <1>6. HandlesCounted' /\ VictimsUnheld'
    BY DEF HandlesCounted, VictimsUnheld, TypeOK
  <1>7. CountIsHandles'
    BY DEF CountIsHandles, Handles, TypeOK
  <1>8. QED
    BY <1>1, <1>2, <1>3, <1>4, <1>5, <1>6, <1>7

\* FinishUniqueAssign: the resource passed in still has no handle but this one.
LEMMA FinishUniqueAssignStep ==
    ASSUME IInv, NEW t \in Thread, FinishUniqueAssign(t)
    PROVE  IInv'
  <1> USE NullAssumption, HomeAssumption DEF IInv, FinishUniqueAssign, registers, memory, Life, Releasing, Return, Reset
  <1> DEFINE r == obj[t]
  <1> DEFINE d == dst[t]
  <1>a. /\ r \in Res /\ own[r] = "owned" /\ Passed(r)
        /\ d \in Slot /\ ptr[d] = Null
    BY DEF TypeOK, CallState, Passed, Released
  <1>e. \A u \in Thread : d # via[u] \/ u = t
    BY <1>a DEF SlotsExclusive, Writes
  <1>f. \A s \in Slot : Gone(s) => Gone(s)'
    BY <1>a DEF Gone, TypeOK
  <1>b. r \in Res /\ own[r] = "owned" /\ d \in Slot /\ ptr[d] = Null
    BY <1>a
  <1>1. TypeOK'
    BY <1>a DEF TypeOK
  <1>2. SlotsExclusive'
    BY <1>f DEF SlotsExclusive, Writes, Reads, Gone, InUse, MayRead, MayWrite, TypeOK
  <1>3. SlotHomes'
    <2>1. \A q \in Res : Passed(q)' => Passed(q)
      BY DEF Passed, TypeOK, CallState
    <2>2. (\A u \in Thread : SourceHome(u))'
      <3> SUFFICES ASSUME NEW u \in Thread
                   PROVE  SourceHome(u)'
        OBVIOUS
      <3>1. CASE u = t
        BY <3>1 DEF SourceHome, TypeOK
      <3>2. CASE u # t
        <4>1. via'[u] = via[u] /\ src'[u] = src[u] /\ dst'[u] = dst[u] /\ via[u] # d
          BY <1>e, <3>2 DEF TypeOK
        <4>2. \A q \in Res : own[q] \in {"counted", "deleted"} => own'[q] = own[q]
          BY <1>b DEF TypeOK
        <4>3. src[u] # Null => Home[src[u]] \in Res \cup {Null}
          BY DEF TypeOK
        <4>4. via[u] # Null => ptr'[via[u]] = ptr[via[u]]
          BY <1>b, <4>1 DEF TypeOK
        <4>5. SourceHome(u)
          BY DEF SlotHomes
        <4>6. QED
          BY <4>1, <4>2, <4>3, <4>4, <4>5 DEF SourceHome
      <3>3. QED
        BY <3>1, <3>2
    <2>3. (\A u \in Thread : dst[u] # Null /\ Home[dst[u]] # Null =>
              own[Home[dst[u]]] = "owned" /\ ~Passed(Home[dst[u]]))'
      <3> SUFFICES ASSUME NEW u \in Thread, dst'[u] # Null, Home[dst'[u]] # Null
                   PROVE  own'[Home[dst'[u]]] = "owned" /\ ~(Passed(Home[dst[u]])')
        OBVIOUS
      <3>1. dst'[u] = dst[u]
        BY DEF TypeOK
      <3>2. /\ dst[u] \in Slot /\ Home[dst[u]] \in Res
            /\ own[Home[dst[u]]] = "owned" /\ ~Passed(Home[dst[u]])
        BY <3>1, WrittenMember
      <3>3. Home[dst[u]] # obj[t]
        BY <1>a, <3>2
      <3>5. QED
        BY <2>1, <3>1, <3>2, <3>3 DEF TypeOK
    <2>4. (\A u \in Thread : \A x \in drain[u] :
              x # dst[u] => Home[x] # Null /\ own[Home[x]] = "deleted")'
      BY DEF SlotHomes, SourceHome, TypeOK, CallState, Released
    <2>5. QED
      BY <2>2, <2>3, <2>4 DEF SlotHomes, SourceHome
  <1>4. CallState'
    <2> SUFFICES ASSUME NEW u \in Thread, u # t
                 PROVE  /\ (pc[u] = "increment" => obj[u] = ptr[src[u]] \/ Gone(src[u]))'
                        /\ (pc[u] = "uniqueAssign" => own[obj[u]] = "owned")'
                        /\ (dst[u] # Null /\ dst[u] \notin drain[u] => ptr[dst[u]] = Null)'
      BY DEF CallState, Released, TypeOK
    <2>1. (pc[u] = "increment" => obj[u] = ptr[src[u]] \/ Gone(src[u]))'
      <3>1. src[u] = d => Gone(d)
        BY <1>a DEF SlotsExclusive, Writes
      <3>2. QED
        BY <1>a, <1>f, <3>1 DEF CallState, TypeOK
    <2>2. (pc[u] = "uniqueAssign" => own[obj[u]] = "owned")'
      BY <1>a DEF CallState, PassedOnce, TypeOK
    <2>3. (dst[u] # Null /\ dst[u] \notin drain[u] => ptr[dst[u]] = Null)'
      BY <1>a DEF CallState, SlotsExclusive, Writes, TypeOK
    <2>4. QED
      BY <2>1, <2>2, <2>3
  <1>5. PassedOnce'
    BY DEF PassedOnce, TypeOK, Passed
  <1>6. HandlesCounted' /\ VictimsUnheld'
    BY <1>b DEF HandlesCounted, VictimsUnheld, TypeOK
  <1>7. CountIsHandles'
    <2> SUFFICES ASSUME NEW q \in Res, own'[q] = "counted"
                 PROVE  count'[q] = Cardinality(Handles(q)')
      BY DEF CountIsHandles
    <2>1. CASE q = r
      <3>1. Handles(q) = {}
        BY <2>1, UncountedUnheld, <1>b
      <3>2. Handles(q)' = {d}
        BY <2>1, <3>1, <1>b DEF Handles, TypeOK
      <3>3. QED
        BY <2>1, <3>2, FS_Singleton, <1>b DEF TypeOK
    <2>2. CASE q # r
      <3>1. Handles(q)' = Handles(q)
        BY <2>2, <1>b DEF Handles, TypeOK
      <3>2. QED
        BY <2>2, <3>1, <1>b DEF CountIsHandles, TypeOK
    <2>3. QED
      BY <2>1, <2>2
  <1>8. QED
    BY <1>1, <1>2, <1>3, <1>4, <1>5, <1>6, <1>7

\* Increment: the count and the handles grow together.
LEMMA IncrementStep ==
    ASSUME IInv, NEW t \in Thread, Increment(t)
    PROVE  IInv'
  <1> USE NullAssumption, HomeAssumption DEF IInv, Increment, registers, memory, Life, Releasing, Return
  <1> DEFINE r == obj[t]
  <1> DEFINE d == dst[t]
  <1>a. r # Null /\ d \in Slot /\ ptr[d] = Null
    BY DEF TypeOK, CallState, Released
  <1>b. /\ r \in Res /\ own[r] = "counted" /\ count[r] \in Nat \ {0}
        /\ \A u \in Thread : r \notin victims[u]
    BY <1>a DEF TypeOK, VictimsUnheld
  <1>c. d \in Slot /\ ptr[d] = Null
    BY <1>a
  <1>1. TypeOK'
    BY <1>a, <1>b DEF TypeOK
  <1>2. SlotsExclusive'
    BY DEF SlotsExclusive, Writes, Reads, Gone, InUse, MayRead, MayWrite, TypeOK
  <1>3. SlotHomes'
    <2>1. \A q \in Res : Passed(q)' => Passed(q)
      BY DEF Passed, TypeOK, CallState
    <2>2. (\A u \in Thread : SourceHome(u))'
      <3> SUFFICES ASSUME NEW u \in Thread
                   PROVE  SourceHome(u)'
        OBVIOUS
      <3>1. CASE u = t
        BY <3>1 DEF SourceHome, TypeOK
      <3>2. CASE u # t
        <4>1. via'[u] = via[u] /\ src'[u] = src[u] /\ dst'[u] = dst[u] /\ via[u] # d
          BY <1>a, <3>2 DEF TypeOK, SlotsExclusive, Writes
        <4>2. via[u] # Null => ptr'[via[u]] = ptr[via[u]]
          BY <1>a, <4>1 DEF TypeOK
        <4>3. SourceHome(u)
          BY DEF SlotHomes
        <4>4. QED
          BY <4>1, <4>2, <4>3 DEF SourceHome
      <3>3. QED
        BY <3>1, <3>2
    <2>3. (\A u \in Thread : dst[u] # Null /\ Home[dst[u]] # Null =>
              own[Home[dst[u]]] = "owned" /\ ~Passed(Home[dst[u]]))'
      <3> SUFFICES ASSUME NEW u \in Thread, dst'[u] # Null, Home[dst'[u]] # Null
                   PROVE  own'[Home[dst'[u]]] = "owned" /\ ~(Passed(Home[dst[u]])')
        OBVIOUS
      <3>1. dst'[u] = dst[u]
        BY DEF TypeOK
      <3>2. /\ dst[u] \in Slot /\ Home[dst[u]] \in Res
            /\ own[Home[dst[u]]] = "owned" /\ ~Passed(Home[dst[u]])
        BY <3>1, WrittenMember
      <3>5. QED
        BY <2>1, <3>1, <3>2 DEF TypeOK
    <2>4. (\A u \in Thread : \A x \in drain[u] :
              x # dst[u] => Home[x] # Null /\ own[Home[x]] = "deleted")'
      BY DEF SlotHomes, SourceHome, TypeOK, CallState, Released
    <2>5. QED
      BY <2>2, <2>3, <2>4 DEF SlotHomes, SourceHome
  <1>4. CallState'
    BY DEF CallState, Gone, SourceHome, SlotHomes, Released, TypeOK, Passed, Writes, Reads, SlotsExclusive, InUse, MayRead, MayWrite
  <1>5. PassedOnce'
    BY DEF PassedOnce, TypeOK, Passed
  <1>6. HandlesCounted' /\ VictimsUnheld'
    BY <1>b, <1>c DEF HandlesCounted, VictimsUnheld, TypeOK
  <1>7. CountIsHandles'
    <2> SUFFICES ASSUME NEW q \in Res, own[q] = "counted"
                 PROVE  count'[q] = Cardinality(Handles(q)')
      BY DEF CountIsHandles
    <2>1. CASE q = r
      <3>1. Handles(q)' = Handles(q) \cup {d}
        BY <2>1, <1>b, <1>c DEF Handles, TypeOK
      <3>2. count'[q] = count[q] + 1
        BY <2>1, <1>b DEF TypeOK
      <3>3. QED
        BY <3>1, <3>2, <1>c, HandleAdded DEF CountIsHandles
    <2>2. CASE q # r
      <3>1. Handles(q)' = Handles(q)
        BY <2>2, <1>b, <1>c DEF Handles, TypeOK
      <3>2. QED
        BY <2>2, <1>b, <3>1 DEF CountIsHandles, TypeOK
    <2>3. QED
      BY <2>1, <2>2
  <1>8. QED
    BY <1>1, <1>2, <1>3, <1>4, <1>5, <1>6, <1>7

\* ReadGone and IncrementGone only note that freed memory was used.
LEMMA GoneStep ==
    ASSUME IInv, NEW t \in Thread, ReadGone(t) \/ IncrementGone(t)
    PROVE  IInv'
  <1> USE DEF ReadGone, IncrementGone, memory, registers
  <1>1. TypeOK'
    BY DEF IInv, TypeOK
  <1>2. SlotsExclusive' /\ PassedOnce' /\ HandlesCounted' /\ VictimsUnheld' /\ CountIsHandles'
    BY DEF IInv, SlotsExclusive, PassedOnce, HandlesCounted, VictimsUnheld, CountIsHandles,
       Writes, Gone, Handles
  <1>3. SlotHomes'
    BY DEF IInv, SlotHomes, SourceHome, Passed
  <1>4. CallState'
    BY DEF IInv, CallState, Gone, Released
  <1>5. QED
    BY <1>1, <1>2, <1>3, <1>4 DEF IInv

\* The invariant is inductive: every step of every call keeps it.
LEMMA NextIInv == IInv /\ [Next]_vars => IInv'
  <1> SUFFICES ASSUME IInv, [Next]_vars
               PROVE  IInv'
    OBVIOUS
  <1>1. CASE UNCHANGED vars
    BY <1>1 DEF vars, IInv, TypeOK, SlotsExclusive, SlotHomes, CallState, PassedOnce,
        HandlesCounted, VictimsUnheld, CountIsHandles, Writes, SourceHome, Gone, Passed,
        Released, Handles
  <1>2. ASSUME NEW t \in Thread, Start(t)
        PROVE  IInv'
    BY <1>2, ConstructStep, DestroyOwnedStep, UniqueConstructStep, UniqueAssignStep,
       CopyConstructStep, MoveConstructStep, CopyAssignStep, DestroyStep
       DEF Start, FromRawPointer
  <1>3. ASSUME NEW t \in Thread, Progress(t)
        PROVE  IInv'
    BY <1>3, ReleaseStep, DeleteStep, FinishDestroyStep, FinishCopyAssignStep,
       FinishUniqueAssignStep, IncrementStep, GoneStep
       DEF Progress
  <1>4. QED
    BY <1>1, <1>2, <1>3 DEF Next

-----------------------------------------------------------------------------

\* The invariant the other theorems rest on, TypeOK and CountIsHandles in it.
THEOREM Invariance == Spec => []IInv
  <1>1. QED
    BY InitIInv, NextIInv, PTL DEF Spec

\* Every variable keeps its type: the counter never goes below zero.
THEOREM TypeCorrect == Spec => []TypeOK
  <1>1. IInv => TypeOK
    BY DEF IInv
  <1>2. QED
    BY <1>1, Invariance, PTL

\* m_ref_count is the number of handles at every step of every thread.
THEOREM CountCorrect == Spec => []CountIsHandles
  <1>1. IInv => CountIsHandles
    BY DEF IInv
  <1>2. QED
    BY <1>1, Invariance, PTL

\* Freed memory is only used by an assignment over the handle the source was
\* reached through.
LEMMA LostStep == IInv /\ LostByReplacing /\ [Next]_vars => LostByReplacing'
  <1> SUFFICES ASSUME IInv, LostByReplacing, [Next]_vars
               PROVE  LostByReplacing'
    OBVIOUS
  <1> USE DEF registers, memory
  <1>1. CASE UNCHANGED vars
    BY <1>1 DEF vars, LostByReplacing, Gone, Replaced
  <1>2. CASE ~lost /\ lost'
    <2>1. PICK t \in Thread : Start(t) \/ Progress(t)
      BY <1>2 DEF Next, vars
    <2>2. ReadGone(t) \/ IncrementGone(t)
      BY <1>2, <2>1 DEF Start, Construct, DestroyOwned, UniqueConstruct, UniqueAssign,
         CopyConstruct, FromRawPointer, MoveConstruct, CopyAssign, Destroy, Progress, Release,
         Delete, FinishDestroy, FinishCopyAssign, FinishUniqueAssign, Increment
    <2>3. Gone(src[t])
      BY <2>2, PendingIsCounted DEF ReadGone, IncrementGone
    <2>4. Replaced(t)
      BY <2>3, SourceHeld DEF Gone
    <2>5. Gone(src[t])' /\ Replaced(t)'
      BY <2>2, <2>3, <2>4 DEF ReadGone, IncrementGone, Gone, Replaced
    <2>6. QED
      BY <2>5 DEF LostByReplacing
  <1>3. QED
    BY <1>1, <1>2 DEF Next, LostByReplacing, vars

\* No handle and no pending increment refers to a deleted resource, unless the
\* source was a member of the resource its own call replaced.
THEOREM NoUseAfterFree == Spec => []NoDangling
  <1>1. IInv /\ LostByReplacing => NoDangling
    <2> SUFFICES ASSUME IInv, LostByReplacing PROVE NoDangling
      OBVIOUS
    <2>1. \A t \in Thread : pc[t] = "increment" /\ ~Gone(src[t]) => own[obj[t]] = "counted"
      BY PendingIsCounted
    <2>2. \A t \in Thread : Gone(src[t]) => Replaced(t)
      BY SourceHeld DEF Gone
    <2>3. QED
      BY <2>1, <2>2 DEF NoDangling, IInv, HandlesCounted
  <1>2. Init => LostByReplacing
    BY DEF Init, LostByReplacing
  <1>3. QED
    BY <1>1, <1>2, LostStep, Invariance, PTL DEF Spec

\* A resource is deleted by one thread only, with no handle left and no
\* increment on the way, but for the same assignment.
THEOREM NoDoubleDelete == Spec => []DeletedByOne
  <1>1. IInv => DeletedByOne
    <2> SUFFICES ASSUME IInv, NEW t \in Thread, NEW r \in victims[t]
                 PROVE  /\ own[r] = "counted" /\ Handles(r) = {}
                        /\ \A u \in Thread \ {t} : r \notin victims[u]
                        /\ \A u \in Thread :
                             pc[u] = "increment" /\ ~Gone(src[u]) => obj[u] # r
      BY DEF DeletedByOne
    <2>1. r \in Res /\ own[r] = "counted" /\ count[r] = 0
      BY DEF IInv, TypeOK, VictimsUnheld
    <2>2. Handles(r) = {}
      <3>1. Cardinality(Handles(r)) = 0
        BY <2>1 DEF IInv, CountIsHandles
      <3>2. QED
        BY <2>1, <3>1, HandlesFinite, FS_EmptySet DEF IInv
    <2>3. \A u \in Thread \ {t} : r \notin victims[u]
      BY DEF IInv, VictimsUnheld
    <2>4. \A u \in Thread : pc[u] = "increment" /\ ~Gone(src[u]) => obj[u] # r
      BY PendingIsCounted
    <2>5. QED
      BY <2>1, <2>2, <2>3, <2>4
  <1>2. QED
    BY <1>1, Invariance, PTL

-----------------------------------------------------------------------------

\* A handle is only ever given a new resource where it is free, or a member
\* of a resource that is still being built.
LEMMA NewHandle ==
    ASSUME IInv, [Next]_vars, NEW s \in Slot,
           ptr'[s] # Null, ptr'[s] # ptr[s]
    PROVE  Home[s] # Null => Home[s] \in Res /\ own'[Home[s]] = "owned"
  <1> USE NullAssumption, HomeAssumption DEF registers, memory
  <1> SUFFICES ASSUME Home[s] # Null
               PROVE  Home[s] \in Res /\ own'[Home[s]] = "owned"
    OBVIOUS
  <1>1. ASSUME NEW t \in Thread, Start(t)
        PROVE  Home[s] \in Res /\ own'[Home[s]] = "owned"
    <2>1. ASSUME NEW d \in Slot, NEW r \in Res, UniqueConstruct(t, d, r)
          PROVE  Home[s] \in Res /\ own'[Home[s]] = "owned"
      BY <2>1 DEF UniqueConstruct, Reset, MayWrite, IInv, TypeOK
    <2>2. ASSUME NEW d \in Slot, NEW q \in Slot, MoveConstruct(t, d, q)
          PROVE  Home[s] \in Res /\ own'[Home[s]] = "owned"
      BY <2>2 DEF MoveConstruct, MayWrite, IInv, TypeOK
    <2>3. QED
      BY <1>1, <2>1, <2>2 DEF Start, Construct, DestroyOwned, UniqueAssign, CopyConstruct,
         FromRawPointer, CopyAssign, Destroy
  <1>2. ASSUME NEW t \in Thread, Progress(t)
        PROVE  Home[s] \in Res /\ own'[Home[s]] = "owned"
    <2>1. CASE FinishUniqueAssign(t)
      <3>1. dst[t] = s /\ obj[t] \in Res /\ Passed(obj[t])
        BY <2>1 DEF FinishUniqueAssign, Reset, IInv, TypeOK, CallState, Passed
      <3>2. Home[s] \in Res /\ own[Home[s]] = "owned" /\ ~Passed(Home[s])
        BY <3>1, WrittenMember
      <3>3. QED
        BY <2>1, <3>1, <3>2 DEF FinishUniqueAssign, Reset, IInv, TypeOK
    <2>2. CASE Increment(t)
      <3>1. dst[t] = s
        BY <2>2 DEF Increment, IInv, TypeOK
      <3>2. QED
        BY <2>2, <3>1, WrittenMember DEF Increment
    <2>3. ASSUME NEW q \in Slot, Release(t, q)
          PROVE  Home[s] \in Res /\ own'[Home[s]] = "owned"
      BY <2>3 DEF Release, IInv, TypeOK
    <2>4. QED
      BY <1>2, <2>1, <2>2, <2>3 DEF Progress, Delete, FinishDestroy, FinishCopyAssign,
         ReadGone, IncrementGone
  <1>3. CASE UNCHANGED vars
    BY <1>3 DEF vars
  <1>4. QED
    BY <1>1, <1>2, <1>3 DEF Next

\* Holding stays acyclic.
LEMMA AcyclicStep == IInv /\ Acyclic /\ [Next]_vars => Acyclic'
  <1> SUFFICES ASSUME IInv, Acyclic, [Next]_vars,
                      NEW G \in SUBSET Res, G # {}, \A r \in G : own'[r] = "counted"
               PROVE  \E r \in G : \A s \in Handles(r)' : Home[s] \notin G
    BY DEF Acyclic
  <1>1. \A r \in G, s \in Slot : ptr'[s] = r /\ ptr[s] # r => Home[s] \notin G
    BY NewHandle, NullAssumption
  <1>2. CASE \A r \in G : own[r] = "counted"
    <2>1. PICK r \in G : \A s \in Handles(r) : Home[s] \notin G
      BY <1>2 DEF Acyclic
    <2>2. QED
      BY <1>1, <2>1 DEF Handles
  <1>3. CASE \E r \in G : own[r] # "counted"
    <2>1. PICK r \in G : own[r] # "counted"
      BY <1>3
    <2>2. Handles(r) = {}
      BY <2>1, UncountedUnheld
    <2>3. QED
      BY <1>1, <2>2 DEF Handles
  <1>4. QED
    BY <1>2, <1>3

\* A counter at zero has been claimed by the thread that brought it there.
LEMMA ZeroClaimedStep == IInv /\ ZeroClaimed /\ [Next]_vars => ZeroClaimed'
  <1> SUFFICES ASSUME IInv, ZeroClaimed, [Next]_vars,
                      NEW r \in Res, own'[r] = "counted", count'[r] = 0
               PROVE  \E t \in Thread : r \in victims'[t]
    BY DEF ZeroClaimed
  <1> USE DEF registers, memory
  <1>1. ASSUME NEW t \in Thread, Start(t)
        PROVE  \E u \in Thread : r \in victims'[u]
    <2>1. own[r] = "counted" /\ count[r] = 0 /\ victims' = victims
      BY <1>1 DEF Start, Construct, DestroyOwned, UniqueConstruct, UniqueAssign, CopyConstruct,
         FromRawPointer, MoveConstruct, CopyAssign, Destroy, Reset, IInv, TypeOK
    <2>2. QED
      BY <2>1 DEF ZeroClaimed
  <1>2. ASSUME NEW t \in Thread, Progress(t)
        PROVE  \E u \in Thread : r \in victims'[u]
    <2>1. ASSUME NEW s \in Slot, Release(t, s)
          PROVE  \E u \in Thread : r \in victims'[u]
      <3>1. CASE ptr[s] = r
        <4>1. r # Null /\ count[r] \in Nat /\ count[r] = 1
          BY <2>1, <3>1, NullAssumption DEF Release, IInv, TypeOK
        <4>2. r \in victims'[t]
          BY <2>1, <3>1, <4>1 DEF Release, IInv, TypeOK
        <4>3. QED
          BY <4>2
      <3>2. CASE ptr[s] # r
        <4>1. own[r] = "counted" /\ count[r] = 0
          BY <2>1, <3>2 DEF Release, IInv, TypeOK
        <4>2. \A u \in Thread : victims[u] \subseteq victims'[u]
          BY <2>1 DEF Release, IInv, TypeOK
        <4>3. QED
          BY <4>1, <4>2 DEF ZeroClaimed
      <3>3. QED
        BY <3>1, <3>2
    <2>2. ASSUME NEW q \in Res, Delete(t, q)
          PROVE  \E u \in Thread : r \in victims'[u]
      <3>1. own[r] = "counted" /\ count[r] = 0 /\ r # q
        BY <2>2 DEF Delete, IInv, TypeOK
      <3>2. QED
        BY <2>2, <3>1 DEF Delete, ZeroClaimed, IInv, TypeOK
    <2>3. CASE FinishDestroy(t) \/ FinishCopyAssign(t)
      BY <2>3 DEF FinishDestroy, FinishCopyAssign, ZeroClaimed
    <2>4. CASE FinishUniqueAssign(t)
      BY <2>4 DEF FinishUniqueAssign, Reset, ZeroClaimed, IInv, TypeOK
    <2>5. CASE Increment(t)
      BY <2>5 DEF Increment, ZeroClaimed, IInv, TypeOK
    <2>6. CASE ReadGone(t) \/ IncrementGone(t)
      BY <2>6 DEF ReadGone, IncrementGone, ZeroClaimed
    <2>7. QED
      BY <1>2, <2>1, <2>2, <2>3, <2>4, <2>5, <2>6 DEF Progress
  <1>3. CASE UNCHANGED vars
    BY <1>3 DEF vars, ZeroClaimed
  <1>4. QED
    BY <1>1, <1>2, <1>3 DEF Next

\* No handle is forgotten when the resource it is a member of goes.
LEMMA HandlesAttendedStep == IInv /\ HandlesAttended /\ [Next]_vars => HandlesAttended'
  <1> SUFFICES ASSUME IInv, HandlesAttended, [Next]_vars,
                      NEW s \in Slot, ptr'[s] # Null
               PROVE  Attended(s)'
    BY DEF HandlesAttended
  <1> USE HomeAssumption DEF registers, memory
  <1>1. CASE ptr'[s] # ptr[s]
    BY <1>1, NewHandle DEF Attended
  <1>2. CASE ptr'[s] = ptr[s] /\ Home[s] # Null
    <2> DEFINE h == Home[s]
    <2>0. ptr[s] # Null /\ h \in Res
      BY <1>2
    <2>1. CASE \E u \in Thread : s \in drain[u]
      <3>1. \A u \in Thread : s \in drain[u] => s \in drain'[u]
        <4> SUFFICES ASSUME NEW u \in Thread, s \in drain[u] PROVE s \in drain'[u]
          OBVIOUS
        <4>1. pc[u] # "idle"
          BY DEF IInv, CallState, Released
        <4>2. ASSUME NEW t \in Thread, NEW q \in Slot, Release(t, q) PROVE s \in drain'[u]
          BY <1>2, <2>0, <4>2 DEF Release, IInv, TypeOK
        <4>3. ASSUME NEW t \in Thread, NEW q \in Res, Delete(t, q) PROVE s \in drain'[u]
          BY <4>3 DEF Delete, IInv, TypeOK
        <4>4. ASSUME NEW t \in Thread, Start(t) PROVE s \in drain'[u]
          BY <4>1, <4>4 DEF Start, Construct, DestroyOwned, UniqueConstruct, UniqueAssign,
             CopyConstruct, FromRawPointer, MoveConstruct, CopyAssign, Destroy, Call, IInv, TypeOK
        <4>5. QED
          BY <4>2, <4>3, <4>4 DEF Next, Progress, FinishDestroy, FinishCopyAssign,
             FinishUniqueAssign, Increment, ReadGone, IncrementGone, vars
      <3>2. QED
        BY <2>1, <3>1 DEF Attended
    <2>2. CASE own[h] \in {"owned", "counted"} /\ own'[h] \in {"owned", "counted"}
      BY <2>2 DEF Attended
    <2>3. CASE own[h] \in {"owned", "counted"} /\ own'[h] \notin {"owned", "counted"}
      <3>1. s \in Members(h)
        BY DEF Members
      <3>2. ASSUME NEW t \in Thread, Start(t) PROVE s \in drain'[t]
        BY <2>0, <2>3, <3>1, <3>2 DEF Start, Construct, DestroyOwned, UniqueConstruct,
           UniqueAssign, CopyConstruct, FromRawPointer, MoveConstruct, CopyAssign, Destroy,
           Reset, IInv, TypeOK
      <3>3. ASSUME NEW t \in Thread, Progress(t) PROVE s \in drain'[t]
        BY <2>0, <2>3, <3>1, <3>3 DEF Progress, Release, Delete, FinishDestroy,
           FinishCopyAssign, FinishUniqueAssign, Increment, ReadGone, IncrementGone, Reset,
           IInv, TypeOK
      <3>4. QED
        BY <2>3, <3>2, <3>3 DEF Next, vars, Attended
    <2>4. QED
      BY <1>2, <2>0, <2>1, <2>2, <2>3 DEF HandlesAttended, Attended
  <1>3. QED
    BY <1>1, <1>2 DEF Attended

\* The strengthening of NoOrphans holds at every step.
THEOREM HoldingAcyclic == Spec => []LeakInv
  <1>1. Init => LeakInv
    BY DEF Init, LeakInv, Acyclic, ZeroClaimed, HandlesAttended
  <1>2. IInv /\ LeakInv /\ [Next]_vars => LeakInv'
    BY AcyclicStep, ZeroClaimedStep, HandlesAttendedStep DEF LeakInv
  <1>3. QED
    BY <1>1, <1>2, Invariance, PTL DEF Spec

\* Nothing leaks: whatever is still counted is held from outside, or is
\* about to be deleted.
THEOREM NoLeak == Spec => []NoOrphans
  <1>1. IInv /\ LeakInv => NoOrphans
    <2> SUFFICES ASSUME IInv, LeakInv,
                        NEW G \in SUBSET {r \in Res : own[r] = "counted"}, G # {}
                 PROVE  \E r \in G : \/ \E s \in Handles(r) : Home[s] \notin G /\ Attended(s)
                                    \/ \E t \in Thread : r \in victims[t]
      BY DEF NoOrphans
    <2>1. PICK r \in G : \A s \in Handles(r) : Home[s] \notin G
      BY DEF LeakInv, Acyclic
    <2>2. CASE Handles(r) # {}
      BY <2>1, <2>2, NullAssumption DEF LeakInv, HandlesAttended, Handles
    <2>3. CASE Handles(r) = {}
      <3>1. count[r] = 0
        BY <2>3, FS_EmptySet DEF IInv, CountIsHandles
      <3>2. QED
        BY <3>1 DEF LeakInv, ZeroClaimed
    <2>4. QED
      BY <2>2, <2>3
  <1>2. QED
    BY <1>1, Invariance, HoldingAcyclic, PTL
=============================================================================
