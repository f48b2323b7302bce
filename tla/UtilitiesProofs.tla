--------------------------- MODULE UtilitiesProofs ---------------------------
(***************************************************************************)
(* The small classes of src/util and src/debug, for any sizes: blocks of   *)
(* an ArenaAllocator are inside the heap and apart, staged data is kept    *)
(* for the commands that copy it, timestamps go to queries that were       *)
(* reset, an id is in one place, a virtual block has one owner that bounds *)
(* what is in use, a DenseHashMap is a map, and SmallVecs are sequences    *)
(* that share no memory.  They share nothing with one another.             *)
(***************************************************************************)
EXTENDS ArenaAlloc, StencilBuffer, GPUTimer, IDManager, VirtualAllocator, DenseHashMap, SlimVec,
        DataLemmas, SequenceTheorems

(* ArenaAllocator.                                                         *)

\* align_up returns the next multiple of eight, and does not move past one
\* that the value fits under: why alloc may test the size before it rounds it.
LEMMA AlignUp ==
    ASSUME NEW v \in Nat
    PROVE  /\ align_up(v) \in Nat
           /\ align_up(v) >= v
           /\ align_up(v) % 8 = 0
           /\ \A room \in Nat : room % 8 = 0 /\ v <= room => align_up(v) <= room
  BY DEF align_up

\* The step of alloc that succeeds keeps the invariant; the other is a stutter.
LEMMA AllocKeepsInv ==
    ASSUME ArenaInv, NEW size \in Request, alloc(size)
    PROVE  ArenaInv'
<1>. USE HeapAssumption, RequestAssumption
<1>. DEFINE grown == align_up(size)
<1>1. /\ m_top \in Nat /\ m_top <= HeapSize /\ m_top % 8 = 0
      /\ blocks \in Seq(Block)
      /\ size \in Nat
  BY DEF ArenaInv, TypeOK, TopInHeap
<1>2. CASE m_top + size > HeapSize
  <2>1. UNCHANGED vars
    BY <1>2 DEF alloc
  <2>. QED
    BY <2>1 DEF vars, ArenaInv, TypeOK, TopInHeap, BlocksInHeap, BlocksApart
<1>3. CASE ~(m_top + size > HeapSize)
  <2>. DEFINE new == [start |-> m_top, size |-> size]
  <2>1. blocks' = Append(blocks, new) /\ m_top' = m_top + grown
    BY <1>3 DEF alloc
  <2>2. /\ grown \in Nat /\ grown >= size /\ grown % 8 = 0
        /\ HeapSize - m_top \in Nat /\ (HeapSize - m_top) % 8 = 0
        /\ size <= HeapSize - m_top
    BY <1>1, <1>3, AlignUp
  <2>3. grown <= HeapSize - m_top
    BY <1>1, <2>2, AlignUp
  <2>. HIDE DEF grown
  <2>4. TopInHeap'
    BY <1>1, <2>1, <2>2, <2>3 DEF TopInHeap
  <2>5. new \in Block
    BY <1>1 DEF Block
  <2>6. TypeOK'
    BY <1>1, <2>1, <2>2, <2>5 DEF TypeOK
  <2>7. /\ DOMAIN blocks' = 1..Len(blocks) + 1
        /\ DOMAIN blocks = 1..Len(blocks)
        /\ Len(blocks) \in Nat
        /\ blocks'[Len(blocks) + 1] = new
        /\ \A i \in DOMAIN blocks : blocks'[i] = blocks[i] /\ blocks[i] \in Block
    BY <1>1, <2>1, <2>5
  <2>8. BlocksInHeap'
    <3>1. ASSUME NEW i \in DOMAIN blocks'
          PROVE  blocks'[i].start % 8 = 0 /\ blocks'[i].start + blocks'[i].size <= m_top'
      <4>1. CASE i \in DOMAIN blocks
        <5>1. /\ blocks[i].start \in Nat /\ blocks[i].size \in Nat
              /\ blocks[i].start % 8 = 0 /\ blocks[i].start + blocks[i].size <= m_top
          BY <2>7, <4>1 DEF ArenaInv, BlocksInHeap, Block
        <5>2. blocks'[i] = blocks[i]
          BY <2>7, <4>1
        <5>3. m_top \in Nat /\ m_top' \in Nat /\ m_top <= m_top'
          <6>1. m_top \in Nat /\ grown \in Nat /\ m_top' = m_top + grown
            BY <1>1, <2>1, <2>2
          <6>. QED
            BY <6>1
        <5>. QED
          BY <5>1, <5>2, <5>3
      <4>2. CASE i = Len(blocks) + 1
        BY <1>1, <2>1, <2>2, <2>7, <4>2
      <4>. QED
        BY <2>7, <4>1, <4>2
    <3>. QED
      BY <3>1 DEF BlocksInHeap
  <2>9. BlocksApart'
    <3>1. ASSUME NEW i \in DOMAIN blocks', NEW j \in DOMAIN blocks', i < j
          PROVE  blocks'[i].start + blocks'[i].size <= blocks'[j].start
      <4>1. i \in DOMAIN blocks
        BY <2>7, <3>1
      <4>2. CASE j \in DOMAIN blocks
        BY <2>7, <3>1, <4>1, <4>2 DEF ArenaInv, BlocksApart
      <4>3. CASE j = Len(blocks) + 1
        BY <2>7, <4>1, <4>3 DEF ArenaInv, BlocksInHeap
      <4>. QED
        BY <2>7, <4>2, <4>3
    <3>. QED
      BY <3>1 DEF BlocksApart
  <2>. QED
    BY <2>4, <2>6, <2>8, <2>9 DEF ArenaInv
<1>. QED
  BY <1>2, <1>3

\* ArenaAllocator never hands out bytes outside its heap, bytes it has handed
\* out before, or a block that is not aligned to eight bytes.
THEOREM ArenaSafe == Spec => []ArenaInv
<1>1. Init => ArenaInv
  BY HeapAssumption DEF Init, ArenaInv, TypeOK, TopInHeap, BlocksInHeap, BlocksApart, Block
<1>2. ArenaInv /\ [Next]_vars => ArenaInv'
  <2>1. ArenaInv /\ Next => ArenaInv'
    BY AllocKeepsInv DEF Next
  <2>2. ArenaInv /\ UNCHANGED vars => ArenaInv'
    BY DEF vars, ArenaInv, TypeOK, TopInHeap, BlocksInHeap, BlocksApart
  <2>. QED
    BY <2>1, <2>2
<1>. QED
  BY <1>1, <1>2, PTL DEF Spec

-----------------------------------------------------------------------------
(* StencilBuffer.                                                          *)

Copy == [to : Destination, buffer : 1..MaxBuffers, start : 0..Capacity, after : BOOLEAN]

EndOf(n) == placed[n].start + DataSize[placed[n].to]

PlaceTypes ==
    /\ growable \in BOOLEAN /\ exists \in BOOLEAN
    /\ buffers \in 0..MaxBuffers
    /\ top \in 0..Capacity
    /\ placed \in Seq(Copy)
    /\ ran \subseteq Calls /\ copies \subseteq Calls
    /\ pending \in Seq([copies : SUBSET Nat, keeps : SUBSET Nat])
    /\ memory \in [Destination -> 0..Len(placed)]

\* All data in the buffer that is filled now ends at or below top, and no
\* data is in a later one.
FillingInv ==
    /\ \A n \in Calls :
          /\ placed[n].buffer <= buffers
          /\ placed[n].buffer = buffers => EndOf(n) <= top
          /\ EndOf(n) <= Capacity
    /\ \A m, n \in Calls :
          m # n /\ placed[m].buffer = placed[n].buffer =>
              EndOf(m) <= placed[n].start \/ EndOf(n) <= placed[m].start

\* Commands copy what was placed, and hold on to the buffers it is in.
PendingInv ==
    \A i \in DOMAIN pending :
        /\ pending[i].copies \subseteq Calls /\ pending[i].keeps \subseteq 1..buffers
        /\ \A n \in pending[i].copies : placed[n].buffer \in pending[i].keeps

StagingIInv == PlaceTypes /\ FillingInv /\ PendingInv

\* What a call finds of those before it: sizes and places are numbers.
LEMMA PlacedTypes ==
    ASSUME StagingParameters, PlaceTypes
    PROVE  /\ Len(placed) \in Nat /\ Calls = 1..Len(placed)
           /\ \A n \in Calls :
                 /\ placed[n] \in Copy
                 /\ placed[n].to \in Destination /\ placed[n].buffer \in 1..MaxBuffers /\ placed[n].start \in 0..Capacity
                 /\ DataSize[placed[n].to] \in Nat /\ EndOf(n) \in Nat
<1>1. Len(placed) \in Nat /\ Calls = 1..Len(placed) /\ \A n \in Calls : placed[n] \in Copy
  BY DEF PlaceTypes, Calls
<1>2. \A c \in Copy : /\ c.to \in Destination /\ c.buffer \in 1..MaxBuffers /\ c.start \in 0..Capacity
                      /\ DataSize[c.to] \in Nat /\ c.start + DataSize[c.to] \in Nat
  BY DEF Copy, StagingParameters
<1>. QED BY <1>1, <1>2 DEF EndOf

\* Data is put behind all other data of its buffer, or first in a new one.
LEMMA PlaceBehind ==
    ASSUME StagingParameters, StagingIInv, NEW d \in Destination,
           NEW b \in 1..MaxBuffers, NEW start \in 0..Capacity, Place(b, start, d),
           start + DataSize[d] <= Capacity, buffers <= b, b = buffers => top <= start,
           UNCHANGED <<growable, ran, pending, memory, exists>>
    PROVE  StagingIInv'
<1>0. PICK k \in Nat : k = Len(placed)
  BY PlacedTypes DEF StagingIInv
<1>. DEFINE c == [to |-> d, buffer |-> b, start |-> start, after |-> HasRun(d)]
            end == start + DataSize[d]
<1>1. Calls = 1..k /\ buffers \in Nat /\ top \in Nat /\ MaxBuffers \in Nat /\ Capacity \in Nat
  BY <1>0, PlacedTypes DEF StagingIInv, PlaceTypes, StagingParameters
<1>2. c \in Copy /\ c.to = d /\ c.buffer = b /\ c.start = start
  BY DEF Copy, HasRun
<1>3. end \in start..Capacity
  BY <1>1 DEF StagingParameters
<1>4. placed' = Append(placed, c) /\ buffers' = b /\ top' = end /\ copies' = copies \cup {k + 1}
  BY <1>0 DEF Place
<1>5. /\ placed' \in Seq(Copy) /\ Len(placed') = k + 1 /\ Calls' = 1..k + 1
      /\ placed'[k + 1] = c /\ \A n \in 1..k : placed'[n] = placed[n]
  <2>. HIDE DEF c
  <2>. QED BY <1>0, <1>1, <1>2, <1>4 DEF StagingIInv, PlaceTypes, Calls
<1>6. PlaceTypes'
  <2>. HIDE DEF c, end
  <2>1. memory \in [Destination -> 0..k + 1]
    BY <1>0, <1>1 DEF StagingIInv, PlaceTypes
  <2>2. ran \subseteq 1..k + 1 /\ copies' \subseteq 1..k + 1
    BY <1>1, <1>4 DEF StagingIInv, PlaceTypes
  <2>3. growable' \in BOOLEAN /\ exists' \in BOOLEAN
    BY Zenon DEF StagingIInv, PlaceTypes
  <2>4. buffers' \in 0..MaxBuffers /\ top' \in 0..Capacity
    BY <1>1, <1>3, <1>4
  <2>. QED BY <1>5, <2>1, <2>2, <2>3, <2>4 DEF StagingIInv, PlaceTypes
<1>7. /\ \A n \in 1..k : EndOf(n)' = EndOf(n) /\ EndOf(n) \in Nat /\ placed[n].start \in Nat /\ placed[n].buffer \in Nat
      /\ EndOf(k + 1)' = end
  <2>1. \A n \in 1..k : EndOf(n)' = EndOf(n)
    BY <1>5 DEF EndOf
  <2>2. EndOf(k + 1)' = end
    BY <1>2, <1>5 DEF EndOf
  <2>. QED BY <1>1, <2>1, <2>2, PlacedTypes DEF StagingIInv
<1>8. \A n \in 1..k :
          /\ placed[n].buffer <= buffers
          /\ placed[n].buffer = buffers => EndOf(n) <= top
          /\ EndOf(n) <= Capacity
  BY <1>1 DEF StagingIInv, FillingInv
<1>9. \A n \in 1..k : placed[n].buffer = b => EndOf(n) <= start
  BY <1>1, <1>7, <1>8
<1>10. FillingInv'
  <2>. HIDE DEF c, end
  <2>1. ASSUME NEW n \in 1..k + 1
        PROVE  /\ placed'[n].buffer <= buffers'
               /\ placed'[n].buffer = buffers' => EndOf(n)' <= top'
               /\ EndOf(n)' <= Capacity
    <3>1. CASE n = k + 1
      BY <1>2, <1>3, <1>4, <1>5, <1>7, <3>1
    <3>2. CASE n \in 1..k
      BY <1>1, <1>3, <1>4, <1>5, <1>7, <1>8, <1>9, <3>2
    <3>. QED BY <1>1, <3>1, <3>2
  <2>2. ASSUME NEW m \in 1..k, NEW n \in 1..k, m # n, placed[m].buffer = placed[n].buffer
        PROVE  EndOf(m) <= placed[n].start \/ EndOf(n) <= placed[m].start
    BY <1>1, <2>2 DEF StagingIInv, FillingInv
  <2>3. ASSUME NEW m \in 1..k + 1, NEW n \in 1..k + 1, m # n, placed'[m].buffer = placed'[n].buffer
        PROVE  EndOf(m)' <= placed'[n].start \/ EndOf(n)' <= placed'[m].start
    <3>1. CASE m = k + 1
      <4>1. n \in 1..k
        BY <1>1, <2>3, <3>1
      <4>. QED BY <1>2, <1>5, <1>7, <1>9, <2>3, <3>1, <4>1
    <3>2. CASE n = k + 1
      <4>1. m \in 1..k
        BY <1>1, <2>3, <3>2
      <4>. QED BY <1>2, <1>5, <1>7, <1>9, <2>3, <3>2, <4>1
    <3>3. CASE m \in 1..k /\ n \in 1..k
      BY <1>5, <1>7, <2>2, <2>3, <3>3
    <3>. QED BY <1>1, <3>1, <3>2, <3>3
  <2>. QED BY <1>5, <2>1, <2>3 DEF FillingInv
<1>11. PendingInv'
  <2>. HIDE DEF c, end
  <2>1. ASSUME NEW i \in DOMAIN pending
        PROVE  /\ pending[i].copies \subseteq 1..k + 1 /\ pending[i].keeps \subseteq 1..b
               /\ \A n \in pending[i].copies : placed'[n].buffer \in pending[i].keeps
    BY <1>1, <1>5 DEF StagingIInv, PendingInv
  <2>. QED BY <1>4, <1>5, <2>1 DEF PendingInv
<1>. QED BY <1>6, <1>10, <1>11 DEF StagingIInv

\* copy_data, as far as it gets.
LEMMA CopyPlaces ==
    ASSUME StagingParameters, StagingIInv, NEW d \in Destination, copy_data(d)
    PROVE  StagingIInv'
<1>1. /\ buffers \in 0..MaxBuffers /\ top \in 0..Capacity /\ DataSize[d] \in Nat
      /\ MaxBuffers \in Nat \ {0} /\ Capacity \in Nat
      /\ UNCHANGED <<growable, ran, pending, memory, exists>>
  BY DEF StagingIInv, PlaceTypes, StagingParameters, copy_data
<1>2. CASE Fits(d)
  <2>. DEFINE b == IF buffers = 0 THEN 1 ELSE buffers
  <2>1. Place(b, top, d) /\ top + DataSize[d] <= Capacity
    BY <1>2 DEF copy_data, Fits
  <2>2. b \in 1..MaxBuffers /\ buffers <= b
    BY <1>1
  <2>. HIDE DEF b
  <2>. QED BY <1>1, <2>1, <2>2, PlaceBehind
<1>3. CASE ~Fits(d) /\ ~MayPush
  <2>1. UNCHANGED stagingVars
    BY <1>3 DEF copy_data, stagingVars
  <2>. QED BY <2>1 DEF stagingVars, StagingIInv, PlaceTypes, FillingInv, PendingInv, Calls, EndOf
<1>4. CASE ~Fits(d) /\ MayPush /\ DataSize[d] <= Capacity
  <2>1. Place(buffers + 1, 0, d) /\ buffers < MaxBuffers
    BY <1>4 DEF copy_data
  <2>. QED BY <1>1, <1>4, <2>1, PlaceBehind
<1>5. CASE ~Fits(d) /\ MayPush /\ ~(DataSize[d] <= Capacity)
  <2>1. buffers' = buffers + 1 /\ top' = 0 /\ UNCHANGED <<placed, copies>> /\ buffers < MaxBuffers
    BY <1>5 DEF copy_data
  <2>2. Calls' = Calls /\ \A n \in Calls : EndOf(n)' = EndOf(n) /\ placed[n].buffer \in Nat
    BY <2>1, PlacedTypes DEF StagingIInv, Calls, EndOf
  <2>3. PlaceTypes'
    BY <1>1, <2>1, <2>2 DEF StagingIInv, PlaceTypes
  <2>4. \A n \in Calls : placed[n].buffer <= buffers' /\ placed[n].buffer # buffers'
    BY <1>1, <2>1, <2>2 DEF StagingIInv, FillingInv
  <2>5. FillingInv'
    BY <2>1, <2>2, <2>4 DEF StagingIInv, FillingInv
  <2>6. PendingInv'
    BY <1>1, <2>1, <2>2 DEF StagingIInv, PendingInv
  <2>. QED BY <2>3, <2>5, <2>6 DEF StagingIInv
<1>. QED BY <1>2, <1>3, <1>4, <1>5

\* A flush takes references of all buffers, which is where the data is.
LEMMA FlushKeeps ==
    ASSUME StagingParameters, StagingIInv, flush_copies
    PROVE  StagingIInv'
<1>. DEFINE r == [copies |-> copies, keeps |-> 1..buffers]
<1>1. pending' = Append(pending, r) /\ UNCHANGED <<growable, buffers, top, copies, placed, ran, memory, exists>>
  BY DEF flush_copies, Record
<1>2. r \in [copies : SUBSET Nat, keeps : SUBSET Nat] /\ r.copies = copies /\ r.keeps = 1..buffers
  BY PlacedTypes DEF StagingIInv, PlaceTypes
<1>3. pending \in Seq([copies : SUBSET Nat, keeps : SUBSET Nat])
  BY DEF StagingIInv, PlaceTypes
<1>4. copies \subseteq Calls /\ \A n \in copies : placed[n].buffer \in 1..buffers
  BY PlacedTypes DEF StagingIInv, PlaceTypes, FillingInv
<1>5. Calls' = Calls /\ \A n \in Calls : EndOf(n)' = EndOf(n)
  BY <1>1 DEF Calls, EndOf
<1>. HIDE DEF r
<1>6. /\ pending' \in Seq([copies : SUBSET Nat, keeps : SUBSET Nat])
      /\ \A i \in DOMAIN pending' : (i \in DOMAIN pending /\ pending'[i] = pending[i]) \/ pending'[i] = r
  BY <1>1, <1>2, <1>3
<1>7. PlaceTypes'
  BY <1>1, <1>5, <1>6 DEF StagingIInv, PlaceTypes
<1>8. FillingInv'
  BY <1>1, <1>5 DEF StagingIInv, FillingInv
<1>9. ASSUME NEW i \in DOMAIN pending'
      PROVE  /\ pending'[i].copies \subseteq Calls /\ pending'[i].keeps \subseteq 1..buffers
             /\ \A n \in pending'[i].copies : placed[n].buffer \in pending'[i].keeps
  BY <1>2, <1>4, <1>6 DEF StagingIInv, PendingInv
<1>10. PendingInv'
  BY <1>1, <1>5, <1>9 DEF PendingInv
<1>. QED BY <1>7, <1>8, <1>10 DEF StagingIInv

\* The device runs the oldest commands, and the others move up.
LEMMA ExecuteKeeps ==
    ASSUME StagingParameters, StagingIInv, Execute
    PROVE  StagingIInv'
<1>1. /\ pending # <<>> /\ pending' = Tail(pending) /\ ran' = ran \cup Head(pending).copies
      /\ memory' \in [Destination -> 0..Len(placed)]
      /\ UNCHANGED <<growable, buffers, top, copies, placed, exists>>
  BY DEF Execute
<1>2. pending \in Seq([copies : SUBSET Nat, keeps : SUBSET Nat])
  BY DEF StagingIInv, PlaceTypes
<1>3. /\ Head(pending) = pending[1] /\ 1 \in DOMAIN pending
      /\ pending' \in Seq([copies : SUBSET Nat, keeps : SUBSET Nat])
      /\ \A i \in DOMAIN pending' : i + 1 \in DOMAIN pending /\ pending'[i] = pending[i + 1]
  BY <1>1, <1>2
<1>4. Calls' = Calls /\ \A n \in Calls : EndOf(n)' = EndOf(n)
  BY <1>1 DEF Calls, EndOf
<1>5. ran' \subseteq Calls
  BY <1>1, <1>3 DEF StagingIInv, PlaceTypes, PendingInv
<1>6. PlaceTypes'
  BY <1>1, <1>3, <1>4, <1>5 DEF StagingIInv, PlaceTypes
<1>7. FillingInv'
  BY <1>1, <1>4 DEF StagingIInv, FillingInv
<1>8. PendingInv'
  BY <1>1, <1>3, <1>4 DEF StagingIInv, PendingInv
<1>. QED BY <1>6, <1>7, <1>8 DEF StagingIInv

\* Staged data is apart from other data, inside its buffer and alive until
\* the commands that copy it have run (allocate, push_new_buffer, flush_copies).
THEOREM StagingSafe ==
    ASSUME StagingParameters
    PROVE  StagingSpec => []StagingInv
<1>1. StagingInit => StagingIInv
  <2>. SUFFICES ASSUME StagingInit PROVE StagingIInv
    OBVIOUS
  <2>1. growable \in BOOLEAN /\ exists \in BOOLEAN
    BY Zenon DEF StagingInit
  <2>2. /\ placed = <<>> /\ Len(placed) = 0 /\ Calls = {} /\ placed \in Seq(Copy)
        /\ pending = <<>> /\ DOMAIN pending = {} /\ pending \in Seq([copies : SUBSET Nat, keeps : SUBSET Nat])
    BY DEF StagingInit, Calls
  <2>3. buffers \in 0..MaxBuffers /\ top \in 0..Capacity /\ ran = {} /\ copies = {} /\ memory \in [Destination -> 0..0]
    BY DEF StagingInit, StagingParameters
  <2>. QED BY <2>1, <2>2, <2>3 DEF StagingIInv, PlaceTypes, FillingInv, PendingInv
<1>2. StagingIInv /\ [StagingNext]_stagingVars => StagingIInv'
  <2>. SUFFICES ASSUME StagingIInv, [StagingNext]_stagingVars PROVE StagingIInv'
    OBVIOUS
  <2>1. CASE UNCHANGED stagingVars
    BY <2>1 DEF stagingVars, StagingIInv, PlaceTypes, FillingInv, PendingInv, Calls, EndOf
  <2>2. CASE Destroy
    <3>1. exists' \in BOOLEAN /\ copies' \subseteq Calls'
      BY <2>2 DEF Destroy
    <3>. QED BY <2>2, <3>1 DEF Destroy, StagingIInv, PlaceTypes, FillingInv, PendingInv, Calls, EndOf
  <2>. QED BY <2>1, <2>2, CopyPlaces, FlushKeeps, ExecuteKeeps DEF StagingNext
<1>3. StagingIInv => StagingInv
  <2>. SUFFICES ASSUME StagingIInv PROVE StagingInv
    OBVIOUS
  <2>1. StagingTypeOK
    BY DEF StagingIInv, PlaceTypes, PendingInv, StagingTypeOK, Copy
  <2>2. StagedApart
    <3>1. \A n \in Calls : EndOf(n) <= Capacity
      BY DEF StagingIInv, FillingInv
    <3>2. ASSUME NEW m \in Calls, NEW n \in Calls, m # n, placed[m].buffer = placed[n].buffer
          PROVE  Bytes(m) \cap Bytes(n) = {}
      <4>1. EndOf(m) <= placed[n].start \/ EndOf(n) <= placed[m].start
        BY <3>2 DEF StagingIInv, FillingInv
      <4>2. /\ Bytes(m) = placed[m].start..EndOf(m) - 1 /\ Bytes(n) = placed[n].start..EndOf(n) - 1
            /\ EndOf(m) \in Nat /\ EndOf(n) \in Nat /\ placed[m].start \in Nat /\ placed[n].start \in Nat
        <5>1. ASSUME NEW k \in Calls
              PROVE  placed[k].start \in Nat /\ EndOf(k) \in Nat /\ Bytes(k) = placed[k].start..EndOf(k) - 1
          BY PlacedTypes DEF StagingIInv, Bytes, EndOf
        <5>. QED BY <5>1
      <4>3. \A a, b, c, d \in Nat : b <= c \/ d <= a => (a..b - 1) \cap (c..d - 1) = {}
        OBVIOUS
      <4>. QED BY <4>1, <4>2, <4>3
    <3>. QED BY <3>1, <3>2 DEF StagedApart, EndOf
  <2>3. SourcesKept
    BY DEF StagingIInv, PendingInv, SourcesKept
  <2>. QED BY <2>1, <2>2, <2>3 DEF StagingInv
<1>. QED BY <1>1, <1>2, <1>3, PTL DEF StagingSpec

-----------------------------------------------------------------------------
(* GPUTimer.                                                               *)

\* A timestamp writes to the first query above the written ones.
LEMMA TimestampInStep ==
    ASSUME TimerParameters, QueriesInStep, timestamp
    PROVE  QueriesInStep'
<1>. USE DEF TimerParameters, QueriesInStep, TimerTypeOK, timestamp
<1>1. CASE m_enabled
  <2>1. m_query_counter \in Query
    BY <1>1 DEF Query
  <2>. QED BY <1>1, <2>1 DEF Query
<1>2. CASE ~m_enabled
  BY <1>2
<1>. QED BY <1>1, <1>2

\* A reset that starts with all queries, and later takes those used since.
LEMMA ResetInStep ==
    ASSUME TimerParameters, QueriesInStep, reset
    PROVE  QueriesInStep'
<1>. USE DEF TimerParameters, QueriesInStep, TimerTypeOK, reset, Reset
<1>1. CASE m_is_resetted_at_start
  BY <1>1 DEF Query
<1>2. CASE ~m_is_resetted_at_start
  BY <1>2 DEF Query
<1>. QED BY <1>1, <1>2

\* From the first reset on, no timestamp is written to a query that was not
\* reset and none is read that was not written, in a pool of any size
\* (timestamp, reset).  Nothing is claimed before: a first frame without a
\* reset passes the assertion of begin_frame and writes undefined queries.
THEOREM TimestampsInStep ==
    ASSUME TimerParameters
    PROVE  TimerSpec => []QueriesInStep
<1>1. TimerInit => QueriesInStep
  <2>. SUFFICES ASSUME TimerInit PROVE QueriesInStep
    OBVIOUS
  <2>1. m_enabled \in BOOLEAN /\ m_is_resetted_at_start \in BOOLEAN /\ ~m_is_resetted_at_start
    BY Zenon DEF TimerInit
  <2>2. m_query_counter \in 0..m_max_queries /\ query \in [Query -> {"undefined", "reset", "written"}]
    BY DEF TimerInit, TimerParameters
  <2>. QED BY <2>1, <2>2, Zenon DEF QueriesInStep, TimerTypeOK
<1>2. QueriesInStep /\ [TimerNext]_timerVars => QueriesInStep'
  <2>. SUFFICES ASSUME QueriesInStep, [TimerNext]_timerVars PROVE QueriesInStep'
    OBVIOUS
  <2>1. CASE UNCHANGED timerVars
    BY <2>1 DEF timerVars, QueriesInStep, TimerTypeOK
  <2>2. CASE timestamp \/ begin_frame \/ end_frame
    BY <2>2, TimestampInStep DEF begin_frame, end_frame
  <2>3. CASE reset
    BY <2>3, ResetInStep
  <2>4. ASSUME NEW enabled \in BOOLEAN, set_enabled(enabled) PROVE QueriesInStep'
    BY <2>4 DEF set_enabled, QueriesInStep, TimerTypeOK
  <2>. QED BY <2>1, <2>2, <2>3, <2>4 DEF TimerNext
<1>. QED BY <1>1, <1>2, PTL DEF TimerSpec

-----------------------------------------------------------------------------
(* VirtualAllocator.                                                       *)

\* The blocks made are numbered, objects refer to them.
VirtualTypes ==
    \E n \in 0..MaxMade :
        /\ virtual_blocks \in [1..n -> (SUBSET Span) \cup {None}]
        /\ objects \in [Object -> {None} \cup [block : 1..n \cup {None}, m_max : 0..BlockSize]]
        /\ moved \subseteq 1..n \cup {None}

VirtualIInv == VirtualTypes /\ VirtualInv

\* There are as many blocks as were made.
LEMMA BlocksMade ==
    ASSUME VirtualTypes
    PROVE  /\ Cardinality(DOMAIN virtual_blocks) \in 0..MaxMade
           /\ DOMAIN virtual_blocks = 1..Cardinality(DOMAIN virtual_blocks)
           /\ virtual_blocks \in [DOMAIN virtual_blocks -> (SUBSET Span) \cup {None}]
           /\ objects \in [Object -> {None} \cup [block : DOMAIN virtual_blocks \cup {None}, m_max : 0..BlockSize]]
           /\ moved \subseteq DOMAIN virtual_blocks \cup {None}
<1>1. PICK n \in 0..MaxMade :
          /\ virtual_blocks \in [1..n -> (SUBSET Span) \cup {None}]
          /\ objects \in [Object -> {None} \cup [block : 1..n \cup {None}, m_max : 0..BlockSize]]
          /\ moved \subseteq 1..n \cup {None}
  BY DEF VirtualTypes
<1>2. n \in Nat /\ DOMAIN virtual_blocks = 1..n
  BY <1>1, VirtualAssumption
<1>3. Cardinality(1..n) = n
  BY <1>2, FS_Interval
<1>4. Cardinality(DOMAIN virtual_blocks) = n
  BY <1>2, <1>3
<1>. QED BY <1>1, <1>2, <1>4

\* What the parts say of an object that owns a block, and of None.
LEMMA VirtualFacts ==
    ASSUME VirtualIInv
    PROVE  /\ \A o \in Object : Owns(o) =>
                  /\ objects[o].block \in DOMAIN virtual_blocks
                  /\ objects[o].m_max \in 0..BlockSize
                  /\ Ranges(o) \in SUBSET Span
                  /\ objects[o] = [block |-> objects[o].block, m_max |-> objects[o].m_max]
           /\ None \notin DOMAIN virtual_blocks
           /\ \A b \in DOMAIN virtual_blocks, m \in 0..BlockSize : [block |-> b, m_max |-> m] # None
           /\ \A m \in 0..BlockSize : [block |-> None, m_max |-> m] # None
           /\ \A spans \in SUBSET Span : spans # None
<1>1. DOMAIN virtual_blocks \subseteq 1..MaxMade
  BY BlocksMade, VirtualAssumption DEF VirtualIInv
<1>2. /\ None \notin DOMAIN virtual_blocks
      /\ \A b \in DOMAIN virtual_blocks, m \in 0..BlockSize : [block |-> b, m_max |-> m] # None
      /\ \A m \in 0..BlockSize : [block |-> None, m_max |-> m] # None
      /\ \A spans \in SUBSET Span : spans # None
  BY <1>1, VirtualAssumption DEF VirtualObject
<1>3. ASSUME NEW o \in Object, Owns(o)
      PROVE  /\ objects[o].block \in DOMAIN virtual_blocks
             /\ objects[o].m_max \in 0..BlockSize
             /\ Ranges(o) \in SUBSET Span
             /\ objects[o] = [block |-> objects[o].block, m_max |-> objects[o].m_max]
  <2>1. objects[o] \in [block : DOMAIN virtual_blocks \cup {None}, m_max : 0..BlockSize]
    BY <1>3, BlocksMade DEF VirtualIInv, Owns
  <2>2. objects[o].block \in DOMAIN virtual_blocks
    BY <1>3, <2>1 DEF Owns
  <2>3. Ranges(o) \in (SUBSET Span) \cup {None} /\ Ranges(o) # None
    BY <1>3, <2>2, BlocksMade DEF VirtualIInv, VirtualInv, Ranges
  <2>. QED BY <2>1, <2>2, <2>3
<1>. QED BY <1>2, <1>3

\* A new object owns a new, empty block.
LEMMA ConstructOwned ==
    ASSUME VirtualIInv, NEW o \in Object, construct(o)
    PROVE  VirtualIInv'
<1>. DEFINE n == Cardinality(DOMAIN virtual_blocks)
            new == [block |-> n + 1, m_max |-> 0]
<1>1. /\ n \in 0..MaxMade /\ n < MaxMade /\ DOMAIN virtual_blocks = 1..n
      /\ virtual_blocks \in [1..n -> (SUBSET Span) \cup {None}]
      /\ objects \in [Object -> {None} \cup [block : 1..n \cup {None}, m_max : 0..BlockSize]]
      /\ moved \subseteq 1..n \cup {None}
  BY BlocksMade DEF VirtualIInv, construct
<1>2. /\ objects[o] = None
      /\ objects' = [objects EXCEPT ![o] = new]
      /\ virtual_blocks' = [c \in 1..n + 1 |-> IF c = n + 1 THEN {} ELSE virtual_blocks[c]]
      /\ moved' = moved
  BY DEF construct
<1>3. n + 1 \in 1..MaxMade /\ n + 1 \notin 1..n /\ (1..n) \subseteq 1..n + 1 /\ n \in Nat
  BY <1>1, VirtualAssumption
<1>. HIDE DEF n
<1>4. new # None /\ new \in [block : 1..n + 1, m_max : 0..BlockSize] /\ n + 1 # None
      /\ new.block = n + 1 /\ new.m_max = 0
  BY <1>3, VirtualAssumption DEF VirtualObject
<1>. HIDE DEF new
<1>5. VirtualTypes'
  <2>1. virtual_blocks' \in [1..n + 1 -> (SUBSET Span) \cup {None}]
    BY <1>1, <1>2, <1>3
  <2>2. objects' \in [Object -> {None} \cup [block : 1..n + 1 \cup {None}, m_max : 0..BlockSize]]
    <3>1. {None} \cup [block : 1..n \cup {None}, m_max : 0..BlockSize]
            \subseteq {None} \cup [block : 1..n + 1 \cup {None}, m_max : 0..BlockSize]
      BY <1>3
    <3>2. new \in {None} \cup [block : 1..n + 1 \cup {None}, m_max : 0..BlockSize]
      BY <1>4
    <3>. QED BY <1>1, <1>2, <3>1, <3>2
  <2>3. moved' \subseteq 1..n + 1 \cup {None} /\ n + 1 \in 0..MaxMade
    BY <1>1, <1>2, <1>3
  <2>. QED BY <2>1, <2>2, <2>3 DEF VirtualTypes
<1>6. /\ objects'[o] = new /\ \A u \in Object \ {o} : objects'[u] = objects[u]
      /\ DOMAIN virtual_blocks' = 1..n + 1 /\ virtual_blocks'[n + 1] = {}
      /\ \A b \in 1..n : virtual_blocks'[b] = virtual_blocks[b]
  BY <1>1, <1>2, <1>3
<1>7. \A u \in Object : Owns(u)' <=> u = o \/ Owns(u)
  BY <1>2, <1>4, <1>6 DEF Owns
<1>8. \A u \in Object : Owns(u) => u # o /\ objects[u].block \in 1..n /\ Ranges(u)' = Ranges(u)
  BY <1>1, <1>2, <1>6, VirtualFacts DEF Owns, Ranges
<1>9. Ranges(o)' = {} /\ {} # None
  BY <1>4, <1>6, VirtualFacts DEF Ranges
<1>10. VirtualInv'
  <2>1. \A u \in Object : objects'[u] # None =>
            objects'[u].block \in DOMAIN virtual_blocks' \cup {None} /\ objects'[u].m_max \in 0..BlockSize
    BY <1>1, <1>3, <1>4, <1>6, VirtualAssumption DEF VirtualIInv, VirtualInv
  <2>2. \A u \in Object : Owns(u)' => Ranges(u)' # None
    BY <1>7, <1>8, <1>9 DEF VirtualIInv, VirtualInv
  <2>3. \A u, w \in Object : Owns(u)' /\ Owns(w)' /\ objects'[u].block = objects'[w].block => u = w
    BY <1>3, <1>4, <1>6, <1>7, <1>8 DEF VirtualIInv, VirtualInv
  <2>4. ASSUME NEW b \in DOMAIN virtual_blocks', virtual_blocks'[b] # None, b \notin moved'
        PROVE  \E u \in Object :
                  Owns(u)' /\ objects'[u].block = b /\ \A r \in virtual_blocks'[b] : r[1] + r[2] <= objects'[u].m_max
    <3>1. CASE b = n + 1
      BY <1>4, <1>6, <1>7, <3>1
    <3>2. CASE b \in 1..n
      <4>1. PICK u \in Object :
                Owns(u) /\ objects[u].block = b /\ \A r \in virtual_blocks[b] : r[1] + r[2] <= objects[u].m_max
        BY <1>1, <1>2, <1>6, <2>4, <3>2 DEF VirtualIInv, VirtualInv
      <4>. QED BY <1>6, <1>7, <1>8, <3>2, <4>1
    <3>. QED BY <1>3, <1>6, <3>1, <3>2
  <2>. QED BY <2>1, <2>2, <2>3, <2>4 DEF VirtualInv
<1>. QED BY <1>5, <1>10 DEF VirtualIInv

\* Ranges come and go in the block of an object, its highest end only grows
\* (allocate, free, reset).
LEMMA RangesBounded ==
    ASSUME VirtualIInv, NEW o \in Object, Owns(o),
           NEW spans \in SUBSET Span, NEW m \in 0..BlockSize, m >= objects[o].m_max,
           \A r \in spans : r \in Ranges(o) \/ r[1] + r[2] <= m,
           virtual_blocks' = [virtual_blocks EXCEPT ![objects[o].block] = spans],
           objects' = [objects EXCEPT ![o].m_max = m],
           moved' = moved
    PROVE  VirtualIInv'
<1>. DEFINE b == objects[o].block
            n == Cardinality(DOMAIN virtual_blocks)
<1>1. /\ n \in 0..MaxMade /\ DOMAIN virtual_blocks = 1..n
      /\ virtual_blocks \in [1..n -> (SUBSET Span) \cup {None}]
      /\ objects \in [Object -> {None} \cup [block : 1..n \cup {None}, m_max : 0..BlockSize]]
      /\ moved \subseteq 1..n \cup {None}
  BY BlocksMade DEF VirtualIInv
<1>2. b \in 1..n /\ objects[o] = [block |-> b, m_max |-> objects[o].m_max] /\ objects[o].m_max \in 0..BlockSize
  BY <1>1, VirtualFacts
<1>. DEFINE new == [block |-> b, m_max |-> m]
<1>. HIDE DEF n, b
<1>3. objects' = [objects EXCEPT ![o] = new] /\ new # None /\ new.block = b /\ new.m_max = m
      /\ new \in [block : 1..n \cup {None}, m_max : 0..BlockSize]
  <2>1. [objects[o] EXCEPT !.m_max = m] = new
    BY <1>2
  <2>2. objects' = [objects EXCEPT ![o] = [objects[o] EXCEPT !.m_max = m]]
    OBVIOUS
  <2>3. new # None
    BY <1>1, <1>2, VirtualFacts
  <2>. QED BY <1>2, <2>1, <2>2, <2>3
<1>. HIDE DEF new
<1>4. /\ objects'[o] = new /\ \A u \in Object \ {o} : objects'[u] = objects[u]
      /\ DOMAIN virtual_blocks' = 1..n /\ virtual_blocks'[b] = spans
      /\ \A c \in 1..n \ {b} : virtual_blocks'[c] = virtual_blocks[c]
  BY <1>1, <1>2, <1>3 DEF b
<1>5. VirtualTypes'
  <2>1. virtual_blocks' \in [1..n -> (SUBSET Span) \cup {None}]
    BY <1>1, <1>2 DEF b
  <2>2. objects' \in [Object -> {None} \cup [block : 1..n \cup {None}, m_max : 0..BlockSize]]
    BY <1>1, <1>3
  <2>. QED BY <1>1, <2>1, <2>2 DEF VirtualTypes
<1>6. \A u \in Object : (Owns(u)' <=> Owns(u)) /\ (Owns(u) => objects'[u].block = objects[u].block)
  BY <1>1, <1>3, <1>4, VirtualFacts DEF Owns, b
<1>7. \A u \in Object \ {o} : Owns(u) => Ranges(u)' = Ranges(u)
  BY <1>1, <1>4, <1>6, VirtualFacts DEF VirtualIInv, VirtualInv, Ranges, b
<1>8. Ranges(o)' = spans /\ spans # None
  BY <1>3, <1>4, VirtualFacts DEF Ranges
<1>9. VirtualInv'
  <2>1. \A u \in Object : objects'[u] # None =>
            objects'[u].block \in DOMAIN virtual_blocks' \cup {None} /\ objects'[u].m_max \in 0..BlockSize
    BY <1>1, <1>2, <1>3, <1>4 DEF VirtualIInv, VirtualInv
  <2>2. \A u \in Object : Owns(u)' => Ranges(u)' # None
    BY <1>6, <1>7, <1>8 DEF VirtualIInv, VirtualInv
  <2>3. \A u, w \in Object : Owns(u)' /\ Owns(w)' /\ objects'[u].block = objects'[w].block => u = w
    BY <1>6 DEF VirtualIInv, VirtualInv
  <2>4. ASSUME NEW c \in DOMAIN virtual_blocks', virtual_blocks'[c] # None, c \notin moved'
        PROVE  \E u \in Object :
                  Owns(u)' /\ objects'[u].block = c /\ \A r \in virtual_blocks'[c] : r[1] + r[2] <= objects'[u].m_max
    <3>1. CASE c = b
      <4>1. virtual_blocks[b] # None /\ b \notin moved
        BY <1>1, <1>2, <2>4, <3>1 DEF VirtualIInv, VirtualInv, Ranges, b
      <4>2. PICK u \in Object :
                Owns(u) /\ objects[u].block = b /\ \A r \in virtual_blocks[b] : r[1] + r[2] <= objects[u].m_max
        BY <1>1, <1>2, <4>1 DEF VirtualIInv, VirtualInv
      <4>3. u = o
        BY <4>2 DEF VirtualIInv, VirtualInv, b
      <4>4. \A r \in spans : r[1] + r[2] <= m
        <5>. SUFFICES ASSUME NEW r \in spans, r \in Ranges(o) PROVE r[1] + r[2] <= m
          OBVIOUS
        <5>1. r[1] + r[2] <= objects[o].m_max /\ r[1] \in Nat /\ r[2] \in Nat
          BY <4>2, <4>3, VirtualAssumption DEF Ranges, b, Span
        <5>. QED BY <1>2, <5>1, VirtualAssumption
      <4>. QED BY <1>3, <1>4, <1>6, <3>1, <4>4
    <3>2. CASE c # b
      <4>1. PICK u \in Object :
                Owns(u) /\ objects[u].block = c /\ \A r \in virtual_blocks[c] : r[1] + r[2] <= objects[u].m_max
        BY <1>1, <1>4, <2>4, <3>2 DEF VirtualIInv, VirtualInv
      <4>. QED BY <1>4, <1>6, <3>2, <4>1 DEF b
    <3>. QED BY <3>1, <3>2
  <2>. QED BY <2>1, <2>2, <2>3, <2>4 DEF VirtualInv
<1>. QED BY <1>5, <1>9 DEF VirtualIInv

\* The three calls about ranges are of that form.
LEMMA UseBounded ==
    ASSUME VirtualIInv, NEW o \in Object,
           reset_block(o) \/ \E r \in Span : allocate(o, r) \/ free(o, r)
    PROVE  VirtualIInv'
<1>1. Owns(o)
  BY DEF reset_block, allocate, free
<1>2. /\ objects[o].m_max \in 0..BlockSize /\ Ranges(o) \in SUBSET Span
      /\ objects[o] = [block |-> objects[o].block, m_max |-> objects[o].m_max]
      /\ objects[o].block \in DOMAIN virtual_blocks
  BY <1>1, VirtualFacts
<1>3. objects = [objects EXCEPT ![o].m_max = objects[o].m_max]
  <2>1. objects \in [Object -> {None} \cup [block : DOMAIN virtual_blocks \cup {None}, m_max : 0..BlockSize]]
    BY BlocksMade DEF VirtualIInv
  <2>2. [objects[o] EXCEPT !.m_max = objects[o].m_max] = objects[o]
    BY <1>2
  <2>. QED BY <2>1, <2>2
<1>4. CASE reset_block(o)
  <2>1. virtual_blocks' = [virtual_blocks EXCEPT ![objects[o].block] = {}]
        /\ objects' = [objects EXCEPT ![o].m_max = objects[o].m_max] /\ moved' = moved
    BY <1>3, <1>4 DEF reset_block
  <2>2. {} \in SUBSET Span /\ objects[o].m_max >= objects[o].m_max
    BY <1>2, VirtualAssumption
  <2>. QED BY <1>1, <1>2, <2>1, <2>2, RangesBounded
<1>5. ASSUME NEW r \in Span, free(o, r) PROVE VirtualIInv'
  <2>1. virtual_blocks' = [virtual_blocks EXCEPT ![objects[o].block] = Ranges(o) \ {r}]
        /\ objects' = [objects EXCEPT ![o].m_max = objects[o].m_max] /\ moved' = moved
    BY <1>3, <1>5 DEF free, Ranges
  <2>2. Ranges(o) \ {r} \in SUBSET Span /\ objects[o].m_max >= objects[o].m_max
    BY <1>2, VirtualAssumption
  <2>. QED BY <1>1, <1>2, <2>1, <2>2, RangesBounded
<1>6. ASSUME NEW r \in Span, allocate(o, r) PROVE VirtualIInv'
  <2>. DEFINE m == HighestEnd(objects[o].m_max, r)
  <2>1. virtual_blocks' = [virtual_blocks EXCEPT ![objects[o].block] = Ranges(o) \cup {r}]
        /\ objects' = [objects EXCEPT ![o].m_max = m] /\ moved' = moved
    BY <1>6 DEF allocate, Ranges
  <2>2. /\ m \in 0..BlockSize /\ m >= objects[o].m_max /\ r[1] + r[2] <= m
        /\ Ranges(o) \cup {r} \in SUBSET Span
    BY <1>2, VirtualAssumption DEF HighestEnd, Larger, Span
  <2>. QED BY <1>1, <1>2, <2>1, <2>2, RangesBounded
<1>. QED BY <1>4, <1>5, <1>6

\* Objects trade blocks that were moved, or give them up: every other block
\* keeps its owner, and no block gets a second one.
LEMMA OwnersTrade ==
    ASSUME VirtualIInv,
           objects' \in [Object -> {None} \cup [block : DOMAIN virtual_blocks \cup {None}, m_max : 0..BlockSize]],
           virtual_blocks' \in [DOMAIN virtual_blocks -> (SUBSET Span) \cup {None}],
           moved \subseteq moved', moved' \subseteq DOMAIN virtual_blocks \cup {None},
           \A u \in Object : Owns(u)' => Ranges(u)' # None,
           \A u, w \in Object : Owns(u)' /\ Owns(w)' /\ objects'[u].block = objects'[w].block => u = w,
           \A c \in DOMAIN virtual_blocks : virtual_blocks'[c] \in {virtual_blocks[c], None},
           \A u \in Object : Owns(u) =>
               \/ objects'[u] = objects[u]
               \/ objects[u].block \in moved'
               \/ virtual_blocks'[objects[u].block] = None
    PROVE  VirtualIInv'
<1>1. VirtualTypes'
  <2>1. DOMAIN virtual_blocks = 1..Cardinality(DOMAIN virtual_blocks)
        /\ Cardinality(DOMAIN virtual_blocks) \in 0..MaxMade
    BY BlocksMade DEF VirtualIInv
  <2>. QED BY <2>1 DEF VirtualTypes
<1>2. ASSUME NEW c \in DOMAIN virtual_blocks', virtual_blocks'[c] # None, c \notin moved'
      PROVE  \E u \in Object :
                Owns(u)' /\ objects'[u].block = c /\ \A r \in virtual_blocks'[c] : r[1] + r[2] <= objects'[u].m_max
  <2>1. c \in DOMAIN virtual_blocks /\ virtual_blocks'[c] = virtual_blocks[c] /\ c \notin moved
    BY <1>2
  <2>2. PICK u \in Object :
            Owns(u) /\ objects[u].block = c /\ \A r \in virtual_blocks[c] : r[1] + r[2] <= objects[u].m_max
    BY <1>2, <2>1 DEF VirtualIInv, VirtualInv
  <2>3. objects'[u] = objects[u] /\ Owns(u)'
    BY <1>2, <2>2 DEF Owns
  <2>. QED BY <2>1, <2>2, <2>3
<1>3. \A u \in Object : objects'[u] # None =>
          objects'[u].block \in DOMAIN virtual_blocks' \cup {None} /\ objects'[u].m_max \in 0..BlockSize
  OBVIOUS
<1>. QED BY <1>1, <1>2, <1>3 DEF VirtualIInv, VirtualInv

\* The moves, which give the block that was here up, and the destructor.
LEMMA MovesOwned ==
    ASSUME VirtualIInv, NEW o \in Object,
           destroy(o) \/ \E u \in Object : MoveConstruct(o, u) \/ MoveAssign(o, u)
    PROVE  VirtualIInv'
<1>. DEFINE Blocks == DOMAIN virtual_blocks
            Objects == [block : Blocks \cup {None}, m_max : 0..BlockSize]
<1>1. /\ objects \in [Object -> {None} \cup Objects]
      /\ virtual_blocks \in [Blocks -> (SUBSET Span) \cup {None}]
      /\ moved \subseteq Blocks \cup {None}
  BY BlocksMade DEF VirtualIInv
<1>2. /\ None \notin Objects /\ 0 \in 0..BlockSize
      /\ \A u \in Object : objects[u] # None => objects[u] \in Objects
  <2>1. Blocks \subseteq 1..MaxMade
    BY BlocksMade, VirtualAssumption DEF VirtualIInv
  <2>2. Objects \subseteq VirtualObject
    BY <2>1 DEF VirtualObject
  <2>. QED BY <1>1, <2>2, VirtualAssumption
<1>3. /\ \A u \in Object : Owns(u) => Ranges(u) # None
      /\ \A u, w \in Object : Owns(u) /\ Owns(w) /\ objects[u].block = objects[w].block => u = w
  BY DEF VirtualIInv, VirtualInv
<1>4. CASE destroy(o)
  <2>1. /\ objects[o] # None /\ objects' = [objects EXCEPT ![o] = None] /\ moved' = moved
        /\ virtual_blocks' = IF Owns(o) THEN [virtual_blocks EXCEPT ![objects[o].block] = None] ELSE virtual_blocks
    BY <1>4 DEF destroy
  <2>2. objects' \in [Object -> {None} \cup Objects]
    BY <1>1, <2>1
  <2>3. /\ virtual_blocks' \in [Blocks -> (SUBSET Span) \cup {None}]
        /\ \A c \in Blocks : virtual_blocks'[c] \in {virtual_blocks[c], None}
        /\ \A c \in Blocks : ~(Owns(o) /\ c = objects[o].block) => virtual_blocks'[c] = virtual_blocks[c]
        /\ Owns(o) => virtual_blocks'[objects[o].block] = None
    BY <1>1, <2>1, VirtualFacts
  <2>4. \A u \in Object : (Owns(u)' <=> u # o /\ Owns(u)) /\ (u # o => objects'[u] = objects[u])
    BY <1>1, <2>1 DEF Owns
  <2>5. \A u \in Object : Owns(u)' => Ranges(u)' # None
    <3>. SUFFICES ASSUME NEW u \in Object, Owns(u), u # o PROVE virtual_blocks'[objects'[u].block] # None
      BY <2>4 DEF Ranges
    <3>1. objects[u].block \in Blocks /\ ~(Owns(o) /\ objects[u].block = objects[o].block)
      BY <1>3, VirtualFacts
    <3>. QED BY <1>3, <2>3, <2>4, <3>1 DEF Ranges
  <2>6. \A u, w \in Object : Owns(u)' /\ Owns(w)' /\ objects'[u].block = objects'[w].block => u = w
    BY <1>3, <2>4
  <2>7. \A u \in Object : Owns(u) => objects'[u] = objects[u] \/ virtual_blocks'[objects[u].block] = None
    BY <2>3, <2>4
  <2>. QED BY <1>1, <2>1, <2>2, <2>3, <2>5, <2>6, <2>7, OwnersTrade
<1>5. ASSUME NEW u \in Object, MoveConstruct(o, u) PROVE VirtualIInv'
  <2>. DEFINE into == [block |-> objects[u].block, m_max |-> 0]
              from == [block |-> None, m_max |-> objects[u].m_max]
  <2>1. /\ objects[o] = None /\ objects[u] # None /\ u # o
        /\ objects' = [objects EXCEPT ![o] = into, ![u].block = None]
        /\ moved' = moved \cup {objects[u].block} /\ virtual_blocks' = virtual_blocks
    BY <1>5 DEF MoveConstruct
  <2>2. /\ objects[u] \in Objects /\ into \in Objects /\ from \in Objects
        /\ [objects[u] EXCEPT !.block = None] = from
    BY <1>2, <2>1
  <2>3. /\ objects'[o] = into /\ objects'[u] = from
        /\ \A w \in Object \ {o, u} : objects'[w] = objects[w]
        /\ objects' \in [Object -> {None} \cup Objects]
    BY <1>1, <2>1, <2>2
  <2>4. /\ \A w \in Object : Owns(w)' <=> (w = o /\ Owns(u)) \/ (w \notin {o, u} /\ Owns(w))
        /\ objects'[o].block = objects[u].block
    BY <1>2, <2>1, <2>2, <2>3 DEF Owns
  <2>5. \A w \in Object : Owns(w)' => Ranges(w)' # None
    BY <1>3, <2>1, <2>3, <2>4 DEF Ranges
  <2>6. \A v, w \in Object : Owns(v)' /\ Owns(w)' /\ objects'[v].block = objects'[w].block => v = w
    BY <1>3, <2>3, <2>4
  <2>7. \A w \in Object : Owns(w) => objects'[w] = objects[w] \/ objects[w].block \in moved'
    BY <2>1, <2>3 DEF Owns
  <2>8. moved' \subseteq Blocks \cup {None} /\ moved \subseteq moved'
    BY <1>1, <2>1, <2>2
  <2>. QED BY <1>1, <2>1, <2>3, <2>5, <2>6, <2>7, <2>8, OwnersTrade
<1>6. ASSUME NEW u \in Object, MoveAssign(o, u) PROVE VirtualIInv'
  <2>. DEFINE into == [block |-> objects[u].block, m_max |-> objects[o].m_max]
              from == [block |-> None, m_max |-> objects[u].m_max]
  <2>1. /\ objects[o] # None /\ objects[u] # None
        /\ objects' = [[objects EXCEPT ![o].block = objects[u].block] EXCEPT ![u].block = None]
        /\ moved' = moved \cup {objects[o].block, objects[u].block} /\ virtual_blocks' = virtual_blocks
    BY <1>6 DEF MoveAssign
  <2>2. /\ objects[u] \in Objects /\ objects[o] \in Objects /\ into \in Objects /\ from \in Objects
        /\ [objects[o] EXCEPT !.block = objects[u].block] = into
        /\ [objects[u] EXCEPT !.block = None] = from /\ [into EXCEPT !.block = None] = [from EXCEPT !.m_max = objects[o].m_max]
    BY <1>2, <2>1
  <2>3. /\ u # o => objects'[o] = into
        /\ objects'[u].block = None /\ objects'[u] \in Objects
        /\ \A w \in Object \ {o, u} : objects'[w] = objects[w]
        /\ objects' \in [Object -> {None} \cup Objects]
    <3>1. CASE u = o
      <4>1. [into EXCEPT !.block = None] \in Objects /\ [into EXCEPT !.block = None].block = None
        BY <2>2
      <4>2. objects' = [objects EXCEPT ![o] = [into EXCEPT !.block = None]]
        BY <1>1, <2>1, <2>2, <3>1
      <4>. QED BY <1>1, <3>1, <4>1, <4>2
    <3>2. CASE u # o
      <4>1. objects' = [objects EXCEPT ![o] = into, ![u] = from]
        BY <1>1, <2>1, <2>2, <3>2
      <4>. QED BY <1>1, <2>2, <3>2, <4>1
    <3>. QED BY <3>1, <3>2
  <2>4. /\ \A w \in Object : Owns(w)' <=> (w = o /\ w # u /\ Owns(u)) \/ (w \notin {o, u} /\ Owns(w))
        /\ u # o => objects'[o].block = objects[u].block
    BY <1>2, <2>1, <2>2, <2>3 DEF Owns
  <2>5. \A w \in Object : Owns(w)' => Ranges(w)' # None
    BY <1>3, <2>1, <2>3, <2>4 DEF Ranges
  <2>6. \A v, w \in Object : Owns(v)' /\ Owns(w)' /\ objects'[v].block = objects'[w].block => v = w
    BY <1>3, <2>3, <2>4
  <2>7. \A w \in Object : Owns(w) => objects'[w] = objects[w] \/ objects[w].block \in moved'
    BY <2>1, <2>3 DEF Owns
  <2>8. moved' \subseteq Blocks \cup {None} /\ moved \subseteq moved'
    BY <1>1, <2>1, <2>2
  <2>. QED BY <1>1, <2>1, <2>3, <2>5, <2>6, <2>7, <2>8, OwnersTrade
<1>. QED BY <1>4, <1>5, <1>6

\* A virtual block has one owner until it is moved or destroyed, and max_id()
\* is then at or above the end of every range in use (allocate, free, reset,
\* the moves), for blocks of any size and any number of allocators.
THEOREM BlocksOwned == VirtualSpec => []VirtualInv
<1>1. VirtualInit => VirtualIInv
  <2>. SUFFICES ASSUME VirtualInit PROVE VirtualIInv
    OBVIOUS
  <2>1. objects = [o \in Object |-> None] /\ virtual_blocks = <<>> /\ moved = {}
    BY DEF VirtualInit
  <2>2. DOMAIN virtual_blocks = {} /\ 1..0 = {} /\ 0 \in 0..MaxMade
    BY <2>1, VirtualAssumption
  <2>3. virtual_blocks \in [1..0 -> (SUBSET Span) \cup {None}]
    BY <2>1, <2>2
  <2>4. VirtualTypes
    BY <2>1, <2>2, <2>3 DEF VirtualTypes
  <2>. QED BY <2>1, <2>2, <2>4 DEF VirtualIInv, VirtualInv, Owns
<1>2. VirtualIInv /\ [VirtualNext]_virtualVars => VirtualIInv'
  <2>. SUFFICES ASSUME VirtualIInv, [VirtualNext]_virtualVars PROVE VirtualIInv'
    OBVIOUS
  <2>1. CASE UNCHANGED virtualVars
    BY <2>1 DEF virtualVars, VirtualIInv, VirtualTypes, VirtualInv, Owns, Ranges
  <2>2. CASE VirtualNext
    BY <2>2, ConstructOwned, UseBounded, MovesOwned DEF VirtualNext
  <2>. QED BY <2>1, <2>2
<1>3. VirtualIInv => VirtualInv
  BY DEF VirtualIInv
<1>. QED BY <1>1, <1>2, <1>3, PTL DEF VirtualSpec

-----------------------------------------------------------------------------
(* IDManager.                                                              *)

\* The last id there was, at a value of the counter.
LastId(c) == IF c > MaxId THEN MaxId ELSE c - 1

\* What is in two sequences put together, and that it stays apart.
LEMMA ConcatApart ==
    ASSUME NEW S, NEW s \in Seq(S), NEW t \in Seq(S)
    PROVE  /\ s \o t \in Seq(S) /\ Len(s \o t) = Len(s) + Len(t)
           /\ Range(s \o t) = Range(s) \cup Range(t)
           /\ IsInjective(s) /\ IsInjective(t) /\ Range(s) \cap Range(t) = {} => IsInjective(s \o t)
<1>1. /\ Len(s) \in Nat /\ Len(t) \in Nat /\ DOMAIN s = 1..Len(s) /\ DOMAIN t = 1..Len(t)
      /\ s \o t \in Seq(S) /\ Len(s \o t) = Len(s) + Len(t)
      /\ DOMAIN (s \o t) = 1..Len(s) + Len(t)
  BY ConcatProperties, LenProperties
<1>2. \A i \in 1..Len(s) + Len(t) : (s \o t)[i] = IF i <= Len(s) THEN s[i] ELSE t[i - Len(s)]
  BY ConcatProperties
<1>3. \A j \in 1..Len(t) : Len(s) + j \in 1..Len(s) + Len(t) /\ (s \o t)[Len(s) + j] = t[j]
  BY <1>1, <1>2
<1>4. \A i \in 1..Len(s) : i \in 1..Len(s) + Len(t) /\ (s \o t)[i] = s[i]
  BY <1>1, <1>2
<1>5. \A i \in 1..Len(s) + Len(t) :
          \/ i \in 1..Len(s) /\ (s \o t)[i] = s[i]
          \/ \E j \in 1..Len(t) : i = Len(s) + j /\ (s \o t)[i] = t[j]
  <2>1. \A i \in 1..Len(s) + Len(t) : i \in 1..Len(s) \/ (i - Len(s) \in 1..Len(t) /\ i = Len(s) + (i - Len(s)))
    BY <1>1
  <2>. QED BY <1>3, <1>4, <2>1
<1>6. Range(s \o t) = Range(s) \cup Range(t)
  <2>1. ASSUME NEW y \in Range(s \o t) PROVE y \in Range(s) \cup Range(t)
    <3>1. PICK i \in 1..Len(s) + Len(t) : y = (s \o t)[i]
      BY <1>1 DEF Range
    <3>. QED BY <1>1, <1>5, <3>1 DEF Range
  <2>2. ASSUME NEW i \in 1..Len(s) PROVE s[i] \in Range(s \o t)
    BY <1>1, <1>4 DEF Range
  <2>3. ASSUME NEW j \in 1..Len(t) PROVE t[j] \in Range(s \o t)
    BY <1>1, <1>3 DEF Range
  <2>. QED BY <1>1, <2>1, <2>2, <2>3 DEF Range
<1>7. ASSUME IsInjective(s), IsInjective(t), Range(s) \cap Range(t) = {},
             NEW a \in DOMAIN (s \o t), NEW b \in DOMAIN (s \o t), (s \o t)[a] = (s \o t)[b]
      PROVE  a = b
  <2>1. \A i \in 1..Len(s), j \in 1..Len(t) : s[i] # t[j]
    BY <1>1, <1>7 DEF Range
  <2>2. \A i, j \in 1..Len(s) : s[i] = s[j] => i = j
    BY <1>1, <1>7 DEF IsInjective
  <2>3. \A i, j \in 1..Len(t) : t[i] = t[j] => i = j
    BY <1>1, <1>7 DEF IsInjective
  <2>4. CASE a \in 1..Len(s) /\ (s \o t)[a] = s[a]
    BY <1>1, <1>5, <1>7, <2>1, <2>2, <2>4
  <2>5. CASE \E j \in 1..Len(t) : a = Len(s) + j /\ (s \o t)[a] = t[j]
    BY <1>1, <1>5, <1>7, <2>1, <2>3, <2>5
  <2>. QED BY <1>1, <1>5, <2>4, <2>5
<1>. QED BY <1>1, <1>6, <1>7 DEF IsInjective

\* What is in the two parts of a sequence.
LEMMA SplitApart ==
    ASSUME NEW S, NEW s \in Seq(S), NEW k \in 0..Len(s)
    PROVE  LET a == SubSeq(s, 1, k)
               b == SubSeq(s, k + 1, Len(s))
           IN  /\ a \in Seq(S) /\ b \in Seq(S) /\ Len(a) = k /\ Len(b) = Len(s) - k
               /\ \A j \in 1..Len(s) - k : b[j] = s[k + j]
               /\ Range(s) = Range(a) \cup Range(b)
               /\ IsInjective(s) => IsInjective(a) /\ IsInjective(b) /\ Range(a) \cap Range(b) = {}
<1>. DEFINE a == SubSeq(s, 1, k)
            b == SubSeq(s, k + 1, Len(s))
            n == Len(s)
<1>1. /\ n \in Nat /\ k \in Nat /\ k <= n /\ DOMAIN s = 1..n /\ \A i \in 1..n : s[i] \in S
      /\ 1 \in Int /\ k \in Int /\ k + 1 \in Int /\ n \in Int
  BY LenProperties, ElementOfSeq
<1>2. /\ a \in Seq(S) /\ Len(a) = k /\ \A j \in 1..k : a[j] = s[j]
  <2>1. \A i \in 1..k : s[i] \in S
    BY <1>1
  <2>2. /\ a \in Seq(S) /\ Len(a) = (IF 1 <= k THEN k - 1 + 1 ELSE 0)
        /\ \A j \in 1..k - 1 + 1 : a[j] = s[1 + j - 1]
    BY <1>1, <2>1, SubSeqProperties
  <2>. QED BY <1>1, <2>2
<1>3. /\ b \in Seq(S) /\ Len(b) = n - k /\ \A j \in 1..n - k : b[j] = s[k + j]
  <2>1. \A i \in k + 1..n : s[i] \in S
    BY <1>1
  <2>2. /\ b \in Seq(S) /\ Len(b) = (IF k + 1 <= n THEN n - (k + 1) + 1 ELSE 0)
        /\ \A j \in 1..n - (k + 1) + 1 : b[j] = s[k + 1 + j - 1]
    BY <1>1, <2>1, SubSeqProperties
  <2>. HIDE DEF b
  <2>3. Len(b) = n - k
    <3>1. CASE k + 1 <= n
      <4>1. Len(b) = n - (k + 1) + 1
        BY <2>2, <3>1
      <4>. QED BY <1>1, <4>1
    <3>2. CASE ~(k + 1 <= n)
      <4>1. Len(b) = 0
        BY <2>2, <3>2
      <4>2. \A p, q \in Nat : p <= q /\ ~(p + 1 <= q) => q - p = 0
        OBVIOUS
      <4>3. n - k = 0
        BY <1>1, <3>2, <4>2
      <4>. QED BY <4>1, <4>3
    <3>. QED BY <3>1, <3>2
  <2>4. ASSUME NEW j \in 1..n - k PROVE b[j] = s[k + j]
    <3>1. j \in 1..n - (k + 1) + 1 /\ k + 1 + j - 1 = k + j
      BY <1>1
    <3>. QED BY <2>2, <3>1
  <2>. QED BY <2>2, <2>3, <2>4
<1>. HIDE DEF a, b
<1>4. DOMAIN a = 1..k /\ DOMAIN b = 1..n - k
  BY <1>2, <1>3, LenProperties
<1>5. \A i \in 1..n : (i \in 1..k /\ s[i] = a[i]) \/ (i - k \in 1..n - k /\ s[i] = b[i - k])
  BY <1>1, <1>2, <1>3
<1>6. \A j \in 1..n - k : k + j \in 1..n /\ k + j \notin 1..k
  BY <1>1
<1>7. Range(s) = Range(a) \cup Range(b)
  <2>1. Range(s) \subseteq Range(a) \cup Range(b)
    BY <1>1, <1>4, <1>5 DEF Range
  <2>2. Range(a) \subseteq Range(s) /\ Range(b) \subseteq Range(s)
    <3>1. ASSUME NEW i \in 1..k PROVE a[i] \in Range(s)
      BY <1>1, <1>2 DEF Range
    <3>2. ASSUME NEW j \in 1..n - k PROVE b[j] \in Range(s)
      BY <1>1, <1>3, <1>6 DEF Range
    <3>. QED BY <1>4, <3>1, <3>2 DEF Range
  <2>. QED BY <2>1, <2>2
<1>8. ASSUME IsInjective(s) PROVE IsInjective(a) /\ IsInjective(b) /\ Range(a) \cap Range(b) = {}
  <2>1. \A i, j \in 1..n : s[i] = s[j] => i = j
    BY <1>1, <1>8 DEF IsInjective
  <2>2. \A i, j \in 1..k : a[i] = a[j] => i = j
    BY <1>1, <1>2, <2>1
  <2>3. ASSUME NEW i \in 1..n - k, NEW j \in 1..n - k, b[i] = b[j] PROVE i = j
    <3>1. k + i \in 1..n /\ k + j \in 1..n /\ s[k + i] = s[k + j]
      BY <1>3, <1>6, <2>3
    <3>2. k + i = k + j
      BY <2>1, <3>1
    <3>. QED BY <1>1, <3>2
  <2>4. ASSUME NEW i \in 1..k, NEW j \in 1..n - k PROVE a[i] # b[j]
    <3>1. i \in 1..n /\ k + j \in 1..n /\ i # k + j
      BY <1>1, <1>6
    <3>2. s[i] # s[k + j]
      BY <2>1, <3>1
    <3>. QED BY <1>2, <1>3, <3>2
  <2>5. Range(a) \cap Range(b) = {}
    BY <1>4, <2>4 DEF Range
  <2>. QED BY <1>4, <2>2, <2>3, <2>5 DEF IsInjective
<1>. QED BY <1>2, <1>3, <1>7, <1>8 DEF a, b

\* The types, as the proofs below use them.
LEMMA IdsTypes ==
    ASSUME IdsUnique
    PROVE  /\ Start \in Nat /\ MaxId \in Nat /\ MaxVec \in Nat /\ MaxCounter \in Nat
           /\ m_freed_ids \in Seq(0..MaxId) /\ Len(m_freed_ids) \in Nat
           /\ m_id_counter \in Nat /\ Start <= m_id_counter /\ m_id_counter <= MaxCounter
           /\ held \subseteq 0..MaxId /\ vec \in Seq(0..MaxId) /\ Len(vec) \in Nat /\ Len(vec) <= MaxVec
           /\ torn \in BOOLEAN
           /\ DOMAIN m_freed_ids = 1..Len(m_freed_ids)
           /\ \A i \in 1..Len(m_freed_ids) : m_freed_ids[i] \in 0..MaxId
  BY IdsAssumption, LenProperties, ElementOfSeq DEF IdsUnique, IdsTypeOK

\* What n ids are when there are that many freed ones: the last of them.
LEMMA TakenFromFreed ==
    ASSUME IdsUnique, NEW n \in Nat, n <= Len(m_freed_ids), Consume(n)
    PROVE  /\ Taken(n) \in Seq(0..MaxId) /\ Len(Taken(n)) = n
           /\ m_freed_ids' \in Seq(0..MaxId) /\ m_id_counter' = m_id_counter
           /\ Freed = Range(m_freed_ids') \cup Range(Taken(n))
           /\ ~torn => /\ IsInjective(Taken(n)) /\ IsInjective(m_freed_ids')
                       /\ Range(m_freed_ids') \cap Range(Taken(n)) = {}
<1>. DEFINE L == Len(m_freed_ids)
            k == L - n
            b == SubSeq(m_freed_ids, k + 1, L)
            take == Taken(n)
<1>0. /\ MaxId \in Nat /\ m_freed_ids \in Seq(0..MaxId) /\ L \in Nat /\ n <= L /\ k \in 0..L /\ L - k = n
      /\ 1..k + 0 = 1..k /\ \A i \in 1..L : m_freed_ids[i] \in 0..MaxId
  BY IdsTypes
<1>1. m_freed_ids' = SubSeq(m_freed_ids, 1, k) /\ m_id_counter' = m_id_counter
  BY DEF Consume
<1>2. /\ m_freed_ids' \in Seq(0..MaxId) /\ b \in Seq(0..MaxId) /\ Len(b) = n
      /\ \A j \in 1..n : b[j] = m_freed_ids[k + j]
      /\ Freed = Range(m_freed_ids') \cup Range(b)
      /\ ~torn => IsInjective(m_freed_ids') /\ IsInjective(b) /\ Range(m_freed_ids') \cap Range(b) = {}
  <2>. DEFINE a == SubSeq(m_freed_ids, 1, k)
  <2>1. /\ a \in Seq(0..MaxId) /\ b \in Seq(0..MaxId) /\ Len(b) = L - k
        /\ \A j \in 1..L - k : b[j] = m_freed_ids[k + j]
        /\ Range(m_freed_ids) = Range(a) \cup Range(b)
        /\ IsInjective(m_freed_ids) => IsInjective(a) /\ IsInjective(b) /\ Range(a) \cap Range(b) = {}
    <3>. HIDE DEF k
    <3>. QED BY <1>0, SplitApart
  <2>. HIDE DEF a, b, k, L
  <2>2. ~torn => IsInjective(m_freed_ids)
    BY DEF IdsUnique
  <2>3. m_freed_ids' = a
    BY <1>1 DEF a
  <2>. QED BY <1>0, <2>1, <2>2, <2>3 DEF Freed
<1>. HIDE DEF b
<1>3. DOMAIN take = 1..n /\ \A i \in 1..n : take[i] = m_freed_ids[L - i + 1]
  BY <1>0 DEF Taken, Nth
<1>4. DOMAIN b = 1..n
  BY <1>2, LenProperties
<1>. HIDE DEF take
<1>5. \A i \in 1..n : n - i + 1 \in 1..n /\ take[i] = b[n - i + 1]
  <2>1. ASSUME NEW i \in 1..n PROVE n - i + 1 \in 1..n /\ k + (n - i + 1) = L - i + 1
    BY <1>0
  <2>. QED BY <1>2, <1>3, <2>1
<1>6. \A j \in 1..n : n - j + 1 \in 1..n /\ b[j] = take[n - j + 1]
  <2>1. \A j \in 1..n : n - j + 1 \in 1..n /\ n - (n - j + 1) + 1 = j
    OBVIOUS
  <2>. QED BY <1>5, <2>1
<1>7. Range(take) = Range(b)
  <2>1. ASSUME NEW i \in 1..n PROVE take[i] \in Range(b)
    BY <1>4, <1>5 DEF Range
  <2>2. ASSUME NEW j \in 1..n PROVE b[j] \in Range(take)
    BY <1>3, <1>6 DEF Range
  <2>. QED BY <1>3, <1>4, <2>1, <2>2 DEF Range
<1>8. ASSUME IsInjective(b) PROVE IsInjective(take)
  <2>1. ASSUME NEW i \in 1..n, NEW j \in 1..n, take[i] = take[j] PROVE i = j
    <3>1. n - i + 1 = n - j + 1
      BY <1>4, <1>5, <1>8, <2>1 DEF IsInjective
    <3>. QED BY <3>1
  <2>. QED BY <1>3, <2>1 DEF IsInjective
<1>9. take \in Seq(0..MaxId) /\ Len(take) = n
  <2>1. \A i \in 1..n : L - i + 1 \in 1..L
    BY <1>0
  <2>2. \A i \in 1..n : Nth(i) \in 0..MaxId
    BY <1>0, <2>1 DEF Nth
  <2>. QED BY <2>2, LenProperties DEF take, Taken
<1>. QED BY <1>1, <1>2, <1>7, <1>8, <1>9 DEF take

\* And when there are fewer: all of them, then the ids after the counter.
LEMMA TakenFromCounter ==
    ASSUME IdsUnique, NEW n \in Nat, n > Len(m_freed_ids), ~Throws(n), Consume(n)
    PROVE  /\ Taken(n) \in Seq(0..MaxId) /\ Len(Taken(n)) = n
           /\ m_freed_ids' = <<>> /\ m_id_counter' \in Nat /\ m_id_counter < m_id_counter'
           /\ m_id_counter' <= MaxCounter /\ m_id_counter' <= MaxId + 1
           /\ Range(Taken(n)) = Freed \cup (m_id_counter..m_id_counter' - 1)
           /\ ~torn => IsInjective(Taken(n))
<1>. DEFINE L == Len(m_freed_ids)
            c == m_id_counter
            take == Taken(n)
<1>0. /\ MaxId \in Nat /\ L \in Nat /\ n > L /\ c \in Nat /\ Start \in Nat
      /\ DOMAIN m_freed_ids = 1..L
      /\ \A i \in 1..L : m_freed_ids[i] \in 0..MaxId
  BY IdsTypes
<1>1. /\ m_freed_ids' = <<>> /\ m_id_counter' = c + (n - L) /\ c + (n - L) <= MaxCounter
      /\ c + (n - L - 1) <= MaxId
  BY <1>0 DEF Consume, Throws, Nth
<1>. HIDE DEF L, c
<1>2. /\ DOMAIN take = 1..n
      /\ \A i \in 1..L : i \in 1..n /\ L - i + 1 \in 1..L /\ take[i] = m_freed_ids[L - i + 1]
      /\ \A i \in L + 1..n : i \in 1..n /\ take[i] = c + (i - L - 1)
  BY <1>0 DEF Taken, Nth, L, c
<1>3. \A i \in 1..n : i \in 1..L \/ i \in L + 1..n
  BY <1>0
<1>4. take \in Seq(0..MaxId) /\ Len(take) = n
  <2>1. \A i \in L + 1..n : c + (i - L - 1) \in 0..MaxId
    BY <1>0, <1>1
  <2>2. \A i \in 1..n : take[i] \in 0..MaxId
    BY <1>0, <1>2, <1>3, <2>1
  <2>3. \A i \in 1..n : Nth(i) \in 0..MaxId
    BY <2>2 DEF Taken
  <2>. QED BY <2>3, LenProperties DEF Taken
<1>. HIDE DEF take
<1>5. Range(take) = Freed \cup (c..c + (n - L) - 1)
  <2>1. ASSUME NEW i \in 1..L PROVE take[i] \in Freed
    BY <1>0, <1>2 DEF Freed, Range
  <2>2. ASSUME NEW i \in L + 1..n PROVE take[i] \in c..c + (n - L) - 1
    BY <1>0, <1>2
  <2>3. ASSUME NEW i \in 1..L PROVE m_freed_ids[i] \in Range(take)
    <3>1. L - i + 1 \in 1..L /\ L - (L - i + 1) + 1 = i
      BY <1>0
    <3>. QED BY <1>2, <3>1 DEF Range
  <2>4. ASSUME NEW x \in c..c + (n - L) - 1 PROVE x \in Range(take)
    <3>1. x - c + L + 1 \in L + 1..n /\ c + ((x - c + L + 1) - L - 1) = x
      BY <1>0
    <3>. QED BY <1>2, <3>1 DEF Range
  <2>5. Range(take) \subseteq Freed \cup (c..c + (n - L) - 1)
    BY <1>2, <1>3, <2>1, <2>2 DEF Range
  <2>6. Freed \subseteq Range(take)
    BY <1>0, <2>3 DEF Freed, Range
  <2>. QED BY <2>4, <2>5, <2>6
<1>6. ASSUME ~torn PROVE IsInjective(take)
  <2>1. /\ IsInjective(m_freed_ids) /\ Freed \subseteq Start..LastId(c)
    BY <1>6 DEF IdsUnique, LastId, c
  <2>2. LastId(c) = c - 1
    BY <1>0, <1>1 DEF LastId
  <2>3. \A i \in 1..L : m_freed_ids[i] \in Start..c - 1
    BY <1>0, <2>1, <2>2 DEF Freed, Range
  <2>4. ASSUME NEW i \in 1..L, NEW j \in 1..L, take[i] = take[j] PROVE i = j
    <3>1. L - i + 1 \in 1..L /\ L - j + 1 \in 1..L /\ m_freed_ids[L - i + 1] = m_freed_ids[L - j + 1]
      BY <1>2, <2>4
    <3>2. L - i + 1 = L - j + 1
      BY <1>0, <2>1, <3>1 DEF IsInjective
    <3>. QED BY <1>0, <3>2
  <2>5. ASSUME NEW i \in 1..L, NEW j \in L + 1..n PROVE take[i] # take[j]
    <3>1. take[i] < c
      BY <1>0, <1>2, <2>3
    <3>. QED BY <1>0, <1>2, <3>1
  <2>6. ASSUME NEW i \in L + 1..n, NEW j \in L + 1..n, take[i] = take[j] PROVE i = j
    BY <1>0, <1>2, <2>6
  <2>. QED BY <1>2, <1>3, <2>4, <2>5, <2>6 DEF IsInjective
<1>. QED BY <1>0, <1>1, <1>4, <1>5, <1>6 DEF c, L, take

\* n ids taken are nowhere else, and all there are stay in one place.
LEMMA TakenApart ==
    ASSUME IdsUnique, NEW n \in Nat, ~Throws(n), Consume(n)
    PROVE  /\ Taken(n) \in Seq(0..MaxId) /\ Len(Taken(n)) = n
           /\ m_freed_ids' \in Seq(0..MaxId) /\ m_id_counter' \in Start..MaxCounter
           /\ ~torn =>
                /\ IsInjective(Taken(n)) /\ IsInjective(m_freed_ids')
                /\ Range(Taken(n)) \cap Range(m_freed_ids') = {}
                /\ (held \cup InVec) \cap (Range(Taken(n)) \cup Range(m_freed_ids')) = {}
                /\ held \cup InVec \cup Range(Taken(n)) \cup Range(m_freed_ids')
                     = Start..LastId(m_id_counter')
<1>. DEFINE take == Range(Taken(n))
            rest == Range(m_freed_ids')
            c == m_id_counter
<1>0. /\ MaxId \in Nat /\ Start \in Nat /\ c \in Nat /\ Start <= c /\ c <= MaxCounter /\ MaxCounter \in Nat
      /\ Len(m_freed_ids) \in Nat
  BY IdsTypes
<1>1. ~torn => /\ held \cap Freed = {} /\ InVec \cap Freed = {}
               /\ held \cup InVec \cup Freed = Start..LastId(c)
  BY DEF IdsUnique, LastId
<1>2. CASE n <= Len(m_freed_ids)
  BY <1>0, <1>1, <1>2, TakenFromFreed
<1>3. CASE n > Len(m_freed_ids)
  <2>1. /\ Taken(n) \in Seq(0..MaxId) /\ Len(Taken(n)) = n
        /\ m_freed_ids' = <<>> /\ m_id_counter' \in Nat /\ c < m_id_counter'
        /\ m_id_counter' <= MaxCounter /\ m_id_counter' <= MaxId + 1
        /\ take = Freed \cup (c..m_id_counter' - 1)
        /\ ~torn => IsInjective(Taken(n))
    BY <1>3, TakenFromCounter
  <2>2. m_freed_ids' \in Seq(0..MaxId) /\ rest = {} /\ IsInjective(m_freed_ids')
    BY <2>1, EmptySeq DEF Range, IsInjective
  <2>. HIDE DEF take, rest
  <2>. DEFINE d == m_id_counter'
  <2>3. c \in Nat /\ d \in Nat /\ Start \in Nat /\ MaxId \in Nat /\ Start <= c /\ c < d /\ d <= MaxId + 1
    BY <1>0, <2>1
  <2>4. (Start..c - 1) \cap (c..d - 1) = {} /\ (Start..c - 1) \cup (c..d - 1) = Start..d - 1
    <3>. HIDE DEF c, d
    <3>. QED BY <2>3
  <2>5. LastId(c) = c - 1 /\ LastId(m_id_counter') = m_id_counter' - 1
    <3>1. LastId(d) = d - 1
      <4>. HIDE DEF d
      <4>1. CASE d > MaxId
        <5>1. d = MaxId + 1
          BY <2>3, <4>1
        <5>. QED BY <2>3, <4>1, <5>1 DEF LastId
      <4>2. CASE ~(d > MaxId)
        BY <4>2 DEF LastId
      <4>. QED BY <4>1, <4>2
    <3>2. LastId(c) = c - 1
      <4>. HIDE DEF c, d
      <4>1. ~(c > MaxId)
        BY <2>3
      <4>. QED BY <4>1 DEF LastId
    <3>. QED BY <3>1, <3>2
  <2>6. ASSUME ~torn
        PROVE  /\ (held \cup InVec) \cap take = {}
               /\ held \cup InVec \cup take = Start..m_id_counter' - 1
    <3>1. held \cup InVec \cup Freed = Start..c - 1
      BY <1>1, <2>5, <2>6
    <3>. QED BY <1>1, <2>1, <2>6, <2>4, <3>1
  <2>. QED BY <1>0, <2>1, <2>2, <2>5, <2>6 DEF take, rest
<1>. QED BY <1>0, <1>2, <1>3

LEMMA NewIdKeeps == IdsUnique /\ new_id => IdsUnique'
<1>. SUFFICES ASSUME IdsUnique, new_id PROVE IdsUnique'
  OBVIOUS
<1>0. /\ MaxId \in Nat /\ Start \in Nat /\ m_id_counter \in Nat /\ Start <= m_id_counter /\ MaxCounter \in Nat
      /\ Len(m_freed_ids) \in Nat /\ held \subseteq 0..MaxId /\ vec \in Seq(0..MaxId) /\ Len(vec) <= MaxVec
      /\ torn \in BOOLEAN
  BY IdsTypes
<1>1. Consume(1) /\ vec' = vec /\ torn' = torn /\ held' = IF Throws(1) THEN held ELSE held \cup {Nth(1)}
  BY DEF new_id
<1>2. CASE Throws(1)
  <2>1. m_freed_ids = <<>> /\ Len(m_freed_ids) = 0 /\ m_id_counter > MaxId
    <3>1. Len(m_freed_ids) = 0 /\ m_id_counter + (1 - 0 - 1) > MaxId
      BY <1>0, <1>2 DEF Throws, Nth
    <3>. QED BY <1>0, <3>1, EmptySeq, IdsTypes
  <2>2. m_freed_ids' = m_freed_ids /\ m_id_counter' = m_id_counter + 1 /\ m_id_counter + 1 <= MaxCounter
    BY <1>1, <2>1 DEF Consume
  <2>3. m_id_counter + 1 > MaxId /\ m_id_counter + 1 \in Start..MaxCounter
    BY <1>0, <2>1, <2>2
  <2>4. held' = held
    BY <1>1, <1>2
  <2>. QED BY <1>0, <1>1, <2>1, <2>2, <2>3, <2>4 DEF IdsUnique, IdsTypeOK, InVec, Freed
<1>3. CASE ~Throws(1)
  <2>1. /\ Taken(1) \in Seq(0..MaxId) /\ Len(Taken(1)) = 1
        /\ m_freed_ids' \in Seq(0..MaxId) /\ m_id_counter' \in Start..MaxCounter
        /\ ~torn =>
             /\ IsInjective(m_freed_ids')
             /\ Range(Taken(1)) \cap Range(m_freed_ids') = {}
             /\ (held \cup InVec) \cap (Range(Taken(1)) \cup Range(m_freed_ids')) = {}
             /\ held \cup InVec \cup Range(Taken(1)) \cup Range(m_freed_ids') = Start..LastId(m_id_counter')
    BY <1>1, <1>3, TakenApart
  <2>2. Range(Taken(1)) = {Nth(1)} /\ Nth(1) \in 0..MaxId
    <3>1. DOMAIN Taken(1) = {1} /\ Taken(1)[1] = Nth(1)
      <4>1. 1..1 = {1}
        OBVIOUS
      <4>. QED BY <4>1 DEF Taken
    <3>2. Taken(1)[1] \in 0..MaxId
      <4>. DEFINE s == Taken(1)
      <4>1. s \in Seq(0..MaxId) /\ Len(s) = 1
        BY <2>1 DEF s
      <4>. HIDE DEF s
      <4>2. s[1] \in 0..MaxId
        <5>1. s \in [1..1 -> 0..MaxId]
          BY <4>1, LenProperties
        <5>. QED BY <5>1
      <4>. QED BY <4>2 DEF s
    <3>. QED BY <3>1, <3>2 DEF Range
  <2>3. held' = held \cup {Nth(1)}
    BY <1>1, <1>3
  <2>4. InVec' = InVec /\ Freed' = Range(m_freed_ids')
    BY <1>1 DEF InVec, Freed
  <2>5. IdsTypeOK'
    BY <1>0, <1>1, <2>1, <2>2, <2>3 DEF IdsTypeOK
  <2>6. ASSUME ~torn
        PROVE  /\ IsInjective(vec') /\ IsInjective(m_freed_ids')
               /\ held' \cap InVec' = {} /\ held' \cap Freed' = {} /\ InVec' \cap Freed' = {}
               /\ held' \cup InVec' \cup Freed' = Start..LastId(m_id_counter')
    <3>1. IsInjective(vec) /\ held \cap InVec = {}
      BY <2>6 DEF IdsUnique
    <3>. QED BY <1>1, <2>1, <2>2, <2>3, <2>4, <2>6, <3>1
  <2>. QED BY <1>1, <2>5, <2>6 DEF IdsUnique, LastId
<1>. QED BY <1>2, <1>3

LEMMA FreeIdKeeps == ASSUME NEW id \in held PROVE IdsUnique /\ free_id(id) => IdsUnique'
<1>. SUFFICES ASSUME IdsUnique, free_id(id) PROVE IdsUnique'
  OBVIOUS
<1>0. /\ m_freed_ids \in Seq(0..MaxId) /\ held \subseteq 0..MaxId /\ id \in held
      /\ vec \in Seq(0..MaxId) /\ Len(vec) <= MaxVec /\ torn \in BOOLEAN /\ m_id_counter \in Start..MaxCounter
  BY IdsTypes DEF IdsUnique, IdsTypeOK
<1>1. /\ held' = held \ {id} /\ m_freed_ids' = Append(m_freed_ids, id)
      /\ m_id_counter' = m_id_counter /\ vec' = vec /\ torn' = torn
  BY DEF free_id
<1>2. /\ <<id>> \in Seq(0..MaxId) /\ Range(<<id>>) = {id} /\ IsInjective(<<id>>)
  BY <1>0 DEF Range, IsInjective
<1>3. m_freed_ids' = m_freed_ids \o <<id>>
  BY <1>0, <1>1, AppendIsConcat
<1>4. /\ m_freed_ids' \in Seq(0..MaxId) /\ Freed' = Freed \cup {id} /\ InVec' = InVec
      /\ IsInjective(m_freed_ids) /\ Freed \cap {id} = {} => IsInjective(m_freed_ids')
  <2>. DEFINE u == m_freed_ids \o <<id>>
  <2>1. /\ u \in Seq(0..MaxId) /\ Len(u) = Len(m_freed_ids) + Len(<<id>>)
        /\ Range(u) = Range(m_freed_ids) \cup Range(<<id>>)
        /\ IsInjective(m_freed_ids) /\ IsInjective(<<id>>) /\ Range(m_freed_ids) \cap Range(<<id>>) = {}
             => IsInjective(u)
    BY <1>0, <1>2, ConcatApart
  <2>. HIDE DEF u
  <2>2. m_freed_ids' = u
    BY <1>3 DEF u
  <2>. QED BY <1>1, <1>2, <2>1, <2>2 DEF Freed, InVec
<1>5. IdsTypeOK'
  BY <1>0, <1>1, <1>4 DEF IdsTypeOK
<1>6. ASSUME ~torn
      PROVE  /\ IsInjective(vec') /\ IsInjective(m_freed_ids')
             /\ held' \cap InVec' = {} /\ held' \cap Freed' = {} /\ InVec' \cap Freed' = {}
             /\ held' \cup InVec' \cup Freed' = Start..LastId(m_id_counter')
  <2>1. /\ IsInjective(vec) /\ IsInjective(m_freed_ids)
        /\ held \cap InVec = {} /\ held \cap Freed = {} /\ InVec \cap Freed = {}
        /\ held \cup InVec \cup Freed = Start..LastId(m_id_counter)
    BY <1>6 DEF IdsUnique, LastId
  <2>. QED BY <1>0, <1>1, <1>4, <2>1
<1>. QED BY <1>1, <1>5, <1>6 DEF IdsUnique, LastId

\* The first call that throws: one past the freed ids, and past the largest.
LEMMA FirstFailure ==
    ASSUME IdsUnique, NEW n \in Nat, Throws(n)
    PROVE  /\ Failing(n) \in 1..n /\ Throws(Failing(n))
           /\ \A j \in 1..Failing(n) - 1 : ~Throws(j)
<1>. DEFINE L == Len(m_freed_ids)
            k == IF m_id_counter > MaxId THEN L + 1 ELSE L + 2 + MaxId - m_id_counter
<1>0. L \in Nat /\ m_id_counter \in Nat /\ MaxId \in Nat
  BY IdsTypes
<1>1. \A j \in Nat : Throws(j) <=> j > L /\ m_id_counter + (j - L - 1) > MaxId
  BY <1>0 DEF Throws, Nth
<1>. HIDE DEF L
<1>2. n > L /\ m_id_counter + (n - L - 1) > MaxId
  BY <1>1
<1>3. /\ k \in 1..n /\ k > L /\ m_id_counter + (k - L - 1) > MaxId
      /\ \A j \in 1..k - 1 : ~(j > L /\ m_id_counter + (j - L - 1) > MaxId)
  BY <1>0, <1>2
<1>. HIDE DEF k
<1>4. Throws(k) /\ \A j \in 1..k - 1 : ~Throws(j)
  BY <1>1, <1>3
<1>. QED BY <1>3, <1>4 DEF Failing

\* A fill_ids that throws half-way leaves the types right, and no more.
LEMMA GrowThrows ==
    ASSUME NEW n \in 0..MaxVec, IdsUnique, Grow(n), Throws(n - Len(vec))
    PROVE  IdsTypeOK' /\ torn'
<1>. DEFINE more == n - Len(vec)
            k == Failing(more)
            L == Len(m_freed_ids)
            tail == [i \in 1..more |-> IF i < k THEN Nth(i) ELSE 0]
<1>0. /\ MaxId \in Nat /\ Start \in Nat /\ MaxVec \in Nat /\ MaxCounter \in Nat /\ L \in Nat
      /\ m_id_counter \in Nat /\ Start <= m_id_counter /\ held \subseteq 0..MaxId
      /\ vec \in Seq(0..MaxId) /\ Len(vec) \in Nat /\ Len(vec) <= MaxVec
      /\ \A i \in 1..L : m_freed_ids[i] \in 0..MaxId
  BY IdsTypes
<1>1. /\ n > Len(vec) /\ Consume(k) /\ vec' = vec \o tail /\ torn' = TRUE /\ held' = held
  BY DEF Grow
<1>2. more \in Nat /\ Len(vec) + more = n /\ n <= MaxVec
  BY <1>0, <1>1
<1>. HIDE DEF more
<1>3. Throws(more)
  BY DEF more
<1>4. k \in 1..more /\ Throws(k) /\ \A j \in 1..k - 1 : ~Throws(j)
  BY <1>2, <1>3, FirstFailure
<1>. HIDE DEF k
<1>5. k \in Nat /\ k > L
  BY <1>4 DEF Throws
<1>6. m_freed_ids' = <<>> /\ m_id_counter' = m_id_counter + (k - L) /\ m_id_counter' <= MaxCounter
  BY <1>0, <1>1, <1>5 DEF Consume
<1>7. m_freed_ids' \in Seq(0..MaxId) /\ m_id_counter' \in Start..MaxCounter
  BY <1>0, <1>5, <1>6
<1>8. ASSUME NEW i \in 1..more, i < k PROVE Nth(i) \in 0..MaxId
  <2>1. i \in 1..k - 1 /\ i \in Nat
    BY <1>2, <1>5, <1>8
  <2>2. ~Throws(i)
    BY <1>4, <2>1
  <2>3. CASE i <= L
    <3>1. L - i + 1 \in 1..L
      BY <1>0, <2>1, <2>3
    <3>. QED BY <1>0, <2>3, <3>1 DEF Nth
  <2>4. CASE i > L
    BY <1>0, <2>1, <2>2, <2>4 DEF Nth, Throws
  <2>. QED BY <1>0, <2>1, <2>3, <2>4
<1>9. tail \in Seq(0..MaxId) /\ Len(tail) = more
  <2>1. \A i \in 1..more : (IF i < k THEN Nth(i) ELSE 0) \in 0..MaxId
    BY <1>0, <1>8
  <2>. QED BY <1>2, <2>1, LenProperties
<1>. HIDE DEF tail
<1>10. vec' \in Seq(0..MaxId) /\ Len(vec') <= MaxVec
  <2>1. vec \o tail \in Seq(0..MaxId) /\ Len(vec \o tail) = Len(vec) + Len(tail)
    BY <1>0, <1>9, ConcatProperties
  <2>. QED BY <1>1, <1>2, <1>9, <2>1
<1>. QED BY <1>0, <1>1, <1>7, <1>10 DEF IdsTypeOK

LEMMA GrowKeeps == ASSUME NEW n \in 0..MaxVec PROVE IdsUnique /\ Grow(n) => IdsUnique'
<1>. SUFFICES ASSUME IdsUnique, Grow(n) PROVE IdsUnique'
  OBVIOUS
<1>. DEFINE more == n - Len(vec)
            take == Taken(more)
<1>0. /\ vec \in Seq(0..MaxId) /\ Len(vec) \in Nat /\ MaxVec \in Nat /\ held \subseteq 0..MaxId
      /\ torn \in BOOLEAN
  BY IdsTypes
<1>1. CASE Throws(more)
  BY <1>1, GrowThrows DEF IdsUnique
<1>2. CASE ~Throws(more)
  <2>1. n > Len(vec) /\ Consume(more) /\ vec' = vec \o take /\ torn' = torn /\ held' = held
    BY <1>2 DEF Grow
  <2>2. more \in Nat /\ Len(vec) + more = n /\ n <= MaxVec
    BY <1>0, <2>1
  <2>. HIDE DEF more
  <2>3. /\ take \in Seq(0..MaxId) /\ Len(take) = more
        /\ m_freed_ids' \in Seq(0..MaxId) /\ m_id_counter' \in Start..MaxCounter
        /\ ~torn =>
             /\ IsInjective(take) /\ IsInjective(m_freed_ids')
             /\ Range(take) \cap Range(m_freed_ids') = {}
             /\ (held \cup InVec) \cap (Range(take) \cup Range(m_freed_ids')) = {}
             /\ held \cup InVec \cup Range(take) \cup Range(m_freed_ids') = Start..LastId(m_id_counter')
    BY <1>2, <2>1, <2>2, TakenApart
  <2>. HIDE DEF take
  <2>4. /\ vec \o take \in Seq(0..MaxId) /\ Len(vec \o take) = Len(vec) + Len(take)
        /\ Range(vec \o take) = Range(vec) \cup Range(take)
        /\ IsInjective(vec) /\ IsInjective(take) /\ Range(vec) \cap Range(take) = {} => IsInjective(vec \o take)
    BY <1>0, <2>3, ConcatApart
  <2>5. Freed' = Range(m_freed_ids') /\ InVec' = InVec \cup Range(take)
    BY <2>1, <2>4 DEF Freed, InVec
  <2>6. IdsTypeOK'
    BY <1>0, <2>1, <2>2, <2>3, <2>4 DEF IdsTypeOK
  <2>7. ASSUME ~torn
        PROVE  /\ IsInjective(vec') /\ IsInjective(m_freed_ids')
               /\ held' \cap InVec' = {} /\ held' \cap Freed' = {} /\ InVec' \cap Freed' = {}
               /\ held' \cup InVec' \cup Freed' = Start..LastId(m_id_counter')
    <3>1. IsInjective(vec) /\ held \cap InVec = {}
      BY <2>7 DEF IdsUnique
    <3>2. IsInjective(vec')
      BY <2>1, <2>3, <2>4, <2>7, <3>1 DEF InVec
    <3>. QED BY <2>1, <2>3, <2>5, <2>7, <3>1, <3>2
  <2>. QED BY <2>1, <2>6, <2>7 DEF IdsUnique, LastId
<1>. QED BY <1>1, <1>2

LEMMA ShrinkKeeps == ASSUME NEW n \in 0..MaxVec PROVE IdsUnique /\ Shrink(n) => IdsUnique'
<1>. SUFFICES ASSUME IdsUnique, Shrink(n) PROVE IdsUnique'
  OBVIOUS
<1>. DEFINE a == SubSeq(vec, 1, n)
            b == SubSeq(vec, n + 1, Len(vec))
<1>0. /\ vec \in Seq(0..MaxId) /\ Len(vec) \in Nat /\ MaxVec \in Nat /\ held \subseteq 0..MaxId
      /\ m_freed_ids \in Seq(0..MaxId) /\ torn \in BOOLEAN /\ m_id_counter \in Start..MaxCounter
  BY IdsTypes DEF IdsUnique, IdsTypeOK
<1>1. /\ n < Len(vec) /\ m_freed_ids' = m_freed_ids \o b /\ vec' = a
      /\ m_id_counter' = m_id_counter /\ held' = held /\ torn' = torn
  BY DEF Shrink
<1>2. n \in 0..Len(vec) /\ n <= MaxVec
  BY <1>0, <1>1
<1>3. /\ a \in Seq(0..MaxId) /\ b \in Seq(0..MaxId) /\ Len(a) = n /\ Len(b) = Len(vec) - n
      /\ \A j \in 1..Len(vec) - n : b[j] = vec[n + j]
      /\ Range(vec) = Range(a) \cup Range(b)
      /\ IsInjective(vec) => IsInjective(a) /\ IsInjective(b) /\ Range(a) \cap Range(b) = {}
  <2>1. vec \in Seq(0..MaxId) /\ n \in 0..Len(vec)
    BY <1>0, <1>2
  <2>. QED BY <2>1, SplitApart
<1>. HIDE DEF a, b
<1>4. /\ m_freed_ids \o b \in Seq(0..MaxId)
      /\ Range(m_freed_ids \o b) = Range(m_freed_ids) \cup Range(b)
      /\ IsInjective(m_freed_ids) /\ IsInjective(b) /\ Range(m_freed_ids) \cap Range(b) = {}
           => IsInjective(m_freed_ids \o b)
  BY <1>0, <1>3, ConcatApart
<1>5. InVec = Range(a) \cup Range(b) /\ InVec' = Range(a) /\ Freed' = Freed \cup Range(b)
  BY <1>1, <1>3, <1>4 DEF InVec, Freed
<1>6. IdsTypeOK'
  BY <1>0, <1>1, <1>2, <1>3, <1>4 DEF IdsTypeOK
<1>7. ASSUME ~torn
      PROVE  /\ IsInjective(vec') /\ IsInjective(m_freed_ids')
             /\ held' \cap InVec' = {} /\ held' \cap Freed' = {} /\ InVec' \cap Freed' = {}
             /\ held' \cup InVec' \cup Freed' = Start..LastId(m_id_counter')
  <2>1. /\ IsInjective(vec) /\ IsInjective(m_freed_ids)
        /\ held \cap InVec = {} /\ held \cap Freed = {} /\ InVec \cap Freed = {}
        /\ held \cup InVec \cup Freed = Start..LastId(m_id_counter)
    BY <1>7 DEF IdsUnique, LastId
  <2>2. Range(m_freed_ids) \cap Range(b) = {}
    BY <1>5, <2>1 DEF Freed
  <2>3. IsInjective(vec') /\ IsInjective(m_freed_ids')
    BY <1>1, <1>3, <1>4, <2>1, <2>2
  <2>. QED BY <1>1, <1>3, <1>5, <2>1, <2>3
<1>. QED BY <1>1, <1>6, <1>7 DEF IdsUnique, LastId

\* An id is in one place: with who asked for it, in the vector, or among those
\* given back, and every id from the start on is in one of them, as long as no
\* fill_ids threw half-way (new_id, free_id, fill_ids).
THEOREM IdsApart == IdsSpec => []IdsUnique
<1>1. IdsInit => IdsUnique
  <2>. SUFFICES ASSUME IdsInit PROVE IdsUnique
    OBVIOUS
  <2>1. m_freed_ids = <<>> /\ m_id_counter = Start /\ held = {} /\ vec = <<>> /\ torn = FALSE
    BY DEF IdsInit
  <2>2. <<>> \in Seq(0..MaxId) /\ Len(<<>>) = 0 /\ Range(<<>>) = {} /\ IsInjective(<<>>)
    BY DEF Range, IsInjective
  <2>3. IdsTypeOK
    <3>1. Start \in Start..MaxCounter /\ 0 <= MaxVec
      BY IdsAssumption
    <3>. QED BY <2>1, <2>2, <3>1 DEF IdsTypeOK
  <2>4. Start..LastId(Start) = {}
    BY IdsAssumption DEF LastId
  <2>. QED BY <2>1, <2>2, <2>3, <2>4 DEF IdsUnique, InVec, Freed, LastId
<1>2. IdsUnique /\ [IdsNext]_idVars => IdsUnique'
  <2>. SUFFICES ASSUME IdsUnique, [IdsNext]_idVars PROVE IdsUnique'
    OBVIOUS
  <2>1. CASE UNCHANGED idVars
    BY <2>1 DEF idVars, IdsUnique, IdsTypeOK, InVec, Freed
  <2>2. CASE IdsNext
    BY <2>2, NewIdKeeps, FreeIdKeeps, GrowKeeps, ShrinkKeeps DEF IdsNext, fill_ids
  <2>. QED BY <2>1, <2>2
<1>. QED BY <1>1, <1>2, PTL DEF IdsSpec

-----------------------------------------------------------------------------
(* DenseHashMap.                                                           *)

\* A table and the keys of its indices: the slots a probe visits, the slots
\* it goes past, and that it ends at the index of each key.
Entry == Nat \cup {erased_kv_index}
Probe(T, k, i) == 1 + ((Hash[k] + i) % Len(T))
GoesPast(T, K, k, s) == T[s] # empty_kv_index /\ ~(T[s] > 0 /\ K[T[s]] = k)
Reaches(T, K, D) ==
    \A i \in D : \E p \in 0..Len(T) - 1 :
        /\ T[Probe(T, K[i], p)] = i
        /\ \A q \in 0..p - 1 : GoesPast(T, K, K[i], Probe(T, K[i], q))
NoStray(T, D) ==
    /\ \A s \in DOMAIN T : T[s] > 0 => T[s] \in D
    /\ \A s, t \in DOMAIN T : T[s] > 0 /\ T[s] = T[t] => s = t

\* What is left of a number, and of a multiple and a smaller number.
LEMMA RemainderOf ==
    ASSUME NEW q \in Nat, NEW d \in Nat \ {0}, NEW s \in 0..d - 1
    PROVE  (q * d + s) % d = s
  BY Z3

LEMMA Remainder ==
    ASSUME NEW x \in Nat, NEW d \in Nat \ {0}
    PROVE  x % d \in 0..d - 1 /\ x \div d \in Nat /\ x = (x \div d) * d + (x % d)
  BY Z3

\* A probe stays in the table, and comes to every slot of it.
LEMMA ProbeIn ==
    ASSUME NEW T \in Seq(Entry), NEW k \in Key, NEW i \in Nat, Len(T) # 0
    PROVE  Probe(T, k, i) \in DOMAIN T /\ T[Probe(T, k, i)] \in Entry
<1>1. Hash[k] + i \in Nat /\ Len(T) \in Nat \ {0}
  BY MapAssumption
<1>2. (Hash[k] + i) % Len(T) \in 0..Len(T) - 1
  BY <1>1, Remainder
<1>3. Probe(T, k, i) \in 1..Len(T)
  BY <1>1, <1>2 DEF Probe
<1>. QED BY <1>3

LEMMA ProbeComesTo ==
    ASSUME NEW T \in Seq(Entry), NEW k \in Key, NEW s \in DOMAIN T
    PROVE  \E i \in 0..Len(T) - 1 : Probe(T, k, i) = s
<1>. DEFINE h == Hash[k]
            d == Len(T)
            r == h % d
            q == h \div d
<1>1. h \in Nat /\ d \in Nat \ {0} /\ s \in 1..d
  BY MapAssumption
<1>2. r \in 0..d - 1 /\ q \in Nat /\ h = q * d + r
  BY <1>1, Remainder
<1>4. \A i \in Nat : Probe(T, k, i) = 1 + ((h + i) % d)
  BY DEF Probe
<1>. HIDE DEF h, d, r, q
<1>3. q * d \in Nat /\ (q + 1) * d = q * d + d
  BY <1>1, <1>2, Z3
<1>7. PICK m \in Nat : m = q * d
  BY <1>3
<1>8. h = m + r /\ r \in 0..d - 1 /\ (q + 1) * d = m + d
  BY <1>2, <1>3, <1>7, Zenon
<1>5. CASE r <= s - 1
  <2>. DEFINE i == s - 1 - r
  <2>1. i \in 0..d - 1 /\ h + i = m + (s - 1) /\ s - 1 \in 0..d - 1
    <3>1. h = m + r /\ r \in 0..d - 1
      BY <1>8
    <3>. QED BY <1>1, <1>5, <3>1
  <2>2. (q * d + (s - 1)) % d = s - 1
    BY <1>1, <1>2, <2>1, RemainderOf
  <2>5. (h + i) % d = s - 1
    BY <1>7, <2>1, <2>2, Zenon
  <2>3. Probe(T, k, i) = 1 + (s - 1)
    BY <1>4, <2>1, <2>5
  <2>4. 1 + (s - 1) = s
    BY <1>1
  <2>. HIDE DEF i
  <2>. QED BY <2>1, <2>3, <2>4 DEF d
<1>6. CASE ~(r <= s - 1)
  <2>. DEFINE i == d + (s - 1) - r
  <2>1. i \in 0..d - 1 /\ h + i = (m + d) + (s - 1) /\ s - 1 \in 0..d - 1
    <3>1. h = m + r /\ r \in 0..d - 1
      BY <1>8
    <3>. QED BY <1>1, <1>6, <3>1
  <2>6. q + 1 \in Nat
    BY <1>2
  <2>2. ((q + 1) * d + (s - 1)) % d = s - 1
    BY <1>1, <2>1, <2>6, RemainderOf
  <2>5. (h + i) % d = s - 1
    BY <1>8, <2>1, <2>2, Zenon
  <2>3. Probe(T, k, i) = 1 + (s - 1)
    BY <1>4, <2>1, <2>5
  <2>4. 1 + (s - 1) = s
    BY <1>1
  <2>. HIDE DEF i
  <2>. QED BY <2>1, <2>3, <2>4 DEF d
<1>. QED BY <1>5, <1>6

\* A table without tombstones that is larger than the number of its indices
\* has an empty slot.
LEMMA FreeSlot ==
    ASSUME NEW T \in Seq(Nat), NEW m \in Nat, m < Len(T), NoStray(T, 1..m)
    PROVE  \E s \in DOMAIN T : T[s] = 0
<1>1. SUFFICES ASSUME \A s \in DOMAIN T : T[s] # 0 PROVE FALSE
  OBVIOUS
<1>2. \A s \in 1..Len(T) : T[s] \in 1..m
  BY <1>1 DEF NoStray
<1>3. T \in [1..Len(T) -> 1..m]
  BY <1>2
<1>4. ASSUME NEW n \in Nat PROVE IsFiniteSet(1..n) /\ Cardinality(1..n) = n
  <2>1. n \in Int /\ 1 \in Int /\ (1 > n => n = 0) /\ (~(1 > n) => n - 1 + 1 = n)
    OBVIOUS
  <2>2. IsFiniteSet(1..n) /\ Cardinality(1..n) = IF 1 > n THEN 0 ELSE n - 1 + 1
    BY <2>1, FS_Interval
  <2>. QED BY <2>1, <2>2
<1>5. /\ IsFiniteSet(1..m) /\ Cardinality(1..m) = m
      /\ IsFiniteSet(1..Len(T)) /\ Cardinality(1..Len(T)) = Len(T) /\ Len(T) \in Nat
  BY <1>4
<1>6. Cardinality(1..m) < Cardinality(1..Len(T))
  BY <1>5
<1>7. PICK s \in 1..Len(T), t \in 1..Len(T) : s # t /\ T[s] = T[t]
  BY <1>3, <1>5, <1>6, FS_PigeonHole
<1>8. s \in DOMAIN T /\ t \in DOMAIN T /\ T[s] > 0
  BY <1>2
<1>. QED BY <1>7, <1>8 DEF NoStray

\* What a slot for the index n of a new key takes, and what is kept when it
\* is filled.
PlaceReady(T, K, L, D, n, p, U) ==
    /\ D \subseteq DOMAIN K /\ D \subseteq DOMAIN L /\ n \notin D
    /\ \A i \in D : L[i] = K[i] /\ K[i] # L[n]
    /\ NoStray(T, D) /\ Reaches(T, K, D)
    /\ T[Probe(T, L[n], p)] = empty_kv_index
    /\ \A q \in 0..p - 1 : T[Probe(T, L[n], q)] # empty_kv_index
    /\ U = [T EXCEPT ![Probe(T, L[n], p)] = n]
HoldsAll(T, K, D) == T \in Seq(Entry) /\ NoStray(T, D) /\ Reaches(T, K, D)

\* The index of a key that the table does not hold goes into an empty slot
\* where its probe ends.
LEMMA Placing ==
    ASSUME NEW T \in Seq(Entry), NEW K \in Seq(Key), NEW L \in Seq(Key),
           NEW D \in SUBSET Nat, NEW n \in DOMAIN L, NEW p \in 0..Len(T) - 1,
           NEW U, PlaceReady(T, K, L, D, n, p, U)
    PROVE  HoldsAll(U, L, D \cup {n}) /\ Len(U) = Len(T)
<1>. SUFFICES ASSUME D \subseteq DOMAIN K, D \subseteq DOMAIN L, n \notin D,
                     \A i \in D : L[i] = K[i] /\ K[i] # L[n],
                     NoStray(T, D), Reaches(T, K, D),
                     T[Probe(T, L[n], p)] = empty_kv_index,
                     \A q \in 0..p - 1 : T[Probe(T, L[n], q)] # empty_kv_index,
                     U = [T EXCEPT ![Probe(T, L[n], p)] = n]
              PROVE  /\ U \in Seq(Entry) /\ Len(U) = Len(T)
                     /\ NoStray(U, D \cup {n}) /\ Reaches(U, L, D \cup {n})
  BY DEF PlaceReady, HoldsAll
<1>. DEFINE s0 == Probe(T, L[n], p)
<1>1. /\ Len(T) \in Nat \ {0} /\ n \in Nat /\ n > 0 /\ L[n] \in Key
      /\ \A i \in D : i > 0 /\ K[i] \in Key
  OBVIOUS
<1>2. s0 \in DOMAIN T /\ T[s0] = 0
  BY <1>1, ProbeIn DEF empty_kv_index
<1>3. U \in Seq(Entry) /\ Len(U) = Len(T) /\ DOMAIN U = DOMAIN T
  <2>1. n \in Entry
    BY <1>1 DEF Entry
  <2>. HIDE DEF Entry
  <2>. QED BY <1>2, <2>1
<1>4. U[s0] = n /\ \A s \in DOMAIN T : s # s0 => U[s] = T[s]
  BY <1>2
<1>5. \A k \in Key, i \in Nat : Probe(U, k, i) = Probe(T, k, i) /\ Probe(T, k, i) \in DOMAIN T
  BY <1>1, <1>3, ProbeIn DEF Probe
<1>. HIDE DEF s0
<1>6. NoStray(U, D \cup {n})
  <2>1. \A s \in DOMAIN U : U[s] > 0 => U[s] \in D \cup {n}
    BY <1>3, <1>4 DEF NoStray
  <2>2. ASSUME NEW s \in DOMAIN U, NEW t \in DOMAIN U, U[s] > 0, U[s] = U[t] PROVE s = t
    BY <1>3, <1>4, <2>2 DEF NoStray
  <2>. QED BY <2>1, <2>2 DEF NoStray
<1>7. \A k \in Key, i \in Nat : LET s == Probe(T, k, i) IN
        GoesPast(T, K, k, s) /\ k # L[n] => U[s] = T[s] /\ GoesPast(U, L, k, s)
  <2>. SUFFICES ASSUME NEW k \in Key, NEW i \in Nat, NEW s, s = Probe(T, k, i),
                       GoesPast(T, K, k, s), k # L[n]
                PROVE  U[s] = T[s] /\ GoesPast(U, L, k, s)
    OBVIOUS
  <2>1. s \in DOMAIN T /\ s # s0
    BY <1>2, <1>5 DEF GoesPast, empty_kv_index
  <2>2. U[s] = T[s]
    BY <1>4, <2>1
  <2>3. T[s] > 0 => T[s] \in D /\ L[T[s]] = K[T[s]]
    BY <2>1 DEF NoStray
  <2>. QED BY <2>2, <2>3 DEF GoesPast
<1>8. ASSUME NEW i \in D
      PROVE  \E r \in 0..Len(U) - 1 :
                /\ U[Probe(U, L[i], r)] = i
                /\ \A q \in 0..r - 1 : GoesPast(U, L, L[i], Probe(U, L[i], q))
  <2>1. PICK r \in 0..Len(T) - 1 :
           /\ T[Probe(T, K[i], r)] = i
           /\ \A q \in 0..r - 1 : GoesPast(T, K, K[i], Probe(T, K[i], q))
    BY <1>8 DEF Reaches
  <2>2. L[i] = K[i] /\ K[i] # L[n] /\ K[i] \in Key /\ i > 0 /\ i \in Nat
    BY <1>1, <1>8
  <2>3. r \in Nat /\ \A q \in 0..r - 1 : q \in Nat
    BY <1>1, <2>1
  <2>4. U[Probe(U, L[i], r)] = i
    <3>1. Probe(T, K[i], r) # s0
      BY <1>2, <2>1, <2>2
    <3>2. Probe(U, L[i], r) = Probe(T, K[i], r) /\ Probe(T, K[i], r) \in DOMAIN T
      BY <1>5, <2>2, <2>3
    <3>. QED BY <1>4, <2>1, <3>1, <3>2
  <2>5. ASSUME NEW q \in 0..r - 1 PROVE GoesPast(U, L, L[i], Probe(U, L[i], q))
    <3>1. Probe(U, L[i], q) = Probe(T, K[i], q) /\ GoesPast(T, K, K[i], Probe(T, K[i], q))
      BY <1>5, <2>1, <2>2, <2>3
    <3>2. GoesPast(U, L, K[i], Probe(T, K[i], q))
      BY <1>7, <2>2, <2>3, <3>1, Zenon
    <3>. QED BY <2>2, <3>1, <3>2, Zenon
  <2>. QED BY <1>3, <2>1, <2>4, <2>5
<1>9. /\ U[Probe(U, L[n], p)] = n
      /\ \A q \in 0..p - 1 : GoesPast(U, L, L[n], Probe(U, L[n], q))
  <2>0. p \in Nat /\ \A q \in 0..p - 1 : q \in Nat
    BY <1>1
  <2>1. Probe(U, L[n], p) = s0
    BY <1>1, <1>5, <2>0 DEF s0
  <2>2. ASSUME NEW q \in 0..p - 1 PROVE GoesPast(U, L, L[n], Probe(U, L[n], q))
    <3>. DEFINE s == Probe(T, L[n], q)
    <3>1. Probe(U, L[n], q) = s /\ s \in DOMAIN T /\ T[s] # 0
      BY <1>1, <1>5, <2>0 DEF empty_kv_index
    <3>2. s # s0 /\ U[s] = T[s]
      BY <1>2, <1>4, <3>1
    <3>3. T[s] > 0 => T[s] \in D /\ L[T[s]] # L[n]
      BY <3>1 DEF NoStray
    <3>. HIDE DEF s
    <3>. QED BY <3>1, <3>2, <3>3 DEF GoesPast, empty_kv_index
  <2>. QED BY <1>4, <2>1, <2>2
<1>10. Reaches(U, L, D \cup {n})
  BY <1>3, <1>8, <1>9 DEF Reaches
<1>. QED BY <1>3, <1>6, <1>10

RemoveReady(T, K, L, i, s1, s2, U) ==
    /\ IsInjective(K) /\ NoStray(T, DOMAIN K) /\ Reaches(T, K, DOMAIN K)
    /\ Len(L) = Len(K) - 1
    /\ \A j \in 1..Len(K) - 1 : L[j] = IF j = i THEN K[Len(K)] ELSE K[j]
    /\ T[s1] = i /\ T[s2] = Len(K)
    /\ U = [T EXCEPT ![s2] = i, ![s1] = erased_kv_index]

\* A pair is erased: a tombstone where its index i was, the last pair in its
\* place, and i where the index of the last pair was.
LEMMA Removing ==
    ASSUME NEW T \in Seq(Entry), NEW K \in Seq(Key), NEW L \in Seq(Key), NEW i \in DOMAIN K,
           NEW s1 \in DOMAIN T, NEW s2 \in DOMAIN T, NEW U, RemoveReady(T, K, L, i, s1, s2, U)
    PROVE  HoldsAll(U, L, DOMAIN L) /\ Len(U) = Len(T) /\ IsInjective(L)
<1>. SUFFICES ASSUME IsInjective(K), NoStray(T, DOMAIN K), Reaches(T, K, DOMAIN K),
                     Len(L) = Len(K) - 1,
                     \A j \in 1..Len(K) - 1 : L[j] = IF j = i THEN K[Len(K)] ELSE K[j],
                     T[s1] = i, T[s2] = Len(K),
                     U = [T EXCEPT ![s2] = i, ![s1] = erased_kv_index]
              PROVE  /\ U \in Seq(Entry) /\ Len(U) = Len(T) /\ IsInjective(L)
                     /\ NoStray(U, DOMAIN L) /\ Reaches(U, L, DOMAIN L)
  BY DEF RemoveReady, HoldsAll
<1>. DEFINE n == Len(K)
<1>1. /\ n \in Nat \ {0} /\ DOMAIN K = 1..n /\ DOMAIN L = 1..n - 1 /\ i \in 1..n /\ n \in DOMAIN K
      /\ \A j \in 1..n - 1 : j \in DOMAIN K /\ j # n
  OBVIOUS
<1>2. U \in Seq(Entry) /\ Len(U) = Len(T) /\ DOMAIN U = DOMAIN T
  <2>1. i \in Entry /\ erased_kv_index \in Entry
    BY <1>1 DEF Entry
  <2>. HIDE DEF Entry
  <2>. QED BY <2>1
<1>3. \A s \in DOMAIN T :
        /\ s # s1 /\ s # s2 => U[s] = T[s] /\ T[s] # i /\ T[s] # n
        /\ U[s] = IF s = s1 THEN erased_kv_index ELSE IF s = s2 THEN i ELSE T[s]
        /\ T[s] \in Entry
  <2>1. \A s \in DOMAIN T : U[s] = IF s = s1 THEN erased_kv_index ELSE IF s = s2 THEN i ELSE T[s]
    OBVIOUS
  <2>2. \A s \in DOMAIN T : (T[s] = i => s = s1) /\ (T[s] = n => s = s2)
    BY <1>1 DEF NoStray
  <2>. QED BY <2>1, <2>2
<1>4. s1 = s2 <=> i = n
  BY <1>1 DEF NoStray
<1>5. /\ \A j \in 1..n - 1 : j # i => L[j] = K[j]
      /\ i # n => i \in 1..n - 1 /\ L[i] = K[n]
  BY <1>1
<1>6. IsInjective(L)
  <2>1. ASSUME NEW a \in 1..n - 1, NEW b \in 1..n - 1, L[a] = L[b] PROVE a = b
    BY <1>1, <1>5, <2>1 DEF IsInjective
  <2>. QED BY <1>1, <2>1 DEF IsInjective
<1>7. NoStray(U, DOMAIN L)
  <2>1. ASSUME NEW s \in DOMAIN T, U[s] > 0
        PROVE  U[s] \in 1..n - 1 /\ s # s1 /\ (s # s2 => U[s] = T[s] /\ T[s] # i)
    <3>1. s # s1
      BY <1>3, <2>1 DEF erased_kv_index
    <3>2. CASE s = s2
      BY <1>1, <1>3, <1>4, <3>1, <3>2
    <3>3. CASE s # s2
      <4>1. U[s] = T[s] /\ T[s] # i /\ T[s] # n
        BY <1>3, <3>1, <3>3
      <4>2. T[s] \in 1..n
        BY <1>1, <2>1, <4>1 DEF NoStray
      <4>. QED BY <1>1, <3>1, <4>1, <4>2
    <3>. QED BY <3>2, <3>3
  <2>2. ASSUME NEW s \in DOMAIN T, NEW t \in DOMAIN T, U[s] > 0, U[s] = U[t] PROVE s = t
    <3>1. /\ s # s1 /\ (s # s2 => U[s] = T[s] /\ T[s] # i)
          /\ t # s1 /\ (t # s2 => U[t] = T[t] /\ T[t] # i)
      BY <2>1, <2>2
    <3>2. U[s2] = i \/ s2 = s1
      BY <1>3
    <3>3. CASE s = s2 \/ t = s2
      BY <2>2, <3>1, <3>2, <3>3
    <3>4. CASE s # s2 /\ t # s2
      <4>1. U[s] = T[s] /\ U[t] = T[t] /\ T[s] > 0 /\ T[s] = T[t]
        BY <2>2, <3>1, <3>4
      <4>. QED BY <4>1 DEF NoStray
    <3>. QED BY <3>3, <3>4
  <2>3. \A s \in DOMAIN U : U[s] > 0 => U[s] \in DOMAIN L
    BY <1>1, <1>2, <2>1
  <2>4. \A s, t \in DOMAIN U : U[s] > 0 /\ U[s] = U[t] => s = t
    BY <1>2, <2>2, Zenon
  <2>. QED BY <2>3, <2>4, Zenon DEF NoStray
\* What a probe for a key that stays goes past, it still goes past.
<1>8. ASSUME NEW k \in Key, NEW s \in DOMAIN T, GoesPast(T, K, k, s), k # K[n] \/ s # s2
      PROVE  GoesPast(U, L, k, s)
  <2>1. T[s] # 0 /\ (T[s] > 0 => K[T[s]] # k)
    BY <1>8 DEF GoesPast, empty_kv_index
  <2>2. CASE s = s1
    BY <1>3, <2>2 DEF GoesPast, empty_kv_index, erased_kv_index
  <2>3. CASE s # s1 /\ s = s2
    <3>1. U[s] = i /\ i # n /\ L[i] = K[n] /\ K[n] # k /\ i > 0
      BY <1>1, <1>3, <1>4, <1>5, <1>8, <2>3
    <3>. QED BY <3>1 DEF GoesPast, empty_kv_index
  <2>4. CASE s # s1 /\ s # s2
    <3>1. U[s] = T[s] /\ T[s] # i /\ T[s] # n
      BY <1>3, <2>4
    <3>2. T[s] > 0 => T[s] \in 1..n
      BY <1>1 DEF NoStray
    <3>3. T[s] > 0 => L[T[s]] = K[T[s]]
      BY <1>1, <1>5, <3>1, <3>2
    <3>. QED BY <2>1, <3>1, <3>3 DEF GoesPast, empty_kv_index
  <2>. QED BY <2>2, <2>3, <2>4
<1>9. \A k \in Key, q \in Nat : Probe(U, k, q) = Probe(T, k, q) /\ Probe(T, k, q) \in DOMAIN T
  <2>1. Len(T) # 0
    OBVIOUS
  <2>. QED BY <1>2, <2>1, ProbeIn DEF Probe
\* The pair that was at a is at j: only the last one has moved.
<1>10. ASSUME NEW j \in 1..n - 1, NEW a \in 1..n, L[j] = K[a], a # i, (j = a \/ (j = i /\ a = n))
       PROVE  \E p \in 0..Len(U) - 1 :
                 /\ U[Probe(U, L[j], p)] = j
                 /\ \A q \in 0..p - 1 : GoesPast(U, L, L[j], Probe(U, L[j], q))
  <2>1. PICK p \in 0..Len(T) - 1 :
           /\ T[Probe(T, K[a], p)] = a
           /\ \A q \in 0..p - 1 : GoesPast(T, K, K[a], Probe(T, K[a], q))
    BY <1>1 DEF Reaches
  <2>2. p \in Nat /\ (\A q \in 0..p - 1 : q \in Nat) /\ K[a] \in Key /\ Len(T) \in Nat
    BY <1>1, <2>1
  <2>3. U[Probe(T, K[a], p)] = j
    <3>. DEFINE s == Probe(T, K[a], p)
    <3>1. s \in DOMAIN T /\ T[s] = a
      BY <1>9, <2>1, <2>2
    <3>. HIDE DEF s
    <3>2. s # s1
      BY <1>10, <3>1
    <3>3. U[s] = j
      <4>1. CASE a = n
        <5>1. s = s2
          BY <1>3, <3>1, <3>2, <4>1
        <5>2. j = i
          BY <1>1, <1>10, <4>1
        <5>. QED BY <1>3, <3>1, <3>2, <5>1, <5>2
      <4>2. CASE a # n
        <5>1. s # s2 /\ j = a
          BY <1>10, <3>1, <4>2
        <5>. QED BY <1>3, <3>1, <3>2, <5>1
      <4>. QED BY <4>1, <4>2
    <3>. QED BY <3>3 DEF s
  <2>4. ASSUME NEW q \in 0..p - 1 PROVE GoesPast(U, L, K[a], Probe(T, K[a], q))
    <3>. DEFINE s == Probe(T, K[a], q)
    <3>1. s \in DOMAIN T /\ GoesPast(T, K, K[a], s)
      BY <1>9, <2>1, <2>2
    <3>. HIDE DEF s
    <3>2. K[a] # K[n] \/ s # s2
      <4>. SUFFICES ASSUME K[a] = K[n], s = s2 PROVE FALSE
        OBVIOUS
      <4>1. T[s] = n /\ K[T[s]] = K[a] /\ n > 0
        BY <1>1
      <4>. QED BY <3>1, <4>1 DEF GoesPast
    <3>3. GoesPast(U, L, K[a], s)
      BY <1>8, <2>2, <3>1, <3>2
    <3>. QED BY <3>3 DEF s
  <2>5. \A q \in 0..p - 1 : Probe(U, L[j], q) = Probe(T, K[a], q)
    BY <1>9, <1>10, <2>2
  <2>6. Probe(U, L[j], p) = Probe(T, K[a], p)
    BY <1>9, <1>10, <2>2
  <2>. QED BY <1>2, <1>10, <2>1, <2>3, <2>4, <2>5, <2>6
<1>11. Reaches(U, L, DOMAIN L)
  <2>1. ASSUME NEW j \in 1..n - 1
        PROVE  \E p \in 0..Len(U) - 1 :
                  /\ U[Probe(U, L[j], p)] = j
                  /\ \A q \in 0..p - 1 : GoesPast(U, L, L[j], Probe(U, L[j], q))
    <3>1. CASE j = i
      <4>1. n # i /\ L[j] = K[n] /\ n \in 1..n /\ (j = n \/ (j = i /\ n = n))
        BY <1>1, <1>5, <3>1
      <4>. HIDE DEF n
      <4>. QED BY <1>10, <4>1
    <3>2. CASE j # i
      <4>1. j \in 1..n /\ L[j] = K[j]
        BY <1>1, <1>5, <3>2
      <4>. QED BY <1>10, <3>2, <4>1
    <3>. QED BY <3>1, <3>2
  <2>. QED BY <1>1, <2>1 DEF Reaches
<1>. QED BY <1>2, <1>6, <1>7, <1>11

\* Where a probe for a key ends, and what it finds there.
StopsAt(T, K, k) == {i \in 0..Len(T) - 1 : ~GoesPast(T, K, k, Probe(T, k, i))}
Ends(T, K, k, p) ==
    /\ p \in StopsAt(T, K, k)
    /\ \A q \in 0..p - 1 : GoesPast(T, K, k, Probe(T, k, q))
FoundAt(T, K, k) ==
    IF StopsAt(T, K, k) = {} THEN null_index_table_index ELSE Probe(T, k, First(StopsAt(T, K, k)))
IsFound(T, K, k) == StopsAt(T, K, k) # {} /\ T[FoundAt(T, K, k)] # empty_kv_index

LEMMA ProbeEnds ==
    ASSUME NEW T \in Seq(Entry), NEW K, NEW k \in Key, StopsAt(T, K, k) # {}
    PROVE  \E p \in 0..Len(T) - 1 : Ends(T, K, k, p)
<1>. DEFINE S == StopsAt(T, K, k)
<1>1. S \in SUBSET Nat /\ S \subseteq 0..Len(T) - 1
  BY DEF StopsAt
<1>2. PICK p \in S : \A q \in S : p <= q
  BY <1>1, LeastNumber
<1>3. ASSUME NEW q \in 0..p - 1 PROVE GoesPast(T, K, k, Probe(T, k, q))
  <2>1. p \in 0..Len(T) - 1 /\ Len(T) \in Nat
    BY <1>1, <1>2
  <2>2. q \in 0..Len(T) - 1 /\ ~(p <= q)
    BY <2>1
  <2>3. q \notin S
    BY <1>2, <2>2
  <2>. QED BY <2>2, <2>3 DEF StopsAt
<1>. QED BY <1>1, <1>2, <1>3 DEF Ends

LEMMA EndIsFound ==
    ASSUME NEW T \in Seq(Entry), NEW K, NEW k \in Key, NEW p \in 0..Len(T) - 1, Ends(T, K, k, p)
    PROVE  /\ FoundAt(T, K, k) = Probe(T, k, p)
           /\ StopsAt(T, K, k) # {} /\ First(StopsAt(T, K, k)) = p
           /\ T[Probe(T, k, p)] \in Entry /\ Probe(T, k, p) \in DOMAIN T
<1>. DEFINE S == StopsAt(T, K, k)
<1>1. S \in SUBSET Nat /\ p \in S
  BY DEF StopsAt, Ends
<1>2. \A q \in S : p <= q
  <2>1. SUFFICES ASSUME NEW q \in S, ~(p <= q) PROVE FALSE
    OBVIOUS
  <2>2. q \in 0..p - 1
    BY <1>1, <2>1
  <2>. QED BY <2>2 DEF StopsAt, Ends
<1>3. First(S) \in S /\ \A q \in S : First(S) <= q
  <2>1. \E m \in S : \A q \in S : m <= q
    BY <1>1, <1>2
  <2>. HIDE DEF S
  <2>. QED BY <2>1 DEF First
<1>4. First(S) = p
  BY <1>1, <1>2, <1>3
<1>5. T[Probe(T, k, p)] \in Entry /\ Probe(T, k, p) \in DOMAIN T
  BY ProbeIn
<1>6. S # {}
  BY <1>1
<1>. HIDE DEF S
<1>. QED BY <1>4, <1>5, <1>6 DEF S, FoundAt

\* The operators of the model are these, now and after a step.
LEMMA Finding ==
    ASSUME NEW k \in Key
    PROVE  /\ Stops(k) = StopsAt(table, keys, k) /\ Stops(k)' = StopsAt(table', keys', k)
           /\ find_table_index(k) = FoundAt(table, keys, k)
           /\ find_table_index(k)' = FoundAt(table', keys', k)
<1>1. Stops(k) = StopsAt(table, keys, k) /\ Stops(k)' = StopsAt(table', keys', k)
  BY DEF Stops, StopsAt, GoesPast, HoldsKey, Slot, Probe, m_index_table_size
<1>. QED BY <1>1 DEF find_table_index, FoundAt, Slot, Probe, m_index_table_size

LEMMA Occupying ==
    ASSUME NEW T \in Seq(Entry), NEW K, NEW k \in Key
    PROVE  /\ IsFound(T, K, k) <=> \E i \in StopsAt(T, K, k) :
                 i = First(StopsAt(T, K, k)) /\ T[Probe(T, k, i)] > 0 /\ K[T[Probe(T, k, i)]] = k
           /\ IsFound(T, K, k) => /\ FoundAt(T, K, k) \in DOMAIN T /\ T[FoundAt(T, K, k)] \in Nat \ {0}
                                  /\ K[T[FoundAt(T, K, k)]] = k
<1>1. CASE StopsAt(T, K, k) = {}
  BY <1>1 DEF IsFound
<1>2. CASE StopsAt(T, K, k) # {}
  <2>1. PICK p \in 0..Len(T) - 1 : Ends(T, K, k, p)
    BY <1>2, ProbeEnds
  <2>2. /\ FoundAt(T, K, k) = Probe(T, k, p) /\ First(StopsAt(T, K, k)) = p
        /\ T[Probe(T, k, p)] \in Entry /\ Probe(T, k, p) \in DOMAIN T
    BY <2>1, EndIsFound
  <2>3. ~GoesPast(T, K, k, Probe(T, k, p)) /\ p \in StopsAt(T, K, k)
    BY <2>1 DEF Ends, StopsAt
  <2>4. T[Probe(T, k, p)] = 0 \/ (T[Probe(T, k, p)] > 0 /\ K[T[Probe(T, k, p)]] = k)
    BY <2>3 DEF GoesPast, empty_kv_index
  <2>5. T[Probe(T, k, p)] > 0 => T[Probe(T, k, p)] \in Nat \ {0}
    BY <2>2 DEF Entry, erased_kv_index
  <2>6. IsFound(T, K, k) <=> T[Probe(T, k, p)] # 0
    BY <1>2, <2>2 DEF IsFound, empty_kv_index
  <2>. QED BY <2>2, <2>3, <2>4, <2>5, <2>6
<1>. QED BY <1>1, <1>2

\* Every key is found exactly when the probe of each comes to its index.
LEMMA KeysReached ==
    ASSUME NEW T \in Seq(Entry), NEW K \in Seq(Key), NEW D \in SUBSET (DOMAIN K)
    PROVE  Reaches(T, K, D) <=> \A i \in D : IsFound(T, K, K[i]) /\ T[FoundAt(T, K, K[i])] = i
<1>0. \A i \in D : i \in Nat \ {0} /\ K[i] \in Key
  OBVIOUS
<1>1. ASSUME NEW i \in D, IsFound(T, K, K[i]), T[FoundAt(T, K, K[i])] = i
      PROVE  \E p \in 0..Len(T) - 1 :
                /\ T[Probe(T, K[i], p)] = i
                /\ \A q \in 0..p - 1 : GoesPast(T, K, K[i], Probe(T, K[i], q))
  <2>1. PICK p \in 0..Len(T) - 1 : Ends(T, K, K[i], p)
    BY <1>0, <1>1, ProbeEnds DEF IsFound
  <2>2. FoundAt(T, K, K[i]) = Probe(T, K[i], p)
    BY <1>0, <2>1, EndIsFound
  <2>. QED BY <1>1, <2>1, <2>2 DEF Ends
<1>2. ASSUME NEW i \in D, NEW p \in 0..Len(T) - 1, T[Probe(T, K[i], p)] = i,
             \A q \in 0..p - 1 : GoesPast(T, K, K[i], Probe(T, K[i], q))
      PROVE  IsFound(T, K, K[i]) /\ T[FoundAt(T, K, K[i])] = i
  <2>1. Ends(T, K, K[i], p)
    BY <1>0, <1>2 DEF Ends, StopsAt, GoesPast
  <2>2. FoundAt(T, K, K[i]) = Probe(T, K[i], p) /\ StopsAt(T, K, K[i]) # {}
    BY <1>0, <2>1, EndIsFound
  <2>. QED BY <1>0, <1>2, <2>2 DEF IsFound, empty_kv_index
<1>. QED BY <1>1, <1>2 DEF Reaches

\* A probe that finds no key but a slot ends at an empty one.
LEMMA EmptyEnd ==
    ASSUME NEW T \in Seq(Entry), NEW K, NEW k \in Key,
           FoundAt(T, K, k) # null_index_table_index, ~IsFound(T, K, k)
    PROVE  \E p \in 0..Len(T) - 1 :
              /\ FoundAt(T, K, k) = Probe(T, k, p)
              /\ T[Probe(T, k, p)] = empty_kv_index
              /\ \A q \in 0..p - 1 : T[Probe(T, k, q)] # empty_kv_index
<1>1. StopsAt(T, K, k) # {}
  BY DEF FoundAt
<1>2. PICK p \in 0..Len(T) - 1 : Ends(T, K, k, p)
  BY <1>1, ProbeEnds
<1>3. FoundAt(T, K, k) = Probe(T, k, p)
  BY <1>2, EndIsFound
<1>. QED BY <1>1, <1>2, <1>3 DEF IsFound, Ends, GoesPast

\* A probe finds a slot in a table that has an empty one.
LEMMA RoomFound ==
    ASSUME NEW T \in Seq(Entry), NEW K, NEW k \in Key, NEW s \in DOMAIN T, T[s] = empty_kv_index
    PROVE  FoundAt(T, K, k) # null_index_table_index
<1>1. PICK i \in 0..Len(T) - 1 : Probe(T, k, i) = s
  BY ProbeComesTo
<1>2. i \in StopsAt(T, K, k)
  BY <1>1 DEF StopsAt, GoesPast
<1>3. PICK p \in 0..Len(T) - 1 : Ends(T, K, k, p)
  BY <1>2, ProbeEnds
<1>4. FoundAt(T, K, k) = Probe(T, k, p) /\ Probe(T, k, p) \in DOMAIN T
  BY <1>3, EndIsFound
<1>. QED BY <1>4 DEF null_index_table_index

LEMMA OccupiedIs ==
    ASSUME NEW k \in Key
    PROVE  /\ table \in Seq(Entry) => (Occupied(k) <=> IsFound(table, keys, k))
           /\ table' \in Seq(Entry) => (Occupied(k)' <=> IsFound(table', keys', k))
<1>1. /\ Occupied(k) <=> \E i \in StopsAt(table, keys, k) :
             /\ i = First(StopsAt(table, keys, k)) /\ table[Probe(table, k, i)] > 0
             /\ keys[table[Probe(table, k, i)]] = k
      /\ Occupied(k)' <=> \E i \in StopsAt(table', keys', k) :
             /\ i = First(StopsAt(table', keys', k)) /\ table'[Probe(table', k, i)] > 0
             /\ keys'[table'[Probe(table', k, i)]] = k
  BY Finding DEF Occupied, HoldsKey, Slot, Probe, m_index_table_size
<1>. QED BY <1>1, Occupying

\* While the table is filled again no tombstone is in it.
MapIInv == MapInv /\ (toIndex > 0 => table \in Seq(Nat))

LEMMA MapFacts ==
    ASSUME MapIInv
    PROVE  /\ table \in Seq(Entry) /\ keys \in Seq(Key) /\ vals \in Seq(Value) /\ Len(vals) = Len(keys)
           /\ toIndex \in 0..Len(keys) /\ job \in Job \cup {NoJob} /\ answer \in Answer
           /\ Indexed \in SUBSET (DOMAIN keys)
           /\ Reaches(table, keys, Indexed) /\ NoStray(table, Indexed)
           /\ Len(keys) <= Len(table) \div 2 /\ IsInjective(keys)
           /\ toIndex > 0 => table \in Seq(Nat) /\ FoundAt(table, keys, keys[toIndex]) # null_index_table_index
           /\ \A i \in Indexed : IsFound(table, keys, keys[i]) /\ table[FoundAt(table, keys, keys[i])] = i
<1>1. /\ table \in Seq(Entry) /\ keys \in Seq(Key) /\ vals \in Seq(Value) /\ Len(vals) = Len(keys)
      /\ toIndex \in 0..Len(keys) /\ job \in Job \cup {NoJob} /\ answer \in Answer
      /\ Len(keys) <= Len(table) \div 2 /\ IsInjective(keys) /\ (toIndex > 0 => table \in Seq(Nat))
  BY DEF MapIInv, MapInv, MapTypeOK, StorageSuffices, Entry, m_kv_pair_count, get_kv_storage_size,
         m_index_table_size
<1>2. Indexed \in SUBSET (DOMAIN keys)
  BY <1>1 DEF Indexed
<1>3. NoStray(table, Indexed)
  BY DEF MapIInv, MapInv, NoStrayIndex, NoStray
<1>4. ASSUME NEW i \in Indexed
      PROVE  IsFound(table, keys, keys[i]) /\ table[FoundAt(table, keys, keys[i])] = i
  <2>1. keys[i] \in Key
    BY <1>1, <1>2
  <2>2. Occupied(keys[i]) /\ find_kv_index(keys[i]) = i
    BY DEF MapIInv, MapInv, EveryKeyFound
  <2>. QED BY <1>1, <2>1, <2>2, Finding, OccupiedIs DEF find_kv_index
<1>5. toIndex > 0 => FoundAt(table, keys, keys[toIndex]) # null_index_table_index
  <2>1. toIndex > 0 => keys[toIndex] \in Key /\ find_table_index(keys[toIndex]) # null_index_table_index
    BY <1>1 DEF MapIInv, MapInv, StorageSuffices
  <2>. QED BY <2>1, Finding
<1>. QED BY <1>1, <1>2, <1>3, <1>4, <1>5, KeysReached

\* What has to be shown of the next state: that a rehash finds a slot for the
\* next key follows, because the table is larger than the number of keys.
LEMMA MapKept ==
    ASSUME table' \in Seq(Entry), keys' \in Seq(Key), vals' \in Seq(Value), Len(vals') = Len(keys'),
           toIndex' \in 0..Len(keys'), job' \in Job \cup {NoJob}, answer' \in Answer,
           NEW D, D = IF toIndex' = 0 THEN DOMAIN keys' ELSE 1..toIndex' - 1,
           Reaches(table', keys', D), NoStray(table', D),
           Len(keys') <= Len(table') \div 2, IsInjective(keys'),
           toIndex' > 0 => table' \in Seq(Nat)
    PROVE  MapIInv'
<1>1. MapTypeOK'
  BY DEF MapTypeOK, Entry, m_kv_pair_count
<1>2. D = Indexed' /\ D \in SUBSET (DOMAIN keys')
  <2>1. D = Indexed'
    BY DEF Indexed
  <2>2. DOMAIN keys' = 1..Len(keys') /\ Len(keys') \in Nat
    OBVIOUS
  <2>3. \A i \in D : i \in 1..Len(keys')
    BY <2>2
  <2>. QED BY <2>1, <2>2, <2>3
<1>3. NoStrayIndex'
  BY <1>2 DEF NoStrayIndex, NoStray
<1>4. EveryKeyFound'
  <2>1. ASSUME NEW i \in D, NEW k, k = keys'[i] PROVE Occupied(k)' /\ find_kv_index(k)' = i
    <3>1. k \in Key /\ IsFound(table', keys', k) /\ table'[FoundAt(table', keys', k)] = i
      <4>1. \A j \in D : IsFound(table', keys', keys'[j]) /\ table'[FoundAt(table', keys', keys'[j])] = j
        BY <1>2, KeysReached
      <4>2. keys'[i] \in Key
        BY <1>2
      <4>. QED BY <2>1, <4>1, <4>2
    <3>2. Occupied(k)' /\ find_table_index(k)' = FoundAt(table', keys', k)
      BY <3>1, Finding, OccupiedIs
    <3>. QED BY <3>1, <3>2 DEF find_kv_index
  <2>. QED BY <1>2, <2>1 DEF EveryKeyFound
<1>5. ASSUME toIndex' > 0, NEW k, k = keys'[toIndex'] PROVE find_table_index(k)' # null_index_table_index
  <2>. DEFINE m == toIndex' - 1
  <2>0. /\ toIndex' \in Nat /\ toIndex' \in DOMAIN keys' /\ toIndex' # 0 /\ Len(keys') \in Nat
        /\ toIndex' >= 1 /\ toIndex' <= Len(keys')
    BY <1>5
  <2>5. k \in Key /\ Len(table') \in Nat
    BY <1>5, <2>0
  <2>6. D = 1..m
    BY <2>0
  <2>7. m \in Nat /\ m < Len(keys')
    <3>1. \A i, n \in Nat : i >= 1 /\ i <= n => i - 1 \in Nat /\ i - 1 < n
      BY Z3
    <3>. QED BY <2>0, <3>1, Zenon
  <2>. HIDE DEF m
  <2>1. m \in Nat /\ D = 1..m /\ k \in Key /\ Len(table') \in Nat /\ m < Len(keys') /\ Len(keys') \in Nat
    BY <2>0, <2>5, <2>6, <2>7
  <2>2. m < Len(table')
    <3>1. Len(table') \div 2 <= Len(table') /\ Len(table') \div 2 \in Nat
      BY <2>5
    <3>. QED BY <2>1, <3>1
  <2>3. PICK s \in DOMAIN table' : table'[s] = 0
    BY <1>5, <2>1, <2>2, FreeSlot
  <2>4. FoundAt(table', keys', k) # null_index_table_index
    BY <2>1, <2>3, RoomFound DEF empty_kv_index
  <2>. QED BY <2>1, <2>4, Finding
<1>6. StorageSuffices'
  BY <1>5 DEF StorageSuffices, m_kv_pair_count, get_kv_storage_size, m_index_table_size
<1>. QED BY <1>1, <1>3, <1>4, <1>6 DEF MapIInv, MapInv

-----------------------------------------------------------------------------

\* A blank table is filled again.
LEMMA Rebuilt ==
    ASSUME NEW n \in Nat, table' = Blank(n),
           keys' \in Seq(Key), vals' \in Seq(Value), Len(vals') = Len(keys'),
           toIndex' = (IF keys' = <<>> THEN 0 ELSE 1),
           job' \in Job \cup {NoJob}, answer' \in Answer,
           Len(keys') <= n \div 2, IsInjective(keys')
    PROVE  MapIInv'
<1>1. /\ table' \in Seq(Nat) /\ table' \in Seq(Entry) /\ Len(table') = n
      /\ \A s \in DOMAIN table' : table'[s] = 0
  BY DEF Blank, empty_kv_index, Entry
<1>2. toIndex' \in 0..Len(keys') /\ (IF toIndex' = 0 THEN DOMAIN keys' ELSE 1..toIndex' - 1) = {}
  BY EmptySeq
<1>3. Reaches(table', keys', {}) /\ NoStray(table', {})
  BY <1>1 DEF Reaches, NoStray
<1>. QED BY <1>1, <1>2, <1>3, MapKept

LEMMA Quieted == Quiet \in Answer
  BY DEF Quiet, Answer

LEMMA Reserved ==
    ASSUME MapIInv, NEW n \in Nat, _reserve(n), job' \in Job \cup {NoJob}, answer' \in Answer
    PROVE  MapIInv'
<1>1. keys' = keys /\ vals' = vals /\ table' = Blank(2 * n) /\ n >= Len(keys)
      /\ toIndex' = (IF keys = <<>> THEN 0 ELSE 1)
  BY DEF _reserve, StartRehash, m_kv_pair_count
<1>2. /\ keys \in Seq(Key) /\ vals \in Seq(Value) /\ Len(vals) = Len(keys) /\ IsInjective(keys)
  BY MapFacts
<1>3. 2 * n \in Nat /\ (2 * n) \div 2 = n
  OBVIOUS
<1>4. Len(keys') <= (2 * n) \div 2
  BY <1>1, <1>2, <1>3
<1>. QED BY <1>1, <1>2, <1>3, <1>4, Rebuilt

\* The calls that leave the table to be filled again.
LEMMA RehashKept ==
    ASSUME MapIInv, Rehash
    PROVE  MapIInv'
<1>1. /\ keys' = keys /\ vals' = vals /\ table' = Blank(Len(table)) /\ job' = job /\ answer' = Quiet
      /\ toIndex' = (IF keys = <<>> THEN 0 ELSE 1)
  BY DEF Rehash, StartRehash, m_index_table_size
<1>2. /\ keys \in Seq(Key) /\ vals \in Seq(Value) /\ Len(vals) = Len(keys) /\ IsInjective(keys)
      /\ job \in Job \cup {NoJob} /\ Len(keys) <= Len(table) \div 2 /\ table \in Seq(Entry)
  BY MapFacts
<1>3. Len(table) \in Nat
  BY <1>2
<1>. QED BY <1>1, <1>2, <1>3, Quieted, Rebuilt

LEMMA SortKept ==
    ASSUME MapIInv, sort_by_key
    PROVE  MapIInv'
<1>1. PICK p \in Bijection(DOMAIN keys, DOMAIN keys) :
         /\ keys' = [i \in DOMAIN keys |-> keys[p[i]]]
         /\ vals' = [i \in DOMAIN keys |-> vals[p[i]]]
  BY DEF sort_by_key
<1>2. /\ table' = Blank(Len(table)) /\ job' = job /\ answer' = Quiet
      /\ toIndex' = (IF keys = <<>> THEN 0 ELSE 1)
  BY DEF sort_by_key, StartRehash, m_index_table_size
<1>3. /\ keys \in Seq(Key) /\ vals \in Seq(Value) /\ Len(vals) = Len(keys) /\ IsInjective(keys)
      /\ job \in Job \cup {NoJob} /\ Len(keys) <= Len(table) \div 2 /\ table \in Seq(Entry)
  BY MapFacts
<1>4. p \in [DOMAIN keys -> DOMAIN keys] /\ IsInjective(p)
  BY <1>1 DEF Bijection, Injection
<1>5. /\ keys' \in Seq(Key) /\ Len(keys') = Len(keys) /\ DOMAIN keys' = DOMAIN keys
      /\ vals' \in Seq(Value) /\ Len(vals') = Len(keys)
  <2>1. DOMAIN keys = 1..Len(keys) /\ DOMAIN vals = 1..Len(keys) /\ Len(keys) \in Nat
    BY <1>3
  <2>2. ASSUME NEW i \in 1..Len(keys) PROVE keys[p[i]] \in Key /\ vals[p[i]] \in Value
    <3>1. p[i] \in DOMAIN keys
      BY <1>4, <2>1
    <3>2. p[i] \in DOMAIN vals
      BY <2>1, <3>1
    <3>. QED BY <1>3, <3>1, <3>2
  <2>3. keys' = [i \in 1..Len(keys) |-> keys[p[i]]] /\ vals' = [i \in 1..Len(keys) |-> vals[p[i]]]
    BY <1>1, <2>1
  <2>4. keys' \in [1..Len(keys) -> Key] /\ vals' \in [1..Len(keys) -> Value]
    BY <2>2, <2>3
  <2>5. keys' \in Seq(Key) /\ Len(keys') = Len(keys)
    BY <2>1, <2>4
  <2>6. vals' \in Seq(Value) /\ Len(vals') = Len(keys)
    BY <2>1, <2>4
  <2>. QED BY <2>1, <2>4, <2>5, <2>6
<1>6. IsInjective(keys')
  <2>1. ASSUME NEW i \in DOMAIN keys, NEW j \in DOMAIN keys, keys'[i] = keys'[j] PROVE i = j
    <3>1. keys[p[i]] = keys[p[j]] /\ p[i] \in DOMAIN keys /\ p[j] \in DOMAIN keys
      BY <1>1, <1>4, <2>1
    <3>2. p[i] = p[j]
      BY <1>3, <3>1 DEF IsInjective
    <3>. QED BY <1>4, <3>2 DEF IsInjective
  <2>. QED BY <1>5, <2>1 DEF IsInjective
<1>7. keys' = <<>> <=> keys = <<>>
  BY <1>3, <1>5, EmptySeq
<1>8. Len(table) \in Nat
  BY <1>3
<1>. QED BY <1>2, <1>3, <1>5, <1>6, <1>7, <1>8, Quieted, Rebuilt

\* No key is left, with the table (Clear) or without it (MovedFrom).
LEMMA ClearKept ==
    ASSUME MapIInv, Clear \/ MovedFrom
    PROVE  MapIInv'
<1>1. /\ keys' = <<>> /\ vals' = <<>> /\ job' = job /\ answer' = Quiet /\ toIndex' = 0
      /\ table' = Blank(Len(table)) \/ table' = <<>>
  BY DEF Clear, MovedFrom, Idle, m_index_table_size
<1>2. job \in Job \cup {NoJob} /\ table \in Seq(Entry)
  BY MapFacts
<1>3. Len(table) \in Nat /\ 0 <= Len(table) \div 2 /\ 0 <= 0 \div 2
  BY <1>2
<1>4. /\ keys' \in Seq(Key) /\ vals' \in Seq(Value) /\ Len(vals') = Len(keys') /\ Len(keys') = 0
      /\ IsInjective(keys')
  BY <1>1 DEF IsInjective
<1>5. <<>> = Blank(0)
  BY DEF Blank
<1>. QED BY <1>1, <1>2, <1>3, <1>4, <1>5, Quieted, Rebuilt

\* The steps that leave the table and the keys as they are.
LEMMA SameKeys ==
    ASSUME MapIInv, UNCHANGED <<table, keys, toIndex>>,
           vals' \in Seq(Value), Len(vals') = Len(keys), job' \in Job \cup {NoJob}, answer' \in Answer
    PROVE  MapIInv'
<1>1. /\ table \in Seq(Entry) /\ keys \in Seq(Key) /\ toIndex \in 0..Len(keys)
      /\ Reaches(table, keys, Indexed) /\ NoStray(table, Indexed)
      /\ Len(keys) <= Len(table) \div 2 /\ IsInjective(keys)
      /\ (toIndex > 0 => table \in Seq(Nat))
  BY MapFacts
<1>2. PICK D : D = (IF toIndex = 0 THEN DOMAIN keys ELSE 1..toIndex - 1)
  OBVIOUS
<1>3. Reaches(table', keys', D) /\ NoStray(table', D)
  BY <1>1, <1>2 DEF Indexed
<1>4. D = (IF toIndex' = 0 THEN DOMAIN keys' ELSE 1..toIndex' - 1)
  BY <1>2
<1>. QED BY <1>1, <1>3, <1>4, MapKept

\* What is found is a pair, and the pair of its key.
LEMMA FoundPair ==
    ASSUME MapIInv, toIndex = 0, NEW k \in Key
    PROVE  /\ Occupied(k) <=> \E i \in DOMAIN keys : keys[i] = k
           /\ Occupied(k) => /\ find_kv_index(k) \in DOMAIN keys /\ find_kv_index(k) \in DOMAIN vals
                             /\ keys[find_kv_index(k)] = k /\ vals[find_kv_index(k)] \in Value
                             /\ find_table_index(k) \in DOMAIN table
                             /\ table[find_table_index(k)] = find_kv_index(k)
<1>1. /\ table \in Seq(Entry) /\ keys \in Seq(Key) /\ vals \in Seq(Value) /\ Len(vals) = Len(keys)
      /\ Indexed = DOMAIN keys /\ NoStray(table, DOMAIN keys)
      /\ \A i \in DOMAIN keys : IsFound(table, keys, keys[i])
  BY MapFacts DEF Indexed
<1>2. Occupied(k) <=> IsFound(table, keys, k)
  BY <1>1, OccupiedIs
<1>3. ASSUME Occupied(k)
      PROVE  /\ find_kv_index(k) = table[FoundAt(table, keys, k)] /\ find_table_index(k) = FoundAt(table, keys, k)
             /\ find_kv_index(k) \in DOMAIN keys /\ keys[find_kv_index(k)] = k
             /\ find_table_index(k) \in DOMAIN table
  <2>1. /\ FoundAt(table, keys, k) \in DOMAIN table /\ table[FoundAt(table, keys, k)] \in Nat \ {0}
        /\ keys[table[FoundAt(table, keys, k)]] = k
    BY <1>1, <1>2, <1>3, Occupying
  <2>2. find_kv_index(k) = table[FoundAt(table, keys, k)] /\ find_table_index(k) = FoundAt(table, keys, k)
    BY <1>3, Finding DEF find_kv_index
  <2>3. table[FoundAt(table, keys, k)] \in DOMAIN keys
    BY <1>1, <2>1 DEF NoStray
  <2>. QED BY <2>1, <2>2, <2>3
<1>4. DOMAIN keys = DOMAIN vals
  BY <1>1
<1>. QED BY <1>1, <1>2, <1>3, <1>4

LEMMA BeginKept ==
    ASSUME MapIInv, NEW op \in {"insert", "subscript"}, NEW k \in Key, NEW v \in Value, Begin(op, k, v)
    PROVE  MapIInv'
<1>1. UNCHANGED <<table, keys, vals, toIndex>> /\ answer' = Quiet /\ job' \in Job
  BY DEF Begin, Job
<1>2. vals \in Seq(Value) /\ Len(vals) = Len(keys)
  BY MapFacts
<1>. QED BY <1>1, <1>2, Quieted, SameKeys

LEMMA AtKept ==
    ASSUME MapIInv, NEW k \in Key, At(k)
    PROVE  MapIInv'
<1>1. /\ UNCHANGED <<table, keys, vals, toIndex, job>> /\ toIndex = 0
      /\ answer' = [op |-> "at", ok |-> Occupied(k),
                    value |-> IF Occupied(k) THEN vals[find_kv_index(k)] ELSE Absent]
  BY DEF At, Idle
<1>2. vals \in Seq(Value) /\ Len(vals) = Len(keys) /\ job \in Job \cup {NoJob}
  BY MapFacts
<1>3. Occupied(k) \in BOOLEAN /\ (Occupied(k) => vals[find_kv_index(k)] \in Value)
  BY <1>1, FoundPair DEF Occupied
<1>4. answer' \in Answer
  BY <1>1, <1>3 DEF Answer
<1>. QED BY <1>1, <1>2, <1>4, SameKeys

LEMMA StoreKept ==
    ASSUME MapIInv, NEW i \in DOMAIN keys, NEW v \in Value, Store(i, v)
    PROVE  MapIInv'
<1>1. UNCHANGED <<table, keys, toIndex, job>> /\ answer' = Quiet /\ vals' = [vals EXCEPT ![i] = v]
  BY DEF Store
<1>2. vals \in Seq(Value) /\ Len(vals) = Len(keys) /\ job \in Job \cup {NoJob}
  BY MapFacts
<1>3. vals' \in Seq(Value) /\ Len(vals') = Len(keys)
  BY <1>1, <1>2
<1>. QED BY <1>1, <1>2, <1>3, Quieted, SameKeys

LEMMA InsertExistingKept ==
    ASSUME MapIInv, InsertExisting
    PROVE  MapIInv'
<1>1. /\ UNCHANGED <<table, keys, vals, toIndex>> /\ job' = NoJob /\ job # NoJob /\ toIndex = 0
      /\ answer' = [op |-> job.op, ok |-> job.op = "subscript", value |-> vals[find_kv_index(job.key)]]
      /\ Occupied(job.key)
  BY DEF InsertExisting, Return
<1>2. vals \in Seq(Value) /\ Len(vals) = Len(keys) /\ job \in Job
  BY <1>1, MapFacts
<1>3. job.op \in {"insert", "subscript"} /\ job.key \in Key
  BY <1>2 DEF Job
<1>4. vals[find_kv_index(job.key)] \in Value
  BY <1>1, <1>3, FoundPair
<1>5. answer' \in Answer
  BY <1>1, <1>3, <1>4 DEF Answer
<1>. QED BY <1>1, <1>2, <1>5, SameKeys

\* The table gets one more index.
LEMMA RehashNextKept ==
    ASSUME MapIInv, RehashNext
    PROVE  MapIInv'
<1>. DEFINE t == toIndex
            k == keys[toIndex]
            D == 1..t - 1
<1>1. /\ keys' = keys /\ vals' = vals /\ job' = job /\ answer' = answer
      /\ t > 0 /\ toIndex' = IF t = Len(keys) THEN 0 ELSE t + 1
  BY DEF RehashNext, m_kv_pair_count
<1>2. /\ table \in Seq(Entry) /\ keys \in Seq(Key) /\ vals \in Seq(Value) /\ Len(vals) = Len(keys)
      /\ t \in 0..Len(keys) /\ job \in Job \cup {NoJob} /\ answer \in Answer
      /\ Len(keys) <= Len(table) \div 2 /\ IsInjective(keys)
      /\ table \in Seq(Nat) /\ FoundAt(table, keys, k) # null_index_table_index
  BY <1>1, MapFacts
<1>3. /\ t \in Nat /\ t \in DOMAIN keys /\ k \in Key /\ t - 1 \in Nat /\ D \in SUBSET Nat /\ t \notin D
      /\ \A i \in D : i \in DOMAIN keys /\ keys[i] # k
  <2>1. t \in Nat /\ t \in DOMAIN keys /\ k \in Key /\ t - 1 \in Nat /\ D \in SUBSET Nat /\ t \notin D
    BY <1>1, <1>2
  <2>2. \A i \in D : i \in DOMAIN keys /\ i # t
    BY <1>1, <1>2
  <2>. QED BY <1>2, <2>1, <2>2 DEF IsInjective
<1>4. D = Indexed
  BY <1>1 DEF Indexed
<1>5. Reaches(table, keys, D) /\ NoStray(table, D)
  BY <1>4, MapFacts
<1>6. table' = [table EXCEPT ![FoundAt(table, keys, k)] = t]
  <2>1. find_table_index(k) = FoundAt(table, keys, k)
    BY <1>3, Finding
  <2>. QED BY <2>1 DEF RehashNext
<1>. HIDE DEF k, D
<1>7. ~IsFound(table, keys, k)
  <2>1. SUFFICES ASSUME IsFound(table, keys, k) PROVE FALSE
    OBVIOUS
  <2>2. /\ FoundAt(table, keys, k) \in DOMAIN table /\ table[FoundAt(table, keys, k)] \in Nat \ {0}
        /\ keys[table[FoundAt(table, keys, k)]] = k
    BY <1>2, <1>3, <2>1, Occupying
  <2>3. table[FoundAt(table, keys, k)] \in D
    BY <1>5, <2>2 DEF NoStray
  <2>. QED BY <1>3, <2>2, <2>3
<1>8. PICK p \in 0..Len(table) - 1 :
         /\ FoundAt(table, keys, k) = Probe(table, k, p)
         /\ table[Probe(table, k, p)] = empty_kv_index
         /\ \A q \in 0..p - 1 : table[Probe(table, k, q)] # empty_kv_index
  BY <1>2, <1>3, <1>7, EmptyEnd
<1>9. /\ table' \in Seq(Entry) /\ Len(table') = Len(table)
      /\ NoStray(table', D \cup {t}) /\ Reaches(table', keys, D \cup {t})
  <2>1. k = keys[t]
    BY DEF k
  <2>. HIDE DEF t
  <2>2. PlaceReady(table, keys, keys, D, t, p, table')
    BY <1>2, <1>3, <1>5, <1>6, <1>8, <2>1 DEF PlaceReady
  <2>3. /\ table \in Seq(Entry) /\ keys \in Seq(Key) /\ D \in SUBSET Nat /\ t \in DOMAIN keys
        /\ p \in 0..Len(table) - 1
    BY <1>2, <1>3
  <2>4. HoldsAll(table', keys, D \cup {t}) /\ Len(table') = Len(table)
    <3>1. PICK E, m, K : E = D /\ m = t /\ K = keys
      OBVIOUS
    <3>2. /\ PlaceReady(table, K, K, E, m, p, table')
          /\ table \in Seq(Entry) /\ K \in Seq(Key) /\ E \in SUBSET Nat /\ m \in DOMAIN K
          /\ p \in 0..Len(table) - 1
      BY <2>2, <2>3, <3>1
    <3>3. HoldsAll(table', K, E \cup {m}) /\ Len(table') = Len(table)
      BY <3>2, Placing, ZenonT(60)
    <3>. QED BY <3>1, <3>3
  <2>. QED BY <2>4 DEF HoldsAll
<1>10. D \cup {t} = IF toIndex' = 0 THEN DOMAIN keys' ELSE 1..toIndex' - 1
  BY <1>1, <1>2, <1>3 DEF D
<1>11. toIndex' \in 0..Len(keys') /\ Len(keys') <= Len(table') \div 2 /\ table' \in Seq(Nat)
  <2>1. toIndex' \in 0..Len(keys') /\ Len(keys') <= Len(table') \div 2
    BY <1>1, <1>2, <1>9
  <2>2. table' \in Seq(Nat)
    <3>1. table \in Seq(Nat) /\ t \in Nat
      BY <1>2, <1>3
    <3>2. FoundAt(table, keys, k) \in 1..Len(table)
      <4>1. p \in Nat /\ Len(table) # 0 /\ table \in Seq(Entry)
        BY <1>2
      <4>2. PICK m : m = k
        OBVIOUS
      <4>3. m \in Key /\ FoundAt(table, keys, k) = Probe(table, m, p)
        BY <1>3, <1>8, <4>2
      <4>. QED BY <4>1, <4>3, ProbeIn
    <3>3. PICK m : m = Len(table)
      OBVIOUS
    <3>4. PICK s : s = FoundAt(table, keys, k)
      OBVIOUS
    <3>5. table \in [1..m -> Nat] /\ m \in Nat /\ s \in 1..m
      BY <3>1, <3>2, <3>3, <3>4
    <3>6. table' = [table EXCEPT ![s] = t]
      BY <1>6, <3>4
    <3>. HIDE DEF t
    <3>7. table' \in [1..m -> Nat]
      BY <3>1, <3>5, <3>6
    <3>. QED BY <3>5, <3>7
  <2>. QED BY <2>1, <2>2
<1>. QED BY <1>1, <1>2, <1>9, <1>10, <1>11, MapKept

LEMMA PushBackKept ==
    ASSUME MapIInv, PushBack
    PROVE  MapIInv'
<1>. DEFINE k == job.key
            D == DOMAIN keys
            n == Len(keys) + 1
<1>1. /\ job # NoJob /\ toIndex = 0 /\ toIndex' = 0 /\ job' = NoJob
      /\ keys' = Append(keys, k) /\ vals' = Append(vals, job.value)
      /\ table' = [table EXCEPT ![find_table_index(k)] = n]
      /\ answer' = [op |-> job.op, ok |-> TRUE, value |-> job.value]
      /\ find_table_index(k) # null_index_table_index /\ ~Occupied(k)
      /\ Len(keys) < Len(table) \div 2
  BY DEF PushBack, Return, m_kv_pair_count, can_push_to_kv_storage, get_kv_storage_size, m_index_table_size
<1>2. /\ table \in Seq(Entry) /\ keys \in Seq(Key) /\ vals \in Seq(Value) /\ Len(vals) = Len(keys)
      /\ job \in Job /\ IsInjective(keys)
      /\ Reaches(table, keys, D) /\ NoStray(table, D)
  BY <1>1, MapFacts DEF Indexed
<1>3. job.op \in {"insert", "subscript"} /\ k \in Key /\ job.value \in Value
  BY <1>2 DEF Job
<1>4. FoundAt(table, keys, k) # null_index_table_index /\ ~IsFound(table, keys, k)
      /\ find_table_index(k) = FoundAt(table, keys, k)
  BY <1>1, <1>2, <1>3, Finding, OccupiedIs
<1>5. PICK p \in 0..Len(table) - 1 :
         /\ FoundAt(table, keys, k) = Probe(table, k, p)
         /\ table[Probe(table, k, p)] = empty_kv_index
         /\ \A q \in 0..p - 1 : table[Probe(table, k, q)] # empty_kv_index
  BY <1>2, <1>3, <1>4, EmptyEnd
<1>6. \A i \in D : keys[i] # k
  BY <1>1, <1>3, FoundPair
<1>7. /\ keys' \in Seq(Key) /\ Len(keys') = n /\ vals' \in Seq(Value) /\ Len(vals') = n
      /\ keys'[n] = k /\ D \in SUBSET Nat /\ D \subseteq DOMAIN keys' /\ n \in DOMAIN keys' /\ n \notin D
      /\ D \cup {n} = DOMAIN keys' /\ \A i \in D : keys'[i] = keys[i]
  BY <1>1, <1>2, <1>3
<1>8. IsInjective(keys')
  <2>1. \A i \in DOMAIN keys' : i = n \/ i \in D
    BY <1>7
  <2>2. \A i, j \in D : keys[i] = keys[j] => i = j
    BY <1>2 DEF IsInjective
  <2>. HIDE DEF n, D
  <2>3. \A i, j \in DOMAIN keys' : keys'[i] = keys'[j] => i = j
    BY <1>6, <1>7, <2>1, <2>2
  <2>. QED BY <2>3 DEF IsInjective
<1>. HIDE DEF k, D, n
<1>9. /\ table' \in Seq(Entry) /\ Len(table') = Len(table)
      /\ NoStray(table', D \cup {n}) /\ Reaches(table', keys', D \cup {n})
  <2>1. /\ D \in SUBSET Nat /\ D \subseteq DOMAIN keys /\ D \subseteq DOMAIN keys'
        /\ n \in DOMAIN keys' /\ n \notin D
        /\ \A i \in D : keys'[i] = keys[i] /\ keys[i] # keys'[n]
    BY <1>6, <1>7 DEF D
  <2>2. PICK L : L = keys'
    OBVIOUS
  <2>3. /\ table \in Seq(Entry) /\ keys \in Seq(Key) /\ L \in Seq(Key) /\ D \in SUBSET Nat
        /\ n \in DOMAIN L /\ p \in 0..Len(table) - 1 /\ L[n] = k
    BY <1>2, <1>7, <2>1, <2>2
  <2>5. PlaceReady(table, keys, L, D, n, p, table')
    BY <1>1, <1>2, <1>4, <1>5, <2>1, <2>2, <2>3 DEF PlaceReady
  <2>6. HoldsAll(table', L, D \cup {n}) /\ Len(table') = Len(table)
    <3>1. PICK E, m : E = D /\ m = n
      OBVIOUS
    <3>2. /\ PlaceReady(table, keys, L, E, m, p, table')
          /\ table \in Seq(Entry) /\ keys \in Seq(Key) /\ L \in Seq(Key) /\ E \in SUBSET Nat
          /\ m \in DOMAIN L /\ p \in 0..Len(table) - 1
      BY <2>3, <2>5, <3>1
    <3>3. HoldsAll(table', L, E \cup {m}) /\ Len(table') = Len(table)
      BY <3>2, Placing, ZenonT(60)
    <3>. QED BY <3>1, <3>3
  <2>4. HoldsAll(table', keys', D \cup {n}) /\ Len(table') = Len(table)
    BY <2>2, <2>6
  <2>. QED BY <2>4 DEF HoldsAll
<1>10. answer' \in Answer
  BY <1>1, <1>3 DEF Answer
<1>11. toIndex' \in 0..Len(keys') /\ Len(keys') <= Len(table') \div 2 /\ Len(vals') = Len(keys')
       /\ D \cup {n} = IF toIndex' = 0 THEN DOMAIN keys' ELSE 1..toIndex' - 1
  <2>1. Len(keys) \in Nat /\ Len(table) \in Nat
    BY <1>2
  <2>2. Len(keys') = Len(keys) + 1
    BY <1>7 DEF n
  <2>4. D \cup {n} = IF toIndex' = 0 THEN DOMAIN keys' ELSE 1..toIndex' - 1
    BY <1>1, <1>7, Zenon
  <2>5. Len(vals') = Len(keys')
    BY <1>7
  <2>3. toIndex' \in 0..Len(keys') /\ Len(keys') <= Len(table') \div 2
    BY <1>1, <1>9, <2>1, <2>2
  <2>. QED BY <2>3, <2>4, <2>5
<1>12. PICK E : E = D \cup {n}
  OBVIOUS
<1>13. Reaches(table', keys', E) /\ NoStray(table', E) /\ E = (IF toIndex' = 0 THEN DOMAIN keys' ELSE 1..toIndex' - 1)
  BY <1>9, <1>11, <1>12, Zenon
<1>14. /\ table' \in Seq(Entry) /\ keys' \in Seq(Key) /\ vals' \in Seq(Value)
       /\ job' \in Job \cup {NoJob} /\ (toIndex' > 0 => table' \in Seq(Nat))
  BY <1>1, <1>7, <1>9
<1>. QED BY <1>8, <1>10, <1>11, <1>13, <1>14, MapKept

\* The keys and values that are left.
LEMMA FilledIs ==
    ASSUME NEW S, NEW s \in Seq(S), NEW i \in DOMAIN s
    PROVE  /\ Filled(s, i) \in Seq(S) /\ Len(Filled(s, i)) = Len(s) - 1
           /\ \A j \in 1..Len(s) - 1 : Filled(s, i)[j] = IF j = i THEN s[Len(s)] ELSE s[j]
<1>. DEFINE r == [s EXCEPT ![i] = s[Len(s)]]
<1>1. /\ Len(s) \in Nat /\ Len(s) # 0 /\ Len(s) \in DOMAIN s /\ s[Len(s)] \in S
      /\ i \in 1..Len(s)
  OBVIOUS
<1>2. /\ r \in Seq(S) /\ Len(r) = Len(s)
      /\ \A j \in 1..Len(s) : r[j] = IF j = i THEN s[Len(s)] ELSE s[j]
  BY <1>1
<1>3. Filled(s, i) = SubSeq(r, 1, Len(s) - 1)
  BY <1>2 DEF Filled, ButLast
<1>. HIDE DEF r
<1>4. Len(s) - 1 \in 0..Len(r) /\ Len(s) - 1 \in Nat /\ 1 \in 1..Len(r) + 1
  BY <1>1, <1>2
<1>5. /\ SubSeq(r, 1, Len(s) - 1) \in Seq(S) /\ Len(SubSeq(r, 1, Len(s) - 1)) = Len(s) - 1
      /\ \A j \in 1..Len(s) - 1 : SubSeq(r, 1, Len(s) - 1)[j] = r[j]
  BY <1>1, <1>2, <1>4
<1>. QED BY <1>1, <1>2, <1>3, <1>5

LEMMA EraseKept ==
    ASSUME MapIInv, NEW k \in Key, Erase(k)
    PROVE  MapIInv'
<1>. DEFINE i == find_kv_index(k)
            n == Len(keys)
<1>1. /\ toIndex = 0 /\ toIndex' = 0 /\ job' = job
      /\ answer' = [op |-> "erase", ok |-> Occupied(k), value |-> Absent]
      /\ ~Occupied(k) => UNCHANGED <<table, keys, vals>>
      /\ Occupied(k) =>
            /\ keys' = Filled(keys, i) /\ vals' = Filled(vals, i)
            /\ table' = [table EXCEPT ![find_table_index(keys[n])] = i, ![find_table_index(k)] = erased_kv_index]
  BY DEF Erase, Idle, m_kv_pair_count
<1>2. /\ table \in Seq(Entry) /\ keys \in Seq(Key) /\ vals \in Seq(Value) /\ Len(vals) = Len(keys)
      /\ job \in Job \cup {NoJob} /\ IsInjective(keys) /\ Len(keys) <= Len(table) \div 2
      /\ Reaches(table, keys, DOMAIN keys) /\ NoStray(table, DOMAIN keys)
      /\ \A j \in DOMAIN keys : table[FoundAt(table, keys, keys[j])] = j /\ IsFound(table, keys, keys[j])
  BY <1>1, MapFacts DEF Indexed
<1>3. answer' \in Answer
  BY <1>1 DEF Answer, Occupied
<1>4. CASE ~Occupied(k)
  BY <1>1, <1>2, <1>3, <1>4, SameKeys
<1>5. CASE Occupied(k)
  <2>1. /\ i \in DOMAIN keys /\ i \in DOMAIN vals
        /\ find_table_index(k) \in DOMAIN table /\ table[find_table_index(k)] = i
    BY <1>1, <1>5, FoundPair
  <2>2. n \in DOMAIN keys /\ keys[n] \in Key /\ n \in Nat
    BY <1>2, <2>1
  <2>3. find_table_index(keys[n]) \in DOMAIN table /\ table[find_table_index(keys[n])] = n
    BY <1>2, <2>2, Finding, Occupying
  <2>. HIDE DEF i
  <2>10. keys' = Filled(keys, i) /\ vals' = Filled(vals, i)
    BY <1>1, <1>5
  <2>4. /\ keys' \in Seq(Key) /\ Len(keys') = Len(keys) - 1
        /\ \A j \in 1..Len(keys) - 1 : keys'[j] = IF j = i THEN keys[Len(keys)] ELSE keys[j]
    <3>1. /\ Filled(keys, i) \in Seq(Key) /\ Len(Filled(keys, i)) = Len(keys) - 1
          /\ \A j \in 1..Len(keys) - 1 : Filled(keys, i)[j] = IF j = i THEN keys[Len(keys)] ELSE keys[j]
      BY <1>2, <2>1, FilledIs
    <3>. QED BY <2>10, <3>1
  <2>5. vals' \in Seq(Value) /\ Len(vals') = Len(keys) - 1
    <3>1. Filled(vals, i) \in Seq(Value) /\ Len(Filled(vals, i)) = Len(vals) - 1
      BY <1>2, <2>1, FilledIs
    <3>. QED BY <1>2, <2>10, <3>1
  <2>6. /\ table' \in Seq(Entry) /\ Len(table') = Len(table) /\ IsInjective(keys')
        /\ NoStray(table', DOMAIN keys') /\ Reaches(table', keys', DOMAIN keys')
    <3>. DEFINE s1 == find_table_index(k)
                s2 == find_table_index(keys[n])
    <3>1. PICK L : L = keys'
      OBVIOUS
    <3>2. RemoveReady(table, keys, L, i, s1, s2, table')
      BY <1>1, <1>2, <1>5, <2>1, <2>3, <2>4, <3>1 DEF RemoveReady
    <3>4. /\ table \in Seq(Entry) /\ keys \in Seq(Key) /\ L \in Seq(Key) /\ i \in DOMAIN keys
          /\ s1 \in DOMAIN table /\ s2 \in DOMAIN table
      BY <1>2, <2>1, <2>3, <2>4, <3>1
    <3>. HIDE DEF s1, s2
    <3>5. HoldsAll(table', L, DOMAIN L) /\ IsInjective(L) /\ Len(table') = Len(table)
      <4>1. PICK j, a, b : j = i /\ a = s1 /\ b = s2
        OBVIOUS
      <4>2. /\ RemoveReady(table, keys, L, j, a, b, table')
            /\ table \in Seq(Entry) /\ keys \in Seq(Key) /\ L \in Seq(Key) /\ j \in DOMAIN keys
            /\ a \in DOMAIN table /\ b \in DOMAIN table
        BY <3>2, <3>4, <4>1
      <4>. QED BY <4>2, Removing
    <3>3. HoldsAll(table', keys', DOMAIN keys') /\ IsInjective(keys') /\ Len(table') = Len(table)
      BY <3>1, <3>5
    <3>. QED BY <3>3 DEF HoldsAll
  <2>7. Len(keys') <= Len(table') \div 2 /\ toIndex' \in 0..Len(keys') /\ Len(vals') = Len(keys')
    <3>1. Len(table) \in Nat /\ Len(keys) \in Nat /\ Len(keys') \in Nat
      BY <1>2, <2>4
    <3>. QED BY <1>1, <1>2, <2>4, <2>5, <2>6, <3>1
  <2>8. PICK D : D = DOMAIN keys'
    OBVIOUS
  <2>9. D = IF toIndex' = 0 THEN DOMAIN keys' ELSE 1..toIndex' - 1
    BY <1>1, <2>8
  <2>. QED BY <1>1, <1>2, <1>3, <2>4, <2>5, <2>6, <2>7, <2>8, <2>9, MapKept
<1>. QED BY <1>4, <1>5

\* The calls that reserve: reserve itself and the growth of an insertion.
LEMMA ReserveKept ==
    ASSUME MapIInv, (\E n \in 0..MaxStorage : Reserve(n)) \/ FirstReserve \/ Expand
    PROVE  MapIInv'
<1>1. job \in Job \cup {NoJob} /\ answer \in Answer /\ Len(table) \in Nat
  BY MapFacts
<1>2. ASSUME NEW n \in 0..MaxStorage, Reserve(n) PROVE MapIInv'
  <2>1. n \in Nat
    BY MapAssumption
  <2>2. _reserve(n) /\ job' = job /\ answer' = Quiet
    BY <1>2 DEF Reserve
  <2>. QED BY <1>1, <2>1, <2>2, Quieted, Reserved
<1>3. CASE FirstReserve
  <2>1. initial_capacity \in Nat
    BY MapAssumption
  <2>2. _reserve(initial_capacity) /\ job' = job /\ answer' = answer
    BY <1>3 DEF FirstReserve
  <2>. QED BY <1>1, <2>1, <2>2, Reserved
<1>4. CASE Expand
  <2>1. get_kv_storage_size * 2 + 1 \in Nat
    BY <1>1 DEF get_kv_storage_size, m_index_table_size
  <2>2. _reserve(get_kv_storage_size * 2 + 1) /\ job' = job /\ answer' = answer
    BY <1>4 DEF Expand
  <2>. QED BY <1>1, <2>1, <2>2, Reserved
<1>. QED BY <1>2, <1>3, <1>4

LEMMA MapIInvInit == MapInit => MapIInv
<1>. SUFFICES ASSUME MapInit PROVE MapIInv
  OBVIOUS
<1>1. /\ table = <<>> /\ keys = <<>> /\ vals = <<>> /\ toIndex = 0 /\ job = NoJob /\ answer = Quiet
  BY DEF MapInit
<1>2. MapTypeOK
  BY <1>1, Quieted DEF MapTypeOK, m_kv_pair_count
<1>3. Indexed = {} /\ DOMAIN table = {}
  BY <1>1 DEF Indexed
<1>4. EveryKeyFound /\ NoStrayIndex
  BY <1>3 DEF EveryKeyFound, NoStrayIndex
<1>5. StorageSuffices
  <2>1. Len(keys) = 0 /\ 0 <= Len(table) \div 2
    BY <1>1
  <2>2. IsInjective(keys)
    BY <1>1 DEF IsInjective
  <2>. QED BY <1>1, <2>1, <2>2 DEF StorageSuffices, m_kv_pair_count, get_kv_storage_size, m_index_table_size
<1>. QED BY <1>1, <1>2, <1>4, <1>5 DEF MapIInv, MapInv

LEMMA MapIInvStep == MapIInv /\ [MapNext]_mapVars => MapIInv'
<1>. SUFFICES ASSUME MapIInv, [MapNext]_mapVars PROVE MapIInv'
  OBVIOUS
<1>1. CASE JobStep
  BY <1>1, RehashNextKept, ReserveKept, InsertExistingKept, PushBackKept DEF JobStep
<1>2. CASE Call
  <2>1. ASSUME NEW k \in Key, NEW v \in Value, Begin("insert", k, v) PROVE MapIInv'
    BY <2>1, BeginKept
  <2>2. ASSUME NEW k \in Key, Begin("subscript", k, Default) PROVE MapIInv'
    BY <2>2, BeginKept, MapAssumption
  <2>3. ASSUME NEW k \in Key, At(k) PROVE MapIInv'
    BY <2>3, AtKept
  <2>4. ASSUME NEW k \in Key, Erase(k) PROVE MapIInv'
    BY <2>4, EraseKept
  <2>5. ASSUME NEW i \in DOMAIN keys, NEW v \in Value, Store(i, v) PROVE MapIInv'
    BY <2>5, StoreKept
  <2>6. CASE \E n \in 0..MaxStorage : Reserve(n)
    BY <2>6, ReserveKept
  <2>7. CASE Rehash
    BY <2>7, RehashKept
  <2>8. CASE sort_by_key
    BY <2>8, SortKept
  <2>9. CASE Clear \/ MovedFrom
    BY <2>9, ClearKept
  <2>. QED BY <1>2, <2>1, <2>2, <2>3, <2>4, <2>5, <2>6, <2>7, <2>8, <2>9 DEF Call
<1>3. CASE UNCHANGED mapVars
  <2>1. UNCHANGED <<table, keys, toIndex>> /\ vals' = vals /\ job' = job /\ answer' = answer
    BY <1>3 DEF mapVars
  <2>2. /\ vals \in Seq(Value) /\ Len(vals) = Len(keys) /\ job \in Job \cup {NoJob} /\ answer \in Answer
    BY MapFacts
  <2>. QED BY <2>1, <2>2, SameKeys
<1>. QED BY <1>1, <1>2, <1>3 DEF MapNext

LEMMA MapIInvAlways == MapSpec => []MapIInv
  BY MapIInvInit, MapIInvStep, PTL DEF MapSpec

THEOREM MapAgrees == MapSpec => []MapInv
<1>1. MapIInv => MapInv
  BY DEF MapIInv
<1>. QED BY <1>1, MapIInvAlways, PTL

-----------------------------------------------------------------------------
(* The abstract map.                                                       *)

\* operator[] inserts what the default constructor made.
SubscriptInserts == job # NoJob /\ job.op = "subscript" => job.value = Default

\* A function that has the pairs of the dense arrays, and no others.
IsMapOf(m, K, V) ==
    /\ m \in [Key -> Value \cup {Absent}]
    /\ \A i \in DOMAIN K : m[K[i]] = V[i]
    /\ \A k \in Key : (\A i \in DOMAIN K : K[i] # k) => m[k] = Absent
ContentsOf(K, V) ==
    [k \in Key |-> IF \E i \in DOMAIN K : K[i] = k THEN V[CHOOSE i \in DOMAIN K : K[i] = k] ELSE Absent]

LEMMA OneMap ==
    ASSUME NEW K \in Seq(Key), NEW V, NEW m, NEW n, IsMapOf(m, K, V), IsMapOf(n, K, V)
    PROVE  m = n
<1>1. m \in [Key -> Value \cup {Absent}] /\ n \in [Key -> Value \cup {Absent}]
  BY DEF IsMapOf
<1>2. ASSUME NEW k \in Key PROVE m[k] = n[k]
  BY DEF IsMapOf
<1>. QED BY <1>1, <1>2

LEMMA ContentsAre ==
    ASSUME NEW K \in Seq(Key), NEW V \in Seq(Value), Len(V) = Len(K), IsInjective(K)
    PROVE  IsMapOf(ContentsOf(K, V), K, V)
<1>. DEFINE m == ContentsOf(K, V)
<1>1. \A i \in DOMAIN K : K[i] \in Key /\ V[i] \in Value
  OBVIOUS
<1>2. ASSUME NEW i \in DOMAIN K PROVE m[K[i]] = V[i]
  <2>1. \A j \in DOMAIN K : K[j] = K[i] => j = i
    BY DEF IsInjective
  <2>2. (CHOOSE j \in DOMAIN K : K[j] = K[i]) = i
    BY <2>1
  <2>. QED BY <1>1, <2>2 DEF ContentsOf
<1>3. \A k \in Key : (\A i \in DOMAIN K : K[i] # k) => m[k] = Absent
  BY DEF ContentsOf
<1>4. m \in [Key -> Value \cup {Absent}]
  <2>1. ASSUME NEW k \in Key PROVE m[k] \in Value \cup {Absent}
    <3>1. CASE \E i \in DOMAIN K : K[i] = k
      BY <1>1, <1>2, <3>1
    <3>2. CASE ~\E i \in DOMAIN K : K[i] = k
      BY <1>3, <3>2
    <3>. QED BY <3>1, <3>2
  <2>2. m = [k \in Key |-> m[k]]
    BY DEF ContentsOf
  <2>. HIDE DEF m
  <2>. QED BY <2>1, <2>2
<1>. QED BY <1>2, <1>3, <1>4 DEF IsMapOf

LEMMA ContentsNow ==
    ASSUME MapIInv
    PROVE  /\ IsMapOf(Contents, keys, vals) /\ keys \in Seq(Key) /\ vals \in Seq(Value)
           /\ Len(vals) = Len(keys) /\ IsInjective(keys)
           /\ \A i \in DOMAIN keys : vals[i] \in Value
           /\ \A k \in Key : Contents[k] = Absent <=> \A i \in DOMAIN keys : keys[i] # k
<1>1. keys \in Seq(Key) /\ vals \in Seq(Value) /\ Len(vals) = Len(keys) /\ IsInjective(keys)
  BY MapFacts
<1>2. Contents = ContentsOf(keys, vals)
  BY DEF Contents, ContentsOf
<1>3. IsMapOf(Contents, keys, vals)
  BY <1>1, <1>2, ContentsAre
<1>4. \A i \in DOMAIN keys : vals[i] \in Value
  BY <1>1
<1>5. ASSUME NEW k \in Key PROVE Contents[k] = Absent <=> \A i \in DOMAIN keys : keys[i] # k
  <2>1. ASSUME NEW i \in DOMAIN keys, keys[i] = k PROVE Contents[k] # Absent
    BY <1>3, <1>4, <2>1, MapAssumption DEF IsMapOf
  <2>. QED BY <1>3, <2>1 DEF IsMapOf
<1>. QED BY <1>1, <1>3, <1>4, <1>5

LEMMA ContentsNext ==
    ASSUME MapIInv', NEW m, IsMapOf(m, keys', vals')
    PROVE  Contents' = m
<1>1. keys' \in Seq(Key) /\ vals' \in Seq(Value) /\ Len(vals') = Len(keys') /\ IsInjective(keys')
  BY DEF MapIInv, MapInv, MapTypeOK, StorageSuffices
<1>2. Contents' = ContentsOf(keys', vals')
  BY DEF Contents, ContentsOf
<1>. QED BY <1>1, <1>2, ContentsAre, OneMap

\* A lookup outside a rehash is one of the abstract map.
LEMMA LooksUp ==
    ASSUME MapIInv, toIndex = 0, NEW k \in Key
    PROVE  /\ Occupied(k) <=> Contents[k] # Absent
           /\ Contents[k] = IF Occupied(k) THEN vals[find_kv_index(k)] ELSE Absent
<1>1. /\ Occupied(k) <=> \E i \in DOMAIN keys : keys[i] = k
      /\ Occupied(k) => find_kv_index(k) \in DOMAIN keys /\ keys[find_kv_index(k)] = k
  BY FoundPair
<1>2. /\ \A i \in DOMAIN keys : Contents[keys[i]] = vals[i]
      /\ \A j \in Key : Contents[j] = Absent <=> \A i \in DOMAIN keys : keys[i] # j
  BY ContentsNow DEF IsMapOf
<1>. QED BY <1>1, <1>2

MapStep == AsMap!Next \/ UNCHANGED <<Contents, answer>>

\* The steps that move no pair.
LEMMA SamePairs ==
    ASSUME UNCHANGED <<keys, vals>>, answer' = answer \/ answer' = Quiet
    PROVE  MapStep
<1>1. Contents' = Contents
  BY DEF Contents
<1>2. AsMap!Quiet = Quiet
  BY DEF AsMap!Quiet, Quiet
<1>. QED BY <1>1, <1>2 DEF MapStep, AsMap!Next, AsMap!Rearrange

LEMMA SortMaps ==
    ASSUME MapIInv, MapIInv', sort_by_key
    PROVE  MapStep
<1>1. PICK p \in Bijection(DOMAIN keys, DOMAIN keys) :
         /\ keys' = [i \in DOMAIN keys |-> keys[p[i]]]
         /\ vals' = [i \in DOMAIN keys |-> vals[p[i]]]
  BY DEF sort_by_key
<1>2. answer' = Quiet
  BY DEF sort_by_key
<1>3. /\ \A i \in DOMAIN keys : p[i] \in DOMAIN keys
      /\ \A j \in DOMAIN keys : \E i \in DOMAIN keys : p[i] = j
  BY <1>1 DEF Bijection, Injection, Surjection
<1>4. /\ Contents \in [Key -> Value \cup {Absent}]
      /\ \A i \in DOMAIN keys : Contents[keys[i]] = vals[i]
      /\ \A k \in Key : (\A i \in DOMAIN keys : keys[i] # k) => Contents[k] = Absent
  BY ContentsNow DEF IsMapOf
<1>5. DOMAIN keys' = DOMAIN keys /\ \A i \in DOMAIN keys : keys'[i] = keys[p[i]] /\ vals'[i] = vals[p[i]]
  BY <1>1
<1>6. \A i \in DOMAIN keys' : Contents[keys'[i]] = vals'[i]
  BY <1>3, <1>4, <1>5
<1>7. ASSUME NEW k \in Key, \A i \in DOMAIN keys' : keys'[i] # k PROVE Contents[k] = Absent
  <2>1. ASSUME NEW j \in DOMAIN keys PROVE keys[j] # k
    BY <1>3, <1>5, <1>7
  <2>. QED BY <1>4, <2>1
<1>8. IsMapOf(Contents, keys', vals')
  BY <1>4, <1>6, <1>7 DEF IsMapOf
<1>9. Contents' = Contents
  BY <1>8, ContentsNext
<1>10. AsMap!Quiet = Quiet
  BY DEF AsMap!Quiet, Quiet
<1>. QED BY <1>2, <1>9, <1>10 DEF MapStep, AsMap!Next, AsMap!Rearrange

LEMMA ClearMaps ==
    ASSUME MapIInv, MapIInv', Clear \/ MovedFrom
    PROVE  MapStep
<1>1. keys' = <<>> /\ vals' = <<>> /\ answer' = Quiet
  BY DEF Clear, MovedFrom
<1>2. IsMapOf([k \in Key |-> Absent], keys', vals')
  BY <1>1 DEF IsMapOf
<1>3. Contents' = [k \in Key |-> Absent]
  BY <1>2, ContentsNext
<1>4. AsMap!Quiet = Quiet
  BY DEF AsMap!Quiet, Quiet
<1>. QED BY <1>1, <1>3, <1>4 DEF MapStep, AsMap!Next, AsMap!Clear, AsMap!Empty

LEMMA AtMaps ==
    ASSUME MapIInv, NEW k \in Key, At(k)
    PROVE  MapStep
<1>1. /\ UNCHANGED <<keys, vals>> /\ toIndex = 0
      /\ answer' = [op |-> "at", ok |-> Occupied(k),
                    value |-> IF Occupied(k) THEN vals[find_kv_index(k)] ELSE Absent]
  BY DEF At, Idle
<1>2. Contents' = Contents
  BY <1>1 DEF Contents
<1>3. /\ Occupied(k) = (Contents[k] # Absent)
      /\ Contents[k] = IF Occupied(k) THEN vals[find_kv_index(k)] ELSE Absent
  <2>1. Occupied(k) \in BOOLEAN
    BY DEF Occupied
  <2>. QED BY <1>1, <2>1, LooksUp
<1>4. AsMap!At(k)
  BY <1>1, <1>2, <1>3 DEF AsMap!At
<1>. QED BY <1>4 DEF MapStep, AsMap!Next

LEMMA StoreMaps ==
    ASSUME MapIInv, MapIInv', NEW i \in DOMAIN keys, NEW v \in Value, Store(i, v)
    PROVE  MapStep
<1>1. keys' = keys /\ vals' = [vals EXCEPT ![i] = v] /\ answer' = Quiet
  BY DEF Store
<1>2. /\ Contents \in [Key -> Value \cup {Absent}] /\ keys \in Seq(Key) /\ vals \in Seq(Value)
      /\ Len(vals) = Len(keys) /\ IsInjective(keys)
      /\ \A j \in DOMAIN keys : Contents[keys[j]] = vals[j] /\ vals[j] \in Value
      /\ \A k \in Key : (\A j \in DOMAIN keys : keys[j] # k) => Contents[k] = Absent
  BY ContentsNow DEF IsMapOf
<1>3. PICK m : m = [Contents EXCEPT ![keys[i]] = v]
  OBVIOUS
<1>4. keys[i] \in Key /\ i \in DOMAIN vals /\ DOMAIN keys = DOMAIN vals
  BY <1>2
<1>5. /\ m \in [Key -> Value \cup {Absent}]
      /\ \A k \in Key : m[k] = IF k = keys[i] THEN v ELSE Contents[k]
  BY <1>2, <1>3, <1>4
<1>6. \A j \in DOMAIN keys : vals'[j] = IF j = i THEN v ELSE vals[j]
  BY <1>1, <1>4
<1>7. \A j \in DOMAIN keys : keys[j] \in Key /\ (keys[j] = keys[i] <=> j = i)
  BY <1>2 DEF IsInjective
<1>8. IsMapOf(m, keys', vals')
  <2>1. \A j \in DOMAIN keys' : m[keys'[j]] = vals'[j]
    BY <1>1, <1>2, <1>5, <1>6, <1>7
  <2>2. \A k \in Key : (\A j \in DOMAIN keys' : keys'[j] # k) => m[k] = Absent
    BY <1>1, <1>2, <1>5
  <2>. QED BY <1>5, <2>1, <2>2 DEF IsMapOf
<1>9. Contents' = m
  BY <1>8, ContentsNext
<1>10. AsMap!Quiet = Quiet
  BY DEF AsMap!Quiet, Quiet
<1>11. Contents[keys[i]] # Absent
  BY <1>2, MapAssumption
<1>12. AsMap!Store(keys[i], v)
  BY <1>1, <1>3, <1>9, <1>10, <1>11 DEF AsMap!Store
<1>. QED BY <1>4, <1>12 DEF MapStep, AsMap!Next

LEMMA EraseMaps ==
    ASSUME MapIInv, MapIInv', NEW k \in Key, Erase(k)
    PROVE  MapStep
<1>. DEFINE i == find_kv_index(k)
<1>1. /\ toIndex = 0
      /\ answer' = [op |-> "erase", ok |-> Occupied(k), value |-> Absent]
      /\ ~Occupied(k) => UNCHANGED <<keys, vals>>
      /\ Occupied(k) => keys' = Filled(keys, i) /\ vals' = Filled(vals, i)
  BY DEF Erase, Idle
<1>2. /\ Contents \in [Key -> Value \cup {Absent}] /\ keys \in Seq(Key) /\ vals \in Seq(Value)
      /\ Len(vals) = Len(keys) /\ IsInjective(keys)
      /\ \A j \in DOMAIN keys : Contents[keys[j]] = vals[j]
      /\ \A x \in Key : (\A j \in DOMAIN keys : keys[j] # x) => Contents[x] = Absent
  BY ContentsNow DEF IsMapOf
<1>3. Occupied(k) = (Contents[k] # Absent)
  <2>1. Occupied(k) \in BOOLEAN
    BY DEF Occupied
  <2>. QED BY <1>1, <2>1, LooksUp
<1>4. PICK m : m = [Contents EXCEPT ![k] = Absent]
  OBVIOUS
<1>5. /\ m \in [Key -> Value \cup {Absent}]
      /\ \A x \in Key : m[x] = IF x = k THEN Absent ELSE Contents[x]
  BY <1>2, <1>4
<1>6. CASE ~Occupied(k)
  <2>1. m = Contents
    <3>1. \A x \in Key : m[x] = Contents[x]
      BY <1>3, <1>5, <1>6
    <3>. QED BY <1>2, <1>5, <3>1
  <2>2. Contents' = Contents
    BY <1>1, <1>6 DEF Contents
  <2>3. AsMap!Erase(k)
    BY <1>1, <1>3, <1>4, <2>1, <2>2 DEF AsMap!Erase
  <2>. QED BY <2>3 DEF MapStep, AsMap!Next
<1>7. CASE Occupied(k)
  <2>1. i \in DOMAIN keys /\ i \in DOMAIN vals /\ keys[i] = k
    BY <1>1, <1>7, FoundPair
  <2>. HIDE DEF i
  <2>. DEFINE n == Len(keys)
  <2>2. /\ n \in Nat \ {0} /\ DOMAIN keys = 1..n /\ i \in 1..n
        /\ DOMAIN keys' = 1..n - 1
        /\ \A j \in 1..n - 1 : /\ keys'[j] = IF j = i THEN keys[n] ELSE keys[j]
                               /\ vals'[j] = IF j = i THEN vals[n] ELSE vals[j]
    <3>1. /\ Filled(keys, i) \in Seq(Key) /\ Len(Filled(keys, i)) = Len(keys) - 1
          /\ \A j \in 1..Len(keys) - 1 : Filled(keys, i)[j] = IF j = i THEN keys[Len(keys)] ELSE keys[j]
      BY <1>2, <2>1, FilledIs
    <3>2. \A j \in 1..Len(vals) - 1 : Filled(vals, i)[j] = IF j = i THEN vals[Len(vals)] ELSE vals[j]
      BY <1>2, <2>1, FilledIs
    <3>3. keys' = Filled(keys, i) /\ vals' = Filled(vals, i)
      BY <1>1, <1>7
    <3>4. /\ keys' \in Seq(Key) /\ Len(keys') = n - 1
          /\ \A j \in 1..n - 1 : keys'[j] = IF j = i THEN keys[n] ELSE keys[j]
      BY <3>1, <3>3
    <3>5. \A j \in 1..n - 1 : vals'[j] = IF j = i THEN vals[n] ELSE vals[j]
      BY <1>2, <3>2, <3>3
    <3>6. n \in Nat \ {0} /\ DOMAIN keys = 1..n /\ i \in 1..n
      BY <1>2, <2>1
    <3>7. DOMAIN keys' = 1..n - 1
      BY <3>4
    <3>. HIDE DEF n
    <3>. QED BY <3>4, <3>5, <3>6, <3>7
  <2>3. /\ \A j \in 1..n - 1 : j \in 1..n /\ j # n
        /\ n \in 1..n /\ \A j \in 1..n : j = n \/ j \in 1..n - 1
    <3>1. n \in Nat \ {0}
      BY <2>2
    <3>. HIDE DEF n
    <3>. QED BY <3>1
  <2>4. \A j \in 1..n : keys[j] \in Key /\ (keys[j] = k <=> j = i)
    BY <1>2, <2>1, <2>2 DEF IsInjective
  <2>. HIDE DEF n
  <2>5. ASSUME NEW j \in 1..n - 1 PROVE m[keys'[j]] = vals'[j]
    <3>1. CASE j = i
      <4>1. keys'[j] = keys[n] /\ vals'[j] = vals[n] /\ n # i
        BY <2>2, <2>3, <3>1
      <4>2. keys[n] \in Key /\ keys[n] # k /\ Contents[keys[n]] = vals[n]
        BY <1>2, <2>2, <2>3, <2>4, <4>1
      <4>. QED BY <1>5, <4>1, <4>2
    <3>2. CASE j # i
      <4>1. keys'[j] = keys[j] /\ vals'[j] = vals[j]
        BY <2>2, <3>2
      <4>2. keys[j] \in Key /\ keys[j] # k /\ Contents[keys[j]] = vals[j]
        BY <1>2, <2>2, <2>3, <2>4, <3>2
      <4>. QED BY <1>5, <4>1, <4>2
    <3>. QED BY <3>1, <3>2
  <2>6. ASSUME NEW x \in Key, \A j \in 1..n - 1 : keys'[j] # x PROVE m[x] = Absent
    <3>1. SUFFICES ASSUME x # k PROVE Contents[x] = Absent
      BY <1>5
    <3>2. ASSUME NEW j \in 1..n, keys[j] = x PROVE FALSE
      <4>1. j # i
        BY <2>4, <3>1, <3>2
      <4>2. CASE j = n
        <5>1. i \in 1..n - 1 /\ keys'[i] = keys[n]
          BY <2>2, <2>3, <4>1, <4>2
        <5>. QED BY <2>6, <3>2, <4>2, <5>1
      <4>3. CASE j # n
        <5>1. j \in 1..n - 1 /\ keys'[j] = keys[j]
          BY <2>2, <2>3, <4>1, <4>3
        <5>. QED BY <2>6, <3>2, <5>1
      <4>. QED BY <4>2, <4>3
    <3>. QED BY <1>2, <2>2, <3>2
  <2>7. IsMapOf(m, keys', vals')
    BY <1>5, <2>2, <2>5, <2>6 DEF IsMapOf
  <2>8. Contents' = m
    BY <2>7, ContentsNext
  <2>9. AsMap!Erase(k)
    BY <1>1, <1>3, <1>4, <2>8 DEF AsMap!Erase
  <2>. QED BY <2>9 DEF MapStep, AsMap!Next
<1>. QED BY <1>6, <1>7

LEMMA InsertExistingMaps ==
    ASSUME MapIInv, InsertExisting
    PROVE  MapStep
<1>. DEFINE k == job.key
<1>1. /\ UNCHANGED <<keys, vals>> /\ job # NoJob /\ toIndex = 0 /\ Occupied(k)
      /\ answer' = [op |-> job.op, ok |-> job.op = "subscript", value |-> vals[find_kv_index(k)]]
  BY DEF InsertExisting, Return
<1>2. job.op \in {"insert", "subscript"} /\ k \in Key /\ job.value \in Value
  <2>1. job \in Job
    BY <1>1, MapFacts
  <2>. QED BY <2>1 DEF Job
<1>. HIDE DEF k
<1>3. Contents[k] # Absent /\ Contents[k] = vals[find_kv_index(k)]
  BY <1>1, <1>2, LooksUp
<1>4. Contents' = Contents
  BY <1>1 DEF Contents
<1>5. CASE job.op = "insert"
  <2>1. AsMap!Insert(k, job.value)
    BY <1>1, <1>3, <1>4, <1>5 DEF AsMap!Insert
  <2>. QED BY <1>2, <2>1 DEF MapStep, AsMap!Next
<1>6. CASE job.op = "subscript"
  <2>1. AsMap!Subscript(k)
    BY <1>1, <1>3, <1>4, <1>6 DEF AsMap!Subscript
  <2>. QED BY <1>2, <2>1 DEF MapStep, AsMap!Next
<1>. QED BY <1>2, <1>5, <1>6

LEMMA PushBackMaps ==
    ASSUME MapIInv, MapIInv', SubscriptInserts, PushBack
    PROVE  MapStep
<1>. DEFINE k == job.key
            v == job.value
            n == Len(keys) + 1
<1>1. /\ job # NoJob /\ toIndex = 0 /\ ~Occupied(k)
      /\ keys' = Append(keys, k) /\ vals' = Append(vals, v)
      /\ answer' = [op |-> job.op, ok |-> TRUE, value |-> v]
  BY DEF PushBack, Return
<1>2. job.op \in {"insert", "subscript"} /\ k \in Key /\ v \in Value /\ (job.op = "subscript" => v = Default)
  <2>1. job \in Job
    BY <1>1, MapFacts
  <2>. QED BY <1>1, <2>1 DEF Job, SubscriptInserts
<1>. HIDE DEF k, v
<1>3. Contents[k] = Absent
  BY <1>1, <1>2, LooksUp
<1>4. /\ Contents \in [Key -> Value \cup {Absent}] /\ keys \in Seq(Key) /\ vals \in Seq(Value)
      /\ Len(vals) = Len(keys)
      /\ \A j \in DOMAIN keys : Contents[keys[j]] = vals[j] /\ keys[j] # k
      /\ \A x \in Key : (\A j \in DOMAIN keys : keys[j] # x) => Contents[x] = Absent
  BY <1>2, <1>3, ContentsNow DEF IsMapOf
<1>5. PICK m : m = [Contents EXCEPT ![k] = v]
  OBVIOUS
<1>6. /\ m \in [Key -> Value \cup {Absent}]
      /\ \A x \in Key : m[x] = IF x = k THEN v ELSE Contents[x]
  BY <1>2, <1>4, <1>5
<1>7. /\ \A j \in DOMAIN keys' : j = n \/ j \in DOMAIN keys
      /\ \A j \in DOMAIN keys : j \in DOMAIN keys' /\ keys'[j] = keys[j] /\ vals'[j] = vals[j] /\ keys[j] \in Key
      /\ n \in DOMAIN keys' /\ keys'[n] = k /\ vals'[n] = v
  BY <1>1, <1>2, <1>4
<1>. HIDE DEF n
<1>8. IsMapOf(m, keys', vals')
  <2>1. \A j \in DOMAIN keys' : m[keys'[j]] = vals'[j]
    BY <1>2, <1>4, <1>6, <1>7
  <2>2. \A x \in Key : (\A j \in DOMAIN keys' : keys'[j] # x) => m[x] = Absent
    BY <1>4, <1>6, <1>7
  <2>. QED BY <1>6, <2>1, <2>2 DEF IsMapOf
<1>9. Contents' = m
  BY <1>8, ContentsNext
<1>10. m[k] = v
  BY <1>2, <1>6
<1>11. CASE job.op = "insert"
  <2>1. AsMap!Insert(k, v)
    BY <1>1, <1>3, <1>5, <1>9, <1>10, <1>11 DEF AsMap!Insert
  <2>. QED BY <1>2, <2>1 DEF MapStep, AsMap!Next
<1>12. CASE job.op = "subscript"
  <2>1. AsMap!Subscript(k)
    BY <1>1, <1>2, <1>3, <1>5, <1>9, <1>10, <1>12 DEF AsMap!Subscript
  <2>. QED BY <1>2, <2>1 DEF MapStep, AsMap!Next
<1>. QED BY <1>2, <1>11, <1>12

LEMMA SubscriptInsertsStep ==
    ASSUME SubscriptInserts, [MapNext]_mapVars
    PROVE  SubscriptInserts'
<1>1. \/ job' = job \/ job' = NoJob
      \/ \E k \in Key, v \in Value : job' = [op |-> "insert", key |-> k, value |-> v]
      \/ \E k \in Key : job' = [op |-> "subscript", key |-> k, value |-> Default]
  <2>1. JobStep => job' = job \/ job' = NoJob
    BY DEF JobStep, RehashNext, FirstReserve, Expand, InsertExisting, PushBack, Return
  <2>2. Call => \/ job' = job
                \/ \E k \in Key, v \in Value : job' = [op |-> "insert", key |-> k, value |-> v]
                \/ \E k \in Key : job' = [op |-> "subscript", key |-> k, value |-> Default]
    BY DEF Call, Begin, At, Erase, Store, Reserve, Rehash, sort_by_key, Clear, MovedFrom
  <2>. QED BY <2>1, <2>2 DEF MapNext, mapVars
<1>. QED BY <1>1 DEF SubscriptInserts

LEMMA MapSteps ==
    ASSUME MapIInv, MapIInv', SubscriptInserts, [MapNext]_mapVars
    PROVE  MapStep
<1>1. CASE JobStep
  <2>1. CASE RehashNext \/ FirstReserve \/ Expand
    <3>1. UNCHANGED <<keys, vals>> /\ answer' = answer
      BY <2>1 DEF RehashNext, FirstReserve, Expand, _reserve
    <3>. QED BY <3>1, SamePairs
  <2>. QED BY <1>1, <2>1, InsertExistingMaps, PushBackMaps DEF JobStep
<1>2. CASE Call
  <2>1. ASSUME NEW op, NEW k, NEW v, Begin(op, k, v) PROVE MapStep
    <3>1. UNCHANGED <<keys, vals>> /\ answer' = Quiet
      BY <2>1 DEF Begin
    <3>. QED BY <3>1, SamePairs
  <2>2. CASE Rehash \/ \E n \in 0..MaxStorage : Reserve(n)
    <3>1. UNCHANGED <<keys, vals>> /\ answer' = Quiet
      BY <2>2 DEF Rehash, Reserve, _reserve
    <3>. QED BY <3>1, SamePairs
  <2>3. ASSUME NEW k \in Key, At(k) PROVE MapStep
    BY <2>3, AtMaps
  <2>4. ASSUME NEW k \in Key, Erase(k) PROVE MapStep
    BY <2>4, EraseMaps
  <2>5. ASSUME NEW i \in DOMAIN keys, NEW v \in Value, Store(i, v) PROVE MapStep
    BY <2>5, StoreMaps
  <2>6. CASE sort_by_key
    BY <2>6, SortMaps
  <2>7. CASE Clear \/ MovedFrom
    BY <2>7, ClearMaps
  <2>. QED BY <1>2, <2>1, <2>2, <2>3, <2>4, <2>5, <2>6, <2>7 DEF Call
<1>3. CASE UNCHANGED mapVars
  BY <1>3, SamePairs DEF mapVars
<1>. QED BY <1>1, <1>2, <1>3 DEF MapNext

THEOREM MapImplements == MapSpec => ImplementsMap
<1>1. MapInit => AsMap!Init
  <2>. SUFFICES ASSUME MapInit PROVE AsMap!Init
    OBVIOUS
  <2>1. keys = <<>> /\ answer = Quiet
    BY DEF MapInit
  <2>2. Contents = [k \in Key |-> Absent]
    BY <2>1 DEF Contents
  <2>. QED BY <2>1, <2>2 DEF AsMap!Init, AsMap!Empty, AsMap!Quiet, Quiet
<1>2. MapInit => SubscriptInserts
  BY DEF MapInit, SubscriptInserts
<1>3. SubscriptInserts /\ [MapNext]_mapVars => SubscriptInserts'
  BY SubscriptInsertsStep
<1>4. MapIInv /\ MapIInv' /\ SubscriptInserts /\ [MapNext]_mapVars => [AsMap!Next]_<<Contents, answer>>
  BY MapSteps DEF MapStep
<1>. QED BY <1>1, <1>2, <1>3, <1>4, MapIInvAlways, PTL DEF MapSpec, ImplementsMap, AsMap!Spec

(* SlimVec.                                                                *)

Every == Vec \cup {Tmp}
SlotValue == Item \cup {Zero, Dead}
VecRec == [m_size : Nat, m_capacity : Nat, m_data : HeapBlock \cup {Null, Garbage},
           slots : UNION {[1..n -> SlotValue] : n \in Nat}]
MemRec == [vec : [Every -> VecRec], heap : SUBSET HeapBlock, zero : BOOLEAN, ok : BOOLEAN,
           spent : BOOLEAN, aliased : BOOLEAN, leaked : BOOLEAN]

\* The slots hold the first n elements of a vector with room for c.
FilledTo(f, c, n) == f \in [1..c -> SlotValue] /\ \A i \in 1..c : f[i] \in Item <=> i <= n

\* What the bytes of a vector may be; those of an element that was moved away
\* are a pointer to no block.
Formed(r) ==
    /\ r \in VecRec /\ SizeOf(r) \in Nat /\ SizeOf(r) <= MaxLen
    /\ r.m_data # Garbage => SizeOf(r) <= CapacityOf(r) /\ FilledTo(r.slots, CapacityOf(r), SizeOf(r))
    /\ r.m_data = Garbage => r.m_size = 0 /\ r.slots = <<>>
    /\ Small(r) => r.m_data = Null /\ (r.slots[1] = Zero => \A i \in 1..ItemCap : r.slots[i] = Zero)
    /\ ~Small(r) /\ r.m_data = Null => r.m_capacity = 0

\* A block of some bytes.
Sized(r) == ~Small(r) /\ r.m_data \in HeapBlock => r.m_capacity > 0

Owned(r) == IF ~Small(r) /\ r.m_data \in HeapBlock THEN {r.m_data} ELSE {}

\* Every block has one owner, a vector points astray only after an element was
\* moved out of an inline vector, and blocks of no bytes, which alone are lost,
\* are those that malloc(0) returns.
Sound(m) ==
    /\ m \in MemRec
    /\ \A w \in Every : Formed(m.vec[w])
    /\ \A w \in Every : Owned(m.vec[w]) \subseteq m.heap
    /\ \A b \in m.heap : \E w \in Every : b \in Owned(m.vec[w])
    /\ \A w, u \in Every : w # u => Owned(m.vec[w]) \cap Owned(m.vec[u]) = {}
    /\ ~m.spent => \A w \in Every : m.vec[w].m_data # Garbage
    /\ ~m.zero => \A w \in Every : Sized(m.vec[w])
    /\ m.leaked => m.zero

\* The constants.
LEMMA VectorNumbers ==
    /\ ItemCap \in Nat /\ ItemCap >= 1 /\ Overlap \in 2..ItemCap + 1 /\ MaxLen \in Nat
    /\ SizeMax \in Nat /\ Base \in Nat /\ Base > 2 * MaxLen /\ Base + ItemCap < SizeMax
    /\ Zero # Dead /\ Zero \notin Item /\ Dead \notin Item /\ Elem \subseteq Item /\ DefaultElem \in Item
    /\ Zero \in SlotValue /\ Dead \in SlotValue /\ Item \subseteq SlotValue
    /\ Null # Garbage /\ Null \notin HeapBlock /\ Garbage \notin HeapBlock
    /\ Vec \subseteq Every /\ Tmp \in Every /\ Tmp \notin Vec
<1>1. /\ ItemCap \in Nat /\ ItemCap >= 1 /\ Overlap \in 2..ItemCap + 1 /\ MaxLen \in Nat
      /\ SizeMax \in Nat /\ Base \in Nat /\ Base > 2 * MaxLen /\ Base + ItemCap < SizeMax
  BY VectorAssumption DEF Base
<1>2. /\ Zero # Dead /\ Zero \notin Item /\ Dead \notin Item /\ Elem \subseteq Item /\ DefaultElem \in Item
      /\ Zero \in SlotValue /\ Dead \in SlotValue /\ Item \subseteq SlotValue
  BY VectorAssumption DEF Item, SlotValue
<1>3. /\ Null # Garbage /\ Null \notin HeapBlock /\ Garbage \notin HeapBlock
      /\ Vec \subseteq Every /\ Tmp \in Every /\ Tmp \notin Vec
  BY VectorAssumption DEF Every
<1> QED
  BY <1>1, <1>2, <1>3

\* A fresh vector and an empty one.
LEMMA FreshFormed ==
    /\ Formed(Made) /\ Owned(Made) = {} /\ SizeOf(Made) = 0 /\ Made.m_data = Null /\ Small(Made)
    /\ Formed(Wiped) /\ Owned(Wiped) = {} /\ SizeOf(Wiped) = 0 /\ Wiped.m_data = Null /\ ~Small(Wiped)
    /\ CapacityOf(Wiped) = 0
<1>1. /\ Made.m_size = Base /\ Made.m_capacity = 0 /\ Made.m_data = Null /\ Made.slots = Zeros
      /\ Wiped.m_size = 0 /\ Wiped.m_capacity = 0 /\ Wiped.m_data = Null /\ Wiped.slots = <<>>
  BY DEF Made, Wiped
<1>2. Small(Made) /\ ~Small(Wiped)
  BY <1>1, VectorNumbers DEF Small
<1>3. SizeOf(Made) = 0 /\ SizeOf(Wiped) = 0 /\ CapacityOf(Made) = ItemCap /\ CapacityOf(Wiped) = 0
  BY <1>1, <1>2, VectorNumbers DEF SizeOf, CapacityOf
<1>4. Zeros \in [1..ItemCap -> SlotValue] /\ \A i \in 1..ItemCap : Zeros[i] = Zero
  BY VectorNumbers DEF Zeros
<1>5. <<>> \in [1..0 -> SlotValue]
  OBVIOUS
<1>6. Made \in VecRec /\ Wiped \in VecRec
  <2>1. Zeros \in UNION {[1..n -> SlotValue] : n \in Nat}
    BY <1>4, VectorNumbers
  <2>2. <<>> \in UNION {[1..n -> SlotValue] : n \in Nat}
    BY <1>5
  <2> QED
    BY <2>1, <2>2, VectorNumbers DEF Made, Wiped, VecRec
<1>7. FilledTo(Zeros, ItemCap, 0) /\ FilledTo(<<>>, 0, 0)
  <2>1. \A i \in 1..ItemCap : Zeros[i] \notin Item /\ ~(i <= 0)
    BY <1>4, VectorNumbers
  <2> QED
    BY <2>1, <1>4, <1>5 DEF FilledTo
<1>8. 1 \in 1..ItemCap /\ Null \notin HeapBlock /\ Null # Garbage /\ 0 \in Nat /\ 0 <= MaxLen /\ 0 <= ItemCap
  BY VectorNumbers
<1>9. Formed(Made)
  BY <1>1, <1>2, <1>3, <1>4, <1>6, <1>7, <1>8 DEF Formed
<1>10. Formed(Wiped)
  BY <1>1, <1>2, <1>3, <1>6, <1>7, <1>8 DEF Formed
<1> QED
  BY <1>1, <1>2, <1>3, <1>8, <1>9, <1>10 DEF Owned

\* One vector becomes r, and its block is what r owns.
Replaces(m, c, v, r) ==
    /\ c \in MemRec /\ Formed(r)
    /\ c.vec = [m.vec EXCEPT ![v] = r]
    /\ c.heap = (m.heap \ Owned(m.vec[v])) \cup Owned(r)
    /\ Owned(r) \cap (m.heap \ Owned(m.vec[v])) = {}
    /\ ~c.spent => ~m.spent /\ r.m_data # Garbage
    /\ c.zero = m.zero /\ (c.leaked => m.leaked \/ m.zero) /\ (m.zero \/ Sized(r))

\* What owns no block has none of no bytes.
LEMMA UnownedSized ==
    ASSUME NEW r, Owned(r) = {}
    PROVE  Sized(r)
  BY DEF Owned, Sized

\* Then the memory stays sound, and the other vectors as they are.
LEMMA VectorReplaced ==
    ASSUME NEW m, Sound(m), NEW v \in Every, NEW r, NEW c, Replaces(m, c, v, r)
    PROVE  Sound(c) /\ c.vec[v] = r /\ \A w \in Every : w # v => c.vec[w] = m.vec[w]
<1> USE DEF Replaces
<1>1. m.vec \in [Every -> VecRec]
  BY DEF Sound, MemRec
<1>2. c.vec[v] = r /\ \A w \in Every : w # v => c.vec[w] = m.vec[w]
  BY <1>1
<1>3. \A w \in Every : Formed(c.vec[w])
  BY <1>2 DEF Sound
<1>4. \A w, u \in Every : w # u => Owned(m.vec[w]) \cap Owned(m.vec[u]) = {}
  BY DEF Sound
<1>5. \A w \in Every : Owned(m.vec[w]) \subseteq m.heap
  BY DEF Sound
<1>6. \A b \in m.heap : \E w \in Every : b \in Owned(m.vec[w])
  BY DEF Sound
<1>7. \A w \in Every : w # v => Owned(c.vec[w]) = Owned(m.vec[w]) /\ Owned(c.vec[w]) \subseteq m.heap \ Owned(m.vec[v])
  <2> TAKE w \in Every
  <2> HAVE w # v
  <2>1. c.vec[w] = m.vec[w]
    BY <1>2
  <2>2. Owned(c.vec[w]) = Owned(m.vec[w])
    BY <2>1
  <2>3. Owned(m.vec[w]) \cap Owned(m.vec[v]) = {} /\ Owned(m.vec[w]) \subseteq m.heap
    BY <1>4, <1>5
  <2> QED
    BY <2>2, <2>3
<1>8. Owned(c.vec[v]) = Owned(r)
  BY <1>2
<1>9. \A w \in Every : Owned(c.vec[w]) \subseteq c.heap
  BY <1>7, <1>8
<1>10. \A b \in c.heap : \E w \in Every : b \in Owned(c.vec[w])
  <2> TAKE b \in c.heap
  <2>1. CASE b \in Owned(r)
    BY <2>1, <1>8
  <2>2. CASE b \in m.heap \ Owned(m.vec[v])
    <3>1. PICK w \in Every : b \in Owned(m.vec[w])
      BY <2>2, <1>6
    <3>2. w # v
      BY <2>2, <3>1
    <3> QED
      BY <3>1, <3>2, <1>7
  <2> QED
    BY <2>1, <2>2
<1>11. \A w, u \in Every : w # u => Owned(c.vec[w]) \cap Owned(c.vec[u]) = {}
  <2> TAKE w, u \in Every
  <2> HAVE w # u
  <2>1. CASE w = v
    <3>1. Owned(c.vec[u]) \subseteq m.heap \ Owned(m.vec[v])
      BY <2>1, <1>7
    <3> QED
      BY <3>1, <2>1, <1>8
  <2>2. CASE u = v
    <3>1. Owned(c.vec[w]) \subseteq m.heap \ Owned(m.vec[v])
      BY <2>2, <1>7
    <3> QED
      BY <3>1, <2>2, <1>8
  <2>3. CASE w # v /\ u # v
    <3>1. Owned(c.vec[w]) = Owned(m.vec[w]) /\ Owned(c.vec[u]) = Owned(m.vec[u])
      BY <2>3, <1>7
    <3> QED
      BY <3>1, <1>4
  <2> QED
    BY <2>1, <2>2, <2>3
<1>12. ~c.spent => \A w \in Every : c.vec[w].m_data # Garbage
  <2> HAVE ~c.spent
  <2> TAKE w \in Every
  <2>1. \A x \in Every : m.vec[x].m_data # Garbage
    BY DEF Sound
  <2> QED
    BY <2>1, <1>2
<1>13. ~c.zero => \A w \in Every : Sized(c.vec[w])
  <2> HAVE ~c.zero
  <2> TAKE w \in Every
  <2>1. \A x \in Every : Sized(m.vec[x])
    BY DEF Sound
  <2>2. Sized(r)
    OBVIOUS
  <2> QED
    BY <2>1, <2>2, <1>2
<1>14. c.leaked => c.zero
  BY DEF Sound
<1> QED
  BY <1>2, <1>3, <1>9, <1>10, <1>11, <1>12, <1>13, <1>14 DEF Sound

\* While the temporary owns nothing there is a block to allocate.
LEMMA BlockIsFree ==
    ASSUME NEW m, Sound(m), Owned(m.vec[Tmp]) = {}
    PROVE  (CHOOSE b \in HeapBlock : b \notin m.heap) \in HeapBlock \ m.heap
<1>1. SUFFICES ASSUME HeapBlock \subseteq m.heap PROVE FALSE
  OBVIOUS
<1> DEFINE Owners == {m.vec[w].m_data : w \in Vec}
<1>2. HeapBlock \subseteq Owners
  <2> SUFFICES ASSUME NEW b \in HeapBlock PROVE b \in Owners
    OBVIOUS
  <2>1. PICK w \in Every : b \in Owned(m.vec[w])
    BY <1>1 DEF Sound
  <2>2. w \in Vec
    BY <2>1 DEF Every
  <2>3. m.vec[w].m_data = b
    BY <2>1 DEF Owned
  <2> QED
    BY <2>2, <2>3
<1>3. IsFiniteSet(Vec)
  BY VectorAssumption
<1>4. IsFiniteSet(Owners) /\ Cardinality(Owners) <= Cardinality(Vec)
  <2> DEFINE pointer == [w \in Vec |-> m.vec[w].m_data]
  <2>1. pointer \in Surjection(Vec, Owners)
    BY DEF Surjection
  <2> QED
    BY <2>1, <1>3, FS_Surjection
<1> HIDE DEF Owners
<1>5. IsFiniteSet(HeapBlock) /\ Cardinality(HeapBlock) <= Cardinality(Owners)
  BY <1>2, <1>4, FS_Subset
<1>6. Cardinality(HeapBlock) \in Nat /\ Cardinality(Owners) \in Nat /\ Cardinality(Vec) \in Nat
  BY <1>3, <1>4, <1>5, FS_CardinalityType
<1>7. Cardinality(HeapBlock) > Cardinality(Vec)
  BY <1>5, VectorAssumption
<1> QED
  BY <1>4, <1>5, <1>6, <1>7

\* A vector of a sound memory.
LEMMA VectorForm ==
    ASSUME NEW m, Sound(m), NEW v \in Every
    PROVE  /\ Formed(m.vec[v])
           /\ m.vec[v].m_size \in Nat /\ m.vec[v].m_capacity \in Nat
           /\ m.vec[v].m_data \in HeapBlock \cup {Null, Garbage}
           /\ CapacityOf(m.vec[v]) \in Nat /\ SizeOf(m.vec[v]) \in Nat /\ SizeOf(m.vec[v]) <= MaxLen
           /\ m.vec[v].m_size = (IF Small(m.vec[v]) THEN SizeOf(m.vec[v]) + Base ELSE SizeOf(m.vec[v]))
           /\ m.heap \subseteq HeapBlock /\ m.ok \in BOOLEAN /\ m.spent \in BOOLEAN
           /\ Owned(m.vec[v]) \subseteq m.heap
<1>1. Formed(m.vec[v]) /\ Owned(m.vec[v]) \subseteq m.heap /\ m \in MemRec
  BY DEF Sound
<1>2. m.heap \subseteq HeapBlock /\ m.ok \in BOOLEAN /\ m.spent \in BOOLEAN
  BY <1>1 DEF MemRec
<1>3. PICK r : r = m.vec[v]
  OBVIOUS
<1>4. r \in VecRec /\ SizeOf(r) \in Nat /\ SizeOf(r) <= MaxLen
  BY <1>1, <1>3 DEF Formed
<1>5. r.m_size \in Nat /\ r.m_capacity \in Nat /\ r.m_data \in HeapBlock \cup {Null, Garbage}
  BY <1>4 DEF VecRec
<1>6. CapacityOf(r) \in Nat
  BY <1>5, VectorNumbers DEF CapacityOf
<1>7. r.m_size = (IF Small(r) THEN SizeOf(r) + Base ELSE SizeOf(r))
  BY <1>5, VectorNumbers DEF SizeOf
<1> QED
  BY <1>1, <1>2, <1>3, <1>4, <1>5, <1>6, <1>7

\* _cleanup frees the block of a vector, or what the bytes of its elements
\* point to when there were any.
LEMMA CleanedUp ==
    ASSUME NEW m, Sound(m), NEW v \in Every, NEW c, c = _cleanup(m, v)
    PROVE  /\ Sound(c) /\ c.vec[v] = Wiped /\ \A w \in Every : w # v => c.vec[w] = m.vec[w]
           /\ c.spent = m.spent /\ (c.ok => m.ok) /\ (m.ok /\ ~m.spent => c.ok)
           /\ c.zero = m.zero /\ c.aliased = m.aliased
<1>0. PICK r : r = m.vec[v]
  OBVIOUS
<1>1. m \in MemRec /\ r.m_data \in HeapBlock \cup {Null, Garbage} /\ r.m_capacity \in Nat
      /\ Owned(r) \subseteq m.heap /\ m.heap \subseteq HeapBlock /\ m.ok \in BOOLEAN /\ Formed(r)
  BY <1>0, VectorForm DEF Sound
<1>11. PICK f : f = CASE ~Small(r) /\ r.m_capacity > 0 -> Free(m, r.m_data)
                      [] ~Small(r) /\ r.m_capacity = 0 /\ r.m_data \in HeapBlock ->
                           [m EXCEPT !.heap = @ \ {r.m_data}, !.leaked = TRUE]
                      [] OTHER -> m
  OBVIOUS
<1>2. /\ f \in MemRec /\ f.vec = m.vec /\ f.spent = m.spent /\ f.zero = m.zero /\ f.aliased = m.aliased
      /\ f.leaked => m.leaked \/ m.zero
      /\ f.heap = m.heap \ Owned(r) /\ f.ok = (m.ok /\ (~Small(r) /\ r.m_capacity > 0 => r.m_data \in m.heap))
  <2>1. CASE ~Small(r) /\ r.m_capacity > 0
    <3>1. f = [m EXCEPT !.heap = @ \ {r.m_data}, !.ok = @ /\ r.m_data \in m.heap]
      BY <2>1, <1>1, <1>11 DEF Free
    <3>2. /\ f.heap = m.heap \ {r.m_data} /\ f.ok = (m.ok /\ r.m_data \in m.heap) /\ f.vec = m.vec
          /\ f.spent = m.spent /\ f.zero = m.zero /\ f.aliased = m.aliased /\ f.leaked = m.leaked
      BY <3>1, <1>1 DEF MemRec
    <3>3. f \in MemRec
      BY <3>1, <1>1 DEF MemRec
    <3>4. m.heap \ {r.m_data} = m.heap \ Owned(r)
      BY <1>1, <2>1, VectorNumbers DEF Owned
    <3> QED
      BY <2>1, <3>2, <3>3, <3>4
  <2>2. CASE ~Small(r) /\ r.m_capacity = 0 /\ r.m_data \in HeapBlock
    <3>1. f = [m EXCEPT !.heap = @ \ {r.m_data}, !.leaked = TRUE]
      BY <2>2, <1>1, <1>11
    <3>2. /\ f.heap = m.heap \ {r.m_data} /\ f.ok = m.ok /\ f.vec = m.vec
          /\ f.spent = m.spent /\ f.zero = m.zero /\ f.aliased = m.aliased
      BY <3>1, <1>1 DEF MemRec
    <3>3. f \in MemRec
      BY <3>1, <1>1 DEF MemRec
    <3>4. Owned(r) = {r.m_data}
      BY <2>2 DEF Owned
    <3>5. m.zero
      <4>1. ~Sized(r)
        BY <2>2 DEF Sized
      <4>2. m.zero \in BOOLEAN
        BY <1>1 DEF MemRec
      <4> QED
        BY <1>0, <4>1, <4>2 DEF Sound
    <3>6. ~(r.m_capacity > 0)
      BY <2>2
    <3> QED
      BY <3>2, <3>3, <3>4, <3>5, <3>6, <1>1
  <2>3. CASE Small(r) \/ (~(r.m_capacity > 0) /\ r.m_data \notin HeapBlock)
    <3>1. f = m
      BY <2>3, <1>1, <1>11
    <3>2. Owned(r) = {}
      BY <2>3 DEF Owned
    <3> QED
      BY <2>3, <3>1, <3>2, <1>1
  <2>4. r.m_capacity > 0 \/ r.m_capacity = 0
    BY <1>1
  <2>5. r.m_capacity = 0 => ~(r.m_capacity > 0)
    OBVIOUS
  <2>6. \/ ~Small(r) /\ r.m_capacity > 0
        \/ ~Small(r) /\ r.m_capacity = 0 /\ r.m_data \in HeapBlock
        \/ Small(r)
        \/ ~(r.m_capacity > 0) /\ r.m_data \notin HeapBlock
    BY <2>4, <2>5
  <2> QED
    BY <2>1, <2>2, <2>3, <2>6
<1>3. c = [f EXCEPT !.vec[v] = Wiped]
  BY <1>0, <1>11 DEF _cleanup
<1>4. c.vec = [m.vec EXCEPT ![v] = Wiped] /\ c.heap = f.heap /\ c.ok = f.ok /\ c.spent = m.spent
      /\ c.zero = m.zero /\ c.aliased = m.aliased /\ (c.leaked => m.leaked \/ m.zero)
  BY <1>2, <1>3 DEF MemRec
<1>5. Wiped \in VecRec
  BY FreshFormed DEF Formed
<1>6. c \in MemRec
  BY <1>2, <1>3, <1>5 DEF MemRec
<1>7. Sound(c) /\ c.vec[v] = Wiped /\ \A w \in Every : w # v => c.vec[w] = m.vec[w]
  <2>1. c.heap = (m.heap \ Owned(m.vec[v])) \cup Owned(Wiped) /\ Owned(Wiped) \cap (m.heap \ Owned(m.vec[v])) = {}
    BY <1>0, <1>2, <1>4, FreshFormed
  <2>2. ~c.spent => ~m.spent /\ Wiped.m_data # Garbage
    BY <1>4, FreshFormed, VectorNumbers
  <2> QED
    <3>1. Replaces(m, c, v, Wiped)
      BY <2>1, <2>2, <1>4, <1>6, FreshFormed, UnownedSized DEF Replaces
    <3> QED
      BY <3>1, VectorReplaced
<1>8. m.ok /\ ~m.spent => c.ok
  <2> HAVE m.ok /\ ~m.spent
  <2>1. r.m_data # Garbage
    BY <1>0 DEF Sound
  <2>2. ~Small(r) /\ r.m_capacity > 0 => r.m_data \in m.heap
    BY <1>1, <2>1 DEF Formed, Owned
  <2> QED
    BY <2>2, <1>2, <1>4
<1> QED
  BY <1>2, <1>4, <1>7, <1>8

\* Storage is made ready, and the vector keeps its elements.
Prepared(m, c, v) ==
    /\ Sound(c) /\ \A w \in Every : w # v => c.vec[w] = m.vec[w]
    /\ c.spent = m.spent /\ (c.ok => m.ok) /\ (m.ok /\ ~m.spent => c.ok \/ c.aliased)
    /\ SizeOf(c.vec[v]) = SizeOf(m.vec[v])
    /\ \A i \in 1..SizeOf(m.vec[v]) : c.vec[v].slots[i] = m.vec[v].slots[i]

\* _set_capacity to no less than the size keeps the elements, and leaves the
\* vector inline or with a block of that length.
LEMMA CapacitySet ==
    ASSUME NEW m, Sound(m), Owned(m.vec[Tmp]) = {}, NEW v \in Every, NEW n \in Nat, n >= SizeOf(m.vec[v]),
           NEW c, c = _set_capacity(m, v, n)
    PROVE  /\ Prepared(m, c, v) /\ c.vec[v].m_data # Garbage /\ CapacityOf(c.vec[v]) >= n
           /\ ~Small(m.vec[v]) => ~Small(c.vec[v]) /\ CapacityOf(c.vec[v]) = n
<1>1. PICK r : r = m.vec[v]
  OBVIOUS
<1>2. /\ Formed(r) /\ r.m_size \in Nat /\ r.m_data \in HeapBlock \cup {Null, Garbage}
      /\ CapacityOf(r) \in Nat /\ SizeOf(r) \in Nat /\ SizeOf(r) <= MaxLen
      /\ m.heap \subseteq HeapBlock /\ m.ok \in BOOLEAN /\ Owned(r) \subseteq m.heap /\ m \in MemRec
  BY <1>1, VectorForm DEF Sound
<1>3. CASE Small(r) /\ n <= ItemCap
  <2>1. c = m
    BY <1>1, <1>3 DEF _set_capacity
  <2>2. CapacityOf(r) >= n
    BY <1>3, VectorNumbers DEF CapacityOf
  <2>3. r.m_data # Garbage
    BY <1>2, <1>3, VectorNumbers DEF Formed
  <2> QED
    BY <1>1, <1>3, <2>1, <2>2, <2>3 DEF Prepared
<1>4. CASE ~(Small(r) /\ n <= ItemCap)
  <2>1. PICK k : k = SizeOf(r)
    OBVIOUS
  <2>2. PICK block : block = IF n = 0 /\ ~m.zero THEN Null ELSE CHOOSE b \in HeapBlock : b \notin m.heap
    OBVIOUS
  <2>3. /\ block \in HeapBlock \cup {Null} /\ (block = Null => n = 0) /\ (n = 0 => block = Null \/ m.zero)
        /\ block # Null => block \in HeapBlock \ m.heap
    BY <2>2, BlockIsFree, VectorNumbers
  <2>4. PICK f : f = [i \in 1..n |-> IF i <= k THEN r.slots[i] ELSE Dead]
    OBVIOUS
  <2>5. k \in Nat /\ n >= k /\ k <= MaxLen
    BY <1>1, <1>2, <2>1
  <2>6. \A i \in 1..k : r.slots[i] \in Item /\ r.slots[i] \in SlotValue
    <3> TAKE i \in 1..k
    <3>1. r.m_data # Garbage
      <4>1. r.m_data = Garbage => k = 0
        BY <1>2, <2>1, VectorNumbers DEF Formed, SizeOf, Small
      <4> QED
        BY <4>1
    <3>2. k <= CapacityOf(r) /\ FilledTo(r.slots, CapacityOf(r), k)
      BY <1>2, <2>1, <3>1 DEF Formed
    <3>3. i \in 1..CapacityOf(r) /\ i <= k
      BY <3>2, <2>5, <1>2
    <3> QED
      BY <3>2, <3>3 DEF FilledTo
  <2>7. f \in [1..n -> SlotValue] /\ (\A i \in 1..n : f[i] \in Item <=> i <= k) /\ \A i \in 1..k : f[i] = r.slots[i]
    <3>1. ASSUME NEW i \in 1..n PROVE f[i] \in SlotValue /\ (f[i] \in Item <=> i <= k)
      <4>1. CASE i <= k
        <5>1. i \in 1..k
          BY <4>1, <2>5
        <5> QED
          BY <5>1, <4>1, <2>4, <2>6
      <4>2. CASE ~(i <= k)
        BY <4>2, <2>4, VectorNumbers
      <4> QED
        BY <4>1, <4>2
    <3>2. \A i \in 1..k : i \in 1..n /\ i <= k
      BY <2>5
    <3> QED
      BY <3>1, <3>2, <2>4
  <2>8. PICK R : R = [m_size |-> k, m_capacity |-> n, m_data |-> block, slots |-> f]
    OBVIOUS
  <2>9. R.m_size = k /\ R.m_capacity = n /\ R.m_data = block /\ R.slots = f
    BY <2>8
  <2>10. ~Small(R) /\ SizeOf(R) = k /\ CapacityOf(R) = n
    <3>1. ~Small(R)
      BY <2>9, <2>5, VectorNumbers DEF Small
    <3> QED
      BY <3>1, <2>9 DEF SizeOf, CapacityOf
  <2>11. Formed(R)
    <3>1. R \in VecRec
      <4>1. f \in UNION {[1..j -> SlotValue] : j \in Nat}
        BY <2>7
      <4> QED
        BY <4>1, <2>8, <2>5, <2>3 DEF VecRec
    <3>2. block # Garbage
      BY <2>3, VectorNumbers
    <3>3. FilledTo(f, n, k)
      BY <2>7 DEF FilledTo
    <3>4. block = Null => n = 0
      BY <2>3, VectorNumbers
    <3> QED
      BY <3>1, <3>2, <3>3, <3>4, <2>5, <2>9, <2>10 DEF Formed
  <2>12. Owned(R) = {block} \ {Null}
    BY <2>3, <2>9, <2>10, VectorNumbers DEF Owned
  <2>13. PICK g : g = [m EXCEPT !.heap = @ \cup ({block} \ {Null}), !.vec[v] = R]
    OBVIOUS
  <2>14. /\ g \in MemRec /\ g.vec = [m.vec EXCEPT ![v] = R] /\ g.heap = m.heap \cup Owned(R)
         /\ g.ok = m.ok /\ g.spent = m.spent /\ g.zero = m.zero /\ g.leaked = m.leaked
    <3>1. R \in VecRec
      BY <2>11 DEF Formed
    <3>2. m.heap \cup ({block} \ {Null}) \in SUBSET HeapBlock
      BY <1>2, <2>3
    <3> QED
      BY <3>1, <3>2, <1>2, <2>12, <2>13 DEF MemRec
  <2>15. c = IF Small(r) \/ r.m_data = Null THEN g ELSE Free(g, r.m_data)
    <3>1. g = [m EXCEPT !.heap = @ \cup ({block} \ {Null}),
                        !.vec[v] = [m_size |-> SizeOf(r), m_capacity |-> n, m_data |-> block,
                                    slots |-> [i \in 1..n |-> IF i <= SizeOf(r) THEN r.slots[i] ELSE Dead]]]
      BY <2>13, <2>8, <2>4, <2>1
    <3> QED
      BY <3>1, <2>2, <1>1, <1>4 DEF _set_capacity
  <2>16. /\ c \in MemRec /\ c.vec = [m.vec EXCEPT ![v] = R] /\ c.spent = m.spent
         /\ c.zero = m.zero /\ c.leaked = m.leaked
         /\ c.heap = (m.heap \ Owned(r)) \cup Owned(R)
         /\ c.ok = (m.ok /\ (Small(r) \/ r.m_data = Null \/ r.m_data \in m.heap))
    <3>1. CASE Small(r) \/ r.m_data = Null
      <4>1. Owned(r) = {}
        BY <3>1, VectorNumbers DEF Owned
      <4> QED
        BY <4>1, <3>1, <2>14, <2>15, <1>2
    <3>2. CASE ~(Small(r) \/ r.m_data = Null)
      <4>1. c = [g EXCEPT !.heap = @ \ {r.m_data}, !.ok = @ /\ r.m_data \in g.heap]
        BY <3>2, <2>15 DEF Free
      <4>2. /\ c.heap = g.heap \ {r.m_data} /\ c.vec = g.vec /\ c.spent = g.spent
            /\ c.zero = g.zero /\ c.leaked = g.leaked
            /\ c.ok = (g.ok /\ r.m_data \in g.heap)
        BY <4>1, <2>14 DEF MemRec
      <4>3. c \in MemRec
        BY <4>1, <2>14 DEF MemRec
      <4>4. r.m_data \notin Owned(R)
        <5>1. CASE r.m_data \in HeapBlock
          <6>1. r.m_data \in m.heap
            BY <5>1, <3>2, <1>2 DEF Owned
          <6> QED
            BY <6>1, <2>3, <2>12
        <5>2. CASE r.m_data = Garbage
          BY <5>2, <2>3, <2>12, VectorNumbers
        <5> QED
          BY <5>1, <5>2, <3>2, <1>2
      <4>5. m.heap \ {r.m_data} = m.heap \ Owned(r)
        BY <3>2, <1>2, VectorNumbers DEF Owned
      <4>6. g.heap \ {r.m_data} = (m.heap \ Owned(r)) \cup Owned(R)
        BY <4>4, <4>5, <2>14
      <4>7. r.m_data \in g.heap <=> r.m_data \in m.heap
        BY <4>4, <2>14
      <4> QED
        BY <3>2, <4>2, <4>3, <4>6, <4>7, <2>14
    <3> QED
      BY <3>1, <3>2
  <2>17. Owned(R) \cap (m.heap \ Owned(r)) = {}
    BY <2>3, <2>12
  <2>18. R.m_data # Garbage
    BY <2>3, <2>9, VectorNumbers
  <2>19. Sound(c) /\ c.vec[v] = R /\ \A w \in Every : w # v => c.vec[w] = m.vec[w]
    <3>1. /\ c.heap = (m.heap \ Owned(m.vec[v])) \cup Owned(R) /\ Owned(R) \cap (m.heap \ Owned(m.vec[v])) = {}
          /\ (~c.spent => ~m.spent /\ R.m_data # Garbage)
      BY <1>1, <2>16, <2>17, <2>18
    <3>2. m.zero \/ Sized(R)
      <4>1. m.zero \/ block = Null \/ n > 0
        BY <2>3, <2>5
      <4> QED
        BY <4>1, <2>9, VectorNumbers DEF Sized
    <3>3. Replaces(m, c, v, R)
      BY <3>1, <3>2, <2>11, <2>16 DEF Replaces
    <3> QED
      BY <3>3, VectorReplaced
  <2>20. m.ok /\ ~m.spent => c.ok
    <3> HAVE m.ok /\ ~m.spent
    <3>1. r.m_data # Garbage
      BY <1>1 DEF Sound
    <3>2. Small(r) \/ r.m_data = Null \/ r.m_data \in m.heap
      BY <3>1, <1>2 DEF Owned
    <3> QED
      BY <3>2, <2>16
  <2> QED
    <3>1. /\ SizeOf(c.vec[v]) = SizeOf(m.vec[v]) /\ c.vec[v].m_data # Garbage /\ CapacityOf(c.vec[v]) >= n
          /\ ~Small(c.vec[v]) /\ CapacityOf(c.vec[v]) = n
      BY <1>1, <2>1, <2>10, <2>18, <2>19
    <3>2. \A i \in 1..SizeOf(m.vec[v]) : c.vec[v].slots[i] = m.vec[v].slots[i]
      BY <1>1, <2>1, <2>7, <2>9, <2>19
    <3>3. c.spent = m.spent /\ (c.ok => m.ok)
      BY <2>16
    <3> QED
      BY <3>1, <3>2, <3>3, <2>19, <2>20 DEF Prepared
<1> QED
  BY <1>3, <1>4

\* _ensure_capacity_for_push_back makes room for one element more.
LEMMA RoomToPush ==
    ASSUME NEW m, Sound(m), Owned(m.vec[Tmp]) = {}, NEW v \in Every,
           NEW c, c = _ensure_capacity_for_push_back(m, v)
    PROVE  Prepared(m, c, v) /\ (c.vec[v].m_data # Garbage => CapacityOf(c.vec[v]) >= SizeOf(m.vec[v]) + 1)
<1>1. PICK r, k, s : r = m.vec[v] /\ k = CapacityOf(r) /\ s = SizeOf(r)
  OBVIOUS
<1>2. k \in Nat /\ s \in Nat /\ Formed(r) /\ m.spent \in BOOLEAN
  BY <1>1, VectorForm
<1>3. CASE s # k
  <2>1. c = m
    BY <1>1, <1>3 DEF _ensure_capacity_for_push_back
  <2>2. r.m_data # Garbage => s <= k
    BY <1>1, <1>2 DEF Formed
  <2>3. r.m_data # Garbage => k >= s + 1
    BY <2>2, <1>2, <1>3
  <2> QED
    BY <1>1, <2>1, <2>3 DEF Prepared
<1>4. CASE s = k
  <2>1. PICK n : n = IF k = 0 THEN 4 ELSE (k * 3 + 1) \div 2
    OBVIOUS
  <2>2. n \in Nat /\ n >= s /\ n >= s + 1
    BY <1>2, <1>4, <2>1
  <2>3. c = _set_capacity(m, v, n)
    BY <1>1, <1>4, <2>1 DEF _ensure_capacity_for_push_back
  <2>4. Prepared(m, c, v) /\ CapacityOf(c.vec[v]) >= n
    BY <1>1, <2>2, <2>3, CapacitySet
  <2>5. CapacityOf(c.vec[v]) \in Nat
    BY <2>4, VectorForm DEF Prepared
  <2>6. CapacityOf(c.vec[v]) >= s + 1
    BY <2>2, <2>4, <2>5, <1>2
  <2> QED
    BY <1>1, <2>4, <2>6
<1> QED
  BY <1>3, <1>4

\* What VecTypeOK says of a memory, and when it lost a block.
MemTyped(m) ==
    /\ m.heap \subseteq HeapBlock /\ m.zero \in BOOLEAN /\ m.ok \in BOOLEAN /\ m.spent \in BOOLEAN
    /\ m.aliased \in BOOLEAN /\ m.leaked \in BOOLEAN /\ (m.leaked => m.zero)
    /\ \A v \in Every : m.vec[v].m_size \in 0..SizeMax /\ m.vec[v].m_data \in HeapBlock \cup {Null, Garbage}

\* Sound memory has its type.
LEMMA SoundTyped ==
    ASSUME NEW m, Sound(m)
    PROVE  MemTyped(m)
<1>1. ASSUME NEW v \in Every
      PROVE  m.vec[v].m_size \in 0..SizeMax /\ m.vec[v].m_data \in HeapBlock \cup {Null, Garbage}
  <2>1. PICK r, s : r = m.vec[v] /\ s = SizeOf(r)
    OBVIOUS
  <2>2. /\ Formed(r) /\ s \in Nat /\ s <= MaxLen /\ r.m_size = (IF Small(r) THEN s + Base ELSE s)
        /\ r.m_data \in HeapBlock \cup {Null, Garbage}
    BY <2>1, VectorForm
  <2>3. Small(r) => s <= ItemCap
    BY <2>1, <2>2, VectorNumbers DEF Formed, CapacityOf
  <2>4. r.m_size \in 0..SizeMax
    BY <2>2, <2>3, VectorNumbers
  <2> QED
    BY <2>1, <2>2, <2>4
<1>2. m \in MemRec /\ (m.leaked => m.zero)
  BY DEF Sound
<1> QED
  BY <1>1, <1>2 DEF MemTyped, MemRec

\* Slots for a vector of n elements.
FitsIn(r, n, f) ==
    /\ n <= CapacityOf(r) /\ FilledTo(f, CapacityOf(r), n)
    /\ Small(r) => (f[1] = Zero => \A i \in 1..ItemCap : f[i] = Zero)

\* Slots are written, to storage unless the vector points astray.
LEMMA SlotsWritten ==
    ASSUME NEW m, Sound(m), NEW v \in Every, NEW n \in 0..MaxLen,
           NEW f, m.vec[v].m_data # Garbage => FitsIn(m.vec[v], n, f),
           NEW c, c = Write(m, v, n, f)
    PROVE  /\ MemTyped(c) /\ c.spent = m.spent /\ (c.ok => m.ok) /\ (m.ok /\ ~m.spent => c.ok)
           /\ c.aliased = m.aliased
           /\ c.ok => /\ Sound(c) /\ SizeOf(c.vec[v]) = n /\ c.vec[v].slots = f /\ m.vec[v].m_data # Garbage
                      /\ \A w \in Every : w # v => c.vec[w] = m.vec[w]
<1>1. PICK r : r = m.vec[v]
  OBVIOUS
<1>2. /\ Formed(r) /\ r \in VecRec /\ m \in MemRec /\ m.ok \in BOOLEAN /\ m.spent \in BOOLEAN
      /\ CapacityOf(r) \in Nat /\ m.vec \in [Every -> VecRec]
  BY <1>1, VectorForm DEF Sound, Formed, MemRec
<1>3. PICK R : R = WithSize([r EXCEPT !.slots = f], n)
  OBVIOUS
<1>4. PICK z : z = IF Small(r) THEN n + Base ELSE n
  OBVIOUS
<1>5. R = [r EXCEPT !.slots = f, !.m_size = z]
  <2>1. [r EXCEPT !.slots = f].m_size = r.m_size
    BY <1>2 DEF VecRec
  <2>2. Small([r EXCEPT !.slots = f]) <=> Small(r)
    BY <2>1 DEF Small
  <2>3. R = [[r EXCEPT !.slots = f] EXCEPT !.m_size = z]
    BY <1>3, <1>4, <2>2 DEF WithSize
  <2> QED
    BY <2>3, <1>2 DEF VecRec
<1>6. /\ R.m_size = z /\ R.m_capacity = r.m_capacity /\ R.m_data = r.m_data /\ R.slots = f
  BY <1>2, <1>5 DEF VecRec
<1>7. c = [m EXCEPT !.vec[v] = R, !.ok = @ /\ (Small(r) \/ r.m_data # Garbage)]
  BY <1>1, <1>3 DEF Write
<1>8. /\ c.vec = [m.vec EXCEPT ![v] = R] /\ c.heap = m.heap /\ c.spent = m.spent
      /\ c.zero = m.zero /\ c.aliased = m.aliased /\ c.leaked = m.leaked
      /\ c.ok = (m.ok /\ (Small(r) \/ r.m_data # Garbage))
  BY <1>2, <1>7 DEF MemRec
<1>9. z \in 0..SizeMax
  <2>1. Small(r) => r.m_data # Garbage /\ CapacityOf(r) = ItemCap
    BY <1>2, VectorNumbers DEF Formed, CapacityOf
  <2>2. Small(r) => n <= ItemCap
    BY <2>1, <1>1 DEF FitsIn
  <2> QED
    BY <2>2, <1>4, VectorNumbers
<1>10. c.vec[v] = R /\ \A w \in Every : w # v => c.vec[w] = m.vec[w]
  BY <1>2, <1>8
<1>11. MemTyped(c)
  <2>1. MemTyped(m)
    BY SoundTyped
  <2>2. ASSUME NEW w \in Every
        PROVE  c.vec[w].m_size \in 0..SizeMax /\ c.vec[w].m_data \in HeapBlock \cup {Null, Garbage}
    <3>1. m.vec[w].m_size \in 0..SizeMax /\ m.vec[w].m_data \in HeapBlock \cup {Null, Garbage}
      BY <2>1 DEF MemTyped
    <3>2. r.m_data \in HeapBlock \cup {Null, Garbage}
      BY <1>1, <2>1 DEF MemTyped
    <3> QED
      BY <3>1, <3>2, <1>6, <1>9, <1>10
  <2>3. /\ c.heap \subseteq HeapBlock /\ c.zero \in BOOLEAN /\ c.ok \in BOOLEAN /\ c.spent \in BOOLEAN
        /\ c.aliased \in BOOLEAN /\ c.leaked \in BOOLEAN /\ (c.leaked => c.zero)
    BY <1>2, <1>8, <2>1 DEF MemTyped
  <2> QED
    BY <2>2, <2>3 DEF MemTyped
<1>12. m.ok /\ ~m.spent => c.ok
  <2> HAVE m.ok /\ ~m.spent
  <2>1. r.m_data # Garbage
    BY <1>1 DEF Sound
  <2> QED
    BY <2>1, <1>8
<1>13. ASSUME c.ok
       PROVE  /\ Sound(c) /\ SizeOf(c.vec[v]) = n /\ c.vec[v].slots = f /\ m.vec[v].m_data # Garbage
              /\ \A w \in Every : w # v => c.vec[w] = m.vec[w]
  <2>1. r.m_data # Garbage
    BY <1>13, <1>8, <1>2, VectorNumbers DEF Formed
  <2>2. n <= CapacityOf(r) /\ FilledTo(f, CapacityOf(r), n)
        /\ (Small(r) => (f[1] = Zero => \A i \in 1..ItemCap : f[i] = Zero))
    BY <1>1, <2>1 DEF FitsIn
  <2>3. (Small(R) <=> Small(r)) /\ SizeOf(R) = n
    <3>1. Small(R) <=> Small(r)
      BY <1>4, <1>6, VectorNumbers DEF Small
    <3> QED
      BY <3>1, <1>4, <1>6, VectorNumbers DEF SizeOf
  <2>4. CapacityOf(R) = CapacityOf(r)
    BY <1>6, <2>3 DEF CapacityOf
  <2>5. R \in VecRec
    <3>1. f \in UNION {[1..j -> SlotValue] : j \in Nat}
      BY <1>2, <2>2 DEF FilledTo
    <3>2. z \in Nat
      BY <1>9, VectorNumbers
    <3> QED
      BY <3>1, <3>2, <1>2, <1>5 DEF VecRec
  <2>6. Formed(R)
    <3>1. R \in VecRec /\ SizeOf(R) \in Nat /\ SizeOf(R) <= MaxLen
      BY <2>3, <2>5
    <3>2. SizeOf(R) <= CapacityOf(R) /\ FilledTo(R.slots, CapacityOf(R), SizeOf(R))
      BY <2>2, <2>3, <2>4, <1>6
    <3>3. Small(R) => R.m_data = Null /\ (R.slots[1] = Zero => \A i \in 1..ItemCap : R.slots[i] = Zero)
      BY <2>2, <2>3, <1>6, <1>2 DEF Formed
    <3>4. ~Small(R) /\ R.m_data = Null => R.m_capacity = 0
      BY <2>3, <1>6, <1>2 DEF Formed
    <3>5. R.m_data # Garbage
      BY <2>1, <1>6
    <3> QED
      BY <3>1, <3>2, <3>3, <3>4, <3>5 DEF Formed
  <2>7. Owned(R) = Owned(r) /\ Owned(r) \subseteq m.heap
    BY <1>1, <1>6, <2>3, VectorForm DEF Owned
  <2>8. c \in MemRec
    <3>1. [m.vec EXCEPT ![v] = R] \in [Every -> VecRec]
      BY <1>2, <2>5
    <3>2. c = [m EXCEPT !.vec = [m.vec EXCEPT ![v] = R], !.ok = c.ok]
      BY <1>2, <1>7, <1>8 DEF MemRec
    <3>3. c.ok \in BOOLEAN
      BY <1>2, <1>8
    <3> QED
      BY <3>1, <3>2, <3>3, <1>2 DEF MemRec
  <2>9. Replaces(m, c, v, R)
    <3>1. c.heap = (m.heap \ Owned(m.vec[v])) \cup Owned(R) /\ Owned(R) \cap (m.heap \ Owned(m.vec[v])) = {}
      BY <1>1, <1>8, <2>7
    <3>2. ~c.spent => ~m.spent /\ R.m_data # Garbage
      BY <1>6, <1>8, <2>1
    <3>3. m.zero \/ Sized(R)
      <4>1. m.zero \/ Sized(r)
        BY <1>1 DEF Sound
      <4> QED
        BY <4>1, <1>6, <2>3 DEF Sized
    <3> QED
      BY <3>1, <3>2, <3>3, <1>8, <2>6, <2>8 DEF Replaces
  <2> QED
    BY <1>1, <1>6, <1>10, <2>1, <2>3, <2>9, VectorReplaced
<1> QED
  BY <1>8, <1>2, <1>11, <1>12, <1>13

\* The invariant of the vectors: a memory that was only used soundly is sound,
\* and the temporary of std::swap is fresh between calls.
MemInv(m) ==
    /\ MemTyped(m)
    /\ m.ok => Sound(m) /\ m.vec[Tmp] = Made
    /\ ~m.spent /\ ~m.aliased => m.ok

\* After a sound call v has n elements, in f, and no other vector changed.
Became(m, d, v, n, f) ==
    d.ok => /\ SizeOf(d.vec[v]) = n /\ \A i \in 1..n : d.vec[v].slots[i] = f[i]
            /\ \A w \in Every : w # v => d.vec[w] = m.vec[w]

\* What a call may count on.
LEMMA CallBegins ==
    ASSUME NEW m, MemInv(m), m.ok, NEW v \in Vec
    PROVE  /\ Sound(m) /\ m.vec[Tmp] = Made /\ Owned(m.vec[Tmp]) = {} /\ v \in Every /\ v # Tmp
           /\ Prepared(m, m, v) /\ SizeOf(m.vec[v]) \in 0..MaxLen /\ m.spent \in BOOLEAN
<1>1. Sound(m) /\ m.vec[Tmp] = Made /\ v \in Every /\ v # Tmp /\ m.spent \in BOOLEAN
  BY VectorNumbers DEF MemInv, MemTyped
<1>2. SizeOf(m.vec[v]) \in 0..MaxLen
  BY <1>1, VectorForm, VectorNumbers
<1> QED
  BY <1>1, <1>2, FreshFormed DEF Prepared

\* The slots of a vector that does not point astray.
LEMMA SlotsOf ==
    ASSUME NEW m, Sound(m), NEW v \in Every, m.vec[v].m_data # Garbage,
           NEW k, k = CapacityOf(m.vec[v]), NEW s, s = SizeOf(m.vec[v]), NEW f, f = m.vec[v].slots
    PROVE  /\ k \in Nat /\ s \in Nat /\ s <= k /\ f \in [1..k -> SlotValue] /\ DOMAIN f = 1..k
           /\ \A i \in 1..k : f[i] \in SlotValue /\ (f[i] \in Item <=> i <= s)
<1>1. Formed(m.vec[v]) /\ k \in Nat /\ s \in Nat
  BY VectorForm
<1> QED
  BY <1>1 DEF Formed, FilledTo

\* Slots of which the first is not zero.
LEMMA SlotsFit ==
    ASSUME NEW r, NEW k, k = CapacityOf(r), k \in Nat, NEW n \in Nat, n <= k, NEW f \in [1..k -> SlotValue],
           \A i \in 1..k : f[i] \in Item <=> i <= n,
           n >= 1 \/ f[1] # Zero
    PROVE  FitsIn(r, n, f)
<1>1. f[1] # Zero
  <2>1. CASE n >= 1
    <3>1. 1 \in 1..k /\ 1 <= n
      BY <2>1
    <3> QED
      BY <3>1, VectorNumbers
  <2> QED
    BY <2>1
<1> QED
  BY <1>1 DEF FitsIn, FilledTo

\* A call that makes storage ready and writes there.
LEMMA CallWrites ==
    ASSUME NEW m, MemInv(m), m.ok, NEW v \in Vec, NEW c, Prepared(m, c, v), NEW n \in 0..MaxLen, NEW f,
           NEW g, c.vec[v].m_data # Garbage => FitsIn(c.vec[v], n, f) /\ \A i \in 1..n : f[i] = g[i],
           NEW d, d = Write(c, v, n, f)
    PROVE  MemInv(d) /\ Became(m, d, v, n, g) /\ (d.ok => c.ok)
<1>1. Sound(m) /\ m.vec[Tmp] = Made /\ v \in Every /\ v # Tmp /\ Tmp \in Every
  BY CallBegins, VectorNumbers
<1>2. /\ Sound(c) /\ \A w \in Every : w # v => c.vec[w] = m.vec[w]
      /\ c.spent = m.spent /\ (c.ok => m.ok) /\ (m.ok /\ ~m.spent => c.ok \/ c.aliased)
  BY DEF Prepared
<1>3. /\ MemTyped(d) /\ d.spent = c.spent /\ (d.ok => c.ok) /\ (c.ok /\ ~c.spent => d.ok)
      /\ d.aliased = c.aliased
      /\ d.ok => /\ Sound(d) /\ SizeOf(d.vec[v]) = n /\ d.vec[v].slots = f /\ c.vec[v].m_data # Garbage
                 /\ \A w \in Every : w # v => d.vec[w] = c.vec[w]
  BY <1>1, <1>2, SlotsWritten
<1>4. d.ok => d.vec[Tmp] = Made
  BY <1>1, <1>2, <1>3
<1>5. ~d.spent /\ ~d.aliased => d.ok
  BY <1>2, <1>3
<1>6. Became(m, d, v, n, g)
  BY <1>2, <1>3 DEF Became
<1> QED
  BY <1>3, <1>4, <1>5, <1>6 DEF MemInv

\* An element of the vector for an argument: the vector has the elements and the
\* storage it would have with another argument, and if that is other storage, the
\* memory is lost.
LEMMA Referred ==
    ASSUME NEW v \in Every, NEW c, Prepared(mem, c, v), NEW d, d = Referring(c)
    PROVE  Prepared(mem, d, v) /\ d.vec = c.vec /\ (d.ok => d = mem)
<1>1. CASE c = mem
  BY <1>1 DEF Referring
<1>2. CASE c # mem
  <2>1. Sound(c) /\ c \in MemRec /\ c.spent = mem.spent
    BY DEF Prepared, Sound
  <2>2. d = [c EXCEPT !.ok = FALSE, !.aliased = TRUE]
    BY <1>2 DEF Referring
  <2>3. /\ d.vec = c.vec /\ d.heap = c.heap /\ d.zero = c.zero /\ d.spent = c.spent /\ d.leaked = c.leaked
        /\ d.ok = FALSE /\ d.aliased = TRUE
    BY <2>1, <2>2 DEF MemRec
  <2>4. d \in MemRec
    BY <2>1, <2>2 DEF MemRec
  <2>5. Sound(d)
    BY <2>1, <2>3, <2>4 DEF Sound
  <2> QED
    BY <2>1, <2>3, <2>5 DEF Prepared
<1> QED
  BY <1>1, <1>2

\* A vector of n elements with room for k.
Roomy(m, c, v, k) == Prepared(m, c, v) /\ (c.vec[v].m_data # Garbage => CapacityOf(c.vec[v]) >= k)

\* An element that is pushed comes behind the others.
LEMMA PushedBack ==
    ASSUME MemInv(mem), mem.ok, NEW v \in Vec, NEW e \in Item, NEW s, s = SizeOf(mem.vec[v]), s < MaxLen,
           NEW c, Roomy(mem, c, v, s + 1), NEW d, d = Pushed(c, v, e)
    PROVE  /\ s \in Nat /\ MemInv(d) /\ (d.ok => c.ok)
           /\ Became(mem, d, v, s + 1, [i \in 1..s + 1 |-> IF i <= s THEN mem.vec[v].slots[i] ELSE e])
<1>1. PICK m : m = mem
  OBVIOUS
<1>3. PICK f : f = Put(c.vec[v].slots, s + 1, e)
  OBVIOUS
<1>4. s \in Nat /\ s + 1 \in 0..MaxLen /\ d = Write(c, v, s + 1, f)
  <2>1. s \in 0..MaxLen
    BY CallBegins
  <2>2. d = Write(c, v, s + 1, f)
    BY <1>3 DEF Pushed, Size, Rec
  <2> QED
    BY <2>1, <2>2, VectorNumbers
<1>5. Sound(m) /\ MemInv(m) /\ m.ok /\ Owned(m.vec[Tmp]) = {} /\ v \in Every /\ s = SizeOf(m.vec[v])
  BY <1>1, CallBegins
<1>6. Prepared(m, c, v) /\ (c.vec[v].m_data # Garbage => CapacityOf(c.vec[v]) >= s + 1)
  BY <1>1 DEF Roomy
<1>7. ASSUME c.vec[v].m_data # Garbage
      PROVE  FitsIn(c.vec[v], s + 1, f) /\ f[s + 1] = e /\ \A i \in 1..s : f[i] = m.vec[v].slots[i]
  <2>1. PICK k, g : k = CapacityOf(c.vec[v]) /\ g = c.vec[v].slots
    OBVIOUS
  <2>2. /\ k \in Nat /\ s <= k /\ DOMAIN g = 1..k
        /\ \A i \in 1..k : g[i] \in SlotValue /\ (g[i] \in Item <=> i <= s)
    BY <1>5, <1>6, <1>7, <2>1, SlotsOf DEF Prepared
  <2>3. k >= s + 1
    BY <1>6, <1>7, <2>1
  <2>4. f = [j \in 1..k |-> IF j = s + 1 THEN e ELSE g[j]]
    BY <1>3, <2>1, <2>2 DEF Put
  <2>5. e \in SlotValue
    BY VectorNumbers
  <2>6. f \in [1..k -> SlotValue]
    BY <2>2, <2>4, <2>5
  <2>7. \A i \in 1..k : f[i] \in Item <=> i <= s + 1
    <3> TAKE i \in 1..k
    <3>1. CASE i = s + 1
      BY <3>1, <2>4, <2>5
    <3>2. CASE i # s + 1
      <4>1. f[i] = g[i] /\ (g[i] \in Item <=> i <= s)
        BY <3>2, <2>2, <2>4
      <4>2. i <= s <=> i <= s + 1
        BY <3>2, <1>4
      <4> QED
        BY <4>1, <4>2
    <3> QED
      BY <3>1, <3>2
  <2>8. FitsIn(c.vec[v], s + 1, f)
    BY <1>4, <2>1, <2>2, <2>3, <2>6, <2>7, SlotsFit
  <2>9. s + 1 \in 1..k /\ \A i \in 1..s : i \in 1..k /\ i # s + 1
    BY <1>4, <2>2, <2>3
  <2>10. \A i \in 1..s : g[i] = m.vec[v].slots[i]
    BY <1>5, <1>6, <2>1 DEF Prepared
  <2> QED
    BY <2>4, <2>8, <2>9, <2>10
<1>8. PICK h : h = [i \in 1..s + 1 |-> IF i <= s THEN m.vec[v].slots[i] ELSE e]
  OBVIOUS
<1>9. c.vec[v].m_data # Garbage => FitsIn(c.vec[v], s + 1, f) /\ \A i \in 1..s + 1 : f[i] = h[i]
  <2> HAVE c.vec[v].m_data # Garbage
  <2> SUFFICES ASSUME NEW i \in 1..s + 1 PROVE FitsIn(c.vec[v], s + 1, f) /\ f[i] = h[i]
    BY <1>7
  <2>1. CASE i <= s
    <3>1. i \in 1..s
      BY <2>1, <1>4
    <3> QED
      BY <3>1, <2>1, <1>7, <1>8
  <2>2. CASE ~(i <= s)
    <3>1. i = s + 1
      BY <2>2, <1>4
    <3> QED
      BY <3>1, <2>2, <1>7, <1>8
  <2> QED
    BY <2>1, <2>2
<1>10. MemInv(d) /\ Became(m, d, v, s + 1, h) /\ (d.ok => c.ok)
  BY <1>4, <1>5, <1>6, <1>9, CallWrites
<1> QED
  BY <1>1, <1>4, <1>8, <1>10

\* A vector that points astray has no elements.
LEMMA AstrayIsEmpty ==
    ASSUME NEW m, Sound(m), NEW v \in Every, m.vec[v].m_data = Garbage
    PROVE  SizeOf(m.vec[v]) = 0 /\ m.vec[v].slots = <<>> /\ ~Small(m.vec[v]) /\ m.vec[v].m_size = 0
<1>1. PICK r : r = m.vec[v]
  OBVIOUS
<1>2. r.m_size = 0 /\ r.slots = <<>>
  BY <1>1, VectorForm DEF Formed
<1>3. ~Small(r)
  BY <1>2, VectorNumbers DEF Small
<1> QED
  BY <1>1, <1>2, <1>3 DEF SizeOf

\* The places below the size hold elements.
LEMMA ElementIsItem ==
    ASSUME NEW m, Sound(m), NEW v \in Every, NEW s, s = SizeOf(m.vec[v]), NEW i \in 1..s
    PROVE  m.vec[v].slots[i] \in Item
<1>1. s \in Nat
  BY VectorForm
<1>2. m.vec[v].m_data # Garbage
  <2>1. s # 0
    BY <1>1
  <2> QED
    BY <2>1, AstrayIsEmpty
<1>3. PICK k, f : k = CapacityOf(m.vec[v]) /\ f = m.vec[v].slots
  OBVIOUS
<1>4. k \in Nat /\ s <= k /\ \A j \in 1..k : f[j] \in Item <=> j <= s
  BY <1>2, <1>3, SlotsOf
<1>5. i \in 1..k /\ i <= s
  BY <1>1, <1>4
<1> QED
  BY <1>3, <1>4, <1>5

\* pop_back takes the last element away.
LEMMA PoppedBack ==
    ASSUME MemInv(mem), mem.ok, NEW v \in Vec, pop_back(v), NEW s, s = SizeOf(mem.vec[v])
    PROVE  /\ s \in Nat /\ s >= 1 /\ MemInv(mem')
           /\ Became(mem, mem', v, s - 1, mem.vec[v].slots)
<1>1. PICK m, d : m = mem /\ d = mem'
  OBVIOUS
<1>2. PICK f, g : g = m.vec[v].slots /\ f = Put(g, s, Dead)
  OBVIOUS
<1>3. s \in Nat /\ s >= 1 /\ s - 1 \in 0..MaxLen /\ d = Write(m, v, s - 1, f)
  <2>1. s \in 0..MaxLen
    BY CallBegins
  <2>2. s > 0 /\ d = Write(m, v, s - 1, f)
    BY <1>1, <1>2 DEF pop_back, Size, Rec
  <2> QED
    BY <2>1, <2>2, VectorNumbers
<1>4. Sound(m) /\ MemInv(m) /\ m.ok /\ v \in Every /\ s = SizeOf(m.vec[v]) /\ Prepared(m, m, v)
  BY <1>1, CallBegins
<1>5. m.vec[v].m_data # Garbage
  BY <1>3, <1>4, AstrayIsEmpty
<1>6. PICK k : k = CapacityOf(m.vec[v])
  OBVIOUS
<1>7. /\ k \in Nat /\ s <= k /\ DOMAIN g = 1..k
      /\ \A i \in 1..k : g[i] \in SlotValue /\ (g[i] \in Item <=> i <= s)
  BY <1>2, <1>4, <1>5, <1>6, SlotsOf
<1>8. f = [j \in 1..k |-> IF j = s THEN Dead ELSE g[j]]
  BY <1>2, <1>7 DEF Put
<1>9. f \in [1..k -> SlotValue]
  BY <1>7, <1>8, VectorNumbers
<1>10. \A i \in 1..k : f[i] \in Item <=> i <= s - 1
  <2> TAKE i \in 1..k
  <2>1. CASE i = s
    <3>1. f[i] = Dead /\ ~(i <= s - 1)
      BY <2>1, <1>8, <1>3
    <3> QED
      BY <3>1, VectorNumbers
  <2>2. CASE i # s
    <3>1. f[i] = g[i] /\ (g[i] \in Item <=> i <= s)
      BY <2>2, <1>7, <1>8
    <3>2. i <= s <=> i <= s - 1
      BY <2>2, <1>3
    <3> QED
      BY <3>1, <3>2
  <2> QED
    BY <2>1, <2>2
<1>11. s - 1 >= 1 \/ f[1] # Zero
  <2>1. CASE s = 1
    <3>1. 1 \in 1..k
      BY <2>1, <1>7
    <3> QED
      BY <3>1, <2>1, <1>8, VectorNumbers
  <2>2. CASE s # 1
    BY <2>2, <1>3
  <2> QED
    BY <2>1, <2>2
<1>12. s - 1 \in Nat /\ s - 1 <= k
  BY <1>3, <1>7
<1>13. FitsIn(m.vec[v], s - 1, f)
  BY <1>6, <1>7, <1>9, <1>10, <1>11, <1>12, SlotsFit
<1>14. \A i \in 1..s - 1 : f[i] = g[i]
  <2> TAKE i \in 1..s - 1
  <2>1. i \in 1..k /\ i # s
    BY <1>3, <1>7
  <2> QED
    BY <2>1, <1>8
<1>15. MemInv(d) /\ Became(m, d, v, s - 1, g)
  BY <1>3, <1>4, <1>13, <1>14, CallWrites
<1> QED
  BY <1>1, <1>2, <1>3, <1>15

\* An element that is inserted comes behind the first ones, and the others move up.
LEMMA Inserted ==
    ASSUME MemInv(mem), mem.ok, NEW v \in Vec, NEW at \in 0..MaxLen, NEW e \in Item,
           NEW s, s = SizeOf(mem.vec[v]), s < MaxLen, at <= s,
           NEW c, Roomy(mem, c, v, s + 1), NEW d, d = Opened(c, v, at, e)
    PROVE  /\ s \in Nat /\ MemInv(d) /\ (d.ok => c.ok)
           /\ Became(mem, d, v, s + 1, [j \in 1..s + 1 |-> IF j <= at THEN mem.vec[v].slots[j]
                                                           ELSE IF j = at + 1 THEN e ELSE mem.vec[v].slots[j - 1]])
<1>1. PICK m : m = mem
  OBVIOUS
<1>3. PICK g : g = c.vec[v].slots
  OBVIOUS
<1>4. PICK f : f = [j \in DOMAIN g |-> CASE j <= at -> g[j]
                                         [] j = at + 1 -> e
                                         [] j > at + 1 /\ j <= s + 1 -> g[j - 1]
                                         [] OTHER -> g[j]]
  OBVIOUS
<1>5. s \in Nat /\ s + 1 \in 0..MaxLen /\ at \in Nat /\ at <= s /\ d = Write(c, v, s + 1, f)
  <2>1. s \in 0..MaxLen /\ at \in Nat
    BY CallBegins
  <2>2. d = Write(c, v, s + 1, f)
    BY <1>3, <1>4 DEF Opened, Size, Rec
  <2> QED
    BY <2>1, <2>2, VectorNumbers
<1>6. Sound(m) /\ MemInv(m) /\ m.ok /\ Owned(m.vec[Tmp]) = {} /\ v \in Every /\ s = SizeOf(m.vec[v])
  BY <1>1, CallBegins
<1>7. Prepared(m, c, v) /\ (c.vec[v].m_data # Garbage => CapacityOf(c.vec[v]) >= s + 1)
  BY <1>1 DEF Roomy
<1>8. PICK h : h = [j \in 1..s + 1 |-> IF j <= at THEN m.vec[v].slots[j]
                                       ELSE IF j = at + 1 THEN e ELSE m.vec[v].slots[j - 1]]
  OBVIOUS
<1>9. ASSUME c.vec[v].m_data # Garbage
      PROVE  FitsIn(c.vec[v], s + 1, f) /\ \A i \in 1..s + 1 : f[i] = h[i]
  <2>1. PICK k : k = CapacityOf(c.vec[v])
    OBVIOUS
  <2>2. /\ k \in Nat /\ s <= k /\ DOMAIN g = 1..k
        /\ \A i \in 1..k : g[i] \in SlotValue /\ (g[i] \in Item <=> i <= s)
    BY <1>3, <1>6, <1>7, <1>9, <2>1, SlotsOf DEF Prepared
  <2>3. k >= s + 1
    BY <1>7, <1>9, <2>1
  <2>4. e \in SlotValue
    BY VectorNumbers
  <2>5. ASSUME NEW i \in 1..k
        PROVE  /\ f[i] \in SlotValue /\ (f[i] \in Item <=> i <= s + 1)
               /\ i <= at => f[i] = g[i]
               /\ i = at + 1 => f[i] = e
               /\ i > at + 1 /\ i <= s + 1 => f[i] = g[i - 1]
    <3>1. f[i] = CASE i <= at -> g[i]
                   [] i = at + 1 -> e
                   [] i > at + 1 /\ i <= s + 1 -> g[i - 1]
                   [] OTHER -> g[i]
      BY <1>4, <2>2
    <3>2. i \in Nat /\ i >= 1
      BY <2>2
    <3>3. CASE i <= at
      <4>1. f[i] = g[i] /\ i <= s
        BY <3>1, <3>2, <3>3, <1>5
      <4> QED
        BY <4>1, <3>2, <3>3, <2>2, <1>5
    <3>4. CASE i = at + 1
      <4>1. f[i] = e
        BY <3>1, <3>2, <3>4, <1>5
      <4> QED
        BY <4>1, <3>2, <3>4, <2>4, <1>5
    <3>5. CASE i > at + 1 /\ i <= s + 1
      <4>1. f[i] = g[i - 1]
        BY <3>1, <3>2, <3>5, <1>5
      <4>2. i - 1 \in 1..k /\ i - 1 <= s
        BY <3>2, <3>5, <1>5, <2>2, <2>3
      <4>3. g[i - 1] \in SlotValue /\ g[i - 1] \in Item
        BY <4>2, <2>2
      <4> QED
        BY <4>1, <4>3, <3>2, <3>5, <1>5
    <3>6. CASE i > s + 1
      <4>1. f[i] = g[i]
        BY <3>1, <3>2, <3>6, <1>5
      <4> QED
        BY <4>1, <3>2, <3>6, <2>2, <1>5
    <3> QED
      BY <3>2, <3>3, <3>4, <3>5, <3>6, <1>5
  <2>6. f \in [1..k -> SlotValue]
    <3>1. DOMAIN f = 1..k /\ f = [j \in DOMAIN f |-> f[j]]
      BY <1>4, <2>2
    <3> QED
      BY <3>1, <2>5
  <2>7. FitsIn(c.vec[v], s + 1, f)
    BY <1>5, <2>1, <2>2, <2>3, <2>5, <2>6, SlotsFit
  <2>8. \A i \in 1..s : g[i] = m.vec[v].slots[i]
    BY <1>3, <1>6, <1>7 DEF Prepared
  <2>9. ASSUME NEW i \in 1..s + 1 PROVE f[i] = h[i]
    <3>1. i \in 1..k /\ i \in Nat /\ i >= 1 /\ i <= s + 1
      BY <1>5, <2>2, <2>3
    <3>2. CASE i <= at
      <4>1. i \in 1..s
        BY <3>1, <3>2, <1>5
      <4> QED
        BY <4>1, <3>1, <3>2, <2>5, <2>8, <1>8
    <3>3. CASE i = at + 1
      <4>1. ~(i <= at)
        BY <3>3, <1>5
      <4> QED
        BY <4>1, <3>1, <3>3, <2>5, <1>8
    <3>4. CASE i > at + 1
      <4>1. i - 1 \in 1..s /\ ~(i <= at) /\ i # at + 1
        BY <3>1, <3>4, <1>5
      <4>2. f[i] = g[i - 1]
        BY <3>1, <3>4, <2>5
      <4> QED
        BY <4>1, <4>2, <2>8, <1>8
    <3> QED
      BY <3>1, <3>2, <3>3, <3>4, <1>5
  <2> QED
    BY <2>7, <2>9
<1>10. MemInv(d) /\ Became(m, d, v, s + 1, h) /\ (d.ok => c.ok)
  BY <1>5, <1>6, <1>7, <1>9, CallWrites
<1> QED
  BY <1>1, <1>5, <1>8, <1>10

\* erase_at takes n elements out, and moves the others down.
LEMMA Erased ==
    ASSUME MemInv(mem), mem.ok, NEW v \in Vec, NEW at \in 0..MaxLen, NEW n \in 1..MaxLen, erase_at(v, at, n),
           NEW s, s = SizeOf(mem.vec[v])
    PROVE  /\ s \in Nat /\ at + n <= s /\ MemInv(mem')
           /\ Became(mem, mem', v, s - n, [j \in 1..s - n |-> IF j <= at THEN mem.vec[v].slots[j]
                                                              ELSE mem.vec[v].slots[j + n]])
<1>1. PICK m, d : m = mem /\ d = mem'
  OBVIOUS
<1>2. PICK g : g = m.vec[v].slots
  OBVIOUS
<1>3. PICK f : f = [j \in DOMAIN g |-> IF at < j /\ j <= s - n THEN g[j + n]
                                       ELSE IF s - n < j /\ j <= s THEN Dead ELSE g[j]]
  OBVIOUS
<1>4. /\ s \in Nat /\ at \in Nat /\ n \in Nat /\ n >= 1 /\ at + n <= s
      /\ s - n \in 0..MaxLen /\ s - n \in Nat /\ d = Write(m, v, s - n, f)
  <2>1. s \in 0..MaxLen /\ at \in Nat /\ n \in Nat /\ n >= 1 /\ MaxLen \in Nat
    BY CallBegins, VectorNumbers
  <2>2. at + n <= s /\ d = Write(m, v, s - n, f)
    BY <1>1, <1>2, <1>3 DEF erase_at, Size, Rec
  <2> QED
    BY <2>1, <2>2
<1>5. Sound(m) /\ MemInv(m) /\ m.ok /\ v \in Every /\ s = SizeOf(m.vec[v]) /\ Prepared(m, m, v)
  BY <1>1, CallBegins
<1>6. m.vec[v].m_data # Garbage
  <2>1. s # 0
    BY <1>4
  <2> QED
    BY <2>1, <1>5, AstrayIsEmpty
<1>7. PICK k : k = CapacityOf(m.vec[v])
  OBVIOUS
<1>8. /\ k \in Nat /\ s <= k /\ DOMAIN g = 1..k
      /\ \A i \in 1..k : g[i] \in SlotValue /\ (g[i] \in Item <=> i <= s)
  BY <1>2, <1>5, <1>6, <1>7, SlotsOf
<1>9. ASSUME NEW i \in 1..k
      PROVE  /\ f[i] \in SlotValue /\ (f[i] \in Item <=> i <= s - n)
             /\ i <= at => f[i] = g[i]
             /\ at < i /\ i <= s - n => f[i] = g[i + n]
             /\ s - n < i /\ i <= s => f[i] = Dead
  <2>1. f[i] = IF at < i /\ i <= s - n THEN g[i + n] ELSE IF s - n < i /\ i <= s THEN Dead ELSE g[i]
    BY <1>3, <1>8
  <2>2. i \in Nat /\ i >= 1
    BY <1>8
  <2>3. CASE at < i /\ i <= s - n
    <3>1. i + n \in 1..k /\ i + n <= s
      BY <2>2, <2>3, <1>4, <1>8
    <3>2. g[i + n] \in SlotValue /\ g[i + n] \in Item
      BY <3>1, <1>8
    <3>3. f[i] = g[i + n] /\ ~(i <= at) /\ ~(s - n < i)
      BY <2>1, <2>2, <2>3, <1>4
    <3> QED
      BY <3>2, <3>3, <2>3
  <2>4. CASE s - n < i /\ i <= s
    <3>1. f[i] = Dead /\ ~(i <= at) /\ ~(i <= s - n)
      BY <2>1, <2>2, <2>4, <1>4
    <3> QED
      BY <3>1, VectorNumbers
  <2>5. CASE i <= at \/ i > s
    <3>1. f[i] = g[i] /\ ~(at < i /\ i <= s - n) /\ ~(s - n < i /\ i <= s)
      BY <2>1, <2>2, <2>5, <1>4
    <3>2. i <= s <=> i <= s - n
      BY <2>2, <2>5, <1>4
    <3> QED
      BY <3>1, <3>2, <1>8
  <2> QED
    BY <2>2, <2>3, <2>4, <2>5, <1>4
<1>10. f \in [1..k -> SlotValue]
  <2>1. DOMAIN f = 1..k /\ f = [j \in DOMAIN f |-> f[j]]
    BY <1>3, <1>8
  <2> QED
    BY <2>1, <1>9
<1>11. s - n >= 1 \/ f[1] # Zero
  <2>1. CASE s - n = 0
    <3>1. 1 \in 1..k /\ s - n < 1 /\ 1 <= s
      BY <2>1, <1>4, <1>8
    <3> QED
      BY <3>1, <1>9, VectorNumbers
  <2> QED
    BY <2>1, <1>4
<1>12. FitsIn(m.vec[v], s - n, f)
  <2>1. s - n <= k
    BY <1>4, <1>8
  <2>2. \A i \in 1..k : f[i] \in Item <=> i <= s - n
    BY <1>9
  <2> QED
    BY <2>1, <2>2, <1>4, <1>7, <1>8, <1>10, <1>11, SlotsFit
<1>13. PICK h : h = [j \in 1..s - n |-> IF j <= at THEN g[j] ELSE g[j + n]]
  OBVIOUS
<1>14. ASSUME NEW i \in 1..s - n PROVE f[i] = h[i]
  <2>1. i \in 1..k /\ i <= s - n /\ i \in Nat
    BY <1>4, <1>8
  <2>2. CASE i <= at
    BY <2>1, <2>2, <1>9, <1>13
  <2>3. CASE ~(i <= at)
    <3>1. at < i
      BY <2>1, <2>3, <1>4
    <3> QED
      BY <3>1, <2>1, <2>3, <1>9, <1>13
  <2> QED
    BY <2>2, <2>3
<1>15. MemInv(d) /\ Became(m, d, v, s - n, h)
  BY <1>4, <1>5, <1>12, <1>14, CallWrites
<1> QED
  BY <1>1, <1>2, <1>4, <1>13, <1>15

\* erase_at of nothing keeps the elements before the place.
LEMMA ErasedNone ==
    ASSUME MemInv(mem), mem.ok, NEW v \in Vec, NEW at \in 0..MaxLen, erase_none(v, at),
           NEW s, s = SizeOf(mem.vec[v])
    PROVE  /\ s \in Nat /\ MemInv(mem')
           /\ \E h \in [1..s -> Item] : /\ \A j \in 1..s : j <= at => h[j] = mem.vec[v].slots[j]
                                        /\ Became(mem, mem', v, s, h)
<1>1. PICK m, d, q : m = mem /\ d = mem' /\ q = m.vec[v].slots
  OBVIOUS
<1>2. PICK g \in [1..s -> Item] :
          d = Write(m, v, s, [j \in DOMAIN q |-> IF at < j /\ j <= s THEN g[j] ELSE q[j]])
  BY <1>1 DEF erase_none, Size, Rec
<1>3. PICK f : f = [j \in DOMAIN q |-> IF at < j /\ j <= s THEN g[j] ELSE q[j]]
  OBVIOUS
<1>4. PICK h : h = [j \in 1..s |-> IF at < j THEN g[j] ELSE q[j]]
  OBVIOUS
<1>5. /\ Sound(m) /\ MemInv(m) /\ m.ok /\ v \in Every /\ s = SizeOf(m.vec[v]) /\ Prepared(m, m, v)
      /\ s \in 0..MaxLen /\ s \in Nat /\ at \in Nat /\ at < s
  <2>1. at < s
    BY DEF erase_none, Size, Rec
  <2> QED
    BY <2>1, <1>1, CallBegins, VectorNumbers
<1>6. m.vec[v].m_data # Garbage
  <2>1. s # 0
    BY <1>5
  <2> QED
    BY <2>1, <1>5, AstrayIsEmpty
<1>7. PICK k : k = CapacityOf(m.vec[v])
  OBVIOUS
<1>8. /\ k \in Nat /\ s <= k /\ DOMAIN q = 1..k
      /\ \A i \in 1..k : q[i] \in SlotValue /\ (q[i] \in Item <=> i <= s)
  BY <1>1, <1>5, <1>6, <1>7, SlotsOf
<1>9. ASSUME NEW i \in 1..k
      PROVE  /\ f[i] \in SlotValue /\ (f[i] \in Item <=> i <= s)
             /\ i <= s => f[i] = h[i] /\ h[i] \in Item
             /\ i <= s /\ i <= at => h[i] = q[i]
  <2>1. f[i] = IF at < i /\ i <= s THEN g[i] ELSE q[i]
    BY <1>3, <1>8
  <2>2. q[i] \in SlotValue /\ (q[i] \in Item <=> i <= s) /\ i \in Nat /\ i >= 1
    BY <1>8
  <2>3. CASE at < i /\ i <= s
    <3>1. i \in 1..s /\ ~(i <= at)
      BY <2>2, <2>3, <1>5
    <3>2. f[i] = g[i] /\ h[i] = g[i] /\ g[i] \in Item
      BY <3>1, <2>1, <2>3, <1>4
    <3> QED
      BY <3>1, <3>2, <2>3, VectorNumbers
  <2>4. CASE ~(at < i) /\ i <= s
    <3>1. i \in 1..s
      BY <2>2, <2>4, <1>5
    <3>2. f[i] = q[i] /\ h[i] = q[i]
      BY <3>1, <2>1, <2>4, <1>4
    <3> QED
      BY <3>2, <2>2, <2>4
  <2>5. CASE ~(i <= s)
    <3>1. f[i] = q[i]
      BY <2>1, <2>5
    <3> QED
      BY <3>1, <2>2, <2>5
  <2> QED
    BY <2>3, <2>4, <2>5
<1>10. f \in [1..k -> SlotValue]
  <2>1. DOMAIN f = 1..k /\ f = [j \in DOMAIN f |-> f[j]]
    BY <1>3, <1>8
  <2> QED
    BY <2>1, <1>9
<1>11. FitsIn(m.vec[v], s, f)
  <2>1. \A i \in 1..k : f[i] \in Item <=> i <= s
    BY <1>9
  <2>2. s >= 1
    BY <1>5
  <2> QED
    BY <2>1, <2>2, <1>5, <1>7, <1>8, <1>10, SlotsFit
<1>12. \A i \in 1..s : f[i] = h[i] /\ h[i] \in Item /\ (i <= at => h[i] = q[i])
  <2> TAKE i \in 1..s
  <2>1. i \in 1..k /\ i <= s
    BY <1>5, <1>8
  <2> QED
    BY <2>1, <1>9
<1>13. d = Write(m, v, s, f)
  BY <1>2, <1>3
<1>14. MemInv(d) /\ Became(m, d, v, s, h)
  BY <1>5, <1>11, <1>12, <1>13, CallWrites
<1>15. h \in [1..s -> Item]
  BY <1>4, <1>12
<1> QED
  BY <1>1, <1>5, <1>12, <1>14, <1>15

\* clear leaves a vector without elements.
LEMMA Cleared ==
    ASSUME MemInv(mem), mem.ok, NEW v \in Vec, clear(v)
    PROVE  MemInv(mem') /\ Became(mem, mem', v, 0, <<>>)
<1>1. PICK m, d, s, g : m = mem /\ d = mem' /\ s = SizeOf(m.vec[v]) /\ g = m.vec[v].slots
  OBVIOUS
<1>2. PICK f : f = [j \in DOMAIN g |-> IF j <= s THEN Dead ELSE g[j]]
  OBVIOUS
<1>3. PICK R : R = WithSize([m.vec[v] EXCEPT !.slots = f], 0)
  OBVIOUS
<1>4. d = [m EXCEPT !.vec[v] = R]
  BY <1>1, <1>2, <1>3 DEF clear, Size, Rec
<1>5. /\ Sound(m) /\ MemInv(m) /\ m.ok /\ v \in Every /\ s \in Nat /\ Prepared(m, m, v) /\ m \in MemRec
      /\ m.vec[v] \in VecRec
  BY <1>1, CallBegins DEF Sound, MemRec
<1>6. CASE m.vec[v].m_data # Garbage
  <2>1. PICK k : k = CapacityOf(m.vec[v])
    OBVIOUS
  <2>2. /\ k \in Nat /\ s <= k /\ g \in [1..k -> SlotValue] /\ DOMAIN g = 1..k
        /\ \A i \in 1..k : g[i] \in SlotValue /\ (g[i] \in Item <=> i <= s)
    BY <1>1, <1>5, <1>6, <2>1, SlotsOf
  <2>3. f = [j \in 1..k |-> IF j <= s THEN Dead ELSE g[j]]
    BY <1>2, <2>2
  <2>4. f \in [1..k -> SlotValue] /\ \A i \in 1..k : f[i] \notin Item
    BY <2>2, <2>3, VectorNumbers
  <2>5. FitsIn(m.vec[v], 0, f)
    <3>1. CASE s = 0
      <4>1. f = g
        <5>1. \A j \in 1..k : ~(j <= s)
          BY <3>1
        <5> QED
          BY <5>1, <2>2, <2>3
      <4>2. Formed(m.vec[v])
        BY <1>5, VectorForm
      <4> QED
        BY <4>1, <4>2, <3>1, <1>1, <1>6, <2>1, <2>2 DEF FitsIn, Formed
    <3>2. CASE s # 0
      <4>1. 1 \in 1..k /\ 1 <= s
        BY <3>2, <1>5, <2>2
      <4>2. f[1] # Zero
        BY <4>1, <2>3, VectorNumbers
      <4>3. \A i \in 1..k : f[i] \in Item <=> i <= 0
        BY <2>2, <2>4
      <4>4. 0 \in Nat /\ 0 <= k
        BY <2>2
      <4> QED
        BY <4>2, <4>3, <4>4, <2>1, <2>2, <2>4, SlotsFit
    <3> QED
      BY <3>1, <3>2
  <2>6. d = Write(m, v, 0, f)
    <3>1. Write(m, v, 0, f) = [m EXCEPT !.vec[v] = R, !.ok = @ /\ TRUE]
      BY <1>3, <1>6 DEF Write
    <3>2. [m EXCEPT !.vec[v] = R, !.ok = @ /\ TRUE] = [m EXCEPT !.vec[v] = R]
      BY <1>5 DEF MemRec
    <3> QED
      BY <3>1, <3>2, <1>4
  <2>7. 0 \in 0..MaxLen
    BY VectorNumbers
  <2>8. PICK h : h = <<>>
    OBVIOUS
  <2>9. \A i \in 1..0 : f[i] = h[i]
    OBVIOUS
  <2>10. MemInv(d) /\ Became(m, d, v, 0, h)
    BY <1>5, <2>5, <2>6, <2>7, <2>9, CallWrites
  <2> QED
    BY <1>1, <2>8, <2>10
<1>7. CASE m.vec[v].m_data = Garbage
  <2>1. s = 0 /\ g = <<>> /\ ~Small(m.vec[v]) /\ m.vec[v].m_size = 0
    BY <1>1, <1>5, <1>7, AstrayIsEmpty
  <2>2. f = g
    BY <1>2, <2>1
  <2>3. [m.vec[v] EXCEPT !.slots = f] = m.vec[v]
    BY <1>1, <1>5, <2>2 DEF VecRec
  <2>4. R = m.vec[v]
    BY <1>3, <1>5, <2>1, <2>3 DEF WithSize, VecRec
  <2>5. d = m
    BY <1>4, <1>5, <2>4 DEF MemRec
  <2> QED
    BY <1>1, <1>5, <2>1, <2>5 DEF Became
<1> QED
  BY <1>6, <1>7

\* Storage that was only made ready.
LEMMA CallPrepares ==
    ASSUME NEW m, MemInv(m), m.ok, NEW v \in Vec, NEW d, Prepared(m, d, v)
    PROVE  MemInv(d) /\ Became(m, d, v, SizeOf(m.vec[v]), m.vec[v].slots)
<1>1. Sound(m) /\ m.vec[Tmp] = Made /\ v # Tmp /\ Tmp \in Every
  BY CallBegins, VectorNumbers
<1>2. MemTyped(d)
  BY SoundTyped DEF Prepared
<1>3. d.vec[Tmp] = Made
  BY <1>1 DEF Prepared
<1>4. ~d.spent /\ ~d.aliased => d.ok
  BY DEF Prepared
<1> QED
  BY <1>2, <1>3, <1>4 DEF MemInv, Became, Prepared

\* reserve changes no element.
LEMMA ReservedFor ==
    ASSUME MemInv(mem), mem.ok, NEW v \in Vec, NEW n \in 0..MaxLen, reserve(v, n),
           NEW s, s = SizeOf(mem.vec[v])
    PROVE  s \in Nat /\ MemInv(mem') /\ Became(mem, mem', v, s, mem.vec[v].slots)
<1>1. PICK m, d : m = mem /\ d = mem'
  OBVIOUS
<1>2. PICK k : k = IF n > s THEN n ELSE s
  OBVIOUS
<1>3. Sound(m) /\ MemInv(m) /\ m.ok /\ Owned(m.vec[Tmp]) = {} /\ v \in Every /\ s = SizeOf(m.vec[v]) /\ s \in Nat
  BY <1>1, CallBegins
<1>4. k \in Nat /\ k >= s
  BY <1>2, <1>3
<1>5. d = _set_capacity(m, v, k)
  BY <1>1, <1>2 DEF reserve, Size, Rec
<1>6. Prepared(m, d, v)
  BY <1>3, <1>4, <1>5, CapacitySet
<1>7. MemInv(d) /\ Became(m, d, v, s, m.vec[v].slots)
  BY <1>3, <1>6, CallPrepares
<1> QED
  BY <1>1, <1>3, <1>7

\* Room for n elements.
LEMMA RoomToResize ==
    ASSUME MemInv(mem), mem.ok, NEW v \in Vec, NEW n \in 0..MaxLen
    PROVE  Roomy(mem, _ensure_capacity(v, n), v, n)
<1>1. PICK m, s, c : m = mem /\ s = SizeOf(m.vec[v]) /\ c = _ensure_capacity(v, n)
  OBVIOUS
<1>2. c = IF CapacityOf(m.vec[v]) < n THEN _set_capacity(m, v, n) ELSE m
  BY <1>1 DEF _ensure_capacity, Rec
<1>3. /\ Sound(m) /\ MemInv(m) /\ m.ok /\ Owned(m.vec[Tmp]) = {} /\ v \in Every
      /\ s \in Nat /\ n \in Nat /\ Prepared(m, m, v) /\ CapacityOf(m.vec[v]) \in Nat
  BY <1>1, CallBegins, VectorForm
<1>4. Prepared(m, c, v) /\ (c.vec[v].m_data # Garbage => CapacityOf(c.vec[v]) >= n)
  <2>1. CASE CapacityOf(m.vec[v]) < n
    <3>1. m.vec[v].m_data # Garbage => s <= CapacityOf(m.vec[v])
      BY <1>1, <1>3, VectorForm DEF Formed
    <3>2. m.vec[v].m_data = Garbage => s = 0
      BY <1>1, <1>3, AstrayIsEmpty
    <3>3. n >= s
      BY <3>1, <3>2, <2>1, <1>3
    <3>4. c = _set_capacity(m, v, n)
      BY <2>1, <1>2
    <3> QED
      BY <3>3, <3>4, <1>1, <1>3, CapacitySet
  <2>2. CASE ~(CapacityOf(m.vec[v]) < n)
    <3>1. c = m /\ CapacityOf(m.vec[v]) >= n
      BY <2>2, <1>2, <1>3
    <3> QED
      BY <3>1, <1>3
  <2> QED
    BY <2>1, <2>2
<1> QED
  BY <1>1, <1>4 DEF Roomy

\* A vector that is resized keeps the elements up to n, and e follows them.
LEMMA ResizedTo ==
    ASSUME MemInv(mem), mem.ok, NEW v \in Vec, NEW n \in 0..MaxLen, NEW e \in Item,
           NEW s, s = SizeOf(mem.vec[v]), n # s,
           NEW c, Roomy(mem, c, v, n), NEW d, d = Resized(c, v, n, e)
    PROVE  /\ s \in Nat /\ MemInv(d) /\ (d.ok => c.ok)
           /\ Became(mem, d, v, n, [j \in 1..n |-> IF j <= s THEN mem.vec[v].slots[j] ELSE e])
<1>1. PICK m : m = mem
  OBVIOUS
<1>3. PICK g : g = c.vec[v].slots
  OBVIOUS
<1>4. PICK f : f = [j \in DOMAIN g |-> IF j <= s /\ j <= n THEN g[j] ELSE IF j <= n THEN e
                                       ELSE IF j <= s THEN Dead ELSE g[j]]
  OBVIOUS
<1>5. n # s /\ d = Write(c, v, n, f)
  BY <1>3, <1>4 DEF Resized, Size, Rec
<1>6. /\ Sound(m) /\ MemInv(m) /\ m.ok /\ Owned(m.vec[Tmp]) = {} /\ v \in Every /\ s = SizeOf(m.vec[v])
      /\ s \in Nat /\ n \in Nat
  BY <1>1, CallBegins
<1>7. Prepared(m, c, v) /\ (c.vec[v].m_data # Garbage => CapacityOf(c.vec[v]) >= n)
  BY <1>1 DEF Roomy
<1>8. PICK h : h = [j \in 1..n |-> IF j <= s THEN m.vec[v].slots[j] ELSE e]
  OBVIOUS
<1>9. ASSUME c.vec[v].m_data # Garbage
      PROVE  FitsIn(c.vec[v], n, f) /\ \A i \in 1..n : f[i] = h[i]
  <2>1. PICK k : k = CapacityOf(c.vec[v])
    OBVIOUS
  <2>2. /\ k \in Nat /\ s <= k /\ DOMAIN g = 1..k
        /\ \A i \in 1..k : g[i] \in SlotValue /\ (g[i] \in Item <=> i <= s)
    BY <1>3, <1>6, <1>7, <1>9, <2>1, SlotsOf DEF Prepared
  <2>3. k >= n
    BY <1>7, <1>9, <2>1
  <2>4. e \in SlotValue /\ Dead \in SlotValue /\ Dead \notin Item /\ Dead # Zero
    BY VectorNumbers
  <2>5. ASSUME NEW i \in 1..k
        PROVE  /\ f[i] \in SlotValue /\ (f[i] \in Item <=> i <= n)
               /\ i <= n /\ i <= s => f[i] = g[i]
               /\ i <= n /\ ~(i <= s) => f[i] = e
               /\ ~(i <= n) /\ i <= s => f[i] = Dead
    <3>1. f[i] = IF i <= s /\ i <= n THEN g[i] ELSE IF i <= n THEN e ELSE IF i <= s THEN Dead ELSE g[i]
      BY <1>4, <2>2
    <3>2. g[i] \in SlotValue /\ (g[i] \in Item <=> i <= s)
      BY <2>2
    <3> QED
      BY <3>1, <3>2, <2>4
  <2>6. f \in [1..k -> SlotValue]
    <3>1. DOMAIN f = 1..k /\ f = [j \in DOMAIN f |-> f[j]]
      BY <1>4, <2>2
    <3> QED
      BY <3>1, <2>5
  <2>7. n >= 1 \/ f[1] # Zero
    <3>1. CASE n = 0
      <4>1. 1 \in 1..k /\ ~(1 <= n) /\ 1 <= s
        BY <3>1, <1>5, <1>6, <2>2
      <4> QED
        BY <4>1, <2>4, <2>5
    <3> QED
      BY <3>1, <1>6
  <2>8. FitsIn(c.vec[v], n, f)
    <3>1. \A i \in 1..k : f[i] \in Item <=> i <= n
      BY <2>5
    <3>2. n <= k
      BY <2>2, <2>3, <1>6
    <3> QED
      BY <3>1, <3>2, <1>6, <2>1, <2>2, <2>6, <2>7, SlotsFit
  <2>9. \A i \in 1..s : g[i] = m.vec[v].slots[i]
    BY <1>3, <1>6, <1>7 DEF Prepared
  <2>10. ASSUME NEW i \in 1..n PROVE f[i] = h[i]
    <3>1. i \in 1..k /\ i <= n
      BY <1>6, <2>2, <2>3
    <3>2. CASE i <= s
      <4>1. i \in 1..s
        BY <3>1, <3>2, <1>6
      <4> QED
        BY <4>1, <3>1, <3>2, <2>5, <2>9, <1>8
    <3>3. CASE ~(i <= s)
      BY <3>1, <3>3, <2>5, <1>8
    <3> QED
      BY <3>2, <3>3
  <2> QED
    BY <2>8, <2>10
<1>10. MemInv(d) /\ Became(m, d, v, n, h) /\ (d.ok => c.ok)
  BY <1>5, <1>6, <1>7, <1>9, CallWrites
<1> QED
  BY <1>1, <1>6, <1>8, <1>10

\* The calls that grow a vector, with a value and with an element of its own.
LEMMA RoomForOne ==
    ASSUME MemInv(mem), mem.ok, NEW v \in Vec, NEW s, s = SizeOf(mem.vec[v])
    PROVE  Roomy(mem, _ensure_capacity_for_push_back(mem, v), v, s + 1)
<1>1. PICK m, c : m = mem /\ c = _ensure_capacity_for_push_back(m, v)
  OBVIOUS
<1>2. Sound(m) /\ Owned(m.vec[Tmp]) = {} /\ v \in Every
  BY <1>1, CallBegins
<1>3. Prepared(m, c, v) /\ (c.vec[v].m_data # Garbage => CapacityOf(c.vec[v]) >= SizeOf(m.vec[v]) + 1)
  BY <1>1, <1>2, RoomToPush
<1> QED
  BY <1>1, <1>3 DEF Roomy

LEMMA RoomReferred ==
    ASSUME NEW v \in Vec, NEW k, NEW c, Roomy(mem, c, v, k)
    PROVE  Roomy(mem, Referring(c), v, k)
<1>1. PICK d : d = Referring(c)
  OBVIOUS
<1>2. v \in Every /\ Prepared(mem, c, v)
  BY VectorNumbers DEF Roomy
<1>3. Prepared(mem, d, v) /\ d.vec = c.vec
  BY <1>1, <1>2, Referred
<1> QED
  BY <1>1, <1>3 DEF Roomy

LEMMA OwnElement ==
    ASSUME MemInv(mem), mem.ok, NEW v \in Vec, NEW s, s = SizeOf(mem.vec[v]), NEW i \in 1..s
    PROVE  mem.vec[v].slots[i] \in Item
<1>1. PICK m : m = mem
  OBVIOUS
<1>2. Sound(m) /\ v \in Every
  BY <1>1, CallBegins
<1> QED
  BY <1>1, <1>2, ElementIsItem

\* push_back and push_back_own.
LEMMA PushBackKeeps ==
    ASSUME MemInv(mem), mem.ok, NEW v \in Vec, NEW e \in Item, push_back(v, e),
           NEW s, s = SizeOf(mem.vec[v])
    PROVE  /\ s \in Nat /\ MemInv(mem')
           /\ Became(mem, mem', v, s + 1, [i \in 1..s + 1 |-> IF i <= s THEN mem.vec[v].slots[i] ELSE e])
<1>1. PICK d, c : d = mem' /\ c = _ensure_capacity_for_push_back(mem, v)
  OBVIOUS
<1>2. s < MaxLen /\ d = Pushed(c, v, e)
  BY <1>1 DEF push_back, Size, Rec
<1>3. Roomy(mem, c, v, s + 1)
  BY <1>1, RoomForOne
<1> QED
  BY <1>1, <1>2, <1>3, PushedBack

LEMMA PushBackOwnKeeps ==
    ASSUME MemInv(mem), mem.ok, NEW v \in Vec, NEW at, push_back_own(v, at),
           NEW s, s = SizeOf(mem.vec[v])
    PROVE  /\ s \in Nat /\ at \in 1..s /\ MemInv(mem')
           /\ Became(mem, mem', v, s + 1,
                     [i \in 1..s + 1 |-> IF i <= s THEN mem.vec[v].slots[i] ELSE mem.vec[v].slots[at]])
<1>1. PICK d, b, c, e : /\ d = mem' /\ b = _ensure_capacity_for_push_back(mem, v) /\ c = Referring(b)
                        /\ e = mem.vec[v].slots[at]
  OBVIOUS
<1>2. s < MaxLen /\ at \in 1..s /\ d = Pushed(c, v, e)
  BY <1>1 DEF push_back_own, Size, Rec
<1>3. Roomy(mem, b, v, s + 1)
  BY <1>1, RoomForOne
<1>4. Roomy(mem, c, v, s + 1)
  BY <1>1, <1>3, RoomReferred
<1>5. e \in Item
  BY <1>1, <1>2, OwnElement
<1> QED
  BY <1>1, <1>2, <1>4, <1>5, PushedBack

\* insert_at and insert_own.
LEMMA InsertKeeps ==
    ASSUME MemInv(mem), mem.ok, NEW v \in Vec, NEW at \in 0..MaxLen, NEW e \in Item, insert_at(v, at, e),
           NEW s, s = SizeOf(mem.vec[v])
    PROVE  /\ s \in Nat /\ at <= s /\ MemInv(mem')
           /\ Became(mem, mem', v, s + 1, [j \in 1..s + 1 |-> IF j <= at THEN mem.vec[v].slots[j]
                                                              ELSE IF j = at + 1 THEN e ELSE mem.vec[v].slots[j - 1]])
<1>1. PICK d, c : d = mem' /\ c = _ensure_capacity_for_push_back(mem, v)
  OBVIOUS
<1>2. s < MaxLen /\ at <= s /\ d = Opened(c, v, at, e)
  BY <1>1 DEF insert_at, Size, Rec
<1>3. Roomy(mem, c, v, s + 1)
  BY <1>1, RoomForOne
<1> QED
  BY <1>1, <1>2, <1>3, Inserted

LEMMA InsertOwnKeeps ==
    ASSUME MemInv(mem), mem.ok, NEW v \in Vec, NEW at \in 0..MaxLen, NEW k, insert_own(v, at, k),
           NEW s, s = SizeOf(mem.vec[v])
    PROVE  /\ s \in Nat /\ at <= s /\ k \in 1..s /\ MemInv(mem')
           /\ \E e \in Item :
                /\ k <= at => e = mem.vec[v].slots[k]
                /\ Became(mem, mem', v, s + 1, [j \in 1..s + 1 |-> IF j <= at THEN mem.vec[v].slots[j]
                                                                   ELSE IF j = at + 1 THEN e ELSE mem.vec[v].slots[j - 1]])
<1>1. PICK d, b, c : d = mem' /\ b = _ensure_capacity_for_push_back(mem, v) /\ c = Referring(b)
  OBVIOUS
<1>2. PICK e \in Item : /\ k # at + 1 => e = mem.vec[v].slots[IF k <= at THEN k ELSE k - 1]
                        /\ d = Opened(c, v, at, e)
  BY <1>1 DEF insert_own, Rec
<1>3. s < MaxLen /\ at <= s /\ k \in 1..s
  BY DEF insert_own, Size, Rec
<1>4. Roomy(mem, b, v, s + 1)
  BY <1>1, RoomForOne
<1>5. Roomy(mem, c, v, s + 1)
  BY <1>1, <1>4, RoomReferred
<1>6. /\ s \in Nat /\ MemInv(d)
      /\ Became(mem, d, v, s + 1, [j \in 1..s + 1 |-> IF j <= at THEN mem.vec[v].slots[j]
                                                      ELSE IF j = at + 1 THEN e ELSE mem.vec[v].slots[j - 1]])
  BY <1>2, <1>3, <1>5, Inserted
<1>7. k <= at => e = mem.vec[v].slots[k]
  <2>1. k \in Nat /\ at \in Nat
    BY <1>3, <1>6, VectorNumbers
  <2>2. k <= at => k # at + 1
    BY <2>1
  <2> QED
    BY <2>2, <1>2
<1> QED
  BY <1>1, <1>3, <1>6, <1>7

\* resize and resize_own.
LEMMA ResizeKeeps ==
    ASSUME MemInv(mem), mem.ok, NEW v \in Vec, NEW n \in 0..MaxLen, NEW e \in Item, resize(v, n, e),
           NEW s, s = SizeOf(mem.vec[v])
    PROVE  /\ s \in Nat /\ MemInv(mem')
           /\ Became(mem, mem', v, n, [j \in 1..n |-> IF j <= s THEN mem.vec[v].slots[j] ELSE e])
<1>1. PICK d, c : d = mem' /\ c = _ensure_capacity(v, n)
  OBVIOUS
<1>2. n # s /\ d = Resized(c, v, n, e)
  BY <1>1 DEF resize, Size, Rec
<1>3. Roomy(mem, c, v, n)
  BY <1>1, RoomToResize
<1> QED
  BY <1>1, <1>2, <1>3, ResizedTo

LEMMA ResizeOwnKeeps ==
    ASSUME MemInv(mem), mem.ok, NEW v \in Vec, NEW n \in 0..MaxLen, NEW at, resize_own(v, n, at),
           NEW s, s = SizeOf(mem.vec[v])
    PROVE  /\ s \in Nat /\ at \in 1..s /\ MemInv(mem')
           /\ Became(mem, mem', v, n, [j \in 1..n |-> IF j <= s THEN mem.vec[v].slots[j]
                                                      ELSE mem.vec[v].slots[at]])
<1>1. PICK d, b, c, e : d = mem' /\ b = _ensure_capacity(v, n) /\ c = Referring(b) /\ e = mem.vec[v].slots[at]
  OBVIOUS
<1>2. n > s /\ at \in 1..s /\ d = Resized(c, v, n, e)
  BY <1>1 DEF resize_own, Size, Rec
<1>3. s \in 0..MaxLen
  BY CallBegins
<1>4. n # s
  BY <1>2, <1>3, VectorNumbers
<1>5. Roomy(mem, b, v, n)
  BY <1>1, RoomToResize
<1>6. Roomy(mem, c, v, n)
  BY <1>1, <1>5, RoomReferred
<1>7. e \in Item
  BY <1>1, <1>2, OwnElement
<1> QED
  BY <1>1, <1>2, <1>4, <1>6, <1>7, ResizedTo

\* The elements of one vector are those of another.
Alike(r, q) == SizeOf(r) = SizeOf(q) /\ \A i \in 1..SizeOf(q) : r.slots[i] = q.slots[i]

\* Memory that is sound as long as it was used soundly.
Follows(m, d) ==
    /\ Sound(d) /\ (d.ok => m.ok) /\ (~d.spent => ~m.spent) /\ (m.ok /\ ~d.spent => d.ok)

\* The bytes of an inline vector once its m_size is zero.
LEMMA SpentFormed ==
    ASSUME NEW r, Formed(r), Small(r)
    PROVE  /\ Formed(Spent(r)) /\ Owned(Spent(r)) = {} /\ SizeOf(Spent(r)) = 0
           /\ r.slots[1] = Zero => Spent(r).m_data # Garbage
<1>1. PICK p, a : /\ p = (IF r.slots[1] = Zero THEN Null ELSE Garbage)
                  /\ a = (IF Overlap > ItemCap \/ r.slots[Overlap] = Zero THEN 0 ELSE MaxLen + 1)
  OBVIOUS
<1>2. PICK q : q = Spent(r)
  OBVIOUS
<1>3. q = [m_size |-> 0, m_capacity |-> a, m_data |-> p, slots |-> <<>>]
  BY <1>1, <1>2 DEF Spent, Wiped
<1>4. q.m_size = 0 /\ q.m_capacity = a /\ q.m_data = p /\ q.slots = <<>>
  BY <1>3
<1>5. a \in Nat /\ p \in {Null, Garbage}
  BY <1>1, VectorNumbers
<1>6. ~Small(q)
  BY <1>4, VectorNumbers DEF Small
<1>7. SizeOf(q) = 0 /\ CapacityOf(q) = a
  BY <1>4, <1>6 DEF SizeOf, CapacityOf
<1>8. p = Null => a = 0
  <2> HAVE p = Null
  <2>1. r.slots[1] = Zero
    BY <1>1, VectorNumbers
  <2>2. \A i \in 1..ItemCap : r.slots[i] = Zero
    BY <2>1 DEF Formed
  <2>3. Overlap <= ItemCap => Overlap \in 1..ItemCap
    BY VectorNumbers
  <2>4. Overlap > ItemCap \/ Overlap <= ItemCap
    BY VectorNumbers
  <2> QED
    BY <1>1, <2>2, <2>3, <2>4
<1>9. q \in VecRec
  <2>1. <<>> \in [1..0 -> SlotValue]
    OBVIOUS
  <2>2. <<>> \in UNION {[1..n -> SlotValue] : n \in Nat}
    BY <2>1
  <2> QED
    BY <1>3, <1>5, <2>2 DEF VecRec
<1>10. FilledTo(<<>>, 0, 0)
  BY DEF FilledTo
<1>11. Formed(q)
  <2>1. p # Garbage => p = Null /\ a = 0
    BY <1>5, <1>8
  <2>2. 0 \in Nat /\ 0 <= MaxLen /\ Null \notin HeapBlock /\ Garbage \notin HeapBlock
    BY VectorNumbers
  <2> QED
    BY <1>4, <1>5, <1>6, <1>7, <1>8, <1>9, <1>10, <2>1, <2>2 DEF Formed
<1>12. Owned(q) = {}
  BY <1>4, <1>5, VectorNumbers DEF Owned
<1> QED
  BY <1>1, <1>2, <1>4, <1>7, <1>11, <1>12, VectorNumbers

\* A vector ends and another begins.
Renews(m, d, v) == d = [_cleanup(m, v) EXCEPT !.vec[v] = Made]

\* What owned a block is empty and inline again.
LEMMA VectorRenewed ==
    ASSUME NEW m, Sound(m), NEW v \in Every, NEW d, Renews(m, d, v)
    PROVE  /\ Follows(m, d) /\ d.spent = m.spent /\ d.vec[v] = Made
           /\ \A w \in Every : w # v => d.vec[w] = m.vec[w]
<1>1. PICK c : c = _cleanup(m, v)
  OBVIOUS
<1>2. /\ Sound(c) /\ c.vec[v] = Wiped /\ \A w \in Every : w # v => c.vec[w] = m.vec[w]
      /\ c.spent = m.spent /\ (c.ok => m.ok) /\ (m.ok /\ ~m.spent => c.ok)
  BY <1>1, CleanedUp
<1>3. c \in MemRec /\ Formed(Made) /\ Owned(Made) = {} /\ Owned(Wiped) = {} /\ Made \in VecRec
  BY <1>2, FreshFormed DEF Sound, Formed
<1>4. d = [c EXCEPT !.vec[v] = Made]
  BY <1>1 DEF Renews
<1>5. /\ d.vec = [c.vec EXCEPT ![v] = Made] /\ d.heap = c.heap /\ d.ok = c.ok /\ d.spent = c.spent
      /\ d.zero = c.zero /\ d.leaked = c.leaked /\ d \in MemRec
  <2>1. c.vec \in [Every -> VecRec] /\ [c.vec EXCEPT ![v] = Made] \in [Every -> VecRec]
    BY <1>3 DEF MemRec
  <2>2. d = [c EXCEPT !.vec = [c.vec EXCEPT ![v] = Made]]
    BY <1>4
  <2> QED
    BY <1>3, <2>1, <2>2 DEF MemRec
<1>6. Made.m_data # Garbage
  BY FreshFormed, VectorNumbers
<1>7. Replaces(c, d, v, Made)
  <2>1. Owned(c.vec[v]) = {}
    BY <1>2, <1>3
  <2>2. d.heap = (c.heap \ Owned(c.vec[v])) \cup Owned(Made) /\ Owned(Made) \cap (c.heap \ Owned(c.vec[v])) = {}
    BY <1>3, <1>5, <2>1
  <2>3. ~d.spent => ~c.spent /\ Made.m_data # Garbage
    BY <1>5, <1>6
  <2> QED
    BY <1>3, <1>5, <2>2, <2>3, UnownedSized DEF Replaces
<1>8. Sound(d) /\ d.vec[v] = Made /\ \A w \in Every : w # v => d.vec[w] = c.vec[w]
  BY <1>2, <1>7, VectorReplaced
<1> QED
  BY <1>2, <1>5, <1>8 DEF Follows

\* _move_from gives v the elements of u and leaves u without any.
LEMMA MoveTakes ==
    ASSUME NEW m, Sound(m), NEW v \in Every, NEW u \in Every, u # v, NEW d, d = _move_from(m, v, u)
    PROVE  /\ Follows(m, d) /\ Alike(d.vec[v], m.vec[u]) /\ SizeOf(d.vec[u]) = 0
           /\ \A w \in Every : w # v /\ w # u => d.vec[w] = m.vec[w]
<1>1. PICK c, r : c = _cleanup(m, v) /\ r = c.vec[u]
  OBVIOUS
<1>2. /\ Sound(c) /\ c.vec[v] = Wiped /\ (\A w \in Every : w # v => c.vec[w] = m.vec[w])
      /\ c.spent = m.spent /\ (c.ok => m.ok) /\ (m.ok /\ ~m.spent => c.ok)
  BY <1>1, CleanedUp
<1>3. r = m.vec[u] /\ Formed(r) /\ Formed(Wiped) /\ Owned(Wiped) = {} /\ Wiped.m_data # Garbage
      /\ SizeOf(Wiped) = 0
  BY <1>1, <1>2, FreshFormed, VectorForm, VectorNumbers
<1>4. c \in MemRec /\ c.vec \in [Every -> VecRec] /\ c.spent \in BOOLEAN
  BY <1>2 DEF Sound, MemRec
<1>5. CASE Small(r)
  <2>1. PICK f, k : k = SizeOf(r) /\ f = [i \in 1..ItemCap |-> IF i <= k THEN r.slots[i] ELSE Zero]
    OBVIOUS
  <2>2. PICK R, Q : R = [Made EXCEPT !.m_size = r.m_size, !.slots = f] /\ Q = Spent(r)
    OBVIOUS
  <2>3. d = [c EXCEPT !.vec[v] = R, !.vec[u] = Q, !.spent = @ \/ r.slots[1] # Zero]
    BY <1>1, <1>5, <2>1, <2>2 DEF _move_from
  <2>4. Formed(Q) /\ Owned(Q) = {} /\ SizeOf(Q) = 0 /\ (r.slots[1] = Zero => Q.m_data # Garbage) /\ Owned(r) = {}
    BY <1>3, <1>5, <2>2, SpentFormed DEF Owned
  <2>5. /\ r \in VecRec /\ r.m_size \in Nat /\ k \in Nat /\ k <= MaxLen /\ k <= ItemCap
        /\ FilledTo(r.slots, ItemCap, k)
    <3>1. r.m_data # Garbage /\ CapacityOf(r) = ItemCap
      BY <1>3, <1>5, VectorNumbers DEF Formed, CapacityOf
    <3> QED
      BY <1>3, <2>1, <3>1 DEF Formed, VecRec
  <2>6. R = [m_size |-> r.m_size, m_capacity |-> 0, m_data |-> Null, slots |-> f]
    BY <2>2 DEF Made
  <2>7. R.m_size = r.m_size /\ R.m_capacity = 0 /\ R.m_data = Null /\ R.slots = f
    BY <2>6
  <2>8. Small(R) /\ SizeOf(R) = k /\ CapacityOf(R) = ItemCap
    <3>1. Small(R)
      BY <1>5, <2>7 DEF Small
    <3> QED
      BY <1>5, <2>1, <2>7, <3>1 DEF SizeOf, CapacityOf
  <2>9. ASSUME NEW i \in 1..ItemCap
        PROVE  /\ f[i] \in SlotValue /\ (f[i] \in Item <=> i <= k) /\ (i <= k => f[i] = r.slots[i])
               /\ ~(i <= k) => f[i] = Zero
    <3>1. r.slots[i] \in SlotValue /\ (r.slots[i] \in Item <=> i <= k)
      BY <2>5 DEF FilledTo
    <3>2. f[i] = IF i <= k THEN r.slots[i] ELSE Zero
      BY <2>1
    <3> QED
      BY <3>1, <3>2, VectorNumbers
  <2>10. f \in [1..ItemCap -> SlotValue]
    <3>1. DOMAIN f = 1..ItemCap /\ f = [j \in DOMAIN f |-> f[j]]
      BY <2>1
    <3> QED
      BY <3>1, <2>9
  <2>11. FilledTo(f, ItemCap, k)
    BY <2>9, <2>10 DEF FilledTo
  <2>12. f[1] = Zero => \A i \in 1..ItemCap : f[i] = Zero
    <3> HAVE f[1] = Zero
    <3>1. k = 0
      <4>1. 1 \in 1..ItemCap
        BY VectorNumbers
      <4>2. ~(1 <= k)
        BY <4>1, <2>9, VectorNumbers
      <4> QED
        BY <4>2, <2>5
    <3>2. \A i \in 1..ItemCap : ~(i <= k)
      BY <3>1
    <3> QED
      BY <3>2, <2>9
  <2>13. R \in VecRec
    <3>1. f \in UNION {[1..n -> SlotValue] : n \in Nat}
      BY <2>10, VectorNumbers
    <3> QED
      BY <3>1, <2>5, <2>6, VectorNumbers DEF VecRec
  <2>14. Formed(R) /\ Owned(R) = {}
    BY <2>5, <2>7, <2>8, <2>11, <2>12, <2>13, VectorNumbers DEF Formed, Owned
  <2>15. PICK s : s = (m.spent \/ r.slots[1] # Zero)
    OBVIOUS
  <2>16. PICK e : e = [c EXCEPT !.vec = [c.vec EXCEPT ![u] = Q], !.spent = s]
    OBVIOUS
  <2>17. /\ e.vec = [c.vec EXCEPT ![u] = Q] /\ e.heap = c.heap /\ e.ok = c.ok /\ e.spent = s
         /\ e.zero = c.zero /\ e.leaked = c.leaked
    BY <1>4, <2>16 DEF MemRec
  <2>18. Q \in VecRec /\ s \in BOOLEAN
    BY <2>4, <2>15, <1>2, <1>4 DEF Formed
  <2>19. e \in MemRec
    <3>1. [c.vec EXCEPT ![u] = Q] \in [Every -> VecRec]
      BY <1>4, <2>18
    <3> QED
      BY <3>1, <1>4, <2>16, <2>18 DEF MemRec
  <2>20. Replaces(c, e, u, Q)
    <3>1. Owned(c.vec[u]) = {}
      BY <1>1, <2>4
    <3>2. ~e.spent => ~c.spent /\ Q.m_data # Garbage
      BY <1>2, <2>4, <2>15, <2>17
    <3> QED
      BY <3>1, <3>2, <2>4, <2>17, <2>19, UnownedSized DEF Replaces
  <2>21. Sound(e) /\ e.vec[u] = Q /\ \A w \in Every : w # u => e.vec[w] = c.vec[w]
    BY <1>2, <2>20, VectorReplaced
  <2>22. /\ d.vec = [e.vec EXCEPT ![v] = R] /\ d.heap = e.heap /\ d.ok = e.ok /\ d.spent = e.spent
         /\ d.zero = e.zero /\ d.leaked = e.leaked /\ d \in MemRec
    <3>1. /\ d.vec = [[c.vec EXCEPT ![v] = R] EXCEPT ![u] = Q] /\ d.heap = c.heap /\ d.ok = c.ok
          /\ d.spent = (c.spent \/ r.slots[1] # Zero) /\ d.zero = c.zero /\ d.leaked = c.leaked
      BY <1>4, <2>3 DEF MemRec
    <3>2. [[c.vec EXCEPT ![v] = R] EXCEPT ![u] = Q] = [[c.vec EXCEPT ![u] = Q] EXCEPT ![v] = R]
      BY <1>4
    <3>3. d.vec = [e.vec EXCEPT ![v] = R] /\ d.heap = e.heap /\ d.ok = e.ok /\ d.spent = e.spent
      BY <3>1, <3>2, <1>2, <2>15, <2>17
    <3>4. [e.vec EXCEPT ![v] = R] \in [Every -> VecRec]
      BY <2>13, <2>19 DEF MemRec
    <3>5. d = [c EXCEPT !.vec = d.vec, !.spent = d.spent]
      BY <1>4, <2>3, <3>1 DEF MemRec
    <3>6. d.spent \in BOOLEAN
      BY <3>3, <2>17, <2>18
    <3> QED
      BY <3>1, <3>3, <3>4, <3>5, <3>6, <1>4, <2>17 DEF MemRec
  <2>23. Replaces(e, d, v, R)
    <3>1. Owned(e.vec[v]) = {}
      BY <1>2, <1>3, <2>21
    <3>2. R.m_data # Garbage
      BY <2>7, VectorNumbers
    <3> QED
      BY <3>1, <3>2, <2>14, <2>22, UnownedSized DEF Replaces
  <2>24. Sound(d) /\ d.vec[v] = R /\ \A w \in Every : w # v => d.vec[w] = e.vec[w]
    BY <2>21, <2>23, VectorReplaced
  <2>25. Follows(m, d)
    BY <1>2, <2>15, <2>17, <2>22, <2>24 DEF Follows
  <2>26. Alike(R, r)
    <3>1. \A i \in 1..k : i \in 1..ItemCap /\ i <= k
      BY <2>5, VectorNumbers
    <3> QED
      BY <3>1, <2>1, <2>7, <2>8, <2>9 DEF Alike
  <2> QED
    BY <1>2, <1>3, <2>4, <2>21, <2>24, <2>25, <2>26
<1>6. CASE ~Small(r)
  <2>1. d = [c EXCEPT !.vec[v] = r, !.vec[u] = Wiped]
    BY <1>1, <1>6 DEF _move_from
  <2>2. r \in VecRec /\ Wiped \in VecRec
    BY <1>3 DEF Formed
  <2>3. PICK e : e = [c EXCEPT !.vec = [c.vec EXCEPT ![u] = Wiped], !.heap = c.heap \ Owned(r)]
    OBVIOUS
  <2>4. /\ e.vec = [c.vec EXCEPT ![u] = Wiped] /\ e.heap = c.heap \ Owned(r) /\ e.ok = c.ok /\ e.spent = c.spent
        /\ e.zero = c.zero /\ e.leaked = c.leaked
    BY <1>4, <2>3 DEF MemRec
  <2>5. e \in MemRec
    <3>1. [c.vec EXCEPT ![u] = Wiped] \in [Every -> VecRec]
      BY <1>4, <2>2
    <3> QED
      BY <3>1, <1>4, <2>3 DEF MemRec
  <2>6. Replaces(c, e, u, Wiped)
    BY <1>1, <1>3, <2>4, <2>5, UnownedSized DEF Replaces
  <2>7. Sound(e) /\ e.vec[u] = Wiped /\ \A w \in Every : w # u => e.vec[w] = c.vec[w]
    BY <1>2, <2>6, VectorReplaced
  <2>8. Owned(r) \subseteq c.heap
    BY <1>1, <1>2, VectorForm
  <2>9. /\ d.vec = [e.vec EXCEPT ![v] = r] /\ d.heap = c.heap /\ d.ok = e.ok /\ d.spent = e.spent
        /\ d.zero = e.zero /\ d.leaked = e.leaked /\ d \in MemRec
    <3>1. /\ d.vec = [[c.vec EXCEPT ![v] = r] EXCEPT ![u] = Wiped] /\ d.heap = c.heap /\ d.ok = c.ok
          /\ d.spent = c.spent /\ d.zero = c.zero /\ d.leaked = c.leaked
      BY <1>4, <2>1 DEF MemRec
    <3>2. [[c.vec EXCEPT ![v] = r] EXCEPT ![u] = Wiped] = [[c.vec EXCEPT ![u] = Wiped] EXCEPT ![v] = r]
      BY <1>4
    <3>3. d.vec = [e.vec EXCEPT ![v] = r]
      BY <3>1, <3>2, <2>4
    <3>4. [e.vec EXCEPT ![v] = r] \in [Every -> VecRec]
      BY <2>2, <2>5 DEF MemRec
    <3>5. d = [c EXCEPT !.vec = d.vec]
      BY <1>4, <2>1, <3>1 DEF MemRec
    <3> QED
      BY <3>1, <3>3, <3>4, <3>5, <1>4, <2>4 DEF MemRec
  <2>10. ~d.spent => ~e.spent /\ r.m_data # Garbage
    <3>1. ~c.spent => r.m_data # Garbage
      BY <1>1, <1>2 DEF Sound
    <3> QED
      BY <3>1, <2>4, <2>9
  <2>11. Replaces(e, d, v, r)
    <3>1. Owned(e.vec[v]) = {}
      BY <1>2, <1>3, <2>7
    <3>2. d.heap = (e.heap \ Owned(e.vec[v])) \cup Owned(r) /\ Owned(r) \cap (e.heap \ Owned(e.vec[v])) = {}
      BY <3>1, <2>4, <2>8, <2>9
    <3>3. e.zero \/ Sized(r)
      BY <1>1, <1>2, <2>4 DEF Sound
    <3> QED
      BY <3>2, <3>3, <1>3, <2>9, <2>10 DEF Replaces
  <2>12. Sound(d) /\ d.vec[v] = r /\ \A w \in Every : w # v => d.vec[w] = e.vec[w]
    BY <2>7, <2>11, VectorReplaced
  <2>13. Follows(m, d)
    BY <1>2, <2>4, <2>9, <2>12 DEF Follows
  <2> QED
    BY <1>2, <1>3, <2>7, <2>12, <2>13 DEF Alike
<1> QED
  BY <1>5, <1>6

\* A call that goes from one sound memory to another.
LEMMA CallFollows ==
    ASSUME NEW m, MemInv(m), m.ok, NEW d, Follows(m, d), d.vec[Tmp] = Made
    PROVE  MemInv(d)
<1>1. MemTyped(d)
  BY SoundTyped DEF Follows
<1> QED
  BY <1>1 DEF MemInv, Follows

\* The vector that is moved to has the elements, the other none.
LEMMA Moved ==
    ASSUME MemInv(mem), mem.ok, NEW v \in Vec, NEW u \in Vec, move(v, u)
    PROVE  /\ u # v /\ MemInv(mem') /\ Alike(mem'.vec[v], mem.vec[u]) /\ SizeOf(mem'.vec[u]) = 0
           /\ \A w \in Vec : w # v /\ w # u => mem'.vec[w] = mem.vec[w]
<1>1. PICK m, d : m = mem /\ d = mem'
  OBVIOUS
<1>2. /\ Sound(m) /\ MemInv(m) /\ m.ok /\ m.vec[Tmp] = Made /\ v \in Every /\ u \in Every
      /\ v # Tmp /\ u # Tmp /\ Tmp \in Every /\ Vec \subseteq Every
  BY <1>1, CallBegins, VectorNumbers
<1>3. u # v /\ d = _move_from(m, v, u)
  BY <1>1 DEF move
<1>4. /\ Follows(m, d) /\ Alike(d.vec[v], m.vec[u]) /\ SizeOf(d.vec[u]) = 0
      /\ \A w \in Every : w # v /\ w # u => d.vec[w] = m.vec[w]
  BY <1>2, <1>3, MoveTakes
<1>5. d.vec[Tmp] = Made
  BY <1>2, <1>4
<1>6. MemInv(d)
  BY <1>2, <1>4, <1>5, CallFollows
<1> QED
  BY <1>1, <1>2, <1>3, <1>4, <1>6

\* The vector that begins has no elements.
LEMMA Renewed ==
    ASSUME MemInv(mem), mem.ok, NEW v \in Vec, renew(v)
    PROVE  /\ MemInv(mem') /\ SizeOf(mem'.vec[v]) = 0
           /\ \A w \in Vec : w # v => mem'.vec[w] = mem.vec[w]
<1>1. PICK m, d : m = mem /\ d = mem'
  OBVIOUS
<1>2. /\ Sound(m) /\ MemInv(m) /\ m.ok /\ m.vec[Tmp] = Made /\ v \in Every
      /\ v # Tmp /\ Tmp \in Every /\ Vec \subseteq Every
  BY <1>1, CallBegins, VectorNumbers
<1>3. Renews(m, d, v)
  BY <1>1 DEF renew, Renews
<1>4. /\ Follows(m, d) /\ d.vec[v] = Made /\ \A w \in Every : w # v => d.vec[w] = m.vec[w]
  BY <1>2, <1>3, VectorRenewed
<1>5. d.vec[Tmp] = Made
  BY <1>2, <1>4
<1>6. MemInv(d)
  BY <1>2, <1>4, <1>5, CallFollows
<1> QED
  BY <1>1, <1>2, <1>4, <1>6, FreshFormed

\* Three moves through the temporary, which is then destroyed.
LEMMA Swapped ==
    ASSUME MemInv(mem), mem.ok, NEW v \in Vec, NEW u \in Vec, swap(v, u)
    PROVE  /\ u # v /\ MemInv(mem') /\ Alike(mem'.vec[v], mem.vec[u]) /\ Alike(mem'.vec[u], mem.vec[v])
           /\ \A w \in Vec : w # v /\ w # u => mem'.vec[w] = mem.vec[w]
<1>1. PICK m, d : m = mem /\ d = mem'
  OBVIOUS
<1>2. /\ Sound(m) /\ MemInv(m) /\ m.ok /\ v \in Every /\ u \in Every
      /\ v # Tmp /\ u # Tmp /\ Tmp \in Every /\ Vec \subseteq Every
  BY <1>1, CallBegins, VectorNumbers
<1>3. PICK a : a = _move_from(m, Tmp, v)
  OBVIOUS
<1>4. PICK b : b = _move_from(a, v, u)
  OBVIOUS
<1>5. PICK c : c = _move_from(b, u, Tmp)
  OBVIOUS
<1>6. u # v
  BY DEF swap
<1>7. Renews(c, d, Tmp)
  BY <1>1, <1>3, <1>4, <1>5 DEF swap, Renews
<1>8. /\ Follows(m, a) /\ Alike(a.vec[Tmp], m.vec[v])
      /\ \A w \in Every : w # Tmp /\ w # v => a.vec[w] = m.vec[w]
  BY <1>2, <1>3, MoveTakes
<1>9. Sound(a)
  BY <1>8 DEF Follows
<1>10. /\ Follows(a, b) /\ Alike(b.vec[v], a.vec[u])
       /\ \A w \in Every : w # v /\ w # u => b.vec[w] = a.vec[w]
  BY <1>2, <1>4, <1>6, <1>9, MoveTakes
<1>11. Sound(b)
  BY <1>10 DEF Follows
<1>12. /\ Follows(b, c) /\ Alike(c.vec[u], b.vec[Tmp])
       /\ \A w \in Every : w # u /\ w # Tmp => c.vec[w] = b.vec[w]
  BY <1>2, <1>5, <1>11, MoveTakes
<1>13. Sound(c)
  BY <1>12 DEF Follows
<1>14. /\ Follows(c, d) /\ d.vec[Tmp] = Made /\ \A w \in Every : w # Tmp => d.vec[w] = c.vec[w]
  BY <1>2, <1>7, <1>13, VectorRenewed
<1>15. Follows(m, d)
  BY <1>8, <1>10, <1>12, <1>14 DEF Follows
<1>16. Alike(d.vec[v], m.vec[u])
  <2>1. d.vec[v] = b.vec[v] /\ a.vec[u] = m.vec[u]
    BY <1>2, <1>6, <1>8, <1>12, <1>14
  <2> QED
    BY <2>1, <1>10
<1>17. Alike(d.vec[u], m.vec[v])
  <2>1. d.vec[u] = c.vec[u] /\ b.vec[Tmp] = a.vec[Tmp]
    BY <1>2, <1>10, <1>14
  <2> QED
    BY <2>1, <1>8, <1>12 DEF Alike
<1>18. \A w \in Vec : w # v /\ w # u => d.vec[w] = m.vec[w]
  <2> TAKE w \in Vec
  <2> HAVE w # v /\ w # u
  <2>1. w \in Every /\ w # Tmp
    BY VectorNumbers
  <2> QED
    BY <2>1, <1>8, <1>10, <1>12, <1>14
<1>19. MemInv(d)
  BY <1>2, <1>14, <1>15, CallFollows
<1> QED
  BY <1>1, <1>6, <1>16, <1>17, <1>18, <1>19

\* The copy has the elements of the other, which keeps them.
LEMMA Copied ==
    ASSUME MemInv(mem), mem.ok, NEW v \in Vec, NEW u \in Vec, copy(v, u)
    PROVE  /\ u # v /\ SizeOf(mem.vec[u]) \in Nat /\ MemInv(mem')
           /\ Became(mem, mem', v, SizeOf(mem.vec[u]), mem.vec[u].slots)
<1>1. PICK m, d, n, g : m = mem /\ d = mem' /\ n = SizeOf(m.vec[u]) /\ g = m.vec[u].slots
  OBVIOUS
<1>2. /\ Sound(m) /\ MemInv(m) /\ m.ok /\ m.vec[Tmp] = Made /\ v \in Every /\ u \in Every
      /\ v # Tmp /\ Tmp \in Every /\ n \in 0..MaxLen /\ n \in Nat
  BY <1>1, CallBegins, VectorNumbers
<1>3. PICK c : c = _cleanup(m, v)
  OBVIOUS
<1>4. PICK b : b = _set_capacity(c, v, n)
  OBVIOUS
<1>5. PICK f : f = [i \in 1..n |-> g[i]]
  OBVIOUS
<1>6. u # v /\ d = Write(b, v, n, f)
  BY <1>1, <1>3, <1>4, <1>5 DEF copy, _copy_from
<1>7. /\ Sound(c) /\ c.vec[v] = Wiped /\ (\A w \in Every : w # v => c.vec[w] = m.vec[w])
      /\ c.spent = m.spent /\ (c.ok => m.ok) /\ (m.ok /\ ~m.spent => c.ok)
  <2>1. Sound(m) /\ v \in Every
    BY <1>2
  <2> QED
    BY <2>1, <1>3, CleanedUp
<1>8. Owned(c.vec[Tmp]) = {} /\ SizeOf(c.vec[v]) = 0 /\ ~Small(c.vec[v]) /\ n >= SizeOf(c.vec[v])
      /\ m.spent \in BOOLEAN /\ c.spent \in BOOLEAN
  BY <1>2, <1>7, FreshFormed, VectorForm
<1>9. /\ Prepared(c, b, v) /\ b.vec[v].m_data # Garbage
      /\ ~Small(b.vec[v]) /\ CapacityOf(b.vec[v]) = n
  BY <1>2, <1>4, <1>7, <1>8, CapacitySet
<1>10. f \in [1..n -> SlotValue] /\ \A i \in 1..n : f[i] \in Item
  <2>1. ASSUME NEW i \in 1..n PROVE g[i] \in SlotValue /\ g[i] \in Item
    <3>1. m.vec[u].m_data # Garbage
      <4>1. m.vec[u].m_data = Garbage => n = 0
        BY <1>1, <1>2, AstrayIsEmpty
      <4> QED
        BY <4>1
    <3>2. PICK k : k = CapacityOf(m.vec[u])
      OBVIOUS
    <3>3. k \in Nat /\ n <= k /\ \A j \in 1..k : g[j] \in SlotValue /\ (g[j] \in Item <=> j <= n)
      BY <1>1, <1>2, <3>1, <3>2, SlotsOf
    <3>4. i \in 1..k /\ i <= n
      BY <3>3, <1>2
    <3> QED
      BY <3>3, <3>4
  <2> QED
    BY <2>1, <1>5
<1>11. FitsIn(b.vec[v], n, f)
  <2>1. FilledTo(f, n, n)
    <3>1. \A i \in 1..n : i <= n
      BY <1>2
    <3> QED
      BY <3>1, <1>10 DEF FilledTo
  <2> QED
    BY <2>1, <1>2, <1>9 DEF FitsIn
<1>12. /\ Sound(b) /\ (\A w \in Every : w # v => b.vec[w] = c.vec[w])
       /\ b.spent = c.spent /\ (b.ok => c.ok) /\ (c.ok /\ ~c.spent => b.ok \/ b.aliased)
  BY <1>9 DEF Prepared
<1>13. /\ MemTyped(d) /\ d.spent = b.spent /\ (d.ok => b.ok) /\ (b.ok /\ ~b.spent => d.ok)
       /\ d.aliased = b.aliased
       /\ d.ok => /\ Sound(d) /\ SizeOf(d.vec[v]) = n /\ d.vec[v].slots = f
                  /\ \A w \in Every : w # v => d.vec[w] = b.vec[w]
  BY <1>2, <1>6, <1>11, <1>12, SlotsWritten
<1>14. d.ok => d.vec[Tmp] = Made
  BY <1>2, <1>7, <1>12, <1>13
<1>15. ~d.spent /\ ~d.aliased => d.ok
  BY <1>2, <1>7, <1>12, <1>13
<1>16. Became(m, d, v, n, g)
  <2>1. \A i \in 1..n : f[i] = g[i]
    BY <1>5
  <2>2. d.ok => \A w \in Every : w # v => d.vec[w] = m.vec[w]
    BY <1>7, <1>12, <1>13
  <2> QED
    BY <2>1, <2>2, <1>13 DEF Became
<1>17. MemInv(d)
  BY <1>13, <1>14, <1>15 DEF MemInv
<1> QED
  BY <1>1, <1>2, <1>6, <1>16, <1>17

\* Every call keeps the invariant.
LEMMA AddingKeeps ==
    ASSUME MemInv(mem), mem.ok, NEW v \in Vec, Adding(v)
    PROVE  MemInv(mem')
<1>1. PICK s : s = SizeOf(mem.vec[v])
  OBVIOUS
<1>2. ASSUME NEW e \in Item, push_back(v, e) PROVE MemInv(mem')
  BY <1>1, <1>2, PushBackKeeps
<1>3. ASSUME NEW i, push_back_own(v, i) PROVE MemInv(mem')
  BY <1>1, <1>3, PushBackOwnKeeps
<1>4. ASSUME NEW i \in 0..MaxLen, NEW e \in Item, insert_at(v, i, e) PROVE MemInv(mem')
  BY <1>1, <1>4, InsertKeeps
<1>5. ASSUME NEW i \in 0..MaxLen, NEW k, insert_own(v, i, k) PROVE MemInv(mem')
  BY <1>1, <1>5, InsertOwnKeeps
<1> QED
  BY <1>2, <1>3, <1>4, <1>5 DEF Adding

LEMMA ShrinkingKeeps ==
    ASSUME MemInv(mem), mem.ok, NEW v \in Vec, Shrinking(v)
    PROVE  MemInv(mem')
<1>1. PICK s : s = SizeOf(mem.vec[v])
  OBVIOUS
<1>2. CASE pop_back(v)
  BY <1>1, <1>2, PoppedBack
<1>3. ASSUME NEW i \in 0..MaxLen, NEW n \in 1..MaxLen, erase_at(v, i, n) PROVE MemInv(mem')
  BY <1>1, <1>3, Erased
<1>4. ASSUME NEW i \in 0..MaxLen, erase_none(v, i) PROVE MemInv(mem')
  BY <1>1, <1>4, ErasedNone
<1>5. CASE clear(v)
  BY <1>5, Cleared
<1>6. CASE renew(v)
  BY <1>6, Renewed
<1> QED
  BY <1>2, <1>3, <1>4, <1>5, <1>6 DEF Shrinking

LEMMA SizingKeeps ==
    ASSUME MemInv(mem), mem.ok, NEW v \in Vec, Sizing(v)
    PROVE  MemInv(mem')
<1>1. PICK s : s = SizeOf(mem.vec[v])
  OBVIOUS
<1>2. ASSUME NEW n \in 0..MaxLen, reserve(v, n) PROVE MemInv(mem')
  BY <1>1, <1>2, ReservedFor
<1>3. ASSUME NEW n \in 0..MaxLen, NEW e \in Item, resize(v, n, e) PROVE MemInv(mem')
  BY <1>1, <1>3, ResizeKeeps
<1>4. ASSUME NEW n \in 1..MaxLen, NEW i, resize_own(v, n, i) PROVE MemInv(mem')
  <2>1. n \in 0..MaxLen
    BY VectorNumbers
  <2> QED
    BY <2>1, <1>1, <1>4, ResizeOwnKeeps
<1> QED
  BY <1>2, <1>3, <1>4 DEF Sizing

LEMMA PassingKeeps ==
    ASSUME MemInv(mem), mem.ok, NEW v \in Vec, NEW u \in Vec, Passing(v, u)
    PROVE  MemInv(mem')
<1>1. CASE move(v, u)
  BY <1>1, Moved
<1>2. CASE copy(v, u)
  BY <1>2, Copied
<1>3. CASE swap(v, u)
  BY <1>3, Swapped
<1> QED
  BY <1>1, <1>2, <1>3 DEF Passing

LEMMA VectorStep ==
    ASSUME MemInv(mem), [VecNext]_vecVars
    PROVE  MemInv(mem')
<1>1. CASE UNCHANGED vecVars
  BY <1>1 DEF vecVars
<1>2. CASE VecNext
  <2>1. mem.ok
    BY <1>2 DEF VecNext
  <2>2. PICK v \in Vec : Adding(v) \/ Shrinking(v) \/ Sizing(v) \/ \E u \in Vec : Passing(v, u)
    BY <1>2 DEF VecNext
  <2> QED
    BY <2>1, <2>2, AddingKeeps, ShrinkingKeeps, SizingKeeps, PassingKeeps
<1> QED
  BY <1>1, <1>2

\* Fresh vectors.
LEMMA VectorsBegin ==
    ASSUME VecInit
    PROVE  MemInv(mem)
<1>1. PICK m : m = mem
  OBVIOUS
<1>2. PICK z \in BOOLEAN :
          m = [vec |-> [v \in Every |-> Made], heap |-> {}, zero |-> z, ok |-> TRUE,
               spent |-> FALSE, aliased |-> FALSE, leaked |-> FALSE]
  BY <1>1 DEF VecInit, Every
<1>3. /\ m.vec = [v \in Every |-> Made] /\ m.heap = {} /\ m.ok = TRUE /\ m.spent = FALSE
      /\ m.leaked = FALSE
  BY <1>2
<1>4. Formed(Made) /\ Owned(Made) = {} /\ Made \in VecRec /\ Made.m_data # Garbage /\ Tmp \in Every
  BY FreshFormed, VectorNumbers DEF Formed
<1>5. \A w \in Every : m.vec[w] = Made
  BY <1>3
<1>6. m \in MemRec
  BY <1>2, <1>4 DEF MemRec
<1>7. \A w \in Every : Owned(m.vec[w]) = {}
  BY <1>4, <1>5
<1>8. Sound(m)
  BY <1>3, <1>4, <1>5, <1>6, <1>7, UnownedSized DEF Sound
<1>9. MemTyped(m)
  BY <1>8, SoundTyped
<1> QED
  BY <1>1, <1>3, <1>4, <1>5, <1>8, <1>9 DEF MemInv

\* What the invariant says of the vectors.
LEMMA VectorsInvariant ==
    ASSUME MemInv(mem)
    PROVE  SlimVecInv
<1>1. Every = Vec \cup {Tmp} /\ \A w \in Every : Rec(w) = mem.vec[w]
  BY DEF Every, Rec
<1>2. VecTypeOK
  BY <1>1 DEF MemInv, MemTyped, VecTypeOK
<1>3. ASSUME mem.ok PROVE VecsSound
  <2>1. Sound(mem)
    BY <1>3 DEF MemInv
  <2>2. \A w \in Every : (w \in OnHeap => Owned(mem.vec[w]) = {Rec(w).m_data})
                         /\ (w \notin OnHeap => Owned(mem.vec[w]) = {})
    BY <1>1 DEF OnHeap, Owned
  <2>3. OnHeap \subseteq Every
    BY <1>1 DEF OnHeap
  <2>4. {Rec(w).m_data : w \in OnHeap} = mem.heap
    <3>1. ASSUME NEW w \in OnHeap PROVE Rec(w).m_data \in mem.heap
      <4>1. Owned(mem.vec[w]) \subseteq mem.heap
        BY <2>1, <2>3 DEF Sound
      <4> QED
        BY <4>1, <2>2, <2>3
    <3>2. ASSUME NEW b \in mem.heap PROVE \E w \in OnHeap : b = Rec(w).m_data
      <4>1. PICK w \in Every : b \in Owned(mem.vec[w])
        BY <2>1 DEF Sound
      <4> QED
        BY <4>1, <2>2
    <3> QED
      BY <3>1, <3>2
  <2>5. ASSUME NEW w \in OnHeap, NEW x \in OnHeap, Rec(w).m_data = Rec(x).m_data PROVE w = x
    <3>1. w # x => Owned(mem.vec[w]) \cap Owned(mem.vec[x]) = {}
      BY <2>1, <2>3 DEF Sound
    <3> QED
      BY <3>1, <2>2, <2>3, <2>5
  <2>6. ASSUME NEW w \in Vec
        PROVE  /\ SizeOf(Rec(w)) <= CapacityOf(Rec(w))
               /\ \A i \in DOMAIN Rec(w).slots : Rec(w).slots[i] \in Item <=> i <= SizeOf(Rec(w))
    <3>1. PICK r : r = mem.vec[w]
      OBVIOUS
    <3>2. w \in Every /\ Rec(w) = r /\ Formed(r) /\ CapacityOf(r) \in Nat
      BY <1>1, <2>1, <3>1, VectorForm
    <3>3. CASE r.m_data # Garbage
      <4>1. SizeOf(r) <= CapacityOf(r) /\ FilledTo(r.slots, CapacityOf(r), SizeOf(r))
        BY <3>2, <3>3 DEF Formed
      <4> QED
        BY <4>1, <3>2 DEF FilledTo
    <3>4. CASE r.m_data = Garbage
      <4>1. SizeOf(r) = 0 /\ r.slots = <<>>
        BY <2>1, <3>1, <3>2, <3>4, AstrayIsEmpty
      <4> QED
        BY <4>1, <3>2
    <3> QED
      BY <3>3, <3>4
  <2> QED
    BY <2>4, <2>5, <2>6 DEF VecsSound
<1>4. mem.leaked => mem.zero
  BY DEF MemInv, MemTyped
<1> QED
  BY <1>2, <1>3, <1>4 DEF SlimVecInv, MemInv

\* Blocks are neither leaked, shared nor freed twice, and nothing else is freed,
\* read or written, until an element is moved out of an inline vector or an
\* argument is an element whose storage the call replaces, and except for the
\* block of no bytes that malloc(0) may return (_cleanup, _move_from,
\* _set_capacity), for any capacities and sizes.
THEOREM VectorsSound == VecSpec => []SlimVecInv
<1> DEFINE I == MemInv(mem)
<1>1. VecInit => I
  BY VectorsBegin
<1>2. I /\ [VecNext]_vecVars => I'
  BY VectorStep
<1>3. I => SlimVecInv
  BY VectorsInvariant
<1> HIDE DEF I
<1> QED
  BY <1>1, <1>2, <1>3, PTL DEF VecSpec

\* What the calls of a sequence return, place by place.
LEMMA AppendedAs ==
    ASSUME NEW S, NEW q \in Seq(S), NEW e \in S
    PROVE  Append(q, e) = [i \in 1..Len(q) + 1 |-> IF i <= Len(q) THEN q[i] ELSE e]
<1>1. PICK n : n = Len(q)
  OBVIOUS
<1>2. n \in Nat /\ \A i \in 1..n : q[i] \in S
  BY <1>1, LenProperties, ElementOfSeq
<1>3. PICK t : t = [i \in 1..n + 1 |-> IF i <= n THEN q[i] ELSE e]
  OBVIOUS
<1>4. \A i \in 1..n + 1 : t[i] \in S
  <2> TAKE i \in 1..n + 1
  <2>1. i <= n => i \in 1..n
    BY <1>2
  <2> QED
    BY <2>1, <1>2, <1>3
<1>5. t \in [1..n + 1 -> S]
  BY <1>3, <1>4
<1>6. t \in Seq(S) /\ Len(t) = n + 1
  BY <1>2, <1>5
<1>7. PICK p : p = Append(q, e)
  OBVIOUS
<1>8. p \in Seq(S) /\ Len(p) = n + 1 /\ (\A i \in 1..n : p[i] = q[i]) /\ p[n + 1] = e
  BY <1>1, <1>7, AppendProperties
<1>9. ASSUME NEW i \in 1..n + 1 PROVE p[i] = t[i]
  <2>1. CASE i <= n
    <3>1. i \in 1..n
      BY <2>1, <1>2
    <3> QED
      BY <3>1, <2>1, <1>3, <1>8
  <2>2. CASE ~(i <= n)
    <3>1. i = n + 1
      BY <2>2, <1>2
    <3> QED
      BY <3>1, <2>2, <1>3, <1>8
  <2> QED
    BY <2>1, <2>2
<1>10. p = t
  BY <1>6, <1>8, <1>9, SeqEqual
<1> QED
  BY <1>1, <1>3, <1>7, <1>10

\* Front leaves the last place out.
LEMMA FrontAs ==
    ASSUME NEW S, NEW q \in Seq(S), Len(q) >= 1
    PROVE  AsVectors!Front(q) = [i \in 1..Len(q) - 1 |-> q[i]]
<1>1. PICK n : n = Len(q)
  OBVIOUS
<1>2. n \in Nat /\ n >= 1 /\ n - 1 \in Nat /\ \A i \in 1..n : q[i] \in S
  BY <1>1, LenProperties, ElementOfSeq
<1>3. PICK t : t = [i \in 1..n - 1 |-> q[i]]
  OBVIOUS
<1>4. \A i \in 1..n - 1 : i \in 1..n
  BY <1>2
<1>5. t \in [1..n - 1 -> S]
  BY <1>2, <1>3, <1>4
<1>6. t \in Seq(S) /\ Len(t) = n - 1
  BY <1>2, <1>5
<1>7. PICK p : p = SubSeq(q, 1, n - 1)
  OBVIOUS
<1>8. p \in Seq(S) /\ Len(p) = n - 1 /\ \A i \in 1..n - 1 : p[i] = q[i]
  <2>1. 1 \in Int /\ n - 1 \in Int /\ \A i \in 1..n - 1 : q[i] \in S
    BY <1>2, <1>4
  <2>2. /\ p \in Seq(S) /\ Len(p) = (IF 1 <= n - 1 THEN n - 1 - 1 + 1 ELSE 0)
        /\ \A i \in 1..n - 1 - 1 + 1 : p[i] = q[1 + i - 1]
    BY <2>1, <1>7, SubSeqProperties
  <2>3. Len(p) = n - 1
    BY <2>2, <1>2
  <2>4. ASSUME NEW i \in 1..n - 1 PROVE p[i] = q[i]
    <3>1. i \in 1..n - 1 - 1 + 1 /\ 1 + i - 1 = i
      BY <1>2
    <3> QED
      BY <3>1, <2>2
  <2> QED
    BY <2>2, <2>3, <2>4
<1>9. \A i \in 1..n - 1 : p[i] = t[i]
  BY <1>3, <1>8
<1>10. p = t
  BY <1>6, <1>8, <1>9, SeqEqual
<1> QED
  BY <1>1, <1>3, <1>7, <1>10 DEF AsVectors!Front

\* InsertAt moves what is behind the new element by one.
LEMMA InsertedAs ==
    ASSUME NEW S, NEW q \in Seq(S), NEW e \in S, NEW at \in 0..Len(q)
    PROVE  AsVectors!InsertAt(q, at + 1, e)
             = [i \in 1..Len(q) + 1 |-> IF i <= at THEN q[i] ELSE IF i = at + 1 THEN e ELSE q[i - 1]]
<1>1. PICK n : n = Len(q)
  OBVIOUS
<1>2. n \in Nat /\ at \in Nat /\ at <= n /\ \A i \in 1..n : q[i] \in S
  BY <1>1, LenProperties, ElementOfSeq
<1>3. PICK t : t = [i \in 1..n + 1 |-> IF i <= at THEN q[i] ELSE IF i = at + 1 THEN e ELSE q[i - 1]]
  OBVIOUS
<1>4. \A i \in 1..n + 1 : t[i] \in S
  <2> TAKE i \in 1..n + 1
  <2>1. CASE i <= at
    <3>1. i \in 1..n
      BY <2>1, <1>2
    <3> QED
      BY <3>1, <2>1, <1>2, <1>3
  <2>2. CASE i = at + 1
    <3>1. ~(i <= at)
      BY <2>2, <1>2
    <3> QED
      BY <3>1, <2>2, <1>3
  <2>3. CASE i > at + 1
    <3>1. ~(i <= at) /\ i # at + 1 /\ i - 1 \in 1..n
      BY <2>3, <1>2
    <3> QED
      BY <3>1, <1>2, <1>3
  <2> QED
    BY <2>1, <2>2, <2>3, <1>2
<1>5. t \in [1..n + 1 -> S]
  BY <1>3, <1>4
<1>6. t \in Seq(S) /\ Len(t) = n + 1
  BY <1>2, <1>5
<1>7. PICK a, b : a = SubSeq(q, 1, at) /\ b = SubSeq(q, at + 1, n)
  OBVIOUS
<1>8. a \in Seq(S) /\ Len(a) = at /\ \A i \in 1..at : a[i] = q[i]
  <2>1. 1 \in Int /\ at \in Int /\ \A i \in 1..at : i \in 1..n
    BY <1>2
  <2>2. \A i \in 1..at : q[i] \in S
    BY <2>1, <1>2
  <2>3. /\ a \in Seq(S) /\ Len(a) = (IF 1 <= at THEN at - 1 + 1 ELSE 0)
        /\ \A i \in 1..at - 1 + 1 : a[i] = q[1 + i - 1]
    BY <2>1, <2>2, <1>7, SubSeqProperties
  <2>4. Len(a) = at
    BY <2>3, <1>2
  <2>5. ASSUME NEW i \in 1..at PROVE a[i] = q[i]
    <3>1. i \in 1..at - 1 + 1 /\ 1 + i - 1 = i
      BY <1>2
    <3> QED
      BY <3>1, <2>3
  <2> QED
    BY <2>3, <2>4, <2>5
<1>9. b \in Seq(S) /\ Len(b) = n - at /\ \A i \in 1..n - at : b[i] = q[at + i]
  <2>1. at + 1 \in Int /\ n \in Int /\ \A i \in at + 1..n : i \in 1..n
    BY <1>2
  <2>2. \A i \in at + 1..n : q[i] \in S
    BY <2>1, <1>2
  <2>3. /\ b \in Seq(S) /\ Len(b) = (IF at + 1 <= n THEN n - (at + 1) + 1 ELSE 0)
        /\ \A i \in 1..n - (at + 1) + 1 : b[i] = q[at + 1 + i - 1]
    <3>1. PICK lo : lo = at + 1
      OBVIOUS
    <3>2. lo \in Int /\ n \in Int /\ b = SubSeq(q, lo, n) /\ \A i \in lo..n : q[i] \in S
      BY <2>1, <2>2, <3>1, <1>7
    <3>3. /\ b \in Seq(S) /\ Len(b) = (IF lo <= n THEN n - lo + 1 ELSE 0)
          /\ \A i \in 1..n - lo + 1 : b[i] = q[lo + i - 1]
      BY <3>2, SubSeqProperties
    <3> QED
      BY <3>1, <3>3
  <2>4. Len(b) = n - at
    BY <2>3, <1>2
  <2>5. ASSUME NEW i \in 1..n - at PROVE b[i] = q[at + i]
    <3>1. i \in 1..n - (at + 1) + 1 /\ at + 1 + i - 1 = at + i
      BY <1>2
    <3> QED
      BY <3>1, <2>3
  <2> QED
    BY <2>3, <2>4, <2>5
<1>10. PICK o : o = <<e>>
  OBVIOUS
<1>11. o \in Seq(S) /\ Len(o) = 1 /\ o[1] = e
  BY <1>10
<1>12. PICK c : c = a \o o
  OBVIOUS
<1>13. /\ c \in Seq(S) /\ Len(c) = at + 1
       /\ \A i \in 1..at + 1 : c[i] = IF i <= at THEN a[i] ELSE o[i - at]
  <2>1. a \in Seq(S) /\ o \in Seq(S) /\ Len(a) = at /\ Len(o) = 1
    BY <1>8, <1>11
  <2>2. /\ a \o o \in Seq(S) /\ Len(a \o o) = Len(a) + Len(o)
        /\ \A i \in 1..Len(a) + Len(o) : (a \o o)[i] = IF i <= Len(a) THEN a[i] ELSE o[i - Len(a)]
    BY <2>1, ConcatProperties
  <2>3. c = a \o o
    BY <1>12
  <2> QED
    BY <2>1, <2>2, <2>3
<1>14. PICK p : p = c \o b
  OBVIOUS
<1>15. /\ p \in Seq(S) /\ Len(p) = at + 1 + (n - at)
       /\ \A i \in 1..at + 1 + (n - at) : p[i] = IF i <= at + 1 THEN c[i] ELSE b[i - (at + 1)]
  <2>1. c \in Seq(S) /\ b \in Seq(S) /\ Len(c) = at + 1 /\ Len(b) = n - at
    BY <1>13, <1>9
  <2>2. /\ c \o b \in Seq(S) /\ Len(c \o b) = Len(c) + Len(b)
        /\ \A i \in 1..Len(c) + Len(b) : (c \o b)[i] = IF i <= Len(c) THEN c[i] ELSE b[i - Len(c)]
    BY <2>1, ConcatProperties
  <2>3. p = c \o b
    BY <1>14
  <2> QED
    BY <2>1, <2>2, <2>3
<1>16. Len(p) = n + 1
  BY <1>15, <1>2
<1>17. ASSUME NEW i \in 1..n + 1 PROVE p[i] = t[i]
  <2>1. i \in 1..at + 1 + (n - at)
    BY <1>2
  <2>2. p[i] = IF i <= at + 1 THEN c[i] ELSE b[i - (at + 1)]
    BY <2>1, <1>15
  <2>3. CASE i <= at
    <3>1. i <= at + 1 /\ i \in 1..at + 1 /\ i \in 1..at
      BY <2>3, <1>2
    <3>2. p[i] = c[i] /\ c[i] = a[i] /\ a[i] = q[i]
      BY <3>1, <2>2, <2>3, <1>8, <1>13
    <3> QED
      BY <3>2, <2>3, <1>3
  <2>4. CASE i = at + 1
    <3>1. ~(i <= at) /\ i <= at + 1 /\ i \in 1..at + 1 /\ i - at = 1
      BY <2>4, <1>2
    <3>2. p[i] = c[i] /\ c[i] = o[1]
      BY <3>1, <2>2, <1>13
    <3> QED
      BY <3>1, <3>2, <2>4, <1>3, <1>11
  <2>5. CASE i > at + 1
    <3>1. ~(i <= at) /\ i # at + 1 /\ ~(i <= at + 1)
          /\ i - (at + 1) \in 1..n - at /\ at + (i - (at + 1)) = i - 1
      BY <2>5, <1>2
    <3>2. p[i] = b[i - (at + 1)] /\ b[i - (at + 1)] = q[i - 1]
      BY <3>1, <2>2, <1>9
    <3> QED
      BY <3>1, <3>2, <1>3
  <2> QED
    BY <2>3, <2>4, <2>5, <1>2
<1>18. p = t
  BY <1>6, <1>15, <1>16, <1>17, SeqEqual
<1>19. p = SubSeq(q, 1, at) \o <<e>> \o SubSeq(q, at + 1, Len(q))
  BY <1>1, <1>7, <1>10, <1>12, <1>14
<1>20. AsVectors!InsertAt(q, at + 1, e) = SubSeq(q, 1, (at + 1) - 1) \o <<e>> \o SubSeq(q, at + 1, Len(q))
  BY DEF AsVectors!InsertAt
<1>21. (at + 1) - 1 = at
  BY <1>2
<1>22. AsVectors!InsertAt(q, at + 1, e) = p
  BY <1>19, <1>20, <1>21
<1> QED
  BY <1>1, <1>3, <1>18, <1>22

\* Cut leaves n places out.
LEMMA CutAs ==
    ASSUME NEW S, NEW q \in Seq(S), NEW at \in Nat, NEW n \in Nat, at + n <= Len(q)
    PROVE  AsVectors!Cut(q, at, n) = [i \in 1..Len(q) - n |-> IF i <= at THEN q[i] ELSE q[i + n]]
<1>1. PICK k : k = Len(q)
  OBVIOUS
<1>2. k \in Nat /\ at + n <= k /\ k - n \in Nat /\ \A i \in 1..k : q[i] \in S
  BY <1>1, LenProperties, ElementOfSeq
<1>3. PICK t : t = [i \in 1..k - n |-> IF i <= at THEN q[i] ELSE q[i + n]]
  OBVIOUS
<1>4. \A i \in 1..k - n : t[i] \in S
  <2> TAKE i \in 1..k - n
  <2>1. i \in 1..k /\ i + n \in 1..k
    BY <1>2
  <2> QED
    BY <2>1, <1>2, <1>3
<1>5. t \in [1..k - n -> S]
  BY <1>3, <1>4
<1>6. t \in Seq(S) /\ Len(t) = k - n
  BY <1>2, <1>5
<1>7. PICK a, b : a = SubSeq(q, 1, at) /\ b = SubSeq(q, at + n + 1, k)
  OBVIOUS
<1>8. a \in Seq(S) /\ Len(a) = at /\ \A i \in 1..at : a[i] = q[i]
  <2>1. 1 \in Int /\ at \in Int /\ \A i \in 1..at : i \in 1..k
    BY <1>2
  <2>2. \A i \in 1..at : q[i] \in S
    BY <2>1, <1>2
  <2>3. /\ a \in Seq(S) /\ Len(a) = (IF 1 <= at THEN at - 1 + 1 ELSE 0)
        /\ \A i \in 1..at - 1 + 1 : a[i] = q[1 + i - 1]
    BY <2>1, <2>2, <1>7, SubSeqProperties
  <2>4. Len(a) = at
    BY <2>3
  <2>5. ASSUME NEW i \in 1..at PROVE a[i] = q[i]
    <3>1. i \in 1..at - 1 + 1 /\ 1 + i - 1 = i
      OBVIOUS
    <3> QED
      BY <3>1, <2>3
  <2> QED
    BY <2>3, <2>4, <2>5
<1>9. b \in Seq(S) /\ Len(b) = k - n - at /\ \A i \in 1..k - n - at : b[i] = q[at + n + i]
  <2>1. at + n + 1 \in Int /\ k \in Int /\ \A i \in at + n + 1..k : i \in 1..k
    BY <1>2
  <2>2. \A i \in at + n + 1..k : q[i] \in S
    BY <2>1, <1>2
  <2>3. /\ b \in Seq(S) /\ Len(b) = (IF at + n + 1 <= k THEN k - (at + n + 1) + 1 ELSE 0)
        /\ \A i \in 1..k - (at + n + 1) + 1 : b[i] = q[at + n + 1 + i - 1]
    <3>1. PICK lo : lo = at + n + 1
      OBVIOUS
    <3>2. lo \in Int /\ k \in Int /\ b = SubSeq(q, lo, k) /\ \A i \in lo..k : q[i] \in S
      BY <2>1, <2>2, <3>1, <1>7
    <3>3. /\ b \in Seq(S) /\ Len(b) = (IF lo <= k THEN k - lo + 1 ELSE 0)
          /\ \A i \in 1..k - lo + 1 : b[i] = q[lo + i - 1]
      BY <3>2, SubSeqProperties
    <3> QED
      BY <3>1, <3>3
  <2>4. Len(b) = k - n - at
    BY <2>3, <1>2
  <2>5. ASSUME NEW i \in 1..k - n - at PROVE b[i] = q[at + n + i]
    <3>1. i \in 1..k - (at + n + 1) + 1 /\ at + n + 1 + i - 1 = at + n + i
      BY <1>2
    <3> QED
      BY <3>1, <2>3
  <2> QED
    BY <2>3, <2>4, <2>5
<1>10. PICK p : p = a \o b
  OBVIOUS
<1>11. /\ p \in Seq(S) /\ Len(p) = at + (k - n - at)
       /\ \A i \in 1..at + (k - n - at) : p[i] = IF i <= at THEN a[i] ELSE b[i - at]
  <2>1. a \in Seq(S) /\ b \in Seq(S) /\ Len(a) = at /\ Len(b) = k - n - at
    BY <1>8, <1>9
  <2>2. /\ a \o b \in Seq(S) /\ Len(a \o b) = Len(a) + Len(b)
        /\ \A i \in 1..Len(a) + Len(b) : (a \o b)[i] = IF i <= Len(a) THEN a[i] ELSE b[i - Len(a)]
    BY <2>1, ConcatProperties
  <2>3. p = a \o b
    BY <1>10
  <2> QED
    BY <2>1, <2>2, <2>3
<1>12. Len(p) = k - n
  BY <1>11, <1>2
<1>13. ASSUME NEW i \in 1..k - n PROVE p[i] = t[i]
  <2>1. i \in 1..at + (k - n - at)
    BY <1>2
  <2>2. p[i] = IF i <= at THEN a[i] ELSE b[i - at]
    BY <2>1, <1>11
  <2>3. CASE i <= at
    <3>1. i \in 1..at
      BY <2>3
    <3> QED
      BY <3>1, <2>2, <2>3, <1>3, <1>8
  <2>4. CASE ~(i <= at)
    <3>1. i - at \in 1..k - n - at /\ at + n + (i - at) = i + n
      BY <2>4, <1>2
    <3>2. p[i] = q[i + n]
      BY <3>1, <2>2, <2>4, <1>9
    <3> QED
      BY <3>2, <2>4, <1>3
  <2> QED
    BY <2>3, <2>4
<1>14. p = t
  BY <1>6, <1>11, <1>12, <1>13, SeqEqual
<1>15. AsVectors!Cut(q, at, n) = p
  BY <1>1, <1>7, <1>10 DEF AsVectors!Cut
<1> QED
  BY <1>1, <1>3, <1>14, <1>15

\* The sequences that the vectors stand for.
SequenceOf(r) == [i \in 1..SizeOf(r) |-> r.slots[i]]
Listed(m) == [w \in Vec |-> SequenceOf(m.vec[w])]
VecsNow == [v \in Vec |-> Elements(v)]

\* The elements of a vector of sound memory are a sequence of elements.
LEMMA SequenceOfVector ==
    ASSUME NEW m, MemInv(m), m.ok, NEW v \in Vec, NEW q, q = SequenceOf(m.vec[v])
    PROVE  /\ SizeOf(m.vec[v]) \in Nat /\ q \in Seq(Item) /\ Len(q) = SizeOf(m.vec[v])
           /\ \A i \in 1..SizeOf(m.vec[v]) : q[i] = m.vec[v].slots[i]
<1>1. Sound(m) /\ v \in Every
  BY CallBegins
<1>2. PICK s, g, k : s = SizeOf(m.vec[v]) /\ g = m.vec[v].slots /\ k = CapacityOf(m.vec[v])
  OBVIOUS
<1>3. s \in Nat
  BY <1>1, <1>2, VectorForm
<1>4. ASSUME NEW i \in 1..s PROVE g[i] \in Item
  <2>1. m.vec[v].m_data # Garbage
    <3>1. m.vec[v].m_data = Garbage => s = 0
      BY <1>1, <1>2, AstrayIsEmpty
    <3> QED
      BY <3>1
  <2>2. k \in Nat /\ s <= k /\ \A j \in 1..k : g[j] \in Item <=> j <= s
    BY <1>1, <1>2, <2>1, SlotsOf
  <2>3. i \in 1..k /\ i <= s
    BY <2>2, <1>3
  <2> QED
    BY <2>2, <2>3
<1>5. q = [i \in 1..s |-> g[i]]
  BY <1>2 DEF SequenceOf
<1>6. q \in [1..s -> Item]
  BY <1>4, <1>5
<1>7. q \in Seq(Item) /\ Len(q) = s
  BY <1>3, <1>6
<1> QED
  BY <1>2, <1>3, <1>5, <1>7

\* Alike vectors stand for one sequence.
LEMMA AlikeSequences ==
    ASSUME NEW r, NEW q, Alike(r, q)
    PROVE  SequenceOf(r) = SequenceOf(q)
  BY DEF Alike, SequenceOf

\* A vector without elements stands for the empty sequence.
LEMMA EmptySequence ==
    ASSUME NEW r, SizeOf(r) = 0
    PROVE  SequenceOf(r) = <<>>
  BY DEF SequenceOf

\* One vector took new elements.
LEMMA SequencesBecame ==
    ASSUME NEW m, NEW d, d.ok, NEW v \in Vec, NEW n \in Nat, NEW f, Became(m, d, v, n, f)
    PROVE  Listed(d) = [Listed(m) EXCEPT ![v] = [i \in 1..n |-> f[i]]]
<1>1. SequenceOf(d.vec[v]) = [i \in 1..n |-> f[i]]
  BY DEF Became, SequenceOf
<1>2. \A w \in Vec : w # v => d.vec[w] = m.vec[w]
  BY VectorNumbers DEF Became
<1> QED
  BY <1>1, <1>2 DEF Listed

\* What the refinement shows of the vectors, before and after a call.
LEMMA VecsAre ==
    /\ VecsNow = Listed(mem)
    /\ VecsNow' = Listed(mem')
    /\ \A v \in Vec : VecsNow[v] = SequenceOf(mem.vec[v])
  BY DEF VecsNow, Listed, SequenceOf, Elements, Size, Rec

\* Sound calls as calls on sequences.
VecStep == AsVectors!Next \/ UNCHANGED <<VecsNow, call, ~mem.ok>>

\* A call on one vector is a step of AbstractVector.
LEMMA VectorChanges ==
    ASSUME mem.ok, mem'.ok, NEW v \in Vec, AsVectors!Change(v)
    PROVE  VecStep
<1>1. (~mem.ok) = FALSE /\ (~mem.ok)' = FALSE
  OBVIOUS
<1> QED
  BY <1>1 DEF VecStep, AsVectors!Next

\* So is a call on two.
LEMMA TwoVectorsChange ==
    ASSUME mem.ok, mem'.ok, NEW v \in Vec, NEW u \in Vec, v # u,
           AsVectors!Move(v, u) \/ AsVectors!Copy(v, u) \/ AsVectors!Swap(v, u)
    PROVE  VecStep
<1>1. (~mem.ok) = FALSE /\ (~mem.ok)' = FALSE
  OBVIOUS
<1> QED
  BY <1>1 DEF VecStep, AsVectors!Next

\* The sequence of one vector became that of f, or any that is equal to it.
LEMMA VecBecame ==
    ASSUME mem'.ok, NEW v \in Vec, NEW n \in Nat, NEW f, Became(mem, mem', v, n, f),
           NEW t, t = [i \in 1..n |-> f[i]]
    PROVE  VecsNow' = [VecsNow EXCEPT ![v] = t]
<1>1. PICK b : b = mem'
  OBVIOUS
<1>2. b.ok /\ Became(mem, b, v, n, f)
  BY <1>1
<1>3. Listed(b) = [Listed(mem) EXCEPT ![v] = [i \in 1..n |-> f[i]]]
  BY <1>2, SequencesBecame
<1> QED
  BY <1>1, <1>3, VecsAre

\* One element more is an element appended.
LEMMA BecameAppended ==
    ASSUME MemInv(mem), mem.ok, mem'.ok, NEW v \in Vec, NEW e \in Item,
           NEW s, s = SizeOf(mem.vec[v]),
           Became(mem, mem', v, s + 1, [i \in 1..s + 1 |-> IF i <= s THEN mem.vec[v].slots[i] ELSE e])
    PROVE  VecsNow' = [VecsNow EXCEPT ![v] = Append(VecsNow[v], e)]
<1>1. PICK q : q = SequenceOf(mem.vec[v])
  OBVIOUS
<1>2. PICK f : f = [i \in 1..s + 1 |-> IF i <= s THEN mem.vec[v].slots[i] ELSE e]
  OBVIOUS
<1>3. /\ s \in Nat /\ s + 1 \in Nat /\ q \in Seq(Item) /\ Len(q) = s
      /\ \A i \in 1..s : q[i] = mem.vec[v].slots[i]
  BY <1>1, SequenceOfVector
<1>4. Append(q, e) = [i \in 1..s + 1 |-> IF i <= s THEN q[i] ELSE e]
  <2>1. Append(q, e) = [i \in 1..Len(q) + 1 |-> IF i <= Len(q) THEN q[i] ELSE e]
    BY <1>3, AppendedAs
  <2> QED
    BY <2>1, <1>3
<1>5. ASSUME NEW i \in 1..s + 1 PROVE f[i] = IF i <= s THEN q[i] ELSE e
  <2>1. i <= s => i \in 1..s
    BY <1>3
  <2> QED
    BY <2>1, <1>2, <1>3
<1>6. PICK t : t = Append(q, e)
  OBVIOUS
<1>7. t = [i \in 1..s + 1 |-> f[i]]
  BY <1>4, <1>5, <1>6
<1>8. Became(mem, mem', v, s + 1, f)
  BY <1>2
<1>9. VecsNow' = [VecsNow EXCEPT ![v] = t]
  BY <1>3, <1>7, <1>8, VecBecame
<1>10. VecsNow[v] = q
  BY <1>1, VecsAre
<1> QED
  BY <1>6, <1>9, <1>10

\* push_back appends.
LEMMA PushesBack ==
    ASSUME MemInv(mem), mem.ok, mem'.ok, NEW v \in Vec, NEW e \in Item, push_back(v, e),
           call' = <<"push_back", v, e>>
    PROVE  VecStep
<1>1. PICK s : s = SizeOf(mem.vec[v])
  OBVIOUS
<1>2. Became(mem, mem', v, s + 1, [i \in 1..s + 1 |-> IF i <= s THEN mem.vec[v].slots[i] ELSE e])
  BY <1>1, PushBackKeeps
<1>3. VecsNow' = [VecsNow EXCEPT ![v] = Append(VecsNow[v], e)]
  BY <1>1, <1>2, BecameAppended
<1>4. AsVectors!PushBack(v, e)
  BY <1>3 DEF AsVectors!PushBack, AsVectors!Called, AsVectors!Becomes, VecsNow
<1>5. AsVectors!Change(v)
  BY <1>4 DEF AsVectors!Change
<1> QED
  BY <1>5, VectorChanges

\* So does push_back of an own element.
LEMMA PushesBackOwn ==
    ASSUME MemInv(mem), mem.ok, mem'.ok, NEW v \in Vec, NEW at \in 1..MaxLen, push_back_own(v, at),
           call' = <<"push_back_own", v, at>>
    PROVE  VecStep
<1>1. PICK s, q, e : s = SizeOf(mem.vec[v]) /\ q = SequenceOf(mem.vec[v]) /\ e = mem.vec[v].slots[at]
  OBVIOUS
<1>2. /\ s \in Nat /\ at \in 1..s
      /\ Became(mem, mem', v, s + 1, [i \in 1..s + 1 |-> IF i <= s THEN mem.vec[v].slots[i] ELSE e])
  BY <1>1, PushBackOwnKeeps
<1>3. e \in Item
  BY <1>1, <1>2, OwnElement
<1>4. q \in Seq(Item) /\ Len(q) = s /\ q[at] = e /\ VecsNow[v] = q
  BY <1>1, <1>2, SequenceOfVector, VecsAre
<1>5. at \in DOMAIN q
  BY <1>2, <1>4
<1>6. VecsNow' = [VecsNow EXCEPT ![v] = Append(VecsNow[v], e)]
  BY <1>1, <1>2, <1>3, BecameAppended
<1>7. at \in DOMAIN VecsNow[v] /\ VecsNow' = [VecsNow EXCEPT ![v] = Append(VecsNow[v], VecsNow[v][at])]
  BY <1>4, <1>5, <1>6
<1>8. AsVectors!PushBackOwn(v, at)
  BY <1>7 DEF AsVectors!PushBackOwn, AsVectors!Called, AsVectors!Becomes, VecsNow
<1>9. AsVectors!Change(v)
  <2>1. at \in 0..MaxLen
    BY VectorNumbers
  <2> QED
    BY <2>1, <1>8 DEF AsVectors!Change
<1> QED
  BY <1>9, VectorChanges

\* pop_back leaves the front.
LEMMA PopsBack ==
    ASSUME MemInv(mem), mem.ok, mem'.ok, NEW v \in Vec, pop_back(v), call' = <<"pop_back", v>>
    PROVE  VecStep
<1>1. PICK s, q, g : s = SizeOf(mem.vec[v]) /\ q = SequenceOf(mem.vec[v]) /\ g = mem.vec[v].slots
  OBVIOUS
<1>2. s \in Nat /\ s >= 1 /\ s - 1 \in Nat /\ Became(mem, mem', v, s - 1, g)
  BY <1>1, PoppedBack
<1>3. q \in Seq(Item) /\ Len(q) = s /\ \A i \in 1..s : q[i] = g[i]
  BY <1>1, SequenceOfVector
<1>4. AsVectors!Front(q) = [i \in 1..s - 1 |-> q[i]]
  <2>1. Len(q) >= 1
    BY <1>2, <1>3
  <2>2. AsVectors!Front(q) = [i \in 1..Len(q) - 1 |-> q[i]]
    BY <1>3, <2>1, FrontAs
  <2> QED
    BY <1>3, <2>2
<1>5. AsVectors!Front(q) = [i \in 1..s - 1 |-> g[i]]
  <2>1. \A i \in 1..s - 1 : q[i] = g[i]
    BY <1>2, <1>3
  <2> QED
    BY <1>4, <2>1
<1>6. VecsNow' = [VecsNow EXCEPT ![v] = AsVectors!Front(q)]
  BY <1>2, <1>5, VecBecame
<1>7. VecsNow[v] = q /\ q # <<>>
  <2>1. Len(q) # 0
    BY <1>2, <1>3
  <2> QED
    BY <2>1, <1>1, VecsAre
<1>8. AsVectors!PopBack(v)
  BY <1>6, <1>7 DEF AsVectors!PopBack, AsVectors!Called, AsVectors!Becomes, VecsNow
<1>9. AsVectors!Change(v)
  BY <1>8 DEF AsVectors!Change
<1> QED
  BY <1>9, VectorChanges

\* An element more in between is an element inserted.
LEMMA BecameInserted ==
    ASSUME MemInv(mem), mem.ok, mem'.ok, NEW v \in Vec, NEW at \in 0..MaxLen, NEW e \in Item,
           NEW s, s = SizeOf(mem.vec[v]), at <= s,
           Became(mem, mem', v, s + 1, [j \in 1..s + 1 |-> IF j <= at THEN mem.vec[v].slots[j]
                                                           ELSE IF j = at + 1 THEN e ELSE mem.vec[v].slots[j - 1]])
    PROVE  /\ at \in 0..Len(VecsNow[v])
           /\ VecsNow' = [VecsNow EXCEPT ![v] = AsVectors!InsertAt(VecsNow[v], at + 1, e)]
<1>1. PICK q, g : q = SequenceOf(mem.vec[v]) /\ g = mem.vec[v].slots
  OBVIOUS
<1>2. PICK f : f = [j \in 1..s + 1 |-> IF j <= at THEN g[j] ELSE IF j = at + 1 THEN e ELSE g[j - 1]]
  OBVIOUS
<1>4. s \in Nat /\ q \in Seq(Item) /\ Len(q) = s /\ \A i \in 1..s : q[i] = g[i]
  BY <1>1, SequenceOfVector
<1>3. at \in Nat /\ at <= s /\ at \in 0..s /\ s + 1 \in Nat /\ Became(mem, mem', v, s + 1, f)
  <2>1. Became(mem, mem', v, s + 1, f)
    BY <1>1, <1>2
  <2>2. at \in Nat
    BY VectorNumbers
  <2> QED
    BY <2>1, <2>2, <1>4
<1>5. PICK t : t = AsVectors!InsertAt(q, at + 1, e)
  OBVIOUS
<1>6. t = [i \in 1..s + 1 |-> IF i <= at THEN q[i] ELSE IF i = at + 1 THEN e ELSE q[i - 1]]
  <2>1. at \in 0..Len(q)
    BY <1>3, <1>4
  <2>2. t = [i \in 1..Len(q) + 1 |-> IF i <= at THEN q[i] ELSE IF i = at + 1 THEN e ELSE q[i - 1]]
    <3>1. q \in Seq(Item) /\ e \in Item
      BY <1>4
    <3>2. AsVectors!InsertAt(q, at + 1, e)
            = [i \in 1..Len(q) + 1 |-> IF i <= at THEN q[i] ELSE IF i = at + 1 THEN e ELSE q[i - 1]]
      BY <2>1, <3>1, InsertedAs
    <3> QED
      BY <3>2, <1>5
  <2> QED
    BY <1>4, <2>2
<1>7. ASSUME NEW i \in 1..s + 1
      PROVE  f[i] = IF i <= at THEN q[i] ELSE IF i = at + 1 THEN e ELSE q[i - 1]
  <2>1. i <= at => i \in 1..s
    BY <1>3, <1>4
  <2>2. ~(i <= at) /\ i # at + 1 => i - 1 \in 1..s
    BY <1>3, <1>4
  <2> QED
    BY <2>1, <2>2, <1>2, <1>4
<1>8. t = [i \in 1..s + 1 |-> f[i]]
  BY <1>6, <1>7
<1>9. VecsNow' = [VecsNow EXCEPT ![v] = t]
  BY <1>3, <1>8, VecBecame
<1>10. VecsNow[v] = q
  BY <1>1, VecsAre
<1> QED
  BY <1>3, <1>4, <1>5, <1>9, <1>10

\* insert_at inserts.
LEMMA InsertsAt ==
    ASSUME MemInv(mem), mem.ok, mem'.ok, NEW v \in Vec, NEW at \in 0..MaxLen, NEW e \in Item, insert_at(v, at, e),
           call' = <<"insert_at", v, at, e>>
    PROVE  VecStep
<1>1. PICK s : s = SizeOf(mem.vec[v])
  OBVIOUS
<1>2. /\ at <= s
      /\ Became(mem, mem', v, s + 1, [j \in 1..s + 1 |-> IF j <= at THEN mem.vec[v].slots[j]
                                                         ELSE IF j = at + 1 THEN e ELSE mem.vec[v].slots[j - 1]])
  BY <1>1, InsertKeeps
<1>3. /\ at \in 0..Len(VecsNow[v])
      /\ VecsNow' = [VecsNow EXCEPT ![v] = AsVectors!InsertAt(VecsNow[v], at + 1, e)]
  BY <1>1, <1>2, BecameInserted
<1>4. AsVectors!Insert(v, at, e)
  BY <1>3 DEF AsVectors!Insert, AsVectors!Called, AsVectors!Becomes, VecsNow
<1>5. AsVectors!Change(v)
  BY <1>4 DEF AsVectors!Change
<1> QED
  BY <1>5, VectorChanges

\* insert_own inserts the element if it is before the place.
LEMMA InsertsOwn ==
    ASSUME MemInv(mem), mem.ok, mem'.ok, NEW v \in Vec, NEW at \in 0..MaxLen, NEW k \in 1..MaxLen,
           insert_own(v, at, k), call' = <<"insert_own", v, at, k>>
    PROVE  VecStep
<1>1. PICK s, q : s = SizeOf(mem.vec[v]) /\ q = SequenceOf(mem.vec[v])
  OBVIOUS
<1>2. s \in Nat /\ at <= s /\ k \in 1..s
  BY <1>1, InsertOwnKeeps
<1>3. PICK e \in Item :
        /\ k <= at => e = mem.vec[v].slots[k]
        /\ Became(mem, mem', v, s + 1, [j \in 1..s + 1 |-> IF j <= at THEN mem.vec[v].slots[j]
                                                           ELSE IF j = at + 1 THEN e ELSE mem.vec[v].slots[j - 1]])
  BY <1>1, InsertOwnKeeps
<1>4. /\ at \in 0..Len(VecsNow[v])
      /\ VecsNow' = [VecsNow EXCEPT ![v] = AsVectors!InsertAt(VecsNow[v], at + 1, e)]
  BY <1>1, <1>2, <1>3, BecameInserted
<1>5. q \in Seq(Item) /\ Len(q) = s /\ q[k] = mem.vec[v].slots[k] /\ VecsNow[v] = q
  BY <1>1, <1>2, SequenceOfVector, VecsAre
<1>6. k \in DOMAIN VecsNow[v] /\ (k <= at => e = VecsNow[v][k])
  BY <1>2, <1>3, <1>5
<1>7. AsVectors!InsertOwn(v, at, k)
  BY <1>4, <1>6 DEF AsVectors!InsertOwn, AsVectors!Called, AsVectors!Becomes, VecsNow
<1>8. AsVectors!Change(v)
  <2>1. k \in 0..MaxLen
    BY VectorNumbers
  <2> QED
    BY <2>1, <1>7 DEF AsVectors!Change
<1> QED
  BY <1>8, VectorChanges

\* erase_at cuts.
LEMMA ErasesAt ==
    ASSUME MemInv(mem), mem.ok, mem'.ok, NEW v \in Vec, NEW at \in 0..MaxLen, NEW n \in 1..MaxLen, erase_at(v, at, n),
           call' = <<"erase_at", v, at, n>>
    PROVE  VecStep
<1>1. PICK s, q, g : s = SizeOf(mem.vec[v]) /\ q = SequenceOf(mem.vec[v]) /\ g = mem.vec[v].slots
  OBVIOUS
<1>2. PICK f : f = [j \in 1..s - n |-> IF j <= at THEN g[j] ELSE g[j + n]]
  OBVIOUS
<1>3. /\ s \in Nat /\ at \in Nat /\ n \in Nat /\ at + n <= s /\ s - n \in Nat
      /\ Became(mem, mem', v, s - n, f)
  <2>1. s \in Nat /\ at + n <= s /\ Became(mem, mem', v, s - n, f)
    BY <1>1, <1>2, Erased
  <2>2. at \in Nat /\ n \in Nat
    BY VectorNumbers
  <2> QED
    BY <2>1, <2>2
<1>4. q \in Seq(Item) /\ Len(q) = s /\ \A i \in 1..s : q[i] = g[i]
  BY <1>1, SequenceOfVector
<1>5. PICK t : t = AsVectors!Cut(q, at, n)
  OBVIOUS
<1>6. t = [i \in 1..s - n |-> IF i <= at THEN q[i] ELSE q[i + n]]
  <2>1. at + n <= Len(q)
    BY <1>3, <1>4
  <2>2. t = [i \in 1..Len(q) - n |-> IF i <= at THEN q[i] ELSE q[i + n]]
    <3>1. q \in Seq(Item) /\ at \in Nat /\ n \in Nat
      BY <1>3, <1>4
    <3>2. AsVectors!Cut(q, at, n) = [i \in 1..Len(q) - n |-> IF i <= at THEN q[i] ELSE q[i + n]]
      BY <2>1, <3>1, CutAs
    <3> QED
      BY <3>2, <1>5
  <2> QED
    BY <1>4, <2>2
<1>7. ASSUME NEW i \in 1..s - n PROVE f[i] = IF i <= at THEN q[i] ELSE q[i + n]
  <2>1. i \in 1..s /\ i + n \in 1..s
    BY <1>3
  <2> QED
    BY <2>1, <1>2, <1>4
<1>8. t = [i \in 1..s - n |-> f[i]]
  BY <1>6, <1>7
<1>9. VecsNow' = [VecsNow EXCEPT ![v] = t]
  BY <1>3, <1>8, VecBecame
<1>10. VecsNow[v] = q
  BY <1>1, VecsAre
<1>11. /\ at + n <= Len(VecsNow[v])
       /\ VecsNow' = [VecsNow EXCEPT ![v] = AsVectors!Cut(VecsNow[v], at, n)]
  BY <1>3, <1>4, <1>5, <1>9, <1>10
<1>12. AsVectors!Erase(v, at, n)
  BY <1>11 DEF AsVectors!Erase, AsVectors!Called, AsVectors!Becomes, VecsNow
<1>13. AsVectors!Change(v)
  <2>1. n \in 0..MaxLen
    BY VectorNumbers
  <2> QED
    BY <2>1, <1>12 DEF AsVectors!Change
<1> QED
  BY <1>13, VectorChanges

\* erase_at of nothing keeps the length and what is before the place.
LEMMA ErasesNone ==
    ASSUME MemInv(mem), mem.ok, mem'.ok, NEW v \in Vec, NEW at \in 0..MaxLen, erase_none(v, at),
           call' = <<"erase_none", v, at>>
    PROVE  VecStep
<1>1. PICK s, q, g : s = SizeOf(mem.vec[v]) /\ q = SequenceOf(mem.vec[v]) /\ g = mem.vec[v].slots
  OBVIOUS
<1>2. s \in Nat
  BY <1>1, ErasedNone
<1>3. PICK h \in [1..s -> Item] : (\A j \in 1..s : j <= at => h[j] = g[j]) /\ Became(mem, mem', v, s, h)
  BY <1>1, ErasedNone
<1>4. q \in Seq(Item) /\ Len(q) = s /\ (\A i \in 1..s : q[i] = g[i]) /\ VecsNow[v] = q
  BY <1>1, SequenceOfVector, VecsAre
<1>5. DOMAIN VecsNow[v] = 1..s
  BY <1>2, <1>4
<1>6. h = [i \in 1..s |-> h[i]]
  BY <1>3
<1>7. VecsNow' = [VecsNow EXCEPT ![v] = h]
  BY <1>2, <1>3, <1>6, VecBecame
<1>8. \A j \in DOMAIN h : j <= at => h[j] = VecsNow[v][j]
  BY <1>3, <1>4
<1>9. h \in [DOMAIN VecsNow[v] -> Item]
  BY <1>3, <1>5
<1>10. AsVectors!EraseNone(v, at)
  BY <1>7, <1>8, <1>9 DEF AsVectors!EraseNone, AsVectors!Called, AsVectors!Becomes, VecsNow
<1>11. AsVectors!Change(v)
  BY <1>10 DEF AsVectors!Change
<1> QED
  BY <1>11, VectorChanges

\* A vector of n elements is the vector resized.
LEMMA BecameResized ==
    ASSUME MemInv(mem), mem.ok, mem'.ok, NEW v \in Vec, NEW n \in 0..MaxLen, NEW e \in Item,
           NEW s, s = SizeOf(mem.vec[v]),
           Became(mem, mem', v, n, [j \in 1..n |-> IF j <= s THEN mem.vec[v].slots[j] ELSE e])
    PROVE  VecsNow' = [VecsNow EXCEPT ![v] = AsVectors!Resized(VecsNow[v], n, e)]
<1>1. PICK q, g : q = SequenceOf(mem.vec[v]) /\ g = mem.vec[v].slots
  OBVIOUS
<1>2. PICK f : f = [j \in 1..n |-> IF j <= s THEN g[j] ELSE e]
  OBVIOUS
<1>3. s \in Nat /\ n \in Nat /\ Len(q) = s /\ \A i \in 1..s : q[i] = g[i]
  BY <1>1, SequenceOfVector, VectorNumbers
<1>4. Became(mem, mem', v, n, f)
  BY <1>1, <1>2
<1>5. PICK t : t = AsVectors!Resized(q, n, e)
  OBVIOUS
<1>6. t = [i \in 1..n |-> IF i <= s THEN q[i] ELSE e]
  BY <1>3, <1>5 DEF AsVectors!Resized
<1>7. ASSUME NEW i \in 1..n PROVE f[i] = IF i <= s THEN q[i] ELSE e
  <2>1. i <= s => i \in 1..s
    BY <1>3
  <2> QED
    BY <2>1, <1>2, <1>3
<1>8. t = [i \in 1..n |-> f[i]]
  BY <1>6, <1>7
<1>9. VecsNow' = [VecsNow EXCEPT ![v] = t]
  BY <1>3, <1>4, <1>8, VecBecame
<1>10. VecsNow[v] = q
  BY <1>1, VecsAre
<1> QED
  BY <1>5, <1>9, <1>10

\* resize resizes.
LEMMA ResizesTo ==
    ASSUME MemInv(mem), mem.ok, mem'.ok, NEW v \in Vec, NEW n \in 0..MaxLen, NEW e \in Item, resize(v, n, e),
           call' = <<"resize", v, n, e>>
    PROVE  VecStep
<1>1. PICK s : s = SizeOf(mem.vec[v])
  OBVIOUS
<1>2. Became(mem, mem', v, n, [j \in 1..n |-> IF j <= s THEN mem.vec[v].slots[j] ELSE e])
  BY <1>1, ResizeKeeps
<1>3. VecsNow' = [VecsNow EXCEPT ![v] = AsVectors!Resized(VecsNow[v], n, e)]
  BY <1>1, <1>2, BecameResized
<1>4. AsVectors!Resize(v, n, e)
  BY <1>3 DEF AsVectors!Resize, AsVectors!Called, AsVectors!Becomes, VecsNow
<1>5. AsVectors!Change(v)
  BY <1>4 DEF AsVectors!Change
<1> QED
  BY <1>5, VectorChanges

\* So does resize to an own element.
LEMMA ResizesOwn ==
    ASSUME MemInv(mem), mem.ok, mem'.ok, NEW v \in Vec, NEW n \in 1..MaxLen, NEW at \in 1..MaxLen,
           resize_own(v, n, at), call' = <<"resize_own", v, n, at>>
    PROVE  VecStep
<1>1. PICK s, q, e : s = SizeOf(mem.vec[v]) /\ q = SequenceOf(mem.vec[v]) /\ e = mem.vec[v].slots[at]
  OBVIOUS
<1>2. n \in 0..MaxLen /\ at \in 0..MaxLen
  BY VectorNumbers
<1>3. /\ s \in Nat /\ at \in 1..s
      /\ Became(mem, mem', v, n, [j \in 1..n |-> IF j <= s THEN mem.vec[v].slots[j] ELSE e])
  BY <1>1, <1>2, ResizeOwnKeeps
<1>4. e \in Item
  BY <1>1, <1>3, OwnElement
<1>5. q \in Seq(Item) /\ Len(q) = s /\ q[at] = e /\ VecsNow[v] = q
  BY <1>1, <1>3, SequenceOfVector, VecsAre
<1>6. VecsNow' = [VecsNow EXCEPT ![v] = AsVectors!Resized(VecsNow[v], n, e)]
  BY <1>1, <1>2, <1>3, <1>4, BecameResized
<1>7. /\ at \in DOMAIN VecsNow[v]
      /\ VecsNow' = [VecsNow EXCEPT ![v] = AsVectors!Resized(VecsNow[v], n, VecsNow[v][at])]
  BY <1>3, <1>5, <1>6
<1>8. AsVectors!ResizeOwn(v, n, at)
  BY <1>7 DEF AsVectors!ResizeOwn, AsVectors!Called, AsVectors!Becomes, VecsNow
<1>9. AsVectors!Change(v)
  BY <1>2, <1>8 DEF AsVectors!Change
<1> QED
  BY <1>9, VectorChanges

\* clear clears.
LEMMA Clears ==
    ASSUME MemInv(mem), mem.ok, mem'.ok, NEW v \in Vec, clear(v), call' = <<"clear", v>>
    PROVE  VecStep
<1>1. Became(mem, mem', v, 0, <<>>)
  BY Cleared
<1>2. PICK f, t, n : f = <<>> /\ t = <<>> /\ n = 0
  OBVIOUS
<1>3. Became(mem, mem', v, n, f) /\ t = [i \in 1..n |-> f[i]] /\ n \in Nat
  BY <1>1, <1>2
<1>4. VecsNow' = [VecsNow EXCEPT ![v] = t]
  BY <1>3, VecBecame
<1>5. AsVectors!Clear(v)
  BY <1>2, <1>4 DEF AsVectors!Clear, AsVectors!Becomes, VecsNow
<1>6. AsVectors!Change(v)
  BY <1>5 DEF AsVectors!Change
<1> QED
  BY <1>6, VectorChanges

\* So do an end and a beginning.
LEMMA Renewing ==
    ASSUME MemInv(mem), mem.ok, mem'.ok, NEW v \in Vec, renew(v), call' = <<"renew", v>>
    PROVE  VecStep
<1>1. PICK m, d : m = mem /\ d = mem'
  OBVIOUS
<1>2. SizeOf(d.vec[v]) = 0 /\ \A w \in Vec : w # v => d.vec[w] = m.vec[w]
  BY <1>1, Renewed
<1>3. SequenceOf(d.vec[v]) = <<>>
  BY <1>2, EmptySequence
<1>4. Listed(d) = [Listed(m) EXCEPT ![v] = <<>>]
  BY <1>2, <1>3 DEF Listed
<1>5. VecsNow' = [VecsNow EXCEPT ![v] = <<>>]
  BY <1>1, <1>4, VecsAre
<1>6. AsVectors!Clear(v)
  BY <1>5 DEF AsVectors!Clear, AsVectors!Becomes, VecsNow
<1>7. AsVectors!Change(v)
  BY <1>6 DEF AsVectors!Change
<1> QED
  BY <1>7, VectorChanges

\* reserve changes nothing.
LEMMA Reserves ==
    ASSUME MemInv(mem), mem.ok, mem'.ok, NEW v \in Vec, NEW n \in 0..MaxLen, reserve(v, n),
           call' = <<"reserve", v, n>>
    PROVE  VecStep
<1>1. PICK s, q, g : s = SizeOf(mem.vec[v]) /\ q = SequenceOf(mem.vec[v]) /\ g = mem.vec[v].slots
  OBVIOUS
<1>2. s \in Nat /\ Became(mem, mem', v, s, g)
  BY <1>1, ReservedFor
<1>3. q = [i \in 1..s |-> g[i]] /\ VecsNow[v] = q
  BY <1>1, VecsAre DEF SequenceOf
<1>4. VecsNow' = [VecsNow EXCEPT ![v] = q]
  BY <1>2, <1>3, VecBecame
<1>5. VecsNow' = VecsNow
  BY <1>3, <1>4 DEF VecsNow
<1>6. AsVectors!Reserve(v, n)
  BY <1>5 DEF AsVectors!Reserve, AsVectors!Called, VecsNow
<1>7. AsVectors!Change(v)
  BY <1>6 DEF AsVectors!Change
<1> QED
  BY <1>7, VectorChanges

\* Copies copy the sequence.
LEMMA Copies ==
    ASSUME MemInv(mem), mem.ok, mem'.ok, NEW v \in Vec, NEW u \in Vec, copy(v, u),
           call' = <<"copy", v, u>>
    PROVE  VecStep
<1>1. PICK s, q, g : s = SizeOf(mem.vec[u]) /\ q = SequenceOf(mem.vec[u]) /\ g = mem.vec[u].slots
  OBVIOUS
<1>2. v # u /\ s \in Nat /\ Became(mem, mem', v, s, g)
  BY <1>1, Copied
<1>3. q = [i \in 1..s |-> g[i]] /\ VecsNow[u] = q
  BY <1>1, VecsAre DEF SequenceOf
<1>4. VecsNow' = [VecsNow EXCEPT ![v] = VecsNow[u]]
  <2>1. VecsNow' = [VecsNow EXCEPT ![v] = q]
    BY <1>2, <1>3, VecBecame
  <2> QED
    BY <2>1, <1>3
<1>5. AsVectors!Copy(v, u)
  BY <1>4 DEF AsVectors!Copy, AsVectors!Called, AsVectors!Becomes, VecsNow
<1> QED
  BY <1>2, <1>5, TwoVectorsChange

\* Moves leave the source empty.
LEMMA Moves ==
    ASSUME MemInv(mem), mem.ok, mem'.ok, NEW v \in Vec, NEW u \in Vec, move(v, u),
           call' = <<"move", v, u>>
    PROVE  VecStep
<1>1. PICK m, d : m = mem /\ d = mem'
  OBVIOUS
<1>2. /\ u # v /\ Alike(d.vec[v], m.vec[u]) /\ SizeOf(d.vec[u]) = 0
      /\ \A w \in Vec : w # v /\ w # u => d.vec[w] = m.vec[w]
  BY <1>1, Moved
<1>3. SequenceOf(d.vec[v]) = SequenceOf(m.vec[u]) /\ SequenceOf(d.vec[u]) = <<>>
  BY <1>2, AlikeSequences, EmptySequence
<1>4. Listed(d) = [Listed(m) EXCEPT ![v] = Listed(m)[u], ![u] = <<>>]
  BY <1>2, <1>3 DEF Listed
<1>5. VecsNow' = [VecsNow EXCEPT ![v] = VecsNow[u], ![u] = <<>>]
  BY <1>1, <1>4, VecsAre
<1>6. AsVectors!Move(v, u)
  BY <1>5 DEF AsVectors!Move, AsVectors!Called, VecsNow
<1> QED
  BY <1>2, <1>6, TwoVectorsChange

\* Swaps exchange the sequences.
LEMMA Swaps ==
    ASSUME MemInv(mem), mem.ok, mem'.ok, NEW v \in Vec, NEW u \in Vec, swap(v, u),
           call' = <<"swap", v, u>>
    PROVE  VecStep
<1>1. PICK m, d : m = mem /\ d = mem'
  OBVIOUS
<1>2. /\ u # v /\ Alike(d.vec[v], m.vec[u]) /\ Alike(d.vec[u], m.vec[v])
      /\ \A w \in Vec : w # v /\ w # u => d.vec[w] = m.vec[w]
  BY <1>1, Swapped
<1>3. SequenceOf(d.vec[v]) = SequenceOf(m.vec[u]) /\ SequenceOf(d.vec[u]) = SequenceOf(m.vec[v])
  BY <1>2, AlikeSequences
<1>4. Listed(d) = [Listed(m) EXCEPT ![v] = Listed(m)[u], ![u] = Listed(m)[v]]
  BY <1>2, <1>3 DEF Listed
<1>5. VecsNow' = [VecsNow EXCEPT ![v] = VecsNow[u], ![u] = VecsNow[v]]
  BY <1>1, <1>4, VecsAre
<1>6. AsVectors!Swap(v, u)
  BY <1>5 DEF AsVectors!Swap, AsVectors!Called, VecsNow
<1> QED
  BY <1>2, <1>6, TwoVectorsChange

\* Every call is the call on sequences, or goes astray and the vectors are lost.
LEMMA AddingSteps ==
    ASSUME MemInv(mem), mem.ok, mem'.ok, NEW v \in Vec, Adding(v)
    PROVE  VecStep
<1>1. ASSUME NEW e \in Item, push_back(v, e), call' = <<"push_back", v, e>> PROVE VecStep
  BY <1>1, PushesBack
<1>2. ASSUME NEW i \in 1..MaxLen, push_back_own(v, i), call' = <<"push_back_own", v, i>> PROVE VecStep
  BY <1>2, PushesBackOwn
<1>3. ASSUME NEW i \in 0..MaxLen, NEW e \in Item, insert_at(v, i, e), call' = <<"insert_at", v, i, e>>
      PROVE  VecStep
  BY <1>3, InsertsAt
<1>4. ASSUME NEW i \in 0..MaxLen, NEW k \in 1..MaxLen, insert_own(v, i, k), call' = <<"insert_own", v, i, k>>
      PROVE  VecStep
  BY <1>4, InsertsOwn
<1> QED
  BY <1>1, <1>2, <1>3, <1>4 DEF Adding

LEMMA ShrinkingSteps ==
    ASSUME MemInv(mem), mem.ok, mem'.ok, NEW v \in Vec, Shrinking(v)
    PROVE  VecStep
<1>1. CASE pop_back(v) /\ call' = <<"pop_back", v>>
  BY <1>1, PopsBack
<1>2. ASSUME NEW i \in 0..MaxLen, NEW n \in 1..MaxLen, erase_at(v, i, n), call' = <<"erase_at", v, i, n>>
      PROVE  VecStep
  BY <1>2, ErasesAt
<1>3. ASSUME NEW i \in 0..MaxLen, erase_none(v, i), call' = <<"erase_none", v, i>> PROVE VecStep
  BY <1>3, ErasesNone
<1>4. CASE clear(v) /\ call' = <<"clear", v>>
  BY <1>4, Clears
<1>5. CASE renew(v) /\ call' = <<"renew", v>>
  BY <1>5, Renewing
<1> QED
  BY <1>1, <1>2, <1>3, <1>4, <1>5 DEF Shrinking

LEMMA SizingSteps ==
    ASSUME MemInv(mem), mem.ok, mem'.ok, NEW v \in Vec, Sizing(v)
    PROVE  VecStep
<1>1. ASSUME NEW n \in 0..MaxLen, reserve(v, n), call' = <<"reserve", v, n>> PROVE VecStep
  BY <1>1, Reserves
<1>2. ASSUME NEW n \in 0..MaxLen, NEW e \in Item, resize(v, n, e), call' = <<"resize", v, n, e>> PROVE VecStep
  BY <1>2, ResizesTo
<1>3. ASSUME NEW n \in 1..MaxLen, NEW i \in 1..MaxLen, resize_own(v, n, i), call' = <<"resize_own", v, n, i>>
      PROVE  VecStep
  BY <1>3, ResizesOwn
<1> QED
  BY <1>1, <1>2, <1>3 DEF Sizing

LEMMA PassingSteps ==
    ASSUME MemInv(mem), mem.ok, mem'.ok, NEW v \in Vec, NEW u \in Vec, Passing(v, u)
    PROVE  VecStep
<1>1. CASE move(v, u) /\ call' = <<"move", v, u>>
  BY <1>1, Moves
<1>2. CASE copy(v, u) /\ call' = <<"copy", v, u>>
  BY <1>2, Copies
<1>3. CASE swap(v, u) /\ call' = <<"swap", v, u>>
  BY <1>3, Swaps
<1> QED
  BY <1>1, <1>2, <1>3 DEF Passing

LEMMA VectorSteps ==
    ASSUME MemInv(mem), MemInv(mem'), [VecNext]_vecVars
    PROVE  VecStep
<1>1. CASE UNCHANGED vecVars
  <2>1. VecsNow' = VecsNow /\ (~mem.ok)' = (~mem.ok) /\ call' = call
    BY <1>1, VecsAre DEF vecVars
  <2> QED
    BY <2>1 DEF VecStep
<1>2. CASE VecNext /\ ~mem'.ok
  <2>1. (~mem.ok)' = TRUE
    BY <1>2
  <2> QED
    BY <2>1 DEF VecStep, AsVectors!Next
<1>3. CASE VecNext /\ mem'.ok
  <2>1. mem.ok /\ mem'.ok
    BY <1>3 DEF VecNext
  <2>2. PICK v \in Vec : Adding(v) \/ Shrinking(v) \/ Sizing(v) \/ \E u \in Vec : Passing(v, u)
    BY <1>3 DEF VecNext
  <2> QED
    BY <2>1, <2>2, AddingSteps, ShrinkingSteps, SizingSteps, PassingSteps
<1> QED
  BY <1>1, <1>2, <1>3

\* Every call is the call of that name and arguments on sequences, inline, on
\* the heap and on the way from one to the other, and no call on one vector
\* changes another, as long as the memory is sound (the whole of slim_vec.hpp).
THEOREM VectorsImplement == VecSpec => ImplementsVectors
<1> DEFINE I == MemInv(mem)
<1>1. VecInit => I
  BY VectorsBegin
<1>2. I /\ [VecNext]_vecVars => I'
  BY VectorStep
<1>3. VecInit => AsVectors!Init
  <2> SUFFICES ASSUME VecInit PROVE AsVectors!Init
    OBVIOUS
  <2>1. mem.ok = TRUE /\ (\A v \in Vec : mem.vec[v] = Made) /\ call = <<>>
    BY DEF VecInit
  <2>2. SequenceOf(Made) = <<>>
    BY FreshFormed, EmptySequence
  <2>3. VecsNow = [v \in Vec |-> <<>>]
    BY <2>1, <2>2, VecsAre DEF VecsNow, Listed
  <2> QED
    BY <2>1, <2>3 DEF AsVectors!Init, VecsNow
<1>4. I /\ I' /\ [VecNext]_vecVars => [AsVectors!Next]_<<VecsNow, call, ~mem.ok>>
  BY VectorSteps DEF VecStep
<1> HIDE DEF I
<1> QED
  BY <1>1, <1>2, <1>3, <1>4, PTL DEF VecSpec, ImplementsVectors, AsVectors!Spec, VecsNow
=============================================================================
