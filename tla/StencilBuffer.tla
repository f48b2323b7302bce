---------------------------- MODULE StencilBuffer ----------------------------
(***************************************************************************)
(* StencilBuffer (src/util/stencil_buffer.cpp): data is placed in staging  *)
(* buffers at once and copied to its destinations by the commands that     *)
(* flush_copies records.                                                   *)
(*                                                                         *)
(* A destination is a region of some buffer, and regions do not overlap.   *)
(* The copies of one flush run in any order: between different buffers in  *)
(* that of a hash map, within one command not ordered at all.              *)
(***************************************************************************)
EXTENDS Naturals, Sequences, FiniteSets

CONSTANTS
    Destination,    \* the regions copied to
    DataSize,       \* the bytes of each
    Capacity,       \* m_buffer_capacity
    MaxBuffers,     \* bound: staging buffers made
    MaxCopies,      \* bound: calls of copy_data
    MaxPending      \* bound: command buffers recorded and not executed

StagingParameters ==
    DataSize \in [Destination -> Nat] /\ Capacity \in Nat /\ MaxBuffers \in Nat \ {0}

VARIABLES
    growable,   \* m_growable
    buffers,    \* the number of m_buffers
    top,        \* m_top: the first free byte of the last buffer
    copies,     \* m_copies: the calls of copy_data to be recorded
    placed,     \* each call of copy_data that took place: where its data is, and
                \* whether every earlier call for its destination had run
    ran,        \* history: the calls whose data the device has copied
    pending,    \* the command buffers, oldest first: copies and references
    memory,     \* which call each destination holds the data of, 0 for none
    exists      \* the StencilBuffer has not been destroyed

stagingVars == <<growable, buffers, top, copies, placed, ran, pending, memory, exists>>

Calls == 1..Len(placed)

StagingInit ==
    /\ growable \in BOOLEAN
    /\ buffers = 0
    /\ top = 0
    /\ copies = {}
    /\ placed = <<>>
    /\ ran = {}
    /\ pending = <<>>
    /\ memory = [d \in Destination |-> 0]
    /\ exists = TRUE

HasRun(d) == \A n \in Calls : placed[n].to = d => n \in ran

PlaceAtOldTop(b, start, d) ==
    /\ buffers' = b
    /\ top' = start + DataSize[d]
    /\ placed' = Append(placed, [to |-> d, buffer |-> b, start |-> top, after |-> HasRun(d)])
    /\ copies' = copies \cup {Len(placed) + 1}

Place(b, start, d) ==
    /\ buffers' = b
    /\ top' = start + DataSize[d]
    /\ placed' = Append(placed, [to |-> d, buffer |-> b, start |-> start, after |-> HasRun(d)])
    /\ copies' = copies \cup {Len(placed) + 1}

Fits(d) == top + DataSize[d] <= Capacity
MayPush == buffers = 0 \/ growable

\* allocate fits the data in the top buffer, pushes one, or throws; it throws
\* also after it has pushed a buffer that is still too small.
copy_data(d) ==
    /\ exists /\ Len(placed) < MaxCopies
    /\ IF Fits(d)
         THEN Place(IF buffers = 0 THEN 1 ELSE buffers, top, d)
         ELSE IF ~MayPush
           THEN UNCHANGED <<buffers, top, placed, copies>>
           ELSE /\ buffers < MaxBuffers
                /\ IF DataSize[d] <= Capacity
                     THEN Place(buffers + 1, 0, d)
                     ELSE /\ buffers' = buffers + 1
                          /\ top' = 0
                          /\ UNCHANGED <<placed, copies>>
    /\ UNCHANGED <<growable, ran, pending, memory, exists>>

Record(kept) ==
    /\ exists /\ Len(pending) < MaxPending
    /\ pending' = Append(pending, [copies |-> copies, keeps |-> kept])
    /\ UNCHANGED <<growable, buffers, top, copies, placed, ran, memory, exists>>

FlushKeepsTop == Record({buffers} \ {0})

\* m_copies is not cleared: the next flush records the same copies again.
flush_copies == Record(1..buffers)

\* The device executes the oldest command buffer, whose copies to one
\* destination may end in any order.
Execute ==
    /\ pending # <<>>
    /\ LET run == Head(pending).copies
           into(d) == {n \in run : placed[n].to = d}
       IN memory' \in {m \in [Destination -> 0..Len(placed)] :
              \A d \in Destination : IF into(d) = {} THEN m[d] = memory[d] ELSE m[d] \in into(d)}
    /\ ran' = ran \cup Head(pending).copies
    /\ pending' = Tail(pending)
    /\ UNCHANGED <<growable, buffers, top, copies, placed, exists>>

Destroy ==
    /\ exists
    /\ exists' = FALSE
    /\ copies' = {}
    /\ UNCHANGED <<growable, buffers, top, placed, ran, pending, memory>>

StagingNext ==
    \/ \E d \in Destination : copy_data(d)
    \/ flush_copies \/ Execute \/ Destroy

StagingSpec == StagingInit /\ [][StagingNext]_stagingVars

-----------------------------------------------------------------------------
(* Correctness.                                                            *)

StagingTypeOK ==
    /\ growable \in BOOLEAN
    /\ buffers \in 0..MaxBuffers
    /\ top \in 0..Capacity
    /\ placed \in Seq([to : Destination, buffer : 1..MaxBuffers, start : 0..Capacity, after : BOOLEAN])
    /\ ran \subseteq Calls
    /\ copies \subseteq Calls
    /\ \A i \in DOMAIN pending : pending[i].copies \subseteq Calls /\ pending[i].keeps \subseteq 1..buffers
    /\ memory \in [Destination -> 0..Len(placed)]
    /\ exists \in BOOLEAN

Bytes(n) == placed[n].start..placed[n].start + DataSize[placed[n].to] - 1

\* Data waiting in a staging buffer is not overwritten by later data and is
\* inside its buffer (allocate, push_new_buffer).
StagedApart ==
    /\ \A n \in Calls : placed[n].start + DataSize[placed[n].to] <= Capacity
    /\ \A m, n \in Calls : m # n /\ placed[m].buffer = placed[n].buffer => Bytes(m) \cap Bytes(n) = {}

\* The staging buffers of recorded copies outlive the StencilBuffer
\* (add_execution_dependency).
SourcesKept ==
    \A i \in DOMAIN pending : \A n \in pending[i].copies :
        exists \/ placed[n].buffer \in pending[i].keeps

StagingInv == StagingTypeOK /\ StagedApart /\ SourcesKept

\* Once flush_copies has been called and has run, the data last copied is
\* where it was to go, if all earlier data for that place had been flushed and
\* had run before (the comment of copy_data).
LastTo(d) == CHOOSE n \in Calls : placed[n].to = d /\ \A m \in Calls : placed[m].to = d => m <= n

FlushedIsCopied ==
    pending = <<>> =>
        \A d \in {placed[n].to : n \in Calls} :
            (LastTo(d) \in ran /\ placed[LastTo(d)].after) => memory[d] = LastTo(d)
=============================================================================
