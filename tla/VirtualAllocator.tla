-------------------------- MODULE VirtualAllocator --------------------------
(***************************************************************************)
(* VirtualAllocator (src/util/virtual_allocator.cpp, .hpp): the owner of a *)
(* virtual block of the memory allocator, that hands out ranges of it and  *)
(* keeps the highest end of a range it has handed out.  Moves take the     *)
(* block along, but neither the highest end nor the block they replace.    *)
(***************************************************************************)
EXTENDS Naturals, FiniteSets

CONSTANTS
    Object,     \* places a VirtualAllocator can be in
    BlockSize,  \* block_size
    MaxMade,    \* bound: blocks made
    None        \* no object, and a null block


VARIABLES
    objects,    \* None, or m_virtual_block and m_max
    virtual_blocks, \* the virtual blocks: their ranges <<offset, size>>; None when destroyed
    moved       \* history: the blocks that were moved

virtualVars == <<objects, virtual_blocks, moved>>

Span == {r \in (0..BlockSize - 1) \X (1..BlockSize) : r[1] + r[2] <= BlockSize}
VirtualObject == [block : 1..MaxMade \cup {None}, m_max : 0..BlockSize]

ASSUME VirtualAssumption ==
    /\ BlockSize \in Nat /\ MaxMade \in Nat
    /\ None \notin 1..MaxMade /\ None \notin VirtualObject
    /\ \A spans \in SUBSET Span : spans # None

Apart(r, q) == r[1] + r[2] <= q[1] \/ q[1] + q[2] <= r[1]
Larger(a, b) == IF a > b THEN a ELSE b

Owns(o) == objects[o] # None /\ objects[o].block # None
Ranges(o) == virtual_blocks[objects[o].block]

VirtualInit ==
    /\ objects = [o \in Object |-> None]
    /\ virtual_blocks = <<>>
    /\ moved = {}

construct(o) ==
    /\ objects[o] = None /\ Cardinality(DOMAIN virtual_blocks) < MaxMade
    /\ LET b == Cardinality(DOMAIN virtual_blocks) + 1 IN
          /\ objects' = [objects EXCEPT ![o] = [block |-> b, m_max |-> 0]]
          /\ virtual_blocks' = [c \in 1..b |-> IF c = b THEN {} ELSE virtual_blocks[c]]
    /\ UNCHANGED moved

HighestStart(m, r) == Larger(m, r[1])
HighestEnd(m, r) == Larger(m, r[1] + r[2])

\* The alignment asked for is not passed on.
allocate(o, r) ==
    /\ Owns(o) /\ \A q \in Ranges(o) : Apart(r, q)
    /\ virtual_blocks' = [virtual_blocks EXCEPT ![objects[o].block] = @ \cup {r}]
    /\ objects' = [objects EXCEPT ![o].m_max = HighestEnd(@, r)]
    /\ UNCHANGED moved

free(o, r) ==
    /\ Owns(o) /\ r \in Ranges(o)
    /\ virtual_blocks' = [virtual_blocks EXCEPT ![objects[o].block] = @ \ {r}]
    /\ UNCHANGED <<objects, moved>>

reset_block(o) ==
    /\ Owns(o)
    /\ virtual_blocks' = [virtual_blocks EXCEPT ![objects[o].block] = {}]
    /\ UNCHANGED <<objects, moved>>

\* The move constructor: the new object starts from no highest end.
MoveConstruct(o, u) ==
    /\ objects[o] = None /\ objects[u] # None
    /\ objects' = [objects EXCEPT ![o] = [block |-> objects[u].block, m_max |-> 0], ![u].block = None]
    /\ moved' = moved \cup {objects[u].block}
    /\ UNCHANGED virtual_blocks

\* The move assignment: the block that was here is given up.
MoveAssign(o, u) ==
    /\ objects[o] # None /\ objects[u] # None
    /\ objects' = [[objects EXCEPT ![o].block = objects[u].block] EXCEPT ![u].block = None]
    /\ moved' = moved \cup {objects[o].block, objects[u].block}
    /\ UNCHANGED virtual_blocks

destroy(o) ==
    /\ objects[o] # None
    /\ objects' = [objects EXCEPT ![o] = None]
    /\ virtual_blocks' = IF Owns(o) THEN [virtual_blocks EXCEPT ![objects[o].block] = None] ELSE virtual_blocks
    /\ UNCHANGED moved

VirtualNext ==
    \E o \in Object :
        \/ construct(o) \/ reset_block(o) \/ destroy(o)
        \/ \E r \in Span : allocate(o, r) \/ free(o, r)
        \/ \E u \in Object : MoveConstruct(o, u) \/ MoveAssign(o, u)

VirtualSpec == VirtualInit /\ [][VirtualNext]_virtualVars

-----------------------------------------------------------------------------

\* A block has one owner until it is destroyed, if it was never moved; and
\* max_id() is then at or above the end of every range in use, through any
\* order of allocations, frees and resets (virtual_allocator.cpp).
VirtualInv ==
    /\ \A o \in Object : objects[o] # None =>
          objects[o].block \in DOMAIN virtual_blocks \cup {None} /\ objects[o].m_max \in 0..BlockSize
    /\ \A o \in Object : Owns(o) => Ranges(o) # None
    /\ \A o, u \in Object : Owns(o) /\ Owns(u) /\ objects[o].block = objects[u].block => o = u
    /\ \A b \in DOMAIN virtual_blocks :
          virtual_blocks[b] # None /\ b \notin moved =>
              \E o \in Object :
                  Owns(o) /\ objects[o].block = b /\ \A r \in virtual_blocks[b] : r[1] + r[2] <= objects[o].m_max
=============================================================================
