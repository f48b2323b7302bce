----------------------------- MODULE ArenaAlloc -----------------------------
(***************************************************************************)
(* ArenaAllocator (src/util/arena_alloc.cpp): a heap of fixed size from    *)
(* which blocks are taken by moving a pointer, and given back all at once  *)
(* when the arena is destroyed.  Addresses are offsets from m_base.        *)
(*                                                                         *)
(* The check compares the size as asked for, and only then rounds it up:   *)
(* that the rounded block still fits is a fact about multiples.            *)
(***************************************************************************)
EXTENDS Integers, Sequences

CONSTANTS
    HeapSize,   \* HEAP_SIZE, in bytes
    Request     \* the sizes asked for

\* A request is not so large that the sum with a pointer wraps.
ASSUME HeapAssumption == HeapSize \in Nat /\ HeapSize % 8 = 0
ASSUME RequestAssumption == Request \subseteq Nat

VARIABLES
    m_top,
    blocks      \* the blocks handed out, in order

vars == <<m_top, blocks>>

Init ==
    /\ m_top = 0
    /\ blocks = <<>>

align_down(value) == (value \div 8) * 8

\* The mask clears the low bits of the sum.
align_up(value) == ((value + 7) \div 8) * 8

\* The null result of an arena that is full is one more outcome.
alloc(size) ==
    IF m_top + size > HeapSize
      THEN UNCHANGED vars
      ELSE /\ blocks' = Append(blocks, [start |-> m_top, size |-> size])
           /\ m_top' = m_top + align_up(size)

Next == \E size \in Request : alloc(size)

Spec == Init /\ [][Next]_vars

-----------------------------------------------------------------------------
(* Correctness.                                                            *)

Block == [start : Nat, size : Nat]

TypeOK ==
    /\ m_top \in Nat
    /\ blocks \in Seq(Block)

TopInHeap == m_top <= HeapSize /\ m_top % 8 = 0

\* Every block is inside the heap and starts at a multiple of eight bytes,
\* which is all that alloc aligns to (alloc, the test before align_up).
BlocksInHeap ==
    \A i \in DOMAIN blocks :
        blocks[i].start % 8 = 0 /\ blocks[i].start + blocks[i].size <= m_top

\* No two blocks share a byte (alloc).
BlocksApart ==
    \A i, j \in DOMAIN blocks :
        i < j => blocks[i].start + blocks[i].size <= blocks[j].start

ArenaInv == TypeOK /\ TopInHeap /\ BlocksInHeap /\ BlocksApart
=============================================================================
