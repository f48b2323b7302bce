------------------------------- MODULE SlimVec -------------------------------
(***************************************************************************)
(* SlimVec as a SmallVec (src/util/slim_vec.hpp): a vector that keeps its  *)
(* first elements in the bytes of its own pointer and capacity.  m_size    *)
(* tells which: from _small_vec_base_size on it is the size of an inline   *)
(* vector.  A vector emptied by _cleanup or moved from is never inline     *)
(* again until it is moved into.  malloc(0) returns a block or nullptr, as *)
(* the platform chooses.  A const T& may be an element of the vector it is *)
(* passed to.                                                              *)
(*                                                                         *)
(* mem holds the vectors and the heap.  An element slot is Zero before     *)
(* anything was written there, Dead when its element was destroyed: inline *)
(* the bytes stay, and are what m_data_ptr and m_capacity read as once     *)
(* m_size says the vector is on the heap.                                  *)
(***************************************************************************)
EXTENDS Naturals, Sequences, FiniteSets

CONSTANTS
    Vec,        \* the vectors of the application
    Tmp,        \* the temporary of std::swap
    Elem,       \* the elements
    DefaultElem,    \* T()
    Zero, Dead, \* slots without an element
    ItemCap,    \* _small_vec_item_capacity
    Overlap,    \* the first inline slot that covers m_capacity; ItemCap + 1 if none
    HeapBlock,  \* heap blocks: malloc does not fail
    Null,       \* nullptr
    Garbage,    \* the bytes of an element, read as a pointer
    SizeMax,    \* UINT32_MAX
    MaxLen      \* bound: elements of a vector

ASSUME VectorAssumption ==
    /\ ItemCap \in Nat \ {0} /\ Overlap \in 2..ItemCap + 1 /\ MaxLen \in Nat
    /\ SizeMax \in Nat /\ SizeMax > ItemCap + 1 + 2 * MaxLen
    /\ Zero # Dead /\ {Zero, Dead} \cap (Elem \cup {DefaultElem}) = {}
    /\ Tmp \notin Vec /\ Null # Garbage /\ {Null, Garbage} \cap HeapBlock = {}
    /\ IsFiniteSet(Vec) /\ (IsFiniteSet(HeapBlock) => Cardinality(HeapBlock) > Cardinality(Vec))

VARIABLES
    mem,        \* the vectors, the blocks allocated, whether malloc(0) returns a
                \* block, whether every free, read and write was sound; whether an
                \* inline element was moved away, an argument moved with the storage
                \* it was in, a block of no bytes lost
    call        \* the last call and its arguments

vecVars == <<mem, call>>

Base == SizeMax - (ItemCap + 1)
Item == Elem \cup {DefaultElem}

Small(r) == r.m_size >= Base
SizeOf(r) == IF Small(r) THEN r.m_size - Base ELSE r.m_size
CapacityOf(r) == IF Small(r) THEN ItemCap ELSE r.m_capacity
WithSize(r, n) == [r EXCEPT !.m_size = IF Small(r) THEN n + Base ELSE n]

Zeros == [i \in 1..ItemCap |-> Zero]
Made == [m_size |-> Base, m_capacity |-> 0, m_data |-> Null, slots |-> Zeros]
Wiped == [m_size |-> 0, m_capacity |-> 0, m_data |-> Null, slots |-> <<>>]

VecInit ==
    /\ \E z \in BOOLEAN :
          mem = [vec |-> [v \in Vec \cup {Tmp} |-> Made], heap |-> {}, zero |-> z, ok |-> TRUE,
                 spent |-> FALSE, aliased |-> FALSE, leaked |-> FALSE]
    /\ call = <<>>

-----------------------------------------------------------------------------
(* The private functions, from one state of the memory to the next.        *)

Free(m, p) == [m EXCEPT !.heap = @ \ {p}, !.ok = @ /\ p \in m.heap]

\* The bytes of T()s and moved elements go where _data() points.
Write(m, v, n, f) ==
    [m EXCEPT !.vec[v] = WithSize([@ EXCEPT !.slots = f], n),
              !.ok = @ /\ (Small(m.vec[v]) \/ m.vec[v].m_data # Garbage)]

\* A block of no bytes, with a capacity of zero, is not freed: it is not one
\* of the heap's any more, nor of anyone's.
_cleanup(m, v) ==
    LET r == m.vec[v]
        freed == CASE ~Small(r) /\ r.m_capacity > 0 -> Free(m, r.m_data)
                   [] ~Small(r) /\ r.m_capacity = 0 /\ r.m_data \in HeapBlock ->
                        [m EXCEPT !.heap = @ \ {r.m_data}, !.leaked = TRUE]
                   [] OTHER -> m
    IN  [freed EXCEPT !.vec[v] = Wiped]

\* A block on the heap is replaced even when it is large enough.
_set_capacity(m, v, n) ==
    LET r == m.vec[v]
        block == IF n = 0 /\ ~m.zero THEN Null ELSE CHOOSE b \in HeapBlock : b \notin m.heap
        grown == [m EXCEPT
            !.heap = @ \cup ({block} \ {Null}),
            !.vec[v] = [m_size |-> SizeOf(r), m_capacity |-> n, m_data |-> block,
                        slots |-> [i \in 1..n |-> IF i <= SizeOf(r) THEN r.slots[i] ELSE Dead]]]
    IN  IF Small(r) /\ n <= ItemCap THEN m
        ELSE IF Small(r) \/ r.m_data = Null THEN grown
        ELSE Free(grown, r.m_data)

_ensure_capacity_for_push_back(m, v) ==
    LET c == CapacityOf(m.vec[v]) IN
    IF SizeOf(m.vec[v]) # c THEN m
    ELSE _set_capacity(m, v, IF c = 0 THEN 4 ELSE (c * 3 + 1) \div 2)

\* m_size = 0 on an inline vector: its bytes become a pointer and a capacity.
Spent(r) ==
    [Wiped EXCEPT
        !.m_data = IF r.slots[1] = Zero THEN Null ELSE Garbage,
        !.m_capacity = IF Overlap > ItemCap \/ r.slots[Overlap] = Zero THEN 0 ELSE MaxLen + 1]

MoveSharesBlock(m, v, u) ==
    LET c == _cleanup(m, v) IN
    [c EXCEPT !.vec[v] = c.vec[u], !.vec[u] = IF Small(@) THEN Spent(@) ELSE @,
              !.spent = @ \/ (Small(c.vec[u]) /\ c.vec[u].slots[1] # Zero)]

_move_from(m, v, u) ==
    LET c == _cleanup(m, v)
        r == c.vec[u]
        taken == [i \in 1..ItemCap |-> IF i <= SizeOf(r) THEN r.slots[i] ELSE Zero]
    IN  IF Small(r)
          THEN [c EXCEPT !.vec[v] = [Made EXCEPT !.m_size = r.m_size, !.slots = taken],
                         !.vec[u] = Spent(r),
                         !.spent = @ \/ r.slots[1] # Zero]
          ELSE [c EXCEPT !.vec[v] = r, !.vec[u] = Wiped]

_copy_from(m, v, u) ==
    LET n == SizeOf(m.vec[u])
        c == _set_capacity(_cleanup(m, v), v, n)
    IN  Write(c, v, n, [i \in 1..n |-> m.vec[u].slots[i]])

-----------------------------------------------------------------------------
(* The calls.                                                              *)

Rec(v) == mem.vec[v]
Put(f, i, e) == [j \in DOMAIN f |-> IF j = i THEN e ELSE f[j]]
Size(v) == SizeOf(Rec(v))

\* The memory c that a call made ready, when its argument is an element of the
\* vector: if there is other storage now, the argument is read after its end.
Referring(c) == IF c = mem THEN c ELSE [c EXCEPT !.ok = FALSE, !.aliased = TRUE]

Pushed(c, v, e) == Write(c, v, Size(v) + 1, Put(c.vec[v].slots, Size(v) + 1, e))

\* push_back and emplace_back.
push_back(v, e) ==
    Size(v) < MaxLen /\ mem' = Pushed(_ensure_capacity_for_push_back(mem, v), v, e)

\* The same of element i.
push_back_own(v, i) ==
    /\ Size(v) < MaxLen /\ i \in 1..Size(v)
    /\ mem' = Pushed(Referring(_ensure_capacity_for_push_back(mem, v)), v, Rec(v).slots[i])

\* pop_back, and try_pop_back of a vector that has an element.
pop_back(v) ==
    /\ Size(v) > 0
    /\ mem' = Write(mem, v, Size(v) - 1, Put(Rec(v).slots, Size(v), Dead))

Opened(c, v, i, e) ==
    LET f == c.vec[v].slots IN
    Write(c, v, Size(v) + 1, [j \in DOMAIN f |-> CASE j <= i -> f[j]
                                                   [] j = i + 1 -> e
                                                   [] j > i + 1 /\ j <= Size(v) + 1 -> f[j - 1]
                                                   [] OTHER -> f[j]])

insert_at(v, i, e) ==
    /\ Size(v) < MaxLen /\ i <= Size(v)
    /\ mem' = Opened(_ensure_capacity_for_push_back(mem, v), v, i, e)

\* The same of element k, which is read once the elements behind the place have
\* moved: by then it is the one before it, or what was left of a moved element.
insert_own(v, i, k) ==
    /\ Size(v) < MaxLen /\ i <= Size(v) /\ k \in 1..Size(v)
    /\ \E e \in Item :
          /\ k # i + 1 => e = Rec(v).slots[IF k <= i THEN k ELSE k - 1]
          /\ mem' = Opened(Referring(_ensure_capacity_for_push_back(mem, v)), v, i, e)

EraseForgetsLast(v, i, n) ==
    LET f == Rec(v).slots IN
    /\ i + n <= Size(v)
    /\ mem' = Write(mem, v, Size(v) - n, [j \in DOMAIN f |-> IF i < j /\ j < Size(v) - n THEN f[j + n]
                                                             ELSE IF Size(v) - n < j /\ j <= Size(v) THEN Dead ELSE f[j]])

\* The elements behind move up, the last n > 0 slots are destroyed.
erase_at(v, i, n) ==
    LET f == Rec(v).slots IN
    /\ i + n <= Size(v)
    /\ mem' = Write(mem, v, Size(v) - n, [j \in DOMAIN f |-> IF i < j /\ j <= Size(v) - n THEN f[j + n]
                                                             ELSE IF Size(v) - n < j /\ j <= Size(v) THEN Dead ELSE f[j]])

\* erase_at with a count of zero moves every element behind to itself, which
\* leaves it with a value of its type's choice.
erase_none(v, i) ==
    LET f == Rec(v).slots IN
    /\ i < Size(v)
    /\ \E g \in [1..Size(v) -> Item] :
          mem' = Write(mem, v, Size(v), [j \in DOMAIN f |-> IF i < j /\ j <= Size(v) THEN g[j] ELSE f[j]])

clear(v) ==
    LET f == Rec(v).slots IN
    mem' = [mem EXCEPT !.vec[v] =
                WithSize([@ EXCEPT !.slots = [j \in DOMAIN f |-> IF j <= Size(v) THEN Dead ELSE f[j]]], 0)]

reserve(v, n) == mem' = _set_capacity(mem, v, IF n > Size(v) THEN n ELSE Size(v))

_ensure_capacity(v, n) == IF CapacityOf(Rec(v)) < n THEN _set_capacity(mem, v, n) ELSE mem

Resized(c, v, n, e) ==
    LET f == c.vec[v].slots IN
    Write(c, v, n, [j \in DOMAIN f |-> IF j <= Size(v) /\ j <= n THEN f[j]
                                        ELSE IF j <= n THEN e
                                        ELSE IF j <= Size(v) THEN Dead ELSE f[j]])

resize(v, n, e) == n # Size(v) /\ mem' = Resized(_ensure_capacity(v, n), v, n, e)

\* The same with element i for the value, which only growth reads.
resize_own(v, n, i) ==
    /\ n > Size(v) /\ i \in 1..Size(v)
    /\ mem' = Resized(Referring(_ensure_capacity(v, n)), v, n, Rec(v).slots[i])

\* The constructor and the assignment from an rvalue.
move(v, u) == u # v /\ mem' = _move_from(mem, v, u)

\* The constructor and assign(const SlimVec&), not of a vector to itself.
copy(v, u) == u # v /\ mem' = _copy_from(mem, v, u)

\* std::swap: a temporary that is destroyed at the end.
swap(v, u) ==
    /\ u # v
    /\ mem' = [_cleanup(_move_from(_move_from(_move_from(mem, Tmp, v), v, u), u, Tmp), Tmp)
                  EXCEPT !.vec[Tmp] = Made]

\* A vector ends and another begins in its place.
renew(v) == mem' = [_cleanup(mem, v) EXCEPT !.vec[v] = Made]

Adding(v) ==
    \/ \E e \in Item : push_back(v, e) /\ call' = <<"push_back", v, e>>
    \/ \E i \in 1..MaxLen : push_back_own(v, i) /\ call' = <<"push_back_own", v, i>>
    \/ \E i \in 0..MaxLen, e \in Item : insert_at(v, i, e) /\ call' = <<"insert_at", v, i, e>>
    \/ \E i \in 0..MaxLen, k \in 1..MaxLen : insert_own(v, i, k) /\ call' = <<"insert_own", v, i, k>>

Shrinking(v) ==
    \/ pop_back(v) /\ call' = <<"pop_back", v>>
    \/ \E i \in 0..MaxLen, n \in 1..MaxLen : erase_at(v, i, n) /\ call' = <<"erase_at", v, i, n>>
    \/ \E i \in 0..MaxLen : erase_none(v, i) /\ call' = <<"erase_none", v, i>>
    \/ clear(v) /\ call' = <<"clear", v>>
    \/ renew(v) /\ call' = <<"renew", v>>

Sizing(v) ==
    \/ \E n \in 0..MaxLen : reserve(v, n) /\ call' = <<"reserve", v, n>>
    \/ \E n \in 0..MaxLen, e \in Item : resize(v, n, e) /\ call' = <<"resize", v, n, e>>
    \/ \E n, i \in 1..MaxLen : resize_own(v, n, i) /\ call' = <<"resize_own", v, n, i>>

Passing(v, u) ==
    \/ move(v, u) /\ call' = <<"move", v, u>>
    \/ copy(v, u) /\ call' = <<"copy", v, u>>
    \/ swap(v, u) /\ call' = <<"swap", v, u>>

VecNext ==
    /\ mem.ok
    /\ \E v \in Vec : Adding(v) \/ Shrinking(v) \/ Sizing(v) \/ \E u \in Vec : Passing(v, u)

VecSpec == VecInit /\ [][VecNext]_vecVars

-----------------------------------------------------------------------------
(* Correctness.                                                            *)

OnHeap == {v \in Vec \cup {Tmp} : ~Small(Rec(v)) /\ Rec(v).m_data \in HeapBlock}

VecTypeOK ==
    /\ mem.heap \subseteq HeapBlock
    /\ \A flag \in {mem.zero, mem.ok, mem.spent, mem.aliased, mem.leaked} : flag \in BOOLEAN
    /\ \A v \in Vec \cup {Tmp} :
          Rec(v).m_size \in 0..SizeMax /\ Rec(v).m_data \in HeapBlock \cup {Null, Garbage}

\* Every block has one owner, which sees its whole length; below the size
\* every slot has an element, above it none.
VecsSound ==
    /\ {Rec(v).m_data : v \in OnHeap} = mem.heap
    /\ \A v, u \in OnHeap : Rec(v).m_data = Rec(u).m_data => v = u
    /\ \A v \in Vec : LET r == Rec(v) IN
          /\ SizeOf(r) <= CapacityOf(r)
          /\ \A i \in DOMAIN r.slots : r.slots[i] \in Item <=> i <= SizeOf(r)

\* Blocks are neither shared, freed twice nor leaked by any order of growth,
\* copies and moves, and nothing else is freed, read or written, with three
\* exceptions: once an element was moved out of an inline vector, once an
\* argument was an element whose storage the call replaced, and the block of no
\* bytes that malloc(0) returns on some platforms, which _cleanup does not free
\* (_cleanup, _move_from, _set_capacity).
SlimVecInv ==
    /\ VecTypeOK
    /\ mem.ok => VecsSound
    /\ ~mem.spent /\ ~mem.aliased => mem.ok
    /\ mem.leaked => mem.zero

\* A vector that is not inline points to a block or to nothing: m_size is not
\* set apart from the storage it describes (the comment at _set_size).
HeapPointersOwned == \A v \in Vec : ~Small(Rec(v)) => Rec(v).m_data \in mem.heap \cup {Null}

Elements(v) == [i \in 1..Size(v) |-> Rec(v).slots[i]]

AsVectors == INSTANCE AbstractVector WITH Elem <- Item, Number <- 0..MaxLen, vecs <- [v \in Vec |-> Elements(v)], lost <- ~mem.ok

\* Every call does to the vectors it is made on what the call of that name and
\* those arguments does to sequences, inline, on the heap and on the way from
\* one to the other, as long as the memory is sound (the whole of slim_vec.hpp).
ImplementsVectors == AsVectors!Spec
=============================================================================
