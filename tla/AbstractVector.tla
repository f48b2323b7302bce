--------------------------- MODULE AbstractVector ---------------------------
(***************************************************************************)
(* What SlimVec promises (src/util/slim_vec.hpp): each vector is a         *)
(* sequence, each call does to the vectors it is made on what its name and *)
(* arguments say, and no call on one vector changes another.  A vector     *)
(* that was moved from is empty.  lost is set once a call has gone through *)
(* memory that is not the vector's; nothing is promised after that.        *)
(***************************************************************************)
EXTENDS Naturals, Sequences, SequencesExt

CONSTANTS
    Vec, Elem,
    Number  \* the positions, counts and sizes that are passed

VARIABLES
    vecs,
    call,   \* the last call and its arguments
    lost

Becomes(v, s) == vecs' = [vecs EXCEPT ![v] = s]
Called(c) == call' = c

Resized(s, n, e) == [i \in 1..n |-> IF i <= Len(s) THEN s[i] ELSE e]

Cut(s, i, n) == SubSeq(s, 1, i) \o SubSeq(s, i + n + 1, Len(s))

PushBack(v, e) == Called(<<"push_back", v, e>>) /\ Becomes(v, Append(vecs[v], e))

PushBackOwn(v, i) ==
    /\ Called(<<"push_back_own", v, i>>)
    /\ i \in DOMAIN vecs[v] /\ Becomes(v, Append(vecs[v], vecs[v][i]))

PopBack(v) == Called(<<"pop_back", v>>) /\ vecs[v] # <<>> /\ Becomes(v, Front(vecs[v]))

Insert(v, i, e) ==
    /\ Called(<<"insert_at", v, i, e>>)
    /\ i \in 0..Len(vecs[v]) /\ Becomes(v, InsertAt(vecs[v], i + 1, e))

\* Only an element before the place is inserted as it was.
InsertOwn(v, i, k) ==
    /\ Called(<<"insert_own", v, i, k>>)
    /\ i \in 0..Len(vecs[v]) /\ k \in DOMAIN vecs[v]
    /\ \E e \in Elem : (k <= i => e = vecs[v][k]) /\ Becomes(v, InsertAt(vecs[v], i + 1, e))

Erase(v, i, n) ==
    /\ Called(<<"erase_at", v, i, n>>)
    /\ i + n <= Len(vecs[v]) /\ Becomes(v, Cut(vecs[v], i, n))

\* Erasing nothing keeps the length and what is before the place.
EraseNone(v, i) ==
    /\ Called(<<"erase_none", v, i>>)
    /\ \E t \in [DOMAIN vecs[v] -> Elem] :
          (\A j \in DOMAIN t : j <= i => t[j] = vecs[v][j]) /\ Becomes(v, t)

Clear(v) == call' \in {<<"clear", v>>, <<"renew", v>>} /\ Becomes(v, <<>>)

Reserve(v, n) == Called(<<"reserve", v, n>>) /\ UNCHANGED vecs

Resize(v, n, e) == Called(<<"resize", v, n, e>>) /\ Becomes(v, Resized(vecs[v], n, e))

ResizeOwn(v, n, i) ==
    /\ Called(<<"resize_own", v, n, i>>)
    /\ i \in DOMAIN vecs[v] /\ Becomes(v, Resized(vecs[v], n, vecs[v][i]))

Move(v, u) == Called(<<"move", v, u>>) /\ vecs' = [vecs EXCEPT ![v] = vecs[u], ![u] = <<>>]
Copy(v, u) == Called(<<"copy", v, u>>) /\ Becomes(v, vecs[u])
Swap(v, u) == Called(<<"swap", v, u>>) /\ vecs' = [vecs EXCEPT ![v] = vecs[u], ![u] = vecs[v]]

Init == vecs = [v \in Vec |-> <<>>] /\ call = <<>> /\ lost = FALSE

Change(v) ==
    \/ \E e \in Elem : PushBack(v, e) \/ \E n \in Number : Insert(v, n, e) \/ Resize(v, n, e)
    \/ \E n, k \in Number : InsertOwn(v, n, k) \/ ResizeOwn(v, n, k) \/ Erase(v, n, k)
    \/ \E n \in Number : PushBackOwn(v, n) \/ EraseNone(v, n) \/ Reserve(v, n)
    \/ PopBack(v) \/ Clear(v)

Next ==
    \/ /\ ~lost /\ lost' = FALSE
       /\ \E v \in Vec : Change(v) \/ \E u \in Vec : v # u /\ (Move(v, u) \/ Copy(v, u) \/ Swap(v, u))
    \/ lost' = TRUE

Spec == Init /\ [][Next]_<<vecs, call, lost>>
=============================================================================
