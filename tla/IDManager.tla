----------------------------- MODULE IDManager -----------------------------
(***************************************************************************)
(* IDManager (src/util/id_manager.hpp): ids counted up from a start, those *)
(* given back handed out again first, and a vector that fill_ids keeps     *)
(* filled with ids.                                                        *)
(***************************************************************************)
EXTENDS Naturals, Sequences, Functions

CONSTANTS
    Start,      \* start_ids_from
    MaxId,      \* std::numeric_limits<T>::max()
    MaxCounter, \* bound: m_id_counter, which failed calls still move
    MaxVec      \* bound: length of the vector

ASSUME IdsAssumption ==
    /\ Start \in Nat /\ MaxId \in Nat /\ MaxVec \in Nat
    /\ MaxCounter \in Nat /\ Start <= MaxCounter

VARIABLES
    m_freed_ids,
    m_id_counter,
    held,       \* the ids from new_id
    vec,        \* the vector given to fill_ids
    torn        \* history: a fill_ids threw half-way

idVars == <<m_freed_ids, m_id_counter, held, vec, torn>>

IdsInit ==
    /\ m_freed_ids = <<>>
    /\ m_id_counter = Start
    /\ held = {}
    /\ vec = <<>>
    /\ torn = FALSE

\* What n calls of new_id in a row return, as far as none throws.
Nth(i) ==
    IF i <= Len(m_freed_ids)
      THEN m_freed_ids[Len(m_freed_ids) - i + 1]
      ELSE m_id_counter + (i - Len(m_freed_ids) - 1)

Taken(n) == [i \in 1..n |-> Nth(i)]

\* The counter moves before it is compared with the largest id.
Throws(n) == n > Len(m_freed_ids) /\ Nth(n) > MaxId
Failing(n) == CHOOSE k \in 1..n : Throws(k) /\ \A j \in 1..k - 1 : ~Throws(j)

ConsumeKeepsFreed(n) ==
    /\ UNCHANGED m_freed_ids
    /\ m_id_counter' = IF n <= Len(m_freed_ids) THEN m_id_counter
                         ELSE m_id_counter + (n - Len(m_freed_ids))
    /\ m_id_counter' <= MaxCounter

Consume(n) ==
    /\ m_freed_ids' = IF n <= Len(m_freed_ids)
                        THEN SubSeq(m_freed_ids, 1, Len(m_freed_ids) - n)
                        ELSE <<>>
    /\ m_id_counter' = IF n <= Len(m_freed_ids) THEN m_id_counter
                         ELSE m_id_counter + (n - Len(m_freed_ids))
    /\ m_id_counter' <= MaxCounter

new_id ==
    /\ Consume(1)
    /\ held' = IF Throws(1) THEN held ELSE held \cup {Nth(1)}
    /\ UNCHANGED <<vec, torn>>

free_id(id) ==
    /\ id \in held
    /\ held' = held \ {id}
    /\ m_freed_ids' = Append(m_freed_ids, id)
    /\ UNCHANGED <<m_id_counter, vec, torn>>

\* The elements the exception leaves unfilled are zero.
Grow(n) ==
    /\ n > Len(vec)
    /\ LET more == n - Len(vec) IN
         IF Throws(more)
           THEN /\ Consume(Failing(more))
                /\ vec' = vec \o [i \in 1..more |-> IF i < Failing(more) THEN Nth(i) ELSE 0]
                /\ torn' = TRUE
           ELSE /\ Consume(more)
                /\ vec' = vec \o Taken(more)
                /\ UNCHANGED torn
    /\ UNCHANGED held

Shrink(n) ==
    /\ n < Len(vec)
    /\ m_freed_ids' = m_freed_ids \o SubSeq(vec, n + 1, Len(vec))
    /\ vec' = SubSeq(vec, 1, n)
    /\ UNCHANGED <<m_id_counter, held, torn>>

fill_ids(n) == Grow(n) \/ Shrink(n)

IdsNext ==
    \/ new_id
    \/ \E id \in held : free_id(id)
    \/ \E n \in 0..MaxVec : fill_ids(n)

IdsSpec == IdsInit /\ [][IdsNext]_idVars

-----------------------------------------------------------------------------
(* Correctness.                                                            *)

InVec == Range(vec)
Freed == Range(m_freed_ids)

IdsTypeOK ==
    /\ m_freed_ids \in Seq(0..MaxId)
    /\ m_id_counter \in Start..MaxCounter
    /\ held \subseteq 0..MaxId
    /\ vec \in Seq(0..MaxId) /\ Len(vec) <= MaxVec
    /\ torn \in BOOLEAN

\* Every id that was ever made is in one place, and no id is in two: handed
\* out twice, it would name two things.  A fill_ids that ran out of ids
\* half-way breaks this: a later shrink frees zeros (new_id, free_id, fill_ids).
IdsUnique ==
    /\ IdsTypeOK
    /\ ~torn =>
        /\ IsInjective(vec) /\ IsInjective(m_freed_ids)
        /\ held \cap InVec = {} /\ held \cap Freed = {} /\ InVec \cap Freed = {}
        /\ held \cup InVec \cup Freed = Start..(IF m_id_counter > MaxId THEN MaxId ELSE m_id_counter - 1)
=============================================================================
