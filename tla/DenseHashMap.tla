---------------------------- MODULE DenseHashMap ----------------------------
(***************************************************************************)
(* DenseHashMap of src/util/hash_map.hpp: keys and values in two dense     *)
(* arrays, found through an open-addressed table of indices with linear    *)
(* probing, tombstones that are never reused, and swap-with-last erasure.  *)
(*                                                                         *)
(* The map is sequential.  A call that may reallocate is a job of several  *)
(* steps, one for each turn of the code's recursion or of the loop of      *)
(* _rehash_all; every other call is one step.  The code's indices start at *)
(* 0 and its two sentinels are the largest values of size_type; here       *)
(* indices start at 1, and the sentinels lie below them.                   *)
(***************************************************************************)
EXTENDS Integers, Sequences, Functions

CONSTANTS
    Key,
    Value,
    Default,            \* V()
    Absent,             \* no value
    Hash,               \* Hasher
    Rank,               \* the order sort_by_key is given
    initial_capacity,   \* 7 in the code
    MaxStorage          \* bound: calls may grow a map of at most this storage

ASSUME MapAssumption ==
    /\ Default \in Value /\ Absent \notin Value
    /\ Hash \in [Key -> Nat] /\ Rank \in [Key -> Nat]
    /\ initial_capacity \in Nat \ {0} /\ MaxStorage \in Nat

VARIABLES
    table,      \* m_index_table
    keys,       \* m_keys, the constructed ones
    vals,       \* m_values, likewise
    toIndex,    \* _rehash_all's loop variable; 0 outside it
    job,        \* the call in progress
    answer      \* what the last finished call returned

mapVars == <<table, keys, vals, toIndex, job, answer>>

empty_kv_index == 0
erased_kv_index == -1
null_index_table_index == 0

m_index_table_size == Len(table)
m_kv_pair_count == Len(keys)
get_kv_storage_size == m_index_table_size \div 2
can_push_to_kv_storage == m_kv_pair_count < get_kv_storage_size

NoJob == [op |-> "none", key |-> Absent, value |-> Absent]
Job == [op : {"insert", "subscript"}, key : Key, value : Value]
Quiet == [op |-> "none", ok |-> TRUE, value |-> Absent]
Answer == [op : {"none", "insert", "subscript", "at", "erase"},
           ok : BOOLEAN, value : Value \cup {Absent}]

MapTypeOK ==
    /\ table \in Seq(Nat \cup {erased_kv_index})
    /\ keys \in Seq(Key)
    /\ vals \in Seq(Value)
    /\ Len(vals) = Len(keys)
    /\ toIndex \in 0..m_kv_pair_count
    /\ job \in Job \cup {NoJob}
    /\ answer \in Answer

MapInit ==
    /\ table = <<>>
    /\ keys = <<>>
    /\ vals = <<>>
    /\ toIndex = 0
    /\ job = NoJob
    /\ answer = Quiet

-----------------------------------------------------------------------------
(* Probing.                                                                *)

Slot(k, i) == 1 + ((Hash[k] + i) % m_index_table_size)

HoldsKey(k, s) == table[s] > 0 /\ keys[table[s]] = k

\* The turns of the probe loop that return.
Stops(k) ==
    {i \in 0..m_index_table_size - 1 :
        table[Slot(k, i)] = empty_kv_index \/ HoldsKey(k, Slot(k, i))}

First(S) == CHOOSE i \in S : \A j \in S : i <= j

find_table_index(k) ==
    IF Stops(k) = {} THEN null_index_table_index ELSE Slot(k, First(Stops(k)))

Occupied(k) == \E i \in Stops(k) : i = First(Stops(k)) /\ HoldsKey(k, Slot(k, i))

find_kv_index(k) == IF Occupied(k) THEN table[find_table_index(k)] ELSE empty_kv_index

Blank(n) == [s \in 1..n |-> empty_kv_index]

-----------------------------------------------------------------------------
(* Reallocation and _rehash_all.                                           *)

Idle == job = NoJob /\ toIndex = 0

StartRehash == IF keys = <<>> THEN 0 ELSE 1

\* _reserve up to the loop of _rehash_all; its assertion is the guard.
_reserve(n) ==
    /\ n >= m_kv_pair_count
    /\ table' = Blank(2 * n)
    /\ toIndex' = StartRehash
    /\ UNCHANGED <<keys, vals>>

\* One turn of the loop of _rehash_all.
RehashNext ==
    /\ toIndex > 0
    /\ find_table_index(keys[toIndex]) # null_index_table_index
    /\ table' = [table EXCEPT ![find_table_index(keys[toIndex])] = toIndex]
    /\ toIndex' = IF toIndex = m_kv_pair_count THEN 0 ELSE toIndex + 1
    /\ UNCHANGED <<keys, vals, job, answer>>

\* reserve, and the hint of insert(first, last): the application asks for no
\* less than the map holds.
Reserve(n) ==
    /\ Idle /\ n <= MaxStorage
    /\ _reserve(n)
    /\ answer' = Quiet
    /\ UNCHANGED job

Rehash ==
    /\ Idle
    /\ table' = Blank(m_index_table_size)
    /\ toIndex' = StartRehash
    /\ answer' = Quiet
    /\ UNCHANGED <<keys, vals, job>>

SortSwapsKeysOnly ==
    /\ Idle
    /\ \E p \in Bijection(DOMAIN keys, DOMAIN keys) : keys' = [i \in DOMAIN keys |-> keys[p[i]]]
    /\ \A i, j \in DOMAIN keys : i < j => Rank[keys'[i]] <= Rank[keys'[j]]
    /\ table' = Blank(m_index_table_size)
    /\ toIndex' = StartRehash
    /\ answer' = Quiet
    /\ UNCHANGED <<vals, job>>

\* sort_by_key: both arrays are permuted alike, then everything is indexed.
sort_by_key ==
    /\ Idle
    /\ \E p \in Bijection(DOMAIN keys, DOMAIN keys) :
          /\ keys' = [i \in DOMAIN keys |-> keys[p[i]]]
          /\ vals' = [i \in DOMAIN keys |-> vals[p[i]]]
    /\ \A i, j \in DOMAIN keys : i < j => Rank[keys'[i]] <= Rank[keys'[j]]
    /\ table' = Blank(m_index_table_size)
    /\ toIndex' = StartRehash
    /\ answer' = Quiet
    /\ UNCHANGED job

-----------------------------------------------------------------------------
(* insert and operator[].                                                  *)

Begin(op, k, v) ==
    /\ Idle /\ get_kv_storage_size <= MaxStorage
    /\ job' = [op |-> op, key |-> k, value |-> v]
    /\ answer' = Quiet
    /\ UNCHANGED <<table, keys, vals, toIndex>>

Return(a) == answer' = a /\ job' = NoJob

\* Nowhere to put the index, or no room for the pair.
NoRoom(k) ==
    /\ ~Occupied(k)
    /\ find_table_index(k) # null_index_table_index => ~can_push_to_kv_storage

ExpandBySame ==
    /\ job # NoJob /\ toIndex = 0
    /\ m_index_table_size > 0
    /\ NoRoom(job.key)
    /\ _reserve(get_kv_storage_size)
    /\ UNCHANGED <<job, answer>>

\* expand, then _insert calls itself again.
Expand ==
    /\ job # NoJob /\ toIndex = 0
    /\ m_index_table_size > 0
    /\ NoRoom(job.key)
    /\ _reserve(get_kv_storage_size * 2 + 1)
    /\ UNCHANGED <<job, answer>>

FirstReserve ==
    /\ job # NoJob /\ toIndex = 0
    /\ m_index_table_size = 0
    /\ _reserve(initial_capacity)
    /\ UNCHANGED <<job, answer>>

InsertExisting ==
    /\ job # NoJob /\ toIndex = 0
    /\ Occupied(job.key)
    /\ Return([op |-> job.op, ok |-> job.op = "subscript", value |-> vals[find_kv_index(job.key)]])
    /\ UNCHANGED <<table, keys, vals, toIndex>>

\* push_back_to_kv_storage and the new entry of the table.
PushBack ==
    /\ job # NoJob /\ toIndex = 0
    /\ find_table_index(job.key) # null_index_table_index /\ ~Occupied(job.key)
    /\ can_push_to_kv_storage
    /\ keys' = Append(keys, job.key)
    /\ vals' = Append(vals, job.value)
    /\ table' = [table EXCEPT ![find_table_index(job.key)] = m_kv_pair_count + 1]
    /\ Return([op |-> job.op, ok |-> TRUE, value |-> job.value])
    /\ UNCHANGED toIndex

-----------------------------------------------------------------------------
(* The calls of one step.                                                  *)

\* at, find, contains, count.
At(k) ==
    /\ Idle
    /\ answer' = [op |-> "at", ok |-> Occupied(k),
                  value |-> IF Occupied(k) THEN vals[find_kv_index(k)] ELSE Absent]
    /\ UNCHANGED <<table, keys, vals, toIndex, job>>

\* A write through the reference of a lookup or an iterator.
Store(i, v) ==
    /\ Idle /\ i \in DOMAIN keys
    /\ vals' = [vals EXCEPT ![i] = v]
    /\ answer' = Quiet
    /\ UNCHANGED <<table, keys, toIndex, job>>

\* erase_kv_pair: the last pair moves into the hole.
ButLast(s) == SubSeq(s, 1, Len(s) - 1)
Filled(s, i) == ButLast([s EXCEPT ![i] = s[Len(s)]])

EraseToEmpty(k) ==
    /\ Idle
    /\ answer' = [op |-> "erase", ok |-> Occupied(k), value |-> Absent]
    /\ IF Occupied(k)
         THEN /\ keys' = Filled(keys, find_kv_index(k))
              /\ vals' = Filled(vals, find_kv_index(k))
              /\ table' = [table EXCEPT ![find_table_index(keys[m_kv_pair_count])] = find_kv_index(k),
                                        ![find_table_index(k)] = empty_kv_index]
         ELSE UNCHANGED <<table, keys, vals>>
    /\ UNCHANGED <<toIndex, job>>

Erase(k) ==
    /\ Idle
    /\ answer' = [op |-> "erase", ok |-> Occupied(k), value |-> Absent]
    /\ IF Occupied(k)
         THEN /\ keys' = Filled(keys, find_kv_index(k))
              /\ vals' = Filled(vals, find_kv_index(k))
              /\ table' = [table EXCEPT ![find_table_index(keys[m_kv_pair_count])] = find_kv_index(k),
                                        ![find_table_index(k)] = erased_kv_index]
         ELSE UNCHANGED <<table, keys, vals>>
    /\ UNCHANGED <<toIndex, job>>

Clear ==
    /\ Idle
    /\ keys' = <<>> /\ vals' = <<>>
    /\ table' = Blank(m_index_table_size)
    /\ answer' = Quiet
    /\ UNCHANGED <<toIndex, job>>

\* The source of a move, and cleanup: no storage at all.
MovedFrom ==
    /\ Idle
    /\ keys' = <<>> /\ vals' = <<>> /\ table' = <<>>
    /\ answer' = Quiet
    /\ UNCHANGED <<toIndex, job>>

-----------------------------------------------------------------------------

JobStep == RehashNext \/ FirstReserve \/ Expand \/ InsertExisting \/ PushBack

Call ==
    \/ \E k \in Key :
          \/ \E v \in Value : Begin("insert", k, v)
          \/ Begin("subscript", k, Default)
          \/ At(k) \/ Erase(k)
    \/ \E i \in DOMAIN keys, v \in Value : Store(i, v)
    \/ \E n \in 0..MaxStorage : Reserve(n)
    \/ Rehash \/ sort_by_key \/ Clear \/ MovedFrom

MapNext == JobStep \/ Call

MapSpec == MapInit /\ [][MapNext]_mapVars

-----------------------------------------------------------------------------
(* Correctness.                                                            *)

\* The pairs _rehash_all has already put into the table: all outside it.
Indexed == IF toIndex = 0 THEN DOMAIN keys ELSE 1..toIndex - 1

\* Every indexed key is found where it is, whatever tombstones and foreign
\* keys its probe meets (find_table_index, _erase, erase_kv_pair).
EveryKeyFound == \A i \in Indexed : Occupied(keys[i]) /\ find_kv_index(keys[i]) = i

\* The table holds nothing else: no index twice, none beyond the pairs, so
\* that no probe reads a key that was destroyed.
NoStrayIndex ==
    /\ \A s \in DOMAIN table : table[s] > 0 => table[s] \in Indexed
    /\ \A s, t \in DOMAIN table : table[s] > 0 /\ table[s] = table[t] => s = t

\* The code's assertions and its "failed to rehash table": the storage holds
\* the pairs, no key is there twice, and a rehash always finds a free slot.
StorageSuffices ==
    /\ m_kv_pair_count <= get_kv_storage_size
    /\ IsInjective(keys)
    /\ toIndex > 0 => find_table_index(keys[toIndex]) # null_index_table_index

\* The table and the dense arrays agree between any two steps.
MapInv == MapTypeOK /\ EveryKeyFound /\ NoStrayIndex /\ StorageSuffices

\* An insertion ends, whatever it has to grow (the recursion of _insert).
InsertEnds == job # NoJob ~> job = NoJob

\* The map as its users see it: a function of the dense arrays alone.
Contents ==
    [k \in Key |-> IF \E i \in DOMAIN keys : keys[i] = k
                     THEN vals[CHOOSE i \in DOMAIN keys : keys[i] = k]
                     ELSE Absent]

AsMap == INSTANCE AbstractMap WITH map <- Contents

\* Every call answers as the abstract map does, through growth, tombstones,
\* sorting and swapped erasures.
ImplementsMap == AsMap!Spec
=============================================================================
