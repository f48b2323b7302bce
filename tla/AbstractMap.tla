---------------------------- MODULE AbstractMap ----------------------------
(***************************************************************************)
(* What DenseHashMap promises its users: a finite map from keys to values  *)
(* with the answers of std::unordered_map (src/util/hash_map.hpp, the      *)
(* sections modifier and lookup).                                          *)
(***************************************************************************)
CONSTANTS
    Key,
    Value,
    Default,    \* the value V()
    Absent      \* no value

VARIABLES
    map,        \* the value of each key, Absent for a key not in the map
    answer      \* what the last finished call returned

Answer == [op : {"none", "insert", "subscript", "at", "erase"},
           ok : BOOLEAN, value : Value \cup {Absent}]

TypeOK ==
    /\ map \in [Key -> Value \cup {Absent}]
    /\ answer \in Answer

Empty == [k \in Key |-> Absent]
Quiet == [op |-> "none", ok |-> TRUE, value |-> Absent]

Init == map = Empty /\ answer = Quiet

\* insert never overwrites; it says whether it inserted.
Insert(k, v) ==
    /\ map' = IF map[k] = Absent THEN [map EXCEPT ![k] = v] ELSE map
    /\ answer' = [op |-> "insert", ok |-> map[k] = Absent, value |-> map'[k]]

\* operator[] inserts a default value for a missing key.
Subscript(k) ==
    /\ map' = IF map[k] = Absent THEN [map EXCEPT ![k] = Default] ELSE map
    /\ answer' = [op |-> "subscript", ok |-> TRUE, value |-> map'[k]]

\* A write through the reference a lookup gave.
Store(k, v) ==
    /\ map[k] # Absent
    /\ map' = [map EXCEPT ![k] = v]
    /\ answer' = Quiet

\* at, find, contains and count: the exception, end(), false and 0 are
\* the same answer here.
At(k) ==
    /\ answer' = [op |-> "at", ok |-> map[k] # Absent, value |-> map[k]]
    /\ map' = map

Erase(k) ==
    /\ answer' = [op |-> "erase", ok |-> map[k] # Absent, value |-> Absent]
    /\ map' = [map EXCEPT ![k] = Absent]

\* clear, and the map a move took the contents of.
Clear == map' = Empty /\ answer' = Quiet

\* reserve, rehash, sort_by_key: nothing a lookup could tell.
Rearrange == map' = map /\ answer' = Quiet

Next ==
    \/ Rearrange \/ Clear
    \/ \E k \in Key : \/ \E v \in Value : Insert(k, v) \/ Store(k, v)
                      \/ Subscript(k) \/ At(k) \/ Erase(k)

Spec == Init /\ [][Next]_<<map, answer>>
=============================================================================
