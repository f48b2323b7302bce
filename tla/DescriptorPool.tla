--------------------------- MODULE DescriptorPool ---------------------------
(***************************************************************************)
(* DescriptorPool (src/descriptor_pool.cpp): descriptor sets come from the *)
(* current Vulkan pool; when it is full it is put aside and another is     *)
(* taken from the free list or created; reset frees all sets at once.      *)
(*                                                                         *)
(* A Vulkan pool has room for PoolSize units and a set takes Cost[layout]  *)
(* of them: the device refuses exactly what does not fit.  A layout that   *)
(* does not fit an empty pool is excluded: allocate_set would create pools *)
(* for ever.                                                               *)
(***************************************************************************)
EXTENDS Naturals, Sequences, Functions

CONSTANTS
    Layout,
    Cost,       \* what a set of each layout takes of a pool
    MaxCost,    \* the largest cost
    PoolSize,   \* the room of a pool
    None,
    MaxDemand   \* bound: units held between two resets

ASSUME SizeAssumption == PoolSize \in Nat /\ MaxCost \in 1..PoolSize /\ MaxDemand \in Nat
ASSUME CostAssumption == Cost \in [Layout -> 1..MaxCost] /\ None \notin Layout

VARIABLES
    created,    \* the pools made so far are 1..created
    current,    \* m_current_pool, 0 when null
    free,       \* m_free_pools
    put,        \* m_used_pools
    taken,      \* device: the units taken of each pool
    job,        \* the layout allocate_set is called with, None outside it
    held,       \* history: units handed out since the last reset
    peak,       \* history: the largest held, the one being allocated included
    destroyed   \* the pools the destructor destroyed, in order; None before it

vars == <<created, current, free, put, taken, job, held, peak, destroyed>>

TypeOK ==
    /\ created \in Nat
    /\ current \in 0..created
    /\ free \in Seq(1..created)
    /\ put \in Seq(1..created)
    /\ taken \in [1..created -> 0..PoolSize]
    /\ job \in Layout \cup {None}
    /\ held \in Nat /\ peak \in Nat
    /\ destroyed = None \/ destroyed \in Seq(1..created)

Init ==
    /\ created = 0
    /\ current = 0
    /\ free = <<>>
    /\ put = <<>>
    /\ taken = <<>>
    /\ job = None
    /\ held = 0
    /\ peak = 0
    /\ destroyed = None

-----------------------------------------------------------------------------

Alive == destroyed = None

allocate_set(l) ==
    /\ Alive /\ job = None
    /\ held + Cost[l] <= MaxDemand
    /\ job' = l
    /\ peak' = IF held + Cost[l] > peak THEN held + Cost[l] ELSE peak
    /\ UNCHANGED <<created, current, free, put, taken, held, destroyed>>

Fits == current # 0 /\ taken[current] + Cost[job] <= PoolSize

\* vkAllocateDescriptorSets succeeds and the call returns.
Succeed ==
    /\ job # None /\ Fits
    /\ taken' = [taken EXCEPT ![current] = @ + Cost[job]]
    /\ held' = held + Cost[job]
    /\ job' = None
    /\ UNCHANGED <<created, current, free, put, peak, destroyed>>

PutAside == IF current = 0 THEN put ELSE Append(put, current)

TakeRotates ==
    /\ job # None /\ ~Fits
    /\ free # <<>>
    /\ current' = free[Len(free)]
    /\ free' = SubSeq(free, 1, Len(free) - 1) \o (IF current = 0 THEN <<>> ELSE <<current>>)
    /\ UNCHANGED <<created, put, taken, job, held, peak, destroyed>>

\* next_pool with a free pool: the last one.
TakeFree ==
    /\ job # None /\ ~Fits
    /\ free # <<>>
    /\ put' = PutAside
    /\ current' = free[Len(free)]
    /\ free' = SubSeq(free, 1, Len(free) - 1)
    /\ UNCHANGED <<created, taken, job, held, peak, destroyed>>

NewPool ==
    /\ created' = created + 1
    /\ taken' = [p \in 1..created + 1 |-> IF p = created + 1 THEN 0 ELSE taken[p]]
    /\ current' = created + 1

CreateAnyway ==
    /\ job # None /\ ~Fits
    /\ put' = PutAside
    /\ NewPool
    /\ UNCHANGED <<free, job, held, peak, destroyed>>

\* next_pool with none: vkCreateDescriptorPool.
Create ==
    /\ job # None /\ ~Fits
    /\ free = <<>>
    /\ put' = PutAside
    /\ NewPool
    /\ UNCHANGED <<free, job, held, peak, destroyed>>

ResetForgetsUsed ==
    /\ Alive /\ job = None
    /\ taken' = [p \in 1..created |-> IF p = current THEN 0 ELSE taken[p]]
    /\ free' = free \o put
    /\ put' = <<>>
    /\ held' = 0
    /\ UNCHANGED <<created, current, job, peak, destroyed>>

\* reset: the current pool stays current, the used ones become free.
Reset ==
    /\ Alive /\ job = None
    /\ taken' = [p \in 1..created |-> IF p = current \/ p \in Range(put) THEN 0 ELSE taken[p]]
    /\ free' = free \o put
    /\ put' = <<>>
    /\ held' = 0
    /\ UNCHANGED <<created, current, job, peak, destroyed>>

DestroySkipsFree ==
    /\ Alive /\ job = None
    /\ destroyed' = (IF current = 0 THEN <<>> ELSE <<current>>) \o put
    /\ UNCHANGED <<created, current, free, put, taken, job, held, peak>>

\* ~DescriptorPool.
Destroy ==
    /\ Alive /\ job = None
    /\ destroyed' = (IF current = 0 THEN <<>> ELSE <<current>>) \o free \o put
    /\ UNCHANGED <<created, current, free, put, taken, job, held, peak>>

-----------------------------------------------------------------------------

AllocateStep == Succeed \/ TakeFree \/ Create

Next ==
    \/ \E l \in Layout : allocate_set(l)
    \/ AllocateStep
    \/ Reset \/ Destroy

Spec == Init /\ [][Next]_vars
FairSpec == Spec /\ WF_vars(AllocateStep)

-----------------------------------------------------------------------------
(* Correctness.                                                            *)

\* Every pool made is in exactly one place, so that none is allocated from
\* twice, forgotten or destroyed twice (next_pool, reset).
EachPoolOnce ==
    /\ IsInjective(free) /\ IsInjective(put)
    /\ Range(free) \cap Range(put) = {}
    /\ current \notin Range(free) \cup Range(put)
    /\ 1..created = Range(free) \cup Range(put) \cup ({current} \ {0})

\* A free pool is empty: what next_pool takes from the list has all its room.
FreeIsEmpty == \A i \in DOMAIN free : taken[free[i]] = 0

\* However often the sets are reset, pools are made for the largest demand
\* only: every pool but the last was once too full for the call at hand.
PoolsFollowDemand == created > 0 => (created - 1) * (PoolSize - MaxCost + 1) < peak

\* What PoolsFollowDemand rests on: how many pools are where, and how full
\* the ones put aside must be.
IInv ==
    /\ TypeOK /\ EachPoolOnce /\ FreeIsEmpty /\ PoolsFollowDemand
    /\ created = Len(free) + Len(put) + (IF current = 0 THEN 0 ELSE 1)
    /\ current = 0 => created = 0
    /\ held >= Len(put) * (PoolSize - MaxCost + 1) + (IF current = 0 THEN 0 ELSE taken[current])
    /\ peak >= held
    /\ job # None => peak >= held + Cost[job]

\* The destructor destroys each pool once.
DestroysEach ==
    destroyed # None =>
        IsInjective(destroyed) /\ Range(destroyed) = 1..created

\* allocate_set returns: the recursion through next_pool ends.
AllocateReturns == job # None ~> job = None
=============================================================================
