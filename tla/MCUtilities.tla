----------------------------- MODULE MCUtilities -----------------------------
(***************************************************************************)
(* The classes of src/util and src/debug, which share nothing with one     *)
(* another: a behaviour uses one of them, and leaves the others as they    *)
(* are at first.                                                           *)
(***************************************************************************)
EXTENDS ArenaAlloc, StencilBuffer, GPUTimer, IDManager, DenseHashMap, SlimVec, VirtualAllocator, TLC

CONSTANTS MaxBlocks,  \* bound: blocks taken, of which an empty one takes no room
          k1, k2, k3

VARIABLE used

MCDataSize == [d \in Destination |-> CASE d = "small" -> 1 [] d = "large" -> 2 [] d = "huge" -> Capacity + 1]

\* Keys that collide: the hash has two values only.
MCKey == {k1, k2, k3}
MCHash == k1 :> 1 @@ k2 :> 1 @@ k3 :> 4
MCRank == k1 :> 2 @@ k2 :> 1 @@ k3 :> 1

ASSUME UtilitiesAssumption == StagingParameters /\ TimerParameters

arenaVars == <<m_top, blocks>>
allVars == <<used, arenaVars, idVars, stagingVars, timerVars, mapVars, vecVars, virtualVars>>

UtilitiesInit ==
    /\ used \in {"arena", "ids", "staging", "timer", "map", "vector", "virtual"}
    /\ Init /\ IdsInit /\ StagingInit /\ TimerInit /\ MapInit /\ VecInit /\ VirtualInit
    /\ used # "staging" => growable
    /\ used # "timer" => m_enabled
    /\ used # "vector" => ~mem.zero

\* No call of a vector reads the last one: two states that differ in it only
\* have the same steps, each of which is checked with its own call.
AllButCall == <<used, arenaVars, idVars, stagingVars, timerVars, mapVars, mem, virtualVars>>

UseArena ==
    /\ used = "arena" /\ Len(blocks) < MaxBlocks /\ Next
    /\ UNCHANGED <<used, idVars, stagingVars, timerVars, mapVars, vecVars, virtualVars>>

UseIds ==
    /\ used = "ids" /\ IdsNext
    /\ UNCHANGED <<used, arenaVars, stagingVars, timerVars, mapVars, vecVars, virtualVars>>

UseStaging ==
    /\ used = "staging" /\ StagingNext
    /\ UNCHANGED <<used, arenaVars, idVars, timerVars, mapVars, vecVars, virtualVars>>

UseTimer ==
    /\ used = "timer" /\ TimerNext
    /\ UNCHANGED <<used, arenaVars, idVars, stagingVars, mapVars, vecVars, virtualVars>>

UseMap ==
    /\ used = "map" /\ MapNext
    /\ UNCHANGED <<used, arenaVars, idVars, stagingVars, timerVars, vecVars, virtualVars>>

UseVector ==
    /\ used = "vector" /\ VecNext
    /\ UNCHANGED <<used, arenaVars, idVars, stagingVars, timerVars, mapVars, virtualVars>>

UseVirtual ==
    /\ used = "virtual" /\ VirtualNext
    /\ UNCHANGED <<used, arenaVars, idVars, stagingVars, timerVars, mapVars, vecVars>>

UtilitiesNext ==
    UseArena \/ UseIds \/ UseStaging \/ UseTimer \/ UseMap \/ UseVector \/ UseVirtual

\* Only the job of the map is fair: a call that has begun goes on.
UtilitiesSpec == UtilitiesInit /\ [][UtilitiesNext]_allVars /\ WF_mapVars(JobStep)
=============================================================================
