----------------------------- MODULE MCRefCount -----------------------------
(***************************************************************************)
(* RefCount on two threads and two containers with one member each, so     *)
(* that chains and attempted cycles of resources occur; and, as a          *)
(* behaviour chooses at first, a third free handle or a plain resource.    *)
(***************************************************************************)
EXTENDS RefCount, TLC

CONSTANTS leaf, outer, inner, mo, mi, a, b, c

VARIABLE third

MCRes == {leaf, outer, inner}
MCSlot == {a, b, c, mo, mi}
MCHome == [s \in MCSlot |-> CASE s = mo -> outer [] s = mi -> inner [] OTHER -> Null]

\* Calls begin on what the behaviour has only; those that have begun go on.
Within ==
    /\ third = c => own[leaf] = "unborn"
    /\ third = leaf => ptr[c] = Null /\ \A t \in Thread : c \notin {dst[t], src[t], via[t]}

MCInit == Init /\ third \in {c, leaf}
MCNext == Next /\ UNCHANGED third /\ Within'

MCSpec == MCInit /\ [][MCNext]_<<vars, third>> /\ Fairness
=============================================================================
