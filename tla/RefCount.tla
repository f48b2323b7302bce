------------------------------ MODULE RefCount ------------------------------
(***************************************************************************)
(* Intrusive reference counting of engine resources: Resource and          *)
(* RCResource<T> of src/vk_resource.hpp and src/vk_resource.cpp.           *)
(*                                                                         *)
(* A slot is one RCResource object: a local, a member of a command buffer  *)
(* (m_dependent_resources), or a member of another resource (the           *)
(* dependencies a Framebuffer keeps).  The counter is atomic and the       *)
(* pointer is not, so a thread's call is split where another thread can    *)
(* see the difference: at each fetch_add, each fetch_sub and each delete.  *)
(* Callers keep the contract of any C++ handle: two threads may use two    *)
(* handles at once, one handle only to read it.  A member is read through  *)
(* a free handle on its resource (one level: a->m, not a->m->n), and that  *)
(* handle may be the very one a copy assignment writes (a = a->m).  What   *)
(* the program does after it has read or counted freed memory is undefined *)
(* and not modelled: it stops, with `lost' set.                            *)
(***************************************************************************)
EXTENDS Naturals, FiniteSets

CONSTANTS
    Thread,     \* the threads that hold handles
    Res,        \* the resources, each constructed at most once
    Slot,       \* the RCResource objects
    Null,       \* nullptr, and "no register"
    Home        \* the resource a slot is a member of, Null for a free slot

ASSUME NullAssumption == Null \notin Res /\ Null \notin Slot
ASSUME SlotAssumption == IsFiniteSet(Slot)
ASSUME HomeAssumption == Home \in [Slot -> Res \cup {Null}]

VARIABLES
    own,        \* a resource's life: unborn, owned (unique_ptr), counted, deleted
    count,      \* m_ref_count
    ptr,        \* m_ptr of each slot
    pc,         \* what a thread is in the middle of
    dst,        \* the slot the call writes
    src,        \* the slot the call reads
    via,        \* the free handle a member is reached through
    obj,        \* the resource about to be incremented or adopted
    drain,      \* the slots whose destructors the thread still has to run
    victims,    \* the resources whose last fetch_sub the thread made
    lost        \* a call has used memory that was already deleted

vars == <<own, count, ptr, pc, dst, src, via, obj, drain, victims, lost>>
registers == <<pc, dst, src, via, obj>>
memory == <<own, count, ptr>>

Life == {"unborn", "owned", "counted", "deleted"}
Releasing == {"destroy", "copyAssign", "uniqueAssign"}

TypeOK ==
    /\ own \in [Res -> Life]
    /\ count \in [Res -> Nat]
    /\ ptr \in [Slot -> Res \cup {Null}]
    /\ pc \in [Thread -> {"idle", "increment"} \cup Releasing]
    /\ dst \in [Thread -> Slot \cup {Null}]
    /\ src \in [Thread -> Slot \cup {Null}]
    /\ via \in [Thread -> Slot \cup {Null}]
    /\ obj \in [Thread -> Res \cup {Null}]
    /\ drain \in [Thread -> SUBSET Slot]
    /\ victims \in [Thread -> SUBSET Res]
    /\ lost \in BOOLEAN

Init ==
    /\ own = [r \in Res |-> "unborn"]
    /\ count = [r \in Res |-> 0]
    /\ ptr = [s \in Slot |-> Null]
    /\ pc = [t \in Thread |-> "idle"]
    /\ dst = [t \in Thread |-> Null]
    /\ src = [t \in Thread |-> Null]
    /\ via = [t \in Thread |-> Null]
    /\ obj = [t \in Thread |-> Null]
    /\ drain = [t \in Thread |-> {}]
    /\ victims = [t \in Thread |-> {}]
    /\ lost = FALSE

-----------------------------------------------------------------------------
(* The callers' contract.                                                  *)

Handles(r) == {s \in Slot : ptr[s] = r}
Members(r) == {s \in Slot : Home[s] = r}

Writes(t) == drain[t] \cup {dst[t]}
Reads(t) == {src[t], via[t]}
InUse(s) == \E t \in Thread : s \in Writes(t) \cup Reads(t)

\* A resource whose unique_ptr was already moved into a pending call.
Passed(r) == \E t \in Thread : pc[t] = "uniqueAssign" /\ obj[t] = r

\* Held by a unique_ptr that no call is using, with no call on its members.
Free(r) == own[r] = "owned" /\ ~Passed(r) /\ \A s \in Members(r) : ~InUse(s)

\* Members are filled while their resource is still being built, as
\* MultiPassRenderPass::create_framebuffers does, and never assigned later.
MayWrite(s) ==
    /\ ~InUse(s)
    /\ Home[s] # Null => own[Home[s]] = "owned" /\ ~Passed(Home[s])

\* A free handle s is read directly, a member s through the free handle v.
MayRead(s, v) ==
    /\ Home[s] = Null => v = Null
    /\ Home[s] # Null => v # Null /\ Home[v] = Null /\ ptr[v] = Home[s]
    /\ \A t \in Thread : s \notin Writes(t) /\ (v # Null => v \notin Writes(t))

\* The resource a slot was a member of has been deleted, and the slot with it.
Gone(s) == s # Null /\ Home[s] # Null /\ own[Home[s]] = "deleted"

\* A copy assignment over the handle its source is reached through: a = a->m.
Replaced(t) == via[t] # Null /\ via[t] = dst[t]

Call(t, op, d, s, v, r) ==
    /\ pc[t] = "idle"
    /\ pc' = [pc EXCEPT ![t] = op]
    /\ dst' = [dst EXCEPT ![t] = d]
    /\ src' = [src EXCEPT ![t] = s]
    /\ via' = [via EXCEPT ![t] = v]
    /\ obj' = [obj EXCEPT ![t] = r]

Return(t) ==
    /\ pc' = [pc EXCEPT ![t] = "idle"]
    /\ dst' = [dst EXCEPT ![t] = Null]
    /\ src' = [src EXCEPT ![t] = Null]
    /\ via' = [via EXCEPT ![t] = Null]
    /\ obj' = [obj EXCEPT ![t] = Null]

-----------------------------------------------------------------------------
(* Life under a unique_ptr.                                                *)

Construct(t, r) ==
    /\ pc[t] = "idle"
    /\ own[r] = "unborn"
    /\ own' = [own EXCEPT ![r] = "owned"]
    /\ UNCHANGED <<count, ptr, registers, drain, victims, lost>>

\* The unique_ptr dies while the resource is still OWNED: the members'
\* destructors run.
DestroyOwned(t, r) ==
    /\ Free(r)
    /\ Call(t, "destroy", Null, Null, Null, Null)
    /\ own' = [own EXCEPT ![r] = "deleted"]
    /\ drain' = [drain EXCEPT ![t] = Members(r)]
    /\ UNCHANGED <<count, ptr, victims, lost>>

\* reset(unique_ptr&&): OWNED becomes RefCounted, with this one handle.
Reset(d, r) ==
    /\ own' = [own EXCEPT ![r] = "counted"]
    /\ count' = [count EXCEPT ![r] = 1]
    /\ ptr' = [ptr EXCEPT ![d] = r]

\* RCResource(unique_ptr<T>&&), on a slot that holds nothing.
UniqueConstruct(t, d, r) ==
    /\ pc[t] = "idle"
    /\ MayWrite(d) /\ ptr[d] = Null /\ Home[d] # r
    /\ Free(r)
    /\ Reset(d, r)
    /\ UNCHANGED <<registers, drain, victims, lost>>

-----------------------------------------------------------------------------
(* Calls that read a handle.                                               *)

\* RCResource(const RCResource&): the pointer is read, the increment is next.
CopyConstruct(t, d, s, v) ==
    /\ MayWrite(d) /\ ptr[d] = Null
    /\ MayRead(s, v) /\ ptr[s] # Null /\ s # d
    /\ Call(t, "increment", d, s, v, ptr[s])
    /\ UNCHANGED <<memory, drain, victims, lost>>

\* A raw pointer or get_reference() reached through a handle: only a
\* RefCounted resource gives a reference (an OWNED one throws or returns null,
\* and nothing changes).
FromRawPointer(t, d, s, v) ==
    /\ ptr[s] # Null /\ own[ptr[s]] = "counted"
    /\ CopyConstruct(t, d, s, v)

MoveLeavesSource(t, d, s) ==
    /\ pc[t] = "idle"
    /\ MayWrite(d) /\ ptr[d] = Null
    /\ MayWrite(s) /\ s # d
    /\ ptr' = [ptr EXCEPT ![d] = ptr[s]]
    /\ UNCHANGED <<own, count, registers, drain, victims, lost>>

MoveConstruct(t, d, s) ==
    /\ pc[t] = "idle"
    /\ MayWrite(d) /\ ptr[d] = Null
    /\ MayWrite(s) /\ s # d
    /\ ptr' = [ptr EXCEPT ![d] = ptr[s], ![s] = Null]
    /\ UNCHANGED <<own, count, registers, drain, victims, lost>>

-----------------------------------------------------------------------------
(* Calls that release the handle they write.                               *)

Destroy(t, d) ==
    /\ MayWrite(d)
    /\ Call(t, "destroy", d, Null, Null, Null)
    /\ drain' = [drain EXCEPT ![t] = {d}]
    /\ UNCHANGED <<memory, victims, lost>>

\* operator=(const RCResource&): released first, then copied; the self
\* assignment test comes before both.  The source may be a member of what is
\* released.
CopyAssign(t, d, s, v) ==
    /\ d # s
    /\ MayWrite(d) /\ MayRead(s, v)
    /\ Call(t, "copyAssign", d, s, v, Null)
    /\ drain' = [drain EXCEPT ![t] = {d}]
    /\ UNCHANGED <<memory, victims, lost>>

\* operator=(unique_ptr<T>&&): released first, then reset to the argument.
UniqueAssign(t, d, r) ==
    /\ MayWrite(d) /\ Home[d] # r
    /\ Free(r)
    /\ Call(t, "uniqueAssign", d, Null, Null, r)
    /\ drain' = [drain EXCEPT ![t] = {d}]
    /\ UNCHANGED <<memory, victims, lost>>

ReleaseForgetsDelete(t, s) ==
    /\ s \in drain[t]
    /\ drain' = [drain EXCEPT ![t] = @ \ {s}]
    /\ ptr' = [ptr EXCEPT ![s] = Null]
    /\ IF ptr[s] = Null
       THEN UNCHANGED <<count, victims>>
       ELSE /\ count' = [count EXCEPT ![ptr[s]] = @ - 1]
            /\ victims' = [victims EXCEPT ![t] = IF count[ptr[s]] = 0 THEN @ \cup {ptr[s]} ELSE @]
    /\ UNCHANGED <<own, registers, lost>>

ReleaseDeletesEarly(t, s) ==
    /\ s \in drain[t]
    /\ drain' = [drain EXCEPT ![t] = @ \ {s}]
    /\ ptr' = [ptr EXCEPT ![s] = Null]
    /\ IF ptr[s] = Null
       THEN UNCHANGED <<count, victims>>
       ELSE /\ count' = [count EXCEPT ![ptr[s]] = @ - 1]
            /\ victims' = [victims EXCEPT ![t] = IF count[ptr[s]] <= 2 THEN @ \cup {ptr[s]} ELSE @]
    /\ UNCHANGED <<own, registers, lost>>

\* release(): fetch_sub, and the thread that saw 1 has to delete.
Release(t, s) ==
    /\ s \in drain[t]
    /\ drain' = [drain EXCEPT ![t] = @ \ {s}]
    /\ ptr' = [ptr EXCEPT ![s] = Null]
    /\ IF ptr[s] = Null
       THEN UNCHANGED <<count, victims>>
       ELSE /\ count' = [count EXCEPT ![ptr[s]] = @ - 1]
            /\ victims' = [victims EXCEPT ![t] = IF count[ptr[s]] = 1 THEN @ \cup {ptr[s]} ELSE @]
    /\ UNCHANGED <<own, registers, lost>>

DeleteSkipsMembers(t, r) ==
    /\ r \in victims[t]
    /\ victims' = [victims EXCEPT ![t] = @ \ {r}]
    /\ own' = [own EXCEPT ![r] = "deleted"]
    /\ UNCHANGED <<count, ptr, registers, drain, lost>>

\* delete m_ptr: the destructors of the members run in the same thread.
Delete(t, r) ==
    /\ r \in victims[t]
    /\ victims' = [victims EXCEPT ![t] = @ \ {r}]
    /\ own' = [own EXCEPT ![r] = "deleted"]
    /\ drain' = [drain EXCEPT ![t] = @ \cup Members(r)]
    /\ UNCHANGED <<count, ptr, registers, lost>>

Released(t) == drain[t] = {} /\ victims[t] = {}

FinishDestroy(t) ==
    /\ pc[t] = "destroy" /\ Released(t)
    /\ Return(t)
    /\ UNCHANGED <<memory, drain, victims, lost>>

\* m_ptr = other.m_ptr; the increment is a step of its own.
FinishCopyAssign(t) ==
    /\ pc[t] = "copyAssign" /\ Released(t)
    /\ ~Gone(src[t])
    /\ IF ptr[src[t]] = Null
       THEN Return(t)
       ELSE /\ pc' = [pc EXCEPT ![t] = "increment"]
            /\ obj' = [obj EXCEPT ![t] = ptr[src[t]]]
            /\ UNCHANGED <<dst, src, via>>
    /\ UNCHANGED <<memory, drain, victims, lost>>

\* other.m_ptr read in a resource that release() has deleted.
ReadGone(t) ==
    /\ pc[t] = "copyAssign" /\ Released(t)
    /\ Gone(src[t])
    /\ lost' = TRUE
    /\ UNCHANGED <<memory, registers, drain, victims>>

FinishUniqueAssign(t) ==
    /\ pc[t] = "uniqueAssign" /\ Released(t)
    /\ Reset(dst[t], obj[t])
    /\ Return(t)
    /\ UNCHANGED <<drain, victims, lost>>

\* Another thread has dropped the last handle since the pointer was read: the
\* fetch_add touches a resource that is deleted or being deleted.
IncrementGone(t) ==
    /\ pc[t] = "increment"
    /\ own[obj[t]] # "counted" \/ count[obj[t]] = 0
    /\ lost' = TRUE
    /\ UNCHANGED <<memory, registers, drain, victims>>

\* fetch_add, and the new handle is complete.
Increment(t) ==
    /\ pc[t] = "increment"
    /\ own[obj[t]] = "counted" /\ count[obj[t]] # 0
    /\ count' = [count EXCEPT ![obj[t]] = @ + 1]
    /\ ptr' = [ptr EXCEPT ![dst[t]] = obj[t]]
    /\ Return(t)
    /\ UNCHANGED <<own, drain, victims, lost>>

-----------------------------------------------------------------------------

\* The steps that finish a call already begun.
Progress(t) ==
    \/ \E s \in Slot : Release(t, s)
    \/ \E r \in Res : Delete(t, r)
    \/ FinishDestroy(t)
    \/ FinishCopyAssign(t) \/ ReadGone(t)
    \/ FinishUniqueAssign(t)
    \/ Increment(t) \/ IncrementGone(t)

Start(t) ==
    \/ \E r \in Res : Construct(t, r) \/ DestroyOwned(t, r)
    \/ \E d \in Slot, r \in Res : UniqueConstruct(t, d, r) \/ UniqueAssign(t, d, r)
    \/ \E d, s \in Slot, v \in Slot \cup {Null} :
         \/ CopyConstruct(t, d, s, v)
         \/ FromRawPointer(t, d, s, v)
         \/ CopyAssign(t, d, s, v)
    \/ \E d, s \in Slot : MoveConstruct(t, d, s)
    \/ \E d \in Slot : Destroy(t, d)

Next == ~lost /\ \E t \in Thread : Start(t) \/ Progress(t)

Spec == Init /\ [][Next]_vars

\* A running thread finishes the call it is in; nobody has to begin one.
Fairness == \A t \in Thread : WF_vars(~lost /\ Progress(t))
FairSpec == Spec /\ Fairness

-----------------------------------------------------------------------------
(* The inductive invariant, in parts.                                      *)

\* Two calls never touch one slot unless both only read it: all that can
\* happen to the source of a call is that it goes with its resource.
SlotsExclusive ==
    \A t, u \in Thread, s \in Slot :
        t # u /\ s \in Writes(t) =>
            s \notin Writes(u) /\ s # via[u] /\ (s = src[u] => Gone(s))

\* A member is read through a free handle, that keeps its resource unless it
\* is the handle the call writes.
SourceHome(t) ==
    /\ via[t] # Null => src[t] # Null /\ Home[src[t]] # Null
    /\ src[t] # Null => src[t] # dst[t]
    /\ src[t] # Null /\ Home[src[t]] # Null =>
          /\ via[t] # Null /\ Home[via[t]] = Null
          /\ own[Home[src[t]]] \in {"counted", "deleted"}
          /\ via[t] # dst[t] => ptr[via[t]] = Home[src[t]]

\* What a slot in use says about the resource it is a member of.
SlotHomes ==
    \A t \in Thread :
        /\ SourceHome(t)
        /\ dst[t] # Null /\ Home[dst[t]] # Null =>
              own[Home[dst[t]]] = "owned" /\ ~Passed(Home[dst[t]])
        /\ \A s \in drain[t] :
              s # dst[t] => Home[s] # Null /\ own[Home[s]] = "deleted"

\* The registers of a call, at each place it can be in.
CallState ==
    \A t \in Thread :
        /\ pc[t] = "idle" => dst[t] = Null /\ src[t] = Null
        /\ pc[t] \in {"idle", "increment"} => Released(t)
        /\ pc[t] \in {"copyAssign", "increment"} => src[t] # Null
        /\ pc[t] \in {"copyAssign", "uniqueAssign", "increment"} => dst[t] # Null
        /\ pc[t] = "increment" => obj[t] # Null /\ (obj[t] = ptr[src[t]] \/ Gone(src[t]))
        /\ pc[t] = "uniqueAssign" => obj[t] # Null /\ own[obj[t]] = "owned"
        /\ dst[t] # Null /\ dst[t] \notin drain[t] => ptr[dst[t]] = Null

\* A unique_ptr is moved into one call only.
PassedOnce ==
    \A t, u \in Thread :
        pc[t] = "uniqueAssign" /\ pc[u] = "uniqueAssign" /\ obj[t] = obj[u] => t = u

HandlesCounted == \A s \in Slot : ptr[s] # Null => own[ptr[s]] = "counted"

VictimsUnheld ==
    /\ \A t \in Thread : \A r \in victims[t] : own[r] = "counted" /\ count[r] = 0
    /\ \A t, u \in Thread : t # u => victims[t] \cap victims[u] = {}

-----------------------------------------------------------------------------
(* Correctness.                                                            *)

\* m_ref_count is exactly the number of handles, whatever the threads are in
\* the middle of (increment_reference_count, release).
CountIsHandles ==
    \A r \in Res : own[r] = "counted" => count[r] = Cardinality(Handles(r))

IInv ==
    /\ TypeOK
    /\ SlotsExclusive
    /\ SlotHomes
    /\ CallState
    /\ PassedOnce
    /\ HandlesCounted
    /\ VictimsUnheld
    /\ CountIsHandles

\* The one way to use freed memory is a copy assignment over the handle its
\* source was reached through: operator= releases before it reads
\* (vk_resource.hpp:130).
LostByReplacing == lost => \E t \in Thread : Gone(src[t]) /\ Replaced(t)

\* No handle points at a deleted resource, and a thread that has read a
\* pointer and not yet incremented is about to touch a live one, but for
\* the assignment LostByReplacing names.
NoDangling ==
    /\ \A s \in Slot : ptr[s] # Null => own[ptr[s]] = "counted"
    /\ \A t \in Thread : pc[t] = "increment" /\ ~Gone(src[t]) => own[obj[t]] = "counted"
    /\ \A t \in Thread : Gone(src[t]) => Replaced(t)
    /\ LostByReplacing

\* Exactly one thread deletes a resource, and only one with no handle left
\* (the fetch_sub == 1 test of release) and no increment on the way, but for
\* the copy assignment NoDangling excepts.
DeletedByOne ==
    \A t \in Thread : \A r \in victims[t] :
        /\ own[r] = "counted" /\ Handles(r) = {}
        /\ \A u \in Thread \ {t} : r \notin victims[u]
        /\ \A u \in Thread : pc[u] = "increment" /\ ~Gone(src[u]) => obj[u] # r

\* A slot whose destructor will still run: free, in a resource that lives, or
\* being drained.
Attended(s) ==
    \/ Home[s] = Null
    \/ Home[s] # Null /\ own[Home[s]] \in {"owned", "counted"}
    \/ \E t \in Thread : s \in drain[t]

\* Nothing leaks: a group of counted resources is always held from outside
\* the group by a handle that will be released one day, or a thread is about
\* to delete a member of it.  A group that holds only itself would be a cycle.
NoOrphans ==
    \A G \in SUBSET {r \in Res : own[r] = "counted"} :
        G # {} => \E r \in G :
            \/ \E s \in Handles(r) : Home[s] \notin G /\ Attended(s)
            \/ \E t \in Thread : r \in victims[t]

\* What makes NoOrphans inductive: members are only filled while their
\* resource is being built, so holding is acyclic (every group has a resource
\* the group does not hold), a counter at zero has a thread to delete, and no
\* handle outlives the resource it is a member of.
Acyclic ==
    \A G \in SUBSET {r \in Res : own[r] = "counted"} :
        G # {} => \E r \in G : \A s \in Handles(r) : Home[s] \notin G

ZeroClaimed ==
    \A r \in Res : own[r] = "counted" /\ count[r] = 0 => \E t \in Thread : r \in victims[t]

HandlesAttended == \A s \in Slot : ptr[s] # Null => Attended(s)

LeakInv == Acyclic /\ ZeroClaimed /\ HandlesAttended

\* A resource whose last handle is gone is deleted, unless freed memory was
\* used before (NoDangling says by whom).
ReleasedIsDeleted ==
    \A r \in Res : (own[r] = "counted" /\ count[r] = 0) ~> (own[r] = "deleted" \/ lost)

=============================================================================
