-------------------------- MODULE CommandRecording --------------------------
(***************************************************************************)
(* CommandBuffer (src/commandbuffer.cpp) and the CommandPool that recycles *)
(* its Vulkan buffers (src/command_pool.cpp), with as much of the device   *)
(* as they rely on: the state of each Vulkan command buffer and what has   *)
(* been recorded into it.                                                  *)
(*                                                                         *)
(* Callers keep Vulkan's contract: they reset or destroy a CommandBuffer   *)
(* only when the device is done with it, and destroy a pipeline they own   *)
(* outright only when nothing recorded uses it.  A reference counted       *)
(* pipeline they drop at any time; a new one may then take its address.    *)
(* The pool's buffers may also be begun again without a reset (the flag at *)
(* command_pool.cpp:15): the device resets them, the CommandBuffer knows   *)
(* nothing of it.                                                          *)
(***************************************************************************)
EXTENDS Naturals, Sequences, FiniteSets, SequencesExt

CONSTANTS
    Cmd,            \* the CommandBuffer objects
    Handle,         \* the VkCommandBuffers of the pool
    Pipeline,       \* the addresses of pipelines
    Counted,        \* the pipelines that are reference counted
    Point,          \* the bind point of each pipeline
    Set,            \* descriptor sets
    Index,          \* set indices
    Null,
    MaxPostponed,   \* bound: postponed binds
    MaxGeneration   \* bound: pipelines made at one address

ASSUME PipelineAssumption == Counted \subseteq Pipeline /\ Null \notin Pipeline \cup Handle \cup Set
ASSUME PointAssumption == Point \in [Pipeline -> {"compute", "graphics"}]
ASSUME BoundAssumption == MaxGeneration \in Nat \ {0} /\ MaxPostponed \in Nat /\ Null \notin {"primary", "secondary"}

VARIABLES
    handle,     \* m_cmd; Null when there is no such CommandBuffer
    primary,    \* m_is_primary
    current,    \* m_current_pipeline
    point,      \* m_current_pipeline_state
    postponed,  \* m_postponed_set_binds
    deps,       \* m_dependent_resources, the pipelines in it
    recycled,   \* m_recycled_primary_buffers, m_recycled_secondary_buffers
    made,       \* device: the buffers allocated from the pool, with their level
    phase,      \* device: initial, recording, inside (a render pass), executable, pending
    bound,      \* device: the pipeline bound at each point, with its generation
    device,     \* device: the set bound at each point and index
    used,       \* device: the pipelines recorded, with their generations
    secondaries,\* device: the buffers a primary executes
    generation, \* the pipelines made so far at each address
    owner,      \* whether the application holds a handle of the pipeline
    asked,      \* history: the last set asked for at each index, see LastAskedWins
    stale       \* history: m_current_pipeline outlived what the device had bound

objectVars == <<handle, primary, current, point, postponed, deps>>
deviceVars == <<phase, bound, device, used, secondaries>>
poolVars == <<recycled, made>>
pipeVars == <<generation, owner>>
history == <<asked, stale>>
vars == <<objectVars, poolVars, deviceVars, pipeVars, history>>

Levels == {"primary", "secondary"}
Points == {"compute", "graphics"}
Version == Pipeline \X (1..MaxGeneration)
NoSets == [i \in Index |-> Null]
Level(c) == IF primary[c] THEN "primary" ELSE "secondary"

TypeOK ==
    /\ handle \in [Cmd -> Handle \cup {Null}]
    /\ primary \in [Cmd -> BOOLEAN]
    /\ current \in [Cmd -> Pipeline \cup {Null}]
    /\ point \in [Cmd -> Points]
    /\ \A c \in Cmd : postponed[c] \in Seq(Index \X Set) /\ Len(postponed[c]) <= MaxPostponed
    /\ deps \in [Cmd -> SUBSET Counted]
    /\ \A l \in Levels : recycled[l] \in Seq(Handle)
    /\ made \in [Handle -> Levels \cup {Null}]
    /\ phase \in [Handle -> {"initial", "recording", "inside", "executable", "pending"}]
    /\ bound \in [Handle -> [Points -> Version \cup {Null}]]
    /\ device \in [Handle -> [Points -> [Index -> Set \cup {Null}]]]
    /\ used \in [Handle -> SUBSET Version]
    /\ secondaries \in [Handle -> SUBSET Handle]
    /\ generation \in [Pipeline -> 1..MaxGeneration]
    /\ owner \in [Pipeline -> BOOLEAN]
    /\ asked \in [Cmd -> [Index -> Set \cup {Null}]]
    /\ stale \in [Cmd -> BOOLEAN]

Init ==
    /\ handle = [c \in Cmd |-> Null]
    /\ primary = [c \in Cmd |-> TRUE]
    /\ current = [c \in Cmd |-> Null]
    /\ point = [c \in Cmd |-> "compute"]
    /\ postponed = [c \in Cmd |-> <<>>]
    /\ deps = [c \in Cmd |-> {}]
    /\ recycled = [l \in Levels |-> <<>>]
    /\ made = [h \in Handle |-> Null]
    /\ phase = [h \in Handle |-> "initial"]
    /\ bound = [h \in Handle |-> [b \in Points |-> Null]]
    /\ device = [h \in Handle |-> [b \in Points |-> NoSets]]
    /\ used = [h \in Handle |-> {}]
    /\ secondaries = [h \in Handle |-> {}]
    /\ generation = [p \in Pipeline |-> 1]
    /\ owner = [p \in Pipeline |-> TRUE]
    /\ asked = [c \in Cmd |-> NoSets]
    /\ stale = [c \in Cmd |-> FALSE]

-----------------------------------------------------------------------------
(* The device.                                                             *)

Live(c) == handle[c] # Null
Recording(c) == Live(c) /\ phase[handle[c]] \in {"recording", "inside"}

\* Nothing is bound any more that a later command may rely on.
Forgotten(h) ==
    /\ bound' = [bound EXCEPT ![h] = [b \in Points |-> Null]]
    /\ device' = [device EXCEPT ![h] = [b \in Points |-> NoSets]]

\* vkResetCommandBuffer.
DeviceReset(h) ==
    /\ phase' = [phase EXCEPT ![h] = "initial"]
    /\ Forgotten(h)
    /\ used' = [used EXCEPT ![h] = {}]
    /\ secondaries' = [secondaries EXCEPT ![h] = {}]

\* vkCmdBindDescriptorSets, once for each pair in turn: of the pairs of an
\* index the last one stays.
LastOf(i, pairs) ==
    {n \in DOMAIN pairs : pairs[n][1] = i /\ \A m \in DOMAIN pairs : m > n => pairs[m][1] # i}

Bindings(h, b, pairs) ==
    [device EXCEPT ![h][b] =
        [i \in Index |-> IF LastOf(i, pairs) = {} THEN device[h][b][i]
                         ELSE pairs[CHOOSE n \in LastOf(i, pairs) : TRUE][2]]]

\* The device may still run h, alone or as a secondary of a primary.
InFlight(h) ==
    \/ phase[h] = "pending"
    \/ \E g \in Handle : h \in secondaries[g] /\ phase[g] # "initial"

Submit(c) ==
    /\ Live(c) /\ primary[c] /\ phase[handle[c]] = "executable"
    /\ phase' = [phase EXCEPT ![handle[c]] = "pending"]
    /\ UNCHANGED <<objectVars, poolVars, bound, device, used, secondaries, pipeVars, history>>

Complete(h) ==
    /\ phase[h] = "pending"
    /\ phase' = [phase EXCEPT ![h] = "executable"]
    /\ UNCHANGED <<objectVars, poolVars, bound, device, used, secondaries, pipeVars, history>>

-----------------------------------------------------------------------------
(* The pool.                                                               *)

Wrap(c, h, l) ==
    /\ handle' = [handle EXCEPT ![c] = h]
    /\ primary' = [primary EXCEPT ![c] = (l = "primary")]
    /\ current' = [current EXCEPT ![c] = Null]
    /\ point' = [point EXCEPT ![c] = "compute"]
    /\ postponed' = [postponed EXCEPT ![c] = <<>>]
    /\ deps' = [deps EXCEPT ![c] = {}]
    /\ asked' = [asked EXCEPT ![c] = NoSets]
    /\ stale' = [stale EXCEPT ![c] = FALSE]

AllocateKeepsFront(c, l) ==
    /\ ~Live(c) /\ recycled[l] # <<>>
    /\ Wrap(c, Head(recycled[l]), l)
    /\ UNCHANGED <<poolVars, deviceVars, pipeVars>>

\* allocate with a recycled buffer of the level: the one recycled first.
AllocateRecycled(c, l) ==
    /\ ~Live(c) /\ recycled[l] # <<>>
    /\ Wrap(c, Head(recycled[l]), l)
    /\ recycled' = [recycled EXCEPT ![l] = Tail(@)]
    /\ UNCHANGED <<made, deviceVars, pipeVars>>

AllocateNew(c, l) ==
    /\ ~Live(c) /\ recycled[l] = <<>>
    /\ \E h \in Handle :
          /\ made[h] = Null
          /\ made' = [made EXCEPT ![h] = l]
          /\ Wrap(c, h, l)
    /\ UNCHANGED <<recycled, deviceVars, pipeVars>>

\* ~CommandBuffer: the buffer goes back reset, the dependencies are dropped.
Destroy(c) ==
    /\ Live(c) /\ ~InFlight(handle[c])
    /\ DeviceReset(handle[c])
    /\ recycled' = [recycled EXCEPT ![Level(c)] = Append(@, handle[c])]
    /\ Wrap(c, Null, Level(c))
    /\ UNCHANGED <<made, pipeVars>>

-----------------------------------------------------------------------------
(* Recording.                                                              *)

\* A buffer is begun; one that was recorded is reset by the device first.
Begin(c, inPass, from) ==
    /\ Live(c) /\ phase[handle[c]] = from
    /\ inPass => ~primary[c]
    /\ phase' = [phase EXCEPT ![handle[c]] = "recording"]
    /\ point' = IF inPass THEN [point EXCEPT ![c] = "graphics"] ELSE point
    /\ UNCHANGED <<handle, primary, current, postponed, deps, poolVars, pipeVars>>

\* begin, and begin_secondary, which continues a render pass or does not.
BeginFresh(c, inPass) ==
    /\ Begin(c, inPass, "initial")
    /\ UNCHANGED <<bound, device, used, secondaries, history>>

\* The same calls on a recorded buffer: m_current_pipeline and the
\* dependencies stay, what the device had bound does not.
BeginAgain(c, inPass) ==
    /\ Begin(c, inPass, "executable") /\ ~InFlight(handle[c])
    /\ Forgotten(handle[c])
    /\ used' = [used EXCEPT ![handle[c]] = {}]
    /\ secondaries' = [secondaries EXCEPT ![handle[c]] = {}]
    /\ asked' = [asked EXCEPT ![c] = NoSets]
    /\ stale' = [stale EXCEPT ![c] = current[c] # Null]

End(c) ==
    /\ Live(c) /\ phase[handle[c]] = "recording"
    /\ phase' = [phase EXCEPT ![handle[c]] = "executable"]
    /\ UNCHANGED <<objectVars, poolVars, bound, device, used, secondaries, pipeVars, history>>

ResetKeepsPipeline(c) ==
    /\ Live(c) /\ ~InFlight(handle[c])
    /\ DeviceReset(handle[c])
    /\ point' = [point EXCEPT ![c] = "compute"]
    /\ deps' = [deps EXCEPT ![c] = {}]
    /\ asked' = [asked EXCEPT ![c] = NoSets]
    /\ stale' = [stale EXCEPT ![c] = FALSE]
    /\ UNCHANGED <<handle, primary, current, postponed, poolVars, pipeVars>>

\* reset leaves m_postponed_set_binds as it is: binds that met no pipeline
\* reach the device with the next recording.
Reset(c) ==
    /\ Live(c) /\ ~InFlight(handle[c])
    /\ DeviceReset(handle[c])
    /\ current' = [current EXCEPT ![c] = Null]
    /\ point' = [point EXCEPT ![c] = "compute"]
    /\ deps' = [deps EXCEPT ![c] = {}]
    /\ asked' = [asked EXCEPT ![c] = NoSets]
    /\ stale' = [stale EXCEPT ![c] = FALSE]
    /\ UNCHANGED <<handle, primary, postponed, poolVars, pipeVars>>

\* cmd_begin_renderpass and cmd_end_renderpass: the other bind point, and
\* postponed binds are forgotten.
Boundary(c, from, to, b) ==
    /\ Live(c) /\ primary[c] /\ phase[handle[c]] = from
    /\ phase' = [phase EXCEPT ![handle[c]] = to]
    /\ point' = [point EXCEPT ![c] = b]
    /\ postponed' = [postponed EXCEPT ![c] = <<>>]
    /\ asked' = [asked EXCEPT ![c] = NoSets]
    /\ UNCHANGED <<handle, primary, current, deps, poolVars, bound, device, used, secondaries, pipeVars, stale>>

cmd_begin_renderpass(c) == Boundary(c, "recording", "inside", "graphics")
cmd_end_renderpass(c) == Boundary(c, "inside", "recording", "compute")

cmd_next_subpass(c) ==
    /\ Live(c) /\ phase[handle[c]] = "inside"
    /\ postponed' = [postponed EXCEPT ![c] = <<>>]
    /\ asked' = IF postponed[c] = <<>> THEN asked ELSE [asked EXCEPT ![c] = NoSets]
    /\ UNCHANGED <<handle, primary, current, point, deps, poolVars, deviceVars, pipeVars, stale>>

Exists(p) == owner[p] \/ \E c \in Cmd : p \in deps[c]

\* The pipeline's own bind, then its reference, then the postponed sets.
BindWith(c, p, newDeps, pairs) ==
    /\ Recording(c) /\ owner[p] /\ current[c] # p
    /\ bound' = [bound EXCEPT ![handle[c]][Point[p]] = <<p, generation[p]>>]
    /\ used' = [used EXCEPT ![handle[c]] = @ \cup {<<p, generation[p]>>}]
    /\ current' = [current EXCEPT ![c] = p]
    /\ deps' = [deps EXCEPT ![c] = @ \cup newDeps]
    /\ device' = Bindings(handle[c], point[c], pairs)
    /\ postponed' = [postponed EXCEPT ![c] = <<>>]
    /\ stale' = [stale EXCEPT ![c] = FALSE]
    /\ UNCHANGED <<handle, primary, point, poolVars, phase, secondaries, pipeVars, asked>>

BindForgetsReference(c, p) == BindWith(c, p, {}, postponed[c])
BindFlushesBackwards(c, p) == BindWith(c, p, {p} \cap Counted, Reverse(postponed[c]))

\* bind_pipeline returns early when the address is the one bound last.
bind_pipeline(c, p) == BindWith(c, p, {p} \cap Counted, postponed[c])

\* bind_descriptor_set: at once if a pipeline is bound, else postponed.
bind_descriptor_set(c, i, s) ==
    /\ Recording(c)
    /\ asked' = [asked EXCEPT ![c][i] = s]
    /\ IF current[c] # Null
         THEN /\ device' = Bindings(handle[c], point[c], <<<<i, s>>>>)
              /\ UNCHANGED postponed
         ELSE /\ Len(postponed[c]) < MaxPostponed
              /\ postponed' = [postponed EXCEPT ![c] = Append(@, <<i, s>>)]
              /\ UNCHANGED device
    /\ UNCHANGED <<handle, primary, current, point, deps, poolVars, phase, bound, used, secondaries, pipeVars, stale>>

\* execute_secondaries: the dependencies stay with the secondary.  What the
\* primary had bound is undefined afterwards (vkCmdExecuteCommands), and
\* m_current_pipeline stays.
execute_secondaries(c, d) ==
    /\ Recording(c) /\ primary[c]
    /\ Live(d) /\ ~primary[d] /\ phase[handle[d]] = "executable" /\ ~InFlight(handle[d])
    /\ secondaries' = [secondaries EXCEPT ![handle[c]] = @ \cup {handle[d]}]
    /\ Forgotten(handle[c])
    /\ asked' = IF current[c] = Null THEN asked ELSE [asked EXCEPT ![c] = NoSets]
    /\ stale' = [stale EXCEPT ![c] = current[c] # Null]
    /\ UNCHANGED <<objectVars, poolVars, phase, used, pipeVars>>

-----------------------------------------------------------------------------
(* The application's pipelines.                                            *)

Recorded(p) == \E h \in Handle : phase[h] # "initial" /\ \E n \in 1..MaxGeneration : <<p, n>> \in used[h]

Drop(p) ==
    /\ owner[p]
    /\ p \notin Counted => ~Recorded(p)
    /\ owner' = [owner EXCEPT ![p] = FALSE]
    /\ UNCHANGED <<objectVars, poolVars, deviceVars, generation, history>>

\* Another pipeline at the address of one that was destroyed.
Make(p) ==
    /\ ~Exists(p) /\ generation[p] < MaxGeneration
    /\ generation' = [generation EXCEPT ![p] = @ + 1]
    /\ owner' = [owner EXCEPT ![p] = TRUE]
    /\ UNCHANGED <<objectVars, poolVars, deviceVars, history>>

-----------------------------------------------------------------------------

Next ==
    \/ \E c \in Cmd :
          \/ \E l \in Levels : AllocateRecycled(c, l) \/ AllocateNew(c, l)
          \/ \E inPass \in BOOLEAN : BeginFresh(c, inPass) \/ BeginAgain(c, inPass)
          \/ End(c) \/ Reset(c) \/ Destroy(c) \/ Submit(c)
          \/ cmd_begin_renderpass(c) \/ cmd_end_renderpass(c) \/ cmd_next_subpass(c)
          \/ \E p \in Pipeline : bind_pipeline(c, p)
          \/ \E i \in Index, s \in Set : bind_descriptor_set(c, i, s)
          \/ \E d \in Cmd : execute_secondaries(c, d)
    \/ \E h \in Handle : Complete(h)
    \/ \E p \in Pipeline : Drop(p) \/ Make(p)

Spec == Init /\ [][Next]_vars

-----------------------------------------------------------------------------
(* Correctness.                                                            *)

\* A Vulkan buffer belongs to one CommandBuffer or waits once to be recycled,
\* as a fresh buffer of its own level (_allocate, ~CommandBuffer).
Places(h) ==
    Cardinality({c \in Cmd : handle[c] = h})
    + Cardinality({i \in DOMAIN recycled["primary"] : recycled["primary"][i] = h})
    + Cardinality({i \in DOMAIN recycled["secondary"] : recycled["secondary"][i] = h})

OneOwner == \A h \in Handle : Places(h) = IF made[h] = Null THEN 0 ELSE 1

LevelsApart ==
    /\ \A c \in Cmd : Live(c) => made[handle[c]] = Level(c)
    /\ \A l \in Levels : \A i \in DOMAIN recycled[l] :
          made[recycled[l][i]] = l /\ phase[recycled[l][i]] = "initial"

\* Who owns which Vulkan buffer, at every moment.
Inv == TypeOK /\ OneOwner /\ LevelsApart

\* Returning early from bind_pipeline is right: the pipeline of that address
\* is the very one the device has bound, never another made at its address.
\* Excepted are the two calls that leave m_current_pipeline although nothing
\* is bound any more, until the next pipeline is bound: see PipelineBoundFirst.
SkipIsSound ==
    \A c \in Cmd : Live(c) /\ current[c] # Null /\ ~stale[c] =>
        bound[handle[c]][Point[current[c]]] = <<current[c], generation[current[c]]>>

\* "a pipeline must be bound first before binding a set" (the assertions
\* before push constants and sets, on m_current_pipeline): while a buffer is
\* recorded and m_current_pipeline is set, the device has a pipeline bound.
\* It does not: execute_secondaries and a begin without reset leave none.
PipelineBoundFirst ==
    \A c \in Cmd : Recording(c) /\ current[c] # Null =>
        bound[handle[c]][Point[current[c]]] # Null

\* What a buffer recorded lives as long as the device may run it, although
\* the application has dropped it (m_dependent_resources).
UsedExists ==
    \A h \in Handle : phase[h] # "initial" =>
        \A v \in used[h] : v[2] = generation[v[1]] /\ Exists(v[1])

\* Once a pipeline is bound, the device has at each index the set asked for
\* last since the render pass began or ended, secondaries were executed or
\* the recording began, whether that bind was immediate or postponed
\* (bind_descriptor_set, flush_postponed_descriptor_sets).
LastAskedWins ==
    \A c \in Cmd : Live(c) /\ current[c] # Null =>
        \A i \in Index : asked[c][i] # Null => device[handle[c]][point[c]][i] = asked[c][i]
=============================================================================
