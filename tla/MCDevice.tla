------------------------------ MODULE MCDevice ------------------------------
(***************************************************************************)
(* What the engine makes with the device outside of frames: descriptor     *)
(* sets of a pool; submissions, layouts and buffer memory of the context;  *)
(* pipelines that a builder makes by hand, and pipelines that are loaded.  *)
(* They share nothing that changes: a behaviour uses one of them.          *)
(***************************************************************************)
EXTENDS DescriptorPool, VulkanContext, DebugLoader, TLC

CONSTANTS small, large, f1, f2, f3, Stage

VARIABLE used   \* which of them the behaviour is about

\* Sets of one and of two units.
MCLayout == {small, large}
MCCost == small :> 1 @@ large :> 2

\* Two sets that overlap in stages and bindings, push constants, every other
\* stage, and a set out of reach.
MCShader ==
    [stage : {"vertex", "fragment"},
     uses : {{}, {<<0, 0>>}, {<<0, 0>>, <<0, 1>>}, {<<1, 0>>}}, push : {0}]
      \cup [stage : {"vertex", "fragment"}, uses : {{}}, push : {4}]
      \cup [stage : Stage, uses : {{}}, push : {0}]
      \cup [stage : {"fragment"}, uses : {{<<2, 0>>}}, push : {0}]
MCSubpass == {[cull |-> Null, compare |-> Null], [cull |-> "back", compare |-> "equal"]}

\* Two files describe one pipeline, two one set layout, and one pipeline uses both.
Pipe(name, sets) == [name |-> name, needs |-> {"pass"}, sets |-> sets]
MCFile == {f1, f2, f3}
MCDescribed ==
    f1 :> <<Pipe("p", "a" :> 0), Pipe("q", "a" :> 0 @@ "b" :> 1)>>
      @@ f2 :> <<Pipe("p", "b" :> 0)>> @@ f3 :> <<>>
MCSetLayouts == f1 :> {"a"} @@ f2 :> {"b"} @@ f3 :> {"a"}
Uses(stage, places) == [stage |-> stage, uses |-> places, push |-> 0]
MCCompiled ==
    {<<Uses("compute", {<<0, 0>>})>>, <<Uses("vertex", {<<0, 0>>}), Uses("fragment", {<<1, 0>>})>>}

allVars == <<used, vars, contextVars, loaderVars>>

DeviceInit ==
    /\ used \in {"pool", "context", "builder", "loader"}
    /\ Init /\ ContextInit /\ LoaderInit
    /\ used # "context" => checked

UsePool == used = "pool" /\ Next /\ UNCHANGED <<used, contextVars, loaderVars>>
UseContext == used = "context" /\ ContextNext /\ UNCHANGED <<used, vars, loaderVars>>
UseBuilder ==
    /\ used = "builder" /\ BuilderNext
    /\ UNCHANGED <<used, vars, contextVars, fileVars, providerVars, loadVars>>
UseLoader == used = "loader" /\ LoaderNext /\ UNCHANGED <<used, vars, contextVars>>

\* allocate_set goes on; the context's fairness is that of VulkanContext.
DeviceSpec ==
    /\ DeviceInit /\ [][UsePool \/ UseContext \/ UseBuilder \/ UseLoader]_allVars
    /\ WF_vars(AllocateStep) /\ ContextFairness
=============================================================================
