--------------------------- MODULE PipelineBuilder ---------------------------
(***************************************************************************)
(* GPipelineBuilder and CPipelineBuilder                                   *)
(* (src/pipeline/builders/pipeline_builder.cpp) and the pipelines they     *)
(* make (src/pipeline/pipeline.cpp), from the constructor of a builder to  *)
(* the destructors of its pipeline.                                        *)
(*                                                                         *)
(* Nothing sets m_shader_stages before shaders are added to it: its bits   *)
(* for the tessellation stages are arbitrary at first.  The application    *)
(* builds once: a pipeline takes the reflection with it.                   *)
(***************************************************************************)
EXTENDS PipelineLayouts

CONSTANTS
    Shader,         \* the shaders: [stage, uses, push]
    Given,          \* set layouts the application has
    Topology, Cull, \* what can be set
    Subpass,        \* ISubpass: [cull, compare], each Null to leave it alone
    MaxShaders,     \* bound: shaders of a pipeline
    MaxPipelines,   \* bound: pipelines when a builder is made
    MaxMade         \* bound: pipeline layouts made

ASSUME BuilderAssumption ==
    /\ SetLimit \in Nat /\ "triangles" \in Topology /\ "none" \in Cull
    /\ Null \notin Given /\ Null \notin Subpass /\ Null \notin Cull
    /\ \A shader \in Shader :
          shader.uses \subseteq Nat \X Nat /\ IsFiniteSet(shader.uses) /\ shader.push \in Nat

VARIABLES
    builder,    \* the builder, Null when there is none
    made,       \* device: pipeline layouts made so far
    layouts,    \* device: those that exist
    pipelines,  \* the Pipeline objects
    failed      \* graphics pipelines the device did not make

builderVars == <<builder, made, layouts, pipelines, failed>>

\* A record stands for both builders; asked is what the application set last,
\* refused the subpasses of builds that failed.  The constructor turns the
\* depth test off, which is asking for nothing.
NewBuilder(kind, garbage) ==
    [kind |-> kind, stages |-> garbage, garbage |-> garbage, reflection |-> Reflection,
     topology |-> "triangles", cull |-> "none", compare |-> "always", test |-> FALSE,
     pass |-> Null, refused |-> {},
     asked |-> [topology |-> "triangles", cull |-> "none", compare |-> Null, test |-> Null]]

set_topology(b, t) == [b EXCEPT !.topology = t, !.asked.topology = t]
set_rasterization(b, c) == [b EXCEPT !.cull = c, !.asked.cull = c]

\* A test that is off compares with ALWAYS, whatever was asked for.
set_depth_testing(b, test, compare) ==
    LET op == IF test THEN compare ELSE "always" IN
    [b EXCEPT !.compare = op, !.test = test, !.asked.compare = op, !.asked.test = test]

set_renderpass(b, subpass) == [b EXCEPT !.pass = subpass]

add_shader_stage(b, shader) ==
    [b EXCEPT !.reflection = WithShader(@, shader), !.stages = @ \cup {shader.stage}]

set_descriptor_set_layout(b, set, layout) == [b EXCEPT !.reflection = WithLayout(@, set, layout)]

\* What the subpass wants replaces what was set, in the builder itself.
WithSubpass(b) ==
    [b EXCEPT !.cull = IF b.pass.cull = Null THEN @ ELSE b.pass.cull,
              !.compare = IF b.pass.compare = Null THEN @ ELSE b.pass.compare]

WithPatches(b) == [b EXCEPT !.topology = IF "tesc" \in b.stages THEN "patches" ELSE @]

\* What is asserted: a render pass, and evaluation with control; one shader.
MayBuild(b) ==
    IF b.kind = "graphics" THEN b.pass # Null /\ ("tesc" \in b.stages => "tese" \in b.stages)
                           ELSE Len(b.reflection.shaders) = 1

PipelineOf(b, handle, created) ==
    [builder |-> b, handle |-> handle, created |-> created, layout |-> build_pipeline_layout(b.reflection)]

-----------------------------------------------------------------------------
(* The application builds pipelines by hand.                               *)

BuilderInit ==
    /\ builder = Null
    /\ made = 0 /\ layouts = {} /\ pipelines = {} /\ failed = 0

Begin ==
    /\ builder = Null /\ Cardinality(pipelines) < MaxPipelines
    /\ \E kind \in {"graphics", "compute"}, garbage \in SUBSET {"tesc", "tese"} :
          builder' = NewBuilder(kind, garbage)
    /\ UNCHANGED <<made, layouts, pipelines, failed>>

Configure ==
    /\ builder # Null
    /\ \/ \E t \in Topology : builder' = set_topology(builder, t)
       \/ \E c \in Cull : builder' = set_rasterization(builder, c)
       \/ \E test \in BOOLEAN : builder' = set_depth_testing(builder, test, "less_or_equal")
       \/ \E subpass \in Subpass : builder' = set_renderpass(builder, subpass)
    /\ UNCHANGED <<made, layouts, pipelines, failed>>

AddShader ==
    /\ builder # Null /\ Len(builder.reflection.shaders) < MaxShaders
    /\ \E shader \in Shader : builder' = add_shader_stage(builder, shader)
    /\ UNCHANGED <<made, layouts, pipelines, failed>>

GiveLayout ==
    /\ builder # Null
    /\ \E set \in 0..SetLimit - 1, layout \in Given :
          builder' = set_descriptor_set_layout(builder, set, layout)
    /\ UNCHANGED <<made, layouts, pipelines, failed>>

Prepared(b) == IF b.kind = "graphics" THEN WithPatches(WithSubpass(b)) ELSE b

\* build, and the builder's destructor.
Build ==
    /\ builder # Null /\ MayBuild(builder) /\ made < MaxMade
    /\ made' = made + 1
    /\ layouts' = layouts \cup {made'}
    /\ \E created \in BOOLEAN :
          /\ created \/ builder.kind = "compute"    \* its result is not looked at
          /\ pipelines' = pipelines \cup {PipelineOf(Prepared(builder), made', created)}
    /\ builder' = Null
    /\ UNCHANGED failed

\* The device refuses: an exception leaves the new layout behind, and the
\* builder, which may try again, as build has changed it.
BuildFails ==
    /\ builder # Null /\ MayBuild(builder) /\ builder.kind = "graphics" /\ made < MaxMade
    /\ made' = made + 1
    /\ layouts' = layouts \cup {made'}
    /\ builder' = [Prepared(builder) EXCEPT !.refused = @ \cup {builder.pass}]
    /\ failed' = failed + 1
    /\ UNCHANGED pipelines

DropBuilder ==
    /\ builder # Null
    /\ builder' = Null
    /\ UNCHANGED <<made, layouts, pipelines, failed>>

\* ~Pipeline
DestroyPipeline(p) ==
    /\ pipelines' = pipelines \ {p}
    /\ layouts' = layouts \ {p.handle}
    /\ UNCHANGED <<builder, made, failed>>

BuilderNext ==
    \/ Begin \/ Configure \/ AddShader \/ GiveLayout \/ Build \/ BuildFails \/ DropBuilder
    \/ \E p \in pipelines : DestroyPipeline(p)

BuilderSpec == BuilderInit /\ [][BuilderNext]_builderVars

-----------------------------------------------------------------------------
(* Correctness.                                                            *)

\* A pipeline owns its layout, and only failures leave one behind; a null
\* pipeline is a compute pipeline.
OwnsLayout ==
    /\ layouts \subseteq 1..made
    /\ \A p, q \in pipelines : p.handle \in layouts /\ (p.handle = q.handle => p = q)
    /\ Cardinality(layouts) = Cardinality(pipelines) + failed
    /\ \A p \in pipelines : p.created \/ p.builder.kind = "compute"

\* A graphics pipeline has the state its subpass demands, else what was set:
\* unless a build for another subpass failed before.  Of a depth test that was
\* never set nothing is claimed: it is off (pipeline_builder.cpp:106), while
\* pipeline_builder.hpp:80 says "Defaults to true if renderpass has depth
\* buffer else false".
StateAsAsked(p) ==
    LET b == p.builder
        Demanded(want, asked, got) == IF want # Null THEN got = want ELSE got = asked
    IN  b.refused \subseteq {b.pass} =>
            /\ Demanded(b.pass.cull, b.asked.cull, b.cull)
            /\ b.pass.compare # Null => b.compare = b.pass.compare
            /\ b.asked.test # Null =>
                  b.test = b.asked.test /\ Demanded(b.pass.compare, b.asked.compare, b.compare)

\* The topology is what was set, a list of triangles by default (the comment
\* at set_topology), and patches when there is a tessellation control stage.
TopologyAsAsked(p) ==
    LET shaders == p.builder.reflection.shaders IN
    p.builder.topology = IF \E i \in DOMAIN shaders : shaders[i].stage = "tesc" THEN "patches"
                         ELSE p.builder.asked.topology

\* Pipelines own what was made for them, their layouts serve their stages,
\* and their state is the one asked for (build of both builders): unless
\* m_shader_stages began with a tessellation stage in it.
PipelinesInv ==
    /\ OwnsLayout
    /\ \A p \in pipelines :
          /\ LayoutServes(p.layout, p.builder.reflection)
          /\ p.builder.kind = "graphics" =>
                StateAsAsked(p) /\ ("tesc" \notin p.builder.garbage => TopologyAsAsked(p))
=============================================================================
