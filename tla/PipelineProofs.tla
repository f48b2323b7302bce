--------------------------- MODULE PipelineProofs ---------------------------
(***************************************************************************)
(* For every set of shaders, subpasses and settings: a pipeline owns its   *)
(* layout, the layout serves its stages, and its state is the one asked    *)
(* for; and what the loader makes is what was described last, for every    *)
(* set of files.                                                           *)
(***************************************************************************)
EXTENDS DebugLoader, DataLemmas

-----------------------------------------------------------------------------
(* The layout derived from the shaders.                                    *)

\* A reflection as the builders make it: shaders one after the other.
IsReflection(r) ==
    /\ DOMAIN r.shaders \subseteq Nat
    /\ \A i \in DOMAIN r.shaders :
          /\ r.shaders[i].uses \subseteq Nat \X Nat /\ IsFiniteSet(r.shaders[i].uses)
          /\ r.shaders[i].push \in Nat

\* A set that some stage uses has the room of a number of bindings.
LEMMA RoomIsNumber ==
    ASSUME NEW r, IsReflection(r), NEW set
    PROVE  Room(r, set) \in Nat
<1>1. CASE Users(r, set) = {}
  BY <1>1 DEF Room
<1>2. CASE Users(r, set) # {}
  <2>1. Users(r, set) \subseteq DOMAIN r.shaders /\ Users(r, set) \in SUBSET Nat
    BY DEF Users, IsReflection
  <2> DEFINE i == Min(Users(r, set))
  <2>3. i \in Users(r, set)
    BY <2>1, <1>2, MinOf
  <2>4. i \in DOMAIN r.shaders
    BY <2>1, <2>3
  <2>5. Room(r, set) = Count(r.shaders[i], set)
    BY <1>2 DEF Room
  <2> HIDE DEF i
  <2>6. IsFiniteSet(r.shaders[i].uses)
    BY <2>4 DEF IsReflection
  <2>7. IsFiniteSet({place \in r.shaders[i].uses : place[1] = set})
    BY <2>6, FS_Subset
  <2>8. Count(r.shaders[i], set) \in Nat
    BY <2>7, FS_CardinalityType DEF Count
  <2> QED
    BY <2>5, <2>8
<1> QED
  BY <1>1, <1>2

\* The sets up to one that is laid out are laid out, and have their places in
\* the layout.
LEMMA LaidOutPlace ==
    ASSUME NEW r, NEW s \in LaidOut(r), SetLimit \in Nat
    PROVE  s + 1 \in 1..Cardinality(LaidOut(r)) /\ s \in Nat /\ HasLayout(r, s)
<1>1. s \in 0..SetLimit - 1 /\ s \in Nat /\ \A t \in 0..s : HasLayout(r, t)
  BY DEF LaidOut
<1>2. 0..s \subseteq LaidOut(r)
  BY <1>1 DEF LaidOut
<1>3. IsFiniteSet(0..SetLimit - 1) /\ LaidOut(r) \subseteq 0..SetLimit - 1
  <2>1. 0 \in Int /\ SetLimit - 1 \in Int
    OBVIOUS
  <2> QED
    BY <2>1, FS_Interval DEF LaidOut
<1>4. IsFiniteSet(LaidOut(r))
  BY <1>3, FS_Subset
<1>5. Cardinality(0..s) <= Cardinality(LaidOut(r))
  BY <1>2, <1>4, FS_Subset
<1>6. Cardinality(0..s) = s + 1
  <2>1. 0 \in Int /\ s \in Int /\ ~(0 > s)
    BY <1>1
  <2>2. Cardinality(0..s) = s - 0 + 1
    BY <2>1, FS_Interval
  <2> QED
    BY <2>2, <1>1
<1>7. Cardinality(LaidOut(r)) \in Nat
  BY <1>4, FS_CardinalityType
<1>8. s + 1 <= Cardinality(LaidOut(r))
  BY <1>5, <1>6
<1>9. s + 1 \in 1..Cardinality(LaidOut(r))
  BY <1>1, <1>7, <1>8
<1> QED
  BY <1>1, <1>9

\* Every stage finds what it needs in the layout, up to the exceptions.
LEMMA BuiltLayoutServes ==
    ASSUME NEW r, IsReflection(r), SetLimit \in Nat
    PROVE  LayoutServes(build_pipeline_layout(r), r)
<1> DEFINE layout == build_pipeline_layout(r)
<1>1. SUFFICES ASSUME ~Overruns(r), NEW i \in DOMAIN r.shaders
               PROVE  /\ NoGap(r) => ServesBindings(layout, r, i)
                      /\ OnePusher(r) => ServesPush(layout, r, i)
  BY DEF LayoutServes
<1>2. ASSUME NoGap(r), NEW place \in r.shaders[i].uses
      PROVE  /\ place[1] + 1 \in DOMAIN layout.sets
             /\ "given" \in DOMAIN layout.sets[place[1] + 1]
                  \/ r.shaders[i].stage \in layout.sets[place[1] + 1].bindings[place[2] + 1]
  <2> DEFINE set == place[1]
             n == place[2]
  <2>1. set \in Nat /\ n \in Nat /\ place = <<set, n>>
    BY DEF IsReflection
  <2>2. set < SetLimit /\ n < Room(r, set)
    <3>1. ~(set >= SetLimit) /\ ~(n >= Room(r, set))
      BY <1>1 DEF Overruns
    <3> QED
      BY <3>1, <2>1, RoomIsNumber
  <2>3. i \in Users(r, set)
    BY DEF Users
  <2>4. set \in 0..SetLimit - 1
    BY <2>1, <2>2
  <2>5. set \in LaidOut(r)
    BY <1>2, <2>3, <2>4 DEF NoGap
  <2>6. layout.sets = [k \in 1..Cardinality(LaidOut(r)) |-> SetLayout(r, k - 1)]
    BY DEF build_pipeline_layout
  <2>7. set + 1 \in 1..Cardinality(LaidOut(r))
    BY <2>5, LaidOutPlace
  <2> HIDE DEF layout
  <2>8. set + 1 \in DOMAIN layout.sets /\ layout.sets[set + 1] = SetLayout(r, (set + 1) - 1)
    BY <2>6, <2>7
  <2>9. (set + 1) - 1 = set
    BY <2>1
  <2>10. layout.sets[set + 1] = SetLayout(r, set)
    BY <2>8, <2>9
  <2>11. CASE get_set_layout(r, set) # Null
    <3>1. SetLayout(r, set) = [given |-> get_set_layout(r, set)]
      BY <2>11 DEF SetLayout
    <3>2. "given" \in DOMAIN SetLayout(r, set)
      BY <3>1
    <3> QED
      BY <2>8, <2>10, <3>2
  <2>12. CASE get_set_layout(r, set) = Null
    <3>1. SetLayout(r, set).bindings = [k \in 1..Room(r, set) |-> Stages(r, <<set, k - 1>>)]
      BY <2>12 DEF SetLayout
    <3>2. n + 1 \in 1..Room(r, set) /\ (n + 1) - 1 = n
      BY <2>1, <2>2, RoomIsNumber
    <3>3. SetLayout(r, set).bindings[n + 1] = Stages(r, place)
      BY <3>1, <3>2, <2>1
    <3>4. r.shaders[i].stage \in Stages(r, place)
      BY <1>2 DEF Stages
    <3> QED
      BY <2>8, <2>10, <3>3, <3>4
  <2> QED
    BY <2>11, <2>12
<1>3. ASSUME OnePusher(r), r.shaders[i].push # 0
      PROVE  <<r.shaders[i].stage, r.shaders[i].push>> \in layout.push
  <2>1. r.shaders[i].push > 0 /\ i \in Nat
    BY <1>3 DEF IsReflection
  <2>2. \A j \in DOMAIN r.shaders : r.shaders[j].push > 0 => j = i
    BY <1>3, <2>1 DEF OnePusher
  <2>3. i <= i
    BY <2>1
  <2>4. i \in PushStages(r)
    BY <2>1, <2>2, <2>3 DEF PushStages
  <2> QED
    BY <2>4 DEF build_pipeline_layout
<1> QED
  BY <1>2, <1>3 DEF ServesBindings, ServesPush

-----------------------------------------------------------------------------
(* What the device has.                                                    *)

\* A pipeline owns its layout, and the layouts can be counted.
OwnedInv ==
    /\ made \in Nat /\ failed \in Nat
    /\ IsFiniteSet(pipelines) /\ IsFiniteSet(layouts)
    /\ OwnsLayout

\* A new pipeline layout has no owner yet: the pipeline made with it becomes
\* its owner, or nothing does when the device refuses.
LEMMA NewLayoutOwned ==
    ASSUME OwnedInv, made' = made + 1, layouts' = layouts \cup {made'},
           \/ \E p : /\ p.handle = made' /\ (p.created \/ p.builder.kind = "compute")
                     /\ pipelines' = pipelines \cup {p} /\ failed' = failed
           \/ pipelines' = pipelines /\ failed' = failed + 1
    PROVE  OwnedInv'
<1>1. /\ made \in Nat /\ failed \in Nat /\ IsFiniteSet(pipelines) /\ IsFiniteSet(layouts)
      /\ layouts \subseteq 1..made
      /\ \A p, q \in pipelines : p.handle \in layouts /\ (p.handle = q.handle => p = q)
      /\ Cardinality(layouts) = Cardinality(pipelines) + failed
      /\ \A p \in pipelines : p.created \/ p.builder.kind = "compute"
  BY DEF OwnedInv, OwnsLayout
<1>2. made' \in Nat /\ made' \notin layouts /\ layouts' \subseteq 1..made'
  BY <1>1
<1>3. IsFiniteSet(layouts') /\ Cardinality(layouts') = Cardinality(layouts) + 1
  BY <1>1, <1>2, FS_AddElement
<1>4. Cardinality(pipelines) \in Nat
  BY <1>1, FS_CardinalityType
<1>5. CASE pipelines' = pipelines /\ failed' = failed + 1
  <2>1. failed' \in Nat /\ Cardinality(layouts') = Cardinality(pipelines') + failed'
    BY <1>1, <1>3, <1>4, <1>5
  <2>2. \A p, q \in pipelines' : p.handle \in layouts' /\ (p.handle = q.handle => p = q)
    BY <1>1, <1>5
  <2> QED
    BY <1>1, <1>2, <1>3, <1>5, <2>1, <2>2 DEF OwnedInv, OwnsLayout
<1>6. ASSUME NEW p, p.handle = made', p.created \/ p.builder.kind = "compute",
             pipelines' = pipelines \cup {p}, failed' = failed
      PROVE  OwnedInv'
  <2>1. \A q \in pipelines : q.handle # made'
    BY <1>1, <1>2
  <2>2. p \notin pipelines
    BY <2>1, <1>6
  <2>3. IsFiniteSet(pipelines') /\ Cardinality(pipelines') = Cardinality(pipelines) + 1
    BY <1>1, <1>6, <2>2, FS_AddElement
  <2>4. failed' \in Nat /\ Cardinality(layouts') = Cardinality(pipelines') + failed'
    BY <1>1, <1>3, <1>4, <1>6, <2>3
  <2>5. \A q, r \in pipelines' : q.handle \in layouts' /\ (q.handle = r.handle => q = r)
    BY <1>1, <1>6, <2>1
  <2>6. \A q \in pipelines' : q.created \/ q.builder.kind = "compute"
    BY <1>1, <1>6
  <2> QED
    BY <1>2, <1>3, <2>3, <2>4, <2>5, <2>6 DEF OwnedInv, OwnsLayout
<1> QED
  BY <1>5, <1>6

\* A destructor takes the layout with it.
LEMMA DestroyKeepsOwners ==
    ASSUME OwnedInv, NEW p \in pipelines, DestroyPipeline(p)
    PROVE  OwnedInv'
<1>1. /\ made \in Nat /\ failed \in Nat /\ IsFiniteSet(pipelines) /\ IsFiniteSet(layouts)
      /\ layouts \subseteq 1..made
      /\ \A q, r \in pipelines : q.handle \in layouts /\ (q.handle = r.handle => q = r)
      /\ Cardinality(layouts) = Cardinality(pipelines) + failed
      /\ \A q \in pipelines : q.created \/ q.builder.kind = "compute"
  BY DEF OwnedInv, OwnsLayout
<1>2. /\ pipelines' = pipelines \ {p} /\ layouts' = layouts \ {p.handle}
      /\ made' = made /\ failed' = failed
  BY DEF DestroyPipeline
<1>3. IsFiniteSet(layouts') /\ Cardinality(layouts') = Cardinality(layouts) - 1
  BY <1>1, <1>2, FS_RemoveElement
<1>4. IsFiniteSet(pipelines') /\ Cardinality(pipelines') = Cardinality(pipelines) - 1
  BY <1>1, <1>2, FS_RemoveElement
<1>5. Cardinality(layouts) \in Nat /\ Cardinality(pipelines) \in Nat
  BY <1>1, FS_CardinalityType
<1>6. Cardinality(layouts') = Cardinality(pipelines') + failed'
  BY <1>1, <1>2, <1>3, <1>4, <1>5
<1>7. \A q, r \in pipelines' : q.handle \in layouts' /\ (q.handle = r.handle => q = r)
  BY <1>1, <1>2
<1> QED
  BY <1>1, <1>2, <1>3, <1>4, <1>6, <1>7 DEF OwnedInv, OwnsLayout

-----------------------------------------------------------------------------
(* What a builder remembers.                                               *)

StageName == {"tesc", "tese"} \cup {shader.stage : shader \in Shader}
Culls == Cull \cup {subpass.cull : subpass \in Subpass}
Compares == {"always", "less_or_equal"} \cup {subpass.compare : subpass \in Subpass}
Reflections == [shaders : Seq(Shader), layouts : Seq(Given \cup {Null})]

Builders ==
    [kind : {"graphics", "compute"}, stages : SUBSET StageName, garbage : SUBSET StageName,
     reflection : Reflections, topology : Topology \cup {"patches"}, cull : Culls, compare : Compares,
     test : BOOLEAN, pass : Subpass \cup {Null}, refused : SUBSET Subpass,
     asked : [topology : Topology, cull : Cull, compare : {"always", "less_or_equal", Null},
              test : BOOLEAN \cup {Null}]]

StagesOf(shaders) == {shaders[i].stage : i \in DOMAIN shaders}

\* What was asked for the depth test is what a build will set.
DepthAsAsked(b) ==
    b.asked.test # Null =>
        /\ b.test = b.asked.test
        /\ b.compare = b.asked.compare \/ \E subpass \in b.refused : subpass.compare # Null

\* A builder has seen the stages of its shaders and those it began with, and
\* differs from what was asked for only by subpasses whose builds failed, and
\* by patches once it has a tessellation control stage.
BuilderOk(b) ==
    /\ b \in Builders
    /\ b.stages = b.garbage \cup StagesOf(b.reflection.shaders)
    /\ b.cull = b.asked.cull \/ \E subpass \in b.refused : subpass.cull # Null
    /\ DepthAsAsked(b)
    /\ b.topology = b.asked.topology \/ "tesc" \in b.stages

\* What PipelinesInv says of one pipeline.
PipelineOk(p) ==
    /\ LayoutServes(p.layout, p.builder.reflection)
    /\ p.builder.kind = "graphics" =>
          StateAsAsked(p) /\ ("tesc" \notin p.builder.garbage => TopologyAsAsked(p))

HandMade ==
    /\ OwnedInv
    /\ builder # Null => BuilderOk(builder)
    /\ \A p \in pipelines : PipelineOk(p)

\* The builders begin as they should.
LEMMA NewBuilderOk ==
    ASSUME NEW kind \in {"graphics", "compute"}, NEW garbage \in SUBSET {"tesc", "tese"}
    PROVE  BuilderOk(NewBuilder(kind, garbage))
<1> DEFINE b == NewBuilder(kind, garbage)
<1>1. /\ b.kind = kind /\ b.stages = garbage /\ b.garbage = garbage /\ b.reflection = Reflection
      /\ b.topology = "triangles" /\ b.cull = "none" /\ b.compare = "always"
      /\ b.asked = [topology |-> "triangles", cull |-> "none", compare |-> Null, test |-> Null]
  BY DEF NewBuilder
<1>2. Reflection \in Reflections /\ Reflection.shaders = <<>>
  BY DEF Reflection, Reflections
<1>3. b \in Builders
  BY <1>2, BuilderAssumption DEF NewBuilder, Builders, StageName, Culls, Compares
<1>4. StagesOf(b.reflection.shaders) = {}
  BY <1>1, <1>2 DEF StagesOf
<1> QED
  BY <1>1, <1>3, <1>4 DEF BuilderOk, DepthAsAsked

\* Adding a shader adds its stage.
LEMMA AddShaderOk ==
    ASSUME NEW b, BuilderOk(b), NEW shader \in Shader
    PROVE  BuilderOk(add_shader_stage(b, shader))
<1> DEFINE c == add_shader_stage(b, shader)
<1>1. b \in Builders /\ b.reflection \in Reflections /\ b.reflection.shaders \in Seq(Shader)
  BY DEF BuilderOk, Builders, Reflections
<1>2. /\ c.kind = b.kind /\ c.stages = b.stages \cup {shader.stage} /\ c.garbage = b.garbage
      /\ c.reflection = WithShader(b.reflection, shader)
      /\ c.topology = b.topology /\ c.cull = b.cull /\ c.compare = b.compare /\ c.test = b.test
      /\ c.pass = b.pass /\ c.refused = b.refused /\ c.asked = b.asked
  BY <1>1 DEF add_shader_stage, Builders
<1>3. /\ WithShader(b.reflection, shader) \in Reflections
      /\ WithShader(b.reflection, shader).shaders = Append(b.reflection.shaders, shader)
  <2> DEFINE s == b.reflection.shaders
  <2>1. Append(s, shader) \in Seq(Shader)
    BY <1>1
  <2>2. /\ WithShader(b.reflection, shader).shaders = Append(s, shader)
        /\ WithShader(b.reflection, shader) = [b.reflection EXCEPT !.shaders = Append(s, shader)]
    BY <1>1 DEF WithShader, Reflections
  <2> HIDE DEF s
  <2> QED
    BY <1>1, <2>1, <2>2 DEF Reflections, s
<1>4. c \in Builders
  BY <1>1, <1>3 DEF add_shader_stage, Builders, StageName
<1>5. StagesOf(c.reflection.shaders) = StagesOf(b.reflection.shaders) \cup {shader.stage}
  <2> DEFINE s == b.reflection.shaders
             t == Append(s, shader)
  <2>1. /\ DOMAIN t = 1..Len(s) + 1 /\ DOMAIN s = 1..Len(s) /\ Len(s) \in Nat
        /\ t[Len(s) + 1] = shader /\ \A i \in 1..Len(s) : t[i] = s[i]
    BY <1>1
  <2>2. c.reflection.shaders = t
    BY <1>2, <1>3
  <2> HIDE DEF s, t
  <2>3. \A i \in DOMAIN t : i \in DOMAIN s \/ i = Len(s) + 1
    BY <2>1
  <2>4. \A i \in DOMAIN s : i \in DOMAIN t
    BY <2>1
  <2>5. Len(s) + 1 \in DOMAIN t
    BY <2>1
  <2>6. StagesOf(t) = StagesOf(s) \cup {shader.stage}
    BY <2>1, <2>3, <2>4, <2>5 DEF StagesOf
  <2> QED
    BY <2>2, <2>6 DEF s
<1> QED
  BY <1>2, <1>4, <1>5 DEF BuilderOk, DepthAsAsked

\* What is set is remembered as asked for.
LEMMA ConfigureOk ==
    ASSUME NEW b, BuilderOk(b)
    PROVE  /\ \A t \in Topology : BuilderOk(set_topology(b, t))
           /\ \A c \in Cull : BuilderOk(set_rasterization(b, c))
           /\ \A test \in BOOLEAN : BuilderOk(set_depth_testing(b, test, "less_or_equal"))
           /\ \A subpass \in Subpass : BuilderOk(set_renderpass(b, subpass))
<1>1. /\ b \in Builders
      /\ b.stages = b.garbage \cup StagesOf(b.reflection.shaders)
      /\ b.cull = b.asked.cull \/ \E subpass \in b.refused : subpass.cull # Null
      /\ DepthAsAsked(b)
      /\ b.topology = b.asked.topology \/ "tesc" \in b.stages
  BY DEF BuilderOk
<1>2. ASSUME NEW t \in Topology PROVE BuilderOk(set_topology(b, t))
  <2> DEFINE c == set_topology(b, t)
  <2>1. /\ c.stages = b.stages /\ c.garbage = b.garbage /\ c.reflection = b.reflection /\ c.topology = t
        /\ c.cull = b.cull /\ c.compare = b.compare /\ c.test = b.test /\ c.refused = b.refused
        /\ c.asked.topology = t /\ c.asked.cull = b.asked.cull /\ c.asked.compare = b.asked.compare
        /\ c.asked.test = b.asked.test
    BY <1>1 DEF set_topology, Builders
  <2>2. c \in Builders
    BY <1>1 DEF set_topology, Builders
  <2> QED
    BY <1>1, <2>1, <2>2 DEF BuilderOk, DepthAsAsked
<1>3. ASSUME NEW cull \in Cull PROVE BuilderOk(set_rasterization(b, cull))
  <2> DEFINE c == set_rasterization(b, cull)
  <2>1. /\ c.stages = b.stages /\ c.garbage = b.garbage /\ c.reflection = b.reflection
        /\ c.topology = b.topology /\ c.cull = cull /\ c.compare = b.compare /\ c.test = b.test /\ c.refused = b.refused
        /\ c.asked.topology = b.asked.topology /\ c.asked.cull = cull /\ c.asked.compare = b.asked.compare
        /\ c.asked.test = b.asked.test
    BY <1>1 DEF set_rasterization, Builders
  <2>2. c \in Builders
    BY <1>1 DEF set_rasterization, Builders, Culls
  <2> QED
    BY <1>1, <2>1, <2>2 DEF BuilderOk, DepthAsAsked
<1>4. ASSUME NEW test \in BOOLEAN PROVE BuilderOk(set_depth_testing(b, test, "less_or_equal"))
  <2> DEFINE op == IF test THEN "less_or_equal" ELSE "always"
             c == set_depth_testing(b, test, "less_or_equal")
  <2>1. c = [b EXCEPT !.compare = op, !.test = test, !.asked.compare = op, !.asked.test = test] /\ op \in {"always", "less_or_equal"}
    BY DEF set_depth_testing
  <2> HIDE DEF c, op
  <2>2. /\ c.stages = b.stages /\ c.garbage = b.garbage /\ c.reflection = b.reflection
        /\ c.topology = b.topology /\ c.cull = b.cull /\ c.compare = op /\ c.refused = b.refused
        /\ c.asked.topology = b.asked.topology /\ c.asked.cull = b.asked.cull /\ c.asked.compare = op
        /\ c.test = test /\ c.asked.test = test
    BY <1>1, <2>1 DEF Builders
  <2>3. c \in Builders
    BY <1>1, <2>1 DEF Builders, Compares
  <2>4. BuilderOk(c)
    BY <1>1, <2>2, <2>3 DEF BuilderOk, DepthAsAsked
  <2> QED
    BY <2>4 DEF c
<1>5. ASSUME NEW subpass \in Subpass PROVE BuilderOk(set_renderpass(b, subpass))
  <2> DEFINE c == set_renderpass(b, subpass)
  <2>1. /\ c.stages = b.stages /\ c.garbage = b.garbage /\ c.reflection = b.reflection
        /\ c.topology = b.topology /\ c.cull = b.cull /\ c.compare = b.compare /\ c.test = b.test /\ c.refused = b.refused
        /\ c.asked = b.asked
    BY <1>1 DEF set_renderpass, Builders
  <2>2. c \in Builders
    BY <1>1 DEF set_renderpass, Builders
  <2> QED
    BY <1>1, <2>1, <2>2 DEF BuilderOk, DepthAsAsked
<1> QED
  BY <1>2, <1>3, <1>4, <1>5

\* Giving a set layout changes nothing else.
LEMMA GiveLayoutOk ==
    ASSUME NEW b, BuilderOk(b), NEW set \in 0..SetLimit - 1, NEW layout \in Given
    PROVE  BuilderOk(set_descriptor_set_layout(b, set, layout))
<1> DEFINE r == b.reflection
           n == IF Len(r.layouts) <= set THEN set + 1 ELSE Len(r.layouts)
           wider == [i \in 1..n |-> CASE i = set + 1 -> layout
                                      [] i # set + 1 /\ i <= Len(r.layouts) -> r.layouts[i]
                                      [] OTHER -> Null]
           c == set_descriptor_set_layout(b, set, layout)
<1>1. /\ b \in Builders
      /\ b.stages = b.garbage \cup StagesOf(b.reflection.shaders)
      /\ b.cull = b.asked.cull \/ \E subpass \in b.refused : subpass.cull # Null
      /\ DepthAsAsked(b)
      /\ b.topology = b.asked.topology \/ "tesc" \in b.stages
  BY DEF BuilderOk
<1>2. r \in Reflections /\ r.shaders \in Seq(Shader) /\ r.layouts \in Seq(Given \cup {Null})
  BY <1>1 DEF Builders, Reflections
<1>3. set \in Nat /\ Len(r.layouts) \in Nat /\ n \in Nat
  BY <1>2, BuilderAssumption
<1>4. wider \in Seq(Given \cup {Null})
  <2>1. \A i \in 1..Len(r.layouts) : r.layouts[i] \in Given \cup {Null}
    BY <1>2
  <2> HIDE DEF r, n
  <2>2. ASSUME NEW i \in 1..n PROVE wider[i] \in Given \cup {Null}
    <3>1. CASE i = set + 1
      BY <3>1
    <3>2. CASE i # set + 1 /\ i <= Len(r.layouts)
      BY <3>2, <2>1, <1>3
    <3>3. CASE i # set + 1 /\ ~(i <= Len(r.layouts))
      BY <3>3
    <3> QED
      BY <3>1, <3>2, <3>3
  <2>3. wider \in [1..n -> Given \cup {Null}]
    BY <2>2
  <2> HIDE DEF wider
  <2> QED
    BY <2>3, <1>3
<1>5. WithLayout(r, set, layout) = [r EXCEPT !.layouts = wider]
  BY DEF WithLayout
<1> HIDE DEF wider, n
<1>6. WithLayout(r, set, layout) \in Reflections /\ WithLayout(r, set, layout).shaders = r.shaders
  BY <1>2, <1>4, <1>5 DEF Reflections
<1>7. c = [b EXCEPT !.reflection = WithLayout(r, set, layout)]
  BY DEF set_descriptor_set_layout
<1> DEFINE w == WithLayout(r, set, layout)
<1> HIDE DEF c, w
<1>8. /\ c.stages = b.stages /\ c.garbage = b.garbage /\ c.reflection = w
      /\ c.topology = b.topology /\ c.cull = b.cull /\ c.compare = b.compare /\ c.test = b.test /\ c.refused = b.refused
      /\ c.asked = b.asked
  BY <1>1, <1>7 DEF Builders, w
<1>9. c \in Builders
  BY <1>1, <1>6, <1>7 DEF Builders, w
<1>10. BuilderOk(c)
  BY <1>1, <1>6, <1>8, <1>9 DEF BuilderOk, DepthAsAsked, w
<1> QED
  BY <1>10 DEF c

\* What build makes of a graphics builder that it may build.
LEMMA PreparedGraphics ==
    ASSUME NEW b, BuilderOk(b), MayBuild(b), b.kind = "graphics"
    PROVE  /\ b.pass \in Subpass
           /\ Prepared(b) =
                [b EXCEPT !.cull = IF b.pass.cull = Null THEN b.cull ELSE b.pass.cull,
                          !.compare = IF b.pass.compare = Null THEN b.compare ELSE b.pass.compare,
                          !.topology = IF "tesc" \in b.stages THEN "patches" ELSE b.topology]
           /\ Prepared(b) \in Builders /\ Prepared(b).kind = "graphics"
<1>1. b \in Builders /\ b.pass \in Subpass
  BY DEF BuilderOk, Builders, MayBuild
<1> DEFINE cull == IF b.pass.cull = Null THEN b.cull ELSE b.pass.cull
           compare == IF b.pass.compare = Null THEN b.compare ELSE b.pass.compare
           topology == IF "tesc" \in b.stages THEN "patches" ELSE b.topology
           c == WithSubpass(b)
<1>2. c = [b EXCEPT !.cull = cull, !.compare = compare]
  BY <1>1 DEF WithSubpass, Builders
<1>3. cull \in Culls /\ compare \in Compares /\ topology \in Topology \cup {"patches"}
  BY <1>1 DEF Builders, Culls, Compares
<1>4. WithPatches(c) = [c EXCEPT !.topology = IF "tesc" \in c.stages THEN "patches" ELSE c.topology]
  BY DEF WithPatches
<1>5. Prepared(b) = WithPatches(c)
  BY DEF Prepared
<1> HIDE DEF c, cull, compare
<1>6. c.stages = b.stages /\ c.topology = b.topology
  BY <1>1, <1>2 DEF Builders
<1>7. WithPatches(c) = [c EXCEPT !.topology = topology]
  BY <1>4, <1>6
<1> HIDE DEF topology
<1>8. Prepared(b) = [b EXCEPT !.cull = cull, !.compare = compare, !.topology = topology]
  BY <1>1, <1>2, <1>5, <1>7 DEF Builders
<1>9. Prepared(b) \in Builders
  BY <1>1, <1>3, <1>8 DEF Builders
<1>10. Prepared(b).kind = "graphics"
  BY <1>1, <1>8 DEF Builders
<1> QED
  BY <1>1, <1>8, <1>9, <1>10 DEF cull, compare, topology

\* A build that fails leaves a builder that remembers the subpass it was for.
LEMMA RefusedOk ==
    ASSUME NEW b, BuilderOk(b), MayBuild(b), b.kind = "graphics"
    PROVE  BuilderOk([Prepared(b) EXCEPT !.refused = @ \cup {b.pass}])
<1> DEFINE p == Prepared(b)
           c == [p EXCEPT !.refused = p.refused \cup {b.pass}]
<1>1. /\ b \in Builders
      /\ b.stages = b.garbage \cup StagesOf(b.reflection.shaders)
      /\ b.cull = b.asked.cull \/ \E subpass \in b.refused : subpass.cull # Null
      /\ DepthAsAsked(b)
      /\ b.topology = b.asked.topology \/ "tesc" \in b.stages
  BY DEF BuilderOk
<1>2. /\ b.pass \in Subpass /\ p \in Builders
      /\ p = [b EXCEPT !.cull = IF b.pass.cull = Null THEN b.cull ELSE b.pass.cull,
                       !.compare = IF b.pass.compare = Null THEN b.compare ELSE b.pass.compare,
                       !.topology = IF "tesc" \in b.stages THEN "patches" ELSE b.topology]
  BY PreparedGraphics
<1> HIDE DEF p
<1>3. /\ p.stages = b.stages /\ p.garbage = b.garbage /\ p.reflection = b.reflection
      /\ p.refused = b.refused /\ p.asked = b.asked /\ p.test = b.test
      /\ p.cull = IF b.pass.cull = Null THEN b.cull ELSE b.pass.cull
      /\ p.compare = IF b.pass.compare = Null THEN b.compare ELSE b.pass.compare
      /\ p.topology = IF "tesc" \in b.stages THEN "patches" ELSE b.topology
  BY <1>1, <1>2 DEF Builders
<1>4. /\ c.stages = b.stages /\ c.garbage = b.garbage /\ c.reflection = b.reflection
      /\ c.refused = b.refused \cup {b.pass} /\ c.asked = b.asked
      /\ c.cull = p.cull /\ c.compare = p.compare /\ c.test = p.test /\ c.topology = p.topology
  BY <1>2, <1>3 DEF Builders
<1>5. c \in Builders
  <2> DEFINE refused == p.refused \cup {b.pass}
  <2>1. p \in Builders
    BY <1>2
  <2>2. refused \in SUBSET Subpass
    <3>1. p.refused \in SUBSET Subpass
      BY <2>1 DEF Builders
    <3> QED
      BY <1>2, <3>1
  <2> HIDE DEF refused
  <2>3. [p EXCEPT !.refused = refused] \in Builders
    BY <2>1, <2>2 DEF Builders
  <2> QED
    BY <2>3 DEF refused
<1> HIDE DEF c
<1>6. c.cull = c.asked.cull \/ \E subpass \in c.refused : subpass.cull # Null
  BY <1>1, <1>3, <1>4
<1>7. DepthAsAsked(c)
  BY <1>1, <1>3, <1>4 DEF DepthAsAsked
<1>8. c.topology = c.asked.topology \/ "tesc" \in c.stages
  BY <1>1, <1>3, <1>4
<1>9. BuilderOk(c)
  BY <1>1, <1>4, <1>5, <1>6, <1>7, <1>8 DEF BuilderOk
<1> QED
  BY <1>9 DEF c, p

\* A reflection of typed shaders and layouts is one.
LEMMA TypedReflection ==
    ASSUME NEW r \in Reflections
    PROVE  IsReflection(r)
<1>1. r.shaders \in Seq(Shader)
  BY DEF Reflections
<1>2. \A i \in DOMAIN r.shaders : r.shaders[i] \in Shader
  BY <1>1
<1>3. DOMAIN r.shaders \subseteq Nat
  BY <1>1
<1> QED
  BY <1>2, <1>3, BuilderAssumption DEF IsReflection

\* A pipeline is what its builder was asked for.
LEMMA BuiltAsAsked ==
    ASSUME NEW b, BuilderOk(b), MayBuild(b), NEW handle, NEW created
    PROVE  PipelineOk(PipelineOf(Prepared(b), handle, created))
<1> DEFINE c == Prepared(b)
           p == PipelineOf(c, handle, created)
<1>1. p.builder = c /\ p.layout = build_pipeline_layout(c.reflection)
  BY DEF PipelineOf
<1>2. /\ b \in Builders
      /\ b.stages = b.garbage \cup StagesOf(b.reflection.shaders)
      /\ b.cull = b.asked.cull \/ \E subpass \in b.refused : subpass.cull # Null
      /\ DepthAsAsked(b)
      /\ b.topology = b.asked.topology \/ "tesc" \in b.stages
  BY DEF BuilderOk
<1>3. c \in Builders
  BY <1>2, PreparedGraphics DEF Prepared
<1>4. c.reflection \in Reflections
  BY <1>3 DEF Builders
<1>5. LayoutServes(p.layout, p.builder.reflection)
  BY <1>1, <1>4, TypedReflection, BuiltLayoutServes, BuilderAssumption
<1>6. ASSUME c.kind = "graphics"
      PROVE  StateAsAsked(p) /\ ("tesc" \notin c.garbage => TopologyAsAsked(p))
  <2>1. b.kind = "graphics"
    BY <1>6 DEF Prepared
  <2>2. c = [b EXCEPT !.cull = IF b.pass.cull = Null THEN b.cull ELSE b.pass.cull,
                      !.compare = IF b.pass.compare = Null THEN b.compare ELSE b.pass.compare,
                      !.topology = IF "tesc" \in b.stages THEN "patches" ELSE b.topology]
    BY <2>1, PreparedGraphics
  <2> HIDE DEF c
  <2>3. /\ c.stages = b.stages /\ c.garbage = b.garbage /\ c.reflection = b.reflection
        /\ c.refused = b.refused /\ c.asked = b.asked /\ c.pass = b.pass /\ c.test = b.test
        /\ c.cull = IF b.pass.cull = Null THEN b.cull ELSE b.pass.cull
        /\ c.compare = IF b.pass.compare = Null THEN b.compare ELSE b.pass.compare
        /\ c.topology = IF "tesc" \in b.stages THEN "patches" ELSE b.topology
    BY <1>2, <2>2 DEF Builders
  <2> HIDE DEF p
  <2>4. ASSUME c.refused \subseteq {c.pass}
        PROVE  /\ c.cull = IF c.pass.cull # Null THEN c.pass.cull ELSE c.asked.cull
               /\ c.pass.compare # Null => c.compare = c.pass.compare
               /\ c.asked.test # Null =>
                     /\ c.test = c.asked.test
                     /\ c.compare = IF c.pass.compare # Null THEN c.pass.compare ELSE c.asked.compare
    <3>1. \A subpass \in b.refused : subpass = b.pass
      BY <2>3, <2>4
    <3> QED
      BY <1>2, <2>3, <3>1 DEF DepthAsAsked
  <2>5. StateAsAsked(p)
    BY <1>1, <2>4 DEF StateAsAsked
  <2>6. ASSUME "tesc" \notin c.garbage PROVE TopologyAsAsked(p)
    <3>1. "tesc" \in b.stages <=> \E i \in DOMAIN c.reflection.shaders : c.reflection.shaders[i].stage = "tesc"
      BY <1>2, <2>3, <2>6 DEF StagesOf
    <3> QED
      BY <1>1, <1>2, <2>3, <3>1 DEF TopologyAsAsked
  <2> QED
    BY <2>5, <2>6
<1> QED
  BY <1>1, <1>5, <1>6 DEF PipelineOk

-----------------------------------------------------------------------------
(* Pipelines made by hand.                                                 *)

\* Everything holds before the first builder.
LEMMA HandMadeInit == BuilderInit => HandMade
<1> SUFFICES ASSUME BuilderInit PROVE HandMade
  OBVIOUS
<1>1. builder = Null /\ made = 0 /\ layouts = {} /\ pipelines = {} /\ failed = 0
  BY DEF BuilderInit
<1>2. IsFiniteSet(pipelines) /\ IsFiniteSet(layouts) /\ Cardinality(layouts) = 0 /\ Cardinality(pipelines) = 0
  BY <1>1, FS_EmptySet
<1>3. OwnedInv
  BY <1>1, <1>2 DEF OwnedInv, OwnsLayout
<1> QED
  BY <1>1, <1>3 DEF HandMade

\* A step that leaves the device and the pipelines alone.
LEMMA DeviceKept ==
    ASSUME HandMade, UNCHANGED <<made, layouts, pipelines, failed>>,
           builder' # Null => BuilderOk(builder')
    PROVE  HandMade'
<1>1. /\ made' = made /\ layouts' = layouts /\ pipelines' = pipelines /\ failed' = failed
      /\ OwnedInv /\ \A p \in pipelines : PipelineOk(p)
  BY DEF HandMade
<1>2. OwnedInv'
  BY <1>1 DEF OwnedInv, OwnsLayout
<1> QED
  BY <1>1, <1>2 DEF HandMade

\* The builders keep what is promised.
LEMMA HandMadeStep == HandMade /\ [BuilderNext]_builderVars => HandMade'
<1> SUFFICES ASSUME HandMade, [BuilderNext]_builderVars PROVE HandMade'
  OBVIOUS
<1>0. OwnedInv /\ (builder # Null => BuilderOk(builder)) /\ \A p \in pipelines : PipelineOk(p)
  BY DEF HandMade
<1>1. CASE Begin
  <2>1. PICK kind \in {"graphics", "compute"}, garbage \in SUBSET {"tesc", "tese"} :
            builder' = NewBuilder(kind, garbage)
    BY <1>1 DEF Begin
  <2>2. BuilderOk(builder')
    BY <2>1, NewBuilderOk
  <2>3. UNCHANGED <<made, layouts, pipelines, failed>>
    BY <1>1 DEF Begin
  <2> QED
    BY <2>2, <2>3, DeviceKept
<1>2. CASE Configure
  <2>1. BuilderOk(builder)
    BY <1>0, <1>2 DEF Configure
  <2>2. \/ \E t \in Topology : builder' = set_topology(builder, t)
        \/ \E c \in Cull : builder' = set_rasterization(builder, c)
        \/ \E test \in BOOLEAN : builder' = set_depth_testing(builder, test, "less_or_equal")
        \/ \E subpass \in Subpass : builder' = set_renderpass(builder, subpass)
    BY <1>2 DEF Configure
  <2>3. BuilderOk(builder')
    BY <2>1, <2>2, ConfigureOk
  <2>4. UNCHANGED <<made, layouts, pipelines, failed>>
    BY <1>2 DEF Configure
  <2> QED
    BY <2>3, <2>4, DeviceKept
<1>3. CASE AddShader
  <2>1. BuilderOk(builder)
    BY <1>0, <1>3 DEF AddShader
  <2>2. PICK shader \in Shader : builder' = add_shader_stage(builder, shader)
    BY <1>3 DEF AddShader
  <2>3. BuilderOk(builder')
    BY <2>1, <2>2, AddShaderOk
  <2>4. UNCHANGED <<made, layouts, pipelines, failed>>
    BY <1>3 DEF AddShader
  <2> QED
    BY <2>3, <2>4, DeviceKept
<1>4. CASE GiveLayout
  <2>1. BuilderOk(builder)
    BY <1>0, <1>4 DEF GiveLayout
  <2>2. PICK set \in 0..SetLimit - 1, layout \in Given :
            builder' = set_descriptor_set_layout(builder, set, layout)
    BY <1>4 DEF GiveLayout
  <2>3. BuilderOk(builder')
    BY <2>1, <2>2, GiveLayoutOk
  <2>4. UNCHANGED <<made, layouts, pipelines, failed>>
    BY <1>4 DEF GiveLayout
  <2> QED
    BY <2>3, <2>4, DeviceKept
<1>5. CASE Build
  <2>1. /\ builder # Null /\ MayBuild(builder) /\ BuilderOk(builder)
        /\ made' = made + 1 /\ layouts' = layouts \cup {made'} /\ builder' = Null /\ failed' = failed
    BY <1>0, <1>5 DEF Build
  <2>2. PICK created \in BOOLEAN :
            /\ created \/ builder.kind = "compute"
            /\ pipelines' = pipelines \cup {PipelineOf(Prepared(builder), made', created)}
    BY <1>5 DEF Build
  <2> DEFINE p == PipelineOf(Prepared(builder), made', created)
  <2>3. PipelineOk(p)
    BY <2>1, BuiltAsAsked
  <2>4. Prepared(builder).kind = builder.kind
    <3>1. CASE builder.kind = "graphics"
      BY <2>1, <3>1, PreparedGraphics
    <3>2. CASE builder.kind # "graphics"
      BY <3>2 DEF Prepared
    <3> QED
      BY <3>1, <3>2
  <2>5. p.handle = made' /\ (p.created \/ p.builder.kind = "compute")
    BY <2>2, <2>4 DEF PipelineOf
  <2> HIDE DEF p
  <2>6. pipelines' = pipelines \cup {p}
    BY <2>2 DEF p
  <2>7. OwnedInv'
    BY <1>0, <2>1, <2>5, <2>6, NewLayoutOwned
  <2>8. \A q \in pipelines' : PipelineOk(q)
    BY <1>0, <2>3, <2>6
  <2> QED
    BY <2>1, <2>7, <2>8 DEF HandMade
<1>6. CASE BuildFails
  <2>1. /\ builder # Null /\ MayBuild(builder) /\ BuilderOk(builder) /\ builder.kind = "graphics"
        /\ made' = made + 1 /\ layouts' = layouts \cup {made'}
        /\ builder' = [Prepared(builder) EXCEPT !.refused = @ \cup {builder.pass}]
        /\ failed' = failed + 1 /\ pipelines' = pipelines
    BY <1>0, <1>6 DEF BuildFails
  <2>2. BuilderOk(builder')
    BY <2>1, RefusedOk
  <2>3. OwnedInv'
    BY <1>0, <2>1, NewLayoutOwned
  <2> QED
    BY <1>0, <2>1, <2>2, <2>3 DEF HandMade
<1>7. CASE DropBuilder
  <2>1. builder' = Null /\ UNCHANGED <<made, layouts, pipelines, failed>>
    BY <1>7 DEF DropBuilder
  <2> QED
    BY <2>1, DeviceKept
<1>8. ASSUME NEW p \in pipelines, DestroyPipeline(p) PROVE HandMade'
  <2>1. pipelines' = pipelines \ {p} /\ builder' = builder
    BY <1>8 DEF DestroyPipeline
  <2>2. OwnedInv'
    BY <1>0, <1>8, DestroyKeepsOwners
  <2> QED
    BY <1>0, <2>1, <2>2 DEF HandMade
<1>9. CASE UNCHANGED builderVars
  <2>1. builder' = builder /\ UNCHANGED <<made, layouts, pipelines, failed>>
    BY <1>9 DEF builderVars
  <2> QED
    BY <1>0, <2>1, DeviceKept
<1> QED
  BY <1>1, <1>2, <1>3, <1>4, <1>5, <1>6, <1>7, <1>8, <1>9 DEF BuilderNext

\* Whatever is set, in any order and after any refused builds, a pipeline owns
\* its layout, which serves its stages, and has the state that was asked for
\* (build of both builders).
THEOREM PipelinesAsAsked == BuilderSpec => []PipelinesInv
<1>1. BuilderInit => HandMade
  BY HandMadeInit
<1>2. HandMade /\ [BuilderNext]_builderVars => HandMade'
  BY HandMadeStep
<1>3. HandMade => PipelinesInv
  BY DEF HandMade, OwnedInv, PipelineOk, PipelinesInv
<1> QED
  BY <1>1, <1>2, <1>3, PTL DEF BuilderSpec

-----------------------------------------------------------------------------
(* What the loader has read.                                               *)

Report == [file : File, registered : Nat, whole : BOOLEAN]
FilesWith(l) == {i \in DOMAIN files : l \in SetLayouts[files[i]]}

ReadInv ==
    /\ read \in Seq(Report) /\ files \in Seq(File) /\ provider \in Nat
    /\ \A i \in DOMAIN read : read[i].registered <= Len(Described[read[i].file])

\* The names known are those registered, each with its last description.
DescribedInv ==
    /\ \A name : name \in DOMAIN descriptions <=> Registering(name) # {}
    /\ \A name \in DOMAIN descriptions : descriptions[name] = LastDescribed(name)

\* The files kept are the whole ones, in the order they were read.
FilesInv ==
    \A l : /\ FilesWith(l) = {} <=> WholeWith(l) = {}
           /\ WholeWith(l) # {} => LastWith(files, l) = LastWhole(l)

\* Nothing is loaded before there is a provider, which has the set layouts of
\* every file kept.
ProviderInv ==
    /\ provider = 0 => pipelines = {} /\ missed = {}
    /\ provider > 0 =>
          \A l : /\ l \in DOMAIN set_layouts <=> FilesWith(l) # {}
                 /\ l \in DOMAIN set_layouts => set_layouts[l] = <<provider, LastWhole(l)>>

MissedInv == \A i \in DOMAIN read : read[i].whole => SetLayouts[read[i].file] \cap missed = {}

LoaderInv ==
    /\ OwnedInv /\ ReadInv /\ DescribedInv /\ FilesInv /\ ProviderInv /\ MissedInv
    /\ \A p \in pipelines : AsDescribed(p)

\* The last of a set of places to which the end of a list may be added.
LEMMA LastPlace ==
    ASSUME NEW n \in Nat, NEW S \in SUBSET 1..n
    PROVE  /\ Max(S \cup {n + 1}) = n + 1
           /\ S # {} => Max(S) \in S
<1>1. S \cup {n + 1} \in SUBSET Nat /\ n + 1 \in S \cup {n + 1}
  OBVIOUS
<1>2. \A k \in S \cup {n + 1} : k <= n + 1
  OBVIOUS
<1>3. Max(S \cup {n + 1}) = n + 1
  <2> DEFINE T == S \cup {n + 1}
  <2> HIDE DEF T
  <2>1. T \in SUBSET Nat /\ n + 1 \in T /\ \A k \in T : k <= n + 1
    BY <1>1, <1>2 DEF T
  <2>2. Max(T) = n + 1
    BY <2>1, MaxIs
  <2> QED
    BY <2>2 DEF T
<1>4. ASSUME S # {} PROVE Max(S) \in S
  <2>1. S \in SUBSET Nat /\ \A k \in S : k <= n
    OBVIOUS
  <2> QED
    BY <2>1, <1>4, MaxOf
<1> QED
  BY <1>3, <1>4

\* A set number of a description has one set layout.
IsDescription(d) ==
    \A l, m \in DOMAIN d.sets : d.sets[l] \in 0..SetLimit - 1 /\ (d.sets[l] = d.sets[m] => l = m)

\* The description found under a name is one of a file.
LEMMA FoundIsDescription ==
    ASSUME LoaderInv, NEW name \in DOMAIN descriptions
    PROVE  IsDescription(descriptions[name])
<1>1. /\ read \in Seq(Report) /\ Registering(name) # {} /\ descriptions[name] = LastDescribed(name)
      /\ \A i \in DOMAIN read : read[i].registered <= Len(Described[read[i].file])
  BY DEF LoaderInv, ReadInv, DescribedInv
<1> DEFINE i == Max(Registering(name))
           r == read[i]
           Found == {j \in 1..r.registered : Described[r.file][j].name = name}
<1>2. Registering(name) \in SUBSET 1..Len(read) /\ Len(read) \in Nat /\ DOMAIN read = 1..Len(read)
  BY <1>1 DEF Registering
<1>3. i \in Registering(name)
  BY <1>1, <1>2, LastPlace
<1> HIDE DEF i
<1>4. i \in DOMAIN read /\ Found # {}
  BY <1>3 DEF Registering
<1>5. r.file \in File /\ r.registered \in Nat /\ r.registered <= Len(Described[r.file])
  <2>1. r \in Report
    BY <1>1, <1>4
  <2>2. r.registered <= Len(Described[r.file])
    BY <1>1, <1>4
  <2> HIDE DEF r
  <2> QED
    BY <2>1, <2>2 DEF Report
<1>6. Found \in SUBSET 1..r.registered
  OBVIOUS
<1>7. Max(Found) \in Found
  BY <1>4, <1>5, <1>6, LastPlace
<1>8. Max(Found) \in DOMAIN Described[r.file]
  <2>1. Len(Described[r.file]) \in Nat /\ DOMAIN Described[r.file] = 1..Len(Described[r.file])
    BY <1>5, LoaderAssumption
  <2>2. Max(Found) \in 1..r.registered
    BY <1>7
  <2> HIDE DEF Found, r
  <2> QED
    BY <1>5, <2>1, <2>2
<1>9. descriptions[name] = Described[r.file][Max(Found)]
  BY <1>1 DEF LastDescribed, Latest, i
<1> DEFINE f == r.file
           k == Max(Found)
<1> HIDE DEF f, k
<1>10. f \in File /\ k \in DOMAIN Described[f] /\ descriptions[name] = Described[f][k]
  BY <1>5, <1>8, <1>9 DEF f, k
<1>11. \A l, m \in DOMAIN Described[f][k].sets :
          /\ Described[f][k].sets[l] \in 0..SetLimit - 1
          /\ Described[f][k].sets[l] = Described[f][k].sets[m] => l = m
  BY <1>10, LoaderAssumption
<1> QED
  BY <1>10, <1>11 DEF IsDescription

\* The set layouts of a description stand at their numbers, and no others.
LEMMA LayoutsAtNumbers ==
    ASSUME NEW d, IsDescription(d)
    PROVE  /\ \A l \in DOMAIN d.sets : LayoutsOf(d)[d.sets[l] + 1] = set_layouts[l]
           /\ \A i \in DOMAIN LayoutsOf(d) :
                 LayoutsOf(d)[i] # Null => \E l \in DOMAIN d.sets : d.sets[l] = i - 1
<1> DEFINE given == {d.sets[l] : l \in DOMAIN d.sets}
           OfSet(s) == CHOOSE l \in DOMAIN d.sets : d.sets[l] = s
           n == IF given = {} THEN 0 ELSE Max(given) + 1
<1>1. LayoutsOf(d) = [i \in 1..n |-> IF i - 1 \in given THEN set_layouts[OfSet(i - 1)] ELSE Null]
  BY DEF LayoutsOf
<1>2. \A l \in DOMAIN d.sets : d.sets[l] \in 0..SetLimit - 1 /\ d.sets[l] \in given
  BY DEF IsDescription
<1>3. given \in SUBSET Nat /\ \A s \in given : s <= SetLimit /\ SetLimit \in Nat
  BY BuilderAssumption, <1>2
<1>4. ASSUME NEW l \in DOMAIN d.sets PROVE LayoutsOf(d)[d.sets[l] + 1] = set_layouts[l]
  <2> DEFINE s == d.sets[l]
  <2>1. s \in given /\ s \in Nat /\ given # {}
    BY <1>2, <1>3
  <2>2. OfSet(s) = l
    <3>1. OfSet(s) \in DOMAIN d.sets /\ d.sets[OfSet(s)] = s
      OBVIOUS
    <3> QED
      BY <3>1 DEF IsDescription
  <2> HIDE DEF given, s, OfSet
  <2>3. Max(given) \in given /\ s <= Max(given)
    BY <1>3, <2>1, MaxOf, BuilderAssumption
  <2>4. Max(given) \in Nat
    BY <1>3, <2>3
  <2>5. n = Max(given) + 1
    BY <2>1
  <2> HIDE DEF n
  <2>6. s + 1 \in 1..n /\ (s + 1) - 1 = s
    BY <2>1, <2>3, <2>4, <2>5
  <2>7. LayoutsOf(d)[s + 1] = set_layouts[OfSet(s)]
    BY <1>1, <2>1, <2>6
  <2>8. LayoutsOf(d)[s + 1] = set_layouts[l]
    BY <2>2, <2>7
  <2> QED
    BY <2>8 DEF s
<1>5. ASSUME NEW i \in DOMAIN LayoutsOf(d), LayoutsOf(d)[i] # Null
      PROVE  \E l \in DOMAIN d.sets : d.sets[l] = i - 1
  <2>1. i - 1 \in given
    <3> HIDE DEF given, n, OfSet
    <3> QED
      BY <1>1, <1>5
  <2> QED
    BY <2>1
<1> QED
  BY <1>4, <1>5

\* What an element at the end of a list does to the places of some elements.
LEMMA AppendedPlaces ==
    ASSUME NEW S, NEW s \in Seq(S), NEW e \in S
    PROVE  /\ Append(s, e) \in Seq(S) /\ Len(s) \in Nat /\ DOMAIN s = 1..Len(s)
           /\ DOMAIN Append(s, e) = DOMAIN s \cup {Len(s) + 1}
           /\ \A i \in DOMAIN s : Append(s, e)[i] = s[i]
           /\ Append(s, e)[Len(s) + 1] = e
<1>1. /\ Append(s, e) \in Seq(S) /\ Len(s) \in Nat /\ DOMAIN s = 1..Len(s)
      /\ \A i \in DOMAIN s : Append(s, e)[i] = s[i]
      /\ Append(s, e)[Len(s) + 1] = e
  OBVIOUS
<1>2. DOMAIN Append(s, e) = 1..(Len(s) + 1)
  OBVIOUS
<1>3. 1..(Len(s) + 1) = (1..Len(s)) \cup {Len(s) + 1}
  BY <1>1
<1> QED
  BY <1>1, <1>2, <1>3

\* What reading another file, wholly or in part, does to what is known.
LEMMA FileRead ==
    ASSUME ReadInv, NEW f \in File, NEW whole \in BOOLEAN, NEW n \in 0..Len(Described[f]),
           load_pipeline_file(f, n, whole)
    PROVE  LET names == {Described[f][i].name : i \in 1..n}
               last == Len(read) + 1
           IN  /\ ReadInv' /\ Len(read) \in Nat /\ DOMAIN read = 1..Len(read)
               /\ \A i \in DOMAIN read : read'[i] = read[i]
               /\ read'[last] = [file |-> f, registered |-> n, whole |-> whole]
               /\ \A name : Registering(name)' =
                     IF name \in names THEN Registering(name) \cup {last} ELSE Registering(name)
               /\ \A l : WholeWith(l)' =
                     IF whole /\ l \in SetLayouts[f] THEN WholeWith(l) \cup {last} ELSE WholeWith(l)
<1> DEFINE names == {Described[f][i].name : i \in 1..n}
           last == Len(read) + 1
           r == [file |-> f, registered |-> n, whole |-> whole]
<1>1. /\ read \in Seq(Report) /\ files \in Seq(File) /\ provider \in Nat
      /\ \A i \in DOMAIN read : read[i].registered <= Len(Described[read[i].file])
      /\ read' = Append(read, r) /\ files' = IF whole THEN Append(files, f) ELSE files
      /\ provider' = provider
  BY DEF ReadInv, load_pipeline_file, providerVars
<1>2. Len(Described[f]) \in Nat /\ n \in Nat /\ n <= Len(Described[f])
  BY LoaderAssumption
<1>3. r \in Report /\ r.file = f /\ r.registered = n /\ r.whole = whole
  BY <1>2 DEF Report
<1> HIDE DEF r
<1>4. /\ read' \in Seq(Report) /\ Len(read) \in Nat /\ DOMAIN read = 1..Len(read)
      /\ DOMAIN read' = DOMAIN read \cup {last}
      /\ \A i \in DOMAIN read : read'[i] = read[i]
      /\ read'[last] = r
  BY <1>1, <1>3, AppendedPlaces
<1>5. files' \in Seq(File)
  BY <1>1
<1>6. \A i \in DOMAIN read' : read'[i].registered <= Len(Described[read'[i].file])
  BY <1>1, <1>2, <1>3, <1>4
<1>7. ReadInv'
  BY <1>1, <1>4, <1>5, <1>6 DEF ReadInv
<1>8. ASSUME NEW name
      PROVE  Registering(name)' =
                IF name \in names THEN Registering(name) \cup {last} ELSE Registering(name)
  <2>1. name \in names <=> \E j \in 1..r.registered : Described[r.file][j].name = name
    BY <1>3
  <2> HIDE DEF last, names
  <2> DEFINE Has(x) == \E j \in 1..x.registered : Described[x.file][j].name = name
  <2>2. Registering(name)' = {i \in DOMAIN read' : Has(read'[i])}
    BY DEF Registering
  <2>3. Registering(name) = {i \in DOMAIN read : Has(read[i])}
    BY DEF Registering
  <2>4. name \in names <=> Has(r)
    BY <2>1
  <2> HIDE DEF Has
  <2> QED
    BY <1>4, <2>2, <2>3, <2>4
<1>9. ASSUME NEW l
      PROVE  WholeWith(l)' =
                IF whole /\ l \in SetLayouts[f] THEN WholeWith(l) \cup {last} ELSE WholeWith(l)
  <2> HIDE DEF last
  <2> DEFINE Has(x) == x.whole /\ l \in SetLayouts[x.file]
  <2>1. WholeWith(l)' = {i \in DOMAIN read' : Has(read'[i])}
    BY DEF WholeWith
  <2>2. WholeWith(l) = {i \in DOMAIN read : Has(read[i])}
    BY DEF WholeWith
  <2>3. (whole /\ l \in SetLayouts[f]) <=> Has(r)
    BY <1>3
  <2> HIDE DEF Has
  <2> QED
    BY <1>4, <2>1, <2>2, <2>3
<1> QED
  BY <1>4, <1>7, <1>8, <1>9 DEF r

\* A file that is read replaces the descriptions of the names it registered.
LEMMA ReadKeepsDescriptions ==
    ASSUME ReadInv, DescribedInv, NEW f \in File, NEW whole \in BOOLEAN,
           NEW n \in 0..Len(Described[f]), load_pipeline_file(f, n, whole)
    PROVE  DescribedInv'
<1> DEFINE names == {Described[f][i].name : i \in 1..n}
           last == Len(read) + 1
<1>1. /\ Len(read) \in Nat /\ DOMAIN read = 1..Len(read)
      /\ \A i \in DOMAIN read : read'[i] = read[i]
      /\ read'[last] = [file |-> f, registered |-> n, whole |-> whole]
      /\ \A name : Registering(name)' =
            IF name \in names THEN Registering(name) \cup {last} ELSE Registering(name)
  BY FileRead
<1>2. /\ \A name : name \in DOMAIN descriptions <=> Registering(name) # {}
      /\ \A name \in DOMAIN descriptions : descriptions[name] = LastDescribed(name)
  BY DEF DescribedInv
<1>3. descriptions' = [name \in DOMAIN descriptions \cup names |->
          IF name \in names THEN Described[f][Latest(f, n, name)] ELSE descriptions[name]]
  BY DEF load_pipeline_file, Register
<1>4. \A name : Registering(name) \in SUBSET 1..Len(read)
  BY <1>1 DEF Registering
<1> HIDE DEF names
<1>5. \A name : name \in DOMAIN descriptions' <=> Registering(name)' # {}
  BY <1>1, <1>2, <1>3
<1>6. ASSUME NEW name, name \in DOMAIN descriptions' PROVE descriptions'[name] = LastDescribed(name)'
  <2> DEFINE place == Max(Registering(name)')
             r == read'[place]
  <2>1. LastDescribed(name)' = Described[r.file][Latest(r.file, r.registered, name)]
    BY DEF LastDescribed
  <2>2. CASE name \in names
    <3>1. place = last
      BY <1>1, <1>4, <2>2, LastPlace
    <3>2. r.file = f /\ r.registered = n
      BY <1>1, <3>1
    <3>3. descriptions'[name] = Described[f][Latest(f, n, name)]
      BY <1>3, <2>2
    <3> QED
      BY <2>1, <3>2, <3>3
  <2>3. CASE name \notin names
    <3>1. name \in DOMAIN descriptions /\ descriptions'[name] = descriptions[name]
      BY <1>3, <1>6, <2>3
    <3>2. Registering(name)' = Registering(name) /\ Registering(name) # {}
      BY <1>1, <1>2, <2>3, <3>1
    <3>3. place = Max(Registering(name)) /\ place \in Registering(name)
      BY <1>1, <1>4, <3>2, LastPlace
    <3>4. r = read[Max(Registering(name))]
      BY <1>1, <1>4, <3>3
    <3>5. LastDescribed(name)' = LastDescribed(name)
      BY <2>1, <3>4 DEF LastDescribed
    <3> QED
      BY <1>2, <3>1, <3>5
  <2> QED
    BY <2>2, <2>3
<1> QED
  BY <1>5, <1>6 DEF DescribedInv

\* The files kept go on being the whole ones.
LEMMA ReadKeepsFiles ==
    ASSUME ReadInv, FilesInv, NEW f \in File, NEW whole \in BOOLEAN,
           NEW n \in 0..Len(Described[f]), load_pipeline_file(f, n, whole)
    PROVE  FilesInv'
<1> DEFINE last == Len(read) + 1
           end == Len(files) + 1
<1>1. /\ Len(read) \in Nat /\ DOMAIN read = 1..Len(read)
      /\ \A i \in DOMAIN read : read'[i] = read[i]
      /\ read'[last] = [file |-> f, registered |-> n, whole |-> whole]
      /\ \A l : WholeWith(l)' =
            IF whole /\ l \in SetLayouts[f] THEN WholeWith(l) \cup {last} ELSE WholeWith(l)
  BY FileRead
<1>2. files \in Seq(File) /\ files' = IF whole THEN Append(files, f) ELSE files
  BY DEF ReadInv, load_pipeline_file
<1>3. /\ Len(files) \in Nat /\ DOMAIN files = 1..Len(files)
      /\ whole => /\ DOMAIN files' = DOMAIN files \cup {end}
                  /\ \A i \in DOMAIN files : files'[i] = files[i]
                  /\ files'[end] = f
      /\ ~whole => files' = files
  BY <1>2, AppendedPlaces
<1>4. \A l : /\ FilesWith(l) = {} <=> WholeWith(l) = {}
             /\ WholeWith(l) # {} => LastWith(files, l) = LastWhole(l)
  BY DEF FilesInv
<1>5. ASSUME NEW l
      PROVE  /\ FilesWith(l)' = {} <=> WholeWith(l)' = {}
             /\ WholeWith(l)' # {} => LastWith(files, l)' = LastWhole(l)'
  <2> DEFINE adds == whole /\ l \in SetLayouts[f]
             F == {i \in DOMAIN files' : l \in SetLayouts[files'[i]]}
             G == {i \in DOMAIN files : l \in SetLayouts[files[i]]}
  <2>1. F = IF adds THEN G \cup {end} ELSE G
    BY <1>3
  <2>2. FilesWith(l)' = F /\ FilesWith(l) = G
    BY DEF FilesWith
  <2>3. LastWith(files, l)' = files'[Max(F)] /\ LastWith(files, l) = files[Max(G)]
    BY DEF LastWith
  <2>4. LastWhole(l)' = read'[Max(WholeWith(l)')].file /\ LastWhole(l) = read[Max(WholeWith(l))].file
    BY DEF LastWhole
  <2>5. G \in SUBSET 1..Len(files)
    BY <1>3
  <2>6. WholeWith(l) \in SUBSET 1..Len(read)
    BY <1>1 DEF WholeWith
  <2>7. WholeWith(l)' = IF adds THEN WholeWith(l) \cup {last} ELSE WholeWith(l)
    BY <1>1
  <2> HIDE DEF F, G
  <2>8. CASE adds
    <3>1. Max(F) = end /\ Max(WholeWith(l)') = last
      BY <1>1, <1>3, <2>1, <2>5, <2>6, <2>7, <2>8, LastPlace
    <3>2. F # {} /\ WholeWith(l)' # {}
      BY <2>1, <2>7, <2>8
    <3>3. files'[end] = f /\ read'[last].file = f
      BY <1>1, <1>3, <2>8
    <3> QED
      BY <2>2, <2>3, <2>4, <3>1, <3>2, <3>3
  <2>9. CASE ~adds
    <3>1. F = G /\ WholeWith(l)' = WholeWith(l)
      BY <2>1, <2>7, <2>9
    <3>2. F = {} <=> WholeWith(l)' = {}
      BY <1>4, <2>2, <3>1
    <3>3. ASSUME WholeWith(l)' # {} PROVE files'[Max(F)] = read'[Max(WholeWith(l)')].file
      <4>1. Max(G) \in G /\ Max(WholeWith(l)) \in WholeWith(l)
        BY <1>1, <1>3, <2>5, <2>6, <3>1, <3>2, <3>3, LastPlace
      <4>2. files'[Max(G)] = files[Max(G)] /\ read'[Max(WholeWith(l))] = read[Max(WholeWith(l))]
        BY <1>1, <1>3, <2>5, <2>6, <4>1
      <4>3. files[Max(G)] = read[Max(WholeWith(l))].file
        BY <1>4, <2>3, <2>4, <3>1, <3>3
      <4> QED
        BY <3>1, <4>2, <4>3
    <3> QED
      BY <2>2, <2>3, <2>4, <3>2, <3>3
  <2> QED
    BY <2>8, <2>9
<1> QED
  BY <1>5 DEF FilesInv

-----------------------------------------------------------------------------
(* The steps of the loader.                                                *)

\* A loader that has read nothing.
LEMMA LoaderStarts == LoaderInit => LoaderInv
<1> SUFFICES ASSUME LoaderInit PROVE LoaderInv
  OBVIOUS
<1>1. /\ BuilderInit /\ read = <<>> /\ files = <<>> /\ descriptions = <<>>
      /\ provider = 0 /\ missed = {}
  BY DEF LoaderInit
<1>2. OwnedInv /\ pipelines = {}
  BY <1>1, HandMadeInit DEF HandMade, BuilderInit
<1>3. ReadInv
  BY <1>1 DEF ReadInv
<1>4. DOMAIN read = {} /\ DOMAIN files = {} /\ DOMAIN descriptions = {}
  BY <1>1
<1>5. DescribedInv
  BY <1>4 DEF DescribedInv, Registering
<1>6. FilesInv
  BY <1>4 DEF FilesInv, FilesWith, WholeWith
<1>7. ProviderInv /\ MissedInv
  BY <1>1, <1>2, <1>4 DEF ProviderInv, MissedInv
<1> QED
  BY <1>2, <1>3, <1>5, <1>6, <1>7 DEF LoaderInv

\* While files are read nothing is loaded.
LEMMA ReadKeepsLoader ==
    ASSUME LoaderInv, NEW f \in File, NEW whole \in BOOLEAN, NEW n \in 0..Len(Described[f]),
           load_pipeline_file(f, n, whole)
    PROVE  LoaderInv'
<1>1. /\ OwnedInv /\ ReadInv /\ DescribedInv /\ FilesInv
      /\ provider = 0 /\ pipelines = {} /\ missed = {}
  BY DEF LoaderInv, ProviderInv, load_pipeline_file
<1>2. /\ made' = made /\ layouts' = layouts /\ pipelines' = pipelines /\ failed' = failed
      /\ provider' = provider /\ missed' = missed
  BY DEF load_pipeline_file, builderVars, providerVars, loadVars
<1>3. ReadInv'
  BY <1>1, FileRead
<1>4. DescribedInv' /\ FilesInv'
  BY <1>1, ReadKeepsDescriptions, ReadKeepsFiles
<1>5. OwnedInv'
  BY <1>1, <1>2 DEF OwnedInv, OwnsLayout
<1>6. ProviderInv' /\ MissedInv'
  BY <1>1, <1>2 DEF ProviderInv, MissedInv
<1>7. \A p \in pipelines' : AsDescribed(p)'
  BY <1>1, <1>2
<1> QED
  BY <1>3, <1>4, <1>5, <1>6, <1>7 DEF LoaderInv

\* Once it is read, what is known of the files stays.
LEMMA KnownStays ==
    ASSUME ReadInv, DescribedInv, FilesInv, MissedInv,
           read' = read /\ files' = files /\ descriptions' = descriptions /\ provider' \in Nat
    PROVE  /\ ReadInv' /\ DescribedInv' /\ FilesInv'
           /\ \A name : LastDescribed(name)' = LastDescribed(name)
           /\ \A l : LastWhole(l)' = LastWhole(l) /\ FilesWith(l)' = FilesWith(l)
<1>1. \A name : Registering(name)' = Registering(name)
  BY DEF Registering
<1>2. \A l : WholeWith(l)' = WholeWith(l)
  BY DEF WholeWith
<1>3. \A l : FilesWith(l)' = FilesWith(l)
  BY DEF FilesWith
<1>4. \A name : LastDescribed(name)' = LastDescribed(name)
  BY <1>1 DEF LastDescribed
<1>5. \A l : LastWhole(l)' = LastWhole(l)
  BY <1>2 DEF LastWhole
<1>6. \A l : LastWith(files, l)' = LastWith(files, l)
  BY DEF LastWith
<1>7. ReadInv'
  BY DEF ReadInv
<1>8. DescribedInv'
  BY <1>1, <1>4 DEF DescribedInv
<1>9. FilesInv'
  BY <1>2, <1>3, <1>5, <1>6 DEF FilesInv
<1> QED
  BY <1>3, <1>4, <1>5, <1>7, <1>8, <1>9

\* A new provider gets every set layout that the files kept describe.
LEMMA ProviderKeepsLoader ==
    ASSUME LoaderInv, NEW names, set_pipeline_globals_provider(names)
    PROVE  LoaderInv'
<1>1. /\ OwnedInv /\ ReadInv /\ DescribedInv /\ FilesInv /\ MissedInv
      /\ provider \in Nat /\ \A p \in pipelines : AsDescribed(p)
  BY DEF LoaderInv, ReadInv
<1>2. /\ made' = made /\ layouts' = layouts /\ pipelines' = pipelines /\ failed' = failed
      /\ read' = read /\ files' = files /\ descriptions' = descriptions
      /\ provider' = provider + 1 /\ missed' = missed /\ loaded' = loaded
      /\ set_layouts' = [l \in UNION {SetLayouts[files[i]] : i \in DOMAIN files} |->
                            <<provider', LastWith(files, l)>>]
  BY DEF set_pipeline_globals_provider, builderVars, fileVars, loadVars
<1>3. provider' \in Nat /\ provider' > 0
  BY <1>1, <1>2
<1>4. /\ ReadInv' /\ DescribedInv' /\ FilesInv'
      /\ \A name : LastDescribed(name)' = LastDescribed(name)
      /\ \A l : LastWhole(l)' = LastWhole(l) /\ FilesWith(l)' = FilesWith(l)
  BY <1>1, <1>2, <1>3, KnownStays
<1>5. \A l : l \in DOMAIN set_layouts' <=> FilesWith(l) # {}
  BY <1>2 DEF FilesWith
<1>6. \A l \in DOMAIN set_layouts' : set_layouts'[l] = <<provider', LastWhole(l)>>
  <2>1. \A l : FilesWith(l) # {} => LastWith(files, l) = LastWhole(l)
    BY <1>1 DEF FilesInv
  <2> QED
    BY <1>2, <1>5, <2>1
<1>7. ProviderInv'
  BY <1>3, <1>4, <1>5, <1>6 DEF ProviderInv
<1>8. OwnedInv'
  BY <1>1, <1>2 DEF OwnedInv, OwnsLayout
<1>9. MissedInv'
  BY <1>1, <1>2 DEF MissedInv
<1>10. \A p \in pipelines' : AsDescribed(p)'
  BY <1>1, <1>2, <1>4 DEF AsDescribed
<1> QED
  BY <1>4, <1>7, <1>8, <1>9, <1>10 DEF LoaderInv

\* The builder of load has the shaders of the files and the set layouts of the
\* description, whatever its subpass and its stages are.
LEMMA LoadingReflection ==
    ASSUME NEW d, NEW shaders, NEW garbage
    PROVE  LET b == Loading(d, shaders, garbage) IN
           /\ b.kind = Kind(shaders)
           /\ Prepared(b).kind = b.kind
           /\ Prepared(b).reflection = [shaders |-> shaders, layouts |-> LayoutsOf(d)]
<1> DEFINE kind == Kind(shaders)
           stages == garbage \cup {shaders[i].stage : i \in DOMAIN shaders}
           placed == LayoutsOf(d)
           subpass == [cull |-> Null, compare |-> Null]
           Records == [kind : {kind}, stages : {garbage, stages}, garbage : {garbage},
                       reflection : [shaders : {<<>>, shaders}, layouts : {<<>>, placed}],
                       topology : {"triangles", "patches"}, cull : {"none"},
                       compare : {"always", "less_or_equal"}, test : {FALSE, TRUE},
                       pass : {Null, subpass}, refused : {{}},
                       asked : [topology : {"triangles"}, cull : {"none"},
                                compare : {Null, "less_or_equal"}, test : {Null, TRUE}]]
           fresh == NewBuilder(kind, garbage)
           added == [fresh EXCEPT !.reflection.shaders = shaders, !.stages = stages]
           given == WithGlobals(added, d)
           drawn == set_renderpass(given, subpass)
           tested == set_depth_testing(drawn, TRUE, "less_or_equal")
           b == Loading(d, shaders, garbage)
<1>1. Loading(d, shaders, garbage) = IF given.kind = "compute" THEN given ELSE tested
  <2> DEFINE seen == {shaders[i].stage : i \in DOMAIN shaders}
             first == [NewBuilder(Kind(shaders), garbage) EXCEPT !.reflection.shaders = shaders]
  <2>1. NewBuilder(Kind(shaders), garbage).stages = garbage /\ first.stages = garbage
    BY DEF NewBuilder
  <2> DEFINE same == [NewBuilder(Kind(shaders), garbage) EXCEPT !.reflection.shaders = shaders,
                                                                !.stages = @ \cup seen]
  <2>2. same = added
    BY <2>1
  <2>3. Loading(d, shaders, garbage) =
            IF WithGlobals(same, d).kind = "compute" THEN WithGlobals(same, d)
            ELSE set_depth_testing(set_renderpass(WithGlobals(same, d), subpass), TRUE, "less_or_equal")
    <3>1. Loading(d, shaders, garbage) =
            IF same.kind = "compute" THEN WithGlobals(same, d)
            ELSE set_depth_testing(set_renderpass(WithGlobals(same, d), subpass), TRUE, "less_or_equal")
      BY DEF Loading
    <3> HIDE DEF same
    <3>2. WithGlobals(same, d).kind = same.kind
      BY DEF WithGlobals
    <3> QED
      BY <3>1, <3>2
  <2> QED
    BY <2>2, <2>3
<1> HIDE DEF kind, stages, placed
<1>2. fresh \in Records /\ fresh.reflection = [shaders |-> <<>>, layouts |-> <<>>]
  BY DEF NewBuilder, Reflection
<1> HIDE DEF fresh
<1>3. added \in Records /\ added.reflection.shaders = shaders
  BY <1>2
<1> HIDE DEF added
<1>4. given \in Records /\ given.reflection.shaders = shaders /\ given.reflection.layouts = placed
  <2>1. given = [added EXCEPT !.reflection.layouts = placed]
    BY DEF WithGlobals, placed
  <2> HIDE DEF given
  <2> QED
    BY <1>3, <2>1
<1> HIDE DEF given
<1>5. drawn \in Records /\ drawn.reflection = given.reflection
  BY <1>4 DEF set_renderpass
<1> HIDE DEF drawn
<1>6. tested \in Records /\ tested.reflection = drawn.reflection
  <2>1. tested = [drawn EXCEPT !.compare = "less_or_equal", !.test = TRUE,
                              !.asked.compare = "less_or_equal", !.asked.test = TRUE]
    BY DEF set_depth_testing
  <2> HIDE DEF tested
  <2> QED
    BY <1>5, <2>1
<1> HIDE DEF tested, b
<1>7. b \in Records /\ b.reflection.shaders = shaders /\ b.reflection.layouts = placed
  BY <1>1, <1>4, <1>5, <1>6 DEF b
<1>8. b.kind = kind /\ b.reflection = [shaders |-> shaders, layouts |-> placed]
  BY <1>7
<1>9. Prepared(b).kind = b.kind /\ Prepared(b).reflection = b.reflection
  <2>1. CASE b.kind = "graphics"
    <3> DEFINE bound == WithSubpass(b)
    <3>1. bound.kind = b.kind /\ bound.reflection = b.reflection /\ DOMAIN bound = DOMAIN b
      BY <1>7 DEF WithSubpass
    <3>2. Prepared(b) = WithPatches(bound)
      BY <2>1 DEF Prepared
    <3> HIDE DEF bound
    <3>3. /\ "kind" \in DOMAIN bound /\ "reflection" \in DOMAIN bound
      BY <1>7, <3>1
    <3>4. WithPatches(bound).kind = bound.kind /\ WithPatches(bound).reflection = bound.reflection
      BY <3>3 DEF WithPatches
    <3> QED
      BY <3>1, <3>2, <3>4
  <2>2. CASE b.kind # "graphics"
    BY <2>2 DEF Prepared
  <2> QED
    BY <2>1, <2>2
<1>10. b.kind = Kind(shaders) /\ Prepared(b).kind = b.kind
       /\ Prepared(b).reflection = [shaders |-> shaders, layouts |-> LayoutsOf(d)]
  BY <1>8, <1>9 DEF kind, placed
<1> QED
  BY <1>10 DEF b

\* A pipeline that is loaded is as described, and the others stay so: places
\* of loaded are not written twice.
LEMMA LoadKeepsLoader ==
    ASSUME LoaderInv, NEW name \in DOMAIN descriptions, NEW shaders \in Compiled, NEW garbage,
           load(name, shaders, garbage)
    PROVE  LoaderInv'
<1> DEFINE d == descriptions[name]
           b == Loading(d, shaders, garbage)
           p == PipelineOf(Prepared(b), made', TRUE)
<1>1. /\ OwnedInv /\ ReadInv /\ DescribedInv /\ FilesInv /\ ProviderInv /\ MissedInv
      /\ made \in Nat /\ provider \in Nat /\ \A q \in pipelines : AsDescribed(q)
  BY DEF LoaderInv, ReadInv, OwnedInv
<1>2. /\ provider > 0 /\ provider' = provider /\ read' = read /\ files' = files
      /\ descriptions' = descriptions /\ set_layouts' = set_layouts
  BY DEF load, Loads, fileVars, providerVars
<1>3. /\ HasGlobals(d, b.kind) /\ missed' = missed
      /\ made' = made + 1 /\ layouts' = layouts \cup {made'}
      /\ loaded' = [h \in 1..made' |-> IF h = made' THEN <<provider, name>> ELSE loaded[h]]
      /\ \/ pipelines' = pipelines \cup {p} /\ failed' = failed
         \/ pipelines' = pipelines /\ failed' = failed + 1
  BY DEF load
<1>4. /\ ReadInv' /\ DescribedInv' /\ FilesInv'
      /\ \A m : LastDescribed(m)' = LastDescribed(m)
      /\ \A l : LastWhole(l)' = LastWhole(l) /\ FilesWith(l)' = FilesWith(l)
  BY <1>1, <1>2, KnownStays
<1>5. /\ p.handle = made' /\ p.created = TRUE /\ p.builder = Prepared(b)
      /\ p.layout = build_pipeline_layout(Prepared(b).reflection)
  BY DEF PipelineOf
<1>6. Prepared(b).reflection = [shaders |-> shaders, layouts |-> LayoutsOf(d)]
  BY LoadingReflection
<1> HIDE DEF p, b
<1>7. OwnedInv'
  <2>1. \/ \E q : /\ q.handle = made' /\ (q.created \/ q.builder.kind = "compute")
                  /\ pipelines' = pipelines \cup {q} /\ failed' = failed
        \/ pipelines' = pipelines /\ failed' = failed + 1
    BY <1>3, <1>5
  <2> QED
    BY <1>1, <1>3, <2>1, NewLayoutOwned
<1>8. ProviderInv'
  BY <1>1, <1>2, <1>4 DEF ProviderInv
<1>9. MissedInv'
  BY <1>1, <1>2, <1>3 DEF MissedInv
<1>10. ASSUME NEW q \in pipelines PROVE AsDescribed(q)'
  <2>1. q.handle \in 1..made
    BY <1>1 DEF OwnedInv, OwnsLayout
  <2>2. q.handle \in 1..made' /\ q.handle # made'
    BY <1>1, <1>3, <2>1
  <2>3. loaded'[q.handle] = loaded[q.handle]
    BY <1>3, <2>2
  <2>4. AsDescribed(q)
    BY <1>1
  <2> QED
    BY <1>4, <2>3, <2>4 DEF AsDescribed
<1>11. ASSUME NEW q, q = p PROVE AsDescribed(q)'
  <2>1. made' \in 1..made'
    BY <1>1, <1>3
  <2>2. loaded'[q.handle] = <<provider, name>>
    BY <1>3, <1>5, <1>11, <2>1
  <2>3. LastDescribed(name)' = d
    BY <1>1, <1>4 DEF DescribedInv
  <2>4. q.builder.reflection = [shaders |-> shaders, layouts |-> LayoutsOf(d)]
    BY <1>5, <1>6, <1>11
  <2>5. IsDescription(d)
    BY FoundIsDescription
  <2>6. /\ \A l \in DOMAIN d.sets : LayoutsOf(d)[d.sets[l] + 1] = set_layouts[l]
        /\ \A i \in DOMAIN LayoutsOf(d) :
              LayoutsOf(d)[i] # Null => \E l \in DOMAIN d.sets : d.sets[l] = i - 1
    BY <2>5, LayoutsAtNumbers
  <2>7. \A l \in DOMAIN d.sets : set_layouts[l] = <<provider, LastWhole(l)>>
    <3>1. \A l \in DOMAIN d.sets : l \in DOMAIN set_layouts
      BY <1>3 DEF HasGlobals, Lacks
    <3> QED
      BY <1>1, <1>2, <3>1 DEF ProviderInv
  <2>8. LayoutServes(q.layout, q.builder.reflection)
    <3> DEFINE r == [shaders |-> shaders, layouts |-> LayoutsOf(d)]
    <3>1. DOMAIN shaders \subseteq Nat
      BY LoaderAssumption
    <3>2. \A i \in DOMAIN shaders :
             /\ shaders[i].uses \subseteq Nat \X Nat /\ IsFiniteSet(shaders[i].uses)
             /\ shaders[i].push \in Nat
      BY LoaderAssumption
    <3>3. IsReflection(r)
      BY <3>1, <3>2 DEF IsReflection
    <3>4. q.builder.reflection = r /\ q.layout = build_pipeline_layout(r)
      BY <1>5, <1>6, <1>11, <2>4
    <3> HIDE DEF r
    <3> QED
      BY <3>3, <3>4, BuiltLayoutServes, BuilderAssumption
  <2> DEFINE given == q.builder.reflection.layouts
  <2>9. given = LayoutsOf(d)
    BY <2>4
  <2> HIDE DEF d, given
  <2>10. \A l \in DOMAIN d.sets : given[d.sets[l] + 1] = <<provider, LastWhole(l)>>
    BY <2>6, <2>7, <2>9
  <2>11. LastDescribed(loaded[q.handle][2])' = d /\ loaded'[q.handle][1] = provider
    BY <2>2, <2>3
  <2> QED
    BY <1>4, <2>6, <2>8, <2>9, <2>10, <2>11 DEF AsDescribed, given
<1>12. \A q \in pipelines' : AsDescribed(q)'
  BY <1>3, <1>10, <1>11
<1> QED
  BY <1>4, <1>7, <1>8, <1>9, <1>12 DEF LoaderInv

\* What is missed is in no file that was read to its end.
LEMMA MissKeepsLoader ==
    ASSUME LoaderInv, NEW name \in DOMAIN descriptions, NEW shaders, LoadMisses(name, shaders)
    PROVE  LoaderInv'
<1>1. /\ OwnedInv /\ ReadInv /\ DescribedInv /\ FilesInv /\ ProviderInv /\ MissedInv
      /\ provider \in Nat /\ \A q \in pipelines : AsDescribed(q)
  BY DEF LoaderInv, ReadInv
<1>2. /\ provider > 0 /\ provider' = provider /\ read' = read /\ files' = files
      /\ descriptions' = descriptions /\ set_layouts' = set_layouts
      /\ made' = made /\ layouts' = layouts /\ pipelines' = pipelines /\ failed' = failed
      /\ loaded' = loaded /\ missed' = missed \cup Lacks(descriptions[name])
  BY DEF LoadMisses, Loads, fileVars, providerVars
<1>3. /\ ReadInv' /\ DescribedInv' /\ FilesInv'
      /\ \A m : LastDescribed(m)' = LastDescribed(m)
      /\ \A l : LastWhole(l)' = LastWhole(l) /\ FilesWith(l)' = FilesWith(l)
  BY <1>1, <1>2, KnownStays
<1>4. ASSUME NEW i \in DOMAIN read, read[i].whole, NEW l \in SetLayouts[read[i].file]
      PROVE  l \notin Lacks(descriptions[name])
  <2>1. WholeWith(l) # {}
    BY <1>4 DEF WholeWith
  <2>2. l \in DOMAIN set_layouts
    BY <1>1, <1>2, <2>1 DEF FilesInv, ProviderInv
  <2> QED
    BY <2>2 DEF Lacks
<1>5. MissedInv'
  BY <1>1, <1>2, <1>4 DEF MissedInv
<1>6. OwnedInv'
  BY <1>1, <1>2 DEF OwnedInv, OwnsLayout
<1>7. ProviderInv'
  BY <1>1, <1>2, <1>3 DEF ProviderInv
<1>8. \A q \in pipelines' : AsDescribed(q)'
  BY <1>1, <1>2, <1>3 DEF AsDescribed
<1> QED
  BY <1>3, <1>5, <1>6, <1>7, <1>8 DEF LoaderInv

\* The loader keeps what is promised.
LEMMA LoaderStep == LoaderInv /\ [LoaderNext]_loaderVars => LoaderInv'
<1> SUFFICES ASSUME LoaderInv, [LoaderNext]_loaderVars PROVE LoaderInv'
  OBVIOUS
<1>1. /\ OwnedInv /\ ReadInv /\ DescribedInv /\ FilesInv /\ ProviderInv /\ MissedInv
      /\ provider \in Nat /\ \A q \in pipelines : AsDescribed(q)
  BY DEF LoaderInv, ReadInv
<1>2. ASSUME NEW f \in File, NEW whole \in BOOLEAN, NEW n \in 0..Len(Described[f]),
             load_pipeline_file(f, n, whole)
      PROVE  LoaderInv'
  BY <1>2, ReadKeepsLoader
<1>3. ASSUME NEW names \in SUBSET Needs, set_pipeline_globals_provider(names) PROVE LoaderInv'
  BY <1>3, ProviderKeepsLoader
<1>4. ASSUME NEW name \in DOMAIN descriptions, NEW shaders \in Compiled, NEW garbage \in SUBSET {"tesc"},
             load(name, shaders, garbage)
      PROVE  LoaderInv'
  BY <1>4, LoadKeepsLoader
<1>5. ASSUME NEW name \in DOMAIN descriptions, NEW shaders \in Compiled, LoadMisses(name, shaders)
      PROVE  LoaderInv'
  BY <1>5, MissKeepsLoader
<1>6. ASSUME read' = read /\ files' = files /\ descriptions' = descriptions
               /\ provider' = provider /\ set_layouts' = set_layouts
               /\ loaded' = loaded /\ missed' = missed,
             OwnedInv', pipelines' \subseteq pipelines
      PROVE  LoaderInv'
  <2>1. /\ ReadInv' /\ DescribedInv' /\ FilesInv'
        /\ \A m : LastDescribed(m)' = LastDescribed(m)
        /\ \A l : LastWhole(l)' = LastWhole(l) /\ FilesWith(l)' = FilesWith(l)
    BY <1>1, <1>6, KnownStays
  <2>2. ProviderInv'
    BY <1>1, <1>6, <2>1 DEF ProviderInv
  <2>3. MissedInv'
    BY <1>1, <1>6 DEF MissedInv
  <2>4. \A q \in pipelines' : AsDescribed(q)'
    BY <1>1, <1>6, <2>1 DEF AsDescribed
  <2> QED
    BY <1>6, <2>1, <2>2, <2>3, <2>4 DEF LoaderInv
<1>7. ASSUME NEW p \in pipelines, Unload(p) PROVE LoaderInv'
  <2>1. DestroyPipeline(p) /\ pipelines' \subseteq pipelines
    BY <1>7 DEF Unload, DestroyPipeline
  <2>2. OwnedInv'
    BY <1>1, <2>1, DestroyKeepsOwners
  <2> QED
    BY <1>6, <1>7, <2>1, <2>2 DEF Unload, fileVars, providerVars, loadVars
<1>8. CASE UNCHANGED loaderVars
  <2>1. made' = made /\ layouts' = layouts /\ pipelines' = pipelines /\ failed' = failed
    BY <1>8 DEF loaderVars, builderVars
  <2>2. OwnedInv'
    BY <1>1, <2>1 DEF OwnedInv, OwnsLayout
  <2> QED
    BY <1>6, <1>8, <2>1, <2>2 DEF loaderVars, fileVars, providerVars, loadVars
<1> QED
  BY <1>2, <1>3, <1>4, <1>5, <1>7, <1>8 DEF LoaderNext

\* In whatever order files are read, wholly or in part, and providers come: a
\* pipeline is what was described last under its name, with the set layouts of
\* the provider it was loaded with (load, set_pipeline_globals_provider).
THEOREM LoadedPipelines == LoaderSpec => []LoadedAsDescribed
<1>1. LoaderInit => LoaderInv
  BY LoaderStarts
<1>2. LoaderInv /\ [LoaderNext]_loaderVars => LoaderInv'
  BY LoaderStep
<1>3. LoaderInv => LoadedAsDescribed
  BY DEF LoaderInv, OwnedInv, MissedInv, LoadedAsDescribed
<1> QED
  BY <1>1, <1>2, <1>3, PTL DEF LoaderSpec
=============================================================================
