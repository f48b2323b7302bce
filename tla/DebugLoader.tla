----------------------------- MODULE DebugLoader -----------------------------
(***************************************************************************)
(* DebugPipelineLoader (src/pipeline/loader/debug_loader.cpp), with the    *)
(* descriptions of pipeline_file.cpp and the PipelineGlobalsProvider: it   *)
(* reads the description files it finds, builds the set layouts they       *)
(* describe for each provider, and makes pipelines by name with the        *)
(* builders of PipelineBuilder.                                            *)
(*                                                                         *)
(* A file is a sequence of pipeline descriptions and the names of the set  *)
(* layouts it describes.  A description is the name of its pipeline, the   *)
(* render pass and vertex input it needs, and the set number of each       *)
(* layout it uses.                                                         *)
(***************************************************************************)
EXTENDS PipelineBuilder

CONSTANTS
    File,           \* the files found, in no particular order
    Described,      \* File -> Seq of [name, needs, sets]
    SetLayouts,     \* File -> the names of set layouts
    Compiled,       \* what the shader files may compile to: sequences of shaders
    MaxProviders,   \* bound: providers set
    MaxLoads        \* bound: calls of load

\* Two set layouts of a description have different numbers, within set_infos.
ASSUME LoaderAssumption ==
    /\ IsFiniteSet(File)
    /\ \A f \in File :
          /\ Len(Described[f]) \in Nat /\ DOMAIN Described[f] = 1..Len(Described[f])
          /\ \A i \in DOMAIN Described[f] :
                LET sets == Described[f][i].sets IN
                \A l, m \in DOMAIN sets : sets[l] \in 0..SetLimit - 1 /\ (sets[l] = sets[m] => l = m)
    /\ \A shaders \in Compiled :
          /\ Len(shaders) \in Nat /\ DOMAIN shaders = 1..Len(shaders)
          /\ \A i \in DOMAIN shaders :
                /\ shaders[i].uses \subseteq Nat \X Nat /\ IsFiniteSet(shaders[i].uses)
                /\ shaders[i].push \in Nat

VARIABLES
    read,           \* the files read, in order: how many descriptions were
                    \* registered, and whether the whole file was
    descriptions,   \* m_pipelines_descriptions
    files,          \* m_pipeline_files
    provider,       \* the number of the provider; 0 while the constructor runs
    known,          \* the render passes and vertex inputs it has
    set_layouts,    \* its set_layouts: name -> layout, known by provider and file
    loads,          \* calls of load
    loaded,         \* Pipeline handle -> the provider and name it was loaded with
    missed          \* the set layouts that calls of load did not find

fileVars == <<read, descriptions, files>>
providerVars == <<provider, known, set_layouts>>
loadVars == <<loads, loaded, missed>>
loaderVars == <<builderVars, fileVars, providerVars, loadVars>>

LoaderInit ==
    /\ BuilderInit
    /\ read = <<>> /\ files = <<>> /\ descriptions = <<>>
    /\ provider = 0 /\ known = {} /\ set_layouts = <<>>
    /\ loads = 0 /\ loaded = <<>> /\ missed = {}

\* The last of the first n descriptions of a file that has the name.
Latest(f, n, name) == Max({i \in 1..n : Described[f][i].name = name})

RegisterNew(f, n) ==
    [name \in DOMAIN descriptions \cup {Described[f][i].name : i \in 1..n} |->
        IF name \in DOMAIN descriptions THEN descriptions[name] ELSE Described[f][Latest(f, n, name)]]

\* m_pipelines_descriptions[pipeline->name] = pipeline, one after the other.
Register(f, n) ==
    LET names == {Described[f][i].name : i \in 1..n} IN
    [name \in DOMAIN descriptions \cup names |->
        IF name \in names THEN Described[f][Latest(f, n, name)] ELSE descriptions[name]]

\* A file that cannot be parsed registers nothing; when the path of a shader
\* cannot be resolved the file is given up, with what it registered before.
load_pipeline_file(f, n, whole) ==
    /\ provider = 0
    /\ \A i \in DOMAIN read : read[i].file # f
    /\ whole => n = Len(Described[f])
    /\ ~whole => n = 0 \/ n < Len(Described[f])
    /\ read' = Append(read, [file |-> f, registered |-> n, whole |-> whole])
    /\ descriptions' = Register(f, n)
    /\ files' = IF whole THEN Append(files, f) ELSE files
    /\ UNCHANGED <<builderVars, providerVars, loadVars>>

\* The last of a sequence of files that describes a set layout.
LastWith(s, l) == s[Max({i \in DOMAIN s : l \in SetLayouts[s[i]]})]

\* Every set layout of every file is built again for the new provider.
set_pipeline_globals_provider(names) ==
    /\ Len(read) = Cardinality(File) /\ provider < MaxProviders
    /\ provider' = provider + 1
    /\ known' = names
    /\ set_layouts' = [l \in UNION {SetLayouts[files[i]] : i \in DOMAIN files} |->
                          <<provider', LastWith(files, l)>>]
    /\ UNCHANGED <<builderVars, fileVars, loadVars>>

\* determine_pipeline_type
Kind(shaders) == IF \E i \in DOMAIN shaders : shaders[i].stage = "compute" THEN "compute" ELSE "graphics"

\* set_globals throws when the provider lacks something; a compute pipeline
\* needs no render pass.
Lacks(d) == DOMAIN d.sets \ DOMAIN set_layouts
HasGlobals(d, kind) == Lacks(d) = {} /\ (kind = "graphics" => d.needs \subseteq known)

\* m_layouts is as long as the highest set that is given.
LayoutsOf(d) ==
    LET given == {d.sets[l] : l \in DOMAIN d.sets}
        OfSet(s) == CHOOSE l \in DOMAIN d.sets : d.sets[l] = s
    IN  [i \in 1..(IF given = {} THEN 0 ELSE Max(given) + 1) |->
            IF i - 1 \in given THEN set_layouts[OfSet(i - 1)] ELSE Null]

WithGlobals(b, d) == [b EXCEPT !.reflection.layouts = LayoutsOf(d)]

\* The builder of load_pipeline, when it builds.
Loading(d, shaders, garbage) ==
    LET b == [NewBuilder(Kind(shaders), garbage) EXCEPT
                  !.reflection.shaders = shaders,
                  !.stages = @ \cup {shaders[i].stage : i \in DOMAIN shaders}]
        g == WithGlobals(b, d)
    IN  IF b.kind = "compute" THEN g
        ELSE set_depth_testing(set_renderpass(g, [cull |-> Null, compare |-> Null]),
                               TRUE, "less_or_equal")

\* load of a registered name, once there is a provider and the shaders compile.
Loads(name) ==
    /\ provider > 0 /\ loads < MaxLoads /\ name \in DOMAIN descriptions
    /\ loads' = loads + 1
    /\ UNCHANGED <<builder, fileVars, providerVars>>

load(name, shaders, garbage) ==
    LET b == Loading(descriptions[name], shaders, garbage) IN
    /\ Loads(name) /\ HasGlobals(descriptions[name], b.kind)
    /\ MayBuild(b) /\ made < MaxMade
    /\ made' = made + 1
    /\ layouts' = layouts \cup {made'}
    /\ loaded' = [h \in 1..made' |-> IF h = made' THEN <<provider, name>> ELSE loaded[h]]
    /\ \/ /\ pipelines' = pipelines \cup {PipelineOf(Prepared(b), made', TRUE)}
          /\ UNCHANGED failed
       \/ /\ b.kind = "graphics"
          /\ failed' = failed + 1
          /\ UNCHANGED pipelines
    /\ UNCHANGED missed

LoadMisses(name, shaders) ==
    /\ Loads(name) /\ ~HasGlobals(descriptions[name], Kind(shaders))
    /\ missed' = missed \cup Lacks(descriptions[name])
    /\ UNCHANGED <<made, layouts, pipelines, failed, loaded>>

Unload(p) ==
    /\ DestroyPipeline(p)
    /\ UNCHANGED <<fileVars, providerVars, loadVars>>

Needs == UNION {UNION {Described[f][i].needs : i \in DOMAIN Described[f]} : f \in File}

LoaderNext ==
    \/ \E f \in File, whole \in BOOLEAN : \E n \in 0..Len(Described[f]) : load_pipeline_file(f, n, whole)
    \/ \E names \in SUBSET Needs : set_pipeline_globals_provider(names)
    \/ \E name \in DOMAIN descriptions, shaders \in Compiled :
          \/ \E garbage \in SUBSET {"tesc"} : load(name, shaders, garbage)
          \/ LoadMisses(name, shaders)
    \/ \E p \in pipelines : Unload(p)

LoaderSpec == LoaderInit /\ [][LoaderNext]_loaderVars

-----------------------------------------------------------------------------
(* Correctness.                                                            *)

\* The last file that was read to its end and describes a set layout.
WholeWith(l) == {i \in DOMAIN read : read[i].whole /\ l \in SetLayouts[read[i].file]}
LastWhole(l) == read[Max(WholeWith(l))].file

\* The description that was registered last under a name.
Registering(name) ==
    {i \in DOMAIN read : \E j \in 1..read[i].registered : Described[read[i].file][j].name = name}
LastDescribed(name) ==
    LET r == read[Max(Registering(name))] IN Described[r.file][Latest(r.file, r.registered, name)]

\* A pipeline has the set layouts that its last description names, as they
\* were built from the last whole file for the provider it was loaded with.
AsDescribed(p) ==
    LET d == LastDescribed(loaded[p.handle][2])
        given == p.builder.reflection.layouts
    IN  /\ \A l \in DOMAIN d.sets : given[d.sets[l] + 1] = <<loaded[p.handle][1], LastWhole(l)>>
        /\ \A i \in DOMAIN given : given[i] # Null => \E l \in DOMAIN d.sets : d.sets[l] = i - 1
        /\ LayoutServes(p.layout, p.builder.reflection)

\* What is loaded is what was described last, whatever files failed, providers
\* came and builds failed between (the whole of debug_loader.cpp).  A set
\* layout is missed only when the file that describes it was given up.
LoadedAsDescribed ==
    /\ OwnsLayout
    /\ provider > 0 => \A p \in pipelines : AsDescribed(p)
    /\ \A i \in DOMAIN read : read[i].whole => SetLayouts[read[i].file] \cap missed = {}
=============================================================================
