--------------------------- MODULE PipelineLayouts ---------------------------
(***************************************************************************)
(* How the layout of a pipeline is derived from its shaders                *)
(* (src/pipeline/shader_reflection/pipeline_reflection.cpp, with the       *)
(* layout builders).  A reflection holds the shaders added so far and the  *)
(* set layouts given by hand; the layout of each other set is merged from  *)
(* the bindings of the stages.                                             *)
(*                                                                         *)
(* A shader is its stage, the places <<set, binding>> it uses and the size *)
(* of its push constants.  The shaders of an application agree on the type *)
(* and count of a binding, so a binding is the set of stages it serves.    *)
(***************************************************************************)
EXTENDS Naturals, Sequences, FiniteSetsExt

CONSTANTS
    SetLimit,   \* the length of set_infos
    Null        \* a null handle

Reflection == [shaders |-> <<>>, layouts |-> <<>>]

WithShader(r, shader) == [r EXCEPT !.shaders = Append(@, shader)]

\* set_descriptor_layout: m_layouts is made long enough, with null handles.
WithLayout(r, set, layout) ==
    LET n == IF Len(r.layouts) <= set THEN set + 1 ELSE Len(r.layouts) IN
    [r EXCEPT !.layouts = [i \in 1..n |-> CASE i = set + 1 -> layout
                                            [] i # set + 1 /\ i <= Len(r.layouts) -> r.layouts[i]
                                            [] OTHER -> Null]]

get_set_layout(r, set) == IF set < Len(r.layouts) THEN r.layouts[set + 1] ELSE Null

-----------------------------------------------------------------------------

Users(r, set) == {i \in DOMAIN r.shaders : \E place \in r.shaders[i].uses : place[1] = set}
Count(shader, set) == Cardinality({place \in shader.uses : place[1] = set})

\* The merged bindings have the room that the first stage to use the set needs.
Room(r, set) ==
    IF Users(r, set) = {} THEN 0
    ELSE Count(r.shaders[Min(Users(r, set))], set)

\* A binding is looked up by its number among those of its own stage, and
\* again among the merged ones; neither is checked, nor is the set.
Overruns(r) ==
    \E i \in DOMAIN r.shaders : \E place \in r.shaders[i].uses :
        \/ place[1] >= SetLimit
        \/ place[2] >= Count(r.shaders[i], place[1])
        \/ place[2] >= Room(r, place[1])

FirstStageOnly(r, place) ==
    {r.shaders[Min(Users(r, place[1]))].stage}

Stages(r, place) == {r.shaders[i].stage : i \in {j \in DOMAIN r.shaders : place \in r.shaders[j].uses}}

SetLayout(r, set) ==
    IF get_set_layout(r, set) # Null THEN [given |-> get_set_layout(r, set)]
    ELSE [bindings |-> [n \in 1..Room(r, set) |-> Stages(r, <<set, n - 1>>)]]

\* The loop over the sets ends at the first that is neither given nor used.
HasLayout(r, set) == get_set_layout(r, set) # Null \/ Users(r, set) # {}
LaidOut(r) == {s \in 0..SetLimit - 1 : \A t \in 0..s : HasLayout(r, t)}

\* The push constants of the first stage that has any.
PushStages(r) ==
    LET pushing == {i \in DOMAIN r.shaders : r.shaders[i].push > 0} IN
    {i \in pushing : \A j \in pushing : i <= j}

build_pipeline_layout(r) ==
    [sets |-> [i \in 1..Cardinality(LaidOut(r)) |-> SetLayout(r, i - 1)],
     push |-> {<<r.shaders[i].stage, r.shaders[i].push>> : i \in PushStages(r)}]

-----------------------------------------------------------------------------
(* What a layout is for.                                                   *)

\* The layout has what the i-th shader needs.
ServesBindings(layout, r, i) ==
    \A place \in r.shaders[i].uses :
        LET s == place[1] + 1 IN
        /\ s \in DOMAIN layout.sets
        /\ "given" \in DOMAIN layout.sets[s]
             \/ r.shaders[i].stage \in layout.sets[s].bindings[place[2] + 1]

ServesPush(layout, r, i) ==
    r.shaders[i].push = 0 \/ <<r.shaders[i].stage, r.shaders[i].push>> \in layout.push

\* What build_pipeline_layout takes for granted: no set is left out between
\* two that are used, and one stage has push constants.
NoGap(r) == \A s \in 0..SetLimit - 1 : Users(r, s) # {} => s \in LaidOut(r)
OnePusher(r) == \A i, j \in DOMAIN r.shaders : r.shaders[i].push > 0 /\ r.shaders[j].push > 0 => i = j

\* Every stage finds its bindings and push constants (build_pipeline_layout),
\* unless the merging ran out of an array or one of the above is not so.
LayoutServes(layout, r) ==
    ~Overruns(r) =>
        \A i \in DOMAIN r.shaders :
            /\ NoGap(r) => ServesBindings(layout, r, i)
            /\ OnePusher(r) => ServesPush(layout, r, i)
=============================================================================
