---------------------------- MODULE RenderPasses ----------------------------
(***************************************************************************)
(* An application that describes a render pass to a RenderPassBuilder,     *)
(* builds it, drops the builder and then draws with the pass               *)
(* (RenderPassBuilder::build and the constructor of MultiPassRenderPass).  *)
(***************************************************************************)
EXTENDS RenderPassBuilder, MultiPassRenderPass

VARIABLES
    layer_count,    \* m_layer_count of the builder
    built,          \* the pass exists; its variables mean nothing before
    lost            \* the program went on from an attachment that is not there

builderVars == <<describedVars, layer_count>>
passesVars == <<vars, builderVars, built, lost>>

BuilderAndPassInit ==
    /\ BuilderInit
    /\ layer_count = 1
    /\ built = FALSE /\ lost = FALSE
    /\ Init /\ layers = 1 /\ size = CHOOSE e \in Size : TRUE

set_layer_count(n) ==
    /\ built = FALSE
    /\ layer_count' = n
    /\ UNCHANGED <<describedVars, built, lost, vars>>

Describe ==
    /\ built = FALSE
    /\ BuilderNext
    /\ UNCHANGED <<layer_count, built, lost, vars>>

DropBuilder ==
    /\ attachments' = <<>>
    /\ subpasses' = <<>>
    /\ layer_count' = 1

\* The pass copies what the builder describes; its images and framebuffers
\* are one batch, made with its size.
build(e) ==
    /\ ~built /\ MayBuild
    /\ built' = TRUE
    /\ layers' = layer_count
    /\ size' = e /\ made' = <<e>>
    /\ UNCHANGED <<batch, target, active, frames, lost>>
    /\ DropBuilder

\* The constructor takes the depth format of every subpass, of one without a
\* depth attachment from an index nobody wrote: it names some attachment, and
\* build goes on, or none.
BuildLost ==
    /\ ~built /\ MayBuild
    /\ \E i \in DOMAIN subpasses : subpasses[i].depth = {}
    /\ lost' = TRUE
    /\ UNCHANGED <<vars, builderVars, built>>

Draw ==
    /\ built
    /\ Next
    /\ UNCHANGED <<builderVars, built, lost>>

PassesNext ==
    /\ ~lost
    /\ \/ \E n \in 1..MaxLayers : set_layer_count(n)
       \/ \E e \in Size : build(e)
       \/ BuildLost \/ Describe \/ Draw

PassesSpec == BuilderAndPassInit /\ [][PassesNext]_passesVars

-----------------------------------------------------------------------------

\* What the builder has derived so far is well formed: inputs flagged, one
\* dependency per pair of subpasses, none backwards (renderpass_builder.cpp).
BuilderInv == InputFlagged /\ MergedOnce /\ Forward
=============================================================================
