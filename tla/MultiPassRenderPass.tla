------------------------ MODULE MultiPassRenderPass ------------------------
(***************************************************************************)
(* MultiPassRenderPass (src/renderpass/multi_pass_renderpass.cpp) and the  *)
(* begin it inherits from Renderpass (src/renderpass/renderpass.cpp): a    *)
(* render pass with one framebuffer per layer of its own images, remade    *)
(* when the target changes size, while the device runs earlier frames.     *)
(*                                                                         *)
(* A batch is what one create_attachments and create_framebuffers make.    *)
(* Surface attachments are left out: nothing in the repository sets        *)
(* m_has_surface_attachment or m_window.                                   *)
(***************************************************************************)
EXTENDS Naturals, Sequences

CONSTANTS
    MaxLayers,  \* bound: layers of a pass
    Size,       \* sizes of the pass
    Target,     \* what m_target_size may be: sizes, or None when it is null
    None,
    MaxFrames,  \* frames the application keeps running at once
    MaxBatch    \* bound: batches made

ASSUME LayersAssumption == MaxLayers \in Nat \ {0} /\ MaxFrames \in Nat \ {0} /\ MaxBatch \in Nat \ {0}
ASSUME TargetAssumption == Target \subseteq Size \cup {None} /\ None \in Target \ Size

VARIABLES
    layers,     \* m_attachment_layer_count, m_frame_buffer_instance_count
    batch,      \* the batch of m_framebuffers and m_attachments
    made,       \* the size each batch was made with
    size,       \* m_width, m_height
    target,     \* the size of m_target_size, None when null
    active,     \* m_active_frame_buffer_instance
    frames      \* the frames submitted, oldest first: what they draw to, their
                \* render area, the framebuffer their command buffer keeps and
                \* whether begin remade the framebuffers

vars == <<layers, batch, made, size, target, active, frames>>

Instance == 0..layers - 1
Framebuffer == (1..batch) \X Instance

TypeOK ==
    /\ layers \in 1..MaxLayers
    /\ batch \in 1..MaxBatch
    /\ made \in [1..batch -> Size]
    /\ size \in Size
    /\ target \in Target
    /\ active \in Instance
    /\ frames \in Seq([draws : Framebuffer, area : Size, keeps : Framebuffer,
                          remade : BOOLEAN])
    /\ Len(frames) <= MaxFrames

Init ==
    /\ layers \in 1..MaxLayers
    /\ size \in Size
    /\ batch = 1
    /\ made = <<size>>
    /\ target = None
    /\ active = 0
    /\ frames = <<>>

-----------------------------------------------------------------------------

RemakeTooEarly(e) ==
    /\ batch < MaxBatch
    /\ batch' = batch + 1
    /\ made' = Append(made, size)
    /\ size' = e

\* resize: new images, then new framebuffers on them.
Remake(e) ==
    /\ batch < MaxBatch
    /\ batch' = batch + 1
    /\ made' = Append(made, e)
    /\ size' = e

resize(e) ==
    /\ Remake(e)
    /\ UNCHANGED <<layers, target, active, frames>>

\* The assertion on the range is the guard.
set_active_frame_buffer_instance(i) ==
    /\ i < layers
    /\ active' = i
    /\ UNCHANGED <<layers, batch, made, size, target, frames>>

\* set_target_size, and the target changing its size.
SetTarget(t) ==
    /\ target' = t
    /\ UNCHANGED <<layers, batch, made, size, active, frames>>

\* begin keeps a framebuffer, remakes them all if the target has another
\* size, and draws to the active one; the frame is then submitted.
BeginKeeping(kept) ==
    /\ Len(frames) < MaxFrames
    /\ IF target \notin {None, size}
         THEN Remake(target)
         ELSE UNCHANGED <<batch, made, size>>
    /\ frames' = Append(frames, [draws |-> <<batch', active>>, area |-> size', keeps |-> kept,
                                remade |-> target \notin {None, size}])
    /\ UNCHANGED <<layers, target, active>>

begin == BeginKeeping(<<batch, 0>>)

Complete ==
    /\ frames # <<>>
    /\ frames' = Tail(frames)
    /\ UNCHANGED <<layers, batch, made, size, target, active>>

-----------------------------------------------------------------------------

Next ==
    \/ begin \/ Complete
    \/ \E e \in Size : resize(e)
    \/ \E t \in Target : SetTarget(t)
    \/ \E i \in 0..layers : set_active_frame_buffer_instance(i)

Spec == Init /\ [][Next]_vars

-----------------------------------------------------------------------------
(* Correctness.                                                            *)

Alive(fb) == fb[1] = batch \/ \E i \in DOMAIN frames : frames[i].keeps = fb

\* The framebuffer that active_frame_buffer_instance selects for rendering is
\* there as long as the device renders to it, whatever is resized meanwhile.
FramebufferKept == \A i \in DOMAIN frames : Alive(frames[i].draws)

\* Of a frame that draws to the first instance, and whose begin remade
\* nothing, the command buffer keeps the right framebuffer (begin,
\* Framebuffer's reference count).
FirstKept ==
    \A i \in DOMAIN frames :
        (frames[i].draws[2] = 0 /\ ~frames[i].remade) => Alive(frames[i].draws)

\* A frame covers the framebuffer it draws to (Renderpass::begin takes the
\* area after the resize, create_framebuffers the size before).
AreaFits == \A i \in DOMAIN frames : frames[i].area = made[frames[i].draws[1]]

\* What is drawn fits and, through the first instance, stays.
PassInv == TypeOK /\ AreaFits /\ FirstKept
=============================================================================
