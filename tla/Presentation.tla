---------------------------- MODULE Presentation ----------------------------
(***************************************************************************)
(* The swapchain of a Surface (src/window/surface.cpp) and the             *)
(* WindowRenderPass that draws to it (src/renderpass/                      *)
(* windowed_renderpass.cpp), with the device that runs the frames, the     *)
(* presentation engine that shows them and the application's frame loop.   *)
(*                                                                         *)
(* The engine is in FIFO mode, the one init_swapchain asks for: it shows   *)
(* images in the order they are presented.  It hands out any image that it *)
(* neither has to show nor shows, and may be done with the one it shows    *)
(* before it shows the next.  The application prepares a frame when fewer  *)
(* than MaxRunning are running; after a prepare that fails, and whenever   *)
(* it likes, it lets the device come to rest and recreates the swapchain.  *)
(***************************************************************************)
EXTENDS Naturals, Sequences, FiniteSets

CONSTANTS
    Counts,         \* how many images a swapchain may have
    Extent,         \* sizes of the window
    MaxRunning,     \* frames the application keeps running at once
    NoImage,        \* null: no image, semaphore or frame
    MaxChain,       \* bound: swapchains made
    MaxWindowBatch  \* bound: batches of framebuffers made by the application's resizes

\* A device has a largest number of images.
ASSUME CountsAssumption ==
    /\ Counts \subseteq Nat \ {0}
    /\ \E n \in Counts : \A k \in Counts : k <= n
    /\ MaxRunning \in Nat \ {0}
    /\ NoImage \notin Nat
ASSUME ChainAssumption == MaxChain \in Nat \ {0} /\ MaxWindowBatch \in Nat

VARIABLES
    chain,      \* m_swapchain: the swapchains made so far
    views,      \* m_swapchain_image_views: the swapchain these handles were first made for
    count,      \* m_swapchain_images.size()
    extent,     \* m_width and m_height of the surface
    window,     \* the size of the window
    index,      \* m_swapchain_image_index
    prepared,   \* m_current_prepare_semaphore, as an index; NoImage when null
    rendered,   \* m_current_wait_semaphore, as an index; NoImage when null
    prepare,    \* m_prepare_semaphores: idle, signalled or waited for
    wait,       \* m_wait_semaphores: idle, to be signalled or signalled
    pass,       \* WindowRenderPass: the swapchain, handles of views and extent its
                \* framebuffers are made of, how many they are, and their batch
    phase,      \* the frame loop: idle, failed, prepared, recorded, submitted
    frame,      \* the command buffer recorded last
    running,    \* device: the frames submitted, oldest first
    ready,      \* engine: the images it can hand out
    queued,     \* engine: the images presented, in order
    shown,      \* engine: the image on the screen
    left,       \* history: prepare semaphores signalled for a prepare that failed
    loose       \* history: images nobody has acquired yet although a frame waits with their
                \* semaphore, or that the engine gave back before it showed the next one

surfaceVars == <<chain, views, count, extent, index, prepared, rendered, prepare, wait>>
engineVars == <<ready, queued, shown>>
windowVars == <<surfaceVars, engineVars, window, pass, phase, frame, running, left, loose>>

Image == 0..count - 1
MaxImages == CHOOSE n \in Counts : \A k \in Counts : k <= n

Frame == [image : 0..MaxImages - 1, signals : 0..MaxImages - 1, waits : 0..MaxImages - 1,
          chain : 1..MaxChain, extent : Extent, batch : 1..MaxWindowBatch + MaxChain, keeps : 1..MaxWindowBatch + MaxChain]

SurfaceTypeOK ==
    /\ chain \in 1..MaxChain /\ views \in 1..chain /\ count \in Counts
    /\ extent \in Extent /\ window \in Extent
    /\ index \in Nat
    /\ prepared \in Image \cup {NoImage} /\ rendered \in 0..MaxImages - 1 \cup {NoImage}
    /\ prepare \in [Image -> {"idle", "signalled", "waited"}]
    /\ wait \in [Image -> {"idle", "due", "signalled"}]
    /\ pass \in [chain : 1..MaxChain, views : 1..MaxChain, images : Counts, extent : Extent,
                  batch : 1..MaxWindowBatch + MaxChain]
    /\ phase \in {"idle", "failed", "prepared", "recorded", "submitted"}
    /\ frame \in Frame \cup {NoImage}
    /\ running \in Seq(Frame) /\ Len(running) <= MaxRunning
    /\ ready \subseteq Image /\ queued \in Seq(Image) /\ shown \in Image \cup {NoImage}
    /\ left \subseteq Image /\ loose \subseteq Image

\* The render pass recreates the swapchain but keeps the size it read before.
WindowInit ==
    /\ chain = 1 /\ views = 1
    /\ count \in Counts
    /\ extent \in Extent
    /\ window = extent
    /\ index = count - 1
    /\ prepared = NoImage /\ rendered = NoImage
    /\ prepare = [i \in Image |-> "idle"]
    /\ wait = [i \in Image |-> "idle"]
    /\ \E e \in Extent : pass = [chain |-> 1, views |-> 1, images |-> count, extent |-> e, batch |-> 1]
    /\ phase = "idle" /\ frame = NoImage /\ running = <<>>
    /\ ready = Image /\ queued = <<>> /\ shown = NoImage
    /\ left = {} /\ loose = {index}

-----------------------------------------------------------------------------
(* Surface.                                                                *)

MayPrepare == phase = "idle" /\ Len(running) < MaxRunning

\* vkAcquireNextImageKHR hands out some image and signals the semaphore.
Acquire(s) ==
    /\ index' \in ready
    /\ ready' = ready \ {index'}
    /\ prepare' = [prepare EXCEPT ![s] = "signalled"]

PrepareWith(s) ==
    /\ MayPrepare
    /\ Acquire(s)
    /\ prepared' = s
    /\ rendered' = index'
    /\ phase' = "prepared"
    /\ UNCHANGED <<chain, views, count, extent, wait, queued, shown, window, pass, frame,
                   running, left, loose>>

PrepareAlwaysFirst == PrepareWith(0)

\* prepare: the semaphore of the image used last, and the one of the new image.
Prepare == PrepareWith(index)

\* prepare fails on a suboptimal image, which it has nevertheless acquired.
PrepareSuboptimal ==
    /\ MayPrepare
    /\ Acquire(index)
    /\ left' = left \cup {index}
    /\ phase' = "failed"
    /\ UNCHANGED <<chain, views, count, extent, prepared, rendered, wait, queued, shown,
                   window, pass, frame, running, loose>>

PrepareOutOfDate ==
    /\ MayPrepare
    /\ phase' = "failed"
    /\ UNCHANGED <<surfaceVars, engineVars, window, pass, frame, running, left, loose>>

\* present, whatever it returns: the engine waits for the frame and takes the image.
Present ==
    /\ phase = "submitted"
    /\ prepared' = NoImage
    /\ queued' = Append(queued, index)
    /\ phase' = "idle"
    /\ UNCHANGED <<chain, views, count, extent, index, rendered, prepare, wait, ready, shown,
                   window, pass, frame, running, left, loose>>

AtRest == phase \in {"idle", "failed"} /\ running = <<>> /\ queued = <<>>

Resized(semaphores, n) == [i \in 0..n - 1 |-> IF i \in DOMAIN semaphores THEN semaphores[i] ELSE "idle"]

\* The old views are destroyed before the new ones are made, which may then
\* get the handles of those the pass compares with.
Handles(n) == {chain + 1} \cup {v \in {pass.views} : pass.images = n}

Rebuild(n, next) ==
    /\ AtRest /\ chain < MaxChain
    /\ chain' = chain + 1
    /\ views' \in Handles(n)
    /\ count' = n
    /\ extent' = window
    /\ prepare' = Resized(prepare, n)
    /\ wait' = Resized(wait, n)
    /\ index' = next
    /\ ready' = 0..n - 1 /\ shown' = NoImage
    /\ left' = left \cap 0..n - 1 /\ loose' = {n - 1}
    /\ phase' = "idle"
    /\ UNCHANGED <<prepared, rendered, queued, window, pass, frame, running>>

RecreateKeepsIndex(n) == Rebuild(n, index)

\* recrate_swapchain: the semaphores that still have an image are kept.
Recreate(n) == Rebuild(n, n - 1)

-----------------------------------------------------------------------------
(* WindowRenderPass.                                                       *)

\* resize, to the size of the surface: framebuffers for the views it has now.
Remade == [chain |-> chain, views |-> views, images |-> count, extent |-> extent,
           batch |-> pass.batch + 1]
Refreshed == IF pass.views = views THEN pass ELSE Remade

\* The application calls it too.
Resize ==
    /\ phase \in {"idle", "prepared"} /\ pass.batch < MaxWindowBatch
    /\ pass' = Remade
    /\ UNCHANGED <<surfaceVars, engineVars, window, phase, frame, running, left, loose>>

Record(kept) ==
    /\ phase = "prepared"
    /\ pass' = Refreshed
    /\ frame' = [image |-> index, signals |-> rendered, waits |-> prepared, chain |-> pass'.chain,
                 extent |-> pass'.extent, batch |-> pass'.batch, keeps |-> kept]
    /\ phase' = "recorded"
    /\ UNCHANGED <<surfaceVars, engineVars, window, running, left, loose>>

BeginKeepsOld == Record(pass.batch)

BeginNeverResizes ==
    /\ phase = "prepared"
    /\ frame' = [image |-> index, signals |-> rendered, waits |-> prepared, chain |-> pass.chain,
                 extent |-> pass.extent, batch |-> pass.batch, keeps |-> pass.batch]
    /\ phase' = "recorded"
    /\ UNCHANGED <<surfaceVars, engineVars, window, pass, running, left, loose>>

\* begin: resizes if the handles of the image views have changed, and only
\* then takes a reference of the framebuffer and the depth image.
Begin == Record(Refreshed.batch)

-----------------------------------------------------------------------------
(* The application, the device and the engine.                             *)

Submit ==
    /\ phase = "recorded"
    /\ running' = Append(running, frame)
    /\ prepare' = [prepare EXCEPT ![prepared] = "waited"]
    /\ wait' = [wait EXCEPT ![rendered] = "due"]
    /\ phase' = "submitted"
    /\ UNCHANGED <<chain, views, count, extent, index, prepared, rendered, engineVars,
                   window, pass, frame, left, loose>>

\* The oldest frame is done.
FrameDone ==
    /\ running # <<>>
    /\ prepare' = [prepare EXCEPT ![Head(running).waits] = "idle"]
    /\ wait' = [wait EXCEPT ![Head(running).signals] = "signalled"]
    /\ running' = Tail(running)
    /\ loose' = loose \ {Head(running).waits}
    /\ UNCHANGED <<chain, views, count, extent, index, prepared, rendered, engineVars,
                   window, pass, phase, frame, left>>

\* Each present waits for the semaphore its frame signals.
Show ==
    /\ queued # <<>> /\ wait[Head(queued)] = "signalled"
    /\ wait' = [wait EXCEPT ![Head(queued)] = "idle"]
    /\ shown' = Head(queued)
    /\ queued' = Tail(queued)
    /\ ready' = ready \cup ({shown} \ {NoImage})
    /\ UNCHANGED <<chain, views, count, extent, index, prepared, rendered, prepare,
                   window, pass, phase, frame, running, left, loose>>

\* The engine is done with the image it shows before it has the next one.
GiveBack ==
    /\ shown # NoImage
    /\ ready' = ready \cup {shown}
    /\ loose' = loose \cup {shown}
    /\ shown' = NoImage
    /\ UNCHANGED <<surfaceVars, queued, window, pass, phase, frame, running, left>>

ResizeWindow(e) ==
    /\ e # window
    /\ window' = e
    /\ UNCHANGED <<surfaceVars, engineVars, pass, phase, frame, running, left, loose>>

-----------------------------------------------------------------------------

WindowNext ==
    \/ Prepare \/ PrepareSuboptimal \/ PrepareOutOfDate \/ Resize \/ Begin \/ Submit \/ Present
    \/ FrameDone \/ Show \/ GiveBack
    \/ \E n \in Counts : Recreate(n)
    \/ \E e \in Extent : ResizeWindow(e)

WindowSpec == WindowInit /\ [][WindowNext]_windowVars

-----------------------------------------------------------------------------
(* Correctness.                                                            *)

\* prepare gives the device a semaphore nothing is pending on, whatever image
\* the engine chooses: except those that a suboptimal acquire signalled and
\* nobody waited for, and that of an image acquired before the frame after
\* its own was done (surface.cpp:92), which the engine allows when it gives
\* images back early or hands out the last image while the first frame runs.
AcquireFresh == MayPrepare => prepare[index] = "idle" \/ index \in left \cup loose

\* A frame signals a semaphore that no present still waits for.
RenderedFresh == phase \in {"prepared", "recorded"} => wait[rendered] = "idle"

\* No semaphore is given to the device while something is pending on it.
SemaphoresFresh == AcquireFresh /\ RenderedFresh

\* A frame is recorded for the image prepare returned, which nobody else has,
\* with a framebuffer for each image; and these are made of the views of the
\* present swapchain, of its size once they were resized, unless the new
\* views got the handles of destroyed ones (windowed_renderpass.cpp:149).
DrawsToAcquired ==
    phase = "recorded" =>
        /\ frame.image = index /\ frame.image \in Image
        /\ index \notin ready \cup {queued[i] : i \in DOMAIN queued} \cup {shown}
        /\ pass.images = count
        /\ views = chain =>
              /\ frame.chain = chain
              /\ frame.batch > 1 => frame.extent = extent

\* The framebuffer a frame draws to outlives the frame.
WindowFramebufferKept ==
    \A i \in DOMAIN running : running[i].batch \in {running[i].keeps, pass.batch}

\* What prepare asserts, and what get_prepare_semaphore promises: null unless
\* prepare succeeded for this frame.
PrepareAsserts ==
    /\ phase = "idle" => prepared = NoImage /\ index < count
    /\ prepared = NoImage => phase \in {"idle", "failed"}

\* The surface is consistent, also across a recreation with fewer images.
SurfaceInv == SurfaceTypeOK /\ PrepareAsserts
=============================================================================
