------------------------- MODULE RenderPassesProofs -------------------------
(***************************************************************************)
(* No semaphore is used while something is pending on it, and frames draw  *)
(* to the image they acquired with framebuffers that outlive them, for     *)
(* every number of images, of frames in flight and of swapchains; what a   *)
(* MultiPassRenderPass draws fits, for any sizes and layers; and the       *)
(* dependencies a RenderPassBuilder derives order what its subpasses do to *)
(* an attachment, for any attachments and subpasses.                       *)
(*                                                                         *)
(* The images stand in a line: the one shown, those that will be shown and *)
(* the one acquired last.  The frames that run are for the last images of  *)
(* the line, and each of them waits with the semaphore of the image before *)
(* its own, whatever images the engine chooses to hand out.                *)
(***************************************************************************)
EXTENDS RenderPasses, Presentation, DataLemmas, SequenceTheorems

\* An image is in the hands of the application; a frame is not submitted yet.
IsOut == phase \in {"prepared", "recorded", "submitted"}
IsOpen == phase \in {"prepared", "recorded"}
Out == IF IsOut THEN 1 ELSE 0
Open == IF IsOpen THEN 1 ELSE 0
Seen == IF shown # NoImage THEN 1 ELSE 0

\* How long the line is without and with the image shown, and the image that
\* is d places before its end.
Due == Len(queued) + Out
Width == Due + Seen
Past(d) ==
    IF d < Out THEN rendered
    ELSE IF d < Due THEN queued[Due - d]
    ELSE shown

Passes == [chain : 1..MaxChain, views : 1..MaxChain, images : Counts, extent : Extent,
           batch : 1..MaxWindowBatch + MaxChain]

LineTypes ==
    /\ count \in Counts /\ index \in Nat
    /\ chain \in 1..MaxChain /\ views \in 1..chain /\ extent \in Extent /\ window \in Extent
    /\ prepared \in Image \cup {NoImage} /\ rendered \in 0..MaxImages - 1 \cup {NoImage}
    /\ prepare \in [Image -> {"idle", "signalled", "waited"}]
    /\ wait \in [Image -> {"idle", "due", "signalled"}]
    /\ pass \in Passes
    /\ phase \in {"idle", "failed", "prepared", "recorded", "submitted"}
    /\ frame \in Frame \cup {NoImage} /\ running \in Seq(Frame)
    /\ ready \subseteq Image /\ queued \in Seq(Image) /\ shown \in Image \cup {NoImage}
    /\ left \subseteq Image /\ loose \subseteq Image

\* What the phases of the frame loop mean.
PhaseInv ==
    /\ phase # "failed" => index < count
    /\ phase \in {"idle", "failed"} => prepared = NoImage
    /\ IsOut => rendered \in Image /\ rendered = index /\ prepared \in Image
    /\ phase = "recorded" =>
          /\ frame \in Frame /\ frame.image = rendered /\ frame.signals = rendered
          /\ frame.waits = prepared /\ frame.keeps = frame.batch
          /\ frame.chain = pass.chain /\ frame.extent = pass.extent /\ frame.batch = pass.batch
          /\ pass.views = views

\* An image has one place in the line, or the engine can hand it out.
LineInv ==
    /\ \A d, e \in 0..Width - 1 : Past(d) = Past(e) => d = e
    /\ \A d \in 0..Width - 1 : Past(d) \in Image /\ Past(d) \notin ready
    /\ phase = "idle" => IF Width > 0 THEN index = Past(0) ELSE index \in loose

\* Frame f, the k-th that runs, is for the image d places before the end and
\* waits with the semaphore of the image before it; only the oldest frame may
\* wait with a loose one.
Follows(s, d) == d < Width /\ s = Past(d)

InPlace(f, k, d) ==
    /\ f.signals = Past(d)
    /\ Follows(f.waits, d + 1) \/ (k = 1 /\ f.waits \in loose)
    /\ f.keeps = f.batch

Place(k, d) == d = Len(running) - k + Open

\* The frames that run are for the last images of the line.
RunningInv ==
    /\ Len(running) + Open <= MaxRunning
    /\ Len(running) + Open <= Due
    /\ \A k \in 1..Len(running), d \in Nat : Place(k, d) => InPlace(running[k], k, d)
    /\ IsOpen => Follows(prepared, 1) \/ (running = <<>> /\ prepared \in loose)

\* Who is behind each semaphore that is not idle.
SemaphoresInv ==
    /\ \A i \in Image : prepare[i] # "idle" =>
          \/ i \in left \/ (IsOpen /\ i = prepared)
          \/ \E k \in 1..Len(running) : running[k].waits = i
    /\ \A i \in Image : wait[i] # "idle" =>
          \/ phase = "submitted" /\ i = rendered
          \/ \E j \in 1..Len(queued) : queued[j] = i
    /\ \A k \in 1..Len(running) : wait[running[k].signals] = "due"

\* The framebuffers are those of a swapchain that was there, of the present
\* one if its handles are new and the pass has them.
ViewsInv ==
    /\ pass.views <= pass.chain /\ pass.chain <= chain
    /\ pass.batch <= MaxWindowBatch + pass.chain
    /\ pass.chain = chain => pass.views = views
    /\ pass.views = views => pass.images = count
    /\ (pass.chain = chain /\ pass.batch > 1) => pass.extent = extent

LoopInv == LineTypes /\ PhaseInv /\ LineInv /\ RunningInv /\ SemaphoresInv /\ ViewsInv

-----------------------------------------------------------------------------

\* MaxImages is the largest number of images.
LEMMA MaxImagesIsLargest == MaxImages \in Counts /\ \A k \in Counts : k <= MaxImages
  BY CountsAssumption, Zenon DEF MaxImages

\* Numbers of images are positive.
LEMMA CountFacts ==
    ASSUME LoopInv
    PROVE  /\ count \in Nat \ {0} /\ count <= MaxImages /\ MaxImages \in Nat
           /\ MaxRunning \in Nat \ {0} /\ NoImage \notin Nat
           /\ Image \subseteq 0..MaxImages - 1
<1>1. /\ count \in Nat \ {0} /\ count <= MaxImages /\ MaxImages \in Nat
      /\ MaxRunning \in Nat \ {0} /\ NoImage \notin Nat
  BY MaxImagesIsLargest, CountsAssumption DEF LoopInv, LineTypes
<1>. QED BY <1>1 DEF Image

\* How long the line is, and its places.
LEMMA LineFacts ==
    ASSUME LineTypes
    PROVE  /\ Out \in {0, 1} /\ Open \in {0, 1} /\ Open <= Out
           /\ Len(queued) \in Nat /\ Len(running) \in Nat /\ Due \in Nat /\ Width \in Nat
           /\ Due = Len(queued) + Out
           /\ Width = IF shown # NoImage THEN Due + 1 ELSE Due
<1>1. /\ Out \in {0, 1} /\ Open \in {0, 1} /\ Open <= Out
      /\ Seen = IF shown # NoImage THEN 1 ELSE 0
  BY DEF Out, Open, Seen, IsOut, IsOpen
<1>2. Len(queued) \in Nat /\ Len(running) \in Nat
  BY DEF LineTypes
<1>. QED BY <1>1, <1>2 DEF Due, Width

\* At first the line is empty.
LEMMA InitLoops == WindowInit => LoopInv
<1>. SUFFICES ASSUME WindowInit PROVE LoopInv
  OBVIOUS
<1>1. count \in Nat \ {0} /\ NoImage \notin Nat /\ MaxRunning \in Nat
  BY CountsAssumption DEF WindowInit
<1>2. LineTypes
  BY <1>1, ChainAssumption DEF WindowInit, LineTypes, Image, Passes
<1>3. PhaseInv
  BY <1>1 DEF WindowInit, PhaseInv, IsOut
<1>4. ~IsOut /\ ~IsOpen /\ Due = 0 /\ Width = 0 /\ Len(running) = 0 /\ Open = 0
  BY DEF WindowInit, IsOut, IsOpen, Due, Width, Out, Open, Seen
<1>5. LineInv
  BY <1>4 DEF WindowInit, LineInv
<1>6. RunningInv
  BY <1>1, <1>4 DEF RunningInv
<1>7. SemaphoresInv /\ ViewsInv
  BY <1>1, <1>4, ChainAssumption DEF WindowInit, SemaphoresInv, ViewsInv
<1>. QED BY <1>2, <1>3, <1>5, <1>6, <1>7 DEF LoopInv

\* The image acquired is the new end of the line, whichever it is (prepare).
LEMMA PrepareKeeps == LoopInv /\ Prepare => LoopInv'
<1>. SUFFICES ASSUME LoopInv, Prepare PROVE LoopInv'
  OBVIOUS
<1>. USE DEF LoopInv
<1>0. count \in Nat \ {0} /\ MaxRunning \in Nat /\ NoImage \notin Nat
      /\ Image \subseteq 0..MaxImages - 1
  BY CountFacts
<1>1. /\ phase = "idle" /\ Len(running) < MaxRunning
      /\ index' \in ready /\ ready' = ready \ {index'}
      /\ prepare' = [prepare EXCEPT ![index] = "signalled"]
      /\ prepared' = index /\ rendered' = index' /\ phase' = "prepared"
      /\ chain' = chain /\ views' = views /\ count' = count /\ extent' = extent /\ wait' = wait
      /\ queued' = queued /\ shown' = shown /\ window' = window /\ pass' = pass
      /\ frame' = frame /\ running' = running /\ left' = left /\ loose' = loose
  BY DEF Prepare, PrepareWith, MayPrepare, Acquire
<1>2. Image' = Image /\ index \in Image /\ index' \in Image /\ Image \subseteq Nat
  BY <1>0, <1>1 DEF Image, LineTypes, PhaseInv
<1>3. ~IsOut /\ ~IsOpen /\ IsOut' /\ IsOpen' /\ Out = 0 /\ Open = 0
      /\ Out' = 1 /\ Open' = 1
  BY <1>1 DEF IsOut, IsOpen, Out, Open, Seen
<1>4. LineTypes'
  BY <1>0, <1>1, <1>2 DEF LineTypes
<1>5. /\ Due \in Nat /\ Width \in Nat /\ Due' = Due + 1 /\ Width' = Width + 1 /\ Due <= Width
      /\ Len(running) \in Nat
  <2>1. /\ Due \in Nat /\ Width \in Nat /\ Len(running) \in Nat /\ Len(queued) \in Nat
        /\ Due = Len(queued) /\ Due <= Width /\ Width = Due + Seen
    BY <1>3, LineFacts DEF Width
  <2>2. Due' = Due + 1
    BY <1>1, <1>3, <2>1 DEF Due
  <2>3. Width' = Due' + Seen
    BY <1>1 DEF Width, Out, Open, Seen
  <2>4. Seen \in {0, 1}
    BY DEF Out, Open, Seen
  <2>. QED BY <2>1, <2>2, <2>3, <2>4
<1>6. /\ Past(0)' = index' /\ \A d \in 0..Width - 1 : Past(d + 1)' = Past(d)
  <2>0. \A d \in Nat : Past(d)' = IF d < 1 THEN index' ELSE IF d < Due + 1 THEN queued[Due + 1 - d] ELSE shown
    <3>1. /\ rendered' = index' /\ queued' = queued /\ shown' = shown
          /\ Due' = Due + 1 /\ Out' = 1 /\ Due \in Nat
      BY <1>1, <1>3, <1>5
    <3>. QED BY <3>1 DEF Past
  <2>1. Past(0)' = index'
    BY <2>0
  <2>2. ASSUME NEW d \in 0..Width - 1 PROVE Past(d + 1)' = Past(d)
    <3>1. d \in Nat /\ d + 1 \in Nat /\ ~(d < 0) /\ ~(d + 1 < 1) /\ (d + 1 < Due + 1 <=> d < Due)
          /\ Due + 1 - (d + 1) = Due - d
      BY <1>5
    <3>2. Past(d) = IF d < Due THEN queued[Due - d] ELSE shown
      BY <1>3, <3>1 DEF Past
    <3>3. Past(d + 1)' = IF d + 1 < Due + 1 THEN queued[Due + 1 - (d + 1)] ELSE shown
      BY <2>0, <3>1
    <3>. QED BY <3>1, <3>2, <3>3
  <2>. QED BY <2>1, <2>2
<1>7. PhaseInv'
  BY <1>0, <1>1, <1>2, <1>3 DEF PhaseInv, Image
<1>8. LineInv'
  <2>1. \A d \in 0..Width' - 1 : d = 0 \/ (d - 1 \in 0..Width - 1 /\ Past(d)' = Past(d - 1))
    <3>. SUFFICES ASSUME NEW d \in 0..Width' - 1, d # 0
                  PROVE  d - 1 \in 0..Width - 1 /\ Past(d)' = Past(d - 1)
      OBVIOUS
    <3>1. d - 1 \in 0..Width - 1 /\ d - 1 + 1 = d
      BY <1>5
    <3>2. Past(d - 1 + 1)' = Past(d - 1)
      BY <1>6, <3>1
    <3>. QED BY <3>1, <3>2
  <2>2. \A d \in 0..Width' - 1 : Past(d)' \in Image /\ Past(d)' \notin ready'
    BY <1>1, <1>2, <1>6, <2>1 DEF LineInv
  <2>3. \A d \in 0..Width - 1 : Past(d) # index'
    BY <1>1 DEF LineInv
  <2>4. ASSUME NEW d \in 0..Width' - 1, NEW e \in 0..Width' - 1, Past(d)' = Past(e)'
        PROVE  d = e
    <3>1. CASE d = 0 \/ e = 0
      BY <1>6, <2>1, <2>3, <2>4, <3>1
    <3>2. CASE d # 0 /\ e # 0
      <4>1. d - 1 = e - 1
        BY <2>1, <2>4, <3>2 DEF LineInv
      <4>. QED BY <1>5, <4>1
    <3>. QED BY <3>1, <3>2
  <2>. QED BY <1>1, <1>2, <2>2, <2>4 DEF LineInv
<1>9. RunningInv'
  <2>1. Follows(prepared, 1)' \/ (running' = <<>> /\ prepared' \in loose')
    <3>1. CASE Width > 0
      <4>1. 0 \in 0..Width - 1 /\ 1 < Width' /\ 0 + 1 = 1
        BY <1>5, <3>1
      <4>2. Past(0 + 1)' = Past(0)
        BY <1>6, <4>1
      <4>3. Past(1)' = Past(0)
        BY <4>1, <4>2
      <4>. QED BY <1>1, <3>1, <4>1, <4>3 DEF Follows, LineInv
    <3>2. CASE ~(Width > 0)
      <4>1. Len(running) = 0
        BY <1>3, <1>5, <3>2 DEF RunningInv
      <4>. QED BY <1>1, <1>5, <3>2, <4>1 DEF LineInv, LineTypes
    <3>. QED BY <3>1, <3>2
  <2>2. ASSUME NEW k \in 1..Len(running), NEW e \in Nat, Place(k, e)'
        PROVE  InPlace(running[k], k, e)'
    <3>1. e = Len(running) - k + 1
      BY <1>1, <1>3, <2>2 DEF Place
    <3>. PICK d \in Nat : e = d + 1 /\ d = Len(running) - k
      <4>1. e - 1 \in Nat /\ e = e - 1 + 1 /\ e - 1 = Len(running) - k
        BY <1>5, <3>1
      <4>. QED BY <4>1
    <3>2. Place(k, d) /\ d \in 0..Width - 1
      BY <1>3, <1>5 DEF RunningInv, Place
    <3>3. InPlace(running[k], k, d)
      BY <3>2 DEF RunningInv
    <3>4. Past(d + 1)' = Past(d)
      BY <1>6, <3>2
    <3>5. ASSUME Follows(running[k].waits, d + 1)
          PROVE  d + 1 + 1 < Width' /\ running[k].waits = Past(d + 1 + 1)'
      <4>1. d + 1 \in 0..Width - 1 /\ d + 1 + 1 < Width' /\ running[k].waits = Past(d + 1)
        BY <1>5, <3>2, <3>5 DEF Follows
      <4>2. Past(d + 1 + 1)' = Past(d + 1)
        BY <1>6, <4>1
      <4>. QED BY <4>1, <4>2
    <3>. QED BY <1>1, <3>3, <3>4, <3>5 DEF InPlace, Follows
  <2>3. /\ Len(running') + Open' <= MaxRunning /\ Len(running') + Open' <= Due'
    BY <1>0, <1>1, <1>3, <1>5 DEF RunningInv
  <2>. QED BY <1>1, <2>1, <2>2, <2>3 DEF RunningInv
<1>10. SemaphoresInv'
  <2>1. \A i \in Image : prepare'[i] # "idle" => i = index \/ prepare[i] # "idle"
    BY <1>1 DEF LineTypes
  <2>2. \A k \in 1..Len(running') : wait'[running'[k].signals] = "due"
    BY <1>1 DEF SemaphoresInv
  <2>. QED BY <1>1, <1>2, <1>3, <2>1, <2>2 DEF SemaphoresInv
<1>11. ViewsInv'
  BY <1>1 DEF ViewsInv
<1>. QED BY <1>4, <1>7, <1>8, <1>9, <1>10, <1>11

\* The line and what runs stay as they are.
SameLine == Due' = Due /\ Width' = Width /\ \A d \in 0..Width - 1 : Past(d)' = Past(d)
SameRuns ==
    /\ running' = running /\ loose' = loose /\ prepared' = prepared
    /\ (IsOpen <=> IsOpen') /\ Open' = Open

\* Nothing happens to the images.
LEMMA LineKept ==
    ASSUME LineTypes, LineInv, SameLine, count' = count, phase' = phase, index' = index,
           ready' = ready, loose' = loose
    PROVE  LineInv'
<1>1. Image' = Image
  BY DEF Image
<1>2. Width \in Nat /\ (Width > 0 => Past(0)' = Past(0))
  BY LineFacts DEF SameLine
<1>. QED BY <1>1, <1>2 DEF LineInv, SameLine

\* What runs keeps its place while the line and the frames stay as they are.
LEMMA PlacesKept ==
    ASSUME LineTypes, RunningInv, SameLine, SameRuns
    PROVE  RunningInv'
<1>. USE DEF SameLine, SameRuns
<1>1. /\ Len(running) \in Nat /\ Open \in {0, 1} /\ Due \in Nat /\ Width \in Nat
      /\ Due <= Width /\ Len(running) + Open <= Due
  BY LineFacts DEF RunningInv
<1>2. ASSUME NEW s, NEW d \in Nat, Follows(s, d) PROVE d < Width' /\ s = Past(d)'
  BY <1>1, <1>2 DEF Follows
<1>3. ASSUME NEW k \in 1..Len(running), NEW d \in Nat, Place(k, d)'
      PROVE  InPlace(running[k], k, d)'
  <2>1. Place(k, d) /\ d \in 0..Width - 1 /\ d + 1 \in Nat
    BY <1>1, <1>3 DEF Place
  <2>2. InPlace(running[k], k, d)
    BY <2>1 DEF RunningInv
  <2>3. Follows(running[k].waits, d + 1) => d + 1 < Width' /\ running[k].waits = Past(d + 1)'
    BY <1>2, <2>1
  <2>. QED BY <2>1, <2>2, <2>3 DEF InPlace, Follows
<1>4. IsOpen => (1 < Width' /\ prepared = Past(1)') \/ (running = <<>> /\ prepared \in loose)
  BY <1>2 DEF RunningInv
<1>5. Len(running') + Open' <= MaxRunning /\ Len(running') + Open' <= Due'
  BY <1>1 DEF RunningInv
<1>. QED BY <1>3, <1>4, <1>5 DEF RunningInv, Follows

\* A prepare that fails, with or without an image, is followed by a new
\* swapchain only.
LEMMA PrepareFailsKeeps == LoopInv /\ (PrepareSuboptimal \/ PrepareOutOfDate) => LoopInv'
<1>. SUFFICES ASSUME LoopInv, PrepareSuboptimal \/ PrepareOutOfDate PROVE LoopInv'
  OBVIOUS
<1>. USE DEF LoopInv
<1>0. count \in Nat \ {0} /\ Image \subseteq 0..MaxImages - 1
  BY CountFacts
<1>1. /\ phase = "idle" /\ phase' = "failed"
      /\ chain' = chain /\ views' = views /\ count' = count /\ extent' = extent /\ wait' = wait
      /\ prepared' = prepared /\ rendered' = rendered
      /\ queued' = queued /\ shown' = shown /\ window' = window /\ pass' = pass
      /\ frame' = frame /\ running' = running /\ loose' = loose
  BY DEF PrepareSuboptimal, PrepareOutOfDate, MayPrepare, Acquire, surfaceVars, engineVars
<1>2. \/ index' = index /\ ready' = ready /\ prepare' = prepare /\ left' = left
      \/ /\ index' \in ready /\ ready' = ready \ {index'}
         /\ prepare' = [prepare EXCEPT ![index] = "signalled"] /\ left' = left \cup {index}
  BY DEF PrepareSuboptimal, PrepareOutOfDate, Acquire, surfaceVars, engineVars
<1>3. Image' = Image /\ index \in Image
  BY <1>0, <1>1 DEF Image, LineTypes, PhaseInv
<1>4. ~IsOut /\ ~IsOpen /\ ~IsOut' /\ ~IsOpen' /\ SameLine /\ SameRuns
  BY <1>1 DEF IsOut, IsOpen, Due, Width, Past, Out, Open, Seen, SameLine, SameRuns
<1>5. LineTypes'
  <2>1. index' \in Nat /\ ready' \subseteq Image /\ left' \subseteq Image
        /\ prepare' \in [Image -> {"idle", "signalled", "waited"}]
    <3>1. Image \subseteq Nat
      BY <1>0 DEF Image
    <3>. QED BY <1>2, <1>3, <3>1 DEF LineTypes
  <2>. QED BY <1>1, <1>3, <2>1 DEF LineTypes
<1>6. PhaseInv'
  BY <1>1, <1>3, <1>4 DEF PhaseInv
<1>7. LineInv'
  BY <1>1, <1>2, <1>3, <1>4 DEF LineInv, SameLine
<1>8. RunningInv'
  BY <1>4, PlacesKept
<1>9. SemaphoresInv'
  <2>1. \A i \in Image : prepare'[i] # "idle" => i \in left' \/ (prepare[i] # "idle" /\ i \notin left)
    BY <1>2, <1>3 DEF LineTypes
  <2>. QED BY <1>1, <1>3, <1>4, <2>1 DEF SemaphoresInv
<1>10. ViewsInv'
  BY <1>1 DEF ViewsInv
<1>. QED BY <1>5, <1>6, <1>7, <1>8, <1>9, <1>10

\* Framebuffers that are remade are those of the present swapchain.
LEMMA RemadeFacts ==
    ASSUME LoopInv
    PROVE  /\ Refreshed \in Passes /\ Refreshed.views = views
           /\ (pass.batch < MaxWindowBatch => Remade \in Passes)
           /\ Refreshed.views <= Refreshed.chain /\ Refreshed.chain <= chain
           /\ Refreshed.batch <= MaxWindowBatch + Refreshed.chain
           /\ Refreshed.images = count
           /\ (Refreshed.chain = chain /\ Refreshed.batch > 1) => Refreshed.extent = extent
  BY ChainAssumption DEF LoopInv, LineTypes, ViewsInv, Refreshed, Remade, Passes

\* The application resizes the pass, the window is resized.
LEMMA ResizeKeeps ==
    ASSUME LoopInv, Resize \/ \E e \in Extent : ResizeWindow(e)
    PROVE  LoopInv'
<1>. USE DEF LoopInv
<1>1. /\ phase' = phase /\ chain' = chain /\ views' = views /\ count' = count /\ extent' = extent
      /\ index' = index
      /\ prepared' = prepared /\ rendered' = rendered /\ prepare' = prepare /\ wait' = wait
      /\ ready' = ready /\ queued' = queued /\ shown' = shown
      /\ frame' = frame /\ running' = running /\ left' = left /\ loose' = loose
  BY DEF Resize, ResizeWindow, surfaceVars, engineVars
<1>2. /\ window' \in Extent
      /\ \/ pass' = pass
         \/ phase # "recorded" /\ pass.batch < MaxWindowBatch /\ pass' = Remade
  BY DEF Resize, ResizeWindow, LineTypes
<1>3. pass' \in Passes /\ ViewsInv'
  BY <1>1, <1>2, RemadeFacts, ChainAssumption DEF LineTypes, ViewsInv, Remade, Passes
<1>4. (IsOut <=> IsOut') /\ (IsOpen <=> IsOpen') /\ Image' = Image /\ SameLine /\ SameRuns
  BY <1>1 DEF IsOut, IsOpen, Due, Width, Past, Out, Open, Seen, Image, SameLine, SameRuns
<1>5. LineTypes'
  BY <1>1, <1>2, <1>3, <1>4 DEF LineTypes
<1>6. LineInv' /\ RunningInv'
  BY <1>1, <1>4, LineKept, PlacesKept
<1>7. PhaseInv'
  BY <1>1, <1>2, <1>4 DEF PhaseInv
<1>8. SemaphoresInv'
  BY <1>1, <1>4 DEF SemaphoresInv
<1>. QED BY <1>3, <1>5, <1>6, <1>7, <1>8

\* A frame is recorded with the framebuffers there are now (begin).
LEMMA BeginKeeps == LoopInv /\ Begin => LoopInv'
<1>. SUFFICES ASSUME LoopInv, Begin PROVE LoopInv'
  OBVIOUS
<1>. USE DEF LoopInv
<1>0. count \in Nat \ {0} /\ Image \subseteq 0..MaxImages - 1 /\ NoImage \notin Nat
  BY CountFacts
<1>1. /\ phase = "prepared" /\ phase' = "recorded"
      /\ pass' = Refreshed
      /\ frame' = [image |-> index, signals |-> rendered, waits |-> prepared, chain |-> pass'.chain,
                   extent |-> pass'.extent, batch |-> pass'.batch, keeps |-> Refreshed.batch]
      /\ chain' = chain /\ views' = views /\ count' = count /\ extent' = extent /\ index' = index
      /\ prepared' = prepared /\ rendered' = rendered /\ prepare' = prepare /\ wait' = wait
      /\ ready' = ready /\ queued' = queued /\ shown' = shown /\ window' = window
      /\ running' = running /\ left' = left /\ loose' = loose
  BY DEF Begin, Record, surfaceVars, engineVars
<1>2. IsOut /\ IsOpen /\ IsOut' /\ IsOpen' /\ Image' = Image
  BY <1>1 DEF IsOut, IsOpen, Image
<1>3. rendered = index /\ rendered \in Image /\ prepared \in Image
  BY <1>2 DEF PhaseInv
<1>4. pass' \in Passes /\ ViewsInv'
  BY <1>1, RemadeFacts DEF LineTypes, ViewsInv
<1>5. frame' \in Frame
  BY <1>0, <1>1, <1>3, <1>4 DEF Frame, Passes
<1>6. LineTypes'
  BY <1>1, <1>2, <1>4, <1>5 DEF LineTypes
<1>7. PhaseInv'
  BY <1>1, <1>2, <1>3, <1>5, RemadeFacts DEF PhaseInv
<1>8. SameLine /\ SameRuns
  BY <1>1, <1>2 DEF Due, Width, Past, Out, Open, Seen, SameLine, SameRuns
<1>9. LineInv'
  BY <1>1, <1>2, <1>8 DEF LineInv, SameLine
<1>10. RunningInv'
  BY <1>8, PlacesKept
<1>11. SemaphoresInv'
  BY <1>1, <1>2 DEF SemaphoresInv
<1>. QED BY <1>4, <1>6, <1>7, <1>9, <1>10, <1>11

\* The recorded frame goes to the device.
LEMMA SubmitKeeps == LoopInv /\ Submit => LoopInv'
<1>. SUFFICES ASSUME LoopInv, Submit PROVE LoopInv'
  OBVIOUS
<1>. USE DEF LoopInv
<1>0. count \in Nat \ {0} /\ NoImage \notin Nat /\ MaxRunning \in Nat
  BY CountFacts
<1>1. /\ phase = "recorded" /\ phase' = "submitted" /\ running' = Append(running, frame)
      /\ prepare' = [prepare EXCEPT ![prepared] = "waited"]
      /\ wait' = [wait EXCEPT ![rendered] = "due"]
      /\ chain' = chain /\ views' = views /\ count' = count /\ extent' = extent /\ index' = index
      /\ prepared' = prepared /\ rendered' = rendered
      /\ ready' = ready /\ queued' = queued /\ shown' = shown /\ window' = window
      /\ pass' = pass /\ frame' = frame /\ left' = left /\ loose' = loose
  BY DEF Submit, engineVars
<1>2. /\ IsOut /\ IsOpen /\ IsOut' /\ ~IsOpen' /\ Image' = Image
      /\ Open = 1 /\ Out = 1 /\ Open' = 0 /\ Out' = 1
  BY <1>1 DEF IsOut, IsOpen, Image, Out, Open, Seen
<1>3. /\ rendered = index /\ prepared \in Image /\ rendered \in Image
      /\ frame \in Frame /\ frame.signals = rendered /\ frame.waits = prepared /\ frame.keeps = frame.batch
  BY <1>1, <1>2 DEF PhaseInv
<1>4. /\ Len(running) \in Nat /\ Len(running') = Len(running) + 1
      /\ running' \in Seq(Frame)
      /\ \A k \in 1..Len(running) : running'[k] = running[k]
      /\ running'[Len(running) + 1] = frame
  BY <1>1, <1>3 DEF LineTypes
<1>5. LineTypes'
  BY <1>1, <1>2, <1>3, <1>4 DEF LineTypes
<1>6. PhaseInv'
  BY <1>1, <1>2, <1>3 DEF PhaseInv
<1>7. SameLine
  BY <1>1, <1>2 DEF Due, Width, Past, Out, Open, Seen, SameLine
<1>8. LineInv'
  BY <1>1, <1>2, <1>7 DEF LineInv, SameLine
<1>9. Due \in Nat /\ Width \in Nat /\ Due <= Width /\ Len(running) + 1 <= Due /\ Past(0) = rendered
  <2>1. Due \in Nat /\ Width \in Nat /\ Due <= Width
    BY LineFacts
  <2>2. Len(running) + 1 <= Due
    BY <1>2 DEF RunningInv
  <2>3. Past(0) = rendered
    BY <1>2 DEF Past
  <2>. QED BY <2>1, <2>2, <2>3
<1>10. RunningInv'
  <2>1. ASSUME NEW k \in 1..Len(running) + 1, NEW d \in Nat, Place(k, d)'
        PROVE  InPlace(running[k], k, d)'
    <3>1. d = Len(running) + 1 - k
      BY <1>2, <1>4, <2>1 DEF Place
    <3>2. d \in 0..Width - 1 /\ Past(d)' = Past(d)
      BY <1>4, <1>7, <1>9, <3>1 DEF SameLine
    <3>3. ASSUME NEW s, Follows(s, d + 1) PROVE d + 1 < Width' /\ s = Past(d + 1)'
      <4>1. d + 1 \in 0..Width - 1 /\ d + 1 < Width /\ s = Past(d + 1)
        BY <1>9, <3>2, <3>3 DEF Follows
      <4>. QED BY <1>7, <4>1 DEF SameLine
    <3>4. InPlace(running'[k], k, d)
      <4>1. CASE k = Len(running) + 1
        <5>1. d = 0 /\ d + 1 = 1 /\ running'[k] = frame /\ (running = <<>> => k = 1)
          BY <1>4, <3>1, <4>1
        <5>2. Follows(prepared, d + 1) \/ (k = 1 /\ prepared \in loose)
          BY <1>2, <5>1 DEF RunningInv
        <5>. QED BY <1>3, <1>9, <5>1, <5>2 DEF InPlace
      <4>2. CASE k \in 1..Len(running)
        <5>1. Place(k, d) /\ running'[k] = running[k]
          BY <1>2, <1>4, <3>1, <4>2 DEF Place
        <5>. QED BY <4>2, <5>1 DEF RunningInv
      <4>. QED BY <1>4, <4>1, <4>2
    <3>. QED BY <1>1, <3>2, <3>3, <3>4 DEF InPlace, Follows
  <2>2. Len(running') + Open' <= MaxRunning /\ Len(running') + Open' <= Due'
    <3>1. Len(running') + Open' = Len(running) + Open /\ Due' = Due
      BY <1>2, <1>4, <1>7 DEF SameLine
    <3>. QED BY <3>1 DEF RunningInv
  <2>. QED BY <1>2, <1>4, <2>1, <2>2 DEF RunningInv
<1>11. SemaphoresInv'
  <2>1. \A i \in Image : prepare'[i] # "idle" =>
            i \in left \/ \E k \in 1..Len(running') : running'[k].waits = i
    <3>. SUFFICES ASSUME NEW i \in Image, prepare'[i] # "idle", i \notin left
                  PROVE  \E k \in 1..Len(running') : running'[k].waits = i
      OBVIOUS
    <3>1. CASE i = prepared
      BY <1>3, <1>4, <3>1
    <3>2. CASE i # prepared
      <4>1. prepare[i] # "idle"
        BY <1>1, <3>2 DEF LineTypes
      <4>2. PICK k \in 1..Len(running) : running[k].waits = i
        BY <3>2, <4>1 DEF SemaphoresInv
      <4>. QED BY <1>4, <4>2
    <3>. QED BY <3>1, <3>2
  <2>2. \A i \in Image : wait'[i] # "idle" => i = rendered \/ \E j \in 1..Len(queued) : queued[j] = i
    BY <1>1 DEF LineTypes, SemaphoresInv
  <2>3. \A k \in 1..Len(running') : wait'[running'[k].signals] = "due"
    <3>1. wait'[rendered] = "due"
      BY <1>1, <1>3 DEF LineTypes
    <3>2. ASSUME NEW k \in 1..Len(running) PROVE wait'[running[k].signals] = "due"
      <4>1. Len(running) - k + 1 \in 0..Width - 1 /\ 0 \in 0..Width - 1 /\ Len(running) - k + 1 # 0
        BY <1>4, <1>9
      <4>2. running[k].signals = Past(Len(running) - k + 1)
        <5>1. Len(running) - k + 1 \in Nat /\ Place(k, Len(running) - k + 1)
          BY <1>2, <1>4 DEF Place
        <5>. QED BY <5>1 DEF RunningInv, InPlace
      <4>3. running[k].signals # rendered /\ running[k].signals \in Image
        BY <1>9, <4>1, <4>2 DEF LineInv
      <4>. QED BY <1>1, <4>3 DEF SemaphoresInv, LineTypes
    <3>. QED BY <1>3, <1>4, <3>1, <3>2
  <2>. QED BY <1>1, <1>2, <2>1, <2>2, <2>3 DEF SemaphoresInv
<1>12. ViewsInv'
  BY <1>1 DEF ViewsInv
<1>. QED BY <1>5, <1>6, <1>8, <1>10, <1>11, <1>12

\* The image goes to the engine, and the next frame may be prepared.
LEMMA PresentKeeps == LoopInv /\ Present => LoopInv'
<1>. SUFFICES ASSUME LoopInv, Present PROVE LoopInv'
  OBVIOUS
<1>. USE DEF LoopInv
<1>0. count \in Nat \ {0} /\ NoImage \notin Nat
  BY CountFacts
<1>1. /\ phase = "submitted" /\ phase' = "idle" /\ prepared' = NoImage
      /\ queued' = Append(queued, index)
      /\ chain' = chain /\ views' = views /\ count' = count /\ extent' = extent /\ index' = index
      /\ rendered' = rendered /\ prepare' = prepare /\ wait' = wait
      /\ ready' = ready /\ shown' = shown /\ window' = window
      /\ pass' = pass /\ frame' = frame /\ running' = running /\ left' = left /\ loose' = loose
  BY DEF Present
<1>2. /\ IsOut /\ ~IsOpen /\ ~IsOut' /\ ~IsOpen' /\ Image' = Image
      /\ Out = 1 /\ Out' = 0 /\ Open = 0 /\ Open' = 0 /\ Seen' = Seen
  BY <1>1 DEF IsOut, IsOpen, Image, Out, Open, Seen
<1>3. rendered = index /\ rendered \in 0..count - 1 /\ rendered \in Image
  BY <1>0, <1>1, <1>2 DEF PhaseInv, Image
<1>4. /\ Len(queued) \in Nat /\ Len(queued') = Len(queued) + 1 /\ queued' \in Seq(Image)
      /\ \A j \in 1..Len(queued) : queued'[j] = queued[j]
      /\ queued'[Len(queued) + 1] = index
  BY <1>1, <1>3 DEF LineTypes
<1>5. LineTypes'
  BY <1>1, <1>2, <1>4 DEF LineTypes
<1>6. PhaseInv'
  BY <1>0, <1>1, <1>2, <1>3 DEF PhaseInv, Image
<1>7. /\ Due = Len(queued) + 1 /\ Due' = Due /\ Width' = Width /\ Width \in Nat /\ Due <= Width
  <2>1. Due = Len(queued) + 1 /\ Due' = Len(queued) + 1
    BY <1>2, <1>4 DEF Due
  <2>. QED BY <1>2, <1>4, <2>1, LineFacts DEF Width
<1>8. SameLine
  <2>1. ASSUME NEW d \in 0..Width - 1 PROVE Past(d)' = Past(d)
    <3>1. Past(d)' = IF d < Due THEN queued'[Due - d] ELSE shown
      <4>1. ~(d < 0)
        BY <1>7
      <4>. QED BY <1>1, <1>2, <1>7, <4>1 DEF Past
    <3>2. CASE d = 0
      BY <1>2, <1>3, <1>4, <1>7, <3>1, <3>2 DEF Past
    <3>3. CASE d # 0
      <4>1. Past(d) = IF d < Due THEN queued[Due - d] ELSE shown
        BY <1>2, <3>3 DEF Past
      <4>2. d < Due => Due - d \in 1..Len(queued)
        BY <1>4, <1>7, <3>3
      <4>. QED BY <1>4, <3>1, <4>1, <4>2
    <3>. QED BY <3>2, <3>3
  <2>. QED BY <1>7, <2>1 DEF SameLine
<1>9. LineInv'
  <2>1. 0 \in 0..Width - 1 /\ Past(0) = rendered /\ Past(0)' = Past(0)
    BY <1>2, <1>4, <1>7, <1>8 DEF Past, SameLine
  <2>. QED BY <1>1, <1>2, <1>3, <1>7, <1>8, <2>1 DEF LineInv, SameLine
<1>10. RunningInv'
  <2>1. \A k \in 1..Len(running), d \in Nat : Place(k, d)' => InPlace(running[k], k, d)'
    <3>. SUFFICES ASSUME NEW k \in 1..Len(running), NEW d \in Nat, Place(k, d)'
                  PROVE  InPlace(running[k], k, d)'
      OBVIOUS
    <3>1. Place(k, d) /\ d \in 0..Width - 1
      BY <1>1, <1>2, <1>7, <1>5, LineFacts DEF Place, RunningInv
    <3>2. InPlace(running[k], k, d)
      BY <3>1 DEF RunningInv
    <3>3. Follows(running[k].waits, d + 1) => d + 1 < Width' /\ running[k].waits = Past(d + 1)'
      BY <1>7, <1>8, <3>1 DEF Follows, SameLine
    <3>4. Past(d)' = Past(d)
      BY <1>8, <3>1 DEF SameLine
    <3>. QED BY <1>1, <3>2, <3>3, <3>4 DEF InPlace, Follows
  <2>2. Len(running') + Open' <= MaxRunning /\ Len(running') + Open' <= Due'
    BY <1>1, <1>2, <1>7 DEF RunningInv
  <2>. QED BY <1>1, <1>2, <2>1, <2>2 DEF RunningInv
<1>11. SemaphoresInv'
  <2>1. \A i \in Image : wait[i] # "idle" => \E j \in 1..Len(queued') : queued'[j] = i
    <3>. SUFFICES ASSUME NEW i \in Image, wait[i] # "idle"
                  PROVE  \E j \in 1..Len(queued') : queued'[j] = i
      OBVIOUS
    <3>1. CASE i = index
      BY <1>4, <3>1
    <3>2. CASE i # index
      <4>1. PICK j \in 1..Len(queued) : queued[j] = i
        BY <1>3, <3>2 DEF SemaphoresInv
      <4>. QED BY <1>4, <4>1
    <3>. QED BY <3>1, <3>2
  <2>. QED BY <1>1, <1>2, <2>1 DEF SemaphoresInv
<1>12. ViewsInv'
  BY <1>1 DEF ViewsInv
<1>. QED BY <1>5, <1>6, <1>9, <1>10, <1>11, <1>12

\* The oldest frame is done: its semaphore is free, its image can be shown.
LEMMA FrameDoneKeeps == LoopInv /\ FrameDone => LoopInv'
<1>. SUFFICES ASSUME LoopInv, FrameDone PROVE LoopInv'
  OBVIOUS
<1>. USE DEF LoopInv
<1>. DEFINE done == running[1]
<1>1. /\ running # <<>> /\ running' = Tail(running)
      /\ prepare' = [prepare EXCEPT ![Head(running).waits] = "idle"]
      /\ wait' = [wait EXCEPT ![Head(running).signals] = "signalled"]
      /\ loose' = loose \ {Head(running).waits}
      /\ phase' = phase /\ chain' = chain /\ views' = views /\ count' = count /\ extent' = extent
      /\ index' = index /\ prepared' = prepared /\ rendered' = rendered
      /\ ready' = ready /\ queued' = queued /\ shown' = shown /\ window' = window
      /\ pass' = pass /\ frame' = frame /\ left' = left
  BY DEF FrameDone, engineVars
<1>2. /\ Len(running) \in Nat \ {0} /\ Head(running) = done
      /\ Len(running') = Len(running) - 1 /\ running' \in Seq(Frame)
      /\ \A k \in 1..Len(running') : running'[k] = running[k + 1]
  BY <1>1 DEF LineTypes
<1>3. /\ (IsOut' <=> IsOut) /\ (IsOpen' <=> IsOpen) /\ Image' = Image
      /\ Open' = Open /\ Open \in {0, 1} /\ SameLine
  BY <1>1 DEF IsOut, IsOpen, Image, Out, Open, Seen, SameLine, Due, Width, Past
<1>4. /\ Due \in Nat /\ Width \in Nat /\ Due <= Width /\ Len(running) + Open <= Due
  BY LineFacts DEF RunningInv
<1>5. LineTypes'
  BY <1>1, <1>2, <1>3 DEF LineTypes
<1>6. PhaseInv'
  BY <1>1, <1>3 DEF PhaseInv
<1>7. LineInv'
  <2>1. phase = "idle" => IF Width > 0 THEN index = Past(0)' ELSE index \in loose'
    BY <1>2, <1>3, <1>4 DEF LineInv, SameLine
  <2>. QED BY <1>1, <1>3, <2>1 DEF LineInv, SameLine
<1>8. ASSUME NEW k \in 1..Len(running), k # 1, NEW d \in Nat, Place(k, d)
      PROVE  /\ running[k].signals = Past(d) /\ d \in 0..Due - 1
             /\ Follows(running[k].waits, d + 1) /\ running[k].keeps = running[k].batch
  <2>1. d \in 0..Due - 1 /\ d + 1 \in 0..Due - 1
    BY <1>2, <1>3, <1>4, <1>8 DEF Place
  <2>. QED BY <1>8, <2>1 DEF RunningInv, InPlace
<1>9. RunningInv'
  <2>1. ASSUME NEW k \in 1..Len(running'), NEW d \in Nat, Place(k, d)'
        PROVE  InPlace(running[k], k, d)'
    <3>1. k + 1 \in 1..Len(running) /\ k + 1 # 1 /\ running'[k] = running[k + 1]
      BY <1>2
    <3>2. Place(k + 1, d)
      <4>1. d = Len(running) - 1 - k + Open
        BY <1>2, <1>3, <2>1 DEF Place
      <4>. QED BY <1>2, <1>3, <4>1 DEF Place
    <3>3. /\ running[k + 1].signals = Past(d) /\ d \in 0..Due - 1
          /\ Follows(running[k + 1].waits, d + 1) /\ running[k + 1].keeps = running[k + 1].batch
      BY <1>8, <3>1, <3>2
    <3>4. d + 1 < Width' /\ running[k + 1].waits = Past(d + 1)' /\ Past(d)' = Past(d)
      BY <1>3, <1>4, <3>3 DEF Follows, SameLine
    <3>. QED BY <3>1, <3>3, <3>4 DEF InPlace, Follows
  <2>2. IsOpen => Follows(prepared, 1)'
    <3>. SUFFICES ASSUME IsOpen PROVE 1 < Width' /\ prepared = Past(1)'
      BY <1>1 DEF Follows
    <3>1. Follows(prepared, 1)
      BY <1>1 DEF RunningInv
    <3>. QED BY <1>3, <1>4, <3>1 DEF Follows, SameLine
  <2>3. Len(running') + Open' <= MaxRunning /\ Len(running') + Open' <= Due'
    <3>1. Len(running) + Open <= MaxRunning /\ Due' = Due /\ MaxRunning \in Nat
      BY <1>3, CountFacts DEF RunningInv, SameLine
    <3>. QED BY <1>2, <1>3, <1>4, <3>1
  <2>. QED BY <1>3, <2>1, <2>2, <2>3 DEF RunningInv
<1>10. SemaphoresInv'
  <2>1. \A i \in Image : prepare'[i] # "idle" =>
            \/ i \in left \/ (IsOpen /\ i = prepared)
            \/ \E k \in 1..Len(running') : running'[k].waits = i
    <3>. SUFFICES ASSUME NEW i \in Image, prepare'[i] # "idle", i \notin left, ~(IsOpen /\ i = prepared)
                  PROVE  \E k \in 1..Len(running') : running'[k].waits = i
      OBVIOUS
    <3>1. prepare[i] # "idle" /\ i # done.waits
      BY <1>1, <1>2 DEF LineTypes
    <3>2. PICK k \in 1..Len(running) : running[k].waits = i
      BY <3>1 DEF SemaphoresInv
    <3>3. k # 1 /\ k - 1 \in 1..Len(running')
      BY <1>2, <3>1, <3>2
    <3>4. running'[k - 1] = running[k]
      <4>1. running'[k - 1] = running[k - 1 + 1] /\ k - 1 + 1 = k
        BY <1>2, <3>3
      <4>. QED BY <4>1
    <3>. QED BY <3>2, <3>3, <3>4
  <2>2. \A i \in Image : wait'[i] # "idle" => wait[i] # "idle"
    BY <1>1, <1>2 DEF LineTypes, SemaphoresInv
  <2>3. \A k \in 1..Len(running') : wait'[running'[k].signals] = "due"
    <3>. SUFFICES ASSUME NEW k \in 1..Len(running) - 1 PROVE wait'[running[k + 1].signals] = "due"
      BY <1>2
    <3>. DEFINE d == Len(running) - (k + 1) + Open
                e == Len(running) - 1 + Open
    <3>1. k + 1 \in 1..Len(running) /\ k + 1 # 1 /\ 1 \in 1..Len(running) /\ d \in Nat /\ e \in Nat /\ d # e
      BY <1>2, <1>3
    <3>2. running[k + 1].signals = Past(d) /\ d \in 0..Due - 1
      BY <1>8, <3>1 DEF Place
    <3>3. done.signals = Past(e)
      BY <3>1 DEF RunningInv, Place, InPlace
    <3>4. e \in 0..Width - 1 /\ d \in 0..Width - 1
      BY <1>2, <1>3, <1>4, <3>2
    <3>5. running[k + 1].signals # done.signals /\ running[k + 1].signals \in Image
      BY <3>1, <3>2, <3>3, <3>4 DEF LineInv
    <3>6. wait[running[k + 1].signals] = "due"
      BY <3>1 DEF SemaphoresInv
    <3>. QED BY <1>1, <1>2, <3>5, <3>6 DEF LineTypes
  <2>. QED BY <1>1, <1>3, <2>1, <2>2, <2>3 DEF SemaphoresInv
<1>11. ViewsInv'
  BY <1>1 DEF ViewsInv
<1>. QED BY <1>5, <1>6, <1>7, <1>9, <1>10, <1>11

\* What runs keeps its place also when the front of the line leaves it.
LEMMA FrontLeaves ==
    ASSUME LineTypes, RunningInv, SameRuns, Len(running) + Open < Due, Due' \in {Due - 1, Due},
           Width' \in Nat, Due <= Width', \A d \in 0..Due - 1 : Past(d)' = Past(d)
    PROVE  RunningInv'
<1>. USE DEF SameRuns
<1>1. /\ Len(running) \in Nat /\ Open \in {0, 1} /\ Due \in Nat
  BY LineFacts
<1>2. ASSUME NEW k \in 1..Len(running), NEW d \in Nat, Place(k, d)'
      PROVE  InPlace(running[k], k, d)'
  <2>1. Place(k, d) /\ d \in 0..Due - 1 /\ d + 1 \in 0..Due - 1 /\ d + 1 < Width'
    BY <1>1, <1>2 DEF Place
  <2>2. InPlace(running[k], k, d)
    BY <2>1 DEF RunningInv
  <2>. QED BY <2>1, <2>2 DEF InPlace, Follows
<1>3. IsOpen => (1 < Width' /\ prepared = Past(1)') \/ (running = <<>> /\ prepared \in loose)
  <2>. SUFFICES ASSUME IsOpen, Follows(prepared, 1) PROVE 1 < Width' /\ prepared = Past(1)'
    BY DEF RunningInv
  <2>1. Open = 1 /\ 1 \in 0..Due - 1
    BY <1>1 DEF Open
  <2>. QED BY <1>1, <2>1 DEF Follows
<1>4. Len(running') + Open' <= MaxRunning /\ Len(running') + Open' <= Due'
  BY <1>1 DEF RunningInv
<1>. QED BY <1>2, <1>3, <1>4 DEF RunningInv, Follows

\* The engine shows the oldest image and takes the one before it back.
LEMMA ShowKeeps == LoopInv /\ Show => LoopInv'
<1>. SUFFICES ASSUME LoopInv, Show PROVE LoopInv'
  OBVIOUS
<1>. USE DEF LoopInv
<1>0. count \in Nat \ {0} /\ NoImage \notin Nat
  BY CountFacts
<1>. DEFINE n == Len(queued)
            next == queued[1]
<1>1. /\ queued # <<>> /\ wait[Head(queued)] = "signalled"
      /\ wait' = [wait EXCEPT ![Head(queued)] = "idle"]
      /\ shown' = Head(queued) /\ queued' = Tail(queued)
      /\ ready' = ready \cup ({shown} \ {NoImage})
      /\ phase' = phase /\ chain' = chain /\ views' = views /\ count' = count /\ extent' = extent
      /\ index' = index /\ prepared' = prepared /\ rendered' = rendered /\ prepare' = prepare
      /\ window' = window /\ pass' = pass /\ frame' = frame /\ running' = running
      /\ left' = left /\ loose' = loose
  BY DEF Show
<1>2. /\ n \in Nat \ {0} /\ Head(queued) = next /\ next \in Image
      /\ Len(queued') = n - 1 /\ queued' \in Seq(Image)
      /\ \A j \in 1..n - 1 : queued'[j] = queued[j + 1]
  BY <1>1 DEF LineTypes
<1>3. /\ (IsOut' <=> IsOut) /\ (IsOpen' <=> IsOpen) /\ Image' = Image /\ SameRuns
      /\ Open' = Open /\ Open \in {0, 1} /\ Out' = Out /\ Out \in {0, 1}
  BY <1>1 DEF IsOut, IsOpen, Image, Out, Open, SameRuns
<1>4. shown' # NoImage /\ Seen' = 1
  BY <1>0, <1>1, <1>2 DEF Seen, Image
<1>5. /\ Due \in Nat /\ Width \in Nat /\ Due = n + Out /\ Due <= Width
      /\ (shown # NoImage => Width = Due + 1)
      /\ Due' = Due - 1 /\ Width' = Due
  <2>1. Due \in Nat /\ Width \in Nat /\ Due = n + Out /\ Due <= Width /\ (shown # NoImage => Width = Due + 1)
    BY LineFacts
  <2>2. Due' = Due - 1
    BY <1>2, <1>3, <2>1 DEF Due
  <2>3. Width' = Due
    BY <1>4, <2>1, <2>2 DEF Width
  <2>. QED BY <2>1, <2>2, <2>3
<1>6. ASSUME NEW d \in 0..Due - 1 PROVE Past(d)' = Past(d)
  <2>1. Past(d)' = IF d < Out THEN rendered ELSE IF d < Due - 1 THEN queued'[Due - 1 - d] ELSE next
    BY <1>1, <1>2, <1>3, <1>5 DEF Past
  <2>2. Past(d) = IF d < Out THEN rendered ELSE queued[Due - d]
    BY <1>5 DEF Past
  <2>3. CASE d < Out
    BY <2>1, <2>2, <2>3
  <2>4. CASE ~(d < Out) /\ d < Due - 1
    <3>1. Due - 1 - d \in 1..n - 1 /\ Due - 1 - d + 1 = Due - d
      BY <1>2, <1>3, <1>5, <2>4
    <3>2. queued'[Due - 1 - d] = queued[Due - d]
      <4>1. queued'[Due - 1 - d] = queued[Due - 1 - d + 1]
        BY <1>2, <3>1
      <4>. QED BY <3>1, <4>1
    <3>. QED BY <2>1, <2>2, <2>4, <3>2
  <2>5. CASE ~(d < Out) /\ ~(d < Due - 1)
    <3>1. Due - d = 1
      BY <1>5, <2>5
    <3>. QED BY <2>1, <2>2, <2>5, <3>1
  <2>. QED BY <2>3, <2>4, <2>5
<1>7. Due - 1 \in 0..Due - 1 /\ Past(Due - 1) = next
  <2>1. Due - 1 \in Nat /\ ~(Due - 1 < Out) /\ Due - 1 < Due /\ Due - (Due - 1) = 1
    BY <1>2, <1>3, <1>5
  <2>. QED BY <1>5, <2>1 DEF Past
<1>8. Len(running) + Open < Due
  <2>. SUFFICES ASSUME Len(running) + Open >= Due PROVE FALSE
    BY <1>3, <1>5, LineFacts
  <2>1. Len(running) \in Nat /\ Len(running) + Open = Due /\ Open <= Out
    BY <1>3, <1>5, LineFacts DEF RunningInv
  <2>2. 1 \in 1..Len(running) /\ Due - 1 \in Nat /\ Place(1, Due - 1)
    BY <1>2, <1>3, <1>5, <2>1 DEF Place
  <2>3. running[1].signals = next
    BY <1>7, <2>2 DEF RunningInv, InPlace
  <2>4. wait[next] = "due"
    BY <2>2, <2>3 DEF SemaphoresInv
  <2>. QED BY <1>1, <1>2, <2>4
<1>9. LineTypes'
  BY <1>1, <1>2, <1>3 DEF LineTypes
<1>10. PhaseInv'
  BY <1>1, <1>3 DEF PhaseInv
<1>11. LineInv'
  <2>1. \A d \in 0..Due - 1 : d \in 0..Width - 1
    BY <1>5
  <2>2. ASSUME NEW d \in 0..Due - 1 PROVE Past(d)' \in Image /\ Past(d)' \notin ready'
    <3>1. shown # NoImage => Past(d) # shown
      <4>. SUFFICES ASSUME shown # NoImage PROVE Past(d) # shown
        OBVIOUS
      <4>1. Due \in 0..Width - 1 /\ Past(Due) = shown
        <5>1. Due \in 0..Width - 1 /\ ~(Due < Out) /\ ~(Due < Due)
          BY <1>2, <1>3, <1>5
        <5>. QED BY <5>1 DEF Past
      <4>. QED BY <1>5, <2>1, <4>1 DEF LineInv
    <3>. QED BY <1>1, <1>6, <2>1, <3>1 DEF LineInv
  <2>3. \A d, e \in 0..Due - 1 : Past(d)' = Past(e)' => d = e
    BY <1>6, <2>1 DEF LineInv
  <2>4. phase' = "idle" => IF Width' > 0 THEN index' = Past(0)' ELSE index' \in loose'
    <3>1. 0 \in 0..Due - 1 /\ Width' > 0 /\ Width > 0
      BY <1>2, <1>3, <1>5
    <3>. QED BY <1>1, <1>6, <3>1 DEF LineInv
  <2>. QED BY <1>3, <1>5, <2>2, <2>3, <2>4 DEF LineInv
<1>12. RunningInv'
  <2>1. Width' \in Nat /\ Due <= Width' /\ Due' \in {Due - 1, Due}
    BY <1>5
  <2>. QED BY <1>3, <1>6, <1>8, <2>1, FrontLeaves
<1>13. SemaphoresInv'
  <2>1. \A i \in Image : wait'[i] # "idle" =>
          (phase = "submitted" /\ i = rendered) \/ \E j \in 1..n - 1 : queued'[j] = i
    <3>. SUFFICES ASSUME NEW i \in Image, wait'[i] # "idle", ~(phase = "submitted" /\ i = rendered)
                  PROVE  \E j \in 1..n - 1 : queued'[j] = i
      OBVIOUS
    <3>1. wait[i] # "idle" /\ i # next
      BY <1>1, <1>2 DEF LineTypes
    <3>2. PICK j \in 1..n : queued[j] = i
      BY <3>1 DEF SemaphoresInv
    <3>3. j # 1 /\ j - 1 \in 1..n - 1 /\ j - 1 + 1 = j
      BY <1>2, <3>1, <3>2
    <3>. QED BY <1>2, <3>2, <3>3
  <2>2. \A k \in 1..Len(running) : wait'[running[k].signals] = "due"
    BY <1>1, <1>2 DEF LineTypes, SemaphoresInv
  <2>. QED BY <1>1, <1>2, <1>3, <2>1, <2>2 DEF SemaphoresInv
<1>14. ViewsInv'
  BY <1>1 DEF ViewsInv
<1>. QED BY <1>9, <1>10, <1>11, <1>12, <1>13, <1>14

\* The engine gives the image it shows back early: it is loose then.
LEMMA GiveBackKeeps == LoopInv /\ GiveBack => LoopInv'
<1>. SUFFICES ASSUME LoopInv, GiveBack PROVE LoopInv'
  OBVIOUS
<1>. USE DEF LoopInv
<1>1. /\ shown # NoImage /\ shown' = NoImage
      /\ ready' = ready \cup {shown} /\ loose' = loose \cup {shown}
      /\ phase' = phase /\ chain' = chain /\ views' = views /\ count' = count /\ extent' = extent
      /\ index' = index /\ prepared' = prepared /\ rendered' = rendered /\ prepare' = prepare
      /\ wait' = wait /\ queued' = queued
      /\ window' = window /\ pass' = pass /\ frame' = frame /\ running' = running /\ left' = left
  BY DEF GiveBack, surfaceVars
<1>2. /\ (IsOut' <=> IsOut) /\ (IsOpen' <=> IsOpen) /\ Image' = Image
      /\ Open' = Open /\ Open \in {0, 1} /\ Out' = Out /\ Out \in {0, 1}
  BY <1>1 DEF IsOut, IsOpen, Image, Out, Open
<1>3. /\ Due \in Nat /\ Due' = Due /\ Width = Due + 1 /\ Width' = Due /\ Out <= Due
  <2>1. Due \in Nat /\ Width = Due + 1 /\ Out <= Due
    BY <1>1, <1>2, LineFacts
  <2>2. Due' = Due /\ Seen' = 0
    BY <1>1, <1>2 DEF Due, Seen
  <2>. QED BY <2>1, <2>2 DEF Width
<1>4. ASSUME NEW d \in 0..Due - 1 PROVE Past(d)' = Past(d)
  BY <1>1, <1>2, <1>3 DEF Past
<1>5. Due \in 0..Width - 1 /\ Past(Due) = shown
  <2>1. Due \in 0..Width - 1 /\ ~(Due < Out) /\ ~(Due < Due)
    BY <1>2, <1>3
  <2>. QED BY <2>1 DEF Past
<1>6. LineTypes'
  BY <1>1, <1>2 DEF LineTypes
<1>7. PhaseInv'
  BY <1>1, <1>2 DEF PhaseInv
<1>8. LineInv'
  <2>1. ASSUME NEW d \in 0..Due - 1
        PROVE  d \in 0..Width - 1 /\ d # Due /\ Past(d) # shown /\ Past(d) \in Image /\ Past(d) \notin ready
    <3>1. d \in 0..Width - 1 /\ d # Due
      BY <1>3
    <3>. QED BY <1>5, <3>1 DEF LineInv
  <2>2. \A d \in 0..Due - 1 : Past(d)' \in Image' /\ Past(d)' \notin ready'
    BY <1>1, <1>2, <1>4, <2>1
  <2>3. \A d, e \in 0..Due - 1 : Past(d)' = Past(e)' => d = e
    BY <1>4, <2>1 DEF LineInv
  <2>4. phase = "idle" => IF Due > 0 THEN index = Past(0)' ELSE index \in loose'
    <3>1. CASE Due > 0
      <4>1. 0 \in 0..Due - 1 /\ Width > 0
        BY <1>3, <3>1
      <4>. QED BY <1>4, <3>1, <4>1 DEF LineInv
    <3>2. CASE ~(Due > 0)
      <4>1. Due = 0 /\ Width > 0
        BY <1>3, <3>2
      <4>. QED BY <1>1, <1>5, <3>2, <4>1 DEF LineInv
    <3>. QED BY <3>1, <3>2
  <2>. QED BY <1>1, <1>3, <2>2, <2>3, <2>4 DEF LineInv
<1>9. RunningInv'
  <2>1. Len(running) \in Nat /\ Len(running) + Open <= Due
    BY LineFacts DEF RunningInv
  <2>2. ASSUME NEW s, NEW d \in Nat, d < Due, Follows(s, d) PROVE Follows(s, d)'
    BY <1>3, <1>4, <2>2 DEF Follows
  <2>3. ASSUME NEW s, Follows(s, Due) PROVE s \in loose'
    BY <1>1, <1>5, <2>3 DEF Follows
  <2>4. ASSUME NEW k \in 1..Len(running), NEW d \in Nat, Place(k, d)'
        PROVE  InPlace(running[k], k, d)'
    <3>1. Place(k, d) /\ d \in 0..Due - 1 /\ (d + 1 < Due \/ (d + 1 = Due /\ k = 1))
      BY <1>1, <1>2, <1>3, <2>1, <2>4 DEF Place
    <3>2. InPlace(running[k], k, d)
      BY <3>1 DEF RunningInv
    <3>3. CASE d + 1 < Due
      BY <1>1, <1>3, <1>4, <3>1, <3>2, <3>3 DEF InPlace, Follows
    <3>4. CASE d + 1 = Due /\ k = 1
      BY <1>1, <1>4, <2>3, <3>1, <3>2, <3>4 DEF InPlace
    <3>. QED BY <3>1, <3>3, <3>4
  <2>5. IsOpen => (1 < Width' /\ prepared = Past(1)') \/ (running = <<>> /\ prepared \in loose')
    <3>. SUFFICES ASSUME IsOpen, Follows(prepared, 1)
                  PROVE  (1 < Due /\ prepared = Past(1)') \/ (running = <<>> /\ prepared \in loose')
      BY <1>1, <1>3 DEF RunningInv
    <3>1. Open = 1
      BY DEF Open
    <3>2. CASE 1 < Due
      BY <1>3, <1>4, <3>2 DEF Follows
    <3>3. CASE ~(1 < Due)
      <4>1. Due = 1 /\ Len(running) = 0
        BY <1>3, <2>1, <3>1, <3>3
      <4>. QED BY <2>3, <4>1 DEF LineTypes
    <3>. QED BY <3>2, <3>3
  <2>6. Len(running') + Open' <= MaxRunning /\ Len(running') + Open' <= Due'
    BY <1>1, <1>2, <1>3 DEF RunningInv
  <2>. QED BY <1>1, <1>2, <2>4, <2>5, <2>6 DEF RunningInv, Follows
<1>10. SemaphoresInv'
  BY <1>1, <1>2 DEF SemaphoresInv
<1>11. ViewsInv'
  BY <1>1 DEF ViewsInv
<1>. QED BY <1>6, <1>7, <1>8, <1>9, <1>10, <1>11

\* A new swapchain starts a new line, with the semaphores nobody waits for.
LEMMA RecreateKeeps ==
    ASSUME LoopInv, NEW n \in Counts, Recreate(n)
    PROVE  LoopInv'
<1>. USE DEF LoopInv
<1>0. n \in Nat \ {0} /\ NoImage \notin Nat /\ count \in Nat \ {0} /\ n <= MaxImages /\ MaxRunning \in Nat
  BY CountFacts, CountsAssumption, MaxImagesIsLargest
<1>1. /\ phase \in {"idle", "failed"} /\ running = <<>> /\ queued = <<>>
      /\ chain < MaxChain /\ chain' = chain + 1 /\ views' \in Handles(n)
      /\ count' = n /\ extent' = window
      /\ prepare' = Resized(prepare, n) /\ wait' = Resized(wait, n)
      /\ index' = n - 1 /\ ready' = 0..n - 1 /\ shown' = NoImage
      /\ left' = left \cap 0..n - 1 /\ loose' = {n - 1} /\ phase' = "idle"
      /\ prepared' = prepared /\ rendered' = rendered /\ queued' = queued
      /\ window' = window /\ pass' = pass /\ frame' = frame /\ running' = running
  BY DEF Recreate, Rebuild, AtRest
<1>2. ~IsOut' /\ ~IsOpen' /\ ~IsOpen /\ Image' = 0..n - 1
  BY <1>1 DEF IsOut, IsOpen, Image
<1>3. Open' = 0 /\ Due' = 0 /\ Width' = 0 /\ Len(running') = 0
  BY <1>1, <1>2 DEF Open, Out, Seen, Due, Width
<1>4. /\ prepare' \in [0..n - 1 -> {"idle", "signalled", "waited"}]
      /\ wait' \in [0..n - 1 -> {"idle", "due", "signalled"}]
  BY <1>1 DEF LineTypes, Resized
<1>5. prepared = NoImage
  BY <1>1 DEF PhaseInv
<1>6. /\ views' = chain + 1 \/ (views' = pass.views /\ pass.images = n)
      /\ chain \in Nat /\ views' \in 1..chain' /\ chain' \in 1..MaxChain
      /\ pass.views \in Nat /\ pass.views <= chain
  BY <1>1, ChainAssumption DEF Handles, LineTypes, ViewsInv, Passes
<1>7. LineTypes'
  <2>1. /\ count' \in Counts /\ index' \in Nat /\ extent' \in Extent /\ window' \in Extent
    BY <1>0, <1>1 DEF LineTypes
  <2>2. /\ prepared' \in Image' \cup {NoImage} /\ left' \subseteq Image' /\ loose' \subseteq Image'
        /\ ready' \subseteq Image' /\ queued' \in Seq(Image') /\ shown' \in Image' \cup {NoImage}
    BY <1>0, <1>1, <1>2, <1>5
  <2>. QED BY <1>1, <1>2, <1>4, <1>6, <2>1, <2>2 DEF LineTypes
<1>8. PhaseInv'
  BY <1>0, <1>1, <1>2, <1>5 DEF PhaseInv
<1>9. LineInv' /\ RunningInv'
  BY <1>0, <1>1, <1>2, <1>3 DEF LineInv, RunningInv
<1>10. SemaphoresInv'
  <2>1. \A i \in 0..n - 1 : prepare'[i] # "idle" => i \in left'
    <3>. SUFFICES ASSUME NEW i \in 0..n - 1, prepare'[i] # "idle" PROVE i \in left
      BY <1>1
    <3>1. i \in Image /\ prepare[i] # "idle"
      BY <1>1 DEF LineTypes, Resized
    <3>. QED BY <1>1, <1>2, <3>1 DEF SemaphoresInv
  <2>2. \A i \in 0..n - 1 : wait'[i] = "idle"
    <3>. SUFFICES ASSUME NEW i \in 0..n - 1, wait'[i] # "idle" PROVE FALSE
      OBVIOUS
    <3>1. i \in Image /\ wait[i] # "idle"
      BY <1>1 DEF LineTypes, Resized
    <3>. QED BY <1>1, <3>1 DEF SemaphoresInv
  <2>. QED BY <1>1, <1>2, <2>1, <2>2 DEF SemaphoresInv
<1>11. ViewsInv'
  <2>1. pass.views <= pass.chain /\ pass.chain <= chain /\ pass.chain \in Nat
        /\ pass.batch <= MaxWindowBatch + pass.chain
    BY DEF ViewsInv, LineTypes, Passes
  <2>2. pass'.chain # chain' /\ pass'.chain <= chain' /\ (pass'.views = views' => pass'.images = count')
    BY <1>1, <1>6, <2>1
  <2>. QED BY <1>1, <2>1, <2>2 DEF ViewsInv
<1>. QED BY <1>7, <1>8, <1>9, <1>10, <1>11

\* A step in which the window does nothing.
LEMMA StutterKeeps == LoopInv /\ UNCHANGED windowVars => LoopInv'
<1>. SUFFICES ASSUME LoopInv, UNCHANGED windowVars PROVE LoopInv'
  OBVIOUS
<1>. USE DEF LoopInv, windowVars, surfaceVars, engineVars
<1>1. SameLine /\ SameRuns /\ (IsOut' <=> IsOut) /\ (IsOpen' <=> IsOpen) /\ Image' = Image
  BY DEF SameLine, SameRuns, IsOut, IsOpen, Out, Open, Seen, Due, Width, Past, Image
<1>2. LineTypes' /\ PhaseInv'
  BY <1>1 DEF LineTypes, PhaseInv
<1>3. LineInv' /\ RunningInv'
  BY <1>1, LineKept, PlacesKept
<1>4. SemaphoresInv' /\ ViewsInv'
  BY <1>1 DEF SemaphoresInv, ViewsInv
<1>. QED BY <1>2, <1>3, <1>4

\* Every step of the frame loop, the device and the engine keeps the line.
LEMMA LoopStep == LoopInv /\ [WindowNext]_windowVars => LoopInv'
<1>. SUFFICES ASSUME LoopInv, [WindowNext]_windowVars PROVE LoopInv'
  OBVIOUS
<1>1. CASE Prepare
  BY <1>1, PrepareKeeps
<1>2. CASE PrepareSuboptimal \/ PrepareOutOfDate
  BY <1>2, PrepareFailsKeeps
<1>3. CASE Resize \/ \E e \in Extent : ResizeWindow(e)
  BY <1>3, ResizeKeeps
<1>4. CASE Begin
  BY <1>4, BeginKeeps
<1>5. CASE Submit
  BY <1>5, SubmitKeeps
<1>6. CASE Present
  BY <1>6, PresentKeeps
<1>7. CASE FrameDone
  BY <1>7, FrameDoneKeeps
<1>8. CASE Show
  BY <1>8, ShowKeeps
<1>9. CASE GiveBack
  BY <1>9, GiveBackKeeps
<1>10. CASE \E n \in Counts : Recreate(n)
  BY <1>10, RecreateKeeps
<1>11. CASE UNCHANGED windowVars
  BY <1>11, StutterKeeps
<1>. QED BY <1>1, <1>2, <1>3, <1>4, <1>5, <1>6, <1>7, <1>8, <1>9, <1>10, <1>11 DEF WindowNext

\* The line is kept for ever.
LEMMA Loops == WindowSpec => []LoopInv
  BY InitLoops, LoopStep, PTL DEF WindowSpec

-----------------------------------------------------------------------------

\* Swapchain, semaphores and frames stay well formed, prepare finds no
\* semaphore left over and the index in range, and the semaphore is null
\* exactly when nothing was prepared (prepare, get_prepare_semaphore), for
\* every number of images and of frames in flight.
THEOREM SurfaceConsistent == WindowSpec => []SurfaceInv
<1>1. LoopInv => SurfaceInv
  <2>. SUFFICES ASSUME LoopInv PROVE SurfaceInv
    OBVIOUS
  <2>0. count \in Nat \ {0} /\ NoImage \notin Nat /\ MaxRunning \in Nat
    BY CountFacts
  <2>1. SurfaceTypeOK
    <3>1. Len(running) <= MaxRunning
      BY <2>0, LineFacts DEF LoopInv, RunningInv
    <3>. QED BY <3>1 DEF LoopInv, LineTypes, SurfaceTypeOK, Passes
  <2>2. PrepareAsserts
    <3>1. IsOut => prepared # NoImage
      BY <2>0 DEF LoopInv, PhaseInv, Image
    <3>. QED BY <3>1 DEF LoopInv, LineTypes, PhaseInv, PrepareAsserts, IsOut
  <2>. QED BY <2>1, <2>2 DEF SurfaceInv
<1>. QED BY <1>1, Loops, PTL

\* No semaphore is handed to the device while something is pending on it,
\* whatever images the engine chooses: the one the frame signals never, the
\* one prepare gives to the next acquire except for a left or a loose image.
THEOREM SemaphoresAreFresh == WindowSpec => []SemaphoresFresh
<1>1. LoopInv => SemaphoresFresh
  <2>. SUFFICES ASSUME LoopInv PROVE SemaphoresFresh
    OBVIOUS
  <2>. USE DEF LoopInv
  <2>0. /\ count \in Nat \ {0} /\ Len(running) \in Nat /\ Due \in Nat /\ Width \in Nat
        /\ Due = Len(queued) + Out /\ Due <= Width /\ Len(queued) \in Nat
    BY CountFacts, LineFacts
  <2>1. AcquireFresh
    <3>. SUFFICES ASSUME MayPrepare, prepare[index] # "idle", index \notin left, index \notin loose
                  PROVE  FALSE
      BY DEF AcquireFresh
    <3>1. phase = "idle" /\ ~IsOpen /\ Open = 0
      BY DEF MayPrepare, IsOpen, Open
    <3>2. index \in Image
      BY <2>0, <3>1 DEF PhaseInv, LineTypes, Image
    <3>3. PICK k \in 1..Len(running) : running[k].waits = index
      BY <3>1, <3>2 DEF SemaphoresInv
    <3>. PICK d \in Nat : d = Len(running) - k
      <4>1. Len(running) - k \in Nat
        BY <2>0
      <4>. QED BY <4>1
    <3>4. Place(k, d)
      BY <2>0, <3>1 DEF Place
    <3>5. d + 1 < Width /\ index = Past(d + 1)
      BY <3>3, <3>4 DEF RunningInv, InPlace, Follows
    <3>6. 0 \in 0..Width - 1 /\ d + 1 \in 0..Width - 1 /\ d + 1 # 0 /\ index = Past(0)
      BY <2>0, <3>1, <3>5 DEF LineInv
    <3>. QED BY <3>5, <3>6 DEF LineInv
  <2>2. RenderedFresh
    <3>. SUFFICES ASSUME IsOpen, wait[rendered] # "idle" PROVE FALSE
      BY DEF RenderedFresh, IsOpen
    <3>1. IsOut /\ phase # "submitted" /\ Out = 1
      BY DEF IsOpen, IsOut, Out
    <3>2. rendered \in Image
      BY <3>1 DEF PhaseInv
    <3>3. PICK j \in 1..Len(queued) : queued[j] = rendered
      BY <3>1, <3>2 DEF SemaphoresInv
    <3>4. Due - j \in 0..Width - 1 /\ Due - j # 0 /\ 0 \in 0..Width - 1
      BY <2>0, <3>1
    <3>5. Past(0) = rendered /\ Past(Due - j) = queued[j]
      <4>1. ~(Due - j < Out) /\ Due - j < Due /\ Due - (Due - j) = j /\ 0 < Out
        BY <2>0, <3>1
      <4>. QED BY <4>1 DEF Past
    <3>. QED BY <3>3, <3>4, <3>5 DEF LineInv
  <2>. QED BY <2>1, <2>2 DEF SemaphoresFresh
<1>. QED BY <1>1, Loops, PTL

\* A frame is recorded for the image it acquired, which nobody else has, with
\* a framebuffer for each image, of the present swapchain unless its views
\* got the handles of destroyed ones (begin, resize).
THEOREM FramesDrawToAcquired == WindowSpec => []DrawsToAcquired
<1>1. LoopInv => DrawsToAcquired
  <2>. SUFFICES ASSUME LoopInv, phase = "recorded"
                PROVE  /\ frame.image = index /\ frame.image \in Image
                       /\ index \notin ready
                       /\ \A j \in DOMAIN queued : queued[j] # index
                       /\ shown # index
                       /\ pass.images = count
                       /\ views = chain => /\ frame.chain = chain
                                           /\ frame.batch > 1 => frame.extent = extent
    BY DEF DrawsToAcquired
  <2>. USE DEF LoopInv
  <2>0. /\ count \in Nat \ {0} /\ NoImage \notin Nat /\ Due \in Nat /\ Width \in Nat
        /\ Due = Len(queued) + Out /\ Due <= Width /\ Len(queued) \in Nat
        /\ (shown # NoImage => Width = Due + 1)
    BY CountFacts, LineFacts
  <2>1. IsOut /\ Out = 1
    BY DEF IsOut, Out
  <2>2. rendered = index /\ index \in Image /\ Past(0) = index /\ 0 \in 0..Width - 1
    <3>1. rendered = index /\ index \in Image
      BY <2>1 DEF PhaseInv
    <3>2. 0 < Out /\ 0 \in 0..Width - 1
      BY <2>0, <2>1
    <3>. QED BY <3>1, <3>2 DEF Past
  <2>3. \A j \in DOMAIN queued : queued[j] # index
    <3>. SUFFICES ASSUME NEW j \in 1..Len(queued) PROVE queued[j] # index
      BY DEF LineTypes
    <3>1. Due - j \in 0..Width - 1 /\ Due - j # 0
      BY <2>0, <2>1
    <3>2. Past(Due - j) = queued[j]
      <4>1. ~(Due - j < Out) /\ Due - j < Due /\ Due - (Due - j) = j
        BY <2>0, <2>1
      <4>. QED BY <4>1 DEF Past
    <3>. QED BY <2>2, <3>1, <3>2 DEF LineInv
  <2>4. shown # index
    <3>1. CASE shown # NoImage
      <4>1. Due \in 0..Width - 1 /\ Due # 0 /\ ~(Due < Out) /\ ~(Due < Due)
        BY <2>0, <2>1, <3>1
      <4>2. Past(Due) = shown
        BY <4>1 DEF Past
      <4>. QED BY <2>2, <4>1, <4>2 DEF LineInv
    <3>. QED BY <2>0, <2>2, <3>1 DEF Image
  <2>5. /\ frame.chain = pass.chain /\ frame.extent = pass.extent /\ frame.batch = pass.batch
        /\ frame.image = index /\ pass.views = views /\ pass.images = count
    BY <2>2 DEF PhaseInv, ViewsInv
  <2>6. views = chain => pass.chain = chain
    BY <2>5 DEF ViewsInv, LineTypes, Passes
  <2>. QED BY <2>2, <2>3, <2>4, <2>5, <2>6 DEF LineInv, ViewsInv
<1>. QED BY <1>1, Loops, PTL

\* The framebuffer a running frame draws to is the one it holds a reference
\* of, whoever resized in between (begin takes it after its resize).
THEOREM FramebuffersOutliveFrames == WindowSpec => []WindowFramebufferKept
<1>1. LoopInv => WindowFramebufferKept
  <2>. SUFFICES ASSUME LoopInv, NEW k \in 1..Len(running) PROVE running[k].keeps = running[k].batch
    BY DEF LoopInv, LineTypes, WindowFramebufferKept
  <2>1. Len(running) - k + Open \in Nat
    BY LineFacts DEF LoopInv
  <2>. QED BY <2>1 DEF LoopInv, RunningInv, Place, InPlace
<1>. QED BY <1>1, Loops, PTL

-----------------------------------------------------------------------------
(* MultiPassRenderPass.                                                    *)

\* The framebuffers have the size of the pass, and a command buffer keeps the
\* first one that was there when begin was called.
PassIInv ==
    /\ PassInv
    /\ made[batch] = size
    /\ \A i \in DOMAIN frames :
          frames[i].draws[2] = 0 /\ ~frames[i].remade => frames[i].keeps = frames[i].draws

\* A batch that is made has the size of the pass, the others keep theirs.
LEMMA RemakeFacts ==
    ASSUME PassIInv, NEW e \in Size, Remake(e)
    PROVE  /\ batch' = batch + 1 /\ batch' \in 1..MaxBatch /\ size' = e
           /\ made' \in [1..batch' -> Size] /\ made'[batch'] = e
           /\ \A b \in 1..batch : made'[b] = made[b]
<1>1. batch \in 1..MaxBatch /\ made \in Seq(Size) /\ Len(made) = batch
  BY DEF PassIInv, PassInv, TypeOK
<1>2. batch < MaxBatch /\ batch' = batch + 1 /\ made' = Append(made, e) /\ size' = e
  BY DEF Remake
<1>3. /\ made' \in Seq(Size) /\ Len(made') = batch + 1 /\ made'[batch + 1] = e
      /\ \A b \in 1..batch : made'[b] = made[b]
  BY <1>1, <1>2
<1>4. batch' \in 1..MaxBatch /\ made' \in [1..batch' -> Size]
  <2>1. made' \in [1..batch + 1 -> Size]
    BY <1>3, LenProperties
  <2>. QED BY <1>1, <1>2, <2>1, LayersAssumption
<1>. QED BY <1>2, <1>3, <1>4

\* What is known of a frame in flight.
Drawn == [draws : Framebuffer, area : Size, keeps : Framebuffer, remade : BOOLEAN]

\* A sequence with one more element.
LEMMA AppendFacts ==
    ASSUME NEW S, NEW s \in Seq(S), NEW e \in S
    PROVE  /\ Append(s, e) \in Seq(S) /\ Len(Append(s, e)) = Len(s) + 1 /\ Len(s) \in Nat
           /\ DOMAIN s = 1..Len(s) /\ DOMAIN Append(s, e) = 1..Len(s) + 1
           /\ Append(s, e)[Len(s) + 1] = e
           /\ \A i \in DOMAIN s : Append(s, e)[i] = s[i] /\ s[i] \in S
  OBVIOUS

\* The frames in flight stay what they were.
LEMMA FramesKept ==
    ASSUME PassIInv, layers' = layers, batch' \in 1..MaxBatch, batch' >= batch,
           made' \in [1..batch' -> Size], \A b \in 1..batch : made'[b] = made[b],
           size' \in Size, made'[batch'] = size', target' \in Target, active' \in Instance,
           frames' = frames
    PROVE  PassIInv'
<1>1. /\ batch \in Nat /\ (1..batch) \subseteq 1..batch' /\ Instance' = Instance
      /\ frames \in Seq(Drawn) /\ Len(frames) <= MaxFrames
  <2>1. batch \in 1..MaxBatch /\ frames \in Seq(Drawn) /\ Len(frames) <= MaxFrames
    BY DEF PassIInv, PassInv, TypeOK, Drawn
  <2>2. batch \in Nat /\ (1..batch) \subseteq 1..batch' /\ Instance' = Instance
    BY <2>1, LayersAssumption DEF Instance
  <2>. QED BY <2>1, <2>2
<1>2. \A i \in DOMAIN frames : frames[i].draws \in Framebuffer
  <2>1. \A i \in DOMAIN frames : frames[i] \in Drawn
    BY <1>1
  <2>. QED BY <2>1 DEF Drawn
<1>3. TypeOK'
  <2>1. Framebuffer \subseteq Framebuffer'
    BY <1>1 DEF Framebuffer
  <2>2. Drawn \subseteq Drawn'
    BY <2>1 DEF Drawn
  <2>3. frames' \in Seq(Drawn')
    BY <1>1, <2>2, SeqMonotonic
  <2>. QED BY <1>1, <2>3 DEF PassIInv, PassInv, TypeOK, Drawn
<1>4. AreaFits'
  BY <1>1, <1>2 DEF PassIInv, PassInv, AreaFits, Framebuffer
<1>5. FirstKept'
  BY DEF PassIInv, FirstKept, Alive
<1>. QED BY <1>3, <1>4, <1>5 DEF PassIInv, PassInv

\* A frame draws to the batch there is when the recording begins, of the size
\* it has then (begin).
LEMMA BeginFits ==
    ASSUME PassIInv, begin
    PROVE  PassIInv'
<1>. DEFINE new == [draws |-> <<batch', active>>, area |-> size', keeps |-> <<batch, 0>>,
                    remade |-> target \notin {None, size}]
<1>1. /\ layers \in Nat \ {0} /\ batch \in 1..MaxBatch /\ size \in Size /\ made \in [1..batch -> Size]
      /\ target \in Size \cup {None} /\ active \in Instance /\ made[batch] = size
  BY LayersAssumption, TargetAssumption DEF PassIInv, PassInv, TypeOK
<1>2. /\ frames' = Append(frames, new) /\ Len(frames) < MaxFrames
      /\ layers' = layers /\ target' = target /\ active' = active
      /\ \/ target \notin {None, size} /\ Remake(target)
         \/ target \in {None, size} /\ batch' = batch /\ made' = made /\ size' = size
  BY DEF begin, BeginKeeping
<1>3. /\ batch' \in 1..MaxBatch /\ batch' >= batch /\ size' \in Size
      /\ made' \in [1..batch' -> Size] /\ made'[batch'] = size'
      /\ \A b \in 1..batch : made'[b] = made[b]
      /\ target \in {None, size} => batch' = batch
  BY <1>1, <1>2, RemakeFacts
<1>4. Instance' = Instance /\ 0 \in Instance /\ Framebuffer \subseteq Framebuffer'
  BY <1>1, <1>2, <1>3 DEF Instance, Framebuffer
<1>5. new \in Drawn'
  BY <1>1, <1>2, <1>3, <1>4 DEF Framebuffer, Drawn
<1>6. frames \in Seq(Drawn) /\ frames \in Seq(Drawn')
  <2>1. frames \in Seq(Drawn)
    BY DEF PassIInv, PassInv, TypeOK, Drawn
  <2>2. Drawn \subseteq Drawn'
    BY <1>4 DEF Drawn
  <2>. QED BY <2>1, <2>2, SeqMonotonic
<1>. HIDE DEF new
<1>7. /\ DOMAIN frames' = 1..Len(frames) + 1 /\ DOMAIN frames = 1..Len(frames)
      /\ Len(frames) \in Nat /\ Len(frames') = Len(frames) + 1
      /\ frames'[Len(frames) + 1] = new
      /\ \A i \in DOMAIN frames : frames'[i] = frames[i] /\ frames[i].draws \in Framebuffer
      /\ frames' \in Seq(Drawn')
  <2>1. \A i \in DOMAIN frames : frames[i] \in Drawn
    BY <1>6
  <2>2. \A i \in DOMAIN frames : frames[i].draws \in Framebuffer
    BY <2>1 DEF Drawn
  <2>. QED BY <1>2, <1>5, <1>6, <2>2, AppendFacts
<1>8. TypeOK'
  BY <1>1, <1>2, <1>3, <1>4, <1>7, LayersAssumption DEF PassIInv, PassInv, TypeOK, Drawn
<1>9. ASSUME NEW i \in DOMAIN frames'
      PROVE  /\ frames'[i].area = made'[frames'[i].draws[1]]
             /\ frames'[i].draws[2] = 0 /\ ~frames'[i].remade => frames'[i].keeps = frames'[i].draws
  <2>1. CASE i \in DOMAIN frames
    BY <1>3, <1>7, <2>1 DEF PassIInv, PassInv, AreaFits, Framebuffer
  <2>2. CASE i = Len(frames) + 1
    <3>1. /\ new.area = size' /\ new.draws[1] = batch' /\ new.draws = <<batch', active>>
          /\ new.draws[2] = active /\ new.keeps = <<batch, 0>>
          /\ ~new.remade => target \in {None, size}
      BY DEF new
    <3>. QED BY <1>3, <1>7, <2>2, <3>1
  <2>. QED BY <1>7, <2>1, <2>2
<1>10. FirstKept'
  BY <1>9 DEF FirstKept, Alive
<1>. QED BY <1>3, <1>8, <1>9, <1>10 DEF PassIInv, PassInv, AreaFits

\* A frame that is done leaves the others.
LEMMA CompleteFits ==
    ASSUME PassIInv, Complete
    PROVE  PassIInv'
<1>1. /\ frames # <<>> /\ frames' = Tail(frames) /\ layers' = layers /\ batch' = batch
      /\ made' = made /\ size' = size /\ target' = target /\ active' = active
  BY DEF Complete
<1>2. /\ frames \in Seq([draws : Framebuffer, area : Size, keeps : Framebuffer, remade : BOOLEAN])
      /\ Len(frames) <= MaxFrames
  BY DEF PassIInv, PassInv, TypeOK
<1>3. /\ frames' \in Seq([draws : Framebuffer, area : Size, keeps : Framebuffer, remade : BOOLEAN])
      /\ Len(frames') <= MaxFrames
      /\ \A i \in DOMAIN frames' : i + 1 \in DOMAIN frames /\ frames'[i] = frames[i + 1]
  BY <1>1, <1>2, LayersAssumption
<1>4. TypeOK'
  BY <1>1, <1>3 DEF PassIInv, PassInv, TypeOK, Framebuffer, Instance
<1>5. AreaFits'
  BY <1>1, <1>3 DEF PassIInv, PassInv, AreaFits
<1>6. \A i \in DOMAIN frames' :
          frames'[i].draws[2] = 0 /\ ~frames'[i].remade => frames'[i].keeps = frames'[i].draws
  BY <1>3 DEF PassIInv
<1>. QED BY <1>1, <1>4, <1>5, <1>6 DEF PassIInv, PassInv, FirstKept, Alive

\* A call keeps what is known.
LEMMA PassStep == PassIInv /\ [Next]_vars => PassIInv'
<1>. SUFFICES ASSUME PassIInv, [Next]_vars PROVE PassIInv'
  OBVIOUS
<1>0. /\ layers \in Nat \ {0} /\ batch \in 1..MaxBatch /\ size \in Size /\ made \in [1..batch -> Size]
      /\ target \in Target /\ active \in Instance /\ made[batch] = size
  BY LayersAssumption DEF PassIInv, PassInv, TypeOK
<1>1. CASE begin
  BY <1>1, BeginFits
<1>2. CASE Complete
  BY <1>2, CompleteFits
<1>3. ASSUME NEW e \in Size, resize(e) PROVE PassIInv'
  <2>1. Remake(e) /\ layers' = layers /\ target' = target /\ active' = active /\ frames' = frames
    BY <1>3 DEF resize
  <2>. QED BY <1>0, <2>1, RemakeFacts, FramesKept
<1>4. ASSUME NEW t \in Target, SetTarget(t) PROVE PassIInv'
  BY <1>0, <1>4, FramesKept DEF SetTarget
<1>5. ASSUME NEW i \in 0..layers, set_active_frame_buffer_instance(i) PROVE PassIInv'
  <2>1. i \in Instance
    BY <1>0, <1>5 DEF set_active_frame_buffer_instance, Instance
  <2>. QED BY <1>0, <1>5, <2>1, FramesKept DEF set_active_frame_buffer_instance
<1>6. CASE UNCHANGED vars
  BY <1>0, <1>6, FramesKept DEF vars
<1>. QED BY <1>1, <1>2, <1>3, <1>4, <1>5, <1>6 DEF Next

\* What a frame draws covers its framebuffer, and a framebuffer drawn to
\* through the first instance outlives the frame if the frame's own begin
\* remade nothing; of a frame whose begin did remake the framebuffers, or
\* that draws through another instance, nothing is claimed
\* (Renderpass::begin, MultiPassRenderPass::begin, create_framebuffers).  For
\* any sizes, layers, frames in flight and resizes.
THEOREM PassSafe == Spec => []PassInv
<1>1. Init => PassIInv
  <2>. SUFFICES ASSUME Init PROVE PassIInv
    OBVIOUS
  <2>1. layers \in 1..MaxLayers /\ size \in Size /\ made = <<size>> /\ frames = <<>>
        /\ batch = 1 /\ target = None /\ active = 0
    BY DEF Init
  <2>2. TypeOK
    BY <2>1, LayersAssumption, TargetAssumption DEF TypeOK, Instance
  <2>. QED BY <2>1, <2>2 DEF PassIInv, PassInv, AreaFits, FirstKept
<1>2. PassIInv /\ [Next]_vars => PassIInv'
  BY PassStep
<1>3. PassIInv => PassInv
  BY DEF PassIInv
<1>. QED BY <1>1, <1>2, <1>3, PTL DEF Spec

\* Before the builder is asked for it there is no pass: nothing is drawn.
NotYet == batch = 1 /\ active = 0 /\ target = None /\ frames = <<>>

\* The same, with the same exceptions, for the pass that a builder makes,
\* whatever was described before; a program that did not survive the
\* constructor has no pass (build, the constructor of MultiPassRenderPass).
THEOREM BuiltPassSafe == PassesSpec => []PassInv
<1>. DEFINE Known == PassIInv /\ layer_count \in 1..MaxLayers /\ built \in BOOLEAN /\ (~built => NotYet)
<1>1. ASSUME NEW n \in 1..MaxLayers, NEW e \in Size, layers = n, size = e, made = <<e>>, NotYet
      PROVE  PassIInv
  <2>1. TypeOK
    BY <1>1, LayersAssumption, TargetAssumption DEF TypeOK, Instance, NotYet
  <2>. QED BY <1>1, <2>1 DEF PassIInv, PassInv, AreaFits, FirstKept, NotYet
<1>2. BuilderAndPassInit => Known
  <2>. SUFFICES ASSUME BuilderAndPassInit PROVE Known
    OBVIOUS
  <2>1. /\ layers \in 1..MaxLayers /\ size \in Size /\ made = <<size>> /\ NotYet
        /\ layer_count = 1 /\ built = FALSE
    BY DEF BuilderAndPassInit, Init, NotYet
  <2>2. PassIInv
    BY <1>1, <2>1
  <2>3. 1 \in 1..MaxLayers
    BY LayersAssumption
  <2>. QED BY <2>1, <2>2, <2>3
<1>3. Known /\ [PassesNext]_passesVars => Known'
  <2>. SUFFICES ASSUME Known, [PassesNext]_passesVars PROVE Known'
    OBVIOUS
  <2>1. ASSUME UNCHANGED vars PROVE PassIInv' /\ (NotYet => NotYet')
    BY <2>1, PassStep DEF vars, NotYet
  <2>2. ASSUME NEW n \in 1..MaxLayers, set_layer_count(n) PROVE Known'
    BY <2>1, <2>2 DEF set_layer_count
  <2>3. CASE Describe
    BY <2>1, <2>3 DEF Describe
  <2>4. CASE Draw
    <3>1. Next /\ layer_count' = layer_count /\ built' = built /\ built
      BY <2>4 DEF Draw, builderVars
    <3>. QED BY <3>1, PassStep
  <2>5. ASSUME NEW e \in Size, build(e) PROVE Known'
    <3>1. /\ layers' = layer_count /\ size' = e /\ made' = <<e>> /\ NotYet' /\ built' = TRUE /\ layer_count' = 1
      BY <2>5 DEF build, DropBuilder, NotYet
    <3>2. TypeOK'
      BY <3>1, LayersAssumption, TargetAssumption DEF TypeOK, Instance, NotYet
    <3>3. PassIInv'
      BY <3>1, <3>2 DEF PassIInv, PassInv, AreaFits, FirstKept, NotYet
    <3>. QED BY <3>1, <3>3, LayersAssumption
  <2>6. CASE BuildLost \/ UNCHANGED passesVars
    BY <2>1, <2>6 DEF BuildLost, passesVars, builderVars
  <2>. QED BY <2>2, <2>3, <2>4, <2>5, <2>6 DEF PassesNext
<1>4. Known => PassInv
  BY DEF PassIInv
<1>. QED BY <1>2, <1>3, <1>4, PTL DEF PassesSpec

-----------------------------------------------------------------------------
(* Lists.                                                                  *)

\* SetToSeq lists the elements of a finite set.
LEMMA ListOf ==
    ASSUME NEW S, IsFiniteSet(S)
    PROVE  /\ SetToSeq(S) \in [1..Cardinality(S) -> S]
           /\ ToSet(SetToSeq(S)) = S /\ Cardinality(S) \in Nat
<1>1. Cardinality(S) \in Nat /\ ExistsBijection(1..Cardinality(S), S)
  BY FS_CountingElements, FS_CardinalityType
<1>2. PICK f : f \in Bijection(1..Cardinality(S), S)
  BY <1>1 DEF ExistsBijection
<1>3. f \in [1..Cardinality(S) -> S] /\ \A x, y \in DOMAIN f : f[x] = f[y] => x = y
  BY <1>2 DEF Bijection, Injection, IsInjective
<1>4. f \in [1..Cardinality(S) -> S] /\ IsInjective(f)
  BY <1>3 DEF IsInjective
<1>5. SetToSeq(S) \in [1..Cardinality(S) -> S] /\ IsInjective(SetToSeq(S))
  BY <1>4, Zenon DEF SetToSeq
<1>6. SetToSeq(S) \in Injection(1..Cardinality(S), S)
  BY <1>5 DEF IsInjective, Injection
<1>7. IsFiniteSet(1..Cardinality(S)) /\ Cardinality(1..Cardinality(S)) = Cardinality(S)
  <2>1. 1 \in Int /\ Cardinality(S) \in Int
    BY <1>1
  <2>2. IsFiniteSet(1..Cardinality(S)) /\ Cardinality(1..Cardinality(S)) = IF 1 > Cardinality(S) THEN 0 ELSE Cardinality(S) - 1 + 1
    BY <2>1, FS_Interval
  <2> QED
    BY <1>1, <2>2
<1>8. SetToSeq(S) \in Surjection(1..Cardinality(S), S)
  BY <1>6, <1>7, FS_Injection
<1>9. \A x \in S : \E n \in 1..Cardinality(S) : SetToSeq(S)[n] = x
  BY <1>8 DEF Surjection
<1> QED
  BY <1>1, <1>5, <1>9 DEF ToSet

-----------------------------------------------------------------------------
(* merge_dependencies.                                                     *)

Stages == Tests \cup {"COLOR_ATTACHMENT_OUTPUT", "FRAGMENT_SHADER"}
Accesses == {"COLOR_WRITE", "DEPTH_STENCIL_WRITE", "DEPTH_STENCIL_READ", "INPUT_READ"}
Dependencies ==
    [src : Nat, dst : Nat, srcStages : SUBSET Stages, srcAccess : SUBSET Accesses,
     dstStages : SUBSET Stages, dstAccess : SUBSET Accesses]

\* What orders all that e orders.
Covers(d, e) ==
    /\ SamePair(d, e)
    /\ e.srcStages \subseteq d.srcStages /\ e.srcAccess \subseteq d.srcAccess
    /\ e.dstStages \subseteq d.dstStages /\ e.dstAccess \subseteq d.dstAccess

\* What merging the first n dependencies leaves.
MergedSoFar(deps, merged, n) ==
    /\ merged \in Seq(Dependencies)
    /\ \A l, m \in DOMAIN merged : SamePair(merged[l], merged[m]) => l = m
    /\ \A m \in DOMAIN merged : \E k \in 1..n : SamePair(merged[m], deps[k])
    /\ \A k \in 1..n : \E m \in DOMAIN merged : Covers(merged[m], deps[k])

\* A joined dependency covers both.
LEMMA JoinedCovers ==
    ASSUME NEW d \in Dependencies, NEW e \in Dependencies, SamePair(d, e)
    PROVE  /\ Joined(d, e) \in Dependencies /\ Covers(Joined(d, e), d) /\ Covers(Joined(d, e), e)
           /\ \A x : SamePair(Joined(d, e), x) <=> SamePair(d, x)
           /\ \A x : SamePair(x, Joined(d, e)) <=> SamePair(x, d)
<1>. DEFINE j == Joined(d, e)
<1>1. j \in Dependencies
  BY DEF Dependencies, Joined
<1>2. /\ j.src = d.src /\ j.dst = d.dst
      /\ j.srcStages = d.srcStages \cup e.srcStages /\ j.srcAccess = d.srcAccess \cup e.srcAccess
      /\ j.dstStages = d.dstStages \cup e.dstStages /\ j.dstAccess = d.dstAccess \cup e.dstAccess
  BY DEF Dependencies, Joined
<1>. HIDE DEF j
<1>3. Covers(j, d) /\ Covers(j, e)
  BY <1>2 DEF Covers, SamePair
<1>4. \A x : (SamePair(j, x) <=> SamePair(d, x)) /\ (SamePair(x, j) <=> SamePair(x, d))
  BY <1>2 DEF SamePair
<1>. QED BY <1>1, <1>3, <1>4 DEF j

\* One turn of the loop of merge_dependencies.
LEMMA MergeTurn ==
    ASSUME NEW deps \in Seq(Dependencies), NEW n \in Nat, n + 1 <= Len(deps),
           NEW merged, MergedSoFar(deps, merged, n)
    PROVE  MergedSoFar(deps, MergeInto(merged, deps[n + 1]), n + 1)
<1>. DEFINE dep == deps[n + 1]
            next == MergeInto(merged, dep)
<1>1. /\ dep \in Dependencies /\ (1..n + 1) = (1..n) \cup {n + 1}
      /\ \A k \in 1..n : deps[k] \in Dependencies
  BY LenProperties
<1>2. /\ merged \in Seq(Dependencies) /\ Len(merged) \in Nat /\ DOMAIN merged = 1..Len(merged)
      /\ \A m \in DOMAIN merged : merged[m] \in Dependencies
  BY LenProperties DEF MergedSoFar
<1>3. /\ \A l, m \in DOMAIN merged : SamePair(merged[l], merged[m]) => l = m
      /\ \A m \in DOMAIN merged : \E k \in 1..n : SamePair(merged[m], deps[k])
      /\ \A k \in 1..n : \E m \in DOMAIN merged : Covers(merged[m], deps[k])
  BY DEF MergedSoFar
<1>4. \A d, e, f : Covers(d, e) /\ Covers(e, f) => Covers(d, f)
  BY DEF Covers, SamePair
<1>5. \A d : SamePair(d, d) /\ Covers(d, d)
  BY DEF Covers, SamePair
<1>. HIDE DEF dep
<1>6. CASE \E m \in DOMAIN merged : SamePair(merged[m], dep)
  <2>1. next = [m \in DOMAIN merged |-> IF SamePair(merged[m], dep) THEN Joined(merged[m], dep) ELSE merged[m]]
    BY <1>6 DEF MergeInto
  <2>. HIDE DEF next
  <2>2. DOMAIN next = DOMAIN merged
    BY <2>1
  <2>3. ASSUME NEW m \in DOMAIN merged
        PROVE  /\ next[m] \in Dependencies /\ Covers(next[m], merged[m])
               /\ SamePair(merged[m], dep) => Covers(next[m], dep)
               /\ next[m].src = merged[m].src /\ next[m].dst = merged[m].dst
    <3>1. CASE SamePair(merged[m], dep)
      <4>1. next[m] = Joined(merged[m], dep)
        BY <2>1, <3>1
      <4>2. next[m] \in Dependencies /\ Covers(next[m], merged[m]) /\ Covers(next[m], dep)
        BY <1>1, <1>2, <3>1, <4>1, JoinedCovers
      <4>. QED BY <4>2 DEF Covers, SamePair
    <3>2. CASE ~SamePair(merged[m], dep)
      BY <1>2, <1>5, <2>1, <3>2
    <3>. QED BY <3>1, <3>2
  <2>4. next \in Seq(Dependencies)
    <3>1. next \in [1..Len(merged) -> Dependencies]
      BY <1>2, <2>1, <2>3
    <3>. QED BY <1>2, <3>1, SeqDef
  <2>5. \A l, m \in DOMAIN merged : SamePair(next[l], next[m]) => l = m
    BY <1>3, <2>3 DEF SamePair
  <2>6. \A m \in DOMAIN merged : \E k \in 1..n + 1 : SamePair(next[m], deps[k])
    BY <1>1, <1>3, <2>3 DEF SamePair
  <2>7. \A k \in 1..n : \E m \in DOMAIN merged : Covers(next[m], deps[k])
    BY <1>3, <1>4, <2>3
  <2>8. \E m \in DOMAIN merged : Covers(next[m], dep)
    BY <1>6, <2>3
  <2>9. \A k \in 1..n + 1 : \E m \in DOMAIN next : Covers(next[m], deps[k])
    BY <1>1, <2>2, <2>7, <2>8 DEF dep
  <2>10. \A l, m \in DOMAIN next : SamePair(next[l], next[m]) => l = m
    BY <2>2, <2>5
  <2>11. \A m \in DOMAIN next : \E k \in 1..n + 1 : SamePair(next[m], deps[k])
    BY <2>2, <2>6
  <2>. QED BY <2>4, <2>9, <2>10, <2>11 DEF MergedSoFar, next, dep
<1>7. CASE ~\E m \in DOMAIN merged : SamePair(merged[m], dep)
  <2>1. next = Append(merged, dep)
    BY <1>7 DEF MergeInto
  <2>. HIDE DEF next
  <2>2. /\ next \in Seq(Dependencies) /\ DOMAIN next = (DOMAIN merged) \cup {Len(merged) + 1}
        /\ next[Len(merged) + 1] = dep /\ \A m \in DOMAIN merged : next[m] = merged[m]
    <3>1. (1..Len(merged) + 1) = (1..Len(merged)) \cup {Len(merged) + 1}
      BY <1>2
    <3>. QED BY <1>1, <1>2, <2>1, <3>1, AppendFacts
  <2>3. \A l, m \in DOMAIN next : SamePair(next[l], next[m]) => l = m
    BY <1>3, <1>7, <2>2 DEF SamePair
  <2>4. \A m \in DOMAIN next : \E k \in 1..n + 1 : SamePair(next[m], deps[k])
    BY <1>1, <1>3, <1>5, <2>2 DEF dep
  <2>5. \A k \in 1..n + 1 : \E m \in DOMAIN next : Covers(next[m], deps[k])
    BY <1>1, <1>3, <1>5, <2>2 DEF dep
  <2>. QED BY <2>2, <2>3, <2>4, <2>5 DEF MergedSoFar, next, dep
<1>. QED BY <1>6, <1>7

\* The states of the fold.
MergeRun(deps) ==
    CHOOSE it : it = [t \in SUBSET DOMAIN deps |->
        IF t = {} THEN <<>> ELSE LET x == Max(t) IN MergeInto(it[t \ {x}], deps[x])]

LEMMA MergeIsFold ==
    ASSUME NEW deps
    PROVE  merge_dependencies(deps) = MergeRun(deps)[DOMAIN deps]
  BY Zenon DEF merge_dependencies, FoldLeft, MapThenFoldSet, MergeRun

LEMMA MergeTyped ==
    ASSUME NEW merged \in Seq(Dependencies), NEW dep \in Dependencies
    PROVE  MergeInto(merged, dep) \in Seq(Dependencies)
<1>1. \A m \in DOMAIN merged : merged[m] \in Dependencies
  OBVIOUS
<1>2. \A m \in DOMAIN merged : SamePair(merged[m], dep) => Joined(merged[m], dep) \in Dependencies
  BY <1>1, JoinedCovers
<1>. DEFINE joined == [m \in DOMAIN merged |->
                IF SamePair(merged[m], dep) THEN Joined(merged[m], dep) ELSE merged[m]]
<1>3. joined \in Seq(Dependencies)
  <2>1. DOMAIN merged = 1..Len(merged) /\ Len(merged) \in Nat
    BY LenProperties
  <2>2. joined \in [1..Len(merged) -> Dependencies]
    BY <1>1, <1>2, <2>1
  <2>. QED BY <2>1, <2>2, SeqDef
<1>4. Append(merged, dep) \in Seq(Dependencies)
  BY AppendFacts
<1>. QED BY <1>3, <1>4 DEF MergeInto

LEMMA MergeRuns ==
    ASSUME NEW deps \in Seq(Dependencies)
    PROVE  \A t \in SUBSET DOMAIN deps :
              MergeRun(deps)[t] = IF t = {} THEN <<>> ELSE MergeInto(MergeRun(deps)[t \ {Max(t)}], deps[Max(t)])
<1>. DEFINE Whole == SUBSET DOMAIN deps
            F == [p \in Seq(Dependencies) \X (1..Len(deps)) |-> MergeInto(p[1], deps[p[2]])]
<1>1. Len(deps) \in Nat /\ DOMAIN deps = 1..Len(deps) /\ \A k \in 1..Len(deps) : deps[k] \in Dependencies
  BY LenProperties
<1>2. F \in [Seq(Dependencies) \X (1..Len(deps)) -> Seq(Dependencies)]
  BY <1>1, MergeTyped
<1>3. \A s \in Seq(Dependencies), k \in 1..Len(deps) : F[<<s, k>>] = MergeInto(s, deps[k])
  OBVIOUS
<1>4. <<>> \in Seq(Dependencies)
  OBVIOUS
<1>. HIDE DEF F
<1>5. PICK run \in [SUBSET (1..Len(deps)) -> Seq(Dependencies)] : \A t \in SUBSET (1..Len(deps)) :
         run[t] = IF t = {} THEN <<>> ELSE F[<<run[t \ {Max(t)}], Max(t)>>]
  <2>. DEFINE states == Seq(Dependencies)
              length == Len(deps)
              start == <<>>
  <2>1. length \in Nat /\ start \in states /\ F \in [states \X (1..length) -> states]
    BY <1>1, <1>2, <1>4
  <2>. HIDE DEF states, length, start
  <2>2. \E it \in [SUBSET (1..length) -> states] : FoldsTo(it, length, start, F)
    BY <2>1, FoldStates
  <2>. QED BY <2>2 DEF states, length, start, FoldsTo
<1>6. \A t \in Whole : run[t] = IF t = {} THEN <<>> ELSE LET x == Max(t) IN MergeInto(run[t \ {x}], deps[x])
  <2>1. ASSUME NEW t \in Whole, t # {}
        PROVE  F[<<run[t \ {Max(t)}], Max(t)>>] = MergeInto(run[t \ {Max(t)}], deps[Max(t)])
    <3>1. Max(t) \in t
      BY <1>1, <2>1, MaxOfPlaces
    <3>2. t \ {Max(t)} \in SUBSET (1..Len(deps)) /\ Max(t) \in 1..Len(deps)
      BY <1>1, <3>1
    <3>. QED BY <1>3, <3>2
  <2>. QED BY <1>1, <1>5, <2>1
<1>7. run = [t \in SUBSET DOMAIN deps |->
                IF t = {} THEN <<>> ELSE LET x == Max(t) IN MergeInto(run[t \ {x}], deps[x])]
  BY <1>1, <1>6
<1>8. MergeRun(deps) = [t \in SUBSET DOMAIN deps |->
          IF t = {} THEN <<>> ELSE LET x == Max(t) IN MergeInto(MergeRun(deps)[t \ {x}], deps[x])]
  BY <1>7, Zenon DEF MergeRun
<1>. QED BY <1>8

\* What merge_dependencies leaves: one dependency for each pair, which covers
\* all that there were for it.
LEMMA Merged ==
    ASSUME NEW deps \in Seq(Dependencies)
    PROVE  MergedSoFar(deps, merge_dependencies(deps), Len(deps))
<1>. DEFINE T == {n \in Nat : n <= Len(deps) => MergedSoFar(deps, MergeRun(deps)[1..n], n)}
<1>1. Len(deps) \in Nat /\ DOMAIN deps = 1..Len(deps)
  BY LenProperties
<1>2. 0 \in T
  <2>1. (1..0) = {} /\ (1..0) \in SUBSET DOMAIN deps
    OBVIOUS
  <2>2. MergeRun(deps)[1..0] = <<>>
    BY <2>1, MergeRuns
  <2>3. MergedSoFar(deps, <<>>, 0)
    BY DEF MergedSoFar
  <2>. QED BY <2>2, <2>3
<1>3. ASSUME NEW n \in T PROVE n + 1 \in T
  <2>1. SUFFICES ASSUME n + 1 <= Len(deps) PROVE MergedSoFar(deps, MergeRun(deps)[1..n + 1], n + 1)
    OBVIOUS
  <2>2. n \in Nat /\ MergedSoFar(deps, MergeRun(deps)[1..n], n)
    BY <1>1, <2>1
  <2>3. (1..n + 1) \in SUBSET DOMAIN deps
    BY <1>1, <2>1, <2>2
  <2>4. (1..n + 1) # {} /\ (1..n + 1) \ {n + 1} = 1..n /\ Max(1..n + 1) = n + 1
    BY <2>2, FirstPlaces
  <2>5. MergeRun(deps)[1..n + 1] = MergeInto(MergeRun(deps)[1..n], deps[n + 1])
    BY <2>3, <2>4, MergeRuns
  <2>. QED BY <2>1, <2>2, <2>5, MergeTurn
<1>4. Len(deps) \in T
  <2>1. T \in SUBSET Nat
    OBVIOUS
  <2>. HIDE DEF T
  <2>. QED BY <1>1, <1>2, <1>3, <2>1, Induction
<1>. QED BY <1>1, <1>4, MergeIsFold

-----------------------------------------------------------------------------
(* create_subpass_dependencies.                                            *)

Attached == [depth : BOOLEAN, input : BOOLEAN]
Described == [color : SUBSET Nat, depth : SUBSET Nat, input : SUBSET Nat]

\* Subpasses use attachments there are, as their format allows.
DescribedInv ==
    /\ attachments \in Seq(Attached)
    /\ subpasses \in Seq(Described)
    /\ \A i \in DOMAIN subpasses :
          /\ subpasses[i].color \cup subpasses[i].depth \cup subpasses[i].input \subseteq Attachment
          /\ \A a \in subpasses[i].color : ~attachments[a].depth
          /\ \A a \in subpasses[i].depth : attachments[a].depth
    /\ InputFlagged

Kinds == {"color", "depth", "input"}
ScanStates == [first : [Attachment -> Nat], deps : Seq(Dependencies), asserted : BOOLEAN]

\* The elements of two sequences one behind the other.
LEMMA ConcatSet ==
    ASSUME NEW S, NEW s \in Seq(S), NEW t \in Seq(S)
    PROVE  s \o t \in Seq(S) /\ ToSet(s \o t) = ToSet(s) \cup ToSet(t)
<1>1. /\ s \o t \in Seq(S) /\ Len(s \o t) = Len(s) + Len(t) /\ Len(s) \in Nat /\ Len(t) \in Nat
      /\ DOMAIN s = 1..Len(s) /\ DOMAIN t = 1..Len(t) /\ DOMAIN (s \o t) = 1..Len(s) + Len(t)
      /\ \A n \in 1..Len(s) + Len(t) : (s \o t)[n] = IF n <= Len(s) THEN s[n] ELSE t[n - Len(s)]
  BY ConcatProperties, LenProperties
<1>2. ASSUME NEW n \in DOMAIN (s \o t) PROVE (s \o t)[n] \in ToSet(s) \cup ToSet(t)
  <2>1. CASE n <= Len(s)
    BY <1>1, <2>1 DEF ToSet
  <2>2. CASE ~(n <= Len(s))
    <3>1. n - Len(s) \in DOMAIN t /\ (s \o t)[n] = t[n - Len(s)]
      BY <1>1, <2>2
    <3>. QED BY <3>1 DEF ToSet
  <2>. QED BY <2>1, <2>2
<1>3. ASSUME NEW n \in DOMAIN s PROVE s[n] \in ToSet(s \o t)
  <2>1. n \in DOMAIN (s \o t) /\ (s \o t)[n] = s[n]
    BY <1>1
  <2>. QED BY <2>1 DEF ToSet
<1>4. ASSUME NEW n \in DOMAIN t PROVE t[n] \in ToSet(s \o t)
  <2>1. n + Len(s) \in DOMAIN (s \o t) /\ (s \o t)[n + Len(s)] = t[n]
    BY <1>1
  <2>. QED BY <2>1 DEF ToSet
<1>5. ToSet(s \o t) \subseteq ToSet(s) \cup ToSet(t)
  BY <1>2 DEF ToSet
<1>6. ToSet(s) \cup ToSet(t) \subseteq ToSet(s \o t)
  BY <1>3, <1>4 DEF ToSet
<1>. QED BY <1>1, <1>5, <1>6

\* The attachments are finitely many.
LEMMA AttachmentsFinite ==
    ASSUME DescribedInv
    PROVE  /\ Attachment \in SUBSET Nat /\ \A U \in SUBSET Attachment : IsFiniteSet(U)
           /\ \A a \in Attachment : attachments[a].depth \in BOOLEAN
<1>1. Len(attachments) \in Nat /\ Attachment = 1..Len(attachments)
  BY LenProperties DEF DescribedInv, Attachment
<1>2. IsFiniteSet(Attachment)
  <2>1. 1 \in Int /\ Len(attachments) \in Int
    BY <1>1
  <2>. QED BY <1>1, <2>1, FS_Interval
<1>3. \A a \in Attachment : attachments[a].depth \in BOOLEAN
  <2>1. attachments \in Seq(Attached)
    BY DEF DescribedInv
  <2>2. \A a \in DOMAIN attachments : attachments[a] \in Attached
    BY <2>1
  <2>. QED BY <2>2 DEF Attachment, Attached
<1>4. \A U \in SUBSET Attachment : IsFiniteSet(U)
  BY <1>2, FS_Subset
<1>5. Attachment \in SUBSET Nat
  BY <1>1
<1>. QED BY <1>3, <1>4, <1>5

LEMMA DependencyTyped ==
    ASSUME DescribedInv, NEW first \in Nat, NEW i \in Nat, NEW kind \in Kinds, NEW a \in Attachment
    PROVE  /\ Dependency(first, i, kind, a) \in Dependencies
           /\ Dependency(first, i, kind, a).src = first /\ Dependency(first, i, kind, a).dst = i
           /\ Dependency(first, i, kind, a).srcStages = DrawStages(a)
           /\ Dependency(first, i, kind, a).srcAccess = DrawAccess(a)
           /\ kind = "input" => /\ Dependency(first, i, kind, a).dstStages = {"FRAGMENT_SHADER"}
                                /\ Dependency(first, i, kind, a).dstAccess = {"INPUT_READ"}
<1>1. DrawStages(a) \in SUBSET Stages /\ DrawAccess(a) \in SUBSET Accesses
  BY DEF DrawStages, DrawAccess, Stages, Accesses, Tests
<1>. DEFINE to == IF kind = "input" THEN {"FRAGMENT_SHADER"} ELSE DrawStages(a)
            access == CASE kind = "color" -> {"COLOR_WRITE"}
                        [] kind = "depth" -> {"DEPTH_STENCIL_READ"}
                        [] kind = "input" -> {"INPUT_READ"}
<1>2. /\ to \in SUBSET Stages /\ access \in SUBSET Accesses
      /\ kind = "input" => to = {"FRAGMENT_SHADER"} /\ access = {"INPUT_READ"}
  BY <1>1 DEF Kinds, Stages, Accesses
<1>3. Dependency(first, i, kind, a) =
          [src |-> first, dst |-> i, srcStages |-> DrawStages(a), srcAccess |-> DrawAccess(a),
           dstStages |-> to, dstAccess |-> access]
  BY DEF Dependency
<1>. HIDE DEF to, access
<1>. QED BY <1>1, <1>2, <1>3 DEF Dependencies

\* The dependencies for the attachments that were drawn to before.
After(first, i, kind, used) == {Dependency(first[a], i, kind, a) : a \in {b \in used : first[b] # 0}}

\* What the loop over the attachments of one kind makes of state s.
UsedAs(s, r, i, kind, used) ==
    /\ r \in ScanStates
    /\ \A a \in Attachment :
          r.first[a] = IF a \in used /\ s.first[a] = 0 /\ kind # "input" THEN i ELSE s.first[a]
    /\ ToSet(r.deps) = ToSet(s.deps) \cup After(s.first, i, kind, used)

LEMMA UseEffect ==
    ASSUME DescribedInv, NEW s \in ScanStates, NEW i \in Nat, NEW kind \in Kinds,
           NEW used \in SUBSET Attachment
    PROVE  UsedAs(s, Use(s, i, kind, used), i, kind, used)
<1>. DEFINE Drawn0 == {a \in used : s.first[a] # 0}
            drawn == SetToSeq(Drawn0)
            new == [n \in DOMAIN drawn |-> Dependency(s.first[drawn[n]], i, kind, drawn[n])]
            r == Use(s, i, kind, used)
            first == [a \in Attachment |-> IF a \in used /\ s.first[a] = 0 /\ kind # "input" THEN i ELSE s.first[a]]
<1>1. s.first \in [Attachment -> Nat] /\ s.deps \in Seq(Dependencies) /\ s.asserted \in BOOLEAN
  BY DEF ScanStates
<1>2. /\ Drawn0 \in SUBSET Attachment /\ IsFiniteSet(Drawn0)
  BY AttachmentsFinite
<1>3. /\ drawn \in [1..Cardinality(Drawn0) -> Drawn0] /\ ToSet(drawn) = Drawn0 /\ Cardinality(Drawn0) \in Nat
  BY <1>2, ListOf
<1>4. r.first = first /\ r.deps = s.deps \o new /\ r.asserted \in BOOLEAN
      /\ r = [first |-> r.first, deps |-> r.deps, asserted |-> r.asserted]
  <2>1. r.deps = s.deps \o new
    BY DEF Use, Undrawn
  <2>2. r.first = first
    BY <1>1 DEF Use, Undrawn
  <2>3. r.asserted \in BOOLEAN
    BY <1>1 DEF Use
  <2>4. r = [first |-> r.first, deps |-> r.deps, asserted |-> r.asserted]
    BY DEF Use
  <2>. QED BY <2>1, <2>2, <2>3, <2>4
<1>. HIDE DEF r, drawn, Drawn0
<1>5. \A n \in DOMAIN drawn : drawn[n] \in Drawn0 /\ s.first[drawn[n]] \in Nat
  BY <1>1, <1>2, <1>3
<1>6. new \in Seq(Dependencies)
  <2>1. \A n \in DOMAIN drawn : new[n] \in Dependencies
    BY <1>2, <1>5, DependencyTyped
  <2>2. new \in [1..Cardinality(Drawn0) -> Dependencies]
    BY <1>3, <2>1
  <2>. QED BY <1>3, <2>2, SeqDef
<1>7. ToSet(new) = {Dependency(s.first[a], i, kind, a) : a \in Drawn0}
  <2>1. ToSet(new) = {Dependency(s.first[drawn[n]], i, kind, drawn[n]) : n \in DOMAIN drawn}
    BY DEF ToSet
  <2>2. Drawn0 = {drawn[n] : n \in DOMAIN drawn}
    BY <1>3 DEF ToSet
  <2>. QED BY <2>1, <2>2
<1>. HIDE DEF new
<1>8. r.deps \in Seq(Dependencies) /\ ToSet(r.deps) = ToSet(s.deps) \cup ToSet(new)
  BY <1>1, <1>4, <1>6, ConcatSet
<1>9. first \in [Attachment -> Nat]
  BY <1>1
<1>10. r \in ScanStates
  BY <1>4, <1>8, <1>9 DEF ScanStates
<1>11. ToSet(new) = After(s.first, i, kind, used)
  BY <1>7 DEF After, Drawn0
<1>. QED BY <1>4, <1>8, <1>10, <1>11 DEF r, UsedAs

\* The first subpass that draws to an attachment.
FirstDraw(i, a) == i \in DOMAIN subpasses /\ Draws(i, a) /\ \A k \in 1..i - 1 : ~Draws(k, a)

Ordered(d) == \/ d.src < d.dst
              \/ d.src = d.dst /\ \E a \in subpasses[d.src].input : Draws(d.src, a)

\* What the turn for one subpass does: the loops over its three kinds.
LEMMA VisitEffect ==
    ASSUME DescribedInv, NEW s \in ScanStates, NEW i \in DOMAIN subpasses
    PROVE  /\ Visit(s, i) \in ScanStates
           /\ \A a \in Attachment :
                 Visit(s, i).first[a] = IF s.first[a] = 0 /\ Draws(i, a) THEN i ELSE s.first[a]
           /\ ToSet(Visit(s, i).deps) =
                 ToSet(s.deps) \cup After(s.first, i, "color", subpasses[i].color)
                    \cup After(s.first, i, "depth", subpasses[i].depth)
                    \cup After(Visit(s, i).first, i, "input", subpasses[i].input)
<1>. DEFINE colors == Use(s, i, "color", subpasses[i].color)
            depth == Use(colors, i, "depth", subpasses[i].depth)
            inputs == Use(depth, i, "input", subpasses[i].input)
<1>1. /\ i \in Nat /\ "color" \in Kinds /\ "depth" \in Kinds /\ "input" \in Kinds
      /\ subpasses[i].color \in SUBSET Attachment /\ subpasses[i].depth \in SUBSET Attachment
      /\ subpasses[i].input \in SUBSET Attachment
      /\ \A a \in subpasses[i].depth : a \notin subpasses[i].color
  BY DEF DescribedInv, Kinds
<1>2. /\ colors \in ScanStates
      /\ \A a \in Attachment :
            colors.first[a] = IF a \in subpasses[i].color /\ s.first[a] = 0 THEN i ELSE s.first[a]
      /\ ToSet(colors.deps) = ToSet(s.deps) \cup After(s.first, i, "color", subpasses[i].color)
  <2>1. UsedAs(s, colors, i, "color", subpasses[i].color)
    BY <1>1, UseEffect
  <2>. QED BY <2>1 DEF UsedAs
<1>. HIDE DEF colors
<1>3. /\ depth \in ScanStates
      /\ \A a \in Attachment :
            depth.first[a] = IF a \in subpasses[i].depth /\ colors.first[a] = 0 THEN i ELSE colors.first[a]
      /\ ToSet(depth.deps) = ToSet(colors.deps) \cup After(colors.first, i, "depth", subpasses[i].depth)
  <2>1. UsedAs(colors, depth, i, "depth", subpasses[i].depth)
    BY <1>1, <1>2, UseEffect
  <2>. QED BY <2>1 DEF UsedAs
<1>. HIDE DEF depth
<1>4. /\ inputs \in ScanStates
      /\ \A a \in Attachment : inputs.first[a] = depth.first[a]
      /\ ToSet(inputs.deps) = ToSet(depth.deps) \cup After(depth.first, i, "input", subpasses[i].input)
  <2>1. UsedAs(depth, inputs, i, "input", subpasses[i].input)
    BY <1>1, <1>3, UseEffect
  <2>. QED BY <2>1 DEF UsedAs
<1>. HIDE DEF inputs
<1>5. \A a \in subpasses[i].depth : colors.first[a] = s.first[a]
  BY <1>1, <1>2
<1>6. After(colors.first, i, "depth", subpasses[i].depth) = After(s.first, i, "depth", subpasses[i].depth)
  <2>1. {b \in subpasses[i].depth : colors.first[b] # 0} = {b \in subpasses[i].depth : s.first[b] # 0}
    BY <1>5
  <2>2. \A a \in subpasses[i].depth : Dependency(colors.first[a], i, "depth", a) = Dependency(s.first[a], i, "depth", a)
    BY <1>5
  <2>. QED BY <2>1, <2>2 DEF After
<1>7. After(depth.first, i, "input", subpasses[i].input) = After(inputs.first, i, "input", subpasses[i].input)
  <2>1. \A a \in subpasses[i].input : inputs.first[a] = depth.first[a]
    BY <1>1, <1>4
  <2>2. {b \in subpasses[i].input : inputs.first[b] # 0} = {b \in subpasses[i].input : depth.first[b] # 0}
    BY <2>1
  <2>3. \A a \in subpasses[i].input : Dependency(inputs.first[a], i, "input", a) = Dependency(depth.first[a], i, "input", a)
    BY <2>1
  <2>. QED BY <2>2, <2>3 DEF After
<1>8. \A a \in Attachment : inputs.first[a] = IF s.first[a] = 0 /\ Draws(i, a) THEN i ELSE s.first[a]
  <2>1. i # 0
    BY <1>1, LenProperties DEF DescribedInv
  <2>. QED BY <1>1, <1>2, <1>3, <1>4, <2>1 DEF Draws
<1>9. Visit(s, i) = inputs
  BY DEF Visit, inputs, depth, colors
<1>10. ToSet(inputs.deps) =
          ToSet(s.deps) \cup After(s.first, i, "color", subpasses[i].color)
             \cup After(s.first, i, "depth", subpasses[i].depth)
             \cup After(inputs.first, i, "input", subpasses[i].input)
  BY <1>2, <1>3, <1>4, <1>6, <1>7
<1>. QED BY <1>4, <1>8, <1>9, <1>10

\* What visiting the first n subpasses leaves.
ScannedSoFar(s, n) ==
    /\ s \in ScanStates
    /\ \A a \in Attachment :
          \/ s.first[a] = 0 /\ \A k \in 1..n : ~Draws(k, a)
          \/ s.first[a] \in 1..n /\ FirstDraw(s.first[a], a)
    /\ \A d \in ToSet(s.deps) : Ordered(d)
    /\ \A j \in 1..n, a \in Attachment : \A i \in 1..j - 1 : FirstDraw(i, a) =>
          /\ a \in subpasses[j].color => Dependency(i, j, "color", a) \in ToSet(s.deps)
          /\ a \in subpasses[j].depth => Dependency(i, j, "depth", a) \in ToSet(s.deps)
          /\ a \in subpasses[j].input => Dependency(i, j, "input", a) \in ToSet(s.deps)

LEMMA VisitTurn ==
    ASSUME DescribedInv, NEW n \in Nat, n + 1 \in DOMAIN subpasses, NEW s, ScannedSoFar(s, n)
    PROVE  ScannedSoFar(Visit(s, n + 1), n + 1)
<1>. DEFINE i == n + 1
            r == Visit(s, i)
<1>1. /\ s \in ScanStates
      /\ \A a \in Attachment :
            \/ s.first[a] = 0 /\ \A k \in 1..n : ~Draws(k, a)
            \/ s.first[a] \in 1..n /\ FirstDraw(s.first[a], a)
      /\ \A d \in ToSet(s.deps) : Ordered(d)
  BY DEF ScannedSoFar
<1>2. /\ i \in DOMAIN subpasses /\ i \in Nat /\ i = n + 1 /\ (1..i) = (1..n) \cup {i} /\ i \notin 1..n
      /\ i - 1 = n
  OBVIOUS
<1>. HIDE DEF i
<1>3. /\ r \in ScanStates
      /\ \A a \in Attachment : r.first[a] = IF s.first[a] = 0 /\ Draws(i, a) THEN i ELSE s.first[a]
      /\ ToSet(r.deps) = ToSet(s.deps) \cup After(s.first, i, "color", subpasses[i].color)
                             \cup After(s.first, i, "depth", subpasses[i].depth)
                             \cup After(r.first, i, "input", subpasses[i].input)
  BY <1>1, <1>2, VisitEffect
<1>. HIDE DEF r
<1>4. /\ subpasses[i].color \in SUBSET Attachment /\ subpasses[i].depth \in SUBSET Attachment
      /\ subpasses[i].input \in SUBSET Attachment
      /\ "color" \in Kinds /\ "depth" \in Kinds /\ "input" \in Kinds
  BY <1>2 DEF DescribedInv, Kinds
<1>5. ASSUME NEW a \in Attachment
      PROVE  \/ r.first[a] = 0 /\ \A k \in 1..i : ~Draws(k, a)
             \/ r.first[a] \in 1..i /\ FirstDraw(r.first[a], a)
  <2>1. CASE s.first[a] = 0 /\ Draws(i, a)
    <3>1. r.first[a] = i /\ \A k \in 1..n : ~Draws(k, a)
      BY <1>1, <1>2, <1>3, <2>1
    <3>. QED BY <1>2, <2>1, <3>1 DEF FirstDraw
  <2>2. CASE ~(s.first[a] = 0 /\ Draws(i, a))
    <3>1. r.first[a] = s.first[a]
      BY <1>3, <2>2
    <3>. QED BY <1>1, <1>2, <2>2, <3>1
  <2>. QED BY <2>1, <2>2
<1>6. ASSUME NEW first \in [Attachment -> Nat], NEW kind \in Kinds, NEW used \in SUBSET Attachment,
             NEW d \in After(first, i, kind, used)
      PROVE  \E a \in used : first[a] # 0 /\ d.src = first[a] /\ d.dst = i
  <2>1. PICK a \in used : first[a] # 0 /\ d = Dependency(first[a], i, kind, a)
    BY DEF After
  <2>2. d.src = first[a] /\ d.dst = i
    BY <1>2, <2>1, DependencyTyped
  <2>. QED BY <2>1, <2>2
<1>7. s.first \in [Attachment -> Nat] /\ r.first \in [Attachment -> Nat]
  BY <1>1, <1>3 DEF ScanStates
<1>8. ASSUME NEW d \in ToSet(r.deps) PROVE Ordered(d)
  <2>1. CASE d \in ToSet(s.deps)
    BY <1>1, <2>1
  <2>2. CASE d \in After(s.first, i, "color", subpasses[i].color) \cup After(s.first, i, "depth", subpasses[i].depth)
    <3>1. PICK a \in Attachment : s.first[a] # 0 /\ d.src = s.first[a] /\ d.dst = i
      BY <1>4, <1>6, <1>7, <2>2
    <3>2. d.src \in 1..n
      BY <1>1, <3>1
    <3>. QED BY <1>2, <3>1, <3>2 DEF Ordered
  <2>3. CASE d \in After(r.first, i, "input", subpasses[i].input)
    <3>1. PICK a \in subpasses[i].input : r.first[a] # 0 /\ d.src = r.first[a] /\ d.dst = i
      BY <1>4, <1>6, <1>7, <2>3
    <3>2. a \in Attachment /\ r.first[a] \in 1..i /\ Draws(r.first[a], a)
      BY <1>4, <1>5, <3>1 DEF FirstDraw
    <3>. QED BY <1>2, <3>1, <3>2 DEF Ordered
  <2>. QED BY <1>3, <2>1, <2>2, <2>3
<1>9. ASSUME NEW j \in 1..i, NEW a \in Attachment, NEW k \in 1..j - 1, FirstDraw(k, a)
      PROVE  /\ a \in subpasses[j].color => Dependency(k, j, "color", a) \in ToSet(r.deps)
             /\ a \in subpasses[j].depth => Dependency(k, j, "depth", a) \in ToSet(r.deps)
             /\ a \in subpasses[j].input => Dependency(k, j, "input", a) \in ToSet(r.deps)
  <2>1. CASE j \in 1..n
    BY <1>3, <1>9, <2>1 DEF ScannedSoFar
  <2>2. CASE j = i
    <3>1. k \in 1..n /\ k # 0 /\ Draws(k, a) /\ \A l \in 1..k - 1 : ~Draws(l, a)
      BY <1>2, <1>9, <2>2 DEF FirstDraw
    <3>2. s.first[a] = k
      <4>1. s.first[a] \in 1..n /\ FirstDraw(s.first[a], a)
        BY <1>1, <3>1
      <4>2. ~(s.first[a] < k) /\ ~(k < s.first[a])
        BY <3>1, <4>1 DEF FirstDraw
      <4>. QED BY <3>1, <4>1, <4>2
    <3>3. r.first[a] = k
      BY <1>3, <3>1, <3>2
    <3>4. \A first, kind, used : a \in used /\ first[a] = k => Dependency(k, i, kind, a) \in After(first, i, kind, used)
      BY <3>1 DEF After
    <3>. QED BY <1>3, <2>2, <3>2, <3>3, <3>4
  <2>. QED BY <1>2, <2>1, <2>2
<1>. QED BY <1>3, <1>5, <1>8, <1>9 DEF ScannedSoFar, r, i

\* The states of the fold.
Turns == [i \in DOMAIN subpasses |-> i]

ScanRun ==
    CHOOSE it : it = [t \in SUBSET DOMAIN Turns |->
        IF t = {} THEN Unvisited ELSE LET x == Max(t) IN Visit(it[t \ {x}], Turns[x])]

LEMMA ScanIsFold == Scan = ScanRun[DOMAIN Turns]
  BY Zenon DEF Scan, FoldLeftDomain, FoldLeft, MapThenFoldSet, ScanRun, Turns

LEMMA UnvisitedTyped == ASSUME DescribedInv PROVE Unvisited \in ScanStates
  BY DEF Unvisited, Undrawn, ScanStates

LEMMA ScanRuns ==
    ASSUME DescribedInv
    PROVE  \A t \in SUBSET DOMAIN subpasses :
              ScanRun[t] = IF t = {} THEN Unvisited ELSE Visit(ScanRun[t \ {Max(t)}], Max(t))
<1>. DEFINE length == Len(subpasses)
            F == [p \in ScanStates \X (1..length) |-> Visit(p[1], p[2])]
<1>1. length \in Nat /\ DOMAIN subpasses = 1..length /\ DOMAIN Turns = 1..length
      /\ \A k \in 1..length : Turns[k] = k
  BY LenProperties DEF DescribedInv, Turns
<1>. HIDE DEF length
<1>2. F \in [ScanStates \X (1..length) -> ScanStates]
  BY <1>1, VisitEffect
<1>3. \A s \in ScanStates, k \in 1..length : F[<<s, k>>] = Visit(s, k)
  OBVIOUS
<1>. HIDE DEF F
<1>4. PICK run \in [SUBSET (1..length) -> ScanStates] : FoldsTo(run, length, Unvisited, F)
  BY <1>1, <1>2, UnvisitedTyped, FoldStates
<1>5. \A t \in SUBSET (1..length) : run[t] = IF t = {} THEN Unvisited ELSE F[<<run[t \ {Max(t)}], Max(t)>>]
  BY <1>4 DEF FoldsTo
<1>6. \A t \in SUBSET (1..length) :
         run[t] = IF t = {} THEN Unvisited ELSE LET x == Max(t) IN Visit(run[t \ {x}], Turns[x])
  <2>1. ASSUME NEW t \in SUBSET (1..length), t # {}
        PROVE  F[<<run[t \ {Max(t)}], Max(t)>>] = Visit(run[t \ {Max(t)}], Turns[Max(t)])
    <3>1. Max(t) \in t
      BY <1>1, <2>1, MaxOfPlaces
    <3>2. t \ {Max(t)} \in SUBSET (1..length) /\ Max(t) \in 1..length
      BY <3>1
    <3>. QED BY <1>1, <1>3, <3>2
  <2>. QED BY <1>5, <2>1
<1>7. run = [t \in SUBSET DOMAIN Turns |->
                IF t = {} THEN Unvisited ELSE LET x == Max(t) IN Visit(run[t \ {x}], Turns[x])]
  BY <1>1, <1>6
<1>8. ScanRun = [t \in SUBSET DOMAIN Turns |->
          IF t = {} THEN Unvisited ELSE LET x == Max(t) IN Visit(ScanRun[t \ {x}], Turns[x])]
  BY <1>7, Zenon DEF ScanRun
<1>9. \A t \in SUBSET (1..length) :
         ScanRun[t] = IF t = {} THEN Unvisited ELSE Visit(ScanRun[t \ {Max(t)}], Turns[Max(t)])
  BY <1>1, <1>8
<1>10. \A t \in SUBSET (1..length) : t # {} => Turns[Max(t)] = Max(t)
  BY <1>1, MaxOfPlaces
<1>. QED BY <1>1, <1>9, <1>10

\* What the loop over the subpasses leaves.
LEMMA Scanned ==
    ASSUME DescribedInv
    PROVE  ScannedSoFar(Scan, Len(subpasses))
<1>. DEFINE length == Len(subpasses)
            T == {n \in Nat : n <= length => ScannedSoFar(ScanRun[1..n], n)}
<1>1. length \in Nat /\ DOMAIN subpasses = 1..length /\ DOMAIN Turns = 1..length
  BY LenProperties DEF DescribedInv, Turns
<1>. HIDE DEF length
<1>2. 0 \in T
  <2>1. (1..0) = {} /\ (1..0) \in SUBSET DOMAIN subpasses
    OBVIOUS
  <2>2. ScanRun[1..0] = Unvisited
    BY <2>1, ScanRuns
  <2>3. ScannedSoFar(Unvisited, 0)
    <3>1. ToSet(Unvisited.deps) = {} /\ \A a \in Attachment : Unvisited.first[a] = 0
      BY DEF Unvisited, Undrawn, ToSet
    <3>. QED BY <2>1, <3>1, UnvisitedTyped DEF ScannedSoFar
  <2>. QED BY <2>2, <2>3
<1>3. ASSUME NEW n \in T PROVE n + 1 \in T
  <2>1. SUFFICES ASSUME n + 1 <= length PROVE ScannedSoFar(ScanRun[1..n + 1], n + 1)
    OBVIOUS
  <2>2. n \in Nat /\ ScannedSoFar(ScanRun[1..n], n)
    BY <1>1, <2>1
  <2>3. (1..n + 1) \in SUBSET DOMAIN subpasses /\ n + 1 \in DOMAIN subpasses
    BY <1>1, <2>1, <2>2
  <2>4. (1..n + 1) # {} /\ (1..n + 1) \ {n + 1} = 1..n /\ Max(1..n + 1) = n + 1
    BY <2>2, FirstPlaces
  <2>5. ScanRun[1..n + 1] = Visit(ScanRun[1..n], n + 1)
    BY <2>3, <2>4, ScanRuns
  <2>. QED BY <2>2, <2>3, <2>5, VisitTurn
<1>4. length \in T
  <2>1. T \in SUBSET Nat
    OBVIOUS
  <2>. HIDE DEF T
  <2>. QED BY <1>1, <1>2, <1>3, <2>1, Induction
<1>. QED BY <1>1, <1>4, ScanIsFold DEF length

\* What is derived for whatever has been described.
LEMMA Derived ==
    ASSUME DescribedInv
    PROVE  BuilderInv /\ DependenciesSuffice
<1>. DEFINE deps == create_subpass_dependencies
            length == Len(subpasses)
<1>1. length \in Nat /\ DOMAIN subpasses = 1..length
  BY LenProperties DEF DescribedInv
<1>2. ScannedSoFar(Scan, length)
  BY Scanned
<1>3. Scan.deps \in Seq(Dependencies)
  BY <1>2 DEF ScannedSoFar, ScanStates
<1>4. MergedSoFar(Scan.deps, deps, Len(Scan.deps)) /\ DOMAIN Scan.deps = 1..Len(Scan.deps)
  BY <1>3, Merged, LenProperties DEF create_subpass_dependencies
<1>. HIDE DEF deps, length
<1>5. \A m \in DOMAIN deps : \E d \in ToSet(Scan.deps) : SamePair(deps[m], d)
  BY <1>4 DEF MergedSoFar, ToSet
<1>6. \A d \in ToSet(Scan.deps) : \E e \in ToSet(deps) : Covers(e, d)
  BY <1>4 DEF MergedSoFar, ToSet
<1>7. MergedOnce
  BY <1>4 DEF MergedSoFar, MergedOnce, deps
<1>8. Forward
  <2>1. ASSUME NEW d \in ToSet(deps)
        PROVE  \/ d.src < d.dst
               \/ d.src = d.dst /\ \E a \in subpasses[d.src].input : Draws(d.src, a)
    <3>1. PICK e \in ToSet(Scan.deps) : d.src = e.src /\ d.dst = e.dst
      BY <1>5 DEF ToSet, SamePair
    <3>. QED BY <1>2, <3>1 DEF ScannedSoFar, Ordered
  <2>. QED BY <2>1 DEF Forward, deps
<1>9. ASSUME NEW i \in DOMAIN subpasses, NEW j \in DOMAIN subpasses, NEW a \in Attachment, i < j, FirstDraw(i, a),
             NEW kind \in Kinds,
             \/ kind = "color" /\ a \in subpasses[j].color
             \/ kind = "depth" /\ a \in subpasses[j].depth
             \/ kind = "input" /\ a \in subpasses[j].input
      PROVE  \E d \in ToSet(deps) : Covers(d, Dependency(i, j, kind, a))
  <2>1. j \in 1..length /\ i \in 1..j - 1
    BY <1>1, <1>9
  <2>2. Dependency(i, j, kind, a) \in ToSet(Scan.deps)
    BY <1>2, <1>9, <2>1 DEF ScannedSoFar
  <2>. QED BY <1>6, <2>2
<1>10. ReadAfterWrite
  <2>1. ASSUME NEW i \in DOMAIN subpasses, NEW j \in DOMAIN subpasses, NEW a \in subpasses[j].input,
               i < j, {k \in 1..j : Draws(k, a)} = {i}
        PROVE  \E d \in ToSet(deps) :
                    /\ d.src = i /\ d.dst = j
                    /\ DrawStages(a) \subseteq d.srcStages /\ DrawAccess(a) \subseteq d.srcAccess
                    /\ "FRAGMENT_SHADER" \in d.dstStages /\ "INPUT_READ" \in d.dstAccess
    <3>1. a \in Attachment /\ i \in Nat /\ j \in Nat /\ "input" \in Kinds
      BY <1>1 DEF DescribedInv, Kinds
    <3>2. FirstDraw(i, a)
      <4>1. Draws(i, a)
        BY <2>1
      <4>2. \A k \in 1..i - 1 : k \in 1..j /\ k # i
        BY <2>1, <3>1
      <4>. QED BY <2>1, <4>1, <4>2 DEF FirstDraw
    <3>3. PICK d \in ToSet(deps) : Covers(d, Dependency(i, j, "input", a))
      BY <1>9, <2>1, <3>1, <3>2
    <3>. QED BY <3>1, <3>3, DependencyTyped DEF Covers, SamePair
  <2>. QED BY <2>1 DEF ReadAfterWrite, deps
<1>11. DrawsOrdered
  <2>1. ASSUME NEW i \in DOMAIN subpasses, NEW j \in DOMAIN subpasses, NEW a \in Attachment,
               i < j, Draws(i, a), Draws(j, a), \A k \in 1..i - 1 : ~Draws(k, a)
        PROVE  \E d \in ToSet(deps) :
                    /\ d.src = i /\ d.dst = j
                    /\ DrawStages(a) \subseteq d.srcStages /\ DrawAccess(a) \subseteq d.srcAccess
                    /\ DrawStages(a) \subseteq d.dstStages /\ Awaiting(a) \subseteq d.dstAccess
    <3>1. i \in Nat /\ j \in Nat /\ FirstDraw(i, a)
      BY <1>1, <2>1 DEF FirstDraw
    <3>2. PICK kind \in Kinds : \/ kind = "color" /\ a \in subpasses[j].color
                                \/ kind = "depth" /\ a \in subpasses[j].depth
      BY <2>1 DEF Kinds, Draws
    <3>4. /\ kind = "color" => ~attachments[a].depth
          /\ kind = "depth" => attachments[a].depth
      BY <3>2 DEF DescribedInv
    <3>5. /\ DrawStages(a) \subseteq Dependency(i, j, kind, a).dstStages
          /\ Awaiting(a) \subseteq Dependency(i, j, kind, a).dstAccess
      BY <3>2, <3>4 DEF Dependency, Awaiting
    <3>3. PICK d \in ToSet(deps) : Covers(d, Dependency(i, j, kind, a))
      BY <1>9, <2>1, <3>1, <3>2
    <3>. QED BY <3>1, <3>3, <3>5, DependencyTyped DEF Covers, SamePair
  <2>. QED BY <2>1 DEF DrawsOrdered, deps
<1>12. InputFlagged
  BY DEF DescribedInv
<1>. QED BY <1>7, <1>8, <1>10, <1>11, <1>12 DEF BuilderInv, DependenciesSuffice

\* A new attachment leaves the others.
LEMMA AttachmentAdded ==
    ASSUME DescribedInv, NEW depth \in BOOLEAN, add_attachment(depth)
    PROVE  DescribedInv'
<1>. DEFINE new == [depth |-> depth, input |-> FALSE]
<1>1. attachments' = Append(attachments, new) /\ subpasses' = subpasses
  BY DEF add_attachment
<1>2. attachments \in Seq(Attached) /\ new \in Attached /\ new.input = FALSE
  BY DEF DescribedInv, Attached
<1>. HIDE DEF new
<1>3. /\ attachments' \in Seq(Attached) /\ Len(attachments) \in Nat
      /\ Attachment = 1..Len(attachments) /\ Attachment' = 1..Len(attachments) + 1
      /\ attachments'[Len(attachments) + 1] = new
      /\ \A a \in Attachment : attachments'[a] = attachments[a]
  <2>1. Append(attachments, new) \in Seq(Attached) /\ Len(Append(attachments, new)) = Len(attachments) + 1
    BY <1>2, AppendFacts
  <2>2. DOMAIN attachments' = 1..Len(attachments) + 1
    BY <1>1, <1>2, AppendFacts
  <2>. QED BY <1>1, <1>2, <2>1, <2>2, AppendFacts DEF Attachment
<1>4. /\ Attachment \subseteq Attachment' /\ Len(attachments) + 1 \notin Attachment
      /\ \A a \in Attachment' : a = Len(attachments) + 1 \/ a \in Attachment
  BY <1>3
<1>5. \A i \in DOMAIN subpasses :
         /\ subpasses[i].color \cup subpasses[i].depth \cup subpasses[i].input \subseteq Attachment
         /\ \A a \in subpasses[i].color : ~attachments[a].depth
         /\ \A a \in subpasses[i].depth : attachments[a].depth
  BY DEF DescribedInv
<1>6. ASSUME NEW i \in DOMAIN subpasses'
      PROVE  /\ subpasses'[i].color \cup subpasses'[i].depth \cup subpasses'[i].input \subseteq Attachment'
             /\ \A a \in subpasses'[i].color : ~attachments'[a].depth
             /\ \A a \in subpasses'[i].depth : attachments'[a].depth
  BY <1>1, <1>3, <1>4, <1>5
<1>7. InputFlagged'
  <2>1. ASSUME NEW a \in Attachment'
        PROVE  attachments'[a].input <=> \E i \in DOMAIN subpasses : a \in subpasses[i].input
    <3>1. CASE a \in Attachment
      BY <1>3, <3>1 DEF DescribedInv, InputFlagged
    <3>2. CASE a = Len(attachments) + 1
      BY <1>2, <1>3, <1>4, <1>5, <3>2
    <3>. QED BY <1>4, <3>1, <3>2
  <2>. QED BY <1>1, <2>1 DEF InputFlagged
<1>8. subpasses' \in Seq(Described)
  BY <1>1 DEF DescribedInv
<1>. QED BY <1>3, <1>6, <1>7, <1>8 DEF DescribedInv

\* A new subpass flags what it reads.
LEMMA SubpassAdded ==
    ASSUME DescribedInv, NEW colors \in SUBSET Attachment, NEW depth \in SUBSET Attachment,
           NEW inputs \in SUBSET Attachment, add_subpass(colors, depth, inputs)
    PROVE  DescribedInv'
<1>. DEFINE new == [color |-> colors, depth |-> depth, input |-> inputs]
<1>1. /\ subpasses' = Append(subpasses, new) /\ attachments' = Flag(inputs)
      /\ \A a \in colors : ~attachments[a].depth
      /\ \A a \in depth : attachments[a].depth
  BY DEF add_subpass
<1>2. /\ attachments \in Seq(Attached) /\ Attachment = 1..Len(attachments) /\ Len(attachments) \in Nat
      /\ Attachment \in SUBSET Nat /\ subpasses \in Seq(Described)
  BY AttachmentsFinite, LenProperties DEF DescribedInv, Attachment
<1>3. new \in Described /\ new.color = colors /\ new.depth = depth /\ new.input = inputs
  BY <1>2 DEF Described
<1>. HIDE DEF new
<1>4. /\ subpasses' \in Seq(Described) /\ Len(subpasses) \in Nat
      /\ DOMAIN subpasses = 1..Len(subpasses) /\ DOMAIN subpasses' = 1..Len(subpasses) + 1
      /\ subpasses'[Len(subpasses) + 1] = new
      /\ \A i \in DOMAIN subpasses : subpasses'[i] = subpasses[i]
  BY <1>1, <1>2, <1>3, AppendFacts
<1>5. \A i \in DOMAIN subpasses' : i \in DOMAIN subpasses \/ i = Len(subpasses) + 1
  BY <1>4
<1>6. /\ DOMAIN attachments' = Attachment
      /\ \A a \in Attachment : /\ attachments'[a] \in Attached
                               /\ attachments'[a].depth = attachments[a].depth
                               /\ attachments'[a].input = (attachments[a].input \/ a \in inputs)
  <2>1. \A a \in Attachment : attachments[a] \in Attached
    BY <1>2
  <2>2. \A a \in Attachment : attachments'[a] = [attachments[a] EXCEPT !.input = @ \/ a \in inputs]
    BY <1>1 DEF Flag
  <2>3. DOMAIN attachments' = Attachment
    BY <1>1 DEF Flag
  <2>. QED BY <2>1, <2>2, <2>3 DEF Attached
<1>7. attachments' \in Seq(Attached) /\ Attachment' = Attachment
  <2>1. attachments' \in [1..Len(attachments) -> Attached]
    <3>1. attachments' = [a \in Attachment |-> attachments'[a]]
      BY <1>1 DEF Flag
    <3>. QED BY <1>2, <1>6, <3>1
  <2>2. attachments' \in Seq(Attached)
    BY <1>2, <2>1, SeqDef
  <2>. QED BY <1>6, <2>2 DEF Attachment
<1>8. \A i \in DOMAIN subpasses :
         /\ subpasses[i].color \cup subpasses[i].depth \cup subpasses[i].input \subseteq Attachment
         /\ \A a \in subpasses[i].color : ~attachments[a].depth
         /\ \A a \in subpasses[i].depth : attachments[a].depth
  BY DEF DescribedInv
<1>9. ASSUME NEW i \in DOMAIN subpasses'
      PROVE  /\ subpasses'[i].color \cup subpasses'[i].depth \cup subpasses'[i].input \subseteq Attachment'
             /\ \A a \in subpasses'[i].color : ~attachments'[a].depth
             /\ \A a \in subpasses'[i].depth : attachments'[a].depth
  <2>1. CASE i \in DOMAIN subpasses
    BY <1>4, <1>6, <1>7, <1>8, <2>1
  <2>2. CASE i = Len(subpasses) + 1
    BY <1>1, <1>3, <1>4, <1>6, <1>7, <2>2
  <2>. QED BY <1>5, <2>1, <2>2
<1>10. InputFlagged'
  <2>1. ASSUME NEW a \in Attachment
        PROVE  attachments'[a].input <=> \E i \in DOMAIN subpasses' : a \in subpasses'[i].input
    <3>1. attachments[a].input <=> \E i \in DOMAIN subpasses : a \in subpasses[i].input
      BY DEF DescribedInv, InputFlagged
    <3>2. a \in inputs <=> a \in subpasses'[Len(subpasses) + 1].input
      BY <1>3, <1>4
    <3>3. attachments[a].input \in BOOLEAN
      <4>1. attachments[a] \in Attached
        BY <1>2
      <4>. QED BY <4>1 DEF Attached
    <3>4. DOMAIN subpasses \subseteq DOMAIN subpasses' /\ Len(subpasses) + 1 \in DOMAIN subpasses'
      BY <1>4
    <3>5. (\E i \in DOMAIN subpasses' : a \in subpasses'[i].input) <=>
             ((\E i \in DOMAIN subpasses : a \in subpasses[i].input) \/ a \in subpasses'[Len(subpasses) + 1].input)
      BY <1>4, <1>5, <3>4
    <3>. QED BY <1>6, <3>1, <3>2, <3>3, <3>5
  <2>. QED BY <1>7, <2>1 DEF InputFlagged
<1>. QED BY <1>4, <1>7, <1>9, <1>10 DEF DescribedInv

LEMMA NothingDescribed ==
    ASSUME attachments = <<>>, subpasses = <<>>
    PROVE  DescribedInv
<1>1. attachments \in Seq(Attached) /\ subpasses \in Seq(Described) /\ DOMAIN attachments = {} /\ DOMAIN subpasses = {}
  OBVIOUS
<1>. QED BY <1>1 DEF DescribedInv, InputFlagged, Attachment

LEMMA Describing == PassesSpec => []DescribedInv
<1>1. BuilderAndPassInit => DescribedInv
  BY NothingDescribed DEF BuilderAndPassInit, BuilderInit
<1>2. DescribedInv /\ [PassesNext]_passesVars => DescribedInv'
  <2>. SUFFICES ASSUME DescribedInv, [PassesNext]_passesVars PROVE DescribedInv'
    OBVIOUS
  <2>1. CASE UNCHANGED describedVars
    <3>1. attachments' = attachments /\ subpasses' = subpasses
      BY <2>1 DEF describedVars
    <3>. QED BY <3>1 DEF DescribedInv, InputFlagged, Attachment
  <2>2. CASE DropBuilder
    <3>1. attachments' = <<>> /\ subpasses' = <<>>
      BY <2>2 DEF DropBuilder
    <3>2. /\ attachments' \in Seq(Attached) /\ subpasses' \in Seq(Described)
          /\ DOMAIN attachments' = {} /\ DOMAIN subpasses' = {}
      BY <3>1
    <3>. QED BY <3>2 DEF DescribedInv, InputFlagged, Attachment
  <2>3. ASSUME NEW depth \in BOOLEAN, add_attachment(depth) PROVE DescribedInv'
    BY <2>3, AttachmentAdded
  <2>4. ASSUME NEW colors \in SUBSET Attachment, NEW depth \in SUBSET Attachment,
               NEW inputs \in SUBSET Attachment, add_subpass(colors, depth, inputs)
        PROVE  DescribedInv'
    BY <2>4, SubpassAdded
  <2>5. CASE Describe
    BY <2>3, <2>4, <2>5 DEF Describe, BuilderNext
  <2>6. CASE Draw
    BY <2>1, <2>6 DEF Draw, builderVars
  <2>7. ASSUME NEW n \in 1..MaxLayers, set_layer_count(n) PROVE DescribedInv'
    BY <2>1, <2>7 DEF set_layer_count
  <2>8. ASSUME NEW e \in Size, build(e) PROVE DescribedInv'
    BY <2>2, <2>8 DEF build
  <2>9. CASE BuildLost \/ UNCHANGED passesVars
    BY <2>1, <2>9 DEF BuildLost, passesVars, builderVars
  <2>. QED BY <2>5, <2>6, <2>7, <2>8, <2>9 DEF PassesNext
<1>. QED BY <1>1, <1>2, PTL DEF PassesSpec

\* What a builder derives is well formed: exactly what is read is flagged, a
\* pair of subpasses has one dependency, and none points backwards
\* (add_subpass, merge_dependencies), for any attachments and subpasses.
THEOREM BuiltWellFormed == PassesSpec => []BuilderInv
<1>1. DescribedInv => BuilderInv
  BY Derived
<1>. QED BY <1>1, Describing, PTL

\* Through the whole loop and whatever is merged, a read of an attachment that
\* one subpass has drawn to waits for its writes, and colour writes and depth
\* tests' reads of a subpass that draws again wait for the writes of the first
\* that drew (create_subpass_dependencies), for any attachments and subpasses.
\* A depth write after a depth write, a draw after a read and a read after a
\* second draw are not ordered.
THEOREM DependenciesOrder == PassesSpec => []DependenciesSuffice
<1>1. DescribedInv => DependenciesSuffice
  BY Derived
<1>. QED BY <1>1, Describing, PTL
=============================================================================
