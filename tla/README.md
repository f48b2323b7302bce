# Verification of vulkan_engine2_core

TLA+ models, TLC runs and TLAPS proofs kept beside the engine core
(`src/src`, C++20 over Vulkan). The engine has no tests and no design
documents: the code, its assertions and its comments are the reference. File
names below are relative to `src/src` unless they say otherwise.

`PROJECT.json` lists every component with its status, every run, every hazard at
its line, and which lines each definition models.

1. [The system](#1-the-system)
2. [The modules and the code](#2-the-modules-and-the-code)
3. [What the runs check](#3-what-the-runs-check)
4. [Fairness](#4-fairness)
5. [What is proved](#5-what-is-proved)
6. [Disagreements and things to know](#6-disagreements-and-things-to-know)
7. [What is not modelled](#7-what-is-not-modelled)
8. [The plan](#8-the-plan)

## 1. The system

| part | state it keeps | operations | what is hard | what makes it correct |
|---|---|---|---|---|
| Resource, RCResource (`vk_resource.hpp`) | atomic count, ownership, pointer of each handle | construct, copy, move, assign, drop, delete | two threads on one counter; chains of deletions | the count is the number of handles; deleted once, after the last release |
| shader hot reload (`pipeline/loader/hot_reload`) | watch tables, stamps, current and pending build | load, scan, reload, bind, destroy, stop | three threads, one lock, files that change at any time | what is recorded stays alive; stop is final; the last edit is built |
| CommandBuffer, CommandPool | bound pipeline, postponed binds, dependencies, recycled buffers | record, bind, reset, recycle | state that outlives a recording; use by the device after recording | a recorded pipeline outlives its execution; skipped binds are redundant |
| DescriptorPool | current, free and used pools | allocate, reset, destroy | pools full at any call; reset with some pools used | each pool in one place; no creeping growth |
| Surface, WindowRenderPass (`window`, `renderpass`) | semaphores per image, image index, framebuffers | prepare, present, recreate, begin, resize | resize between any two calls; several frames in flight; images in any order | no semaphore reused while pending; framebuffers of the present swapchain |
| MultiPassRenderPass, RenderPassBuilder | framebuffers, attachments, subpass dependencies | add, build, begin, next, resize | resize while frames are in flight; derived dependencies | reads ordered after writes; framebuffers outlive their frames |
| DenseHashMap (`util/hash_map.hpp`) | index table, dense keys and values | insert, erase, lookup, sort, grow | tombstones, growth inside an insertion | it is a finite map |
| IDManager, ArenaAllocator, StencilBuffer, GPUTimer (`util`, `debug`) | free ids; a cursor; staging blocks; query counter | acquire, free, allocate, flush, timestamp | exhaustion, alignment, repeated flush, first use | ids unique; blocks apart; staged data safe; queries in step |
| SlimVec, SmallVec (`util/slim_vec.hpp`) | inline or heap storage, size, capacity | push, move, copy, reserve | switch between the two storages | it is a sequence |
| VulkanContext, layout destroy queue | global context, fence of each thread, queue of layouts | immediate_submit, build a layout, init, cleanup | timeouts; threads that outlive a context; a shared queue | one submission per fence; every layout destroyed once, before its device |
| GrowableBuffer, VirtualAllocator | blocks bound to a sparse buffer; a virtual block and its highest end | resize; allocate, free, move | odd sizes; moves that forget half the state | each byte bound once; one owner, and a highest end that bounds what is in use |
| PipelineReflection, layouts, builders (`pipeline`) | shaders and their bindings, builder state | add a shader, set, build | merging of stages; builds that fail; memory nobody initialised | the layout serves every stage; the pipeline is what was asked for |
| DebugPipelineLoader | descriptions, files, set layouts by name | read files, set the provider, load | files given up midway, which describe the same names | a pipeline is what was described last |
| FunctionTimer | a tree of timings per thread | begin, end, report | threads that end at any time | every call is counted once |

How they interact:

- Every GPU object is a `Resource`. A `CommandBuffer` keeps what it recorded in
  `m_dependent_resources`, a list of `RCResource` handles, until it is reset or
  destroyed. This is the one mechanism that keeps objects alive while the device
  uses them; a `Framebuffer` keeps its image views the same way. `RefCount`
  models the mechanism once; `CommandRecording`, `HotReload`, `Presentation`,
  `MultiPassRenderPass` and `StencilBuffer` model its uses, as sets of handles.
- The `ReloadablePipeline` is a facade: `bind_pipeline` first lets it swap in
  the build that the watcher thread has published, then records the build and
  keeps a reference of it (`EXTERNAL` ownership forwards to the build).
- A `WindowRenderPass` follows the `Surface` it draws to by comparing image
  views at `begin`. A `MultiPassRenderPass` is what a `RenderPassBuilder` leaves.
- Everything is made through the one `VulkanContext`, whose `immediate_submit` any
  thread may call; `GrowableBuffer` uses the same fence of the thread, and
  `DescriptorSetLayoutBuilder` leaves its layouts in a queue that the context
  destroys. The loader builds its set layouts and pipelines with the builders.
- The engine runs one application thread, the watcher of the hot reload, and
  the device. Handles may be copied and dropped in any thread.

## 2. The modules and the code

Each component has a module of its own; names of the code are kept. An `MC`
module instantiates it for TLC and a `Proofs` module holds its theorems:
`RefCountProofs`, `HotReloadProofs`, `CommandRecordingProofs`, `DeviceProofs`
(descriptor pool and context), `PipelineProofs` (builders and loader),
`RenderPassesProofs` (both kinds of render pass) and `UtilitiesProofs`, which
use the lemmas of `DataLemmas`. A
definition with a name like `ReleaseForgetsDelete`, which stands before the one
it varies and is not used by `Next`, is a fault that the properties are tried
against: `PROJECT.json` says which property must catch which.

**RefCount** (`vk_resource.hpp`, `vk_resource.cpp`, and the members of a
`Framebuffer`). A slot is one `RCResource` object, `ptr` its `m_ptr`, `count` the
atomic `m_ref_count`, `own` the life of a resource: `unborn`, `owned`
(`unique_ptr`), `counted`, `deleted`. `Home` says which slots are members of
which resource. A call of a thread is split where another thread sees the
difference: at each `fetch_add` (`Increment`), each `fetch_sub` (`Release`) and
each `delete` (`Delete`, which hands the members' destructors to the same
thread). `pc`, `dst`, `src`, `obj` are the registers of the call, `drain` and
`victims` its stack of destructors. Copy assignment is release first, then copy,
as in the code. The contract of any C++ handle is assumed: two threads do not
write one handle object, or write it while the other reads it (`MayWrite`,
`MayRead`), and members are filled while their resource is still being built. A
member is read through a free handle on its resource (`via`; one level, `a->m`,
not `a->m->n`), which may be the very handle a copy assignment writes: `a = a->m`
releases first and then reads `other.m_ptr`, which may have been deleted with its
resource. `ReadGone` and `IncrementGone` are the steps that touch freed memory;
what follows is undefined, so the program stops with `lost` set.

**HotReload** (`hot_reloader.cpp`, `reloadable_pipeline.cpp`, and `load` of
`debug_loader.cpp`). The watcher (`BeginScan`, `ScanFile`, `BeginReload`,
`SetPipeline`, `Sleep`...), the application (`Load`, `RegisterFile`, `Destroy`,
`RemoveWatchedPipeline`, `Stop`, `Join`) and a recorder (`Bind`, `Swap`,
`Record`, `Reference`) interleave; an editor saves, breaks and removes files at
any step. `mutex` is `m_lock`; `stamp` and `watchers` are `m_watched_files`;
`described` is the key set of `m_reload_descriptions`. A build is identified by
the file versions its compile has read, so that "the build of the last edit"
can be said. `crashed` records a process lost to an uncaught exception or to the
use of a destroyed pipeline.

**AbstractMap, DenseHashMap** (`util/hash_map.hpp`). `AbstractMap` is a finite
map with the answers of `std::unordered_map`. `DenseHashMap` has the index
table, the dense arrays, linear probing and tombstones; `_reserve`, each turn of
`_rehash_all` and each turn of the recursion of `_insert` are steps. `Contents`
is the refinement mapping.

**CommandRecording** (`commandbuffer.cpp`, `command_pool.cpp`). The
`CommandBuffer` object (`handle`, `current`, `point`, `postponed`, `deps`), the
pool's recycling lists, and the device's own state of each Vulkan buffer
(`phase`, `bound`, `device`, `used`). Pipelines are addresses with a
`generation`: another pipeline may be made where a destroyed one was, which is
what a comparison of pointers cannot see. `begin` on a buffer that was reset is
`BeginFresh`, on a recorded one `BeginAgain`: the pool allows the implicit reset
(`command_pool.cpp:15`), and `m_current_pipeline` stays. It also stays in
`execute_secondaries`, after which Vulkan leaves undefined what the primary has
bound (`Forgotten`). `stale` remembers these two until the next pipeline is bound.

**DescriptorPool** (`descriptor_pool.cpp`). `current`, `free` and `put` are
`m_current_pool`, `m_free_pools` and `m_used_pools`; `taken` is the device's
account of each pool. `allocate_set` is a job of several steps because it calls
itself through `next_pool`. `held` and `peak` remember the demand.

**VulkanContext** (`vulkan_context.cpp`, `growable_buffer.cpp` and the queue of
`descriptor_set_layout_builder.cpp`). Threads (`pc`) record, submit and wait;
`fence` remembers which context each thread's fence was made with; `jobs` are the
submissions the device has not done. `TimeOut` is the end of the ten seconds of
`immediate_submit`, in a build with or without `assert` (`checked`). `resize`
binds blocks behind those there are; `CreateLayout` and `Enqueue` are the two
halves of `build`, before and inside the lock; `init` and `cleanup_conext` begin
and end contexts, one after the other. A call on the queue (`vkQueueSubmit`,
`vkQueueBindSparse`) takes time: it is entered (`EnterSubmit`, `resize`) and left
(`Submit`), and two threads may be inside at once, since the code takes no lock.
`misuse` collects what was used against Vulkan's rules ("queue" is that overlap,
after which submissions may be lost), `risk` what the environment did that
explains it ("shared": a thread began such a call while another was in one).

**PipelineLayouts, PipelineBuilder, DebugLoader** (`pipeline/shader_reflection`,
`pipeline/builders`, `pipeline/pipeline.cpp`, `pipeline/loader/debug_loader.cpp`).
`PipelineLayouts` has the merge of the stages' bindings as operators: a shader is
its stage, the places it uses and its push constants. `PipelineBuilder` is both
builders, from the constructor (with arbitrary `m_shader_stages`, and the depth
test turned off) to the destructor of the pipeline, with builds the device refuses;
`asked` is what the application set. `DebugLoader` extends
it: files are read to the end or given up, later descriptions replace earlier
ones, every provider gets its own set layouts, and `load` looks up, checks and
builds.

**Presentation** (`window/surface.cpp`, `renderpass/windowed_renderpass.cpp`).
Surface, render pass, the device's running frames, and the presentation engine
in FIFO mode, with the frame loop an application must write: prepare, begin,
submit, present, and recreate at rest. `Acquire` hands out any image of `ready`,
those the engine neither has to show nor shows; `GiveBack` lets the engine be done
with the image it shows before it shows the next. `loose` names the images whose
semaphore may be asked for while a frame still waits with it. `views` stands for
the handles of the image views, which `begin` compares: those of a new swapchain
may be the ones of destroyed views (`Handles`), as the code destroys the old views
before it makes the new.

**MultiPassRenderPass, RenderPassBuilder, RenderPasses**
(`renderpass/multi_pass_renderpass.cpp`, `renderpass.cpp`,
`renderpass_builder.cpp`). The builder adds attachments and subpasses and
derives and merges the subpass dependencies (folds over the uses, in the order
of the code's loops). The pass remakes its framebuffers in batches while frames
run. `RenderPasses` composes them: describe, `build`, draw. The constructor reads
`info.depth_attachment` of every subpass, also of one that has none: `build` is
what happens if the bytes name some attachment, `BuildLost` the other outcomes.

**SlimVec, AbstractVector** (`util/slim_vec.hpp`). `AbstractVector` is a set of
sequences. `SlimVec` is a `SmallVec` with its bytes: `m_size` says whether the
elements are inline (`slots`) or on the heap (`m_data`, `m_capacity`), and a
vector that stops being inline keeps what the bytes held. `malloc(0)` returns a
block or nothing, as the platform chooses (`zero`). A `const T&` may be an element
of the vector itself (`push_back_own`, `insert_own`, `resize_own`), and `erase_at`
may be asked to erase nothing (`erase_none`). Every step of both modules carries
the call's name and arguments (`call`), so the refinement compares call with call.
`Elements` is the refinement mapping; after a call has gone through memory that is
not the vector's, nothing is promised (`lost`). `spent`, `aliased` and `leaked`
remember the three things the code does not provide (section 6).

**ArenaAlloc, IDManager, StencilBuffer, GPUTimer, VirtualAllocator**
(`util/arena_alloc.cpp`, `util/id_manager.hpp`, `util/stencil_buffer.cpp`,
`debug/gpu_timer.cpp`, `util/virtual_allocator.cpp`). Small classes.

Parts that share no state are checked in one run without their product: the `MC`
module's variable `used` chooses at first which part a behaviour is about, and
the others stay as they are. `MCUtilities` has seven such classes (arena, ids,
staging, timer, map, vectors, virtual allocator), `MCDevice` the descriptor pool,
the context, the builder and the loader, `MCRenderPasses` the two kinds of render
pass. `MCRefCount` chooses in the same way whether a behaviour has a third free
handle or a third resource.

## 3. What the runs check

Properties in parentheses are the named parts of an invariant. `TypeOK` is a
part of each first invariant.

| run | instance | properties |
|---|---|---|
| `refcount` | two threads, two containers with a member each, two free handles, and a third handle or a plain resource | `IInv` (the count is the number of handles; slots used exclusively), `NoDangling`, `NoOrphans`, `ReleasedIsDeleted` |
| `hotreload` | two pipelines on one file, two saves, which may also vanish, destroyed at any time | `Inv` (`WatchTables`, `PendingIffUpdated`), `RecordedAlive`, `ReloadsInOrder` (`StopIsFinal`, `ReloadsForward`) |
| `hotreload_live` | one pipeline of two files, two saves each, destroyed after `stop()` | `NoUseAfterDestroy`, `StopReturns`, `EventuallyFresh` |
| `hotreload_race` | one pipeline, one file, destroyed at any time | `NoUseAfterDestroy`, violated |
| `commands` | two `CommandBuffer`s, two Vulkan buffers, a counted graphics and an owned compute pipeline, two sets at one index | `Inv` (`OneOwner`, `LevelsApart`), `SkipIsSound`, `UsedExists`, `LastAskedWins` |
| `commands_stale_bind` | as `commands` | `PipelineBoundFirst`, violated |
| `device` | pools of three units, sets of one and two, up to nine held; two threads of two calls, two contexts, five bytes in blocks of two; two set numbers, pipelines of two shaders; three files, two providers, two loads | `IInv` (`EachPoolOnce`, `FreeIsEmpty`), `PoolsFollowDemand`, `DestroysEach`, `AllocateReturns`; `ContextInv` (`UsesExplained`, `WaitsForOwn`, `TornDown`), `BlocksBound`, `CallsReturn`; `PipelinesInv` (`OwnsLayout`, `LayoutServes`, `StateAsAsked`, `TopologyAsAsked`); `LoadedAsDescribed` |
| `render_passes` | two attachments, three subpasses, then one or two layers, four batches, two frames in flight, a target of either size or none; or swapchains of two and three images, three of them in turn, two frames in flight, two window sizes | `PassInv` (`AreaFits`, `FirstKept`), `BuilderInv` (`InputFlagged`, `MergedOnce`, `Forward`), `DependenciesSuffice` (`ReadAfterWrite`, `DrawsOrdered`); `SurfaceInv` (`PrepareAsserts`), `SemaphoresFresh` (`AcquireFresh`, `RenderedFresh`), `DrawsToAcquired`, `WindowFramebufferKept` |
| `render_pass_layers` | two layers, no target | `FramebufferKept`, violated |
| `utilities` | an arena of seven words; four ids; a staging buffer of four bytes; three queries; three colliding keys in storage grown from 1 to 3 to 7; two vectors of at most three elements of two values, two of them inline; two virtual allocators and two blocks of three | `ArenaInv`, `IdsUnique`, `StagingInv` (`StagedApart`, `SourcesKept`), `QueriesInStep`; `MapInv` (`EveryKeyFound`, `NoStrayIndex`, `StorageSuffices`), `ImplementsMap`, `InsertEnds`; `SlimVecInv` (`VecsSound`), `ImplementsVectors`; `VirtualInv` |
| `staging_flush` | as `utilities` | `FlushedIsCopied`, violated |
| `slim_vec_move` | as `utilities` | `HeapPointersOwned`, violated |

What they show:

- **refcount**. With every interleaving of the atomic steps, no handle or
  pending increment refers to a deleted resource, no group of resources is kept
  alive by itself only, and a resource whose last handle is gone is deleted.
  Chains of deletions through both containers occur. One use of freed memory
  occurs too, and `NoDangling` says that it is the only one: a copy assignment over
  the handle its source was reached through (`LostByReplacing`).
- **hotreload**. When `m_lock` is free the two tables agree and name only
  pipelines that exist; `reload()` never takes a null build; a build recorded in
  a command buffer lives through swaps and destructions; a watcher that was
  stopped publishes nothing; builds never go back to older files.
  **hotreload_live** adds that `stop()` returns and that the last edits are
  built, and that the race of the next run needs a destructor before `stop()`.
- **commands**. No Vulkan buffer has two owners or the wrong level; skipping a
  bind is right even when addresses are reused, until secondaries are executed or
  the buffer is begun again without a reset; a recorded pipeline outlives its
  execution although the application has dropped it; a bound pipeline sees the
  last set asked for since the render pass began or ended, secondaries were
  executed or the recording began. **commands_stale_bind** shows what those two
  calls do to the skipped bind.
- **device**. No pool is lost, allocated from after it was put aside, or destroyed
  twice, and the number of pools follows the largest demand. A fence serves one
  submission at a time and each thread waits for its own; the queue is used by one
  thread at a time as long as calls do not overlap, which nothing in the code
  ensures; no layout survives its device; every byte below the size of a growable
  buffer is bound once; calls return, the submissions by their timeout. A pipeline
  owns its layout, the layout has what each stage uses, and the state is the
  subpass's or what was set (of a depth test never set nothing is claimed: the
  comment of the header and the code disagree). What is loaded
  is the description registered last, with the set layouts of its provider, and a
  set layout is missed only when its file was given up. The exceptions are
  stated in the properties and listed in section 6.
- **render_passes**. Reads of an attachment wait for the one subpass that drew to
  it, whatever was merged. A subpass that draws to it again waits for the writes of
  the first that did: its colour writes and the reads of its depth tests do, its
  depth writes do not, nor does anything wait for a later draw or for a reader. A
  framebuffer drawn to is as large as the area. No semaphore is used while
  pending, except those a suboptimal acquire has signalled (`left`) and those of
  images acquired before the frame after their own was done (`loose`). Frames draw
  to the acquired image, with one framebuffer for each image, of the present
  swapchain unless its views got the handles of destroyed ones, and a framebuffer
  outlives its frames.
- **utilities**. Arena blocks are aligned and apart, an id is in one place, staged
  bytes are neither overwritten nor freed before their copy, queries are written
  once between two resets. The map implements `AbstractMap` step by step, through
  growth, tombstones, sorting, the swap of the last pair into a hole and moves.
  The vectors implement `AbstractVector` call by call, and blocks are neither leaked,
  shared nor freed twice, until an element is moved out of an inline vector or the
  storage an argument is in is replaced, and but for the block of no bytes where
  `malloc(0)` returns one. A virtual block that was never moved has one owner, whose
  `max_id()` bounds it.

Bounds, and why they are enough:

- Threads and handles (`refcount`): the count and the exclusiveness are proved
  for any number (section 5). Two threads meet at each atomic; two containers
  allow a chain and would allow a cycle; the third handle gives one thread a call
  on two while the other has one to drop, the third resource a longer chain.
- Edits (`hotreload`, `MaxEdits` 2): one edit before and one after the stamp
  moves; a third repeats the second. Two pipelines on one file give two entries
  of one watch list, two files on one pipeline give a compile between two edits.
- Set indices (`commands`, one): the code keeps no state across indices, two
  sets at one index show the order. `MaxPostponed` 2 gives an order to reverse;
  `MaxGeneration` 2 gives an address one reuse.
- Demand (`device`, `MaxDemand` 9): four pools at once, all lists non-empty.
- Context (`device`): the second call of a thread meets what the first left (a
  fence, a late submission), the second context meets the first one's queue and
  fences (`MaxCalls`, `MaxDevices` 2). Blocks of two bytes and at most five bytes
  (`MaxBytes`, like `maxStorageBufferRange` no whole number of blocks) give odd sizes,
  two growths and a last block beyond the end; sizes and threads are unbounded in
  the proofs.
- Pipelines (`device`): the merge is between two stages, so two shaders of every
  pair of stages (`MaxShaders`), with bindings that are sparse, missing, beyond
  the first stage's, and a set out of reach. `MaxMade` 2 gives a build after a
  refused one. Three files, of which two describe the same pipeline and two the
  same set layout, are read in every order, each wholly or in part.
- Swapchains (`render_passes`): 3 then 2 then 3 images, so arrays shrink and
  grow. `MaxBatch` and `MaxWindowBatch` bound resizes only.
- Builder (`render_passes`): two attachments and three subpasses are the least
  with a transitive order and a merged pair; every builder of that size is tried.
- Utilities: five blocks in seven words reach the full arena with sizes on
  both sides of eight; four ids are exhausted and exceeded by failed calls
  (`MaxCounter`); `huge` does not fit a staging buffer; three queries fill up. The
  map's table passes through sizes 0, 2, 6, 14; with three keys and tombstones
  it fills, so all three reasons to grow occur. Three elements are one more than
  a vector has room for inline, two values tell a wrong position from the right
  one, and a third block is needed when a swap meets a growth. `SizeMax` 20 stands
  for `UINT32_MAX`, far above any size. The runs on `MCUtilities` have the VIEW
  `AllButCall`: the label of a vector's last call is history that no call reads, and
  each step is checked with its own label before states are compared.

`CHECK_DEADLOCK FALSE` stands where the system really stops: resources are made
once each (`refcount`), the edits and pipelines are used up or the process is lost
(`hotreload*`), a constructor has lost the program (`render_passes`,
`render_pass_layers`), nothing follows a destructor, the end of all threads or
an abort (`device`, `utilities`, `staging_flush`, `slim_vec_move`).

## 4. Fairness

- `MCRefCount!MCSpec`, as `RefCount!FairSpec`: weak fairness of `Progress(t)`, the
  steps that finish a call a thread has begun, in a program that is not lost.
  Threads are scheduled; nobody must begin a call.
- `HotReload!FairSpec`: weak fairness of the watcher and of the steps of an
  application call already begun. The watcher's loop never waits for anything
  but `m_lock` and its sleep. The editor, the recorder and the application owe
  nothing, so `EventuallyFresh` speaks of pipelines whose files compile and which
  are watched, and excludes those whose file was saved between the compile and
  the registration (`stale`, section 6).
- `MCDevice!DeviceSpec`: weak fairness of `AllocateStep`, the recursion of
  `allocate_set`, and `ContextFairness`: of `ThreadStep(t)`, the steps that finish a
  call a thread has begun, and of `Bound(t)`, the completion of a sparse binding,
  which the code waits for without a limit. The device owes nothing else: a
  submission may never be done, which is why `immediate_submit` has its timeout.
- `MCUtilities!UtilitiesSpec`: weak fairness of `Map!JobStep`, the steps of an
  insertion in progress; the class is sequential.

No other property is about liveness.

## 5. What is proved

For every value of the constants that satisfies the assumptions named in the
modules. `tlapm` checks each module from nothing.

**RefCountProofs**, for any sets of threads, resources and handles (handles
finite) and any assignment of members to resources.
`Invariance` is `Spec => []IInv`. `CountIsHandles` alone is not inductive: an
increment in flight needs its source to stay counted, so `CallState` says that
the register holds what the source slot holds and `SlotsExclusive` that nobody
writes that slot meanwhile; a resource moved into a pending assignment must not
be destroyed, so `PassedOnce` and `SlotHomes` say it is in one call only;
`VictimsUnheld` says a thread that is about to delete is alone and finds no
handle. One lemma per action (`ReleaseStep`, `IncrementStep`...) proves the parts.
`TypeCorrect`, `CountCorrect`, `NoUseAfterFree` and `NoDoubleDelete` follow. The last
two have the exception of section 6: a copy assignment `a = a->m` releases the
resource before it reads the member `m`; the part `LostByReplacing` of `IInv` says
that memory used after its release is always the doing of such a call.
`HoldingAcyclic` strengthens it by `Acyclic` (every group of resources has a
member that the group does not hold: members are filled before their
resource is shared), `ZeroClaimed` and `HandlesAttended`, and gives `NoLeak`.

**HotReloadProofs**, for any pipelines, files, command buffers and number of edits.
- `RecordedBuildsLive` is `Spec => []RecordedAlive`. By itself the property says
  nothing of the bind in progress, so `BindInv` adds where the recorder is:
  `UsedInv` says that a recorded build is held by its command buffer, or is the
  current build of the pipeline whose `Record` has happened and whose `Reference`
  has not; `PendingIffUpdated` gives that the swap between them never takes a null
  build; `ThreadsInv` says which pipeline each thread is about, and that a live one
  has a build.
- `SharedConsistent` is `Spec => []Inv`. `WatchTables` speaks of the moments when
  `m_lock` is free; `TablesInv` says what the two tables are like during a
  registration, file by file, and `LocksInv` who holds the lock. `MadeInv` says that
  every handle names a build that was made.
- `WatcherKeepsOrder` is the action property `ReloadsInOrder`. That builds go
  forward needs where the compile in progress is: `WatcherCompile` says that the
  files it has read were read no earlier than by any build, `FirstCompile` that the
  first build reads the pipeline's own files, `VersionsInv` that nothing is newer
  than the disk. `EndedInv` says that after `stop()` the thread is over.
- `StoppedBeforeDestroyed` is `NoUseAfterDestroy` under two assumptions, that
  pipelines are destroyed only after `stop()` and that files do not vanish:
  `StoppedInv` says that a pipeline is closing or dead only when the watcher has
  ended. The run `hotreload_race` shows that the first assumption is needed.

**CommandRecordingProofs**, for any command buffers, Vulkan buffers, pipelines, sets
and indices.
- `SkippingIsSound` and `RecordedLives` follow from `RecordingInv`: a Vulkan
  buffer belongs to one `CommandBuffer` or to one place of the recycling lists
  (`OwnersInv`), so that nobody else changes its state; what is recorded in it is of
  today's generation, and what is counted among it is a dependency of that very
  `CommandBuffer` (`RecordedInv`), so that no address it remembers is reused; the
  remembered pipeline is the one the device has bound (`CurrentInv`), until
  secondaries are executed or the buffer is begun again without a reset (`stale`):
  from then on to the next bind that is not skipped nothing is claimed.
- `BuffersOwned` is `Inv`; `PlacesInv` adds that no Vulkan buffer is lost and that
  each has the level of its owner.
- `LastSetsBound` is `LastAskedWins`: a set counts as asked for from its bind until
  the render pass begins or ends, secondaries are executed, or the recording begins
  again, after which the device has no set bound. `SetsInv` says what holds between the calls: a
  set waits in the postponed list only while no pipeline is bound, and then the last
  pair of an index in that list is the one asked for last.

**DeviceProofs**. For any layouts, costs and pool size with `MaxCost <= PoolSize`,
`PoolsAccounted` is the descriptor pool's `IInv`; what makes it
inductive is arithmetic: a pool is put aside only when the set at hand did not
fit, so it holds at least `PoolSize - MaxCost + 1` units, and what is held since
the last reset is at least that for each. From it `PoolsOnce`, `FreeEmpty`,
`DemandBoundsPools` and `DestroyedOnce`. For any threads, any number of contexts and
calls and any block size, `BoundOnce` is `BlocksBound` (`RoundUp` and
`MultiplesApart` are the arithmetic of whole blocks; the size of the buffer,
`MaxBytes`, need not be a whole number of them, and `BufferInv` bounds what is bound
by its rounding) and `ContextSafe` is
`ContextInv`, in which two threads on the queue at once are a risk that was taken
("shared", section 6), as the code takes no lock: `ThreadsInv` says that a thread inside a call has begun one and that
the context is alive; `LayoutsInv` that a layout that exists is queued or in the
hands of the thread that made it, which is why a cleanup, when all threads are idle,
finds every one.

**PipelineProofs**, for any shaders, subpasses, files and descriptions.
- `PipelinesAsAsked` is `PipelinesInv`, which claims nothing of a depth test that was
  never set, nor of the topology when a leftover bit says tessellation (section 6).
  The property is about finished pipelines;
  `BuilderOk` says what a builder remembers on the way: the stages of its shaders
  and those it found in uninitialised memory, and a state that differs from what was
  asked for only through refused subpasses. Each `add_shader` keeps the places of
  the stages merged before it, which is why the layout serves the first stage as well
  as the last.
- `LoadedPipelines` is `LoadedAsDescribed`. `LoaderInv` relates what was read to what
  is kept: names to their last description (`DescribedInv`), kept files to whole ones
  (`FilesInv`), set layouts to the provider set last (`ProviderInv`).

**RenderPassesProofs**.
- `SurfaceConsistent`, `SemaphoresAreFresh`, `FramesDrawToAcquired` and
  `FramebuffersOutliveFrames`, for any numbers of images, frames in flight and
  swapchains, and for an engine that hands out its free images in any order. The
  properties follow from `LoopInv`. Its heart is that the images stand in a line:
  the one shown, those queued and the one acquired last; `Past(d)` is the image d
  places before the end. No image is in the line twice, and none in it can be handed
  out (`LineInv`). The frames that run are for the last images of the line, and each
  waits with the semaphore of the image before its own; only the oldest may wait with
  a loose one (`RunningInv`). A semaphore that is not idle has such a frame or image
  behind it (`SemaphoresInv`), so freshness is that two places of the line differ.
  `ViewsInv` says which swapchain the framebuffers are of when handles of views come
  back, `PhaseInv` what the phases of the frame loop mean.
- `PassSafe` and `BuiltPassSafe` are `PassInv` of a `MultiPassRenderPass` alone and of
  one that a builder left. A framebuffer outlives the frames that draw to it through
  the first instance and whose `begin` remade nothing; of other instances and of
  frames whose `begin` did remake the framebuffers nothing is claimed, and a program
  that its constructor lost has no pass.
- `BuiltWellFormed` is `BuilderInv` and `DependenciesOrder` is `DependenciesSuffice`,
  for any attachments and subpasses. What is ordered is what the masks of the
  dependencies name: a read after the one subpass that drew, and, when several draw,
  colour writes and depth-test reads after the writes of the first. Depth writes
  after depth writes, draws after reads, and reads after a second draw are not.
  `DescribedInv` is inductive over the calls that
  describe a pass. `create_subpass_dependencies` is two folds; `ScannedSoFar` says
  what the first has after n subpasses (the first subpass that draws to each
  attachment, and a dependency for each later use), `MergedSoFar` what the second has
  after n dependencies (each is covered, no pair twice).

**UtilitiesProofs**.
- `ArenaSafe`, for any heap size that is a multiple of eight and any requests.
  The code compares the size before it rounds it up; the lemma `AlignUp` shows that
  what then ends beyond the heap would have ended beyond it unrounded, because heap
  and cursor are multiples of eight. `AllocKeepsInv` is the step.
- `StagingSafe`, for any destinations, sizes, capacity and number of buffers:
  `FillingInv` says that in the buffer being filled all data ends at or below
  `m_top` and that later buffers have none; `PendingInv` that a recorded command
  buffer keeps every buffer it copies from.
- `TimestampsInStep`, for any number of queries: `QueriesInStep`, which speaks of the
  time from the first reset on, is inductive.
- `IdsApart` is `IdsUnique`, for any range of ids: until a `fill_ids` is torn, every
  id up to the counter is in one place, in use, in the vector or freed.
- `BlocksOwned` is `VirtualInv`, for any allocators, blocks and spans.
- `MapAgrees` is `MapInv` of `DenseHashMap` and `MapImplements` its refinement of
  `AbstractMap`, for any keys, values, hash function and initial capacity. `MapIInv`
  adds that while the table is filled again there is no tombstone in it: then the
  table, which is larger than the number of keys, has an empty slot (`FreeSlot`, by
  the pigeonhole principle), and a probe comes to every slot (`ProbeComesTo`), so the
  next key finds one. The argument speaks of a table and an array of keys as values:
  `Reaches` says that going from the hash of each key one comes to its index and passes
  no empty slot, `NoStray` that no index is there twice or without its key. `Placing`
  shows that they survive a new index in the slot where its probe ends, `Removing` that
  they survive an erasure, where the tombstone keeps the way of other keys and the
  index of the last pair changes in place. `IsMapOf` says which function the dense
  arrays hold; every call is then compared with its abstract one.
- `VectorsSound` is `SlimVecInv` and `VectorsImplement` the refinement of
  `AbstractVector`, for any number of vectors, any elements, any inline capacity, any
  sizes up to `MaxLen` (with `2 * MaxLen` and the inline sizes below `SizeMax`) and more
  blocks than vectors, since the code takes for granted that `malloc` of some bytes
  does not fail; that of no bytes may return null or a block. The refinement is call
  by call: both sides keep the last call with its arguments, and each must be the
  call on sequences of that very name. What the code does not provide is excepted:
  an inline vector whose element was moved away (`spent`), an argument in storage
  that the call replaced (`aliased`), a block of no bytes (`leaked` only with `zero`),
  and after an erasure of no elements, or an insertion of an own element that the
  insertion moves, `AbstractVector` allows what a self-move or a moved reference
  leaves.
  `SlimVecInv` is about the memory between calls; a growth inside `copy` or the three
  moves of `swap` go through memories of their own. So the argument is about a memory
  as a value: `Formed` says what the bytes of one vector may be (inline, on the heap,
  empty, or the bytes of an element that was moved away), `Sound` that every block is
  owned by one vector. Each private function takes sound memory to sound memory
  (`CleanedUp`, `CapacitySet`, `MoveTakes`, `VectorRenewed`) and leaves the vector
  `Prepared`: its elements as they were, the other vectors untouched, and with room
  for k (`Roomy`). Only a write through the bytes of an element, or a read of an
  argument whose storage is gone (`Referred`), ends that, and then `ok` is false
  (`SlotsWritten`). `MemInv`, the inductive invariant, is therefore `Sound` memory and
  a fresh temporary as long as `ok`, and `ok` unless `spent` or `aliased`. One lemma
  for each call says which slots it leaves (`PushedBack`, `Inserted`, `ResizedTo`...)
  and that it keeps `MemInv` (`PushBackKeeps`...); one says that these slots are the
  sequence of the abstract call (`BecameAppended`, `BecameInserted`...).

**DataLemmas** is what these need of data: a set of numbers that is not empty has a
least element (through the induction on finite sets), the largest element of a finite
set, first-order induction over the numbers on a given set, and that a fold has a
sequence of states, each one turn after the other. The last two make what a loop
computes provable although no prover can instantiate the library's theorems with an
operator: the property of the first n turns becomes the set of the n that have it.

Only model-checked: all liveness (fairness is beyond the prover) and the runs that
expect a violation.

## 6. Disagreements and things to know

Shown by a run:

1. `hot_reloader.cpp:65` (run `hotreload_race`): pipelines collected under `m_lock`
   are reloaded after it is released; one destroyed in between is dereferenced.
   The comment at lines 62-64 describes the race and asks for a fix.
2. `multi_pass_renderpass.cpp:242` (run `render_pass_layers`): the command buffer
   keeps framebuffer 0, and draws to the active instance, which a resize destroys
   while the frame runs.
3. `stencil_buffer.cpp:56` (run `staging_flush`): a second `flush_copies` records
   the first copies again, unordered with newer ones to the same place.
4. `commandbuffer.cpp:271` (run `commands_stale_bind`): `execute_secondaries` leaves
   what the primary has bound undefined, and `begin` (65) on a recorded buffer resets
   it, but both keep `m_current_pipeline`: the next bind of that pipeline is skipped
   (112) and a draw has none. The assertion of line 163, "a pipeline must be bound
   first", passes.
5. `slim_vec.hpp:349` (run `slim_vec_move`): a move ends an inline source with
   `other.m_size = 0`, which means "on the heap": the bytes of the moved element
   are then read as a pointer and freed. Line 436 says "Do not set m_size manually".

Excepted by a property, because the code does not provide it:

- `vk_resource.hpp:130`: a copy assignment releases what it holds and then reads
  `other.m_ptr`; with `a = a->m` the release may delete the resource that `m` is a
  member of (`LostByReplacing`).
- `vulkan_context.cpp:246` and `growable_buffer.cpp:104`: submissions and sparse
  bindings go to the one `m_graphics_queue`, which Vulkan wants used by one thread at
  a time, and no lock is taken ("shared").
- `hot_reloader.cpp:45`: a file is stamped when it is registered, after the first
  compile read it; a save in between is not reloaded (`stale`).
- `vulkan_context.cpp:248`: in a build without `assert`, a timeout of
  `immediate_submit` is printed only, and the fence is reset and the commands are
  destroyed while the device uses them (`risk`, "timeout").
- `vulkan_context.cpp:218`: the fence of a thread that outlives the context is
  destroyed through another context or none ("outlived").
- `growable_buffer.cpp:45`: whole blocks are bound, and the size of the buffer is
  `maxStorageBufferRange` (16-18), usually no whole number of them: the last block
  may reach beyond the buffer. `BlocksBound` is about the bytes inside.
- `descriptor_set_layout_builder.cpp:46`: `cleanup_layouts` does not empty its
  queue; the cleanup of a second context destroys the first one's layouts again
  ("second").
- `pipeline_reflection.cpp:88`: bindings are looked up by number in arrays sized by
  the first stage that uses the set; sparse or additional bindings overrun them
  (`Overruns`). Sets behind an unused one get no layout (`NoGap`), and of several
  stages with push constants only the first has a range (`OnePusher`).
- `pipeline_builder.cpp:106`: a depth test that was never set is off, whatever the
  render pass has; the comment at `pipeline_builder.hpp:80` says that it defaults to
  true if there is a depth buffer. `StateAsAsked` claims nothing of it.
- `pipeline_builder.cpp:224`: `m_shader_stages` (`pipeline_builder.hpp:64`) is never
  initialised; with a leftover tessellation bit (`garbage`) a pipeline without
  tessellation gets a topology of patches. `pipeline_builder.hpp:78` says that the
  topology is "Set to triangle list by default".
- `pipeline_builder.cpp:117`: a build that the device refuses has already
  overwritten the builder's state with its subpass's and leaves a pipeline layout
  behind (`refused`, `failed`).
- `debug_loader.cpp:68`: a file given up midway keeps the descriptions it registered,
  without its set layouts (`missed`).
- `virtual_allocator.hpp:41`: moves leave `m_max` behind, and a move assignment
  neither frees the block it replaces nor takes the other's `m_max` (`moved`).
- `surface.cpp:98`: a suboptimal acquire signals a semaphore nobody waits for
  (`left`).
- `surface.cpp:92`: an acquire uses the semaphore of the image before, by index; the
  first acquires of a swapchain may return any image, so that the semaphore of an
  image which no frame has waited for yet is used again (`loose`).
- `windowed_renderpass.cpp:22`: the constructor reads the surface's size before it
  recreates the swapchain; its first framebuffers may have the old size.
  `begin` (149) compares the image views by handle, not the size, and
  `surface.cpp:28,36,55-62` destroys the old views before it makes new ones: if the
  handles come back, the framebuffers stay those of the swapchain before (`views`).
- `multi_pass_renderpass.cpp:34`: the constructor dereferences `depth_attachment` of
  each subpass, which is empty in one without depth (`lost`).
- `renderpass_builder.cpp:133`: only the first subpass that draws to an attachment
  is remembered; a read after a second write is ordered after the first only. A
  depth draw waits with its reads, not its writes (160), and nothing waits for
  a reader (178).
- `multi_pass_renderpass.cpp:242`: `begin` takes its reference before
  `Renderpass::begin` may remake the framebuffers (`remade`).
- `id_manager.hpp:38`: a `fill_ids` that throws half-way leaves zeros that a later
  shrink gives back as ids (`torn`).
- `slim_vec.hpp:402`: copying an empty vector asks `malloc` for no bytes; where that
  returns a block, capacity 0 keeps `_cleanup` (327) from freeing it (`zero`).
- `slim_vec.hpp:417`: growth frees the old block before `push_back` (130),
  `insert_at` and `resize` (179) read an argument that may be an element in it
  (`aliased`).
- `slim_vec.hpp:253`: an erasure of no elements is allowed, and moves every later
  element onto itself; an element type that does not survive this loses its values.
- `gpu_timer.cpp:58`: the first frame passes the assertion of `begin_frame` without
  any reset; `QueriesInStep` starts with the first `reset`.

Excluded by an assumption or met while reading, and not in any property:

- `util/arena_alloc.cpp`: blocks are aligned to eight bytes, whatever is put in them.
- `hash_map.hpp:544`: the assertion that a `reserve` asks for no less than is there is
  a guard of the model; in a build without `assert` nothing stops a smaller size.
- `vk_resource.hpp:98`: a handle made from a raw pointer to a resource that is not
  counted throws; nothing has changed then, so the model has no step for it.
- `slim_vec.hpp`: assigning a vector to itself is not called in the model.
- `descriptor_pool.cpp:45`: a set that does not fit an empty pool makes pools
  for ever (`CostAssumption`).
- `reloadable_pipeline.cpp:16`: `m_updated` is tested outside `m_lock`; two
  recording threads may both pass the test. The model has one recorder.
- `hot_reloader.cpp:77`: `last_write_time` throws in the watcher if a file is
  missing, and nothing catches it (`ScanThrows` ends the process).
- `debug_loader.cpp:107`: the watcher and the application may compile at once with
  one shader compiler, which nothing locks.
- `commandbuffer.cpp:77`: `reset` keeps `m_postponed_set_binds`; binds that met no
  pipeline go to the next recording. `LastAskedWins` holds because the later
  asked set comes later in the list, and an index nobody asked for makes no claim.
- `commandbuffer.cpp:280`: the constructor for an external buffer leaves `m_dt` unset.
- `vk_resource.hpp:155`: `convert_to` increments twice; it has no caller.
  Line 188: assigning a null `unique_ptr` is not expected, `reset` dereferences it.
- `hash_map.hpp:35`: the partition of `custom_qsort` may read one element past the
  end; the model takes the sorted result. `insert_or_assign` does not compile
  when instantiated.
- `util/id_manager.hpp`: `free_id_count` is one less than what can be obtained, and
  wraps when nothing is left.
- `util/arena_alloc.cpp`: `create_str_copy` writes no terminator.
- `debug/gpu_timer.cpp`: `sort_results` reorders labels, so a later `query_results`
  labels times wrongly.
- `multi_pass_renderpass.cpp:239`: the branch that prepares surfaces ignores the
  result of `prepare`; nothing in the repository makes it reachable.

## 7. What is not modelled

`PROJECT.json` has a reason for each part. In short:

- `DescriptorSetBuilder`: collects the writes of one update; nothing outlives it.
- The shader compiler and the include resolvers: wrappers of a library; a compile
  is a set of file reads that may fail (`HotReload`).
- The SPIR-V utilities: a walk over words that changes nothing.
- `Buffer`, `BufferSpan`, `Image`, `ImageView`: one call of the memory allocator
  each; their lifetimes are those of `RefCount`.
- `FunctionTimer`: sums of times for development, compiled in nowhere by default.
- `MDArray` and helpers, `Window`: index arithmetic, file reading, one library
  window, whose resizing is an action of `Presentation`.
- Vendored libraries (`libs`: JSON, the memory allocator, glTF and image readers,
  SPIR-V reflection, the Vulkan bootstrap): about nine tenths of the lines of the
  repository, not the engine's own code. The models cover roughly three tenths of
  the engine's own nine thousand lines, and a small part of the whole tree.

Of the modelled parts, the plain `vkCmd` wrappers, formats, layouts and clear
values, labels and times are left out. The exception of a vanished file and the
unlocked shader compiler (section 6) have no property: about the first the code does
nothing, the second is below the grain of the model.

## 8. The plan

Done, in this order: `RefCount` (everything rests on it), `HotReload` (the only
threads of the engine), `DenseHashMap` with `AbstractMap`, `CommandRecording`,
`DescriptorPool`, `Presentation`, `MultiPassRenderPass` and `RenderPassBuilder`
composed in `RenderPasses`, the utilities; then `SlimVec` with `AbstractVector`,
`VulkanContext` with layouts and growable buffers, `PipelineLayouts`,
`PipelineBuilder` and `DebugLoader`, `VirtualAllocator`; and the proofs, of every
safety property and refinement of the passing runs.

Left, in the order of what they would add:

- `EngineFrame`, the composition of `CommandRecording` with `DescriptorPool` and
  `Presentation`: a descriptor pool reset only after the frames that use its sets;
- two recorder threads in `HotReload`, for the test of `m_updated` outside the lock;
- `FunctionTimer`: the sum over threads of the calls that ended.
