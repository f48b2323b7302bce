---------------------------- MODULE VulkanContext ----------------------------
(***************************************************************************)
(* The one VulkanContext of a process and what its threads do through it   *)
(* (src/vulkan_context.cpp): immediate submissions, each waited for with   *)
(* the fence of the calling thread; GrowableBuffer::resize, which binds    *)
(* memory and waits with the same fence; descriptor set layouts, which     *)
(* DescriptorSetLayoutBuilder queues for the context to destroy; threads   *)
(* that end and destroy their fence; and contexts that end and begin.      *)
(*                                                                         *)
(* The application ends the context only when every other call on it has   *)
(* returned, and resizes the buffer from one thread at a time.  Nothing    *)
(* keeps two threads from submitting at once: get_graphics_queue returns   *)
(* the one queue, no lock is taken, and Vulkan does not allow it.  Of what *)
(* may come of it, the model has submissions that are lost.                *)
(***************************************************************************)
EXTENDS Naturals, Sequences, FiniteSets

CONSTANTS
    Thread,     \* the threads of the process
    MaxDevices, \* bound: contexts made, one after the other
    MaxCalls,   \* bound: submissions and layouts of each thread
    BlockSize,  \* m_block_size of the buffer
    MaxBytes    \* maxStorageBufferRange, which the application stays within;
                \* any number, like 2^32 - 1, and not of whole blocks

ASSUME ContextAssumption ==
    /\ BlockSize \in Nat \ {0} /\ MaxBytes \in Nat
    /\ MaxDevices \in Nat /\ MaxCalls \in Nat

VARIABLES
    checked,    \* the build keeps assert, which VK_CHECK ends the program with
    device,     \* the number of s_context's device, 0 before the first
    alive,      \* s_context has not been deleted
    pc,         \* where each thread is
    calls,      \* submissions and layouts each thread has begun
    fence,      \* thread_local_fence: the device it was made with, 0 if null
    signalled,  \* the threads whose fence is signalled
    jobs,       \* device: submissions not yet done, each by a thread's call
    queue,      \* destroy_queue: layouts, each with its device
    existing,   \* device: the layouts that exist
    grown,      \* m_buffer_size of the GrowableBuffer
    binds,      \* how often a bind of each block of the buffer was submitted
    misuse,     \* what was used against Vulkan's rules
    risk        \* history: what the environment did that excuses a misuse

deviceVars == <<checked, device, alive>>
bufferVars == <<grown, binds>>
layoutVars == <<queue, existing>>
callVars == <<pc, calls, fence, signalled, jobs>>
contextVars == <<deviceVars, callVars, layoutVars, bufferVars, misuse, risk>>

MadeLayout == (1..MaxDevices) \X Thread \X (1..MaxCalls)
RoundsNothing(n) == n
RoundUp(n) == ((n + BlockSize - 1) \div BlockSize) * BlockSize

\* The blocks; the last one may reach beyond the end of the buffer.
Offset == 0..(RoundUp(MaxBytes) \div BlockSize) - 1

ContextTypeOK ==
    /\ checked \in BOOLEAN /\ alive \in BOOLEAN
    /\ device \in 0..MaxDevices
    /\ pc \in [Thread -> {"idle", "recording", "queueing", "submitted", "bindqueue", "binding",
                      "layout", "ended", "aborted"}]
    /\ calls \in [Thread -> 0..MaxCalls]
    /\ fence \in [Thread -> 0..MaxDevices]
    /\ signalled \subseteq Thread
    /\ jobs \subseteq Thread \X (1..MaxCalls)
    /\ queue \in Seq(MadeLayout) /\ existing \subseteq MadeLayout
    /\ grown \in 0..RoundUp(MaxBytes)
    /\ binds \in [Offset -> Nat]
    /\ misuse \subseteq {"busy", "fence", "layout", "queue"}
    /\ risk \subseteq {"timeout", "outlived", "second", "shared"}

ContextInit ==
    /\ checked \in BOOLEAN
    /\ device = 0 /\ alive = FALSE
    /\ pc = [t \in Thread |-> "idle"]
    /\ calls = [t \in Thread |-> 0]
    /\ fence = [t \in Thread |-> 0]
    /\ signalled = {} /\ jobs = {}
    /\ queue = <<>> /\ existing = {}
    /\ grown = 0 /\ binds = [b \in Offset |-> 0]
    /\ misuse = {} /\ risk = {}

Running == \A t \in Thread : pc[t] # "aborted"
Misused(kind, really) == misuse' = IF really THEN misuse \cup {kind} ELSE misuse
Busy(t) == \E n \in 1..MaxCalls : <<t, n>> \in jobs
Goes(t, to) == pc' = [pc EXCEPT ![t] = to]

\* A call on the live context that submits or creates something.
Calls(t, to) ==
    /\ Running /\ alive /\ pc[t] = "idle" /\ calls[t] < MaxCalls
    /\ Goes(t, to)
    /\ calls' = [calls EXCEPT ![t] = @ + 1]

-----------------------------------------------------------------------------
(* Submissions.                                                            *)

\* Two threads are inside calls that submit.
Submitting(t) == pc[t] \in {"recording", "queueing", "submitted", "bindqueue", "binding"}
Begins(t) == risk' = IF \E s \in Thread \ {t} : Submitting(s) THEN risk \cup {"shared"} ELSE risk

\* immediate_submit up to the end of the recording.
Record(t) ==
    /\ Calls(t, "recording")
    /\ Begins(t)
    /\ UNCHANGED <<deviceVars, fence, signalled, jobs, layoutVars, bufferVars, misuse>>

\* get_thread_local_fence, then into the call on the queue that is to signal it.
Enters(t) ==
    /\ fence' = [fence EXCEPT ![t] = IF @ = 0 THEN device ELSE @]
    /\ misuse' = misuse \cup (IF fence'[t] # device THEN {"fence"} ELSE {})
                        \cup (IF Busy(t) \/ t \in signalled THEN {"busy"} ELSE {})
                        \cup (IF \E s \in Thread \ {t} : pc[s] \in {"queueing", "bindqueue"} THEN {"queue"} ELSE {})

\* The call on the queue returns, with the submission or, if two threads were
\* in such calls at once, perhaps without.
Leaves(t) ==
    \/ jobs' = jobs \cup {<<t, calls[t]>>}
    \/ "queue" \in misuse /\ UNCHANGED jobs

EnterSubmit(t) ==
    /\ Running /\ pc[t] = "recording"
    /\ Goes(t, "queueing")
    /\ Enters(t)
    /\ UNCHANGED <<deviceVars, calls, signalled, jobs, layoutVars, bufferVars, risk>>

\* vkQueueSubmit and vkQueueBindSparse return.
Submit(t) ==
    /\ Running /\ pc[t] \in {"queueing", "bindqueue"}
    /\ Goes(t, IF pc[t] = "queueing" THEN "submitted" ELSE "binding")
    /\ Leaves(t)
    /\ UNCHANGED <<deviceVars, calls, fence, signalled, layoutVars, bufferVars, misuse, risk>>

\* The constructor's and the application's resize, of a buffer made in the
\* first context: whole blocks behind those there are, one allocation each.
resize(t, bytes) ==
    /\ \A s \in Thread : pc[s] \notin {"bindqueue", "binding"}
    /\ bytes > grown /\ device = 1
    /\ Calls(t, "bindqueue")
    /\ grown' = RoundUp(bytes)
    /\ binds' = [b \in Offset |-> IF grown <= b * BlockSize /\ b * BlockSize < grown'
                                    THEN binds[b] + 1 ELSE binds[b]]
    /\ Enters(t) /\ Begins(t)
    /\ UNCHANGED <<deviceVars, signalled, jobs, layoutVars>>

\* The device has done a submission and signals the fence given with it.
Complete(job) ==
    /\ Running /\ job \in jobs
    /\ jobs' = jobs \ {job}
    /\ signalled' = signalled \cup {job[1]}
    /\ UNCHANGED <<deviceVars, pc, calls, fence, layoutVars, bufferVars, misuse, risk>>

ReturnKeepsFence(t) ==
    /\ Running /\ pc[t] \in {"submitted", "binding"} /\ t \in signalled
    /\ Goes(t, "idle")
    /\ Misused("busy", <<t, calls[t]>> \in jobs)
    /\ UNCHANGED <<deviceVars, calls, fence, signalled, jobs, layoutVars, bufferVars, risk>>

\* The wait succeeds; the fence is reset, and ~CommandBuffer destroys the
\* pool that the commands of this call are in.
Return(t) ==
    /\ Running /\ pc[t] \in {"submitted", "binding"} /\ t \in signalled
    /\ Goes(t, "idle")
    /\ signalled' = signalled \ {t}
    /\ Misused("busy", <<t, calls[t]>> \in jobs)
    /\ UNCHANGED <<deviceVars, calls, fence, jobs, layoutVars, bufferVars, risk>>

WaitsForever(t) == FALSE

\* The ten seconds of immediate_submit are over: VK_CHECK ends the program,
\* or, without assert, prints; the fence is then reset and the commands are
\* destroyed while the device runs them.
TimeOut(t) ==
    /\ Running /\ pc[t] = "submitted" /\ t \notin signalled
    /\ Goes(t, IF checked THEN "aborted" ELSE "idle")
    /\ Misused("busy", ~checked)
    /\ risk' = IF checked THEN risk ELSE risk \cup {"timeout"}
    /\ UNCHANGED <<deviceVars, calls, fence, signalled, jobs, layoutVars, bufferVars>>

-----------------------------------------------------------------------------
(* Layouts, threads and contexts.                                          *)

\* DescriptorSetLayoutBuilder::build creates before it takes the lock.
CreateLayout(t) ==
    /\ Calls(t, "layout")
    /\ existing' = existing \cup {<<device, t, calls'[t]>>}
    /\ UNCHANGED <<deviceVars, fence, signalled, jobs, queue, bufferVars, misuse, risk>>

Enqueue(t) ==
    /\ Running /\ pc[t] = "layout"
    /\ Goes(t, "idle")
    /\ queue' = Append(queue, <<device, t, calls[t]>>)
    /\ UNCHANGED <<deviceVars, calls, fence, signalled, jobs, existing, bufferVars, misuse, risk>>

\* A thread ends: its fence is destroyed through whatever s_context is now.
EndThread(t) ==
    /\ Running /\ pc[t] = "idle"
    /\ Goes(t, "ended")
    /\ fence' = [fence EXCEPT ![t] = 0]
    /\ signalled' = signalled \ {t}
    /\ misuse' = misuse \cup (IF fence[t] # 0 /\ (~alive \/ fence[t] # device) THEN {"fence"} ELSE {})
                        \cup (IF Busy(t) THEN {"busy"} ELSE {})
    /\ UNCHANGED <<deviceVars, calls, jobs, layoutVars, bufferVars, risk>>

init ==
    /\ Running /\ ~alive /\ device < MaxDevices
    /\ device' = device + 1
    /\ alive' = TRUE
    /\ risk' = IF device = 0 THEN risk ELSE risk \cup {"second"}
    /\ UNCHANGED <<checked, callVars, layoutVars, bufferVars, misuse>>

Teardown(destroyed, wrong) ==
    /\ Running /\ alive /\ \A t \in Thread : pc[t] \in {"idle", "ended"}
    /\ alive' = FALSE
    /\ existing' = existing \ destroyed
    /\ misuse' = misuse \cup wrong \cup (IF jobs # {} THEN {"busy"} ELSE {})
    /\ risk' = IF \E t \in Thread : fence[t] # 0 THEN risk \cup {"outlived"} ELSE risk
    /\ UNCHANGED <<checked, device, callVars, queue, bufferVars>>

Queued == {queue[i] : i \in DOMAIN queue}

\* cleanup_conext: what is queued is destroyed, then the allocator and the
\* device.  The queue is not emptied.
cleanup_conext ==
    Teardown(Queued, IF \E l \in Queued : l[1] # device \/ l \notin existing THEN {"layout"} ELSE {})

ThreadStep(t) == EnterSubmit(t) \/ Submit(t) \/ Return(t) \/ TimeOut(t) \/ Enqueue(t)

ContextNext ==
    \/ \E t \in Thread :
          \/ ThreadStep(t) \/ Record(t) \/ CreateLayout(t) \/ EndThread(t)
          \/ \E bytes \in 1..MaxBytes : resize(t, bytes)
    \/ \E job \in jobs : Complete(job)
    \/ init \/ cleanup_conext

\* The threads run; of the device only the binding of memory is waited for
\* without a limit.
Bound(t) == pc[t] = "binding" /\ Complete(<<t, calls[t]>>)

ContextFairness == \A t \in Thread : WF_contextVars(ThreadStep(t)) /\ WF_contextVars(Bound(t))

ContextSpec == ContextInit /\ [][ContextNext]_contextVars /\ ContextFairness

-----------------------------------------------------------------------------
(* Correctness.                                                            *)

\* A fence is given to one submission at a time and reset or destroyed when
\* that is done, and so are commands (get_thread_local_fence,
\* immediate_submit); a layout is destroyed once, on its device
\* (cleanup_layouts); one thread at a time uses the queue.  The exceptions
\* are a timeout in a build without assert, a thread that has a fence when
\* the context ends, a second context, and a thread that began a call while
\* another was inside one: an application that takes turns is safe.
UsesExplained ==
    /\ "busy" \in misuse => "timeout" \in risk
    /\ "fence" \in misuse => "outlived" \in risk
    /\ "layout" \in misuse => "second" \in risk
    /\ "queue" \in misuse => "shared" \in risk

\* Each thread waits for its own last submission, and for nothing else; for
\* one that was lost only if the queue was used by two threads at once.
WaitsForOwn ==
    Running /\ "timeout" \notin risk =>
        \A t \in Thread :
            /\ (Busy(t) \/ t \in signalled) => pc[t] \in {"submitted", "binding"}
            /\ pc[t] \in {"submitted", "binding"} =>
                  \/ {job \in jobs : job[1] = t} = IF t \in signalled THEN {} ELSE {<<t, calls[t]>>}
                  \/ {job \in jobs : job[1] = t} = {} /\ "queue" \in misuse

\* No layout is left when its device is destroyed, whoever built it.
TornDown == ~alive => existing = {}

ContextInv == ContextTypeOK /\ UsesExplained /\ WaitsForOwn /\ TornDown

\* Every byte below byte_size() is in exactly one bind, however odd the sizes
\* asked for, and none beyond (GrowableBuffer::resize).  byte_size() itself is
\* a whole number of blocks, and so may exceed the buffer by part of one.
BlocksBound ==
    /\ grown % BlockSize = 0
    /\ \A b \in Offset : binds[b] = IF b * BlockSize < grown THEN 1 ELSE 0

\* A submission comes to its end, with the program if need be, although the
\* device may never do it, or has lost it; a resize when the device binds the
\* memory, unless the queue was used by two threads at once.
Awaited(t) ==
    \/ pc[t] \in {"queueing", "submitted"}
    \/ pc[t] \in {"bindqueue", "binding"} /\ "queue" \notin misuse

CallsReturn == \A t \in Thread : Awaited(t) ~> (~Awaited(t) \/ ~Running)
=============================================================================
