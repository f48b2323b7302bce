----------------------------- MODULE HotReload -----------------------------
(***************************************************************************)
(* Shader hot reload: ReloadableLoader with its watcher thread, and the    *)
(* ReloadablePipelines it hands out (src/pipeline/loader/hot_reload).      *)
(*                                                                         *)
(* Three threads: the watcher; the application, which loads and destroys   *)
(* pipelines and stops the watcher; and one recorder, which binds them     *)
(* into command buffers.  A compile reads the files of a pipeline one at a *)
(* time and an editor may save any of them at any moment.  A build of a    *)
(* pipeline is a reference counted resource (see RefCount): it lives while *)
(* some handle holds it.                                                   *)
(***************************************************************************)
EXTENDS Naturals, Sequences, FiniteSets

CONSTANTS
    Pipe,           \* the reloadable pipelines, each loaded at most once
    File,           \* the shader files
    Uses,           \* shader_files of each pipeline
    Cmd,            \* the command buffers of the recorder
    None,           \* null, nobody, not watched
    MaxEdits,       \* bound: saves of each file
    MayVanish,      \* the files an editor may remove and write again
    DestroyAnyTime  \* FALSE: pipelines are destroyed after stop() only

ASSUME UsesAssumption == Uses \in [Pipe -> (SUBSET File) \ {{}}]
ASSUME BoundAssumption == MaxEdits \in Nat /\ MayVanish \subseteq File /\ DestroyAnyTime \in BOOLEAN
ASSUME NoneAssumption == None \notin Nat /\ None \notin Pipe /\ None \notin {"watcher", "app"}

VARIABLES
    disk,       \* each file: its version (modification time) and what it holds
    builds,     \* the builds of each pipeline, as the file versions they read
    life,       \* none, loading, live, closing (destructor entered), dead
    current,    \* m_current_pipeline, an index of builds; 0 when null
    pending,    \* m_pending_pipeline, likewise
    updated,    \* m_updated
    stamp,      \* m_watched_files: last_modification_time, None when unwatched
    watchers,   \* m_watched_files: pipelines
    described,  \* the keys of m_reload_descriptions
    mutex,      \* the owner of m_lock
    running,    \* m_running
    watcher,    \* where the watcher thread is
    todo,       \* pipelines_to_reload, those not yet reloaded
    subject,    \* the pipeline the watcher is reloading
    app,        \* where the application thread is
    target,     \* the pipeline the application loads or destroys
    left,       \* the files a thread's loop has still to visit
    seen,       \* the file versions a thread's compile has read, 0 if unread
    failed,     \* a thread's compile met a file it cannot compile
    recorder,   \* where the recorder is: the call it is in, or idle
    lastBound,  \* m_current_pipeline of each command buffer
    used,       \* the builds recorded into each command buffer
    held,       \* m_dependent_resources of each command buffer
    stale,      \* history: pipelines registered after an edit they did not read
    crashed     \* no, or why the process is lost: uncaught exception, freed object

pipeVars == <<builds, life, current, pending, updated>>
watchVars == <<stamp, watchers, described, mutex>>
watcherVars == <<running, watcher, todo, subject>>
appVars == <<app, target, stale>>
jobVars == <<left, seen, failed>>
cmdVars == <<recorder, lastBound, used, held>>
vars == <<disk, pipeVars, watchVars, watcherVars, appVars, jobVars, cmdVars, crashed>>

Worker == {"watcher", "app"}
Idle == [step |-> "idle", cmd |-> None, pipe |-> None]
Build(p) == {<<p, n>> : n \in 1..Len(builds[p])}

TypeOK ==
    /\ disk \in [File -> [time : 1..MaxEdits + 1, text : {"good", "broken", "missing"}]]
    /\ \A p \in Pipe : \A n \in 1..Len(builds[p]) : builds[p][n] \in [File -> 0..MaxEdits + 1]
    /\ life \in [Pipe -> {"none", "loading", "live", "closing", "dead"}]
    /\ \A p \in Pipe : current[p] \in 0..Len(builds[p]) /\ pending[p] \in 0..Len(builds[p])
    /\ updated \in [Pipe -> BOOLEAN]
    /\ stamp \in [File -> 1..MaxEdits + 1 \cup {None}]
    /\ watchers \in [File -> SUBSET Pipe]
    /\ described \subseteq Pipe
    /\ mutex \in Worker \cup {None}
    /\ running \in BOOLEAN
    /\ watcher \in {"head", "scan", "reload", "compile", "sleep", "ended"}
    /\ todo \subseteq Pipe
    /\ subject \in Pipe \cup {None}
    /\ app \in {"idle", "compile", "register", "unwind", "closing", "join"}
    /\ target \in Pipe \cup {None}
    /\ left \in [Worker -> SUBSET File]
    /\ seen \in [Worker -> [File -> 0..MaxEdits + 1]]
    /\ failed \in [Worker -> BOOLEAN]
    /\ recorder \in [step : {"idle", "swap", "record", "reference"},
                     cmd : Cmd \cup {None}, pipe : Pipe \cup {None}]
    /\ lastBound \in [Cmd -> Pipe \cup {None}]
    /\ \A c \in Cmd : used[c] \cup held[c] \subseteq UNION {Build(p) : p \in Pipe}
    /\ stale \subseteq Pipe
    /\ crashed \in {"no", "uncaught", "freed"}

Unread == [f \in File |-> 0]

Init ==
    /\ disk = [f \in File |-> [time |-> 1, text |-> "good"]]
    /\ builds = [p \in Pipe |-> <<>>]
    /\ life = [p \in Pipe |-> "none"]
    /\ current = [p \in Pipe |-> 0]
    /\ pending = [p \in Pipe |-> 0]
    /\ updated = [p \in Pipe |-> FALSE]
    /\ stamp = [f \in File |-> None]
    /\ watchers = [f \in File |-> {}]
    /\ described = {}
    /\ mutex = None
    /\ running = TRUE
    /\ watcher = "head"
    /\ todo = {}
    /\ subject = None
    /\ app = "idle"
    /\ target = None
    /\ left = [w \in Worker |-> {}]
    /\ seen = [w \in Worker |-> Unread]
    /\ failed = [w \in Worker |-> FALSE]
    /\ recorder = Idle
    /\ lastBound = [c \in Cmd |-> None]
    /\ used = [c \in Cmd |-> {}]
    /\ held = [c \in Cmd |-> {}]
    /\ stale = {}
    /\ crashed = "no"

\* The process has not been lost: nothing happens after that.
Running == crashed = "no"

-----------------------------------------------------------------------------
(* The editor: saves give a file a new modification time.                  *)

Save(f, text) ==
    /\ Running
    /\ disk[f].time <= MaxEdits
    /\ disk' = [disk EXCEPT ![f] = [time |-> @.time + 1, text |-> text]]
    /\ UNCHANGED <<pipeVars, watchVars, watcherVars, appVars, jobVars, cmdVars, crashed>>

Vanish(f) ==
    /\ Running
    /\ f \in MayVanish /\ disk[f].text # "missing" /\ disk[f].time <= MaxEdits
    /\ disk' = [disk EXCEPT ![f].text = "missing"]
    /\ UNCHANGED <<pipeVars, watchVars, watcherVars, appVars, jobVars, cmdVars, crashed>>

-----------------------------------------------------------------------------
(* DebugPipelineLoader::load, as each of the two threads runs it.          *)

StartCompile(w, p) ==
    /\ left' = [left EXCEPT ![w] = Uses[p]]
    /\ seen' = [seen EXCEPT ![w] = Unread]
    /\ failed' = [failed EXCEPT ![w] = FALSE]

ReadFile(w, f) ==
    /\ Running
    /\ CASE w = "app" -> app = "compile"
         [] w = "watcher" -> watcher = "compile"
    /\ f \in left[w]
    /\ left' = [left EXCEPT ![w] = @ \ {f}]
    /\ seen' = [seen EXCEPT ![w][f] = disk[f].time]
    /\ failed' = [failed EXCEPT ![w] = @ \/ disk[f].text # "good"]
    /\ UNCHANGED <<disk, pipeVars, watchVars, watcherVars, appVars, cmdVars, crashed>>

Built(w, p) == builds' = [builds EXCEPT ![p] = Append(@, seen[w])]

-----------------------------------------------------------------------------
(* The application: load, the destructor of a pipeline, stop.              *)

Load(p) ==
    /\ Running
    /\ app = "idle" /\ life[p] = "none"
    /\ app' = "compile"
    /\ target' = p
    /\ life' = [life EXCEPT ![p] = "loading"]
    /\ StartCompile("app", p)
    /\ UNCHANGED <<disk, builds, current, pending, updated, watchVars, watcherVars, stale, cmdVars, crashed>>

\* The exception of a failed first compile leaves load with nothing made.
LoadFails ==
    /\ Running
    /\ app = "compile" /\ left["app"] = {} /\ failed["app"]
    /\ life' = [life EXCEPT ![target] = "none"]
    /\ app' = "idle"
    /\ target' = None
    /\ UNCHANGED <<disk, builds, current, pending, updated, watchVars, watcherVars, stale, jobVars, cmdVars, crashed>>

\* set_pipeline and reload on the new object, then m_lock is taken.
LoadCompiled ==
    /\ Running
    /\ app = "compile" /\ left["app"] = {} /\ ~failed["app"]
    /\ mutex = None
    /\ mutex' = "app"
    /\ Built("app", target)
    /\ current' = [current EXCEPT ![target] = Len(builds[target]) + 1]
    /\ described' = described \cup {target}
    /\ left' = [left EXCEPT !["app"] = Uses[target]]
    /\ app' = "register"
    /\ UNCHANGED <<disk, life, pending, updated, stamp, watchers, watcherVars, target, stale, seen, failed, cmdVars, crashed>>

\* A file not watched yet starts at the time it has now, not at the time the
\* compile read: an edit in between is never reloaded.
RegisterFile(f) ==
    /\ Running
    /\ app = "register" /\ f \in left["app"]
    /\ stamp[f] = None => disk[f].text # "missing"
    /\ stamp' = [stamp EXCEPT ![f] = IF @ = None THEN disk[f].time ELSE @]
    /\ watchers' = [watchers EXCEPT ![f] = @ \cup {target}]
    /\ left' = [left EXCEPT !["app"] = @ \ {f}]
    /\ stale' = IF seen["app"][f] < stamp'[f] THEN stale \cup {target} ELSE stale
    /\ UNCHANGED <<disk, pipeVars, described, mutex, watcherVars, app, target, seen, failed, cmdVars, crashed>>

\* last_write_time throws: the lock is released, then the pipeline destroyed.
RegisterFails(f) ==
    /\ Running
    /\ app = "register" /\ f \in left["app"]
    /\ stamp[f] = None /\ disk[f].text = "missing"
    /\ mutex' = None
    /\ app' = "closing"
    /\ life' = [life EXCEPT ![target] = "closing"]
    /\ left' = [left EXCEPT !["app"] = {}]
    /\ UNCHANGED <<disk, builds, current, pending, updated, stamp, watchers, described, watcherVars, target, stale, seen, failed, cmdVars, crashed>>

LoadDone ==
    /\ Running
    /\ app = "register" /\ left["app"] = {}
    /\ mutex' = None
    /\ app' = "idle"
    /\ target' = None
    /\ life' = [life EXCEPT ![target] = "live"]
    /\ UNCHANGED <<disk, builds, current, pending, updated, stamp, watchers, described, watcherVars, stale, jobVars, cmdVars, crashed>>

\* A pipeline is destroyed when no bind of it is in progress.
Destroy(p) ==
    /\ Running
    /\ app = "idle" /\ life[p] = "live"
    /\ recorder.pipe # p
    /\ DestroyAnyTime \/ ~running
    /\ life' = [life EXCEPT ![p] = "closing"]
    /\ app' = "closing"
    /\ target' = p
    /\ UNCHANGED <<disk, builds, current, pending, updated, watchVars, watcherVars, stale, jobVars, cmdVars, crashed>>

RemoveForgetsFiles ==
    /\ Running
    /\ app = "closing" /\ mutex = None
    /\ described' = described \ {target}
    /\ life' = [life EXCEPT ![target] = "dead"]
    /\ current' = [current EXCEPT ![target] = 0]
    /\ pending' = [pending EXCEPT ![target] = 0]
    /\ updated' = [updated EXCEPT ![target] = FALSE]
    /\ app' = "idle"
    /\ target' = None
    /\ UNCHANGED <<disk, builds, stamp, watchers, mutex, watcherVars, stale, jobVars, cmdVars, crashed>>

\* remove_watched_pipeline, under m_lock, then the members are destroyed.
RemoveWatchedPipeline ==
    /\ Running
    /\ app = "closing" /\ mutex = None
    /\ described' = described \ {target}
    /\ watchers' = [f \in File |-> IF f \in Uses[target] THEN watchers[f] \ {target} ELSE watchers[f]]
    /\ life' = [life EXCEPT ![target] = "dead"]
    /\ current' = [current EXCEPT ![target] = 0]
    /\ pending' = [pending EXCEPT ![target] = 0]
    /\ updated' = [updated EXCEPT ![target] = FALSE]
    /\ app' = "idle"
    /\ target' = None
    /\ UNCHANGED <<disk, builds, stamp, mutex, watcherVars, stale, jobVars, cmdVars, crashed>>

StopWithoutJoin ==
    /\ Running
    /\ app = "idle" /\ running
    /\ running' = FALSE
    /\ UNCHANGED <<disk, pipeVars, watchVars, watcher, todo, subject, appVars, jobVars, cmdVars, crashed>>

StopForgetsFlag ==
    /\ Running
    /\ app = "idle" /\ running
    /\ app' = "join"
    /\ UNCHANGED <<disk, pipeVars, watchVars, watcherVars, target, stale, jobVars, cmdVars, crashed>>

\* stop(): m_running is cleared, then the thread joined.
Stop ==
    /\ Running
    /\ app = "idle" /\ running
    /\ running' = FALSE
    /\ app' = "join"
    /\ UNCHANGED <<disk, pipeVars, watchVars, watcher, todo, subject, target, stale, jobVars, cmdVars, crashed>>

Join ==
    /\ Running
    /\ app = "join" /\ watcher = "ended"
    /\ app' = "idle"
    /\ UNCHANGED <<disk, pipeVars, watchVars, watcherVars, target, stale, jobVars, cmdVars, crashed>>

-----------------------------------------------------------------------------
(* The watcher thread.                                                     *)

\* The loop test, and the lock of find_pipelines_to_reload.
BeginScan ==
    /\ Running
    /\ watcher = "head" /\ running
    /\ mutex = None
    /\ mutex' = "watcher"
    /\ todo' = {}
    /\ left' = [left EXCEPT !["watcher"] = {f \in File : stamp[f] # None}]
    /\ watcher' = "scan"
    /\ UNCHANGED <<disk, pipeVars, stamp, watchers, described, running, subject, appVars, seen, failed, cmdVars, crashed>>

EndThread ==
    /\ Running
    /\ watcher = "head" /\ ~running
    /\ watcher' = "ended"
    /\ UNCHANGED <<disk, pipeVars, watchVars, running, todo, subject, appVars, jobVars, cmdVars, crashed>>

ScanSkipsPending(f) ==
    /\ Running
    /\ watcher = "scan" /\ f \in left["watcher"] /\ disk[f].text # "missing"
    /\ stamp' = [stamp EXCEPT ![f] = disk[f].time]
    /\ todo' = IF disk[f].time = stamp[f] THEN todo ELSE todo \cup {p \in watchers[f] : ~updated[p]}
    /\ left' = [left EXCEPT !["watcher"] = @ \ {f}]
    /\ UNCHANGED <<disk, pipeVars, watchers, described, mutex, running, watcher, subject, appVars, seen, failed, cmdVars, crashed>>

\* The stamp is moved before anything is compiled.
ScanFile(f) ==
    /\ Running
    /\ watcher = "scan" /\ f \in left["watcher"] /\ disk[f].text # "missing"
    /\ stamp' = [stamp EXCEPT ![f] = disk[f].time]
    /\ todo' = IF disk[f].time = stamp[f] THEN todo ELSE todo \cup watchers[f]
    /\ left' = [left EXCEPT !["watcher"] = @ \ {f}]
    /\ UNCHANGED <<disk, pipeVars, watchers, described, mutex, running, watcher, subject, appVars, seen, failed, cmdVars, crashed>>

\* last_write_time throws in a thread that catches nothing.
ScanThrows(f) ==
    /\ Running
    /\ watcher = "scan" /\ f \in left["watcher"] /\ disk[f].text = "missing"
    /\ crashed' = "uncaught"
    /\ UNCHANGED <<disk, pipeVars, watchVars, watcherVars, appVars, jobVars, cmdVars>>

EndScan ==
    /\ Running
    /\ watcher = "scan" /\ left["watcher"] = {}
    /\ mutex' = None
    /\ watcher' = "reload"
    /\ UNCHANGED <<disk, pipeVars, stamp, watchers, described, running, todo, subject, appVars, jobVars, cmdVars, crashed>>

\* reload_pipeline, without the lock: the description and the pipeline are
\* the pointers the scan collected.
BeginReload(p) ==
    /\ Running
    /\ watcher = "reload" /\ p \in todo /\ life[p] # "dead"
    /\ todo' = todo \ {p}
    /\ subject' = p
    /\ watcher' = "compile"
    /\ StartCompile("watcher", p)
    /\ UNCHANGED <<disk, pipeVars, watchVars, running, appVars, cmdVars, crashed>>

SetPipelineForgetsFlag ==
    /\ Running
    /\ watcher = "compile" /\ left["watcher"] = {} /\ ~failed["watcher"]
    /\ life[subject] # "dead"
    /\ Built("watcher", subject)
    /\ pending' = [pending EXCEPT ![subject] = Len(builds[subject]) + 1]
    /\ subject' = None
    /\ watcher' = "reload"
    /\ UNCHANGED <<disk, life, current, updated, watchVars, running, todo, appVars, jobVars, cmdVars, crashed>>

\* set_pipeline: the previous pending build, never bound, is dropped.
SetPipeline ==
    /\ Running
    /\ watcher = "compile" /\ left["watcher"] = {} /\ ~failed["watcher"]
    /\ life[subject] # "dead"
    /\ Built("watcher", subject)
    /\ pending' = [pending EXCEPT ![subject] = Len(builds[subject]) + 1]
    /\ updated' = [updated EXCEPT ![subject] = TRUE]
    /\ subject' = None
    /\ watcher' = "reload"
    /\ UNCHANGED <<disk, life, current, watchVars, running, todo, appVars, jobVars, cmdVars, crashed>>

\* The exception is caught and logged; the stamp has already moved on.
ReloadFails ==
    /\ Running
    /\ watcher = "compile" /\ left["watcher"] = {} /\ failed["watcher"]
    /\ subject' = None
    /\ watcher' = "reload"
    /\ UNCHANGED <<disk, pipeVars, watchVars, running, todo, appVars, jobVars, cmdVars, crashed>>

\* The race of the comment in worker_function.
TouchDestroyed ==
    /\ Running
    /\ \/ watcher = "reload" /\ \E p \in todo : life[p] = "dead"
       \/ watcher = "compile" /\ left["watcher"] = {} /\ life[subject] = "dead"
    /\ crashed' = "freed"
    /\ UNCHANGED <<disk, pipeVars, watchVars, watcherVars, appVars, jobVars, cmdVars>>

Sleep ==
    /\ Running
    /\ watcher = "reload" /\ todo = {}
    /\ watcher' = "sleep"
    /\ UNCHANGED <<disk, pipeVars, watchVars, running, todo, subject, appVars, jobVars, cmdVars, crashed>>

Wake ==
    /\ Running
    /\ watcher = "sleep"
    /\ watcher' = "head"
    /\ UNCHANGED <<disk, pipeVars, watchVars, running, todo, subject, appVars, jobVars, cmdVars, crashed>>

-----------------------------------------------------------------------------
(* The recorder: CommandBuffer::bind_pipeline on a reloadable pipeline.    *)

\* The test of the last bound pipeline, then reload's test of m_updated.
Bind(c, p) ==
    /\ Running
    /\ recorder.step = "idle"
    /\ life[p] = "live" /\ lastBound[c] # p
    /\ recorder' = [step |-> IF updated[p] THEN "swap" ELSE "record", cmd |-> c, pipe |-> p]
    /\ UNCHANGED <<disk, pipeVars, watchVars, watcherVars, appVars, jobVars, lastBound, used, held, crashed>>

SwapLosesBuild ==
    /\ Running
    /\ recorder.step = "swap"
    /\ pending' = [pending EXCEPT ![recorder.pipe] = 0]
    /\ updated' = [updated EXCEPT ![recorder.pipe] = FALSE]
    /\ recorder' = [recorder EXCEPT !.step = "record"]
    /\ UNCHANGED <<disk, builds, life, current, watchVars, watcherVars, appVars, jobVars, lastBound, used, held, crashed>>

\* reload(): the handle of the old build is released, set_external follows.
Swap ==
    /\ Running
    /\ recorder.step = "swap"
    /\ current' = [current EXCEPT ![recorder.pipe] = pending[recorder.pipe]]
    /\ pending' = [pending EXCEPT ![recorder.pipe] = 0]
    /\ updated' = [updated EXCEPT ![recorder.pipe] = FALSE]
    /\ recorder' = [recorder EXCEPT !.step = "record"]
    /\ UNCHANGED <<disk, builds, life, watchVars, watcherVars, appVars, jobVars, lastBound, used, held, crashed>>

CurrentBuild(p) == <<p, current[p]>>

\* m_current_pipeline->bind(cmd).
Record ==
    /\ Running
    /\ recorder.step = "record"
    /\ used' = [used EXCEPT ![recorder.cmd] = @ \cup {CurrentBuild(recorder.pipe)}]
    /\ recorder' = [recorder EXCEPT !.step = "reference"]
    /\ UNCHANGED <<disk, pipeVars, watchVars, watcherVars, appVars, jobVars, lastBound, held, crashed>>

ReferenceForgotten ==
    /\ Running
    /\ recorder.step = "reference"
    /\ lastBound' = [lastBound EXCEPT ![recorder.cmd] = recorder.pipe]
    /\ recorder' = Idle
    /\ UNCHANGED <<disk, pipeVars, watchVars, watcherVars, appVars, jobVars, used, held, crashed>>

\* try_get_reference forwards to the external resource, the current build.
Reference ==
    /\ Running
    /\ recorder.step = "reference"
    /\ held' = [held EXCEPT ![recorder.cmd] = @ \cup {CurrentBuild(recorder.pipe)}]
    /\ lastBound' = [lastBound EXCEPT ![recorder.cmd] = recorder.pipe]
    /\ recorder' = Idle
    /\ UNCHANGED <<disk, pipeVars, watchVars, watcherVars, appVars, jobVars, used, crashed>>

\* CommandBuffer::reset, once the device is done with the buffer.
ResetCmd(c) ==
    /\ Running
    /\ recorder.step = "idle" /\ used[c] # {}
    /\ used' = [used EXCEPT ![c] = {}]
    /\ held' = [held EXCEPT ![c] = {}]
    /\ lastBound' = [lastBound EXCEPT ![c] = None]
    /\ UNCHANGED <<disk, pipeVars, watchVars, watcherVars, appVars, jobVars, recorder, crashed>>

-----------------------------------------------------------------------------

Editor == \E f \in File : (\E text \in {"good", "broken"} : Save(f, text)) \/ Vanish(f)

Watcher ==
    \/ BeginScan \/ EndScan \/ EndThread \/ Sleep \/ Wake
    \/ \E f \in File : ScanFile(f) \/ ScanThrows(f) \/ ReadFile("watcher", f)
    \/ \E p \in Pipe : BeginReload(p)
    \/ SetPipeline \/ ReloadFails \/ TouchDestroyed

\* The application's way through a call it has begun.
AppProgress ==
    \/ LoadFails \/ LoadCompiled \/ LoadDone \/ RemoveWatchedPipeline \/ Join
    \/ \E f \in File : ReadFile("app", f) \/ RegisterFile(f) \/ RegisterFails(f)

Application ==
    \/ \E p \in Pipe : Load(p) \/ Destroy(p)
    \/ Stop
    \/ AppProgress

RecorderProgress == Swap \/ Record \/ Reference

Recorder ==
    \/ \E c \in Cmd, p \in Pipe : Bind(c, p)
    \/ \E c \in Cmd : ResetCmd(c)
    \/ RecorderProgress

Next == Editor \/ Watcher \/ Application \/ Recorder

Spec == Init /\ [][Next]_vars

\* The threads run; nobody is obliged to edit, load, bind, destroy or stop.
FairSpec ==
    /\ Spec
    /\ WF_vars(Watcher)
    /\ WF_vars(AppProgress)

-----------------------------------------------------------------------------
(* Correctness.                                                            *)

\* The two watch tables name each other's entries and only pipelines that
\* still exist: what the watcher collects under m_lock is valid there
\* (load, remove_watched_pipeline).
WatchTables ==
    mutex = None =>
        /\ \A f \in File : \A p \in watchers[f] :
              /\ f \in Uses[p] /\ stamp[f] # None
              /\ p \in described /\ life[p] \in {"live", "closing"}
        /\ \A p \in Pipe : life[p] = "live" =>
              p \in described /\ \A f \in Uses[p] : p \in watchers[f]
        /\ \A p \in described : life[p] # "dead"

\* reload() never resets m_current_pipeline from a null m_pending_pipeline,
\* and no published build is left unnoticed (m_updated, set_pipeline, reload).
PendingIffUpdated ==
    /\ \A p \in Pipe : updated[p] <=> pending[p] # 0
    /\ recorder.step = "swap" => pending[recorder.pipe] # 0

\* What the threads share is consistent whenever m_lock is free.
Inv == TypeOK /\ WatchTables /\ PendingIffUpdated

\* A build recorded into a command buffer outlives the recording, whatever
\* the watcher publishes and the application destroys (bind_pipeline,
\* try_get_reference of an EXTERNAL resource).
Alive(b) ==
    \/ b[2] \in {current[b[1]], pending[b[1]]}
    \/ \E c \in Cmd : b \in held[c]

RecordedAlive == \A c \in Cmd : \A b \in used[c] : b[2] # 0 /\ Alive(b)

\* The watcher never touches a destroyed pipeline or its description, which
\* the comment in worker_function asks for.
NoUseAfterDestroy == crashed # "freed"

\* Once stop has returned the watcher moves no more, and no build is published
\* behind the application's back: what it tears down next is its own (stop).
StopIsFinal ==
    [][~running /\ app # "join" =>
          /\ UNCHANGED <<todo, subject, watcher>>
          /\ \A p \in Pipe : pending'[p] \in {0, pending[p]}]_vars

\* A build never goes back to an older version of a file of the pipeline.
Newest(p) == IF pending[p] # 0 THEN pending[p] ELSE current[p]

ReloadsForward ==
    [][\A p \in Pipe : life[p] = "live" /\ life'[p] = "live" =>
          \A f \in File : builds[p][Newest(p)][f] <= builds'[p][Newest(p)'][f]]_vars

\* The watcher ends with stop and brings newer builds only (stop, set_pipeline).
ReloadsInOrder == StopIsFinal /\ ReloadsForward

\* Stopping ends, whatever the watcher is doing.
StopReturns == app = "join" ~> (app = "idle" \/ crashed # "no")

\* While the watcher runs, a live pipeline whose files all compile is built
\* again until it has read their last versions, unless an edit fell between
\* the compile and the registration of load.
Fresh(p) == \A f \in Uses[p] : builds[p][Newest(p)][f] = disk[f].time

Watched(p) ==
    /\ life[p] = "live" /\ running /\ crashed = "no" /\ p \notin stale
    /\ \A f \in Uses[p] : disk[f].text = "good"

EventuallyFresh == \A p \in Pipe : []<>(Watched(p) => Fresh(p))
=============================================================================
