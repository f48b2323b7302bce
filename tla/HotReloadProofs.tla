--------------------------- MODULE HotReloadProofs ---------------------------
(***************************************************************************)
(* For every set of pipelines, files and command buffers: what a command   *)
(* buffer recorded outlives the recording; what the threads share is       *)
(* consistent whenever m_lock is free; the watcher ends with stop() and    *)
(* brings newer builds only; and it never touches a destroyed pipeline     *)
(* when pipelines are destroyed after stop() only.                         *)
(***************************************************************************)
EXTENDS HotReload, SequenceTheorems, TLAPS

Versions == [File -> Nat]

\* The types of what the invariants below rest on.
PlaceTypes ==
    /\ disk \in [File -> [time : Nat, text : {"good", "broken", "missing"}]]
    /\ seen \in [Worker -> Versions]
    /\ builds \in [Pipe -> Seq(Versions)]
    /\ life \in [Pipe -> {"none", "loading", "live", "closing", "dead"}]
    /\ current \in [Pipe -> Nat] /\ pending \in [Pipe -> Nat]
    /\ updated \in [Pipe -> BOOLEAN]
    /\ todo \subseteq Pipe /\ watchers \in [File -> SUBSET Pipe]
    /\ recorder \in [step : {"idle", "swap", "record", "reference"},
                     cmd : Cmd \cup {None}, pipe : Pipe \cup {None}]
    /\ used \in [Cmd -> SUBSET (Pipe \X Nat)] /\ held \in [Cmd -> SUBSET (Pipe \X Nat)]

\* Where the threads are and whom they work for.
ThreadsInv ==
    /\ app \in {"compile", "register"} => target \in Pipe /\ life[target] = "loading"
    /\ app = "closing" => target \in Pipe /\ life[target] = "closing"
    /\ app = "register" => current[target] # 0
    /\ \A p \in Pipe : life[p] = "live" => current[p] # 0
    /\ watcher = "compile" => subject \in Pipe
    /\ recorder.step # "idle" => recorder.cmd \in Cmd /\ recorder.pipe \in Pipe /\ life[recorder.pipe] = "live"

\* What is recorded is referred to, but for the bind that is in progress.
UsedInv ==
    \A c \in Cmd : \A b \in used[c] :
        /\ b[2] # 0
        /\ \/ b \in held[c]
           \/ /\ recorder.step = "reference" /\ recorder.cmd = c
              /\ b[1] = recorder.pipe /\ b[2] = current[recorder.pipe]

BindInv == PlaceTypes /\ ThreadsInv /\ PendingIffUpdated /\ UsedInv

\* Every step keeps the types.
LEMMA StepKeepsTypes ==
    ASSUME BindInv, [Next]_vars
    PROVE  PlaceTypes'
<1>. USE DEF BindInv, PlaceTypes
<1>1. CASE UNCHANGED vars
  BY <1>1 DEF vars, pipeVars, watchVars, watcherVars, appVars, jobVars, cmdVars
<1>2. ASSUME NEW f \in File, NEW text \in {"good", "broken"}, Save(f, text) PROVE PlaceTypes'
  BY <1>2 DEF Save, pipeVars, watchVars, watcherVars, appVars, jobVars, cmdVars
<1>3. ASSUME NEW f \in File, Vanish(f) PROVE PlaceTypes'
  BY <1>3 DEF Vanish, pipeVars, watchVars, watcherVars, appVars, jobVars, cmdVars
<1>4. ASSUME NEW w \in Worker, NEW f \in File, ReadFile(w, f) PROVE PlaceTypes'
  BY <1>4 DEF ReadFile, Versions, pipeVars, watchVars, watcherVars, appVars, jobVars, cmdVars
<1>5. ASSUME NEW p \in Pipe, Load(p) PROVE PlaceTypes'
  BY <1>5 DEF Load, StartCompile, Unread, Versions, Worker, pipeVars, watchVars, watcherVars, appVars, jobVars, cmdVars
<1>6. CASE LoadFails
  BY <1>6 DEF LoadFails, ThreadsInv, pipeVars, watchVars, watcherVars, appVars, jobVars, cmdVars
<1>7. CASE LoadCompiled
  BY <1>7, SMTT(30) DEF LoadCompiled, Built, ThreadsInv, Worker, Versions, pipeVars, watchVars, watcherVars, appVars, jobVars, cmdVars
<1>8. ASSUME NEW f \in File, RegisterFile(f) PROVE PlaceTypes'
  BY <1>8 DEF RegisterFile, ThreadsInv, pipeVars, watchVars, watcherVars, appVars, jobVars, cmdVars
<1>9. ASSUME NEW f \in File, RegisterFails(f) PROVE PlaceTypes'
  BY <1>9 DEF RegisterFails, ThreadsInv, pipeVars, watchVars, watcherVars, appVars, jobVars, cmdVars
<1>10. CASE LoadDone
  BY <1>10 DEF LoadDone, ThreadsInv, pipeVars, watchVars, watcherVars, appVars, jobVars, cmdVars
<1>11. ASSUME NEW p \in Pipe, Destroy(p) PROVE PlaceTypes'
  BY <1>11 DEF Destroy, pipeVars, watchVars, watcherVars, appVars, jobVars, cmdVars
<1>12. CASE RemoveWatchedPipeline
  BY <1>12 DEF RemoveWatchedPipeline, ThreadsInv, pipeVars, watchVars, watcherVars, appVars, jobVars, cmdVars
<1>13. CASE Stop
  BY <1>13 DEF Stop, pipeVars, watchVars, watcherVars, appVars, jobVars, cmdVars
<1>14. CASE Join
  BY <1>14 DEF Join, pipeVars, watchVars, watcherVars, appVars, jobVars, cmdVars
<1>15. CASE BeginScan
  BY <1>15 DEF BeginScan, pipeVars, watchVars, watcherVars, appVars, jobVars, cmdVars
<1>16. CASE EndThread
  BY <1>16 DEF EndThread, pipeVars, watchVars, watcherVars, appVars, jobVars, cmdVars
<1>17. ASSUME NEW f \in File, ScanFile(f) PROVE PlaceTypes'
  BY <1>17 DEF ScanFile, pipeVars, watchVars, watcherVars, appVars, jobVars, cmdVars
<1>18. ASSUME NEW f \in File, ScanThrows(f) PROVE PlaceTypes'
  BY <1>18 DEF ScanThrows, pipeVars, watchVars, watcherVars, appVars, jobVars, cmdVars
<1>19. CASE EndScan
  BY <1>19 DEF EndScan, pipeVars, watchVars, watcherVars, appVars, jobVars, cmdVars
<1>20. ASSUME NEW p \in Pipe, BeginReload(p) PROVE PlaceTypes'
  BY <1>20 DEF BeginReload, StartCompile, Unread, Versions, Worker, pipeVars, watchVars, watcherVars, appVars, jobVars, cmdVars
<1>21. CASE SetPipeline
  BY <1>21 DEF SetPipeline, Built, ThreadsInv, Worker, Versions, pipeVars, watchVars, watcherVars, appVars, jobVars, cmdVars
<1>22. CASE ReloadFails
  BY <1>22 DEF ReloadFails, pipeVars, watchVars, watcherVars, appVars, jobVars, cmdVars
<1>23. CASE TouchDestroyed
  BY <1>23 DEF TouchDestroyed, pipeVars, watchVars, watcherVars, appVars, jobVars, cmdVars
<1>24. CASE Sleep
  BY <1>24 DEF Sleep, pipeVars, watchVars, watcherVars, appVars, jobVars, cmdVars
<1>25. CASE Wake
  BY <1>25 DEF Wake, pipeVars, watchVars, watcherVars, appVars, jobVars, cmdVars
<1>26. ASSUME NEW c \in Cmd, NEW p \in Pipe, Bind(c, p) PROVE PlaceTypes'
  BY <1>26 DEF Bind, pipeVars, watchVars, watcherVars, appVars, jobVars, cmdVars
<1>27. CASE Swap
  BY <1>27 DEF Swap, ThreadsInv, pipeVars, watchVars, watcherVars, appVars, jobVars, cmdVars
<1>28. CASE Record
  <2>1. CurrentBuild(recorder.pipe) \in Pipe \X Nat
    BY <1>28 DEF Record, CurrentBuild, ThreadsInv
  <2>. QED BY <1>28, <2>1 DEF Record, pipeVars, watchVars, watcherVars, appVars, jobVars, cmdVars
<1>29. CASE Reference
  <2>1. CurrentBuild(recorder.pipe) \in Pipe \X Nat
    BY <1>29 DEF Reference, CurrentBuild, ThreadsInv
  <2>. QED BY <1>29, <2>1 DEF Reference, Idle, pipeVars, watchVars, watcherVars, appVars, jobVars, cmdVars
<1>30. ASSUME NEW c \in Cmd, ResetCmd(c) PROVE PlaceTypes'
  BY <1>30 DEF ResetCmd, pipeVars, watchVars, watcherVars, appVars, jobVars, cmdVars
<1>. HIDE DEF BindInv, PlaceTypes
<1>. QED
  BY <1>1, <1>2, <1>3, <1>4, <1>5, <1>6, <1>7, <1>8, <1>9, <1>10, <1>11, <1>12, <1>13, <1>14, <1>15, <1>16, <1>17, <1>18, <1>19, <1>20, <1>21, <1>22, <1>23, <1>24, <1>25, <1>26, <1>27, <1>28, <1>29, <1>30
     DEF Next, Editor, Watcher, Application, AppProgress, Recorder, RecorderProgress, Worker

\* The threads work for pipelines that are there.
LEMMA StepKeepsThreads ==
    ASSUME BindInv, [Next]_vars
    PROVE  ThreadsInv' /\ PendingIffUpdated'
<1>. USE DEF BindInv, PlaceTypes, ThreadsInv, PendingIffUpdated
<1>1. CASE UNCHANGED vars
  BY <1>1 DEF vars, pipeVars, watchVars, watcherVars, appVars, jobVars, cmdVars
<1>2. ASSUME NEW f \in File, NEW text \in {"good", "broken"}, Save(f, text) PROVE ThreadsInv' /\ PendingIffUpdated'
  BY <1>2 DEF Save, pipeVars, watchVars, watcherVars, appVars, jobVars, cmdVars
<1>3. ASSUME NEW f \in File, Vanish(f) PROVE ThreadsInv' /\ PendingIffUpdated'
  BY <1>3 DEF Vanish, pipeVars, watchVars, watcherVars, appVars, jobVars, cmdVars
<1>4. ASSUME NEW w \in Worker, NEW f \in File, ReadFile(w, f) PROVE ThreadsInv' /\ PendingIffUpdated'
  BY <1>4 DEF ReadFile, pipeVars, watchVars, watcherVars, appVars, jobVars, cmdVars
<1>5. ASSUME NEW p \in Pipe, Load(p) PROVE ThreadsInv' /\ PendingIffUpdated'
  BY <1>5 DEF Load, StartCompile, pipeVars, watchVars, watcherVars, appVars, jobVars, cmdVars
<1>6. CASE LoadFails
  BY <1>6 DEF LoadFails, pipeVars, watchVars, watcherVars, appVars, jobVars, cmdVars
<1>7. CASE LoadCompiled
  BY <1>7 DEF LoadCompiled, Built, pipeVars, watchVars, watcherVars, appVars, jobVars, cmdVars
<1>8. ASSUME NEW f \in File, RegisterFile(f) PROVE ThreadsInv' /\ PendingIffUpdated'
  BY <1>8 DEF RegisterFile, pipeVars, watchVars, watcherVars, appVars, jobVars, cmdVars
<1>9. ASSUME NEW f \in File, RegisterFails(f) PROVE ThreadsInv' /\ PendingIffUpdated'
  BY <1>9 DEF RegisterFails, pipeVars, watchVars, watcherVars, appVars, jobVars, cmdVars
<1>10. CASE LoadDone
  BY <1>10 DEF LoadDone, pipeVars, watchVars, watcherVars, appVars, jobVars, cmdVars
<1>11. ASSUME NEW p \in Pipe, Destroy(p) PROVE ThreadsInv' /\ PendingIffUpdated'
  BY <1>11 DEF Destroy, pipeVars, watchVars, watcherVars, appVars, jobVars, cmdVars
<1>12. CASE RemoveWatchedPipeline
  BY <1>12 DEF RemoveWatchedPipeline, pipeVars, watchVars, watcherVars, appVars, jobVars, cmdVars
<1>13. CASE Stop
  BY <1>13 DEF Stop, pipeVars, watchVars, watcherVars, appVars, jobVars, cmdVars
<1>14. CASE Join
  BY <1>14 DEF Join, pipeVars, watchVars, watcherVars, appVars, jobVars, cmdVars
<1>15. CASE BeginScan
  BY <1>15 DEF BeginScan, pipeVars, watchVars, watcherVars, appVars, jobVars, cmdVars
<1>16. CASE EndThread
  BY <1>16 DEF EndThread, pipeVars, watchVars, watcherVars, appVars, jobVars, cmdVars
<1>17. ASSUME NEW f \in File, ScanFile(f) PROVE ThreadsInv' /\ PendingIffUpdated'
  BY <1>17 DEF ScanFile, pipeVars, watchVars, watcherVars, appVars, jobVars, cmdVars
<1>18. ASSUME NEW f \in File, ScanThrows(f) PROVE ThreadsInv' /\ PendingIffUpdated'
  BY <1>18 DEF ScanThrows, pipeVars, watchVars, watcherVars, appVars, jobVars, cmdVars
<1>19. CASE EndScan
  BY <1>19 DEF EndScan, pipeVars, watchVars, watcherVars, appVars, jobVars, cmdVars
<1>20. ASSUME NEW p \in Pipe, BeginReload(p) PROVE ThreadsInv' /\ PendingIffUpdated'
  BY <1>20 DEF BeginReload, StartCompile, pipeVars, watchVars, watcherVars, appVars, jobVars, cmdVars
<1>21. CASE SetPipeline
  BY <1>21 DEF SetPipeline, Built, pipeVars, watchVars, watcherVars, appVars, jobVars, cmdVars
<1>22. CASE ReloadFails
  BY <1>22 DEF ReloadFails, pipeVars, watchVars, watcherVars, appVars, jobVars, cmdVars
<1>23. CASE TouchDestroyed
  BY <1>23 DEF TouchDestroyed, pipeVars, watchVars, watcherVars, appVars, jobVars, cmdVars
<1>24. CASE Sleep
  BY <1>24 DEF Sleep, pipeVars, watchVars, watcherVars, appVars, jobVars, cmdVars
<1>25. CASE Wake
  BY <1>25 DEF Wake, pipeVars, watchVars, watcherVars, appVars, jobVars, cmdVars
<1>26. ASSUME NEW c \in Cmd, NEW p \in Pipe, Bind(c, p) PROVE ThreadsInv' /\ PendingIffUpdated'
  BY <1>26 DEF Bind, pipeVars, watchVars, watcherVars, appVars, jobVars, cmdVars
<1>27. CASE Swap
  BY <1>27 DEF Swap, pipeVars, watchVars, watcherVars, appVars, jobVars, cmdVars
<1>28. CASE Record
  BY <1>28 DEF Record, pipeVars, watchVars, watcherVars, appVars, jobVars, cmdVars
<1>29. CASE Reference
  BY <1>29 DEF Reference, Idle, pipeVars, watchVars, watcherVars, appVars, jobVars, cmdVars
<1>30. ASSUME NEW c \in Cmd, ResetCmd(c) PROVE ThreadsInv' /\ PendingIffUpdated'
  BY <1>30 DEF ResetCmd, pipeVars, watchVars, watcherVars, appVars, jobVars, cmdVars
<1>. QED
  BY <1>1, <1>2, <1>3, <1>4, <1>5, <1>6, <1>7, <1>8, <1>9, <1>10, <1>11, <1>12, <1>13, <1>14, <1>15, <1>16, <1>17, <1>18, <1>19, <1>20, <1>21, <1>22, <1>23, <1>24, <1>25, <1>26, <1>27, <1>28, <1>29, <1>30
     DEF Next, Editor, Watcher, Application, AppProgress, Recorder, RecorderProgress, Worker

\* A step that leaves the recorder and what it records alone.
LEMMA UsedKept ==
    ASSUME UsedInv, UNCHANGED <<used, held, recorder>>,
           recorder.step = "reference" => current'[recorder.pipe] = current[recorder.pipe]
    PROVE  UsedInv'
  BY DEF UsedInv

\* Recorded builds are referred to.
LEMMA StepKeepsUsed ==
    ASSUME BindInv, [Next]_vars
    PROVE  UsedInv'
<1>. USE DEF BindInv, PlaceTypes, ThreadsInv
<1>1. CASE UNCHANGED vars
  BY <1>1 DEF vars, UsedInv, CurrentBuild, pipeVars, watchVars, watcherVars, appVars, jobVars, cmdVars
<1>2. ASSUME NEW f \in File, NEW text \in {"good", "broken"}, Save(f, text) PROVE UsedInv'
  BY <1>2 DEF Save, UsedInv, CurrentBuild, pipeVars, watchVars, watcherVars, appVars, jobVars, cmdVars
<1>3. ASSUME NEW f \in File, Vanish(f) PROVE UsedInv'
  BY <1>3 DEF Vanish, UsedInv, CurrentBuild, pipeVars, watchVars, watcherVars, appVars, jobVars, cmdVars
<1>4. ASSUME NEW w \in Worker, NEW f \in File, ReadFile(w, f) PROVE UsedInv'
  BY <1>4 DEF ReadFile, UsedInv, CurrentBuild, pipeVars, watchVars, watcherVars, appVars, jobVars, cmdVars
<1>5. ASSUME NEW p \in Pipe, Load(p) PROVE UsedInv'
  BY <1>5 DEF Load, UsedInv, CurrentBuild, pipeVars, watchVars, watcherVars, appVars, jobVars, cmdVars
<1>6. CASE LoadFails
  BY <1>6 DEF LoadFails, UsedInv, CurrentBuild, pipeVars, watchVars, watcherVars, appVars, jobVars, cmdVars
<1>7. CASE LoadCompiled
  <2>1. recorder.step = "reference" => current'[recorder.pipe] = current[recorder.pipe]
    BY <1>7 DEF LoadCompiled
  <2>. QED BY <1>7, <2>1, UsedKept DEF LoadCompiled, cmdVars
<1>8. ASSUME NEW f \in File, RegisterFile(f) PROVE UsedInv'
  BY <1>8 DEF RegisterFile, UsedInv, CurrentBuild, pipeVars, watchVars, watcherVars, appVars, jobVars, cmdVars
<1>9. ASSUME NEW f \in File, RegisterFails(f) PROVE UsedInv'
  BY <1>9 DEF RegisterFails, UsedInv, CurrentBuild, pipeVars, watchVars, watcherVars, appVars, jobVars, cmdVars
<1>10. CASE LoadDone
  BY <1>10 DEF LoadDone, UsedInv, CurrentBuild, pipeVars, watchVars, watcherVars, appVars, jobVars, cmdVars
<1>11. ASSUME NEW p \in Pipe, Destroy(p) PROVE UsedInv'
  BY <1>11 DEF Destroy, UsedInv, CurrentBuild, pipeVars, watchVars, watcherVars, appVars, jobVars, cmdVars
<1>12. CASE RemoveWatchedPipeline
  <2>1. recorder.step = "reference" => current'[recorder.pipe] = current[recorder.pipe]
    BY <1>12 DEF RemoveWatchedPipeline
  <2>. QED BY <1>12, <2>1, UsedKept DEF RemoveWatchedPipeline, cmdVars
<1>13. CASE Stop
  BY <1>13 DEF Stop, UsedInv, CurrentBuild, pipeVars, watchVars, watcherVars, appVars, jobVars, cmdVars
<1>14. CASE Join
  BY <1>14 DEF Join, UsedInv, CurrentBuild, pipeVars, watchVars, watcherVars, appVars, jobVars, cmdVars
<1>15. CASE BeginScan
  BY <1>15 DEF BeginScan, UsedInv, CurrentBuild, pipeVars, watchVars, watcherVars, appVars, jobVars, cmdVars
<1>16. CASE EndThread
  BY <1>16 DEF EndThread, UsedInv, CurrentBuild, pipeVars, watchVars, watcherVars, appVars, jobVars, cmdVars
<1>17. ASSUME NEW f \in File, ScanFile(f) PROVE UsedInv'
  BY <1>17 DEF ScanFile, UsedInv, CurrentBuild, pipeVars, watchVars, watcherVars, appVars, jobVars, cmdVars
<1>18. ASSUME NEW f \in File, ScanThrows(f) PROVE UsedInv'
  BY <1>18 DEF ScanThrows, UsedInv, CurrentBuild, pipeVars, watchVars, watcherVars, appVars, jobVars, cmdVars
<1>19. CASE EndScan
  BY <1>19 DEF EndScan, UsedInv, CurrentBuild, pipeVars, watchVars, watcherVars, appVars, jobVars, cmdVars
<1>20. ASSUME NEW p \in Pipe, BeginReload(p) PROVE UsedInv'
  BY <1>20 DEF BeginReload, UsedInv, CurrentBuild, pipeVars, watchVars, watcherVars, appVars, jobVars, cmdVars
<1>21. CASE SetPipeline
  BY <1>21 DEF SetPipeline, UsedInv, CurrentBuild, pipeVars, watchVars, watcherVars, appVars, jobVars, cmdVars
<1>22. CASE ReloadFails
  BY <1>22 DEF ReloadFails, UsedInv, CurrentBuild, pipeVars, watchVars, watcherVars, appVars, jobVars, cmdVars
<1>23. CASE TouchDestroyed
  BY <1>23 DEF TouchDestroyed, UsedInv, CurrentBuild, pipeVars, watchVars, watcherVars, appVars, jobVars, cmdVars
<1>24. CASE Sleep
  BY <1>24 DEF Sleep, UsedInv, CurrentBuild, pipeVars, watchVars, watcherVars, appVars, jobVars, cmdVars
<1>25. CASE Wake
  BY <1>25 DEF Wake, UsedInv, CurrentBuild, pipeVars, watchVars, watcherVars, appVars, jobVars, cmdVars
<1>26. ASSUME NEW c \in Cmd, NEW p \in Pipe, Bind(c, p) PROVE UsedInv'
  <2>1. recorder.step = "idle" /\ used' = used /\ held' = held
    BY <1>26 DEF Bind
  <2>. QED BY <2>1 DEF UsedInv
<1>27. CASE Swap
  <2>1. recorder.step = "swap" /\ used' = used /\ held' = held
    BY <1>27 DEF Swap
  <2>. QED BY <2>1 DEF UsedInv
<1>28. CASE Record
  <2>. DEFINE b == CurrentBuild(recorder.pipe)
  <2>1. /\ recorder.step = "record" /\ recorder.cmd \in Cmd /\ held' = held /\ current' = current
        /\ recorder'.step = "reference" /\ recorder'.cmd = recorder.cmd /\ recorder'.pipe = recorder.pipe
        /\ used' = [used EXCEPT ![recorder.cmd] = @ \cup {b}]
    BY <1>28 DEF Record, pipeVars
  <2>2. b[1] = recorder.pipe /\ b[2] = current[recorder.pipe] /\ b[2] # 0
    BY <2>1 DEF CurrentBuild
  <2>. HIDE DEF b
  <2>3. ASSUME NEW c \in Cmd, NEW d \in used'[c]
        PROVE  d[2] # 0 /\ (d \in held[c] \/ (recorder.cmd = c /\ d = b))
    <3>1. d \in used[c] => d[2] # 0 /\ d \in held[c]
      BY <2>1 DEF UsedInv
    <3>2. d \in used[c] \/ (recorder.cmd = c /\ d = b)
      <4>1. used'[c] = IF c = recorder.cmd THEN used[c] \cup {b} ELSE used[c]
        BY <2>1
      <4>. QED BY <2>3, <4>1, Zenon
    <3>. QED BY <2>2, <3>1, <3>2
  <2>. QED BY <2>1, <2>2, <2>3 DEF UsedInv
<1>29. CASE Reference
  <2>. DEFINE b == CurrentBuild(recorder.pipe)
  <2>1. /\ recorder.cmd \in Cmd /\ used' = used
        /\ held' = [held EXCEPT ![recorder.cmd] = @ \cup {b}]
    BY <1>29 DEF Reference
  <2>2. \A d \in Pipe \X Nat : d[1] = recorder.pipe /\ d[2] = current[recorder.pipe] => d = b
    BY DEF CurrentBuild
  <2>. HIDE DEF b
  <2>3. ASSUME NEW c \in Cmd, NEW d \in used[c] PROVE d[2] # 0 /\ d \in held'[c]
    <3>1. d \in Pipe \X Nat
      OBVIOUS
    <3>2. d[2] # 0 /\ (d \in held[c] \/ (recorder.cmd = c /\ d[1] = recorder.pipe /\ d[2] = current[recorder.pipe]))
      BY DEF UsedInv
    <3>3. d[2] # 0 /\ (d \in held[c] \/ (recorder.cmd = c /\ d = b))
      BY <2>2, <3>1, <3>2, Zenon
    <3>. QED BY <2>1, <3>3
  <2>. QED BY <2>1, <2>3 DEF UsedInv
<1>30. ASSUME NEW c \in Cmd, ResetCmd(c) PROVE UsedInv'
  BY <1>30 DEF ResetCmd, UsedInv, CurrentBuild, pipeVars, watchVars, watcherVars, appVars, jobVars, cmdVars
<1>. HIDE DEF BindInv, PlaceTypes, ThreadsInv
<1>. QED
  BY <1>1, <1>2, <1>3, <1>4, <1>5, <1>6, <1>7, <1>8, <1>9, <1>10, <1>11, <1>12, <1>13, <1>14, <1>15, <1>16, <1>17, <1>18, <1>19, <1>20, <1>21, <1>22, <1>23, <1>24, <1>25, <1>26, <1>27, <1>28, <1>29, <1>30
     DEF Next, Editor, Watcher, Application, AppProgress, Recorder, RecorderProgress, Worker

\* At first there is nothing.
LEMMA InitBinds == Init => BindInv
<1>. SUFFICES ASSUME Init PROVE BindInv
  OBVIOUS
<1>1. PlaceTypes
  <2>1. updated \in [Pipe -> BOOLEAN]
    BY Zenon DEF Init
  <2>2. recorder = Idle /\ Idle \in [step : {"idle", "swap", "record", "reference"},
                                     cmd : Cmd \cup {None}, pipe : Pipe \cup {None}]
    BY DEF Init, Idle
  <2>3. Unread \in Versions
    BY DEF Unread, Versions
  <2>4. /\ disk \in [File -> [time : Nat, text : {"good", "broken", "missing"}]]
        /\ seen \in [Worker -> Versions] /\ watchers \in [File -> SUBSET Pipe]
    BY <2>3 DEF Init
  <2>5. builds \in [Pipe -> Seq(Versions)]
    BY DEF Init
  <2>6. /\ life \in [Pipe -> {"none", "loading", "live", "closing", "dead"}]
        /\ current \in [Pipe -> Nat] /\ pending \in [Pipe -> Nat] /\ todo \subseteq Pipe
        /\ used \in [Cmd -> SUBSET (Pipe \X Nat)] /\ held \in [Cmd -> SUBSET (Pipe \X Nat)]
    BY DEF Init
  <2>. QED BY <2>1, <2>2, <2>4, <2>5, <2>6 DEF PlaceTypes
<1>2. ThreadsInv /\ PendingIffUpdated /\ UsedInv
  BY DEF Init, Idle, ThreadsInv, PendingIffUpdated, UsedInv
<1>. QED BY <1>1, <1>2 DEF BindInv

\* Every step of the threads and of the editor.
LEMMA StepKeepsBinds == BindInv /\ [Next]_vars => BindInv'
  BY StepKeepsTypes, StepKeepsThreads, StepKeepsUsed DEF BindInv

\* A build that was recorded lives until the command buffer is reset, whatever
\* the watcher publishes and the application destroys (bind_pipeline).
THEOREM RecordedBuildsLive == Spec => []RecordedAlive
<1>1. BindInv => RecordedAlive
  <2>. SUFFICES ASSUME BindInv, NEW c \in Cmd, NEW b \in used[c] PROVE b[2] # 0 /\ Alive(b)
    BY DEF RecordedAlive
  <2>1. b[2] # 0 /\ (b \in held[c] \/ b[2] = current[b[1]])
    BY DEF BindInv, UsedInv
  <2>. QED BY <2>1 DEF Alive
<1>. QED BY <1>1, InitBinds, StepKeepsBinds, PTL DEF Spec

-----------------------------------------------------------------------------
(* What the threads share.                                                 *)

Read == [File -> 0..MaxEdits + 1]

\* The other types.
RegisterTypes ==
    /\ disk \in [File -> [time : 1..MaxEdits + 1, text : {"good", "broken", "missing"}]]
    /\ seen \in [Worker -> Read] /\ left \in [Worker -> SUBSET File]
    /\ stamp \in [File -> 1..MaxEdits + 1 \cup {None}]
    /\ described \subseteq Pipe /\ stale \subseteq Pipe /\ mutex \in Worker \cup {None}
    /\ watcher \in {"head", "scan", "reload", "compile", "sleep", "ended"}
    /\ subject \in Pipe \cup {None}
    /\ app \in {"idle", "compile", "register", "unwind", "closing", "join"}
    /\ target \in Pipe \cup {None}
    /\ lastBound \in [Cmd -> Pipe \cup {None}]
    /\ crashed \in {"no", "uncaught", "freed"}

FlagTypes == running \in BOOLEAN /\ failed \in [Worker -> BOOLEAN]

\* The handles name builds that were made.
MadeInv ==
    /\ builds \in [Pipe -> Seq(Read)]
    /\ \A p \in Pipe : current[p] \in 0..Len(builds[p]) /\ pending[p] \in 0..Len(builds[p])
    /\ \A c \in Cmd : \A b \in used[c] \cup held[c] : b[2] \in 1..Len(builds[b[1]])

\* Who holds m_lock.
LocksInv == (mutex = "app" <=> app = "register") /\ (mutex = "watcher" <=> watcher = "scan")

\* The watch tables at every moment, a load in the middle of them or not.
TablesInv ==
    /\ \A f \in File : \A p \in watchers[f] : f \in Uses[p] /\ stamp[f] # None /\ p \in described
    /\ \A p \in described : life[p] \in {"live", "closing"} \/ (app = "register" /\ p = target)
    /\ \A p \in Pipe : life[p] = "live" => p \in described /\ \A f \in Uses[p] : p \in watchers[f]
    /\ app = "register" =>
          /\ target \in described /\ left["app"] \subseteq Uses[target]
          /\ \A f \in Uses[target] \ left["app"] : target \in watchers[f]

SharedInv == BindInv /\ RegisterTypes /\ FlagTypes /\ MadeInv /\ LocksInv /\ TablesInv

\* Every step keeps the other types.
LEMMA StepKeepsRegisters ==
    ASSUME SharedInv, [Next]_vars
    PROVE  RegisterTypes'
<1>. USE UsesAssumption, BoundAssumption, NoneAssumption DEF SharedInv, BindInv, PlaceTypes, ThreadsInv, RegisterTypes
<1>1. CASE UNCHANGED vars
  BY <1>1 DEF vars, pipeVars, watchVars, watcherVars, appVars, jobVars, cmdVars
<1>2. ASSUME NEW f \in File, NEW text \in {"good", "broken"}, Save(f, text) PROVE RegisterTypes'
  <2>1. disk' \in [File -> [time : 1..MaxEdits + 1, text : {"good", "broken", "missing"}]]
    <3>1. disk[f] \in [time : 1..MaxEdits + 1, text : {"good", "broken", "missing"}]
      OBVIOUS
    <3>2. disk[f].time + 1 \in 1..MaxEdits + 1
      BY <1>2, <3>1 DEF Save
    <3>. QED BY <1>2, <3>2 DEF Save
  <2>. QED BY <1>2, <2>1 DEF Save, pipeVars, watchVars, watcherVars, appVars, jobVars, cmdVars
<1>3. ASSUME NEW f \in File, Vanish(f) PROVE RegisterTypes'
  <2>1. disk[f] \in [time : 1..MaxEdits + 1, text : {"good", "broken", "missing"}]
    OBVIOUS
  <2>2. [disk[f] EXCEPT !.text = "missing"] \in [time : 1..MaxEdits + 1, text : {"good", "broken", "missing"}]
    BY <2>1
  <2>3. disk' \in [File -> [time : 1..MaxEdits + 1, text : {"good", "broken", "missing"}]]
    BY <1>3, <2>2 DEF Vanish
  <2>. QED BY <1>3, <2>3 DEF Vanish, pipeVars, watchVars, watcherVars, appVars, jobVars, cmdVars
<1>4. ASSUME NEW w \in Worker, NEW f \in File, ReadFile(w, f) PROVE RegisterTypes'
  <2>1. disk[f].time \in 0..MaxEdits + 1
    <3>1. disk[f] \in [time : 1..MaxEdits + 1, text : {"good", "broken", "missing"}]
      OBVIOUS
    <3>. QED BY <3>1
  <2>2. seen' \in [Worker -> Read]
    <3>1. seen[w] \in Read /\ seen' = [seen EXCEPT ![w][f] = disk[f].time]
      BY <1>4 DEF ReadFile
    <3>2. [seen[w] EXCEPT ![f] = disk[f].time] \in Read
      BY <2>1, <3>1 DEF Read
    <3>. QED BY <3>1, <3>2
  <2>3. left' \in [Worker -> SUBSET File]
    BY <1>4 DEF ReadFile
  <2>. QED BY <1>4, <2>2, <2>3 DEF ReadFile, pipeVars, watchVars, watcherVars, appVars, jobVars, cmdVars
<1>5. ASSUME NEW p \in Pipe, Load(p) PROVE RegisterTypes'
  <2>1. Unread \in Read
    BY DEF Unread, Read
  <2>2. seen' = [seen EXCEPT !["app"] = Unread] /\ left' = [left EXCEPT !["app"] = Uses[p]] /\ Uses[p] \in SUBSET File
    BY <1>5 DEF Load, StartCompile
  <2>3. seen' \in [Worker -> Read] /\ left' \in [Worker -> SUBSET File]
    BY <2>1, <2>2 DEF Worker
  <2>. QED BY <1>5, <2>3 DEF Load, pipeVars, watchVars, watcherVars, appVars, jobVars, cmdVars
<1>6. CASE LoadFails
  BY <1>6 DEF LoadFails, Worker, Read, StartCompile, Unread, pipeVars, watchVars, watcherVars, appVars, jobVars, cmdVars
<1>7. CASE LoadCompiled
  BY <1>7 DEF LoadCompiled, Worker, Read, StartCompile, Unread, pipeVars, watchVars, watcherVars, appVars, jobVars, cmdVars
<1>8. ASSUME NEW f \in File, RegisterFile(f) PROVE RegisterTypes'
  BY <1>8 DEF RegisterFile, Worker, Read, StartCompile, Unread, pipeVars, watchVars, watcherVars, appVars, jobVars, cmdVars
<1>9. ASSUME NEW f \in File, RegisterFails(f) PROVE RegisterTypes'
  BY <1>9 DEF RegisterFails, Worker, Read, StartCompile, Unread, pipeVars, watchVars, watcherVars, appVars, jobVars, cmdVars
<1>10. CASE LoadDone
  BY <1>10 DEF LoadDone, Worker, Read, StartCompile, Unread, pipeVars, watchVars, watcherVars, appVars, jobVars, cmdVars
<1>11. ASSUME NEW p \in Pipe, Destroy(p) PROVE RegisterTypes'
  BY <1>11 DEF Destroy, Worker, Read, StartCompile, Unread, pipeVars, watchVars, watcherVars, appVars, jobVars, cmdVars
<1>12. CASE RemoveWatchedPipeline
  BY <1>12 DEF RemoveWatchedPipeline, Worker, Read, StartCompile, Unread, pipeVars, watchVars, watcherVars, appVars, jobVars, cmdVars
<1>13. CASE Stop
  BY <1>13 DEF Stop, Worker, Read, StartCompile, Unread, pipeVars, watchVars, watcherVars, appVars, jobVars, cmdVars
<1>14. CASE Join
  BY <1>14 DEF Join, Worker, Read, StartCompile, Unread, pipeVars, watchVars, watcherVars, appVars, jobVars, cmdVars
<1>15. CASE BeginScan
  BY <1>15 DEF BeginScan, Worker, Read, StartCompile, Unread, pipeVars, watchVars, watcherVars, appVars, jobVars, cmdVars
<1>16. CASE EndThread
  BY <1>16 DEF EndThread, Worker, Read, StartCompile, Unread, pipeVars, watchVars, watcherVars, appVars, jobVars, cmdVars
<1>17. ASSUME NEW f \in File, ScanFile(f) PROVE RegisterTypes'
  BY <1>17 DEF ScanFile, Worker, Read, StartCompile, Unread, pipeVars, watchVars, watcherVars, appVars, jobVars, cmdVars
<1>18. ASSUME NEW f \in File, ScanThrows(f) PROVE RegisterTypes'
  BY <1>18 DEF ScanThrows, Worker, Read, StartCompile, Unread, pipeVars, watchVars, watcherVars, appVars, jobVars, cmdVars
<1>19. CASE EndScan
  BY <1>19 DEF EndScan, Worker, Read, StartCompile, Unread, pipeVars, watchVars, watcherVars, appVars, jobVars, cmdVars
<1>20. ASSUME NEW p \in Pipe, BeginReload(p) PROVE RegisterTypes'
  <2>1. Unread \in Read
    BY DEF Unread, Read
  <2>2. seen' = [seen EXCEPT !["watcher"] = Unread] /\ left' = [left EXCEPT !["watcher"] = Uses[p]] /\ Uses[p] \in SUBSET File
    BY <1>20 DEF BeginReload, StartCompile
  <2>3. seen' \in [Worker -> Read] /\ left' \in [Worker -> SUBSET File]
    BY <2>1, <2>2 DEF Worker
  <2>. QED BY <1>20, <2>3 DEF BeginReload, pipeVars, watchVars, watcherVars, appVars, jobVars, cmdVars
<1>21. CASE SetPipeline
  BY <1>21 DEF SetPipeline, Worker, Read, StartCompile, Unread, pipeVars, watchVars, watcherVars, appVars, jobVars, cmdVars
<1>22. CASE ReloadFails
  BY <1>22 DEF ReloadFails, Worker, Read, StartCompile, Unread, pipeVars, watchVars, watcherVars, appVars, jobVars, cmdVars
<1>23. CASE TouchDestroyed
  BY <1>23 DEF TouchDestroyed, Worker, Read, StartCompile, Unread, pipeVars, watchVars, watcherVars, appVars, jobVars, cmdVars
<1>24. CASE Sleep
  BY <1>24 DEF Sleep, Worker, Read, StartCompile, Unread, pipeVars, watchVars, watcherVars, appVars, jobVars, cmdVars
<1>25. CASE Wake
  BY <1>25 DEF Wake, Worker, Read, StartCompile, Unread, pipeVars, watchVars, watcherVars, appVars, jobVars, cmdVars
<1>26. ASSUME NEW c \in Cmd, NEW p \in Pipe, Bind(c, p) PROVE RegisterTypes'
  BY <1>26 DEF Bind, Worker, Read, StartCompile, Unread, pipeVars, watchVars, watcherVars, appVars, jobVars, cmdVars
<1>27. CASE Swap
  BY <1>27 DEF Swap, Worker, Read, StartCompile, Unread, pipeVars, watchVars, watcherVars, appVars, jobVars, cmdVars
<1>28. CASE Record
  BY <1>28 DEF Record, Worker, Read, StartCompile, Unread, pipeVars, watchVars, watcherVars, appVars, jobVars, cmdVars
<1>29. CASE Reference
  BY <1>29 DEF Reference, Worker, Read, StartCompile, Unread, pipeVars, watchVars, watcherVars, appVars, jobVars, cmdVars
<1>30. ASSUME NEW c \in Cmd, ResetCmd(c) PROVE RegisterTypes'
  BY <1>30 DEF ResetCmd, Worker, Read, StartCompile, Unread, pipeVars, watchVars, watcherVars, appVars, jobVars, cmdVars
<1>. HIDE DEF SharedInv, BindInv, PlaceTypes, ThreadsInv, RegisterTypes
<1>. QED
  BY <1>1, <1>2, <1>3, <1>4, <1>5, <1>6, <1>7, <1>8, <1>9, <1>10, <1>11, <1>12, <1>13, <1>14, <1>15, <1>16, <1>17, <1>18, <1>19, <1>20, <1>21, <1>22, <1>23, <1>24, <1>25, <1>26, <1>27, <1>28, <1>29, <1>30
     DEF Next, Editor, Watcher, Application, AppProgress, Recorder, RecorderProgress, Worker

\* A step that leaves the flags alone.
LEMMA FlagsKept == ASSUME FlagTypes, UNCHANGED <<running, failed>> PROVE FlagTypes'
  BY DEF FlagTypes

\* Flags stay flags.
LEMMA StepKeepsFlags ==
    ASSUME SharedInv, [Next]_vars
    PROVE  FlagTypes'
<1>. USE DEF SharedInv
<1>1. CASE UNCHANGED vars
  BY <1>1, FlagsKept DEF vars, pipeVars, watchVars, watcherVars, appVars, jobVars, cmdVars
<1>2. ASSUME NEW f \in File, NEW text \in {"good", "broken"}, Save(f, text) PROVE FlagTypes'
  BY <1>2, FlagsKept DEF Save, pipeVars, watchVars, watcherVars, appVars, jobVars, cmdVars
<1>3. ASSUME NEW f \in File, Vanish(f) PROVE FlagTypes'
  BY <1>3, FlagsKept DEF Vanish, pipeVars, watchVars, watcherVars, appVars, jobVars, cmdVars
<1>4. ASSUME NEW w \in Worker, NEW f \in File, ReadFile(w, f) PROVE FlagTypes'
  <2>1. running' = running /\ failed' = [failed EXCEPT ![w] = failed[w] \/ disk[f].text # "good"]
    BY <1>4 DEF ReadFile, watcherVars
  <2>2. (failed[w] \/ disk[f].text # "good") \in BOOLEAN
    OBVIOUS
  <2>. QED BY <2>1, <2>2, Zenon DEF FlagTypes
<1>5. ASSUME NEW p \in Pipe, Load(p) PROVE FlagTypes'
  <2>1. running' = running /\ failed' = [failed EXCEPT !["app"] = FALSE]
    BY <1>5 DEF Load, StartCompile, watcherVars
  <2>. QED BY <2>1, Zenon DEF FlagTypes
<1>6. CASE LoadFails
  BY <1>6, FlagsKept DEF LoadFails, pipeVars, watchVars, watcherVars, appVars, jobVars, cmdVars
<1>7. CASE LoadCompiled
  BY <1>7, FlagsKept DEF LoadCompiled, pipeVars, watchVars, watcherVars, appVars, jobVars, cmdVars
<1>8. ASSUME NEW f \in File, RegisterFile(f) PROVE FlagTypes'
  BY <1>8, FlagsKept DEF RegisterFile, pipeVars, watchVars, watcherVars, appVars, jobVars, cmdVars
<1>9. ASSUME NEW f \in File, RegisterFails(f) PROVE FlagTypes'
  BY <1>9, FlagsKept DEF RegisterFails, pipeVars, watchVars, watcherVars, appVars, jobVars, cmdVars
<1>10. CASE LoadDone
  BY <1>10, FlagsKept DEF LoadDone, pipeVars, watchVars, watcherVars, appVars, jobVars, cmdVars
<1>11. ASSUME NEW p \in Pipe, Destroy(p) PROVE FlagTypes'
  BY <1>11, FlagsKept DEF Destroy, pipeVars, watchVars, watcherVars, appVars, jobVars, cmdVars
<1>12. CASE RemoveWatchedPipeline
  BY <1>12, FlagsKept DEF RemoveWatchedPipeline, pipeVars, watchVars, watcherVars, appVars, jobVars, cmdVars
<1>13. CASE Stop
  <2>1. running' = FALSE /\ failed' = failed
    BY <1>13 DEF Stop, jobVars
  <2>. QED BY <2>1, Zenon DEF FlagTypes
<1>14. CASE Join
  BY <1>14, FlagsKept DEF Join, pipeVars, watchVars, watcherVars, appVars, jobVars, cmdVars
<1>15. CASE BeginScan
  BY <1>15, FlagsKept DEF BeginScan, pipeVars, watchVars, watcherVars, appVars, jobVars, cmdVars
<1>16. CASE EndThread
  BY <1>16, FlagsKept DEF EndThread, pipeVars, watchVars, watcherVars, appVars, jobVars, cmdVars
<1>17. ASSUME NEW f \in File, ScanFile(f) PROVE FlagTypes'
  BY <1>17, FlagsKept DEF ScanFile, pipeVars, watchVars, watcherVars, appVars, jobVars, cmdVars
<1>18. ASSUME NEW f \in File, ScanThrows(f) PROVE FlagTypes'
  BY <1>18, FlagsKept DEF ScanThrows, pipeVars, watchVars, watcherVars, appVars, jobVars, cmdVars
<1>19. CASE EndScan
  BY <1>19, FlagsKept DEF EndScan, pipeVars, watchVars, watcherVars, appVars, jobVars, cmdVars
<1>20. ASSUME NEW p \in Pipe, BeginReload(p) PROVE FlagTypes'
  <2>1. running' = running /\ failed' = [failed EXCEPT !["watcher"] = FALSE]
    BY <1>20 DEF BeginReload, StartCompile, watcherVars
  <2>. QED BY <2>1, Zenon DEF FlagTypes
<1>21. CASE SetPipeline
  BY <1>21, FlagsKept DEF SetPipeline, pipeVars, watchVars, watcherVars, appVars, jobVars, cmdVars
<1>22. CASE ReloadFails
  BY <1>22, FlagsKept DEF ReloadFails, pipeVars, watchVars, watcherVars, appVars, jobVars, cmdVars
<1>23. CASE TouchDestroyed
  BY <1>23, FlagsKept DEF TouchDestroyed, pipeVars, watchVars, watcherVars, appVars, jobVars, cmdVars
<1>24. CASE Sleep
  BY <1>24, FlagsKept DEF Sleep, pipeVars, watchVars, watcherVars, appVars, jobVars, cmdVars
<1>25. CASE Wake
  BY <1>25, FlagsKept DEF Wake, pipeVars, watchVars, watcherVars, appVars, jobVars, cmdVars
<1>26. ASSUME NEW c \in Cmd, NEW p \in Pipe, Bind(c, p) PROVE FlagTypes'
  BY <1>26, FlagsKept DEF Bind, pipeVars, watchVars, watcherVars, appVars, jobVars, cmdVars
<1>27. CASE Swap
  BY <1>27, FlagsKept DEF Swap, pipeVars, watchVars, watcherVars, appVars, jobVars, cmdVars
<1>28. CASE Record
  BY <1>28, FlagsKept DEF Record, pipeVars, watchVars, watcherVars, appVars, jobVars, cmdVars
<1>29. CASE Reference
  BY <1>29, FlagsKept DEF Reference, pipeVars, watchVars, watcherVars, appVars, jobVars, cmdVars
<1>30. ASSUME NEW c \in Cmd, ResetCmd(c) PROVE FlagTypes'
  BY <1>30, FlagsKept DEF ResetCmd, pipeVars, watchVars, watcherVars, appVars, jobVars, cmdVars
<1>. HIDE DEF SharedInv
<1>. QED
  BY <1>1, <1>2, <1>3, <1>4, <1>5, <1>6, <1>7, <1>8, <1>9, <1>10, <1>11, <1>12, <1>13, <1>14, <1>15, <1>16, <1>17, <1>18, <1>19, <1>20, <1>21, <1>22, <1>23, <1>24, <1>25, <1>26, <1>27, <1>28, <1>29, <1>30
     DEF Next, Editor, Watcher, Application, AppProgress, Recorder, RecorderProgress, Worker

\* A step that makes no build and no handle.
LEMMA MadeKept == ASSUME MadeInv, UNCHANGED <<builds, current, pending, used, held>> PROVE MadeInv'
  BY DEF MadeInv

\* One more build of a pipeline: those there were stay.
LEMMA BuiltOnce ==
    ASSUME SharedInv, NEW w \in Worker, NEW p \in Pipe, Built(w, p)
    PROVE  /\ builds' \in [Pipe -> Seq(Read)]
           /\ \A q \in Pipe : Len(builds'[q]) = IF q = p THEN Len(builds[p]) + 1 ELSE Len(builds[q])
           /\ \A q \in Pipe : Len(builds[q]) \in Nat /\ \A n \in 1..Len(builds[q]) : builds'[q][n] = builds[q][n]
           /\ builds'[p][Len(builds[p]) + 1] = seen[w]
<1>1. builds \in [Pipe -> Seq(Read)] /\ seen[w] \in Read
  BY DEF SharedInv, MadeInv, RegisterTypes
<1>2. \A q \in Pipe : builds'[q] = IF q = p THEN Append(builds[p], seen[w]) ELSE builds[q]
  BY <1>1 DEF Built
<1>3. /\ Append(builds[p], seen[w]) \in Seq(Read) /\ Len(Append(builds[p], seen[w])) = Len(builds[p]) + 1
      /\ \A n \in 1..Len(builds[p]) : Append(builds[p], seen[w])[n] = builds[p][n]
      /\ Append(builds[p], seen[w])[Len(builds[p]) + 1] = seen[w]
  BY <1>1, AppendProperties
<1>4. builds' \in [Pipe -> Seq(Read)]
  BY <1>1, <1>3 DEF Built
<1>5. \A q \in Pipe : Len(builds[q]) \in Nat
  BY <1>1, LenProperties
<1>. QED BY <1>2, <1>3, <1>4, <1>5

\* The indices there were stay in range when builds are added.
LEMMA MadeGrows ==
    ASSUME SharedInv, UNCHANGED <<used, held>>, builds' \in [Pipe -> Seq(Read)],
           \A q \in Pipe : Len(builds[q]) \in Nat /\ Len(builds'[q]) \in Nat /\ Len(builds[q]) <= Len(builds'[q]),
           \A q \in Pipe : current'[q] \in {current[q], Len(builds'[q])} /\ pending'[q] \in {pending[q], Len(builds'[q])}
    PROVE  MadeInv'
<1>1. \A c \in Cmd : \A b \in used[c] \cup held[c] : b[1] \in Pipe /\ b[2] \in 1..Len(builds[b[1]])
  BY DEF SharedInv, MadeInv, BindInv, PlaceTypes
<1>2. \A q \in Pipe : current'[q] \in 0..Len(builds'[q]) /\ pending'[q] \in 0..Len(builds'[q])
  BY DEF SharedInv, MadeInv
<1>. QED BY <1>1, <1>2 DEF MadeInv

\* The handle of a live pipeline names a build.
LEMMA CurrentMade ==
    ASSUME SharedInv, NEW p \in Pipe, current[p] # 0
    PROVE  CurrentBuild(p)[2] \in 1..Len(builds[CurrentBuild(p)[1]])
<1>1. current[p] \in 0..Len(builds[p]) /\ Len(builds[p]) \in Nat
  BY LenProperties DEF SharedInv, MadeInv
<1>. QED BY <1>1 DEF CurrentBuild

\* The handles of the pipelines and of the command buffers name builds.
LEMMA StepKeepsMade ==
    ASSUME SharedInv, [Next]_vars
    PROVE  MadeInv'
<1>. USE DEF SharedInv
<1>1. CASE UNCHANGED vars
  BY <1>1, MadeKept DEF vars, pipeVars, watchVars, watcherVars, appVars, jobVars, cmdVars
<1>2. ASSUME NEW f \in File, NEW text \in {"good", "broken"}, Save(f, text) PROVE MadeInv'
  BY <1>2, MadeKept DEF Save, pipeVars, watchVars, watcherVars, appVars, jobVars, cmdVars
<1>3. ASSUME NEW f \in File, Vanish(f) PROVE MadeInv'
  BY <1>3, MadeKept DEF Vanish, pipeVars, watchVars, watcherVars, appVars, jobVars, cmdVars
<1>4. ASSUME NEW w \in Worker, NEW f \in File, ReadFile(w, f) PROVE MadeInv'
  BY <1>4, MadeKept DEF ReadFile, pipeVars, watchVars, watcherVars, appVars, jobVars, cmdVars
<1>5. ASSUME NEW p \in Pipe, Load(p) PROVE MadeInv'
  BY <1>5, MadeKept DEF Load, pipeVars, watchVars, watcherVars, appVars, jobVars, cmdVars
<1>6. CASE LoadFails
  BY <1>6, MadeKept DEF LoadFails, pipeVars, watchVars, watcherVars, appVars, jobVars, cmdVars
<1>7. CASE LoadCompiled
  <2>1. /\ target \in Pipe /\ Built("app", target) /\ "app" \in Worker
        /\ current' = [current EXCEPT ![target] = Len(builds[target]) + 1]
        /\ pending' = pending /\ used' = used /\ held' = held
    BY <1>7 DEF LoadCompiled, BindInv, ThreadsInv, Worker, cmdVars
  <2>2. /\ builds' \in [Pipe -> Seq(Read)]
        /\ \A q \in Pipe : Len(builds'[q]) = IF q = target THEN Len(builds[target]) + 1 ELSE Len(builds[q])
        /\ \A q \in Pipe : Len(builds[q]) \in Nat
    BY <2>1, BuiltOnce
  <2>3. \A q \in Pipe : current'[q] \in {current[q], Len(builds'[q])} /\ pending'[q] = pending[q]
    BY <2>1, <2>2 DEF BindInv, PlaceTypes
  <2>. QED BY <2>1, <2>2, <2>3, MadeGrows
<1>8. ASSUME NEW f \in File, RegisterFile(f) PROVE MadeInv'
  BY <1>8, MadeKept DEF RegisterFile, pipeVars, watchVars, watcherVars, appVars, jobVars, cmdVars
<1>9. ASSUME NEW f \in File, RegisterFails(f) PROVE MadeInv'
  BY <1>9, MadeKept DEF RegisterFails, pipeVars, watchVars, watcherVars, appVars, jobVars, cmdVars
<1>10. CASE LoadDone
  BY <1>10, MadeKept DEF LoadDone, pipeVars, watchVars, watcherVars, appVars, jobVars, cmdVars
<1>11. ASSUME NEW p \in Pipe, Destroy(p) PROVE MadeInv'
  BY <1>11, MadeKept DEF Destroy, pipeVars, watchVars, watcherVars, appVars, jobVars, cmdVars
<1>12. CASE RemoveWatchedPipeline
  <2>1. /\ current' = [current EXCEPT ![target] = 0] /\ pending' = [pending EXCEPT ![target] = 0]
        /\ builds' = builds /\ used' = used /\ held' = held
    BY <1>12 DEF RemoveWatchedPipeline, cmdVars
  <2>2. \A p \in Pipe : 0 \in 0..Len(builds[p])
    BY LenProperties DEF MadeInv
  <2>. QED BY <2>1, <2>2 DEF MadeInv, BindInv, PlaceTypes
<1>13. CASE Stop
  BY <1>13, MadeKept DEF Stop, pipeVars, watchVars, watcherVars, appVars, jobVars, cmdVars
<1>14. CASE Join
  BY <1>14, MadeKept DEF Join, pipeVars, watchVars, watcherVars, appVars, jobVars, cmdVars
<1>15. CASE BeginScan
  BY <1>15, MadeKept DEF BeginScan, pipeVars, watchVars, watcherVars, appVars, jobVars, cmdVars
<1>16. CASE EndThread
  BY <1>16, MadeKept DEF EndThread, pipeVars, watchVars, watcherVars, appVars, jobVars, cmdVars
<1>17. ASSUME NEW f \in File, ScanFile(f) PROVE MadeInv'
  BY <1>17, MadeKept DEF ScanFile, pipeVars, watchVars, watcherVars, appVars, jobVars, cmdVars
<1>18. ASSUME NEW f \in File, ScanThrows(f) PROVE MadeInv'
  BY <1>18, MadeKept DEF ScanThrows, pipeVars, watchVars, watcherVars, appVars, jobVars, cmdVars
<1>19. CASE EndScan
  BY <1>19, MadeKept DEF EndScan, pipeVars, watchVars, watcherVars, appVars, jobVars, cmdVars
<1>20. ASSUME NEW p \in Pipe, BeginReload(p) PROVE MadeInv'
  BY <1>20, MadeKept DEF BeginReload, pipeVars, watchVars, watcherVars, appVars, jobVars, cmdVars
<1>21. CASE SetPipeline
  <2>1. /\ subject \in Pipe /\ Built("watcher", subject) /\ "watcher" \in Worker
        /\ pending' = [pending EXCEPT ![subject] = Len(builds[subject]) + 1]
        /\ current' = current /\ used' = used /\ held' = held
    BY <1>21 DEF SetPipeline, BindInv, ThreadsInv, Worker, cmdVars
  <2>2. /\ builds' \in [Pipe -> Seq(Read)]
        /\ \A q \in Pipe : Len(builds'[q]) = IF q = subject THEN Len(builds[subject]) + 1 ELSE Len(builds[q])
        /\ \A q \in Pipe : Len(builds[q]) \in Nat
    BY <2>1, BuiltOnce
  <2>3. \A q \in Pipe : current'[q] = current[q] /\ pending'[q] \in {pending[q], Len(builds'[q])}
    BY <2>1, <2>2 DEF BindInv, PlaceTypes
  <2>. QED BY <2>1, <2>2, <2>3, MadeGrows
<1>22. CASE ReloadFails
  BY <1>22, MadeKept DEF ReloadFails, pipeVars, watchVars, watcherVars, appVars, jobVars, cmdVars
<1>23. CASE TouchDestroyed
  BY <1>23, MadeKept DEF TouchDestroyed, pipeVars, watchVars, watcherVars, appVars, jobVars, cmdVars
<1>24. CASE Sleep
  BY <1>24, MadeKept DEF Sleep, pipeVars, watchVars, watcherVars, appVars, jobVars, cmdVars
<1>25. CASE Wake
  BY <1>25, MadeKept DEF Wake, pipeVars, watchVars, watcherVars, appVars, jobVars, cmdVars
<1>26. ASSUME NEW c \in Cmd, NEW p \in Pipe, Bind(c, p) PROVE MadeInv'
  BY <1>26, MadeKept DEF Bind, pipeVars, watchVars, watcherVars, appVars, jobVars, cmdVars
<1>27. CASE Swap
  <2>1. /\ current' = [current EXCEPT ![recorder.pipe] = pending[recorder.pipe]]
        /\ pending' = [pending EXCEPT ![recorder.pipe] = 0]
        /\ builds' = builds /\ used' = used /\ held' = held
    BY <1>27 DEF Swap
  <2>2. \A p \in Pipe : 0 \in 0..Len(builds[p])
    BY LenProperties DEF MadeInv
  <2>. QED BY <2>1, <2>2 DEF MadeInv, BindInv, PlaceTypes
<1>28. CASE Record
  <2>1. /\ recorder.pipe \in Pipe /\ life[recorder.pipe] = "live" /\ current[recorder.pipe] # 0
        /\ used' = [used EXCEPT ![recorder.cmd] = used[recorder.cmd] \cup {CurrentBuild(recorder.pipe)}]
        /\ builds' = builds /\ current' = current /\ pending' = pending /\ held' = held
    BY <1>28 DEF Record, BindInv, ThreadsInv, pipeVars
  <2>. DEFINE b == CurrentBuild(recorder.pipe)
  <2>2. b[2] \in 1..Len(builds[b[1]])
    BY <2>1, CurrentMade
  <2>. HIDE DEF b
  <2>3. \A c \in Cmd : used'[c] \subseteq used[c] \cup {b}
    BY <2>1 DEF BindInv, PlaceTypes, b
  <2>. QED BY <2>1, <2>2, <2>3 DEF MadeInv
<1>29. CASE Reference
  <2>1. /\ recorder.pipe \in Pipe /\ life[recorder.pipe] = "live" /\ current[recorder.pipe] # 0
        /\ held' = [held EXCEPT ![recorder.cmd] = held[recorder.cmd] \cup {CurrentBuild(recorder.pipe)}]
        /\ builds' = builds /\ current' = current /\ pending' = pending /\ used' = used
    BY <1>29 DEF Reference, BindInv, ThreadsInv, pipeVars
  <2>. DEFINE b == CurrentBuild(recorder.pipe)
  <2>2. b[2] \in 1..Len(builds[b[1]])
    BY <2>1, CurrentMade
  <2>. HIDE DEF b
  <2>3. \A c \in Cmd : held'[c] \subseteq held[c] \cup {b}
    BY <2>1 DEF BindInv, PlaceTypes, b
  <2>. QED BY <2>1, <2>2, <2>3 DEF MadeInv
<1>30. ASSUME NEW c \in Cmd, ResetCmd(c) PROVE MadeInv'
  <2>1. \A d \in Cmd : used'[d] \subseteq used[d] /\ held'[d] \subseteq held[d]
    BY <1>30 DEF ResetCmd, BindInv, PlaceTypes
  <2>. QED BY <1>30, <2>1 DEF ResetCmd, MadeInv, pipeVars
<1>. HIDE DEF SharedInv
<1>. QED
  BY <1>1, <1>2, <1>3, <1>4, <1>5, <1>6, <1>7, <1>8, <1>9, <1>10, <1>11, <1>12, <1>13, <1>14, <1>15, <1>16, <1>17, <1>18, <1>19, <1>20, <1>21, <1>22, <1>23, <1>24, <1>25, <1>26, <1>27, <1>28, <1>29, <1>30
     DEF Next, Editor, Watcher, Application, AppProgress, Recorder, RecorderProgress, Worker

\* m_lock is held by who registers files, or scans.
LEMMA StepKeepsLocks ==
    ASSUME SharedInv, [Next]_vars
    PROVE  LocksInv'
<1>. USE NoneAssumption DEF SharedInv, LocksInv
<1>1. CASE UNCHANGED vars
  BY <1>1 DEF vars, pipeVars, watchVars, watcherVars, appVars, jobVars, cmdVars
<1>2. ASSUME NEW f \in File, NEW text \in {"good", "broken"}, Save(f, text) PROVE LocksInv'
  BY <1>2 DEF Save, pipeVars, watchVars, watcherVars, appVars, jobVars, cmdVars
<1>3. ASSUME NEW f \in File, Vanish(f) PROVE LocksInv'
  BY <1>3 DEF Vanish, pipeVars, watchVars, watcherVars, appVars, jobVars, cmdVars
<1>4. ASSUME NEW w \in Worker, NEW f \in File, ReadFile(w, f) PROVE LocksInv'
  BY <1>4 DEF ReadFile, pipeVars, watchVars, watcherVars, appVars, jobVars, cmdVars
<1>5. ASSUME NEW p \in Pipe, Load(p) PROVE LocksInv'
  BY <1>5 DEF Load, pipeVars, watchVars, watcherVars, appVars, jobVars, cmdVars
<1>6. CASE LoadFails
  BY <1>6 DEF LoadFails, pipeVars, watchVars, watcherVars, appVars, jobVars, cmdVars
<1>7. CASE LoadCompiled
  BY <1>7 DEF LoadCompiled, pipeVars, watchVars, watcherVars, appVars, jobVars, cmdVars
<1>8. ASSUME NEW f \in File, RegisterFile(f) PROVE LocksInv'
  BY <1>8 DEF RegisterFile, pipeVars, watchVars, watcherVars, appVars, jobVars, cmdVars
<1>9. ASSUME NEW f \in File, RegisterFails(f) PROVE LocksInv'
  BY <1>9 DEF RegisterFails, pipeVars, watchVars, watcherVars, appVars, jobVars, cmdVars
<1>10. CASE LoadDone
  BY <1>10 DEF LoadDone, pipeVars, watchVars, watcherVars, appVars, jobVars, cmdVars
<1>11. ASSUME NEW p \in Pipe, Destroy(p) PROVE LocksInv'
  BY <1>11 DEF Destroy, pipeVars, watchVars, watcherVars, appVars, jobVars, cmdVars
<1>12. CASE RemoveWatchedPipeline
  BY <1>12 DEF RemoveWatchedPipeline, pipeVars, watchVars, watcherVars, appVars, jobVars, cmdVars
<1>13. CASE Stop
  BY <1>13 DEF Stop, pipeVars, watchVars, watcherVars, appVars, jobVars, cmdVars
<1>14. CASE Join
  BY <1>14 DEF Join, pipeVars, watchVars, watcherVars, appVars, jobVars, cmdVars
<1>15. CASE BeginScan
  BY <1>15 DEF BeginScan, pipeVars, watchVars, watcherVars, appVars, jobVars, cmdVars
<1>16. CASE EndThread
  BY <1>16 DEF EndThread, pipeVars, watchVars, watcherVars, appVars, jobVars, cmdVars
<1>17. ASSUME NEW f \in File, ScanFile(f) PROVE LocksInv'
  BY <1>17 DEF ScanFile, pipeVars, watchVars, watcherVars, appVars, jobVars, cmdVars
<1>18. ASSUME NEW f \in File, ScanThrows(f) PROVE LocksInv'
  BY <1>18 DEF ScanThrows, pipeVars, watchVars, watcherVars, appVars, jobVars, cmdVars
<1>19. CASE EndScan
  BY <1>19 DEF EndScan, pipeVars, watchVars, watcherVars, appVars, jobVars, cmdVars
<1>20. ASSUME NEW p \in Pipe, BeginReload(p) PROVE LocksInv'
  BY <1>20 DEF BeginReload, pipeVars, watchVars, watcherVars, appVars, jobVars, cmdVars
<1>21. CASE SetPipeline
  BY <1>21 DEF SetPipeline, pipeVars, watchVars, watcherVars, appVars, jobVars, cmdVars
<1>22. CASE ReloadFails
  BY <1>22 DEF ReloadFails, pipeVars, watchVars, watcherVars, appVars, jobVars, cmdVars
<1>23. CASE TouchDestroyed
  BY <1>23 DEF TouchDestroyed, pipeVars, watchVars, watcherVars, appVars, jobVars, cmdVars
<1>24. CASE Sleep
  BY <1>24 DEF Sleep, pipeVars, watchVars, watcherVars, appVars, jobVars, cmdVars
<1>25. CASE Wake
  BY <1>25 DEF Wake, pipeVars, watchVars, watcherVars, appVars, jobVars, cmdVars
<1>26. ASSUME NEW c \in Cmd, NEW p \in Pipe, Bind(c, p) PROVE LocksInv'
  BY <1>26 DEF Bind, pipeVars, watchVars, watcherVars, appVars, jobVars, cmdVars
<1>27. CASE Swap
  BY <1>27 DEF Swap, pipeVars, watchVars, watcherVars, appVars, jobVars, cmdVars
<1>28. CASE Record
  BY <1>28 DEF Record, pipeVars, watchVars, watcherVars, appVars, jobVars, cmdVars
<1>29. CASE Reference
  BY <1>29 DEF Reference, pipeVars, watchVars, watcherVars, appVars, jobVars, cmdVars
<1>30. ASSUME NEW c \in Cmd, ResetCmd(c) PROVE LocksInv'
  BY <1>30 DEF ResetCmd, pipeVars, watchVars, watcherVars, appVars, jobVars, cmdVars
<1>. HIDE DEF SharedInv, LocksInv
<1>. QED
  BY <1>1, <1>2, <1>3, <1>4, <1>5, <1>6, <1>7, <1>8, <1>9, <1>10, <1>11, <1>12, <1>13, <1>14, <1>15, <1>16, <1>17, <1>18, <1>19, <1>20, <1>21, <1>22, <1>23, <1>24, <1>25, <1>26, <1>27, <1>28, <1>29, <1>30
     DEF Next, Editor, Watcher, Application, AppProgress, Recorder, RecorderProgress, Worker

\* A step that touches neither the tables nor the lives they are about.
LEMMA TablesKept ==
    ASSUME TablesInv, UNCHANGED <<stamp, watchers, described, life>>,
           app' = "register" <=> app = "register",
           app = "register" => target' = target /\ left'["app"] = left["app"]
    PROVE  TablesInv'
  BY DEF TablesInv

\* A file on the disk has a time, and the time is not None.
LEMMA TimesAreTimes ==
    ASSUME SharedInv, NEW f \in File
    PROVE  disk[f].time \in 1..MaxEdits + 1 /\ disk[f].time # None
<1>1. disk[f] \in [time : 1..MaxEdits + 1, text : {"good", "broken", "missing"}]
  BY DEF SharedInv, RegisterTypes
<1>2. disk[f].time \in 1..MaxEdits + 1
  BY <1>1
<1>. QED BY <1>2, BoundAssumption, NoneAssumption

\* The tables name each other's entries at every step of load, scan and destructor.
LEMMA StepKeepsTables ==
    ASSUME SharedInv, [Next]_vars
    PROVE  TablesInv'
<1>. USE DEF SharedInv
<1>1. CASE UNCHANGED vars
  BY <1>1, TablesKept DEF vars, pipeVars, watchVars, watcherVars, appVars, jobVars, cmdVars
<1>2. ASSUME NEW f \in File, NEW text \in {"good", "broken"}, Save(f, text) PROVE TablesInv'
  BY <1>2, TablesKept DEF Save, pipeVars, watchVars, watcherVars, appVars, jobVars, cmdVars
<1>3. ASSUME NEW f \in File, Vanish(f) PROVE TablesInv'
  BY <1>3, TablesKept DEF Vanish, pipeVars, watchVars, watcherVars, appVars, jobVars, cmdVars
<1>4. ASSUME NEW w \in Worker, NEW f \in File, ReadFile(w, f) PROVE TablesInv'
  <2>1. app = "register" => w = "watcher" /\ left'["app"] = left["app"]
    BY <1>4 DEF ReadFile, Worker, SharedInv, RegisterTypes
  <2>. QED BY <1>4, <2>1, TablesKept DEF ReadFile, pipeVars, watchVars, watcherVars, appVars, jobVars, cmdVars
<1>5. ASSUME NEW p \in Pipe, Load(p) PROVE TablesInv'
  <2>1. /\ app = "idle" /\ app' = "compile" /\ life[p] = "none" /\ life' = [life EXCEPT ![p] = "loading"]
        /\ UNCHANGED <<stamp, watchers, described>>
    BY <1>5 DEF Load, watchVars
  <2>. QED BY <2>1 DEF TablesInv, BindInv, PlaceTypes
<1>6. CASE LoadFails
  <2>1. /\ app = "compile" /\ app' = "idle" /\ life[target] = "loading" /\ life' = [life EXCEPT ![target] = "none"]
        /\ UNCHANGED <<stamp, watchers, described>>
    BY <1>6 DEF LoadFails, watchVars, BindInv, ThreadsInv
  <2>. QED BY <2>1 DEF TablesInv, BindInv, PlaceTypes
<1>7. CASE LoadCompiled
  <2>1. /\ app = "compile" /\ app' = "register" /\ target \in Pipe /\ life[target] = "loading" /\ target' = target
        /\ described' = described \cup {target} /\ left' = [left EXCEPT !["app"] = Uses[target]]
        /\ UNCHANGED <<stamp, watchers, life>>
    BY <1>7 DEF LoadCompiled, BindInv, ThreadsInv
  <2>2. left'["app"] = Uses[target]
    BY <2>1 DEF RegisterTypes, Worker
  <2>. QED BY <2>1, <2>2 DEF TablesInv
<1>8. ASSUME NEW f \in File, RegisterFile(f) PROVE TablesInv'
  <2>1. /\ app = "register" /\ app' = app /\ target' = target /\ f \in left["app"] /\ target \in Pipe
        /\ watchers' = [watchers EXCEPT ![f] = watchers[f] \cup {target}]
        /\ stamp' = [stamp EXCEPT ![f] = IF stamp[f] = None THEN disk[f].time ELSE stamp[f]]
        /\ left' = [left EXCEPT !["app"] = left["app"] \ {f}]
        /\ UNCHANGED <<life, described>>
    BY <1>8 DEF RegisterFile, pipeVars, BindInv, ThreadsInv
  <2>2. left'["app"] = left["app"] \ {f}
    BY <2>1 DEF RegisterTypes, Worker
  <2>3. stamp'[f] # None /\ \A g \in File : stamp[g] # None => stamp'[g] # None
    BY <2>1, TimesAreTimes DEF RegisterTypes
  <2>4. \A g \in File : watchers'[g] = IF g = f THEN watchers[f] \cup {target} ELSE watchers[g]
    BY <2>1 DEF BindInv, PlaceTypes
  <2>5. f \in Uses[target] /\ target \in described
    BY <2>1 DEF TablesInv
  <2>6. TablesInv
    OBVIOUS
  <2>. HIDE DEF SharedInv
  <2>. QED BY <2>6, <2>1, <2>2, <2>3, <2>4, <2>5 DEF TablesInv
<1>9. ASSUME NEW f \in File, RegisterFails(f) PROVE TablesInv'
  <2>1. /\ app = "register" /\ app' = "closing" /\ target \in Pipe /\ life[target] = "loading" /\ target' = target
        /\ life' = [life EXCEPT ![target] = "closing"]
        /\ UNCHANGED <<stamp, watchers, described>>
    BY <1>9 DEF RegisterFails, BindInv, ThreadsInv
  <2>. QED BY <2>1 DEF TablesInv, BindInv, PlaceTypes
<1>10. CASE LoadDone
  <2>1. /\ app = "register" /\ app' = "idle" /\ target \in Pipe /\ life[target] = "loading" /\ left["app"] = {}
        /\ life' = [life EXCEPT ![target] = "live"]
        /\ UNCHANGED <<stamp, watchers, described>>
    BY <1>10 DEF LoadDone, BindInv, ThreadsInv
  <2>. QED BY <2>1 DEF TablesInv, BindInv, PlaceTypes
<1>11. ASSUME NEW p \in Pipe, Destroy(p) PROVE TablesInv'
  <2>1. /\ app = "idle" /\ app' = "closing" /\ life[p] = "live"
        /\ life' = [life EXCEPT ![p] = "closing"]
        /\ UNCHANGED <<stamp, watchers, described>>
    BY <1>11 DEF Destroy, watchVars
  <2>. QED BY <2>1 DEF TablesInv, BindInv, PlaceTypes
<1>12. CASE RemoveWatchedPipeline
  <2>1. /\ app = "closing" /\ app' = "idle" /\ target \in Pipe /\ life[target] = "closing"
        /\ described' = described \ {target} /\ life' = [life EXCEPT ![target] = "dead"] /\ stamp' = stamp
    BY <1>12 DEF RemoveWatchedPipeline, BindInv, ThreadsInv
  <2>2. \A f \in File : watchers'[f] = watchers[f] \ {target}
    BY <1>12 DEF RemoveWatchedPipeline, TablesInv, BindInv, PlaceTypes
  <2>3. \A p \in Pipe : life'[p] = IF p = target THEN "dead" ELSE life[p]
    BY <2>1 DEF BindInv, PlaceTypes
  <2>4. \A p \in Pipe : Uses[p] \subseteq File
    BY UsesAssumption
  <2>5. described \subseteq Pipe /\ \A f \in File : watchers[f] \subseteq Pipe
    BY DEF RegisterTypes, BindInv, PlaceTypes
  <2>6. TablesInv
    OBVIOUS
  <2>. HIDE DEF SharedInv
  <2>. QED BY <2>6, <2>1, <2>2, <2>3, <2>4, <2>5 DEF TablesInv
<1>13. CASE Stop
  BY <1>13, TablesKept DEF Stop, pipeVars, watchVars, watcherVars, appVars, jobVars, cmdVars
<1>14. CASE Join
  BY <1>14, TablesKept DEF Join, pipeVars, watchVars, watcherVars, appVars, jobVars, cmdVars
<1>15. CASE BeginScan
  <2>1. /\ app' = app /\ target' = target /\ UNCHANGED <<stamp, watchers, described, life>>
        /\ left' = [left EXCEPT !["watcher"] = {f \in File : stamp[f] # None}]
    BY <1>15 DEF BeginScan, StartCompile, pipeVars, watchVars, watcherVars, appVars, jobVars, cmdVars
  <2>2. left'["app"] = left["app"]
    BY <2>1 DEF RegisterTypes, Worker
  <2>. QED BY <2>1, <2>2, TablesKept
<1>16. CASE EndThread
  BY <1>16, TablesKept DEF EndThread, pipeVars, watchVars, watcherVars, appVars, jobVars, cmdVars
<1>17. ASSUME NEW f \in File, ScanFile(f) PROVE TablesInv'
  <2>1. /\ app' = app /\ target' = target /\ left' = [left EXCEPT !["watcher"] = left["watcher"] \ {f}]
        /\ stamp' = [stamp EXCEPT ![f] = disk[f].time] /\ UNCHANGED <<life, described, watchers>>
    BY <1>17 DEF ScanFile, pipeVars, appVars
  <2>2. left'["app"] = left["app"]
    BY <2>1 DEF RegisterTypes, Worker
  <2>3. \A g \in File : stamp[g] # None => stamp'[g] # None
    BY <2>1, TimesAreTimes DEF RegisterTypes
  <2>6. TablesInv
    OBVIOUS
  <2>. HIDE DEF SharedInv
  <2>. QED BY <2>6, <2>1, <2>2, <2>3 DEF TablesInv
<1>18. ASSUME NEW f \in File, ScanThrows(f) PROVE TablesInv'
  BY <1>18, TablesKept DEF ScanThrows, pipeVars, watchVars, watcherVars, appVars, jobVars, cmdVars
<1>19. CASE EndScan
  BY <1>19, TablesKept DEF EndScan, pipeVars, watchVars, watcherVars, appVars, jobVars, cmdVars
<1>20. ASSUME NEW p \in Pipe, BeginReload(p) PROVE TablesInv'
  <2>1. /\ app' = app /\ target' = target /\ UNCHANGED <<stamp, watchers, described, life>>
        /\ left' = [left EXCEPT !["watcher"] = Uses[p]]
    BY <1>20 DEF BeginReload, StartCompile, pipeVars, watchVars, watcherVars, appVars, jobVars, cmdVars
  <2>2. left'["app"] = left["app"]
    BY <2>1 DEF RegisterTypes, Worker
  <2>. QED BY <2>1, <2>2, TablesKept
<1>21. CASE SetPipeline
  BY <1>21, TablesKept DEF SetPipeline, pipeVars, watchVars, watcherVars, appVars, jobVars, cmdVars
<1>22. CASE ReloadFails
  BY <1>22, TablesKept DEF ReloadFails, pipeVars, watchVars, watcherVars, appVars, jobVars, cmdVars
<1>23. CASE TouchDestroyed
  BY <1>23, TablesKept DEF TouchDestroyed, pipeVars, watchVars, watcherVars, appVars, jobVars, cmdVars
<1>24. CASE Sleep
  BY <1>24, TablesKept DEF Sleep, pipeVars, watchVars, watcherVars, appVars, jobVars, cmdVars
<1>25. CASE Wake
  BY <1>25, TablesKept DEF Wake, pipeVars, watchVars, watcherVars, appVars, jobVars, cmdVars
<1>26. ASSUME NEW c \in Cmd, NEW p \in Pipe, Bind(c, p) PROVE TablesInv'
  BY <1>26, TablesKept DEF Bind, pipeVars, watchVars, watcherVars, appVars, jobVars, cmdVars
<1>27. CASE Swap
  BY <1>27, TablesKept DEF Swap, pipeVars, watchVars, watcherVars, appVars, jobVars, cmdVars
<1>28. CASE Record
  BY <1>28, TablesKept DEF Record, pipeVars, watchVars, watcherVars, appVars, jobVars, cmdVars
<1>29. CASE Reference
  BY <1>29, TablesKept DEF Reference, pipeVars, watchVars, watcherVars, appVars, jobVars, cmdVars
<1>30. ASSUME NEW c \in Cmd, ResetCmd(c) PROVE TablesInv'
  BY <1>30, TablesKept DEF ResetCmd, pipeVars, watchVars, watcherVars, appVars, jobVars, cmdVars
<1>. HIDE DEF SharedInv
<1>. QED
  BY <1>1, <1>2, <1>3, <1>4, <1>5, <1>6, <1>7, <1>8, <1>9, <1>10, <1>11, <1>12, <1>13, <1>14, <1>15, <1>16, <1>17, <1>18, <1>19, <1>20, <1>21, <1>22, <1>23, <1>24, <1>25, <1>26, <1>27, <1>28, <1>29, <1>30
     DEF Next, Editor, Watcher, Application, AppProgress, Recorder, RecorderProgress, Worker

\* At first nobody holds m_lock and nothing is watched.
LEMMA InitShares == Init => SharedInv
<1>. SUFFICES ASSUME Init PROVE SharedInv
  OBVIOUS
<1>1. Unread \in Read
  BY BoundAssumption DEF Unread, Read
<1>2. RegisterTypes
  <2>1. /\ disk \in [File -> [time : 1..MaxEdits + 1, text : {"good", "broken", "missing"}]]
        /\ seen \in [Worker -> Read] /\ left \in [Worker -> SUBSET File]
    BY <1>1, BoundAssumption DEF Init
  <2>2. /\ stamp \in [File -> 1..MaxEdits + 1 \cup {None}]
        /\ lastBound \in [Cmd -> Pipe \cup {None}]
    BY DEF Init
  <2>. QED BY <2>1, <2>2 DEF Init, RegisterTypes
<1>3. FlagTypes
  <2>1. running = TRUE /\ failed = [w \in Worker |-> FALSE]
    BY DEF Init
  <2>. QED BY <2>1, Zenon DEF FlagTypes
<1>4. MadeInv
  BY DEF Init, MadeInv
<1>5. LocksInv /\ TablesInv
  BY NoneAssumption DEF Init, LocksInv, TablesInv
<1>. QED BY <1>2, <1>3, <1>4, <1>5, InitBinds DEF SharedInv

\* Every step of the threads and of the editor.
LEMMA StepKeepsShared == SharedInv /\ [Next]_vars => SharedInv'
  BY StepKeepsBinds, StepKeepsRegisters, StepKeepsFlags, StepKeepsMade, StepKeepsLocks, StepKeepsTables DEF SharedInv

\* What the threads share is consistent whenever m_lock is free: the watch
\* tables name each other's entries and only pipelines that exist, m_updated
\* says whether a build is pending (load, remove_watched_pipeline, reload).
THEOREM SharedConsistent == Spec => []Inv
<1>1. SharedInv => Inv
  <2>. SUFFICES ASSUME SharedInv PROVE Inv
    OBVIOUS
  <2>1. WatchTables
    <3>1. \A p \in described : p \in Pipe
      BY DEF SharedInv, RegisterTypes
    <3>2. mutex = None => app # "register"
      BY NoneAssumption DEF SharedInv, LocksInv
    <3>. QED BY <3>1, <3>2 DEF SharedInv, TablesInv, WatchTables
  <2>2. TypeOK
    <3>1. ASSUME NEW p \in Pipe, NEW n \in 1..Len(builds[p]) PROVE builds[p][n] \in [File -> 0..MaxEdits + 1]
      BY ElementOfSeq DEF SharedInv, MadeInv, Read
    <3>2. ASSUME NEW c \in Cmd, NEW b \in used[c] \cup held[c] PROVE b \in UNION {Build(p) : p \in Pipe}
      <4>1. b \in Pipe \X Nat
        BY DEF SharedInv, BindInv, PlaceTypes
      <4>2. b[1] \in Pipe /\ b = <<b[1], b[2]>> /\ b[2] \in 1..Len(builds[b[1]])
        BY <4>1 DEF SharedInv, MadeInv
      <4>. QED BY <4>2 DEF Build
    <3>3. /\ running \in BOOLEAN /\ failed \in [Worker -> BOOLEAN] /\ updated \in [Pipe -> BOOLEAN]
      BY Zenon DEF SharedInv, FlagTypes, BindInv, PlaceTypes
    <3>4. /\ disk \in [File -> [time : 1..MaxEdits + 1, text : {"good", "broken", "missing"}]]
          /\ life \in [Pipe -> {"none", "loading", "live", "closing", "dead"}]
          /\ stamp \in [File -> 1..MaxEdits + 1 \cup {None}] /\ watchers \in [File -> SUBSET Pipe]
          /\ described \subseteq Pipe /\ mutex \in Worker \cup {None}
          /\ watcher \in {"head", "scan", "reload", "compile", "sleep", "ended"}
          /\ todo \subseteq Pipe /\ subject \in Pipe \cup {None}
          /\ app \in {"idle", "compile", "register", "unwind", "closing", "join"}
          /\ target \in Pipe \cup {None} /\ left \in [Worker -> SUBSET File]
          /\ seen \in [Worker -> [File -> 0..MaxEdits + 1]]
          /\ recorder \in [step : {"idle", "swap", "record", "reference"},
                           cmd : Cmd \cup {None}, pipe : Pipe \cup {None}]
          /\ lastBound \in [Cmd -> Pipe \cup {None}] /\ stale \subseteq Pipe
          /\ crashed \in {"no", "uncaught", "freed"}
      BY Zenon DEF SharedInv, RegisterTypes, BindInv, PlaceTypes, Read
    <3>5. \A p \in Pipe : current[p] \in 0..Len(builds[p]) /\ pending[p] \in 0..Len(builds[p])
      BY DEF SharedInv, MadeInv
    <3>6. \A c \in Cmd : used[c] \cup held[c] \subseteq UNION {Build(p) : p \in Pipe}
      BY <3>2
    <3>. HIDE DEF SharedInv
    <3>. QED BY <3>1, <3>3, <3>4, <3>5, <3>6, Zenon DEF TypeOK
  <2>. QED BY <2>1, <2>2 DEF Inv, SharedInv, BindInv
<1>. QED BY <1>1, InitShares, StepKeepsShared, PTL DEF Spec

-----------------------------------------------------------------------------
(* What the watcher brings, and when.                                      *)

\* Loaded: what the watcher may come upon.
Begun == {"live", "closing", "dead"}

\* What the builds and the compiles read is not newer than the disk, and of
\* the files of the pipeline only.
VersionsInv ==
    /\ \A p \in Pipe : \A n \in 1..Len(builds[p]) : \A f \in File :
          builds[p][n][f] <= disk[f].time /\ (f \notin Uses[p] => builds[p][n][f] = 0)
    /\ \A w \in Worker : \A f \in File : seen[w][f] <= disk[f].time

\* The application's first compile.
FirstCompile ==
    app = "compile" => left["app"] \subseteq Uses[target] /\ \A f \in File \ Uses[target] : seen["app"][f] = 0

\* The watcher's compile: it has read each file no earlier than any build did.
WatcherCompile ==
    /\ \A p \in todo : life[p] \in Begun
    /\ watcher = "compile" =>
          /\ life[subject] \in Begun /\ left["watcher"] \subseteq Uses[subject]
          /\ \A f \in File \ Uses[subject] : seen["watcher"][f] = 0
          /\ \A f \in Uses[subject] \ left["watcher"] : \A n \in 1..Len(builds[subject]) :
                builds[subject][n][f] <= seen["watcher"][f]

\* After stop has joined it the thread is over.
EndedInv == ~running => app = "join" \/ watcher = "ended"

OrderInv == VersionsInv /\ FirstCompile /\ WatcherCompile /\ EndedInv

\* Versions are numbers.
LEMMA VersionTypes ==
    ASSUME SharedInv
    PROVE  /\ \A f \in File : disk[f].time \in Nat
           /\ \A w \in Worker : seen[w] \in Read /\ \A f \in File : seen[w][f] \in Nat
           /\ \A p \in Pipe : /\ Len(builds[p]) \in Nat
                              /\ \A n \in 1..Len(builds[p]) : builds[p][n] \in Read /\ \A f \in File : builds[p][n][f] \in Nat
<1>1. \A r \in Read, f \in File : r[f] \in Nat
  BY BoundAssumption DEF Read
<1>2. \A f \in File : disk[f].time \in Nat
  BY TimesAreTimes, BoundAssumption
<1>3. \A w \in Worker : seen[w] \in Read
  BY DEF SharedInv, RegisterTypes
<1>4. \A p \in Pipe : Len(builds[p]) \in Nat /\ \A n \in 1..Len(builds[p]) : builds[p][n] \in Read
  BY LenProperties, ElementOfSeq DEF SharedInv, MadeInv
<1>. QED BY <1>1, <1>2, <1>3, <1>4

\* The lives go on.
LEMMA BegunStays ==
    ASSUME SharedInv, [Next]_vars, NEW q \in Pipe, life[q] \in Begun
    PROVE  life'[q] \in Begun
<1>. USE DEF SharedInv, BindInv, PlaceTypes, ThreadsInv, Begun
<1>1. CASE UNCHANGED vars
  BY <1>1 DEF vars, pipeVars, watchVars, watcherVars, appVars, jobVars, cmdVars
<1>2. ASSUME NEW f \in File, NEW text \in {"good", "broken"}, Save(f, text) PROVE life'[q] \in Begun
  BY <1>2 DEF Save, pipeVars, watchVars, watcherVars, appVars, jobVars, cmdVars
<1>3. ASSUME NEW f \in File, Vanish(f) PROVE life'[q] \in Begun
  BY <1>3 DEF Vanish, pipeVars, watchVars, watcherVars, appVars, jobVars, cmdVars
<1>4. ASSUME NEW w \in Worker, NEW f \in File, ReadFile(w, f) PROVE life'[q] \in Begun
  BY <1>4 DEF ReadFile, pipeVars, watchVars, watcherVars, appVars, jobVars, cmdVars
<1>5. ASSUME NEW p \in Pipe, Load(p) PROVE life'[q] \in Begun
  BY <1>5 DEF Load, pipeVars, watchVars, watcherVars, appVars, jobVars, cmdVars
<1>6. CASE LoadFails
  BY <1>6 DEF LoadFails, pipeVars, watchVars, watcherVars, appVars, jobVars, cmdVars
<1>7. CASE LoadCompiled
  BY <1>7 DEF LoadCompiled, pipeVars, watchVars, watcherVars, appVars, jobVars, cmdVars
<1>8. ASSUME NEW f \in File, RegisterFile(f) PROVE life'[q] \in Begun
  BY <1>8 DEF RegisterFile, pipeVars, watchVars, watcherVars, appVars, jobVars, cmdVars
<1>9. ASSUME NEW f \in File, RegisterFails(f) PROVE life'[q] \in Begun
  BY <1>9 DEF RegisterFails, pipeVars, watchVars, watcherVars, appVars, jobVars, cmdVars
<1>10. CASE LoadDone
  BY <1>10 DEF LoadDone, pipeVars, watchVars, watcherVars, appVars, jobVars, cmdVars
<1>11. ASSUME NEW p \in Pipe, Destroy(p) PROVE life'[q] \in Begun
  BY <1>11 DEF Destroy, pipeVars, watchVars, watcherVars, appVars, jobVars, cmdVars
<1>12. CASE RemoveWatchedPipeline
  BY <1>12 DEF RemoveWatchedPipeline, pipeVars, watchVars, watcherVars, appVars, jobVars, cmdVars
<1>13. CASE Stop
  BY <1>13 DEF Stop, pipeVars, watchVars, watcherVars, appVars, jobVars, cmdVars
<1>14. CASE Join
  BY <1>14 DEF Join, pipeVars, watchVars, watcherVars, appVars, jobVars, cmdVars
<1>15. CASE BeginScan
  BY <1>15 DEF BeginScan, pipeVars, watchVars, watcherVars, appVars, jobVars, cmdVars
<1>16. CASE EndThread
  BY <1>16 DEF EndThread, pipeVars, watchVars, watcherVars, appVars, jobVars, cmdVars
<1>17. ASSUME NEW f \in File, ScanFile(f) PROVE life'[q] \in Begun
  BY <1>17 DEF ScanFile, pipeVars, watchVars, watcherVars, appVars, jobVars, cmdVars
<1>18. ASSUME NEW f \in File, ScanThrows(f) PROVE life'[q] \in Begun
  BY <1>18 DEF ScanThrows, pipeVars, watchVars, watcherVars, appVars, jobVars, cmdVars
<1>19. CASE EndScan
  BY <1>19 DEF EndScan, pipeVars, watchVars, watcherVars, appVars, jobVars, cmdVars
<1>20. ASSUME NEW p \in Pipe, BeginReload(p) PROVE life'[q] \in Begun
  BY <1>20 DEF BeginReload, pipeVars, watchVars, watcherVars, appVars, jobVars, cmdVars
<1>21. CASE SetPipeline
  BY <1>21 DEF SetPipeline, pipeVars, watchVars, watcherVars, appVars, jobVars, cmdVars
<1>22. CASE ReloadFails
  BY <1>22 DEF ReloadFails, pipeVars, watchVars, watcherVars, appVars, jobVars, cmdVars
<1>23. CASE TouchDestroyed
  BY <1>23 DEF TouchDestroyed, pipeVars, watchVars, watcherVars, appVars, jobVars, cmdVars
<1>24. CASE Sleep
  BY <1>24 DEF Sleep, pipeVars, watchVars, watcherVars, appVars, jobVars, cmdVars
<1>25. CASE Wake
  BY <1>25 DEF Wake, pipeVars, watchVars, watcherVars, appVars, jobVars, cmdVars
<1>26. ASSUME NEW c \in Cmd, NEW p \in Pipe, Bind(c, p) PROVE life'[q] \in Begun
  BY <1>26 DEF Bind, pipeVars, watchVars, watcherVars, appVars, jobVars, cmdVars
<1>27. CASE Swap
  BY <1>27 DEF Swap, pipeVars, watchVars, watcherVars, appVars, jobVars, cmdVars
<1>28. CASE Record
  BY <1>28 DEF Record, pipeVars, watchVars, watcherVars, appVars, jobVars, cmdVars
<1>29. CASE Reference
  BY <1>29 DEF Reference, pipeVars, watchVars, watcherVars, appVars, jobVars, cmdVars
<1>30. ASSUME NEW c \in Cmd, ResetCmd(c) PROVE life'[q] \in Begun
  BY <1>30 DEF ResetCmd, pipeVars, watchVars, watcherVars, appVars, jobVars, cmdVars
<1>. QED
  BY <1>1, <1>2, <1>3, <1>4, <1>5, <1>6, <1>7, <1>8, <1>9, <1>10, <1>11, <1>12, <1>13, <1>14, <1>15, <1>16, <1>17, <1>18, <1>19, <1>20, <1>21, <1>22, <1>23, <1>24, <1>25, <1>26, <1>27, <1>28, <1>29, <1>30
     DEF Next, Editor, Watcher, Application, AppProgress, Recorder, RecorderProgress, Worker

\* A step that builds nothing and reads nothing.
LEMMA OrderKept ==
    ASSUME SharedInv, OrderInv, [Next]_vars, UNCHANGED <<builds, seen>>,
           todo' \subseteq todo \cup {p \in Pipe : life'[p] \in Begun},
           \A f \in File : disk'[f].time \in Nat /\ disk[f].time <= disk'[f].time,
           app' = "compile" => app = "compile" /\ target' = target /\ left'["app"] = left["app"],
           watcher' = "compile" => watcher = "compile" /\ subject' = subject /\ left'["watcher"] = left["watcher"]
    PROVE  VersionsInv' /\ FirstCompile' /\ WatcherCompile'
<1>1. VersionsInv'
  <2>1. ASSUME NEW v \in Nat, NEW f \in File, v <= disk[f].time PROVE v <= disk'[f].time
    BY <2>1, VersionTypes
  <2>. QED BY <2>1, VersionTypes DEF OrderInv, VersionsInv
<1>2. FirstCompile'
  BY DEF OrderInv, FirstCompile
<1>3. WatcherCompile'
  <2>1. \A p \in todo' : life'[p] \in Begun
    BY BegunStays DEF OrderInv, WatcherCompile, SharedInv, BindInv, PlaceTypes
  <2>2. watcher = "compile" => subject \in Pipe
    BY DEF SharedInv, BindInv, ThreadsInv
  <2>3. watcher' = "compile" => life'[subject'] \in Begun
    BY <2>2, BegunStays DEF OrderInv, WatcherCompile
  <2>. QED BY <2>1, <2>3 DEF OrderInv, WatcherCompile
<1>. QED BY <1>1, <1>2, <1>3

\* The disk as it was.
LEMMA SameDisk ==
    ASSUME SharedInv, UNCHANGED disk
    PROVE  \A f \in File : disk'[f].time \in Nat /\ disk[f].time <= disk'[f].time
  BY VersionTypes

\* No compile reads a version older than one that is built.
LEMMA StepKeepsOrder ==
    ASSUME SharedInv, OrderInv, [Next]_vars
    PROVE  VersionsInv' /\ FirstCompile' /\ WatcherCompile'
<1>1. CASE UNCHANGED vars
  BY <1>1, SameDisk, OrderKept DEF vars, pipeVars, watchVars, watcherVars, appVars, jobVars, cmdVars
<1>2. ASSUME NEW f \in File, NEW text \in {"good", "broken"}, Save(f, text) PROVE VersionsInv' /\ FirstCompile' /\ WatcherCompile'
  <2>1. \A g \in File : disk'[g].time \in Nat /\ disk[g].time <= disk'[g].time
    <3>1. disk[f] \in [time : 1..MaxEdits + 1, text : {"good", "broken", "missing"}]
      BY DEF SharedInv, RegisterTypes
    <3>2. disk' = [disk EXCEPT ![f] = [time |-> disk[f].time + 1, text |-> text]]
      BY <1>2 DEF Save
    <3>3. \A g \in File : disk'[g].time = IF g = f THEN disk[f].time + 1 ELSE disk[g].time
      BY <3>2 DEF SharedInv, RegisterTypes
    <3>. QED BY <3>3, VersionTypes
  <2>. QED BY <1>2, <2>1, OrderKept DEF Save, pipeVars, watchVars, watcherVars, appVars, jobVars, cmdVars
<1>3. ASSUME NEW f \in File, Vanish(f) PROVE VersionsInv' /\ FirstCompile' /\ WatcherCompile'
  <2>1. \A g \in File : disk'[g].time \in Nat /\ disk[g].time <= disk'[g].time
    <3>1. disk' = [disk EXCEPT ![f].text = "missing"]
      BY <1>3 DEF Vanish
    <3>2. \A g \in File : disk'[g].time = disk[g].time
      BY <3>1 DEF SharedInv, RegisterTypes
    <3>. QED BY <3>2, VersionTypes
  <2>. QED BY <1>3, <2>1, OrderKept DEF Vanish, pipeVars, watchVars, watcherVars, appVars, jobVars, cmdVars
<1>4. ASSUME NEW w \in Worker, NEW f \in File, ReadFile(w, f) PROVE VersionsInv' /\ FirstCompile' /\ WatcherCompile'
  <2>1. /\ f \in left[w] /\ left' = [left EXCEPT ![w] = left[w] \ {f}] /\ seen' = [seen EXCEPT ![w][f] = disk[f].time]
        /\ UNCHANGED <<disk, builds, todo, life, app, target, watcher, subject>>
        /\ w = "app" => app = "compile"
        /\ w = "watcher" => watcher = "compile"
    BY <1>4 DEF ReadFile, pipeVars, watchVars, watcherVars, appVars, jobVars, cmdVars
  <2>2. /\ \A u \in Worker : left'[u] = IF u = w THEN left[w] \ {f} ELSE left[u]
        /\ \A u \in Worker : \A g \in File : seen'[u][g] = IF u = w /\ g = f THEN disk[f].time ELSE seen[u][g]
    BY <2>1 DEF SharedInv, RegisterTypes, Read
  <2>3. VersionsInv'
    BY <2>1, <2>2, VersionTypes DEF OrderInv, VersionsInv
  <2>4. FirstCompile'
    <3>1. "app" \in Worker /\ (app = "compile" => target \in Pipe)
      BY DEF Worker, SharedInv, BindInv, ThreadsInv
    <3>. QED BY <2>1, <2>2, <3>1 DEF OrderInv, FirstCompile
  <2>5. WatcherCompile'
    <3>1. "watcher" \in Worker /\ (watcher = "compile" => subject \in Pipe)
      BY DEF Worker, SharedInv, BindInv, ThreadsInv
    <3>2. \A n \in 1..Len(builds[subject]) : watcher = "compile" => builds[subject][n][f] <= disk[f].time
      BY <3>1 DEF OrderInv, VersionsInv
    <3>. QED BY <2>1, <2>2, <3>1, <3>2 DEF OrderInv, WatcherCompile
  <2>. QED BY <2>3, <2>4, <2>5
<1>5. ASSUME NEW p \in Pipe, Load(p) PROVE VersionsInv' /\ FirstCompile' /\ WatcherCompile'
  <2>1. /\ left' = [left EXCEPT !["app"] = Uses[p]] /\ seen' = [seen EXCEPT !["app"] = Unread] /\ target' = p
        /\ UNCHANGED <<disk, builds, todo, watcher, subject>>
    BY <1>5 DEF Load, StartCompile, pipeVars, watchVars, watcherVars, appVars, jobVars, cmdVars
  <2>2. /\ left'["app"] = Uses[p] /\ left'["watcher"] = left["watcher"] /\ seen'["watcher"] = seen["watcher"]
        /\ \A g \in File : seen'["app"][g] = 0
    BY <2>1 DEF SharedInv, RegisterTypes, Worker, Unread
  <2>3. VersionsInv'
    <3>1. \A u \in Worker : \A g \in File : seen'[u][g] <= disk[g].time
      BY <2>2, VersionTypes DEF OrderInv, VersionsInv, Worker
    <3>. QED BY <2>1, <3>1 DEF OrderInv, VersionsInv
  <2>4. FirstCompile'
    BY <2>1, <2>2 DEF FirstCompile
  <2>5. WatcherCompile'
    <3>1. \A q \in todo : q \in Pipe /\ life'[q] \in Begun
      BY BegunStays DEF OrderInv, WatcherCompile, SharedInv, BindInv, PlaceTypes
    <3>2. watcher = "compile" => life'[subject] \in Begun
      BY BegunStays DEF OrderInv, WatcherCompile, SharedInv, BindInv, ThreadsInv
    <3>. QED BY <2>1, <2>2, <3>1, <3>2 DEF OrderInv, WatcherCompile
  <2>. QED BY <2>3, <2>4, <2>5
<1>6. CASE LoadFails
  BY <1>6, SameDisk, OrderKept DEF LoadFails, pipeVars, watchVars, watcherVars, appVars, jobVars, cmdVars
<1>7. CASE LoadCompiled
  <2>1. /\ app = "compile" /\ app' = "register" /\ target \in Pipe /\ life[target] = "loading" /\ Built("app", target)
        /\ "app" \in Worker /\ left' = [left EXCEPT !["app"] = Uses[target]]
        /\ UNCHANGED <<disk, seen, life, todo, watcher, subject>>
    BY <1>7 DEF LoadCompiled, BindInv, SharedInv, ThreadsInv, Worker, pipeVars, watchVars, watcherVars, appVars, jobVars, cmdVars
  <2>2. /\ builds' \in [Pipe -> Seq(Read)]
        /\ \A q \in Pipe : Len(builds'[q]) = IF q = target THEN Len(builds[target]) + 1 ELSE Len(builds[q])
        /\ \A q \in Pipe : Len(builds[q]) \in Nat /\ \A n \in 1..Len(builds[q]) : builds'[q][n] = builds[q][n]
        /\ builds'[target][Len(builds[target]) + 1] = seen["app"]
    BY <2>1, BuiltOnce
  <2>3. \A f \in File : seen["app"][f] <= disk[f].time /\ (f \notin Uses[target] => seen["app"][f] = 0)
    BY <2>1 DEF OrderInv, VersionsInv, FirstCompile
  <2>4. VersionsInv'
    <3>1. ASSUME NEW q \in Pipe, NEW n \in 1..Len(builds'[q]), NEW f \in File
          PROVE  builds'[q][n][f] <= disk[f].time /\ (f \notin Uses[q] => builds'[q][n][f] = 0)
      <4>1. n \in 1..Len(builds[q]) \/ (q = target /\ n = Len(builds[target]) + 1)
        BY <2>1, <2>2
      <4>2. CASE n \in 1..Len(builds[q])
        BY <2>2, <4>2 DEF OrderInv, VersionsInv
      <4>. QED BY <2>2, <2>3, <4>1, <4>2
    <3>. QED BY <2>1, <3>1 DEF OrderInv, VersionsInv
  <2>5. FirstCompile'
    BY <2>1 DEF FirstCompile
  <2>6. WatcherCompile'
    <3>1. left'["watcher"] = left["watcher"]
      BY <2>1 DEF SharedInv, RegisterTypes, Worker
    <3>2. watcher = "compile" => subject \in Pipe /\ subject # target
      BY <2>1 DEF OrderInv, WatcherCompile, Begun, SharedInv, BindInv, ThreadsInv
    <3>3. watcher = "compile" => Len(builds'[subject]) = Len(builds[subject])
      BY <2>2, <3>2
    <3>4. \A n \in 1..Len(builds[subject]) : watcher = "compile" => builds'[subject][n] = builds[subject][n]
      BY <2>2, <3>2
    <3>. QED BY <2>1, <3>1, <3>3, <3>4 DEF OrderInv, WatcherCompile
  <2>. QED BY <2>4, <2>5, <2>6
<1>8. ASSUME NEW f \in File, RegisterFile(f) PROVE VersionsInv' /\ FirstCompile' /\ WatcherCompile'
  <2>1. /\ app = "register" /\ left' = [left EXCEPT !["app"] = left'["app"]] /\ app' # "compile"
        /\ UNCHANGED <<disk, builds, seen, todo, watcher, subject>>
    BY <1>8 DEF RegisterFile, SharedInv, RegisterTypes, Worker, pipeVars, watchVars, watcherVars, appVars, jobVars, cmdVars
  <2>2. left'["watcher"] = left["watcher"]
    BY <2>1 DEF SharedInv, RegisterTypes, Worker
  <2>. QED BY <2>1, <2>2, SameDisk, OrderKept
<1>9. ASSUME NEW f \in File, RegisterFails(f) PROVE VersionsInv' /\ FirstCompile' /\ WatcherCompile'
  <2>1. /\ app = "register" /\ left' = [left EXCEPT !["app"] = left'["app"]] /\ app' # "compile"
        /\ UNCHANGED <<disk, builds, seen, todo, watcher, subject>>
    BY <1>9 DEF RegisterFails, SharedInv, RegisterTypes, Worker, pipeVars, watchVars, watcherVars, appVars, jobVars, cmdVars
  <2>2. left'["watcher"] = left["watcher"]
    BY <2>1 DEF SharedInv, RegisterTypes, Worker
  <2>. QED BY <2>1, <2>2, SameDisk, OrderKept
<1>10. CASE LoadDone
  BY <1>10, SameDisk, OrderKept DEF LoadDone, pipeVars, watchVars, watcherVars, appVars, jobVars, cmdVars
<1>11. ASSUME NEW p \in Pipe, Destroy(p) PROVE VersionsInv' /\ FirstCompile' /\ WatcherCompile'
  BY <1>11, SameDisk, OrderKept DEF Destroy, pipeVars, watchVars, watcherVars, appVars, jobVars, cmdVars
<1>12. CASE RemoveWatchedPipeline
  BY <1>12, SameDisk, OrderKept DEF RemoveWatchedPipeline, pipeVars, watchVars, watcherVars, appVars, jobVars, cmdVars
<1>13. CASE Stop
  BY <1>13, SameDisk, OrderKept DEF Stop, pipeVars, watchVars, watcherVars, appVars, jobVars, cmdVars
<1>14. CASE Join
  BY <1>14, SameDisk, OrderKept DEF Join, pipeVars, watchVars, watcherVars, appVars, jobVars, cmdVars
<1>15. CASE BeginScan
  <2>1. left' = [left EXCEPT !["watcher"] = {f \in File : stamp[f] # None}]
    BY <1>15 DEF BeginScan
  <2>2. left'["app"] = left["app"]
    BY <2>1 DEF SharedInv, RegisterTypes, Worker
  <2>. QED BY <1>15, <2>2, SameDisk, OrderKept DEF BeginScan, pipeVars, watchVars, watcherVars, appVars, jobVars, cmdVars
<1>16. CASE EndThread
  BY <1>16, SameDisk, OrderKept DEF EndThread, pipeVars, watchVars, watcherVars, appVars, jobVars, cmdVars
<1>17. ASSUME NEW f \in File, ScanFile(f) PROVE VersionsInv' /\ FirstCompile' /\ WatcherCompile'
  <2>1. /\ watcher = "scan" /\ watcher' = "scan" /\ todo' \subseteq todo \cup watchers[f]
        /\ left' = [left EXCEPT !["watcher"] = left["watcher"] \ {f}]
        /\ UNCHANGED <<disk, builds, seen, life, app, target>>
    BY <1>17 DEF ScanFile, pipeVars, watchVars, watcherVars, appVars, jobVars, cmdVars
  <2>2. app # "register"
    BY <2>1 DEF SharedInv, LocksInv
  <2>3. \A p \in watchers[f] : p \in Pipe /\ life'[p] \in Begun
    BY <2>1, <2>2 DEF SharedInv, TablesInv, Begun, BindInv, PlaceTypes
  <2>4. left'["app"] = left["app"]
    BY <2>1 DEF SharedInv, RegisterTypes, Worker
  <2>5. \A g \in File : disk'[g].time \in Nat /\ disk[g].time <= disk'[g].time
    BY <2>1, VersionTypes
  <2>. QED BY <2>1, <2>3, <2>4, <2>5, OrderKept
<1>18. ASSUME NEW f \in File, ScanThrows(f) PROVE VersionsInv' /\ FirstCompile' /\ WatcherCompile'
  BY <1>18, SameDisk, OrderKept DEF ScanThrows, pipeVars, watchVars, watcherVars, appVars, jobVars, cmdVars
<1>19. CASE EndScan
  BY <1>19, SameDisk, OrderKept DEF EndScan, pipeVars, watchVars, watcherVars, appVars, jobVars, cmdVars
<1>20. ASSUME NEW p \in Pipe, BeginReload(p) PROVE VersionsInv' /\ FirstCompile' /\ WatcherCompile'
  <2>1. /\ left' = [left EXCEPT !["watcher"] = Uses[p]] /\ seen' = [seen EXCEPT !["watcher"] = Unread] /\ subject' = p
        /\ p \in todo /\ todo' \subseteq todo /\ UNCHANGED <<disk, builds, app, target, life>>
    BY <1>20 DEF BeginReload, StartCompile, pipeVars, watchVars, watcherVars, appVars, jobVars, cmdVars
  <2>2. /\ left'["watcher"] = Uses[p] /\ left'["app"] = left["app"] /\ seen'["app"] = seen["app"]
        /\ \A g \in File : seen'["watcher"][g] = 0
    BY <2>1 DEF SharedInv, RegisterTypes, Worker, Unread
  <2>3. VersionsInv'
    <3>1. \A u \in Worker : \A g \in File : seen'[u][g] <= disk[g].time
      BY <2>2, VersionTypes DEF OrderInv, VersionsInv, Worker
    <3>. QED BY <2>1, <3>1 DEF OrderInv, VersionsInv
  <2>4. FirstCompile'
    BY <2>1, <2>2 DEF OrderInv, FirstCompile
  <2>5. WatcherCompile'
    BY <2>1, <2>2 DEF OrderInv, WatcherCompile
  <2>. QED BY <2>3, <2>4, <2>5
<1>21. CASE SetPipeline
  <2>1. /\ watcher = "compile" /\ watcher' = "reload" /\ subject \in Pipe /\ Built("watcher", subject)
        /\ "watcher" \in Worker /\ UNCHANGED <<disk, seen, left, life, todo, app, target>>
    BY <1>21 DEF SetPipeline, BindInv, SharedInv, ThreadsInv, Worker, pipeVars, watchVars, watcherVars, appVars, jobVars, cmdVars
  <2>2. /\ builds' \in [Pipe -> Seq(Read)]
        /\ \A q \in Pipe : Len(builds'[q]) = IF q = subject THEN Len(builds[subject]) + 1 ELSE Len(builds[q])
        /\ \A q \in Pipe : Len(builds[q]) \in Nat /\ \A n \in 1..Len(builds[q]) : builds'[q][n] = builds[q][n]
        /\ builds'[subject][Len(builds[subject]) + 1] = seen["watcher"]
    BY <2>1, BuiltOnce
  <2>3. \A f \in File : seen["watcher"][f] <= disk[f].time /\ (f \notin Uses[subject] => seen["watcher"][f] = 0)
    BY <2>1 DEF OrderInv, VersionsInv, WatcherCompile
  <2>4. VersionsInv'
    <3>1. ASSUME NEW q \in Pipe, NEW n \in 1..Len(builds'[q]), NEW f \in File
          PROVE  builds'[q][n][f] <= disk[f].time /\ (f \notin Uses[q] => builds'[q][n][f] = 0)
      <4>1. n \in 1..Len(builds[q]) \/ (q = subject /\ n = Len(builds[subject]) + 1)
        BY <2>1, <2>2
      <4>2. CASE n \in 1..Len(builds[q])
        BY <2>2, <4>2 DEF OrderInv, VersionsInv
      <4>. QED BY <2>2, <2>3, <4>1, <4>2
    <3>. QED BY <2>1, <3>1 DEF OrderInv, VersionsInv
  <2>. QED BY <2>1, <2>4 DEF OrderInv, FirstCompile, WatcherCompile
<1>22. CASE ReloadFails
  BY <1>22, SameDisk, OrderKept DEF ReloadFails, pipeVars, watchVars, watcherVars, appVars, jobVars, cmdVars
<1>23. CASE TouchDestroyed
  BY <1>23, SameDisk, OrderKept DEF TouchDestroyed, pipeVars, watchVars, watcherVars, appVars, jobVars, cmdVars
<1>24. CASE Sleep
  BY <1>24, SameDisk, OrderKept DEF Sleep, pipeVars, watchVars, watcherVars, appVars, jobVars, cmdVars
<1>25. CASE Wake
  BY <1>25, SameDisk, OrderKept DEF Wake, pipeVars, watchVars, watcherVars, appVars, jobVars, cmdVars
<1>26. ASSUME NEW c \in Cmd, NEW p \in Pipe, Bind(c, p) PROVE VersionsInv' /\ FirstCompile' /\ WatcherCompile'
  BY <1>26, SameDisk, OrderKept DEF Bind, pipeVars, watchVars, watcherVars, appVars, jobVars, cmdVars
<1>27. CASE Swap
  BY <1>27, SameDisk, OrderKept DEF Swap, pipeVars, watchVars, watcherVars, appVars, jobVars, cmdVars
<1>28. CASE Record
  BY <1>28, SameDisk, OrderKept DEF Record, pipeVars, watchVars, watcherVars, appVars, jobVars, cmdVars
<1>29. CASE Reference
  BY <1>29, SameDisk, OrderKept DEF Reference, pipeVars, watchVars, watcherVars, appVars, jobVars, cmdVars
<1>30. ASSUME NEW c \in Cmd, ResetCmd(c) PROVE VersionsInv' /\ FirstCompile' /\ WatcherCompile'
  BY <1>30, SameDisk, OrderKept DEF ResetCmd, pipeVars, watchVars, watcherVars, appVars, jobVars, cmdVars
<1>. QED
  BY <1>1, <1>2, <1>3, <1>4, <1>5, <1>6, <1>7, <1>8, <1>9, <1>10, <1>11, <1>12, <1>13, <1>14, <1>15, <1>16, <1>17, <1>18, <1>19, <1>20, <1>21, <1>22, <1>23, <1>24, <1>25, <1>26, <1>27, <1>28, <1>29, <1>30
     DEF Next, Editor, Watcher, Application, AppProgress, Recorder, RecorderProgress, Worker

\* A thread that was joined is over.
LEMMA StepKeepsEnd ==
    ASSUME SharedInv, OrderInv, [Next]_vars
    PROVE  EndedInv'
<1>. USE DEF OrderInv, EndedInv
<1>1. CASE UNCHANGED vars
  BY <1>1 DEF vars, pipeVars, watchVars, watcherVars, appVars, jobVars, cmdVars
<1>2. ASSUME NEW f \in File, NEW text \in {"good", "broken"}, Save(f, text) PROVE EndedInv'
  BY <1>2 DEF Save, pipeVars, watchVars, watcherVars, appVars, jobVars, cmdVars
<1>3. ASSUME NEW f \in File, Vanish(f) PROVE EndedInv'
  BY <1>3 DEF Vanish, pipeVars, watchVars, watcherVars, appVars, jobVars, cmdVars
<1>4. ASSUME NEW w \in Worker, NEW f \in File, ReadFile(w, f) PROVE EndedInv'
  BY <1>4 DEF ReadFile, pipeVars, watchVars, watcherVars, appVars, jobVars, cmdVars
<1>5. ASSUME NEW p \in Pipe, Load(p) PROVE EndedInv'
  BY <1>5 DEF Load, pipeVars, watchVars, watcherVars, appVars, jobVars, cmdVars
<1>6. CASE LoadFails
  BY <1>6 DEF LoadFails, pipeVars, watchVars, watcherVars, appVars, jobVars, cmdVars
<1>7. CASE LoadCompiled
  BY <1>7 DEF LoadCompiled, pipeVars, watchVars, watcherVars, appVars, jobVars, cmdVars
<1>8. ASSUME NEW f \in File, RegisterFile(f) PROVE EndedInv'
  BY <1>8 DEF RegisterFile, pipeVars, watchVars, watcherVars, appVars, jobVars, cmdVars
<1>9. ASSUME NEW f \in File, RegisterFails(f) PROVE EndedInv'
  BY <1>9 DEF RegisterFails, pipeVars, watchVars, watcherVars, appVars, jobVars, cmdVars
<1>10. CASE LoadDone
  BY <1>10 DEF LoadDone, pipeVars, watchVars, watcherVars, appVars, jobVars, cmdVars
<1>11. ASSUME NEW p \in Pipe, Destroy(p) PROVE EndedInv'
  BY <1>11 DEF Destroy, pipeVars, watchVars, watcherVars, appVars, jobVars, cmdVars
<1>12. CASE RemoveWatchedPipeline
  BY <1>12 DEF RemoveWatchedPipeline, pipeVars, watchVars, watcherVars, appVars, jobVars, cmdVars
<1>13. CASE Stop
  BY <1>13 DEF Stop, pipeVars, watchVars, watcherVars, appVars, jobVars, cmdVars
<1>14. CASE Join
  BY <1>14 DEF Join, pipeVars, watchVars, watcherVars, appVars, jobVars, cmdVars
<1>15. CASE BeginScan
  BY <1>15 DEF BeginScan, pipeVars, watchVars, watcherVars, appVars, jobVars, cmdVars
<1>16. CASE EndThread
  BY <1>16 DEF EndThread, pipeVars, watchVars, watcherVars, appVars, jobVars, cmdVars
<1>17. ASSUME NEW f \in File, ScanFile(f) PROVE EndedInv'
  BY <1>17 DEF ScanFile, pipeVars, watchVars, watcherVars, appVars, jobVars, cmdVars
<1>18. ASSUME NEW f \in File, ScanThrows(f) PROVE EndedInv'
  BY <1>18 DEF ScanThrows, pipeVars, watchVars, watcherVars, appVars, jobVars, cmdVars
<1>19. CASE EndScan
  BY <1>19 DEF EndScan, pipeVars, watchVars, watcherVars, appVars, jobVars, cmdVars
<1>20. ASSUME NEW p \in Pipe, BeginReload(p) PROVE EndedInv'
  BY <1>20 DEF BeginReload, pipeVars, watchVars, watcherVars, appVars, jobVars, cmdVars
<1>21. CASE SetPipeline
  BY <1>21 DEF SetPipeline, pipeVars, watchVars, watcherVars, appVars, jobVars, cmdVars
<1>22. CASE ReloadFails
  BY <1>22 DEF ReloadFails, pipeVars, watchVars, watcherVars, appVars, jobVars, cmdVars
<1>23. CASE TouchDestroyed
  BY <1>23 DEF TouchDestroyed, pipeVars, watchVars, watcherVars, appVars, jobVars, cmdVars
<1>24. CASE Sleep
  BY <1>24 DEF Sleep, pipeVars, watchVars, watcherVars, appVars, jobVars, cmdVars
<1>25. CASE Wake
  BY <1>25 DEF Wake, pipeVars, watchVars, watcherVars, appVars, jobVars, cmdVars
<1>26. ASSUME NEW c \in Cmd, NEW p \in Pipe, Bind(c, p) PROVE EndedInv'
  BY <1>26 DEF Bind, pipeVars, watchVars, watcherVars, appVars, jobVars, cmdVars
<1>27. CASE Swap
  BY <1>27 DEF Swap, pipeVars, watchVars, watcherVars, appVars, jobVars, cmdVars
<1>28. CASE Record
  BY <1>28 DEF Record, pipeVars, watchVars, watcherVars, appVars, jobVars, cmdVars
<1>29. CASE Reference
  BY <1>29 DEF Reference, pipeVars, watchVars, watcherVars, appVars, jobVars, cmdVars
<1>30. ASSUME NEW c \in Cmd, ResetCmd(c) PROVE EndedInv'
  BY <1>30 DEF ResetCmd, pipeVars, watchVars, watcherVars, appVars, jobVars, cmdVars
<1>. HIDE DEF OrderInv, EndedInv
<1>. QED
  BY <1>1, <1>2, <1>3, <1>4, <1>5, <1>6, <1>7, <1>8, <1>9, <1>10, <1>11, <1>12, <1>13, <1>14, <1>15, <1>16, <1>17, <1>18, <1>19, <1>20, <1>21, <1>22, <1>23, <1>24, <1>25, <1>26, <1>27, <1>28, <1>29, <1>30
     DEF Next, Editor, Watcher, Application, AppProgress, Recorder, RecorderProgress, Worker

\* OrderInv is inductive beside SharedInv.
LEMMA InitOrders == Init => OrderInv
<1>. SUFFICES ASSUME Init PROVE OrderInv
  OBVIOUS
<1>1. VersionsInv
  <2>1. \A p \in Pipe : Len(builds[p]) = 0
    BY DEF Init
  <2>2. \A w \in Worker : \A f \in File : seen[w][f] = 0 /\ disk[f].time = 1
    BY DEF Init, Unread
  <2>. QED BY <2>1, <2>2 DEF VersionsInv
<1>. QED BY <1>1 DEF Init, OrderInv, FirstCompile, WatcherCompile, EndedInv

LEMMA StepOrders == SharedInv /\ OrderInv /\ [Next]_vars => OrderInv'
  BY StepKeepsOrder, StepKeepsEnd DEF OrderInv

\* What StopIsFinal and ReloadsForward ask of a step.
FinalStep ==
    ~running /\ app # "join" =>
        UNCHANGED <<todo, subject, watcher>> /\ \A p \in Pipe : pending'[p] \in {0, pending[p]}

ForwardStep ==
    \A p \in Pipe : life[p] = "live" /\ life'[p] = "live" =>
        \A f \in File : builds[p][Newest(p)][f] <= builds'[p][Newest(p)'][f]

\* A watcher that has ended takes no step, and nobody else publishes.
LEMMA StepsEndWithStop ==
    ASSUME SharedInv, OrderInv, [Next]_vars
    PROVE  FinalStep
<1>. USE DEF FinalStep, OrderInv, EndedInv, SharedInv, BindInv, PlaceTypes
<1>1. CASE UNCHANGED vars
  BY <1>1 DEF vars, pipeVars, watchVars, watcherVars, appVars, jobVars, cmdVars
<1>2. ASSUME NEW f \in File, NEW text \in {"good", "broken"}, Save(f, text) PROVE FinalStep
  BY <1>2 DEF Save, pipeVars, watchVars, watcherVars, appVars, jobVars, cmdVars
<1>3. ASSUME NEW f \in File, Vanish(f) PROVE FinalStep
  BY <1>3 DEF Vanish, pipeVars, watchVars, watcherVars, appVars, jobVars, cmdVars
<1>4. ASSUME NEW w \in Worker, NEW f \in File, ReadFile(w, f) PROVE FinalStep
  BY <1>4 DEF ReadFile, pipeVars, watchVars, watcherVars, appVars, jobVars, cmdVars
<1>5. ASSUME NEW p \in Pipe, Load(p) PROVE FinalStep
  BY <1>5 DEF Load, pipeVars, watchVars, watcherVars, appVars, jobVars, cmdVars
<1>6. CASE LoadFails
  BY <1>6 DEF LoadFails, pipeVars, watchVars, watcherVars, appVars, jobVars, cmdVars
<1>7. CASE LoadCompiled
  BY <1>7 DEF LoadCompiled, pipeVars, watchVars, watcherVars, appVars, jobVars, cmdVars
<1>8. ASSUME NEW f \in File, RegisterFile(f) PROVE FinalStep
  BY <1>8 DEF RegisterFile, pipeVars, watchVars, watcherVars, appVars, jobVars, cmdVars
<1>9. ASSUME NEW f \in File, RegisterFails(f) PROVE FinalStep
  BY <1>9 DEF RegisterFails, pipeVars, watchVars, watcherVars, appVars, jobVars, cmdVars
<1>10. CASE LoadDone
  BY <1>10 DEF LoadDone, pipeVars, watchVars, watcherVars, appVars, jobVars, cmdVars
<1>11. ASSUME NEW p \in Pipe, Destroy(p) PROVE FinalStep
  BY <1>11 DEF Destroy, pipeVars, watchVars, watcherVars, appVars, jobVars, cmdVars
<1>12. CASE RemoveWatchedPipeline
  BY <1>12 DEF RemoveWatchedPipeline, ThreadsInv, pipeVars, watchVars, watcherVars, appVars, jobVars, cmdVars
<1>13. CASE Stop
  BY <1>13 DEF Stop, pipeVars, watchVars, watcherVars, appVars, jobVars, cmdVars
<1>14. CASE Join
  BY <1>14 DEF Join, pipeVars, watchVars, watcherVars, appVars, jobVars, cmdVars
<1>15. CASE BeginScan
  BY <1>15 DEF BeginScan, pipeVars, watchVars, watcherVars, appVars, jobVars, cmdVars
<1>16. CASE EndThread
  BY <1>16 DEF EndThread, pipeVars, watchVars, watcherVars, appVars, jobVars, cmdVars
<1>17. ASSUME NEW f \in File, ScanFile(f) PROVE FinalStep
  BY <1>17 DEF ScanFile, pipeVars, watchVars, watcherVars, appVars, jobVars, cmdVars
<1>18. ASSUME NEW f \in File, ScanThrows(f) PROVE FinalStep
  BY <1>18 DEF ScanThrows, pipeVars, watchVars, watcherVars, appVars, jobVars, cmdVars
<1>19. CASE EndScan
  BY <1>19 DEF EndScan, pipeVars, watchVars, watcherVars, appVars, jobVars, cmdVars
<1>20. ASSUME NEW p \in Pipe, BeginReload(p) PROVE FinalStep
  BY <1>20 DEF BeginReload, pipeVars, watchVars, watcherVars, appVars, jobVars, cmdVars
<1>21. CASE SetPipeline
  BY <1>21 DEF SetPipeline, pipeVars, watchVars, watcherVars, appVars, jobVars, cmdVars
<1>22. CASE ReloadFails
  BY <1>22 DEF ReloadFails, pipeVars, watchVars, watcherVars, appVars, jobVars, cmdVars
<1>23. CASE TouchDestroyed
  BY <1>23 DEF TouchDestroyed, pipeVars, watchVars, watcherVars, appVars, jobVars, cmdVars
<1>24. CASE Sleep
  BY <1>24 DEF Sleep, pipeVars, watchVars, watcherVars, appVars, jobVars, cmdVars
<1>25. CASE Wake
  BY <1>25 DEF Wake, pipeVars, watchVars, watcherVars, appVars, jobVars, cmdVars
<1>26. ASSUME NEW c \in Cmd, NEW p \in Pipe, Bind(c, p) PROVE FinalStep
  BY <1>26 DEF Bind, pipeVars, watchVars, watcherVars, appVars, jobVars, cmdVars
<1>27. CASE Swap
  BY <1>27 DEF Swap, ThreadsInv, pipeVars, watchVars, watcherVars, appVars, jobVars, cmdVars
<1>28. CASE Record
  BY <1>28 DEF Record, pipeVars, watchVars, watcherVars, appVars, jobVars, cmdVars
<1>29. CASE Reference
  BY <1>29 DEF Reference, pipeVars, watchVars, watcherVars, appVars, jobVars, cmdVars
<1>30. ASSUME NEW c \in Cmd, ResetCmd(c) PROVE FinalStep
  BY <1>30 DEF ResetCmd, pipeVars, watchVars, watcherVars, appVars, jobVars, cmdVars
<1>. HIDE DEF FinalStep, OrderInv, EndedInv, SharedInv, BindInv, PlaceTypes
<1>. QED
  BY <1>1, <1>2, <1>3, <1>4, <1>5, <1>6, <1>7, <1>8, <1>9, <1>10, <1>11, <1>12, <1>13, <1>14, <1>15, <1>16, <1>17, <1>18, <1>19, <1>20, <1>21, <1>22, <1>23, <1>24, <1>25, <1>26, <1>27, <1>28, <1>29, <1>30
     DEF Next, Editor, Watcher, Application, AppProgress, Recorder, RecorderProgress, Worker

\* The newest build of a pipeline that has one.
LEMMA NewestMade ==
    ASSUME SharedInv, NEW p \in Pipe, current[p] # 0
    PROVE  Newest(p) \in 1..Len(builds[p])
<1>1. current[p] \in 0..Len(builds[p]) /\ pending[p] \in 0..Len(builds[p]) /\ Len(builds[p]) \in Nat
  BY LenProperties DEF SharedInv, MadeInv
<1>. QED BY <1>1 DEF Newest

\* A step that leaves the newest build of the live pipelines.
LEMMA ForwardKept ==
    ASSUME SharedInv,
           \A p \in Pipe : life[p] = "live" /\ life'[p] = "live" =>
               builds'[p] = builds[p] /\ Newest(p)' = Newest(p)
    PROVE  ForwardStep
<1>. SUFFICES ASSUME NEW p \in Pipe, life[p] = "live", life'[p] = "live", NEW f \in File
              PROVE  builds[p][Newest(p)][f] <= builds'[p][Newest(p)'][f]
  BY DEF ForwardStep
<1>1. current[p] # 0
  BY DEF SharedInv, BindInv, ThreadsInv
<1>2. builds[p][Newest(p)][f] \in Nat
  BY <1>1, NewestMade, VersionTypes
<1>. QED BY <1>2

\* A newer build has read every file no earlier.
LEMMA StepsGoForward ==
    ASSUME SharedInv, OrderInv, [Next]_vars
    PROVE  ForwardStep
<1>1. CASE UNCHANGED vars
  BY <1>1, ForwardKept DEF vars, Newest, pipeVars, watchVars, watcherVars, appVars, jobVars, cmdVars
<1>2. ASSUME NEW f \in File, NEW text \in {"good", "broken"}, Save(f, text) PROVE ForwardStep
  BY <1>2, ForwardKept DEF Save, Newest, pipeVars, watchVars, watcherVars, appVars, jobVars, cmdVars
<1>3. ASSUME NEW f \in File, Vanish(f) PROVE ForwardStep
  BY <1>3, ForwardKept DEF Vanish, Newest, pipeVars, watchVars, watcherVars, appVars, jobVars, cmdVars
<1>4. ASSUME NEW w \in Worker, NEW f \in File, ReadFile(w, f) PROVE ForwardStep
  BY <1>4, ForwardKept DEF ReadFile, Newest, pipeVars, watchVars, watcherVars, appVars, jobVars, cmdVars
<1>5. ASSUME NEW p \in Pipe, Load(p) PROVE ForwardStep
  BY <1>5, ForwardKept DEF Load, Newest, pipeVars, watchVars, watcherVars, appVars, jobVars, cmdVars
<1>6. CASE LoadFails
  BY <1>6, ForwardKept DEF LoadFails, Newest, pipeVars, watchVars, watcherVars, appVars, jobVars, cmdVars
<1>7. CASE LoadCompiled
  <2>1. /\ target \in Pipe /\ life[target] = "loading" /\ pending' = pending
        /\ current' = [current EXCEPT ![target] = Len(builds[target]) + 1]
        /\ builds' = [builds EXCEPT ![target] = Append(builds[target], seen["app"])]
    BY <1>7 DEF LoadCompiled, Built, SharedInv, BindInv, ThreadsInv
  <2>2. \A p \in Pipe : p # target => builds'[p] = builds[p] /\ current'[p] = current[p]
    BY <2>1 DEF SharedInv, BindInv, PlaceTypes
  <2>. QED BY <2>1, <2>2, ForwardKept DEF Newest
<1>8. ASSUME NEW f \in File, RegisterFile(f) PROVE ForwardStep
  BY <1>8, ForwardKept DEF RegisterFile, Newest, pipeVars, watchVars, watcherVars, appVars, jobVars, cmdVars
<1>9. ASSUME NEW f \in File, RegisterFails(f) PROVE ForwardStep
  BY <1>9, ForwardKept DEF RegisterFails, Newest, pipeVars, watchVars, watcherVars, appVars, jobVars, cmdVars
<1>10. CASE LoadDone
  BY <1>10, ForwardKept DEF LoadDone, Newest, pipeVars, watchVars, watcherVars, appVars, jobVars, cmdVars
<1>11. ASSUME NEW p \in Pipe, Destroy(p) PROVE ForwardStep
  BY <1>11, ForwardKept DEF Destroy, Newest, pipeVars, watchVars, watcherVars, appVars, jobVars, cmdVars
<1>12. CASE RemoveWatchedPipeline
  <2>1. /\ target \in Pipe /\ life[target] = "closing" /\ builds' = builds
        /\ current' = [current EXCEPT ![target] = 0] /\ pending' = [pending EXCEPT ![target] = 0]
    BY <1>12 DEF RemoveWatchedPipeline, SharedInv, BindInv, ThreadsInv
  <2>2. \A p \in Pipe : p # target => current'[p] = current[p] /\ pending'[p] = pending[p]
    BY <2>1 DEF SharedInv, BindInv, PlaceTypes
  <2>. QED BY <2>1, <2>2, ForwardKept DEF Newest
<1>13. CASE Stop
  BY <1>13, ForwardKept DEF Stop, Newest, pipeVars, watchVars, watcherVars, appVars, jobVars, cmdVars
<1>14. CASE Join
  BY <1>14, ForwardKept DEF Join, Newest, pipeVars, watchVars, watcherVars, appVars, jobVars, cmdVars
<1>15. CASE BeginScan
  BY <1>15, ForwardKept DEF BeginScan, Newest, pipeVars, watchVars, watcherVars, appVars, jobVars, cmdVars
<1>16. CASE EndThread
  BY <1>16, ForwardKept DEF EndThread, Newest, pipeVars, watchVars, watcherVars, appVars, jobVars, cmdVars
<1>17. ASSUME NEW f \in File, ScanFile(f) PROVE ForwardStep
  BY <1>17, ForwardKept DEF ScanFile, Newest, pipeVars, watchVars, watcherVars, appVars, jobVars, cmdVars
<1>18. ASSUME NEW f \in File, ScanThrows(f) PROVE ForwardStep
  BY <1>18, ForwardKept DEF ScanThrows, Newest, pipeVars, watchVars, watcherVars, appVars, jobVars, cmdVars
<1>19. CASE EndScan
  BY <1>19, ForwardKept DEF EndScan, Newest, pipeVars, watchVars, watcherVars, appVars, jobVars, cmdVars
<1>20. ASSUME NEW p \in Pipe, BeginReload(p) PROVE ForwardStep
  BY <1>20, ForwardKept DEF BeginReload, Newest, pipeVars, watchVars, watcherVars, appVars, jobVars, cmdVars
<1>21. CASE SetPipeline
  <2>1. /\ watcher = "compile" /\ left["watcher"] = {} /\ subject \in Pipe /\ Built("watcher", subject)
        /\ "watcher" \in Worker /\ current' = current
        /\ pending' = [pending EXCEPT ![subject] = Len(builds[subject]) + 1]
    BY <1>21 DEF SetPipeline, SharedInv, BindInv, ThreadsInv, Worker
  <2>2. /\ \A q \in Pipe : Len(builds[q]) \in Nat /\ \A n \in 1..Len(builds[q]) : builds'[q][n] = builds[q][n]
        /\ builds'[subject][Len(builds[subject]) + 1] = seen["watcher"]
    BY <2>1, BuiltOnce
  <2>3. /\ pending'[subject] = Len(builds[subject]) + 1
        /\ \A q \in Pipe : q # subject => pending'[q] = pending[q]
    BY <2>1 DEF SharedInv, BindInv, PlaceTypes
  <2>4. ASSUME NEW p \in Pipe, life[p] = "live", NEW f \in File
        PROVE  builds[p][Newest(p)][f] <= builds'[p][Newest(p)'][f]
    <3>1. current[p] # 0
      BY <2>4 DEF SharedInv, BindInv, ThreadsInv
    <3>2. Newest(p) \in 1..Len(builds[p]) /\ builds[p][Newest(p)][f] \in Nat /\ seen["watcher"][f] \in Nat
      BY <2>1, <3>1, NewestMade, VersionTypes
    <3>3. CASE p = subject
      <4>1. Newest(p)' = Len(builds[subject]) + 1
        BY <2>2, <2>3, <3>3 DEF Newest
      <4>2. builds[p][Newest(p)][f] <= seen["watcher"][f]
        <5>1. CASE f \in Uses[p]
          BY <2>1, <3>2, <3>3, <5>1 DEF OrderInv, WatcherCompile
        <5>2. CASE f \notin Uses[p]
          BY <3>2, <5>2 DEF OrderInv, VersionsInv
        <5>. QED BY <5>1, <5>2
      <4>. QED BY <2>2, <3>3, <4>1, <4>2
    <3>4. CASE p # subject
      <4>1. Newest(p)' = Newest(p)
        BY <2>1, <2>3, <3>4 DEF Newest
      <4>. QED BY <2>2, <3>2, <4>1
    <3>. QED BY <3>3, <3>4
  <2>. QED BY <2>4 DEF ForwardStep
<1>22. CASE ReloadFails
  BY <1>22, ForwardKept DEF ReloadFails, Newest, pipeVars, watchVars, watcherVars, appVars, jobVars, cmdVars
<1>23. CASE TouchDestroyed
  BY <1>23, ForwardKept DEF TouchDestroyed, Newest, pipeVars, watchVars, watcherVars, appVars, jobVars, cmdVars
<1>24. CASE Sleep
  BY <1>24, ForwardKept DEF Sleep, Newest, pipeVars, watchVars, watcherVars, appVars, jobVars, cmdVars
<1>25. CASE Wake
  BY <1>25, ForwardKept DEF Wake, Newest, pipeVars, watchVars, watcherVars, appVars, jobVars, cmdVars
<1>26. ASSUME NEW c \in Cmd, NEW p \in Pipe, Bind(c, p) PROVE ForwardStep
  BY <1>26, ForwardKept DEF Bind, Newest, pipeVars, watchVars, watcherVars, appVars, jobVars, cmdVars
<1>27. CASE Swap
  <2>1. /\ recorder.step = "swap" /\ builds' = builds /\ recorder.pipe \in Pipe /\ pending[recorder.pipe] # 0
        /\ current' = [current EXCEPT ![recorder.pipe] = pending[recorder.pipe]]
        /\ pending' = [pending EXCEPT ![recorder.pipe] = 0]
    BY <1>27 DEF Swap, SharedInv, BindInv, ThreadsInv, PendingIffUpdated
  <2>2. \A p \in Pipe : Newest(p)' = Newest(p)
    BY <2>1 DEF Newest, SharedInv, BindInv, PlaceTypes
  <2>. QED BY <2>1, <2>2, ForwardKept
<1>28. CASE Record
  BY <1>28, ForwardKept DEF Record, Newest, pipeVars, watchVars, watcherVars, appVars, jobVars, cmdVars
<1>29. CASE Reference
  BY <1>29, ForwardKept DEF Reference, Newest, pipeVars, watchVars, watcherVars, appVars, jobVars, cmdVars
<1>30. ASSUME NEW c \in Cmd, ResetCmd(c) PROVE ForwardStep
  BY <1>30, ForwardKept DEF ResetCmd, Newest, pipeVars, watchVars, watcherVars, appVars, jobVars, cmdVars
<1>. QED
  BY <1>1, <1>2, <1>3, <1>4, <1>5, <1>6, <1>7, <1>8, <1>9, <1>10, <1>11, <1>12, <1>13, <1>14, <1>15, <1>16, <1>17, <1>18, <1>19, <1>20, <1>21, <1>22, <1>23, <1>24, <1>25, <1>26, <1>27, <1>28, <1>29, <1>30
     DEF Next, Editor, Watcher, Application, AppProgress, Recorder, RecorderProgress, Worker

\* Once stop has returned the watcher moves no more and publishes nothing, and
\* a build never goes back to an older version of a file of its pipeline,
\* whatever is edited while it compiles (stop, set_pipeline, reload).
THEOREM WatcherKeepsOrder == Spec => ReloadsInOrder
<1>1. SharedInv /\ OrderInv /\ [Next]_vars => FinalStep /\ ForwardStep
  BY StepsEndWithStop, StepsGoForward
<1>2. FinalStep =>
        (~running /\ app # "join" =>
            /\ UNCHANGED <<todo, subject, watcher>>
            /\ \A p \in Pipe : pending'[p] \in {0, pending[p]})
  BY DEF FinalStep
<1>3. ForwardStep =>
        (\A p \in Pipe : life[p] = "live" /\ life'[p] = "live" =>
            \A f \in File : builds[p][Newest(p)][f] <= builds'[p][Newest(p)'][f])
  BY DEF ForwardStep
<1>. QED
  BY <1>1, <1>2, <1>3, InitShares, InitOrders, StepKeepsShared, StepOrders, PTL
     DEF Spec, ReloadsInOrder, StopIsFinal, ReloadsForward

-----------------------------------------------------------------------------
(* Destruction after stop() only.                                          *)

\* The watcher has ended before a pipeline is destroyed, and files that are
\* not removed do not make load fail while it registers them.
StoppedInv ==
    /\ crashed # "freed"
    /\ \A f \in File : disk[f].text # "missing"
    /\ ~running => app = "join" \/ watcher = "ended"
    /\ \A p \in Pipe : life[p] \in {"closing", "dead"} => ~running /\ watcher = "ended"

\* No step gets at a destroyed pipeline.
LEMMA StepKeepsStopped ==
    ASSUME MayVanish = {}, ~DestroyAnyTime, BindInv, StoppedInv, [Next]_vars
    PROVE  StoppedInv'
<1>. USE DEF BindInv, PlaceTypes, ThreadsInv, StoppedInv
<1>1. CASE UNCHANGED vars
  BY <1>1 DEF vars, pipeVars, watchVars, watcherVars, appVars, jobVars, cmdVars
<1>2. ASSUME NEW f \in File, NEW text \in {"good", "broken"}, Save(f, text) PROVE StoppedInv'
  BY <1>2 DEF Save, pipeVars, watchVars, watcherVars, appVars, jobVars, cmdVars
<1>3. ASSUME NEW f \in File, Vanish(f) PROVE StoppedInv'
  BY <1>3 DEF Vanish, pipeVars, watchVars, watcherVars, appVars, jobVars, cmdVars
<1>4. ASSUME NEW w \in Worker, NEW f \in File, ReadFile(w, f) PROVE StoppedInv'
  BY <1>4 DEF ReadFile, pipeVars, watchVars, watcherVars, appVars, jobVars, cmdVars
<1>5. ASSUME NEW p \in Pipe, Load(p) PROVE StoppedInv'
  BY <1>5 DEF Load, pipeVars, watchVars, watcherVars, appVars, jobVars, cmdVars
<1>6. CASE LoadFails
  BY <1>6 DEF LoadFails, pipeVars, watchVars, watcherVars, appVars, jobVars, cmdVars
<1>7. CASE LoadCompiled
  BY <1>7 DEF LoadCompiled, pipeVars, watchVars, watcherVars, appVars, jobVars, cmdVars
<1>8. ASSUME NEW f \in File, RegisterFile(f) PROVE StoppedInv'
  BY <1>8 DEF RegisterFile, pipeVars, watchVars, watcherVars, appVars, jobVars, cmdVars
<1>9. ASSUME NEW f \in File, RegisterFails(f) PROVE StoppedInv'
  BY <1>9 DEF RegisterFails, pipeVars, watchVars, watcherVars, appVars, jobVars, cmdVars
<1>10. CASE LoadDone
  BY <1>10 DEF LoadDone, pipeVars, watchVars, watcherVars, appVars, jobVars, cmdVars
<1>11. ASSUME NEW p \in Pipe, Destroy(p) PROVE StoppedInv'
  BY <1>11 DEF Destroy, pipeVars, watchVars, watcherVars, appVars, jobVars, cmdVars
<1>12. CASE RemoveWatchedPipeline
  BY <1>12 DEF RemoveWatchedPipeline, pipeVars, watchVars, watcherVars, appVars, jobVars, cmdVars
<1>13. CASE Stop
  BY <1>13 DEF Stop, pipeVars, watchVars, watcherVars, appVars, jobVars, cmdVars
<1>14. CASE Join
  BY <1>14 DEF Join, pipeVars, watchVars, watcherVars, appVars, jobVars, cmdVars
<1>15. CASE BeginScan
  BY <1>15 DEF BeginScan, pipeVars, watchVars, watcherVars, appVars, jobVars, cmdVars
<1>16. CASE EndThread
  BY <1>16 DEF EndThread, pipeVars, watchVars, watcherVars, appVars, jobVars, cmdVars
<1>17. ASSUME NEW f \in File, ScanFile(f) PROVE StoppedInv'
  BY <1>17 DEF ScanFile, pipeVars, watchVars, watcherVars, appVars, jobVars, cmdVars
<1>18. ASSUME NEW f \in File, ScanThrows(f) PROVE StoppedInv'
  BY <1>18 DEF ScanThrows, pipeVars, watchVars, watcherVars, appVars, jobVars, cmdVars
<1>19. CASE EndScan
  BY <1>19 DEF EndScan, pipeVars, watchVars, watcherVars, appVars, jobVars, cmdVars
<1>20. ASSUME NEW p \in Pipe, BeginReload(p) PROVE StoppedInv'
  BY <1>20 DEF BeginReload, pipeVars, watchVars, watcherVars, appVars, jobVars, cmdVars
<1>21. CASE SetPipeline
  BY <1>21 DEF SetPipeline, pipeVars, watchVars, watcherVars, appVars, jobVars, cmdVars
<1>22. CASE ReloadFails
  BY <1>22 DEF ReloadFails, pipeVars, watchVars, watcherVars, appVars, jobVars, cmdVars
<1>23. CASE TouchDestroyed
  BY <1>23 DEF TouchDestroyed, pipeVars, watchVars, watcherVars, appVars, jobVars, cmdVars
<1>24. CASE Sleep
  BY <1>24 DEF Sleep, pipeVars, watchVars, watcherVars, appVars, jobVars, cmdVars
<1>25. CASE Wake
  BY <1>25 DEF Wake, pipeVars, watchVars, watcherVars, appVars, jobVars, cmdVars
<1>26. ASSUME NEW c \in Cmd, NEW p \in Pipe, Bind(c, p) PROVE StoppedInv'
  BY <1>26 DEF Bind, pipeVars, watchVars, watcherVars, appVars, jobVars, cmdVars
<1>27. CASE Swap
  BY <1>27 DEF Swap, pipeVars, watchVars, watcherVars, appVars, jobVars, cmdVars
<1>28. CASE Record
  BY <1>28 DEF Record, pipeVars, watchVars, watcherVars, appVars, jobVars, cmdVars
<1>29. CASE Reference
  BY <1>29 DEF Reference, pipeVars, watchVars, watcherVars, appVars, jobVars, cmdVars
<1>30. ASSUME NEW c \in Cmd, ResetCmd(c) PROVE StoppedInv'
  BY <1>30 DEF ResetCmd, pipeVars, watchVars, watcherVars, appVars, jobVars, cmdVars
<1>. HIDE DEF BindInv, PlaceTypes, ThreadsInv, StoppedInv
<1>. QED
  BY <1>1, <1>2, <1>3, <1>4, <1>5, <1>6, <1>7, <1>8, <1>9, <1>10, <1>11, <1>12, <1>13, <1>14, <1>15, <1>16, <1>17, <1>18, <1>19, <1>20, <1>21, <1>22, <1>23, <1>24, <1>25, <1>26, <1>27, <1>28, <1>29, <1>30
     DEF Next, Editor, Watcher, Application, AppProgress, Recorder, RecorderProgress, Worker

\* The watcher never touches a pipeline that was destroyed, if the application
\* stops it first, as the comment in worker_function asks.
THEOREM StoppedBeforeDestroyed ==
    ASSUME MayVanish = {}, ~DestroyAnyTime
    PROVE  Spec => []NoUseAfterDestroy
<1>1. Init => StoppedInv
  BY DEF Init, StoppedInv
<1>2. BindInv /\ StoppedInv /\ [Next]_vars => StoppedInv'
  BY StepKeepsStopped
<1>3. StoppedInv => NoUseAfterDestroy
  BY DEF StoppedInv, NoUseAfterDestroy
<1>. QED BY <1>1, <1>2, <1>3, InitBinds, StepKeepsBinds, PTL DEF Spec
=============================================================================
