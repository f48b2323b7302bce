----------------------- MODULE CommandRecordingProofs -----------------------
(***************************************************************************)
(* For every set of command buffers, Vulkan buffers, pipelines and sets:   *)
(* skipping the bind of a pipeline is sound, what a buffer recorded exists *)
(* as long as the device may run it, every Vulkan buffer has one owner of  *)
(* its level, and a bound pipeline sees the sets asked for last.           *)
(***************************************************************************)
EXTENDS CommandRecording, FiniteSetTheorems, TLAPS

\* The types of what pipelines and the owners of Vulkan buffers rest on.
CoreTypes ==
    /\ handle \in [Cmd -> Handle \cup {Null}]
    /\ primary \in [Cmd -> BOOLEAN]
    /\ current \in [Cmd -> Pipeline \cup {Null}]
    /\ deps \in [Cmd -> SUBSET Counted]
    /\ recycled \in [Levels -> Seq(Handle)]
    /\ made \in [Handle -> Levels \cup {Null}]
    /\ phase \in [Handle -> {"initial", "recording", "inside", "executable", "pending"}]
    /\ bound \in [Handle -> [Points -> Version \cup {Null}]]
    /\ used \in [Handle -> SUBSET Version]
    /\ generation \in [Pipeline -> 1..MaxGeneration]
    /\ owner \in [Pipeline -> BOOLEAN]
    /\ stale \in [Cmd -> BOOLEAN]

\* A Vulkan buffer has one CommandBuffer or one place among those recycled,
\* where it is reset.
OwnersInv ==
    /\ \A c, d \in Cmd : Live(c) /\ handle[c] = handle[d] => c = d
    /\ \A c \in Cmd : Live(c) => made[handle[c]] # Null
    /\ \A l \in Levels : \A i \in DOMAIN recycled[l] :
          /\ made[recycled[l][i]] # Null /\ phase[recycled[l][i]] = "initial"
          /\ \A c \in Cmd : handle[c] # recycled[l][i]
          /\ \A k \in Levels : \A j \in DOMAIN recycled[k] : recycled[l][i] = recycled[k][j] => l = k /\ i = j
    /\ \A h \in Handle : made[h] = Null => phase[h] = "initial"

\* What is recorded into a buffer is of today's generation: a counted pipeline
\* is a dependency of the CommandBuffer of that very buffer, any other is
\* still the application's.
RecordedInv ==
    \A h \in Handle :
        /\ phase[h] = "initial" => used[h] = {}
        /\ \A v \in used[h] :
              /\ v[2] = generation[v[1]]
              /\ v[1] \in Counted => \E c \in Cmd : handle[c] = h /\ v[1] \in deps[c]
              /\ v[1] \notin Counted => owner[v[1]]

\* The pipeline bound last was recorded, and is what the device has bound,
\* unless the device has forgotten it since.
CurrentInv ==
    \A c \in Cmd : Live(c) /\ current[c] # Null /\ ~stale[c] =>
        /\ <<current[c], generation[current[c]]>> \in used[handle[c]]
        /\ bound[handle[c]][Point[current[c]]] = <<current[c], generation[current[c]]>>

RecordingInv == CoreTypes /\ OwnersInv /\ RecordedInv /\ CurrentInv

-----------------------------------------------------------------------------
(* Who owns which Vulkan buffer.                                           *)

\* As long as no buffer changes hands, only one that has a CommandBuffer may
\* leave its initial phase.
LEMMA OwnersKept ==
    ASSUME RecordingInv, UNCHANGED <<handle, recycled, made>>,
           \A h \in Handle : phase[h] = "initial" => phase'[h] = "initial" \/ \E c \in Cmd : handle[c] = h
    PROVE  OwnersInv'
<1>. USE DEF RecordingInv, OwnersInv
<1>1. \A l \in Levels : \A i \in DOMAIN recycled[l] : recycled[l][i] \in Handle
  BY DEF CoreTypes
<1>2. \A h \in Handle : h # Null
  BY PipelineAssumption
<1>3. \A l \in Levels : \A i \in DOMAIN recycled[l] : phase'[recycled[l][i]] = "initial"
  BY <1>1
<1>4. \A h \in Handle : made[h] = Null => phase'[h] = "initial"
  BY <1>2 DEF Live
<1>. QED BY <1>3, <1>4 DEF Live

\* What Wrap does to the objects.
LEMMA Wrapped ==
    ASSUME CoreTypes, NEW c \in Cmd, NEW h \in Handle \cup {Null}, NEW l \in Levels, Wrap(c, h, l)
    PROVE  /\ handle'[c] = h /\ current'[c] = Null /\ deps'[c] = {}
           /\ \A d \in Cmd \ {c} : /\ handle'[d] = handle[d] /\ current'[d] = current[d]
                                   /\ deps'[d] = deps[d] /\ stale'[d] = stale[d]
           /\ handle' \in [Cmd -> Handle \cup {Null}]
           /\ primary' \in [Cmd -> BOOLEAN]
           /\ current' \in [Cmd -> Pipeline \cup {Null}]
           /\ deps' \in [Cmd -> SUBSET Counted]
           /\ stale' \in [Cmd -> BOOLEAN]
<1>1. primary' \in [Cmd -> BOOLEAN]
  BY Zenon DEF CoreTypes, Wrap
<1>2. stale' \in [Cmd -> BOOLEAN]
  BY Zenon DEF CoreTypes, Wrap
<1>3. \A d \in Cmd \ {c} : stale'[d] = stale[d]
  BY DEF CoreTypes, Wrap
<1>. QED BY <1>1, <1>2, <1>3 DEF CoreTypes, Wrap

\* The queue of recycled buffers loses its first, which is nowhere else.
LEMMA FirstRecycled ==
    ASSUME CoreTypes, NEW l \in Levels, recycled[l] # <<>>, recycled' = [recycled EXCEPT ![l] = Tail(@)]
    PROVE  /\ Head(recycled[l]) = recycled[l][1] /\ 1 \in DOMAIN recycled[l]
           /\ recycled' \in [Levels -> Seq(Handle)]
           /\ \A i \in DOMAIN recycled'[l] : i # 0 /\ i + 1 # 1 /\ i + 1 \in DOMAIN recycled[l] /\ recycled'[l][i] = recycled[l][i + 1]
           /\ \A k \in Levels \ {l} : recycled'[k] = recycled[k]
<1>. DEFINE q == recycled[l]
<1>1. q \in Seq(Handle) /\ q # <<>>
  BY DEF CoreTypes
<1>2. recycled'[l] = Tail(q) /\ \A k \in Levels \ {l} : recycled'[k] = recycled[k]
  BY DEF CoreTypes
<1>. HIDE DEF q
<1>3. /\ Head(q) = q[1] /\ 1 \in DOMAIN q /\ Tail(q) \in Seq(Handle)
      /\ \A i \in DOMAIN Tail(q) : i # 0 /\ i + 1 # 1 /\ i + 1 \in DOMAIN q /\ Tail(q)[i] = q[i + 1]
  BY <1>1
<1>4. recycled' \in [Levels -> Seq(Handle)]
  BY <1>1, <1>3 DEF CoreTypes, q
<1>. QED BY <1>2, <1>3, <1>4 DEF q

\* The buffer recycled last is behind the others.
LEMMA LastRecycled ==
    ASSUME CoreTypes, NEW l \in Levels, NEW h \in Handle, recycled' = [recycled EXCEPT ![l] = Append(@, h)]
    PROVE  /\ recycled' \in [Levels -> Seq(Handle)]
           /\ \A i \in DOMAIN recycled'[l] :
                 \/ i \in DOMAIN recycled[l] /\ recycled'[l][i] = recycled[l][i]
                 \/ i = Len(recycled[l]) + 1 /\ i \notin DOMAIN recycled[l] /\ recycled'[l][i] = h
           /\ \A k \in Levels \ {l} : recycled'[k] = recycled[k]
<1>. DEFINE q == recycled[l]
<1>1. q \in Seq(Handle)
  BY DEF CoreTypes
<1>2. recycled'[l] = Append(q, h) /\ \A k \in Levels \ {l} : recycled'[k] = recycled[k]
  BY DEF CoreTypes
<1>. HIDE DEF q
<1>3. /\ Append(q, h) \in Seq(Handle)
      /\ \A i \in DOMAIN Append(q, h) :
                 \/ i \in DOMAIN q /\ Append(q, h)[i] = q[i]
                 \/ i = Len(q) + 1 /\ i \notin DOMAIN q /\ Append(q, h)[i] = h
  BY <1>1
<1>4. recycled' \in [Levels -> Seq(Handle)]
  BY <1>1, <1>3 DEF CoreTypes, q
<1>. QED BY <1>2, <1>3, <1>4 DEF q

\* A recycled buffer changes from the queue to one CommandBuffer.
LEMMA RecycledOwned ==
    ASSUME RecordingInv, NEW c \in Cmd, NEW l \in Levels, AllocateRecycled(c, l)
    PROVE  OwnersInv'
<1>. DEFINE h == recycled[l][1]
<1>. USE DEF RecordingInv
<1>1. /\ recycled[l] # <<>> /\ ~Live(c) /\ recycled' = [recycled EXCEPT ![l] = Tail(@)]
      /\ UNCHANGED <<made, phase>>
  BY DEF AllocateRecycled, deviceVars
<1>2. h = Head(recycled[l]) /\ 1 \in DOMAIN recycled[l] /\ h \in Handle /\ h # Null
  BY <1>1, FirstRecycled, PipelineAssumption DEF CoreTypes
<1>3. /\ handle'[c] = h
      /\ \A d \in Cmd \ {c} : handle'[d] = handle[d]
  <2>1. Wrap(c, h, l)
    BY <1>2 DEF AllocateRecycled
  <2>. QED BY <1>2, <2>1, Wrapped
<1>4. /\ made[h] # Null
      /\ \A d \in Cmd : handle[d] # h
      /\ \A k \in Levels : \A j \in DOMAIN recycled[k] : recycled[k][j] = h => k = l /\ j = 1
  BY <1>2 DEF OwnersInv
<1>5. ASSUME NEW k \in Levels, NEW i \in DOMAIN recycled'[k]
      PROVE  \E j \in DOMAIN recycled[k] :
                /\ recycled'[k][i] = recycled[k][j]
                /\ IF k = l THEN j = i + 1 ELSE j = i
                /\ recycled[k][j] # h
  <2>1. CASE k = l
    <3>1. /\ i + 1 \in DOMAIN recycled[l] /\ recycled'[l][i] = recycled[l][i + 1]
          /\ i + 1 # 1
      BY <1>1, <2>1, FirstRecycled
    <3>. QED BY <1>4, <2>1, <3>1
  <2>2. CASE k # l
    <3>1. recycled'[k] = recycled[k]
      BY <1>1, <2>2, FirstRecycled
    <3>. QED BY <1>4, <2>2, <3>1
  <2>. QED BY <2>1, <2>2
<1>. HIDE DEF h
<1>6. \A d, e \in Cmd : Live(d)' /\ handle'[d] = handle'[e] => d = e
  BY <1>1, <1>3, <1>4 DEF OwnersInv, Live
<1>7. \A d \in Cmd : Live(d)' => made'[handle'[d]] # Null
  BY <1>1, <1>3, <1>4 DEF OwnersInv, Live
<1>8. ASSUME NEW k \in Levels, NEW i \in DOMAIN recycled'[k]
      PROVE  /\ made'[recycled'[k][i]] # Null /\ phase'[recycled'[k][i]] = "initial"
             /\ \A d \in Cmd : handle'[d] # recycled'[k][i]
             /\ \A m \in Levels : \A j \in DOMAIN recycled'[m] : recycled'[k][i] = recycled'[m][j] => k = m /\ i = j
  <2>1. PICK j \in DOMAIN recycled[k] :
                /\ recycled'[k][i] = recycled[k][j]
                /\ IF k = l THEN j = i + 1 ELSE j = i
                /\ recycled[k][j] # h
    BY <1>5
  <2>2. /\ made'[recycled'[k][i]] # Null /\ phase'[recycled'[k][i]] = "initial"
        /\ \A d \in Cmd : handle'[d] # recycled'[k][i]
    BY <1>1, <1>3, <2>1 DEF OwnersInv
  <2>3. ASSUME NEW m \in Levels, NEW n \in DOMAIN recycled'[m], recycled'[k][i] = recycled'[m][n]
        PROVE  k = m /\ i = n
    <3>1. PICK o \in DOMAIN recycled[m] :
                /\ recycled'[m][n] = recycled[m][o]
                /\ IF m = l THEN o = n + 1 ELSE o = n
      BY <1>5
    <3>2. k = m /\ j = o
      <4>1. recycled[k][j] = recycled[m][o]
        BY <2>1, <2>3, <3>1
      <4>. QED BY <4>1 DEF OwnersInv
    <3>3. k = l => i \in Nat /\ n \in Nat
      BY <1>1, <3>2, FirstRecycled DEF CoreTypes
    <3>. QED BY <2>1, <3>1, <3>2, <3>3
  <2>. QED BY <2>2, <2>3
<1>. QED BY <1>1, <1>6, <1>7, <1>8 DEF OwnersInv

\* A new buffer was nowhere before.
LEMMA NewOwned ==
    ASSUME RecordingInv, NEW c \in Cmd, NEW l \in Levels, AllocateNew(c, l)
    PROVE  OwnersInv'
<1>. USE DEF RecordingInv
<1>1. PICK h \in Handle : made[h] = Null /\ made' = [made EXCEPT ![h] = l] /\ Wrap(c, h, l)
  BY DEF AllocateNew
<1>2. ~Live(c) /\ UNCHANGED <<recycled, phase>> /\ h # Null /\ l # Null
  BY PipelineAssumption, BoundAssumption DEF AllocateNew, deviceVars, Levels
<1>3. /\ handle'[c] = h
      /\ \A d \in Cmd \ {c} : handle'[d] = handle[d]
  BY <1>1, Wrapped
<1>4. made'[h] = l /\ \A g \in Handle \ {h} : made'[g] = made[g]
  BY <1>1 DEF CoreTypes
<1>5. \A d \in Cmd : handle[d] # h
  BY <1>1, <1>2 DEF OwnersInv, Live
<1>6. \A k \in Levels : \A i \in DOMAIN recycled[k] : recycled[k][i] \in Handle \ {h}
  BY <1>1 DEF OwnersInv, CoreTypes
<1>7. \A d, e \in Cmd : Live(d)' /\ handle'[d] = handle'[e] => d = e
  BY <1>2, <1>3, <1>5 DEF OwnersInv, Live
<1>8. \A d \in Cmd : Live(d)' => made'[handle'[d]] # Null
  BY <1>2, <1>3, <1>4, <1>5 DEF OwnersInv, Live, CoreTypes
<1>9. \A k \in Levels : \A i \in DOMAIN recycled[k] :
          /\ made'[recycled[k][i]] # Null
          /\ \A d \in Cmd : handle'[d] # recycled[k][i]
  BY <1>3, <1>4, <1>6 DEF OwnersInv
<1>10. \A g \in Handle : made'[g] = Null => phase[g] = "initial"
  BY <1>2, <1>4 DEF OwnersInv
<1>. QED BY <1>2, <1>7, <1>8, <1>9, <1>10 DEF OwnersInv

\* The buffer of a CommandBuffer that is destroyed goes back, reset.
LEMMA DestroyOwned ==
    ASSUME RecordingInv, NEW c \in Cmd, Destroy(c)
    PROVE  OwnersInv'
<1>. DEFINE h == handle[c]
            l == Level(c)
<1>. USE DEF RecordingInv
<1>1. /\ h \in Handle /\ h # Null /\ l \in Levels /\ UNCHANGED made
      /\ recycled' = [recycled EXCEPT ![l] = Append(@, h)]
      /\ Wrap(c, Null, l)
  BY PipelineAssumption DEF Destroy, Live, CoreTypes, Level, Levels
<1>2. phase'[h] = "initial" /\ \A g \in Handle \ {h} : phase'[g] = phase[g]
  BY <1>1 DEF Destroy, DeviceReset, CoreTypes
<1>3. /\ handle'[c] = Null
      /\ \A d \in Cmd \ {c} : handle'[d] = handle[d] /\ handle'[d] # h
  BY <1>1, Wrapped DEF OwnersInv, Live
<1>4. /\ made[h] # Null
      /\ \A k \in Levels : \A j \in DOMAIN recycled[k] : recycled[k][j] \in Handle \ {h}
  BY <1>1 DEF OwnersInv, Live, CoreTypes
<1>. HIDE DEF h, l
<1>5. ASSUME NEW k \in Levels, NEW i \in DOMAIN recycled'[k]
      PROVE  \/ i \in DOMAIN recycled[k] /\ recycled'[k][i] = recycled[k][i]
             \/ k = l /\ i \notin DOMAIN recycled[k] /\ i = Len(recycled[l]) + 1 /\ recycled'[k][i] = h
  BY <1>1, LastRecycled
<1>6. \A d, e \in Cmd : Live(d)' /\ handle'[d] = handle'[e] => d = e
  BY <1>3 DEF OwnersInv, Live
<1>7. \A d \in Cmd : Live(d)' => made'[handle'[d]] # Null
  BY <1>1, <1>3 DEF OwnersInv, Live
<1>8. ASSUME NEW k \in Levels, NEW i \in DOMAIN recycled'[k]
      PROVE  /\ made'[recycled'[k][i]] # Null /\ phase'[recycled'[k][i]] = "initial"
             /\ \A d \in Cmd : handle'[d] # recycled'[k][i]
    BY <1>1, <1>2, <1>3, <1>4, <1>5, PipelineAssumption DEF OwnersInv
<1>9. ASSUME NEW k \in Levels, NEW i \in DOMAIN recycled'[k],
             NEW m \in Levels, NEW j \in DOMAIN recycled'[m], recycled'[k][i] = recycled'[m][j]
      PROVE  k = m /\ i = j
  BY <1>4, <1>5, <1>9 DEF OwnersInv
<1>10. \A g \in Handle : made'[g] = Null => phase'[g] = "initial"
  BY <1>1, <1>2 DEF OwnersInv
<1>. QED BY <1>6, <1>7, <1>8, <1>9, <1>10 DEF OwnersInv

-----------------------------------------------------------------------------
(* What is recorded.                                                       *)

PipelinesInv == RecordedInv /\ CurrentInv

\* A buffer that changes its phase without a reset.
LEMMA PipelinesKept ==
    ASSUME RecordingInv, UNCHANGED <<handle, current, deps, bound, used, stale, pipeVars>>,
           \A h \in Handle : phase'[h] = "initial" => phase[h] = "initial"
    PROVE  PipelinesInv'
<1>1. RecordedInv'
  BY DEF RecordingInv, RecordedInv, pipeVars
<1>2. CurrentInv'
  BY DEF RecordingInv, CurrentInv, pipeVars, Live
<1>. QED BY <1>1, <1>2 DEF PipelinesInv

\* A buffer that gets a CommandBuffer brings nothing along for it.
LEMMA PipelinesAllocated ==
    ASSUME RecordingInv, NEW c \in Cmd, NEW h \in Handle, NEW l \in Levels,
           ~Live(c), Wrap(c, h, l), UNCHANGED <<deviceVars, pipeVars>>
    PROVE  PipelinesInv'
<1>1. /\ current'[c] = Null
      /\ \A d \in Cmd \ {c} : /\ handle'[d] = handle[d] /\ current'[d] = current[d]
                              /\ deps'[d] = deps[d] /\ stale'[d] = stale[d]
  BY Wrapped DEF RecordingInv
<1>2. handle[c] = Null /\ \A g \in Handle : g # Null
  BY PipelineAssumption DEF Live
<1>3. RecordedInv'
  BY <1>1, <1>2 DEF RecordingInv, RecordedInv, deviceVars, pipeVars
<1>4. CurrentInv'
  BY <1>1 DEF RecordingInv, CurrentInv, deviceVars, pipeVars, Live
<1>. QED BY <1>3, <1>4 DEF PipelinesInv

\* A reset, explicit or by another begin, clears the buffer of one
\* CommandBuffer, and no other's.
LEMMA PipelinesReset ==
    ASSUME RecordingInv, NEW c \in Cmd, Live(c), Forgotten(handle[c]), UNCHANGED pipeVars,
           used' = [used EXCEPT ![handle[c]] = {}],
           \A g \in Handle : g # handle[c] => phase'[g] = phase[g],
           current'[c] # Null => stale'[c], handle'[c] \in {handle[c], Null},
           \A d \in Cmd \ {c} : /\ handle'[d] = handle[d] /\ current'[d] = current[d]
                               /\ deps'[d] = deps[d] /\ stale'[d] = stale[d]
    PROVE  PipelinesInv'
<1>. DEFINE h == handle[c]
<1>. USE DEF RecordingInv
<1>1. h \in Handle /\ h # Null
  BY DEF CoreTypes, Live
<1>2. /\ used'[h] = {}
      /\ \A g \in Handle \ {h} : used'[g] = used[g] /\ bound'[g] = bound[g] /\ phase'[g] = phase[g]
  BY <1>1 DEF Forgotten, CoreTypes
<1>3. \A d \in Cmd \ {c} : handle[d] # h
  BY <1>1 DEF OwnersInv, Live
<1>. HIDE DEF h
<1>4. ASSUME NEW g \in Handle
      PROVE  /\ phase'[g] = "initial" => used'[g] = {}
             /\ \A v \in used'[g] :
                   /\ v[2] = generation'[v[1]]
                   /\ v[1] \in Counted => \E d \in Cmd : handle'[d] = g /\ v[1] \in deps'[d]
                   /\ v[1] \notin Counted => owner'[v[1]]
  <2>1. CASE g = h
    BY <1>2, <2>1
  <2>2. CASE g # h
    <3>1. used'[g] = used[g] /\ phase'[g] = phase[g]
      BY <1>2, <2>2
    <3>2. \A d \in Cmd : handle[d] = g => d # c
      BY <2>2 DEF h
    <3>. QED BY <3>1, <3>2 DEF RecordedInv, pipeVars
  <2>. QED BY <2>1, <2>2
<1>5. RecordedInv'
  BY <1>4 DEF RecordedInv
<1>6. ASSUME NEW d \in Cmd, Live(d)', current'[d] # Null, ~stale'[d]
      PROVE  /\ <<current'[d], generation'[current'[d]]>> \in used'[handle'[d]]
             /\ bound'[handle'[d]][Point[current'[d]]] = <<current'[d], generation'[current'[d]]>>
  <2>1. d # c /\ handle'[d] = handle[d] /\ current'[d] = current[d] /\ stale'[d] = stale[d] /\ Live(d)
    BY <1>6 DEF Live
  <2>2. handle[d] \in Handle \ {h}
    BY <1>3, <2>1 DEF CoreTypes, Live
  <2>3. used'[handle[d]] = used[handle[d]] /\ bound'[handle[d]] = bound[handle[d]]
    BY <1>2, <2>2
  <2>. QED BY <1>6, <2>1, <2>3 DEF CurrentInv, pipeVars
<1>7. CurrentInv'
  BY <1>6 DEF CurrentInv
<1>. QED BY <1>5, <1>7 DEF PipelinesInv

\* Secondaries leave the recording and what is recorded, and nothing bound.
LEMMA PipelinesForgotten ==
    ASSUME RecordingInv, NEW c \in Cmd, Live(c), Forgotten(handle[c]),
           UNCHANGED <<handle, current, deps, phase, used, pipeVars>>,
           stale' = [stale EXCEPT ![c] = current[c] # Null]
    PROVE  PipelinesInv'
<1>. USE DEF RecordingInv
<1>1. RecordedInv'
  BY DEF RecordedInv, pipeVars
<1>2. ASSUME NEW d \in Cmd, Live(d), current[d] # Null, ~stale'[d]
      PROVE  ~stale[d] /\ bound'[handle[d]] = bound[handle[d]]
  <2>1. d # c
    BY <1>2 DEF CoreTypes
  <2>2. handle[d] \in Handle /\ handle[d] # handle[c]
    BY <1>2, <2>1 DEF OwnersInv, CoreTypes, Live
  <2>. QED BY <1>2, <2>1, <2>2 DEF Forgotten, CoreTypes
<1>3. CurrentInv'
  BY <1>2 DEF CurrentInv, Live, pipeVars
<1>. QED BY <1>1, <1>3 DEF PipelinesInv

\* A bind records the pipeline at its present generation and refers to it.
LEMMA PipelinesBound ==
    ASSUME RecordingInv, NEW c \in Cmd, NEW p \in Pipeline, bind_pipeline(c, p)
    PROVE  PipelinesInv'
<1>. DEFINE h == handle[c]
            v == <<p, generation[p]>>
            b == Point[p]
<1>. USE DEF RecordingInv
<1>1. /\ h \in Handle /\ h # Null /\ phase[h] # "initial" /\ owner[p] /\ p # Null
      /\ UNCHANGED <<handle, phase, pipeVars>>
  BY PipelineAssumption DEF bind_pipeline, BindWith, Recording, Live, CoreTypes
<1>2. /\ used'[h] = used[h] \cup {v}
      /\ \A g \in Handle \ {h} : used'[g] = used[g]
  BY <1>1 DEF bind_pipeline, BindWith, CoreTypes
<1>3. /\ bound'[h][b] = v
      /\ \A g \in Handle \ {h} : bound'[g] = bound[g]
  <2>1. bound \in [Handle -> [Points -> Version \cup {Null}]] /\ b \in Points
    BY PointAssumption DEF CoreTypes, Points
  <2>2. bound' = [bound EXCEPT ![h][b] = v]
    BY DEF bind_pipeline, BindWith
  <2>. HIDE DEF h, b, v
  <2>. QED BY <1>1, <2>1, <2>2
<1>4. /\ current'[c] = p /\ deps'[c] = deps[c] \cup ({p} \cap Counted)
      /\ \A d \in Cmd \ {c} : current'[d] = current[d] /\ deps'[d] = deps[d] /\ stale'[d] = stale[d]
  BY DEF bind_pipeline, BindWith, CoreTypes
<1>5. \A d \in Cmd \ {c} : handle[d] # h
  BY <1>1 DEF OwnersInv, Live
<1>6. v[1] = p /\ v[2] = generation[p]
  OBVIOUS
<1>. HIDE DEF v
<1>7. ASSUME NEW g \in Handle
      PROVE  /\ phase'[g] = "initial" => used'[g] = {}
             /\ \A w \in used'[g] :
                   /\ w[2] = generation'[w[1]]
                   /\ w[1] \in Counted => \E d \in Cmd : handle'[d] = g /\ w[1] \in deps'[d]
                   /\ w[1] \notin Counted => owner'[w[1]]
  <2>1. phase'[g] = "initial" => used'[g] = {}
    BY <1>1, <1>2 DEF RecordedInv
  <2>2. ASSUME NEW w \in used[g]
        PROVE  /\ w[2] = generation'[w[1]]
               /\ w[1] \in Counted => \E d \in Cmd : handle'[d] = g /\ w[1] \in deps'[d]
               /\ w[1] \notin Counted => owner'[w[1]]
    <3>1. \A d \in Cmd : deps[d] \subseteq deps'[d]
      BY <1>4
    <3>. QED BY <1>1, <3>1 DEF RecordedInv, pipeVars
  <2>3. g = h => /\ v[2] = generation'[v[1]]
                 /\ v[1] \in Counted => \E d \in Cmd : handle'[d] = g /\ v[1] \in deps'[d]
                 /\ v[1] \notin Counted => owner'[v[1]]
    BY <1>1, <1>4, <1>6 DEF pipeVars
  <2>. HIDE DEF h
  <2>. QED BY <1>2, <2>1, <2>2, <2>3
<1>8. RecordedInv'
  BY <1>7 DEF RecordedInv
<1>9. ASSUME NEW d \in Cmd, Live(d), current'[d] # Null, ~stale'[d]
      PROVE  /\ <<current'[d], generation[current'[d]]>> \in used'[handle[d]]
             /\ bound'[handle[d]][Point[current'[d]]] = <<current'[d], generation[current'[d]]>>
  <2>1. CASE d = c
    BY <1>2, <1>3, <1>4, <2>1 DEF v
  <2>2. CASE d # c
    <3>1. handle[d] \in Handle \ {h} /\ current'[d] = current[d] /\ stale'[d] = stale[d]
      BY <1>4, <1>5, <1>9, <2>2 DEF CoreTypes, Live
    <3>2. used'[handle[d]] = used[handle[d]] /\ bound'[handle[d]] = bound[handle[d]]
      BY <1>2, <1>3, <3>1
    <3>. QED BY <1>9, <3>1, <3>2 DEF CurrentInv
  <2>. QED BY <2>1, <2>2
<1>10. CurrentInv'
  BY <1>1, <1>9 DEF CurrentInv, Live, pipeVars
<1>. QED BY <1>8, <1>10 DEF PipelinesInv

\* An uncounted pipeline is dropped when nothing that may run has recorded it.
LEMMA PipelinesDropped ==
    ASSUME RecordingInv, NEW p \in Pipeline, Drop(p)
    PROVE  PipelinesInv'
<1>. USE DEF RecordingInv
<1>1. /\ UNCHANGED <<handle, current, deps, phase, bound, used, generation, stale>>
      /\ \A q \in Pipeline \ {p} : owner'[q] = owner[q]
  BY DEF Drop, objectVars, deviceVars, history, CoreTypes
<1>2. ASSUME NEW g \in Handle, NEW v \in used[g], v[1] \notin Counted
      PROVE  owner'[v[1]]
  <2>1. v \in Version /\ v = <<v[1], v[2]>> /\ v[1] \in Pipeline /\ v[2] \in 1..MaxGeneration
    BY DEF CoreTypes, Version
  <2>2. phase[g] # "initial" /\ owner[v[1]]
    BY <1>2 DEF RecordedInv
  <2>3. CASE v[1] = p
    <3>1. Recorded(p)
      BY <2>1, <2>2, <2>3 DEF Recorded
    <3>. QED BY <1>2, <2>3, <3>1 DEF Drop
  <2>. QED BY <1>1, <2>1, <2>2, <2>3
<1>3. RecordedInv'
  BY <1>1, <1>2 DEF RecordedInv
<1>4. CurrentInv'
  BY <1>1 DEF CurrentInv, Live
<1>. QED BY <1>3, <1>4 DEF PipelinesInv

\* What is recorded exists: a pipeline that the application holds, or a dependency.
LEMMA RecordedExists ==
    ASSUME RecordingInv, NEW h \in Handle, NEW v \in used[h]
    PROVE  Exists(v[1])
  BY DEF RecordingInv, RecordedInv, Exists

\* A pipeline made at a free address is none that was recorded.
LEMMA PipelinesMade ==
    ASSUME RecordingInv, NEW p \in Pipeline, Make(p)
    PROVE  PipelinesInv'
<1>. USE DEF RecordingInv
<1>1. /\ UNCHANGED <<handle, current, deps, phase, bound, used, stale>> /\ ~Exists(p)
      /\ \A q \in Pipeline \ {p} : owner'[q] = owner[q] /\ generation'[q] = generation[q]
  BY DEF Make, objectVars, deviceVars, history, CoreTypes
<1>2. ASSUME NEW g \in Handle, NEW v \in used[g]
      PROVE  v[1] \in Pipeline \ {p}
  BY <1>1, RecordedExists DEF CoreTypes, Version
<1>3. RecordedInv'
  BY <1>1, <1>2 DEF RecordedInv
<1>4. ASSUME NEW d \in Cmd, Live(d), current[d] # Null, ~stale[d]
      PROVE  current[d] \in Pipeline \ {p}
  <2>1. handle[d] \in Handle /\ current[d] \in Pipeline
    BY <1>4 DEF CoreTypes, Live
  <2>2. PICK v \in used[handle[d]] : v[1] = current[d]
    BY <1>4 DEF CurrentInv
  <2>. QED BY <1>2, <2>1, <2>2
<1>5. CurrentInv'
  BY <1>1, <1>4 DEF CurrentInv, Live
<1>. QED BY <1>3, <1>5 DEF PipelinesInv

-----------------------------------------------------------------------------
(* Every step.                                                             *)

Phases == {"initial", "recording", "inside", "executable", "pending"}

\* A step after which only phases differ, of what the invariant speaks of.
LEMMA PhaseStep ==
    ASSUME RecordingInv, UNCHANGED <<handle, primary, current, deps, poolVars, bound, used, pipeVars, stale>>,
           NEW h \in Handle, NEW to \in Phases,
           phase' = [phase EXCEPT ![h] = to] \/ phase' = phase,
           phase' # phase => to # "initial" /\ \E c \in Cmd : handle[c] = h
    PROVE  RecordingInv'
<1>1. \A g \in Handle : phase'[g] = phase[g] \/ (g = h /\ phase'[g] = to /\ phase' # phase)
  BY DEF RecordingInv, CoreTypes
<1>2. OwnersInv'
  BY <1>1, OwnersKept DEF poolVars
<1>3. PipelinesInv'
  BY <1>1, PipelinesKept
<1>4. CoreTypes'
  BY DEF RecordingInv, CoreTypes, poolVars, pipeVars, Phases, Version
<1>. QED BY <1>2, <1>3, <1>4 DEF RecordingInv, PipelinesInv

\* Nothing bound, by types.
LEMMA ForgottenTypes ==
    ASSUME CoreTypes, NEW h \in Handle, Forgotten(h)
    PROVE  bound' \in [Handle -> [Points -> Version \cup {Null}]]
<1>. DEFINE none == [b \in Points |-> Null]
<1>1. none \in [Points -> Version \cup {Null}] /\ bound' = [bound EXCEPT ![h] = none]
  BY DEF Forgotten
<1>. HIDE DEF none
<1>. QED BY <1>1 DEF CoreTypes

\* vkResetCommandBuffer, by types.
LEMMA ResetTypes ==
    ASSUME CoreTypes, NEW h \in Handle, DeviceReset(h)
    PROVE  /\ phase' \in [Handle -> Phases]
           /\ \A g \in Handle : g # h => phase'[g] = phase[g]
           /\ Forgotten(h) /\ used' = [used EXCEPT ![h] = {}]
           /\ bound' \in [Handle -> [Points -> Version \cup {Null}]]
           /\ used' \in [Handle -> SUBSET Version]
  BY ForgottenTypes DEF CoreTypes, DeviceReset, Phases

\* Every step of a CommandBuffer, of the device and of the application keeps
\* buffers owned and what they recorded alive.
LEMMA StepKeepsRecording ==
    ASSUME RecordingInv, [Next]_vars
    PROVE  RecordingInv'
<1>. USE DEF objectVars, poolVars, deviceVars, pipeVars, history
<1>a. CoreTypes
  BY DEF RecordingInv
<1>b. \A c \in Cmd : Live(c) => handle[c] \in Handle
  BY <1>a DEF CoreTypes, Live
<1>c. RecordingInv' <=> CoreTypes' /\ OwnersInv' /\ PipelinesInv'
  BY DEF RecordingInv, PipelinesInv
<1>1. CASE UNCHANGED vars
  <2>1. OwnersInv' /\ PipelinesInv'
    BY <1>1, OwnersKept, PipelinesKept DEF vars
  <2>2. CoreTypes'
    BY <1>1, <1>a DEF vars, CoreTypes, Version
  <2>. QED BY <1>c, <2>1, <2>2
<1>2. ASSUME NEW c \in Cmd, NEW l \in Levels, AllocateRecycled(c, l) PROVE RecordingInv'
  <2>1. /\ recycled[l] # <<>> /\ ~Live(c) /\ Wrap(c, Head(recycled[l]), l) /\ UNCHANGED <<made, deviceVars, pipeVars>>
        /\ recycled' = [recycled EXCEPT ![l] = Tail(@)]
    BY <1>2 DEF AllocateRecycled
  <2>2. Head(recycled[l]) \in Handle /\ recycled' \in [Levels -> Seq(Handle)]
    BY <1>a, <2>1, FirstRecycled DEF CoreTypes
  <2>3. CoreTypes'
    BY <1>a, <2>1, <2>2, Wrapped DEF CoreTypes, Version
  <2>. QED BY <1>2, <1>c, <2>1, <2>2, <2>3, RecycledOwned, PipelinesAllocated
<1>3. ASSUME NEW c \in Cmd, NEW l \in Levels, AllocateNew(c, l) PROVE RecordingInv'
  <2>1. PICK h \in Handle : made' = [made EXCEPT ![h] = l] /\ Wrap(c, h, l)
    BY <1>3 DEF AllocateNew
  <2>2. ~Live(c) /\ UNCHANGED <<recycled, deviceVars, pipeVars>>
    BY <1>3 DEF AllocateNew
  <2>3. CoreTypes'
    BY <1>a, <2>1, <2>2, Wrapped DEF CoreTypes, Version
  <2>. QED BY <1>3, <1>c, <2>1, <2>2, <2>3, NewOwned, PipelinesAllocated
<1>4. ASSUME NEW c \in Cmd, NEW inPass \in BOOLEAN, BeginFresh(c, inPass) PROVE RecordingInv'
  BY <1>4, <1>b, PhaseStep DEF BeginFresh, Begin, Phases
<1>17. ASSUME NEW c \in Cmd, NEW inPass \in BOOLEAN, BeginAgain(c, inPass) PROVE RecordingInv'
  <2>1. /\ Live(c) /\ handle[c] \in Handle /\ Forgotten(handle[c])
        /\ UNCHANGED <<handle, primary, current, deps, recycled, made, pipeVars>>
        /\ phase' = [phase EXCEPT ![handle[c]] = "recording"]
        /\ used' = [used EXCEPT ![handle[c]] = {}]
        /\ stale' = [stale EXCEPT ![c] = current[c] # Null]
    BY <1>17, <1>b DEF BeginAgain, Begin
  <2>2. OwnersInv'
    BY <1>a, <2>1, OwnersKept DEF CoreTypes
  <2>3. PipelinesInv'
    BY <1>a, <2>1, PipelinesReset DEF CoreTypes
  <2>4. CoreTypes'
    BY <1>a, <2>1, ForgottenTypes DEF CoreTypes, Version
  <2>. QED BY <1>c, <2>2, <2>3, <2>4
<1>5. ASSUME NEW c \in Cmd, End(c) PROVE RecordingInv'
  BY <1>5, <1>b, PhaseStep DEF End, Phases
<1>6. ASSUME NEW c \in Cmd, Reset(c) PROVE RecordingInv'
  <2>1. /\ Live(c) /\ handle[c] \in Handle /\ DeviceReset(handle[c]) /\ UNCHANGED <<handle, primary, recycled, made, pipeVars>>
        /\ current' = [current EXCEPT ![c] = Null] /\ deps' = [deps EXCEPT ![c] = {}]
        /\ stale' = [stale EXCEPT ![c] = FALSE]
    BY <1>6, <1>b DEF Reset
  <2>2. OwnersInv'
    BY <1>a, <2>1, OwnersKept DEF DeviceReset, CoreTypes
  <2>3. PipelinesInv'
    BY <1>a, <2>1, ResetTypes, PipelinesReset DEF CoreTypes
  <2>4. CoreTypes'
    BY <1>a, <2>1, ResetTypes DEF CoreTypes, Version, Phases
  <2>. QED BY <1>c, <2>2, <2>3, <2>4
<1>7. ASSUME NEW c \in Cmd, Destroy(c) PROVE RecordingInv'
  <2>1. /\ Live(c) /\ handle[c] \in Handle /\ DeviceReset(handle[c]) /\ UNCHANGED <<made, pipeVars>>
        /\ Wrap(c, Null, Level(c)) /\ Level(c) \in Levels
        /\ recycled' = [recycled EXCEPT ![Level(c)] = Append(@, handle[c])]
    BY <1>7, <1>b DEF Destroy, Level, Levels
  <2>2. PipelinesInv'
    BY <1>a, <2>1, Wrapped, ResetTypes, PipelinesReset
  <2>3. recycled' \in [Levels -> Seq(Handle)]
    BY <1>a, <2>1, LastRecycled
  <2>4. CoreTypes'
    BY <1>a, <2>1, <2>3, ResetTypes, Wrapped DEF CoreTypes, Version, Phases
  <2>. QED BY <1>7, <1>c, <2>2, <2>4, DestroyOwned
<1>8. ASSUME NEW c \in Cmd, Submit(c) PROVE RecordingInv'
  BY <1>8, <1>b, PhaseStep DEF Submit, Phases
<1>9. ASSUME NEW c \in Cmd, cmd_begin_renderpass(c) \/ cmd_end_renderpass(c) PROVE RecordingInv'
  BY <1>9, <1>b, PhaseStep DEF cmd_begin_renderpass, cmd_end_renderpass, Boundary, Phases
<1>10. ASSUME NEW c \in Cmd, cmd_next_subpass(c) PROVE RecordingInv'
  BY <1>10, <1>b, PhaseStep DEF cmd_next_subpass, Phases
<1>11. ASSUME NEW c \in Cmd, NEW p \in Pipeline, bind_pipeline(c, p) PROVE RecordingInv'
  <2>1. /\ UNCHANGED <<handle, primary, recycled, made, phase, pipeVars>> /\ handle[c] \in Handle
        /\ current' = [current EXCEPT ![c] = p] /\ deps' = [deps EXCEPT ![c] = @ \cup ({p} \cap Counted)]
        /\ stale' = [stale EXCEPT ![c] = FALSE]
    BY <1>11, <1>b DEF bind_pipeline, BindWith, Recording
  <2>2. <<p, generation[p]>> \in Version /\ Point[p] \in Points
    BY <1>a, PointAssumption DEF CoreTypes, Version, Points
  <2>3. bound' \in [Handle -> [Points -> Version \cup {Null}]] /\ used' \in [Handle -> SUBSET Version]
    <3>. DEFINE v == <<p, generation[p]>>
                h == handle[c]
    <3>1. bound' = [bound EXCEPT ![h][Point[p]] = v] /\ used' = [used EXCEPT ![h] = @ \cup {v}]
      BY <1>11 DEF bind_pipeline, BindWith
    <3>2. v \in Version /\ h \in Handle
      BY <2>1, <2>2
    <3>. HIDE DEF v, h
    <3>. QED BY <1>a, <2>2, <3>1, <3>2 DEF CoreTypes
  <2>4. CoreTypes'
    BY <1>a, <2>1, <2>3 DEF CoreTypes, Version
  <2>5. OwnersInv'
    BY <2>1, OwnersKept
  <2>. QED BY <1>11, <1>c, <2>4, <2>5, PipelinesBound
<1>12. ASSUME NEW c \in Cmd, NEW i \in Index, NEW s \in Set, bind_descriptor_set(c, i, s) PROVE RecordingInv'
  BY <1>12, <1>b, PhaseStep DEF bind_descriptor_set, Recording, Phases
<1>13. ASSUME NEW c \in Cmd, NEW d \in Cmd, execute_secondaries(c, d) PROVE RecordingInv'
  <2>1. /\ Live(c) /\ handle[c] \in Handle /\ Forgotten(handle[c])
        /\ UNCHANGED <<handle, primary, current, deps, recycled, made, phase, used, pipeVars>>
        /\ stale' = [stale EXCEPT ![c] = current[c] # Null]
    BY <1>13, <1>b DEF execute_secondaries, Recording
  <2>2. OwnersInv'
    BY <2>1, OwnersKept
  <2>3. PipelinesInv'
    BY <2>1, PipelinesForgotten
  <2>4. CoreTypes'
    BY <1>a, <2>1, ForgottenTypes DEF CoreTypes, Version
  <2>. QED BY <1>c, <2>2, <2>3, <2>4
<1>14. ASSUME NEW h \in Handle, Complete(h) PROVE RecordingInv'
  <2>1. \A g \in Handle : phase'[g] = "initial" <=> phase[g] = "initial"
    BY <1>14, <1>a DEF Complete, CoreTypes
  <2>2. OwnersInv' /\ PipelinesInv'
    BY <1>14, <2>1, OwnersKept, PipelinesKept DEF Complete
  <2>3. CoreTypes'
    BY <1>14, <1>a DEF Complete, CoreTypes, Version
  <2>. QED BY <1>c, <2>2, <2>3
<1>15. ASSUME NEW p \in Pipeline, Drop(p) PROVE RecordingInv'
  <2>1. OwnersInv'
    BY <1>15, OwnersKept DEF Drop
  <2>2. CoreTypes'
    BY <1>15, <1>a DEF Drop, CoreTypes, Version
  <2>. QED BY <1>15, <1>c, <2>1, <2>2, PipelinesDropped
<1>16. ASSUME NEW p \in Pipeline, Make(p) PROVE RecordingInv'
  <2>1. OwnersInv'
    BY <1>16, OwnersKept DEF Make
  <2>2. CoreTypes'
    BY <1>16, <1>a, BoundAssumption DEF Make, CoreTypes, Version
  <2>. QED BY <1>16, <1>c, <2>1, <2>2, PipelinesMade
<1>. QED
  BY <1>1, <1>2, <1>3, <1>4, <1>5, <1>6, <1>7, <1>8, <1>9, <1>10, <1>11, <1>12, <1>13, <1>14, <1>15, <1>16, <1>17 DEF Next

\* Nothing is recorded at first.
LEMMA InitRecording == Init => RecordingInv
<1>. SUFFICES ASSUME Init PROVE RecordingInv
  OBVIOUS
<1>1. /\ handle = [c \in Cmd |-> Null] /\ made = [h \in Handle |-> Null]
      /\ recycled = [l \in Levels |-> <<>>]
      /\ phase = [h \in Handle |-> "initial"] /\ used = [h \in Handle |-> {}]
  BY DEF Init
<1>2. CoreTypes
  <2>1. primary \in [Cmd -> BOOLEAN] /\ owner \in [Pipeline -> BOOLEAN] /\ stale \in [Cmd -> BOOLEAN]
    BY Zenon DEF Init
  <2>2. bound \in [Handle -> [Points -> Version \cup {Null}]]
    BY DEF Init
  <2>3. recycled \in [Levels -> Seq(Handle)]
    BY <1>1
  <2>4. generation \in [Pipeline -> 1..MaxGeneration]
    BY BoundAssumption DEF Init
  <2>5. /\ current \in [Cmd -> Pipeline \cup {Null}] /\ deps \in [Cmd -> SUBSET Counted]
    BY DEF Init
  <2>. QED BY <1>1, <2>1, <2>2, <2>3, <2>4, <2>5 DEF CoreTypes
<1>3. OwnersInv /\ RecordedInv /\ CurrentInv
  BY <1>1 DEF OwnersInv, RecordedInv, CurrentInv, Live
<1>. QED BY <1>2, <1>3 DEF RecordingInv

\* bind_pipeline may skip the pipeline it bound last: the device still has
\* that very pipeline bound, and not another made at its address, unless
\* secondaries were executed or the buffer was begun again since.
THEOREM SkippingIsSound == Spec => []SkipIsSound
<1>1. RecordingInv => SkipIsSound
  BY DEF RecordingInv, CurrentInv, SkipIsSound
<1>. QED BY <1>1, InitRecording, StepKeepsRecording, PTL DEF Spec

\* What a buffer recorded exists until the buffer is reset, whatever the
\* application has dropped meanwhile (m_dependent_resources).
THEOREM RecordedLives == Spec => []UsedExists
<1>1. RecordingInv => UsedExists
  BY RecordedExists DEF RecordingInv, RecordedInv, UsedExists
<1>. QED BY <1>1, InitRecording, StepKeepsRecording, PTL DEF Spec
-----------------------------------------------------------------------------
(* The places and the levels of the Vulkan buffers.                        *)

\* A buffer has the level of its CommandBuffer or of its queue, and none is lost.
PlacesInv ==
    /\ \A c \in Cmd : Live(c) => made[handle[c]] = Level(c)
    /\ \A l \in Levels : \A i \in DOMAIN recycled[l] : made[recycled[l][i]] = l
    /\ \A h \in Handle : made[h] # Null =>
          \/ \E c \in Cmd : handle[c] = h
          \/ \E l \in Levels : \E i \in DOMAIN recycled[l] : recycled[l][i] = h

\* The handles and the queues change when a CommandBuffer is made or destroyed only.
LEMMA PlacesKept ==
    ASSUME PlacesInv, UNCHANGED <<handle, primary, recycled, made>>
    PROVE  PlacesInv'
  BY DEF PlacesInv, Live, Level

\* The level of a CommandBuffer that is made.
LEMMA WrappedLevel ==
    ASSUME CoreTypes, NEW c \in Cmd, NEW h \in Handle \cup {Null}, NEW l \in Levels, Wrap(c, h, l)
    PROVE  /\ Level(c)' = l
           /\ \A d \in Cmd \ {c} : Level(d)' = Level(d)
<1>1. primary \in [Cmd -> BOOLEAN] /\ primary' = [primary EXCEPT ![c] = (l = "primary")]
  BY Zenon DEF CoreTypes, Wrap
<1>2. /\ primary'[c] <=> l = "primary"
      /\ \A d \in Cmd \ {c} : primary'[d] = primary[d]
  BY <1>1
<1>. QED BY <1>2 DEF Level, Levels

\* A recycled buffer goes to a CommandBuffer of its level.
LEMMA RecycledPlaced ==
    ASSUME RecordingInv, PlacesInv, NEW c \in Cmd, NEW l \in Levels, AllocateRecycled(c, l)
    PROVE  PlacesInv'
<1>. DEFINE h == recycled[l][1]
<1>. USE DEF RecordingInv
<1>1. /\ recycled[l] # <<>> /\ ~Live(c) /\ recycled' = [recycled EXCEPT ![l] = Tail(@)] /\ made' = made
  BY DEF AllocateRecycled
<1>2. h = Head(recycled[l]) /\ 1 \in DOMAIN recycled[l] /\ h \in Handle /\ h # Null
  BY <1>1, FirstRecycled, PipelineAssumption DEF CoreTypes
<1>3. /\ handle'[c] = h /\ Level(c)' = l
      /\ \A d \in Cmd \ {c} : handle'[d] = handle[d] /\ Level(d)' = Level(d)
  <2>1. Wrap(c, h, l)
    BY <1>2 DEF AllocateRecycled
  <2>. QED BY <1>2, <2>1, Wrapped, WrappedLevel
<1>4. /\ \A i \in DOMAIN recycled'[l] : i + 1 \in DOMAIN recycled[l] /\ recycled'[l][i] = recycled[l][i + 1]
      /\ \A k \in Levels \ {l} : recycled'[k] = recycled[k]
  BY <1>1, FirstRecycled
<1>5. \A i \in DOMAIN recycled[l] : i = 1 \/ \E j \in DOMAIN recycled'[l] : recycled'[l][j] = recycled[l][i]
  <2>. DEFINE q == recycled[l]
  <2>1. q \in Seq(Handle) /\ q # <<>> /\ recycled'[l] = Tail(q)
    BY <1>1 DEF CoreTypes
  <2>. HIDE DEF q
  <2>2. ASSUME NEW i \in DOMAIN q, i # 1 PROVE i - 1 \in DOMAIN Tail(q) /\ Tail(q)[i - 1] = q[i]
    BY <2>1, <2>2
  <2>. QED BY <2>1, <2>2 DEF q
<1>6. made[h] = l
  BY <1>2 DEF PlacesInv
<1>. HIDE DEF h
<1>7. \A d \in Cmd : Live(d)' => made'[handle'[d]] = Level(d)'
  BY <1>1, <1>3, <1>6 DEF PlacesInv, Live
<1>8. \A k \in Levels : \A i \in DOMAIN recycled'[k] : made'[recycled'[k][i]] = k
  BY <1>1, <1>4 DEF PlacesInv
<1>9. ASSUME NEW g \in Handle, made'[g] # Null
      PROVE  \/ \E d \in Cmd : handle'[d] = g
             \/ \E k \in Levels : \E i \in DOMAIN recycled'[k] : recycled'[k][i] = g
  <2>1. CASE \E d \in Cmd : handle[d] = g
    <3>1. PICK d \in Cmd : handle[d] = g
      BY <2>1
    <3>2. d # c
      BY <1>1, <3>1, PipelineAssumption DEF Live
    <3>. QED BY <1>3, <3>1, <3>2
  <2>2. CASE \E k \in Levels : \E i \in DOMAIN recycled[k] : recycled[k][i] = g
    <3>1. PICK k \in Levels : \E i \in DOMAIN recycled[k] : recycled[k][i] = g
      BY <2>2
    <3>2. CASE k # l
      BY <1>4, <3>1, <3>2
    <3>3. CASE k = l
      BY <1>3, <1>5, <3>1, <3>3 DEF h
    <3>. QED BY <3>2, <3>3
  <2>. QED BY <1>1, <1>9, <2>1, <2>2 DEF PlacesInv
<1>. QED BY <1>7, <1>8, <1>9 DEF PlacesInv

\* A new buffer goes to the CommandBuffer it is made for.
LEMMA NewPlaced ==
    ASSUME RecordingInv, PlacesInv, NEW c \in Cmd, NEW l \in Levels, AllocateNew(c, l)
    PROVE  PlacesInv'
<1>. USE DEF RecordingInv
<1>1. PICK h \in Handle : made[h] = Null /\ made' = [made EXCEPT ![h] = l] /\ Wrap(c, h, l)
  BY DEF AllocateNew
<1>2. ~Live(c) /\ recycled' = recycled /\ h # Null /\ l # Null
  BY PipelineAssumption, BoundAssumption DEF AllocateNew, Levels
<1>3. /\ handle'[c] = h /\ Level(c)' = l
      /\ \A d \in Cmd \ {c} : handle'[d] = handle[d] /\ Level(d)' = Level(d)
  BY <1>1, Wrapped, WrappedLevel
<1>4. made'[h] = l /\ \A g \in Handle \ {h} : made'[g] = made[g]
  BY <1>1 DEF CoreTypes
<1>5. /\ \A d \in Cmd : handle[d] # h
      /\ \A k \in Levels : \A i \in DOMAIN recycled[k] : recycled[k][i] \in Handle \ {h}
  BY <1>1, <1>2 DEF OwnersInv, Live, CoreTypes
<1>6. \A d \in Cmd : Live(d)' => made'[handle'[d]] = Level(d)'
  <2>1. \A d \in Cmd \ {c} : Live(d)' => handle[d] \in Handle \ {h} /\ Live(d)
    BY <1>3, <1>5 DEF CoreTypes, Live
  <2>. QED BY <1>3, <1>4, <2>1 DEF PlacesInv
<1>7. \A k \in Levels : \A i \in DOMAIN recycled'[k] : made'[recycled'[k][i]] = k
  BY <1>2, <1>4, <1>5 DEF PlacesInv
<1>8. ASSUME NEW g \in Handle, made'[g] # Null
      PROVE  \/ \E d \in Cmd : handle'[d] = g
             \/ \E k \in Levels : \E i \in DOMAIN recycled'[k] : recycled'[k][i] = g
  <2>1. CASE g = h
    BY <1>3, <2>1
  <2>2. CASE g # h
    <3>1. made[g] # Null
      BY <1>4, <1>8, <2>2
    <3>2. \A d \in Cmd : handle[d] = g => d # c
      BY <1>2, PipelineAssumption DEF Live
    <3>. QED BY <1>2, <1>3, <3>1, <3>2 DEF PlacesInv
  <2>. QED BY <2>1, <2>2
<1>. QED BY <1>6, <1>7, <1>8 DEF PlacesInv

\* A buffer is recycled at its level.
LEMMA DestroyPlaced ==
    ASSUME RecordingInv, PlacesInv, NEW c \in Cmd, Destroy(c)
    PROVE  PlacesInv'
<1>. DEFINE h == handle[c]
            l == Level(c)
<1>. USE DEF RecordingInv
<1>1. /\ h \in Handle /\ h # Null /\ l \in Levels /\ made' = made /\ made[h] = l
      /\ recycled' = [recycled EXCEPT ![l] = Append(@, h)]
      /\ Wrap(c, Null, l)
  BY PipelineAssumption DEF Destroy, Live, CoreTypes, Level, Levels, PlacesInv
<1>2. /\ handle'[c] = Null
      /\ \A d \in Cmd \ {c} : handle'[d] = handle[d] /\ Level(d)' = Level(d)
  BY <1>1, Wrapped, WrappedLevel
<1>. HIDE DEF h, l
<1>3. \A k \in Levels : \A i \in DOMAIN recycled'[k] :
          \/ i \in DOMAIN recycled[k] /\ recycled'[k][i] = recycled[k][i]
          \/ k = l /\ recycled'[k][i] = h
  BY <1>1, LastRecycled
<1>4. /\ \A k \in Levels : \A i \in DOMAIN recycled[k] : i \in DOMAIN recycled'[k] /\ recycled'[k][i] = recycled[k][i]
      /\ \E i \in DOMAIN recycled'[l] : recycled'[l][i] = h
  <2>. DEFINE q == recycled[l]
  <2>1. q \in Seq(Handle) /\ recycled'[l] = Append(q, h) /\ \A k \in Levels \ {l} : recycled'[k] = recycled[k]
    BY <1>1 DEF CoreTypes
  <2>. HIDE DEF q
  <2>2. /\ \A i \in DOMAIN q : i \in DOMAIN Append(q, h) /\ Append(q, h)[i] = q[i]
        /\ Len(q) + 1 \in DOMAIN Append(q, h) /\ Append(q, h)[Len(q) + 1] = h
    BY <1>1, <2>1
  <2>. QED BY <2>1, <2>2 DEF q
<1>5. \A d \in Cmd : Live(d)' => made'[handle'[d]] = Level(d)'
  BY <1>1, <1>2 DEF PlacesInv, Live
<1>6. \A k \in Levels : \A i \in DOMAIN recycled'[k] : made'[recycled'[k][i]] = k
  BY <1>1, <1>3 DEF PlacesInv
<1>7. ASSUME NEW g \in Handle, made'[g] # Null
      PROVE  \/ \E d \in Cmd : handle'[d] = g
             \/ \E k \in Levels : \E i \in DOMAIN recycled'[k] : recycled'[k][i] = g
  <2>1. CASE g = h
    BY <1>1, <1>4, <2>1
  <2>2. CASE g # h
    <3>1. made[g] # Null /\ \A d \in Cmd : handle[d] = g => d # c
      BY <1>1, <1>7, <2>2 DEF h
    <3>. QED BY <1>2, <1>4, <3>1 DEF PlacesInv
  <2>. QED BY <2>1, <2>2
<1>. QED BY <1>5, <1>6, <1>7 DEF PlacesInv

\* Every step.
LEMMA StepKeepsPlaces ==
    ASSUME RecordingInv, PlacesInv, [Next]_vars
    PROVE  PlacesInv'
<1>. USE DEF objectVars, poolVars, deviceVars, pipeVars, history
<1>1. CASE UNCHANGED vars
  BY <1>1, PlacesKept DEF vars
<1>2. ASSUME NEW c \in Cmd, NEW l \in Levels, AllocateRecycled(c, l) PROVE PlacesInv'
  BY <1>2, RecycledPlaced
<1>3. ASSUME NEW c \in Cmd, NEW l \in Levels, AllocateNew(c, l) PROVE PlacesInv'
  BY <1>3, NewPlaced
<1>4. ASSUME NEW c \in Cmd, NEW inPass \in BOOLEAN, BeginFresh(c, inPass) \/ BeginAgain(c, inPass)
      PROVE  PlacesInv'
  BY <1>4, PlacesKept DEF BeginFresh, BeginAgain, Begin
<1>5. ASSUME NEW c \in Cmd, End(c) PROVE PlacesInv'
  BY <1>5, PlacesKept DEF End
<1>6. ASSUME NEW c \in Cmd, Reset(c) PROVE PlacesInv'
  BY <1>6, PlacesKept DEF Reset
<1>7. ASSUME NEW c \in Cmd, Destroy(c) PROVE PlacesInv'
  BY <1>7, DestroyPlaced
<1>8. ASSUME NEW c \in Cmd, Submit(c) PROVE PlacesInv'
  BY <1>8, PlacesKept DEF Submit
<1>9. ASSUME NEW c \in Cmd, cmd_begin_renderpass(c) \/ cmd_end_renderpass(c) PROVE PlacesInv'
  BY <1>9, PlacesKept DEF cmd_begin_renderpass, cmd_end_renderpass, Boundary
<1>10. ASSUME NEW c \in Cmd, cmd_next_subpass(c) PROVE PlacesInv'
  BY <1>10, PlacesKept DEF cmd_next_subpass
<1>11. ASSUME NEW c \in Cmd, NEW p \in Pipeline, bind_pipeline(c, p) PROVE PlacesInv'
  BY <1>11, PlacesKept DEF bind_pipeline, BindWith
<1>12. ASSUME NEW c \in Cmd, NEW i \in Index, NEW s \in Set, bind_descriptor_set(c, i, s) PROVE PlacesInv'
  BY <1>12, PlacesKept DEF bind_descriptor_set
<1>13. ASSUME NEW c \in Cmd, NEW d \in Cmd, execute_secondaries(c, d) PROVE PlacesInv'
  BY <1>13, PlacesKept DEF execute_secondaries
<1>14. ASSUME NEW h \in Handle, Complete(h) PROVE PlacesInv'
  BY <1>14, PlacesKept DEF Complete
<1>15. ASSUME NEW p \in Pipeline, Drop(p) PROVE PlacesInv'
  BY <1>15, PlacesKept DEF Drop
<1>16. ASSUME NEW p \in Pipeline, Make(p) PROVE PlacesInv'
  BY <1>16, PlacesKept DEF Make
<1>. QED
  BY <1>1, <1>2, <1>3, <1>4, <1>5, <1>6, <1>7, <1>8, <1>9, <1>10, <1>11, <1>12, <1>13, <1>14, <1>15, <1>16 DEF Next

-----------------------------------------------------------------------------
(* The descriptor sets.                                                    *)

Pairs == Seq(Index \X Set)
Slots == [Index -> Set \cup {Null}]

\* The types of what descriptor sets rest on, and of what is left.
SetTypes ==
    /\ point \in [Cmd -> Points]
    /\ postponed \in [Cmd -> Pairs]
    /\ \A c \in Cmd : Len(postponed[c]) <= MaxPostponed
    /\ device \in [Handle -> [Points -> Slots]]
    /\ secondaries \in [Handle -> SUBSET Handle]
    /\ asked \in [Cmd -> Slots]

\* What one CommandBuffer asked for: nothing before it records, and a set is
\* postponed only while no pipeline is bound; then the last one postponed at
\* an index is the last one asked for.
SetsAt(c) ==
    /\ Live(c) /\ phase[handle[c]] = "initial" => asked[c] = NoSets
    /\ current[c] # Null => postponed[c] = <<>>
    /\ \A i \in Index : asked[c][i] # Null =>
          IF current[c] # Null THEN Live(c) /\ device[handle[c]][point[c]][i] = asked[c][i]
          ELSE \E n \in LastOf(i, postponed[c]) : postponed[c][n][2] = asked[c][i]

SetsInv == \A c \in Cmd : SetsAt(c)

\* Of the pairs of an index one is the last.
LEMMA OneLast ==
    ASSUME NEW pairs \in Pairs, NEW i \in Index, NEW m \in LastOf(i, pairs), NEW n \in LastOf(i, pairs)
    PROVE  m = n
<1>1. /\ m \in DOMAIN pairs /\ n \in DOMAIN pairs /\ pairs[m][1] = i /\ pairs[n][1] = i
      /\ \A k \in DOMAIN pairs : (k > m => pairs[k][1] # i) /\ (k > n => pairs[k][1] # i)
  BY DEF LastOf
<1>2. m \in Nat /\ n \in Nat
  BY <1>1 DEF Pairs
<1>3. ~(m > n) /\ ~(n > m)
  BY <1>1
<1>. QED BY <1>2, <1>3

\* What the device has bound after the pairs, at one point of one buffer.
LEMMA BoundSets ==
    ASSUME SetTypes, NEW h \in Handle, NEW b \in Points, NEW pairs \in Pairs, device' = Bindings(h, b, pairs)
    PROVE  /\ device' \in [Handle -> [Points -> Slots]]
           /\ \A g \in Handle \ {h} : device'[g] = device[g]
           /\ \A i \in Index : LastOf(i, pairs) = {} => device'[h][b][i] = device[h][b][i]
           /\ \A i \in Index : \A n \in LastOf(i, pairs) : device'[h][b][i] = pairs[n][2]
<1>. DEFINE At(i) == IF LastOf(i, pairs) = {} THEN device[h][b][i]
                     ELSE pairs[CHOOSE n \in LastOf(i, pairs) : TRUE][2]
            row == [i \in Index |-> At(i)]
<1>1. device' = [device EXCEPT ![h][b] = row]
  BY Zenon DEF Bindings
<1>2. ASSUME NEW i \in Index PROVE At(i) \in Set \cup {Null}
  <2>1. CASE LastOf(i, pairs) = {}
    <3>1. device[h][b][i] \in Set \cup {Null}
      BY DEF SetTypes, Slots
    <3>. QED BY <2>1, <3>1
  <2>2. CASE LastOf(i, pairs) # {}
    <3>1. PICK n \in LastOf(i, pairs) : n = CHOOSE m \in LastOf(i, pairs) : TRUE
      BY <2>2
    <3>2. n \in DOMAIN pairs
      BY DEF LastOf
    <3>3. pairs[n][2] \in Set
      BY <3>2 DEF Pairs
    <3>. QED BY <2>2, <3>1, <3>3
  <2>. QED BY <2>1, <2>2
<1>3. row \in Slots
  BY <1>2 DEF Slots
<1>4. \A i \in Index : row[i] = At(i)
  OBVIOUS
<1>5. \A i \in Index : LastOf(i, pairs) = {} => At(i) = device[h][b][i]
  OBVIOUS
<1>6. ASSUME NEW i \in Index, NEW n \in LastOf(i, pairs) PROVE At(i) = pairs[n][2]
  <2>1. (CHOOSE m \in LastOf(i, pairs) : TRUE) \in LastOf(i, pairs)
    BY <1>6
  <2>2. (CHOOSE m \in LastOf(i, pairs) : TRUE) = n
    BY <1>6, <2>1, OneLast
  <2>. QED BY <1>6, <2>2
<1>. HIDE DEF At, row
<1>7. device \in [Handle -> [Points -> Slots]]
  BY DEF SetTypes
<1>8. device' \in [Handle -> [Points -> Slots]] /\ device'[h][b] = row /\ \A g \in Handle \ {h} : device'[g] = device[g]
  BY <1>1, <1>3, <1>7
<1>. QED BY <1>4, <1>5, <1>6, <1>8

\* A CommandBuffer that nothing is asked of.
LEMMA NothingAsked ==
    ASSUME NEW c \in Cmd, asked'[c] = NoSets, current'[c] # Null => postponed'[c] = <<>>
    PROVE  SetsAt(c)'
<1>1. \A i \in Index : asked'[c][i] = Null
  BY DEF NoSets
<1>. QED BY <1>1 DEF SetsAt

\* A step of one CommandBuffer, or of none.
LEMMA SetsOfOne ==
    ASSUME RecordingInv, SetsInv, NEW c \in Cmd, SetsAt(c)',
           \A d \in Cmd \ {c} : /\ handle'[d] = handle[d] /\ current'[d] = current[d] /\ point'[d] = point[d]
                                /\ postponed'[d] = postponed[d] /\ asked'[d] = asked[d],
           \A g \in Handle : g # handle[c] => device'[g] = device[g] /\ (phase'[g] = "initial" => phase[g] = "initial")
    PROVE  SetsInv'
<1>1. ASSUME NEW d \in Cmd, d # c PROVE SetsAt(d)'
  <2>1. /\ handle'[d] = handle[d] /\ current'[d] = current[d] /\ point'[d] = point[d]
        /\ postponed'[d] = postponed[d] /\ asked'[d] = asked[d] /\ SetsAt(d)
    BY <1>1 DEF SetsInv
  <2>2. CASE Live(d)
    <3>1. handle[d] \in Handle /\ handle[d] # handle[c]
      BY <1>1, <2>2 DEF RecordingInv, CoreTypes, OwnersInv, Live
    <3>2. device'[handle[d]] = device[handle[d]] /\ (phase'[handle[d]] = "initial" => phase[handle[d]] = "initial")
      BY <3>1
    <3>. QED BY <2>1, <2>2, <3>2 DEF SetsAt, Live
  <2>3. CASE ~Live(d)
    BY <2>1, <2>3 DEF SetsAt, Live
  <2>. QED BY <2>2, <2>3
<1>. QED BY <1>1 DEF SetsInv

LEMMA SetsKept ==
    ASSUME RecordingInv, SetsInv, UNCHANGED <<handle, current, point, postponed, asked, device>>,
           \A g \in Handle : phase'[g] = "initial" => phase[g] = "initial"
    PROVE  SetsInv'
<1>1. ASSUME NEW d \in Cmd PROVE SetsAt(d)'
  <2>1. SetsAt(d) /\ (Live(d) => handle[d] \in Handle)
    BY DEF SetsInv, RecordingInv, CoreTypes, Live
  <2>. QED BY <2>1 DEF SetsAt, Live
<1>. QED BY <1>1 DEF SetsInv

\* The postponed sets follow the pipeline.
LEMMA PipelineSets ==
    ASSUME RecordingInv, SetTypes, SetsInv, NEW c \in Cmd, NEW p \in Pipeline, bind_pipeline(c, p)
    PROVE  SetsInv'
<1>. DEFINE h == handle[c]
            pairs == postponed[c]
<1>1. /\ h \in Handle /\ h # Null /\ phase[h] # "initial" /\ p # Null /\ pairs \in Pairs /\ point[c] \in Points
      /\ UNCHANGED <<handle, phase, point, asked>>
      /\ device' = Bindings(h, point[c], pairs)
  BY PipelineAssumption DEF bind_pipeline, BindWith, Recording, Live, RecordingInv, CoreTypes, SetTypes
<1>2. /\ current'[c] = p /\ postponed'[c] = <<>>
      /\ \A d \in Cmd \ {c} : current'[d] = current[d] /\ postponed'[d] = postponed[d]
  BY DEF bind_pipeline, BindWith, RecordingInv, CoreTypes, SetTypes
<1>3. /\ \A g \in Handle \ {h} : device'[g] = device[g]
      /\ \A i \in Index : LastOf(i, pairs) = {} => device'[h][point[c]][i] = device[h][point[c]][i]
      /\ \A i \in Index : \A n \in LastOf(i, pairs) : device'[h][point[c]][i] = pairs[n][2]
  BY <1>1, BoundSets
<1>4. SetsAt(c)
  BY DEF SetsInv
<1>5. ASSUME NEW i \in Index, asked[c][i] # Null PROVE device'[h][point[c]][i] = asked[c][i]
  <2>1. CASE current[c] = Null
    <3>1. PICK n \in LastOf(i, pairs) : pairs[n][2] = asked[c][i]
      BY <1>4, <1>5, <2>1 DEF SetsAt
    <3>. QED BY <1>3, <3>1
  <2>2. CASE current[c] # Null
    <3>1. pairs = <<>> /\ device[h][point[c]][i] = asked[c][i]
      BY <1>4, <1>5, <2>2 DEF SetsAt
    <3>2. LastOf(i, pairs) = {}
      BY <3>1 DEF LastOf
    <3>. QED BY <1>3, <3>1, <3>2
  <2>. QED BY <2>1, <2>2
<1>6. SetsAt(c)'
  BY <1>1, <1>2, <1>5 DEF SetsAt, Live
<1>. HIDE DEF h, pairs
<1>7. \A g \in Handle : g # handle[c] => device'[g] = device[g] /\ (phase'[g] = "initial" => phase[g] = "initial")
  BY <1>1, <1>3 DEF h
<1>. QED BY <1>1, <1>2, <1>6, <1>7, SetsOfOne

\* A set is bound at once or behind those that wait.
LEMMA SetBound ==
    ASSUME RecordingInv, SetTypes, SetsInv, NEW c \in Cmd, NEW i \in Index, NEW s \in Set, bind_descriptor_set(c, i, s)
    PROVE  SetTypes' /\ SetsInv'
<1>. DEFINE h == handle[c]
            pairs == postponed[c]
            pair == <<i, s>>
<1>1. /\ h \in Handle /\ h # Null /\ phase[h] # "initial" /\ s # Null /\ pairs \in Pairs /\ point[c] \in Points
      /\ UNCHANGED <<handle, phase, point, current, secondaries>>
  BY PipelineAssumption DEF bind_descriptor_set, Recording, Live, RecordingInv, CoreTypes, SetTypes
<1>2. asked' = [asked EXCEPT ![c][i] = s]
  BY DEF bind_descriptor_set
<1>3. /\ asked' \in [Cmd -> Slots]
      /\ asked'[c][i] = s /\ \A j \in Index \ {i} : asked'[c][j] = asked[c][j]
      /\ \A d \in Cmd \ {c} : asked'[d] = asked[d]
  BY <1>2 DEF SetTypes, Slots
<1>4. SetsAt(c)
  BY DEF SetsInv
<1>5. pair[1] = i /\ pair[2] = s /\ pair \in Index \X Set
  OBVIOUS
<1>6. CASE current[c] # Null
  <2>. DEFINE one == <<pair>>
  <2>1. postponed' = postponed /\ device' = Bindings(h, point[c], one)
    BY <1>6 DEF bind_descriptor_set
  <2>. HIDE DEF pair
  <2>2. one \in Pairs /\ DOMAIN one = {1} /\ one[1] = pair
    BY <1>5 DEF Pairs
  <2>. HIDE DEF one, h
  <2>3. /\ device' \in [Handle -> [Points -> Slots]]
        /\ \A g \in Handle \ {h} : device'[g] = device[g]
        /\ \A j \in Index : LastOf(j, one) = {} => device'[h][point[c]][j] = device[h][point[c]][j]
        /\ \A j \in Index : \A n \in LastOf(j, one) : device'[h][point[c]][j] = one[n][2]
    BY <1>1, <2>1, <2>2, BoundSets
  <2>4. 1 \in LastOf(i, one) /\ \A j \in Index \ {i} : LastOf(j, one) = {}
    BY <1>5, <2>2 DEF LastOf
  <2>5. device'[h][point[c]][i] = s /\ \A j \in Index \ {i} : device'[h][point[c]][j] = device[h][point[c]][j]
    BY <1>5, <2>2, <2>3, <2>4
  <2>6. SetsAt(c)'
    <3>1. ASSUME NEW j \in Index, asked'[c][j] # Null
          PROVE  device'[h][point[c]][j] = asked'[c][j]
      BY <1>3, <1>4, <1>6, <2>5, <3>1 DEF SetsAt, h
    <3>. QED BY <1>1, <1>4, <1>6, <2>1, <3>1 DEF SetsAt, Live, h
  <2>7. SetsInv'
    <3>1. \A g \in Handle : g # handle[c] => device'[g] = device[g] /\ (phase'[g] = "initial" => phase[g] = "initial")
      BY <1>1, <2>3 DEF h
    <3>. QED BY <1>1, <1>3, <2>1, <2>6, <3>1, SetsOfOne
  <2>. QED BY <1>1, <1>3, <2>1, <2>3, <2>7 DEF SetTypes
<1>7. CASE current[c] = Null
  <2>. DEFINE longer == Append(pairs, pair)
  <2>1. Len(pairs) < MaxPostponed /\ postponed' = [postponed EXCEPT ![c] = longer] /\ device' = device
    BY <1>7 DEF bind_descriptor_set
  <2>. HIDE DEF pair
  <2>2. /\ longer \in Pairs /\ Len(longer) = Len(pairs) + 1 /\ Len(pairs) \in Nat
        /\ DOMAIN longer = 1..Len(pairs) + 1 /\ DOMAIN pairs = 1..Len(pairs)
        /\ longer[Len(pairs) + 1] = pair /\ \A n \in 1..Len(pairs) : longer[n] = pairs[n]
    BY <1>1, <1>5 DEF Pairs
  <2>. HIDE DEF longer, pairs, h
  <2>3. Len(pairs) + 1 \in LastOf(i, longer)
    BY <1>5, <2>2 DEF LastOf
  <2>4. ASSUME NEW j \in Index \ {i}, NEW n \in LastOf(j, pairs) PROVE n \in LastOf(j, longer)
    <3>1. /\ n \in 1..Len(pairs) /\ pairs[n][1] = j
          /\ \A m \in 1..Len(pairs) : m > n => pairs[m][1] # j
      BY <2>2, <2>4 DEF LastOf
    <3>2. ASSUME NEW m \in DOMAIN longer, m > n PROVE longer[m][1] # j
      <4>1. m \in 1..Len(pairs) \/ m = Len(pairs) + 1
        BY <2>2
      <4>. QED BY <1>5, <2>2, <3>1, <3>2, <4>1
    <3>. QED BY <2>2, <3>1, <3>2 DEF LastOf
  <2>5. postponed'[c] = longer /\ \A d \in Cmd \ {c} : postponed'[d] = postponed[d]
    BY <2>1 DEF SetTypes
  <2>6. ASSUME NEW j \in Index, asked'[c][j] # Null
        PROVE  \E n \in LastOf(j, longer) : longer[n][2] = asked'[c][j]
    <3>1. CASE j = i
      BY <1>3, <1>5, <2>2, <2>3, <3>1
    <3>2. CASE j # i
      <4>1. PICK n \in LastOf(j, pairs) : pairs[n][2] = asked[c][j]
        BY <1>3, <1>4, <1>7, <2>6, <3>2 DEF SetsAt, pairs
      <4>2. n \in 1..Len(pairs)
        BY <2>2 DEF LastOf
      <4>. QED BY <1>3, <2>2, <2>4, <3>2, <4>1, <4>2
    <3>. QED BY <3>1, <3>2
  <2>7. SetsAt(c)'
    BY <1>1, <1>7, <2>5, <2>6 DEF SetsAt, Live, h
  <2>8. SetsInv'
    <3>1. \A g \in Handle : g # handle[c] => device'[g] = device[g] /\ (phase'[g] = "initial" => phase[g] = "initial")
      BY <1>1, <2>1
    <3>. QED BY <1>1, <1>3, <2>5, <2>7, <3>1, SetsOfOne
  <2>9. /\ postponed' \in [Cmd -> Pairs]
        /\ \A d \in Cmd : Len(postponed'[d]) <= MaxPostponed
    <3>1. postponed' \in [Cmd -> Pairs]
      BY <2>1, <2>2 DEF SetTypes
    <3>2. Len(pairs) + 1 <= MaxPostponed
      BY <2>1, <2>2, BoundAssumption
    <3>. QED BY <2>2, <2>5, <3>1, <3>2 DEF SetTypes
  <2>. QED BY <1>1, <1>3, <2>1, <2>8, <2>9 DEF SetTypes
<1>. QED BY <1>6, <1>7

\* A CommandBuffer that is made, destroyed or reset begins with nothing.
LEMMA WrappedSets ==
    ASSUME CoreTypes, SetTypes, NEW c \in Cmd, NEW h \in Handle \cup {Null}, NEW l \in Levels, Wrap(c, h, l)
    PROVE  /\ point' \in [Cmd -> Points] /\ postponed' \in [Cmd -> Pairs] /\ asked' \in [Cmd -> Slots]
           /\ \A d \in Cmd : Len(postponed'[d]) <= MaxPostponed
           /\ current'[c] = Null /\ asked'[c] = NoSets
           /\ \A d \in Cmd \ {c} : /\ handle'[d] = handle[d] /\ current'[d] = current[d] /\ point'[d] = point[d]
                                   /\ postponed'[d] = postponed[d] /\ asked'[d] = asked[d]
<1>1. <<>> \in Pairs /\ NoSets \in Slots /\ "compute" \in Points /\ Len(<<>>) <= MaxPostponed
  BY BoundAssumption DEF Pairs, Slots, NoSets, Points
<1>2. /\ point' = [point EXCEPT ![c] = "compute"] /\ postponed' = [postponed EXCEPT ![c] = <<>>]
      /\ asked' = [asked EXCEPT ![c] = NoSets]
  BY DEF Wrap
<1>3. \A d \in Cmd : Len(postponed'[d]) <= MaxPostponed
  BY <1>1, <1>2 DEF SetTypes
<1>. QED BY <1>1, <1>2, <1>3, Wrapped DEF SetTypes

\* Where nothing is bound, no set is, and nothing changes elsewhere.
LEMMA ForgottenSets ==
    ASSUME SetTypes, NEW h \in Handle, Forgotten(h)
    PROVE  /\ device' \in [Handle -> [Points -> Slots]]
           /\ \A g \in Handle : g # h => device'[g] = device[g]
<1>. DEFINE none == [b \in Points |-> NoSets]
<1>1. none \in [Points -> Slots] /\ device' = [device EXCEPT ![h] = none]
  BY DEF NoSets, Slots, Forgotten
<1>. HIDE DEF none
<1>. QED BY <1>1 DEF SetTypes

\* A buffer that is reset has no set bound.
LEMMA ResetSets ==
    ASSUME CoreTypes, SetTypes, NEW h \in Handle, DeviceReset(h)
    PROVE  /\ device' \in [Handle -> [Points -> Slots]] /\ secondaries' \in [Handle -> SUBSET Handle]
           /\ \A g \in Handle : g # h => device'[g] = device[g] /\ (phase'[g] = "initial" => phase[g] = "initial")
<1>1. Forgotten(h) /\ secondaries' = [secondaries EXCEPT ![h] = {}] /\ phase' = [phase EXCEPT ![h] = "initial"]
  BY DEF DeviceReset
<1>. QED BY <1>1, ForgottenSets DEF SetTypes, CoreTypes

\* Every step keeps the types and what was asked for last.
LEMMA StepKeepsSets ==
    ASSUME RecordingInv, SetTypes, SetsInv, [Next]_vars
    PROVE  SetTypes' /\ SetsInv'
<1>. USE DEF objectVars, poolVars, deviceVars, pipeVars, history
<1>a. CoreTypes /\ \A c \in Cmd : Live(c) => handle[c] \in Handle
  BY DEF RecordingInv, CoreTypes, Live
<1>b. "graphics" \in Points /\ "compute" \in Points /\ NoSets \in Slots /\ <<>> \in Pairs /\ Len(<<>>) <= MaxPostponed
  BY BoundAssumption DEF Points, NoSets, Slots, Pairs
<1>c. \A c \in Cmd : SetsAt(c)
  BY DEF SetsInv
<1>1. CASE UNCHANGED vars
  <2>1. SetTypes'
    BY <1>1 DEF vars, SetTypes
  <2>. QED BY <1>1, <2>1, SetsKept DEF vars
<1>2. ASSUME NEW c \in Cmd, NEW l \in Levels, AllocateRecycled(c, l) PROVE SetTypes' /\ SetsInv'
  <2>1. /\ recycled[l] # <<>> /\ Wrap(c, Head(recycled[l]), l) /\ UNCHANGED deviceVars
    BY <1>2 DEF AllocateRecycled
  <2>2. Head(recycled[l]) \in Handle
    BY <1>a, <2>1 DEF CoreTypes
  <2>3. /\ point' \in [Cmd -> Points] /\ postponed' \in [Cmd -> Pairs] /\ asked' \in [Cmd -> Slots]
        /\ \A d \in Cmd : Len(postponed'[d]) <= MaxPostponed
        /\ current'[c] = Null /\ asked'[c] = NoSets
        /\ \A d \in Cmd \ {c} : /\ handle'[d] = handle[d] /\ current'[d] = current[d] /\ point'[d] = point[d]
                                /\ postponed'[d] = postponed[d] /\ asked'[d] = asked[d]
    BY <1>a, <2>1, <2>2, WrappedSets
  <2>4. SetTypes'
    BY <2>1, <2>3 DEF SetTypes
  <2>. QED BY <2>1, <2>3, <2>4, NothingAsked, SetsOfOne
<1>3. ASSUME NEW c \in Cmd, NEW l \in Levels, AllocateNew(c, l) PROVE SetTypes' /\ SetsInv'
  <2>1. PICK h \in Handle : Wrap(c, h, l)
    BY <1>3 DEF AllocateNew
  <2>2. UNCHANGED deviceVars
    BY <1>3 DEF AllocateNew
  <2>3. /\ point' \in [Cmd -> Points] /\ postponed' \in [Cmd -> Pairs] /\ asked' \in [Cmd -> Slots]
        /\ \A d \in Cmd : Len(postponed'[d]) <= MaxPostponed
        /\ current'[c] = Null /\ asked'[c] = NoSets
        /\ \A d \in Cmd \ {c} : /\ handle'[d] = handle[d] /\ current'[d] = current[d] /\ point'[d] = point[d]
                                /\ postponed'[d] = postponed[d] /\ asked'[d] = asked[d]
    BY <1>a, <2>1, WrappedSets
  <2>4. SetTypes'
    BY <2>2, <2>3 DEF SetTypes
  <2>. QED BY <2>2, <2>3, <2>4, NothingAsked, SetsOfOne
<1>4. ASSUME NEW c \in Cmd, NEW inPass \in BOOLEAN, BeginFresh(c, inPass) PROVE SetTypes' /\ SetsInv'
  <2>1. /\ handle[c] \in Handle /\ Live(c) /\ phase[handle[c]] = "initial"
        /\ phase' = [phase EXCEPT ![handle[c]] = "recording"]
        /\ point' = point \/ point' = [point EXCEPT ![c] = "graphics"]
        /\ UNCHANGED <<handle, current, postponed, device, secondaries, asked>>
    BY <1>4, <1>a DEF BeginFresh, Begin
  <2>2. SetTypes'
    BY <1>b, <2>1 DEF SetTypes
  <2>3. asked[c] = NoSets /\ (current[c] # Null => postponed[c] = <<>>)
    BY <1>c, <2>1 DEF SetsAt
  <2>4. /\ \A g \in Handle : phase'[g] = "initial" => phase[g] = "initial"
        /\ \A d \in Cmd \ {c} : point'[d] = point[d]
    BY <1>a, <2>1 DEF SetTypes, CoreTypes
  <2>. QED BY <2>1, <2>2, <2>3, <2>4, NothingAsked, SetsOfOne
<1>16. ASSUME NEW c \in Cmd, NEW inPass \in BOOLEAN, BeginAgain(c, inPass) PROVE SetTypes' /\ SetsInv'
  <2>1. /\ handle[c] \in Handle /\ Live(c) /\ Forgotten(handle[c])
        /\ phase' = [phase EXCEPT ![handle[c]] = "recording"]
        /\ point' = point \/ point' = [point EXCEPT ![c] = "graphics"]
        /\ secondaries' = [secondaries EXCEPT ![handle[c]] = {}]
        /\ asked' = [asked EXCEPT ![c] = NoSets]
        /\ UNCHANGED <<handle, current, postponed>>
    BY <1>16, <1>a DEF BeginAgain, Begin
  <2>2. /\ device' \in [Handle -> [Points -> Slots]]
        /\ \A g \in Handle : g # handle[c] => device'[g] = device[g]
    BY <2>1, ForgottenSets
  <2>3. SetTypes'
    BY <1>b, <2>1, <2>2 DEF SetTypes
  <2>4. asked'[c] = NoSets /\ (current'[c] # Null => postponed'[c] = <<>>)
    BY <1>c, <2>1 DEF SetsAt, SetTypes
  <2>5. /\ \A g \in Handle : phase'[g] = "initial" => phase[g] = "initial"
        /\ \A d \in Cmd \ {c} : point'[d] = point[d] /\ asked'[d] = asked[d]
    BY <1>a, <2>1 DEF SetTypes, CoreTypes
  <2>. QED BY <2>1, <2>2, <2>3, <2>4, <2>5, NothingAsked, SetsOfOne
<1>5. ASSUME NEW c \in Cmd, End(c) PROVE SetTypes' /\ SetsInv'
  <2>1. \A g \in Handle : phase'[g] = "initial" => phase[g] = "initial"
    BY <1>5, <1>a DEF End, CoreTypes
  <2>2. SetTypes'
    BY <1>5 DEF End, SetTypes
  <2>. QED BY <1>5, <2>1, <2>2, SetsKept DEF End
<1>6. ASSUME NEW c \in Cmd, Reset(c) PROVE SetTypes' /\ SetsInv'
  <2>1. /\ handle[c] \in Handle /\ DeviceReset(handle[c]) /\ UNCHANGED <<handle, postponed>>
        /\ current' = [current EXCEPT ![c] = Null] /\ point' = [point EXCEPT ![c] = "compute"]
        /\ asked' = [asked EXCEPT ![c] = NoSets]
    BY <1>6, <1>a DEF Reset
  <2>2. /\ device' \in [Handle -> [Points -> Slots]] /\ secondaries' \in [Handle -> SUBSET Handle]
        /\ \A g \in Handle : g # handle[c] => device'[g] = device[g] /\ (phase'[g] = "initial" => phase[g] = "initial")
    BY <1>a, <2>1, ResetSets
  <2>3. /\ current'[c] = Null /\ asked'[c] = NoSets
        /\ \A d \in Cmd \ {c} : current'[d] = current[d] /\ point'[d] = point[d] /\ asked'[d] = asked[d]
    BY <1>a, <2>1 DEF SetTypes, CoreTypes
  <2>4. SetTypes'
    BY <1>b, <2>1, <2>2 DEF SetTypes
  <2>. QED BY <2>1, <2>2, <2>3, <2>4, NothingAsked, SetsOfOne
<1>7. ASSUME NEW c \in Cmd, Destroy(c) PROVE SetTypes' /\ SetsInv'
  <2>1. /\ handle[c] \in Handle /\ DeviceReset(handle[c]) /\ Wrap(c, Null, Level(c)) /\ Level(c) \in Levels
    BY <1>7, <1>a DEF Destroy, Level, Levels
  <2>2. /\ device' \in [Handle -> [Points -> Slots]] /\ secondaries' \in [Handle -> SUBSET Handle]
        /\ \A g \in Handle : g # handle[c] => device'[g] = device[g] /\ (phase'[g] = "initial" => phase[g] = "initial")
    BY <1>a, <2>1, ResetSets
  <2>3. /\ point' \in [Cmd -> Points] /\ postponed' \in [Cmd -> Pairs] /\ asked' \in [Cmd -> Slots]
        /\ \A d \in Cmd : Len(postponed'[d]) <= MaxPostponed
        /\ current'[c] = Null /\ asked'[c] = NoSets
        /\ \A d \in Cmd \ {c} : /\ handle'[d] = handle[d] /\ current'[d] = current[d] /\ point'[d] = point[d]
                                /\ postponed'[d] = postponed[d] /\ asked'[d] = asked[d]
    BY <1>a, <2>1, WrappedSets
  <2>4. SetTypes'
    BY <2>2, <2>3 DEF SetTypes
  <2>. QED BY <2>2, <2>3, <2>4, NothingAsked, SetsOfOne
<1>8. ASSUME NEW c \in Cmd, Submit(c) PROVE SetTypes' /\ SetsInv'
  <2>1. \A g \in Handle : phase'[g] = "initial" => phase[g] = "initial"
    BY <1>8, <1>a DEF Submit, CoreTypes
  <2>2. SetTypes'
    BY <1>8 DEF Submit, SetTypes
  <2>. QED BY <1>8, <2>1, <2>2, SetsKept DEF Submit
<1>9. ASSUME NEW c \in Cmd, cmd_begin_renderpass(c) \/ cmd_end_renderpass(c) PROVE SetTypes' /\ SetsInv'
  <2>1. PICK b \in Points, to \in {"inside", "recording"} :
            /\ handle[c] \in Handle /\ phase' = [phase EXCEPT ![handle[c]] = to]
            /\ point' = [point EXCEPT ![c] = b] /\ postponed' = [postponed EXCEPT ![c] = <<>>]
            /\ asked' = [asked EXCEPT ![c] = NoSets]
            /\ UNCHANGED <<handle, current, device, secondaries>>
    BY <1>9, <1>a, <1>b DEF cmd_begin_renderpass, cmd_end_renderpass, Boundary
  <2>2. SetTypes'
    <3>1. \A d \in Cmd : Len(postponed'[d]) <= MaxPostponed
      BY <1>b, <2>1 DEF SetTypes
    <3>. QED BY <1>b, <2>1, <3>1 DEF SetTypes
  <2>3. /\ asked'[c] = NoSets /\ postponed'[c] = <<>>
        /\ \A d \in Cmd \ {c} : postponed'[d] = postponed[d] /\ point'[d] = point[d] /\ asked'[d] = asked[d]
    BY <2>1 DEF SetTypes
  <2>4. \A g \in Handle : phase'[g] = "initial" => phase[g] = "initial"
    BY <1>a, <2>1 DEF CoreTypes
  <2>. QED BY <2>1, <2>2, <2>3, <2>4, NothingAsked, SetsOfOne
<1>10. ASSUME NEW c \in Cmd, cmd_next_subpass(c) PROVE SetTypes' /\ SetsInv'
  <2>1. /\ postponed' = [postponed EXCEPT ![c] = <<>>]
        /\ asked' = IF postponed[c] = <<>> THEN asked ELSE [asked EXCEPT ![c] = NoSets]
        /\ UNCHANGED <<handle, current, point, phase, device, secondaries>>
    BY <1>10 DEF cmd_next_subpass
  <2>2. SetTypes'
    <3>1. \A d \in Cmd : Len(postponed'[d]) <= MaxPostponed
      BY <1>b, <2>1 DEF SetTypes
    <3>. QED BY <1>b, <2>1, <3>1 DEF SetTypes
  <2>3. CASE postponed[c] = <<>>
    <3>1. postponed' = postponed /\ asked' = asked
      BY <2>1, <2>3 DEF SetTypes
    <3>. QED BY <2>1, <2>2, <3>1, SetsKept
  <2>4. CASE postponed[c] # <<>>
    <3>1. /\ asked'[c] = NoSets /\ postponed'[c] = <<>>
          /\ \A d \in Cmd \ {c} : postponed'[d] = postponed[d] /\ asked'[d] = asked[d]
      BY <2>1, <2>4 DEF SetTypes
    <3>. QED BY <2>1, <2>2, <3>1, NothingAsked, SetsOfOne
  <2>. QED BY <2>3, <2>4
<1>11. ASSUME NEW c \in Cmd, NEW p \in Pipeline, bind_pipeline(c, p) PROVE SetTypes' /\ SetsInv'
  <2>1. /\ handle[c] \in Handle /\ point[c] \in Points /\ postponed[c] \in Pairs
        /\ device' = Bindings(handle[c], point[c], postponed[c])
        /\ postponed' = [postponed EXCEPT ![c] = <<>>]
        /\ UNCHANGED <<point, secondaries, asked>>
    BY <1>11, <1>a DEF bind_pipeline, BindWith, Recording, SetTypes
  <2>2. device' \in [Handle -> [Points -> Slots]]
    BY <2>1, BoundSets
  <2>3. \A d \in Cmd : Len(postponed'[d]) <= MaxPostponed
    BY <1>b, <2>1 DEF SetTypes
  <2>4. SetTypes'
    BY <1>b, <2>1, <2>2, <2>3 DEF SetTypes
  <2>. QED BY <1>11, <2>4, PipelineSets
<1>12. ASSUME NEW c \in Cmd, NEW i \in Index, NEW s \in Set, bind_descriptor_set(c, i, s) PROVE SetTypes' /\ SetsInv'
  BY <1>12, SetBound
<1>13. ASSUME NEW c \in Cmd, NEW d \in Cmd, execute_secondaries(c, d) PROVE SetTypes' /\ SetsInv'
  <2>1. /\ handle[c] \in Handle /\ handle[d] \in Handle /\ Live(c) /\ Forgotten(handle[c])
        /\ secondaries' = [secondaries EXCEPT ![handle[c]] = @ \cup {handle[d]}]
        /\ asked' = IF current[c] = Null THEN asked ELSE [asked EXCEPT ![c] = NoSets]
        /\ UNCHANGED <<handle, current, point, postponed, phase>> /\ phase[handle[c]] # "initial"
    BY <1>13, <1>a DEF execute_secondaries, Recording
  <2>2. /\ device' \in [Handle -> [Points -> Slots]]
        /\ \A g \in Handle : g # handle[c] => device'[g] = device[g]
    BY <2>1, ForgottenSets
  <2>3. SetTypes' /\ \A e \in Cmd \ {c} : asked'[e] = asked[e]
    BY <1>b, <2>1, <2>2 DEF SetTypes
  <2>4. SetsAt(c)'
    <3>1. CASE current[c] = Null
      BY <1>c, <2>1, <3>1 DEF SetsAt, Live
    <3>2. CASE current[c] # Null
      <4>1. asked'[c] = NoSets /\ postponed'[c] = <<>>
        BY <1>c, <2>1, <3>2 DEF SetsAt, SetTypes
      <4>. QED BY <4>1, NothingAsked
    <3>. QED BY <3>1, <3>2
  <2>. QED BY <2>1, <2>2, <2>3, <2>4, SetsOfOne
<1>14. ASSUME NEW h \in Handle, Complete(h) PROVE SetTypes' /\ SetsInv'
  <2>1. \A g \in Handle : phase'[g] = "initial" => phase[g] = "initial"
    BY <1>14, <1>a DEF Complete, CoreTypes
  <2>2. SetTypes'
    BY <1>14 DEF Complete, SetTypes
  <2>. QED BY <1>14, <2>1, <2>2, SetsKept DEF Complete
<1>15. ASSUME NEW p \in Pipeline, Drop(p) \/ Make(p) PROVE SetTypes' /\ SetsInv'
  <2>1. SetTypes'
    BY <1>15 DEF Drop, Make, SetTypes
  <2>. QED BY <1>15, <2>1, SetsKept DEF Drop, Make
<1>. QED
  BY <1>1, <1>2, <1>3, <1>4, <1>5, <1>6, <1>7, <1>8, <1>9, <1>10, <1>11, <1>12, <1>13, <1>14, <1>15, <1>16 DEF Next

-----------------------------------------------------------------------------
(* What the runs check.                                                    *)

WholeInv == RecordingInv /\ PlacesInv /\ SetTypes /\ SetsInv

\* At first there is no CommandBuffer.
LEMMA InitWhole == Init => WholeInv
<1>. SUFFICES ASSUME Init PROVE WholeInv
  OBVIOUS
<1>1. PlacesInv
  BY DEF Init, PlacesInv, Live
<1>2. SetTypes
  <2>1. NoSets \in Slots /\ <<>> \in Pairs /\ Len(<<>>) <= MaxPostponed /\ "compute" \in Points
    BY BoundAssumption DEF NoSets, Slots, Pairs, Points
  <2>. QED BY <2>1 DEF Init, SetTypes
<1>3. SetsInv
  <2>1. ASSUME NEW c \in Cmd PROVE SetsAt(c)
    BY DEF Init, SetsAt, NoSets
  <2>. QED BY <2>1 DEF SetsInv
<1>. QED BY <1>1, <1>2, <1>3, InitRecording DEF WholeInv

LEMMA StepKeepsWhole == WholeInv /\ [Next]_vars => WholeInv'
  BY StepKeepsRecording, StepKeepsPlaces, StepKeepsSets DEF WholeInv

\* A buffer is in one place: the three sets that Places counts.
LEMMA OnePlace ==
    ASSUME RecordingInv, PlacesInv, NEW h \in Handle
    PROVE  Places(h) = IF made[h] = Null THEN 0 ELSE 1
<1>. DEFINE C == {c \in Cmd : handle[c] = h}
            P == {i \in DOMAIN recycled["primary"] : recycled["primary"][i] = h}
            S == {i \in DOMAIN recycled["secondary"] : recycled["secondary"][i] = h}
<1>1. h # Null /\ Levels = {"primary", "secondary"}
  BY PipelineAssumption DEF Levels
<1>2. \A c, d \in C : c = d
  BY <1>1 DEF RecordingInv, OwnersInv, Live
<1>3. \A i, j \in P : i = j
  BY <1>1 DEF RecordingInv, OwnersInv
<1>4. \A i, j \in S : i = j
  BY <1>1 DEF RecordingInv, OwnersInv
<1>5. (C = {} \/ P = {}) /\ (C = {} \/ S = {}) /\ (P = {} \/ S = {})
  BY <1>1 DEF RecordingInv, OwnersInv
<1>6. made[h] = Null <=> C = {} /\ P = {} /\ S = {}
  <2>1. made[h] = Null => C = {} /\ P = {} /\ S = {}
    BY <1>1 DEF RecordingInv, OwnersInv, Live
  <2>2. made[h] # Null => C # {} \/ P # {} \/ S # {}
    BY <1>1 DEF PlacesInv
  <2>. QED BY <2>1, <2>2
<1>7. Places(h) = Cardinality(C) + Cardinality(P) + Cardinality(S)
  BY DEF Places
<1>. HIDE DEF C, P, S
<1>8. ASSUME NEW T, \A x, y \in T : x = y PROVE Cardinality(T) = IF T = {} THEN 0 ELSE 1
  <2>1. CASE T = {}
    BY <2>1, FS_EmptySet
  <2>2. CASE T # {}
    <3>1. PICK x : T = {x}
      BY <1>8, <2>2
    <3>. QED BY <2>2, <3>1, FS_Singleton
  <2>. QED BY <2>1, <2>2
<1>9. /\ Cardinality(C) = IF C = {} THEN 0 ELSE 1
      /\ Cardinality(P) = IF P = {} THEN 0 ELSE 1
      /\ Cardinality(S) = IF S = {} THEN 0 ELSE 1
  BY <1>2, <1>3, <1>4, <1>8
<1>. QED BY <1>5, <1>6, <1>7, <1>9

\* A Vulkan buffer belongs to one CommandBuffer or waits once to be recycled,
\* as a fresh buffer of its own level (_allocate, ~CommandBuffer).
THEOREM BuffersOwned == Spec => []Inv
<1>1. ASSUME WholeInv PROVE TypeOK
  <2>1. CoreTypes /\ SetTypes
    BY <1>1 DEF WholeInv, RecordingInv
  <2>2. primary \in [Cmd -> BOOLEAN] /\ owner \in [Pipeline -> BOOLEAN] /\ stale \in [Cmd -> BOOLEAN]
    BY <2>1, Zenon DEF CoreTypes
  <2>3. /\ handle \in [Cmd -> Handle \cup {Null}] /\ current \in [Cmd -> Pipeline \cup {Null}]
        /\ deps \in [Cmd -> SUBSET Counted] /\ made \in [Handle -> Levels \cup {Null}]
        /\ phase \in [Handle -> {"initial", "recording", "inside", "executable", "pending"}]
        /\ bound \in [Handle -> [Points -> Version \cup {Null}]] /\ used \in [Handle -> SUBSET Version]
        /\ generation \in [Pipeline -> 1..MaxGeneration] /\ \A l \in Levels : recycled[l] \in Seq(Handle)
    BY <2>1 DEF CoreTypes
  <2>4. /\ point \in [Cmd -> Points] /\ secondaries \in [Handle -> SUBSET Handle]
        /\ \A c \in Cmd : postponed[c] \in Seq(Index \X Set) /\ Len(postponed[c]) <= MaxPostponed
        /\ device \in [Handle -> [Points -> [Index -> Set \cup {Null}]]]
        /\ asked \in [Cmd -> [Index -> Set \cup {Null}]]
    BY <2>1 DEF SetTypes, Pairs, Slots
  <2>. QED BY <2>2, <2>3, <2>4, Zenon DEF TypeOK
<1>2. ASSUME WholeInv PROVE OneOwner /\ LevelsApart
  <2>1. OneOwner
    BY <1>2, OnePlace DEF WholeInv, OneOwner
  <2>2. LevelsApart
    BY <1>2 DEF WholeInv, RecordingInv, OwnersInv, PlacesInv, LevelsApart
  <2>. QED BY <2>1, <2>2
<1>3. WholeInv => Inv
  BY <1>1, <1>2 DEF Inv
<1>. QED BY <1>3, InitWhole, StepKeepsWhole, PTL DEF Spec

\* A bound pipeline sees at each index the set asked for last since the render
\* pass began or ended, secondaries were executed or the recording began,
\* whether it was bound at once or postponed
\* (bind_descriptor_set, flush_postponed_descriptor_sets).
THEOREM LastSetsBound == Spec => []LastAskedWins
<1>1. WholeInv => LastAskedWins
  BY DEF WholeInv, SetsInv, SetsAt, LastAskedWins
<1>. QED BY <1>1, InitWhole, StepKeepsWhole, PTL DEF Spec
=============================================================================
