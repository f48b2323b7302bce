------------------------- MODULE RenderPassBuilder -------------------------
(***************************************************************************)
(* RenderPassBuilder (src/renderpass/renderpass_builder.cpp): attachments  *)
(* and subpasses are added in order, then build derives the dependencies   *)
(* between the subpasses from the first subpass that draws to each         *)
(* attachment and merges those of one pair of subpasses.                   *)
(*                                                                         *)
(* Formats, clear values and layouts are left out; a format is a depth     *)
(* format or not, a mask is the set of its bits.                           *)
(***************************************************************************)
EXTENDS Naturals, Sequences, FiniteSets, SequencesExt

CONSTANTS
    MaxAttachments, \* bound: attachments added
    MaxSubpasses    \* bound: subpasses added

VARIABLES
    attachments,    \* m_attachment_infos: is_depth_format, is_input_attachment
    subpasses       \* m_subpass_info: the attachments of each kind

describedVars == <<attachments, subpasses>>

Attachment == DOMAIN attachments
Undrawn == 0

BuilderInit ==
    /\ attachments = <<>>
    /\ subpasses = <<>>

add_attachment(depth) ==
    /\ Len(attachments) < MaxAttachments
    /\ attachments' = Append(attachments, [depth |-> depth, input |-> FALSE])
    /\ UNCHANGED subpasses

Flag(inputs) ==
    [a \in Attachment |-> [attachments[a] EXCEPT !.input = @ \/ a \in inputs]]

\* The depth attachment is a set of at most one; the attachments of a call
\* have been added and have the format their use needs.
add_subpass(colors, depth, inputs) ==
    /\ Len(subpasses) < MaxSubpasses
    /\ Cardinality(depth) <= 1
    /\ \A a \in colors : ~attachments[a].depth
    /\ \A a \in depth : attachments[a].depth
    /\ subpasses' = Append(subpasses, [color |-> colors, depth |-> depth, input |-> inputs])
    /\ attachments' = Flag(inputs)

-----------------------------------------------------------------------------
(* create_subpass_dependencies                                             *)

Tests == {"EARLY_FRAGMENT_TESTS", "LATE_FRAGMENT_TESTS"}
DrawStages(a) == IF attachments[a].depth THEN Tests ELSE {"COLOR_ATTACHMENT_OUTPUT"}
DrawAccess(a) == IF attachments[a].depth THEN {"DEPTH_STENCIL_WRITE"} ELSE {"COLOR_WRITE"}

\* Subpass i uses attachment a as kind says, after it was drawn to in first.
Dependency(first, i, kind, a) ==
    [src |-> first, dst |-> i,
     srcStages |-> DrawStages(a),
     srcAccess |-> DrawAccess(a),
     dstStages |-> IF kind = "input" THEN {"FRAGMENT_SHADER"} ELSE DrawStages(a),
     dstAccess |-> CASE kind = "color" -> {"COLOR_WRITE"}
                     [] kind = "depth" -> {"DEPTH_STENCIL_READ"}
                     [] kind = "input" -> {"INPUT_READ"}]

\* A loop over the attachments that subpass i uses as one kind:
\* attachement_uses keeps the first subpass that draws to an attachment; an
\* input attachment that none has drawn to fails the assertion.
Use(s, i, kind, used) ==
    LET drawn == SetToSeq({a \in used : s.first[a] # Undrawn})
        fresh == {a \in used : s.first[a] = Undrawn}
    IN  [first |-> [a \in Attachment |-> IF a \in fresh /\ kind # "input" THEN i ELSE s.first[a]],
         deps |-> s.deps \o [n \in DOMAIN drawn |-> Dependency(s.first[drawn[n]], i, kind, drawn[n])],
         asserted |-> s.asserted \/ (kind = "input" /\ fresh # {})]

Visit(s, i) ==
    LET colors == Use(s, i, "color", subpasses[i].color)
        depth == Use(colors, i, "depth", subpasses[i].depth)
    IN  Use(depth, i, "input", subpasses[i].input)

Unvisited == [first |-> [a \in Attachment |-> Undrawn], deps |-> <<>>, asserted |-> FALSE]

Scan == FoldLeftDomain(Visit, Unvisited, subpasses)

SamePair(d, e) == d.src = e.src /\ d.dst = e.dst

JoinedStagesOnly(d, e) ==
    [d EXCEPT !.srcStages = @ \cup e.srcStages, !.dstStages = @ \cup e.dstStages]

Joined(d, e) ==
    [d EXCEPT !.srcStages = @ \cup e.srcStages, !.srcAccess = @ \cup e.srcAccess,
              !.dstStages = @ \cup e.dstStages, !.dstAccess = @ \cup e.dstAccess]

AppendAlways(merged, dep) == Append(merged, dep)

MergeInto(merged, dep) ==
    IF \E n \in DOMAIN merged : SamePair(merged[n], dep)
      THEN [n \in DOMAIN merged |->
               IF SamePair(merged[n], dep) THEN Joined(merged[n], dep) ELSE merged[n]]
      ELSE Append(merged, dep)

merge_dependencies(deps) == FoldLeft(MergeInto, <<>>, deps)

create_subpass_dependencies == merge_dependencies(Scan.deps)

\* The render pass can be made: no assertion fails on the way.
MayBuild == subpasses # <<>> /\ ~Scan.asserted

-----------------------------------------------------------------------------

BuilderNext ==
    \/ \E depth \in BOOLEAN : add_attachment(depth)
    \/ \E colors, depth, inputs \in SUBSET Attachment : add_subpass(colors, depth, inputs)

BuilderSpec == BuilderInit /\ [][BuilderNext]_describedVars

-----------------------------------------------------------------------------
(* Correctness of what would be built.                                     *)

\* Only what some subpass reads is created for reading, and all of it:
\* is_input_attachment decides the usage of the images (add_subpass,
\* MultiPassRenderPass::create_attachments).
InputFlagged ==
    \A a \in Attachment :
        attachments[a].input <=> \E i \in DOMAIN subpasses : a \in subpasses[i].input

\* At most one dependency per pair of subpasses (merge_dependencies).
MergedOnce ==
    LET deps == create_subpass_dependencies IN
        \A m, n \in DOMAIN deps : SamePair(deps[m], deps[n]) => m = n

Draws(i, a) == a \in subpasses[i].color \cup subpasses[i].depth

\* No subpass waits for a later one, nor for itself unless it reads what it
\* draws to (create_subpass_dependencies).
Forward ==
    \A d \in ToSet(create_subpass_dependencies) :
        \/ d.src < d.dst
        \/ d.src = d.dst /\ \E a \in subpasses[d.src].input : Draws(d.src, a)

\* The reads of an attachment that one earlier subpass has drawn to happen
\* after its writes: some dependency between the two makes the writes
\* available and makes the reads wait, whatever was merged into it
\* (create_subpass_dependencies, merge_dependencies).
ReadAfterWrite ==
    LET deps == ToSet(create_subpass_dependencies) IN
        \A i, j \in DOMAIN subpasses : \A a \in subpasses[j].input :
            (i < j /\ {k \in 1..j : Draws(k, a)} = {i}) =>
                \E d \in deps :
                    /\ d.src = i /\ d.dst = j
                    /\ DrawStages(a) \subseteq d.srcStages /\ DrawAccess(a) \subseteq d.srcAccess
                    /\ "FRAGMENT_SHADER" \in d.dstStages /\ "INPUT_READ" \in d.dstAccess

\* What waits in a subpass that draws again: of depth the tests' reads, not
\* their writes.
Awaiting(a) == IF attachments[a].depth THEN {"DEPTH_STENCIL_READ"} ELSE {"COLOR_WRITE"}

\* A subpass that draws to an attachment another subpass has drawn to waits,
\* directly, for the writes of the first that did: its colour writes do, and
\* the reads of its depth tests (create_subpass_dependencies).  Not claimed,
\* as the code does not provide it: that its depth writes wait, and that it
\* waits for a draw other than the first or for a subpass that reads the
\* attachment in between.
DrawsOrdered ==
    LET deps == ToSet(create_subpass_dependencies) IN
        \A i, j \in DOMAIN subpasses, a \in Attachment :
            (i < j /\ Draws(i, a) /\ Draws(j, a) /\ \A k \in 1..i - 1 : ~Draws(k, a)) =>
                \E d \in deps :
                    /\ d.src = i /\ d.dst = j
                    /\ DrawStages(a) \subseteq d.srcStages /\ DrawAccess(a) \subseteq d.srcAccess
                    /\ DrawStages(a) \subseteq d.dstStages /\ Awaiting(a) \subseteq d.dstAccess

\* The dependencies order a read after the one draw before it, and a later
\* draw after the first, in the way the two say.
DependenciesSuffice == ReadAfterWrite /\ DrawsOrdered
=============================================================================
