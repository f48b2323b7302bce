------------------------- MODULE MCCommandRecording -------------------------
(* CommandRecording on a counted graphics pipeline and an owned compute one. *)
EXTENDS CommandRecording, TLC

CONSTANTS draw, sim, c1, c2, h1, h2, s1, s2

MCPipeline == {draw, sim}
MCPoint == draw :> "graphics" @@ sim :> "compute"
TwoCmd == {c1, c2}
TwoHandle == {h1, h2}
TwoSet == {s1, s2}
Symmetry == Permutations(TwoHandle) \cup Permutations(TwoSet)
=============================================================================
