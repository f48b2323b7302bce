----------------------------- MODULE MCHotReload -----------------------------
(* HotReload on two pipelines that share a shader file. *)
EXTENDS HotReload, TLC

CONSTANTS p1, p2, f1, f2

OnePipe == {p1}
TwoPipes == {p1, p2}
NoFile == {}
OneFile == {f1}
TwoFiles == {f1, f2}
OneUse == [p \in OnePipe |-> OneFile]
SharedFile == [p \in TwoPipes |-> OneFile]
TwoUses == [p \in OnePipe |-> TwoFiles]
=============================================================================
