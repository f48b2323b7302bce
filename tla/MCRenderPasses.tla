--------------------------- MODULE MCRenderPasses ---------------------------
(***************************************************************************)
(* The two kinds of render pass: passes of one and of two layers that a    *)
(* builder describes, and the pass of a window.  They share nothing, so a  *)
(* behaviour uses one of them and leaves the other as it is at first.      *)
(***************************************************************************)
EXTENDS RenderPasses, Presentation

VARIABLE used   \* which of them the behaviour is about

allVars == <<used, passesVars, windowVars>>

RenderInit ==
    /\ used \in {"window", "passes"}
    /\ BuilderAndPassInit /\ WindowInit
    /\ used = "passes" => count = CHOOSE n \in Counts : TRUE

UsePasses == used = "passes" /\ PassesNext /\ UNCHANGED <<used, windowVars>>

UseWindow == used = "window" /\ WindowNext /\ UNCHANGED <<used, passesVars>>

RenderSpec == RenderInit /\ [][UsePasses \/ UseWindow]_allVars
=============================================================================
