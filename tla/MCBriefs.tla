----------------------------- MODULE MCBriefs -----------------------------
(***************************************************************************)
(* Briefs on a small instance: three asks, so that the explainer can fail, *)
(* be given up and be asked again, of two texts, so that some are twins.   *)
(***************************************************************************)
EXTENDS Briefs

CONSTANTS runA, write, policy, other

RunIds == {runA}
ToolNames == {write}
AskTexts == {policy, other}
PolicyOnly == {policy}
=============================================================================
