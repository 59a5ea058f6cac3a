---------------------------- MODULE MCApprovals ----------------------------
(***************************************************************************)
(* Approvals on a small instance: three asks, so that a click can release  *)
(* one queued sibling and leave a third ask to be raised under the grant.  *)
(***************************************************************************)
EXTENDS Approvals, TLC

CONSTANTS runA, runB, write, bash, policy, other

RunIds == {runA, runB}
ToolNames == {write, bash}
FileTools == {write}
AskTexts == {policy, other}
PolicyOnly == {policy}

\* The two runs are interchangeable: no definition names either.
RunSymmetry == Permutations(RunIds)
=============================================================================
