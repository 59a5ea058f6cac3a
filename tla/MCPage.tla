------------------------------ MODULE MCPage ------------------------------
(***************************************************************************)
(* The page over a registry with one ask: its reads may overtake each      *)
(* other, and two posted messages fill the thread.                         *)
(***************************************************************************)
EXTENDS Page

CONSTANTS runA, write, policy, looksGood

RunIds == {runA}
ToolNames == {write}
PolicyOnly == {policy}
SomeNotes == {looksGood}
TwoLoads == 1..2
=============================================================================
