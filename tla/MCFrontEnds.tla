---------------------------- MODULE MCFrontEnds ----------------------------
(***************************************************************************)
(* FrontEnds on a small instance: two asks of a grantable tool and two     *)
(* tabs, with a ping interval and a TTL in the proportion of the code's    *)
(* 25 s and 60 s.                                                          *)
(***************************************************************************)
EXTENDS FrontEnds

CONSTANTS runA, write, policy, tab1, tab2

RunIds == {runA}
ToolNames == {write}
AskTexts == {policy}
TabIds == {tab1, tab2}
=============================================================================
