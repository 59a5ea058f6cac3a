--------------------------- MODULE MCLoopRunner ---------------------------
(***************************************************************************)
(* LoopRunner on a small instance: two rungs, one tool of each class that  *)
(* matters, and thresholds low enough for a cycle or a cascade of errors   *)
(* to show, and be cleared, before the steps run out.                      *)
(***************************************************************************)
EXTENDS LoopRunner

TwoTools == {"edit", "bash"}
Classed == [t \in TwoTools |-> IF t = "edit" THEN "reversible-write" ELSE "irreversible"]
\* The cheap rung gives way after a step that cost two.
Caps == [r \in 0..1 |-> 1]
=============================================================================
