------------------------------ MODULE MCRefine ------------------------------
(***************************************************************************)
(* Refine on four passes, so that an unscored pass can lie between two     *)
(* scored ones and the run still go on after them; a pass may cost all of  *)
(* the budget, so that it gives out, and may be overshot, on the way.      *)
(***************************************************************************)
EXTENDS Refine

ThreeLevels == 0..2
=============================================================================
