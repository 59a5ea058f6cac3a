----------------------------- MODULE MCHistory -----------------------------
(***************************************************************************)
(* History on a small instance: two processes over one file, the 60th      *)
(* percentile of a window of two (the longer of two runs), and one record  *)
(* enough for a derivation.                                                *)
(***************************************************************************)
EXTENDS History, TLC

CONSTANTS p1, p2

OneToThree == 1..3

TwoProcs == {p1, p2}
HistorySymmetry == Permutations(TwoProcs)
=============================================================================
