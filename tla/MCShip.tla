------------------------------- MODULE MCShip -------------------------------
(***************************************************************************)
(* Ship on a small instance: two runs that may share a branch, one file    *)
(* and the artifact; either may be the run's or someone else's.            *)
(***************************************************************************)
EXTENDS Ship, TLC

CONSTANTS main, one, two, code, url

BranchNames == {one, two}
FileNames == {code, url}

\* No definition names a branch.
ShipSymmetry == Permutations(BranchNames)
=============================================================================
