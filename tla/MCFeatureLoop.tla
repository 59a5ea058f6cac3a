--------------------------- MODULE MCFeatureLoop ---------------------------
(***************************************************************************)
(* FeatureLoop on a small instance.  Two steps for most phases, so that a  *)
(* turn can go on in the phase it began in; one for research and ship.     *)
(***************************************************************************)
EXTENDS FeatureLoop

PhaseSteps == [p \in Phases |-> IF p \in {"research", "ship"} THEN 1 ELSE 2]
\* Room to continue the same phase twice.
ThreeSteps == [p \in Phases |-> 3]

\* In the test phase the money runs out before the steps do.
PhaseSpend == [p \in Phases |-> IF p = "test" THEN 1 ELSE 2]
=============================================================================
