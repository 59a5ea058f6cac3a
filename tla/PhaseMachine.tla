---------------------------- MODULE PhaseMachine ----------------------------
(***************************************************************************)
(* The 0->1 pipeline as a state machine and nothing else                   *)
(* (src/pipeline.ts): five phases in order, one retry edge that is open    *)
(* for a bounded number of fix attempts, and three states a run never      *)
(* leaves.  FeatureLoop implements it inside the plugin's hooks.           *)
(***************************************************************************)
EXTENDS Naturals

CONSTANT MaxTestAttempts   \* PIPELINE_BUDGET.maxTestAttempts

VARIABLES
  state,         \* PipelineRun.state
  testAttempts   \* PipelineRun.testAttempts

machineVars == <<state, testAttempts>>

Phases == {"research", "prd", "implement", "test", "ship"}
Terminal == {"done", "stopped", "blocked"}
States == Phases \union Terminal

\* VALID_TRANSITIONS
Edges ==
  {<<"research", "prd">>, <<"prd", "implement">>, <<"implement", "test">>,
   <<"implement", "prd">>, <<"test", "ship">>, <<"test", "implement">>,
   <<"ship", "done">>}
  \union (Phases \X {"stopped", "blocked"})

IsRetry(from, to) == from = "test" /\ to = "implement"

CanTransition(from, to) ==
  /\ <<from, to>> \in Edges
  /\ IsRetry(from, to) => testAttempts < MaxTestAttempts

Transition(to) ==
  /\ CanTransition(state, to)
  /\ state' = to
  /\ testAttempts' = IF IsRetry(state, to) THEN testAttempts + 1 ELSE testAttempts

MachineInit == state = "research" /\ testAttempts = 0

MachineSpec == MachineInit /\ [][\E to \in States : Transition(to)]_machineVars
=============================================================================
