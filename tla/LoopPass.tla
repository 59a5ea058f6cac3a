----------------------------- MODULE LoopPass -----------------------------
(***************************************************************************)
(* What one run of the standalone loop promises its caller: it ends once,  *)
(* for one reason, having spent less than its budget and one more call,    *)
(* and it says the goal is met exactly when the observable condition, not  *)
(* the model, says so.  LoopRunner implements it; Refine is built on it.   *)
(***************************************************************************)
EXTENDS Integers

CONSTANTS
  Budget,    \* spec.costBudgetUSD, in small units
  MaxCost,   \* the most one model call costs; bounds the model
  HasCheck   \* options.checkSuccess is supplied

VARIABLES
  outcome,   \* how the run ended, or "running"
  spent,     \* what it has spent
  holds      \* the success condition, as it stands in the workspace

passVars == <<outcome, spent, holds>>

\* "blocked" is declared in the code and never produced.
Outcomes == {"goal-met", "budget-stop", "model-stop", "aborted", "error", "blocked"}

PassInit ==
  /\ outcome = "running"
  /\ spent = 0
  /\ holds \in BOOLEAN

\* A call may be paid for as long as the money spent is below the budget.
Pays ==
  \/ spent' = spent
  \/ /\ spent < Budget
     /\ spent' \in spent..(spent + MaxCost)

\* What a run may say when it ends.
MaySay(o, goal) ==
  /\ o = "goal-met" => HasCheck /\ goal
  /\ o \in {"budget-stop", "model-stop"} => (HasCheck => ~goal)
  /\ o # "blocked"

PassStep ==
  /\ outcome = "running"
  /\ Pays
  /\ holds' \in BOOLEAN
  /\ \/ outcome' = "running"
     \/ outcome' \in Outcomes /\ MaySay(outcome', holds')

PassSpec == PassInit /\ [][PassStep]_passVars

\* What a caller can build on: the money is passed by less than one call, the goal is
\* met exactly when the condition holds, and a run that stopped without it says so.
PassKeepsItsWord ==
  /\ spent < Budget + MaxCost
  /\ outcome \in (Outcomes \ {"blocked"}) \union {"running"}
  /\ outcome = "goal-met" => HasCheck /\ holds
  /\ outcome \in {"budget-stop", "model-stop"} /\ HasCheck => ~holds

\* A run ends once: after that it neither spends nor changes its mind.
PassEndsOnce == [][outcome = "running"]_passVars
=============================================================================
