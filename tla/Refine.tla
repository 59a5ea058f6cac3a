------------------------------- MODULE Refine -------------------------------
(***************************************************************************)
(* The refinement loop (src/refine.ts): one task, run again with the       *)
(* evidence of the pass before, until a stop rule fires, and the best pass *)
(* returned.  A pass is what LoopPass says one is; LoopRunner is shown to  *)
(* be such a pass.                                                         *)
(*                                                                         *)
(* A pass's quality, the mean of its judge's scores, is a whole level or   *)
(* None when the judge never scored.                                       *)
(***************************************************************************)
EXTENDS LoopPass, Sequences

CONSTANTS
  Loops,          \* optimize.loops, or 1 when absent
  TotalBudget,    \* optimize.totalBudgetUSD
  Levels,         \* the qualities a pass may have
  Threshold,      \* qualityThreshold
  MinImprovement, \* MIN_IMPROVEMENT
  MaxPassSteps,   \* spec.maxSteps
  HasHistory      \* historyPath and taskKey are given

ASSUME RefineAssumption ==
  /\ Budget \in Nat \ {0}
  /\ MaxCost \in Nat
  /\ HasCheck \in BOOLEAN
  /\ Loops \in Nat \ {0}
  /\ TotalBudget \in Nat \ {0}
  /\ Levels \subseteq Nat
  /\ Threshold \in Nat
  /\ MinImprovement \in Nat
  /\ MaxPassSteps \in Nat \ {0}
  /\ HasHistory \in BOOLEAN

VARIABLES
  pc,          \* "between" passes, "running" one, or how the refinement ended
  passes,      \* passes run
  spentTotal,  \* what they spent
  previous,    \* previousQuality, or None
  best,        \* the pass that would be returned, or NoPass
  ran          \* history: every pass run, in order

refineVars == <<passes, spentTotal, previous, best, ran>>
vars == <<pc, refineVars, passVars>>

None == -1
NoPass == [outcome |-> "none", quality |-> None, spent |-> 0, steps |-> 0]
PassOutcomes == Outcomes \ {"blocked"}

Passes == [outcome : PassOutcomes, quality : Levels \union {None}, spent : Nat,
           steps : 1..MaxPassSteps]

----------------------------------------------------------------------------
(* Which of two passes is the better one                                   *)

Met(p) == p.outcome = "goal-met"

\* Slip: the score decides before the goal does.
BeatsByScore(p, q) ==
  \/ p.quality > q.quality
  \/ p.quality = q.quality /\ p.spent < q.spent

\* The goal first, then the score (no score is below any), cost and steps.
beats(p, q) ==
  IF Met(p) # Met(q) THEN Met(p)
  ELSE IF p.quality # q.quality THEN p.quality > q.quality
  ELSE IF p.spent # q.spent THEN p.spent < q.spent
  ELSE p.steps < q.steps

----------------------------------------------------------------------------

Init ==
  /\ PassInit
  /\ pc = "between"
  /\ passes = 0
  /\ spentTotal = 0
  /\ previous = None
  /\ best = NoPass
  /\ ran = <<>>

\* Slip: the next pass is taken to cost nothing.
AnyLeft == spentTotal <= TotalBudget

\* A pass is expected to cost what those before it cost on average; the
\* first, its share of the budget, is always affordable.
Affordable == passes = 0 \/ spentTotal * (passes + 1) <= TotalBudget * passes

StartPass ==
  /\ pc = "between"
  /\ passes < Loops
  /\ Affordable
  /\ pc' = "running"
  /\ outcome' = "running"
  /\ spent' = 0
  /\ UNCHANGED <<holds, refineVars>>

\* Slip: a pass that cannot be paid for is not started, and that is all.
WaitsForBudget ==
  /\ pc = "between"
  /\ passes < Loops
  /\ ~Affordable
  /\ UNCHANGED vars

BudgetExhausted ==
  /\ pc = "between"
  /\ passes < Loops
  /\ ~Affordable
  /\ pc' = "returned"
  /\ UNCHANGED <<passVars, refineVars>>

RunPass ==
  /\ pc = "running"
  /\ PassStep
  /\ UNCHANGED <<pc, refineVars>>

\* The stop rules, in order.
MetTheBar(p) == Met(p) /\ (p.quality = None \/ p.quality >= Threshold)
Refused(p) == p.outcome \in {"aborted", "error"}
Grinding(p) == previous # None /\ p.quality # None /\ p.quality - previous < MinImprovement
Stops(p) == MetTheBar(p) \/ Refused(p) \/ Grinding(p) \/ passes + 1 = Loops

\* Slip: a pass that was not scored takes the baseline with it.
BaselineOfLast(p) == p.quality

\* An unscored pass leaves the baseline alone.
Baseline(p) == IF p.quality = None THEN previous ELSE p.quality

\* A pass has ended: it is compared, recorded, and the stop rules are read.
\* A history that cannot be written rejects the whole refinement.
Compare(p) ==
  /\ pc = "running"
  /\ p.outcome = outcome
  /\ p.spent = spent
  /\ passes' = passes + 1
  /\ spentTotal' = spentTotal + spent
  /\ best' = IF best = NoPass \/ beats(p, best) THEN p ELSE best
  /\ ran' = Append(ran, p)
  /\ \/ /\ Stops(p)
        /\ pc' = "returned"
        /\ UNCHANGED previous
     \/ /\ ~Stops(p)
        /\ pc' = "between"
        /\ previous' = Baseline(p)
     \/ /\ HasHistory
        /\ pc' = "threw"
        /\ UNCHANGED previous
  /\ UNCHANGED passVars

EndPass ==
  /\ outcome # "running"
  /\ \E q \in Levels \union {None}, n \in 1..MaxPassSteps :
       Compare([outcome |-> outcome, quality |-> q, spent |-> spent, steps |-> n])

Next == StartPass \/ BudgetExhausted \/ RunPass \/ EndPass

\* A pass that is running ends: LoopRunner's RunEnds.
Fairness ==
  /\ WF_vars(StartPass \/ BudgetExhausted \/ EndPass)
  /\ WF_vars(RunPass /\ outcome' # "running")

Spec == Init /\ [][Next]_vars
FairSpec == Spec /\ Fairness

----------------------------------------------------------------------------
(* Properties                                                              *)

TypeOK ==
  /\ pc \in {"between", "running", "returned", "threw"}
  /\ outcome \in {"running"} \union PassOutcomes
  /\ spent \in Nat
  /\ holds \in BOOLEAN
  /\ passes \in 0..Loops
  /\ spentTotal \in Nat
  /\ previous \in Levels \union {None}
  /\ best \in Passes \union {NoPass}
  /\ ran \in Seq(Passes) /\ Len(ran) <= Loops

\* The documented order: "goal-met first, then higher quality, then lower
\* cost, then fewer steps".
Better(p, q) ==
  \/ Met(p) /\ ~Met(q)
  \/ /\ Met(p) = Met(q)
     /\ \/ p.quality > q.quality
        \/ /\ p.quality = q.quality
           /\ \/ p.spent < q.spent
              \/ p.spent = q.spent /\ p.steps < q.steps

\* "A refinement pass that makes things worse is never returned": what is
\* returned is a pass that ran, and no pass that ran is better, although each
\* was compared with one other and a score may be missing on either side.
NeverWorse ==
  pc = "returned" =>
    /\ \E i \in DOMAIN ran : ran[i] = best
    /\ \A i \in DOMAIN ran : ~Better(ran[i], best)

\* The refinement overshoots its budget by less than the one pass it could
\* no longer stop, and a pass overshoots its own by less than one call.
OvershootIsOnePass ==
  /\ passes > 0 => spentTotal < TotalBudget + Budget + MaxCost
  /\ pc = "running" => passes = 0 \/ spentTotal < TotalBudget

\* Refining goes on only while it improves: of the passes that were followed
\* by another, every one that was scored is better than the scored one before
\* it, however many unscored ones lie between (the anti-oscillation rule).
ScoresKeepRising ==
  \A i, j \in DOMAIN ran :
    i < j /\ j < Len(ran) /\ ran[i].quality # None /\ ran[j].quality # None
      => ran[j].quality >= ran[i].quality + MinImprovement

\* A refinement comes to an end, whatever its passes report.
RefinementEnds == <>(pc \in {"returned", "threw"})

\* goal-met: "The success condition held. The only outcome that means 'done'"
\* (LoopOutcome).  A caller that is told so finds it so.
ReturnedGoalHolds == pc = "returned" /\ Met(best) => holds
=============================================================================
