---------------------------- MODULE LoopRunner ----------------------------
(***************************************************************************)
(* The standalone loop (src/runner.ts), with the policies it is built      *)
(* from: the budget (src/budget.ts), the model ladder (src/routing.ts),    *)
(* the detectors (src/signals.ts), the judge's latch (src/laya.ts), the    *)
(* attention router and the review gate (src/review.ts).                   *)
(*                                                                         *)
(* A step is: verdict, route, detectors, judge, perhaps the operator, one  *)
(* model call, the tools it asks for, each behind the gate, and the check  *)
(* of the success condition.  The model, the tools, the judge and the      *)
(* operator are external: they answer anything, or fail.                   *)
(*                                                                         *)
(* Money is counted in small whole units, a judge's score in whole levels. *)
(***************************************************************************)
EXTENDS Review

CONSTANTS
  MaxSteps,       \* spec.maxSteps
  Budget,         \* spec.costBudgetUSD
  MaxCost,        \* the most one call costs; bounds the model
  WarnTenths,     \* warnAt and budgetWarnFraction, in tenths
  MaxRung,        \* the ladder's ceiling
  StepsPerRung,   \* spec.controller.stepsPerRung, 0 for none
  StepCap,        \* maxCostUSDPerStep of each rung
  MaxCalls,       \* tool calls in one message; bounds the model
  Tools,          \* the tools offered
  Reversibility,  \* phase.actuator, or what the tool declares
  CycleLength,    \* DEFAULT_THRESHOLDS.cycleLength
  ErrorCascade,   \* DEFAULT_THRESHOLDS.errorCascade
  ReviewSteps,    \* 1 / reviewBudget: one review in so many steps
  MaxPremature,   \* maxPrematureStops
  HasCheck,       \* options.checkSuccess is supplied
  HasOperator,    \* options.onReview is supplied
  Questioner      \* options.questioner is supplied

ASSUME RunnerAssumption ==
  /\ MaxSteps \in Nat \ {0}
  /\ Budget \in Nat \ {0}
  /\ MaxCost \in Nat
  /\ WarnTenths \in 1..10
  /\ MaxRung \in Nat
  /\ StepsPerRung \in Nat
  /\ StepCap \in [0..MaxRung -> Nat]
  /\ MaxCalls \in Nat
  /\ Reversibility \in [Tools -> Classes]
  /\ CycleLength \in Nat \ {0}
  /\ ErrorCascade \in Nat \ {0}
  /\ ReviewSteps \in Nat \ {0}
  /\ MaxPremature \in Nat
  /\ HasCheck \in BOOLEAN
  /\ HasOperator \in BOOLEAN
  /\ Questioner \in BOOLEAN

VARIABLES
  pc,          \* where the loop stands
  step,        \* the step, from 1
  outcome,     \* how the run ended, or "running"
  spent,       \* LoopBudget.spent
  lastCost,    \* lastStepUSD, or NoCost
  rung,        \* ModelLadder.rung
  premature,   \* prematureStops
  recent,      \* the newest observations of the history, as many as detectors read
  score,       \* judgeScore of this step, or NoScore
  judgeDown,   \* OnegwJudge.disabled
  stepsSeen,   \* AttentionRouter.stepsSeen
  reviews,     \* AttentionRouter.reviewsRequested
  calls,       \* tool calls of the message still to be run
  owed,        \* tool calls of the message not yet answered in `messages`
  holds,       \* the success condition, as it stands in the workspace
  cleared,     \* history: the operator let this step go on
  surfaced     \* history: reviews asked because of the judge

moneyVars == <<spent, lastCost, rung>>
judgeVars == <<score, judgeDown>>
routerVars == <<stepsSeen, reviews>>
messageVars == <<calls, owed>>
historyVars == <<cleared, surfaced>>
vars == <<pc, step, outcome, moneyVars, premature, recent, judgeVars, routerVars,
          messageVars, holds, historyVars>>

NoCost == -1

Observation == [tool : Tools \union {"unknown"}, key : {"args", ""}, error : BOOLEAN]

----------------------------------------------------------------------------
(* Detectors                                                               *)

Longest == IF CycleLength > ErrorCascade THEN CycleLength ELSE ErrorCascade

Observe(t, k, e) ==
  recent' = Newest(Longest, Append(recent, [tool |-> t, key |-> k, error |-> e]))

toolCycle == Cycles(CycleLength, recent)

errorCascade == Cascades(ErrorCascade, recent)

mustReview == toolCycle \/ errorCascade

NearBudget == 10 * spent >= WarnTenths * Budget

detectSignals == mustReview \/ NearBudget

----------------------------------------------------------------------------
(* The attention router and the gate                                       *)

\* Slip: any number of reviews up to one a step.
RemainingByCount == stepsSeen = 0 \/ reviews < stepsSeen

budgetRemaining == HasRoom(reviews, stepsSeen, ReviewSteps)

Policy(t) == DefaultPolicy(Reversibility[t])

NeedsReview(t) == Holds(Policy(t), score)

----------------------------------------------------------------------------
(* The ladder                                                              *)

Smaller(a, b) == IF a < b THEN a ELSE b

\* Slip: a rung is climbed one step late.
RungByStepLate(s) ==
  IF StepsPerRung > 0 /\ (s - 2) \div StepsPerRung > rung
  THEN Smaller((s - 2) \div StepsPerRung, MaxRung) ELSE rung

RungByStep(s) ==
  LET wanted == Smaller((s - 1) \div StepsPerRung, MaxRung)
  IN IF StepsPerRung > 0 /\ rung < MaxRung /\ wanted > rung THEN wanted ELSE rung

\* forStep: the step count first, then the last step's price.
RungFor(s) ==
  LET r == RungByStep(s)
  IN IF lastCost # NoCost /\ lastCost > StepCap[r] THEN Smaller(r + 1, MaxRung) ELSE r

----------------------------------------------------------------------------

Init ==
  /\ pc = "step"
  /\ step = 1
  /\ outcome = "running"
  /\ spent = 0
  /\ lastCost = NoCost
  /\ rung = 0
  /\ premature = 0
  /\ recent = <<>>
  /\ score = NoScore
  /\ judgeDown = FALSE
  /\ stepsSeen = 0
  /\ reviews = 0
  /\ calls = 0
  /\ owed = 0
  /\ holds \in BOOLEAN
  /\ cleared = FALSE
  /\ surfaced = 0

\* A judge's score is the step's own.
End(o) == pc' = "done" /\ outcome' = o /\ score' = NoScore

\* The loop's own test, at the head of every step but the first.
NextStep ==
  IF step < MaxSteps
  THEN pc' = "step" /\ step' = step + 1 /\ score' = NoScore /\ UNCHANGED outcome
  ELSE End("budget-stop") /\ UNCHANGED step

----------------------------------------------------------------------------
(* The head of a step: verdict, route, detectors, judge, router            *)

OverBudget ==
  /\ pc = "step"
  /\ spent >= Budget
  /\ End("budget-stop")
  /\ UNCHANGED <<step, moneyVars, premature, recent, judgeDown, routerVars,
                 messageVars, holds, historyVars>>

\* The judge answers under the key it was asked; a failure of any kind, an
\* answer without that key included, turns it off for the run.  A questioner
\* may author a question that is no score, or several questions.
JudgeAnswers ==
  \/ ~judgeDown /\ score' \in Scores /\ UNCHANGED judgeDown
  \/ ~judgeDown /\ Questioner /\ score' = NoScore /\ UNCHANGED judgeDown
  \/ score' = NoScore /\ judgeDown' = TRUE

\* tool-dominance and excessive-steps read the whole history, are never
\* critical, and only have the judge asked: it may be asked in any step.
Judged ==
  \/ JudgeAnswers
  \/ ~detectSignals /\ ~budgetRemaining /\ score' = NoScore /\ UNCHANGED judgeDown

\* Slip: a safety review is rate-limited like the others.
RoutedWithinBudget ==
  LET ask == (mustReview \/ score' >= JudgeThreshold) /\ budgetRemaining
  IN /\ reviews' = IF ask THEN reviews + 1 ELSE reviews
     /\ surfaced' = IF ask /\ ~mustReview THEN surfaced + 1 ELSE surfaced
     /\ pc' = IF ask /\ HasOperator THEN "asking" ELSE "call"
     /\ cleared' = FALSE

\* AttentionRouter.route, and whether it asks the operator.
Routed ==
  LET byJudge == ~mustReview /\ score' >= JudgeThreshold /\ budgetRemaining
      ask == mustReview \/ byJudge
  IN /\ reviews' = IF ask THEN reviews + 1 ELSE reviews
     /\ surfaced' = IF byJudge THEN surfaced + 1 ELSE surfaced
     /\ pc' = IF ask /\ HasOperator THEN "asking" ELSE "call"
     /\ cleared' = FALSE

BeginStep ==
  /\ pc = "step"
  /\ spent < Budget
  /\ rung' = RungFor(step)
  /\ Judged
  /\ Routed
  /\ UNCHANGED <<step, outcome, spent, lastCost, premature, recent, stepsSeen,
                 messageVars, holds>>

OperatorContinues ==
  /\ pc = "asking"
  /\ pc' = "call"
  /\ cleared' = TRUE
  /\ UNCHANGED <<step, outcome, moneyVars, premature, recent, judgeVars, routerVars,
                 messageVars, holds, surfaced>>

\* At either question of the loop.
OperatorAborts ==
  /\ pc \in {"asking", "tool-asking"}
  /\ End("aborted")
  /\ owed' = IF pc = "tool-asking" THEN owed - 1 ELSE owed
  /\ UNCHANGED <<step, moneyVars, premature, recent, judgeDown, routerVars, calls,
                 holds, historyVars>>

----------------------------------------------------------------------------
(* The model call                                                          *)

CallFails ==
  /\ pc = "call"
  /\ End("error")
  /\ UNCHANGED <<step, moneyVars, premature, recent, judgeDown, routerVars,
                 messageVars, holds, historyVars>>

Spend ==
  \E c \in 0..MaxCost :
    /\ spent' = spent + c
    /\ lastCost' = c
    /\ stepsSeen' = stepsSeen + 1
    /\ UNCHANGED <<rung, reviews>>

\* The model stops: the condition decides, and failing it only so often.
ModelStops ==
  /\ pc = "call"
  /\ Spend
  /\ IF HasCheck /\ holds
     THEN End("goal-met") /\ UNCHANGED <<step, premature>>
     ELSE /\ premature' = premature + 1
          /\ IF premature' > MaxPremature
             THEN End("model-stop") /\ UNCHANGED step
             ELSE NextStep
  /\ UNCHANGED <<recent, judgeDown, messageVars, holds, historyVars>>

ModelCallsTools ==
  /\ pc = "call"
  /\ Spend
  /\ \E n \in 1..MaxCalls : calls' = n /\ owed' = n
  /\ pc' = "tool"
  /\ UNCHANGED <<step, outcome, premature, recent, judgeVars, holds, historyVars>>

----------------------------------------------------------------------------
(* The tools of a message, in order                                        *)

\* Slip: a call that cannot be run is skipped without an answer.
SkipBadCall ==
  /\ pc = "tool"
  /\ calls > 0
  /\ calls' = calls - 1
  /\ \E t \in Tools \union {"unknown"} : Observe(t, "", TRUE)
  /\ UNCHANGED <<pc, step, outcome, moneyVars, premature, judgeVars, routerVars,
                 owed, holds, historyVars>>

\* Slip: a call that cannot be run stays at the head of the message.
RetryBadCall ==
  /\ pc = "tool"
  /\ calls > 0
  /\ \E t \in Tools \union {"unknown"} : Observe(t, "", TRUE)
  /\ UNCHANGED <<pc, step, outcome, moneyVars, premature, judgeVars, routerVars,
                 messageVars, holds, historyVars>>

\* An unknown tool, or arguments that are not a JSON object.
BadCall ==
  /\ pc = "tool"
  /\ calls > 0
  /\ calls' = calls - 1
  /\ owed' = owed - 1
  /\ \E t \in Tools \union {"unknown"} : Observe(t, "", TRUE)
  /\ UNCHANGED <<pc, step, outcome, moneyVars, premature, judgeVars, routerVars,
                 holds, historyVars>>

\* Only a tool that writes can change whether the goal holds.
Run(t) ==
  /\ calls' = calls - 1
  /\ owed' = owed - 1
  /\ \E e \in BOOLEAN : Observe(t, "args", e)
  /\ holds' \in IF Reversibility[t] = "read" THEN {holds} ELSE BOOLEAN

RunTool(t) ==
  /\ pc = "tool"
  /\ calls > 0
  /\ ~NeedsReview(t) \/ ~HasOperator
  /\ Run(t)
  /\ UNCHANGED <<pc, step, outcome, moneyVars, premature, judgeVars, routerVars, historyVars>>

AskForTool(t) ==
  /\ pc = "tool"
  /\ calls > 0
  /\ NeedsReview(t)
  /\ HasOperator
  /\ pc' = "tool-asking"
  /\ UNCHANGED <<step, outcome, moneyVars, premature, recent, judgeVars, routerVars,
                 messageVars, holds, historyVars>>

OperatorAllowsTool(t) ==
  /\ pc = "tool-asking"
  /\ NeedsReview(t)
  /\ Run(t)
  /\ pc' = "tool"
  /\ UNCHANGED <<step, outcome, moneyVars, premature, judgeVars, routerVars, historyVars>>

\* Slip: the condition is not looked at after the tools of the last step.
AfterToolsUnchecked ==
  /\ pc = "tool"
  /\ calls = 0
  /\ IF HasCheck /\ holds /\ step < MaxSteps
     THEN End("goal-met") /\ UNCHANGED step
     ELSE NextStep
  /\ UNCHANGED <<moneyVars, premature, recent, judgeDown, routerVars, messageVars,
                 holds, historyVars>>

AfterTools ==
  /\ pc = "tool"
  /\ calls = 0
  /\ IF HasCheck /\ holds
     THEN End("goal-met") /\ UNCHANGED step
     ELSE NextStep
  /\ UNCHANGED <<moneyVars, premature, recent, judgeDown, routerVars, messageVars,
                 holds, historyVars>>

----------------------------------------------------------------------------

\* The loop's own steps, and the answers of a gateway and of tools that
\* have timeouts of their own.
LoopStep ==
  \/ OverBudget \/ BeginStep
  \/ CallFails \/ ModelStops \/ ModelCallsTools
  \/ BadCall \/ AfterTools
  \/ \E t \in Tools : RunTool(t) \/ AskForTool(t)

OperatorStep ==
  \/ OperatorContinues \/ OperatorAborts
  \/ \E t \in Tools : OperatorAllowsTool(t)

Next == LoopStep \/ OperatorStep

Spec == Init /\ [][Next]_vars
FairSpec == Spec /\ WF_vars(LoopStep)

----------------------------------------------------------------------------
(* Properties                                                              *)

TypeOK ==
  /\ pc \in {"step", "asking", "call", "tool", "tool-asking", "done"}
  /\ step \in 1..MaxSteps
  /\ outcome \in {"running", "goal-met", "budget-stop", "model-stop", "aborted", "error"}
  /\ spent \in Nat
  /\ lastCost \in 0..MaxCost \union {NoCost}
  /\ rung \in 0..MaxRung
  /\ premature \in Nat
  /\ recent \in Seq(Observation) /\ Len(recent) <= Longest
  /\ score \in Scores \union {NoScore}
  /\ judgeDown \in BOOLEAN
  /\ stepsSeen \in Nat
  /\ reviews \in Nat
  /\ calls \in 0..MaxCalls
  /\ owed \in 0..MaxCalls
  /\ holds \in BOOLEAN
  /\ cleared \in BOOLEAN
  /\ surfaced \in Nat

\* The model is never called with a tool call of its own left unanswered,
\* which an OpenAI-compatible gateway refuses: each path through the tools
\* of a message answers the call it leaves, and only an abort, after which
\* no call is made, leaves some (src/runner.ts, the loop over toolCalls).
EveryCallAnswered == pc \in {"step", "asking", "call"} => owed = 0

\* No model call is made in a step with a critical signal the operator did
\* not clear in that very step, however many reviews went before: a safety
\* review is never rate-limited (src/review.ts, route; src/runner.ts, 5).
CriticalIsCleared == pc = "call" /\ mustReview /\ HasOperator => cleared

\* The judge takes no more of the operator's attention than the review
\* budget grants for the steps taken, plus the one review being asked.
AttentionIsBudgeted == ReviewSteps * surfaced <= stepsSeen + ReviewSteps

\* The rung is never behind the step count, whatever the price of single steps did
\* in between, up to the ladder's end (ModelLadder.forStep).
LadderKeepsUp ==
  pc = "call" /\ StepsPerRung > 0 => rung >= Smaller((step - 1) \div StepsPerRung, MaxRung)

\* Escalation is sticky: the rung only ever increases (src/routing.ts).
LadderIsSticky == [][rung' >= rung]_vars

\* The run is a pass as its callers know one (LoopPass).
Pass == INSTANCE LoopPass
ImplementsLoopPass == Pass!PassSpec

\* What that comes to for who calls the runner: runLoop returns one outcome, says
\* "goal-met" of what checkSuccess confirmed and of nothing else, and has passed the
\* budget by less than one call (src/runner.ts).
RunKeepsItsWord == Pass!PassKeepsItsWord
RunEndsOnce == Pass!PassEndsOnce

\* Every run comes to an end, unless an operator was asked and never answers.
RunEnds == <>(pc = "done") \/ <>[](pc \in {"asking", "tool-asking"})

\* A reversible write that runs with the operator asked neither about it nor
\* about its step is one the judge found routine: the judge's scale goes up to
\* "worth a look" and "stop" (judgeQuestion), and the gate's parameter is "the
\* judge's confidence" (ReviewGate.check).
UnaskedIsRoutine ==
  [][\A t \in Tools :
       HasOperator /\ ~cleared /\ Policy(t) = "auto-if-confident" /\ RunTool(t)
         => score < JudgeThreshold]_vars
=============================================================================
