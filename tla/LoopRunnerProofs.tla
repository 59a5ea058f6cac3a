-------------------------- MODULE LoopRunnerProofs --------------------------
(***************************************************************************)
(* LoopRunner, proved for any ceilings, prices, ladders, tools and         *)
(* detector lengths: its type invariant, its safety properties, and that   *)
(* it implements LoopPass.                                                 *)
(*                                                                         *)
(* What has to be carried along: the calls left and the answers owed are   *)
(* the same number while a message is worked through (Answering); the      *)
(* judge's reviews are among all reviews, and none is asked twice before   *)
(* the first step is counted (Attentive); the rung the step began with     *)
(* (Climbed); and what a run that goes on has established about its        *)
(* outcome, its money and the goal (Going).                                *)
(***************************************************************************)
EXTENDS LoopRunner, SequenceTheorems, TLAPS

Answering ==
  /\ pc \in {"step", "asking", "call"} => owed = 0
  /\ pc \in {"tool", "tool-asking"} => owed = calls
  /\ pc = "tool-asking" => calls > 0

Attentive ==
  /\ surfaced <= reviews
  /\ pc = "step" /\ stepsSeen = 0 => surfaced = 0
  /\ pc \in {"tool", "tool-asking"} => stepsSeen > 0
  /\ AttentionIsBudgeted

Climbed ==
  pc \in {"asking", "call"} /\ StepsPerRung > 0 =>
    rung >= Smaller((step - 1) \div StepsPerRung, MaxRung)

Going ==
  /\ outcome = "running" <=> pc # "done"
  /\ pc \in {"asking", "call"} => spent < Budget
  /\ pc = "step" /\ spent > 0 /\ HasCheck => ~holds

IInv ==
  /\ TypeOK
  /\ Answering
  /\ CriticalIsCleared
  /\ Attentive
  /\ Climbed
  /\ Going

USE DEF moneyVars, judgeVars, routerVars, messageVars, historyVars

-----------------------------------------------------------------------------
(* Values                                                                  *)

LEMMA LongestType == Longest \in Nat \ {0}
  BY RunnerAssumption DEF RunnerAssumption, Longest

\* The newest n of a history are a history of at most n.
LEMMA NewestType ==
  ASSUME NEW S, NEW s \in Seq(S), NEW n \in Nat \ {0}
  PROVE  Newest(n, s) \in Seq(S) /\ Len(Newest(n, s)) <= n
  <1>1. CASE Len(s) > n
    <2>1. Len(s) - n + 1 \in 1..Len(s) /\ Len(s) \in Nat
      BY <1>1
    <2> QED BY <1>1, <2>1, SubSeqProperties DEF Newest, LastN
  <1>2. CASE ~(Len(s) > n)
    BY <1>2 DEF Newest
  <1> QED BY <1>1, <1>2

LEMMA ObserveType ==
  ASSUME recent \in Seq(Observation), NEW t \in Tools \union {"unknown"},
         NEW k \in {"args", ""}, NEW e \in BOOLEAN, Observe(t, k, e)
  PROVE  recent' \in Seq(Observation) /\ Len(recent') <= Longest
  <1>1. [tool |-> t, key |-> k, error |-> e] \in Observation
    BY DEF Observation
  <1>2. Append(recent, [tool |-> t, key |-> k, error |-> e]) \in Seq(Observation)
    BY <1>1, AppendProperties
  <1> QED BY <1>2, LongestType, NewestType DEF Observe

\* However the rung was climbed, a step starts at the one its count calls for.
LEMMA RungClimbs ==
  ASSUME TypeOK
  PROVE  /\ RungFor(step) \in 0..MaxRung
         /\ RungFor(step) >= rung
         /\ StepsPerRung > 0 =>
              RungFor(step) >= Smaller((step - 1) \div StepsPerRung, MaxRung)
  <1> DEFINE q == (step - 1) \div StepsPerRung
  <1>1. /\ StepsPerRung \in Nat /\ MaxRung \in Nat /\ rung \in 0..MaxRung
        /\ step - 1 \in Nat
    BY RunnerAssumption DEF RunnerAssumption, TypeOK
  <1>2. StepsPerRung > 0 => q \in Nat
    BY <1>1
  <1>3. /\ RungByStep(step) \in 0..MaxRung /\ RungByStep(step) >= rung
        /\ StepsPerRung > 0 => RungByStep(step) >= Smaller(q, MaxRung)
    <2> HIDE DEF q
    <2>1. RungByStep(step) = IF StepsPerRung > 0 /\ rung < MaxRung /\ Smaller(q, MaxRung) > rung
                             THEN Smaller(q, MaxRung) ELSE rung
      BY DEF RungByStep, q
    <2> QED BY ONLY <1>1, <1>2, <2>1 DEF Smaller
  <1> HIDE DEF q
  <1>4. RungFor(step) = RungByStep(step) \/ RungFor(step) = Smaller(RungByStep(step) + 1, MaxRung)
    BY DEF RungFor
  <1>5. /\ RungFor(step) \in 0..MaxRung /\ RungFor(step) >= rung
        /\ StepsPerRung > 0 => RungFor(step) >= Smaller(q, MaxRung)
    BY ONLY <1>1, <1>2, <1>3, <1>4 DEF Smaller
  <1> QED BY <1>5 DEF q

\* One more review by the judge, asked while the budget has room, is still paid for
\* by the steps taken.
LEMMA RoomIsEnough ==
  ASSUME NEW n \in Nat \ {0}, NEW a \in Nat, NEW b \in Nat, NEW k \in Nat, a <= b,
         n * b < k
  PROVE  n * (a + 1) <= k + n
  <1>1. n * a <= n * b
    BY SMT
  <1>2. n * (a + 1) = n * a + n
    BY SMT
  <1>3. n * a \in Nat /\ n * b \in Nat /\ n * (a + 1) \in Nat
    BY SMT
  <1> QED BY <1>1, <1>2, <1>3, SMT

-----------------------------------------------------------------------------
(* Steps                                                                   *)

LEMMA OverBudgetStep ==
  ASSUME IInv, OverBudget
  PROVE  IInv'
  <1>1. TypeOK'
    BY RunnerAssumption DEF IInv, OverBudget, TypeOK, End, RunnerAssumption
  <1>2. Answering'
    BY DEF IInv, OverBudget, TypeOK, Answering, End
  <1>3. CriticalIsCleared'
    BY DEF IInv, OverBudget, TypeOK, CriticalIsCleared, End
  <1>4. Attentive'
    BY RunnerAssumption DEF IInv, OverBudget, TypeOK, Attentive, End, AttentionIsBudgeted,
                            RunnerAssumption
  <1>5. Climbed'
    BY RunnerAssumption DEF IInv, OverBudget, TypeOK, Climbed, End, RunnerAssumption
  <1>6. Going'
    BY RunnerAssumption DEF IInv, OverBudget, TypeOK, Going, End, RunnerAssumption
  <1> QED BY <1>1, <1>2, <1>3, <1>4, <1>5, <1>6 DEF IInv

LEMMA BeginStepStep ==
  ASSUME IInv, BeginStep
  PROVE  IInv'
  <1>1. TypeOK'
    <2>1. rung' \in 0..MaxRung
      BY RungClimbs DEF IInv, BeginStep
    <2>2. score' \in Scores \union {NoScore} /\ judgeDown' \in BOOLEAN
      BY DEF IInv, TypeOK, BeginStep, Judged, JudgeAnswers
    <2>3. pc' \in {"asking", "call"} /\ cleared' \in BOOLEAN
      BY DEF BeginStep, Routed
    <2>4. reviews' \in {reviews, reviews + 1} /\ surfaced' \in {surfaced, surfaced + 1}
      BY DEF BeginStep, Routed
    <2> QED BY <2>1, <2>2, <2>3, <2>4 DEF IInv, TypeOK, BeginStep
  <1>2. Answering'
    BY DEF IInv, BeginStep, TypeOK, Answering, Routed
  <1>3. CriticalIsCleared'
    BY DEF IInv, BeginStep, TypeOK, CriticalIsCleared, Routed, mustReview, toolCycle,
           errorCascade
  <1>4. Attentive'
    BY RunnerAssumption DEF IInv, BeginStep, TypeOK, Attentive, Judged, JudgeAnswers,
                            Routed, AttentionIsBudgeted, RunnerAssumption
  <1>5. Climbed'
    BY RunnerAssumption, RungClimbs DEF IInv, BeginStep, TypeOK, Climbed, Judged,
           JudgeAnswers, Routed, RunnerAssumption
  <1>6. Going'
    BY RunnerAssumption DEF IInv, BeginStep, TypeOK, Going, Routed, RunnerAssumption
  <1> QED BY <1>1, <1>2, <1>3, <1>4, <1>5, <1>6 DEF IInv

LEMMA OperatorContinuesStep ==
  ASSUME IInv, OperatorContinues
  PROVE  IInv'
  <1>1. TypeOK'
    BY RunnerAssumption DEF IInv, OperatorContinues, TypeOK, RunnerAssumption
  <1>2. Answering'
    BY DEF IInv, OperatorContinues, TypeOK, Answering
  <1>3. CriticalIsCleared'
    BY DEF IInv, OperatorContinues, TypeOK, CriticalIsCleared
  <1>4. Attentive'
    BY RunnerAssumption DEF IInv, OperatorContinues, TypeOK, Attentive, AttentionIsBudgeted,
                            RunnerAssumption
  <1>5. Climbed'
    BY RunnerAssumption DEF IInv, OperatorContinues, TypeOK, Climbed, RunnerAssumption
  <1>6. Going'
    BY RunnerAssumption DEF IInv, OperatorContinues, TypeOK, Going, RunnerAssumption
  <1> QED BY <1>1, <1>2, <1>3, <1>4, <1>5, <1>6 DEF IInv

LEMMA OperatorAbortsStep ==
  ASSUME IInv, OperatorAborts
  PROVE  IInv'
  <1>1. TypeOK'
    BY RunnerAssumption DEF IInv, OperatorAborts, TypeOK, End, RunnerAssumption, Answering
  <1>2. Answering'
    BY DEF IInv, OperatorAborts, TypeOK, Answering, End
  <1>3. CriticalIsCleared'
    BY DEF IInv, OperatorAborts, TypeOK, CriticalIsCleared, End
  <1>4. Attentive'
    BY RunnerAssumption DEF IInv, OperatorAborts, TypeOK, Attentive, End, RunnerAssumption
  <1>5. Climbed'
    BY RunnerAssumption DEF IInv, OperatorAborts, TypeOK, Climbed, End, RunnerAssumption
  <1>6. Going'
    BY RunnerAssumption DEF IInv, OperatorAborts, TypeOK, Going, End, RunnerAssumption
  <1> QED BY <1>1, <1>2, <1>3, <1>4, <1>5, <1>6 DEF IInv

LEMMA CallFailsStep ==
  ASSUME IInv, CallFails
  PROVE  IInv'
  <1>1. TypeOK'
    BY RunnerAssumption DEF IInv, CallFails, TypeOK, End, RunnerAssumption
  <1>2. Answering'
    BY DEF IInv, CallFails, TypeOK, Answering, End
  <1>3. CriticalIsCleared'
    BY DEF IInv, CallFails, TypeOK, CriticalIsCleared, End
  <1>4. Attentive'
    BY RunnerAssumption DEF IInv, CallFails, TypeOK, Attentive, End, AttentionIsBudgeted,
                            RunnerAssumption
  <1>5. Climbed'
    BY RunnerAssumption DEF IInv, CallFails, TypeOK, Climbed, End, RunnerAssumption
  <1>6. Going'
    BY RunnerAssumption DEF IInv, CallFails, TypeOK, Going, End, RunnerAssumption
  <1> QED BY <1>1, <1>2, <1>3, <1>4, <1>5, <1>6 DEF IInv

LEMMA ModelStopsStep ==
  ASSUME IInv, ModelStops
  PROVE  IInv'
  <1>1. TypeOK'
    BY RunnerAssumption DEF IInv, ModelStops, TypeOK, Spend, End, NextStep, RunnerAssumption
  <1>2. Answering'
    BY DEF IInv, ModelStops, TypeOK, Answering, Spend, End, NextStep
  <1>3. CriticalIsCleared'
    BY DEF IInv, ModelStops, TypeOK, CriticalIsCleared, End, NextStep
  <1>4. Attentive'
    BY RunnerAssumption DEF IInv, ModelStops, TypeOK, Attentive, Spend, AttentionIsBudgeted,
                            RunnerAssumption
  <1>5. Climbed'
    BY RunnerAssumption DEF IInv, ModelStops, TypeOK, Climbed, Spend, NextStep,
                            RunnerAssumption
  <1>6. Going'
    BY RunnerAssumption DEF IInv, ModelStops, TypeOK, Going, Spend, End, NextStep,
                            RunnerAssumption
  <1> QED BY <1>1, <1>2, <1>3, <1>4, <1>5, <1>6 DEF IInv

LEMMA ModelCallsToolsStep ==
  ASSUME IInv, ModelCallsTools
  PROVE  IInv'
  <1>1. TypeOK'
    BY RunnerAssumption DEF IInv, ModelCallsTools, TypeOK, RunnerAssumption
  <1>2. Answering'
    BY DEF IInv, ModelCallsTools, TypeOK, Answering
  <1>3. CriticalIsCleared'
    BY DEF IInv, ModelCallsTools, TypeOK, CriticalIsCleared
  <1>4. Attentive'
    BY RunnerAssumption DEF IInv, ModelCallsTools, TypeOK, Attentive, Spend,
                            AttentionIsBudgeted, RunnerAssumption
  <1>5. Climbed'
    BY RunnerAssumption DEF IInv, ModelCallsTools, TypeOK, Climbed, Spend, RunnerAssumption
  <1>6. Going'
    BY RunnerAssumption DEF IInv, ModelCallsTools, TypeOK, Going, RunnerAssumption
  <1> QED BY <1>1, <1>2, <1>3, <1>4, <1>5, <1>6 DEF IInv

LEMMA BadCallStep ==
  ASSUME IInv, BadCall
  PROVE  IInv'
  <1>1. TypeOK'
    <2>1. recent' \in Seq(Observation) /\ Len(recent') <= Longest
      BY ObserveType DEF IInv, TypeOK, BadCall
    <2>2. calls' \in 0..MaxCalls /\ owed' \in 0..MaxCalls
      <3>1. pc = "tool" /\ calls > 0 /\ calls' = calls - 1 /\ owed' = owed - 1
        BY DEF BadCall
      <3> QED BY <3>1, RunnerAssumption DEF RunnerAssumption, IInv, TypeOK, Answering
    <2>3. UNCHANGED <<pc, step, outcome, moneyVars, premature, judgeVars, routerVars,
                      holds, historyVars>>
      BY DEF BadCall
    <2> QED BY <2>1, <2>2, <2>3 DEF IInv, TypeOK
  <1>2. Answering'
    BY DEF IInv, BadCall, TypeOK, Answering
  <1>3. CriticalIsCleared'
    BY DEF IInv, BadCall, TypeOK, CriticalIsCleared
  <1>4. Attentive'
    BY RunnerAssumption DEF IInv, BadCall, TypeOK, Attentive, AttentionIsBudgeted,
                            RunnerAssumption
  <1>5. Climbed'
    BY RunnerAssumption DEF IInv, BadCall, TypeOK, Climbed, RunnerAssumption
  <1>6. Going'
    BY RunnerAssumption DEF IInv, BadCall, TypeOK, Going, RunnerAssumption
  <1> QED BY <1>1, <1>2, <1>3, <1>4, <1>5, <1>6 DEF IInv

LEMMA RunToolStep ==
  ASSUME IInv, NEW t \in Tools, RunTool(t)
  PROVE  IInv'
  <1>1. TypeOK'
    <2>1. recent' \in Seq(Observation) /\ Len(recent') <= Longest
      BY ObserveType DEF IInv, TypeOK, RunTool, Run
    <2>2. calls' \in 0..MaxCalls /\ owed' \in 0..MaxCalls
      BY RunnerAssumption DEF RunnerAssumption, IInv, TypeOK, RunTool, Run
    <2>3. /\ pc' = "tool" /\ holds' \in BOOLEAN
          /\ UNCHANGED <<step, outcome, moneyVars, premature, judgeVars, routerVars, historyVars>>
      BY DEF IInv, TypeOK, RunTool, Run
    <2> QED BY <2>1, <2>2, <2>3 DEF IInv, TypeOK
  <1>2. Answering'
    BY DEF IInv, RunTool, TypeOK, Answering, Run
  <1>3. CriticalIsCleared'
    BY DEF IInv, RunTool, TypeOK, CriticalIsCleared, Run
  <1>4. Attentive'
    BY RunnerAssumption DEF IInv, RunTool, TypeOK, Attentive, AttentionIsBudgeted,
                            RunnerAssumption
  <1>5. Climbed'
    BY RunnerAssumption DEF IInv, RunTool, TypeOK, Climbed, RunnerAssumption
  <1>6. Going'
    BY RunnerAssumption DEF IInv, RunTool, TypeOK, Going, RunnerAssumption
  <1> QED BY <1>1, <1>2, <1>3, <1>4, <1>5, <1>6 DEF IInv

LEMMA AskForToolStep ==
  ASSUME IInv, NEW t \in Tools, AskForTool(t)
  PROVE  IInv'
  <1>1. TypeOK'
    BY RunnerAssumption DEF IInv, AskForTool, TypeOK, RunnerAssumption
  <1>2. Answering'
    BY DEF IInv, AskForTool, TypeOK, Answering
  <1>3. CriticalIsCleared'
    BY DEF IInv, AskForTool, TypeOK, CriticalIsCleared
  <1>4. Attentive'
    BY RunnerAssumption DEF IInv, AskForTool, TypeOK, Attentive, RunnerAssumption
  <1>5. Climbed'
    BY RunnerAssumption DEF IInv, AskForTool, TypeOK, Climbed, RunnerAssumption
  <1>6. Going'
    BY RunnerAssumption DEF IInv, AskForTool, TypeOK, Going, RunnerAssumption
  <1> QED BY <1>1, <1>2, <1>3, <1>4, <1>5, <1>6 DEF IInv

LEMMA OperatorAllowsToolStep ==
  ASSUME IInv, NEW t \in Tools, OperatorAllowsTool(t)
  PROVE  IInv'
  <1>1. TypeOK'
    <2>1. recent' \in Seq(Observation) /\ Len(recent') <= Longest
      BY ObserveType DEF IInv, TypeOK, OperatorAllowsTool, Run
    <2>2. calls' \in 0..MaxCalls /\ owed' \in 0..MaxCalls
      BY RunnerAssumption DEF RunnerAssumption, IInv, TypeOK, Answering, OperatorAllowsTool,
                              Run
    <2>3. /\ pc' = "tool" /\ holds' \in BOOLEAN
          /\ UNCHANGED <<step, outcome, moneyVars, premature, judgeVars, routerVars, historyVars>>
      BY DEF IInv, TypeOK, OperatorAllowsTool, Run
    <2> QED BY <2>1, <2>2, <2>3 DEF IInv, TypeOK
  <1>2. Answering'
    BY DEF IInv, OperatorAllowsTool, TypeOK, Answering, Run
  <1>3. CriticalIsCleared'
    BY DEF IInv, OperatorAllowsTool, TypeOK, CriticalIsCleared, Run
  <1>4. Attentive'
    BY RunnerAssumption DEF IInv, OperatorAllowsTool, TypeOK, Attentive,
                            AttentionIsBudgeted, RunnerAssumption
  <1>5. Climbed'
    BY RunnerAssumption DEF IInv, OperatorAllowsTool, TypeOK, Climbed, Run, RunnerAssumption
  <1>6. Going'
    BY RunnerAssumption DEF IInv, OperatorAllowsTool, TypeOK, Going, Run, RunnerAssumption
  <1> QED BY <1>1, <1>2, <1>3, <1>4, <1>5, <1>6 DEF IInv

LEMMA AfterToolsStep ==
  ASSUME IInv, AfterTools
  PROVE  IInv'
  <1>1. TypeOK'
    BY RunnerAssumption DEF IInv, AfterTools, TypeOK, End, NextStep, RunnerAssumption
  <1>2. Answering'
    BY DEF IInv, AfterTools, TypeOK, Answering, End, NextStep
  <1>3. CriticalIsCleared'
    BY DEF IInv, AfterTools, TypeOK, CriticalIsCleared, End, NextStep
  <1>4. Attentive'
    BY RunnerAssumption DEF IInv, AfterTools, TypeOK, Attentive, End, NextStep,
                            AttentionIsBudgeted, RunnerAssumption
  <1>5. Climbed'
    BY RunnerAssumption DEF IInv, AfterTools, TypeOK, Climbed, End, NextStep,
                            RunnerAssumption
  <1>6. Going'
    BY RunnerAssumption DEF IInv, AfterTools, TypeOK, Going, End, NextStep, RunnerAssumption
  <1> QED BY <1>1, <1>2, <1>3, <1>4, <1>5, <1>6 DEF IInv

LEMMA InitHolds == Init => IInv
  <1> SUFFICES ASSUME Init PROVE IInv
    OBVIOUS
  <1>1. TypeOK
    BY RunnerAssumption, LongestType DEF RunnerAssumption, Init, TypeOK
  <1>2. Answering /\ CriticalIsCleared /\ Climbed
    BY DEF Init, Answering, CriticalIsCleared, Climbed
  <1>3. Attentive /\ Going
    BY RunnerAssumption DEF RunnerAssumption, Init, Attentive, AttentionIsBudgeted, Going
  <1> QED BY <1>1, <1>2, <1>3 DEF IInv

LEMMA StutterStep == IInv /\ UNCHANGED vars => IInv'
  BY DEF IInv, vars, TypeOK, Answering, CriticalIsCleared, mustReview, toolCycle,
         errorCascade, Attentive, AttentionIsBudgeted, Climbed, Going

LEMMA NextKeeps == IInv /\ [Next]_vars => IInv'
  BY OverBudgetStep, BeginStepStep, OperatorContinuesStep, OperatorAbortsStep, CallFailsStep,
     ModelStopsStep, ModelCallsToolsStep, BadCallStep, RunToolStep, AskForToolStep,
     OperatorAllowsToolStep, AfterToolsStep, StutterStep DEF Next, LoopStep, OperatorStep

LEMMA Invariance == Spec => []IInv
  BY InitHolds, NextKeeps, PTL DEF Spec

-----------------------------------------------------------------------------

\* The loop's variables keep their types, the histories the detectors read included.
THEOREM RunnerTypeCorrect == Spec => []TypeOK
  BY Invariance, PTL DEF IInv

\* No model call follows a tool call that was not answered (the loop over toolCalls).
THEOREM CallsAreAnswered == Spec => []EveryCallAnswered
  <1>1. IInv => EveryCallAnswered
    BY DEF IInv, Answering, EveryCallAnswered
  <1> QED BY <1>1, Invariance, PTL

\* A critical signal stops the next model call until the operator has cleared it,
\* for any detector lengths and any review budget (AttentionRouter.route).
THEOREM CriticalSignalsAreCleared == Spec => []CriticalIsCleared
  BY Invariance, PTL DEF IInv

\* The judge's reviews stay within the share of the steps taken (budgetRemaining).
THEOREM AttentionStaysBudgeted == Spec => []AttentionIsBudgeted
  BY Invariance, PTL DEF IInv, Attentive

\* The rung is never below what the step count calls for (ModelLadder.forStep).
THEOREM TheLadderKeepsUp == Spec => []LadderKeepsUp
  <1>1. IInv => LadderKeepsUp
    BY DEF IInv, Climbed, LadderKeepsUp
  <1> QED BY <1>1, Invariance, PTL

\* No step lowers the rung, the ones that climb by price included.
THEOREM TheLadderIsSticky == Spec => LadderIsSticky
  <1>1. IInv /\ BeginStep => rung' >= rung
    BY RungClimbs DEF IInv, BeginStep
  <1>2. IInv /\ UNCHANGED rung => rung' >= rung
    BY DEF IInv, TypeOK
  <1>3. IInv /\ [Next]_vars => [rung' >= rung]_vars
    BY <1>1, <1>2 DEF Next, LoopStep, OperatorStep, vars, OverBudget, OperatorContinues,
                      OperatorAborts, CallFails, ModelStops, ModelCallsTools, Spend,
                      BadCall, RunTool, AskForTool, OperatorAllowsTool, AfterTools
  <1> QED BY <1>3, Invariance, PTL DEF Spec, LadderIsSticky

-----------------------------------------------------------------------------
(* The refinement                                                          *)

\* Each step of the loop pays for at most one call, begun below the budget, and
\* ends the run with an outcome the goal bears out.
LEMMA StepIsPass ==
  ASSUME IInv, Next
  PROVE  Pass!PassStep \/ UNCHANGED Pass!passVars
  <1> USE DEF Pass!PassStep, Pass!passVars, Pass!Pays, Pass!MaySay, Pass!Outcomes
  <1>1. CASE OverBudget
    BY <1>1, RunnerAssumption DEF RunnerAssumption, IInv, TypeOK, Going, OverBudget
  <1>2. CASE BeginStep
    BY <1>2 DEF BeginStep
  <1>3. CASE OperatorContinues
    BY <1>3 DEF OperatorContinues
  <1>4. CASE OperatorAborts
    BY <1>4 DEF IInv, TypeOK, Going, OperatorAborts, End
  <1>5. CASE CallFails
    BY <1>5 DEF IInv, TypeOK, Going, CallFails, End
  <1>6. ASSUME Spend, pc = "call" PROVE Pass!Pays
    BY <1>6, RunnerAssumption DEF RunnerAssumption, IInv, TypeOK, Going, Spend
  <1>7. CASE ModelStops
    <2>1. Pass!Pays /\ holds' = holds /\ outcome = "running"
      BY <1>6, <1>7 DEF IInv, Going, ModelStops
    <2>2. /\ outcome' \in {"running", "goal-met", "model-stop", "budget-stop"}
          /\ outcome' = "goal-met" => HasCheck /\ holds
          /\ outcome' \in {"model-stop", "budget-stop"} => ~(HasCheck /\ holds)
      BY <1>7, <2>1 DEF ModelStops, End, NextStep
    <2> QED BY <2>1, <2>2 DEF IInv, TypeOK
  <1>8. CASE ModelCallsTools
    BY <1>6, <1>8 DEF IInv, TypeOK, Going, ModelCallsTools
  <1>9. CASE BadCall
    BY <1>9 DEF BadCall
  <1>10. ASSUME NEW t \in Tools, RunTool(t) \/ AskForTool(t) \/ OperatorAllowsTool(t)
         PROVE  Pass!PassStep \/ UNCHANGED Pass!passVars
    BY <1>10 DEF IInv, TypeOK, Going, RunTool, AskForTool, OperatorAllowsTool, Run
  <1>11. CASE AfterTools
    BY <1>11 DEF IInv, TypeOK, Going, AfterTools, End, NextStep
  <1> QED BY <1>1, <1>2, <1>3, <1>4, <1>5, <1>7, <1>8, <1>9, <1>10, <1>11
          DEF Next, LoopStep, OperatorStep

\* A run of the loop is a pass: it ends once and says the goal is met exactly when
\* the condition holds, within the budget and one call (runLoop).
THEOREM RunnerImplementsLoopPass == Spec => ImplementsLoopPass
  <1>1. Init => Pass!PassInit
    BY DEF Init, Pass!PassInit
  <1>2. IInv /\ [Next]_vars => [Pass!PassStep]_(Pass!passVars)
    <2>1. UNCHANGED vars => UNCHANGED Pass!passVars
      BY DEF vars, Pass!passVars
    <2> QED BY <2>1, StepIsPass
  <1> QED BY <1>1, <1>2, Invariance, PTL DEF Spec, ImplementsLoopPass, Pass!PassSpec

\* What the abstract pass carries along, for any budget and price of a call.
PassInv ==
  /\ spent \in Nat
  /\ holds \in BOOLEAN
  /\ Pass!PassKeepsItsWord

LEMMA PassInvariance == Pass!PassSpec => []PassInv
  <1> USE DEF PassInv, Pass!PassKeepsItsWord, Pass!passVars
  <1>1. Pass!PassInit => PassInv
    BY RunnerAssumption DEF RunnerAssumption, Pass!PassInit, Pass!Outcomes
  <1>2. ASSUME PassInv, Pass!PassStep PROVE PassInv'
    <2>1. spent' \in Nat /\ spent' < Budget + MaxCost
      BY <1>2, RunnerAssumption DEF RunnerAssumption, Pass!PassStep, Pass!Pays
    <2>2. holds' \in BOOLEAN
      BY <1>2 DEF Pass!PassStep
    <2>3. CASE outcome' = "running"
      BY <2>1, <2>2, <2>3
    <2>4. CASE outcome' \in Pass!Outcomes /\ Pass!MaySay(outcome', holds')
      BY <2>1, <2>2, <2>4 DEF Pass!MaySay, Pass!Outcomes
    <2> QED BY <1>2, <2>3, <2>4 DEF Pass!PassStep
  <1>3. ASSUME PassInv, UNCHANGED Pass!passVars PROVE PassInv'
    BY <1>3
  <1>4. PassInv /\ [Pass!PassStep]_(Pass!passVars) => PassInv'
    BY <1>2, <1>3
  <1> QED BY <1>1, <1>4, PTL DEF Pass!PassSpec

\* Whatever implements the pass keeps its word and ends once: the two facts the
\* keep-best layer and every other caller of runLoop build on.
THEOREM PassWordIsKept == Pass!PassSpec => []RunKeepsItsWord /\ RunEndsOnce
  <1>1. PassInv => RunKeepsItsWord
    BY DEF PassInv, RunKeepsItsWord
  <1>2. [Pass!PassStep]_(Pass!passVars) => [outcome = "running"]_(Pass!passVars)
    BY DEF Pass!PassStep
  <1> QED BY <1>1, <1>2, PassInvariance, PTL DEF Pass!PassSpec, RunEndsOnce, Pass!PassEndsOnce

\* A run of the loop spends less than its budget and one call, says the goal is met
\* exactly when the condition holds, and ends once (runLoop's LoopOutcome).
THEOREM RunsKeepTheirWord == Spec => []RunKeepsItsWord /\ RunEndsOnce
  BY RunnerImplementsLoopPass, PassWordIsKept, PTL DEF ImplementsLoopPass

-----------------------------------------------------------------------------
(* How long a run can be                                                   *)

\* What a step of the loop can still cost: a message of MaxCalls calls, each
\* asked for and run, and the places it goes through.
StepLength == 2 * MaxCalls + 5

LeftOfStep ==
  IF pc = "step" THEN StepLength - 1
  ELSE IF pc = "asking" THEN StepLength - 2
  ELSE IF pc = "call" THEN StepLength - 3
  ELSE IF pc = "tool" THEN 2 * calls + 1
  ELSE 2 * calls

\* The most that can still happen before the run is over.
WorkLeft == IF pc = "done" THEN 0 ELSE (MaxSteps - step) * StepLength + LeftOfStep

\* Every step of a run, whoever takes it, brings its end nearer.
EveryStepCounts == [][WorkLeft' < WorkLeft]_vars

LEMMA LengthsAreNumbers ==
  /\ MaxSteps \in Nat \ {0} /\ MaxCalls \in Nat
  /\ StepLength \in Nat /\ StepLength >= 5
BY RunnerAssumption DEF RunnerAssumption, StepLength

\* Arithmetic the solver does not do under a prime.
LEMMA Doubled ==
  ASSUME NEW m \in Nat, NEW n \in 0..m
  PROVE  2 * n + 1 \in Nat /\ 2 * n \in Nat /\ 2 * n + 1 < 2 * m + 2
OBVIOUS

LEMMA WorkIsANumber ==
  ASSUME TypeOK
  PROVE  /\ WorkLeft \in Nat
         /\ pc # "done" /\ (pc = "tool-asking" => calls > 0)
              => LeftOfStep \in 1..(StepLength - 1) /\ WorkLeft > 0
<1>1. LeftOfStep \in 0..(StepLength - 1)
  BY LengthsAreNumbers DEF TypeOK, LeftOfStep, StepLength
<1>2. (pc = "tool-asking" => calls > 0) /\ pc # "done" => LeftOfStep >= 1
  BY LengthsAreNumbers DEF TypeOK, LeftOfStep, StepLength
<1>3. MaxSteps - step \in Nat
  BY LengthsAreNumbers DEF TypeOK
<1>4. (MaxSteps - step) * StepLength \in Nat
  BY <1>3, LengthsAreNumbers
<1> HIDE DEF LeftOfStep, StepLength
<1>5. QED
  BY <1>1, <1>2, <1>4, LengthsAreNumbers DEF WorkLeft

\* A step within a step of the loop.
LEMMA WithinAStep ==
  ASSUME TypeOK, pc # "done", pc' # "done", step' = step, LeftOfStep' < LeftOfStep,
         LeftOfStep \in Nat, LeftOfStep' \in Nat
  PROVE  WorkLeft' < WorkLeft
<1>1. (MaxSteps - step) * StepLength \in Nat
  BY LengthsAreNumbers DEF TypeOK
<1>2. (MaxSteps - step') * StepLength' = (MaxSteps - step) * StepLength
  BY DEF StepLength
<1>3. WorkLeft' = (MaxSteps - step) * StepLength + LeftOfStep'
  BY <1>2 DEF WorkLeft
<1> HIDE DEF LeftOfStep, StepLength
<1>4. QED
  BY <1>1, <1>3 DEF WorkLeft

LEMMA ToTheNextStep ==
  ASSUME IInv, pc # "done", NextStep
  PROVE  WorkLeft' < WorkLeft
<1>1. WorkLeft \in Nat /\ LeftOfStep \in 1..(StepLength - 1) /\ WorkLeft > 0
  BY WorkIsANumber DEF IInv, Answering
<1>2. CASE pc' = "done"
  BY <1>1, <1>2 DEF WorkLeft
<1>3. CASE pc' # "done"
  <2>1. step' = step + 1 /\ pc' = "step" /\ step \in Nat
    BY <1>3 DEF NextStep, End, IInv, TypeOK
  <2>2. WorkLeft' = (MaxSteps - (step + 1)) * StepLength + (StepLength - 1)
    BY <2>1 DEF WorkLeft, LeftOfStep, StepLength
  <2>3. (MaxSteps - (step + 1)) * StepLength + StepLength = (MaxSteps - step) * StepLength
    BY <2>1, LengthsAreNumbers
  <2>4. (MaxSteps - (step + 1)) * StepLength \in Int
    BY <2>1, LengthsAreNumbers
  <2>5. WorkLeft = (MaxSteps - step) * StepLength + LeftOfStep
    BY DEF WorkLeft
  <2> HIDE DEF LeftOfStep, StepLength
  <2>6. QED
    BY <1>1, <2>2, <2>3, <2>4, <2>5, LengthsAreNumbers
<1>4. QED
  BY <1>2, <1>3

LEMMA WorkShrinks == IInv /\ IInv' /\ Next => WorkLeft' < WorkLeft
<1> SUFFICES ASSUME IInv, IInv', Next PROVE WorkLeft' < WorkLeft
  OBVIOUS
<1>1. pc # "done"
  BY DEF Next, LoopStep, OperatorStep, OverBudget, BeginStep, CallFails, ModelStops,
         ModelCallsTools, BadCall, AfterTools, RunTool, AskForTool, OperatorContinues,
         OperatorAborts, OperatorAllowsTool
<1>2. /\ WorkLeft \in Nat /\ WorkLeft > 0
      /\ LeftOfStep \in Nat
  BY <1>1, WorkIsANumber, LengthsAreNumbers DEF IInv, Answering
<1>3. ASSUME pc' = "done" PROVE WorkLeft' < WorkLeft
  BY <1>2, <1>3 DEF WorkLeft
<1>4. ASSUME pc' # "done", step' = step, LeftOfStep' < LeftOfStep PROVE WorkLeft' < WorkLeft
  <2>1. LeftOfStep' \in Nat
    <3>1. 2 * calls' + 1 \in Nat /\ 2 * calls' \in Nat
      BY LengthsAreNumbers, Doubled DEF IInv, TypeOK
    <3>2. StepLength' = StepLength /\ StepLength - 1 \in Nat /\ StepLength - 2 \in Nat
          /\ StepLength - 3 \in Nat
      BY LengthsAreNumbers DEF StepLength
    <3> HIDE DEF StepLength
    <3>3. QED
      BY <3>1, <3>2, LengthsAreNumbers DEF LeftOfStep
  <2>2. QED
    BY <1>1, <1>2, <1>4, <2>1, WithinAStep DEF IInv
<1>5. calls \in Nat /\ calls' \in 0..MaxCalls /\ MaxCalls \in Nat
  BY LengthsAreNumbers DEF IInv, TypeOK
<1>6. CASE OverBudget \/ CallFails \/ OperatorAborts
  BY <1>3, <1>6 DEF OverBudget, CallFails, OperatorAborts, End
<1>7. CASE BeginStep \/ OperatorContinues
  <2>1. step' = step /\ StepLength' = StepLength
    BY <1>7 DEF BeginStep, OperatorContinues, StepLength
  <2>2. \/ pc = "step" /\ pc' \in {"asking", "call"}
        \/ pc = "asking" /\ pc' = "call"
    BY <1>7 DEF BeginStep, Routed, OperatorContinues
  <2>3. LeftOfStep' < LeftOfStep
    BY <2>1, <2>2, LengthsAreNumbers DEF LeftOfStep
  <2>4. QED
    BY <1>4, <2>1, <2>2, <2>3
<1>8. CASE ModelStops
  BY <1>1, <1>3, <1>8, ToTheNextStep DEF ModelStops, End
<1>9. CASE AfterTools
  BY <1>1, <1>3, <1>9, ToTheNextStep DEF AfterTools, End
<1>10. CASE ModelCallsTools
  <2>1. step' = step /\ pc = "call" /\ pc' = "tool"
    BY <1>10 DEF ModelCallsTools
  <2>2. LeftOfStep = 2 * MaxCalls + 2 /\ LeftOfStep' = 2 * calls' + 1
    BY <1>5, <2>1 DEF LeftOfStep, StepLength
  <2>3. 2 * calls' + 1 < 2 * MaxCalls + 2
    BY <1>5, Doubled
  <2>4. LeftOfStep' < LeftOfStep
    BY <2>2, <2>3
  <2>5. QED
    BY <1>4, <2>1, <2>4
<1>11. CASE BadCall \/ \E t \in Tools : RunTool(t) \/ OperatorAllowsTool(t)
  <2>1. /\ step' = step /\ pc' = "tool" /\ pc \in {"tool", "tool-asking"}
        /\ calls' = calls - 1
    BY <1>11 DEF BadCall, RunTool, OperatorAllowsTool, Run
  <2>2. LeftOfStep' < LeftOfStep
    BY <1>5, <2>1 DEF LeftOfStep
  <2>3. QED
    BY <1>4, <2>1, <2>2
<1>12. CASE \E t \in Tools : AskForTool(t)
  <2>1. step' = step /\ pc = "tool" /\ pc' = "tool-asking" /\ calls' = calls
    BY <1>12 DEF AskForTool
  <2>2. LeftOfStep' < LeftOfStep
    BY <1>5, <2>1 DEF LeftOfStep
  <2>3. QED
    BY <1>4, <2>1, <2>2
<1>13. QED
  BY <1>6, <1>7, <1>8, <1>9, <1>10, <1>11, <1>12 DEF Next, LoopStep, OperatorStep

\* What does not need fairness of RunEnds: every step of the loop, the model, the
\* tools and the operator uses up a number that was at most MaxSteps * StepLength
\* when the run began, so no run is longer than that, whatever they answer.
THEOREM NoRunIsEndless ==
  Spec => /\ EveryStepCounts
          /\ [](WorkLeft \in 0..(MaxSteps * StepLength))
<1>1. IInv /\ IInv' /\ [Next]_vars => [WorkLeft' < WorkLeft]_vars
  BY WorkShrinks
<1>2. IInv => WorkLeft \in 0..(MaxSteps * StepLength)
  <2> SUFFICES ASSUME IInv PROVE WorkLeft \in 0..(MaxSteps * StepLength)
    OBVIOUS
  <2>1. WorkLeft \in Nat /\ LeftOfStep \in 0..(StepLength - 1)
    BY WorkIsANumber, LengthsAreNumbers DEF IInv, TypeOK, LeftOfStep, StepLength
  <2>2. step \in 1..MaxSteps
    BY DEF IInv, TypeOK
  <2> HIDE DEF LeftOfStep, StepLength
  <2>3. /\ (MaxSteps - step) * StepLength \in Nat /\ MaxSteps * StepLength \in Nat
        /\ (MaxSteps - step) * StepLength + StepLength <= MaxSteps * StepLength
    <3>1. /\ (MaxSteps - step) * StepLength \in Nat
          /\ step * StepLength = (step - 1) * StepLength + StepLength
          /\ (step - 1) * StepLength \in Nat
          /\ MaxSteps * StepLength = (MaxSteps - step) * StepLength + step * StepLength
      BY <2>2, LengthsAreNumbers
    <3>2. QED
      BY <3>1, LengthsAreNumbers
  <2>4. QED
    BY <2>1, <2>3, LengthsAreNumbers DEF WorkLeft
<1>3. QED
  BY <1>1, <1>2, Invariance, PTL DEF Spec, EveryStepCounts

=============================================================================
