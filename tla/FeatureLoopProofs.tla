------------------------- MODULE FeatureLoopProofs -------------------------
(***************************************************************************)
(* FeatureLoop, proved for every budget, every number of turns and every   *)
(* attempt cap.                                                            *)
(*                                                                         *)
(* The argument for the ceilings: the guard leaves room for one step in    *)
(* the phase it let through (GuardedStep), a phase ahead of the run has    *)
(* taken no steps (Ahead), and the test phase is behind its bound by one   *)
(* while a failed test is being fixed, so re-opening it costs at most one  *)
(* step per attempt.  The argument for the money: every drain moves the    *)
(* same amount into the run and into one phase (Totals), and nothing is    *)
(* unpriced when the guard reads the meters (Cursor).  What a phase has    *)
(* spent beyond its ceiling is one call for each way into it (Charged), as *)
(* a phase not yet entered has spent nothing and the test phase keeps one  *)
(* call's room while a failed test is being fixed (Uncharged).             *)
(***************************************************************************)
EXTENDS FeatureLoop, TLAPS

\* Every settled attempt is priced, or is the one after the cursor.
Cursor ==
  /\ billed = runSpent + unpriced
  /\ unpriced <= MaxCost
  /\ pc \in {"hooked", "request"} => unpriced = 0

Totals == state \in Phases => TotalSpent = runSpent

Buffer ==
  /\ billed > 0 => billed < CallGuard + MaxCost
  /\ pc \in {"hooked", "request"} => billed < CallGuard

\* No call is made after the run ended, but for the one its last step makes.
AfterTheEnd ==
  /\ pc = "hooked" => state \in Phases
  /\ state \in Phases \/ pc = "request" => calls["done"] + calls["blocked"] = 0
  /\ calls["done"] + calls["blocked"] <= 1

\* The pre-step guard found room for one more step in the current phase.
GuardedStep == pc = "hooked" => steps[state] + 1 <= MaxSteps[state]

\* Phases ahead of the run have taken no steps, and until the first fix attempt
\* neither has a phase behind which the run has not yet been.
Ahead ==
  /\ state = "research" => testAttempts = 0 /\ steps["prd"] = 0
  /\ state \in {"research", "prd"} =>
       testAttempts = 0 /\ steps["implement"] = 0
  /\ state \in {"research", "prd", "implement"} /\ testAttempts = 0 => steps["test"] = 0
  /\ state \in Phases \ {"ship"} => steps["ship"] = 0

Ceilings ==
  /\ \A p \in Phases : steps[p] <= MaxSteps[p] + testAttempts
  /\ \A p \in {"research", "prd", "ship"} : steps[p] <= MaxSteps[p]
  /\ state = "implement" /\ testAttempts > 0 =>
       steps["test"] + 1 <= MaxSteps["test"] + testAttempts

\* Every call was counted as a step of the phase it was made in.
Counted ==
  /\ \A p \in Phases : calls[p] <= steps[p]
  /\ pc = "request" /\ state \in Phases => calls[state] + 1 <= steps[state]

IInv ==
  /\ TypeOK
  /\ Cursor
  /\ Totals
  /\ Buffer
  /\ AfterTheEnd
  /\ GuardedStep
  /\ Ahead
  /\ Ceilings
  /\ Counted

----------------------------------------------------------------------------
(* Type correctness                                                        *)

\* Reading the gate leaves the machine and the phase clock well typed, and moves
\* the run along one edge or not at all.
LEMMA GateTypes ==
  ASSUME TypeOK, AdvanceIfGated
  PROVE  /\ state' \in States
         /\ testAttempts' \in Nat
         /\ phaseOver' \in BOOLEAN
         /\ state' \in Phases => state \in Phases
<1> USE DEF TypeOK, States, Phases, Terminal
<1>1. CASE GateHolds
  BY <1>1 DEF GateHolds
<1>2. CASE GatePasses
  BY <1>2 DEF GatePasses, Successor
<1>3. CASE TestFails
  <2>1. phaseOver' \in BOOLEAN
    BY <1>3, Zenon DEF TestFails
  <2>2. QED
    BY <1>3, <2>1 DEF TestFails
<1>4. CASE TestFailsForGood
  BY <1>4 DEF TestFailsForGood
<1>5. QED
  BY <1>1, <1>2, <1>3, <1>4 DEF AdvanceIfGated

\* Draining keeps the meters natural numbers.
LEMMA DrainTypes ==
  ASSUME TypeOK, NEW s, Drain(s)
  PROVE  /\ runSpent' \in Nat
         /\ spent' \in [Phases -> Nat]
         /\ unpriced' \in Nat
         /\ ~noPrice
         /\ UNCHANGED <<noPrice, ranIn, billed, calls>>
BY DEF TypeOK, Drain

LEMMA TypeStep == TypeOK /\ [Next]_vars => TypeOK'
<1> SUFFICES ASSUME TypeOK, [Next]_vars PROVE TypeOK'
  OBVIOUS
<1> USE FeatureLoopAssumption
<1>1. CASE BeginTurn
  BY <1>1 DEF BeginTurn, TypeOK, machine, clock, meter
<1>2. CASE PreStepRefused
  BY <1>2, DrainTypes DEF PreStepRefused, TypeOK, machine, clock
<1>3. CASE PreStep
  <2>1. state \in Phases
    BY <1>3 DEF PreStep, Refused
  <2>2. QED
    BY <1>3, <2>1, DrainTypes DEF PreStep, TypeOK, machine, clock
<1>4. CASE UpstreamRejects
  BY <1>4, GateTypes DEF UpstreamRejects, TypeOK, meter
<1>5. CASE StepRejected
  BY <1>5, GateTypes
  DEF StepRejected, TypeOK, meter, CountStep, RecordPrevious
<1>6. CASE StepEntered
  BY <1>6, GateTypes
  DEF StepEntered, TypeOK, meter, CountStep, RecordPrevious
<1>7. ASSUME NEW cost \in 0..MaxCost, ModelCalls(cost) PROVE TypeOK'
  BY <1>7 DEF ModelCalls, TypeOK, machine, clock
<1>8. CASE ModelFails
  BY <1>8, DrainTypes DEF ModelFails, TypeOK, machine, clock
<1>9. CASE ContinueTurn
  <2>1. StoredStamp \in Stamps
    BY <1>9 DEF ContinueTurn, MayContinue, StoredStamp, Stamps, TypeOK
  <2>2. QED
    BY <1>9, <2>1 DEF ContinueTurn, TypeOK, machine, clock, meter
<1>10. CASE LetTurnStop
  BY <1>10 DEF LetTurnStop, TypeOK, machine, clock, meter
<1>11. CASE EndTurn
  BY <1>11, GateTypes, DrainTypes DEF EndTurn, TypeOK
<1>12. CASE EndTurnUnheard
  BY <1>12 DEF EndTurnUnheard, TypeOK, machine, clock, meter
<1>13. CASE TimePasses
  BY <1>13 DEF TimePasses, TypeOK, machine, meter
<1>14. CASE PreStepThrows
  BY <1>14 DEF PreStepThrows, TypeOK, machine, clock, meter
<1>15. CASE EndTurnThrows
  BY <1>15, GateTypes DEF EndTurnThrows, TypeOK, meter
<1>16. CASE UNCHANGED vars
  BY <1>16 DEF vars, TypeOK, machine, clock, meter
<1>17. QED
  BY <1>1, <1>2, <1>3, <1>4, <1>5, <1>6, <1>7, <1>8, <1>9, <1>10, <1>11,
     <1>12, <1>13, <1>14, <1>15, <1>16 DEF Next

LEMMA InitTypes == Init => TypeOK
<1> SUFFICES ASSUME Init PROVE TypeOK
  OBVIOUS
<1>1. {historyEnabled, runOver, phaseOver, told} \subseteq BOOLEAN
  BY Zenon DEF Init
<1>2. QED
  BY <1>1 DEF Init, TypeOK, States, Phases

\* Every reachable state is well typed (the type invariant of FeatureLoop).
THEOREM LoopTypeCorrect == Spec => []TypeOK
BY InitTypes, TypeStep, PTL DEF Spec

----------------------------------------------------------------------------
(* The money                                                               *)

\* A drain adds what was unpriced to the run and, in a phase, to that phase.
LEMMA DrainTotals ==
  ASSUME TypeOK, NEW s \in States, Drain(s)
  PROVE  /\ runSpent' = runSpent + unpriced
         /\ unpriced' = 0
         /\ billed' = billed
         /\ s \in Phases => TotalSpent' = TotalSpent + unpriced
<1>1. \A p \in Phases : spent'[p] = IF p = s THEN spent[p] + unpriced ELSE spent[p]
  BY DEF Drain
<1>2. {"research", "prd", "implement", "test", "ship"} = Phases
  BY DEF Phases
<1>3. unpriced \in Nat /\ \A p \in Phases : spent[p] \in Nat
  BY DEF TypeOK
<1>4. s \in Phases => TotalSpent' = TotalSpent + unpriced
  BY <1>1, <1>2, <1>3 DEF TotalSpent
<1>5. QED
  BY <1>4 DEF Drain

LEMMA MoneyStep ==
  ASSUME IInv, TypeOK', [Next]_vars
  PROVE  Cursor' /\ Totals' /\ Buffer'
<1> USE FeatureLoopAssumption DEF IInv, Cursor, Totals, Buffer
<1>0. MaxCost \in Nat /\ CallGuard \in Nat
  OBVIOUS
<1>1. CASE BeginTurn
  BY <1>1 DEF BeginTurn, machine, meter, TotalSpent
<1>2. CASE PreStepRefused
  <2>1. state \in States
    BY DEF TypeOK
  <2>2. /\ runSpent' = runSpent + unpriced
        /\ unpriced' = 0
        /\ billed' = billed
        /\ state \in Phases => TotalSpent' = TotalSpent + unpriced
    BY <1>2, <2>1, DrainTotals DEF PreStepRefused
  <2>3. pc' = "ending" /\ state' = state
    BY <1>2 DEF PreStepRefused, machine
  <2>4. QED
    BY <2>2, <2>3 DEF TypeOK
<1>3. CASE PreStep
  <2>1. state \in Phases /\ ~PhaseStops(state)'
    BY <1>3 DEF PreStep, Refused
  <2>2. ~(TotalSpent' >= CallGuard)
    BY <2>1 DEF PhaseStops
  <2>3. state \in States
    BY DEF TypeOK
  <2>4. /\ runSpent' = runSpent + unpriced
        /\ unpriced' = 0
        /\ billed' = billed
        /\ TotalSpent' = TotalSpent + unpriced
    BY <1>3, <2>1, <2>3, DrainTotals DEF PreStep
  <2>5. TotalSpent = runSpent /\ state' = state /\ pc' = "hooked"
    BY <1>3, <2>1 DEF PreStep, machine
  <2>6. {billed, runSpent, unpriced} \subseteq Nat
    BY DEF TypeOK
  <2>7. billed' < CallGuard
    BY <1>0, <2>2, <2>4, <2>5, <2>6
  <2>8. QED
    BY <1>0, <2>4, <2>5, <2>6, <2>7
<1>4. CASE UpstreamRejects
  BY <1>4, GateTypes DEF UpstreamRejects, meter, TotalSpent
<1>5. CASE StepRejected
  BY <1>5, GateTypes DEF StepRejected, meter, TotalSpent
<1>6. CASE StepEntered
  BY <1>6, GateTypes DEF StepEntered, meter, TotalSpent
<1>7. ASSUME NEW cost \in 0..MaxCost, ModelCalls(cost)
      PROVE  Cursor' /\ Totals' /\ Buffer'
  <2>1. unpriced = 0 /\ billed < CallGuard /\ billed = runSpent
    BY <1>7 DEF ModelCalls, TypeOK
  <2>2. runSpent' = runSpent /\ unpriced' = cost /\ billed' = billed + cost
    BY <1>7, <2>1 DEF ModelCalls, TypeOK
  <2>3. spent' = spent
    BY <1>7, <2>1 DEF ModelCalls, TypeOK
  <2>4. pc' \in {"prestep", "stopping"} /\ state' = state
    BY <1>7 DEF ModelCalls, machine
  <2>5. QED
    BY <1>0, <2>1, <2>2, <2>3, <2>4 DEF TotalSpent, TypeOK
<1>8. CASE ModelFails
  <2>1. state \in States
    BY DEF TypeOK
  <2>2. /\ runSpent' = runSpent + unpriced
        /\ unpriced' = 0
        /\ billed' = billed
        /\ state \in Phases => TotalSpent' = TotalSpent + unpriced
    BY <1>8, <2>1, DrainTotals DEF ModelFails
  <2>3. pc' = "ending" /\ state' = state
    BY <1>8 DEF ModelFails, machine
  <2>4. QED
    BY <2>2, <2>3 DEF TypeOK
<1>9. CASE ContinueTurn
  BY <1>9 DEF ContinueTurn, machine, meter, TotalSpent
<1>10. CASE LetTurnStop
  BY <1>10 DEF LetTurnStop, machine, meter, TotalSpent
<1>11. CASE EndTurn
  <2>1. state' \in States /\ (state' \in Phases => state \in Phases)
    BY <1>11, GateTypes DEF EndTurn
  <2>2. /\ runSpent' = runSpent + unpriced
        /\ unpriced' = 0
        /\ billed' = billed
        /\ state' \in Phases => TotalSpent' = TotalSpent + unpriced
    BY <1>11, <2>1, DrainTotals DEF EndTurn
  <2>3. pc' = "idle"
    BY <1>11 DEF EndTurn
  <2>4. QED
    BY <2>1, <2>2, <2>3 DEF TypeOK
<1>12. CASE EndTurnUnheard
  BY <1>12 DEF EndTurnUnheard, machine, meter, TotalSpent
<1>13. CASE TimePasses
  BY <1>13 DEF TimePasses, machine, meter, TotalSpent
<1>14. CASE PreStepThrows
  BY <1>14 DEF PreStepThrows, machine, meter, TotalSpent
<1>15. CASE EndTurnThrows
  BY <1>15, GateTypes DEF EndTurnThrows, meter, TotalSpent
<1>16. CASE UNCHANGED vars
  BY <1>16 DEF vars, machine, meter, TotalSpent
<1>17. QED
  BY <1>1, <1>2, <1>3, <1>4, <1>5, <1>6, <1>7, <1>8, <1>9, <1>10, <1>11,
     <1>12, <1>13, <1>14, <1>15, <1>16 DEF Next

----------------------------------------------------------------------------
(* The ceilings                                                            *)

\* Where reading the gate can take the run.
LEMMA GateMoves ==
  ASSUME AdvanceIfGated
  PROVE  \/ state' = state /\ testAttempts' = testAttempts
         \/ /\ testAttempts' = testAttempts
            /\ <<state, state'>> \in
                 {<<"research", "prd">>, <<"prd", "implement">>, <<"implement", "test">>,
                  <<"test", "ship">>, <<"ship", "done">>, <<"test", "blocked">>}
         \/ /\ testAttempts' = testAttempts + 1
            /\ state = "test"
            /\ state' = "implement"
BY DEF AdvanceIfGated, GateHolds, GatePasses, TestFails, TestFailsForGood,
       Successor, Phases

\* The gate is read after the guard let the step through, and the step counted.
LEMMA CountedStep ==
  ASSUME IInv, TypeOK', pc = "hooked", AdvanceIfGated, CountStep(state'),
         UNCHANGED calls, pc' \in {"request", "ending"}
  PROVE  AfterTheEnd' /\ GuardedStep' /\ Ahead' /\ Ceilings' /\ Counted'
<1> USE FeatureLoopAssumption
    DEF IInv, AfterTheEnd, GuardedStep, Ahead, Ceilings, Counted, CountStep
<1>1. /\ state \in Phases
      /\ steps[state] + 1 <= MaxSteps[state]
      /\ calls["done"] + calls["blocked"] = 0
  OBVIOUS
<1>2. /\ testAttempts \in Nat
      /\ \A p \in Phases : MaxSteps[p] \in Nat /\ MaxSteps[p] >= 1
      /\ \A p \in Phases : steps[p] \in Nat /\ calls[p] \in Nat
  BY DEF TypeOK, States
<1>3. \A p \in Phases : steps'[p] = IF p = state' THEN steps[p] + 1 ELSE steps[p]
  OBVIOUS
<1>4. AfterTheEnd' /\ GuardedStep'
  BY <1>1
<1>5. Ahead'
  BY <1>1, <1>2, <1>3, GateMoves DEF Phases
<1>6. Ceilings'
  BY <1>1, <1>2, <1>3, GateMoves DEF Phases
<1>7. Counted'
  BY <1>2, <1>3
<1>8. QED
  BY <1>4, <1>5, <1>6, <1>7

\* A gate read at a turn's end, or before a refused step, counts nothing.
LEMMA UncountedStep ==
  ASSUME IInv, TypeOK', AdvanceIfGated, UNCHANGED <<calls, steps>>,
         pc \in {"hooked", "ending"}, pc' \in {"ending", "idle"}
  PROVE  AfterTheEnd' /\ GuardedStep' /\ Ahead' /\ Ceilings' /\ Counted'
<1> USE FeatureLoopAssumption
    DEF IInv, AfterTheEnd, GuardedStep, Ahead, Ceilings, Counted
<1>1. /\ testAttempts \in Nat
      /\ \A p \in Phases : MaxSteps[p] \in Nat /\ MaxSteps[p] >= 1
      /\ \A p \in Phases : steps[p] \in Nat /\ calls[p] \in Nat
  BY DEF TypeOK, States
<1>2. AfterTheEnd' /\ GuardedStep'
  BY GateTypes
<1>3. Ahead'
  BY <1>1, GateMoves DEF Phases
<1>4. Ceilings'
  BY <1>1, GateMoves DEF Phases
<1>5. Counted'
  OBVIOUS
<1>6. QED
  BY <1>2, <1>3, <1>4, <1>5

LEMMA CeilingStep ==
  ASSUME IInv, TypeOK', [Next]_vars
  PROVE  AfterTheEnd' /\ GuardedStep' /\ Ahead' /\ Ceilings' /\ Counted'
<1>1. CASE UpstreamRejects
  BY <1>1, UncountedStep DEF UpstreamRejects, meter
<1>2. CASE StepRejected \/ StepEntered
  BY <1>2, CountedStep DEF StepRejected, StepEntered, meter
<1>3. CASE EndTurn
  BY <1>3, UncountedStep, DrainTypes DEF EndTurn, IInv
<1>4. CASE PreStep
  <2>1. state \in Phases /\ ~PhaseStops(state)'
    BY <1>4 DEF PreStep, Refused
  <2>2. UNCHANGED <<state, testAttempts, steps, calls>> /\ pc' = "hooked"
    BY <1>4 DEF PreStep, machine, Drain
  <2>3. steps[state] + 1 <= MaxSteps[state]
    BY <2>1, <2>2, FeatureLoopAssumption DEF PhaseStops, IInv, TypeOK
  <2>4. QED
    BY <2>1, <2>2, <2>3
    DEF IInv, AfterTheEnd, GuardedStep, Ahead, Ceilings, Counted
<1>5. ASSUME NEW cost \in 0..MaxCost, ModelCalls(cost)
      PROVE  AfterTheEnd' /\ GuardedStep' /\ Ahead' /\ Ceilings' /\ Counted'
  <2>1. /\ UNCHANGED <<state, testAttempts, steps>>
        /\ pc = "request" /\ pc' \in {"prestep", "stopping"}
        /\ calls' = [calls EXCEPT ![state] = @ + 1]
    BY <1>5 DEF ModelCalls, machine
  <2>2. calls \in [States -> Nat] /\ steps \in [Phases -> Nat] /\ state \in States
    BY DEF IInv, TypeOK
  <2>3. AfterTheEnd'
    BY <2>1, <2>2 DEF IInv, AfterTheEnd, States, Phases, Terminal
  <2>4. Counted'
    BY <2>1, <2>2 DEF IInv, Counted, States
  <2>5. QED
    BY <2>1, <2>3, <2>4 DEF IInv, GuardedStep, Ahead, Ceilings
<1>6. ASSUME UNCHANGED <<state, testAttempts, steps, calls>>,
             pc' \notin {"hooked", "request"} \/ pc' = pc
      PROVE  AfterTheEnd' /\ GuardedStep' /\ Ahead' /\ Ceilings' /\ Counted'
  BY <1>6 DEF IInv, AfterTheEnd, GuardedStep, Ahead, Ceilings, Counted
<1>7. CASE BeginTurn \/ ContinueTurn \/ LetTurnStop \/ EndTurnUnheard \/ PreStepThrows
  BY <1>6, <1>7
  DEF BeginTurn, PreStepThrows, ContinueTurn, LetTurnStop, EndTurnUnheard, machine, meter
<1>8. CASE PreStepRefused \/ ModelFails
  BY <1>6, <1>8 DEF PreStepRefused, ModelFails, Drain, machine
<1>9. CASE TimePasses \/ UNCHANGED vars
  BY <1>6, <1>9 DEF TimePasses, vars, machine, meter
<1>10. CASE EndTurnThrows
  BY <1>10, UncountedStep DEF EndTurnThrows, meter
<1>11. QED
  BY <1>1, <1>2, <1>3, <1>4, <1>5, <1>7, <1>8, <1>9, <1>10 DEF Next

----------------------------------------------------------------------------
(* The invariant                                                           *)

LEMMA IInvInit == Init => IInv
<1> SUFFICES ASSUME Init PROVE IInv
  OBVIOUS
<1> USE FeatureLoopAssumption
<1>1. TypeOK
  BY InitTypes
<1>2. Cursor /\ Totals /\ Buffer
  BY DEF Init, Cursor, Totals, Buffer, TotalSpent, Phases
<1>3. AfterTheEnd /\ GuardedStep /\ Counted
  BY DEF Init, AfterTheEnd, GuardedStep, Counted, States, Phases, Terminal
<1>4. Ahead /\ Ceilings
  BY DEF Init, Ahead, Ceilings, Phases
<1>5. QED
  BY <1>1, <1>2, <1>3, <1>4 DEF IInv

LEMMA LoopInvariance == Spec => []IInv
<1>1. IInv /\ [Next]_vars => IInv'
  <2> SUFFICES ASSUME IInv, [Next]_vars PROVE IInv'
    OBVIOUS
  <2>1. TypeOK'
    BY TypeStep DEF IInv
  <2>2. QED
    BY <2>1, MoneyStep, CeilingStep DEF IInv
<1>2. QED
  BY IInvInit, <1>1, PTL DEF Spec

\* Over any number of turns a phase makes no more calls than its own ceiling and
\* the fix attempts allow, and at most one call outlives the run.
THEOREM CeilingsBoundTheRun == Spec => []CallsWithinCeilings
<1>1. IInv => CallsWithinCeilings
  <2> SUFFICES ASSUME IInv PROVE CallsWithinCeilings
    OBVIOUS
  <2>1. \A p \in Phases : /\ calls[p] \in Nat /\ steps[p] \in Nat
                          /\ MaxSteps[p] + testAttempts \in Nat
    BY FeatureLoopAssumption DEF IInv, TypeOK, States
  <2>2. QED
    BY <2>1 DEF IInv, CallsWithinCeilings, Counted, Ceilings, AfterTheEnd
<1>2. QED
  BY LoopInvariance, <1>1, PTL

\* The run total is every settled attempt's cost, but for the newest one.
THEOREM PricedOnce == Spec => []EveryAttemptPricedOnce
<1>1. IInv => EveryAttemptPricedOnce
  BY DEF IInv, Cursor, EveryAttemptPricedOnce
<1>2. QED
  BY LoopInvariance, <1>1, PTL

\* The phase meters and the run meter agree for as long as the run is in a phase.
THEOREM TotalsAgree == Spec => []PhaseTotalsAgree
<1>1. IInv => PhaseTotalsAgree
  BY DEF IInv, Totals, PhaseTotalsAgree
<1>2. QED
  BY LoopInvariance, <1>1, PTL

\* Whatever a call costs, the guard is passed by less than one call.
THEOREM BufferIsKept == Spec => []GuardKeepsTheBuffer
<1>1. IInv => GuardKeepsTheBuffer
  BY DEF IInv, Buffer, GuardKeepsTheBuffer
<1>2. QED
  BY LoopInvariance, <1>1, PTL

----------------------------------------------------------------------------
(* The state machine                                                       *)

LEMMA GateIsATransition ==
  ASSUME TypeOK, AdvanceIfGated
  PROVE  [\E to \in Machine!States : Machine!Transition(to)]_(Machine!machineVars)
<1> USE DEF Machine!States, Machine!Phases, Machine!Terminal, Machine!Transition,
            Machine!CanTransition, Machine!IsRetry, Machine!Edges
<1>1. CASE GateHolds
  BY <1>1 DEF GateHolds, Machine!machineVars
<1>2. CASE GatePasses
  <2>1. Machine!Transition(Successor(state))
    BY <1>2 DEF GatePasses, Successor, Phases
  <2>2. Successor(state) \in Machine!States
    BY <1>2 DEF GatePasses, Successor, Phases
  <2>3. QED
    BY <2>1, <2>2
<1>3. CASE TestFails
  <2>1. Machine!Transition("implement")
    BY <1>3 DEF TestFails
  <2>2. QED
    BY <2>1
<1>4. CASE TestFailsForGood
  <2>1. Machine!Transition("blocked")
    BY <1>4 DEF TestFailsForGood
  <2>2. QED
    BY <2>1
<1>5. QED
  BY <1>1, <1>2, <1>3, <1>4 DEF AdvanceIfGated

\* The run under its hooks is the pipeline's state machine: no step of any hook
\* takes an edge the machine does not have, or a fix attempt past the cap.
THEOREM LoopImplementsPhaseMachine == Spec => ImplementsPhaseMachine
<1>1. Init => Machine!MachineInit
  BY DEF Init, Machine!MachineInit
<1>2. TypeOK /\ [Next]_vars =>
        [\E to \in Machine!States : Machine!Transition(to)]_(Machine!machineVars)
  <2> SUFFICES ASSUME TypeOK, [Next]_vars
               PROVE  [\E to \in Machine!States : Machine!Transition(to)]_(Machine!machineVars)
    OBVIOUS
  <2>1. CASE UpstreamRejects \/ StepRejected \/ StepEntered \/ EndTurn \/ EndTurnThrows
    BY <2>1, GateIsATransition
    DEF UpstreamRejects, StepRejected, StepEntered, EndTurn, EndTurnThrows
  <2>2. CASE \/ BeginTurn \/ PreStepRefused \/ PreStep \/ PreStepThrows \/ ModelFails \/ ContinueTurn
             \/ LetTurnStop \/ EndTurnUnheard \/ TimePasses
             \/ \E cost \in 0..MaxCost : ModelCalls(cost)
    BY <2>2
    DEF BeginTurn, PreStepRefused, PreStep, PreStepThrows, ModelFails, ContinueTurn,
        LetTurnStop, EndTurnUnheard, TimePasses, ModelCalls, machine, Machine!machineVars
  <2>3. CASE UNCHANGED vars
    BY <2>3 DEF vars, machine, Machine!machineVars
  <2>4. QED
    BY <2>1, <2>2, <2>3 DEF Next
<1>3. QED
  BY <1>1, <1>2, LoopTypeCorrect, PTL
  DEF Spec, ImplementsPhaseMachine, Machine!MachineSpec

----------------------------------------------------------------------------
(* Attribution                                                             *)

\* An attempt that can still be priced ran in the phase the run is in: the gate is
\* read only when nothing is unpriced, or just before the turn's last drain.
RanHere == unpriced > 0 /\ ~noPrice => ranIn = state

LEMMA RanHereStep == IInv /\ RanHere /\ TypeOK' /\ [Next]_vars => RanHere'
<1> SUFFICES ASSUME IInv, RanHere, TypeOK', [Next]_vars PROVE RanHere'
  OBVIOUS
<1> USE DEF RanHere
<1>1. CASE UpstreamRejects \/ StepRejected \/ StepEntered
  BY <1>1 DEF UpstreamRejects, StepRejected, StepEntered, meter, IInv, Cursor
<1>2. CASE EndTurn \/ PreStep \/ PreStepRefused \/ ModelFails
  BY <1>2 DEF EndTurn, PreStep, PreStepRefused, ModelFails, Drain
<1>3. CASE \E cost \in 0..MaxCost : ModelCalls(cost)
  BY <1>3 DEF ModelCalls, machine
<1>4. CASE \/ BeginTurn \/ PreStepThrows \/ ContinueTurn \/ LetTurnStop
           \/ EndTurnUnheard \/ TimePasses \/ UNCHANGED vars
  BY <1>4
  DEF BeginTurn, PreStepThrows, ContinueTurn, LetTurnStop, EndTurnUnheard, TimePasses, vars,
      machine, meter
<1>5. CASE EndTurnThrows
  BY <1>5 DEF EndTurnThrows, meter
<1>6. QED
  BY <1>1, <1>2, <1>3, <1>4, <1>5 DEF Next

\* Every drain but a turn's last charges an attempt to the phase it ran in.
THEOREM BoundaryDrainsExact == Spec => BoundaryDrainsAreExact
<1> DEFINE Exact ==
      pc /= "ending" => \A p \in Phases : spent'[p] /= spent[p] => ranIn = p
<1>1. Init => RanHere
  BY DEF Init, RanHere
<1>2. IInv /\ RanHere /\ [Next]_vars => [Exact]_vars
  <2> SUFFICES ASSUME IInv, RanHere, [Next]_vars, pc /= "ending"
               PROVE  \A p \in Phases : spent'[p] /= spent[p] => ranIn = p
    OBVIOUS
  <2> TAKE p \in Phases
  <2> HAVE spent'[p] /= spent[p]
  <2>0. spent \in [Phases -> Nat] /\ unpriced \in Nat
    BY DEF IInv, TypeOK
  <2>1. CASE PreStep \/ PreStepRefused \/ ModelFails
    <3>1. spent'[p] = IF p = state THEN spent[p] + unpriced ELSE spent[p]
      BY <2>1 DEF PreStep, PreStepRefused, ModelFails, Drain
    <3>2. p = state /\ unpriced > 0 /\ ~noPrice
      BY <2>0, <2>1, <3>1 DEF PreStep, PreStepRefused, ModelFails, Drain
    <3>3. QED
      BY <3>2 DEF RanHere
  <2>2. CASE \E cost \in 0..MaxCost : ModelCalls(cost)
    <3>1. unpriced = 0
      BY <2>2 DEF ModelCalls, IInv, Cursor
    <3>2. spent'[p] = IF p = state THEN spent[p] + unpriced ELSE spent[p]
      BY <2>2 DEF ModelCalls
    <3>3. QED
      BY <2>0, <3>1, <3>2
  <2>3. CASE ~(PreStep \/ PreStepRefused \/ ModelFails \/ \E cost \in 0..MaxCost : ModelCalls(cost))
    BY <2>3
    DEF Next, BeginTurn, UpstreamRejects, StepRejected, StepEntered, ContinueTurn,
        LetTurnStop, EndTurn, EndTurnThrows, EndTurnUnheard, PreStepThrows, TimePasses,
        vars, meter
  <2>4. QED
    BY <2>1, <2>2, <2>3
<1>3. QED
  BY <1>1, <1>2, RanHereStep, LoopTypeCorrect, LoopInvariance, PTL
  DEF Spec, BoundaryDrainsAreExact

----------------------------------------------------------------------------
(* The money of a phase                                                    *)

\* What failed tests have added to a phase's money.
Extra == MaxCost * testAttempts

PhaseRoom(p) == MaxSpend[p] + MaxCost + Extra

Charged == \A p \in Phases : spent[p] <= PhaseRoom(p)

\* A phase the run has yet to reach has not been charged, and the test phase is
\* owed one entry while a failed test is being fixed.
Uncharged ==
  /\ state = "research" => spent["prd"] = 0
  /\ state \in {"research", "prd"} => spent["implement"] = 0
  /\ state \in {"research", "prd", "implement"} /\ testAttempts = 0 => spent["test"] = 0
  /\ state \in Phases \ {"ship"} => spent["ship"] = 0
  /\ state = "implement" /\ testAttempts > 0 => spent["test"] <= MaxSpend["test"] + Extra

\* What is still unpriced fits the phase it ran in.
Fits == state \in Phases /\ ~noPrice => spent[state] + unpriced <= PhaseRoom(state)

\* What a step may cost fits the phase the step is in.
Payable ==
  /\ Fits
  /\ pc = "hooked" => spent[state] < MaxSpend[state]
  /\ pc = "request" /\ state \in Phases => spent[state] <= MaxSpend[state] + Extra

Purse ==
  /\ BudgetIsKept
  /\ pc = "request" => billed < RunBudget

Retried == testAttempts <= MaxTestAttempts /\ state # "stopped" /\ calls["stopped"] = 0

MoneyInv == Charged /\ Uncharged /\ Payable /\ Purse /\ Retried

LEMMA ExtraGrows ==
  ASSUME testAttempts \in Nat, testAttempts' \in Nat
  PROVE  /\ Extra \in Nat /\ Extra' \in Nat
         /\ testAttempts' = testAttempts => Extra' = Extra
         /\ testAttempts' = testAttempts + 1 => Extra' = Extra + MaxCost
         /\ MaxCost * (1 + testAttempts) = MaxCost + Extra
<1>1. ASSUME NEW n \in Nat PROVE MaxCost * n \in Nat /\ MaxCost * (n + 1) = MaxCost * n + MaxCost
                                 /\ MaxCost * (1 + n) = MaxCost + MaxCost * n
  BY FeatureLoopAssumption
<1>2. QED
  BY <1>1 DEF Extra

LEMMA MoneyTypes ==
  ASSUME TypeOK
  PROVE  /\ testAttempts \in Nat /\ unpriced \in Nat /\ MaxCost \in Nat
         /\ \A p \in Phases : spent[p] \in Nat /\ MaxSpend[p] \in Nat
         /\ spent \in [Phases -> Nat]
BY FeatureLoopAssumption DEF TypeOK

\* The gate is read while at most one call is due, which is then charged to the
\* phase the run has come to.
LEMMA GateMoney ==
  ASSUME IInv, MoneyInv, TypeOK', AdvanceIfGated, NEW due \in 0..MaxCost,
         state \in Phases => spent[state] + due <= PhaseRoom(state),
         \A p \in Phases : spent'[p] = IF p = state' THEN spent[p] + due ELSE spent[p]
  PROVE  /\ Charged' /\ Uncharged'
         /\ state' \in Phases /\ state' # state => spent[state'] <= MaxSpend[state'] + Extra'
<1> USE DEF MoneyInv, Charged, Uncharged, PhaseRoom
<1>1. /\ testAttempts \in Nat /\ testAttempts' \in Nat /\ MaxCost \in Nat
      /\ \A p \in Phases : spent[p] \in Nat /\ MaxSpend[p] \in Nat
  BY MoneyTypes DEF IInv, TypeOK
<1>2. /\ Extra \in Nat /\ Extra' \in Nat
      /\ testAttempts' = testAttempts => Extra' = Extra
      /\ testAttempts' = testAttempts + 1 => Extra' = Extra + MaxCost
  BY <1>1, ExtraGrows
<1>3. state \in {"research", "prd"} => testAttempts = 0
  BY DEF IInv, Ahead
<1>a. PICK e \in Nat, f \in Nat : e = Extra /\ f = Extra'
  BY <1>2
<1>b. \A p \in Phases : spent'[p] <= MaxSpend[p] + MaxCost + f => spent'[p] <= PhaseRoom(p)'
  BY <1>a
<1>c. \A p \in Phases : spent[p] <= MaxSpend[p] + MaxCost + e
  BY <1>a
<1>d. state \in Phases => spent[state] + due <= MaxSpend[state] + MaxCost + e
  BY <1>a
<1>e. /\ testAttempts' = testAttempts => f = e
      /\ testAttempts' = testAttempts + 1 => f = e + MaxCost
  BY <1>2, <1>a
<1>f. /\ (\A p \in Phases : spent'[p] <= MaxSpend[p] + MaxCost + f) => Charged'
      /\ state = "implement" /\ testAttempts > 0 => spent["test"] <= MaxSpend["test"] + e
      /\ state' = "implement" /\ testAttempts' > 0 =>
           (spent'["test"] <= MaxSpend["test"] + f => spent'["test"] <= MaxSpend["test"] + Extra')
  BY <1>a
<1> HIDE DEF Charged, PhaseRoom
<1>4. CASE state' = state /\ testAttempts' = testAttempts
  <2>1. \A p \in Phases : spent'[p] <= MaxSpend[p] + MaxCost + f
    BY <1>1, <1>c, <1>d, <1>e, <1>4
  <2>2. Uncharged'
    BY <1>1, <1>e, <1>f, <1>4 DEF Phases
  <2>3. QED
    BY <2>1, <2>2, <1>4, <1>f
<1>5. CASE testAttempts' = testAttempts /\ <<state, state'>> \in
             {<<"research", "prd">>, <<"prd", "implement">>, <<"implement", "test">>,
              <<"test", "ship">>, <<"ship", "done">>, <<"test", "blocked">>}
  <2>0. state' \in Phases => spent[state'] <= MaxSpend[state'] + e
    BY <1>1, <1>3, <1>5, <1>f DEF Phases
  <2>1. \A p \in Phases : spent'[p] <= MaxSpend[p] + MaxCost + f
    BY <1>1, <1>c, <1>e, <1>5, <2>0
  <2>2. Uncharged'
    BY <1>1, <1>3, <1>e, <1>5 DEF Phases
  <2>3. state' \in Phases => spent[state'] <= MaxSpend[state'] + Extra'
    BY <2>0, <1>a, <1>e, <1>5
  <2>4. QED
    BY <2>1, <2>2, <2>3, <1>f
<1>6. CASE testAttempts' = testAttempts + 1 /\ state = "test" /\ state' = "implement"
  <2>1. \A p \in Phases : spent'[p] <= MaxSpend[p] + MaxCost + f
    BY <1>1, <1>c, <1>e, <1>6
  <2>2. spent'["test"] <= MaxSpend["test"] + f
    BY <1>1, <1>c, <1>e, <1>6 DEF Phases
  <2>3. Uncharged'
    BY <1>1, <1>f, <1>6, <2>2 DEF Phases
  <2>4. spent["implement"] <= MaxSpend["implement"] + Extra'
    BY <1>1, <1>a, <1>c, <1>e, <1>6 DEF Phases
  <2>5. QED
    BY <2>1, <2>3, <2>4, <1>f, <1>6
<1>7. QED
  BY <1>4, <1>5, <1>6, GateMoves

\* A handler that reads the gate and drains what is due.
LEMMA GateThenDrain ==
  ASSUME IInv, MoneyInv, TypeOK', AdvanceIfGated, Drain(state')
  PROVE  Charged' /\ Uncharged' /\ unpriced' = 0
<1>1. unpriced \in 0..MaxCost /\ ~noPrice
  BY MoneyTypes DEF IInv, Cursor, Drain
<1>2. state \in Phases => spent[state] + unpriced <= PhaseRoom(state)
  BY <1>1 DEF MoneyInv, Payable, Fits
<1>3. \A p \in Phases : spent'[p] = IF p = state' THEN spent[p] + unpriced ELSE spent[p]
  BY DEF Drain
<1>4. QED
  BY <1>1, <1>2, <1>3, GateMoney DEF Drain

\* A handler that reads the gate and charges nothing.
LEMMA GateAlone ==
  ASSUME IInv, MoneyInv, TypeOK', AdvanceIfGated, UNCHANGED spent
  PROVE  /\ Charged' /\ Uncharged'
         /\ state' \in Phases /\ state' # state => spent[state'] <= MaxSpend[state'] + Extra'
<1>1. 0 \in 0..MaxCost /\ \A p \in Phases : spent[p] \in Nat
  BY MoneyTypes DEF IInv
<1>2. state \in Phases => spent[state] + 0 <= PhaseRoom(state)
  BY <1>1 DEF MoneyInv, Charged
<1>3. \A p \in Phases : spent'[p] = IF p = state' THEN spent[p] + 0 ELSE spent[p]
  BY <1>1
<1>4. QED
  BY <1>1, <1>2, <1>3, GateMoney

\* With nothing unpriced a phase's charge is all there is to pay.
LEMMA NothingDue ==
  ASSUME TypeOK', Charged', unpriced' = 0 \/ noPrice'
  PROVE  Fits'
<1> SUFFICES ASSUME state' \in Phases, unpriced' = 0
             PROVE  spent'[state'] + unpriced' <= PhaseRoom(state)'
  BY DEF Fits
<1>1. PICK s \in Nat : s = spent'[state']
  BY DEF TypeOK
<1>2. s + unpriced' = s
  OBVIOUS
<1>3. spent'[state'] <= PhaseRoom(state)'
  BY DEF Charged, PhaseRoom, Extra
<1>4. QED
  BY <1>1, <1>2, <1>3

LEMMA RetriedStep ==
  ASSUME IInv, MoneyInv, TypeOK', [Next]_vars
  PROVE  Retried'
<1> USE DEF MoneyInv, Retried
<1>1. testAttempts \in Nat /\ MaxTestAttempts \in Nat
  BY FeatureLoopAssumption DEF IInv, TypeOK
<1>2. ASSUME AdvanceIfGated PROVE testAttempts' <= MaxTestAttempts /\ state' # "stopped"
  BY <1>1, <1>2 DEF AdvanceIfGated, GateHolds, GatePasses, TestFails, TestFailsForGood,
                    Successor, Phases
<1>3. CASE \/ UpstreamRejects \/ StepRejected \/ StepEntered \/ EndTurn \/ EndTurnThrows
  BY <1>2, <1>3
  DEF UpstreamRejects, StepRejected, StepEntered, EndTurn, EndTurnThrows, Drain, meter
<1>4. CASE \E cost \in 0..MaxCost : ModelCalls(cost)
  BY <1>4 DEF ModelCalls, machine, IInv, TypeOK, States, Terminal
<1>5. CASE \/ BeginTurn \/ PreStepRefused \/ PreStep \/ PreStepThrows \/ ModelFails
           \/ ContinueTurn \/ LetTurnStop \/ EndTurnUnheard \/ TimePasses \/ UNCHANGED vars
  BY <1>5
  DEF BeginTurn, PreStepRefused, PreStep, PreStepThrows, ModelFails, ContinueTurn, Drain,
      LetTurnStop, EndTurnUnheard, TimePasses, vars, machine, meter
<1>6. QED
  BY <1>3, <1>4, <1>5 DEF Next

LEMMA PurseStep ==
  ASSUME IInv, MoneyInv, TypeOK', [Next]_vars
  PROVE  Purse'
<1> USE DEF MoneyInv, Purse, BudgetIsKept
<1>1. {billed, runSpent, RunBudget, MaxCost} \subseteq Nat
  BY FeatureLoopAssumption DEF IInv, TypeOK
<1>2. CASE StepEntered
  <2>1. billed = runSpent /\ ~(runSpent >= RunBudget)
    BY <1>1, <1>2 DEF StepEntered, RunStops, IInv, Cursor
  <2>2. billed < RunBudget /\ billed' = billed
    BY <1>1, <1>2, <2>1 DEF StepEntered, meter
  <2>3. QED
    BY <2>2
<1>3. ASSUME NEW cost \in 0..MaxCost, ModelCalls(cost) PROVE Purse'
  <2>1. billed' = billed + cost /\ billed < RunBudget /\ pc' # "request"
    BY <1>3 DEF ModelCalls
  <2>2. billed + cost < RunBudget + MaxCost
    BY <1>1, <2>1
  <2>3. QED
    BY <2>1, <2>2
<1>4. CASE \/ BeginTurn \/ PreStepRefused \/ PreStep \/ PreStepThrows \/ UpstreamRejects
           \/ StepRejected \/ ModelFails \/ ContinueTurn \/ LetTurnStop \/ EndTurn
           \/ EndTurnThrows \/ EndTurnUnheard \/ TimePasses \/ UNCHANGED vars
  BY <1>4
  DEF BeginTurn, PreStepRefused, PreStep, PreStepThrows, UpstreamRejects, StepRejected,
      ModelFails, ContinueTurn, LetTurnStop, EndTurn, EndTurnThrows, EndTurnUnheard,
      TimePasses, Drain, vars, meter
<1>5. QED
  BY <1>2, <1>3, <1>4 DEF Next

LEMMA ChargeStep ==
  ASSUME IInv, MoneyInv, TypeOK', [Next]_vars
  PROVE  Charged' /\ Uncharged' /\ Payable'
<1>0. Fits /\ Charged /\ Uncharged /\ TypeOK /\ Cursor
  BY DEF MoneyInv, Payable, IInv
<1>1. ASSUME Fits', pc' \notin {"hooked", "request"} PROVE Payable'
  BY <1>1 DEF Payable
<1>2. ASSUME UNCHANGED <<state, testAttempts, spent, unpriced, noPrice>>,
             pc' \notin {"hooked", "request"} \/ pc' = pc
      PROVE  Charged' /\ Uncharged' /\ Payable'
  BY <1>2 DEF MoneyInv, Charged, Uncharged, Payable, Fits, PhaseRoom, Extra
<1>3. CASE PreStep
  <2>1. AdvanceIfGated /\ Drain(state') /\ state' = state
    BY <1>3 DEF PreStep, machine, clock, AdvanceIfGated, GateHolds
  <2>2. Charged' /\ Uncharged' /\ unpriced' = 0
    BY <2>1, GateThenDrain
  <2>3. state \in Phases /\ ~PhaseStops(state)' /\ pc' = "hooked"
    BY <1>3 DEF PreStep, Refused
  <2>4. spent'[state'] < MaxSpend[state']
    <3>1. spent'[state] \in Nat /\ MaxSpend[state] \in Nat
      BY <2>3, FeatureLoopAssumption DEF TypeOK
    <3>2. ~(spent'[state] >= MaxSpend[state])
      BY <2>1, <2>3 DEF PhaseStops
    <3>3. QED
      BY <2>1, <3>1, <3>2
  <2>5. Fits'
    BY <2>2, NothingDue
  <2>6. QED
    BY <2>2, <2>3, <2>4, <2>5 DEF Payable
<1>4. CASE PreStepRefused \/ ModelFails
  <2>1. AdvanceIfGated /\ Drain(state') /\ pc' = "ending"
    BY <1>4 DEF PreStepRefused, ModelFails, machine, clock, AdvanceIfGated, GateHolds
  <2>2. QED
    BY <1>1, <2>1, GateThenDrain, NothingDue
<1>5. CASE EndTurn
  <2>1. AdvanceIfGated /\ Drain(state') /\ pc' = "idle"
    BY <1>5 DEF EndTurn
  <2>2. QED
    BY <1>1, <2>1, GateThenDrain, NothingDue
<1>6. CASE UpstreamRejects \/ StepRejected \/ EndTurnThrows
  <2>1. /\ AdvanceIfGated /\ UNCHANGED <<spent, unpriced, noPrice>>
        /\ unpriced = 0 \/ noPrice
        /\ pc' \notin {"hooked", "request"}
    BY <1>0, <1>6 DEF UpstreamRejects, StepRejected, EndTurnThrows, meter, Cursor
  <2>2. QED
    BY <1>1, <2>1, GateAlone, NothingDue
<1>7. CASE StepEntered
  <2>1. /\ AdvanceIfGated /\ UNCHANGED <<spent, unpriced, noPrice>>
        /\ unpriced = 0 /\ pc = "hooked" /\ pc' = "request"
    BY <1>0, <1>7 DEF StepEntered, meter, Cursor
  <2>2. /\ Charged' /\ Uncharged'
        /\ state' \in Phases /\ state' # state => spent[state'] <= MaxSpend[state'] + Extra'
    BY <2>1, GateAlone
  <2>3. Fits'
    BY <2>1, <2>2, NothingDue
  <2>4. state' \in Phases /\ state' = state => spent[state'] <= MaxSpend[state'] + Extra'
    <3> SUFFICES ASSUME state' \in Phases, state' = state
                 PROVE  spent[state'] <= MaxSpend[state'] + Extra'
      OBVIOUS
    <3>1. spent[state'] < MaxSpend[state']
      BY <2>1 DEF MoneyInv, Payable
    <3>2. PICK f \in Nat : f = Extra'
      BY <1>0, MoneyTypes, ExtraGrows DEF TypeOK
    <3>3. spent[state'] <= MaxSpend[state'] + f
      BY <1>0, <3>1, MoneyTypes
    <3>4. QED
      BY <3>2, <3>3
  <2>5. QED
    BY <2>1, <2>2, <2>3, <2>4 DEF Payable
<1>8. ASSUME NEW cost \in 0..MaxCost, ModelCalls(cost)
      PROVE  Charged' /\ Uncharged' /\ Payable'
  <2>1. pc = "request" /\ unpriced = 0 /\ unpriced' = cost
        /\ pc' \in {"prestep", "stopping"} /\ UNCHANGED <<state, testAttempts>>
    BY <1>0, <1>8 DEF ModelCalls, Cursor, machine
  <2>2. spent' = spent
    BY <1>0, <1>8, <2>1, MoneyTypes DEF ModelCalls
  <2>3. Charged' /\ Uncharged'
    BY <1>0, <2>1, <2>2 DEF Charged, Uncharged, PhaseRoom, Extra
  <2>4. state \in Phases => spent[state] + cost <= PhaseRoom(state)
    <3> SUFFICES ASSUME state \in Phases PROVE spent[state] + cost <= PhaseRoom(state)
      OBVIOUS
    <3>1. spent[state] <= MaxSpend[state] + Extra /\ Extra \in Nat
      BY <1>0, <2>1, MoneyTypes, ExtraGrows DEF MoneyInv, Payable, TypeOK
    <3>2. QED
      BY <1>0, <3>1, MoneyTypes DEF PhaseRoom
  <2>5. Fits'
    BY <2>1, <2>2, <2>4 DEF Fits, PhaseRoom, Extra
  <2>6. QED
    BY <1>1, <2>1, <2>3, <2>5
<1>9. CASE \/ BeginTurn \/ PreStepThrows \/ ContinueTurn \/ LetTurnStop
           \/ EndTurnUnheard \/ TimePasses \/ UNCHANGED vars
  BY <1>2, <1>9
  DEF BeginTurn, PreStepThrows, ContinueTurn, LetTurnStop, EndTurnUnheard, TimePasses,
      vars, machine, meter
<1>10. QED
  BY <1>3, <1>4, <1>5, <1>6, <1>7, <1>8, <1>9 DEF Next

LEMMA MoneyInvariance == Spec => []MoneyInv
<1>1. Init => MoneyInv
  <2> SUFFICES ASSUME Init PROVE MoneyInv
    OBVIOUS
  <2>1. Extra = 0 /\ MaxCost \in Nat /\ \A p \in Phases : MaxSpend[p] \in Nat
    BY FeatureLoopAssumption DEF Init, Extra
  <2>2. \A p \in Phases : 0 <= PhaseRoom(p)
    BY <2>1 DEF PhaseRoom
  <2>3. Charged /\ Uncharged
    BY <2>1, <2>2 DEF Init, Charged, Uncharged, Phases
  <2>4. Payable
    BY <2>2 DEF Init, Payable, Fits, Phases
  <2>5. Purse /\ Retried
    BY FeatureLoopAssumption DEF Init, Purse, BudgetIsKept, Retried, States, Terminal
  <2>6. QED
    BY <2>3, <2>4, <2>5 DEF MoneyInv
<1>2. IInv /\ TypeOK' /\ MoneyInv /\ [Next]_vars => MoneyInv'
  BY ChargeStep, PurseStep, RetriedStep DEF MoneyInv
<1>3. QED
  BY <1>1, <1>2, LoopTypeCorrect, LoopInvariance, PTL DEF Spec

\* Over any number of turns and fix attempts a phase's money ceiling is passed by at
\* most one call for each time the phase was entered.
THEOREM PhaseMoneyStaysBounded == Spec => []PhaseMoneyIsBounded
<1>1. IInv /\ MoneyInv => PhaseMoneyIsBounded
  <2> SUFFICES ASSUME IInv, MoneyInv, NEW p \in Phases
               PROVE  spent[p] <= MaxSpend[p] + MaxCost * (1 + testAttempts)
    BY DEF PhaseMoneyIsBounded
  <2>1. /\ spent[p] <= MaxSpend[p] + MaxCost + Extra
        /\ MaxSpend[p] \in Nat /\ MaxCost \in Nat
    BY MoneyTypes DEF IInv, MoneyInv, Charged, PhaseRoom
  <2>2. testAttempts \in Nat
    BY DEF IInv, TypeOK
  <2>3. Extra = MaxCost * testAttempts
    BY DEF Extra
  <2>4. MaxCost * (1 + testAttempts) = MaxCost + MaxCost * testAttempts
        /\ MaxCost * testAttempts \in Nat
    BY <2>1, <2>2
  <2>5. QED
    BY <2>1, <2>3, <2>4
<1>2. QED
  BY LoopInvariance, MoneyInvariance, <1>1, PTL

\* However the phases share it out, the run's budget is passed by less than one call.
THEOREM RunBudgetIsKept == Spec => []BudgetIsKept
<1>1. MoneyInv => BudgetIsKept
  BY DEF MoneyInv, Purse
<1>2. QED
  BY MoneyInvariance, <1>1, PTL

\* The number of calls a run makes is bounded whatever the user does: turns are free,
\* and the calls in them are not.
THEOREM TotalCallsAreBounded == Spec => []TurnsAddNoCalls
<1>1. IInv /\ MoneyInv => TurnsAddNoCalls
  <2> SUFFICES ASSUME IInv, MoneyInv PROVE TurnsAddNoCalls
    OBVIOUS
  <2>1. /\ \A s \in States : calls[s] \in Nat
        /\ \A p \in Phases : steps[p] \in Nat /\ MaxSteps[p] \in Nat
        /\ testAttempts \in Nat /\ MaxTestAttempts \in Nat
    BY FeatureLoopAssumption DEF IInv, TypeOK
  <2>2. /\ \A p \in {"research", "prd", "ship"} : calls[p] <= MaxSteps[p]
        /\ \A p \in {"implement", "test"} : calls[p] <= MaxSteps[p] + testAttempts
    BY <2>1 DEF IInv, Counted, Ceilings, States, Phases
  <2>3. /\ testAttempts <= MaxTestAttempts
        /\ calls["stopped"] = 0
        /\ calls["done"] + calls["blocked"] <= 1
    BY DEF IInv, AfterTheEnd, MoneyInv, Retried
  <2>4. QED
    BY <2>1, <2>2, <2>3 DEF TurnsAddNoCalls, CallsAllowed, States, Phases, Terminal
<1>2. QED
  BY LoopInvariance, MoneyInvariance, <1>1, PTL

=============================================================================
