---------------------------- MODULE FeatureLoop ----------------------------
(***************************************************************************)
(* One agent's run through the 0->1 pipeline, as the plugin's hooks drive  *)
(* it (src/plugin.ts, with driver.ts, phase-budget.ts and budget.ts).      *)
(*                                                                         *)
(* The harness calls the hooks in this order, turn after turn:             *)
(*                                                                         *)
(*   agent/pre-step, up to its next()      drain, guard, phase notice      *)
(*   agent/pre-step, after next()          gate, review, count, enter      *)
(*   agent/request and the model call      one settled attempt is logged   *)
(*   agent/turn-stopping                   when the model stops            *)
(*   session/event turn/end                gate, drain, record             *)
(*                                                                         *)
(* A gate, the model, an upstream hook and the clock may each answer       *)
(* anything at any time.  Money is in whole units.  The ship phase's gate  *)
(* reads a file the ship step may or may not have written, so its reading  *)
(* is as free as the others'.                                              *)
(***************************************************************************)
EXTENDS Naturals

CONSTANTS
  MaxTestAttempts,  \* PIPELINE_BUDGET.maxTestAttempts
  MaxSteps,         \* allocation.phases[p].maxSteps
  MaxSpend,         \* allocation.phases[p].maxSpendUSD
  CallGuard,        \* (totalUSD - bufferUSD) * callGuardFraction
  RunMaxSteps,      \* spec.maxSteps
  RunBudget,        \* spec.costBudgetUSD
  MaxCost,          \* the most one model call costs
  UpstreamHooks,    \* another plugin's pre-step hook may refuse a step
  Steerable,        \* the agent has an inbox, and the run a sandbox
  MaxTurns          \* how many turns the user starts; bounds the model

Phases == {"research", "prd", "implement", "test", "ship"}
Terminal == {"done", "stopped", "blocked"}
States == Phases \union Terminal
None == "none"

\* No turn was continued yet.
NoStamp == <<"unset", None, 0>>

ASSUME FeatureLoopAssumption ==
  /\ MaxTestAttempts \in Nat
  /\ MaxSteps \in [Phases -> Nat \ {0}]
  /\ MaxSpend \in [Phases -> Nat]
  /\ {CallGuard, RunMaxSteps, RunBudget, MaxCost, MaxTurns} \subseteq Nat
  /\ {UpstreamHooks, Steerable} \subseteq BOOLEAN

VARIABLES
  historyEnabled, \* run history is on, so turn/end is listened to; set at load
  state,          \* PipelineRun.state
  testAttempts,   \* PipelineRun.testAttempts
  steps,          \* PhaseAllocator.steps
  spent,          \* PhaseAllocator.spent
  runSpent,       \* LoopBudget.spent
  runOver,        \* the run's wall clock is past timeoutMs
  phaseOver,      \* the current phase's wall clock is past phaseTimeoutMs
  noticedPhase,   \* policy.noticedPhase
  entered,        \* the pre-step handler's `entered`: the phase it will announce
  continuedTurn,  \* pipeline.continuedTurn
  recorded,       \* the phase on the newest entry of policy.history
  pc,             \* where the harness is in the turn
  turn,           \* turns begun
  step,           \* the step number within the turn
  unpriced,       \* cost of the settled attempts after pricedThroughSeq
  noPrice,        \* the newest of them ran on a route the price table does not know
  ranIn,          \* history: the state the last settled attempt ran in
  told,           \* history: the model was told of this phase since it began
  billed,         \* history: cost of every settled attempt
  calls           \* history: settled attempts by the state they ran in

machine == <<state, testAttempts>>
clock == <<runOver, phaseOver>>
meter == <<spent, runSpent, unpriced, noPrice, ranIn, billed, calls>>
vars == <<historyEnabled, machine, clock, meter, steps, noticedPhase, entered, continuedTurn,
          recorded, pc, turn, step, told>>

Init ==
  /\ historyEnabled \in BOOLEAN
  /\ state = "research"
  /\ testAttempts = 0
  /\ steps = [p \in Phases |-> 0]
  /\ spent = [p \in Phases |-> 0]
  /\ runSpent = 0
  /\ runOver = FALSE
  /\ phaseOver = FALSE
  /\ noticedPhase = None
  /\ entered = None
  /\ continuedTurn = NoStamp
  /\ recorded = None
  /\ pc = "idle"
  /\ turn = 0
  /\ step = 0
  /\ unpriced = 0
  /\ noPrice = FALSE
  /\ ranIn = None
  /\ told = FALSE
  /\ billed = 0
  /\ calls = [s \in States |-> 0]

----------------------------------------------------------------------------
(* Ceilings                                                                *)

TotalSpent ==
  spent["research"] + spent["prd"] + spent["implement"] + spent["test"] + spent["ship"]

\* Slip: the ceiling is compared with the steps taken, not with the next one.
PhaseStopsLate(p) ==
  \/ runOver \/ phaseOver
  \/ TotalSpent >= CallGuard
  \/ steps[p] > MaxSteps[p]
  \/ spent[p] >= MaxSpend[p]

\* Slip: the phase's own ceilings are consulted, the run's call guard is not.
PhaseStopsUnguarded(p) ==
  \/ runOver \/ phaseOver
  \/ steps[p] + 1 > MaxSteps[p]
  \/ spent[p] >= MaxSpend[p]

\* PhaseAllocator.verdict says stop.
PhaseStops(p) ==
  \/ runOver
  \/ phaseOver
  \/ TotalSpent >= CallGuard
  \/ steps[p] + 1 > MaxSteps[p]
  \/ spent[p] >= MaxSpend[p]

\* LoopBudget.verdict says stop.
RunStops == step > RunMaxSteps \/ runSpent >= RunBudget

\* Slip: the cursor stays where it was.
DrainAgain(s) ==
  /\ ~noPrice
  /\ runSpent' = runSpent + unpriced
  /\ spent' = [p \in Phases |-> IF p = s THEN spent[p] + unpriced ELSE spent[p]]
  /\ UNCHANGED <<unpriced, noPrice, ranIn, billed, calls>>

\* spendSettledUsage: everything settled so far is priced into the run and into the
\* phase of state s.  A terminal state has no meter of its own.  On an attempt without
\* a price it throws instead (PreStepThrows, EndTurnThrows), and the cursor stays.
Drain(s) ==
  /\ ~noPrice
  /\ runSpent' = runSpent + unpriced
  /\ spent' = [p \in Phases |-> IF p = s THEN spent[p] + unpriced ELSE spent[p]]
  /\ unpriced' = 0
  /\ UNCHANGED <<noPrice, ranIn, billed, calls>>

----------------------------------------------------------------------------
(* Gates                                                                   *)

Successor(p) ==
  CASE p = "research" -> "prd"
    [] p = "prd" -> "implement"
    [] p = "implement" -> "test"
    [] p = "test" -> "ship"
    [] p = "ship" -> "done"

\* The gate does not pass, or cannot be read.
GateHolds == UNCHANGED <<state, testAttempts, phaseOver>>

GatePasses ==
  /\ state \in Phases
  /\ state' = Successor(state)
  /\ phaseOver' = (phaseOver /\ state = "ship")
  /\ UNCHANGED testAttempts

\* Slip: a failed test always goes back.
TestFailsAgain ==
  /\ state = "test"
  /\ state' = "implement"
  /\ testAttempts' = testAttempts + 1
  /\ phaseOver' = FALSE

TestFails ==
  /\ state = "test"
  /\ testAttempts < MaxTestAttempts
  /\ state' = "implement"
  /\ testAttempts' = testAttempts + 1
  /\ phaseOver' = FALSE

TestFailsForGood ==
  /\ state = "test"
  /\ testAttempts >= MaxTestAttempts
  /\ state' = "blocked"
  /\ UNCHANGED <<testAttempts, phaseOver>>

\* advanceIfGated.
AdvanceIfGated == GateHolds \/ GatePasses \/ TestFails \/ TestFailsForGood

----------------------------------------------------------------------------
(* The hooks                                                               *)

BeginTurn ==
  /\ pc = "idle"
  /\ turn < MaxTurns
  /\ turn' = turn + 1
  /\ step' = 1
  /\ pc' = "prestep"
  /\ UNCHANGED <<historyEnabled, machine, clock, meter, steps, noticedPhase,
                 entered, continuedTurn, recorded, told>>

\* pipelinePreCallGuard, after the drain.
Refused == state \in Phases => PhaseStops(state)'

PreStepRefused ==
  /\ pc = "prestep"
  /\ Drain(state)
  /\ UNCHANGED <<machine, clock, steps>>
  /\ Refused
  /\ pc' = "ending"
  /\ UNCHANGED <<historyEnabled, noticedPhase, entered, continuedTurn,
                 recorded, turn, step, told>>

\* "Throws UnpricedRouteError out of the hook and thereby fails the turn": neither the
\* guard nor the phase notice is reached.
PreStepThrows ==
  /\ pc = "prestep"
  /\ noPrice
  /\ pc' = "ending"
  /\ UNCHANGED <<historyEnabled, machine, clock, meter, steps, noticedPhase,
                 entered, continuedTurn, recorded, turn, step, told>>

\* Slip: the guard runs on the totals as they were, and the drain is left to
\* agent/request.
PreStepUndrained ==
  /\ pc = "prestep"
  /\ UNCHANGED <<machine, clock, meter, steps>>
  /\ ~Refused
  /\ entered' = IF noticedPhase = state THEN None ELSE state
  /\ noticedPhase' = state
  /\ pc' = "hooked"
  /\ UNCHANGED <<historyEnabled, continuedTurn, recorded, turn, step, told>>

\* The drain, the guard and phaseJustEntered, up to `await next()`.
PreStep ==
  /\ pc = "prestep"
  /\ Drain(state)
  /\ UNCHANGED <<machine, clock, steps>>
  /\ ~Refused
  /\ entered' = IF noticedPhase = state THEN None ELSE state
  /\ noticedPhase' = state
  /\ pc' = "hooked"
  /\ UNCHANGED <<historyEnabled, continuedTurn, recorded, turn, step, told>>

\* `next()` came back with a reject: the gate was read, nothing else happened.
UpstreamRejects ==
  /\ pc = "hooked"
  /\ UpstreamHooks
  /\ AdvanceIfGated
  /\ told' = (told /\ state' = state)
  /\ entered' = None
  /\ pc' = "ending"
  /\ UNCHANGED <<historyEnabled, runOver, meter, steps, noticedPhase,
                 continuedTurn, recorded, turn, step>>

CountStep(s) ==
  steps' = [p \in Phases |-> IF p = s THEN steps[p] + 1 ELSE steps[p]]

\* reviewStep files the previous step of this turn.
RecordPrevious == recorded' = IF step > 1 THEN state' ELSE recorded

\* reviewStep refuses the step; it is counted all the same.
StepRejected ==
  /\ pc = "hooked"
  /\ AdvanceIfGated
  /\ RecordPrevious
  /\ RunStops
  /\ CountStep(state')
  /\ told' = (told /\ state' = state)
  /\ entered' = None
  /\ pc' = "ending"
  /\ UNCHANGED <<historyEnabled, runOver, meter, noticedPhase, continuedTurn,
                 turn, step>>

\* The step is entered, with the notices of this boundary.
StepEntered ==
  /\ pc = "hooked"
  /\ AdvanceIfGated
  /\ RecordPrevious
  /\ ~RunStops
  /\ CountStep(state')
  /\ told' = (state' /= state \/ told \/ entered = state)
  /\ entered' = None
  /\ pc' = "request"
  /\ UNCHANGED <<historyEnabled, runOver, meter, noticedPhase, continuedTurn,
                 turn, step>>

\* agent/request drains what had settled before this attempt, then the attempt
\* settles; the model either calls tools, and a step follows, or stops.
ModelCalls(cost) ==
  /\ pc = "request"
  /\ ~noPrice
  /\ runSpent' = runSpent + unpriced
  /\ spent' = [p \in Phases |-> IF p = state THEN spent[p] + unpriced ELSE spent[p]]
  /\ unpriced' = cost
  /\ noPrice' \in BOOLEAN
  /\ ranIn' = state
  /\ billed' = billed + cost
  /\ calls' = [calls EXCEPT ![state] = @ + 1]
  /\ \/ pc' = "prestep" /\ step' = step + 1
     \/ pc' = "stopping" /\ UNCHANGED step
  /\ UNCHANGED <<historyEnabled, machine, clock, steps, noticedPhase, entered,
                 continuedTurn, recorded, turn, told>>

\* The attempt fails or is aborted, and the turn with it.
ModelFails ==
  /\ pc = "request"
  /\ Drain(state)
  /\ pc' = "ending"
  /\ UNCHANGED <<historyEnabled, machine, clock, steps, noticedPhase, entered,
                 continuedTurn, recorded, turn, step, told>>

\* The two stamps as the code formats them: turnStamp leads with the state, the
\* stamp continueIfMidPipeline stores leads with the step count.
TurnStamp == <<"state first", state, steps[state]>>
StoredStamp == <<"steps first", state, steps[state]>>

MayContinue ==
  /\ Steerable
  /\ state \in Phases
  /\ continuedTurn /= TurnStamp
  /\ ~PhaseStops(state)

ContinueTurn ==
  /\ pc = "stopping"
  /\ MayContinue
  /\ continuedTurn' = StoredStamp
  /\ step' = step + 1
  /\ pc' = "prestep"
  /\ UNCHANGED <<historyEnabled, machine, clock, meter, steps, noticedPhase,
                 entered, recorded, turn, told>>

LetTurnStop ==
  /\ pc = "stopping"
  /\ ~MayContinue
  /\ pc' = "ending"
  /\ UNCHANGED <<historyEnabled, machine, clock, meter, steps, noticedPhase,
                 entered, continuedTurn, recorded, turn, step, told>>

\* The turn/end listener: one more look at the gate, then the final drain.
EndTurn ==
  /\ pc = "ending"
  /\ historyEnabled
  /\ AdvanceIfGated
  /\ Drain(state')
  /\ told' = (told /\ state' = state)
  /\ pc' = "idle"
  /\ UNCHANGED <<historyEnabled, runOver, steps, noticedPhase, entered,
                 continuedTurn, recorded, turn, step>>

\* The listener throws after its look at the gate, before the turn is recorded.
EndTurnThrows ==
  /\ pc = "ending"
  /\ historyEnabled
  /\ noPrice
  /\ AdvanceIfGated
  /\ told' = (told /\ state' = state)
  /\ pc' = "idle"
  /\ UNCHANGED <<historyEnabled, runOver, meter, steps, noticedPhase, entered,
                 continuedTurn, recorded, turn, step>>

EndTurnUnheard ==
  /\ pc = "ending"
  /\ ~historyEnabled
  /\ pc' = "idle"
  /\ UNCHANGED <<historyEnabled, machine, clock, meter, steps, noticedPhase,
                 entered, continuedTurn, recorded, turn, step, told>>

\* Only the guard and the continuation read the clock, so it need only move there.
TimePasses ==
  /\ pc \in {"prestep", "stopping"}
  /\ \/ ~phaseOver /\ phaseOver' = TRUE /\ UNCHANGED runOver
     \/ ~runOver /\ runOver' = TRUE /\ UNCHANGED phaseOver
  /\ UNCHANGED <<historyEnabled, machine, meter, steps, noticedPhase, entered,
                 continuedTurn, recorded, pc, turn, step, told>>

----------------------------------------------------------------------------
Next ==
  \/ BeginTurn
  \/ PreStepRefused \/ PreStep \/ PreStepThrows
  \/ UpstreamRejects \/ StepRejected \/ StepEntered
  \/ \E cost \in 0..MaxCost : ModelCalls(cost)
  \/ ModelFails
  \/ ContinueTurn \/ LetTurnStop
  \/ EndTurn \/ EndTurnThrows \/ EndTurnUnheard
  \/ TimePasses

Spec == Init /\ [][Next]_vars

----------------------------------------------------------------------------
(* Properties                                                              *)

Stamps == {"state first", "steps first"} \X Phases \X Nat

TypeOK ==
  /\ historyEnabled \in BOOLEAN
  /\ state \in States
  /\ testAttempts \in Nat
  /\ steps \in [Phases -> Nat]
  /\ spent \in [Phases -> Nat]
  /\ runSpent \in Nat
  /\ runOver \in BOOLEAN
  /\ phaseOver \in BOOLEAN
  /\ noticedPhase \in Phases \union {None}
  /\ entered \in Phases \union {None}
  /\ continuedTurn \in Stamps \union {NoStamp}
  /\ recorded \in States \union {None}
  /\ pc \in {"idle", "prestep", "hooked", "request", "stopping", "ending"}
  /\ turn \in Nat
  /\ step \in Nat
  /\ unpriced \in Nat
  /\ noPrice \in BOOLEAN
  /\ ranIn \in States \union {None}
  /\ told \in BOOLEAN
  /\ billed \in Nat
  /\ calls \in [States -> Nat]

Machine == INSTANCE PhaseMachine

\* Whatever the gates read and whenever a turn ends, the run only ever moves along
\* the pipeline's edges, and goes back to implement at most MaxTestAttempts times.
ImplementsPhaseMachine == Machine!MachineSpec

\* The ceilings bound the whole run, over any number of turns: each phase makes at
\* most its own ceiling of calls, plus one for every time a failed test re-opened
\* it, and at most one call is made after the run has ended.
CallsWithinCeilings ==
  /\ \A p \in Phases : calls[p] <= MaxSteps[p] + testAttempts
  /\ calls["done"] + calls["blocked"] <= 1

\* No attempt is priced twice or forgotten: the run's spend is every attempt's
\* cost, short only of the one that has settled since the last drain.
EveryAttemptPricedOnce == billed = runSpent + unpriced /\ unpriced <= MaxCost

\* While the run is in a phase the phase totals add up to the run's own total.
PhaseTotalsAgree == state \in Phases => TotalSpent = runSpent

\* A drain at a step boundary charges an attempt to the phase it ran in, although
\* the gate is read later in the same handler.
BoundaryDrainsAreExact ==
  [][pc /= "ending" => \A p \in Phases : spent'[p] /= spent[p] => ranIn = p]_vars

\* The buffer is kept: calls stop once the working share is gone, so that what was
\* billed passes the guard by less than the cost of one call.  An attempt without a
\* price does not "disable the ceiling it exists to enforce" (spendSettledUsage).
GuardKeepsTheBuffer == billed > 0 => billed < CallGuard + MaxCost

\* A phase's money ceiling is passed by at most one call for each time the phase was
\* entered, whether the call was let through by the guard of the phase before or
\* charged to this one by the turn's last drain: what one entry overspends is not
\* overspent again by the next guard.
PhaseMoneyIsBounded ==
  \A p \in Phases : spent[p] <= MaxSpend[p] + MaxCost * (1 + testAttempts)

\* The run's own budget is passed by less than one call, whatever the phases do.
BudgetIsKept == billed > 0 => billed < RunBudget + MaxCost

\* However many turns the user starts, the run makes a bounded number of calls.
CallsAllowed ==
  MaxSteps["research"] + MaxSteps["prd"] + MaxSteps["implement"] + MaxSteps["test"]
    + MaxSteps["ship"] + 2 * MaxTestAttempts + 1

TurnsAddNoCalls ==
  calls["research"] + calls["prd"] + calls["implement"] + calls["test"] + calls["ship"]
    + calls["done"] + calls["stopped"] + calls["blocked"] <= CallsAllowed

\* "A phase that reaches its own ceiling stops": README.md of the repository.
PhaseStopsAtItsCeiling == \A p \in Phases : steps[p] <= MaxSteps[p]

\* "An attempt is always priced against the phase it actually ran in": the comment
\* on spendSettledUsage in plugin.ts.
PricedWhereItRan ==
  [][\A p \in Phases : spent'[p] /= spent[p] => ranIn = p]_vars

\* The step history carries "the phase as it was WHEN the step ran": the comment
\* on reviewStep in plugin.ts.
RecordedWhereItRan == [][recorded' /= recorded => recorded' = ranIn]_vars

\* The phase notice is "delivered when the phase CHANGES": the comment on
\* phaseJustEntered in plugin.ts.  No call is made in a phase the model has not
\* been told of since the phase began.
ToldBeforeWorking == pc = "request" /\ state \in Phases => told

\* "The phase has not already been continued in this turn": the comment on
\* continueIfMidPipeline in plugin.ts, for a run of a single turn.
ContinuedOncePerPhase ==
  [][continuedTurn' /= continuedTurn /\ continuedTurn /= NoStamp
       => continuedTurn'[2] /= continuedTurn[2]]_vars
=============================================================================
