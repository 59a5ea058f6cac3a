# Formal models of dsh-feature-loop

`@freepeak/dsh-feature-loop` is a plugin for the DeepSeek Harness. It hooks an
agent's turns so that a coding run walks a pipeline of five phases under step
and cost ceilings, gates the tool calls the run makes, and lets a human answer
approval requests from a web page. It can send work to external coding CLIs, keeps a
history of its runs, and contains a standalone loop of its own. This directory holds TLA+
models of the parts whose correctness depends on the order in which things happen, the TLC
configurations that check them on small instances, and TLAPS proofs that the main
properties hold for every value of the constants.

Paths below are relative to the package (`src/plugin.ts` is the plugin, `web/entry.tsx` the
page in the web UI).

## Inventory

| Component | State it keeps | Operations | Talks to |
|---|---|---|---|
| Approval registry `approvals.ts`, `run-grants.ts` | pending asks, run grants, stopped flag | claim, delegate, settle by click, timer, abort, stop; grant a tool for a run | harness approval seam, both front ends |
| Front ends `dashboard.ts`, `remote.ts`, `watcher-ttl.ts` | event-stream clients, time of the last report | open, ping, close, poll, click, unload | the registry; they share its watcher flag |
| In-UI page `web/app.tsx`, `web/entry.tsx`, `change-event.ts` | last snapshot, thread, composer, answers under way | read when told or in time, type, click, post | the registry, over the host remote |
| Settings `remote.ts`, `web/entry.tsx` | the settings file; each panel's form | load, edit, save, reload | the operator's editor, the host |
| Pipeline machine `pipeline.ts`, `phases.ts` | phase, test attempts, log | transition, stop | driver |
| Hooks `plugin.ts`, `driver.ts` | noticed phase, continuation stamp, pricing cursor | pre-step, request, turn-stopping, turn/end | pipeline, both budgets, the harness session log |
| Budgets `budget.ts`, `phase-budget.ts` | spend and steps, per run and per phase; clocks | spend, countStep, enterPhase, verdict | hooks, runner |
| Tool gate `plugin.ts`, `review.ts`, `yolo.ts` | pending call, step history, last score, list of written paths | review a step, decide a call, record a write | hooks, the approval seam, ship |
| Detectors, judge, router `signals.ts`, `review.ts`, `laya.ts`, `routing.ts` | review budget, checkpoint, latch, rung of the ladder | detect, score, route | tool gate, runner |
| Ship `ship.ts`, `driver.ts` | none of its own: the git checkout, `pr-url.txt` | branch, add, commit, push, open a pull request | hooks, the ship gate |
| Workers `worker-tool.ts`, `worker-dispatch.ts`, `workers.ts`, `worker-changes.ts` | one terminal per call, a deadline, a snapshot | judge, open, send, scan, interrupt, close | the harness terminals, ship (files changed) |
| Review briefs `plugin.ts`, `explainer.ts`, `brief.ts` | brief state per pending ask, failure count | request, record | registry, a model |
| Standalone runner `runner.ts` | messages, history, premature stops, ladder, budget | the step loop and its outcomes | judge, operator, tools |
| Refinement `refine.ts` | passes, best pass, baseline, money | run a pass, compare, stop | the runner |
| Run history `runlog.ts`, `envelope.ts`, `optimize.ts` | the JSONL file of past runs | append, read, derive, plan | hooks, any caller of a plan |
| Advice and evidence `optimizer.ts`, `metrics.ts`, `evidence.ts` | none | score questions, summarise, render | history |
| Configuration and text `index.ts`, `spec.ts`, `command.ts`, `prompts.ts`, `messages.ts`, `phase-notice.ts`, `dashboard-page.ts`, `tools.ts` | none | parse, render, run a tool | everything |

What is hard here:

- **Two settle paths for one ask.** Clicks from two pages, a timer, an abort
  signal and a shutdown all settle the same entry.
- **A grant widens the future.** "Allow for this run" releases queued siblings and
  waves later asks through; it must never reach another run, another tool or an
  ask of another kind.
- **A flag that is really a heartbeat.** Whether anybody watches is a time stamp
  shared by every tab and by a page that only polls.
- **A page that is told to read again.** Events carry nothing, are coalesced and may be
  lost; reads overtake each other; an answer may arrive though its reply does not.
- **Hooks in an order the plugin does not control.** One handler drains usage,
  consults ceilings, calls `next()`, reads the gate, reviews and counts. The
  same gate and the same drain run again at the end of a turn, in the other
  order. Most findings below come from that.
- **One slot for many calls.** A step makes several tool calls and keeps one; a
  judge's score outlives the step it was given for; a denial is part of the key by which
  a repetition is known.
- **A checkout shared with its operator.** Shipping is a dozen commands, each of which
  may fail, on an index, branches and an artifact that earlier runs and the operator
  left their marks on; the process may die between any two.
- **A process nobody owns.** A worker exits, is interrupted by its deadline or with its
  turn, loses its shell or ignores all of it, while the files it writes are credited to
  somebody.
- **A loop that learns from itself.** Ceilings are derived from runs that were made under
  derived ceilings, out of a file that a death may tear.
- **Ceilings over many turns.** Steps are numbered within a turn, phases are left
  and re-entered, and money is known only after a call.

What makes each component correct: an ask is decided once and an allow always goes
back to a human; an open tab is a watcher and an open page ends up showing what
waits; the phase only follows the pipeline's edges; every attempt is priced once and in the
phase it ran in; ceilings bound the calls; a repetition is told and a score is never
older than its step; what ships is what the run wrote, and `done` stands for something that
was delivered; a reported worker is gone and its report agrees with how it ended; a run of
the loop ends for one reason that is so; the best pass is returned; a death costs little
history and headroom does not compound; nobody's setting is lost. `PROJECT.json`
lists the hazards one by one with the property that covers each of them, or the reason none does.

## Modules

| Module | What it is |
|---|---|
| `HumanGate` | what the registry promises, with no machinery: an abstract specification |
| `Approvals` | the registry with its run grants; implements `HumanGate` |
| `FrontEnds` | extends `Approvals` with tabs, pings, polls, the TTL and unloading |
| `Briefs` | extends `Approvals` with the explainer; implements `Approvals` |
| `Page` | extends `Approvals` with the page in the web UI and its transport |
| `Settings` | the settings file, the forms of open pages and the operator's editor |
| `PhaseMachine` | the pipeline's state machine: an abstract specification |
| `FeatureLoop` | one agent's run under the plugin's hooks; implements `PhaseMachine` |
| `Review` | what both loops ask of a step: detectors, policies, the attention budget (operators only) |
| `ToolGate` | the review of steps and the verdicts on calls, over a session of the plugin |
| `Ship` | the runs of one checkout from their first write to the pull request |
| `Workers` | `dispatch_worker` calls of one turn, their terminals and processes |
| `LoopPass` | what one run of the standalone loop promises: an abstract specification |
| `LoopRunner` | the standalone loop; implements `LoopPass` |
| `Refine` | passes over one task, each of them a `LoopPass` |
| `History` | the file of past runs, and the ceilings derived from it, as a closed loop |
| `MC...` | instances for TLC, one per checked module |
| `ApprovalsProofs`, `FrontEndsProofs`, `FeatureLoopProofs`, `ShipProofs`, `WorkersProofs`, `LoopRunnerProofs`, `RefineProofs`, `ToolGateProofs` | the theorems; those about `Briefs` and `Page` are in the first, those about `Settings` in the second, those about `History` in `RefineProofs` |

An operator marked *Slip* in a comment is a plausible mistake in the code it stands beside.
No specification uses a slip; it is the bug that the property named in `PROJECT.json`
would catch. Variables declared under "kept for the properties only" are history variables: no
action looks at them.

### Approvals

An ask is a number: ask *n* is the *n*-th the harness raises, so the registry's
insertion-ordered map of pending entries is the set of pending asks.
`outcome[a]` says where an ask stands; `granted` is `RunGrants`. The reason text of an
ask is one of two kinds, with or without the policy marker, because that is all
`runGrantable` looks at. `answer()` is four actions, one per way out of it, in the order
of the code: refused after stop, covered by a grant, unwatched, claimed.
`settleApproval` is `Answer` and `GrantForRun`; the timer is `Expire`, the abort signal
`Withdraw`, `stop()` is `Stop`. The timer may go off whenever it is armed: no
property depends on its length. `clicks` is a history variable: the clicks that were
reported to the page as settled.

`HumanGate` keeps no grant store. What is granted is read off the clicks, so the
refinement says that the registry's `Map` of grants is never more and never less
than what humans clicked.

### FrontEnds

The watcher flag is its age in ticks, counted up to the TTL. A connected tab's stream is the
ticks since it last wrote; a tick may pass only when every ping that is due has
been written, which is the timer's promise. The in-UI page reports whenever it
likes here; when it polls is `Page`'s matter. The plugin hands its registry to the
dashboard, so the dashboard's own map of asks is always empty and its two
loops over that map do nothing. `stop()` of the registry has no caller in the
repository: `Unload` removes the answerer and drops the streams, and the asks stay.

### Briefs

| Action | Code |
|---|---|
| `BriefRaise` | the ask, and the callback it queues (`attachApprovalAnswerer`) |
| `FindsNothing`, `DoWithout`, `Explain` | the callback: `pendingIdFor`, `requestBrief` up to the model call |
| `Explained`, `NotExplained` | its reply, failure, or timer, and `recordBrief` |
| `BriefSettle`, `BriefWithdraw` | the registry's own steps |

The callback is a microtask, so it runs before any click, timer or reply, but a sibling
may be raised or withdrawn first. An entry is found by tool, call id and reason:
`Twins` are the asks it cannot tell apart. `call[a]` is the entry the model call of ask `a` will
write to. `made` counts calls since the last usable reply, `peak` how many were open together.

### Page

| Action | Code |
|---|---|
| `AskRaised`, `AskLapses`, `AnsweredElsewhere`, `WatcherComesOrGoes` | the registry's steps, each with the `notify` it makes |
| `TimerFires`, `IntervalEnds`, `EventLost` | `createChangeEmitter`; an event that the transport drops |
| `OpenPage`, `Poll`, `EventArrives`, `HostReads`, `ReplyArrives`, `ReadFails` | `useSnapshot` over `live()` |
| `Type`, `Post`, `Click` | the composer, the thread cut to its last entries, a card's buttons |
| `HostAnswers`, `AnswerReturns`, `AnswerLost` | `answer()` at the host, its reply, and the page's `catch` |

The transport is external: a call may fail before or after the host acted on it, replies
overtake each other, an event may be lost. `shown` is the page's snapshot; `Cards` is
what its thread has room for.

### Settings

| Action | Code |
|---|---|
| `Mount`, `Unmount`, `Edit`, `Reload`, `Save` | `SettingsPanel` |
| `HostReadsFile`, `StatusArrives`, `StatusFails` | `buildStatus` and `load` |
| `HostSaves`, `HostRefuses`, `HostDies` | `saveSettings` with `validateSettings` |
| `SaveReturns`, `SaveLost` | the rest of `save` |
| `HandWrites`, `HandBreaks` | external: the operator's editor |

Three keys stand for all twelve: one the form fills with a default, one it may leave blank,
one that is in the file and not on the form. `lost` names the keys that went with a file
that did not parse or whose writer died; `hand` is what the editor last wrote.

### FeatureLoop

The harness is a cycle of program points: `idle`, `prestep`, `hooked` (inside `await
next()`), `request`, `stopping`, `ending`. Each hook is one action, split where the
handler awaits something that may answer either way.

| Action | Code |
|---|---|
| `PreStepRefused`, `PreStep` | `agent/pre-step` up to `await next()`: drain, guard, phase notice |
| `UpstreamRejects`, `StepRejected`, `StepEntered` | the rest of it: gate, review, count, notices |
| `ModelCalls`, `ModelFails` | `agent/request` and the attempt that settles after it |
| `ContinueTurn`, `LetTurnStop` | `agent/turn-stopping` |
| `EndTurn`, `EndTurnUnheard` | the `turn/end` listener, installed only with run history |
| `PreStepThrows`, `EndTurnThrows` | the drain meets an attempt on a route without a price, throws, and "fails the turn" |
| `TimePasses` | the wall clocks, where they are read |

`AdvanceIfGated` is `advanceIfGated` with a gate that may read anything: not pass,
pass, or, in `test`, fail back to `implement` or for good. Money is in whole
units; `unpriced` is what settled after the pricing cursor. Once an attempt has settled on
a route without a price (`noPrice`), every later drain throws at it: nothing is priced or
admitted any more, and each turn fails where the drain stands. `ranIn`, `told`, `billed`
and `calls` are history variables.

`Steerable` says whether the agent has an inbox that takes a continuation and the run a
sandbox; without either, `continueIfMidPipeline` lets every turn stop. The run has it `TRUE`,
for there the turns are longest; TLC has also checked the instance with `FALSE`.

Assumptions: a model attempt settles as one message; the same turn's `turn/end` delivered twice is dropped by
`recordedTurns` and so is not modelled; the session is not restarted under the policy.

### ToolGate

One policy lives as long as the session, over turns whose steps count from 1.

| Action | Code |
|---|---|
| `ReviewStep` | `reviewStep`: file the pending call, detect, ask the judge, route, pause at the checkpoint |
| `StepRejected`, `StepRefused` | `agent/pre-step` when another hook or a ceiling refuses |
| `Proceed`, `Ask`, `Deny`, `DenyAfterShip` | `tools/pre-execute` with `gateEnforce`, for each of its verdicts |
| `HumanAllows`, `HumanRefuses` | the approval's answer |
| `StepEnds`, `TurnEnds`, `NewTurn`, `EntersShip` | the harness and the pipeline |

`File` is the boundary's filing of `pending` into the history; `Judge`, `Route` and the
policies are those of `Review`. How the envelope and the shell reader classify a call is a
constant (`InEnvelope`, `ReadOnly`). `pending.error` is always `FALSE`, as in the code.

### Ship

Runs follow each other in one checkout. `state` is what `Ship` needs of the pipeline:
before, in, or past the ship phase. `pc` is the next command of `ship()`. The function is
synchronous, but what it drives is not: the operator may edit and stage files between
any two commands, and `NewRun` at any `pc` other than `idle` is a process that died.

| Action | Code |
|---|---|
| `WriteLands`, `WriteNeverLands`, `UnaskedWriteLands` | `tools/pre-execute`: `writeAfterShipDenial`, `recordWrite`, `recordRequestedWrite` |
| `Lands`, within every write | what `envelope` allows a write to, and what an editor can do |
| `WorkerStarts` to `WorkerCloses` | the two snapshots around a worker, its `end` event, the close of its terminal |
| `EnterShip` | `writtenPathsArg`, on entering the phase |
| `CreateBranch` to `PrFails` | the commands of `ship()`, one action per outcome |
| `Record`, `RecordFails` | the end of `runShip`, and the `catch` around it |
| `GatePasses` | `advancePhase` in `ship`, reading `pr-url.txt` |

`pr-url.txt` (`PrUrl`) is one of the checkout's files. `ship()` writes it, but the run's own
write tool, its worker and the operator may write it too, with anything in it (`Typed`), an
earlier run may have left it, the loop commits it if it is on a run's list, and a branch that
is checked out may bring another (`TreeOfBranch`). The gate looks at the text only: `artifact`
is that text's kind, and the run whose `ship()` wrote it, which no action's guard reads.
So the artifact by itself stands for nothing. What the loop does guarantee is `GateIsEarned`:
whatever fails or dies, a run is done without having delivered only if it had an accepted
text before it that its own `ship()` did not write (`found`).

A branch is the set of runs whose commit it contains. Commits are not
told apart further, nor is the content of another file: it is dirty or it is not.
`landed`, `byHand`, `committed`, `found`, `strayed` and `lossy` are history variables. The last
two mark runs whose checkout, `git add` or snapshot failed, or that wrote unasked, which
`RequestCarriesItsCommit` and `ShippedWorkIsWhole` except by name, because the code does
not look at those failures.

Assumptions: nobody but `ship()` switches branches or commits, and nobody deletes files; file tools
do not run beside a worker, whose implementing role is not concurrency-safe; the
harness waits for its tool calls before a turn ends; gh opens a request
only from a branch that is on the remote. What shell commands write is recorded by nobody and is not modelled.

### Workers

`pc[d]` is where `runWorker` stands for call `d`, `term[d]` its terminal, `proc[d]` and
`code[d]` the worker's process.

| Action | Code |
|---|---|
| `Dispatch` | `checkDispatch`, the harness's `isConcurrencySafe`, the first snapshot |
| `Opened`, `OpenFails` | opening the terminal |
| `SendThrows`, `SendSettles` | the wait for the end marker, and what `scanScrollback` finds |
| `TimerFires`, `CancelTurn`, `GraceOver` | the deadline, the turn's signal, the interrupt and its grace period |
| `Finish`, within each of those that end a call | the second snapshot and the report |
| `Close` | the `finally`: the terminal is closed, or stays open |
| `Launch`, `Writes`, `Exits`, `Killed`, `ShellDies` | external: terminal and process |

### LoopPass, LoopRunner and Refine

A step of `LoopRunner` is `BeginStep` (verdict, route, detectors, judge; perhaps ask the
operator), one model call (`CallFails`, `ModelStops`, `ModelCallsTools`), the tools of the
message one by one (`BadCall`, `RunTool`, `AskForTool` and the operator's answer) and
`AfterTools`, which observes the step and checks the success condition; `OverBudget` and
`End` are the ways out. `owed` counts the tool calls of the last message that have no answer yet.
A tool is known by its name alone, so two calls of one tool with other arguments are the same key
to the cycle detector. Assumption: the caller's `checkSuccess` and `onReview` and the questioner
answer. One that rejects takes the error out of `runLoop`, and there is no outcome to speak of.

`LoopPass` is what a caller may rely on: one outcome, money below the budget and one
call, and a goal that is met exactly when the check says so. `LoopRunner` implements it,
and `Refine` is built on it: its `RunPass` is a `LoopPass` step, its `EndPass` is
the comparison, the stop rules and the baseline of `refine()`. So what is shown of
refinement holds for any loop that keeps `LoopPass`, this one among them.

### History

`lines` is the file: records, and lines torn by a death (`DieInAppend`); `unended` says that the last
has no newline, so that the next append lands on it. `Filtering` is a loop that pushes some elements of a list,
round by round: `Records` is `readRecords` with its `try`, `Derived` is
`deriveEnvelope`, `Start` a run planned by `planEnvelope`, `Finish` and
`TurnEnds` the records made of it. The callers of the plan are not in the repository: two
processes stand for any. `Percent` and `HeadroomTenths` are the code's 95 and 1.3.

## Runs

| Run | Instance | Shows |
|---|---|---|
| `approvals` | 3 asks, 2 runs, a file tool and `bash`, 2 kinds of reason | grants release and stay in bounds, allows are human, clicks are final, and `HumanGate` |
| `front_ends` | 2 asks, 2 tabs, ping 2 and TTL 5 ticks | open tabs watch, claimed asks settle |
| `briefs` | 3 asks of 2 kinds, given up after 2 failures | twins share a brief, a dead explainer is cheap, a promised brief settles |
| `page` | 1 ask, 2 reads, 1 answer and 1 event under way, a thread of 2 | the last change is told, an open page converges |
| `settings` | 1 panel, 2 reads, 2 visits of the editor | keys off the form survive it, the form's buttons come back |
| `feature_loop` | 3 turns, 1 retry, ceilings of 1 and 2 steps, calls costing 0 or 1 | ceilings, pricing, the state machine |
| `tool_gate` | 2 turns, 3 steps each, 2 calls a step, a write inside, a write outside, a read | repetitions are told, scores are fresh, what landed is recorded |
| `ship` | 2 runs, 2 branch names, 2 files, with and without a remote | what is committed, pushed, opened and recorded |
| `workers` | 2 calls, 2 of the CLIs allowed, 1 file | reported workers are gone, reports agree with exits, files are credited right, calls return |
| `loop_runner` | 4 steps, 2 rungs, 2 tools, 2 calls a message, budget 4 | calls are answered, attention and ladder, `LoopPass`, the run ends |
| `refine` | 4 passes, 3 levels, passes that may overshoot | the best is returned, the overshoot is one pass, scores rise, refining ends |
| `history` | 2 processes, ceilings 1 to 3, 4 records, the 60th percentile of the last 2 | what a death costs, that headroom does not compound, that the typical run fits |

Why these bounds:

- `approvals`: three asks are the fewest with an ask that is clicked, a sibling in the queue that the click
  releases, and one raised afterwards under the grant. Two runs and two tools give
  each grant a neighbour it must not reach; the runs are symmetric. `MaxAsks` only cuts behaviours off.
- `front_ends`: the ping and the TTL keep the proportion of the code's 25 s and 60 s: two pings fit into
  one TTL and a third does not.
- `briefs`: three asks let the explainer fail twice, be given up, and be asked again; of
  two kinds, so that some are twins and some are not.
- `page`: one ask suffices for stale replies, since it can be raised, shown, answered
  and lapse while two reads overtake each other; two posted messages fill the thread of two.
- `settings`: a second panel would write as the editor does, whole and at any moment, so
  one panel over a file that changes under it sees what it would; two visits are a break and
  a mend, or a write between two saves.
- `feature_loop`: one retry re-opens `implement` and `test`; phases of two steps let a turn go on in the phase it began in, and leave one step
  for after the retry; three turns let a phase be left at the end of one turn and re-entered in the next. The
  run's step ceiling, both phase ceilings, the call guard and both clocks each stop some
  behaviour of the instance; the run's own budget lies above the call guard, as in the code, and never does.
- `tool_gate`: a cycle of two fits into one turn and is cut by the next; the checkpoint is at the second
  of three steps, so that it is met, passed over and met later; two calls a step compete for the pending slot.
- `ship`: two runs are the fewest in which one finds what another left: an
  artifact, a branch, a staged file; the two names let them share a branch or not; one
  of the two files is the artifact, and each can be the run's or somebody else's. Only the branches are symmetric.
- `workers`: two calls of any roles overlap, are cancelled together, and one finds the other's
  terminal left open; one CLI is not on the list.
- `loop_runner`: four steps let a cycle or cascade of two show, be cleared and show again; the
  ladder's second rung is reached by count at the fourth step, and before it by price.
- `refine`: with four passes an unscored one can lie between two scored ones and the run still go on.
- `history`: at 60 percent the rank of one record and of two is rounded up, and three records already outgrow the window of two;
  a fourth is planned from them, while two processes interleave and tear.

The type invariants are theorems and are checked by no run. Deadlock is not checked: an instance really
stops, when every ask has been settled, the last turn has ended, or the last run is done.

### Fairness

Every specification under which a liveness property is checked assumes only this:

| Property | Fairness | Because |
|---|---|---|
| `ClaimsSettle` | each ask's own timer | claiming arms a `setTimeout` that only settling clears |
| `BriefsSettle` | the callback runs; a call ends | it is a microtask; the client's timer (`llm.ts`) ends a call the explainer's deadline does not |
| `PageConverges` | the poll fires; a read under way ends; not every read fails to reach the host or to come back (strong) | the page's interval; a call returns or throws; a transport that drops everything shows nothing |
| `FormComesBack` | the host handles a save and a read, replies come or fail | remote calls settle, and the probe has a 3 s timer |
| `StartedIsReported` | the deadline, a send's own wait limit, the grace period, the close | all are timers of `runWorker`; nothing makes a worker exit or a terminal open |
| `RunEnds` | the loop's own step | a step waits only for a gateway and tools with timeouts of their own; an operator may never answer, and then the run waits |
| `RefinementEnds` | the loop's own step; a pass ends | `RunEnds` |

### Refinements

`FeatureLoop` implements `PhaseMachine`, `Approvals` implements `HumanGate`, `LoopRunner` implements
`LoopPass` (each both checked and proved), and `Briefs` implements `Approvals` (proved), so that whatever is
shown of the registry holds with briefs on it. `Page` and `FrontEnds` are no refinements of
`Approvals`: an answer from a front end settles an ask and reports a watcher in one step. Both implement
`HumanGate` (proved), which says nothing of watchers, and what matters of the registry is
proved again under `PageNext` and `FrontNext`.

### What the code does not do

Met while modelling; each quotes the sentence of the repository it disagrees with, and
`PROJECT.json` has it in full. The formulas named are in the modules, and TLC refutes them
when they are put into the cfg given (those marked * as a PROPERTY); they are not in any run.

In `FeatureLoop.cfg`, with the constants changed that are noted:

- `PhaseStopsAtItsCeiling`. "A phase that reaches its own ceiling **stops**". The
  guard looks at the phase before the gate is read; the step is counted after. What holds is
  `CallsWithinCeilings`: at most one call more per retry.
- `PricedWhereItRan`*. "An attempt is always priced against the phase it actually ran in". True
  at step boundaries (`BoundaryDrainsAreExact`); at `turn/end` the gate is read first.
- `RecordedWhereItRan`*. "The phase as it was WHEN the step ran". The gate has been read by then.
- `ToldBeforeWorking`. "Delivered when the phase CHANGES". `turn/end` can move `test` back
  to `implement`, which is what `noticedPhase` still says.
- `ContinuedOncePerPhase`* (`MaxTurns = 1`, `MaxSteps <- ThreeSteps`). The stored stamp is `steps:phase`, the one it is compared with
  is `phase:steps`.

Elsewhere:

- `LastTabSettles`* (`FrontEnds.cfg`). "Every failure path (last tab closed, ...) settles the pending ask". It waits for its timer.
- `DoneHasDelivered` (`Ship.cfg`). "A run that opened no PR must not proceed as though it had". The gate reads whatever
  `pr-url.txt` is in the checkout. An earlier run may have left it; the run, its worker or the operator may have written it. What holds
  is `GateIsEarned`: without such a text a run is done only with its commit, and its request where there is a remote.
- `CommitIsTheRunsOwn` (`Ship.cfg`). "The paths are the run's own writes". A refused edit, a file left staged and whatever
  changed beside a worker are committed too. What holds is `ScopedCommit`.
- `EveryWriteIsRecorded` (`ToolGate.cfg`). A supervised gate that lets a write through unasked does not record it. What holds is `LandedIsRecorded`.
- `FailuresAreTold` (`ToolGate.cfg`). Nothing ever sets a pending call's error, so the error cascade cannot fire in the plugin.
- `AttentionIsBudgeted` (`ToolGate.cfg`, `MaxTurns = 3`). The first step of a turn is never counted, so in turns of one step the budget always has room.
- `ZeroExitIsCompleted`, `ValidatorFilesStayOut` (`Workers.cfg`). An interrupted worker that exits with zero is a timeout; a tester is credited with what a validator beside it wrote.
- `UnaskedIsRoutine`* (`LoopRunner.cfg`). The gate reads the judge's "worth a human look" as confidence.
- `ReturnedGoalHolds` (`Refine.cfg`). Later passes edit the same workspace, and may undo the goal of the pass that is returned.
- `ProvenSuccessIsKept`*, `PlanStaysWithinConfig`*, `OneLossPerCrash` (`History.cfg`). A success under another fingerprint
  holds nothing up; the band may exceed the configured ceiling; a torn line takes the next record with it (`LossIsBounded` says two).
- `OffIsOff` (`Briefs.cfg`, `Enabled = FALSE`), `GivingUpIsFinal`*. A switched-off explainer still promises a brief; a late reply starts a given-up one again.
- `PageAlwaysConverges`* (`Page.cfg`). The operator's own messages can push every card out of the thread; `PageConverges` says when they do not.
- `EmptyMayBeSaved`, `MergeIsNoReplace` (`Settings.cfg`). The form blanks a checkpoint that is not set and the host then refuses the whole form; a file that does not parse is written over.

Others were met in reading and rest on no property: the
checkout whose exit code is ignored (`RequestCarriesItsCommit` excepts it), the
explainer's signal, sessions counted turn by turn in the history, prices that never reach the
plugin's ladder, failures nobody reports to it, answers that come too late, Enter in the
start form, stale reads put back into the settings form, a judge latched for the whole
process, the optimizer's directions, and the implement gate, which counts the documents of the
phases before. `PROJECT.json` lists them under "findings".

## Proofs

Every theorem is for all values of the constants that satisfy the modules' named
assumptions: any number of asks, runs, tools, tabs, turns, passes, calls and panels, any ceilings and
costs.

`ApprovalsProofs`. The invariant is the conjunction of the registry's safety properties and
`GrantsAreClicks`: a pair is in the grant store exactly when somebody clicked
"allow for this run" on a grantable ask of that run and tool. Without it nothing
connects the store to the clicks, and neither `AllowedByHuman` nor the refinement is
inductive. The refinement maps each registry step to the `HumanGate` step of
the same name; `Stop`, `Expire` and `Withdraw` map to `Lapse`; watcher changes stutter.
*Briefs*: `BriefInv` adds that a callback comes before its call (`Once`) and that the calls
made since the last usable reply have failed or are still open (`Accounted`), a count over a
finite set; twins need that an entry found is the first of its kind, which is where the
library's well-founded induction enters. *Page*: `EmitterOK` ties an untold change to a timer.
*The registry with front ends on it*: `RegistryMoves` is what anything above the registry may do to it, a step
of it, or one of its settlements with a report in the same step, or a report alone. Under such a
move the invariant is kept (`InvMove`), `HumanGate` takes a step or none (`GateMove`) and an answer
given stands (`StandMove`), so each front end only has to show that its steps are such moves (`PageMoves`
here, `FrontMoves` in `FrontEndsProofs`).

`FrontEndsProofs`. `FlagInv` says that the flag is at most as old as the oldest stream;
it is inductive because a tick waits for pings that are due and `Keepalive < TTL`. It is a theorem of
the flag alone; the registry's invariant, `HumanGate` and `AnsweredOnce` come from `FrontMoves`. *Settings*:
a key off the form is never in what a save merges (`MergeKeeps`), and every way a value
can go besides is in `lost`; what a form sends is legal or refused, however stale.

`FeatureLoopProofs`. The inductive invariant is `IInv`, nine conjuncts:
`Cursor` (what is unpriced is the one attempt that ran in `ranIn`), `Totals`,
`Buffer`, `AfterTheEnd` (at most one call follows the end), `GuardedStep` (between the
guard and the gate the phase has room for a step), `Ahead` and `Ceilings` (steps
counted stay within the ceiling plus the retries), and `Counted` (a call is
counted before it is made). `GuardedStep` is the heart of it: it carries the guard's
verdict across `next()`, where the gate may still change the phase, which is why the
bound has a retry term and the README's does not hold.
*Money*: `MoneyInv` is proved on top of `IInv`. A phase's spending stays within its ceiling, one call, and one
call more for each failed test (`Charged`); to carry that across the gate, a phase the run has yet
to reach must have spent nothing and `test` must be owed its entry while a failed test is fixed
(`Uncharged`), what is unpriced must fit the phase the run stands in (`Fits`), and the
guard's verdict must hold until the call is charged (`Payable`, `Purse` for the run's own budget).
`Fits` is excepted once a call without a price has thrown: nothing is priced in that run again.

`ToolGateProofs`. That a repetition is told needs most: the last call of a step is what is
pending (`Filed`), a streak of *k* steps is what the newest *k* observations say as far as
they are kept (`Remembered`), and a step that starts a turn knows nothing of the turn before (`Fresh`).

`ShipProofs`. `IInv` follows a file from the tool call to the commit and the commit to
the request. `Whole` says where a run's files are at each `pc`: on its list, among
the paths, in the index, in the commit. `Carried` says where its commit is: on the
branch checked out, then on the remote; it needs that the remote never holds more
than the local branch, or a push could take an earlier run's commit away. `Evident` says what is established
before `ship()` writes its evidence, and that any other text the gate would take is in `found`. `Own` and
`OnDisk` supply the order of a run's life, without which a later run could be confused with an earlier one.

`WorkersProofs`. `Stages` says how far terminal, process and report are at each `pc`, `Marked`
that a marker follows an exit, `Alone` that no call overlaps an implementer's, and `Clean`
what the difference to its first snapshot then consists of. `ReportsStand` and `StopsAreNotForgotten`
are what can be proved of `StartedIsReported`: a stop cannot be lost between two sends, only timers then remain.

`LoopRunnerProofs`. The calls left and the answers owed are the same number while a message
is worked through (`Answering`); the judge's reviews are among all reviews (`Attentive`); the rung
the step began with (`Climbed`); and what a run that goes on has established about its
outcome, its money and the goal (`Going`), from which the refinement of `LoopPass` follows.
What a caller builds on is proved of `LoopPass` (`PassWordIsKept`) and carried to the loop through the refinement
(`RunsKeepTheirWord`). `WorkLeft` counts what can still happen in a run, steps times the places of a step
and the calls of a message; every step of the loop makes it smaller, so no run takes more
than a fixed number of steps (`NoRunIsEndless`): with the fairness of the loop's own step, that is `RunEnds`.

`RefineProofs`. Each pass is compared with the best one only, so that the best is no worse than any
pass that ran rests on the comparison being a strict weak order. `Baselined` says that the
baseline stands above every score so far, `AffordableLeaves` what a pass that may start leaves.
`StagesLeft` does for a refinement what `WorkLeft` does for a run, except that a pass under way may
take any number of steps (`NoRefinementIsEndless`).
*History*: the file is of any length, so the theorems are about a loop of any number of rounds. The library's
induction theorems cannot be instantiated here; instead each fact about the loop is proved from the least
round at which it would fail (`LeastNumber`, from the well-foundedness of `<`): the loop has a result
(`FilteringExists`), unfolds (`FilteringUnfolds`), and does not look ahead (`FilteringAgrees`), so a line
more is a record more or none (`KeptAppend`), and spoiling the last line loses that line alone (`KeptLastBad`).
`Accounted` then charges a death for its own record and, while the file is not ended, for the one the next append will spoil.
`RankIsNearest` says what the percentile of any sequence is. That ceilings do not compound needs the
records to be in the invariant: each is of a run under a ceiling within reach, or of a session
(`Plausible`), and the plan made of such records is within reach again (`DerivedInBand`).

Theorems without a run: `StopIsFinal`, `TotalsAgree`, `BufferIsKept`, `TheLadderIsSticky`,
`CriticalSignalsAreCleared`, `StopsAreNoFailures`, `OneCheckpoint`, `NothingIllegalIsSaved`, `PhaseMoneyStaysBounded`,
`RunBudgetIsKept`, `TotalCallsAreBounded`, `ReportsStand`, `StopsAreNotForgotten`, `RunsKeepTheirWord`,
`NoRunIsEndless`, `NoRefinementIsEndless` and the
`AskIsAnsweredOnce` theorems state further properties of the modules; TLC has checked each
of them on the run's instance before it was proved. `PROJECT.json` lists every theorem but those of type
correctness and `PassWordIsKept`.

Only model-checked: the liveness properties (`ClaimsSettle`, `BriefsSettle`, `PageConverges`,
`FormComesBack`, `StartedIsReported`, `RunEnds`, `RefinementEnds`), which are out of the prover's reach. TLC has also checked the inductive invariants.

## Not modelled, and why

- **Whether one command line, path or URL is inside the envelope** (`yolo.ts`, `shell-readonly.ts`,
  `agent-policy.ts`, `sandbox.ts`): string processing without state. `ToolGate` takes the verdict as a constant of the call.
- **What a gate reads** (`observation.ts`, `evaluateGate`): the text of artifacts, `git status`, an exit code. `FeatureLoop`
  lets each look read anything, which is more than the code can do.
- **The advice battery** (`optimizer.ts`), **metrics** and **evidence**: scores turned into sentences, statistics over a
  file, a rendered report. Neither `advisoryFor` nor `proposeOptimizations` is called by anything that acts on it.
- **Rows and feed of the dashboard**, the page's markup and styles, and the form that starts a run: projections of state modelled elsewhere.
- **Prompts, notices, wire formats, command lines of the CLIs, parsing of configuration**: text. `tools.ts` is the
  standalone loop's file and shell access; its outcome is free in `LoopRunner`.
- **`client.js`** is the bundle generated from `web/`; its sources are what is modelled.

About half of the lines of `src/` are comments, and much of the rest is text and types, which is
why the lines the models translate are a small part of all lines while each
state-keeping handler of the components above is an action.

## Plan

1. Done: all modules above, and their theorems.
2. The gates' readings as a module between `FeatureLoop` and `Ship`, with artifacts that outlive runs.
3. The battery of `optimizer.ts` as operators against its documented directions, once something acts on its advice.
4. The dashboard's rows as a projection of `FeatureLoop` and `ToolGate`, for what a frame between two updates shows.
