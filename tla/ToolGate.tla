------------------------------ MODULE ToolGate ------------------------------
(***************************************************************************)
(* What the plugin does with a run's steps and tool calls: the review at   *)
(* the boundary of a step (reviewStep), and the verdict on every call      *)
(* (the tools/pre-execute handler and gateEnforce, src/plugin.ts), over    *)
(* the turns of a session.  One policy lives as long as the session: the   *)
(* history, the router and the list of recorded writes go on from turn to  *)
(* turn, while the steps of each turn count from 1.                        *)
(*                                                                         *)
(* A call stands for a tool and its arguments.  How the envelope and the   *)
(* shell reader classify it (src/yolo.ts, src/shell-readonly.ts) is given  *)
(* by constants.  The model, the judge, the human and the tools are        *)
(* external.  A review here is a notice to the model: it holds nothing up. *)
(***************************************************************************)
EXTENDS Review, FiniteSets

CONSTANTS
  Calls,         \* the calls the model may make
  GatePolicy,    \* what ReviewGate.check applies to each call's tool
  Writes,        \* calls of `write` or `edit`; such a call names its own file
  InEnvelope,    \* calls the envelope allows
  ReadOnly,      \* shell calls that are shown only to read
  MaxSteps,      \* the budget's step ceiling
  CheckpointAt,  \* router.checkpointAtStep, 0 for none
  CycleLength,   \* DEFAULT_THRESHOLDS.cycleLength
  ErrorCascade,  \* DEFAULT_THRESHOLDS.errorCascade
  ReviewSteps,   \* 1 / reviewBudget
  MaxTurns,      \* bounds the model
  MaxCalls       \* tool calls in one step; bounds the model

ASSUME ToolGateAssumption ==
  /\ "none" \notin Calls
  /\ GatePolicy \in [Calls -> Policies]
  /\ Writes \subseteq Calls
  /\ InEnvelope \subseteq Calls
  /\ ReadOnly \subseteq InEnvelope \ Writes
  /\ MaxSteps \in Nat \ {0}
  /\ CheckpointAt \in Nat
  /\ CycleLength \in Nat \ {0}
  /\ ErrorCascade \in Nat \ {0}
  /\ ReviewSteps \in Nat \ {0}
  /\ MaxTurns \in Nat \ {0}
  /\ MaxCalls \in Nat

VARIABLES
  mode,            \* policy.gateMode
  turn,
  step,            \* of the turn, from 1
  pc,              \* "boundary", "acting" between two boundaries, or "idle"
  shipped,         \* the pipeline is in ship or done
  pending,         \* policy.pending, or NoCall
  history,         \* the newest of policy.history, as many as the detectors read
  score,           \* policy.lastConfidence
  stepsSeen,       \* AttentionRouter.stepsSeen
  reviews,         \* AttentionRouter.reviewsRequested
  checkpointAsked, \* AttentionRouter.checkpointAsked
  asked,           \* calls waiting for the human's answer
  made,            \* calls made in this step
  recorded,        \* writes whose file is on policy.writtenPaths
  \* kept for the properties only
  landed,          \* writes in the run's directory that reached the disk
  unasked,         \* such writes that a supervised gate let through unasked
  last,            \* the last call of this step and whether it was held, or NoCall
  streak,          \* the same for the step before, and in how many steps running
  failed,          \* a call of this step failed
  failing,         \* how many steps running a call has failed
  told,            \* the model was told to have this step reviewed
  judged,          \* the judge was asked at the boundary of this step
  due,             \* a step at or past the checkpoint was reviewed
  pauses,          \* reviews asked because of the checkpoint
  surfaced,        \* reviews asked because of the judge
  steps            \* steps reviewed in the whole session

position == <<turn, step, pc>>
router == <<stepsSeen, reviews, checkpointAsked>>
setting == <<mode, shipped>>
files == <<recorded, landed, unasked>>
turnGhosts == <<last, streak, failed, failing, told, judged>>
ghosts == <<due, pauses, surfaced, steps>>
vars == <<position, setting, pending, history, score, router, asked, made, files,
          turnGhosts, ghosts>>

\* The writes in the run's own directory.
Inside == Writes \intersect InEnvelope

NoCall == [tool |-> "none", key |-> "", error |-> FALSE]
NoStreak == [call |-> NoCall, times |-> 0]

\* What the handler keeps of a call; "#denied" is part of the key.
Observed(c, key) == [tool |-> c, key |-> key, error |-> FALSE]

Longest == IF CycleLength > ErrorCascade THEN CycleLength ELSE ErrorCascade

Init ==
  /\ mode \in {"ask", "deny", "auto"}
  /\ turn = 1 /\ step = 1 /\ pc = "boundary"
  /\ shipped = FALSE
  /\ pending = NoCall
  /\ history = <<>>
  /\ score = NoScore
  /\ stepsSeen = 0 /\ reviews = 0 /\ checkpointAsked = FALSE
  /\ asked = {}
  /\ made = 0
  /\ recorded = {} /\ landed = {} /\ unasked = {}
  /\ last = NoCall
  /\ streak = NoStreak
  /\ failed = FALSE
  /\ failing = 0
  /\ told = FALSE
  /\ judged = FALSE
  /\ due = FALSE
  /\ pauses = 0 /\ surfaced = 0 /\ steps = 0

-----------------------------------------------------------------------------
(* The boundary of a step                                                  *)

\* Slip: the second step of a turn files nothing either.
FileLate ==
  IF step > 2
  THEN /\ history' = Newest(Longest, Append(history, pending))
       /\ pending' = NoCall
       /\ stepsSeen' = stepsSeen + 1
  ELSE UNCHANGED <<history, pending, stepsSeen>>

\* What the step before left pending is filed under it, a step that called
\* nothing as an observation without a tool.  The first step of a turn files
\* nothing.
File ==
  IF step > 1
  THEN /\ history' = Newest(Longest, Append(history, pending))
       /\ pending' = NoCall
       /\ stepsSeen' = stepsSeen + 1
  ELSE UNCHANGED <<history, pending, stepsSeen>>

mustReview == Cycles(CycleLength, history') \/ Cascades(ErrorCascade, history')

\* Slip: a score stays until there is a better one.
JudgeKeeps ==
  \/ score' \in Scores /\ judged' = TRUE
  \/ ~mustReview /\ UNCHANGED score /\ judged' = FALSE

\* The judge is asked when a detector fired or the review budget has room, and
\* may not answer; the lesser detectors may fire in any step.
Judge ==
  \/ score' \in Scores \union {NoScore} /\ judged' = TRUE
  \/ ~mustReview /\ score' = NoScore /\ judged' = FALSE

AtCheckpoint == CheckpointAt > 0 /\ step >= CheckpointAt

\* AttentionRouter.checkpoint: asked once in the session.
Pauses == AtCheckpoint /\ ~checkpointAsked

WorthALook == score' >= JudgeThreshold /\ HasRoom(reviews, stepsSeen', ReviewSteps)

\* Slip: a safety review counts against the budget like the others.
RouteWithinBudget ==
  LET asks == (mustReview \/ WorthALook) /\ HasRoom(reviews, stepsSeen', ReviewSteps)
  IN /\ told' = (Pauses \/ asks)
     /\ reviews' = IF told' THEN reviews + 1 ELSE reviews
     /\ checkpointAsked' = (checkpointAsked \/ Pauses)
     /\ pauses' = IF Pauses THEN pauses + 1 ELSE pauses
     /\ surfaced' = IF ~Pauses /\ ~mustReview /\ WorthALook THEN surfaced + 1 ELSE surfaced

\* The checkpoint first, then AttentionRouter.route.
Route ==
  /\ told' = (Pauses \/ mustReview \/ WorthALook)
  /\ reviews' = IF told' THEN reviews + 1 ELSE reviews
  /\ checkpointAsked' = (checkpointAsked \/ Pauses)
  /\ pauses' = IF Pauses THEN pauses + 1 ELSE pauses
  /\ surfaced' = IF ~Pauses /\ ~mustReview /\ WorthALook THEN surfaced + 1 ELSE surfaced

\* The turn as the detectors should know it.
Remember ==
  /\ streak' = CASE last = NoCall -> NoStreak
                 [] last # NoCall /\ last = streak.call -> [streak EXCEPT !.times = @ + 1]
                 [] OTHER -> [call |-> last, times |-> 1]
  /\ failing' = IF failed THEN failing + 1 ELSE 0
  /\ due' = (due \/ AtCheckpoint)
  /\ steps' = steps + 1

\* Of a turn that is over nothing is remembered.
Forget ==
  /\ made' = 0
  /\ last' = NoCall
  /\ streak' = NoStreak
  /\ failed' = FALSE
  /\ failing' = 0
  /\ told' = FALSE
  /\ judged' = FALSE

\* LoopBudget.verdict, as far as the step goes.
WithinSteps == step <= MaxSteps

ReviewStep ==
  /\ pc = "boundary"
  /\ WithinSteps
  /\ File
  /\ Judge
  /\ Route
  /\ Remember
  /\ last' = NoCall
  /\ failed' = FALSE
  /\ made' = 0
  /\ pc' = "acting"
  /\ UNCHANGED <<turn, step, setting, asked, files>>

\* The step or the dollar ceiling: after the filing, before all the rest.
StepRejected ==
  /\ pc = "boundary"
  /\ File
  /\ Forget
  /\ pc' = "idle"
  /\ UNCHANGED <<turn, step, setting, score, reviews, checkpointAsked, asked, files,
                 ghosts>>

\* A phase ceiling or another plugin refuses the step before it is reviewed.
StepRefused ==
  /\ pc = "boundary"
  /\ Forget
  /\ pc' = "idle"
  /\ UNCHANGED <<turn, step, setting, pending, history, score, router, asked, files,
                 ghosts>>

-----------------------------------------------------------------------------
(* A tool call                                                             *)

\* The call's own record, and the last call of its step.
Observe(c, key) ==
  /\ pc = "acting"
  /\ made < MaxCalls
  /\ made' = made + 1
  /\ pending' = Observed(c, key)
  /\ last' = Observed(c, key)

\* A call's result: a write that succeeds is on the disk.
Settles(c) ==
  \E ok \in BOOLEAN :
    /\ landed' = IF ok /\ c \in Inside THEN landed \union {c} ELSE landed
    /\ failed' = (failed \/ ~ok)

AfterShip(c) == shipped /\ c \in Writes

ReadsOnly(c) == mode = "ask" /\ c \in ReadOnly

\* gateEnforce: the envelope when nobody is there, the gate when somebody is.
Proceeds(c) ==
  IF mode = "auto" THEN c \in InEnvelope
                   ELSE ReadsOnly(c) \/ ~Holds(GatePolicy[c], score)

\* Slip: an allowed write is not put on the list.
RecordNone(c) == UNCHANGED recorded

\* The path the envelope allowed: only the unattended verdict carries one.
RecordAllowed(c) ==
  recorded' = IF mode = "auto" /\ c \in Writes THEN recorded \union {c} ELSE recorded

Proceed(c) ==
  /\ ~AfterShip(c)
  /\ Proceeds(c)
  /\ Observe(c, "args")
  /\ RecordAllowed(c)
  /\ Settles(c)
  /\ unasked' = IF mode # "auto" /\ c \in Inside THEN unasked \union {c} ELSE unasked
  /\ UNCHANGED <<position, setting, history, score, router, asked, streak, failing,
                 told, judged, ghosts>>

\* Slip: what a human has to allow is not put on the list.
RequestNone(c) == UNCHANGED recorded

\* recordRequestedWrite: nothing tells the handler what the human answers.
RecordRequested(c) ==
  recorded' = IF c \in Inside THEN recorded \union {c} ELSE recorded

Ask(c) ==
  /\ ~AfterShip(c)
  /\ mode = "ask"
  /\ ~Proceeds(c)
  /\ c \notin asked
  /\ Observe(c, "args#denied")
  /\ RecordRequested(c)
  /\ asked' = asked \union {c}
  /\ UNCHANGED <<position, setting, history, score, router, landed, unasked, streak,
                 failed, failing, told, judged, ghosts>>

\* The operator's stop sentinel, read anew at each call, refuses an unattended
\* run whatever it calls.
Deny(c) ==
  /\ ~AfterShip(c)
  /\ \/ mode = "auto"
     \/ mode = "deny" /\ ~Proceeds(c)
  /\ Observe(c, "args#denied")
  /\ UNCHANGED <<position, setting, history, score, router, asked, files, streak,
                 failed, failing, told, judged, ghosts>>

\* Refused because the run has shipped; this refusal leaves the key as it is.
DenyAfterShip(c) ==
  /\ AfterShip(c)
  /\ Observe(c, "args")
  /\ UNCHANGED <<position, setting, history, score, router, asked, files, streak,
                 failed, failing, told, judged, ghosts>>

HumanAllows(c) ==
  /\ c \in asked
  /\ asked' = asked \ {c}
  /\ Settles(c)
  /\ UNCHANGED <<position, setting, pending, history, score, router, made, recorded,
                 unasked, last, streak, failing, told, judged, ghosts>>

HumanRefuses(c) ==
  /\ c \in asked
  /\ asked' = asked \ {c}
  /\ UNCHANGED <<position, setting, pending, history, score, router, made, files,
                 turnGhosts, ghosts>>

-----------------------------------------------------------------------------
(* Around the calls                                                        *)

StepEnds ==
  /\ pc = "acting"
  /\ asked = {}
  /\ step' = step + 1
  /\ pc' = "boundary"
  /\ made' = 0
  /\ told' = FALSE
  /\ judged' = FALSE
  /\ UNCHANGED <<turn, setting, pending, history, score, router, asked, files, last,
                 streak, failed, failing, ghosts>>

\* The model is done, or the turn is aborted: the calls of its last step stay
\* pending.
TurnEnds ==
  /\ pc = "acting"
  /\ asked' = {}
  /\ Forget
  /\ pc' = "idle"
  /\ UNCHANGED <<turn, step, setting, pending, history, score, router, files, ghosts>>

NewTurn ==
  /\ pc = "idle"
  /\ turn < MaxTurns
  /\ turn' = turn + 1
  /\ step' = 1
  /\ pc' = "boundary"
  /\ UNCHANGED <<setting, pending, history, score, router, asked, made, files,
                 turnGhosts, ghosts>>

\* Entering the ship phase, at a boundary.
EntersShip ==
  /\ pc = "boundary"
  /\ ~shipped
  /\ shipped' = TRUE
  /\ UNCHANGED <<position, mode, pending, history, score, router, asked,
                 made, files, turnGhosts, ghosts>>

Next ==
  \/ ReviewStep \/ StepRejected \/ StepRefused
  \/ \E c \in Calls :
       \/ Proceed(c) \/ Ask(c) \/ Deny(c) \/ DenyAfterShip(c)
       \/ HumanAllows(c) \/ HumanRefuses(c)
  \/ StepEnds \/ TurnEnds \/ NewTurn
  \/ EntersShip

Spec == Init /\ [][Next]_vars

-----------------------------------------------------------------------------
(* Properties                                                              *)

Observation == [tool : Calls \union {"none"}, key : {"", "args", "args#denied"}, error : {FALSE}]

TypeOK ==
  /\ mode \in {"ask", "deny", "auto"}
  /\ turn \in 1..MaxTurns
  /\ step \in 1..MaxSteps + 1
  /\ pc \in {"boundary", "acting", "idle"}
  /\ shipped \in BOOLEAN /\ checkpointAsked \in BOOLEAN
  /\ score \in Scores \union {NoScore}
  /\ pending \in Observation /\ last \in Observation
  /\ history \in Seq(Observation) /\ Len(history) <= Longest
  /\ streak \in [call : Observation, times : Nat]
  /\ stepsSeen \in Nat /\ reviews \in Nat
  /\ made \in 0..MaxCalls
  /\ asked \subseteq Calls /\ recorded \subseteq Calls
  /\ landed \subseteq Calls /\ unasked \subseteq Calls
  /\ failed \in BOOLEAN /\ told \in BOOLEAN /\ judged \in BOOLEAN /\ due \in BOOLEAN
  /\ failing \in Nat /\ pauses \in Nat /\ surfaced \in Nat /\ steps \in Nat

\* The model that repeats itself is told so in the very next step: CycleLength
\* steps of one turn that end in the same call, refused or not, bring up a
\* review, whatever was pending, denied, asked for or spent before (reviewStep,
\* the "#denied" key, trailingRepeat and route together).
RepetitionIsTold == pc = "acting" /\ streak.times >= CycleLength => told

\* The gate never weighs a call by an older step's score: while calls are made
\* the score is missing or was asked for at this step's own boundary, through
\* rejected steps and new turns (reviewStep, lastConfidence).
ConfidenceIsFresh == pc = "acting" /\ score # NoScore => judged

\* Every write that reached the disk is on the list ship stages from, unless
\* the operator's own rules let it through unasked: however the human answered,
\* and in whatever order (recordWrite, recordRequestedWrite).
LandedIsRecorded == landed \subseteq recorded \union unasked

\* One pause for the checkpoint in a session: none missed once a step at or
\* past it is reviewed, none twice (AttentionRouter.checkpoint).
CheckpointIsOnce == pauses = IF due THEN 1 ELSE 0

\* "Missing one that did land ships a commit that silently omits the run's own
\* work" (tools/pre-execute): under supervision too every write that landed
\* inside the run's directory is recorded.
EveryWriteIsRecorded == mode = "ask" => landed \subseteq recorded

\* Three failing steps running are told to the model: "Without this,
\* `error-cascade` ... could never fire in the plugin path" (noteToolOutcomes).
FailuresAreTold == pc = "acting" /\ failing >= ErrorCascade => told

\* "Fraction of steps that may be surfaced for review" (RouterConfig): what the
\* judge brings up stays within the budget, plus the one review being asked.
AttentionIsBudgeted == ReviewSteps * surfaced <= steps + ReviewSteps
=============================================================================
