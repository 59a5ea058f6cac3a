-------------------------------- MODULE Ship --------------------------------
(***************************************************************************)
(* How a run's work leaves the machine: src/ship.ts driven by runShip      *)
(* (src/driver.ts) and runPipelineShip (src/plugin.ts), over the runs that *)
(* follow each other in one checkout.  A run writes files, enters the ship *)
(* phase, and the loop runs git and gh command by command; each may fail.  *)
(* The artifact it leaves is what the ship gate reads.  The process may    *)
(* die between two commands: the next run then finds the checkout, the     *)
(* index and the artifact as they were left.                               *)
(*                                                                         *)
(* A worker's writes pass no gate: what git shows to have changed between  *)
(* its start and its report is recorded as the run's (src/worker-          *)
(* changes.ts), whoever changed it.                                        *)
(*                                                                         *)
(* The artifact is a file of the checkout like any other: the run itself,  *)
(* its worker and the operator may write it, a branch may bring another,   *)
(* and the gate takes any text that looks like evidence.                   *)
(*                                                                         *)
(* What git and gh do is modelled as far as ship.ts relies on it.  A       *)
(* branch is the set of runs whose commit it contains.  The operator edits *)
(* and stages files of his own but changes no branch and commits nothing.  *)
(* Shell commands, whose writes the loop does not record, and a worker     *)
(* started after the ship are to this model one more editor.               *)
(***************************************************************************)
EXTENDS Naturals, FiniteSets

CONSTANTS
  MaxRuns,    \* the runs made in this checkout
  Files,
  PrUrl,      \* .feature-loop/artifacts/pr-url.txt
  Branches,   \* the names branchFor may give
  Base        \* the branch the operator works on

ASSUME ShipAssumption ==
  /\ MaxRuns \in Nat \ {0}
  /\ PrUrl \in Files
  /\ Base \notin Branches

Runs == 1 .. MaxRuns
Refs == Branches \union {Base}

\* What the gate's pattern accepts, whoever wrote it.
Evidence == {"pr url", "local sha"}

\* What the file may say when ship() did not write it: the pattern takes either
\* kind for the other, so one of them stands for both.
Typed == [run : {0}, kind : {"pr url", "prose"}]
NoArtifact == [run |-> 0, kind |-> "absent"]
Texts == [run : Runs, kind : Evidence] \union Typed \union {NoArtifact}

VARIABLES
  run,        \* the run in progress
  state,      \* where its pipeline is: before, in, or past the ship phase
  pc,         \* the next command of ship(), or the evidence it is to record
  branchOf,   \* the branch each run's goal is slugged to
  written,    \* policy.writtenPaths of each run
  worker,     \* the run's worker: at work, or reported and still to be closed
  touched,    \* files whose status or content changed since the worker started
  paths,      \* the paths handed to ship()
  exists,     \* files on disk
  dirty,      \* files that differ from HEAD
  index,      \* files staged
  head,       \* the branch checked out
  holds,      \* for each local branch, the runs whose commit it contains
  born,       \* the local branches there are
  hasRemote,  \* a remote is configured
  remote,     \* for each branch of the remote, the runs whose commit it contains
  prs,        \* the pull requests opened: by which run, from which branch
  artifact,   \* what PrUrl says, and the run whose ship() wrote it
  \* kept for the properties only: of all runs,
  byHand,     \* files the operator has staged
  strayed,    \* runs whose checkout failed
  \* and of the one in progress
  landed,     \* the files its writes put on disk
  committed,  \* the files in its commit
  found,      \* texts it had before it that pass the gate and are not its ship()'s
  lossy       \* it lost a file: unrecorded, or `git add` or a snapshot fell short

checkout == <<exists, dirty, index, byHand>>
refs == <<head, holds, born>>
outside == <<remote, prs>>
runVars == <<run, state, branchOf, hasRemote>>
evidence == <<artifact, found>>
marks == <<strayed, lossy>>
writes == <<written, landed>>
workerVars == <<worker, touched>>
shipVars == <<runVars, pc, writes, workerVars, paths, checkout, refs, outside, evidence,
              committed, marks>>

Init ==
  /\ run = 1
  /\ state = "work"
  /\ pc = "idle"
  /\ branchOf \in [Runs -> Branches]
  /\ written = [r \in Runs |-> {}]
  /\ worker = "none"
  /\ touched = {}
  /\ paths = {}
  /\ exists \in SUBSET Files
  /\ dirty = {}
  /\ index = {}
  /\ head = Base
  /\ holds = [b \in Refs |-> {}]
  /\ born = {Base}
  /\ hasRemote \in BOOLEAN
  /\ remote = [b \in Refs |-> {}]
  /\ prs = {}
  /\ artifact \in IF PrUrl \in exists THEN Typed ELSE {NoArtifact}
  /\ byHand = {}
  /\ strayed = {}
  /\ landed = {}
  /\ committed = {}
  /\ found = {a \in {artifact} : a.kind \in Evidence}
  /\ lossy = FALSE

-----------------------------------------------------------------------------
(* A file of the checkout changes.                                         *)

\* What the file now says, if the gate takes it and r's ship() did not write it.
Foreign(r) == {a \in {artifact'} : a.kind \in Evidence /\ a.run /= r}

\* Somebody writes f, and if it is the artifact, anything he likes into it.
Lands(f) ==
  /\ exists' = exists \union {f}
  /\ dirty' = dirty \union {f}
  /\ IF f = PrUrl THEN artifact' \in Typed ELSE UNCHANGED artifact
  /\ found' = found \union Foreign(run)

\* git takes to another branch what is not committed; the rest is as that branch
\* has it.
TreeOfBranch ==
  /\ \E clean \in SUBSET (Files \ dirty) :
       exists' = (exists \intersect dirty) \union clean
  /\ IF PrUrl \notin exists' THEN artifact' = NoArtifact
     ELSE \/ PrUrl \in exists /\ UNCHANGED artifact
          \/ PrUrl \notin dirty /\ artifact' \in Typed
  /\ head = branchOf[run] => UNCHANGED <<exists, artifact>>
  /\ found' = found \union Foreign(run)

-----------------------------------------------------------------------------
(* The run writes.                                                         *)

\* Slip: a run that is shipping may still write.
WritesAlways == TRUE

\* writeAfterShipDenial: no file tool runs in ship or done.
WritesAllowed == state = "work"

\* recordWrite, or under supervision recordRequestedWrite.
RecordWrite(f) == written' = [written EXCEPT ![run] = @ \union {f}]

WriteLands(f) ==
  /\ WritesAllowed
  /\ worker = "none"
  /\ RecordWrite(f)
  /\ landed' = landed \union {f}
  /\ Lands(f)
  /\ UNCHANGED <<runVars, pc, workerVars, paths, index, byHand, refs, outside,
                 committed, marks>>

\* Recorded when it was asked for, and then the human said no or the tool failed.
WriteNeverLands(f) ==
  /\ WritesAllowed
  /\ worker = "none"
  /\ RecordWrite(f)
  /\ UNCHANGED <<runVars, pc, workerVars, paths, landed, checkout, refs, outside,
                 evidence, committed, marks>>

\* Under supervision a write that nobody had to be asked about: the gate says
\* only "proceed", and no list takes the path (gateEnforce).
UnaskedWriteLands(f) ==
  /\ WritesAllowed
  /\ worker = "none"
  /\ landed' = landed \union {f}
  /\ Lands(f)
  /\ lossy' = TRUE
  /\ UNCHANGED <<runVars, pc, workerVars, written, paths, index, byHand, refs,
                 outside, committed, strayed>>

\* The snapshot before.
WorkerStarts ==
  /\ state = "work"
  /\ worker = "none"
  /\ worker' = "busy"
  /\ UNCHANGED <<runVars, pc, touched, writes, paths, checkout, refs, outside,
                 evidence, committed, marks>>

WorkerWrites(f) ==
  /\ worker = "busy"
  /\ landed' = landed \union {f}
  /\ Lands(f)
  /\ touched' = touched \union {f}
  /\ UNCHANGED <<runVars, pc, worker, written, paths, index, byHand, refs,
                 outside, committed, marks>>

\* The snapshot after, and the event that records the difference.
WorkerReports ==
  /\ worker = "busy"
  /\ worker' = "reported"
  /\ written' = [written EXCEPT ![run] = @ \union touched]
  /\ touched' = {}
  /\ UNCHANGED <<runVars, pc, landed, paths, checkout, refs, outside, evidence,
                 committed, marks>>

\* git failed or the tree is too dirty: nothing is attributed.
WorkerUnattributed ==
  /\ worker = "busy"
  /\ worker' = "reported"
  /\ touched' = {}
  /\ lossy' = TRUE
  /\ UNCHANGED <<runVars, pc, writes, paths, checkout, refs, outside, evidence,
                 committed, strayed>>

\* An interrupted worker writes on until its terminal is closed.
WorkerWritesLate(f) ==
  /\ worker = "reported"
  /\ landed' = landed \union {f}
  /\ Lands(f)
  /\ lossy' = TRUE
  /\ UNCHANGED <<runVars, pc, workerVars, written, paths, index, byHand, refs,
                 outside, committed, strayed>>

WorkerCloses ==
  /\ worker = "reported"
  /\ worker' = "none"
  /\ UNCHANGED <<runVars, pc, touched, writes, paths, checkout, refs, outside,
                 evidence, committed, marks>>

-----------------------------------------------------------------------------
(* ship(), one action per command and outcome.                             *)

\* writtenPathsArg drops what is not on disk; with nothing left ship() returns
\* before any git command.
EnterShip ==
  /\ state = "work"
  /\ worker = "none"
  /\ state' = "ship"
  /\ paths' = written[run] \intersect exists
  /\ pc' = IF paths' = {} THEN "idle" ELSE "branch"
  /\ UNCHANGED <<run, branchOf, hasRemote, writes, workerVars, checkout, refs,
                 outside, evidence, committed, marks>>

shipping == <<runVars, writes, workerVars, paths>>

\* git checkout -b: from whatever HEAD is.
CreateBranch ==
  /\ pc = "branch"
  /\ branchOf[run] \notin born
  /\ born' = born \union {branchOf[run]}
  /\ holds' = [holds EXCEPT ![branchOf[run]] = holds[head]]
  /\ head' = branchOf[run]
  /\ pc' = "add"
  /\ UNCHANGED <<shipping, checkout, outside, evidence, committed, marks>>

CreateBranchFails ==
  /\ pc = "branch"
  /\ branchOf[run] \notin born
  /\ pc' = "idle"
  /\ UNCHANGED <<shipping, checkout, refs, outside, evidence, committed, marks>>

CheckoutBranch ==
  /\ pc = "branch"
  /\ branchOf[run] \in born
  /\ head' = branchOf[run]
  /\ TreeOfBranch
  /\ pc' = "add"
  /\ UNCHANGED <<shipping, dirty, index, byHand, holds, born, outside,
                 committed, marks>>

\* The exit code of checking out an existing branch is not looked at.
CheckoutFails ==
  /\ pc = "branch"
  /\ branchOf[run] \in born
  /\ strayed' = strayed \union {run}
  /\ pc' = "add"
  /\ UNCHANGED <<shipping, checkout, refs, outside, evidence, committed, lossy>>

\* Slip: git add -A.
AllChanges == dirty

\* What `git add` of the run's paths stages.
Stageable == paths \intersect dirty

AddPaths ==
  /\ pc = "add"
  /\ index' = index \union Stageable
  /\ pc' = "commit"
  /\ UNCHANGED <<shipping, exists, dirty, byHand, refs, outside, evidence,
                 committed, marks>>

\* Its exit code is not looked at either: a missing path stages nothing, an
\* ignored one leaves only itself out.
AddFallsShort ==
  /\ pc = "add"
  /\ \E staged \in SUBSET Stageable : index' = index \union staged
  /\ lossy' = TRUE
  /\ pc' = "commit"
  /\ UNCHANGED <<shipping, exists, dirty, byHand, refs, outside, evidence,
                 committed, strayed>>

NothingStaged ==
  /\ pc = "commit"
  /\ index = {}
  /\ pc' = "idle"
  /\ UNCHANGED <<shipping, checkout, refs, outside, evidence, committed, marks>>

\* The whole index, on the branch HEAD is on.
Commit ==
  /\ pc = "commit"
  /\ index /= {}
  /\ committed' = index
  /\ holds' = [holds EXCEPT ![head] = @ \union {run}]
  /\ dirty' = dirty \ index
  /\ index' = {}
  /\ pc' = "remotes"
  /\ UNCHANGED <<shipping, exists, byHand, head, born, outside, evidence, marks>>

CommitFails ==
  /\ pc = "commit"
  /\ index /= {}
  /\ pc' = "idle"
  /\ UNCHANGED <<shipping, checkout, refs, outside, evidence, committed, marks>>

\* No remote at all: a local project, and the commit is the evidence.
LocalOnly ==
  /\ pc = "remotes"
  /\ ~hasRemote
  /\ pc' = "local sha"
  /\ UNCHANGED <<shipping, checkout, refs, outside, evidence, committed, marks>>

\* Slip: the push's exit code is not looked at.
PushUnchecked ==
  /\ pc = "remotes"
  /\ hasRemote
  /\ \/ remote' = [remote EXCEPT ![branchOf[run]] = holds[branchOf[run]]]
     \/ UNCHANGED remote
  /\ pc' = "pr"
  /\ UNCHANGED <<shipping, checkout, refs, prs, evidence, committed, marks>>

\* The push is by name, of the branch the run meant to be on.
Push ==
  /\ pc = "remotes"
  /\ hasRemote
  /\ branchOf[run] \in born
  /\ remote' = [remote EXCEPT ![branchOf[run]] = holds[branchOf[run]]]
  /\ pc' = "pr"
  /\ UNCHANGED <<shipping, checkout, refs, prs, evidence, committed, marks>>

\* Refused; or `git remote` or `git rev-parse` failed where there is no remote.
PushFails ==
  /\ pc = "remotes"
  /\ pc' = "idle"
  /\ UNCHANGED <<shipping, checkout, refs, outside, evidence, committed, marks>>

\* gh opens the request from the branch checked out, which must be on the remote.
GhOpens ==
  /\ pc = "pr"
  /\ head \in Branches
  /\ remote[head] /= {}
  /\ prs' = prs \union {[run |-> run, from |-> head]}

OpenPr ==
  /\ GhOpens
  /\ pc' = "pr url"
  /\ UNCHANGED <<shipping, checkout, refs, remote, evidence, committed, marks>>

\* gh exits 0 and prints no URL.
OpenPrUnlinked ==
  /\ GhOpens
  /\ pc' = "idle"
  /\ UNCHANGED <<shipping, checkout, refs, remote, evidence, committed, marks>>

PrFails ==
  /\ pc = "pr"
  /\ pc' = "idle"
  /\ UNCHANGED <<shipping, checkout, refs, outside, evidence, committed, marks>>

-----------------------------------------------------------------------------
(* The evidence, and the gate that reads it.                               *)

\* Slip: a pushed branch is taken for an opened request.
PushedIsShipped == Evidence \union {"pr"}

\* The outcomes runShip writes the artifact for.
Recordable == Evidence

Recorded == [run |-> run, kind |-> IF pc = "local sha" THEN pc ELSE "pr url"]

Record ==
  /\ pc \in Recordable
  /\ artifact' = Recorded
  /\ exists' = exists \union {PrUrl}
  /\ dirty' = dirty \union {PrUrl}
  /\ pc' = "idle"
  /\ UNCHANGED <<shipping, index, byHand, refs, outside, found, committed, marks>>

\* The directory or the file cannot be written; runPipelineShip catches it.
RecordFails ==
  /\ pc \in Evidence
  /\ pc' = "idle"
  /\ UNCHANGED <<shipping, checkout, refs, outside, evidence, committed, marks>>

\* The gate reads the text of the file, whoever wrote it.
GatePasses ==
  /\ state = "ship"
  /\ pc = "idle"
  /\ artifact.kind \in Evidence
  /\ state' = "done"
  /\ UNCHANGED <<run, branchOf, hasRemote, pc, writes, workerVars, paths,
                 checkout, refs, outside, evidence, committed, marks>>

-----------------------------------------------------------------------------
(* Around the run.                                                         *)

\* The worker's second snapshot cannot tell who changed a file.
SeenByWorker(f) == touched' = IF worker = "busy" THEN touched \union {f} ELSE touched

\* The operator's own work in the same checkout, at any moment.
OperatorEdits(f) ==
  /\ Lands(f)
  /\ SeenByWorker(f)
  /\ UNCHANGED <<runVars, writes, worker, paths, pc, index, byHand, refs,
                 outside, committed, marks>>

OperatorStages(f) ==
  /\ f \in dirty
  /\ index' = index \union {f}
  /\ byHand' = byHand \union {f}
  /\ SeenByWorker(f)
  /\ UNCHANGED <<runVars, writes, worker, paths, pc, exists, dirty, refs, outside,
                 evidence, committed, marks>>

\* A new run: the last one is over, was abandoned, or its process died.
NewRun ==
  /\ run < MaxRuns
  /\ run' = run + 1
  /\ state' = "work"
  /\ pc' = "idle"
  /\ worker' = "none"
  /\ touched' = {}
  /\ paths' = {}
  /\ landed' = {}
  /\ committed' = {}
  /\ UNCHANGED artifact
  /\ found' = Foreign(run + 1)
  /\ lossy' = FALSE
  /\ UNCHANGED <<branchOf, hasRemote, written, checkout, refs, outside, strayed>>

Next ==
  \/ \E f \in Files :
       \/ WriteLands(f)
       \/ WriteNeverLands(f)
       \/ UnaskedWriteLands(f)
       \/ WorkerWrites(f)
       \/ WorkerWritesLate(f)
       \/ OperatorEdits(f)
       \/ OperatorStages(f)
  \/ WorkerStarts \/ WorkerReports \/ WorkerUnattributed \/ WorkerCloses
  \/ EnterShip
  \/ CreateBranch \/ CreateBranchFails
  \/ CheckoutBranch \/ CheckoutFails
  \/ AddPaths \/ AddFallsShort
  \/ NothingStaged \/ Commit \/ CommitFails
  \/ LocalOnly \/ Push \/ PushFails
  \/ OpenPr \/ OpenPrUnlinked \/ PrFails
  \/ Record \/ RecordFails
  \/ GatePasses
  \/ NewRun

Spec == Init /\ [][Next]_shipVars

-----------------------------------------------------------------------------
(* Properties.                                                             *)

\* Every variable stays in its domain, and the file that is the artifact exists while
\* it says something (runShip).
TypeOK ==
  /\ run \in Runs
  /\ state \in {"work", "ship", "done"}
  /\ pc \in {"idle", "branch", "add", "commit", "remotes", "pr"} \union Evidence
  /\ branchOf \in [Runs -> Branches]
  /\ written \in [Runs -> SUBSET Files]
  /\ worker \in {"none", "busy", "reported"}
  /\ {touched, paths, exists, dirty, index, byHand, landed, committed}
       \subseteq SUBSET Files
  /\ head \in Refs
  /\ holds \in [Refs -> SUBSET Runs]
  /\ remote \in [Refs -> SUBSET Runs]
  /\ born \subseteq Refs
  /\ hasRemote \in BOOLEAN
  /\ prs \subseteq [run : Runs, from : Branches]
  /\ artifact \in Texts
  /\ PrUrl \in exists <=> artifact /= NoArtifact
  /\ dirty \subseteq exists
  /\ strayed \subseteq Runs
  /\ found \subseteq Texts
  /\ lossy \in BOOLEAN

\* Whatever a commit carries was recorded by some run of this checkout or staged by
\* the operator himself: the loop never sweeps up the rest (ship.ts, `git add`).
ScopedCommit == committed \subseteq byHand \union UNION {written[r] : r \in Runs}

\* What the run was started for: its commit, and the request if there is a remote.
Delivered ==
  /\ committed /= {}
  /\ hasRemote => \E p \in prs : p.run = run

\* Whatever command of its ship fails and wherever a run before it died, a run is done
\* without having delivered only on a text that ship() did not write for it: one left
\* by an earlier run, typed by the run, its worker or the operator, or brought by a
\* branch.  "A rejected push still blocks", but for those (runShip, advancePhase).
GateIsEarned == state = "done" /\ found = {} => Delivered

\* A request shows its run's commit: the branch it was opened from holds it on
\* the remote, unless the checkout of that branch failed (ship.ts, the order of
\* checkout, commit, push and gh).
RequestCarriesItsCommit ==
  \A p \in prs : p.run \notin strayed => p.run \in remote[p.from]

\* A run done on its own evidence has committed every file it or its worker put on
\* disk, unless a write was let through unasked or `git add` or a worker's snapshot
\* fell short (writtenPathsArg, writeAfterShipDenial, the worker's end event).
ShippedWorkIsWhole ==
  state = "done" /\ artifact.run = run /\ ~lossy => landed \subseteq committed

\* A run is done only after it opened a request or committed in a checkout with
\* no remote: "a run that opened no PR must not proceed as though it had"
\* (driver.ts), "a rejected push still blocks" (driver.test.ts).
DoneHasDelivered == state = "done" => Delivered

\* A commit carries only files its own run wrote: "The paths are the run's own
\* writes; anything else in this directory belongs to someone else" (ship.ts).
CommitIsTheRunsOwn == committed \subseteq landed
=============================================================================
