------------------------------ MODULE Workers ------------------------------
(***************************************************************************)
(* dispatch_worker: one external coding CLI per call, run in a terminal of *)
(* the harness (src/worker-tool.ts, src/worker-dispatch.ts, and the policy *)
(* in src/workers.ts), with the files it is credited with (src/worker-     *)
(* changes.ts).                                                            *)
(*                                                                         *)
(* A call is judged, its script is written, a terminal is opened, one line *)
(* is typed, and the scrollback is polled for the end marker.  Against the *)
(* worker's own exit run the call's deadline, the cancelling of the turn,  *)
(* and the death of the terminal's shell.  The terminal is closed before   *)
(* the orchestrator reads the report.                                      *)
(*                                                                         *)
(* The terminal service and the worker's process are external: a send may  *)
(* settle or fail at any moment, a read may fail, the process may write,   *)
(* exit, or ignore SIGINT.  Exit codes are told apart as zero or not: 97,  *)
(* 127 and 130 differ only in the wording of the report.                   *)
(***************************************************************************)
EXTENDS Naturals, FiniteSets

CONSTANTS
  MaxDispatches, \* how many dispatch_worker calls the run makes; bounds the model
  Allow,         \* config.allow: the CLIs the deployment may dispatch
  HasRoot,       \* the agent has a worktree (deps.worktreeRootFor)
  Files,         \* files of the workspace
  Unterminated   \* whether a CLI may end its output in the middle of a line

CLIs == {"xdev", "claude", "opencode"}
Roles == {"implement", "test", "validate"}
Dispatches == 1..MaxDispatches

ASSUME WorkersAssumption ==
  /\ MaxDispatches \in Nat
  /\ Allow \subseteq CLIs
  /\ HasRoot \in BOOLEAN
  /\ Unterminated \in BOOLEAN

VARIABLES
  cancelled, \* the signal of the turn the calls in flight belong to
  pc,        \* where runWorker stands for the call
  role,      \* the role of the accepted request
  late,      \* the deadline passed while the call could still act on it
  ending,    \* what `interrupted` was called to report
  touched,   \* files whose status or content differs from the first snapshot
  term,      \* the call's terminal session
  proc,      \* the worker's process
  code,      \* its exit code, zero or not
  shown,     \* the end marker stands on a line of its own in the scrollback
  wrote,     \* files the process wrote
  status,    \* the status reported, or "none" before `finish`
  exit,      \* the exit code reported
  files      \* the changed files reported

localVars == <<late, ending, touched>>
procVars == <<proc, code, wrote>>
reportVars == <<status, exit, files>>
vars == <<cancelled, pc, role, localVars, term, procVars, shown, reportVars>>

Statuses == {"completed", "failed", "timeout", "aborted", "error"}
Codes == {"none", "zero", "nonzero"}
NoRole == "norole"

\* Before and after `finish`.
Waiting(d) == pc[d] \in {"opening", "sending", "grace"}
InFlight(d) == Waiting(d) \/ pc[d] = "closing"

----------------------------------------------------------------------------
(* The judgement of a call's arguments.  A value is told apart from its    *)
(* neighbours only as far as a check does.                                 *)

Args == [worker : CLIs \union {"other"},
         role : Roles \union {"other"},
         task : {"empty", "brief", "transcript"},
         cwd : {"absent", "inside", "outside", "relative", "unprintable"},
         timeoutSec : {"absent", "whole", "fraction"}]

\* A relative directory is resolved against the base, and without a
\* worktree the base is the session's workspace.
WithinRoot(a) == a.cwd \in {"absent", "inside", "relative"}

checkDispatch(a) ==
  /\ a.worker \in Allow
  /\ a.role \in Roles
  /\ a.task = "brief"
  /\ HasRoot => WithinRoot(a)
  /\ a.cwd # "unprintable"
  /\ a.timeoutSec # "fraction"

\* The role is all of an accepted call that the rest of it looks at.
AcceptedRoles == {a.role : a \in {b \in Args : checkDispatch(b)}}

\* Slip: two implementers may run side by side.
AnyOverlap(r) == r \in Roles

isConcurrencySafe(r) == r # "implement"

\* The harness runs a call that is not safe alone, and safe ones together.
MayRunWith(r, d) == InFlight(d) => isConcurrencySafe(r) /\ isConcurrencySafe(role[d])

----------------------------------------------------------------------------

Init ==
  /\ cancelled = FALSE
  /\ pc = [d \in Dispatches |-> "idle"]
  /\ role = [d \in Dispatches |-> NoRole]
  /\ late = [d \in Dispatches |-> FALSE]
  /\ ending = [d \in Dispatches |-> "none"]
  /\ touched = [d \in Dispatches |-> {}]
  /\ term = [d \in Dispatches |-> "none"]
  /\ proc = [d \in Dispatches |-> "none"]
  /\ code = [d \in Dispatches |-> "none"]
  /\ shown = [d \in Dispatches |-> FALSE]
  /\ wrote = [d \in Dispatches |-> {}]
  /\ status = [d \in Dispatches |-> "none"]
  /\ exit = [d \in Dispatches |-> "none"]
  /\ files = [d \in Dispatches |-> {}]

----------------------------------------------------------------------------
(* The report.  `finish` takes the second snapshot, and its end event      *)
(* records the changed files as the run's.  The workspace is a repository  *)
(* here and git answers: Ship has the snapshot that fails.                 *)

TakesSnapshot(r) == r # "validate"

\* What the call still held is forgotten with it, and its timer is cleared.
Forget(d) ==
  /\ late' = [late EXCEPT ![d] = FALSE]
  /\ ending' = [ending EXCEPT ![d] = "none"]
  /\ touched' = [touched EXCEPT ![d] = {}]
  /\ shown' = [shown EXCEPT ![d] = FALSE]

\* The finally block closes whatever terminal was opened.
Finish(d, s, c) ==
  /\ status' = [status EXCEPT ![d] = s]
  /\ exit' = [exit EXCEPT ![d] = c]
  /\ files' = [files EXCEPT ![d] = IF TakesSnapshot(role[d]) THEN touched[d] ELSE {}]
  /\ pc' = [pc EXCEPT ![d] = IF term[d] = "none" THEN "done" ELSE "closing"]
  /\ Forget(d)

----------------------------------------------------------------------------
(* The call                                                                *)

\* execute and the first part of runWorker, up to the wait for a terminal.
\* A call that is refused throws before anything has happened.
Dispatch(d, r) ==
  /\ pc[d] = "idle"
  /\ \A e \in 1..(d - 1) : pc[e] # "idle"
  /\ r \in AcceptedRoles
  /\ \A e \in Dispatches : MayRunWith(r, e)
  /\ role' = [role EXCEPT ![d] = r]
  /\ \/ /\ pc' = [pc EXCEPT ![d] = "opening"]
        /\ UNCHANGED <<localVars, shown, reportVars>>
     \/ \* The run files cannot be written.
        Finish(d, "error", "none")
  /\ UNCHANGED <<cancelled, term, procVars>>

Opened(d) ==
  /\ pc[d] = "opening"
  /\ pc' = [pc EXCEPT ![d] = "sending"]
  /\ term' = [term EXCEPT ![d] = "open"]
  /\ UNCHANGED <<cancelled, role, localVars, procVars, shown, reportVars>>

OpenFails(d) ==
  /\ pc[d] = "opening"
  /\ Finish(d, IF cancelled THEN "aborted" ELSE "error", "none")
  /\ UNCHANGED <<cancelled, role, term, procVars>>

\* interrupted(): SIGINT is sent, or fails to be, and the grace period starts.
Interrupt(d, s) ==
  /\ ending' = [ending EXCEPT ![d] = s]
  /\ late' = [late EXCEPT ![d] = FALSE]
  /\ pc' = [pc EXCEPT ![d] = "grace"]
  /\ UNCHANGED <<touched, shown, reportVars>>

\* Slip: only the cancelled turn ends a run that is still going.
TurnAlone(d) == IF cancelled THEN "aborted" ELSE "none"

\* What ended the run from outside; a cancelled turn goes before the deadline.
EndedBy(d) == IF cancelled THEN "aborted" ELSE IF late[d] THEN "timeout" ELSE "none"

SendThrows(d) ==
  /\ pc[d] = "sending"
  /\ IF EndedBy(d) # "none" THEN Interrupt(d, EndedBy(d)) ELSE Finish(d, "error", "none")
  /\ UNCHANGED <<cancelled, role, term, procVars>>

\* Slip: a worker killed by the deadline's own SIGINT is one that failed.
ExitAlone(d) == IF code[d] = "zero" THEN "completed" ELSE "failed"
\* Slip: a marker that came without a stop is a success.
MarkerIsSuccess(d) == IF EndedBy(d) = "none" THEN "completed" ELSE EndedBy(d)

\* What a scan that found the end marker amounts to.
FinishedAs(d) ==
  IF code[d] = "zero" THEN "completed"
  ELSE IF EndedBy(d) = "none" THEN "failed" ELSE EndedBy(d)

\* A send settles, and the scrollback is read; a read that fails shows
\* nothing.  Unless something ended the run an empty send waits on, at once
\* or after backing off.
SendSettles(d) ==
  /\ pc[d] = "sending"
  /\ \E readable \in BOOLEAN :
       IF readable /\ shown[d] THEN Finish(d, FinishedAs(d), code[d])
       ELSE IF EndedBy(d) # "none" THEN Interrupt(d, EndedBy(d))
       ELSE IF term[d] = "gone" THEN Finish(d, "error", "none")
       ELSE UNCHANGED <<pc, localVars, shown, reportVars>>
  /\ UNCHANGED <<cancelled, role, term, procVars>>

GraceOver(d) ==
  /\ pc[d] = "grace"
  /\ \E readable \in BOOLEAN :
       Finish(d, ending[d], IF readable /\ shown[d] THEN code[d] ELSE "none")
  /\ UNCHANGED <<cancelled, role, term, procVars>>

\* The turn is over when its last call returns.
Returned(d) ==
  /\ pc' = [pc EXCEPT ![d] = "done"]
  /\ cancelled' = (cancelled /\ \E e \in Dispatches \ {d} : InFlight(e))

\* Slip: a call returns without waiting for its terminal.
LeaveOpen(d) ==
  /\ pc[d] = "closing"
  /\ Returned(d)
  /\ UNCHANGED <<role, localVars, term, procVars, shown, reportVars>>

\* port.close ends the process tree; when it fails the terminal is left to
\* the service, and the result stands.
Close(d) ==
  /\ pc[d] = "closing"
  /\ Returned(d)
  /\ \/ /\ term' = [term EXCEPT ![d] = "closed"]
        /\ proc' = [proc EXCEPT ![d] = IF @ = "running" THEN "ended" ELSE @]
     \/ term' = [term EXCEPT ![d] = "left"] /\ UNCHANGED proc
  /\ UNCHANGED <<role, localVars, code, wrote, shown, reportVars>>

----------------------------------------------------------------------------
(* The turn and the deadline                                               *)

\* Calls that overlap belong to one turn, and are cancelled together.
CancelTurn ==
  /\ ~cancelled
  /\ \E d \in Dispatches : InFlight(d)
  /\ cancelled' = TRUE
  /\ UNCHANGED <<pc, role, localVars, term, procVars, shown, reportVars>>

\* The timer is armed before the terminal is opened; once the worker has been
\* interrupted it no longer matters.
TimerFires(d) ==
  /\ pc[d] \in {"opening", "sending"}
  /\ ~late[d]
  /\ late' = [late EXCEPT ![d] = TRUE]
  /\ UNCHANGED <<cancelled, pc, role, ending, touched, term, procVars, shown, reportVars>>

----------------------------------------------------------------------------
(* The terminal and the worker                                             *)

\* The typed line runs, unless the send was cancelled before it was typed.
Launch(d) ==
  /\ pc[d] = "sending"
  /\ term[d] = "open"
  /\ proc[d] = "none"
  /\ proc' = [proc EXCEPT ![d] = "running"]
  /\ UNCHANGED <<cancelled, pc, role, localVars, term, code, wrote, shown, reportVars>>

\* Any process in the workspace changes a file under every first snapshot.
Writes(d, f) ==
  /\ proc[d] = "running"
  /\ wrote' = [wrote EXCEPT ![d] = @ \union {f}]
  /\ touched' = [e \in Dispatches |->
                   IF Waiting(e) THEN touched[e] \union {f} ELSE touched[e]]
  /\ UNCHANGED <<cancelled, pc, role, late, ending, term, proc, code, shown, reportVars>>

\* The shell prints the marker, which nobody reads after `finish`.
PrintsMarker(d, lost) == shown' = [shown EXCEPT ![d] = Waiting(d) /\ ~lost]

\* The second printf of terminalCommand follows whatever the CLI printed
\* last, and scanScrollback wants the marker on a line of its own.
Exits(d, c) ==
  /\ proc[d] = "running"
  /\ proc' = [proc EXCEPT ![d] = "ended"]
  /\ code' = [code EXCEPT ![d] = c]
  /\ \E lost \in {FALSE, Unterminated} : PrintsMarker(d, lost)
  /\ UNCHANGED <<cancelled, pc, role, localVars, term, wrote, reportVars>>

\* SIGINT comes from the backend when a send is aborted, or from `interrupted`.
\* The shell may drop the rest of the typed line, the marker with it.
Killed(d) ==
  /\ proc[d] = "running"
  /\ EndedBy(d) # "none" \/ pc[d] = "grace"
  /\ proc' = [proc EXCEPT ![d] = "ended"]
  /\ code' = [code EXCEPT ![d] = "nonzero"]
  /\ \E lost \in BOOLEAN : PrintsMarker(d, lost)
  /\ UNCHANGED <<cancelled, pc, role, localVars, term, wrote, reportVars>>

ShellDies(d) ==
  /\ Waiting(d)
  /\ term[d] = "open"
  /\ term' = [term EXCEPT ![d] = "gone"]
  /\ proc' = [proc EXCEPT ![d] = IF @ = "running" THEN "ended" ELSE @]
  /\ UNCHANGED <<cancelled, pc, role, localVars, code, wrote, shown, reportVars>>

----------------------------------------------------------------------------

Next ==
  \/ \E d \in Dispatches, r \in Roles : Dispatch(d, r)
  \/ \E d \in Dispatches :
       \/ Opened(d) \/ OpenFails(d)
       \/ SendThrows(d) \/ SendSettles(d)
       \/ GraceOver(d) \/ Close(d) \/ TimerFires(d)
       \/ Launch(d) \/ Killed(d) \/ ShellDies(d)
  \/ \E d \in Dispatches, f \in Files : Writes(d, f)
  \/ \E d \in Dispatches, c \in {"zero", "nonzero"} : Exits(d, c)
  \/ CancelTurn

\* setTimeout fires; a send settles, if it does not throw, by its own wait
\* limit or once its signal is aborted; a signal and a close are answered.
\* Nothing bounds the opening of a terminal, and nothing makes a worker exit.
Fairness == \A d \in Dispatches :
  /\ WF_vars(TimerFires(d))
  /\ WF_vars(SendSettles(d))
  /\ WF_vars(GraceOver(d))
  /\ WF_vars(Close(d))

Spec == Init /\ [][Next]_vars
FairSpec == Spec /\ Fairness

----------------------------------------------------------------------------
(* Properties                                                              *)

TypeOK ==
  /\ pc \in [Dispatches -> {"idle", "opening", "sending", "grace", "closing", "done"}]
  /\ role \in [Dispatches -> Roles \union {NoRole}]
  /\ cancelled \in BOOLEAN
  /\ late \in [Dispatches -> BOOLEAN]
  /\ ending \in [Dispatches -> {"none", "aborted", "timeout"}]
  /\ term \in [Dispatches -> {"none", "open", "gone", "closed", "left"}]
  /\ proc \in [Dispatches -> {"none", "running", "ended"}]
  /\ code \in [Dispatches -> Codes]
  /\ shown \in [Dispatches -> BOOLEAN]
  /\ wrote \in [Dispatches -> SUBSET Files]
  /\ touched \in [Dispatches -> SUBSET Files]
  /\ status \in [Dispatches -> Statuses \union {"none"}]
  /\ exit \in [Dispatches -> Codes]
  /\ files \in [Dispatches -> SUBSET Files]

\* When the orchestrator reads a report the worker is gone, so that nothing
\* it goes on to check is still being rewritten: runWorker waits for the
\* terminal to close on every path, and only a close that fails leaves it.
ReportedIsGone ==
  \A d \in Dispatches : pc[d] = "done" /\ proc[d] = "running" => term[d] = "left"

\* What a report says agrees with how the process ended: completed and
\* failed are said of processes that ended by themselves or were not asked
\* to stop, with the code they ended with (src/worker-dispatch.ts, step 4).
ReportAgreesWithExit ==
  \A d \in Dispatches :
    /\ status[d] = "completed" => proc[d] = "ended" /\ code[d] = "zero"
    /\ status[d] = "failed" => proc[d] = "ended" /\ code[d] = "nonzero" /\ exit[d] = "nonzero"
    /\ exit[d] # "none" => exit[d] = code[d]

\* "That is a stop, not a failure": a worker ended by the deadline or by the
\* cancelled turn is never reported as one whose task failed.
StopIsNoFailure ==
  [][\A d \in Dispatches :
       status'[d] = "failed" /\ status[d] = "none" => ~cancelled /\ ~late[d]]_vars

\* A report stands once it is written: no process that outlives its call, no second
\* stop and no other call's end changes what the orchestrator reads (`finish`).
ReportStands ==
  [][\A d \in Dispatches : status[d] # "none" =>
       <<status'[d], exit'[d], files'[d]>> = <<status[d], exit[d], files[d]>>]_vars

\* A stop is not lost while a send is under way: the deadline or the cancelled turn is
\* still there when the send ends, whichever calls of the turn return before it, and a
\* send that ends then is the call's last.
StopIsNotForgotten ==
  [][\A d \in Dispatches : pc[d] = "sending" /\ EndedBy(d) # "none" =>
       IF SendSettles(d) \/ SendThrows(d) THEN pc'[d] # "sending"
       ELSE pc'[d] = "sending" /\ EndedBy(d)' # "none"]_vars

\* An implementer runs alone, so of all workers' files those it is credited with,
\* which ship will stage, are its own; only a worker whose terminal would not close
\* can mix its own in (isConcurrencySafe, changedBetween).  What the operator
\* changes meanwhile is credited too, and modelled in Ship.
ImplementerOwnsItsFiles ==
  \A d \in Dispatches :
    role[d] = "implement" =>
      files[d] \subseteq wrote[d] \union
        UNION {wrote[e] : e \in {x \in Dispatches : term[x] = "left"}}

\* Whatever the CLI, the terminal and the turn do, a worker that was started
\* is reported on and its call returns, by the deadline at the latest.
StartedIsReported ==
  \A d \in Dispatches : pc[d] = "sending" ~> pc[d] = "done" /\ status[d] # "none"

\* "A zero exit at the deadline is still a completed run: it finished"
\* (src/worker-dispatch.ts); a worker that finishes cleanly is completed
\* even if the deadline passed in the same breath (its test).
ZeroExitIsCompleted ==
  \A d \in Dispatches : exit[d] = "zero" => status[d] = "completed"

\* A validator that writes anyway is misbehaving, and its files must not be
\* staged by ship: no report credits a file that only validators wrote.
ValidatorFilesStayOut ==
  \A d \in Dispatches :
    \A f \in files[d] : \E e \in Dispatches : f \in wrote[e] /\ role[e] # "validate"
=============================================================================
