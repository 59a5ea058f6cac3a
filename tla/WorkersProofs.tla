--------------------------- MODULE WorkersProofs ---------------------------
(***************************************************************************)
(* Proofs about Workers, for any number of calls, any list of CLIs and any *)
(* set of files: its type invariant, that a reported worker is gone, that  *)
(* a report agrees with the process's end, that a stop is no failure, and  *)
(* that an implementer is credited with nobody else's files.               *)
(*                                                                         *)
(* None of them is inductive alone.  What the properties say of a report   *)
(* rests on what is true of the call on its way there: on how far terminal *)
(* and process have come at each pc (Stages), on the end marker standing   *)
(* only after an exit (Marked), on no two calls overlapping an implementer *)
(* (Alone), and on the difference to the first snapshot (Clean).           *)
(***************************************************************************)
EXTENDS Workers, TLAPS

\* How far the terminal, the process and the report are at each pc.
Stages == \A d \in Dispatches :
  /\ pc[d] = "idle" => term[d] = "none" /\ touched[d] = {} /\ files[d] = {}
  /\ pc[d] = "opening" => term[d] = "none"
  /\ pc[d] \in {"sending", "grace", "closing"} => term[d] \in {"open", "gone"}
  /\ pc[d] = "done" => term[d] \in {"none", "closed", "left"}
  /\ pc[d] = "grace" => ending[d] # "none"
  /\ status[d] # "none" => pc[d] \in {"closing", "done"}

\* What a process leaves: it runs in a terminal that is open or was left, and it
\* has an exit code and a marker only once it has ended.
Marked == \A d \in Dispatches :
  /\ proc[d] = "running" => term[d] \in {"open", "left"}
  /\ proc[d] # "ended" => code[d] = "none"
  /\ shown[d] => code[d] # "none"

\* No call overlaps an implementer's.
Alone == \A d, e \in Dispatches :
  InFlight(d) /\ InFlight(e) /\ d # e => role[d] # "implement"

\* Files written by workers whose terminal would not close.
Stray == UNION {wrote[e] : e \in {x \in Dispatches : term[x] = "left"}}

\* What an implementer's second snapshot will differ in is its own.
Clean == \A d \in Dispatches :
  Waiting(d) /\ role[d] = "implement" => touched[d] \subseteq wrote[d] \union Stray

IInv ==
  /\ TypeOK
  /\ Stages
  /\ Marked
  /\ ReportAgreesWithExit
  /\ Alone
  /\ Clean
  /\ ImplementerOwnsItsFiles

USE DEF localVars, procVars, reportVars, Waiting, InFlight

-----------------------------------------------------------------------------

LEMMA DispatchStep ==
  ASSUME IInv, NEW d \in Dispatches, NEW r \in Roles, Dispatch(d, r)
  PROVE  IInv'
  <1>1. TypeOK'
    <2>1. CASE Finish(d, "error", "none")
      BY <2>1 DEF IInv, Dispatch, TypeOK, Finish, Forget, Statuses, Codes
    <2>2. CASE ~Finish(d, "error", "none")
      BY <2>2 DEF IInv, Dispatch, TypeOK
    <2> QED BY <2>1, <2>2
  <1>2. Stages'
    BY DEF IInv, Dispatch, TypeOK, Stages, Finish, Forget
  <1>3. Marked'
    BY DEF IInv, Dispatch, TypeOK, Stages, Marked, Finish, Forget
  <1>4. ReportAgreesWithExit'
    BY DEF IInv, Dispatch, TypeOK, Marked, ReportAgreesWithExit, Finish, Forget
  <1>5. Alone'
    BY DEF IInv, Dispatch, TypeOK, Alone, Finish, Forget, MayRunWith, isConcurrencySafe
  <1>6. Clean'
    <2>1. Stray' = Stray /\ wrote' = wrote
      BY DEF Dispatch, Stray
    <2>2. touched'[d] = {} /\ files'[d] = {}
      BY DEF IInv, Dispatch, TypeOK, Stages, Finish, Forget
    <2>3. \A e \in Dispatches \ {d} :
          /\ touched'[e] = touched[e] /\ files'[e] = files[e]
          /\ pc'[e] = pc[e] /\ role'[e] = role[e]
      BY DEF IInv, Dispatch, TypeOK, Finish, Forget
    <2> QED BY <2>1, <2>2, <2>3 DEF IInv, TypeOK, Clean
  <1>7. ImplementerOwnsItsFiles'
    <2>1. wrote' = wrote /\ term' = term
      BY DEF Dispatch
    <2>2. touched'[d] = {} /\ files'[d] = {}
      BY DEF IInv, Dispatch, TypeOK, Stages, Finish, Forget
    <2>3. \A e \in Dispatches \ {d} :
          /\ touched'[e] = touched[e] /\ files'[e] = files[e]
          /\ pc'[e] = pc[e] /\ role'[e] = role[e]
      BY DEF IInv, Dispatch, TypeOK, Finish, Forget
    <2> QED BY <2>1, <2>2, <2>3 DEF IInv, TypeOK, ImplementerOwnsItsFiles
  <1> QED BY <1>1, <1>2, <1>3, <1>4, <1>5, <1>6, <1>7 DEF IInv

LEMMA OpenedStep ==
  ASSUME IInv, NEW d \in Dispatches, Opened(d)
  PROVE  IInv'
  <1>1. TypeOK'
    BY DEF IInv, Opened, TypeOK
  <1>2. Stages'
    BY DEF IInv, Opened, TypeOK, Stages
  <1>3. Marked'
    BY DEF IInv, Opened, TypeOK, Stages, Marked
  <1>4. ReportAgreesWithExit'
    BY DEF IInv, Opened, TypeOK, Marked, ReportAgreesWithExit
  <1>5. Alone'
    BY DEF IInv, Opened, TypeOK, Alone
  <1>6. Clean'
    BY DEF IInv, Opened, TypeOK, Alone, Clean, Stray
  <1>7. ImplementerOwnsItsFiles'
    BY DEF IInv, Opened, TypeOK, Stages, Clean, ImplementerOwnsItsFiles, Stray
  <1> QED BY <1>1, <1>2, <1>3, <1>4, <1>5, <1>6, <1>7 DEF IInv

LEMMA OpenFailsStep ==
  ASSUME IInv, NEW d \in Dispatches, OpenFails(d)
  PROVE  IInv'
  <1>1. TypeOK'
    BY DEF IInv, OpenFails, TypeOK, Finish, Forget, Statuses, Codes
  <1>2. Stages'
    BY DEF IInv, OpenFails, TypeOK, Stages, Marked, Finish, Forget, Statuses
  <1>3. Marked'
    BY DEF IInv, OpenFails, TypeOK, Stages, Marked, Finish, Forget
  <1>4. ReportAgreesWithExit'
    BY DEF IInv, OpenFails, TypeOK, Stages, Marked, ReportAgreesWithExit, Finish, Forget
  <1>5. Alone'
    BY DEF IInv, OpenFails, TypeOK, Alone, Finish, Forget
  <1>6. Clean'
    BY DEF IInv, OpenFails, TypeOK, Alone, Clean, Finish, Forget
  <1>7. ImplementerOwnsItsFiles'
    BY DEF IInv, OpenFails, TypeOK, Clean, ImplementerOwnsItsFiles, Finish, Forget, Stray
  <1> QED BY <1>1, <1>2, <1>3, <1>4, <1>5, <1>6, <1>7 DEF IInv

LEMMA SendThrowsStep ==
  ASSUME IInv, NEW d \in Dispatches, SendThrows(d)
  PROVE  IInv'
  <1>1. TypeOK'
    <2>1. CASE EndedBy(d) # "none"
      BY <2>1 DEF IInv, SendThrows, TypeOK, Interrupt, EndedBy
    <2>2. CASE EndedBy(d) = "none"
      <3>1. Finish(d, "error", "none") /\ UNCHANGED <<cancelled, role, term, procVars>>
        BY <2>2 DEF SendThrows
      <3> QED BY <3>1 DEF IInv, TypeOK, Finish, Forget, Statuses, Codes
    <2> QED BY <2>1, <2>2
  <1>2. Stages'
    BY DEF IInv, SendThrows, TypeOK, Stages, Finish, Forget, Interrupt, EndedBy, Statuses
  <1>3. Marked'
    BY DEF IInv, SendThrows, TypeOK, Stages, Marked, Finish, Forget, Interrupt, EndedBy
  <1>4. ReportAgreesWithExit'
    BY DEF IInv, SendThrows, TypeOK, Marked, ReportAgreesWithExit, Finish, Forget,
           Interrupt, EndedBy
  <1>5. Alone'
    BY DEF IInv, SendThrows, TypeOK, Alone, Finish, Forget, Interrupt, EndedBy
  <1>6. Clean'
    BY DEF IInv, SendThrows, TypeOK, Alone, Clean, Finish, Forget, Interrupt, EndedBy, Stray
  <1>7. ImplementerOwnsItsFiles'
    BY DEF IInv, SendThrows, TypeOK, Clean, ImplementerOwnsItsFiles, Finish, Forget,
           Interrupt, EndedBy, Stray
  <1> QED BY <1>1, <1>2, <1>3, <1>4, <1>5, <1>6, <1>7 DEF IInv

LEMMA SendSettlesStep ==
  ASSUME IInv, NEW d \in Dispatches, SendSettles(d)
  PROVE  IInv'
  <1>0. \/ shown[d] /\ Finish(d, FinishedAs(d), code[d])
        \/ EndedBy(d) # "none" /\ Interrupt(d, EndedBy(d))
        \/ Finish(d, "error", "none")
        \/ UNCHANGED <<pc, localVars, shown, reportVars>>
    BY DEF SendSettles
  <1>1. TypeOK'
    <2>1. CASE shown[d] /\ Finish(d, FinishedAs(d), code[d])
      <3>1. FinishedAs(d) \in Statuses /\ code[d] \in Codes
        BY DEF IInv, TypeOK, FinishedAs, EndedBy, Statuses
      <3> QED BY <2>1, <3>1 DEF IInv, SendSettles, TypeOK, Finish, Forget
    <2>2. CASE EndedBy(d) # "none" /\ Interrupt(d, EndedBy(d))
      BY <2>2 DEF IInv, SendSettles, TypeOK, Interrupt, EndedBy
    <2>3. CASE Finish(d, "error", "none")
      BY <2>3 DEF IInv, SendSettles, TypeOK, Finish, Forget, Statuses, Codes
    <2>4. CASE UNCHANGED <<pc, localVars, shown, reportVars>>
      BY <2>4 DEF IInv, SendSettles, TypeOK
    <2> QED BY <1>0, <2>1, <2>2, <2>3, <2>4
  <1>2. Stages'
    BY DEF IInv, SendSettles, TypeOK, Stages, Finish, Forget, Interrupt, EndedBy, FinishedAs
  <1>3. Marked'
    BY DEF IInv, SendSettles, TypeOK, Stages, Marked, Finish, Forget, Interrupt, EndedBy,
           FinishedAs
  <1>4. ReportAgreesWithExit'
    <2>1. UNCHANGED <<proc, code>>
      BY DEF SendSettles
    <2>2. CASE shown[d] /\ Finish(d, FinishedAs(d), code[d])
      <3>1. /\ code[d] \in {"zero", "nonzero"} /\ proc[d] = "ended"
            /\ FinishedAs(d) = "completed" => code[d] = "zero"
            /\ FinishedAs(d) = "failed" => code[d] = "nonzero"
        BY <2>2 DEF IInv, TypeOK, Marked, FinishedAs, EndedBy, Codes
      <3> QED BY <2>1, <2>2, <3>1 DEF IInv, TypeOK, ReportAgreesWithExit, Finish
    <2>3. CASE EndedBy(d) # "none" /\ Interrupt(d, EndedBy(d))
      BY <2>1, <2>3 DEF IInv, ReportAgreesWithExit, Interrupt
    <2>4. CASE Finish(d, "error", "none")
      BY <2>1, <2>4 DEF IInv, TypeOK, ReportAgreesWithExit, Finish
    <2>5. CASE UNCHANGED <<pc, localVars, shown, reportVars>>
      BY <2>1, <2>5 DEF IInv, ReportAgreesWithExit
    <2> QED BY <1>0, <2>2, <2>3, <2>4, <2>5
  <1>5. Alone'
    BY DEF IInv, SendSettles, TypeOK, Alone, Finish, Forget, Interrupt, EndedBy, FinishedAs
  <1>6. Clean'
    BY DEF IInv, SendSettles, TypeOK, Alone, Clean, Finish, Forget, Interrupt, EndedBy,
           FinishedAs, Stray
  <1>7. ImplementerOwnsItsFiles'
    BY DEF IInv, SendSettles, TypeOK, Clean, ImplementerOwnsItsFiles, Finish, Forget,
           Interrupt, EndedBy, FinishedAs, Stray
  <1> QED BY <1>1, <1>2, <1>3, <1>4, <1>5, <1>6, <1>7 DEF IInv

LEMMA GraceOverStep ==
  ASSUME IInv, NEW d \in Dispatches, GraceOver(d)
  PROVE  IInv'
  <1>1. TypeOK'
    BY DEF IInv, GraceOver, TypeOK, Finish, Forget, Statuses, Codes
  <1>2. Stages'
    BY DEF IInv, GraceOver, TypeOK, Stages, Finish, Forget, Statuses
  <1>3. Marked'
    BY DEF IInv, GraceOver, TypeOK, Stages, Marked, Finish, Forget
  <1>4. ReportAgreesWithExit'
    BY DEF IInv, GraceOver, TypeOK, Marked, ReportAgreesWithExit, Finish, Forget
  <1>5. Alone'
    BY DEF IInv, GraceOver, TypeOK, Alone, Finish, Forget
  <1>6. Clean'
    BY DEF IInv, GraceOver, TypeOK, Alone, Clean, Finish, Forget
  <1>7. ImplementerOwnsItsFiles'
    BY DEF IInv, GraceOver, TypeOK, Clean, ImplementerOwnsItsFiles, Finish, Forget, Stray
  <1> QED BY <1>1, <1>2, <1>3, <1>4, <1>5, <1>6, <1>7 DEF IInv

LEMMA CloseStep ==
  ASSUME IInv, NEW d \in Dispatches, Close(d)
  PROVE  IInv'
  <1>1. TypeOK'
    BY DEF IInv, Close, TypeOK, Returned
  <1>2. Stages'
    BY DEF IInv, Close, TypeOK, Stages, Returned
  <1>3. Marked'
    BY DEF IInv, Close, TypeOK, Stages, Marked, Returned
  <1>4. ReportAgreesWithExit'
    BY DEF IInv, Close, TypeOK, Marked, ReportAgreesWithExit, Returned
  <1>5. Alone'
    BY DEF IInv, Close, TypeOK, Alone, Returned
  <1>6. Clean'
    BY DEF IInv, Close, TypeOK, Alone, Clean, Returned
  <1>7. ImplementerOwnsItsFiles'
    BY DEF IInv, Close, TypeOK, Stages, Clean, ImplementerOwnsItsFiles, Returned
  <1> QED BY <1>1, <1>2, <1>3, <1>4, <1>5, <1>6, <1>7 DEF IInv

LEMMA TimerFiresStep ==
  ASSUME IInv, NEW d \in Dispatches, TimerFires(d)
  PROVE  IInv'
  <1>1. TypeOK'
    BY DEF IInv, TimerFires, TypeOK
  <1>2. Stages'
    BY DEF IInv, TimerFires, TypeOK, Stages
  <1>3. Marked'
    BY DEF IInv, TimerFires, TypeOK, Stages, Marked
  <1>4. ReportAgreesWithExit'
    BY DEF IInv, TimerFires, TypeOK, Marked, ReportAgreesWithExit
  <1>5. Alone'
    BY DEF IInv, TimerFires, TypeOK, Alone
  <1>6. Clean'
    BY DEF IInv, TimerFires, TypeOK, Stages, Marked, Alone, Clean, Stray
  <1>7. ImplementerOwnsItsFiles'
    BY DEF IInv, TimerFires, TypeOK, Stages, Marked, Clean, ImplementerOwnsItsFiles, Stray
  <1> QED BY <1>1, <1>2, <1>3, <1>4, <1>5, <1>6, <1>7 DEF IInv

LEMMA LaunchStep ==
  ASSUME IInv, NEW d \in Dispatches, Launch(d)
  PROVE  IInv'
  <1>1. TypeOK'
    BY DEF IInv, Launch, TypeOK
  <1>2. Stages'
    BY DEF IInv, Launch, TypeOK, Stages
  <1>3. Marked'
    BY DEF IInv, Launch, TypeOK, Stages, Marked
  <1>4. ReportAgreesWithExit'
    BY DEF IInv, Launch, TypeOK, Marked, ReportAgreesWithExit
  <1>5. Alone'
    BY DEF IInv, Launch, TypeOK, Alone
  <1>6. Clean'
    BY DEF IInv, Launch, TypeOK, Alone, Clean, Stray
  <1>7. ImplementerOwnsItsFiles'
    BY DEF IInv, Launch, TypeOK, Clean, ImplementerOwnsItsFiles, Stray
  <1> QED BY <1>1, <1>2, <1>3, <1>4, <1>5, <1>6, <1>7 DEF IInv

LEMMA WritesStep ==
  ASSUME IInv, NEW d \in Dispatches, NEW f \in Files, Writes(d, f)
  PROVE  IInv'
  <1>1. TypeOK'
    BY DEF IInv, Writes, TypeOK
  <1>2. Stages'
    BY DEF IInv, Writes, TypeOK, Stages
  <1>3. Marked'
    BY DEF IInv, Writes, TypeOK, Stages, Marked
  <1>4. ReportAgreesWithExit'
    BY DEF IInv, Writes, TypeOK, Marked, ReportAgreesWithExit
  <1>5. Alone'
    BY DEF IInv, Writes, TypeOK, Alone
  <1>6. Clean'
    BY DEF IInv, Writes, TypeOK, Stages, Marked, Alone, Clean, Stray
  <1>7. ImplementerOwnsItsFiles'
    BY DEF IInv, Writes, TypeOK, Stages, Marked, Clean, ImplementerOwnsItsFiles, Stray
  <1> QED BY <1>1, <1>2, <1>3, <1>4, <1>5, <1>6, <1>7 DEF IInv

LEMMA ExitsStep ==
  ASSUME IInv, NEW d \in Dispatches, NEW c \in {"zero", "nonzero"}, Exits(d, c)
  PROVE  IInv'
  <1>1. TypeOK'
    BY DEF IInv, Exits, TypeOK, PrintsMarker, Codes
  <1>2. Stages'
    BY DEF IInv, Exits, TypeOK, Stages, PrintsMarker
  <1>3. Marked'
    BY DEF IInv, Exits, TypeOK, Stages, Marked, PrintsMarker
  <1>4. ReportAgreesWithExit'
    BY DEF IInv, Exits, TypeOK, Marked, ReportAgreesWithExit, PrintsMarker
  <1>5. Alone'
    BY DEF IInv, Exits, TypeOK, Alone, PrintsMarker
  <1>6. Clean'
    BY DEF IInv, Exits, TypeOK, Alone, Clean, PrintsMarker, Stray
  <1>7. ImplementerOwnsItsFiles'
    BY DEF IInv, Exits, TypeOK, Clean, ImplementerOwnsItsFiles, PrintsMarker, Stray
  <1> QED BY <1>1, <1>2, <1>3, <1>4, <1>5, <1>6, <1>7 DEF IInv

LEMMA KilledStep ==
  ASSUME IInv, NEW d \in Dispatches, Killed(d)
  PROVE  IInv'
  <1>1. TypeOK'
    BY DEF IInv, Killed, TypeOK, PrintsMarker, Codes
  <1>2. Stages'
    BY DEF IInv, Killed, TypeOK, Stages, PrintsMarker
  <1>3. Marked'
    BY DEF IInv, Killed, TypeOK, Stages, Marked, PrintsMarker
  <1>4. ReportAgreesWithExit'
    BY DEF IInv, Killed, TypeOK, Marked, ReportAgreesWithExit, PrintsMarker
  <1>5. Alone'
    BY DEF IInv, Killed, TypeOK, Alone, PrintsMarker
  <1>6. Clean'
    BY DEF IInv, Killed, TypeOK, Stages, Marked, Alone, Clean, PrintsMarker, Stray
  <1>7. ImplementerOwnsItsFiles'
    BY DEF IInv, Killed, TypeOK, Stages, Marked, Clean, ImplementerOwnsItsFiles,
           PrintsMarker, Stray
  <1> QED BY <1>1, <1>2, <1>3, <1>4, <1>5, <1>6, <1>7 DEF IInv

LEMMA ShellDiesStep ==
  ASSUME IInv, NEW d \in Dispatches, ShellDies(d)
  PROVE  IInv'
  <1>1. TypeOK'
    BY DEF IInv, ShellDies, TypeOK
  <1>2. Stages'
    BY DEF IInv, ShellDies, TypeOK, Stages
  <1>3. Marked'
    BY DEF IInv, ShellDies, TypeOK, Stages, Marked
  <1>4. ReportAgreesWithExit'
    BY DEF IInv, ShellDies, TypeOK, Stages, Marked, ReportAgreesWithExit
  <1>5. Alone'
    BY DEF IInv, ShellDies, TypeOK, Alone
  <1>6. Clean'
    BY DEF IInv, ShellDies, TypeOK, Alone, Clean, Stray
  <1>7. ImplementerOwnsItsFiles'
    BY DEF IInv, ShellDies, TypeOK, Clean, ImplementerOwnsItsFiles, Stray
  <1> QED BY <1>1, <1>2, <1>3, <1>4, <1>5, <1>6, <1>7 DEF IInv

LEMMA CancelTurnStep ==
  ASSUME IInv, CancelTurn
  PROVE  IInv'
  <1>1. TypeOK'
    BY DEF IInv, CancelTurn, TypeOK
  <1>2. Stages'
    BY DEF IInv, CancelTurn, TypeOK, Stages
  <1>3. Marked'
    BY DEF IInv, CancelTurn, TypeOK, Stages, Marked
  <1>4. ReportAgreesWithExit'
    BY DEF IInv, CancelTurn, TypeOK, Marked, ReportAgreesWithExit
  <1>5. Alone'
    BY DEF IInv, CancelTurn, TypeOK, Alone
  <1>6. Clean'
    BY DEF IInv, CancelTurn, TypeOK, Alone, Clean, Stray
  <1>7. ImplementerOwnsItsFiles'
    BY DEF IInv, CancelTurn, TypeOK, Clean, ImplementerOwnsItsFiles, Stray
  <1> QED BY <1>1, <1>2, <1>3, <1>4, <1>5, <1>6, <1>7 DEF IInv

LEMMA InitHolds == Init => IInv
  <1> SUFFICES ASSUME Init PROVE IInv
    OBVIOUS
  <1>1. TypeOK
    BY DEF Init, TypeOK, Codes
  <1>2. Stages /\ Marked /\ ReportAgreesWithExit
    BY DEF Init, Stages, Marked, ReportAgreesWithExit
  <1>3. Alone /\ Clean /\ ImplementerOwnsItsFiles
    BY DEF Init, Alone, Clean, ImplementerOwnsItsFiles
  <1> QED BY <1>1, <1>2, <1>3 DEF IInv

LEMMA StutterStep == IInv /\ UNCHANGED vars => IInv'
  BY DEF IInv, vars, TypeOK, Stages, Marked, ReportAgreesWithExit, Alone, Clean,
         ImplementerOwnsItsFiles, Stray

LEMMA NextStep == IInv /\ [Next]_vars => IInv'
  BY DispatchStep, OpenedStep, OpenFailsStep, SendThrowsStep, SendSettlesStep, GraceOverStep,
     CloseStep, TimerFiresStep, LaunchStep, WritesStep, ExitsStep, KilledStep, ShellDiesStep,
     CancelTurnStep, StutterStep DEF Next

LEMMA Invariance == Spec => []IInv
  BY InitHolds, NextStep, PTL DEF Spec

-----------------------------------------------------------------------------

\* The variables keep their types (runWorker).
THEOREM WorkersTypeCorrect == Spec => []TypeOK
  BY Invariance, PTL DEF IInv

\* A worker is gone when its report is read, unless its terminal would not close:
\* every path out of runWorker goes through the finally block.
THEOREM ReportedWorkersAreGone == Spec => []ReportedIsGone
  <1>1. IInv => ReportedIsGone
    BY DEF IInv, Stages, Marked, ReportedIsGone
  <1> QED BY <1>1, Invariance, PTL

\* A report never says more than the process's end does (runWorker, step 4).
THEOREM ReportsAgree == Spec => []ReportAgreesWithExit
  BY Invariance, PTL DEF IInv

\* With any number of calls of one turn in flight, an implementer is credited with
\* its own files only (isConcurrencySafe, changedBetween).
THEOREM ImplementersOwnTheirFiles == Spec => []ImplementerOwnsItsFiles
  BY Invariance, PTL DEF IInv

\* Only a call that nothing stopped is reported as failed (the end status in runWorker).
THEOREM StopsAreNoFailures == Spec => StopIsNoFailure
  <1> DEFINE Stopped == \A d \in Dispatches :
        status'[d] = "failed" /\ status[d] = "none" => ~cancelled /\ ~late[d]
  <1>1. ASSUME IInv, NEW d \in Dispatches, SendSettles(d) PROVE Stopped
    <2>1. \A e \in Dispatches : status'[e] = status[e] \/ e = d
      BY <1>1 DEF IInv, TypeOK, SendSettles, Finish, Interrupt
    <2>2. status'[d] = "failed" /\ status[d] = "none" => FinishedAs(d) = "failed"
      BY <1>1 DEF IInv, TypeOK, SendSettles, Finish, Interrupt, EndedBy
    <2>3. FinishedAs(d) = "failed" => ~cancelled /\ ~late[d]
      BY DEF FinishedAs, EndedBy
    <2> QED BY <2>1, <2>2, <2>3
  <1>2. ASSUME IInv, NEW d \in Dispatches, NEW r \in Roles, Dispatch(d, r) PROVE Stopped
    BY <1>2 DEF IInv, TypeOK, Dispatch, Finish
  <1>3. ASSUME IInv, NEW d \in Dispatches, OpenFails(d) PROVE Stopped
    BY <1>3 DEF IInv, TypeOK, OpenFails, Finish
  <1>4. ASSUME IInv, NEW d \in Dispatches, SendThrows(d) PROVE Stopped
    BY <1>4 DEF IInv, TypeOK, SendThrows, Finish, Interrupt
  <1>5. ASSUME IInv, NEW d \in Dispatches, GraceOver(d) PROVE Stopped
    BY <1>5 DEF IInv, TypeOK, GraceOver, Finish
  <1>6. UNCHANGED status => Stopped
    OBVIOUS
  <1>7. IInv /\ [Next]_vars => Stopped
    BY <1>1, <1>2, <1>3, <1>4, <1>5, <1>6
       DEF Next, vars, Opened, Close, TimerFires, Launch, Killed, ShellDies, Writes, Exits,
           CancelTurn
  <1>8. IInv /\ [Next]_vars => [Stopped]_vars
    BY <1>7
  <1> QED BY <1>8, Invariance, PTL DEF Spec, StopIsNoFailure

-----------------------------------------------------------------------------

ReportsKept ==
  \A d \in Dispatches : status[d] # "none" =>
    <<status'[d], exit'[d], files'[d]>> = <<status[d], exit[d], files[d]>>

StopKept(d) ==
  pc[d] = "sending" /\ EndedBy(d) # "none" =>
    IF SendSettles(d) \/ SendThrows(d) THEN pc'[d] # "sending"
    ELSE pc'[d] = "sending" /\ EndedBy(d)' # "none"

\* Only a call that has not reported yet finishes.
LEMMA FinishWrites ==
  ASSUME IInv, NEW d \in Dispatches, NEW s, NEW c, Finish(d, s, c), status[d] = "none"
  PROVE  ReportsKept
  BY DEF IInv, TypeOK, Finish, ReportsKept

\* Reports stand: every way to `finish` starts from a call that has none, and nothing
\* else writes one (runWorker).
THEOREM ReportsStand == Spec => ReportStands
  <1>1. ASSUME UNCHANGED reportVars PROVE ReportsKept
    BY <1>1 DEF ReportsKept
  <1>2. ASSUME IInv, NEW d \in Dispatches, NEW s, NEW c, Finish(d, s, c),
               pc[d] \in {"idle", "opening", "sending", "grace"}
        PROVE  ReportsKept
    <2>1. status[d] = "none"
      BY <1>2 DEF IInv, Stages
    <2> QED BY <1>2, <2>1, FinishWrites
  <1>3. ASSUME IInv, NEW d \in Dispatches,
               \/ UNCHANGED reportVars
               \/ /\ pc[d] \in {"idle", "opening", "sending", "grace"}
                  /\ \E s, c : Finish(d, s, c)
        PROVE  ReportsKept
    BY <1>1, <1>2, <1>3
  <1>4. ASSUME NEW d \in Dispatches, NEW r \in Roles, IInv, Dispatch(d, r)
        PROVE  ReportsKept
    BY <1>3, <1>4 DEF Dispatch
  <1>5. ASSUME NEW d \in Dispatches, IInv,
               OpenFails(d) \/ SendThrows(d) \/ SendSettles(d) \/ GraceOver(d)
        PROVE  ReportsKept
    BY <1>3, <1>5 DEF OpenFails, SendThrows, SendSettles, GraceOver, Interrupt
  <1>6. IInv /\ [Next]_vars => ReportsKept
    BY <1>1, <1>4, <1>5
       DEF Next, vars, Opened, Close, TimerFires, Launch, Killed, ShellDies, Writes, Exits,
           CancelTurn
  <1>7. IInv /\ [Next]_vars => [ReportsKept]_vars
    BY <1>6
  <1> QED BY <1>7, Invariance, PTL DEF Spec, ReportStands, ReportsKept

\* What a step of anything but the call's own send leaves of it.
LEMMA OthersKeepTheStop ==
  ASSUME IInv, [Next]_vars, NEW d \in Dispatches, pc[d] = "sending", EndedBy(d) # "none",
         ~SendSettles(d), ~SendThrows(d)
  PROVE  pc'[d] = "sending" /\ EndedBy(d)' # "none"
  <1> DEFINE Going == pc'[d] = "sending" /\ (cancelled' \/ late'[d])
  <1>0. cancelled \/ late[d]
    BY DEF EndedBy
  <1>1. ASSUME NEW e \in Dispatches, Close(e) PROVE Going
    <2>1. e # d /\ InFlight(d)
      BY <1>1 DEF Close
    <2> QED BY <1>0, <1>1, <2>1 DEF Close, Returned, IInv, TypeOK
  <1>2. ASSUME NEW e \in Dispatches, NEW s, NEW c, Finish(e, s, c), e # d, UNCHANGED cancelled
        PROVE  Going
    BY <1>0, <1>2 DEF Finish, Forget, IInv, TypeOK
  <1>3. ASSUME NEW e \in Dispatches, NEW s, Interrupt(e, s), e # d, UNCHANGED cancelled
        PROVE  Going
    BY <1>0, <1>3 DEF Interrupt, IInv, TypeOK
  <1>4. ASSUME UNCHANGED <<cancelled, pc, localVars>> PROVE Going
    BY <1>0, <1>4
  <1>5. ASSUME NEW e \in Dispatches,
               \/ \E r \in Roles : Dispatch(e, r)
               \/ Opened(e) \/ OpenFails(e) \/ GraceOver(e)
               \/ SendThrows(e) \/ SendSettles(e)
        PROVE  Going
    <2>1. e # d
      BY <1>5 DEF Dispatch, Opened, OpenFails, GraceOver
    <2>2. CASE Opened(e)
      BY <1>0, <2>1, <2>2 DEF Opened, IInv, TypeOK
    <2>3. CASE OpenFails(e) \/ GraceOver(e) \/ SendThrows(e) \/ SendSettles(e)
      BY <1>2, <1>3, <1>4, <2>1, <2>3 DEF OpenFails, GraceOver, SendThrows, SendSettles
    <2>4. CASE \E r \in Roles : Dispatch(e, r)
      BY <1>0, <1>2, <2>1, <2>4 DEF Dispatch, IInv, TypeOK
    <2> QED BY <1>5, <2>2, <2>3, <2>4
  <1>6. ASSUME NEW e \in Dispatches, TimerFires(e) PROVE Going
    BY <1>0, <1>6 DEF TimerFires, IInv, TypeOK
  <1>7. ASSUME CancelTurn PROVE Going
    <2>1. pc' = pc /\ cancelled' = TRUE
      BY <1>7 DEF CancelTurn
    <2> QED BY <2>1, Zenon
  <1>8. ASSUME NEW e \in Dispatches, NEW f \in Files, Writes(e, f) PROVE Going
    BY <1>0, <1>8 DEF Writes
  <1>9. ASSUME NEW e \in Dispatches, Launch(e) \/ Killed(e) \/ ShellDies(e) PROVE Going
    BY <1>4, <1>9 DEF Launch, Killed, ShellDies
  <1>10. ASSUME NEW e \in Dispatches, NEW c \in {"zero", "nonzero"}, Exits(e, c) PROVE Going
    BY <1>4, <1>10 DEF Exits
  <1>11. UNCHANGED vars => Going
    BY <1>4 DEF vars
  <1> HIDE DEF Going
  <1>12. Going
    BY <1>1, <1>5, <1>6, <1>7, <1>8, <1>9, <1>10, <1>11 DEF Next
  <1> USE DEF Going
  <1> QED BY <1>12 DEF EndedBy

\* The part of StartedIsReported that needs no fairness: once the deadline has passed or
\* the turn is cancelled nothing but the end of the send can move the call, and the end
\* of the send moves it out of the loop (runWorker, step 3).
THEOREM StopsAreNotForgotten == Spec => StopIsNotForgotten
  <1>1. ASSUME IInv, NEW d \in Dispatches, SendSettles(d) \/ SendThrows(d), EndedBy(d) # "none"
        PROVE  pc'[d] # "sending"
    BY <1>1 DEF SendSettles, SendThrows, Finish, Interrupt, IInv, TypeOK
  <1>2. ASSUME IInv, [Next]_vars, NEW d \in Dispatches PROVE StopKept(d)
    BY <1>1, <1>2, OthersKeepTheStop DEF StopKept
  <1>3. IInv /\ [Next]_vars => [\A d \in Dispatches : StopKept(d)]_vars
    BY <1>2
  <1> QED BY <1>3, Invariance, PTL DEF Spec, StopIsNotForgotten, StopKept
=============================================================================
