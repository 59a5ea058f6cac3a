----------------------------- MODULE ShipProofs -----------------------------
(***************************************************************************)
(* Ship, proved for any number of runs, branches and files.                *)
(*                                                                         *)
(* Each property needs what the commands before it established: the index  *)
(* holds only what was asked for (Scoped); past the commit there is one,   *)
(* past gh a request, and a text that is not ship()'s is noted (Evident);  *)
(* a run that did not stray is on its branch, which the commit, then the   *)
(* remote, holds, and the remote never holds more than the branch          *)
(* (Carried); and a run's files go from its record to the paths, the index *)
(* and the commit without loss (Whole).                                    *)
(***************************************************************************)
EXTENDS Ship, TLAPS

Asked == byHand \union UNION {written[q] : q \in Runs}

Scoped ==
  /\ paths \subseteq written[run]
  /\ index \subseteq Asked
  /\ ScopedCommit

Evident ==
  /\ pc \in {"remotes", "pr"} \union Evidence => committed /= {}
  /\ pc = "local sha" => ~hasRemote
  /\ pc = "pr url" => \E p \in prs : p.run = run
  /\ artifact.run = run => Delivered
  /\ artifact.kind \in Evidence /\ artifact.run /= run => found /= {}
  /\ GateIsEarned

Carried ==
  /\ \A b \in Refs : remote[b] \subseteq holds[b]
  /\ \A b \in Refs \ born : remote[b] = {}
  /\ pc \in {"add", "commit", "remotes", "pr"} /\ run \notin strayed =>
       head = branchOf[run]
  /\ pc \in {"remotes", "pr"} /\ run \notin strayed => run \in holds[branchOf[run]]
  /\ pc = "pr" /\ run \notin strayed => run \in remote[branchOf[run]]
  /\ RequestCarriesItsCommit

\* The run is past its work while ship() runs, its worker is gone by then, and its
\* artifact is the last thing ship() leaves.
Own ==
  /\ pc /= "idle" => state = "ship"
  /\ state /= "work" => worker = "none"
  /\ worker /= "busy" => touched = {}
  /\ artifact.run <= run
  /\ artifact.run = run => state /= "work" /\ pc = "idle"

\* Until the paths are staged, what landed still differs from HEAD.
OnDisk ==
  state = "work" \/ pc \in {"branch", "add"} =>
    landed \subseteq exists \intersect dirty

Whole ==
  ~lossy =>
    /\ landed \subseteq written[run] \union touched
    /\ pc \in {"branch", "add"} => landed \subseteq paths
    /\ pc = "commit" => landed \subseteq index
    /\ pc \in {"remotes", "pr"} \union Evidence \/ artifact.run = run =>
         landed \subseteq committed

IInv == TypeOK /\ Scoped /\ Evident /\ Carried /\ Own /\ OnDisk /\ Whole

-----------------------------------------------------------------------------
(* Type correctness                                                        *)

\* The run after this one is a run.
LEMMA NextRun ==
  ASSUME NEW r \in Runs, r < MaxRuns
  PROVE  r + 1 \in Runs /\ r + 1 > r
BY ShipAssumption DEF Runs

\* Who types a text is no run, and a text is not the lack of one.
LEMMA TypedText ==
  /\ \A a \in Typed : a.run = 0 /\ a /= NoArtifact
  /\ NoArtifact.run = 0
<1>1. ASSUME NEW a \in Typed PROVE a.run = 0 /\ a.kind \in {"pr url", "prose"}
  BY DEF Typed
<1>2. NoArtifact.run = 0 /\ NoArtifact.kind = "absent"
  BY DEF NoArtifact
<1>3. ASSUME NEW a \in Typed PROVE a /= NoArtifact
  <2>1. a.kind /= "absent"
    BY <1>1
  <2>2. QED
    BY <1>2, <2>1
<1>4. QED
  BY <1>1, <1>2, <1>3

\* Runs are numbered, a text that is not ship()'s has no run, and no number is free.
LEMMA ArtifactRun ==
  ASSUME TypeOK
  PROVE  /\ artifact.run \in Nat
         /\ run \in Nat \ {0} /\ run \in Runs
         /\ Runs \subseteq Nat
         /\ \A a \in Typed \union {NoArtifact} : a.run = 0
<1>1. \A a \in Typed \union {NoArtifact} : a.run = 0
  BY TypedText
<1>2. artifact.run \in Nat
  BY <1>1 DEF TypeOK, Texts, Runs
<1>3. QED
  BY <1>1, <1>2, ShipAssumption DEF TypeOK, Runs

\* The text of the artifact is what it was, or nobody's ship() wrote it; one that
\* the gate would take is then noted.
TextKept ==
  /\ artifact' \in Texts
  /\ PrUrl \in exists' <=> artifact' /= NoArtifact
  /\ artifact' = artifact \/ artifact'.run = 0
  /\ found' = found \union Foreign(run)

\* A file that is written is there, and uncommitted.
LEMMA LandsKeeps ==
  ASSUME TypeOK, NEW f \in Files, Lands(f)
  PROVE  exists' = exists \union {f} /\ dirty' = dirty \union {f} /\ TextKept
<1>1. exists' = exists \union {f} /\ dirty' = dirty \union {f}
  BY DEF Lands
<1>2. found' = found \union Foreign(run)
  BY DEF Lands
<1>3. CASE f = PrUrl
  <2>1. artifact' \in Typed
    BY <1>3 DEF Lands
  <2>2. artifact'.run = 0 /\ artifact' /= NoArtifact
    BY <2>1, TypedText
  <2>3. QED
    BY <1>1, <1>2, <1>3, <2>1, <2>2 DEF TextKept, Texts
<1>4. CASE f /= PrUrl
  <2>1. artifact' = artifact
    BY <1>4 DEF Lands
  <2>2. QED
    BY <1>1, <1>2, <1>4, <2>1 DEF TextKept, TypeOK
<1>5. QED
  BY <1>3, <1>4

\* A branch checked out leaves alone what is not committed.
LEMMA TreeKeeps ==
  ASSUME TypeOK, TreeOfBranch
  PROVE  exists' \in SUBSET Files /\ dirty \subseteq exists' /\ TextKept
<1>1. exists' \in SUBSET Files /\ dirty \subseteq exists'
  BY DEF TreeOfBranch, TypeOK
<1>2. found' = found \union Foreign(run)
  BY DEF TreeOfBranch
<1>3. CASE PrUrl \notin exists' /\ artifact' = NoArtifact
  BY <1>1, <1>2, <1>3, TypedText DEF TextKept, Texts
<1>4. CASE PrUrl \in exists' /\ PrUrl \in exists /\ artifact' = artifact
  BY <1>1, <1>2, <1>4 DEF TextKept, TypeOK
<1>5. CASE PrUrl \in exists' /\ artifact' \in Typed
  <2>1. artifact'.run = 0 /\ artifact' /= NoArtifact
    BY <1>5, TypedText
  <2>2. QED
    BY <1>1, <1>2, <1>5, <2>1 DEF TextKept, Texts
<1>6. QED
  BY <1>1, <1>3, <1>4, <1>5 DEF TreeOfBranch

\* Every command, write and edit keeps each variable in its domain.
LEMMA TypeStep == TypeOK /\ [Next]_shipVars => TypeOK'
<1> SUFFICES ASSUME TypeOK, [Next]_shipVars PROVE TypeOK'
  OBVIOUS
<1>1t. ASSUME NEW f \in Files, WriteLands(f)
       PROVE  exists' = exists \union {f} /\ dirty' = dirty \union {f} /\ TextKept
  BY <1>1t, LandsKeeps DEF WriteLands
<1>3t. ASSUME NEW f \in Files, WorkerWrites(f)
       PROVE  exists' = exists \union {f} /\ dirty' = dirty \union {f} /\ TextKept
  BY <1>3t, LandsKeeps DEF WorkerWrites
<1>4t. ASSUME NEW f \in Files, WorkerWritesLate(f)
       PROVE  exists' = exists \union {f} /\ dirty' = dirty \union {f} /\ TextKept
  BY <1>4t, LandsKeeps DEF WorkerWritesLate
<1>4bt. ASSUME NEW f \in Files, UnaskedWriteLands(f)
       PROVE  exists' = exists \union {f} /\ dirty' = dirty \union {f} /\ TextKept
  BY <1>4bt, LandsKeeps DEF UnaskedWriteLands
<1>5t. ASSUME NEW f \in Files, OperatorEdits(f)
       PROVE  exists' = exists \union {f} /\ dirty' = dirty \union {f} /\ TextKept
  BY <1>5t, LandsKeeps DEF OperatorEdits
<1>14t. ASSUME CheckoutBranch
        PROVE  exists' \in SUBSET Files /\ dirty \subseteq exists' /\ TextKept
  BY <1>14t, TreeKeeps DEF CheckoutBranch
<1> USE ShipAssumption DEF TypeOK, Runs, Refs, evidence, runVars, marks, writes,
        workerVars, checkout, refs, outside, shipping
<1>1. ASSUME NEW f \in Files, WriteLands(f) PROVE TypeOK'
  <2>1. written' \in [Runs -> SUBSET Files]
    BY <1>1 DEF WriteLands, RecordWrite
  <2>2. QED
    BY <1>1, <1>1t, <2>1 DEF TextKept, Foreign, WriteLands
<1>3. ASSUME NEW f \in Files, WorkerWrites(f) PROVE TypeOK'
  BY <1>3, <1>3t DEF TextKept, Foreign, WorkerWrites
<1>4. ASSUME NEW f \in Files, WorkerWritesLate(f) PROVE TypeOK'
  BY <1>4, <1>4t DEF TextKept, Foreign, WorkerWritesLate
<1>4b. ASSUME NEW f \in Files, UnaskedWriteLands(f) PROVE TypeOK'
  BY <1>4b, <1>4bt DEF TextKept, Foreign, UnaskedWriteLands
<1>5. ASSUME NEW f \in Files, OperatorEdits(f) PROVE TypeOK'
  <2>1. touched' \in SUBSET Files
    BY <1>5 DEF OperatorEdits, SeenByWorker
  <2>2. QED
    BY <1>5, <1>5t, <2>1 DEF TextKept, Foreign, OperatorEdits
<1>14. CASE CheckoutBranch
  BY <1>14, <1>14t DEF TextKept, Foreign, CheckoutBranch
<1> USE DEF Evidence
<1>2. ASSUME NEW f \in Files, WriteNeverLands(f) PROVE TypeOK'
  BY <1>2 DEF RecordWrite, WritesAllowed, WriteNeverLands
<1>6. ASSUME NEW f \in Files, OperatorStages(f) PROVE TypeOK'
  BY <1>6 DEF SeenByWorker, OperatorStages
<1>7. CASE WorkerStarts
  BY <1>7 DEF WorkerStarts
<1>8. CASE WorkerReports
  BY <1>8 DEF WorkerReports
<1>9. CASE WorkerUnattributed
  BY <1>9 DEF WorkerUnattributed
<1>10. CASE WorkerCloses
  BY <1>10 DEF WorkerCloses
<1>11. CASE EnterShip
  BY <1>11 DEF EnterShip
<1>12. CASE CreateBranch
  BY <1>12 DEF CreateBranch
<1>13. CASE CreateBranchFails
  BY <1>13 DEF CreateBranchFails
<1>15. CASE CheckoutFails
  BY <1>15 DEF CheckoutFails
<1>16. CASE AddPaths
  BY <1>16 DEF Stageable, AddPaths
<1>17. CASE AddFallsShort
  <2>1. PICK staged \in SUBSET Stageable : index' = index \union staged
    BY <1>17 DEF AddFallsShort
  <2>2. index' \in SUBSET Files
    BY <2>1 DEF Stageable
  <2>3. QED
    BY <1>17, <2>2 DEF AddFallsShort
<1>18. CASE NothingStaged
  BY <1>18 DEF NothingStaged
<1>19. CASE Commit
  BY <1>19 DEF Commit
<1>20. CASE CommitFails
  BY <1>20 DEF CommitFails
<1>21. CASE LocalOnly
  BY <1>21 DEF LocalOnly
<1>22. CASE Push
  BY <1>22 DEF Push
<1>23. CASE PushFails
  BY <1>23 DEF PushFails
<1>24. CASE OpenPr
  <2>1. [run |-> run, from |-> head] \in [run : Runs, from : Branches]
    BY <1>24 DEF OpenPr, GhOpens
  <2>2. prs' \subseteq [run : Runs, from : Branches]
    BY <1>24, <2>1 DEF OpenPr, GhOpens
  <2>3. QED
    BY <1>24, <2>2 DEF OpenPr
<1>25. CASE OpenPrUnlinked
  <2>1. [run |-> run, from |-> head] \in [run : Runs, from : Branches]
    BY <1>25 DEF OpenPrUnlinked, GhOpens
  <2>2. prs' \subseteq [run : Runs, from : Branches]
    BY <1>25, <2>1 DEF OpenPrUnlinked, GhOpens
  <2>3. QED
    BY <1>25, <2>2 DEF OpenPrUnlinked
<1>26. CASE PrFails
  BY <1>26 DEF PrFails
<1>27. CASE Record
  <2>1. artifact' \in Texts
    BY <1>27 DEF Recordable, Recorded, Record, Texts
  <2>2. artifact' /= NoArtifact
    <3>1. artifact'.kind \in Evidence
      BY <1>27 DEF Recordable, Recorded, Record
    <3>2. NoArtifact.kind = "absent"
      BY DEF NoArtifact
    <3>3. QED
      BY <3>1, <3>2
  <2>3. QED
    BY <1>27, <2>1, <2>2 DEF Record
<1>28. CASE RecordFails
  BY <1>28 DEF RecordFails
<1>29. CASE GatePasses
  BY <1>29 DEF GatePasses
<1>30. CASE NewRun
  <2>1. run' \in Runs
    BY <1>30, NextRun DEF NewRun
  <2>2. QED
    BY <1>30, <2>1 DEF NewRun, Foreign
<1>31. CASE UNCHANGED shipVars
  BY <1>31 DEF shipVars
<1>32. QED
  BY <1>1, <1>2, <1>3, <1>4, <1>4b, <1>5, <1>6, <1>7, <1>8, <1>9, <1>10, <1>11,
     <1>12, <1>13, <1>14, <1>15, <1>16, <1>17, <1>18, <1>19, <1>20, <1>21,
     <1>22, <1>23, <1>24, <1>25, <1>26, <1>27, <1>28, <1>29, <1>30, <1>31
     DEF Next

-----------------------------------------------------------------------------
(* What a commit may carry                                                 *)

\* Nothing enters the index but the paths of a run and what the operator staged.
LEMMA ScopedStep == TypeOK /\ Scoped /\ [Next]_shipVars => Scoped'
<1> SUFFICES ASSUME TypeOK, Scoped, [Next]_shipVars PROVE Scoped'
  OBVIOUS
<1> USE ShipAssumption DEF TypeOK, Scoped, ScopedCommit, Asked, Lands, Foreign,
        TreeOfBranch, evidence, runVars, marks, writes, workerVars, checkout,
        refs, outside, shipping
<1>1. ASSUME NEW f \in Files, WriteLands(f) PROVE Scoped'
  BY <1>1 DEF RecordWrite, WritesAllowed, WriteLands
<1>2. ASSUME NEW f \in Files, WriteNeverLands(f) PROVE Scoped'
  BY <1>2 DEF RecordWrite, WritesAllowed, WriteNeverLands
<1>3. ASSUME NEW f \in Files, WorkerWrites(f) PROVE Scoped'
  BY <1>3 DEF WorkerWrites
<1>4. ASSUME NEW f \in Files, WorkerWritesLate(f) PROVE Scoped'
  BY <1>4 DEF WorkerWritesLate
<1>4b. ASSUME NEW f \in Files, UnaskedWriteLands(f) PROVE Scoped'
  BY <1>4b DEF WritesAllowed, UnaskedWriteLands
<1>5. ASSUME NEW f \in Files, OperatorEdits(f) PROVE Scoped'
  BY <1>5 DEF SeenByWorker, OperatorEdits
<1>6. ASSUME NEW f \in Files, OperatorStages(f) PROVE Scoped'
  BY <1>6 DEF SeenByWorker, OperatorStages
<1>7. CASE WorkerStarts
  BY <1>7 DEF WorkerStarts
<1>8. CASE WorkerReports
  BY <1>8 DEF WorkerReports
<1>9. CASE WorkerUnattributed
  BY <1>9 DEF WorkerUnattributed
<1>10. CASE WorkerCloses
  BY <1>10 DEF WorkerCloses
<1>11. CASE EnterShip
  BY <1>11 DEF EnterShip
<1>12. CASE CreateBranch
  BY <1>12 DEF CreateBranch
<1>13. CASE CreateBranchFails
  BY <1>13 DEF CreateBranchFails
<1>14. CASE CheckoutBranch
  BY <1>14 DEF CheckoutBranch
<1>15. CASE CheckoutFails
  BY <1>15 DEF CheckoutFails
<1>16. CASE AddPaths
  BY <1>16 DEF Stageable, AddPaths
<1>17. CASE AddFallsShort
  BY <1>17 DEF Stageable, AddFallsShort
<1>18. CASE NothingStaged
  BY <1>18 DEF NothingStaged
<1>19. CASE Commit
  BY <1>19 DEF Commit
<1>20. CASE CommitFails
  BY <1>20 DEF CommitFails
<1>21. CASE LocalOnly
  BY <1>21 DEF LocalOnly
<1>22. CASE Push
  BY <1>22 DEF Push
<1>23. CASE PushFails
  BY <1>23 DEF PushFails
<1>24. CASE OpenPr
  BY <1>24 DEF GhOpens, OpenPr
<1>25. CASE OpenPrUnlinked
  BY <1>25 DEF GhOpens, OpenPrUnlinked
<1>26. CASE PrFails
  BY <1>26 DEF PrFails
<1>27. CASE Record
  BY <1>27 DEF Recordable, Recorded, Record
<1>28. CASE RecordFails
  BY <1>28 DEF RecordFails
<1>29. CASE GatePasses
  BY <1>29 DEF GatePasses
<1>30. CASE NewRun
  BY <1>30 DEF NewRun
<1>31. CASE UNCHANGED shipVars
  BY <1>31 DEF shipVars
<1>32. QED
  BY <1>1, <1>2, <1>3, <1>4, <1>4b, <1>5, <1>6, <1>7, <1>8, <1>9, <1>10, <1>11,
     <1>12, <1>13, <1>14, <1>15, <1>16, <1>17, <1>18, <1>19, <1>20, <1>21,
     <1>22, <1>23, <1>24, <1>25, <1>26, <1>27, <1>28, <1>29, <1>30, <1>31
     DEF Next

-----------------------------------------------------------------------------
(* What the artifact stands for                                            *)

\* A text that nobody's ship() wrote takes no evidence away and adds none.
LEMMA EvidentByText ==
  ASSUME TypeOK, Evident, TextKept,
         UNCHANGED <<run, state, hasRemote, prs, committed>>,
         pc' = pc \/ pc' \notin {"remotes", "pr"} \union Evidence
  PROVE  Evident'
<1>1. run \in Nat \ {0}
  BY ArtifactRun
<1>2. artifact'.run = run => artifact' = artifact
  BY <1>1 DEF TextKept
<1>3. (artifact.run = run => Delivered)'
  BY <1>2 DEF Evident, Delivered
<1>4. (artifact.kind \in Evidence /\ artifact.run /= run => found /= {})'
  BY DEF TextKept, Foreign
<1>5. GateIsEarned'
  BY DEF Evident, GateIsEarned, Delivered, TextKept
<1>6. QED
  BY <1>3, <1>4, <1>5 DEF Evident, Evidence

\* ship() writes the artifact only behind a commit, and behind gh's URL where there is
\* a remote; any other text the gate would take has been noted.
LEMMA EvidentStep == TypeOK /\ Own /\ Evident /\ [Next]_shipVars => Evident'
<1> SUFFICES ASSUME TypeOK, Own, Evident, [Next]_shipVars PROVE Evident'
  OBVIOUS
<1>1a. run \in Nat \ {0} /\ artifact.run \in Nat
  BY ArtifactRun
<1>1. ASSUME NEW f \in Files, WriteLands(f) PROVE Evident'
  BY <1>1, LandsKeeps, EvidentByText DEF WriteLands, runVars, outside
<1>3. ASSUME NEW f \in Files, WorkerWrites(f) PROVE Evident'
  BY <1>3, LandsKeeps, EvidentByText DEF WorkerWrites, runVars, outside
<1>4. ASSUME NEW f \in Files, WorkerWritesLate(f) PROVE Evident'
  BY <1>4, LandsKeeps, EvidentByText DEF WorkerWritesLate, runVars, outside
<1>4b. ASSUME NEW f \in Files, UnaskedWriteLands(f) PROVE Evident'
  BY <1>4b, LandsKeeps, EvidentByText DEF UnaskedWriteLands, runVars, outside
<1>5. ASSUME NEW f \in Files, OperatorEdits(f) PROVE Evident'
  BY <1>5, LandsKeeps, EvidentByText DEF OperatorEdits, runVars, outside
<1>14. CASE CheckoutBranch
  <2>1. UNCHANGED <<run, state, hasRemote, prs, committed>>
    BY <1>14 DEF CheckoutBranch, shipping, runVars, outside
  <2>2. QED
    BY <1>14, <2>1, TreeKeeps, EvidentByText DEF CheckoutBranch, Evidence
<1> USE ShipAssumption DEF TypeOK, Evident, Delivered, GateIsEarned, Evidence,
        evidence, Runs, runVars, marks, writes, workerVars, checkout, refs,
        outside, shipping
<1>2. ASSUME NEW f \in Files, WriteNeverLands(f) PROVE Evident'
  BY <1>2 DEF RecordWrite, WritesAllowed, WriteNeverLands
<1>6. ASSUME NEW f \in Files, OperatorStages(f) PROVE Evident'
  BY <1>6 DEF SeenByWorker, OperatorStages
<1>7. CASE WorkerStarts
  BY <1>7 DEF WorkerStarts
<1>8. CASE WorkerReports
  BY <1>8 DEF WorkerReports
<1>9. CASE WorkerUnattributed
  BY <1>9 DEF WorkerUnattributed
<1>10. CASE WorkerCloses
  BY <1>10 DEF WorkerCloses
<1>11. CASE EnterShip
  BY <1>11 DEF EnterShip
<1>12. CASE CreateBranch
  BY <1>12 DEF CreateBranch
<1>13. CASE CreateBranchFails
  BY <1>13 DEF CreateBranchFails
<1>15. CASE CheckoutFails
  BY <1>15 DEF CheckoutFails
<1>16. CASE AddPaths
  BY <1>16 DEF Stageable, AddPaths
<1>17. CASE AddFallsShort
  BY <1>17 DEF Stageable, AddFallsShort
<1>18. CASE NothingStaged
  BY <1>18 DEF NothingStaged
<1>19. CASE Commit
  BY <1>19 DEF Commit
<1>20. CASE CommitFails
  BY <1>20 DEF CommitFails
<1>21. CASE LocalOnly
  BY <1>21 DEF LocalOnly
<1>22. CASE Push
  BY <1>22 DEF Push
<1>23. CASE PushFails
  BY <1>23 DEF PushFails
<1>24. CASE OpenPr
  <2>1. [run |-> run, from |-> head] \in prs'
    BY <1>24 DEF OpenPr, GhOpens
  <2>2. \E p \in prs' : p.run = run'
    BY <1>24, <2>1 DEF OpenPr
  <2>3. prs \subseteq prs'
    BY <1>24 DEF OpenPr, GhOpens
  <2>4. QED
    BY <1>24, <2>2, <2>3 DEF OpenPr, GhOpens
<1>25. CASE OpenPrUnlinked
  BY <1>25 DEF GhOpens, OpenPrUnlinked
<1>26. CASE PrFails
  BY <1>26 DEF PrFails
<1>27. CASE Record
  BY <1>27 DEF Recordable, Recorded, Record
<1>28. CASE RecordFails
  BY <1>28 DEF RecordFails
<1>29. CASE GatePasses
  BY <1>29 DEF GatePasses
<1>30. CASE NewRun
  <2>1. artifact'.run /= run'
    <3>1. artifact.run <= run
      BY DEF Own
    <3>2. QED
      BY ONLY <1>1a, <1>30, <3>1 DEF NewRun
  <2>2. QED
    BY <1>30, <2>1 DEF NewRun, Foreign
<1>31. CASE UNCHANGED shipVars
  BY <1>31 DEF shipVars
<1>32. QED
  BY <1>1, <1>2, <1>3, <1>4, <1>4b, <1>5, <1>6, <1>7, <1>8, <1>9, <1>10, <1>11,
     <1>12, <1>13, <1>14, <1>15, <1>16, <1>17, <1>18, <1>19, <1>20, <1>21,
     <1>22, <1>23, <1>24, <1>25, <1>26, <1>27, <1>28, <1>29, <1>30, <1>31
     DEF Next

-----------------------------------------------------------------------------
(* What a request shows                                                    *)

\* Checkout, commit, push and gh, in this order, put the run's commit in its request.
LEMMA CarriedStep == TypeOK /\ Carried /\ [Next]_shipVars => Carried'
<1> SUFFICES ASSUME TypeOK, Carried, [Next]_shipVars PROVE Carried'
  OBVIOUS
<1> USE ShipAssumption DEF TypeOK, Carried, RequestCarriesItsCommit, Refs,
        Lands, Foreign, TreeOfBranch, evidence, runVars, marks, writes,
        workerVars, checkout, refs, outside, shipping
<1>1. ASSUME NEW f \in Files, WriteLands(f) PROVE Carried'
  BY <1>1 DEF RecordWrite, WritesAllowed, WriteLands
<1>2. ASSUME NEW f \in Files, WriteNeverLands(f) PROVE Carried'
  BY <1>2 DEF RecordWrite, WritesAllowed, WriteNeverLands
<1>3. ASSUME NEW f \in Files, WorkerWrites(f) PROVE Carried'
  BY <1>3 DEF WorkerWrites
<1>4. ASSUME NEW f \in Files, WorkerWritesLate(f) PROVE Carried'
  BY <1>4 DEF WorkerWritesLate
<1>4b. ASSUME NEW f \in Files, UnaskedWriteLands(f) PROVE Carried'
  BY <1>4b DEF WritesAllowed, UnaskedWriteLands
<1>5. ASSUME NEW f \in Files, OperatorEdits(f) PROVE Carried'
  BY <1>5 DEF SeenByWorker, OperatorEdits
<1>6. ASSUME NEW f \in Files, OperatorStages(f) PROVE Carried'
  BY <1>6 DEF SeenByWorker, OperatorStages
<1>7. CASE WorkerStarts
  BY <1>7 DEF WorkerStarts
<1>8. CASE WorkerReports
  BY <1>8 DEF WorkerReports
<1>9. CASE WorkerUnattributed
  BY <1>9 DEF WorkerUnattributed
<1>10. CASE WorkerCloses
  BY <1>10 DEF WorkerCloses
<1>11. CASE EnterShip
  BY <1>11 DEF EnterShip
<1>12. CASE CreateBranch
  BY <1>12 DEF CreateBranch
<1>13. CASE CreateBranchFails
  BY <1>13 DEF CreateBranchFails
<1>14. CASE CheckoutBranch
  BY <1>14 DEF CheckoutBranch
<1>15. CASE CheckoutFails
  BY <1>15 DEF CheckoutFails
<1>16. CASE AddPaths
  BY <1>16 DEF Stageable, AddPaths
<1>17. CASE AddFallsShort
  BY <1>17 DEF Stageable, AddFallsShort
<1>18. CASE NothingStaged
  BY <1>18 DEF NothingStaged
<1>19. CASE Commit
  BY <1>19 DEF Commit
<1>20. CASE CommitFails
  BY <1>20 DEF CommitFails
<1>21. CASE LocalOnly
  BY <1>21 DEF LocalOnly
<1>22. CASE Push
  BY <1>22 DEF Push
<1>23. CASE PushFails
  BY <1>23 DEF PushFails
<1>24. CASE OpenPr
  <2>1. RequestCarriesItsCommit'
    <3>1. SUFFICES ASSUME NEW p \in prs', p.run \notin strayed
                   PROVE  p.run \in remote[p.from]
      BY <1>24 DEF OpenPr
    <3>2. CASE p \in prs
      BY <3>1, <3>2
    <3>3. CASE p = [run |-> run, from |-> head]
      BY <1>24, <3>1, <3>3 DEF OpenPr, GhOpens
    <3>4. QED
      BY <1>24, <3>2, <3>3 DEF OpenPr, GhOpens
  <2>2. QED
    BY <1>24, <2>1 DEF OpenPr, GhOpens
<1>25. CASE OpenPrUnlinked
  BY <1>25 DEF GhOpens, OpenPrUnlinked
<1>26. CASE PrFails
  BY <1>26 DEF PrFails
<1>27. CASE Record
  BY <1>27 DEF Recordable, Recorded, Record
<1>28. CASE RecordFails
  BY <1>28 DEF RecordFails
<1>29. CASE GatePasses
  BY <1>29 DEF GatePasses
<1>30. CASE NewRun
  BY <1>30 DEF NewRun
<1>31. CASE UNCHANGED shipVars
  BY <1>31 DEF shipVars
<1>32. QED
  BY <1>1, <1>2, <1>3, <1>4, <1>4b, <1>5, <1>6, <1>7, <1>8, <1>9, <1>10, <1>11,
     <1>12, <1>13, <1>14, <1>15, <1>16, <1>17, <1>18, <1>19, <1>20, <1>21,
     <1>22, <1>23, <1>24, <1>25, <1>26, <1>27, <1>28, <1>29, <1>30, <1>31
     DEF Next

-----------------------------------------------------------------------------
(* What is left out                                                        *)

\* The order of a run: its worker is closed, ship() runs, the artifact is written.
LEMMA OwnStep == TypeOK /\ Own /\ [Next]_shipVars => Own'
<1> SUFFICES ASSUME TypeOK, Own, [Next]_shipVars PROVE Own'
  OBVIOUS
<1>1a. run \in Nat \ {0} /\ artifact.run \in Nat /\ Runs \subseteq Nat
  BY ArtifactRun
<1> USE <1>1a DEF Own, evidence, runVars, marks, writes, workerVars, checkout,
        refs, outside, shipping
<1>1. ASSUME NEW f \in Files, WriteLands(f) PROVE Own'
  BY <1>1, LandsKeeps DEF TextKept, WriteLands, WritesAllowed
<1>2. ASSUME NEW f \in Files, WriteNeverLands(f) PROVE Own'
  BY <1>2 DEF RecordWrite, WritesAllowed, WriteNeverLands
<1>3. ASSUME NEW f \in Files, WorkerWrites(f) PROVE Own'
  BY <1>3, LandsKeeps DEF TextKept, WorkerWrites
<1>4. ASSUME NEW f \in Files, WorkerWritesLate(f) PROVE Own'
  BY <1>4, LandsKeeps DEF TextKept, WorkerWritesLate
<1>4b. ASSUME NEW f \in Files, UnaskedWriteLands(f) PROVE Own'
  BY <1>4b, LandsKeeps DEF TextKept, WritesAllowed, UnaskedWriteLands
<1>5. ASSUME NEW f \in Files, OperatorEdits(f) PROVE Own'
  BY <1>5, LandsKeeps DEF TextKept, SeenByWorker, OperatorEdits
<1>6. ASSUME NEW f \in Files, OperatorStages(f) PROVE Own'
  BY <1>6 DEF SeenByWorker, OperatorStages
<1>7. CASE WorkerStarts
  BY <1>7 DEF WorkerStarts
<1>8. CASE WorkerReports
  BY <1>8 DEF WorkerReports
<1>9. CASE WorkerUnattributed
  BY <1>9 DEF WorkerUnattributed
<1>10. CASE WorkerCloses
  BY <1>10 DEF WorkerCloses
<1>11. CASE EnterShip
  BY <1>11 DEF EnterShip
<1>12. CASE CreateBranch
  BY <1>12 DEF CreateBranch
<1>13. CASE CreateBranchFails
  BY <1>13 DEF CreateBranchFails
<1>14. CASE CheckoutBranch
  BY <1>14, TreeKeeps DEF TextKept, CheckoutBranch
<1>15. CASE CheckoutFails
  BY <1>15 DEF CheckoutFails
<1>16. CASE AddPaths
  BY <1>16 DEF Stageable, AddPaths
<1>17. CASE AddFallsShort
  BY <1>17 DEF Stageable, AddFallsShort
<1>18. CASE NothingStaged
  BY <1>18 DEF NothingStaged
<1>19. CASE Commit
  BY <1>19 DEF Commit
<1>20. CASE CommitFails
  BY <1>20 DEF CommitFails
<1>21. CASE LocalOnly
  BY <1>21 DEF LocalOnly
<1>22. CASE Push
  BY <1>22 DEF Push
<1>23. CASE PushFails
  BY <1>23 DEF PushFails
<1>24. CASE OpenPr
  BY <1>24 DEF GhOpens, OpenPr
<1>25. CASE OpenPrUnlinked
  BY <1>25 DEF GhOpens, OpenPrUnlinked
<1>26. CASE PrFails
  BY <1>26 DEF PrFails
<1>27. CASE Record
  <2>1. artifact'.run = run
    BY <1>27 DEF Record, Recorded
  <2>2. state = "ship"
    BY <1>27 DEF Record, Recordable, Evidence
  <2>3. QED
    BY <1>27, <2>1, <2>2 DEF Record
<1>28. CASE RecordFails
  BY <1>28 DEF RecordFails
<1>29. CASE GatePasses
  BY <1>29 DEF GatePasses
<1>30. CASE NewRun
  BY <1>30 DEF NewRun
<1>31. CASE UNCHANGED shipVars
  BY <1>31 DEF shipVars
<1>32. QED
  BY <1>1, <1>2, <1>3, <1>4, <1>4b, <1>5, <1>6, <1>7, <1>8, <1>9, <1>10, <1>11,
     <1>12, <1>13, <1>14, <1>15, <1>16, <1>17, <1>18, <1>19, <1>20, <1>21,
     <1>22, <1>23, <1>24, <1>25, <1>26, <1>27, <1>28, <1>29, <1>30, <1>31
     DEF Next

\* What a run put on disk is there, and uncommitted, when its paths are staged.
LEMMA OnDiskStep == TypeOK /\ Own /\ OnDisk /\ [Next]_shipVars => OnDisk'
<1> SUFFICES ASSUME TypeOK, Own, OnDisk, [Next]_shipVars PROVE OnDisk'
  OBVIOUS
<1> USE DEF TypeOK, Own, OnDisk, Evidence, Lands, Foreign, TreeOfBranch,
        evidence, runVars, marks, writes, workerVars, checkout, refs, outside,
        shipping
<1>1. ASSUME NEW f \in Files, WriteLands(f) PROVE OnDisk'
  BY <1>1 DEF RecordWrite, WritesAllowed, WriteLands
<1>2. ASSUME NEW f \in Files, WriteNeverLands(f) PROVE OnDisk'
  BY <1>2 DEF RecordWrite, WritesAllowed, WriteNeverLands
<1>3. ASSUME NEW f \in Files, WorkerWrites(f) PROVE OnDisk'
  BY <1>3 DEF WorkerWrites
<1>4. ASSUME NEW f \in Files, WorkerWritesLate(f) PROVE OnDisk'
  BY <1>4 DEF WorkerWritesLate
<1>4b. ASSUME NEW f \in Files, UnaskedWriteLands(f) PROVE OnDisk'
  BY <1>4b DEF WritesAllowed, UnaskedWriteLands
<1>5. ASSUME NEW f \in Files, OperatorEdits(f) PROVE OnDisk'
  BY <1>5 DEF SeenByWorker, OperatorEdits
<1>6. ASSUME NEW f \in Files, OperatorStages(f) PROVE OnDisk'
  BY <1>6 DEF SeenByWorker, OperatorStages
<1>7. CASE WorkerStarts
  BY <1>7 DEF WorkerStarts
<1>8. CASE WorkerReports
  BY <1>8 DEF WorkerReports
<1>9. CASE WorkerUnattributed
  BY <1>9 DEF WorkerUnattributed
<1>10. CASE WorkerCloses
  BY <1>10 DEF WorkerCloses
<1>11. CASE EnterShip
  BY <1>11 DEF EnterShip
<1>12. CASE CreateBranch
  BY <1>12 DEF CreateBranch
<1>13. CASE CreateBranchFails
  BY <1>13 DEF CreateBranchFails
<1>14. CASE CheckoutBranch
  BY <1>14 DEF CheckoutBranch
<1>15. CASE CheckoutFails
  BY <1>15 DEF CheckoutFails
<1>16. CASE AddPaths
  BY <1>16 DEF Stageable, AddPaths
<1>17. CASE AddFallsShort
  BY <1>17 DEF Stageable, AddFallsShort
<1>18. CASE NothingStaged
  BY <1>18 DEF NothingStaged
<1>19. CASE Commit
  BY <1>19 DEF Commit
<1>20. CASE CommitFails
  BY <1>20 DEF CommitFails
<1>21. CASE LocalOnly
  BY <1>21 DEF LocalOnly
<1>22. CASE Push
  BY <1>22 DEF Push
<1>23. CASE PushFails
  BY <1>23 DEF PushFails
<1>24. CASE OpenPr
  BY <1>24 DEF GhOpens, OpenPr
<1>25. CASE OpenPrUnlinked
  BY <1>25 DEF GhOpens, OpenPrUnlinked
<1>26. CASE PrFails
  BY <1>26 DEF PrFails
<1>27. CASE Record
  BY <1>27 DEF Recordable, Recorded, Record
<1>28. CASE RecordFails
  BY <1>28 DEF RecordFails
<1>29. CASE GatePasses
  BY <1>29 DEF GatePasses
<1>30. CASE NewRun
  BY <1>30 DEF NewRun
<1>31. CASE UNCHANGED shipVars
  BY <1>31 DEF shipVars
<1>32. QED
  BY <1>1, <1>2, <1>3, <1>4, <1>4b, <1>5, <1>6, <1>7, <1>8, <1>9, <1>10, <1>11,
     <1>12, <1>13, <1>14, <1>15, <1>16, <1>17, <1>18, <1>19, <1>20, <1>21,
     <1>22, <1>23, <1>24, <1>25, <1>26, <1>27, <1>28, <1>29, <1>30, <1>31
     DEF Next

\* No file a run wrote is lost between its record and its commit.
LEMMA WholeStep == TypeOK /\ Own /\ OnDisk /\ Whole /\ [Next]_shipVars => Whole'
<1> SUFFICES ASSUME TypeOK, Own, OnDisk, Whole, [Next]_shipVars PROVE Whole'
  OBVIOUS
<1>1a. run \in Nat \ {0} /\ artifact.run \in Nat
  BY ArtifactRun
<1> USE DEF TypeOK, Own, OnDisk, Whole, Evidence, evidence, runVars, marks,
        writes, workerVars, checkout, refs, outside, shipping
<1>1. ASSUME NEW f \in Files, WriteLands(f) PROVE Whole'
  <2>1. landed' = landed \union {f} /\ written'[run] = written[run] \union {f}
    BY <1>1 DEF WriteLands, RecordWrite
  <2>2. pc = "idle" /\ artifact.run /= run
    BY <1>1 DEF WriteLands, WritesAllowed
  <2>3. QED
    BY <1>1a, <1>1, <2>1, <2>2, LandsKeeps DEF TextKept, WriteLands
<1>2. ASSUME NEW f \in Files, WriteNeverLands(f) PROVE Whole'
  BY <1>2 DEF RecordWrite, WritesAllowed, WriteNeverLands
<1>3. ASSUME NEW f \in Files, WorkerWrites(f) PROVE Whole'
  <2>1. landed' = landed \union {f} /\ touched' = touched \union {f}
    BY <1>3 DEF WorkerWrites
  <2>2. pc = "idle" /\ artifact.run /= run
    BY <1>3 DEF WorkerWrites
  <2>3. QED
    BY <1>1a, <1>3, <2>1, <2>2, LandsKeeps DEF TextKept, WorkerWrites
<1>4. ASSUME NEW f \in Files, WorkerWritesLate(f) PROVE Whole'
  BY <1>1a, <1>4, LandsKeeps DEF TextKept, WorkerWritesLate
<1>4b. ASSUME NEW f \in Files, UnaskedWriteLands(f) PROVE Whole'
  BY <1>1a, <1>4b, LandsKeeps DEF TextKept, WritesAllowed, UnaskedWriteLands
<1>5. ASSUME NEW f \in Files, OperatorEdits(f) PROVE Whole'
  BY <1>1a, <1>5, LandsKeeps DEF TextKept, SeenByWorker, OperatorEdits
<1>6. ASSUME NEW f \in Files, OperatorStages(f) PROVE Whole'
  BY <1>6 DEF SeenByWorker, OperatorStages
<1>7. CASE WorkerStarts
  BY <1>7 DEF WorkerStarts
<1>8. CASE WorkerReports
  BY <1>8 DEF WorkerReports
<1>9. CASE WorkerUnattributed
  BY <1>9 DEF WorkerUnattributed
<1>10. CASE WorkerCloses
  BY <1>10 DEF WorkerCloses
<1>11. CASE EnterShip
  BY <1>11 DEF EnterShip
<1>12. CASE CreateBranch
  BY <1>12 DEF CreateBranch
<1>13. CASE CreateBranchFails
  BY <1>13 DEF CreateBranchFails
<1>14. CASE CheckoutBranch
  BY <1>1a, <1>14, TreeKeeps DEF TextKept, CheckoutBranch
<1>15. CASE CheckoutFails
  BY <1>15 DEF CheckoutFails
<1>16. CASE AddPaths
  BY <1>16 DEF Stageable, AddPaths
<1>17. CASE AddFallsShort
  BY <1>17 DEF Stageable, AddFallsShort
<1>18. CASE NothingStaged
  BY <1>18 DEF NothingStaged
<1>19. CASE Commit
  BY <1>19 DEF Commit
<1>20. CASE CommitFails
  BY <1>20 DEF CommitFails
<1>21. CASE LocalOnly
  BY <1>21 DEF LocalOnly
<1>22. CASE Push
  BY <1>22 DEF Push
<1>23. CASE PushFails
  BY <1>23 DEF PushFails
<1>24. CASE OpenPr
  BY <1>24 DEF GhOpens, OpenPr
<1>25. CASE OpenPrUnlinked
  BY <1>25 DEF GhOpens, OpenPrUnlinked
<1>26. CASE PrFails
  BY <1>26 DEF PrFails
<1>27. CASE Record
  <2>1. artifact'.run = run
    BY <1>27 DEF Record, Recorded
  <2>2. pc \in Evidence /\ state = "ship"
    BY <1>27 DEF Record, Recordable
  <2>3. QED
    BY <1>27, <2>1, <2>2 DEF Record
<1>28. CASE RecordFails
  BY <1>28 DEF RecordFails
<1>29. CASE GatePasses
  BY <1>29 DEF GatePasses
<1>30. CASE NewRun
  <2>1. artifact'.run /= run'
    <3>1. artifact.run <= run
      BY DEF Own
    <3>2. QED
      BY ONLY <1>1a, <1>30, <3>1 DEF NewRun
  <2>2. QED
    BY <1>30, <2>1 DEF NewRun
<1>31. CASE UNCHANGED shipVars
  BY <1>31 DEF shipVars
<1>32. QED
  BY <1>1, <1>2, <1>3, <1>4, <1>4b, <1>5, <1>6, <1>7, <1>8, <1>9, <1>10, <1>11,
     <1>12, <1>13, <1>14, <1>15, <1>16, <1>17, <1>18, <1>19, <1>20, <1>21,
     <1>22, <1>23, <1>24, <1>25, <1>26, <1>27, <1>28, <1>29, <1>30, <1>31
     DEF Next

-----------------------------------------------------------------------------
(* The theorems                                                            *)

LEMMA InitIInv == Init => IInv
<1> SUFFICES ASSUME Init PROVE IInv
  OBVIOUS
<1> USE ShipAssumption DEF Init, Runs, Refs
<1>1. TypeOK
  <2>1. \A a \in Typed : a /= NoArtifact
    BY TypedText
  <2>2. /\ artifact \in Texts
        /\ PrUrl \in exists <=> artifact /= NoArtifact
    BY <2>1 DEF Texts
  <2>3. found \subseteq Texts
    BY <2>2
  <2>4. /\ run \in Runs /\ dirty \subseteq exists
        /\ branchOf \in [Runs -> Branches] /\ written \in [Runs -> SUBSET Files]
        /\ {holds, remote} \subseteq [Refs -> SUBSET Runs]
    OBVIOUS
  <2>5. QED
    BY <2>2, <2>3, <2>4 DEF TypeOK
<1>1a. artifact.run = 0
  BY TypedText
<1>2. Scoped
  BY DEF Scoped, ScopedCommit, Asked
<1>3. Evident
  <2>1. artifact.kind \in Evidence => artifact \in found
    OBVIOUS
  <2>2. pc = "idle" /\ state = "work" /\ artifact.run /= run
    BY <1>1a
  <2>3. QED
    BY <2>1, <2>2 DEF Evident, GateIsEarned, Evidence
<1>4. Carried
  BY DEF Carried, RequestCarriesItsCommit
<1>5. Own
  BY <1>1a DEF Own
<1>6. OnDisk
  BY DEF OnDisk
<1>7. Whole
  BY <1>1a DEF Whole, Evidence
<1>8. QED
  BY <1>1, <1>2, <1>3, <1>4, <1>5, <1>6, <1>7 DEF IInv

\* The conjuncts of IInv hold in every state of every behaviour.
LEMMA Inductive == Spec => []IInv
<1>1. Init => IInv
  BY InitIInv
<1>2. IInv /\ [Next]_shipVars => IInv'
  BY TypeStep, ScopedStep, EvidentStep, CarriedStep, OwnStep, OnDiskStep, WholeStep
  DEF IInv
<1>3. QED
  BY <1>1, <1>2, PTL DEF Spec

\* Every variable of ship() and of the checkout stays in its domain; the artifact
\* says something exactly while its file exists.
THEOREM TypeCorrect == Spec => []TypeOK
<1>1. IInv => TypeOK
  BY DEF IInv
<1>2. QED
  BY <1>1, Inductive, PTL

\* However many runs follow each other, fail or die half way, a commit carries
\* nothing but what some run recorded and what the operator staged.
THEOREM CommitsAreScoped == Spec => []ScopedCommit
<1>1. IInv => ScopedCommit
  BY DEF IInv, Scoped
<1>2. QED
  BY <1>1, Inductive, PTL

\* However many runs follow each other, and whatever fails, a run is done without
\* its commit, or the request a remote calls for, only if a text was before it that
\* the gate accepts and that its own ship() did not write.
THEOREM DoneIsEarned == Spec => []GateIsEarned
<1>1. IInv => GateIsEarned
  BY DEF IInv, Evident
<1>2. QED
  BY <1>1, Inductive, PTL

\* A request shows the commit of the run that opened it, whatever branches the
\* runs share, unless that run's checkout failed.
THEOREM RequestsCarryTheirCommits == Spec => []RequestCarriesItsCommit
<1>1. IInv => RequestCarriesItsCommit
  BY DEF IInv, Carried
<1>2. QED
  BY <1>1, Inductive, PTL

\* A run done on its own evidence has committed every file it or its worker put on
\* disk, unless `git add` or a worker's snapshot fell short.
THEOREM ShippedWorkIsComplete == Spec => []ShippedWorkIsWhole
<1>1. IInv => ShippedWorkIsWhole
  BY DEF IInv, Own, Whole, ShippedWorkIsWhole
<1>2. QED
  BY <1>1, Inductive, PTL
=============================================================================
