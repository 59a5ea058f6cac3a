------------------------------ MODULE History ------------------------------
(***************************************************************************)
(* The run history and the ceilings derived from it: the append-only file  *)
(* (src/runlog.ts), the envelope (src/envelope.ts) and the plan of a run   *)
(* (src/optimize.ts), as a closed loop.  A run is planned from the runs    *)
(* recorded before it, makes so many steps under the planned ceiling, and  *)
(* is recorded itself; so is every turn of a session of the plugin         *)
(* (recordTurn, src/plugin.ts).  A process may die in the middle of an     *)
(* append.                                                                 *)
(*                                                                         *)
(* One task, and specs that differ in their step ceiling alone: a          *)
(* fingerprint is that ceiling.  Costs follow the same rules and are left  *)
(* out.  Who calls planEnvelope is not in this repository: the runs stand  *)
(* for any caller that runs under the planned spec and records it.         *)
(***************************************************************************)
EXTENDS Integers, Sequences, FiniteSets

CONSTANTS
  Procs,          \* processes that run the loop over the same file
  Configs,        \* the ceilings the operator may configure; bounds the model
  MinSteps,       \* DERIVED_MIN_STEPS
  MinUsable,      \* MIN_USABLE_RECORDS
  Window,         \* P95_WINDOW
  Percent,        \* the percentile, 95
  HeadroomTenths, \* HEADROOM, 1.3, in tenths
  MaxSession,     \* steps of a session; bounds the model
  MaxRuns         \* runs and turns that come to be recorded; bounds the model

ASSUME HistoryAssumption ==
  /\ Configs \subseteq Nat \ {0}
  /\ MinSteps \in Nat \ {0}
  /\ MinUsable \in Nat \ {0}
  /\ Window \in Nat \ {0}
  /\ Percent \in 1..100
  /\ HeadroomTenths \in Nat /\ HeadroomTenths >= 10
  /\ MaxSession \in Nat
  /\ MaxRuns \in Nat

VARIABLES
  lines,     \* the lines of the file
  unended,   \* the last line has no newline
  config,    \* spec.maxSteps as the operator configured it
  running,   \* the ceiling each process runs under, 0 while it runs nothing
  session,   \* LoopBudget.steps of the plugin's session, over all its turns
  \* kept for the properties only
  finished,  \* runs and turns that came to be recorded
  crashes,   \* processes that died in an append
  reach      \* the largest number any ceiling may be owed to

fileVars == <<lines, unended, finished, crashes>>
historyVars == <<fileVars, config, running, session, reach>>

Torn == [spec |-> 0, steps |-> 0, met |-> FALSE]

\* The lines that can be parsed: records of a run or of a turn.
RunRecord == [spec : Nat \ {0}, steps : Nat, met : BOOLEAN]

HistoryInit ==
  /\ lines = <<>>
  /\ unended = FALSE
  /\ config \in Configs
  /\ running = [p \in Procs |-> 0]
  /\ session = 0
  /\ finished = 0
  /\ crashes = 0
  /\ reach = config

Larger(a, b) == IF a > b THEN a ELSE b
Smaller(a, b) == IF a < b THEN a ELSE b

-----------------------------------------------------------------------------
(* The file                                                                *)

\* The loop over `s` that pushes what is in `T`: the list after each element.
Filtering(s, T) ==
  LET kept[n \in 0..Len(s)] ==
        IF n = 0 THEN <<>>
        ELSE IF s[n] \in T THEN Append(kept[n - 1], s[n])
        ELSE kept[n - 1]
  IN kept

Kept(s, T) == Filtering(s, T)[Len(s)]

\* Slip: the reader gives up at the first line it cannot parse.
ReadToFirstTorn ==
  LET bad == {i \in DOMAIN lines : lines[i] \notin RunRecord}
  IN IF bad = {} THEN lines
     ELSE SubSeq(lines, 1, (CHOOSE i \in bad : \A j \in bad : i <= j) - 1)

\* readRecords: a line that cannot be parsed is skipped and counted.
Records == Kept(lines, RunRecord)

malformed == Len(lines) - Len(Kept(lines, RunRecord))

\* appendRecord writes the line and its newline; after a line that was never
\* ended, it makes one bad line of the two.
AppendLine(r) ==
  /\ lines' = IF unended THEN [lines EXCEPT ![Len(lines)] = Torn] ELSE Append(lines, r)
  /\ unended' = FALSE
  /\ finished' = finished + 1
  /\ UNCHANGED crashes

\* Some of the line is written, perhaps all of it but the newline.
AppendCut(r) ==
  /\ lines' \in IF unended THEN {[lines EXCEPT ![Len(lines)] = Torn]}
                ELSE {Append(lines, Torn), Append(lines, r)}
  /\ unended' = TRUE
  /\ finished' = finished + 1
  /\ crashes' = crashes + 1

-----------------------------------------------------------------------------
(* The envelope                                                            *)

Under(spec) == Kept(Records, [spec : {spec}, steps : Nat, met : BOOLEAN])

First(spec) == CHOOSE i \in DOMAIN Records :
                 /\ Records[i].spec = spec
                 /\ \A j \in 1..i - 1 : Records[j].spec # spec

\* The largest group under one spec; of equal ones the one seen first.
usable ==
  LET specs == {Records[i].spec : i \in DOMAIN Records}
      Outnumbers(s, t) ==
        \/ Len(Under(s)) > Len(Under(t))
        \/ Len(Under(s)) = Len(Under(t)) /\ First(s) < First(t)
  IN IF specs = {} THEN <<>>
     ELSE Under(CHOOSE s \in specs : \A t \in specs \ {s} : Outnumbers(s, t))

\* How many of the records in `s` are of at most `n` steps.
AtMost(s, n) == Cardinality({i \in DOMAIN s : s[i].steps <= n})

\* Slip: the rank is rounded down.
RankRoundedDown(s) ==
  LET rank == Larger(1, (Percent * Len(s)) \div 100)
      enough == {n \in {s[i].steps : i \in DOMAIN s} : AtMost(s, n) >= rank}
  IN CHOOSE n \in enough : \A m \in enough : n <= m

\* Nearest rank: the least recorded number that so many percent do not exceed.
Rank(s) ==
  LET enough == {n \in {s[i].steps : i \in DOMAIN s} :
                   100 * AtMost(s, n) >= Percent * Len(s)}
  IN CHOOSE n \in enough : \A m \in enough : n <= m

WithHeadroom(n) == (HeadroomTenths * n + 9) \div 10

\* Slip: the derived ceiling is not held to the configured one.
ClampBelow(n) == Larger(n, MinSteps)

\* The band planEnvelope hands over.
Clamp(n) == Larger(Smaller(n, Larger(config, MinSteps)), MinSteps)

metSteps == {0} \union {usable[i].steps : i \in {j \in DOMAIN usable : usable[j].met}}
highestMet == CHOOSE n \in metSteps : \A m \in metSteps : m <= n

\* The last records of the group.
Recent == SubSeq(usable, Larger(1, Len(usable) - Window + 1), Len(usable))

\* deriveEnvelope: the percentile of the window with headroom, in the band, and
\* never below a run of the group that met its goal.
Derived == Larger(Clamp(WithHeadroom(Rank(Recent))), highestMet)

\* planEnvelope: too thin a history leaves the configured ceiling.
planned == IF Len(usable) < MinUsable THEN config ELSE Derived

-----------------------------------------------------------------------------
(* Runs and turns                                                          *)

Room == finished + Cardinality({p \in Procs : running[p] # 0}) < MaxRuns

\* Under the plan, or under the configured ceiling pinned by a flag.
Start(p) ==
  /\ running[p] = 0
  /\ Room
  /\ \E ceiling \in {planned, config} : running' = [running EXCEPT ![p] = ceiling]
  /\ UNCHANGED <<fileVars, config, session, reach>>

\* However a run ends, it makes no more steps than it was planned.
Ran(p) == [spec : {running[p]}, steps : 1..running[p], met : BOOLEAN]

Finish(p) ==
  /\ running[p] # 0
  /\ \E r \in Ran(p) : AppendLine(r)
  /\ running' = [running EXCEPT ![p] = 0]
  /\ UNCHANGED <<config, session, reach>>

DieInAppend(p) ==
  /\ running[p] # 0
  /\ \E r \in Ran(p) : AppendCut(r)
  /\ running' = [running EXCEPT ![p] = 0]
  /\ UNCHANGED <<config, session, reach>>

DieBefore(p) ==
  /\ running[p] # 0
  /\ running' = [running EXCEPT ![p] = 0]
  /\ UNCHANGED <<fileVars, config, session, reach>>

\* recordTurn: a line for every turn, with the count of the whole session.
TurnEnds ==
  /\ Room
  /\ \E n \in 0..config :
       /\ session + n <= MaxSession
       /\ session' = session + n
  /\ \E met \in BOOLEAN : AppendLine([spec |-> config, steps |-> session', met |-> met])
  /\ reach' = Larger(reach, session')
  /\ UNCHANGED <<config, running>>

SessionEnds ==
  /\ session > 0
  /\ session' = 0
  /\ UNCHANGED <<fileVars, config, running, reach>>

\* A plugin that is loaded keeps the ceiling it was loaded with.
Reconfigure ==
  /\ session = 0
  /\ \E n \in Configs \ {config} :
       /\ config' = n
       /\ reach' = Larger(reach, n)
  /\ UNCHANGED <<fileVars, running, session>>

HistoryNext ==
  \/ \E p \in Procs : Start(p) \/ Finish(p) \/ DieInAppend(p) \/ DieBefore(p)
  \/ TurnEnds \/ SessionEnds
  \/ Reconfigure

HistorySpec == HistoryInit /\ [][HistoryNext]_historyVars

-----------------------------------------------------------------------------
(* Properties                                                              *)

\* A line is torn or a record, under a ceiling that could be in force and of no more
\* steps than a run or a session makes; a file that is not ended has a last line.
HistoryTypeOK ==
  /\ \A i \in DOMAIN lines : lines[i] # Torn =>
       /\ lines[i].spec \in 1..Larger(reach, MinSteps)
       /\ lines[i].steps \in 0..Larger(reach, MinSteps)
  /\ unended => lines # <<>>
  /\ config \in Configs
  /\ session \in 0..MaxSession

\* A death in the middle of an append costs the history that run and at most the
\* next one, however many lines follow it: the reader goes on after a bad line, and
\* each bad line it counts is a death's (readRecords, appendRecord).
LossIsBounded ==
  /\ finished - Len(Records) <= 2 * crashes
  /\ malformed <= crashes

\* Headroom is not compounded: run after run planned from runs that were planned
\* themselves, no ceiling is larger than the operator ever configured, the least
\* ceiling derived, or the length of a recorded session (the band of
\* planEnvelope, the never-lower guard).
CeilingsDoNotCompound == \A p \in Procs : running[p] <= Larger(reach, MinSteps)

\* A run is planned at `p`.
Plans(p) == running[p] = 0 /\ running'[p] # 0

\* "MAX_STEPS to the 95th-percentile completion count" (deriveEnvelope): where the
\* configured ceiling does not cut it, a derived one is a ceiling under which at least
\* that percentage of the recent runs would have finished as they did (p95).
TypicalRunsFit ==
  [][\A p \in Procs :
       Plans(p) /\ running'[p] # config /\ running'[p] < Larger(config, MinSteps) =>
         100 * AtMost(Recent, running'[p]) >= Percent * Len(Recent)]_historyVars

\* "A ceiling below proven success is a broken ceiling" (deriveEnvelope): none is
\* planned below a run of this task that is on record as having met its goal.
ProvenSuccessIsKept ==
  [][\A p \in Procs : Plans(p) /\ running'[p] # config =>
       \A i \in DOMAIN Records : Records[i].met => Records[i].steps <= running'[p]]_historyVars

\* "A derived ceiling may tighten that but never quietly exceed it"
\* (DERIVED_MIN_STEPS): the configured ceiling is the upper bound of every plan.
PlanStaysWithinConfig == [][\A p \in Procs : Plans(p) => running'[p] <= config]_historyVars

\* "A partial last line means a run was lost mid-append" (ReadResult): one run
\* for every death.
OneLossPerCrash == finished - Len(Records) <= crashes

=============================================================================
