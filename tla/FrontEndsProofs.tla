-------------------------- MODULE FrontEndsProofs --------------------------
(***************************************************************************)
(* FrontEnds, proved for any number of tabs and any ping interval below    *)
(* the TTL, and Settings, for any number of panels, reads and edits.       *)
(*                                                                         *)
(* The watcher flag: the last report is never older than any connected     *)
(* tab's last ping (Heartbeat), and no ping is ever more than Keepalive    *)
(* old.                                                                    *)
(*                                                                         *)
(* The asks: what a front end does to the registry is a step of it or one  *)
(* of its settlements together with a report, so the invariant of          *)
(* ApprovalsProofs and the refinement of HumanGate carry over.             *)
(*                                                                         *)
(* The settings file: a draft that is valid brings in legal values only,   *)
(* and none under a key that is not on the form (MergeKeeps); so whatever  *)
(* a form was filled with, the file's other values are those it had.       *)
(***************************************************************************)
EXTENDS FrontEnds, Settings, ApprovalsProofs

\* What the front ends' own variables look like.
FlagOK ==
  /\ sincePing \in [Tabs -> 0..Keepalive \union {TTL}]
  /\ age \in 0..TTL
  /\ watching = (age < TTL)

Heartbeat == Answers => \A t \in Connected : age <= sincePing[t]

FlagInv == FlagOK /\ Heartbeat

LEMMA TimesAreNumbers ==
  TTL \in Nat /\ Keepalive \in Nat /\ 0 < Keepalive /\ Keepalive < TTL
BY FrontEndsAssumption

\* Nothing the registry does touches the flag.
LEMMA RegistryKeepsFlag ==
  ASSUME NEW a \in Asks, AskArrives(a) \/ TabClick(a) \/ AskRunsOut(a)
  PROVE  UNCHANGED <<watching, sincePing, age>>
BY DEF AskArrives, TabClick, AskRunsOut, AskRefused, AskCovered, AskUnwatched, AskClaimed,
       Resolve, GrantForRun, Answer, Expire, Withdraw

LEMMA FlagStep == FlagInv /\ [FrontNext]_frontVars => FlagInv'
<1> SUFFICES ASSUME FlagInv, [FrontNext]_frontVars PROVE FlagInv'
  OBVIOUS
<1> USE TimesAreNumbers DEF FlagInv, FlagOK, Heartbeat, Connected
<1>1. ASSUME NEW t \in Tabs, OpenTab(t) \/ Ping(t) PROVE FlagInv'
  BY <1>1 DEF OpenTab, Ping, NoteWatcher, WatcherAge
<1>2. ASSUME NEW t \in Tabs, CloseTab(t) PROVE FlagInv'
  <2>1. CASE Connected = {t}
    BY <1>2, <2>1 DEF CloseTab, ClearWatcher, WatcherAge
  <2>2. CASE Connected /= {t}
    BY <1>2, <2>2 DEF CloseTab
  <2>3. QED
    BY <2>1, <2>2
<1>3. ASSUME PageReports \/ \E a \in Asks : PageClick(a) PROVE FlagInv'
  BY <1>3 DEF PageReports, PageClick, WatcherAge
<1>4. CASE Tick
  <2>1. \A t \in Connected : sincePing[t] \in 0..Keepalive /\ sincePing[t] < Keepalive
    BY <1>4 DEF Tick
  <2>2. FlagOK'
    BY <1>4, <2>1 DEF Tick, WatcherAge
  <2>3. \A t \in Connected' : t \in Connected /\ sincePing'[t] = sincePing[t] + 1
    BY <1>4 DEF Tick
  <2>4. Heartbeat'
    BY <1>4, <2>1, <2>3 DEF Tick, WatcherAge
  <2>5. QED
    BY <2>2, <2>4
<1>5. CASE Unload
  BY <1>5 DEF Unload, ClearWatcher, WatcherAge, registry
<1>6. ASSUME NEW a \in Asks, AskArrives(a) \/ TabClick(a) \/ AskRunsOut(a) PROVE FlagInv'
  BY <1>6, RegistryKeepsFlag
<1>7. CASE UNCHANGED frontVars
  BY <1>7 DEF frontVars, vars
<1>8. QED
  BY <1>1, <1>2, <1>3, <1>4, <1>5, <1>6, <1>7 DEF FrontNext

\* At the start nothing is open and nobody is on the page.
LEMMA FlagStarts == FrontInit => FlagInv
<1> SUFFICES ASSUME FrontInit PROVE FlagInv
  OBVIOUS
<1>1. ~(age < TTL) /\ Connected = {}
  BY TimesAreNumbers DEF FrontInit, Connected
<1>2. watching = (age < TTL)
  <2>1. (age < TTL) = FALSE
    BY <1>1
  <2>2. watching = FALSE
    BY Zenon DEF FrontInit, Init
  <2>3. QED
    BY <2>1, <2>2, Zenon
<1>3. QED
  BY <1>1, <1>2, TimesAreNumbers DEF FrontInit, FlagInv, FlagOK, Heartbeat

\* Every variable of the registry and of its front ends keeps its type, and
\* hasWatcher() is what the age of the last report says (FrontTypeOK).
THEOREM FrontTypeCorrect == FrontSpec => []FrontTypeOK
<1> DEFINE RegistryOK == /\ question \in [Asks -> Question]
                         /\ outcome \in [Asks -> Outcomes]
                         /\ granted \subseteq Runs \X Tools
                         /\ stopped \in BOOLEAN
                         /\ clicks \subseteq Asks \X Decisions
                         /\ unloaded \in BOOLEAN
<1>1. FrontInit => RegistryOK
  BY DEF FrontInit, Init, Outcomes
<1>2. RegistryOK /\ [FrontNext]_frontVars => RegistryOK'
  <2> SUFFICES ASSUME RegistryOK, [FrontNext]_frontVars PROVE RegistryOK'
    OBVIOUS
  <2> USE DEF Outcomes, Settled, Settle
  <2>1. ASSUME NEW a \in Asks, AskArrives(a) \/ AskRunsOut(a) PROVE RegistryOK'
    BY <2>1 DEF AskArrives, AskRefused, AskCovered, AskUnwatched, AskClaimed, Resolve,
                AskRunsOut, Expire, Withdraw
  <2>2. ASSUME NEW a \in Asks, SettleForRun(a), UNCHANGED unloaded
        PROVE  RegistryOK'
    <3>1. Key(a) \in Runs \X Tools
      BY DEF Key, Question
    <3>2. QED
      BY <2>2, <3>1 DEF SettleForRun, Decisions
  <2>3. ASSUME NEW a \in Asks, NEW d \in Decisions, SettleApproval(a, d), UNCHANGED unloaded
        PROVE  RegistryOK'
    BY <2>3 DEF SettleApproval, Decisions
  <2>4. ASSUME NEW a \in Asks, TabClick(a) \/ PageClick(a) PROVE RegistryOK'
    BY <2>2, <2>3, <2>4 DEF TabClick, PageClick, GrantForRun, Answer
  <2>5. ASSUME UNCHANGED registry, UNCHANGED unloaded \/ unloaded' = TRUE PROVE RegistryOK'
    BY <2>5 DEF registry
  <2>6. ASSUME NEW t \in Tabs, OpenTab(t) \/ Ping(t) \/ CloseTab(t) PROVE RegistryOK'
    BY <2>5, <2>6 DEF OpenTab, Ping, CloseTab
  <2>7. CASE PageReports \/ Tick \/ Unload
    BY <2>5, <2>7 DEF PageReports, Tick, Unload
  <2>8. CASE UNCHANGED frontVars
    BY <2>5, <2>8 DEF frontVars, vars, registry
  <2>9. QED
    BY <2>1, <2>4, <2>6, <2>7, <2>8 DEF FrontNext
<1>3. RegistryOK /\ FlagInv => FrontTypeOK
  <2> SUFFICES ASSUME RegistryOK, FlagInv PROVE FrontTypeOK
    OBVIOUS
  <2>1. watching \in BOOLEAN
    <3>1. (age < TTL) = TRUE \/ (age < TTL) = FALSE
      BY TimesAreNumbers DEF FlagInv, FlagOK
    <3>2. QED
      BY <3>1, Zenon DEF FlagInv, FlagOK
  <2>2. QED
    BY <2>1, Zenon DEF FlagInv, FlagOK, FrontTypeOK, TypeOK
<1>4. QED
  BY <1>1, <1>2, <1>3, FlagStarts, FlagStep, PTL DEF FrontSpec

\* Whatever tabs open and close and whatever the in-UI page does, an open tab is a
\* watcher at every moment.
THEOREM OpenTabsWatch == FrontSpec => []TabsAreWatching
<1>2. FlagInv => TabsAreWatching
  <2> SUFFICES ASSUME FlagInv, Answers, NEW t \in Connected PROVE watching
    BY DEF TabsAreWatching
  <2>1. age < TTL
    BY TimesAreNumbers DEF FlagInv, FlagOK, Heartbeat, Connected
  <2>2. QED
    BY <2>1, Zenon DEF FlagInv, FlagOK
<1>3. QED
  BY <1>2, FlagStarts, FlagStep, PTL DEF FrontSpec

-----------------------------------------------------------------------------
(* The registry behind the front ends                                      *)

LEMMA FrontMoves ==
  ASSUME [FrontNext]_frontVars
  PROVE  RegistryMoves
<1> USE DEF RegistryMoves
<1>1. ASSUME NEW a \in Asks, AskArrives(a) \/ TabClick(a) \/ AskRunsOut(a) PROVE Next
  BY <1>1 DEF AskArrives, TabClick, AskRunsOut, Next
<1>2. ASSUME NEW a \in Asks, PageClick(a)
      PROVE  SettleForRun(a) \/ \E d \in Decisions : SettleApproval(a, d)
  BY <1>2 DEF PageClick
<1>3. ASSUME NEW t \in Tabs, OpenTab(t) \/ Ping(t) \/ CloseTab(t)
      PROVE  UNCHANGED registry
  BY <1>3 DEF OpenTab, Ping, CloseTab
<1>4. CASE PageReports \/ Tick \/ Unload
  BY <1>4 DEF PageReports, Tick, Unload
<1>5. CASE UNCHANGED frontVars
  BY <1>5 DEF frontVars
<1>6. QED
  BY <1>1, <1>2, <1>3, <1>4, <1>5 DEF FrontNext

LEMMA FrontInvariance == FrontSpec => []Inv
<1>1. FrontInit => Inv
  BY InvInit DEF FrontInit
<1>2. FrontTypeOK => TypeOK
  BY DEF FrontTypeOK
<1>3. Inv /\ TypeOK' /\ [FrontNext]_frontVars => Inv'
  BY FrontMoves, InvMove
<1>4. QED
  BY <1>1, <1>2, <1>3, FrontTypeCorrect, PTL DEF FrontSpec

\* Tabs and the in-UI page answer the same asks, each with a route of its own, while
\* tabs close and the plugin is unloaded: an ask is still allowed by a click that
\* covers it or not at all (dashboard.ts and remote.ts over approvals.ts).
THEOREM HumanBehindEveryFrontEnd == FrontSpec => []AllowedByHuman
<1>1. Inv => AllowedByHuman
  BY DEF Inv
<1>2. QED
  BY FrontInvariance, <1>1, PTL

\* Two front ends that answer one ask are told the truth: the click that was reported
\* as settled is the outcome, whichever tab or page it came from.
THEOREM ClicksDecideFromAnyFrontEnd == FrontSpec => []ClickIsTheOutcome
<1>1. Inv => ClickIsTheOutcome
  BY DEF Inv
<1>2. QED
  BY FrontInvariance, <1>1, PTL

\* Tabs and the page race each other, the timers and the abort signals for one ask; the
\* first settles it, and the rest find it settled (dashboard.ts, remote.ts).
THEOREM AskIsAnsweredOnceByAnyFrontEnd == FrontSpec => AnsweredOnce
<1>1. Inv /\ [FrontNext]_frontVars => [Stand]_<<outcome, clicks>>
  BY FrontMoves, StandMove DEF Inv
<1>2. QED
  BY <1>1, FrontInvariance, PTL DEF FrontSpec, AnsweredOnce, Stand

\* The registry with every front end on it implements HumanGate: opening, closing,
\* reporting, going stale and unloading decide nothing.
THEOREM FrontEndsImplementHumanGate == FrontSpec => ImplementsHumanGate
<1>1. FrontInit => Gate!GateInit
  BY GateInitRefined DEF FrontInit
<1>2. Inv /\ [FrontNext]_frontVars => [Gate!GateNext]_<<question, Verdict, clicks>>
  BY FrontMoves, GateMove
<1>3. QED
  BY <1>1, <1>2, FrontInvariance, PTL
     DEF FrontSpec, ImplementsHumanGate, Gate!GateSpec, Gate!gateVars

-----------------------------------------------------------------------------
(* The settings file                                                       *)

SettingsInv == SettingsTypeOK /\ HandsWordStands /\ IllegalIsHandmade

LEMMA KeyNames ==
  /\ FormKeys \subseteq Keys /\ FileKeys \subseteq Keys
  /\ FormKeys \cap FileKeys = {}
  /\ Legal \subseteq Values /\ Absent \in Values /\ Bad \in Values /\ Blank \notin Values
BY SettingsAssumption DEF FormKeys, FileKeys, Keys, Values

LEMMA SettingsAreValues ==
  ASSUME file \in [Keys -> Values]
  PROVE  Settings \in [Keys -> Values] /\ \A k \in Keys : Settings[k] \in {file[k], Absent}
BY KeyNames DEF Settings, Empty

\* A valid draft over what the host read: no key off the form moves, and what is
\* illegal was in the file.
LEMMA MergeKeeps ==
  ASSUME file \in [Keys -> Values], NEW f \in Forms, Valid(f)
  PROVE  /\ Merge(Settings, f) \in [Keys -> Values]
         /\ \A k \in FileKeys : Merge(Settings, f)[k] = Settings[k]
         /\ \A k \in Keys : Merge(Settings, f)[k] = Bad => file[k] = Bad
<1>1. \A k \in FormKeys : f[k] \in Legal \union {Absent}
  BY DEF Valid
<1>2. \A k \in Keys : Settings[k] \in Values /\ Settings[k] \in {file[k], Absent}
  BY SettingsAreValues
<1>3. \A k \in Keys : Merge(Settings, f)[k]
                        = IF k \in FormKeys /\ f[k] # Absent THEN f[k] ELSE Settings[k]
  BY DEF Merge
<1>4. Merge(Settings, f) \in [Keys -> Values]
  BY <1>1, <1>2, KeyNames DEF Merge
<1>5. \A k \in FileKeys : Merge(Settings, f)[k] = Settings[k]
  BY <1>3, KeyNames
<1>6. \A k \in Keys : Merge(Settings, f)[k] = Bad => file[k] = Bad
  BY <1>1, <1>2, <1>3, SettingsAssumption
<1>7. QED
  BY <1>4, <1>5, <1>6

LEMMA SettingsStart == SettingsInit => SettingsInv
BY KeyNames, SettingsAssumption
   DEF SettingsInit, SettingsInv, SettingsTypeOK, HandsWordStands, IllegalIsHandmade, Empty, Quiet

\* The steps of a panel that leave the file alone, as far as the file is concerned.
LEMMA FileAloneStep ==
  ASSUME SettingsInv, SettingsTypeOK', UNCHANGED <<fileState, handState>>
  PROVE  SettingsInv'
BY DEF SettingsInv, HandsWordStands, IllegalIsHandmade, fileState, handState

LEMMA PanelStep ==
  ASSUME SettingsTypeOK, NEW p \in Panels,
         \/ Mount(p) \/ Unmount(p) \/ Edit(p) \/ Save(p) \/ HostRefuses(p)
         \/ SaveReturns(p) \/ SaveLost(p)
  PROVE  SettingsTypeOK' /\ UNCHANGED <<fileState, handState>>
<1> USE DEF SettingsTypeOK, fileState, handState
<1>1. CASE Mount(p)
  BY <1>1, SettingsAssumption DEF Mount, Calls, Forms
<1>2. CASE Unmount(p)
  BY <1>2 DEF Unmount, Quiet
<1>3. CASE Edit(p)
  <2>1. PICK k \in FormKeys, v \in Legal \union {Bad, Absent} :
          form' = [form EXCEPT ![p][k] = v]
    BY <1>3 DEF Edit
  <2>2. form[p] \in Forms /\ v \in Entries
    BY <1>3 DEF Edit, Filled, Entries, Values
  <2>3. [form[p] EXCEPT ![k] = v] \in Forms
    BY <2>1, <2>2 DEF Forms
  <2>4. form' \in [Panels -> Forms \union {NoForm}]
    BY <2>1, <2>3
  <2>5. QED
    BY <1>3, <2>4 DEF Edit
<1>4. CASE Save(p)
  BY <1>4 DEF Save, Filled
<1>5. CASE HostRefuses(p)
  BY <1>5 DEF HostRefuses, Answered
<1>6. CASE SaveReturns(p)
  <2>1. Own \in Calls
    BY SettingsAssumption DEF Calls, Own
  <2>2. reads' \in [Panels -> [Calls -> Forms \union {NoRead, Asked}]]
    <3>1. CASE saving[p] = "saved"
      <4>1. [reads[p] EXCEPT ![Own] = Asked] \in [Calls -> Forms \union {NoRead, Asked}]
        BY <2>1
      <4>2. reads' = [reads EXCEPT ![p] = [reads[p] EXCEPT ![Own] = Asked]]
        BY <1>6, <3>1 DEF SaveReturns
      <4>3. QED
        BY <4>1, <4>2
    <3>2. CASE saving[p] # "saved"
      BY <1>6, <3>2 DEF SaveReturns
    <3>3. QED
      BY <3>1, <3>2
  <2>3. /\ saving' \in [Panels -> {"none", "sent", "saved", "refused", "reloading"}]
        /\ \A q \in Panels : saving'[q] = "sent" => saving[q] = "sent"
    BY <1>6 DEF SaveReturns
  <2>4. UNCHANGED <<fileState, panel, form, sent, handState>>
    BY <1>6 DEF SaveReturns
  <2>5. QED
    BY <2>2, <2>3, <2>4
<1>7. CASE SaveLost(p)
  BY <1>7 DEF SaveLost
<1>8. QED
  BY <1>1, <1>2, <1>3, <1>4, <1>5, <1>6, <1>7

LEMMA ReadStep ==
  ASSUME SettingsTypeOK, NEW p \in Panels, NEW s \in Calls,
         Reload(p, s) \/ HostReadsFile(p, s) \/ StatusArrives(p, s) \/ StatusFails(p, s)
  PROVE  SettingsTypeOK' /\ UNCHANGED <<fileState, handState>>
<1> USE DEF SettingsTypeOK, fileState, handState
<1>1. CASE Reload(p, s)
  BY <1>1 DEF Reload
<1>2. CASE HostReadsFile(p, s)
  BY <1>2 DEF HostReadsFile
<1>3. CASE StatusArrives(p, s)
  BY <1>3 DEF StatusArrives, ReadOver
<1>4. CASE StatusFails(p, s)
  BY <1>4 DEF StatusFails, ReadOver
<1>5. QED
  BY <1>1, <1>2, <1>3, <1>4

LEMMA HostSavesStep ==
  ASSUME SettingsInv, NEW p \in Panels, HostSaves(p)
  PROVE  SettingsInv'
<1> USE DEF SettingsInv, SettingsTypeOK
<1>1. sent[p] \in Forms /\ Valid(sent[p])
  BY DEF HostSaves
<1>2. /\ Merge(Settings, sent[p]) \in [Keys -> Values]
      /\ \A k \in FileKeys : Merge(Settings, sent[p])[k] = Settings[k]
      /\ \A k \in Keys : Merge(Settings, sent[p])[k] = Bad => file[k] = Bad
  BY <1>1, MergeKeeps
<1>3. file' = Merge(Settings, sent[p]) /\ UNCHANGED hand
  BY DEF HostSaves, handState
<1>4. SettingsTypeOK'
  BY <1>2, <1>3 DEF HostSaves, Answered, handState
<1>5. HandsWordStands'
  <2> SUFFICES ASSUME NEW k \in FileKeys, k \notin lost' PROVE file'[k] = hand[k]
    BY <1>3 DEF HandsWordStands
  <2>1. k \in Keys /\ k \notin lost /\ file'[k] = Settings[k]
    BY <1>2, <1>3, KeyNames DEF HostSaves
  <2>2. Settings[k] = file[k]
    BY <2>1 DEF HostSaves, Settings, Empty
  <2>3. QED
    BY <2>1, <2>2 DEF HandsWordStands
<1>6. IllegalIsHandmade'
  BY <1>2, <1>3, KeyNames DEF IllegalIsHandmade
<1>7. QED
  BY <1>4, <1>5, <1>6

LEMMA HostDiesStep ==
  ASSUME SettingsInv, NEW p \in Panels, HostDies(p)
  PROVE  SettingsInv'
<1> USE DEF SettingsInv, SettingsTypeOK
<1>1. sent[p] \in Forms /\ Valid(sent[p])
  BY DEF HostDies
<1>2. PICK written \in SUBSET Keys :
        file' = [k \in Keys |-> IF k \in written THEN Merge(Settings, sent[p])[k] ELSE Absent]
  BY DEF HostDies
<1>3. \A k \in Keys : file'[k] \in Values /\ (file'[k] = Bad => file[k] = Bad)
  BY <1>1, <1>2, MergeKeeps, KeyNames, SettingsAssumption
<1>4. file' \in [Keys -> Values] /\ UNCHANGED hand /\ lost' = Keys
  BY <1>2, <1>3 DEF HostDies, handState
<1>5. SettingsTypeOK'
  BY <1>4 DEF HostDies, Quiet, handState
<1>6. HandsWordStands'
  BY <1>4, KeyNames DEF HandsWordStands
<1>7. IllegalIsHandmade'
  BY <1>3, <1>4, KeyNames DEF IllegalIsHandmade
<1>8. QED
  BY <1>5, <1>6, <1>7

LEMMA EditorStep ==
  ASSUME SettingsInv, HandBreaks \/ \E k \in Keys, v \in Values : HandWrites(k, v)
  PROVE  SettingsInv'
<1> USE DEF SettingsInv, SettingsTypeOK, Takes, pageState
<1>1. edits' \in 0..MaxHand
  BY SettingsAssumption DEF HandBreaks, HandWrites
<1>2. CASE HandBreaks
  BY <1>1, <1>2 DEF HandBreaks, HandsWordStands, IllegalIsHandmade
<1>3. CASE \E k \in Keys, v \in Values : HandWrites(k, v)
  <2>1. PICK k \in Keys, v \in Values : HandWrites(k, v)
    BY <1>3
  <2>2. SettingsTypeOK'
    BY <1>1, <2>1 DEF HandWrites
  <2>3. HandsWordStands' /\ IllegalIsHandmade'
    BY <2>1, KeyNames DEF HandWrites, HandsWordStands, IllegalIsHandmade
  <2>4. QED
    BY <2>2, <2>3
<1>4. QED
  BY <1>2, <1>3

LEMMA SettingsStep == SettingsInv /\ [SettingsNext]_settingsVars => SettingsInv'
<1> SUFFICES ASSUME SettingsInv, [SettingsNext]_settingsVars PROVE SettingsInv'
  OBVIOUS
<1>1. ASSUME NEW p \in Panels,
             \/ Mount(p) \/ Unmount(p) \/ Edit(p) \/ Save(p) \/ HostRefuses(p)
             \/ SaveReturns(p) \/ SaveLost(p)
      PROVE  SettingsInv'
  BY <1>1, PanelStep, FileAloneStep DEF SettingsInv
<1>2. ASSUME NEW p \in Panels, NEW s \in Calls,
             Reload(p, s) \/ HostReadsFile(p, s) \/ StatusArrives(p, s) \/ StatusFails(p, s)
      PROVE  SettingsInv'
  BY <1>2, ReadStep, FileAloneStep DEF SettingsInv
<1>3. ASSUME NEW p \in Panels, HostSaves(p) \/ HostDies(p) PROVE SettingsInv'
  BY <1>3, HostSavesStep, HostDiesStep
<1>4. CASE HandBreaks \/ \E k \in Keys, v \in Values : HandWrites(k, v)
  BY <1>4, EditorStep
<1>5. CASE UNCHANGED settingsVars
  BY <1>5 DEF settingsVars, fileState, pageState, handState, SettingsInv, SettingsTypeOK,
              HandsWordStands, IllegalIsHandmade
<1>6. QED
  BY <1>1, <1>2, <1>3, <1>4, <1>5 DEF SettingsNext

LEMMA SettingsInvariant == SettingsSpec => []SettingsInv
BY SettingsStart, SettingsStep, PTL DEF SettingsSpec

\* The file, the panels and their calls keep their types.
THEOREM SettingsTypeCorrect == SettingsSpec => []SettingsTypeOK
BY SettingsInvariant, PTL DEF SettingsInv

\* What is not on the form stays the editor's, whatever forms are saved, unless the
\* file could not be read or its writer died (saveSettings).
THEOREM EditorsWordStands == SettingsSpec => []HandsWordStands
BY SettingsInvariant, PTL DEF SettingsInv

\* No save brings in a value validateSettings refuses.
THEOREM NothingIllegalIsSaved == SettingsSpec => []IllegalIsHandmade
BY SettingsInvariant, PTL DEF SettingsInv
=============================================================================
