------------------------------ MODULE Settings ------------------------------
(***************************************************************************)
(* The settings file (src/remote.ts) and those who write it: the forms of  *)
(* open pages (SettingsPanel, web/entry.tsx) and the operator's editor.    *)
(*                                                                         *)
(* A form is filled from a status read, which looks at the file first and  *)
(* then waits for the judge's health probe, and it is sent whole.  The     *)
(* host merges what it is sent into the file as it finds it.               *)
(*                                                                         *)
(* Three of the keys stand for all: reviewBudget for those the form fills  *)
(* with a default, checkpointAtStep, which it may leave blank or undefined,*)
(* and maxSteps for those that are in the file and not on the form.  A     *)
(* value is legal or not, and legal ones differ only in being different.   *)
(***************************************************************************)
EXTENDS Naturals

CONSTANTS
  Panels,   \* mounts of the settings panel; one that is closed stays closed
  Legal,    \* values validateSettings accepts
  Default,  \* what the form shows for a key that is nowhere set
  Bad,      \* a value it refuses
  Blank,    \* the empty string
  Absent,   \* no value, undefined
  Row,      \* the deployment's own configuration
  NoForm,   \* a form that has not been filled
  NoRead,   \* no read under way
  Asked,    \* a status call the host has not yet handled
  MaxReads, \* reads a panel has under way besides a save's own; bounds the model
  MaxHand   \* times the operator takes to the file; bounds the model

FormKeys == {"reviewBudget", "checkpointAtStep"}
FileKeys == {"maxSteps"}
Keys == FormKeys \union FileKeys
Values == Legal \union {Bad, Absent}
Entries == Values \union {Blank}
Forms == [FormKeys -> Entries]

Calls == 0..MaxReads
Own == 0   \* the read that a save makes when it is over

ASSUME SettingsAssumption ==
  /\ Default \in Legal
  /\ Bad \notin Legal /\ Blank \notin Legal \union {Bad} /\ Absent \notin Legal \union {Bad, Blank}
  /\ Row \in [FormKeys -> Legal \union {Absent}]
  /\ MaxReads \in Nat \ {0} /\ MaxHand \in Nat
  /\ NoForm \notin Forms /\ NoRead \notin Forms \union {Asked} /\ Asked \notin Forms

VARIABLES
  file,      \* the mapping the settings file holds
  readable,  \* the file parses as a mapping
  panel,     \* whether each panel is mounted
  form,      \* SettingsPanel's draft
  saving,    \* how far each panel's save is; busy while it is not "none"
  sent,      \* the draft a save was called with
  reads,     \* status calls: Asked, or the values the host's reply will show
  \* kept for the properties only
  hand,      \* what the operator's editor last wrote under each key
  lost,      \* keys whose value went with a file that could not be read
  edits      \* times the operator took to the file

fileState == <<file, readable, lost>>
handState == <<hand, edits>>
pageState == <<panel, form, saving, sent, reads>>
settingsVars == <<fileState, pageState, handState>>

Empty == [k \in Keys |-> Absent]
Quiet == [s \in Calls |-> NoRead]

SettingsInit ==
  /\ file = Empty /\ readable = TRUE
  /\ panel = [p \in Panels |-> "new"]
  /\ form = [p \in Panels |-> NoForm]
  /\ saving = [p \in Panels |-> "none"]
  /\ sent = [p \in Panels |-> NoForm]
  /\ reads = [p \in Panels |-> Quiet]
  /\ hand = Empty /\ lost = {} /\ edits = 0

-----------------------------------------------------------------------------
(* What the file says                                                      *)

\* readSettings: nothing at all for a file that does not parse.
Settings == IF readable THEN file ELSE Empty

\* buildStatus: the file over the row.
Effective(k) == IF Settings[k] # Absent THEN Settings[k] ELSE Row[k]

\* What the form makes of a value.  Both keys go through Number(): a text that is a
\* numeral becomes a number, which may be a legal one; and a checkpoint that is not
\* set, zero or not a number becomes the empty string.
Shown(k) ==
  CASE Effective(k) = Absent -> {IF k = "reviewBudget" THEN Default ELSE Blank}
    [] Effective(k) = Bad ->
         {Bad} \union Legal \union (IF k = "checkpointAtStep" THEN {Blank} ELSE {})
    [] OTHER -> {Effective(k)}

\* Slip: only what is not a number is refused.
ValidType(f) == \A k \in FormKeys : f[k] # Blank

\* validateSettings: an undefined key is skipped, any other must be legal.
Valid(f) == \A k \in FormKeys : f[k] \in Legal \union {Absent}

\* Slip: a save replaces the file.
Replace(base, f) ==
  [k \in Keys |-> IF k \in FormKeys THEN f[k] ELSE Absent]

\* The keys a form sets, over what is in the file.
Merge(base, f) ==
  [k \in Keys |-> IF k \in FormKeys /\ f[k] # Absent THEN f[k] ELSE base[k]]

-----------------------------------------------------------------------------
(* The panel                                                               *)

Mounted(p) == panel[p] = "open"
Filled(p) == Mounted(p) /\ form[p] # NoForm

\* The effect that loads the form as the panel is mounted.
Mount(p) ==
  /\ panel[p] = "new"
  /\ panel' = [panel EXCEPT ![p] = "open"]
  /\ reads' = [reads EXCEPT ![p][1] = Asked]
  /\ UNCHANGED <<fileState, form, saving, sent, handState>>

\* Replies to a panel that is gone change nothing; a save on its way is still made.
Unmount(p) ==
  /\ Mounted(p)
  /\ panel' = [panel EXCEPT ![p] = "closed"]
  /\ form' = [form EXCEPT ![p] = NoForm]
  /\ reads' = [reads EXCEPT ![p] = Quiet]
  /\ saving' = [saving EXCEPT ![p] = IF @ = "sent" THEN @ ELSE "none"]
  /\ UNCHANGED <<fileState, sent, handState>>

\* Fields stay open while a save or a read is under way.
Edit(p) ==
  /\ Filled(p)
  /\ \E k \in FormKeys, v \in Legal \union {Bad, Absent} :
       /\ k = "reviewBudget" => v # Absent
       /\ v # form[p][k]
       /\ form' = [form EXCEPT ![p][k] = v]
  /\ UNCHANGED <<fileState, panel, saving, sent, reads, handState>>

\* The Reload button: closed while a save is under way, not while a read is.
Reload(p, s) ==
  /\ Filled(p) /\ saving[p] = "none"
  /\ s # Own /\ reads[p][s] = NoRead
  /\ reads' = [reads EXCEPT ![p][s] = Asked]
  /\ UNCHANGED <<fileState, panel, form, saving, sent, handState>>

\* status() reads the file as it is called; its reply waits for the probe.
HostReadsFile(p, s) ==
  /\ reads[p][s] = Asked
  /\ \E f \in Forms :
       /\ \A k \in FormKeys : f[k] \in Shown(k)
       /\ reads' = [reads EXCEPT ![p][s] = f]
  /\ UNCHANGED <<fileState, panel, form, saving, sent, handState>>

\* Slip: busy is reset after the read and not in a finally.
ReadOverUnlessFailed(p, s) ==
  /\ reads' = [reads EXCEPT ![p][s] = NoRead]
  /\ saving' = [saving EXCEPT ![p] = IF s = Own /\ reads[p][s] \in Forms THEN "none" ELSE @]

\* load() is over: the end of a save that made it.
ReadOver(p, s) ==
  /\ reads' = [reads EXCEPT ![p][s] = NoRead]
  /\ saving' = [saving EXCEPT ![p] = IF s = Own THEN "none" ELSE @]

StatusArrives(p, s) ==
  /\ reads[p][s] \in Forms
  /\ form' = [form EXCEPT ![p] = reads[p][s]]
  /\ ReadOver(p, s)
  /\ UNCHANGED <<fileState, panel, sent, handState>>

\* An error answer, or a call that throws, is a notice; the form stays.
StatusFails(p, s) ==
  /\ reads[p][s] # NoRead
  /\ ReadOver(p, s)
  /\ UNCHANGED <<fileState, panel, form, sent, handState>>

Save(p) ==
  /\ Filled(p) /\ saving[p] = "none"
  /\ saving' = [saving EXCEPT ![p] = "sent"]
  /\ sent' = [sent EXCEPT ![p] = form[p]]
  /\ UNCHANGED <<fileState, panel, form, reads, handState>>

\* How the host leaves a call: nobody waits for the answer of a panel that is gone.
Answered(p, how) ==
  /\ saving' = [saving EXCEPT ![p] = IF Mounted(p) THEN how ELSE "none"]
  /\ sent' = [sent EXCEPT ![p] = NoForm]

\* saveSettings reads, merges and writes without giving up the thread.
HostSaves(p) ==
  /\ saving[p] = "sent"
  /\ Valid(sent[p])
  /\ file' = Merge(Settings, sent[p])
  /\ readable' = TRUE
  /\ lost' = IF readable THEN lost ELSE lost \union {k \in Keys : file[k] # Absent}
  /\ Answered(p, "saved")
  /\ UNCHANGED <<panel, form, reads, handState>>

\* A field is rejected, or the file cannot be written.
HostRefuses(p) ==
  /\ saving[p] = "sent"
  /\ Answered(p, "refused")
  /\ UNCHANGED <<fileState, panel, form, reads, handState>>

\* The host dies inside writeFileSync: the file holds what was written until then,
\* and every call under way fails.
HostDies(p) ==
  /\ saving[p] = "sent"
  /\ Valid(sent[p])
  /\ \E written \in SUBSET Keys :
       file' = [k \in Keys |-> IF k \in written THEN Merge(Settings, sent[p])[k] ELSE Absent]
  /\ readable' \in BOOLEAN
  /\ lost' = Keys
  /\ saving' = [q \in Panels |-> IF Mounted(q) /\ saving[q] # "none" THEN "refused" ELSE "none"]
  /\ sent' = [q \in Panels |-> NoForm]
  /\ reads' = [q \in Panels |-> Quiet]
  /\ UNCHANGED <<panel, form, handState>>

\* The answer arrives: a save that went through reads the status again before it
\* is over, one that did not is over.
SaveReturns(p) ==
  /\ saving[p] \in {"saved", "refused"}
  /\ IF saving[p] = "saved"
       THEN /\ saving' = [saving EXCEPT ![p] = "reloading"]
            /\ reads' = [reads EXCEPT ![p][Own] = Asked]
       ELSE /\ saving' = [saving EXCEPT ![p] = "none"]
            /\ UNCHANGED reads
  /\ UNCHANGED <<fileState, panel, form, sent, handState>>

\* The call or its answer is lost: the page's catch, whatever the host did.
SaveLost(p) ==
  /\ Mounted(p) /\ saving[p] \in {"sent", "saved"}
  /\ saving' = [saving EXCEPT ![p] = "none"]
  /\ sent' = [sent EXCEPT ![p] = NoForm]
  /\ UNCHANGED <<fileState, panel, form, reads, handState>>

-----------------------------------------------------------------------------
(* The operator's editor                                                   *)

Takes ==
  /\ edits < MaxHand
  /\ edits' = edits + 1

HandWrites(k, v) ==
  /\ Takes
  /\ readable
  /\ v # file[k]
  /\ file' = [file EXCEPT ![k] = v]
  /\ hand' = [hand EXCEPT ![k] = v]
  /\ lost' = lost \ {k}
  /\ UNCHANGED <<readable, pageState>>

\* A line that does not parse, and its repair: the other lines are still there.
HandBreaks ==
  /\ Takes
  /\ readable' = ~readable
  /\ UNCHANGED <<file, lost, pageState, hand>>

-----------------------------------------------------------------------------

SettingsNext ==
  \/ \E p \in Panels :
       \/ Mount(p) \/ Unmount(p) \/ Edit(p)
       \/ Save(p) \/ HostSaves(p) \/ HostRefuses(p) \/ HostDies(p)
       \/ SaveReturns(p) \/ SaveLost(p)
       \/ \E s \in Calls : Reload(p, s) \/ HostReadsFile(p, s) \/ StatusArrives(p, s) \/ StatusFails(p, s)
  \/ \E k \in Keys, v \in Values : HandWrites(k, v)
  \/ HandBreaks

\* The host handles what it is sent, the probe has a timer, and a call comes back
\* or fails.
SettingsFairness ==
  \A p \in Panels :
    /\ WF_settingsVars(HostSaves(p) \/ HostRefuses(p))
    /\ WF_settingsVars(SaveReturns(p))
    /\ WF_settingsVars(HostReadsFile(p, Own))
    /\ WF_settingsVars(StatusArrives(p, Own) \/ StatusFails(p, Own))

SettingsSpec == SettingsInit /\ [][SettingsNext]_settingsVars /\ SettingsFairness

-----------------------------------------------------------------------------
(* Properties                                                              *)

SettingsTypeOK ==
  /\ file \in [Keys -> Values] /\ readable \in BOOLEAN
  /\ panel \in [Panels -> {"new", "open", "closed"}]
  /\ form \in [Panels -> Forms \union {NoForm}]
  /\ saving \in [Panels -> {"none", "sent", "saved", "refused", "reloading"}]
  /\ sent \in [Panels -> Forms \union {NoForm}]
  /\ \A p \in Panels : saving[p] = "sent" => sent[p] \in Forms
  /\ reads \in [Panels -> [Calls -> Forms \union {NoRead, Asked}]]
  /\ hand \in [Keys -> Values] /\ lost \subseteq Keys /\ edits \in 0..MaxHand

\* What is in the file and not on the form stays what the operator's editor last
\* made of it, however many forms, stale ones included, are saved over it; only a
\* file that could not be read, or whose writer died, loses it (saveSettings).
HandsWordStands == \A k \in FileKeys \ lost : file[k] = hand[k]

\* Whatever a form was filled with, from a file that held a bad value or blanked by
\* the page, no save puts a value into the file that validateSettings refuses: it is
\* there only if the operator's editor put it there (validateSettings).
IllegalIsHandmade == \A k \in Keys : file[k] \in {Bad, Blank} => hand[k] = file[k]

\* A save is over in the end and the form's buttons come back, though the panel may
\* have other reads under way, the host may die and answers may be lost.
FormComesBack == \A p \in Panels : saving[p] # "none" ~> saving[p] = "none"

\* "Empty disables it" (web/entry.tsx): a form may be saved as it was filled.
EmptyMayBeSaved ==
  \A p \in Panels : Filled(p) => form[p]["checkpointAtStep"] # Blank

\* "A merge, not a replace" (src/remote.ts), also into a file that does not parse.
MergeIsNoReplace == \A k \in FileKeys : file[k] = hand[k]
=============================================================================
