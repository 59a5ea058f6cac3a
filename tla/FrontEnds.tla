----------------------------- MODULE FrontEnds -----------------------------
(***************************************************************************)
(* The approval registry with the front ends that feed it: the standalone  *)
(* page's event streams (src/dashboard.ts), the in-UI page's polls         *)
(* (src/remote.ts) and the watcher flag they share (src/approvals.ts,      *)
(* src/watcher-ttl.ts), as the plugin wires them (src/plugin.ts).          *)
(*                                                                         *)
(* The flag is the time since the last report; hasWatcher() reads it       *)
(* against a TTL.  Time moves in ticks and a stream's ping is never late.  *)
(* The page reports whenever it likes.  The plugin always hands its        *)
(* registry to the dashboard, so the dashboard's own map of asks is empty  *)
(* and settling "every own ask" settles nothing.                           *)
(***************************************************************************)
EXTENDS Approvals

CONSTANTS
  Tabs,       \* standalone pages that may connect
  TTL,        \* WATCHER_TTL_MS, in ticks
  Keepalive   \* SSE_KEEPALIVE_MS, in ticks

ASSUME FrontEndsAssumption ==
  /\ {TTL, Keepalive} \subseteq Nat \ {0}
  /\ Keepalive < TTL

VARIABLES
  sincePing,  \* ticks since a tab's stream last wrote; TTL when not connected
  age,        \* ticks since the last report; TTL once it is stale or forgotten
  unloaded    \* the plugin's disposer ran

frontVars == <<vars, sincePing, age, unloaded>>

Connected == {t \in Tabs : sincePing[t] /= TTL}

FrontInit ==
  /\ Init
  /\ sincePing = [t \in Tabs |-> TTL]
  /\ age = TTL
  /\ unloaded = FALSE

\* noteWatcher, clearWatcher and the passing of time, as hasWatcher() sees them.
WatcherAge(n) ==
  /\ age' = n
  /\ watching' = (n < TTL)

NoteWatcher == IF Answers THEN WatcherAge(0) ELSE UNCHANGED <<age, watching>>
ClearWatcher == IF Answers THEN WatcherAge(TTL) ELSE UNCHANGED <<age, watching>>

OpenTab(t) ==
  /\ ~unloaded
  /\ t \notin Connected
  /\ sincePing' = [sincePing EXCEPT ![t] = 0]
  /\ NoteWatcher
  /\ UNCHANGED <<registry, unloaded>>

\* Slip: the ping keeps the socket warm and nothing else.
PingSilently(t) ==
  /\ sincePing[t] = Keepalive
  /\ sincePing' = [sincePing EXCEPT ![t] = 0]
  /\ UNCHANGED <<registry, age, watching, unloaded>>

Ping(t) ==
  /\ sincePing[t] = Keepalive
  /\ sincePing' = [sincePing EXCEPT ![t] = 0]
  /\ NoteWatcher
  /\ UNCHANGED <<registry, unloaded>>

CloseTab(t) ==
  /\ t \in Connected
  /\ sincePing' = [sincePing EXCEPT ![t] = TTL]
  /\ IF Connected = {t} THEN ClearWatcher ELSE UNCHANGED <<age, watching>>
  /\ UNCHANGED <<registry, unloaded>>

\* The remote's live() or labelRun(), or an answer() that settles nothing.  The
\* remote is a row of its own and outlives the plugin.
PageReports ==
  /\ WatcherAge(0)
  /\ UNCHANGED <<registry, sincePing, unloaded>>

\* A tick, once every ping that is due has been written.
Tick ==
  /\ \A t \in Connected : sincePing[t] < Keepalive
  /\ WatcherAge(IF age < TTL THEN age + 1 ELSE TTL)
  /\ sincePing' = [t \in Tabs |-> IF t \in Connected THEN sincePing[t] + 1 ELSE TTL]
  /\ UNCHANGED <<registry, unloaded>>

\* The disposer: the answerer is removed, the dashboard stops and drops every
\* stream.  Nothing calls stop() on the registry.
Unload ==
  /\ ~unloaded
  /\ unloaded' = TRUE
  /\ sincePing' = [t \in Tabs |-> TTL]
  /\ IF Connected /= {} THEN ClearWatcher ELSE UNCHANGED <<age, watching>>
  /\ UNCHANGED registry

\* An ask reaches the registry for as long as the answerer is attached.
AskArrives(a) ==
  /\ ~unloaded
  /\ AskRefused(a) \/ AskCovered(a) \/ AskUnwatched(a) \/ AskClaimed(a)
  /\ UNCHANGED <<sincePing, age, unloaded>>

\* A click in a standalone tab.
TabClick(a) ==
  /\ ~unloaded
  /\ GrantForRun(a) \/ \E d \in Decisions : Answer(a, d)
  /\ UNCHANGED <<sincePing, age, unloaded>>

\* A click in the in-UI page is a report as well.
PageClick(a) ==
  /\ ~unloaded
  /\ SettleForRun(a) \/ \E d \in Decisions : SettleApproval(a, d)
  /\ WatcherAge(0)
  /\ UNCHANGED <<sincePing, unloaded>>

AskRunsOut(a) ==
  /\ Expire(a) \/ Withdraw(a)
  /\ UNCHANGED <<sincePing, age, unloaded>>

FrontNext ==
  \/ \E t \in Tabs : OpenTab(t) \/ Ping(t) \/ CloseTab(t)
  \/ \E a \in Asks : AskArrives(a) \/ TabClick(a) \/ PageClick(a) \/ AskRunsOut(a)
  \/ PageReports \/ Tick \/ Unload

\* A claim arms a timer of its own, and only settling the ask clears it.
FrontFairness ==
  \A a \in Asks : WF_frontVars(Expire(a) /\ UNCHANGED <<sincePing, age, unloaded>>)

FrontSpec == FrontInit /\ [][FrontNext]_frontVars /\ FrontFairness

----------------------------------------------------------------------------
(* Properties                                                              *)

\* The watcher variables keep their types, and hasWatcher() is what the age says.
FrontTypeOK ==
  /\ TypeOK
  /\ sincePing \in [Tabs -> 0..Keepalive \union {TTL}]
  /\ age \in 0..TTL
  /\ watching = (age < TTL)
  /\ unloaded \in BOOLEAN

\* A connected tab is a watcher for as long as its stream is open: no ask raised
\* meanwhile falls through to the composer because a ping came too late, or because
\* another tab was closed.
TabsAreWatching == Answers /\ Connected /= {} => watching

\* Every claimed ask settles in the end, whoever closes what, and also when the
\* plugin is unloaded under it.
ClaimsSettle == \A a \in Asks : outcome[a] = "pending" ~> outcome[a] \in Settled

\* "Every failure path (last tab closed, ask withdrawn, timeout, shutdown) settles
\* the pending ask": README.md of the repository.
LastTabSettles ==
  [][Connected /= {} /\ Connected' = {} => Pending' = {}]_frontVars
=============================================================================
