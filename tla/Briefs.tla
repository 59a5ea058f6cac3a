------------------------------- MODULE Briefs -------------------------------
(***************************************************************************)
(* The review briefs: when an ask has been answered or claimed, a callback *)
(* (src/plugin.ts, attachApprovalAnswerer) looks for the entry it left in  *)
(* the registry and has a model explain it (requestBrief, src/explainer.ts)*)
(* while the human may already click.                                      *)
(*                                                                         *)
(* The callback is a microtask: it runs before the next click, timer or    *)
(* reply, but another ask may be raised or withdrawn before it.            *)
(***************************************************************************)
EXTENDS Approvals

CONSTANTS
  GiveUpAfter,   \* giveUpAfter of createChatExplainer
  Enabled        \* dashboard.brief.enabled

ASSUME BriefsAssumption ==
  /\ GiveUpAfter \in Nat \ {0}
  /\ Enabled \in BOOLEAN

VARIABLES
  due,        \* asks whose callback has not run yet
  brief,      \* briefState of each ask's entry
  call,       \* the entry that the call made for an ask is about, or NoEntry
  failures,   \* consecutiveFailures
  made,       \* history: calls open at the last usable reply or made since
  peak        \* history: the most that have been open at once since then

calls == <<call, failures, made, peak>>
briefVars == <<vars, due, brief, calls>>

NoEntry == 0
BriefStates == {"none", "pending", "ready", "failed"}

BriefInit ==
  /\ Init
  /\ due = {}
  /\ brief = [a \in Asks |-> "none"]
  /\ call = [a \in Asks |-> NoEntry]
  /\ failures = 0
  /\ made = 0
  /\ peak = 0

-----------------------------------------------------------------------------
(* The registry's steps                                                    *)

BriefRaise(a) ==
  /\ AskRefused(a) \/ AskCovered(a) \/ AskUnwatched(a) \/ AskClaimed(a)
  /\ due' = due \union {a}
  /\ UNCHANGED <<brief, calls>>

BriefWithdraw(a) == Withdraw(a) /\ UNCHANGED <<due, brief, calls>>

\* Clicks, timers and front ends; stop() has no caller in the repository.
BriefSettle ==
  /\ due = {}
  /\ \/ \E a \in Asks :
          \/ \E d \in Decisions : Answer(a, d)
          \/ GrantForRun(a)
          \/ Expire(a)
     \/ WatcherChanges
  /\ UNCHANGED <<due, brief, calls>>

-----------------------------------------------------------------------------
(* The callback                                                            *)

\* The run is not compared, and of two asks with one text nothing tells which
\* is which.
Twins(a, b) == question[a].tool = question[b].tool /\ question[a].text = question[b].text

FirstOf(asks) ==
  IF asks = {} THEN NoEntry ELSE CHOOSE a \in asks : \A b \in asks : a <= b

\* Slip: the snapshot is taken before the ask's own entry is in it.
EntryBefore(a) == FirstOf({e \in Pending \ {a} : Twins(a, e)})

\* pendingIdFor: the first of the entries that carry what the ask carries.
Entry(a) == FirstOf({e \in Pending : Twins(a, e)})

FindsNothing(a) ==
  /\ a \in due
  /\ Entry(a) = NoEntry
  /\ due' = due \ {a}
  /\ UNCHANGED <<vars, brief, calls>>

\* Slip: one failure too many is waited for.
GivenUpLate == failures > GiveUpAfter

GivenUp == failures >= GiveUpAfter

Open(f) == {a \in Asks : f[a] # NoEntry}

\* The explainer is asked, also when the entry has had its brief.
Explain(a) ==
  /\ a \in due
  /\ Entry(a) # NoEntry
  /\ Enabled /\ ~GivenUp /\ outcome[a] # "cancelled"
  /\ due' = due \ {a}
  /\ brief' = [brief EXCEPT ![Entry(a)] = IF @ = "none" THEN "pending" ELSE @]
  /\ call' = [call EXCEPT ![a] = Entry(a)]
  /\ made' = made + 1
  /\ peak' = IF Cardinality(Open(call')) > peak THEN Cardinality(Open(call')) ELSE peak
  /\ UNCHANGED <<vars, failures>>

\* There is no explainer, it has given up, or the ask's signal has fired, which
\* it may have for any ask, a delegated one or one raised with it: the entry,
\* which may be a twin's, is marked and at once recorded as failed.
DoWithout(a) ==
  /\ a \in due
  /\ Entry(a) # NoEntry
  /\ due' = due \ {a}
  /\ brief' = [brief EXCEPT ![Entry(a)] = IF @ \in {"none", "pending"} THEN "failed" ELSE @]
  /\ UNCHANGED <<vars, calls>>

\* recordBrief: an entry that is gone, or has its brief, is left alone.
Record(e, b) ==
  brief' = [brief EXCEPT ![e] = IF outcome[e] = "pending" /\ @ = "pending" THEN b ELSE @]

\* A text came back; normalizeBrief may refuse it.
Explained(a) ==
  /\ due = {}
  /\ call[a] # NoEntry
  /\ failures' = 0
  /\ \E b \in {"ready", "failed"} : Record(call[a], b)
  /\ call' = [call EXCEPT ![a] = NoEntry]
  /\ made' = Cardinality(Open(call'))
  /\ peak' = made'
  /\ UNCHANGED <<vars, due>>

\* Slip: only what comes back is recorded.
Unrecorded(a) ==
  /\ due = {}
  /\ call[a] # NoEntry
  /\ failures' = failures + 1
  /\ call' = [call EXCEPT ![a] = NoEntry]
  /\ UNCHANGED <<vars, due, brief, made, peak>>

\* Nothing came back, the call was rejected, or its client's timer went off.
NotExplained(a) ==
  /\ due = {}
  /\ call[a] # NoEntry
  /\ failures' = failures + 1
  /\ Record(call[a], "failed")
  /\ call' = [call EXCEPT ![a] = NoEntry]
  /\ UNCHANGED <<vars, due, made, peak>>

-----------------------------------------------------------------------------
BriefNext ==
  \/ BriefSettle
  \/ \E a \in Asks :
       \/ BriefRaise(a) \/ BriefWithdraw(a)
       \/ FindsNothing(a) \/ Explain(a) \/ DoWithout(a)
       \/ Explained(a) \/ NotExplained(a)

\* A microtask runs; the client's timer ends a call (src/llm.ts).
BriefFairness ==
  \A a \in Asks :
    /\ WF_briefVars(FindsNothing(a) \/ Explain(a) \/ DoWithout(a))
    /\ WF_briefVars(Explained(a) \/ NotExplained(a))

BriefSpec == BriefInit /\ [][BriefNext]_briefVars
FairBriefSpec == BriefSpec /\ BriefFairness

-----------------------------------------------------------------------------
(* Properties                                                              *)

BriefTypeOK ==
  /\ TypeOK
  /\ due \subseteq Asks
  /\ brief \in [Asks -> BriefStates]
  /\ call \in [Asks -> Asks \union {NoEntry}]
  /\ failures \in Nat /\ made \in Nat /\ peak \in Nat

\* "A shared brief for two identical asks is correct anyway": an ask on screen
\* is without a brief only if an ask like it, raised before it, was given one
\* (pendingIdFor, called one microtask after the claim).
TwinHasTheBrief ==
  \A a \in Pending \ due :
    brief[a] = "none" => \E b \in Asks : b < a /\ Twins(a, b) /\ brief[b] # "none"

\* "A dead explainer costs a few calls rather than one per ask": since its last
\* usable reply it was called no oftener than it takes to give up, not counting
\* those calls that were open at the same time (createChatExplainer).
DeadExplainerIsCheap == made < GiveUpAfter + peak

\* A brief that was promised on the card comes, or is reported missing, while
\* the ask is on screen, whatever the explainer does (requestBrief).
BriefsSettle ==
  \A a \in Asks : brief[a] = "pending" ~> brief[a] # "pending" \/ outcome[a] # "pending"

\* "Omitted or `enabled` not `true` means no brief is ever requested": the
\* `brief` row of the dashboard's configuration.
OffIsOff == ~Enabled => \A a \in Asks : brief[a] = "none"

\* "After this many consecutive failures, stop asking for the rest of the run":
\* giveUpAfter in explainer.ts.
GivingUpIsFinal == [][GivenUp => failures' >= GiveUpAfter]_briefVars
=============================================================================
