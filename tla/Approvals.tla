----------------------------- MODULE Approvals -----------------------------
(***************************************************************************)
(* The approval registry (src/approvals.ts) with the run grants it keeps   *)
(* (src/run-grants.ts).                                                    *)
(*                                                                         *)
(* An ask raised by the harness is claimed while a front end is watching,  *)
(* waved through when a human already allowed its tool for its run, and    *)
(* otherwise delegated to the next answerer.  A claimed ask is settled by  *)
(* whichever comes first: a click, its timer, its abort signal or stop().  *)
(*                                                                         *)
(* Ask n is the n-th ask raised, so the registry's insertion-ordered map   *)
(* of pending entries is the set of pending asks in numerical order.  The  *)
(* timer of an ask may go off at any moment it is armed: no property here  *)
(* depends on how long an ask may wait.                                    *)
(***************************************************************************)
EXTENDS Naturals, FiniteSets

CONSTANTS
  MaxAsks,         \* how many asks the harness raises; bounds the model
  Runs,            \* run ids (question.agent.id, or 'agentless')
  Tools,           \* tool names
  GrantableTools,  \* RUN_GRANTABLE_TOOLS
  Texts,           \* the reason and call id of an ask
  PolicyTexts,     \* texts whose reason starts with POLICY_MARKER
  Answers          \* the deployment's `answers` flag

ASSUME ApprovalsAssumption ==
  /\ MaxAsks \in Nat \ {0}
  /\ GrantableTools \subseteq Tools
  /\ PolicyTexts \subseteq Texts
  /\ Answers \in BOOLEAN

VARIABLES
  question,    \* the asks of this behaviour, in the order they will be raised
  outcome,     \* what each ask resolved to, or that it is still "pending"
  granted,     \* RunGrants: the <<run, tool>> pairs a human allowed
  stopped,     \* stop() was called
  watching,    \* hasWatcher()
  clicks       \* history: the clicks settleApproval reported as settled

vars == <<question, outcome, granted, stopped, watching, clicks>>

\* All of it but the flag that others report to.
registry == <<question, outcome, granted, stopped, clicks>>

Asks == 1..MaxAsks
Question == [run : Runs, tool : Tools, text : Texts]
Settled == {"allowed-once", "rejected", "cancelled", "unavailable"}
Outcomes == Settled \union {"unraised", "pending", "delegated"}
Decisions == {"allowed-once", "allowed-run", "rejected"}

Pending == {a \in Asks : outcome[a] = "pending"}

----------------------------------------------------------------------------
(* Run grants                                                              *)

Grantable(q) == q.tool \in GrantableTools /\ q.text \in PolicyTexts

Key(a) == <<question[a].run, question[a].tool>>

\* Slip: the grant store is looked up by tool alone.
CoversAnyRun(a) ==
  Grantable(question[a]) /\ \E r \in Runs : <<r, question[a].tool>> \in granted

Covers(a) == Grantable(question[a]) /\ Key(a) \in granted

\* Slip: only the clicked ask is released, its queued siblings stay on screen.
ReleasedAlone(a) == {a}

\* The queued asks an `allowed-run` on a releases, a among them.
Released(a) ==
  {a} \union {b \in Pending : Key(b) = Key(a) /\ Grantable(question[b])}

----------------------------------------------------------------------------
(* The registry                                                            *)

Init ==
  /\ question \in [Asks -> Question]
  /\ outcome = [a \in Asks |-> "unraised"]
  /\ granted = {}
  /\ stopped = FALSE
  /\ watching = FALSE
  /\ clicks = {}

Settle(asks, o) == outcome' = [a \in Asks |-> IF a \in asks THEN o ELSE outcome[a]]

\* The next ask the harness raises: asks are numbered in that order.
Raised(a) ==
  /\ outcome[a] = "unraised"
  /\ \A b \in Asks : b < a => outcome[b] /= "unraised"

Resolve(a, o) ==
  /\ Raised(a)
  /\ Settle({a}, o)
  /\ UNCHANGED <<question, granted, stopped, watching, clicks>>

AskRefused(a) ==
  /\ stopped \/ ~Answers
  /\ Resolve(a, "delegated")

AskCovered(a) ==
  /\ ~stopped /\ Answers
  /\ Covers(a)
  /\ Resolve(a, "allowed-once")

AskUnwatched(a) ==
  /\ ~stopped /\ Answers
  /\ ~Covers(a)
  /\ ~watching
  /\ Resolve(a, "delegated")

AskClaimed(a) ==
  /\ ~stopped /\ Answers
  /\ ~Covers(a)
  /\ watching
  /\ Resolve(a, "pending")

\* Slip: a click settles an entry that is already gone.
SettleGone(a, d) ==
  /\ d /= "allowed-run"
  /\ outcome[a] \in Settled \union {"pending"}
  /\ Settle({a}, d)
  /\ clicks' = clicks \union {<<a, d>>}
  /\ UNCHANGED <<question, granted, stopped>>

\* settleApproval with a plain decision.
SettleApproval(a, d) ==
  /\ d /= "allowed-run"
  /\ outcome[a] = "pending"
  /\ Settle({a}, d)
  /\ clicks' = clicks \union {<<a, d>>}
  /\ UNCHANGED <<question, granted, stopped>>

Answer(a, d) == SettleApproval(a, d) /\ UNCHANGED watching

\* Slip: the grant is made without asking whether this ask may carry one.
GrantUnchecked(a) ==
  /\ outcome[a] = "pending"
  /\ granted' = granted \union {Key(a)}
  /\ Settle(Released(a), "allowed-once")
  /\ clicks' = clicks \union {<<a, "allowed-run">>}
  /\ UNCHANGED <<question, stopped>>

\* settleApproval with `allowed-run`.
SettleForRun(a) ==
  /\ outcome[a] = "pending"
  /\ Grantable(question[a])
  /\ granted' = granted \union {Key(a)}
  /\ Settle(Released(a), "allowed-once")
  /\ clicks' = clicks \union {<<a, "allowed-run">>}
  /\ UNCHANGED <<question, stopped>>

GrantForRun(a) == SettleForRun(a) /\ UNCHANGED watching

\* Slip: the timer is re-armed for as long as a front end is on the page.
ExpireUnwatched(a) ==
  /\ outcome[a] = "pending" /\ ~watching
  /\ Settle({a}, "unavailable")
  /\ UNCHANGED <<question, granted, stopped, watching, clicks>>

Expire(a) ==
  /\ outcome[a] = "pending"
  /\ Settle({a}, "unavailable")
  /\ UNCHANGED <<question, granted, stopped, watching, clicks>>

\* The ask's abort signal fires; an ask raised with a signal that had already
\* fired is one for which this never happens.
Withdraw(a) ==
  /\ outcome[a] = "pending"
  /\ Settle({a}, "cancelled")
  /\ UNCHANGED <<question, granted, stopped, watching, clicks>>

Stop ==
  /\ ~stopped
  /\ stopped' = TRUE
  /\ Settle(Pending, "unavailable")
  /\ UNCHANGED <<question, granted, watching, clicks>>

\* A front end reports in, or the last report goes stale or is cleared.
WatcherChanges ==
  /\ watching' = ~watching
  /\ UNCHANGED <<question, outcome, granted, stopped, clicks>>

----------------------------------------------------------------------------
Next ==
  \/ \E a \in Asks :
       \/ AskRefused(a) \/ AskCovered(a) \/ AskUnwatched(a) \/ AskClaimed(a)
       \/ \E d \in Decisions : Answer(a, d)
       \/ GrantForRun(a) \/ Expire(a) \/ Withdraw(a)
  \/ Stop
  \/ WatcherChanges

Spec == Init /\ [][Next]_vars

----------------------------------------------------------------------------
(* Properties                                                              *)

\* Every variable keeps its type: in particular a settled ask carries one of the
\* four outcomes the approval seam knows (approvals.ts `ApprovalOutcome`).
TypeOK ==
  /\ question \in [Asks -> Question]
  /\ outcome \in [Asks -> Outcomes]
  /\ granted \subseteq Runs \X Tools
  /\ stopped \in BOOLEAN
  /\ watching \in BOOLEAN
  /\ clicks \subseteq Asks \X Decisions

\* Once a human allowed a tool for the run, no ask it covers is left waiting on a
\* click, whether it was queued before the grant or raised after it.
GrantReleases == \A a \in Pending : ~Covers(a)

\* An allow always comes from a human: from a click on this very ask, or from an
\* `allowed-run` click on an ask of the same run and tool, and then only for a
\* file tool asked under a policy rule.
AllowedByHuman ==
  \A a \in Asks : outcome[a] = "allowed-once" =>
    \/ <<a, "allowed-once">> \in clicks
    \/ /\ Grantable(question[a])
       /\ \E b \in Asks : /\ <<b, "allowed-run">> \in clicks
                          /\ Key(b) = Key(a)
                          /\ Grantable(question[b])

\* A click that was reported as settled is what the asker got: a late click, a
\* second click or a click racing the timer never reports success for an outcome
\* another path decided.
ClickIsTheOutcome ==
  \A a \in Asks, d \in Decisions : <<a, d>> \in clicks =>
    outcome[a] = IF d = "rejected" THEN "rejected" ELSE "allowed-once"

\* An ask is answered once: whichever of a click, a grant, the timer, the abort
\* signal and stop() comes first, what comes later changes nothing, and a click
\* among them is not reported as settled (settle and settleApproval).
AnsweredOnce ==
  [][\A a \in Asks : outcome[a] \in Settled \union {"delegated"} =>
       /\ outcome'[a] = outcome[a]
       /\ \A d \in Decisions : <<a, d>> \in clicks' => <<a, d>> \in clicks]_<<outcome, clicks>>

\* After stop() nothing waits and nothing is claimed any more.
StopDrains == stopped => Pending = {}

----------------------------------------------------------------------------
(* The promise the registry keeps                                          *)

VerdictFor(o) ==
  IF o = "unraised" THEN "unraised"
  ELSE IF o = "pending" THEN "waiting"
  ELSE IF o = "delegated" THEN "passed"
  ELSE IF o = "allowed-once" THEN "allowed" ELSE "refused"

Verdict == [a \in Asks |-> VerdictFor(outcome[a])]

Gate == INSTANCE HumanGate WITH verdict <- Verdict

\* The registry implements HumanGate: every step it takes is one the promise
\* allows, with the grant store replaced by the clicks that made the grants.
ImplementsHumanGate == Gate!GateSpec
=============================================================================
