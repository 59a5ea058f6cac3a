----------------------------- MODULE HumanGate -----------------------------
(***************************************************************************)
(* What the approval registry promises, with none of its machinery: an ask *)
(* is decided at most once, and it is allowed only because a human clicked *)
(* on that ask, or allowed the same tool for the rest of the same run on   *)
(* an ask of the kind a run grant may cover.                               *)
(*                                                                         *)
(* The promise keeps no store of grants: what is granted is read off the   *)
(* clicks themselves.  Approvals implements it with a pending map, a grant *)
(* store and timers.                                                       *)
(***************************************************************************)
EXTENDS Naturals

CONSTANTS
  MaxAsks,         \* how many asks the harness raises; bounds the model
  Runs,            \* run ids
  Tools,           \* tool names
  GrantableTools,  \* RUN_GRANTABLE_TOOLS: the file tools
  Texts,           \* what an ask says: its reason together with its call id
  PolicyTexts      \* the texts whose reason carries the policy marker

VARIABLES
  question,  \* the asks of this behaviour, in the order they will be raised
  verdict,   \* where each ask stands
  clicks     \* the clicks that took effect, as <<ask, decision>>

gateVars == <<question, verdict, clicks>>

Asks == 1..MaxAsks
Question == [run : Runs, tool : Tools, text : Texts]
Decisions == {"allowed-once", "allowed-run", "rejected"}
Verdicts == {"unraised", "waiting", "passed", "allowed", "refused"}

\* An ask a run grant may cover: a file tool, asked under a policy rule.
RunGrantable(a) ==
  /\ question[a].tool \in GrantableTools
  /\ question[a].text \in PolicyTexts

SameGrant(a, b) ==
  /\ question[a].run = question[b].run
  /\ question[a].tool = question[b].tool

\* A human allowed this ask's tool for this ask's run.
Blessed(a) ==
  /\ RunGrantable(a)
  /\ \E b \in Asks : /\ <<b, "allowed-run">> \in clicks
                     /\ SameGrant(a, b)

GateInit ==
  /\ question \in [Asks -> Question]
  /\ verdict = [a \in Asks |-> "unraised"]
  /\ clicks = {}

Present(a) ==
  /\ verdict[a] = "unraised"
  /\ ~Blessed(a)
  /\ verdict' = [verdict EXCEPT ![a] = "waiting"]
  /\ UNCHANGED <<question, clicks>>

WaveThrough(a) ==
  /\ verdict[a] = "unraised"
  /\ Blessed(a)
  /\ verdict' = [verdict EXCEPT ![a] = "allowed"]
  /\ UNCHANGED <<question, clicks>>

Pass(a) ==
  /\ verdict[a] = "unraised"
  /\ verdict' = [verdict EXCEPT ![a] = "passed"]
  /\ UNCHANGED <<question, clicks>>

Decide(a, d) ==
  /\ verdict[a] = "waiting"
  /\ d \in {"allowed-once", "rejected"}
  /\ verdict' = [verdict EXCEPT ![a] = IF d = "rejected" THEN "refused" ELSE "allowed"]
  /\ clicks' = clicks \union {<<a, d>>}
  /\ UNCHANGED question

AllowRun(a) ==
  /\ verdict[a] = "waiting"
  /\ RunGrantable(a)
  /\ clicks' = clicks \union {<<a, "allowed-run">>}
  /\ verdict' = [b \in Asks |->
                   IF verdict[b] = "waiting" /\ RunGrantable(b) /\ SameGrant(a, b)
                   THEN "allowed" ELSE verdict[b]]
  /\ UNCHANGED question

\* Nobody decided: the asks fail closed together (withdrawn, expired, shut down).
Lapse(lapsed) ==
  /\ \A a \in lapsed : verdict[a] = "waiting"
  /\ verdict' = [a \in Asks |-> IF a \in lapsed THEN "refused" ELSE verdict[a]]
  /\ UNCHANGED <<question, clicks>>

GateNext ==
  \/ \E a \in Asks : \/ Present(a) \/ WaveThrough(a) \/ Pass(a) \/ AllowRun(a)
                     \/ \E d \in Decisions : Decide(a, d)
  \/ \E lapsed \in SUBSET Asks : Lapse(lapsed)

GateSpec == GateInit /\ [][GateNext]_gateVars
=============================================================================
