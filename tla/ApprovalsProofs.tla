-------------------------- MODULE ApprovalsProofs --------------------------
(***************************************************************************)
(* Approvals, proved for any number of asks, runs, tools and texts.        *)
(*                                                                         *)
(* The argument: the grant store and the clicks say the same thing         *)
(* (GrantsAreClicks), so an ask the store covers is one a human allowed;   *)
(* nothing the store covers stays pending (GrantReleases), because the     *)
(* click that grants also releases; and an outcome, once written, is never *)
(* written again, because every writer looks for "pending" or "unraised".  *)
(*                                                                         *)
(* Then Briefs, whose steps are steps of Approvals or leave it alone, and  *)
(* Page, each of whose steps is none, one or two of the registry's: the    *)
(* invariant carries over to both.                                         *)
(***************************************************************************)
EXTENDS Briefs, Page, FiniteSetTheorems, WellFoundedInduction, TLAPS

\* The grant store holds exactly the run and tool of the `allowed-run` clicks, and
\* each of those was made on an ask that may carry a grant.
GrantsAreClicks ==
  /\ \A g \in granted : \E b \in Asks : <<b, "allowed-run">> \in clicks /\ Key(b) = g
  /\ \A b \in Asks : <<b, "allowed-run">> \in clicks =>
       Key(b) \in granted /\ Grantable(question[b])

Inv ==
  /\ TypeOK
  /\ GrantsAreClicks
  /\ GrantReleases
  /\ AllowedByHuman
  /\ ClickIsTheOutcome
  /\ StopDrains

----------------------------------------------------------------------------
(* Type correctness                                                        *)

LEMMA TypeInit == Init => TypeOK
BY DEF Init, TypeOK, Outcomes

LEMMA TypeStep == TypeOK /\ [Next]_vars => TypeOK'
<1> SUFFICES ASSUME TypeOK, [Next]_vars PROVE TypeOK'
  OBVIOUS
<1> USE DEF TypeOK, Outcomes, Settled
<1>1. ASSUME NEW a \in Asks, NEW o \in {"allowed-once", "delegated", "pending"},
             Resolve(a, o)
      PROVE TypeOK'
  BY <1>1 DEF Resolve, Settle
<1>2. ASSUME NEW a \in Asks, NEW d \in Decisions, Answer(a, d)
      PROVE TypeOK'
  BY <1>2 DEF Answer, SettleApproval, Settle, Decisions
<1>3. ASSUME NEW a \in Asks, GrantForRun(a)
      PROVE TypeOK'
  <2>1. Key(a) \in Runs \X Tools
    BY DEF Key, Question
  <2>2. QED
    BY <1>3, <2>1 DEF GrantForRun, SettleForRun, Settle, Decisions
<1>4. ASSUME NEW a \in Asks, Expire(a) \/ Withdraw(a)
      PROVE TypeOK'
  BY <1>4 DEF Expire, Withdraw, Settle
<1>5. CASE Stop
  BY <1>5 DEF Stop, Settle
<1>6. CASE WatcherChanges
  BY <1>6 DEF WatcherChanges
<1>7. CASE UNCHANGED vars
  BY <1>7 DEF vars
<1>8. QED
  BY <1>1, <1>2, <1>3, <1>4, <1>5, <1>6, <1>7
     DEF Next, AskRefused, AskCovered, AskUnwatched, AskClaimed

\* Every reachable state is well typed (the type invariant of Approvals).
THEOREM TypeCorrect == Spec => []TypeOK
BY TypeInit, TypeStep, PTL DEF Spec

----------------------------------------------------------------------------
(* The safety invariant                                                    *)

LEMMA SettleDef ==
  ASSUME TypeOK, NEW asks, NEW o, Settle(asks, o), NEW a \in Asks
  PROVE outcome'[a] = IF a \in asks THEN o ELSE outcome[a]
  BY DEF Settle

\* A step that settles asks, grants nothing and leaves no click behind keeps the
\* invariant: what it writes is not an allow, or is an allow the store covers.
LEMMA QuietSettle ==
  ASSUME Inv, TypeOK',
         NEW asks \in SUBSET Asks, NEW o, Settle(asks, o),
         UNCHANGED <<question, granted, clicks>>,
         \A a \in asks : outcome[a] \in {"unraised", "pending"},
         o = "pending" => ~stopped' /\ \A a \in asks : ~Covers(a),
         o = "allowed-once" => \A a \in asks : Covers(a),
         stopped' => Pending \subseteq asks \/ stopped
  PROVE Inv'
<1> USE DEF Inv
<1>1. \A a \in Asks : outcome'[a] = IF a \in asks THEN o ELSE outcome[a]
  BY SettleDef
<1>2. \A a \in Asks : Key(a)' = Key(a) /\ Covers(a)' = Covers(a)
  BY DEF Key, Covers, Grantable
<1>3. GrantsAreClicks'
  BY <1>2 DEF GrantsAreClicks, Grantable
<1>4. GrantReleases'
  <2> SUFFICES ASSUME NEW a \in Asks, outcome'[a] = "pending" PROVE ~Covers(a)
    BY <1>2 DEF GrantReleases, Pending
  <2>1. CASE a \in asks
    BY <2>1, <1>1
  <2>2. CASE a \notin asks
    BY <2>2, <1>1 DEF GrantReleases, Pending
  <2>3. QED
    BY <2>1, <2>2
<1>5. AllowedByHuman'
  <2> SUFFICES ASSUME NEW a \in Asks, outcome'[a] = "allowed-once",
                      <<a, "allowed-once">> \notin clicks
               PROVE /\ Grantable(question[a])
                     /\ \E b \in Asks : /\ <<b, "allowed-run">> \in clicks
                                        /\ Key(b) = Key(a)
                                        /\ Grantable(question[b])
    BY <1>2 DEF AllowedByHuman, Grantable
  <2>1. CASE a \in asks
    BY <2>1, <1>1 DEF Covers, GrantsAreClicks
  <2>2. CASE a \notin asks
    BY <2>2, <1>1 DEF AllowedByHuman
  <2>3. QED
    BY <2>1, <2>2
<1>6. ClickIsTheOutcome'
  <2> SUFFICES ASSUME NEW a \in Asks, NEW d \in Decisions, <<a, d>> \in clicks
               PROVE outcome'[a] = IF d = "rejected" THEN "rejected" ELSE "allowed-once"
    BY DEF ClickIsTheOutcome
  <2>1. outcome[a] = IF d = "rejected" THEN "rejected" ELSE "allowed-once"
    BY DEF ClickIsTheOutcome
  <2>2. a \notin asks
    BY <2>1
  <2>3. QED
    BY <2>1, <2>2, <1>1
<1>7. StopDrains'
  <2> SUFFICES ASSUME stopped', NEW a \in Asks, outcome'[a] = "pending" PROVE FALSE
    BY DEF StopDrains, Pending
  <2>1. o /= "pending"
    OBVIOUS
  <2>2. a \notin asks /\ outcome[a] = "pending"
    BY <2>1, <1>1
  <2>3. QED
    BY <2>2 DEF StopDrains, Pending
<1>8. QED
  BY <1>3, <1>4, <1>5, <1>6, <1>7

\* A click that is not a run grant.
LEMMA AnswerStep ==
  ASSUME Inv, TypeOK', NEW a \in Asks, NEW d \in Decisions, SettleApproval(a, d)
  PROVE Inv'
<1> USE DEF Inv
<1>1. \A b \in Asks : outcome'[b] = IF b = a THEN d ELSE outcome[b]
  BY SettleDef DEF SettleApproval
<1>2. /\ outcome[a] = "pending"
      /\ d \in {"allowed-once", "rejected"}
      /\ clicks' = clicks \union {<<a, d>>}
      /\ UNCHANGED <<question, granted, stopped>>
  BY DEF SettleApproval, Decisions
<1>3. \A b \in Asks : Key(b)' = Key(b) /\ Covers(b)' = Covers(b)
  BY <1>2 DEF Key, Covers, Grantable
<1>4. \A b \in Asks : <<b, "allowed-run">> \in clicks' <=> <<b, "allowed-run">> \in clicks
  BY <1>2
<1>5. GrantsAreClicks'
  BY <1>2, <1>3, <1>4 DEF GrantsAreClicks, Grantable
<1>6. GrantReleases' /\ StopDrains'
  BY <1>1, <1>2, <1>3 DEF GrantReleases, StopDrains, Pending
<1>7. AllowedByHuman'
  BY <1>1, <1>2, <1>3, <1>4 DEF AllowedByHuman, Grantable
<1>8. ClickIsTheOutcome'
  <2> SUFFICES ASSUME NEW b \in Asks, NEW e \in Decisions, <<b, e>> \in clicks'
               PROVE outcome'[b] = IF e = "rejected" THEN "rejected" ELSE "allowed-once"
    BY DEF ClickIsTheOutcome
  <2>1. CASE b = a
    <3>1. <<a, e>> \notin clicks
      BY <1>2 DEF ClickIsTheOutcome
    <3>2. e = d
      BY <2>1, <3>1, <1>2
    <3>3. QED
      BY <2>1, <3>2, <1>1, <1>2
  <2>2. CASE b /= a
    BY <2>2, <1>1, <1>2 DEF ClickIsTheOutcome
  <2>3. QED
    BY <2>1, <2>2
<1>9. QED
  BY <1>5, <1>6, <1>7, <1>8

\* A run grant: the click that fills the store also empties the queue it covers.
LEMMA GrantStep ==
  ASSUME Inv, TypeOK', NEW a \in Asks, SettleForRun(a)
  PROVE Inv'
<1> USE DEF Inv
<1>1. \A b \in Asks : outcome'[b] = IF b \in Released(a) THEN "allowed-once" ELSE outcome[b]
  BY SettleDef DEF SettleForRun
<1>2. /\ outcome[a] = "pending"
      /\ Grantable(question[a])
      /\ granted' = granted \union {Key(a)}
      /\ clicks' = clicks \union {<<a, "allowed-run">>}
      /\ UNCHANGED <<question, stopped>>
  BY DEF SettleForRun
<1>3. \A b \in Asks : Key(b)' = Key(b)
  BY <1>2 DEF Key
<1>4. \A b \in Released(a) : outcome[b] = "pending" /\ Grantable(question[b]) /\ Key(b) = Key(a)
  BY <1>2 DEF Released, Pending
<1>5. GrantsAreClicks'
  BY <1>2, <1>3 DEF GrantsAreClicks, Grantable
<1>6. GrantReleases'
  <2> SUFFICES ASSUME NEW b \in Asks, outcome'[b] = "pending", Grantable(question[b]),
                      Key(b) \in granted'
               PROVE FALSE
    BY <1>2, <1>3 DEF GrantReleases, Pending, Covers, Grantable
  <2>1. outcome[b] = "pending" /\ b \notin Released(a)
    BY <1>1
  <2>2. Key(b) /= Key(a)
    BY <2>1 DEF Released, Pending
  <2>3. QED
    BY <2>1, <2>2, <1>2 DEF GrantReleases, Pending, Covers
<1>7. AllowedByHuman'
  <2> SUFFICES ASSUME NEW b \in Asks, outcome'[b] = "allowed-once",
                      <<b, "allowed-once">> \notin clicks'
               PROVE /\ Grantable(question[b])
                     /\ \E c \in Asks : /\ <<c, "allowed-run">> \in clicks'
                                        /\ Key(c) = Key(b)
                                        /\ Grantable(question[c])
    BY <1>2, <1>3 DEF AllowedByHuman, Grantable
  <2>1. CASE b \in Released(a)
    BY <2>1, <1>2, <1>4
  <2>2. CASE b \notin Released(a)
    BY <2>2, <1>1, <1>2 DEF AllowedByHuman
  <2>3. QED
    BY <2>1, <2>2
<1>8. ClickIsTheOutcome'
  <2> SUFFICES ASSUME NEW b \in Asks, NEW e \in Decisions, <<b, e>> \in clicks'
               PROVE outcome'[b] = IF e = "rejected" THEN "rejected" ELSE "allowed-once"
    BY DEF ClickIsTheOutcome
  <2>1. CASE <<b, e>> \in clicks
    <3>1. outcome[b] = IF e = "rejected" THEN "rejected" ELSE "allowed-once"
      BY <2>1 DEF ClickIsTheOutcome
    <3>2. QED
      BY <3>1, <1>1, <1>4
  <2>2. CASE <<b, e>> = <<a, "allowed-run">>
    BY <2>2, <1>1 DEF Released
  <2>3. QED
    BY <2>1, <2>2, <1>2
<1>9. StopDrains'
  BY <1>1, <1>2, <1>4 DEF StopDrains, Pending
<1>10. QED
  BY <1>5, <1>6, <1>7, <1>8, <1>9

LEMMA InvInit == Init => Inv
<1> SUFFICES ASSUME Init PROVE Inv
  OBVIOUS
<1>1. TypeOK
  BY DEF Init, TypeOK, Outcomes
<1>2. GrantsAreClicks
  BY DEF Init, GrantsAreClicks
<1>3. GrantReleases /\ StopDrains
  BY DEF Init, GrantReleases, StopDrains, Pending
<1>4. AllowedByHuman /\ ClickIsTheOutcome
  BY DEF Init, AllowedByHuman, ClickIsTheOutcome
<1>5. QED
  BY <1>1, <1>2, <1>3, <1>4 DEF Inv

LEMMA InvStep == Inv /\ TypeOK' /\ [Next]_vars => Inv'
<1> SUFFICES ASSUME Inv, TypeOK', [Next]_vars PROVE Inv'
  OBVIOUS
<1>1. ASSUME NEW a \in Asks, AskRefused(a) \/ AskCovered(a) \/ AskUnwatched(a)
      PROVE Inv'
  <2>1. PICK o \in {"delegated", "allowed-once"} :
           /\ Settle({a}, o)
           /\ outcome[a] = "unraised"
           /\ o = "allowed-once" => Covers(a)
           /\ UNCHANGED <<question, granted, clicks, stopped>>
    BY <1>1 DEF AskRefused, AskCovered, AskUnwatched, Resolve, Raised
  <2>2. QED
    BY <2>1, QuietSettle
<1>2. ASSUME NEW a \in Asks, AskClaimed(a)
      PROVE Inv'
  <2>1. /\ Settle({a}, "pending")
        /\ outcome[a] = "unraised"
        /\ ~Covers(a) /\ ~stopped
        /\ UNCHANGED <<question, granted, clicks, stopped>>
    BY <1>2 DEF AskClaimed, Resolve, Raised
  <2>2. QED
    BY <2>1, QuietSettle
<1>3. ASSUME NEW a \in Asks, NEW d \in Decisions, Answer(a, d)
      PROVE Inv'
  BY <1>3, AnswerStep DEF Answer
<1>4. ASSUME NEW a \in Asks, GrantForRun(a)
      PROVE Inv'
  BY <1>4, GrantStep DEF GrantForRun
<1>5. ASSUME NEW a \in Asks, Expire(a) \/ Withdraw(a)
      PROVE Inv'
  <2>1. PICK o \in {"unavailable", "cancelled"} :
           /\ Settle({a}, o)
           /\ outcome[a] = "pending"
           /\ UNCHANGED <<question, granted, clicks, stopped>>
    BY <1>5 DEF Expire, Withdraw
  <2>2. QED
    BY <2>1, QuietSettle
<1>6. CASE Stop
  <2>1. /\ Settle(Pending, "unavailable")
        /\ UNCHANGED <<question, granted, clicks>>
    BY <1>6 DEF Stop
  <2>2. Pending \subseteq Asks /\ \A a \in Pending : outcome[a] = "pending"
    BY DEF Pending
  <2>3. QED
    BY <2>1, <2>2, QuietSettle
<1>7. CASE WatcherChanges
  <2>1. Settle({}, "unavailable") /\ UNCHANGED <<question, granted, clicks, stopped>>
    BY <1>7 DEF WatcherChanges, Settle, Inv, TypeOK
  <2>2. QED
    BY <2>1, QuietSettle
<1>8. CASE UNCHANGED vars
  <2>1. Settle({}, "unavailable") /\ UNCHANGED <<question, granted, clicks, stopped>>
    BY <1>8 DEF vars, Settle, Inv, TypeOK
  <2>2. QED
    BY <2>1, QuietSettle
<1>9. QED
  BY <1>1, <1>2, <1>3, <1>4, <1>5, <1>6, <1>7, <1>8 DEF Next

LEMMA Invariance == Spec => []Inv
  BY InvInit, InvStep, TypeCorrect, PTL DEF Spec

\* No ask the grant store covers is left waiting on a click (approvals.ts, grantForRun
\* and the covers check ahead of the claim).
THEOREM GrantsReleaseTheQueue == Spec => []GrantReleases
<1>1. Inv => GrantReleases
  BY DEF Inv
<1>2. QED
  BY Invariance, <1>1, PTL

\* Nothing is allowed without a human click that covers it (approvals.ts, answer and
\* settleApproval; run-grants.ts).
THEOREM HumanInTheLoop == Spec => []AllowedByHuman
<1>1. Inv => AllowedByHuman
  BY DEF Inv
<1>2. QED
  BY Invariance, <1>1, PTL

\* A click reported as settled decided the ask (approvals.ts, settle's once-only flag).
THEOREM ClicksDecide == Spec => []ClickIsTheOutcome
<1>1. Inv => ClickIsTheOutcome
  BY DEF Inv
<1>2. QED
  BY Invariance, <1>1, PTL

\* After stop() nothing is pending (approvals.ts, stop).
THEOREM StopIsFinal == Spec => []StopDrains
<1>1. Inv => StopDrains
  BY DEF Inv
<1>2. QED
  BY Invariance, <1>1, PTL

----------------------------------------------------------------------------
(* Refinement of HumanGate                                                 *)

LEMMA BlessedIsCovered ==
  ASSUME Inv, NEW a \in Asks
  PROVE Gate!Blessed(a) <=> Covers(a)
<1> USE DEF Gate!Blessed, Gate!RunGrantable, Gate!SameGrant, Gate!Asks, Asks,
            Covers, Grantable, Key
<1>1. ASSUME Covers(a) PROVE Gate!Blessed(a)
  BY <1>1 DEF Inv, GrantsAreClicks
<1>2. ASSUME Gate!Blessed(a) PROVE Covers(a)
  BY <1>2 DEF Inv, GrantsAreClicks
<1>3. QED
  BY <1>1, <1>2

LEMMA VerdictOf ==
  ASSUME TypeOK, NEW a \in Asks
  PROVE /\ Verdict[a] = "unraised" <=> outcome[a] = "unraised"
        /\ Verdict[a] = "waiting" <=> outcome[a] = "pending"
        /\ Verdict[a] = "passed" <=> outcome[a] = "delegated"
        /\ Verdict[a] = "allowed" <=> outcome[a] = "allowed-once"
        /\ Verdict[a] = "refused" <=> outcome[a] \in {"rejected", "cancelled", "unavailable"}
  BY DEF Verdict, VerdictFor, TypeOK, Outcomes, Settled

LEMMA VerdictSettle ==
  ASSUME NEW asks, NEW o, Settle(asks, o)
  PROVE Verdict' = [a \in Asks |-> IF a \in asks THEN VerdictFor(o) ELSE Verdict[a]]
<1>1. \A a \in Asks : outcome'[a] = IF a \in asks THEN o ELSE outcome[a]
  BY DEF Settle
<1>2. Verdict' = [a \in Asks |-> VerdictFor(outcome'[a])]
  BY DEF Verdict, VerdictFor
<1>3. \A a \in Asks : VerdictFor(outcome'[a]) = IF a \in asks THEN VerdictFor(o) ELSE Verdict[a]
  BY <1>1 DEF Verdict
<1>4. QED
  BY <1>2, <1>3

LEMMA VerdictOne ==
  ASSUME NEW a \in Asks, NEW o, Settle({a}, o)
  PROVE Verdict' = [Verdict EXCEPT ![a] = VerdictFor(o)]
<1>1. Verdict' = [b \in Asks |-> IF b \in {a} THEN VerdictFor(o) ELSE Verdict[b]]
  BY VerdictSettle
<1>2. DOMAIN Verdict = Asks
  BY DEF Verdict
<1>3. QED
  BY <1>1, <1>2 DEF Verdict

LEMMA GateInitRefined == Init => Gate!GateInit
<1> SUFFICES ASSUME Init PROVE Gate!GateInit
  OBVIOUS
<1>1. Verdict = [a \in Asks |-> "unraised"]
  BY DEF Init, Verdict, VerdictFor
<1>2. QED
  BY <1>1 DEF Init, Gate!GateInit, Gate!Asks, Asks, Gate!Question, Question

\* A click is a decision of the gate, whoever else hears of it in the same step.
LEMMA DecideRefined ==
  ASSUME Inv, NEW a \in Asks, NEW d \in Decisions, SettleApproval(a, d)
  PROVE  Gate!Decide(a, d)
<1>1. /\ Settle({a}, d) /\ outcome[a] = "pending"
      /\ d \in {"allowed-once", "rejected"}
      /\ clicks' = clicks \union {<<a, d>>} /\ UNCHANGED question
  BY DEF SettleApproval, Decisions
<1>2. Verdict' = [Verdict EXCEPT ![a] = VerdictFor(d)]
  BY <1>1, VerdictOne
<1>3. QED
  BY <1>1, <1>2, VerdictOf DEF Gate!Decide, VerdictFor, Inv

LEMMA AllowRunRefined ==
  ASSUME Inv, NEW a \in Asks, SettleForRun(a)
  PROVE  Gate!AllowRun(a)
<1>a. Gate!Asks = Asks
  BY DEF Asks, Gate!Asks
<1>t. TypeOK
  BY DEF Inv
<1>1. /\ Settle(Released(a), "allowed-once") /\ outcome[a] = "pending"
      /\ Grantable(question[a])
      /\ clicks' = clicks \union {<<a, "allowed-run">>} /\ UNCHANGED question
  BY DEF SettleForRun
<1>2. Verdict' = [b \in Asks |-> IF b \in Released(a) THEN "allowed" ELSE Verdict[b]]
  BY <1>1, VerdictSettle DEF VerdictFor
<1>3. \A b \in Asks : b \in Released(a)
        <=> Verdict[b] = "waiting" /\ Gate!RunGrantable(b) /\ Gate!SameGrant(a, b)
  BY <1>1, <1>t, VerdictOf
     DEF Released, Pending, Key, Grantable, Gate!RunGrantable, Gate!SameGrant
<1>4. Verdict' = [b \in Asks |->
                    IF Verdict[b] = "waiting" /\ Gate!RunGrantable(b) /\ Gate!SameGrant(a, b)
                    THEN "allowed" ELSE Verdict[b]]
  BY <1>2, <1>3
<1>5. QED
  BY <1>1, <1>4, <1>a, <1>t, VerdictOf DEF Gate!AllowRun, Gate!RunGrantable, Grantable

LEMMA GateStepRefined ==
  ASSUME Inv, [Next]_vars
  PROVE [Gate!GateNext]_<<question, Verdict, clicks>>
<1> USE DEF Gate!Asks, VerdictFor
<1>t. TypeOK
  BY DEF Inv
<1>a. Gate!Asks = Asks
  BY DEF Asks
<1>1. ASSUME NEW a \in Asks, AskRefused(a) \/ AskUnwatched(a)
      PROVE Gate!Pass(a)
  <2>1. /\ Settle({a}, "delegated") /\ outcome[a] = "unraised"
        /\ UNCHANGED <<question, clicks>>
    BY <1>1 DEF AskRefused, AskUnwatched, Resolve, Raised
  <2>2. Verdict' = [Verdict EXCEPT ![a] = "passed"]
    BY <2>1, VerdictOne
  <2>3. QED
    BY <2>1, <2>2, <1>t, VerdictOf DEF Gate!Pass
<1>2. ASSUME NEW a \in Asks, AskCovered(a)
      PROVE Gate!WaveThrough(a)
  <2>1. /\ Settle({a}, "allowed-once") /\ outcome[a] = "unraised" /\ Covers(a)
        /\ UNCHANGED <<question, clicks>>
    BY <1>2 DEF AskCovered, Resolve, Raised
  <2>2. Verdict' = [Verdict EXCEPT ![a] = "allowed"]
    BY <2>1, VerdictOne
  <2>3. QED
    BY <2>1, <2>2, <1>t, VerdictOf, BlessedIsCovered DEF Gate!WaveThrough
<1>3. ASSUME NEW a \in Asks, AskClaimed(a)
      PROVE Gate!Present(a)
  <2>1. /\ Settle({a}, "pending") /\ outcome[a] = "unraised" /\ ~Covers(a)
        /\ UNCHANGED <<question, clicks>>
    BY <1>3 DEF AskClaimed, Resolve, Raised
  <2>2. Verdict' = [Verdict EXCEPT ![a] = "waiting"]
    BY <2>1, VerdictOne
  <2>3. QED
    BY <2>1, <2>2, <1>t, VerdictOf, BlessedIsCovered DEF Gate!Present
<1>4. ASSUME NEW a \in Asks, NEW d \in Decisions, Answer(a, d)
      PROVE Gate!Decide(a, d)
  BY <1>4, DecideRefined DEF Answer
<1>5. ASSUME NEW a \in Asks, GrantForRun(a)
      PROVE Gate!AllowRun(a)
  BY <1>5, AllowRunRefined DEF GrantForRun
<1>6. ASSUME NEW lapsed \in SUBSET Asks, NEW o \in {"unavailable", "cancelled"},
             Settle(lapsed, o), \A a \in lapsed : outcome[a] = "pending",
             UNCHANGED <<question, clicks>>
      PROVE Gate!Lapse(lapsed)
  <2>1. Verdict' = [a \in Asks |-> IF a \in lapsed THEN "refused" ELSE Verdict[a]]
    BY <1>6, VerdictSettle
  <2>2. QED
    BY <2>1, <1>6, <1>a, <1>t, VerdictOf DEF Gate!Lapse
<1>7. ASSUME NEW a \in Asks, Expire(a) \/ Withdraw(a)
      PROVE Gate!Lapse({a})
  <2>1. PICK o \in {"unavailable", "cancelled"} : Settle({a}, o) /\ outcome[a] = "pending"
                                               /\ UNCHANGED <<question, clicks>>
    BY <1>7 DEF Expire, Withdraw
  <2>2. QED
    BY <2>1, <1>6
<1>8. CASE Stop
  <2>1. Settle(Pending, "unavailable") /\ UNCHANGED <<question, clicks>>
    BY <1>8 DEF Stop
  <2>2. Pending \subseteq Asks /\ \A a \in Pending : outcome[a] = "pending"
    BY DEF Pending
  <2>3. Gate!Lapse(Pending)
    BY <2>1, <2>2, <1>6
  <2>4. QED
    BY <2>2, <2>3, <1>a DEF Gate!GateNext
<1>9. CASE WatcherChanges \/ UNCHANGED vars
  <2>1. UNCHANGED <<question, outcome, clicks>>
    BY <1>9 DEF WatcherChanges, vars
  <2>2. Verdict' = Verdict
    BY <2>1 DEF Verdict
  <2>3. QED
    BY <2>1, <2>2
<1>10. QED
  <2>1. ASSUME NEW a \in Asks, NEW d \in Decisions,
               \/ AskRefused(a) \/ AskUnwatched(a) \/ AskCovered(a) \/ AskClaimed(a)
               \/ Answer(a, d) \/ GrantForRun(a) \/ Expire(a) \/ Withdraw(a)
        PROVE Gate!GateNext
    <3>1. a \in Gate!Asks /\ d \in Gate!Decisions /\ {a} \in SUBSET Gate!Asks
      BY <1>a DEF Decisions, Gate!Decisions
    <3>2. QED
      BY <2>1, <3>1, <1>1, <1>2, <1>3, <1>4, <1>5, <1>7 DEF Gate!GateNext
  <2>2. "rejected" \in Decisions
    BY DEF Decisions
  <2>3. QED
    BY <2>1, <2>2, <1>8, <1>9 DEF Next

\* The registry implements HumanGate: its store, its queue and its timers add nothing
\* an asker could tell from the promise (approvals.ts against HumanGate).
THEOREM RegistryImplementsHumanGate == Spec => ImplementsHumanGate
<1>1. Init => Gate!GateInit
  BY GateInitRefined
<1>2. Inv /\ [Next]_vars => [Gate!GateNext]_<<question, Verdict, clicks>>
  BY GateStepRefined
<1>3. QED
  BY <1>1, <1>2, Invariance, PTL
     DEF Spec, ImplementsHumanGate, Gate!GateSpec, Gate!gateVars

----------------------------------------------------------------------------
(* The registry with front ends on it                                      *)

\* What a front end's step is to the registry: a step of its own, a settlement by
\* which a watcher is reported as well, or nothing.
RegistryMoves ==
  \/ [Next]_vars
  \/ \E a \in Asks : SettleForRun(a) \/ \E d \in Decisions : SettleApproval(a, d)
  \/ UNCHANGED registry

LEMMA TypeMove ==
  ASSUME TypeOK, RegistryMoves, watching' \in BOOLEAN
  PROVE  TypeOK'
<1> USE DEF TypeOK, Outcomes, Settled, Settle
<1>1. ASSUME [Next]_vars PROVE TypeOK'
  BY <1>1, TypeStep
<1>2. ASSUME NEW a \in Asks, SettleForRun(a) PROVE TypeOK'
  <2>1. Key(a) \in Runs \X Tools
    BY DEF Key, Question
  <2>2. QED
    BY <1>2, <2>1 DEF SettleForRun, Decisions
<1>3. ASSUME NEW a \in Asks, NEW d \in Decisions, SettleApproval(a, d) PROVE TypeOK'
  BY <1>3 DEF SettleApproval, Decisions
<1>4. ASSUME UNCHANGED registry PROVE TypeOK'
  BY <1>4 DEF registry
<1>5. QED
  BY <1>1, <1>2, <1>3, <1>4 DEF RegistryMoves

\* Only the watcher flag tells such a step from a step of the registry, and Inv does
\* not speak of it.
LEMMA InvMove ==
  ASSUME Inv, TypeOK', RegistryMoves
  PROVE  Inv'
<1>1. ASSUME [Next]_vars PROVE Inv'
  BY <1>1, InvStep
<1>2. ASSUME NEW a \in Asks, SettleForRun(a) \/ \E d \in Decisions : SettleApproval(a, d)
      PROVE  Inv'
  BY <1>2, AnswerStep, GrantStep
<1>3. ASSUME UNCHANGED registry PROVE Inv'
  <2>1. Settle({}, "unavailable") /\ UNCHANGED <<question, granted, clicks, stopped>>
    BY <1>3 DEF registry, Settle, Inv, TypeOK
  <2>2. QED
    BY <2>1, QuietSettle
<1>4. QED
  BY <1>1, <1>2, <1>3 DEF RegistryMoves

LEMMA GateMove ==
  ASSUME Inv, RegistryMoves
  PROVE  [Gate!GateNext]_<<question, Verdict, clicks>>
<1> DEFINE Kept == [Gate!GateNext]_<<question, Verdict, clicks>>
<1>1. ASSUME [Next]_vars PROVE Kept
  BY <1>1, GateStepRefined
<1>2. ASSUME NEW a \in Asks, SettleForRun(a) \/ \E d \in Decisions : SettleApproval(a, d)
      PROVE  Kept
  <2>1. Gate!AllowRun(a) \/ \E d \in Decisions : Gate!Decide(a, d)
    BY <1>2, DecideRefined, AllowRunRefined
  <2>2. QED
    BY <2>1 DEF Gate!GateNext, Gate!Asks, Asks, Gate!Decisions, Decisions
<1>3. ASSUME UNCHANGED registry PROVE Kept
  BY <1>3 DEF registry, Verdict
<1>4. QED
  BY <1>1, <1>2, <1>3 DEF RegistryMoves

\* What has been answered stays as it is, and is not said to be clicked again.
Stand ==
  \A a \in Asks : outcome[a] \in Settled \union {"delegated"} =>
    /\ outcome'[a] = outcome[a]
    /\ \A d \in Decisions : <<a, d>> \in clicks' => <<a, d>> \in clicks

LEMMA StandMove ==
  ASSUME TypeOK, RegistryMoves
  PROVE  Stand
<1> USE DEF Stand, Settled
<1>1. ASSUME NEW asks \in SUBSET Asks, NEW o, Settle(asks, o),
             \A a \in asks : outcome[a] \in {"unraised", "pending"},
             \/ UNCHANGED clicks
             \/ \E a \in asks, d \in Decisions : clicks' = clicks \union {<<a, d>>}
      PROVE  Stand
  BY <1>1 DEF Settle
<1>2. ASSUME NEW a \in Asks, NEW o, Resolve(a, o) PROVE Stand
  BY <1>1, <1>2 DEF Resolve, Raised
<1>3. ASSUME NEW a \in Asks, NEW d \in Decisions, SettleApproval(a, d) PROVE Stand
  BY <1>1, <1>3 DEF SettleApproval
<1>4. ASSUME NEW a \in Asks, SettleForRun(a) PROVE Stand
  <2>1. Released(a) \in SUBSET Asks /\ a \in Released(a)
        /\ \A b \in Released(a) : outcome[b] = "pending"
    BY <1>4 DEF SettleForRun, Released, Pending
  <2>2. "allowed-run" \in Decisions
    BY DEF Decisions
  <2>3. QED
    BY <1>1, <1>4, <2>1, <2>2 DEF SettleForRun
<1>5. ASSUME NEW a \in Asks, Expire(a) \/ Withdraw(a) PROVE Stand
  BY <1>1, <1>5 DEF Expire, Withdraw
<1>6. CASE Stop
  BY <1>1, <1>6 DEF Stop, Pending
<1>7. ASSUME UNCHANGED <<outcome, clicks>> PROVE Stand
  BY <1>7
<1>8. CASE Next
  <2>1. ASSUME NEW a \in Asks,
               AskRefused(a) \/ AskCovered(a) \/ AskUnwatched(a) \/ AskClaimed(a)
        PROVE  Stand
    BY <1>2, <2>1 DEF AskRefused, AskCovered, AskUnwatched, AskClaimed
  <2>2. CASE WatcherChanges
    BY <1>7, <2>2 DEF WatcherChanges
  <2>3. QED
    BY <1>3, <1>4, <1>5, <1>6, <1>8, <2>1, <2>2 DEF Next, Answer, GrantForRun
<1>9. QED
  BY <1>3, <1>4, <1>7, <1>8 DEF RegistryMoves, vars, registry

\* Of everything that can end an ask the first one does, and nothing after it is told
\* otherwise (approvals.ts, settle and settleApproval).
THEOREM AskIsAnsweredOnce == Spec => AnsweredOnce
<1>1. TypeOK /\ [Next]_vars => [Stand]_<<outcome, clicks>>
  BY StandMove DEF RegistryMoves
<1>2. QED
  BY <1>1, TypeCorrect, PTL DEF Spec, AnsweredOnce, Stand

----------------------------------------------------------------------------
(* The briefs                                                              *)

\* A brief never touches the ask: whatever the explainer does, the registry
\* takes its own steps and no others, so all that is proved above of Approvals
\* holds with briefs too (the fire-and-forget callback of attachApprovalAnswerer).
THEOREM BriefsLeaveAsksAlone == BriefSpec => Spec
<1>1. BriefInit => Init
  BY DEF BriefInit
<1>2. [BriefNext]_briefVars => [Next]_vars
  <2> SUFFICES ASSUME [BriefNext]_briefVars PROVE [Next]_vars
    OBVIOUS
  <2>1. CASE BriefSettle
    BY <2>1 DEF BriefSettle, Next
  <2>2. ASSUME NEW a \in Asks, BriefRaise(a) \/ BriefWithdraw(a)
        PROVE Next
    BY <2>2 DEF BriefRaise, BriefWithdraw, Next
  <2>3. ASSUME NEW a \in Asks,
               \/ FindsNothing(a) \/ Explain(a) \/ DoWithout(a)
               \/ Explained(a) \/ NotExplained(a)
        PROVE UNCHANGED vars
    BY <2>3 DEF FindsNothing, Explain, DoWithout, Explained, NotExplained
  <2>4. CASE UNCHANGED briefVars
    BY <2>4 DEF briefVars
  <2>5. QED
    BY <2>1, <2>2, <2>3, <2>4 DEF BriefNext
<1>3. QED
  BY <1>1, <1>2, PTL DEF BriefSpec, Spec

\* Calls made since the last usable reply have failed or are still open.
Accounted ==
  /\ made <= failures + Cardinality(Open(call))
  /\ Cardinality(Open(call)) <= peak

\* The callback of an ask comes before its call, and once.
Once == \A a \in Asks :
          /\ outcome[a] = "unraised" => a \notin due /\ call[a] = NoEntry
          /\ a \in due => call[a] = NoEntry

BriefInv ==
  /\ BriefTypeOK
  /\ Once
  /\ Accounted
  /\ DeadExplainerIsCheap
  /\ TwinHasTheBrief

LEMMA FirstOfAsks ==
  ASSUME NEW asks \in SUBSET Asks
  PROVE  /\ asks = {} => FirstOf(asks) = NoEntry
         /\ asks # {} => FirstOf(asks) \in asks /\ \A a \in asks : FirstOf(asks) <= a
<1>1. ASSUME asks # {} PROVE \E a \in asks : \A b \in asks : a <= b
  <2>1. asks \subseteq Nat
    BY ApprovalsAssumption DEF ApprovalsAssumption, Asks
  <2>2. PICK a \in asks : \A b \in asks : ~(<<b, a>> \in OpToRel(<, Nat))
    BY <1>1, <2>1, WFMin, NatLessThanWellFounded
  <2>3. OpToRel(<, Nat) = {ss \in Nat \X Nat : ss[1] < ss[2]}
    BY DEF OpToRel
  <2>4. ASSUME NEW b \in asks PROVE a <= b
    <3>1. a \in Nat /\ b \in Nat /\ <<b, a>> \in Nat \X Nat
      BY <2>1, <2>2
    <3>2. ~(b < a)
      BY <2>2, <2>3, <3>1
    <3>3. QED
      BY <3>1, <3>2
  <2>5. QED
    BY <2>4
<1>2. QED
  BY <1>1 DEF FirstOf

LEMMA EntryIsFirst ==
  ASSUME BriefTypeOK, NEW a \in Asks
  PROVE  /\ Entry(a) # NoEntry => /\ Entry(a) \in Pending
                                  /\ Twins(a, Entry(a))
                                  /\ a \in Pending => Entry(a) <= a
         /\ a \in Pending => Entry(a) # NoEntry
<1> DEFINE es == {e \in Pending : Twins(a, e)}
<1>1. es \in SUBSET Asks
  BY DEF Pending
<1>2. a \in Pending => a \in es
  BY DEF Twins
<1>3. NoEntry \notin Asks
  BY DEF NoEntry, Asks
<1>4. Entry(a) = FirstOf(es)
  BY DEF Entry
<1>5. /\ es = {} => FirstOf(es) = NoEntry
      /\ es # {} => FirstOf(es) \in es /\ \A e \in es : FirstOf(es) <= e
  BY <1>1, FirstOfAsks
<1> HIDE DEF es
<1>6. es # {} => Entry(a) \in es /\ \A e \in es : Entry(a) <= e
  BY <1>4, <1>5
<1>7. es = {} => Entry(a) = NoEntry
  BY <1>4, <1>5
<1>8. Entry(a) \in es => Entry(a) \in Pending /\ Twins(a, Entry(a))
  BY DEF es
<1>9. QED
  BY <1>1, <1>2, <1>3, <1>6, <1>7, <1>8

\* How the number of open calls changes.
LEMMA CallsAreFinite ==
  ASSUME call \in [Asks -> Asks \union {NoEntry}]
  PROVE  IsFiniteSet(Open(call)) /\ Cardinality(Open(call)) \in Nat
<1>1. Open(call) \subseteq 1..MaxAsks
  BY DEF Open, Asks
<1>2. IsFiniteSet(1..MaxAsks)
  BY FS_Interval, ApprovalsAssumption DEF ApprovalsAssumption
<1>3. QED
  BY <1>1, <1>2, FS_Subset, FS_CardinalityType

LEMMA CallOpens ==
  ASSUME call \in [Asks -> Asks \union {NoEntry}],
         NEW a \in Asks, NEW e \in Asks, call[a] = NoEntry, call' = [call EXCEPT ![a] = e]
  PROVE  Cardinality(Open(call')) = Cardinality(Open(call)) + 1
<1>1. e # NoEntry
  BY DEF Asks, NoEntry
<1>2. Open(call') = Open(call) \union {a} /\ a \notin Open(call)
  BY <1>1 DEF Open
<1>3. QED
  BY <1>2, CallsAreFinite, FS_AddElement

LEMMA CallCloses ==
  ASSUME call \in [Asks -> Asks \union {NoEntry}],
         NEW a \in Asks, call[a] # NoEntry, call' = [call EXCEPT ![a] = NoEntry]
  PROVE  /\ Cardinality(Open(call')) \in Nat
         /\ Cardinality(Open(call')) = Cardinality(Open(call)) - 1
<1>1. Open(call') = Open(call) \ {a} /\ a \in Open(call)
  BY DEF Open
<1>2. /\ IsFiniteSet(Open(call) \ {a})
      /\ Cardinality(Open(call) \ {a}) = Cardinality(Open(call)) - 1
  BY <1>1, CallsAreFinite, FS_RemoveElement
<1>3. QED
  BY <1>1, <1>2, FS_CardinalityType

\* What any step of the registry does to the asks on screen.
LEMMA RegistryStep ==
  ASSUME TypeOK, [Next]_vars
  PROVE  /\ TypeOK'
         /\ UNCHANGED question
         /\ \A a \in Asks : outcome'[a] = "unraised" => outcome[a] = "unraised"
<1>1. TypeOK'
  BY TypeStep
<1> DEFINE Kept == /\ UNCHANGED question
                   /\ \A a \in Asks : outcome'[a] = "unraised" => outcome[a] = "unraised"
<1>2. ASSUME NEW asks, NEW o, Settle(asks, o), o # "unraised", UNCHANGED question PROVE Kept
  BY <1>2 DEF TypeOK, Settle
<1>3. ASSUME NEW a \in Asks,
             AskRefused(a) \/ AskCovered(a) \/ AskUnwatched(a) \/ AskClaimed(a)
      PROVE Kept
  BY <1>2, <1>3 DEF AskRefused, AskCovered, AskUnwatched, AskClaimed, Resolve
<1>4. ASSUME NEW a \in Asks, NEW d \in Decisions, Answer(a, d) PROVE Kept
  BY <1>2, <1>4 DEF Answer, SettleApproval, Decisions
<1>5. ASSUME NEW a \in Asks, GrantForRun(a) \/ Expire(a) \/ Withdraw(a) PROVE Kept
  BY <1>2, <1>5 DEF GrantForRun, SettleForRun, Expire, Withdraw
<1>6. ASSUME Stop PROVE Kept
  BY <1>2, <1>6 DEF Stop
<1>7. ASSUME WatcherChanges \/ UNCHANGED vars PROVE Kept
  BY <1>7 DEF WatcherChanges, vars
<1>8. QED
  BY <1>1, <1>3, <1>4, <1>5, <1>6, <1>7 DEF Next

LEMMA BriefRaiseStep ==
  ASSUME BriefInv, NEW a \in Asks, BriefRaise(a)
  PROVE  BriefInv'
<1>1. [Next]_vars
  BY DEF BriefRaise, Next
<1>2. /\ outcome[a] = "unraised"
      /\ \E o \in {"delegated", "allowed-once", "pending"} :
           outcome' = [b \in Asks |-> IF b = a THEN o ELSE outcome[b]]
      /\ UNCHANGED question
  BY DEF BriefRaise, AskRefused, AskCovered, AskUnwatched, AskClaimed, Resolve, Raised, Settle
<1>3. BriefTypeOK'
  BY <1>1, RegistryStep DEF BriefInv, BriefTypeOK, BriefRaise, calls
<1>4. Once'
  BY <1>2 DEF BriefInv, Once, BriefRaise, calls
<1>5. TwinHasTheBrief'
  BY <1>2 DEF BriefInv, TwinHasTheBrief, BriefRaise, calls, Pending, Twins
<1>6. Accounted' /\ DeadExplainerIsCheap'
  BY DEF BriefInv, Accounted, DeadExplainerIsCheap, BriefRaise, calls, Open
<1>7. QED
  BY <1>3, <1>4, <1>5, <1>6 DEF BriefInv

\* Clicks, timers, signals and front ends take asks off the screen and bring
\* none onto it.
LEMMA BriefSettleStep ==
  ASSUME BriefInv, BriefSettle \/ \E a \in Asks : BriefWithdraw(a)
  PROVE  BriefInv'
<1>1. [Next]_vars /\ UNCHANGED <<due, brief, calls>>
  BY DEF BriefSettle, BriefWithdraw, Next
<1>2. \A a \in Asks : outcome'[a] = "pending" => outcome[a] = "pending"
  BY DEF BriefInv, BriefTypeOK, TypeOK, BriefSettle, BriefWithdraw, Answer, SettleApproval,
         GrantForRun, SettleForRun, Expire, Withdraw, WatcherChanges, Settle, Released, Pending,
         Decisions
<1>3. /\ TypeOK' /\ UNCHANGED question
      /\ \A a \in Asks : outcome'[a] = "unraised" => outcome[a] = "unraised"
  BY <1>1, RegistryStep DEF BriefInv, BriefTypeOK
<1>4. BriefTypeOK'
  BY <1>1, <1>3 DEF BriefInv, BriefTypeOK, calls
<1>5. Once'
  BY <1>1, <1>3 DEF BriefInv, Once, calls
<1>6. TwinHasTheBrief'
  BY <1>1, <1>2, <1>3 DEF BriefInv, TwinHasTheBrief, Pending, Twins
<1>7. Accounted' /\ DeadExplainerIsCheap'
  BY <1>1 DEF BriefInv, Accounted, DeadExplainerIsCheap, calls, Open
<1>8. QED
  BY <1>4, <1>5, <1>6, <1>7 DEF BriefInv

\* The callback of an ask marks the first entry like it, which is an earlier
\* one's or its own.
LEMMA MarkedTwin ==
  ASSUME BriefInv, NEW a \in due, UNCHANGED <<question, outcome>>, due' = due \ {a},
         \/ Entry(a) = NoEntry /\ UNCHANGED brief
         \/ /\ Entry(a) # NoEntry
            /\ brief' \in [Asks -> BriefStates]
            /\ brief'[Entry(a)] # "none"
            /\ \A b \in Asks \ {Entry(a)} : brief'[b] = brief[b]
  PROVE  TwinHasTheBrief'
<1>1. a \in Asks /\ Pending' = Pending
  BY DEF BriefInv, BriefTypeOK, Pending
<1>2. SUFFICES ASSUME NEW c \in Pending \ due', brief'[c] = "none"
               PROVE \E b \in Asks : b < c /\ Twins(c, b) /\ brief'[b] # "none"
  BY <1>1 DEF TwinHasTheBrief, Twins
<1>3. c \in Asks
  BY DEF Pending
<1>4. ASSUME NEW b \in Asks, brief[b] # "none" PROVE brief'[b] # "none"
  BY <1>4
<1>5. brief[c] = "none"
  BY <1>2, <1>3, <1>4
<1>6. CASE c # a
  <2>1. PICK b \in Asks : b < c /\ Twins(c, b) /\ brief[b] # "none"
    BY <1>5, <1>6 DEF BriefInv, TwinHasTheBrief
  <2>2. QED
    BY <2>1, <1>4
<1>7. CASE c = a
  <2>1. /\ Entry(a) # NoEntry /\ Entry(a) \in Pending
        /\ Twins(a, Entry(a)) /\ Entry(a) <= a
    BY <1>1, <1>7, EntryIsFirst DEF BriefInv
  <2>2. brief'[Entry(a)] # "none"
    BY <2>1
  <2>3. Entry(a) # a /\ Entry(a) \in Asks
    BY <1>2, <1>7, <2>1, <2>2 DEF Pending
  <2>4. Entry(a) < a
    BY <1>1, <2>1, <2>3 DEF Asks
  <2>5. QED
    BY <1>7, <2>1, <2>2, <2>3, <2>4
<1>8. QED
  BY <1>6, <1>7

LEMMA FindsNothingStep ==
  ASSUME BriefInv, NEW a \in Asks, FindsNothing(a)
  PROVE  BriefInv'
<1>1. BriefTypeOK' /\ Once'
  BY DEF BriefInv, BriefTypeOK, TypeOK, Once, FindsNothing, vars, calls
<1>2. TwinHasTheBrief'
  BY MarkedTwin DEF FindsNothing, vars
<1>3. Accounted' /\ DeadExplainerIsCheap'
  BY DEF BriefInv, Accounted, DeadExplainerIsCheap, FindsNothing, calls, Open
<1>4. QED
  BY <1>1, <1>2, <1>3 DEF BriefInv

LEMMA DoWithoutStep ==
  ASSUME BriefInv, NEW a \in Asks, DoWithout(a)
  PROVE  BriefInv'
<1>1. Entry(a) \in Asks
  BY EntryIsFirst DEF BriefInv, DoWithout, Pending
<1>2. BriefTypeOK'
  BY <1>1 DEF BriefInv, BriefTypeOK, TypeOK, BriefStates, DoWithout, vars, calls
<1>3. Once'
  BY DEF BriefInv, Once, DoWithout, vars, calls
<1>4. brief'[Entry(a)] # "none" /\ \A b \in Asks \ {Entry(a)} : brief'[b] = brief[b]
  BY <1>1 DEF BriefInv, BriefTypeOK, BriefStates, DoWithout
<1>5. TwinHasTheBrief'
  BY <1>2, <1>4, MarkedTwin DEF DoWithout, vars, BriefTypeOK
<1>6. Accounted' /\ DeadExplainerIsCheap'
  BY DEF BriefInv, Accounted, DeadExplainerIsCheap, DoWithout, calls, Open
<1>7. QED
  BY <1>2, <1>3, <1>5, <1>6 DEF BriefInv

LEMMA ExplainStep ==
  ASSUME BriefInv, NEW a \in Asks, Explain(a)
  PROVE  BriefInv'
<1>1. Entry(a) \in Asks /\ Entry(a) # NoEntry /\ call[a] = NoEntry
  BY EntryIsFirst DEF BriefInv, Once, Explain, Pending
<1>2. call \in [Asks -> Asks \union {NoEntry}] /\ call' = [call EXCEPT ![a] = Entry(a)]
  BY DEF BriefInv, BriefTypeOK, Explain
<1> DEFINE opened == Cardinality(Open(call))
           opened2 == Cardinality(Open(call'))
<1>3. opened \in Nat /\ opened2 = opened + 1
  BY <1>1, <1>2, CallsAreFinite, CallOpens
<1>4. /\ made' = made + 1 /\ failures' = failures
      /\ peak' = IF opened2 > peak THEN opened2 ELSE peak
      /\ failures < GiveUpAfter
      /\ made \in Nat /\ failures \in Nat /\ peak \in Nat /\ GiveUpAfter \in Nat
  BY BriefsAssumption DEF BriefsAssumption, BriefInv, BriefTypeOK, Explain, GivenUp
<1>5. made <= failures + opened /\ opened <= peak
  BY DEF BriefInv, Accounted
<1>6. BriefTypeOK'
  BY <1>1, <1>2, <1>3, <1>4
     DEF BriefInv, BriefTypeOK, TypeOK, BriefStates, Explain, vars
<1>7. Once'
  <2>1. outcome[a] # "unraised"
    BY DEF BriefInv, Once, Explain
  <2>2. QED
    BY <1>1, <1>2, <2>1 DEF BriefInv, Once, Explain, vars
<1>8. brief'[Entry(a)] # "none" /\ \A b \in Asks \ {Entry(a)} : brief'[b] = brief[b]
  BY <1>1 DEF BriefInv, BriefTypeOK, BriefStates, Explain
<1>9. TwinHasTheBrief'
  BY <1>6, <1>8, MarkedTwin DEF Explain, vars, BriefTypeOK
<1> HIDE DEF opened, opened2
<1>10. made' <= failures' + opened2 /\ opened2 <= peak' /\ made' < GiveUpAfter + peak'
  BY <1>3, <1>4, <1>5
<1>11. Accounted' /\ DeadExplainerIsCheap'
  BY <1>10 DEF Accounted, DeadExplainerIsCheap, opened2
<1>12. QED
  BY <1>6, <1>7, <1>9, <1>11 DEF BriefInv

\* A reply: what it records is no more than a pending brief's fate.
LEMMA ReplyStep ==
  ASSUME BriefInv, NEW a \in Asks, Explained(a) \/ NotExplained(a)
  PROVE  BriefInv'
<1>1. /\ call[a] # NoEntry
      /\ call \in [Asks -> Asks \union {NoEntry}] /\ call' = [call EXCEPT ![a] = NoEntry]
      /\ UNCHANGED <<vars, due>>
  BY DEF BriefInv, BriefTypeOK, Explained, NotExplained
<1>2. \E b \in {"ready", "failed"} : Record(call[a], b)
  BY DEF Explained, NotExplained
<1>3. /\ brief' \in [Asks -> BriefStates]
      /\ \A c \in Asks : brief'[c] = "none" <=> brief[c] = "none"
  BY <1>1, <1>2 DEF BriefInv, BriefTypeOK, BriefStates, Record
<1> DEFINE opened == Cardinality(Open(call))
           opened2 == Cardinality(Open(call'))
<1>4. opened \in Nat /\ opened2 \in Nat /\ opened2 = opened - 1
  BY <1>1, CallsAreFinite, CallCloses
<1>5. made \in Nat /\ failures \in Nat /\ peak \in Nat /\ GiveUpAfter \in Nat \ {0}
  BY BriefsAssumption DEF BriefsAssumption, BriefInv, BriefTypeOK
<1>6. made <= failures + opened /\ opened <= peak /\ made < GiveUpAfter + peak
  BY DEF BriefInv, Accounted, DeadExplainerIsCheap
<1>7. \/ failures' = 0 /\ made' = opened2 /\ peak' = opened2
      \/ failures' = failures + 1 /\ made' = made /\ peak' = peak
  BY DEF Explained, NotExplained
<1>8. BriefTypeOK'
  <2>1. TypeOK' /\ due' \subseteq Asks
    BY <1>1 DEF BriefInv, BriefTypeOK, TypeOK, vars
  <2>2. call' \in [Asks -> Asks \union {NoEntry}]
    BY <1>1
  <2>3. failures' \in Nat /\ made' \in Nat /\ peak' \in Nat
    BY <1>4, <1>5, <1>7
  <2>4. QED
    BY <1>3, <2>1, <2>2, <2>3 DEF BriefTypeOK
<1>9. Once'
  BY <1>1 DEF BriefInv, Once, vars
<1>10. TwinHasTheBrief'
  BY <1>1, <1>3 DEF BriefInv, TwinHasTheBrief, Pending, Twins, vars
<1> HIDE DEF opened, opened2
<1>11. made' <= failures' + opened2 /\ opened2 <= peak' /\ made' < GiveUpAfter + peak'
  BY <1>4, <1>5, <1>6, <1>7
<1>12. Accounted' /\ DeadExplainerIsCheap'
  BY <1>11 DEF Accounted, DeadExplainerIsCheap, opened2
<1>13. QED
  BY <1>8, <1>9, <1>10, <1>12 DEF BriefInv

LEMMA BriefInvariance == BriefSpec => []BriefInv
<1>1. BriefInit => BriefInv
  <2> SUFFICES ASSUME BriefInit PROVE BriefInv
    OBVIOUS
  <2>1. TypeOK
    BY TypeInit DEF BriefInit
  <2>2. BriefTypeOK
    BY <2>1 DEF BriefInit, BriefTypeOK, BriefStates
  <2>3. Once /\ TwinHasTheBrief
    BY DEF BriefInit, Init, Once, TwinHasTheBrief, Pending
  <2>4. Cardinality(Open(call)) = 0
    BY FS_EmptySet DEF BriefInit, Open
  <2>5. Accounted /\ DeadExplainerIsCheap
    BY <2>4, BriefsAssumption DEF BriefsAssumption, BriefInit, Accounted, DeadExplainerIsCheap
  <2>6. QED
    BY <2>2, <2>3, <2>5 DEF BriefInv
<1>2. BriefInv /\ [BriefNext]_briefVars => BriefInv'
  <2> SUFFICES ASSUME BriefInv, [BriefNext]_briefVars PROVE BriefInv'
    OBVIOUS
  <2>1. CASE UNCHANGED briefVars
    BY <2>1 DEF BriefInv, BriefTypeOK, TypeOK, Once, Accounted, DeadExplainerIsCheap,
                TwinHasTheBrief, Twins, Pending, Open, briefVars, vars, calls
  <2>2. CASE BriefNext
    BY <2>2, BriefSettleStep, BriefRaiseStep, FindsNothingStep, ExplainStep, DoWithoutStep,
       ReplyStep DEF BriefNext
  <2>3. QED
    BY <2>1, <2>2
<1>3. QED
  BY <1>1, <1>2, PTL DEF BriefSpec

\* The briefs' variables keep their types.
THEOREM BriefTypeCorrect == BriefSpec => []BriefTypeOK
BY BriefInvariance, PTL DEF BriefInv

\* Of two identical asks at most the later one is without a brief (pendingIdFor).
THEOREM TwinsShareABrief == BriefSpec => []TwinHasTheBrief
BY BriefInvariance, PTL DEF BriefInv

\* The price of an explainer that never answers, for any number of asks and any
\* bound on failures (createChatExplainer).
THEOREM GivingUpIsCheap == BriefSpec => []DeadExplainerIsCheap
BY BriefInvariance, PTL DEF BriefInv
----------------------------------------------------------------------------
(* The in-UI page                                                          *)

\* What the page shows and what it has under way.
ViewOK ==
  /\ open \in BOOLEAN
  /\ load \in [Loads -> Read]
  /\ shown \subseteq Asks
  /\ answering \in [Slots -> AnswerCall \union {NoAnswer}]
  /\ draft \in Notes \union {NoNote}
  /\ bubbles \in Seq(Notes)

EmitterOK ==
  /\ scheduled \in BOOLEAN /\ cooling \in BOOLEAN /\ untold \in BOOLEAN
  /\ events \in 0..MaxEvents

LEMMA LimitsArePositive ==
  /\ ThreadLimit \in Nat /\ ThreadLimit > 0
  /\ MaxEvents \in Nat /\ MaxEvents > 0
BY PageAssumption

\* Whatever reports a change leaves the emitter well formed.
LEMMA NotifyKeepsType ==
  ASSUME EmitterOK, NEW many \in BOOLEAN, Notify(many)
  PROVE  EmitterOK'
BY LimitsArePositive DEF EmitterOK, Notify, Sent

\* An answer under way keeps its type when it loses its card.
LEMMA LeftKeepsType ==
  ASSUME NEW answer \in AnswerCall \union {NoAnswer}, NEW asks, NEW thread
  PROVE  Left(answer, asks, thread) \in AnswerCall \union {NoAnswer}
BY DEF Left, AnswerCall, NoAnswer

LEMMA ShowsKeepsType ==
  ASSUME NEW asks \in SUBSET Asks, NEW thread \in Seq(Notes),
         NEW posts \in [Slots -> AnswerCall \union {NoAnswer}],
         Shows(asks, thread, posts)
  PROVE  /\ shown' \subseteq Asks
         /\ bubbles' \in Seq(Notes)
         /\ answering' \in [Slots -> AnswerCall \union {NoAnswer}]
BY LeftKeepsType DEF Shows

LEMMA WithKeepsType ==
  ASSUME NEW thread \in Seq(Notes), NEW note \in Notes
  PROVE  With(thread, note) \in Seq(Notes)
<1>1. CASE Len(thread) < ThreadLimit
  BY <1>1 DEF With
<1>2. CASE ~(Len(thread) < ThreadLimit)
  <2>1. thread # <<>>
    BY <1>2, LimitsArePositive
  <2>2. Tail(thread) \in Seq(Notes)
    BY <2>1
  <2>3. QED
    BY <1>2, <2>2 DEF With
<1>3. QED
  BY <1>1, <1>2

\* The steps that read or answer keep the page's own type.
LEMMA ReadingKeepsType ==
  ASSUME ViewOK, TypeOK, NEW l \in Loads,
         \/ OpenPage(l) \/ Poll(l) \/ EventArrives(l)
         \/ HostReads(l) \/ ReplyArrives(l) \/ ReadFails(l)
  PROVE  ViewOK'
<1> USE DEF ViewOK, Read, Idle
<1>1. CASE OpenPage(l)
  BY <1>1 DEF OpenPage, Asking, composer
<1>2. CASE Poll(l)
  BY <1>2 DEF Poll, Asking, composer
<1>3. CASE EventArrives(l)
  BY <1>3 DEF EventArrives, Asking, composer
<1>4. CASE HostReads(l)
  BY <1>4 DEF HostReads, composer, Pending
<1>5. CASE ReplyArrives(l)
  <2>1. load[l].asks \in SUBSET Asks
    OBVIOUS
  <2>2. QED
    BY <1>5, <2>1, ShowsKeepsType DEF ReplyArrives
<1>6. CASE ReadFails(l)
  BY <1>6 DEF ReadFails, composer
<1>7. QED
  BY <1>1, <1>2, <1>3, <1>4, <1>5, <1>6

LEMMA AnsweringKeepsType ==
  ASSUME ViewOK, NEW c \in Slots,
         \/ \E a \in Asks, d \in Decisions : Click(a, d, c)
         \/ HostAnswers(c) \/ AnswerReturns(c) \/ AnswerLost(c)
  PROVE  ViewOK'
<1> USE DEF ViewOK
<1>1. ASSUME NEW a \in Asks, NEW d \in Decisions, Click(a, d, c) PROVE ViewOK'
  BY <1>1 DEF Click, AnswerCall, composer
<1>2. CASE HostAnswers(c)
  <2>1. answering[c] \in AnswerCall
    BY <1>2 DEF HostAnswers, NoAnswer
  <2>2. ASSUME NEW step \in {"settled", "late"}, Moves(c, step)
        PROVE  answering' \in [Slots -> AnswerCall \union {NoAnswer}]
    <3>1. [answering[c] EXCEPT !.step = step] \in AnswerCall
      BY <2>1 DEF AnswerCall
    <3>2. QED
      BY <2>2, <3>1 DEF Moves
  <2>3. answering' \in [Slots -> AnswerCall \union {NoAnswer}]
    BY <1>2, <2>2 DEF HostAnswers
  <2>4. UNCHANGED <<open, load, shown, draft, bubbles>>
    BY <1>2 DEF HostAnswers, composer
  <2>5. QED
    BY <2>3, <2>4
<1>3. CASE AnswerReturns(c)
  <2> DEFINE note == answering[c].note
             posts == [answering EXCEPT ![c] = NoAnswer]
             thread == IF Said(note) THEN bubbles ELSE With(bubbles, note)
  <2>1. answering[c] \in AnswerCall
    BY <1>3 DEF AnswerReturns, NoAnswer
  <2>2. ~Said(note) => note \in Notes
    BY <2>1 DEF Said, AnswerCall
  <2>3. thread \in Seq(Notes)
    BY <2>2, WithKeepsType
  <2>4. posts \in [Slots -> AnswerCall \union {NoAnswer}]
    OBVIOUS
  <2>5. Shows(shown, thread, posts)
    BY <1>3 DEF AnswerReturns
  <2> HIDE DEF note, posts, thread
  <2>6. QED
    BY <1>3, <2>3, <2>4, <2>5, ShowsKeepsType DEF AnswerReturns
<1>4. CASE AnswerLost(c)
  BY <1>4 DEF AnswerLost, composer
<1>5. QED
  BY <1>1, <1>2, <1>3, <1>4

\* What the registry and the emitter do between the page's steps is none of its
\* business.
LEMMA HostKeepsView ==
  ASSUME \/ TimerFires \/ IntervalEnds \/ EventLost
         \/ WatcherComesOrGoes \/ OtherChange
         \/ \E a \in Asks : AskRaised(a) \/ AskLapses(a) \/ AnsweredElsewhere(a)
  PROVE  UNCHANGED view
BY DEF TimerFires, IntervalEnds, EventLost, WatcherComesOrGoes, OtherChange,
       AskRaised, AskLapses, AnsweredElsewhere

LEMMA ViewStep == ViewOK /\ TypeOK /\ [PageNext]_pageVars => ViewOK'
<1> SUFFICES ASSUME ViewOK, TypeOK, [PageNext]_pageVars PROVE ViewOK'
  OBVIOUS
<1>1. ASSUME UNCHANGED view PROVE ViewOK'
  BY <1>1 DEF ViewOK, view, composer
<1>2. CASE ClosePage
  <2>1. answering' \in [Slots -> AnswerCall \union {NoAnswer}]
    BY <1>2 DEF ClosePage, ViewOK, UnderWay, AnswerCall, NoAnswer
  <2>2. load' \in [Loads -> Read]
    BY <1>2 DEF ClosePage, Read, Idle
  <2>3. <<>> \in Seq(Notes)
    OBVIOUS
  <2>4. QED
    BY <1>2, <2>1, <2>2, <2>3 DEF ClosePage, ViewOK
<1>3. CASE Post
  <2>1. With(bubbles, draft) \in Seq(Notes)
    BY <1>3, WithKeepsType DEF Post, ViewOK
  <2>2. QED
    BY <1>3, <2>1, ShowsKeepsType DEF Post, ViewOK
<1>4. ASSUME NEW n \in Notes \union {NoNote}, Type(n) PROVE ViewOK'
  BY <1>4 DEF Type, ViewOK
<1>5. QED
  BY <1>1, <1>2, <1>3, <1>4, HostKeepsView, ReadingKeepsType, AnsweringKeepsType
     DEF PageNext, pageVars

LEMMA EmitterStep == EmitterOK /\ [PageNext]_pageVars => EmitterOK'
<1> SUFFICES ASSUME EmitterOK, [PageNext]_pageVars PROVE EmitterOK'
  OBVIOUS
<1>1. ASSUME UNCHANGED emitter PROVE EmitterOK'
  BY <1>1 DEF EmitterOK, emitter
<1>2. CASE TimerFires \/ IntervalEnds \/ EventLost
  <2>1. events' \in 0..MaxEvents
    BY <1>2, LimitsArePositive DEF TimerFires, IntervalEnds, EventLost, Sent, EmitterOK
  <2>2. scheduled' \in BOOLEAN /\ cooling' \in BOOLEAN /\ untold' \in BOOLEAN
    BY <1>2, Zenon DEF TimerFires, IntervalEnds, EventLost, EmitterOK
  <2>3. QED
    BY <2>1, <2>2 DEF EmitterOK
<1>3. CASE WatcherComesOrGoes \/ ClosePage \/ Post
  BY <1>1, <1>3 DEF WatcherComesOrGoes, ClosePage, Post
<1>4. CASE OtherChange
  BY <1>4, NotifyKeepsType DEF OtherChange
<1>5. ASSUME NEW a \in Asks, AskRaised(a) \/ AskLapses(a) \/ AnsweredElsewhere(a)
      PROVE  EmitterOK'
  <2>1. (Released(a) # {a}) \in BOOLEAN
    OBVIOUS
  <2>2. QED
    BY <1>1, <1>5, <2>1, NotifyKeepsType DEF AskRaised, AskLapses, AnsweredElsewhere
<1>6. ASSUME NEW c \in Slots, HostAnswers(c) PROVE EmitterOK'
  <2>1. (Released(answering[c].ask) # {answering[c].ask}) \in BOOLEAN
    OBVIOUS
  <2>2. QED
    BY <1>1, <1>6, <2>1, NotifyKeepsType DEF HostAnswers
<1>7. ASSUME NEW c \in Slots, \/ \E a \in Asks, d \in Decisions : Click(a, d, c)
                              \/ AnswerReturns(c) \/ AnswerLost(c)
      PROVE  EmitterOK'
  BY <1>1, <1>7 DEF Click, AnswerReturns, AnswerLost
<1>8. ASSUME NEW l \in Loads, EventArrives(l) PROVE EmitterOK'
  BY <1>8, LimitsArePositive DEF EventArrives, EmitterOK
<1>9. ASSUME NEW l \in Loads, \/ OpenPage(l) \/ Poll(l)
                              \/ HostReads(l) \/ ReplyArrives(l) \/ ReadFails(l)
      PROVE  EmitterOK'
  BY <1>1, <1>9 DEF OpenPage, Poll, HostReads, ReplyArrives, ReadFails
<1>10. ASSUME NEW n \in Notes \union {NoNote}, Type(n) PROVE EmitterOK'
  BY <1>1, <1>10 DEF Type
<1>11. CASE UNCHANGED pageVars
  BY <1>1, <1>11 DEF pageVars
<1>12. QED
  BY <1>2, <1>3, <1>4, <1>5, <1>6, <1>7, <1>8, <1>9, <1>10, <1>11 DEF PageNext

LEMMA PageMoves ==
  ASSUME ViewOK, [PageNext]_pageVars
  PROVE  RegistryMoves
<1> USE DEF RegistryMoves
<1>1. ASSUME NEW a \in Asks, AskRaised(a) \/ AskLapses(a) \/ AnsweredElsewhere(a)
      PROVE  RegistryMoves
  BY <1>1 DEF AskRaised, AskLapses, AnsweredElsewhere, Next
<1>2. CASE WatcherComesOrGoes
  BY <1>2 DEF WatcherComesOrGoes, Next
<1>3. ASSUME NEW c \in Slots, HostAnswers(c) PROVE RegistryMoves
  <2>1. answering[c].ask \in Asks /\ answering[c].decision \in Decisions
    BY <1>3 DEF HostAnswers, ViewOK, AnswerCall, NoAnswer
  <2>2. QED
    BY <1>3, <2>1 DEF HostAnswers
<1>4. ASSUME NEW l \in Loads, \/ OpenPage(l) \/ Poll(l) \/ EventArrives(l)
                              \/ HostReads(l) \/ ReplyArrives(l) \/ ReadFails(l)
      PROVE  RegistryMoves
  BY <1>4 DEF OpenPage, Poll, EventArrives, HostReads, ReplyArrives, ReadFails
<1>5. CASE TimerFires \/ IntervalEnds \/ EventLost \/ OtherChange \/ ClosePage \/ Post
  BY <1>5 DEF TimerFires, IntervalEnds, EventLost, OtherChange, ClosePage, Post
<1>6. ASSUME NEW c \in Slots, \/ \E a \in Asks, d \in Decisions : Click(a, d, c)
                              \/ AnswerReturns(c) \/ AnswerLost(c)
      PROVE  RegistryMoves
  BY <1>6 DEF Click, AnswerReturns, AnswerLost
<1>7. ASSUME NEW n \in Notes \union {NoNote}, Type(n) PROVE RegistryMoves
  BY <1>7 DEF Type
<1>8. CASE UNCHANGED pageVars
  BY <1>8 DEF pageVars
<1>9. QED
  BY <1>1, <1>2, <1>3, <1>4, <1>5, <1>6, <1>7, <1>8 DEF PageNext

LEMMA WatchingUnderPage ==
  ASSUME TypeOK, ViewOK, [PageNext]_pageVars
  PROVE  watching' \in BOOLEAN
<1> USE DEF TypeOK
<1>1. ASSUME UNCHANGED watching \/ watching' = ~watching \/ watching' = TRUE
      PROVE  watching' \in BOOLEAN
  BY <1>1, Zenon
<1>2. ASSUME NEW a \in Asks, AskRaised(a) \/ AskLapses(a) \/ AnsweredElsewhere(a)
      PROVE  UNCHANGED watching
  BY <1>2 DEF AskRaised, AskLapses, AnsweredElsewhere, AskRefused, AskCovered, AskUnwatched,
              AskClaimed, Resolve, Answer, GrantForRun, Expire, Withdraw
<1>3. ASSUME NEW c \in Slots, HostAnswers(c) PROVE watching' = TRUE
  BY <1>3 DEF HostAnswers
<1>4. ASSUME NEW l \in Loads, \/ OpenPage(l) \/ Poll(l) \/ EventArrives(l)
                              \/ HostReads(l) \/ ReplyArrives(l) \/ ReadFails(l)
      PROVE  UNCHANGED watching \/ watching' = TRUE
  BY <1>4 DEF OpenPage, Poll, EventArrives, HostReads, ReplyArrives, ReadFails, vars
<1>5. CASE \/ WatcherComesOrGoes \/ UNCHANGED pageVars
           \/ TimerFires \/ IntervalEnds \/ EventLost \/ OtherChange \/ ClosePage \/ Post
           \/ \E n \in Notes \union {NoNote} : Type(n)
           \/ \E c \in Slots : \/ \E a \in Asks, d \in Decisions : Click(a, d, c)
                               \/ AnswerReturns(c) \/ AnswerLost(c)
  <2>1. UNCHANGED watching \/ watching' = ~watching
    BY <1>5 DEF WatcherComesOrGoes, WatcherChanges, TimerFires, IntervalEnds, EventLost,
                OtherChange, ClosePage, Post, Type, Click, AnswerReturns, AnswerLost, vars,
                pageVars
  <2>2. QED
    BY <1>1, <2>1
<1>6. QED
  BY <1>1, <1>2, <1>3, <1>4, <1>5 DEF PageNext

\* The registry's part: an answer from the page settles as any click does, and a
\* read or an answer reports a watcher.
LEMMA RegistryUnderPage == TypeOK /\ ViewOK /\ [PageNext]_pageVars => TypeOK'
BY PageMoves, WatchingUnderPage, TypeMove

LEMMA PageStarts == PageInit => TypeOK /\ ViewOK /\ EmitterOK
<1> SUFFICES ASSUME PageInit PROVE TypeOK /\ ViewOK /\ EmitterOK
  OBVIOUS
<1>1. TypeOK
  BY TypeInit DEF PageInit
<1>2. <<>> \in Seq(Notes)
  OBVIOUS
<1>3. load \in [Loads -> Read]
  BY DEF PageInit, Read, Idle
<1>4. ViewOK
  BY <1>2, <1>3 DEF PageInit, ViewOK
<1>5. EmitterOK
  <2>1. events \in 0..MaxEvents
    BY LimitsArePositive DEF PageInit
  <2>2. scheduled \in BOOLEAN /\ cooling \in BOOLEAN /\ untold \in BOOLEAN
    BY Zenon DEF PageInit
  <2>3. QED
    BY <2>1, <2>2 DEF EmitterOK
<1>6. QED
  BY <1>1, <1>4, <1>5

\* Every variable of the page, its emitter and the registry under it keeps its
\* type (PageTypeOK): an answer that comes back names an ask and a decision.
THEOREM PageTypeCorrect == PageSpec => []PageTypeOK
<1>1. PageInit => TypeOK /\ ViewOK /\ EmitterOK
  BY PageStarts
<1>2. TypeOK /\ ViewOK /\ EmitterOK /\ [PageNext]_pageVars => (TypeOK /\ ViewOK /\ EmitterOK)'
  BY RegistryUnderPage, ViewStep, EmitterStep
<1>3. TypeOK /\ ViewOK /\ EmitterOK => PageTypeOK
  BY DEF ViewOK, EmitterOK, PageTypeOK
<1>4. QED
  BY <1>1, <1>2, <1>3, PTL DEF PageSpec

\* A change that comes while an event is too recent is told by the trailing timer:
\* none is left for a later change to tell (createChangeEmitter).
THEOREM LastChangeIsTold == PageSpec => []FinalChangeIsTold
<1> USE DEF FinalChangeIsTold
<1>1. PageInit => FinalChangeIsTold
  BY DEF PageInit
<1>2. FinalChangeIsTold /\ [PageNext]_pageVars => FinalChangeIsTold'
  <2> SUFFICES ASSUME FinalChangeIsTold, [PageNext]_pageVars PROVE FinalChangeIsTold'
    OBVIOUS
  <2>1. ASSUME UNCHANGED <<scheduled, untold>> PROVE FinalChangeIsTold'
    BY <2>1
  <2>2. ASSUME NEW many, Notify(many) PROVE FinalChangeIsTold'
    BY <2>2 DEF Notify
  <2>3. CASE TimerFires \/ IntervalEnds \/ EventLost
    BY <2>3 DEF TimerFires, IntervalEnds, EventLost
  <2>4. CASE WatcherComesOrGoes \/ ClosePage \/ Post \/ OtherChange
    BY <2>1, <2>2, <2>4 DEF WatcherComesOrGoes, ClosePage, Post, OtherChange, emitter
  <2>5. ASSUME NEW a \in Asks, AskRaised(a) \/ AskLapses(a) \/ AnsweredElsewhere(a)
        PROVE  FinalChangeIsTold'
    BY <2>1, <2>2, <2>5 DEF AskRaised, AskLapses, AnsweredElsewhere, emitter
  <2>6. ASSUME NEW c \in Slots, \/ \E a \in Asks, d \in Decisions : Click(a, d, c)
                                \/ HostAnswers(c) \/ AnswerReturns(c) \/ AnswerLost(c)
        PROVE  FinalChangeIsTold'
    BY <2>1, <2>2, <2>6 DEF Click, HostAnswers, AnswerReturns, AnswerLost, emitter
  <2>7. ASSUME NEW l \in Loads, \/ OpenPage(l) \/ Poll(l) \/ EventArrives(l)
                                \/ HostReads(l) \/ ReplyArrives(l) \/ ReadFails(l)
        PROVE  FinalChangeIsTold'
    BY <2>1, <2>7 DEF OpenPage, Poll, EventArrives, HostReads, ReplyArrives, ReadFails, emitter
  <2>8. ASSUME NEW n \in Notes \union {NoNote}, Type(n) PROVE FinalChangeIsTold'
    BY <2>1, <2>8 DEF Type, emitter
  <2>9. CASE UNCHANGED pageVars
    BY <2>1, <2>9 DEF pageVars, emitter
  <2>10. QED
    BY <2>3, <2>4, <2>5, <2>6, <2>7, <2>8, <2>9 DEF PageNext
<1>3. QED
  BY <1>1, <1>2, PTL DEF PageSpec

LEMMA InvUnderPage == Inv /\ ViewOK /\ TypeOK' /\ [PageNext]_pageVars => Inv'
BY PageMoves, InvMove

LEMMA PageInvariance == PageSpec => []Inv
<1>1. PageInit => Inv /\ TypeOK /\ ViewOK /\ EmitterOK
  BY InvInit, PageStarts DEF PageInit
<1>2. Inv /\ TypeOK /\ ViewOK /\ EmitterOK /\ [PageNext]_pageVars
      => (Inv /\ TypeOK /\ ViewOK /\ EmitterOK)'
  BY InvUnderPage, RegistryUnderPage, ViewStep, EmitterStep
<1>3. QED
  BY <1>1, <1>2, PTL DEF PageSpec

\* An answer whose reply is lost, an answer sent again and an answer that comes too
\* late change nothing about it: what a click was reported to have settled is what
\* the asker got (remote.ts answer over approvals.ts settleApproval).
THEOREM ClicksDecideFromThePage == PageSpec => []ClickIsTheOutcome
<1>1. Inv => ClickIsTheOutcome
  BY DEF Inv
<1>2. QED
  BY PageInvariance, <1>1, PTL

\* Nothing is allowed without a click that covers it, from the page either.
THEOREM HumanOnThePage == PageSpec => []AllowedByHuman
<1>1. Inv => AllowedByHuman
  BY DEF Inv
<1>2. QED
  BY PageInvariance, <1>1, PTL

\* An answer from the page that comes after the timer, after another window or twice
\* settles nothing and is not said to (remote.ts answer).
THEOREM AskIsAnsweredOnceFromThePage == PageSpec => AnsweredOnce
<1>1. Inv /\ ViewOK /\ [PageNext]_pageVars => [Stand]_<<outcome, clicks>>
  BY PageMoves, StandMove DEF Inv
<1>2. PageInit => TypeOK /\ ViewOK /\ EmitterOK
  BY PageStarts
<1>3. TypeOK /\ ViewOK /\ EmitterOK /\ [PageNext]_pageVars => (TypeOK /\ ViewOK /\ EmitterOK)'
  BY RegistryUnderPage, ViewStep, EmitterStep
<1>4. QED
  BY <1>1, <1>2, <1>3, PageInvariance, PTL DEF PageSpec, AnsweredOnce, Stand

\* The page's answers travel, are lost, come late or twice, and settle an ask and
\* report a watcher in one step; seen from the asker they are still the clicks of
\* HumanGate, and nothing else the page does decides an ask (remote.ts, answer and
\* live).
THEOREM PageImplementsHumanGate == PageSpec => ImplementsHumanGate
<1>1. PageInit => Gate!GateInit /\ Inv /\ TypeOK /\ ViewOK /\ EmitterOK
  BY GateInitRefined, InvInit, PageStarts DEF PageInit
<1>2. Inv /\ TypeOK /\ ViewOK /\ EmitterOK /\ [PageNext]_pageVars
      => (Inv /\ TypeOK /\ ViewOK /\ EmitterOK)'
  BY InvUnderPage, RegistryUnderPage, ViewStep, EmitterStep
<1>3. Inv /\ ViewOK /\ [PageNext]_pageVars
      => [Gate!GateNext]_<<question, Verdict, clicks>>
  BY PageMoves, GateMove
<1>4. QED
  BY <1>1, <1>2, <1>3, PTL
     DEF PageSpec, ImplementsHumanGate, Gate!GateSpec, Gate!gateVars

=============================================================================
