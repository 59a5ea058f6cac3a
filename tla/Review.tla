------------------------------- MODULE Review -------------------------------
(***************************************************************************)
(* What both loops, the standalone one and the plugin's, ask of a step:    *)
(* the safety detectors over the newest observations (src/signals.ts), the *)
(* review gate and the attention budget (src/review.ts).  An observation   *)
(* is a record of the tool, the key of its arguments and whether it        *)
(* failed.  A score is whole.                                              *)
(***************************************************************************)
EXTENDS Integers, Sequences

Classes == {"read", "reversible-write", "irreversible"}
Policies == {"auto", "auto-if-confident", "always-approve"}

NoScore == -1
\* The scale is 0 to 3; nothing tells its two upper levels apart.
Scores == 0..2
JudgeThreshold == 2
\* The bar 0.7 on a whole score.
ConfidenceBar == 1

\* The last n of a sequence that has as many.
LastN(n, s) == SubSeq(s, Len(s) - n + 1, Len(s))

\* A history cut to what a detector of n observations reads.
Newest(n, s) == IF Len(s) > n THEN LastN(n, s) ELSE s

\* tool-cycle: n identical calls at the end of the history; a step without a
\* tool is no call.
Cycles(n, s) ==
  /\ Len(s) >= n
  /\ LET tail == LastN(n, s)
     IN \A i \in 1..n :
          /\ tail[i].tool # "none"
          /\ tail[i].tool = tail[1].tool
          /\ tail[i].key = tail[1].key

\* error-cascade: n failed observations at its end.
Cascades(n, s) == Len(s) >= n /\ \A i \in 1..n : LastN(n, s)[i].error

\* AttentionRouter.budgetRemaining, with one review in so many steps.
HasRoom(reviews, steps, oneIn) == steps = 0 \/ oneIn * reviews < steps

\* DEFAULT_GATE_POLICIES.
DefaultPolicy(class) ==
  CASE class = "read" -> "auto"
    [] class = "reversible-write" -> "auto-if-confident"
    [] class = "irreversible" -> "always-approve"

\* ReviewGate.check, given the judge's score as the confidence.
Holds(policy, score) ==
  \/ policy = "always-approve"
  \/ policy = "auto-if-confident" /\ (score = NoScore \/ score < ConfidenceBar)
=============================================================================
