--------------------------- MODULE ToolGateProofs ---------------------------
(***************************************************************************)
(* ToolGate, proved for any calls, policies, envelopes, detector lengths   *)
(* and ceilings: its type invariant and its safety properties.             *)
(*                                                                         *)
(* That a repetition is told needs the most: the last call of a step is    *)
(* what is pending (Filed), a streak of k steps is what the newest k       *)
(* observations say, as far as they are kept (Remembered), and a step that *)
(* starts a turn knows nothing of the turn before (Fresh).                 *)
(***************************************************************************)
EXTENDS ToolGate, SequenceTheorems, TLAPS

\* Acting within the ceiling.
Within == pc = "acting" => step <= MaxSteps

\* The first step of a turn, and what lies between turns.
Fresh ==
  pc = "idle" \/ (pc = "boundary" /\ step = 1) => last = NoCall /\ streak = NoStreak

Filed == last # NoCall => pending = last /\ last.tool \in Calls

\* The newest observations are those of the streak.
Remembered ==
  /\ streak.times > 0 => streak.call.tool \in Calls
  /\ Len(history) >= streak.times \/ Len(history) = Longest
  /\ \A i \in 1..Len(history) : Len(history) - i < streak.times => history[i] = streak.call

Requested == asked \intersect Inside \subseteq recorded

Checkpointed == checkpointAsked = due

IInv ==
  /\ TypeOK
  /\ Within
  /\ Fresh
  /\ Filed
  /\ Remembered
  /\ RepetitionIsTold
  /\ ConfidenceIsFresh
  /\ Requested
  /\ LandedIsRecorded
  /\ Checkpointed
  /\ CheckpointIsOnce

USE DEF position, router, setting, files, turnGhosts, ghosts

-----------------------------------------------------------------------------
(* Values                                                                  *)

LEMMA NothingType ==
  /\ NoCall \in Observation
  /\ NoStreak \in [call : Observation, times : Nat]
  /\ 0 \in 0..MaxCalls
  <1>1. NoCall \in Observation
    BY DEF NoCall, Observation
  <1>2. 0 \in 0..MaxCalls
    BY ToolGateAssumption DEF ToolGateAssumption
  <1> QED BY <1>1, <1>2 DEF NoStreak

LEMMA ObservedType ==
  ASSUME NEW c \in Calls, NEW key \in {"args", "args#denied"}
  PROVE  Observed(c, key) \in Observation
  BY DEF Observed, Observation

LEMMA ObserveType ==
  ASSUME TypeOK, NEW c \in Calls, NEW key \in {"args", "args#denied"}, Observe(c, key)
  PROVE  pending' \in Observation /\ last' \in Observation /\ made' \in 0..MaxCalls
  <1>1. made' \in 0..MaxCalls
    BY ToolGateAssumption DEF ToolGateAssumption, TypeOK, Observe
  <1> QED BY <1>1, ObservedType DEF Observe

\* The last call of a step is what is pending.
LEMMA ObserveFiles ==
  ASSUME NEW c \in Calls, NEW key, Observe(c, key)
  PROVE  Filed' /\ pc = "acting"
  BY DEF Observe, Observed, Filed

LEMMA ForgetType ==
  ASSUME Forget
  PROVE  /\ made' \in 0..MaxCalls /\ last' \in Observation
         /\ streak' \in [call : Observation, times : Nat]
         /\ failed' \in BOOLEAN /\ failing' \in Nat /\ told' \in BOOLEAN /\ judged' \in BOOLEAN
  BY NothingType DEF Forget

-----------------------------------------------------------------------------
(* The kept history                                                        *)

LEMMA LongestType ==
  Longest \in Nat \ {0} /\ CycleLength \in Nat \ {0} /\ CycleLength <= Longest
  BY ToolGateAssumption DEF ToolGateAssumption, Longest

\* With one observation more a history stays within what is kept.
LEMMA NewestAppended ==
  ASSUME NEW S, NEW s \in Seq(S), NEW n \in Nat \ {0}, Len(s) <= n, NEW x \in S
  PROVE  /\ Newest(n, Append(s, x)) \in Seq(S)
         /\ Len(Newest(n, Append(s, x))) \in 1..n
  <1> DEFINE a == Append(s, x)
  <1>1. a \in Seq(S) /\ Len(a) = Len(s) + 1 /\ Len(s) \in Nat
    BY AppendProperties
  <1> HIDE DEF a
  <1>2. CASE Len(a) > n
    <2>1. Newest(n, a) = SubSeq(a, 2, Len(a))
      <3>1. Len(a) - n + 1 = 2
        BY <1>1, <1>2
      <3> QED BY <3>1, <1>2 DEF Newest, LastN
    <2>2. SubSeq(a, 2, Len(a)) \in Seq(S) /\ Len(SubSeq(a, 2, Len(a))) = Len(a) - 1
      <3>1. 2 \in 1..Len(a) /\ Len(a) \in 1..Len(a)
        BY <1>1, <1>2
      <3> QED BY <1>1, <3>1, SubSeqProperties
    <2> QED BY <1>1, <1>2, <2>1, <2>2 DEF a
  <1>3. CASE ~(Len(a) > n)
    BY <1>1, <1>3 DEF Newest, a
  <1> QED BY <1>2, <1>3

\* So many equal calls at the end of a history are a cycle.
LEMMA EqualCallsCycle ==
  ASSUME NEW s \in Seq(Observation), NEW n \in Nat \ {0}, Len(s) >= n, NEW c, c.tool # "none",
         \A i \in 1..Len(s) : Len(s) - i < n => s[i] = c
  PROVE  Cycles(n, s)
  <1>1. /\ Len(s) \in Nat /\ Len(s) - n + 1 \in 1..Len(s) /\ Len(s) \in 1..Len(s)
    BY LenProperties
  <1>2. \A i \in 1..n : LastN(n, s)[i] = s[Len(s) - n + 1 + i - 1]
    BY <1>1, SubSeqProperties DEF LastN
  <1>3. ASSUME NEW i \in 1..n PROVE LastN(n, s)[i] = c
    <2>1. Len(s) - n + 1 + i - 1 \in 1..Len(s) /\ Len(s) - (Len(s) - n + 1 + i - 1) < n
      BY <1>1
    <2> QED BY <1>2, <2>1
  <1> QED BY <1>3 DEF Cycles

\* What File leaves behind.
LEMMA FileKeeps ==
  ASSUME TypeOK, File
  PROVE  /\ history' \in Seq(Observation) /\ Len(history') <= Longest
         /\ pending' \in Observation /\ stepsSeen' \in Nat
  <1>1. CASE step > 1
    <2>1. history' = Newest(Longest, Append(history, pending))
      BY <1>1 DEF File
    <2>2. history' \in Seq(Observation) /\ Len(history') \in 1..Longest
      BY <2>1, LongestType, NewestAppended DEF TypeOK
    <2> QED BY <1>1, <2>2, LongestType, NothingType DEF TypeOK, File
  <1>2. CASE ~(step > 1)
    BY <1>2 DEF TypeOK, File
  <1> QED BY <1>1, <1>2

\* What Remember makes of the streak.
LEMMA RememberType ==
  ASSUME streak \in [call : Observation, times : Nat], last \in Observation, Remember
  PROVE  streak' \in [call : Observation, times : Nat]
  <1>1. CASE last = NoCall
    <2>1. streak' = NoStreak
      BY <1>1 DEF Remember
    <2> QED BY <2>1, NothingType
  <1>2. CASE last # NoCall /\ last = streak.call
    <2>1. streak' = [streak EXCEPT !.times = @ + 1]
      BY <1>2 DEF Remember
    <2>2. streak.times + 1 \in Nat
      OBVIOUS
    <2> QED BY <2>1, <2>2
  <1>3. CASE last # NoCall /\ last # streak.call
    <2>1. streak' = [call |-> last, times |-> 1]
      BY <1>3 DEF Remember
    <2> QED BY <2>1
  <1> QED BY <1>1, <1>2, <1>3

-----------------------------------------------------------------------------
(* Steps                                                                   *)

LEMMA ReviewStepStep == ASSUME IInv, ReviewStep PROVE IInv'
  <1>1. TypeOK'
    <2>1. streak' \in [call : Observation, times : Nat]
      BY RememberType DEF IInv, TypeOK, ReviewStep
    <2>2. /\ reviews' \in Nat /\ pauses' \in Nat /\ surfaced' \in Nat
          /\ told' \in BOOLEAN /\ checkpointAsked' \in BOOLEAN
      BY DEF IInv, TypeOK, ReviewStep, Route, Pauses
    <2>3. score' \in Scores \union {NoScore} /\ judged' \in BOOLEAN
      BY DEF ReviewStep, Judge
    <2>4. failing' \in Nat /\ due' \in BOOLEAN /\ steps' \in Nat
      BY DEF IInv, TypeOK, ReviewStep, Remember
    <2>5. made' \in 0..MaxCalls /\ last' \in Observation
      BY NothingType DEF ReviewStep
    <2> QED BY <2>1, <2>2, <2>3, <2>4, <2>5, FileKeeps DEF IInv, TypeOK, ReviewStep
  <1>2. Within' /\ Fresh' /\ Filed'
    BY DEF ReviewStep, WithinSteps, Within, Fresh, Filed
  <1>3. ASSUME last = NoCall PROVE Remembered' /\ RepetitionIsTold'
    <2>1. streak' = NoStreak
      BY <1>3 DEF ReviewStep, Remember
    <2>2. streak'.times = 0
      BY <2>1 DEF NoStreak
    <2>3. Remembered' /\ RepetitionIsTold'
      BY <2>2, FileKeeps, LongestType DEF IInv, ReviewStep, Remembered, RepetitionIsTold
    <2> QED BY <2>3
  <1>4. ASSUME last # NoCall PROVE Remembered' /\ RepetitionIsTold'
    <2>1. step > 1 /\ pending = last /\ last.tool \in Calls /\ last \in Observation
      BY <1>4 DEF IInv, TypeOK, Fresh, Filed, ReviewStep
    <2>2. /\ history \in Seq(Observation) /\ Len(history) \in Nat /\ Len(history) <= Longest
          /\ history' = Newest(Longest, Append(history, last))
      BY <2>1 DEF IInv, TypeOK, ReviewStep, File
    <2>3. /\ history' \in Seq(Observation) /\ Len(history') \in 1..Longest
          /\ Len(history') = Len(history) + 1
               \/ (Len(history') = Longest /\ Len(history) = Longest)
          /\ history'[Len(history')] = last
          /\ \A i \in 1..Len(history') - 1 :
               history'[i] = history[i + Len(history) + 1 - Len(history')]
      <3> DEFINE a == Append(history, last)
      <3>1. /\ a \in Seq(Observation) /\ Len(a) = Len(history) + 1
            /\ a[Len(history) + 1] = last /\ \A i \in 1..Len(history) : a[i] = history[i]
        BY <2>1, <2>2, AppendProperties
      <3> HIDE DEF a
      <3>2. CASE Len(a) > Longest
        <4>1. Len(a) - Longest + 1 = 2 /\ Len(history) = Longest
          BY <2>2, <3>1, <3>2, LongestType
        <4>2. history' = SubSeq(a, 2, Len(a))
          BY <2>2, <3>2, <4>1 DEF Newest, LastN, a
        <4>3. 2 \in 1..Len(a) /\ Len(a) \in 1..Len(a)
          BY <2>2, <3>1, <4>1, LongestType
        <4>4. /\ history' \in Seq(Observation) /\ Len(history') = Len(a) - 1
              /\ \A i \in 1..Len(a) - 1 : history'[i] = a[2 + i - 1]
          BY <3>1, <4>2, <4>3, SubSeqProperties
        <4> QED BY <2>2, <3>1, <4>1, <4>4, LongestType
      <3>3. CASE ~(Len(a) > Longest)
        <4>1. history' = a
          BY <2>2, <3>3 DEF Newest, a
        <4> QED BY <2>2, <3>1, <3>3, <4>1, LongestType
      <3> QED BY <3>2, <3>3
    <2>4. /\ streak'.call = last /\ streak'.times \in Nat /\ streak'.times > 0
          /\ streak'.times = 1 \/ (last = streak.call /\ streak'.times = streak.times + 1)
      BY <1>4 DEF IInv, TypeOK, ReviewStep, Remember
    <2>5. Remembered'
      <3>1. Len(history') >= streak'.times \/ Len(history') = Longest
        BY <2>2, <2>3, <2>4 DEF IInv, TypeOK, Remembered
      <3>2. ASSUME NEW i \in 1..Len(history'), Len(history') - i < streak'.times
            PROVE  history'[i] = last
        <4>1. CASE i = Len(history')
          BY <2>3, <4>1
        <4>2. CASE i # Len(history')
          <5>1. /\ last = streak.call /\ Len(history') - i - 1 < streak.times
                /\ i \in 1..Len(history') - 1
            BY <2>3, <2>4, <3>2, <4>2 DEF IInv, TypeOK
          <5>2. i + Len(history) + 1 - Len(history') \in 1..Len(history)
            BY <2>2, <2>3, <5>1
          <5>3. Len(history) - (i + Len(history) + 1 - Len(history')) < streak.times
            BY <2>2, <2>3, <5>1
          <5> QED BY <2>3, <5>1, <5>2, <5>3 DEF IInv, Remembered
        <4> QED BY <4>1, <4>2
      <3> QED BY <2>1, <2>4, <3>1, <3>2 DEF Remembered
    <2>6. RepetitionIsTold'
      <3> SUFFICES ASSUME streak'.times >= CycleLength PROVE told'
        BY DEF RepetitionIsTold
      <3>1. Len(history') >= CycleLength
        BY <2>3, <2>4, <2>5, LongestType DEF Remembered
      <3>2. ASSUME NEW i \in 1..Len(history'), Len(history') - i < CycleLength
            PROVE  history'[i] = last
        <4>1. Len(history') - i < streak'.times
          BY <2>3, <2>4, <3>2, LongestType
        <4> QED BY <2>4, <2>5, <4>1 DEF Remembered
      <3>3. last.tool # "none"
        BY <2>1, ToolGateAssumption DEF ToolGateAssumption
      <3>4. Cycles(CycleLength, history')
        BY <2>3, <3>1, <3>2, <3>3, LongestType, EqualCallsCycle
      <3> QED BY <3>4 DEF ReviewStep, Route, mustReview
    <2> QED BY <2>5, <2>6
  <1>5. ConfidenceIsFresh'
    BY DEF ReviewStep, Judge, ConfidenceIsFresh
  <1>6. Requested' /\ LandedIsRecorded'
    BY DEF IInv, ReviewStep, Requested, LandedIsRecorded
  <1>7. Checkpointed' /\ CheckpointIsOnce'
    <2>1. /\ checkpointAsked' = (checkpointAsked \/ Pauses) /\ due' = (due \/ AtCheckpoint)
          /\ Pauses <=> AtCheckpoint /\ ~checkpointAsked
          /\ pauses' = IF Pauses THEN pauses + 1 ELSE pauses
      BY DEF ReviewStep, Route, Remember, Pauses
    <2>2. Checkpointed'
      BY <2>1 DEF IInv, TypeOK, Checkpointed
    <2>3. CheckpointIsOnce'
      <3>1. CASE Pauses
        <4>1. ~due /\ due' /\ pauses' = pauses + 1
          BY <2>1, <3>1 DEF IInv, Checkpointed
        <4>2. pauses = 0
          BY <4>1 DEF IInv, CheckpointIsOnce
        <4> QED BY <4>1, <4>2 DEF CheckpointIsOnce
      <3>2. CASE ~Pauses
        BY <2>1, <3>2 DEF IInv, TypeOK, Checkpointed, CheckpointIsOnce
      <3> QED BY <3>1, <3>2
    <2> QED BY <2>2, <2>3
  <1> QED BY <1>1, <1>2, <1>3, <1>4, <1>5, <1>6, <1>7 DEF IInv

LEMMA StepRejectedStep == ASSUME IInv, StepRejected PROVE IInv'
  <1>1. TypeOK'
    BY FileKeeps, ForgetType DEF IInv, TypeOK, StepRejected
  <1>2. Within' /\ Fresh' /\ Filed'
    BY DEF IInv, TypeOK, Within, Fresh, Filed, StepRejected, Forget, NoStreak
  <1>3. Remembered' /\ RepetitionIsTold' /\ ConfidenceIsFresh'
    BY FileKeeps, LongestType DEF IInv, TypeOK, Remembered, RepetitionIsTold,
                                  ConfidenceIsFresh, StepRejected, Forget, NoStreak
  <1>4. Requested' /\ LandedIsRecorded'
    BY DEF IInv, Requested, LandedIsRecorded, StepRejected, Forget, NoStreak
  <1>5. Checkpointed' /\ CheckpointIsOnce'
    BY DEF IInv, Checkpointed, CheckpointIsOnce, StepRejected, Forget, NoStreak
  <1> QED BY <1>1, <1>2, <1>3, <1>4, <1>5 DEF IInv

LEMMA StepRefusedStep == ASSUME IInv, StepRefused PROVE IInv'
  <1>1. TypeOK'
    BY ForgetType DEF IInv, TypeOK, StepRefused
  <1>2. Within' /\ Fresh' /\ Filed'
    BY DEF IInv, TypeOK, Within, Fresh, Filed, StepRefused, Forget, NoStreak
  <1>3. Remembered' /\ RepetitionIsTold' /\ ConfidenceIsFresh'
    BY LongestType DEF IInv, TypeOK, Remembered, RepetitionIsTold, ConfidenceIsFresh,
                       StepRefused, Forget, NoStreak
  <1>4. Requested' /\ LandedIsRecorded'
    BY DEF IInv, Requested, LandedIsRecorded, StepRefused, Forget, NoStreak
  <1>5. Checkpointed' /\ CheckpointIsOnce'
    BY DEF IInv, Checkpointed, CheckpointIsOnce, StepRefused, Forget, NoStreak
  <1> QED BY <1>1, <1>2, <1>3, <1>4, <1>5 DEF IInv

LEMMA ProceedStep == ASSUME IInv, NEW c \in Calls, Proceed(c) PROVE IInv'
  <1>1. TypeOK'
    <2>1. pending' \in Observation /\ last' \in Observation /\ made' \in 0..MaxCalls
      BY ObserveType DEF IInv, Proceed
    <2> QED BY <2>1 DEF IInv, TypeOK, Proceed, RecordAllowed, Settles
  <1>2. Within' /\ Fresh' /\ Filed'
    BY ObserveFiles DEF IInv, Within, Fresh, Proceed
  <1>3. Remembered' /\ RepetitionIsTold' /\ ConfidenceIsFresh'
    BY DEF IInv, Remembered, RepetitionIsTold, ConfidenceIsFresh, Proceed
  <1>4. Requested' /\ LandedIsRecorded'
    BY DEF IInv, Requested, LandedIsRecorded, Proceed, Observe, Observed, RecordAllowed,
           Settles, Proceeds, Inside
  <1>5. Checkpointed' /\ CheckpointIsOnce'
    BY DEF IInv, Checkpointed, CheckpointIsOnce, Proceed, Observe, Observed, RecordAllowed,
           Settles, Proceeds, Inside
  <1> QED BY <1>1, <1>2, <1>3, <1>4, <1>5 DEF IInv

LEMMA AskStep == ASSUME IInv, NEW c \in Calls, Ask(c) PROVE IInv'
  <1>1. TypeOK'
    <2>1. pending' \in Observation /\ last' \in Observation /\ made' \in 0..MaxCalls
      BY ObserveType DEF IInv, Ask
    <2> QED BY <2>1 DEF IInv, TypeOK, Ask, RecordRequested
  <1>2. Within' /\ Fresh' /\ Filed'
    BY ObserveFiles DEF IInv, Within, Fresh, Ask
  <1>3. Remembered' /\ RepetitionIsTold' /\ ConfidenceIsFresh'
    BY DEF IInv, Remembered, RepetitionIsTold, ConfidenceIsFresh, Ask
  <1>4. Requested' /\ LandedIsRecorded'
    BY DEF IInv, Requested, LandedIsRecorded, Ask, Observe, Observed, RecordRequested
  <1>5. Checkpointed' /\ CheckpointIsOnce'
    BY DEF IInv, Checkpointed, CheckpointIsOnce, Ask, Observe, Observed, RecordRequested
  <1> QED BY <1>1, <1>2, <1>3, <1>4, <1>5 DEF IInv

LEMMA DenyStep == ASSUME IInv, NEW c \in Calls, Deny(c) PROVE IInv'
  <1>1. TypeOK'
    <2>1. pending' \in Observation /\ last' \in Observation /\ made' \in 0..MaxCalls
      BY ObserveType DEF IInv, Deny
    <2> QED BY <2>1 DEF IInv, TypeOK, Deny
  <1>2. Within' /\ Fresh' /\ Filed'
    BY ObserveFiles DEF IInv, Within, Fresh, Deny
  <1>3. Remembered' /\ RepetitionIsTold' /\ ConfidenceIsFresh'
    BY DEF IInv, Remembered, RepetitionIsTold, ConfidenceIsFresh, Deny
  <1>4. Requested' /\ LandedIsRecorded'
    BY DEF IInv, Requested, LandedIsRecorded, Deny, Observe, Observed
  <1>5. Checkpointed' /\ CheckpointIsOnce'
    BY DEF IInv, Checkpointed, CheckpointIsOnce, Deny, Observe, Observed
  <1> QED BY <1>1, <1>2, <1>3, <1>4, <1>5 DEF IInv

LEMMA DenyAfterShipStep == ASSUME IInv, NEW c \in Calls, DenyAfterShip(c) PROVE IInv'
  <1>1. TypeOK'
    <2>1. pending' \in Observation /\ last' \in Observation /\ made' \in 0..MaxCalls
      BY ObserveType DEF IInv, DenyAfterShip
    <2> QED BY <2>1 DEF IInv, TypeOK, DenyAfterShip
  <1>2. Within' /\ Fresh' /\ Filed'
    BY ObserveFiles DEF IInv, Within, Fresh, DenyAfterShip
  <1>3. Remembered' /\ RepetitionIsTold' /\ ConfidenceIsFresh'
    BY DEF IInv, Remembered, RepetitionIsTold, ConfidenceIsFresh, DenyAfterShip
  <1>4. Requested' /\ LandedIsRecorded'
    BY DEF IInv, Requested, LandedIsRecorded, DenyAfterShip, Observe, Observed
  <1>5. Checkpointed' /\ CheckpointIsOnce'
    BY DEF IInv, Checkpointed, CheckpointIsOnce, DenyAfterShip, Observe, Observed
  <1> QED BY <1>1, <1>2, <1>3, <1>4, <1>5 DEF IInv

LEMMA HumanAllowsStep == ASSUME IInv, NEW c \in Calls, HumanAllows(c) PROVE IInv'
  <1>1. TypeOK'
    BY DEF IInv, TypeOK, HumanAllows, Settles
  <1>2. Within' /\ Fresh' /\ Filed'
    BY DEF IInv, TypeOK, Within, Fresh, Filed, HumanAllows, Settles
  <1>3. Remembered' /\ RepetitionIsTold' /\ ConfidenceIsFresh'
    BY LongestType DEF IInv, TypeOK, Remembered, RepetitionIsTold, ConfidenceIsFresh,
                       HumanAllows, Settles
  <1>4. Requested' /\ LandedIsRecorded'
    BY DEF IInv, Requested, LandedIsRecorded, HumanAllows, Settles
  <1>5. Checkpointed' /\ CheckpointIsOnce'
    BY DEF IInv, Checkpointed, CheckpointIsOnce, HumanAllows, Settles
  <1> QED BY <1>1, <1>2, <1>3, <1>4, <1>5 DEF IInv

LEMMA HumanRefusesStep == ASSUME IInv, NEW c \in Calls, HumanRefuses(c) PROVE IInv'
  <1>1. TypeOK'
    BY DEF IInv, TypeOK, HumanRefuses
  <1>2. Within' /\ Fresh' /\ Filed'
    BY DEF IInv, TypeOK, Within, Fresh, Filed, HumanRefuses
  <1>3. Remembered' /\ RepetitionIsTold' /\ ConfidenceIsFresh'
    BY LongestType DEF IInv, TypeOK, Remembered, RepetitionIsTold, ConfidenceIsFresh,
                       HumanRefuses
  <1>4. Requested' /\ LandedIsRecorded'
    BY DEF IInv, Requested, LandedIsRecorded, HumanRefuses
  <1>5. Checkpointed' /\ CheckpointIsOnce'
    BY DEF IInv, Checkpointed, CheckpointIsOnce, HumanRefuses
  <1> QED BY <1>1, <1>2, <1>3, <1>4, <1>5 DEF IInv

LEMMA StepEndsStep == ASSUME IInv, StepEnds PROVE IInv'
  <1>1. TypeOK'
    <2>1. step' \in 1..MaxSteps + 1
      BY ToolGateAssumption DEF ToolGateAssumption, IInv, TypeOK, Within, StepEnds
    <2> QED BY <2>1, NothingType DEF IInv, TypeOK, StepEnds
  <1>2. Within' /\ Fresh' /\ Filed'
    BY DEF IInv, TypeOK, Within, Fresh, Filed, StepEnds
  <1>3. Remembered' /\ RepetitionIsTold' /\ ConfidenceIsFresh'
    BY LongestType DEF IInv, TypeOK, Remembered, RepetitionIsTold, ConfidenceIsFresh,
                       StepEnds
  <1>4. Requested' /\ LandedIsRecorded'
    BY DEF IInv, Requested, LandedIsRecorded, StepEnds
  <1>5. Checkpointed' /\ CheckpointIsOnce'
    BY DEF IInv, Checkpointed, CheckpointIsOnce, StepEnds
  <1> QED BY <1>1, <1>2, <1>3, <1>4, <1>5 DEF IInv

LEMMA TurnEndsStep == ASSUME IInv, TurnEnds PROVE IInv'
  <1>1. TypeOK'
    BY ForgetType DEF IInv, TypeOK, TurnEnds
  <1>2. Within' /\ Fresh' /\ Filed'
    BY DEF IInv, TypeOK, Within, Fresh, Filed, TurnEnds, Forget, NoStreak
  <1>3. Remembered' /\ RepetitionIsTold' /\ ConfidenceIsFresh'
    BY LongestType DEF IInv, TypeOK, Remembered, RepetitionIsTold, ConfidenceIsFresh,
                       TurnEnds, Forget, NoStreak
  <1>4. Requested' /\ LandedIsRecorded'
    BY DEF IInv, Requested, LandedIsRecorded, TurnEnds, Forget, NoStreak
  <1>5. Checkpointed' /\ CheckpointIsOnce'
    BY DEF IInv, Checkpointed, CheckpointIsOnce, TurnEnds, Forget, NoStreak
  <1> QED BY <1>1, <1>2, <1>3, <1>4, <1>5 DEF IInv

LEMMA NewTurnStep == ASSUME IInv, NewTurn PROVE IInv'
  <1>1. TypeOK'
    BY ToolGateAssumption DEF IInv, TypeOK, NewTurn, ToolGateAssumption
  <1>2. Within' /\ Fresh' /\ Filed'
    BY DEF IInv, TypeOK, Within, Fresh, Filed, NewTurn
  <1>3. Remembered' /\ RepetitionIsTold' /\ ConfidenceIsFresh'
    BY LongestType DEF IInv, TypeOK, Remembered, RepetitionIsTold, ConfidenceIsFresh,
                       NewTurn
  <1>4. Requested' /\ LandedIsRecorded'
    BY DEF IInv, Requested, LandedIsRecorded, NewTurn
  <1>5. Checkpointed' /\ CheckpointIsOnce'
    BY DEF IInv, Checkpointed, CheckpointIsOnce, NewTurn
  <1> QED BY <1>1, <1>2, <1>3, <1>4, <1>5 DEF IInv

LEMMA EntersShipStep == ASSUME IInv, EntersShip PROVE IInv'
  <1>1. TypeOK'
    BY DEF IInv, TypeOK, EntersShip
  <1>2. Within' /\ Fresh' /\ Filed'
    BY DEF IInv, TypeOK, Within, Fresh, Filed, EntersShip
  <1>3. Remembered' /\ RepetitionIsTold' /\ ConfidenceIsFresh'
    BY LongestType DEF IInv, TypeOK, Remembered, RepetitionIsTold, ConfidenceIsFresh,
                       EntersShip
  <1>4. Requested' /\ LandedIsRecorded'
    BY DEF IInv, Requested, LandedIsRecorded, EntersShip
  <1>5. Checkpointed' /\ CheckpointIsOnce'
    BY DEF IInv, Checkpointed, CheckpointIsOnce, EntersShip
  <1> QED BY <1>1, <1>2, <1>3, <1>4, <1>5 DEF IInv

LEMMA InitHolds == Init => IInv
  <1> SUFFICES ASSUME Init PROVE IInv
    OBVIOUS
  <1>1. TypeOK
    <2>1. turn \in 1..MaxTurns /\ step \in 1..MaxSteps + 1
      BY ToolGateAssumption DEF ToolGateAssumption, Init
    <2>2. history \in Seq(Observation) /\ Len(history) <= Longest
      BY LongestType DEF Init
    <2> QED BY <2>1, <2>2, NothingType DEF Init, TypeOK
  <1>2. Within /\ Fresh /\ Filed /\ RepetitionIsTold /\ ConfidenceIsFresh
    BY DEF Init, Within, Fresh, Filed, RepetitionIsTold, ConfidenceIsFresh
  <1>3. Remembered
    BY DEF Init, Remembered, NoStreak
  <1>4. Requested /\ LandedIsRecorded /\ Checkpointed /\ CheckpointIsOnce
    BY DEF Init, Requested, LandedIsRecorded, Checkpointed, CheckpointIsOnce
  <1> QED BY <1>1, <1>2, <1>3, <1>4 DEF IInv

LEMMA Invariance == Spec => []IInv
  <1>1. IInv /\ UNCHANGED vars => IInv'
    BY DEF vars, IInv, TypeOK, Within, Fresh, Filed, Remembered, RepetitionIsTold,
       ConfidenceIsFresh, Requested, LandedIsRecorded, Checkpointed, CheckpointIsOnce
  <1>2. IInv /\ [Next]_vars => IInv'
    BY <1>1, ReviewStepStep, StepRejectedStep, StepRefusedStep, ProceedStep, AskStep, DenyStep,
       DenyAfterShipStep, HumanAllowsStep, HumanRefusesStep, StepEndsStep, TurnEndsStep,
       NewTurnStep, EntersShipStep DEF Next
  <1> QED BY <1>2, InitHolds, PTL DEF Spec

-----------------------------------------------------------------------------

\* The variables keep their types, and no step goes past the ceiling.
THEOREM GateTypeCorrect == Spec => []TypeOK
  BY Invariance, PTL DEF IInv

\* As many equal steps as a cycle has, in one turn, are told to the model, for any
\* lengths of the detectors and whatever was denied, asked for or left pending.
THEOREM RepetitionsAreTold == Spec => []RepetitionIsTold
  BY Invariance, PTL DEF IInv

\* No call is weighed by the score of an older step (reviewStep, lastConfidence).
THEOREM ConfidenceStaysFresh == Spec => []ConfidenceIsFresh
  BY Invariance, PTL DEF IInv

\* A write that landed is recorded unless the gate's rules let it through unasked, for
\* any envelope, any policies and any order of the human's answers.
THEOREM LandedWritesAreRecorded == Spec => []LandedIsRecorded
  BY Invariance, PTL DEF IInv

\* The checkpoint is never missed and never asked for twice.
THEOREM OneCheckpoint == Spec => []CheckpointIsOnce
  BY Invariance, PTL DEF IInv
=============================================================================
