---------------------------- MODULE RefineProofs ----------------------------
(***************************************************************************)
(* The refinement loop and the history it records its passes in, proved    *)
(* for any number of passes, processes, runs, budgets, levels and bars.    *)
(*                                                                         *)
(* Refine: each pass is compared with the best one only, so that the best  *)
(* is never worse than any pass that ran rests on the comparison being a   *)
(* strict weak order (BetterIsNegativelyTransitive).  That the scores rise *)
(* rests on the baseline standing above every score so far (Baselined),    *)
(* and the bound on the money on what an affordable pass leaves            *)
(* (AffordableLeaves).                                                     *)
(*                                                                         *)
(* History: the loop that reads the file unfolds by one round a line       *)
(* (FilteringUnfolds), and two files that begin alike are read alike       *)
(* (FilteringAgrees); both rest on the least number at which they would    *)
(* fail (LeastNumber).  Each lost record is on a death's account, with the *)
(* record the next append may still spoil (Accounted).  The ceilings are   *)
(* bounded because every record comes from a run under such a ceiling, or  *)
(* from a session, and every plan stays in the band or at a record         *)
(* (DerivedInBand).                                                        *)
(***************************************************************************)
EXTENDS Refine, History, SequenceTheorems, FiniteSetTheorems, WellFoundedInduction, TLAPS

\* What has run is counted, and the best of it is kept.
Counted ==
  /\ passes = Len(ran)
  /\ pc = "running" => passes < Loops
  /\ best = NoPass <=> passes = 0
  /\ pc = "returned" => passes > 0

BestSoFar ==
  /\ passes > 0 => \E i \in DOMAIN ran : ran[i] = best
  /\ \A i \in DOMAIN ran : ~Better(ran[i], best)

\* The baseline is above every score of the passes that were gone on from.
Baselined ==
  pc \in {"between", "running"} =>
    \A i \in DOMAIN ran : ran[i].quality # None =>
      /\ previous # None /\ ran[i].quality <= previous
      /\ \A j \in DOMAIN ran : i < j /\ ran[j].quality # None
           => ran[j].quality >= ran[i].quality + MinImprovement

\* A pass overshoots its own budget by less than one call.
Paid ==
  /\ pc = "running" => spent < Budget + MaxCost
  /\ passes = 0 => spentTotal = 0
  /\ OvershootIsOnePass

IInv == TypeOK /\ Counted /\ BestSoFar /\ Baselined /\ ScoresKeepRising /\ Paid

USE DEF refineVars, passVars

-----------------------------------------------------------------------------
(* The comparison                                                          *)

LEMMA PassNumbers ==
  ASSUME NEW p \in Passes
  PROVE  p.quality \in Int /\ p.spent \in Int /\ p.steps \in Int
  <1>1. p.spent \in Int /\ p.steps \in Int
    BY DEF Passes
  <1>2. p.quality \in Levels \union {None}
    BY DEF Passes
  <1>3. CASE p.quality \in Levels
    <2>1. p.quality \in Nat
      BY <1>3, RefineAssumption, Zenon DEF RefineAssumption
    <2> QED BY <1>1, <2>1
  <1>4. CASE p.quality = None
    BY <1>1, <1>4 DEF None
  <1> QED BY <1>2, <1>3, <1>4

LEMMA BeatsIsBetter ==
  ASSUME NEW p \in Passes, NEW q \in Passes
  PROVE  beats(p, q) <=> Better(p, q)
  <1>1. /\ p.quality \in Int /\ q.quality \in Int /\ p.spent \in Int /\ q.spent \in Int
        /\ p.steps \in Int /\ q.steps \in Int
    BY PassNumbers
  <1>2. Met(p) \in BOOLEAN /\ Met(q) \in BOOLEAN
    BY DEF Met
  <1> QED BY <1>1, <1>2 DEF beats, Better

\* What is not better than the best so far is not better than what replaces it.
LEMMA BetterIsNegativelyTransitive ==
  ASSUME NEW x \in Passes, NEW p \in Passes, NEW b \in Passes, ~Better(x, b), Better(p, b)
  PROVE  ~Better(x, p)
  <1>1. /\ x.quality \in Int /\ p.quality \in Int /\ b.quality \in Int
        /\ x.spent \in Int /\ p.spent \in Int /\ b.spent \in Int
        /\ x.steps \in Int /\ p.steps \in Int /\ b.steps \in Int
    BY PassNumbers
  <1> QED BY <1>1 DEF Better, Met

LEMMA BetterIsIrreflexive == ASSUME NEW p \in Passes PROVE ~Better(p, p)
  BY PassNumbers DEF Better, Met

\* A pass that is affordable leaves some of the budget: the average of the passes
\* before it fits into what is left, and it is not nothing.
LEMMA AffordableLeaves ==
  ASSUME NEW s \in Nat, NEW n \in Nat \ {0}, NEW b \in Nat \ {0}, s * (n + 1) <= b * n
  PROVE  s < b
  <1> SUFFICES ASSUME s >= b PROVE FALSE
    OBVIOUS
  <1>1. s * (n + 1) = s * n + s
    BY SMT
  <1>2. b * n <= s * n
    BY SMT
  <1>3. s * n \in Int /\ b * n \in Int
    BY SMT
  <1> QED BY <1>1, <1>2, <1>3, SMT

-----------------------------------------------------------------------------
(* Steps                                                                   *)

LEMMA StartPassStep == ASSUME IInv, StartPass PROVE IInv'
  <1>1. TypeOK'
    BY DEF IInv, TypeOK, StartPass
  <1>2. Counted'
    BY DEF IInv, Counted, StartPass
  <1>3. BestSoFar' /\ Baselined' /\ ScoresKeepRising'
    BY DEF IInv, BestSoFar, Better, Met, Baselined, ScoresKeepRising, StartPass
  <1>4. Paid'
    <2>1. passes = 0 \/ spentTotal < TotalBudget
      BY RefineAssumption, AffordableLeaves
         DEF RefineAssumption, IInv, TypeOK, StartPass, Affordable
    <2> QED BY <2>1, RefineAssumption
            DEF RefineAssumption, IInv, TypeOK, Paid, OvershootIsOnePass, StartPass
  <1> QED BY <1>1, <1>2, <1>3, <1>4 DEF IInv

LEMMA BudgetExhaustedStep == ASSUME IInv, BudgetExhausted PROVE IInv'
  <1>1. TypeOK'
    BY DEF IInv, TypeOK, BudgetExhausted
  <1>2. Counted'
    BY DEF IInv, TypeOK, Counted, BudgetExhausted, Affordable
  <1>3. BestSoFar' /\ Baselined' /\ ScoresKeepRising'
    BY DEF IInv, BestSoFar, Better, Met, Baselined, ScoresKeepRising, BudgetExhausted
  <1>4. Paid'
    BY DEF IInv, Paid, OvershootIsOnePass, BudgetExhausted
  <1> QED BY <1>1, <1>2, <1>3, <1>4 DEF IInv

LEMMA RunPassStep == ASSUME IInv, RunPass PROVE IInv'
  <1>1. TypeOK'
    <2>1. spent' \in Nat
      BY RefineAssumption DEF RefineAssumption, IInv, TypeOK, RunPass, PassStep, Pays
    <2>2. outcome' \in {"running"} \union PassOutcomes /\ holds' \in BOOLEAN
      BY DEF RunPass, PassStep, MaySay, PassOutcomes
    <2> QED BY <2>1, <2>2 DEF IInv, TypeOK, RunPass
  <1>2. Counted'
    BY DEF IInv, Counted, RunPass
  <1>3. BestSoFar' /\ Baselined' /\ ScoresKeepRising'
    BY DEF IInv, BestSoFar, Better, Met, Baselined, ScoresKeepRising, RunPass
  <1>4. Paid'
    BY RefineAssumption DEF RefineAssumption, IInv, TypeOK, Paid, OvershootIsOnePass, RunPass,
       PassStep, Pays
  <1> QED BY <1>1, <1>2, <1>3, <1>4 DEF IInv

LEMMA CompareStep ==
  ASSUME IInv, outcome # "running", NEW q \in Levels \union {None}, NEW n \in 1..MaxPassSteps,
         NEW p, p = [outcome |-> outcome, quality |-> q, spent |-> spent, steps |-> n],
         Compare(p)
  PROVE  IInv'
  <1>1. p \in Passes /\ p.quality = q
    BY DEF IInv, TypeOK, Passes
  <1>2. /\ ran' = Append(ran, p) /\ ran \in Seq(Passes) /\ Len(ran) \in Nat
        /\ ran' \in Seq(Passes) /\ Len(ran') = Len(ran) + 1
        /\ DOMAIN ran = 1..Len(ran) /\ DOMAIN ran' = 1..Len(ran) + 1
        /\ ran'[Len(ran) + 1] = p /\ \A i \in 1..Len(ran) : ran'[i] = ran[i]
    BY <1>1, AppendProperties DEF IInv, TypeOK, Compare
  <1>3. /\ pc = "running" /\ passes' = passes + 1 /\ passes < Loops
        /\ pc' \in {"returned", "between", "threw"}
        /\ best' = IF best = NoPass \/ beats(p, best) THEN p ELSE best
    BY DEF IInv, Counted, Compare
  <1>4. p # NoPass
    BY <1>1 DEF Passes, NoPass, PassOutcomes, Outcomes
  <1>5. TypeOK'
    <2>1. previous' \in Levels \union {None}
      BY <1>1 DEF IInv, TypeOK, Compare, Baseline
    <2>2. spentTotal' \in Nat /\ UNCHANGED <<outcome, spent, holds>>
      BY DEF IInv, TypeOK, Compare
    <2>3. passes' \in 0..Loops /\ Len(ran') <= Loops
      BY <1>2, <1>3, RefineAssumption DEF RefineAssumption, IInv, TypeOK, Counted
    <2> QED BY <1>1, <1>2, <1>3, <2>1, <2>2, <2>3 DEF IInv, TypeOK
  <1>6. Counted'
    BY <1>2, <1>3, <1>4 DEF IInv, TypeOK, Counted
  <1>7. BestSoFar'
    <2>1. CASE best = NoPass
      <3>1. ran' = <<p>> /\ best' = p
        BY <1>2, <1>3, <2>1 DEF IInv, Counted
      <3> QED BY <3>1, <1>1, <1>2, BetterIsIrreflexive DEF BestSoFar
    <2>2. CASE best # NoPass /\ Better(p, best)
      <3>1. best \in Passes /\ best' = p
        BY <1>1, <1>3, <2>2, BeatsIsBetter DEF IInv, TypeOK
      <3>2. \A i \in 1..Len(ran) : ~Better(ran[i], p)
        BY <1>1, <1>2, <2>2, <3>1, BetterIsNegativelyTransitive DEF IInv, BestSoFar
      <3> QED BY <1>1, <1>2, <3>1, <3>2, BetterIsIrreflexive DEF BestSoFar
    <2>3. CASE best # NoPass /\ ~Better(p, best)
      <3>1. best' = best /\ passes > 0
        BY <1>1, <1>3, <2>3, BeatsIsBetter DEF IInv, TypeOK, Counted
      <3> QED BY <1>2, <2>3, <3>1 DEF IInv, BestSoFar
    <2> QED BY <2>1, <2>2, <2>3
  <1>8. \A i \in 1..Len(ran) : ran[i].quality \in Int
    BY <1>2, PassNumbers
  <1>9. Baselined'
    <2> SUFFICES ASSUME pc' = "between" PROVE Baselined'
      BY <1>3 DEF Baselined
    <2>1. /\ ~Grinding(p) /\ previous' = Baseline(p)
      BY DEF Compare, Stops
    <2>2. CASE q = None
      BY <1>1, <1>2, <1>3, <2>1, <2>2 DEF IInv, Baselined, Baseline
    <2>3. CASE q # None
      <3>1. previous' = q /\ q \in Int /\ MinImprovement \in Nat
        BY <1>1, <2>1, <2>3, RefineAssumption DEF RefineAssumption, Baseline, None
      <3>2. previous # None => q >= previous + MinImprovement
        BY <1>1, <2>1, <2>3, <3>1, RefineAssumption
           DEF RefineAssumption, IInv, TypeOK, Grinding, None
      <3>3. \A i \in 1..Len(ran) : ran[i].quality # None =>
              ran[i].quality <= q /\ q >= ran[i].quality + MinImprovement
        BY <1>2, <1>3, <1>8, <3>1, <3>2, RefineAssumption
           DEF RefineAssumption, IInv, TypeOK, Baselined, None
      <3> QED BY <1>1, <1>2, <1>3, <2>3, <3>1, <3>3 DEF IInv, Baselined
    <2> QED BY <1>1, <2>2, <2>3
  <1>10. ScoresKeepRising'
    BY <1>2, <1>3 DEF IInv, Baselined, ScoresKeepRising
  <1>11. Paid'
    <2>1. spent < Budget + MaxCost /\ spentTotal' = spentTotal + spent
      BY <1>3 DEF IInv, Paid, Compare
    <2>2. spentTotal < TotalBudget
      BY <1>3, RefineAssumption DEF RefineAssumption, IInv, TypeOK, Paid, OvershootIsOnePass
    <2> QED BY <1>3, <2>1, <2>2, RefineAssumption
            DEF RefineAssumption, IInv, TypeOK, Paid, OvershootIsOnePass
  <1> QED BY <1>5, <1>6, <1>7, <1>9, <1>10, <1>11 DEF IInv

LEMMA EndPassStep == ASSUME IInv, EndPass PROVE IInv'
  <1>1. PICK q \in Levels \union {None}, n \in 1..MaxPassSteps :
          Compare([outcome |-> outcome, quality |-> q, spent |-> spent, steps |-> n])
    BY DEF EndPass
  <1> QED BY <1>1, CompareStep DEF EndPass

LEMMA InitHolds == Init => IInv
  <1> SUFFICES ASSUME Init PROVE IInv
    OBVIOUS
  <1>1. TypeOK
    BY RefineAssumption DEF RefineAssumption, Init, PassInit, TypeOK
  <1>2. Counted /\ BestSoFar /\ Baselined /\ ScoresKeepRising
    BY DEF Init, Counted, BestSoFar, Baselined, ScoresKeepRising
  <1>3. Paid
    BY DEF Init, Paid, OvershootIsOnePass
  <1> QED BY <1>1, <1>2, <1>3 DEF IInv

LEMMA Invariance == Spec => []IInv
  <1>1. IInv /\ UNCHANGED vars => IInv'
    BY DEF vars, IInv, TypeOK, Counted, BestSoFar, Better, Met, Baselined, ScoresKeepRising,
       Paid, OvershootIsOnePass
  <1>2. IInv /\ [Next]_vars => IInv'
    BY <1>1, StartPassStep, BudgetExhaustedStep, RunPassStep, EndPassStep DEF Next
  <1> QED BY <1>2, InitHolds, PTL DEF Spec

-----------------------------------------------------------------------------

\* The variables keep their types, and no more passes run than were asked for.
THEOREM RefineTypeCorrect == Spec => []TypeOK
  BY Invariance, PTL DEF IInv

\* Of any number of passes, compared one by one, none is better than the one returned
\* (beats, runRefined).
THEOREM NothingBetterWasRun == Spec => []NeverWorse
  <1>1. IInv => NeverWorse
    BY DEF IInv, Counted, BestSoFar, NeverWorse
  <1> QED BY <1>1, Invariance, PTL

\* The total overshoots its budget by less than one pass (the budget check).
THEOREM OvershootIsBounded == Spec => []OvershootIsOnePass
  BY Invariance, PTL DEF IInv, Paid

\* Passes that were gone on from improve by the least improvement at least, over any
\* number of unscored passes between them (the anti-oscillation rule).
THEOREM RefiningImproves == Spec => []ScoresKeepRising
  BY Invariance, PTL DEF IInv

-----------------------------------------------------------------------------
(* How long a refinement can be                                            *)

\* The stages a refinement still has ahead: three for each pass, to be started, to
\* end and to be compared.
StagesLeft ==
  IF pc \in {"returned", "threw"} THEN 0
  ELSE IF pc = "between" THEN 3 * (Loops - passes)
  ELSE IF outcome = "running" THEN 3 * (Loops - passes) - 1
  ELSE 3 * (Loops - passes) - 2

\* A pass that is still running leaves them alone; everything else uses one up, and what
\* is held as the best is given up for a better pass only.
RefiningUsesUpItsStages ==
  [][/\ StagesLeft' < StagesLeft \/ (RunPass /\ outcome' = "running" /\ StagesLeft' = StagesLeft)
     /\ best # NoPass /\ best' # best => Better(best', best)]_vars

\* Between two passes there is one left to run, or the refinement would be over.
OneIsLeft == pc \in {"between", "running"} => passes < Loops

LEMMA OneIsAlwaysLeft == Spec => []OneIsLeft
  <1>1. Init => OneIsLeft
    BY RefineAssumption DEF RefineAssumption, Init, OneIsLeft
  <1>2. IInv /\ OneIsLeft /\ [Next]_vars => OneIsLeft'
    <2> SUFFICES ASSUME IInv, OneIsLeft, [Next]_vars PROVE OneIsLeft'
      OBVIOUS
    <2> USE DEF OneIsLeft
    <2>1. ASSUME NEW p, Compare(p) PROVE OneIsLeft'
      BY <2>1, RefineAssumption DEF RefineAssumption, Compare, Stops, IInv, TypeOK
    <2> QED BY <2>1 DEF Next, vars, StartPass, BudgetExhausted, RunPass, EndPass
  <1> QED BY <1>1, <1>2, Invariance, PTL DEF Spec

\* What RefinementEnds needs no fairness for: a refinement goes through at most
\* three stages for each pass it was given, whatever its passes and their scores are,
\* and on the way its result only gets better (runRefined).
THEOREM NoRefinementIsEndless ==
  Spec => RefiningUsesUpItsStages /\ [](StagesLeft \in 0..(3 * Loops))
  <1>1. IInv /\ OneIsLeft => StagesLeft \in 0..(3 * Loops)
    BY RefineAssumption DEF RefineAssumption, IInv, TypeOK, OneIsLeft, StagesLeft
  <1>2. ASSUME IInv, OneIsLeft, OneIsLeft', Next
        PROVE  StagesLeft' < StagesLeft \/ (RunPass /\ outcome' = "running" /\ StagesLeft' = StagesLeft)
    <2> USE RefineAssumption DEF RefineAssumption, StagesLeft, OneIsLeft, IInv, TypeOK
    <2>1. CASE StartPass
      BY <1>2, <2>1 DEF StartPass
    <2>2. CASE BudgetExhausted
      BY <1>2, <2>2 DEF BudgetExhausted
    <2>3. CASE RunPass
      BY <1>2, <2>3 DEF RunPass, PassStep, Outcomes
    <2>4. ASSUME NEW p, Compare(p), outcome # "running" PROVE StagesLeft' < StagesLeft
      BY <1>2, <2>4 DEF Compare
    <2> QED BY <1>2, <2>1, <2>2, <2>3, <2>4 DEF Next, EndPass
  <1>3. ASSUME IInv, Next, best # NoPass, best' # best PROVE Better(best', best)
    <2>1. ASSUME NEW p \in Passes, Compare(p) PROVE Better(best', best)
      BY <1>3, <2>1, BeatsIsBetter DEF Compare, IInv, TypeOK
    <2>2. ASSUME NEW q \in Levels \union {None}, NEW n \in 1..MaxPassSteps, outcome # "running"
          PROVE  [outcome |-> outcome, quality |-> q, spent |-> spent, steps |-> n] \in Passes
      BY <1>3, <2>2 DEF IInv, TypeOK, Passes
    <2> QED BY <1>3, <2>1, <2>2 DEF Next, EndPass, StartPass, BudgetExhausted, RunPass
  <1>4. IInv /\ OneIsLeft /\ OneIsLeft' /\ [Next]_vars =>
          [/\ StagesLeft' < StagesLeft
              \/ (RunPass /\ outcome' = "running" /\ StagesLeft' = StagesLeft)
           /\ best # NoPass /\ best' # best => Better(best', best)]_vars
    BY <1>2, <1>3
  <1> QED BY <1>1, <1>4, Invariance, OneIsAlwaysLeft, PTL DEF Spec, RefiningUsesUpItsStages

-----------------------------------------------------------------------------
(* History: the loop over the file                                         *)

\* One round of the loop: what is kept of the first n elements, from what is kept of those before.
Round(s, T, f, n) ==
  IF n = 0 THEN <<>> ELSE IF s[n] \in T THEN Append(f[n - 1], s[n]) ELSE f[n - 1]

\* A set of numbers has a least one.
LEMMA LeastNumber ==
  ASSUME NEW B, B \subseteq Nat, B # {}
  PROVE  \E m \in B : \A k \in Nat : k < m => k \notin B
  <1>1. PICK m \in B : \A k \in B : ~(<<k, m>> \in OpToRel(<, Nat))
    BY WFMin, NatLessThanWellFounded
  <1>2. OpToRel(<, Nat) = {ss \in Nat \X Nat : ss[1] < ss[2]}
    BY DEF OpToRel
  <1> QED BY <1>1, <1>2

\* The loop has a result: there is a list after each element.
LEMMA FilteringExists ==
  ASSUME NEW s, NEW T, NEW N \in Nat
  PROVE  \E f : f = [n \in 0..N |-> Round(s, T, f, n)]
  <1> DEFINE Good(n) == \E f : f = [m \in 0..n |-> Round(s, T, f, m)]
             Bad == {n \in Nat : ~Good(n)}
  <1> SUFFICES ASSUME Bad # {} PROVE FALSE
    OBVIOUS
  <1>1. PICK n \in Bad : \A k \in Nat : k < n => k \notin Bad
    BY LeastNumber
  <1>2. CASE n = 0
    <2>1. [m \in 0..0 |-> <<>>] = [m \in 0..0 |-> Round(s, T, [k \in 0..0 |-> <<>>], m)]
      BY DEF Round
    <2> QED BY <1>1, <1>2, <2>1
  <1>3. CASE n # 0
    <2>1. n - 1 \in Nat /\ n - 1 < n
      BY <1>3
    <2>2. PICK f : f = [m \in 0..n - 1 |-> Round(s, T, f, m)]
      BY <1>1, <2>1
    <2> DEFINE g == [m \in 0..n |-> IF m = n THEN Round(s, T, f, n) ELSE f[m]]
    <2>3. \A m \in 0..n : g[m] = Round(s, T, g, m)
      <3> SUFFICES ASSUME NEW m \in 0..n PROVE g[m] = Round(s, T, g, m)
        OBVIOUS
      <3>1. m # 0 => g[m - 1] = f[m - 1]
        BY <1>3
      <3>2. Round(s, T, g, m) = Round(s, T, f, m)
        BY <3>1 DEF Round
      <3>3. CASE m = n
        BY <3>2, <3>3
      <3>4. CASE m # n
        <4>1. m \in 0..n - 1 /\ g[m] = f[m]
          BY <3>4
        <4>2. f[m] = Round(s, T, f, m)
          BY <4>1, <2>2
        <4> QED BY <3>2, <4>1, <4>2
      <3> QED BY <3>3, <3>4
    <2>4. g = [m \in 0..n |-> Round(s, T, g, m)]
      BY <2>3
    <2> HIDE DEF g
    <2> QED BY <1>1, <2>4
  <1> QED BY <1>2, <1>3

\* Filtering is the loop: the list after each element is one round more.
LEMMA FilteringUnfolds ==
  ASSUME NEW S, NEW s \in Seq(S), NEW T
  PROVE  Filtering(s, T) = [n \in 0..Len(s) |-> Round(s, T, Filtering(s, T), n)]
  <1>1. Filtering(s, T) = CHOOSE f : f = [n \in 0..Len(s) |-> Round(s, T, f, n)]
    BY DEF Filtering, Round
  <1>2. \E f : f = [n \in 0..Len(s) |-> Round(s, T, f, n)]
    <2>1. Len(s) \in Nat
      OBVIOUS
    <2> QED BY <2>1, FilteringExists
  <1> QED BY <1>1, <1>2

\* What is kept is in the set and from the sequence.
LEMMA FilteringType ==
  ASSUME NEW S, NEW s \in Seq(S), NEW T, NEW n \in 0..Len(s)
  PROVE  Filtering(s, T)[n] \in Seq(S \cap T)
  <1> DEFINE F == Filtering(s, T)
             Bad == {m \in 0..Len(s) : F[m] \notin Seq(S \cap T)}
  <1>1. \A m \in 0..Len(s) : F[m] = Round(s, T, F, m)
    <2>1. F = [m \in 0..Len(s) |-> Round(s, T, F, m)]
      BY FilteringUnfolds
    <2> HIDE DEF F
    <2> QED BY <2>1
  <1> HIDE DEF F
  <1> SUFFICES ASSUME Bad # {} PROVE FALSE
    BY DEF F
  <1>2. Bad \subseteq Nat
    OBVIOUS
  <1>3. PICK m \in Bad : \A k \in Nat : k < m => k \notin Bad
    BY <1>2, LeastNumber
  <1>4. m \in 0..Len(s) /\ F[m] \notin Seq(S \cap T) /\ F[m] = Round(s, T, F, m)
    BY <1>1, <1>3
  <1>5. CASE m = 0
    BY <1>4, <1>5 DEF Round
  <1>6. CASE m # 0
    <2>1. m - 1 \in 0..Len(s) /\ m - 1 < m /\ m - 1 \in Nat /\ s[m] \in S
      BY <1>4, <1>6
    <2>2. F[m - 1] \in Seq(S \cap T)
      BY <1>3, <2>1
    <2>3. s[m] \in T => Append(F[m - 1], s[m]) \in Seq(S \cap T)
      BY <2>1, <2>2, AppendProperties
    <2> QED BY <1>4, <1>6, <2>2, <2>3 DEF Round
  <1> QED BY <1>5, <1>6

\* The loop does not look ahead: sequences that begin alike are filtered alike.
LEMMA FilteringAgrees ==
  ASSUME NEW S, NEW s \in Seq(S), NEW t \in Seq(S), NEW T, NEW n \in Nat,
         n <= Len(s), n <= Len(t), \A i \in 1..n : s[i] = t[i]
  PROVE  Filtering(s, T)[n] = Filtering(t, T)[n]
  <1> DEFINE F == Filtering(s, T)
             G == Filtering(t, T)
             Bad == {m \in 0..n : F[m] # G[m]}
  <1>1. /\ \A m \in 0..Len(s) : F[m] = Round(s, T, F, m)
        /\ \A m \in 0..Len(t) : G[m] = Round(t, T, G, m)
    <2>1. F = [m \in 0..Len(s) |-> Round(s, T, F, m)]
      BY FilteringUnfolds
    <2>2. G = [m \in 0..Len(t) |-> Round(t, T, G, m)]
      BY FilteringUnfolds
    <2> HIDE DEF F, G
    <2> QED BY <2>1, <2>2
  <1> HIDE DEF F, G
  <1> SUFFICES ASSUME Bad # {} PROVE FALSE
    BY DEF F, G
  <1>2. Bad \subseteq Nat
    OBVIOUS
  <1>3. PICK m \in Bad : \A k \in Nat : k < m => k \notin Bad
    BY <1>2, LeastNumber
  <1>4. m \in 0..n /\ F[m] # G[m] /\ F[m] = Round(s, T, F, m) /\ G[m] = Round(t, T, G, m)
    BY <1>1, <1>3
  <1>5. CASE m = 0
    BY <1>4, <1>5 DEF Round
  <1>6. CASE m # 0
    <2>1. m - 1 \in 0..n /\ m - 1 < m /\ m - 1 \in Nat /\ s[m] = t[m]
      BY <1>4, <1>6
    <2>2. F[m - 1] = G[m - 1]
      BY <1>3, <2>1
    <2> QED BY <1>4, <1>6, <2>1, <2>2 DEF Round
  <1> QED BY <1>5, <1>6

\* What the loop returns is in the set and from the sequence.
LEMMA KeptType ==
  ASSUME NEW S, NEW s \in Seq(S), NEW T
  PROVE  Kept(s, T) \in Seq(S \cap T)
  <1>1. Len(s) \in 0..Len(s)
    OBVIOUS
  <1> QED BY <1>1, FilteringType DEF Kept

\* Nothing is kept of nothing.
LEMMA KeptEmpty == ASSUME NEW T PROVE Kept(<<>>, T) = <<>>
  <1>1. ASSUME NEW e \in Seq({}), Len(e) = 0
        PROVE  Kept(e, T) = <<>>
    <2>1. Filtering(e, T) = [n \in 0..Len(e) |-> Round(e, T, Filtering(e, T), n)]
      BY FilteringUnfolds
    <2>2. Filtering(e, T)[0] = Round(e, T, Filtering(e, T), 0)
      BY <1>1, <2>1
    <2> QED BY <1>1, <2>2 DEF Kept, Round
  <1>2. <<>> \in Seq({}) /\ Len(<<>>) = 0
    OBVIOUS
  <1> QED BY <1>1, <1>2

\* One more element is kept or not; what was kept before stays.
LEMMA KeptAppend ==
  ASSUME NEW S, NEW s \in Seq(S), NEW x \in S, NEW T
  PROVE  Kept(Append(s, x), T) = IF x \in T THEN Append(Kept(s, T), x) ELSE Kept(s, T)
  <1> DEFINE t == Append(s, x)
  <1>1. /\ Len(s) \in Nat /\ t \in Seq(S) /\ Len(t) = Len(s) + 1 /\ t[Len(s) + 1] = x
        /\ \A i \in 1..Len(s) : t[i] = s[i]
    BY AppendProperties
  <1> HIDE DEF t
  <1>2. Filtering(t, T) = [n \in 0..Len(t) |-> Round(t, T, Filtering(t, T), n)]
    BY <1>1, FilteringUnfolds
  <1>3. Filtering(t, T)[Len(t)] = Round(t, T, Filtering(t, T), Len(t))
    BY <1>1, <1>2
  <1>4. Filtering(s, T)[Len(s)] = Filtering(t, T)[Len(s)]
    BY <1>1, FilteringAgrees
  <1>5. Len(t) # 0 /\ Len(t) - 1 = Len(s) /\ t[Len(t)] = x
    BY <1>1
  <1>6. Kept(t, T) = IF x \in T THEN Append(Kept(s, T), x) ELSE Kept(s, T)
    BY <1>3, <1>4, <1>5 DEF Kept, Round
  <1> QED BY <1>6 DEF t

\* Two sequences that differ in their last element are each the rest and that element.
LEMMA LastSplit ==
  ASSUME NEW S, NEW s \in Seq(S), NEW t \in Seq(S), s # <<>>, Len(t) = Len(s),
         \A i \in 1..Len(s) - 1 : t[i] = s[i]
  PROVE  \E r \in Seq(S) : /\ s = Append(r, s[Len(s)]) /\ s[Len(s)] \in S
                           /\ t = Append(r, t[Len(t)]) /\ t[Len(t)] \in S
  <1>1. Len(s) \in Nat \ {0} /\ s[Len(s)] \in S /\ t[Len(t)] \in S
    BY EmptySeq
  <1> DEFINE r == [i \in 1..Len(s) - 1 |-> s[i]]
  <1>2. r \in Seq(S) /\ Len(r) = Len(s) - 1
    BY <1>1, IsASeq
  <1>3. s = Append(r, s[Len(s)])
    BY <1>1, <1>2, SeqEqual, AppendProperties
  <1>4. t = Append(r, t[Len(t)])
    BY <1>1, <1>2, SeqEqual, AppendProperties
  <1> QED BY <1>1, <1>2, <1>3, <1>4

-----------------------------------------------------------------------------
(* The percentile                                                          *)

\* A bounded set of numbers has a greatest one.
LEMMA GreatestNumber ==
  ASSUME NEW B, B \subseteq Nat, B # {}, NEW b \in Nat, \A n \in B : n <= b
  PROVE  \E m \in B : \A n \in B : n <= m
  <1> DEFINE U == {u \in Nat : \A n \in B : n <= u}
  <1>1. U \subseteq Nat /\ U # {}
    OBVIOUS
  <1>2. PICK u \in U : \A k \in Nat : k < u => k \notin U
    BY <1>1, LeastNumber
  <1>3. CASE u \in B
    BY <1>2, <1>3
  <1>4. CASE u \notin B
    <2>1. \A n \in B : n < u
      BY <1>2, <1>4
    <2>2. u - 1 \in Nat /\ u - 1 < u
      <3>1. PICK n \in B : TRUE
        OBVIOUS
      <3>2. n \in Nat /\ u \in Nat /\ n < u
        BY <1>2, <2>1
      <3> QED BY <3>2
    <2>3. \A n \in B : n <= u - 1
      BY <2>1, <1>2
    <2> QED BY <1>2, <2>2, <2>3
  <1> QED BY <1>3, <1>4

\* A sequence of records, index by index.
LEMMA RecordNumbers ==
  ASSUME NEW s \in Seq(RunRecord)
  PROVE  /\ Len(s) \in Nat /\ DOMAIN s = 1..Len(s)
         /\ \A i \in 1..Len(s) : s[i] \in RunRecord /\ s[i].steps \in Nat
  <1>1. Len(s) \in Nat /\ DOMAIN s = 1..Len(s) /\ \A i \in 1..Len(s) : s[i] \in RunRecord
    OBVIOUS
  <1>2. \A r \in RunRecord : r.steps \in Nat
    BY DEF RunRecord
  <1> QED BY <1>1, <1>2

\* The larger of two numbers is no smaller than either.
LEMMA LargerBounds ==
  ASSUME NEW a \in Nat, NEW b \in Nat
  PROVE  Larger(a, b) \in Nat /\ a <= Larger(a, b) /\ b <= Larger(a, b)
  BY DEF Larger

\* Finitely many records have a bound on their steps.
LEMMA StepsAreBounded ==
  ASSUME NEW s \in Seq(RunRecord)
  PROVE  \E b \in Nat : \A i \in 1..Len(s) : s[i].steps <= b
  <1> DEFINE Bounded(n) == \E b \in Nat : \A i \in 1..n : s[i].steps <= b
  <1>1. Len(s) \in Nat /\ \A i \in 1..Len(s) : s[i].steps \in Nat
    BY RecordNumbers
  <1>2. Bounded(0)
    <2>1. \A i \in 1..0 : s[i].steps <= 0
      OBVIOUS
    <2> QED BY <2>1
  <1>3. ASSUME NEW n \in 1..Len(s), Bounded(n - 1)
        PROVE  Bounded(n)
    <2>1. PICK b \in Nat : \A i \in 1..n - 1 : s[i].steps <= b
      BY <1>3
    <2>2. s[n].steps \in Nat
      BY <1>1
    <2> DEFINE c == Larger(b, s[n].steps)
    <2>3. b \in Nat /\ c \in Nat /\ b <= c /\ s[n].steps <= c
      BY <2>1, <2>2, LargerBounds
    <2> HIDE DEF c
    <2>4. ASSUME NEW i \in 1..n
          PROVE  s[i].steps <= c
      <3>1. s[i].steps \in Nat
        BY <1>1
      <3>2. i = n \/ i \in 1..n - 1
        BY <1>1
      <3>3. CASE i = n
        BY <2>3, <3>3
      <3>4. CASE i \in 1..n - 1
        <4>1. s[i].steps <= b
          BY <2>1, <3>4
        <4> QED BY <2>3, <3>1, <4>1
      <3> QED BY <3>2, <3>3, <3>4
    <2> QED BY <2>3, <2>4
  <1> HIDE DEF Bounded
  <1> DEFINE Bad == {n \in 0..Len(s) : ~Bounded(n)}
  <1> SUFFICES ASSUME Bad # {} PROVE FALSE
    <2>1. Len(s) \in 0..Len(s)
      BY <1>1
    <2> QED BY <2>1 DEF Bounded
  <1>4. Bad \subseteq Nat
    BY <1>1
  <1>5. PICK n \in Bad : \A k \in Nat : k < n => k \notin Bad
    BY <1>4, LeastNumber
  <1>6. n \in 1..Len(s)
    BY <1>1, <1>2, <1>5
  <1>7. n - 1 \in Nat /\ n - 1 < n /\ n - 1 \in 0..Len(s)
    BY <1>1, <1>6
  <1> QED BY <1>3, <1>5, <1>6, <1>7

\* Of at least one record, the rank is a number on record; so many percent of the
\* records do not exceed it, and fewer do not exceed any smaller number on record (p95).
THEOREM RankIsNearest ==
  ASSUME NEW s \in Seq(RunRecord), s # <<>>
  PROVE  /\ \E i \in 1..Len(s) : Rank(s) = s[i].steps
         /\ 100 * AtMost(s, Rank(s)) >= Percent * Len(s)
         /\ \A i \in 1..Len(s) : s[i].steps < Rank(s) =>
              ~(100 * AtMost(s, s[i].steps) >= Percent * Len(s))
  <1> DEFINE counts == {s[i].steps : i \in 1..Len(s)}
             enough == {n \in counts : 100 * AtMost(s, n) >= Percent * Len(s)}
  <1>1. /\ Len(s) \in Nat /\ Len(s) # 0 /\ DOMAIN s = 1..Len(s)
        /\ \A i \in 1..Len(s) : s[i].steps \in Nat
    BY RecordNumbers, EmptySeq
  <1>2. counts \subseteq Nat /\ s[1].steps \in counts
    BY <1>1
  <1>3. PICK m \in counts : \A n \in counts : n <= m
    <2>1. PICK b \in Nat : \A i \in 1..Len(s) : s[i].steps <= b
      BY StepsAreBounded
    <2>2. \A n \in counts : n <= b
      BY <2>1
    <2> HIDE DEF counts
    <2> QED BY <1>2, <2>2, GreatestNumber
  <1>4. m \in enough
    <2>1. {i \in DOMAIN s : s[i].steps <= m} = 1..Len(s)
      BY <1>1, <1>3
    <2>2. Cardinality(1..Len(s)) = Len(s)
      BY <1>1, FS_Interval
    <2>3. AtMost(s, m) = Len(s)
      BY <2>1, <2>2 DEF AtMost
    <2>4. Percent * Len(s) <= 100 * Len(s)
      BY <1>1, HistoryAssumption DEF HistoryAssumption
    <2>5. Percent * Len(s) \in Int
      BY <1>1, HistoryAssumption DEF HistoryAssumption
    <2> QED BY <1>1, <2>3, <2>4, <2>5
  <1>5. \E n \in enough : \A k \in enough : n <= k
    <2>1. enough \subseteq Nat /\ enough # {}
      BY <1>2, <1>4
    <2> HIDE DEF enough
    <2>2. PICK n \in enough : \A k \in Nat : k < n => k \notin enough
      BY <2>1, LeastNumber
    <2>3. \A k \in enough : n <= k
      BY <2>1, <2>2
    <2> QED BY <2>3
  <1>6. Rank(s) = CHOOSE n \in enough : \A k \in enough : n <= k
    BY <1>1 DEF Rank
  <1>7. Rank(s) \in enough /\ \A k \in enough : Rank(s) <= k
    <2> HIDE DEF enough
    <2> QED BY <1>5, <1>6
  <1>8. ASSUME NEW i \in 1..Len(s), s[i].steps < Rank(s),
               100 * AtMost(s, s[i].steps) >= Percent * Len(s)
        PROVE  FALSE
    <2>1. s[i].steps \in enough
      BY <1>8
    <2>2. Rank(s) <= s[i].steps /\ Rank(s) \in Nat /\ s[i].steps \in Nat
      BY <1>1, <1>2, <1>7, <2>1
    <2> QED BY <1>8, <2>2
  <1> QED BY <1>7, <1>8

-----------------------------------------------------------------------------
(* The plan                                                                *)

\* The largest number a record or a ceiling may have.
Wide == Larger(reach, MinSteps)

\* The records that runs under such ceilings, and sessions, leave.
Plausible(w) == {r \in RunRecord : r.spec <= w /\ r.steps <= w}

\* The reader returns records only, and those of the file.
LEMMA RecordsType ==
  ASSUME NEW w, lines \in Seq(Plausible(w) \union {Torn})
  PROVE  Records \in Seq(Plausible(w))
  <1>1. (Plausible(w) \union {Torn}) \cap RunRecord = Plausible(w)
    BY DEF Plausible, Torn, RunRecord
  <1>2. Records \in Seq((Plausible(w) \union {Torn}) \cap RunRecord)
    BY KeptType DEF Records
  <1> QED BY <1>1, <1>2

\* The group used is made of records that were read.
LEMMA UsableType ==
  ASSUME NEW B, Records \in Seq(B)
  PROVE  usable \in Seq(B)
  <1>1. \A spec : Under(spec) \in Seq(B)
    <2> SUFFICES ASSUME NEW spec PROVE Under(spec) \in Seq(B)
      OBVIOUS
    <2> DEFINE T == [spec : {spec}, steps : Nat, met : BOOLEAN]
    <2>1. Under(spec) \in Seq(B \cap T)
      BY KeptType DEF Under
    <2>2. Seq(B \cap T) \subseteq Seq(B)
      BY SeqMonotonic
    <2> QED BY <2>1, <2>2
  <1>2. <<>> \in Seq(B)
    OBVIOUS
  <1> QED BY <1>1, <1>2 DEF usable

\* The window is some of the group, and not nothing.
LEMMA WindowType ==
  ASSUME NEW B, usable \in Seq(B), Len(usable) >= MinUsable
  PROVE  Recent \in Seq(B) /\ Recent # <<>>
  <1> DEFINE a == Larger(1, Len(usable) - Window + 1)
  <1>1. Len(usable) \in Nat /\ Len(usable) >= 1
    BY HistoryAssumption DEF HistoryAssumption
  <1>2. a \in 1..Len(usable)
    BY <1>1, HistoryAssumption DEF HistoryAssumption, Larger
  <1>3. Recent = SubSeq(usable, a, Len(usable))
    BY DEF Recent
  <1> HIDE DEF a
  <1>4. Recent \in Seq(B) /\ Len(Recent) = Len(usable) - a + 1
    BY <1>1, <1>2, <1>3, SubSeqProperties
  <1>5. Recent # <<>>
    BY <1>1, <1>2, <1>4, EmptySeq
  <1> QED BY <1>4, <1>5

\* The longest run of the group that met its goal, or none.
LEMMA HighestMetIsHighest ==
  ASSUME NEW w \in Nat, usable \in Seq(Plausible(w))
  PROVE  /\ highestMet \in 0..w
         /\ \A i \in DOMAIN usable : usable[i].met => usable[i].steps <= highestMet
  <1>1. \A i \in DOMAIN usable : usable[i].steps \in 0..w
    <2>1. \A r \in Plausible(w) : r.steps \in 0..w
      BY DEF Plausible, RunRecord
    <2>2. \A i \in DOMAIN usable : usable[i] \in Plausible(w)
      OBVIOUS
    <2> QED BY <2>1, <2>2
  <1>2. /\ metSteps \subseteq 0..w /\ 0 \in metSteps
        /\ \A i \in DOMAIN usable : usable[i].met => usable[i].steps \in metSteps
    BY <1>1 DEF metSteps
  <1>3. metSteps \subseteq Nat /\ metSteps # {} /\ \A n \in metSteps : n <= w
    BY <1>2
  <1>4. \E m \in metSteps : \A n \in metSteps : n <= m
    BY <1>3, GreatestNumber
  <1>5. highestMet \in metSteps /\ \A m \in metSteps : m <= highestMet
    BY <1>4 DEF highestMet
  <1> QED BY <1>2, <1>5

\* The band, from the least ceiling to the configured one.
LEMMA ClampIsInBand ==
  ASSUME NEW n \in Int, NEW c \in Nat
  PROVE  LET k == Larger(Smaller(n, Larger(c, MinSteps)), MinSteps)
         IN  k \in Nat /\ MinSteps <= k /\ k <= Larger(c, MinSteps)
  BY HistoryAssumption DEF HistoryAssumption, Larger, Smaller

\* What is derived from a history of plausible records: at least the least ceiling and
\* every proven success of the group, and at most the band or such a success.
LEMMA DerivedInBand ==
  ASSUME NEW w \in Nat, Records \in Seq(Plausible(w)), Len(usable) >= MinUsable,
         config \in Nat
  PROVE  /\ Derived \in Nat /\ MinSteps <= Derived
         /\ Derived <= Larger(config, MinSteps) \/ Derived <= w
         /\ \A i \in DOMAIN usable : usable[i].met => usable[i].steps <= Derived
  <1> DEFINE k == Clamp(WithHeadroom(Rank(Recent)))
  <1>1. usable \in Seq(Plausible(w))
    BY UsableType
  <1>2. Recent \in Seq(Plausible(w)) /\ Recent # <<>>
    BY <1>1, WindowType
  <1>3. Recent \in Seq(RunRecord)
    <2>1. Plausible(w) \subseteq RunRecord
      BY DEF Plausible
    <2>2. Seq(Plausible(w)) \subseteq Seq(RunRecord)
      BY <2>1, SeqMonotonic
    <2> QED BY <1>2, <2>2
  <1>4. Derived = Larger(k, highestMet)
    BY DEF Derived
  <1>5. Rank(Recent) \in Nat
    BY <1>2, <1>3, RankIsNearest, RecordNumbers
  <1>6. WithHeadroom(Rank(Recent)) \in Int
    <2>1. HeadroomTenths * Rank(Recent) \in Int
      BY <1>5, HistoryAssumption DEF HistoryAssumption
    <2> QED BY <2>1 DEF WithHeadroom
  <1>7. k \in Nat /\ MinSteps <= k /\ k <= Larger(config, MinSteps)
    BY <1>6, ClampIsInBand DEF Clamp
  <1> HIDE DEF k
  <1>8. /\ highestMet \in 0..w
        /\ \A i \in DOMAIN usable : usable[i].met => usable[i].steps <= highestMet
    BY <1>1, HighestMetIsHighest
  <1>9. /\ Derived \in Nat /\ k <= Derived /\ highestMet <= Derived
        /\ Derived = k \/ Derived = highestMet
    BY <1>4, <1>7, <1>8 DEF Larger
  <1>10. MinSteps \in Nat
    BY HistoryAssumption DEF HistoryAssumption
  <1>11. \A i \in DOMAIN usable : usable[i].steps \in Nat
    <2>1. \A r \in Plausible(w) : r.steps \in Nat
      BY DEF Plausible, RunRecord
    <2>2. \A i \in DOMAIN usable : usable[i] \in Plausible(w)
      BY <1>1
    <2> QED BY <2>1, <2>2
  <1>12. \A i \in DOMAIN usable : usable[i].met => usable[i].steps <= Derived
    BY <1>8, <1>9, <1>11
  <1>13. MinSteps <= Derived
    BY <1>7, <1>9, <1>10
  <1>14. Derived <= Larger(config, MinSteps) \/ Derived <= w
    BY <1>7, <1>8, <1>9
  <1> QED BY <1>9, <1>12, <1>13, <1>14

\* Of two ceilings the higher has room for no fewer runs.
LEMMA MoreFit ==
  ASSUME NEW s \in Seq(RunRecord), NEW n \in Nat, NEW m \in Nat, n <= m
  PROVE  AtMost(s, n) \in Nat /\ AtMost(s, m) \in Nat /\ AtMost(s, n) <= AtMost(s, m)
  <1> DEFINE A == {i \in DOMAIN s : s[i].steps <= n}
             B == {i \in DOMAIN s : s[i].steps <= m}
  <1>1. /\ Len(s) \in Nat /\ DOMAIN s = 1..Len(s)
        /\ \A i \in 1..Len(s) : s[i].steps \in Nat
    BY RecordNumbers
  <1>2. A \subseteq B /\ B \subseteq 1..Len(s)
    BY <1>1
  <1>3. AtMost(s, n) = Cardinality(A) /\ AtMost(s, m) = Cardinality(B)
    BY DEF AtMost
  <1> HIDE DEF A, B
  <1>4. IsFiniteSet(1..Len(s))
    BY <1>1, FS_Interval
  <1>5. IsFiniteSet(B) /\ IsFiniteSet(A) /\ Cardinality(A) <= Cardinality(B)
    BY <1>2, <1>4, FS_Subset
  <1> QED BY <1>3, <1>5, FS_CardinalityType

\* The headroom never takes anything away.
LEMMA HeadroomAdds == ASSUME NEW n \in Nat PROVE WithHeadroom(n) \in Nat /\ n <= WithHeadroom(n)
  <1>1. HeadroomTenths \in Nat /\ HeadroomTenths >= 10
    BY HistoryAssumption DEF HistoryAssumption
  <1>2. HeadroomTenths * n \in Nat /\ HeadroomTenths * n >= 10 * n
    BY <1>1
  <1>3. ASSUME NEW x \in Nat, x >= 10 * n
        PROVE  (x + 9) \div 10 \in Nat /\ n <= (x + 9) \div 10
    BY <1>3
  <1> QED BY <1>2, <1>3 DEF WithHeadroom

\* A derived ceiling that the configured one does not cut has room for that percentage
\* of the recent runs.
LEMMA DerivedFits ==
  ASSUME NEW w \in Nat, Records \in Seq(Plausible(w)), Len(usable) >= MinUsable,
         config \in Nat, Derived < Larger(config, MinSteps)
  PROVE  100 * AtMost(Recent, Derived) >= Percent * Len(Recent)
  <1> DEFINE rank == Rank(Recent)
             band == Larger(config, MinSteps)
  <1>1. usable \in Seq(Plausible(w))
    BY UsableType
  <1>2. Recent \in Seq(RunRecord) /\ Recent # <<>>
    <2>1. Plausible(w) \subseteq RunRecord
      BY DEF Plausible
    <2>2. Seq(Plausible(w)) \subseteq Seq(RunRecord)
      BY <2>1, SeqMonotonic
    <2> QED BY <1>1, <2>2, WindowType
  <1>3. rank \in Nat /\ 100 * AtMost(Recent, rank) >= Percent * Len(Recent)
    BY <1>2, RankIsNearest, RecordNumbers
  <1>4. Derived \in Nat /\ highestMet \in Nat
    BY <1>1, DerivedInBand, HighestMetIsHighest
  <1>5. WithHeadroom(rank) \in Nat /\ rank <= WithHeadroom(rank)
    BY <1>3, HeadroomAdds
  <1>6. band \in Nat /\ MinSteps \in Nat
    BY HistoryAssumption DEF HistoryAssumption, Larger
  <1>7. Derived = Larger(Larger(Smaller(WithHeadroom(rank), band), MinSteps), highestMet)
    BY DEF Derived, Clamp
  <1>8. Derived < band
    OBVIOUS
  <1> HIDE DEF rank, band
  <1>9. rank <= Derived
    BY <1>3, <1>4, <1>5, <1>6, <1>7, <1>8 DEF Larger, Smaller
  <1>10. AtMost(Recent, rank) \in Nat /\ AtMost(Recent, Derived) \in Nat
         /\ AtMost(Recent, rank) <= AtMost(Recent, Derived)
    BY <1>2, <1>3, <1>4, <1>9, MoreFit
  <1>11. Percent * Len(Recent) \in Int
    BY <1>2, HistoryAssumption DEF HistoryAssumption
  <1> QED BY <1>3, <1>10, <1>11

-----------------------------------------------------------------------------
(* The invariant                                                           *)

\* A last line that is a record, and that the next append will spoil.
AtRisk == IF unended /\ lines[Len(lines)] \in RunRecord THEN 1 ELSE 0

\* Every record that is missing is on a death's account, and so is what the append
\* after it may cost: its own record, and the one at risk.
Accounted ==
  /\ finished - Len(Records) + AtRisk + (IF unended THEN 1 ELSE 0) <= 2 * crashes
  /\ malformed + AtRisk <= crashes

\* The types of the variables, with what the lines may hold.
HistoryTypes ==
  /\ lines \in Seq(Plausible(Wide) \union {Torn})
  /\ unended \in BOOLEAN
  /\ unended => lines # <<>>
  /\ config \in Configs
  /\ running \in [Procs -> Nat]
  /\ session \in 0..MaxSession
  /\ finished \in Nat /\ crashes \in Nat /\ reach \in Nat

\* Whatever sets a ceiling or a length is within reach.
WithinReach == config <= reach /\ session <= reach

HistoryInv == HistoryTypes /\ WithinReach /\ CeilingsDoNotCompound /\ Accounted

\* A file of plausible records stays one when the reach grows.
LEMMA PlausibleGrows ==
  ASSUME NEW v \in Nat, NEW w \in Nat, v <= w
  PROVE  Seq(Plausible(v) \union {Torn}) \subseteq Seq(Plausible(w) \union {Torn})
  <1>1. Plausible(v) \subseteq Plausible(w)
    BY DEF Plausible, RunRecord
  <1>2. Plausible(v) \union {Torn} \subseteq Plausible(w) \union {Torn}
    BY <1>1
  <1> QED BY <1>2, SeqMonotonic

\* Nothing a ceiling may be owed to is beyond Wide.
LEMMA WideIsWide ==
  ASSUME HistoryTypes
  PROVE  Wide \in Nat /\ reach <= Wide /\ MinSteps <= Wide
  BY HistoryAssumption DEF HistoryAssumption, HistoryTypes, Wide, Larger

\* Whatever the history, the plan is a ceiling, and within reach.
LEMMA PlannedInBand ==
  ASSUME HistoryInv
  PROVE  planned \in 1..Wide
  <1>1. /\ config \in Nat \ {0} /\ config <= reach /\ reach \in Nat
    BY HistoryAssumption DEF HistoryAssumption, HistoryInv, HistoryTypes, WithinReach
  <1>2. Wide \in Nat /\ reach <= Wide /\ MinSteps <= Wide /\ MinSteps \in Nat \ {0}
    BY WideIsWide, HistoryAssumption DEF HistoryAssumption, HistoryInv
  <1>3. CASE Len(usable) < MinUsable
    BY <1>1, <1>2, <1>3 DEF planned
  <1>4. CASE ~(Len(usable) < MinUsable)
    <2>1. Records \in Seq(Plausible(Wide))
      BY RecordsType DEF HistoryInv, HistoryTypes
    <2>2. Len(usable) \in Nat
      BY <2>1, UsableType
    <2>3. Len(usable) >= MinUsable
      BY <1>4, <2>2, HistoryAssumption DEF HistoryAssumption
    <2>4. /\ Derived \in Nat /\ MinSteps <= Derived
          /\ Derived <= Larger(config, MinSteps) \/ Derived <= Wide
      BY <1>1, <1>2, <2>1, <2>3, DerivedInBand
    <2>5. Larger(config, MinSteps) <= Wide
      BY <1>1, <1>2 DEF Larger
    <2>6. Larger(config, MinSteps) \in Nat
      BY <1>1, <1>2 DEF Larger
    <2> QED BY <1>2, <1>4, <2>4, <2>5, <2>6 DEF planned
  <1> QED BY <1>3, <1>4

-----------------------------------------------------------------------------
(* Appending                                                               *)

\* The reader's counts, of a line more and of a last line gone bad.
LEMMA ReadOneMore ==
  ASSUME NEW w, lines \in Seq(Plausible(w) \union {Torn}),
         NEW r \in Plausible(w) \union {Torn}, lines' = Append(lines, r)
  PROVE  /\ lines' \in Seq(Plausible(w) \union {Torn})
         /\ lines' # <<>> /\ Len(lines') = Len(lines) + 1 /\ lines'[Len(lines')] = r
         /\ Len(Records') = IF r \in RunRecord THEN Len(Records) + 1 ELSE Len(Records)
  <1>1. Len(lines) \in Nat
    OBVIOUS
  <1>2. /\ lines' \in Seq(Plausible(w) \union {Torn})
        /\ lines' # <<>> /\ Len(lines') = Len(lines) + 1 /\ lines'[Len(lines')] = r
    BY <1>1, AppendProperties
  <1>3. Records' = IF r \in RunRecord THEN Append(Records, r) ELSE Records
    BY KeptAppend DEF Records
  <1>4. Records \in Seq(Plausible(w))
    BY RecordsType
  <1>5. r \in RunRecord => r \in Plausible(w)
    BY DEF Torn, RunRecord
  <1>6. r \in RunRecord => Len(Append(Records, r)) = Len(Records) + 1
    BY <1>4, <1>5, AppendProperties
  <1> QED BY <1>2, <1>3, <1>6

\* When the last element alone goes bad, what it was is lost and nothing else.
LEMMA KeptLastBad ==
  ASSUME NEW S, NEW s \in Seq(S), NEW t \in Seq(S), s # <<>>, Len(t) = Len(s),
         \A i \in 1..Len(s) - 1 : t[i] = s[i], NEW T, t[Len(t)] \notin T
  PROVE  Len(Kept(s, T)) = IF s[Len(s)] \in T THEN Len(Kept(t, T)) + 1 ELSE Len(Kept(t, T))
  <1> DEFINE x == s[Len(s)]
             y == t[Len(t)]
  <1>1. PICK r \in Seq(S) : s = Append(r, x) /\ x \in S /\ t = Append(r, y) /\ y \in S
    BY LastSplit
  <1>2. y \notin T
    OBVIOUS
  <1> HIDE DEF x, y
  <1>3. Kept(r, T) \in Seq(S \cap T)
    BY KeptType
  <1>4. Kept(s, T) = IF x \in T THEN Append(Kept(r, T), x) ELSE Kept(r, T)
    BY <1>1, KeptAppend
  <1>5. Kept(t, T) = Kept(r, T)
    BY <1>1, <1>2, KeptAppend
  <1>6. x \in T => Len(Append(Kept(r, T), x)) = Len(Kept(r, T)) + 1
    BY <1>1, <1>3, AppendProperties
  <1> QED BY <1>4, <1>5, <1>6 DEF x

\* An append to a line that was never ended spoils that line alone.
LEMMA ReadLastTorn ==
  ASSUME NEW w, lines \in Seq(Plausible(w) \union {Torn}), lines # <<>>,
         lines' = [lines EXCEPT ![Len(lines)] = Torn]
  PROVE  /\ lines' \in Seq(Plausible(w) \union {Torn})
         /\ lines' # <<>> /\ Len(lines') = Len(lines) /\ lines'[Len(lines')] = Torn
         /\ Len(Records) = IF lines[Len(lines)] \in RunRecord
                           THEN Len(Records') + 1 ELSE Len(Records')
  <1> DEFINE S == Plausible(w) \union {Torn}
  <1>1. Torn \in S /\ Torn \notin RunRecord
    BY DEF Torn, RunRecord
  <1>2. Len(lines) \in Nat \ {0} /\ lines \in Seq(S)
    BY EmptySeq
  <1> HIDE DEF S
  <1>3. /\ lines' \in Seq(S) /\ Len(lines') = Len(lines) /\ lines'[Len(lines)] = Torn
        /\ \A i \in 1..Len(lines) - 1 : lines'[i] = lines[i]
    BY <1>1, <1>2, ExceptSeq
  <1>4. lines' # <<>>
    BY <1>2, <1>3, EmptySeq
  <1>5. Len(Kept(lines, RunRecord)) = IF lines[Len(lines)] \in RunRecord
                                      THEN Len(Kept(lines', RunRecord)) + 1
                                      ELSE Len(Kept(lines', RunRecord))
    <2>1. lines'[Len(lines')] \notin RunRecord
      BY <1>1, <1>3
    <2>2. \A s, t \in Seq(S) :
            /\ s # <<>> /\ Len(t) = Len(s)
            /\ \A i \in 1..Len(s) - 1 : t[i] = s[i]
            /\ t[Len(t)] \notin RunRecord
            => Len(Kept(s, RunRecord)) = IF s[Len(s)] \in RunRecord
                                         THEN Len(Kept(t, RunRecord)) + 1
                                         ELSE Len(Kept(t, RunRecord))
      BY KeptLastBad
    <2> QED BY <1>2, <1>3, <2>1, <2>2
  <1> QED BY <1>3, <1>4, <1>5 DEF S, Records

\* The file as the appends leave it, under some bound on its numbers.
FileTypes(w) ==
  /\ lines \in Seq(Plausible(w) \union {Torn})
  /\ unended \in BOOLEAN
  /\ unended => lines # <<>>
  /\ finished \in Nat /\ crashes \in Nat

\* The reader counts every line once, as a record or as a bad line.
LEMMA Lengths ==
  ASSUME NEW w, FileTypes(w)
  PROVE  Len(Records) \in Nat /\ Len(lines) \in Nat /\ malformed = Len(lines) - Len(Records)
  <1>1. Records \in Seq(Plausible(w))
    BY RecordsType DEF FileTypes
  <1> QED BY <1>1 DEF FileTypes, malformed, Records

\* A line that is written whole settles what was at risk.
LEMMA AppendLineStep ==
  ASSUME NEW w, FileTypes(w), Accounted, NEW r \in Plausible(w), AppendLine(r)
  PROVE  FileTypes(w)' /\ Accounted'
  <1>1. r \in RunRecord /\ Torn \notin RunRecord
    BY DEF Plausible, Torn, RunRecord
  <1>2. /\ finished' = finished + 1 /\ crashes' = crashes
        /\ finished \in Nat /\ crashes \in Nat
    BY DEF AppendLine, FileTypes
  <1>3. unended' = FALSE /\ unended' \in BOOLEAN /\ ~unended'
    BY DEF AppendLine
  <1>4. AtRisk' = 0
    BY <1>3 DEF AtRisk
  <1>5. Len(Records) \in Nat /\ Len(lines) \in Nat /\ malformed = Len(lines) - Len(Records)
    BY Lengths
  <1>6. malformed' = Len(lines') - Len(Records')
    BY DEF malformed, Records
  <1>7. CASE unended
    <2>1. lines' = [lines EXCEPT ![Len(lines)] = Torn]
      BY <1>7 DEF AppendLine
    <2>2. /\ lines' \in Seq(Plausible(w) \union {Torn})
          /\ lines' # <<>> /\ Len(lines') = Len(lines)
          /\ Len(Records) = IF lines[Len(lines)] \in RunRecord
                            THEN Len(Records') + 1 ELSE Len(Records')
      BY <1>7, <2>1, ReadLastTorn DEF FileTypes
    <2>3. FileTypes(w)'
      BY <1>2, <1>3, <2>2 DEF FileTypes
    <2>4. Len(Records') \in Nat
      BY <2>3, RecordsType DEF FileTypes
    <2>5. AtRisk \in {0, 1} /\ Len(Records') = Len(Records) - AtRisk
      BY <1>5, <1>7, <2>2, <2>4 DEF AtRisk
    <2>6. /\ finished - Len(Records) + AtRisk + 1 <= 2 * crashes
          /\ Len(lines) - Len(Records) + AtRisk <= crashes
      BY <1>5, <1>7 DEF Accounted
    <2>7. /\ finished' - Len(Records') <= 2 * crashes'
          /\ malformed' <= crashes'
      <3>1. Len(lines') = Len(lines)
        BY <2>2
      <3>2. finished + 1 - (Len(Records) - AtRisk) <= 2 * crashes
        BY <1>2, <1>5, <2>5, <2>6
      <3>3. Len(lines) - (Len(Records) - AtRisk) <= crashes
        BY <1>2, <1>5, <2>5, <2>6
      <3> QED BY <1>2, <1>6, <2>5, <3>1, <3>2, <3>3
    <2>8. Accounted'
      BY <1>2, <1>6, <1>4, <1>3, <2>2, <2>4, <2>7 DEF Accounted
    <2> QED BY <2>3, <2>8
  <1>8. CASE ~unended
    <2>1. lines' = Append(lines, r) /\ r \in Plausible(w) \union {Torn}
      BY <1>8 DEF AppendLine
    <2>2. /\ lines' \in Seq(Plausible(w) \union {Torn})
          /\ lines' # <<>> /\ Len(lines') = Len(lines) + 1
          /\ Len(Records') = Len(Records) + 1
      BY <1>1, <2>1, ReadOneMore DEF FileTypes
    <2>3. FileTypes(w)'
      BY <1>2, <1>3, <2>2 DEF FileTypes
    <2>4. AtRisk = 0
      BY <1>8 DEF AtRisk
    <2>5. Accounted'
      BY <1>2, <1>5, <1>6, <1>8, <1>4, <1>3, <2>2, <2>4 DEF Accounted
    <2> QED BY <2>3, <2>5
  <1> QED BY <1>7, <1>8 DEF FileTypes

\* A death pays for its own record, and for the one it puts at risk.
LEMMA AppendCutStep ==
  ASSUME NEW w, FileTypes(w), Accounted, NEW r \in Plausible(w), AppendCut(r)
  PROVE  FileTypes(w)' /\ Accounted'
  <1>1. r \in RunRecord /\ Torn \notin RunRecord
    BY DEF Plausible, Torn, RunRecord
  <1>2. /\ unended' = TRUE /\ finished' = finished + 1 /\ crashes' = crashes + 1
        /\ finished \in Nat /\ crashes \in Nat
    BY DEF AppendCut, FileTypes
  <1>3. Len(Records) \in Nat /\ Len(lines) \in Nat /\ malformed = Len(lines) - Len(Records)
    BY Lengths
  <1>4. malformed' = Len(lines') - Len(Records')
    BY DEF malformed, Records
  <1>5. CASE unended
    <2>1. lines' = [lines EXCEPT ![Len(lines)] = Torn]
      BY <1>5 DEF AppendCut
    <2>2. /\ lines' \in Seq(Plausible(w) \union {Torn})
          /\ lines' # <<>> /\ Len(lines') = Len(lines) /\ lines'[Len(lines')] = Torn
          /\ Len(Records) = IF lines[Len(lines)] \in RunRecord
                            THEN Len(Records') + 1 ELSE Len(Records')
      BY <1>5, <2>1, ReadLastTorn DEF FileTypes
    <2>3. FileTypes(w)'
      BY <1>2, <2>2 DEF FileTypes
    <2>4. Len(Records') \in Nat
      BY <2>3, RecordsType DEF FileTypes
    <2>5. AtRisk' = 0
      BY <1>1, <2>2 DEF AtRisk
    <2>6. AtRisk \in {0, 1} /\ Len(Records') = Len(Records) - AtRisk
      BY <1>3, <1>5, <2>2, <2>4 DEF AtRisk
    <2>7. /\ finished' - Len(Records') + 1 <= 2 * crashes'
          /\ malformed' <= crashes'
      <3>1. finished + 1 - (Len(Records) - AtRisk) + 1 <= 2 * (crashes + 1)
        BY <1>2, <1>3, <1>5, <2>6 DEF Accounted
      <3>2. Len(lines) - (Len(Records) - AtRisk) <= crashes + 1
        BY <1>2, <1>3, <2>6 DEF Accounted
      <3>3. Len(lines') = Len(lines)
        BY <2>2
      <3> QED BY <1>2, <1>4, <2>6, <3>1, <3>2, <3>3
    <2>8. Accounted'
      BY <1>2, <1>4, <2>2, <2>4, <2>5, <2>7 DEF Accounted
    <2> QED BY <2>3, <2>8
  <1>6. CASE ~unended
    <2>1. PICK x \in {r, Torn} : lines' = Append(lines, x)
      BY <1>6 DEF AppendCut
    <2>2. x \in Plausible(w) \union {Torn}
      OBVIOUS
    <2>3. /\ lines' \in Seq(Plausible(w) \union {Torn})
          /\ lines' # <<>> /\ Len(lines') = Len(lines) + 1 /\ lines'[Len(lines')] = x
          /\ Len(Records') = IF x \in RunRecord THEN Len(Records) + 1 ELSE Len(Records)
      BY <2>1, <2>2, ReadOneMore DEF FileTypes
    <2>4. FileTypes(w)'
      BY <1>2, <2>3 DEF FileTypes
    <2>5. AtRisk' \in {0, 1} /\ Len(Records') = Len(Records) + AtRisk'
      BY <1>2, <1>3, <2>3 DEF AtRisk
    <2>6. AtRisk = 0
      BY <1>6 DEF AtRisk
    <2>7. /\ finished' - Len(Records') + AtRisk' + 1 <= 2 * crashes'
          /\ malformed' + AtRisk' <= crashes'
      <3>1. finished + 1 - (Len(Records) + AtRisk') + AtRisk' + 1 <= 2 * (crashes + 1)
        BY <1>2, <1>3, <1>6, <2>5, <2>6 DEF Accounted
      <3>2. Len(lines) + 1 - (Len(Records) + AtRisk') + AtRisk' <= crashes + 1
        BY <1>2, <1>3, <2>5, <2>6 DEF Accounted
      <3>3. Len(lines') = Len(lines) + 1
        BY <2>3
      <3> QED BY <1>2, <1>4, <2>5, <3>1, <3>2, <3>3
    <2>8. Accounted'
      BY <1>2, <2>7 DEF Accounted
    <2> QED BY <2>4, <2>8
  <1> QED BY <1>5, <1>6 DEF FileTypes

\* What a file that is left alone keeps.
LEMMA FileKept ==
  ASSUME NEW w, FileTypes(w), Accounted, UNCHANGED fileVars
  PROVE  FileTypes(w)' /\ Accounted'
  BY DEF FileTypes, Accounted, AtRisk, malformed, Records, fileVars

-----------------------------------------------------------------------------
(* Steps                                                                   *)

\* What the steps need of the invariant.
LEMMA InvTypes ==
  ASSUME HistoryInv
  PROVE  /\ FileTypes(Wide) /\ Accounted
         /\ config \in Nat \ {0} /\ reach \in Nat /\ session \in Nat
         /\ Wide \in Nat /\ config <= Wide /\ session <= Wide /\ MinSteps <= Wide
         /\ \A p \in Procs : running[p] \in 0..Wide
  <1>1. HistoryTypes /\ Accounted /\ WithinReach /\ CeilingsDoNotCompound
    BY DEF HistoryInv
  <1>2. Wide \in Nat /\ reach <= Wide /\ MinSteps <= Wide
    BY <1>1, WideIsWide
  <1>3. config \in Nat \ {0} /\ reach \in Nat /\ session \in Nat
    BY <1>1, HistoryAssumption DEF HistoryAssumption, HistoryTypes
  <1>4. \A p \in Procs : running[p] \in 0..Wide
    BY <1>1, <1>2 DEF HistoryTypes, CeilingsDoNotCompound, Wide
  <1> QED BY <1>1, <1>2, <1>3, <1>4 DEF HistoryTypes, WithinReach, FileTypes

\* A process starts or ends a run: nothing else sets a ceiling.
LEMMA RunningStep ==
  ASSUME HistoryInv, NEW p \in Procs, NEW n \in 0..Wide, running' = [running EXCEPT ![p] = n],
         UNCHANGED <<config, session, reach>>, FileTypes(Wide)', Accounted'
  PROVE  HistoryInv'
  <1>1. Wide' = Wide
    BY DEF Wide
  <1>2. HistoryTypes'
    BY <1>1 DEF HistoryInv, HistoryTypes, FileTypes
  <1>3. WithinReach'
    BY DEF HistoryInv, WithinReach
  <1>4. CeilingsDoNotCompound'
    BY InvTypes DEF HistoryInv, HistoryTypes, CeilingsDoNotCompound, Wide
  <1> QED BY <1>2, <1>3, <1>4 DEF HistoryInv

LEMMA StartStep == ASSUME HistoryInv, NEW p \in Procs, Start(p) PROVE HistoryInv'
  <1>1. /\ \E n \in {planned, config} : running' = [running EXCEPT ![p] = n]
        /\ UNCHANGED fileVars /\ UNCHANGED <<config, session, reach>>
    BY DEF Start
  <1>2. planned \in 0..Wide /\ config \in 0..Wide
    BY PlannedInBand, InvTypes
  <1>3. FileTypes(Wide)' /\ Accounted'
    <2>1. Wide' = Wide
      BY <1>1 DEF Wide
    <2> QED BY <1>1, <2>1, FileKept, InvTypes DEF FileTypes
  <1> QED BY <1>1, <1>2, <1>3, RunningStep

LEMMA DieBeforeStep == ASSUME HistoryInv, NEW p \in Procs, DieBefore(p) PROVE HistoryInv'
  <1>1. /\ running' = [running EXCEPT ![p] = 0] /\ UNCHANGED fileVars
        /\ UNCHANGED <<config, session, reach>>
    BY DEF DieBefore
  <1>2. FileTypes(Wide)' /\ Accounted'
    <2>1. Wide' = Wide
      BY <1>1 DEF Wide
    <2> QED BY <1>1, <2>1, FileKept, InvTypes DEF FileTypes
  <1>3. 0 \in 0..Wide
    BY InvTypes
  <1> QED BY <1>1, <1>2, <1>3, RunningStep

\* What a run under its ceiling leaves is a plausible record.
LEMMA RanIsPlausible ==
  ASSUME HistoryInv, NEW p \in Procs, running[p] # 0, NEW r \in Ran(p)
  PROVE  r \in Plausible(Wide)
  <1>1. running[p] \in 1..Wide /\ Wide \in Nat
    BY InvTypes
  <1> QED BY <1>1 DEF Ran, Plausible, RunRecord

LEMMA FinishStep == ASSUME HistoryInv, NEW p \in Procs, Finish(p) PROVE HistoryInv'
  <1>1. PICK r \in Ran(p) : AppendLine(r)
    BY DEF Finish
  <1>2. /\ running[p] # 0 /\ running' = [running EXCEPT ![p] = 0]
        /\ UNCHANGED <<config, session, reach>>
    BY DEF Finish
  <1>3. r \in Plausible(Wide) /\ Wide' = Wide
    BY <1>2, RanIsPlausible DEF Wide
  <1>4. FileTypes(Wide)' /\ Accounted'
    BY <1>1, <1>3, AppendLineStep, InvTypes DEF FileTypes
  <1>5. 0 \in 0..Wide
    BY InvTypes
  <1> QED BY <1>2, <1>4, <1>5, RunningStep

LEMMA DieInAppendStep == ASSUME HistoryInv, NEW p \in Procs, DieInAppend(p) PROVE HistoryInv'
  <1>1. PICK r \in Ran(p) : AppendCut(r)
    BY DEF DieInAppend
  <1>2. /\ running[p] # 0 /\ running' = [running EXCEPT ![p] = 0]
        /\ UNCHANGED <<config, session, reach>>
    BY DEF DieInAppend
  <1>3. r \in Plausible(Wide) /\ Wide' = Wide
    BY <1>2, RanIsPlausible DEF Wide
  <1>4. FileTypes(Wide)' /\ Accounted'
    BY <1>1, <1>3, AppendCutStep, InvTypes DEF FileTypes
  <1>5. 0 \in 0..Wide
    BY InvTypes
  <1> QED BY <1>2, <1>4, <1>5, RunningStep

\* What only widens the reach keeps the ceilings within it.
LEMMA ReachGrows ==
  ASSUME HistoryInv, reach' \in Nat, reach <= reach', running' = running
  PROVE  /\ Wide' \in Nat /\ Wide <= Wide' /\ reach' <= Wide' /\ CeilingsDoNotCompound'
  <1>1. reach \in Nat /\ MinSteps \in Nat /\ \A p \in Procs : running[p] \in Nat
    BY HistoryAssumption DEF HistoryAssumption, HistoryInv, HistoryTypes
  <1>2. Wide' \in Nat /\ Wide <= Wide' /\ reach' <= Wide' /\ Wide \in Nat
    BY <1>1 DEF Wide, Larger
  <1>3. \A p \in Procs : running[p] <= Wide
    BY DEF HistoryInv, CeilingsDoNotCompound, Wide
  <1>4. \A p \in Procs : running[p] <= Wide'
    BY <1>1, <1>2, <1>3
  <1> QED BY <1>2, <1>4 DEF CeilingsDoNotCompound, Wide

LEMMA TurnEndsStep == ASSUME HistoryInv, TurnEnds PROVE HistoryInv'
  <1>1. /\ config \in Nat \ {0} /\ config <= reach /\ session \in Nat /\ session <= reach
        /\ reach \in Nat /\ MaxSession \in Nat
    BY HistoryAssumption, InvTypes DEF HistoryAssumption, HistoryInv, WithinReach
  <1>2. /\ session' \in 0..MaxSession /\ session' \in Nat
        /\ reach' = Larger(reach, session')
        /\ config' = config /\ running' = running
    <2>1. PICK n \in 0..config : session + n <= MaxSession /\ session' = session + n
      BY DEF TurnEnds
    <2>2. session' \in 0..MaxSession
      BY <1>1, <2>1
    <2> QED BY <2>2 DEF TurnEnds
  <1>3. reach' \in Nat /\ reach <= reach' /\ session' <= reach'
    BY <1>1, <1>2, LargerBounds
  <1>4. Wide' \in Nat /\ Wide <= Wide' /\ reach' <= Wide' /\ CeilingsDoNotCompound'
    BY <1>2, <1>3, ReachGrows
  <1>5. PICK met \in BOOLEAN : AppendLine([spec |-> config, steps |-> session', met |-> met])
    BY DEF TurnEnds
  <1> DEFINE r == [spec |-> config, steps |-> session', met |-> met]
  <1>6. r \in Plausible(Wide')
    BY <1>1, <1>2, <1>3, <1>4 DEF Plausible, RunRecord
  <1> HIDE DEF r
  <1>7. FileTypes(Wide') /\ Accounted
    <2>1. lines \in Seq(Plausible(Wide') \union {Torn})
      BY <1>4, PlausibleGrows, InvTypes DEF FileTypes
    <2> QED BY <2>1, InvTypes DEF FileTypes
  <1>8. \A w : FileTypes(w) /\ r \in Plausible(w) =>
          /\ lines' \in Seq(Plausible(w) \union {Torn})
          /\ unended' \in BOOLEAN /\ (unended' => lines' # <<>>)
          /\ finished' \in Nat /\ crashes' \in Nat /\ Accounted'
    BY <1>5, <1>7, AppendLineStep DEF FileTypes, r
  <1>9. HistoryTypes'
    BY <1>2, <1>3, <1>6, <1>7, <1>8 DEF HistoryInv, HistoryTypes
  <1>10. WithinReach'
    BY <1>1, <1>2, <1>3 DEF WithinReach
  <1> QED BY <1>4, <1>6, <1>7, <1>8, <1>9, <1>10 DEF HistoryInv

LEMMA SessionEndsStep == ASSUME HistoryInv, SessionEnds PROVE HistoryInv'
  <1>1. session' = 0 /\ UNCHANGED <<config, running, reach>> /\ UNCHANGED fileVars /\ Wide' = Wide
    BY DEF SessionEnds, Wide
  <1>2. FileTypes(Wide)' /\ Accounted'
    BY <1>1, FileKept, InvTypes DEF FileTypes
  <1>3. HistoryTypes'
    BY <1>1, <1>2, HistoryAssumption DEF HistoryAssumption, HistoryInv, HistoryTypes, FileTypes
  <1>4. WithinReach' /\ CeilingsDoNotCompound'
    BY <1>1, InvTypes DEF HistoryInv, WithinReach, CeilingsDoNotCompound
  <1> QED BY <1>2, <1>3, <1>4 DEF HistoryInv

LEMMA ReconfigureStep == ASSUME HistoryInv, Reconfigure PROVE HistoryInv'
  <1>1. PICK n \in Configs : config' = n /\ reach' = Larger(reach, n)
    BY DEF Reconfigure
  <1>2. running' = running /\ session' = session /\ UNCHANGED fileVars
    BY DEF Reconfigure
  <1>3. n \in Nat /\ reach \in Nat /\ session \in Nat /\ session <= reach
    BY InvTypes, HistoryAssumption DEF HistoryAssumption, HistoryInv, WithinReach
  <1>4. reach' \in Nat /\ reach <= reach' /\ n <= reach'
    BY <1>1, <1>3, LargerBounds
  <1>5. Wide' \in Nat /\ Wide <= Wide' /\ CeilingsDoNotCompound'
    BY <1>2, <1>4, ReachGrows
  <1>6. lines' \in Seq(Plausible(Wide') \union {Torn})
    <2>1. lines \in Seq(Plausible(Wide') \union {Torn})
      BY <1>5, PlausibleGrows, InvTypes DEF FileTypes
    <2> QED BY <1>2, <2>1 DEF fileVars
  <1>7. Accounted'
    BY <1>2, FileKept, InvTypes
  <1>8. HistoryTypes'
    BY <1>1, <1>2, <1>4, <1>6 DEF HistoryInv, HistoryTypes, fileVars
  <1>9. WithinReach'
    BY <1>1, <1>2, <1>3, <1>4 DEF WithinReach
  <1> QED BY <1>5, <1>7, <1>8, <1>9 DEF HistoryInv

LEMMA HistoryStutter == ASSUME HistoryInv, UNCHANGED historyVars PROVE HistoryInv'
  <1>1. /\ UNCHANGED fileVars /\ UNCHANGED <<config, running, session, reach>> /\ Wide' = Wide
    BY DEF historyVars, Wide
  <1>2. FileTypes(Wide)' /\ Accounted'
    BY <1>1, FileKept, InvTypes DEF FileTypes
  <1>3. HistoryTypes' /\ WithinReach' /\ CeilingsDoNotCompound'
    BY <1>1, <1>2 DEF HistoryInv, HistoryTypes, FileTypes, WithinReach, CeilingsDoNotCompound
  <1> QED BY <1>2, <1>3 DEF HistoryInv

LEMMA HistoryStarts == HistoryInit => HistoryInv
  <1> SUFFICES ASSUME HistoryInit PROVE HistoryInv
    OBVIOUS
  <1>1. lines = <<>> /\ config \in Nat \ {0} /\ reach = config
    BY HistoryAssumption DEF HistoryAssumption, HistoryInit
  <1>2. HistoryTypes
    <2>1. lines \in Seq(Plausible(Wide) \union {Torn})
      BY <1>1
    <2>2. running \in [Procs -> Nat]
      BY DEF HistoryInit
    <2>3. unended = FALSE /\ unended \in BOOLEAN /\ ~unended
      BY DEF HistoryInit
    <2>4. session = 0 /\ finished = 0 /\ crashes = 0 /\ 0 \in 0..MaxSession /\ config \in Configs
      BY HistoryAssumption DEF HistoryAssumption, HistoryInit
    <2> QED BY <1>1, <2>1, <2>2, <2>3, <2>4 DEF HistoryTypes
  <1>3. WithinReach
    BY <1>1 DEF HistoryInit, WithinReach
  <1>4. CeilingsDoNotCompound
    BY <1>1, HistoryAssumption DEF HistoryAssumption, HistoryInit, CeilingsDoNotCompound, Larger
  <1>5. Len(Records) = 0 /\ Len(lines) = 0
    BY <1>1, KeptEmpty DEF Records
  <1>6. Accounted
    BY <1>5 DEF HistoryInit, Accounted, AtRisk, malformed, Records
  <1> QED BY <1>2, <1>3, <1>4, <1>6 DEF HistoryInv

\* The inductive invariant holds of every history.
LEMMA HistoryInvariance == HistorySpec => []HistoryInv
  <1>1. HistoryInv /\ [HistoryNext]_historyVars => HistoryInv'
    BY StartStep, FinishStep, DieInAppendStep, DieBeforeStep, TurnEndsStep, SessionEndsStep,
       ReconfigureStep, HistoryStutter DEF HistoryNext
  <1> QED BY <1>1, HistoryStarts, PTL DEF HistorySpec

-----------------------------------------------------------------------------

\* The file holds torn lines and records of ceilings and lengths within reach.
THEOREM HistoryTypeCorrect == HistorySpec => []HistoryTypeOK
  <1>1. HistoryInv => HistoryTypeOK
    <2> SUFFICES ASSUME HistoryInv PROVE HistoryTypeOK
      OBVIOUS
    <2>1. \A r \in Plausible(Wide) : r.spec \in 1..Wide /\ r.steps \in 0..Wide
      BY InvTypes DEF Plausible, RunRecord
    <2>2. \A i \in DOMAIN lines : lines[i] \in Plausible(Wide) \union {Torn}
      BY DEF HistoryInv, HistoryTypes
    <2> QED BY <2>1, <2>2 DEF HistoryInv, HistoryTypes, HistoryTypeOK, Wide
  <1> QED BY <1>1, HistoryInvariance, PTL

\* However many processes die in an append, each costs the history at most two runs,
\* and no bad line is without a death (readRecords, appendRecord).
THEOREM LossStaysBounded == HistorySpec => []LossIsBounded
  <1>1. HistoryInv => LossIsBounded
    <2> SUFFICES ASSUME HistoryInv PROVE LossIsBounded
      OBVIOUS
    <2>1. Len(Records) \in Nat /\ Len(lines) \in Nat /\ malformed = Len(lines) - Len(Records)
      BY InvTypes, Lengths
    <2>2. finished \in Nat /\ crashes \in Nat /\ AtRisk \in {0, 1}
      BY DEF HistoryInv, HistoryTypes, AtRisk
    <2> QED BY <2>1, <2>2 DEF HistoryInv, Accounted, LossIsBounded
  <1> QED BY <1>1, HistoryInvariance, PTL

\* Planned from any history of runs planned alike, no ceiling compounds the headroom
\* (planEnvelope, deriveEnvelope).
THEOREM HeadroomStaysBounded == HistorySpec => []CeilingsDoNotCompound
  BY HistoryInvariance, PTL DEF HistoryInv

\* Run after run planned from what runs planned alike have left, a ceiling that is
\* derived, and not cut by the configured one, has room for the given percentage of the
\* recent runs (p95, deriveEnvelope).
THEOREM TypicalRunsKeepFitting == HistorySpec => TypicalRunsFit
  <1> DEFINE Fits == \A p \in Procs :
               Plans(p) /\ running'[p] # config /\ running'[p] < Larger(config, MinSteps) =>
                 100 * AtMost(Recent, running'[p]) >= Percent * Len(Recent)
  <1>1. HistoryInv /\ [HistoryNext]_historyVars => Fits
    <2> SUFFICES ASSUME HistoryInv, [HistoryNext]_historyVars, NEW p \in Procs, Plans(p),
                        running'[p] # config, running'[p] < Larger(config, MinSteps)
                 PROVE  100 * AtMost(Recent, running'[p]) >= Percent * Len(Recent)
      OBVIOUS
    <2>1. running \in [Procs -> Nat] /\ running[p] = 0 /\ running'[p] # 0
      BY DEF HistoryInv, HistoryTypes, Plans
    <2>2. PICK q \in Procs : Start(q)
      BY <2>1 DEF HistoryNext, Finish, DieInAppend, DieBefore, TurnEnds, SessionEnds,
                  Reconfigure, historyVars
    <2>3. running'[p] = planned
      BY <2>1, <2>2 DEF Start
    <2>4. planned = Derived /\ ~(Len(usable) < MinUsable)
      BY <2>3 DEF planned
    <2>5. Wide \in Nat /\ config \in Nat /\ Records \in Seq(Plausible(Wide))
      BY InvTypes, RecordsType DEF FileTypes
    <2>6. Len(usable) >= MinUsable
      BY <2>4, <2>5, UsableType, HistoryAssumption DEF HistoryAssumption
    <2> QED BY <2>3, <2>4, <2>5, <2>6, DerivedFits
  <1>2. HistorySpec => [][Fits]_historyVars
    BY <1>1, HistoryInvariance, PTL DEF HistorySpec
  <1> QED BY <1>2 DEF TypicalRunsFit
=============================================================================
