------------------------- MODULE CalibrationProofs --------------------------
(***************************************************************************)
(* Theorems about the labels, the fit and the curve, for any rows, scores, *)
(* target and bounds.  A summary's promise survives because a sitting's    *)
(* counters are the stored labels at every moment; the cut is the lowest   *)
(* that qualifies because nothing can be judged while it is looked for.    *)
(* The pooled blocks are an isotonic regression because every block's mean *)
(* is at most that of each of its prefixes, which pooling two blocks out   *)
(* of order keeps, and because the pass that ends the search leaves all    *)
(* pairs in order; the curve ascends because its knots are those blocks.   *)
(* A fit ends because each round lowers a number its labels bound.         *)
(***************************************************************************)
EXTENDS Calibration, FiniteSetTheorems, SequenceTheorems, WellFoundedInduction, TLAPS

(* The store is finite, as a table is.                                     *)
Finite == IsFiniteSet(Rows)

Asking == session.state = "asking"

Sitting == [state : {"asking"}, pending : SUBSET Rows,
            correct : Nat, incorrect : Nat, skipped : Nat]

(* The columns, and a sitting's counters against the table it writes.      *)
LabelsInv ==
    /\ score \in [Rows -> Nat] /\ matched \subseteq Rows
    /\ verdict \in [Rows -> {"none", "correct", "incorrect"}]
    /\ Asking => /\ session \in Sitting
                 /\ session.correct = Cardinality(Labelled("correct"))
                 /\ session.incorrect = Cardinality(Labelled("incorrect"))
                 /\ \A r \in session.pending : verdict[r] = "none"

(* The summary on the screen named a number that does clear the target.    *)
SummaryInv ==
    /\ summary \in [extra : Int, correct : Nat, incorrect : Nat]
    /\ summary.extra >= 0 =>
         WilsonClears(summary.correct + summary.extra,
                      summary.correct + summary.incorrect + summary.extra, Target)

-----------------------------------------------------------------------------
(* A set of numbers that is not empty has a least one.                     *)
LEMMA LeastNumber == ASSUME NEW S \in SUBSET Nat, S # {} PROVE \E m \in S : \A n \in S : m <= n
<1>1. PICK m \in S : \A n \in S : <<n, m>> \notin OpToRel(<, Nat)
  BY WFMin, NatLessThanWellFounded, Zenon
<1>2. \A n \in S : ~ (n < m)
  BY <1>1, Zenon DEF OpToRel
<1> QED
  BY <1>2

(* A number named by bound_for clears the target (validate.py:74).         *)
LEMMA BoundClears ==
    ASSUME NEW c \in Nat, NEW i \in Nat
    PROVE  /\ BoundFor(c, i) \in Int
           /\ BoundFor(c, i) >= 0 =>
                WilsonClears(c + BoundFor(c, i), c + i + BoundFor(c, i), Target)
<1> DEFINE enough == {e \in 0 .. MaxExtra : WilsonClears(c + e, (c + i) + e, Target)}
           Least(e) == \A f \in enough : e <= f
<1>1. CASE BoundFor(c, i) = -1
  BY <1>1
<1>2. CASE enough # {} /\ BoundFor(c, i) = CHOOSE e \in enough : Least(e)
  <2>1. enough \in SUBSET Nat /\ enough # {}
    BY <1>2, CalibrationAssumption DEF CalibrationAssumption
  <2> HIDE DEF enough
  <2>2. \E e \in enough : Least(e)
    BY <2>1, LeastNumber
  <2>3. BoundFor(c, i) \in enough
    BY <1>2, <2>2
  <2> QED
    BY <2>3, CalibrationAssumption DEF enough
<1> QED
  BY <1>1, <1>2 DEF BoundFor

LEMMA CountsFinite ==
    ASSUME Finite PROVE \A v : IsFiniteSet(Labelled(v)) /\ Cardinality(Labelled(v)) \in Nat
BY FS_Subset, FS_CardinalityType DEF Finite, Labelled

LEMMA LabelsInit == Init => LabelsInv /\ SummaryInv
BY DEF Init, LabelsInv, SummaryInv, Asking, NoSession, NoSummary

(* A skipped row leaves the counters of a sitting alone.                   *)
LEMMA SkippedOne ==
    ASSUME NEW s \in Sitting, NEW t, NEW r,
           t = [s EXCEPT !.pending = @ \ {r}, !.skipped = @ + 1]
    PROVE  /\ t \in Sitting
           /\ t.pending = s.pending \ {r}
           /\ t.correct = s.correct /\ t.incorrect = s.incorrect
<1>1. s = [state |-> s.state, pending |-> s.pending, correct |-> s.correct,
           incorrect |-> s.incorrect, skipped |-> s.skipped]
  BY DEF Sitting
<1>2. t = [state |-> s.state, pending |-> s.pending \ {r}, correct |-> s.correct,
           incorrect |-> s.incorrect, skipped |-> s.skipped + 1]
  BY <1>1
<1> QED
  BY <1>2 DEF Sitting

(* What a sitting stores and what it counts move together.                 *)
LEMMA LabelsNext == ASSUME Finite PROVE LabelsInv /\ [Next]_vars => LabelsInv'
<1> SUFFICES ASSUME LabelsInv, [Next]_vars PROVE LabelsInv'
  OBVIOUS
<1> USE DEF LabelsInv, Asking, Labelled
<1>1. ASSUME NEW r \in Rows, NEW s \in Scores, Deliver(r, s) PROVE LabelsInv'
  BY <1>1, CalibrationAssumption DEF Deliver
<1>2. ASSUME NEW r \in Rows, Retract(r) PROVE LabelsInv'
  BY <1>2 DEF Retract
<1>3. ASSUME NEW o \in BOOLEAN, StartValidate(o) PROVE LabelsInv'
  <2>1. \A v : Cardinality(Labelled(v)) \in Nat
    BY CountsFinite
  <2>2. CASE UNCHANGED session
    BY <1>3, <2>2 DEF StartValidate, store
  <2>3. ASSUME NEW S \in SUBSET Unlabelled,
               session' = [state |-> "asking", pending |-> S, skipped |-> 0,
                           correct |-> StoredCounts.correct,
                           incorrect |-> StoredCounts.incorrect]
        PROVE  LabelsInv'
    <3>1. UNCHANGED store /\ S \subseteq Rows /\ \A r \in S : verdict[r] = "none"
      BY <1>3 DEF StartValidate, Unlabelled
    <3>2. \A v : Labelled(v)' = Labelled(v)
      BY <3>1 DEF store
    <3>3. /\ session'.correct = Cardinality(Labelled("correct")) /\ session'.correct \in Nat
          /\ session'.incorrect = Cardinality(Labelled("incorrect")) /\ session'.incorrect \in Nat
          /\ session'.pending = S
      <4> HIDE DEF Labelled, LabelsInv
      <4> QED
        BY <2>1, <2>3 DEF StoredCounts
    <3>4. session' \in Sitting
      BY <2>3, <3>1, <3>3 DEF Sitting
    <3> QED
      BY <3>1, <3>2, <3>3, <3>4 DEF store
  <2> QED
    BY <1>3, <2>2, <2>3 DEF StartValidate
<1>4. ASSUME NEW r \in Rows, NEW right \in BOOLEAN, Judge(r, right) PROVE LabelsInv'
  <2> DEFINE now == IF right THEN "correct" ELSE "incorrect"
             other == IF right THEN "incorrect" ELSE "correct"
  <2>1. /\ session \in Sitting
        /\ session.correct = Cardinality(Labelled("correct"))
        /\ session.incorrect = Cardinality(Labelled("incorrect"))
        /\ verdict[r] = "none" /\ verdict' = [verdict EXCEPT ![r] = now]
    BY <1>4 DEF Judge, Asked
  <2>2. Labelled(now)' = Labelled(now) \cup {r} /\ r \notin Labelled(now)
    BY <2>1
  <2>3. Labelled(other)' = Labelled(other)
    BY <2>1
  <2>4. Cardinality(Labelled(now)') = Cardinality(Labelled(now)) + 1
    <3> HIDE DEF Labelled, now, LabelsInv
    <3> QED
      BY <2>2, CountsFinite, FS_AddElement
  <2>5. \A p \in session.pending \ {r} : verdict'[p] = "none"
    BY <1>4, <2>1 DEF Judge, Asked
  <2>6. /\ score' \in [Rows -> Nat] /\ matched' \subseteq Rows
        /\ verdict' \in [Rows -> {"none", "correct", "incorrect"}]
    BY <1>4, <2>1 DEF Judge
  <2> DEFINE P == session.pending \ {r}
             C == session.correct + (IF right THEN 1 ELSE 0)
             I == session.incorrect + (IF right THEN 0 ELSE 1)
  <2>7. session' = [session EXCEPT !.pending = P, !.correct = C, !.incorrect = I]
    BY <1>4 DEF Judge
  <2>8. P \in SUBSET Rows /\ C \in Nat /\ I \in Nat
    BY <2>1 DEF Sitting
  <2>9. session' \in Sitting /\ session'.pending = P /\ session'.correct = C
        /\ session'.incorrect = I
    <3> HIDE DEF P, C, I, LabelsInv, Labelled
    <3>1. session = [state |-> session.state, pending |-> session.pending,
                     correct |-> session.correct, incorrect |-> session.incorrect,
                     skipped |-> session.skipped]
      BY <2>1 DEF Sitting
    <3>2. session' = [state |-> session.state, pending |-> P, correct |-> C,
                      incorrect |-> I, skipped |-> session.skipped]
      BY <2>7, <3>1
    <3> QED
      BY <2>1, <2>8, <3>2 DEF Sitting
  <2>10. /\ C = Cardinality(Labelled("correct")')
         /\ I = Cardinality(Labelled("incorrect")')
    <3>1. \A v : Cardinality(Labelled(v)) \in Nat
      BY CountsFinite
    <3> HIDE DEF Labelled
    <3>2. CASE right
      BY <2>1, <2>3, <2>4, <3>1, <3>2
    <3>3. CASE ~right
      BY <2>1, <2>3, <2>4, <3>1, <3>3
    <3> QED
      BY <3>2, <3>3
  <2> HIDE DEF C, I, Labelled
  <2> QED
    BY <2>5, <2>6, <2>9, <2>10
<1>5. ASSUME NEW r \in Rows, Skip(r) PROVE LabelsInv'
  <2>1. session \in Sitting /\ UNCHANGED store
        /\ session' = [session EXCEPT !.pending = @ \ {r}, !.skipped = @ + 1]
    BY <1>5 DEF Skip, Asked
  <2>2. /\ session' \in Sitting /\ session'.pending = session.pending \ {r}
        /\ session'.correct = session.correct /\ session'.incorrect = session.incorrect
    <3> HIDE DEF LabelsInv, Labelled
    <3> QED
      BY <2>1, SkippedOne
  <2> QED
    BY <1>5, <2>1, <2>2 DEF Skip, Asked, store
<1>6. CASE EndValidate \/ KillValidate
  BY <1>6 DEF EndValidate, KillValidate, NoSession, store
<1>7. ASSUME NEW order, StartFit(order) PROVE LabelsInv'
  BY <1>7 DEF StartFit, store
<1>8. CASE TryCut \/ PoolStep
  BY <1>8 DEF TryCut, PoolStep, store
<1>9. ASSUME NEW write \in BOOLEAN, EndFit(write) PROVE LabelsInv'
  BY <1>9 DEF EndFit, store
<1>10. CASE UNCHANGED vars
  BY <1>10 DEF vars
<1> QED
  BY <1>1, <1>2, <1>3, <1>4, <1>5, <1>6, <1>7, <1>8, <1>9, <1>10 DEF Next

(* Every summary is made from counters that are the stored labels.         *)
LEMMA SummaryNext ==
    ASSUME Finite PROVE LabelsInv /\ SummaryInv /\ [Next]_vars => SummaryInv'
<1> SUFFICES ASSUME LabelsInv, SummaryInv, [Next]_vars PROVE SummaryInv'
  OBVIOUS
<1>1. CASE UNCHANGED summary
  BY <1>1 DEF SummaryInv
<1>2. ASSUME NEW s, Summarise(s), s.correct = Cardinality(Labelled("correct")),
             s.incorrect = Cardinality(Labelled("incorrect"))
      PROVE  SummaryInv'
  <2> DEFINE c == Cardinality(Labelled("correct"))
             i == Cardinality(Labelled("incorrect"))
  <2>1. c \in Nat /\ i \in Nat
    BY CountsFinite
  <2>2. CASE c + i = 0
    BY <1>2, <2>2 DEF Summarise, NoSummary, SummaryInv
  <2>3. CASE c + i # 0
    <3>1. summary' = [extra |-> BoundFor(c, i), correct |-> c, incorrect |-> i]
      BY <1>2, <2>3 DEF Summarise
    <3> HIDE DEF c, i
    <3> QED
      BY <2>1, <3>1, BoundClears DEF SummaryInv
  <2> QED
    BY <2>2, <2>3
<1>3. ASSUME NEW o \in BOOLEAN, StartValidate(o) PROVE SummaryInv'
  <2>1. CASE Summarise(StoredCounts)
    BY <1>2, <2>1 DEF StoredCounts
  <2> QED
    BY <1>1, <1>3, <2>1 DEF StartValidate
<1>4. CASE EndValidate
  BY <1>2, <1>4 DEF EndValidate, LabelsInv, Asking
<1>5. CASE KillValidate \/ TryCut \/ PoolStep \/ UNCHANGED vars
  BY <1>1, <1>5 DEF KillValidate, TryCut, PoolStep, vars
<1>6. ASSUME NEW r \in Rows, Retract(r) \/ Skip(r) PROVE SummaryInv'
  BY <1>1, <1>6 DEF Retract, Skip
<1>7. ASSUME NEW r \in Rows, NEW s \in Scores, Deliver(r, s) PROVE SummaryInv'
  BY <1>1, <1>7 DEF Deliver
<1>8. ASSUME NEW r \in Rows, NEW right \in BOOLEAN, Judge(r, right) PROVE SummaryInv'
  BY <1>1, <1>8 DEF Judge
<1>9. ASSUME NEW order, StartFit(order) PROVE SummaryInv'
  BY <1>1, <1>9 DEF StartFit
<1>10. ASSUME NEW write \in BOOLEAN, EndFit(write) PROVE SummaryInv'
  BY <1>1, <1>10 DEF EndFit
<1> QED
  BY <1>3, <1>4, <1>5, <1>6, <1>7, <1>8, <1>9, <1>10 DEF Next

(* However many sittings, quits, kills and retractions lie between a       *)
(* summary and the labels it asked for, once exactly those are stored the  *)
(* target is reached (validate.py:46, main.py:537).                        *)
THEOREM LabelsPromiseKept == ASSUME Finite PROVE Spec => []PromiseKept
<1>1. Init => LabelsInv /\ SummaryInv
  BY LabelsInit
<1>2. LabelsInv /\ SummaryInv /\ [Next]_vars => LabelsInv' /\ SummaryInv'
  BY LabelsNext, SummaryNext
<1>3. LabelsInv /\ SummaryInv => PromiseKept
  <2> SUFFICES ASSUME SummaryInv, summary.extra >= 0,
                      NEW c, NEW i, i = summary.incorrect, c = summary.correct + summary.extra
               PROVE  WilsonClears(c, c + i, Target)
    BY DEF PromiseKept
  <2>1. c + i = summary.correct + summary.incorrect + summary.extra
    BY DEF SummaryInv
  <2> QED
    BY <2>1 DEF SummaryInv
<1> QED
  BY <1>1, <1>2, <1>3, PTL DEF Spec

-----------------------------------------------------------------------------
(* While a fit runs nobody is asked, so the labels it read stay as they    *)
(* are; rows delivered meanwhile have none.                                *)
Fitting == fit.state # "off"
Fitted(order) ==
    /\ order \in SetToSeqs(FitRows) /\ ByScore(order)
    /\ fit.points = Points(order)

(* Below the round it has reached, the search has seen no cut that         *)
(* qualifies; afterwards the cut is the lowest that does.                  *)
Lowest(points, cut) ==
    IF \E i \in DOMAIN points : Qualifies(points, points[i][1])
    THEN /\ \E i \in DOMAIN points : cut = points[i][1] /\ Qualifies(points, cut)
         /\ \A i \in DOMAIN points : Qualifies(points, points[i][1]) => cut <= points[i][1]
    ELSE cut = 0

FitInv ==
    /\ fit.state \in {"off", "cut", "pool", "done"}
    /\ fit.state = "off" => fit = NoFit
    /\ \A r \in matched : score[r] > 0
    /\ \A r \in Rows : verdict[r] # "none" => score[r] > 0
    /\ Asking => \A r \in session.pending : score[r] > 0
    /\ Fitting =>
         /\ session = NoSession
         /\ fit = [state |-> fit.state, points |-> fit.points, cut |-> fit.cut,
                   at |-> fit.at, blocks |-> fit.blocks, merged |-> fit.merged]
         /\ \E order : Fitted(order)
    /\ fit.state = "cut" =>
         /\ fit.at \in Nat \ {0}
         /\ \A i \in DOMAIN fit.points :
              i < fit.at => ~ Qualifies(fit.points, fit.points[i][1])
    /\ fit.state \in {"pool", "done"} => Lowest(fit.points, fit.cut)

(* The labels the code counts, in their order, are the rows of the table.  *)
LEMMA FitCounts ==
    ASSUME Finite, LabelsInv, NEW order \in SetToSeqs(FitRows), NEW c \in Nat \ {0}
    PROVE  LET kept == {p \in Rows : verdict[p] # "none" /\ score[p] >= c}
               good == {p \in kept : verdict[p] = "correct"}
           IN  /\ Cardinality(Kept(Points(order), c)) = Cardinality(kept)
               /\ Successes(Points(order), Kept(Points(order), c)) = Cardinality(good)
<1> DEFINE n == Cardinality(FitRows)
           K == Kept(Points(order), c)
           G == {i \in K : Points(order)[i][2] = 1}
           kept == {p \in Rows : verdict[p] # "none" /\ score[p] >= c}
           good == {p \in kept : verdict[p] = "correct"}
<1>1. n \in Nat /\ IsFiniteSet(FitRows)
  BY FS_Subset, FS_CardinalityType DEF Finite, FitRows
<1>2. order \in [1 .. n -> FitRows] /\ \A i, j \in 1 .. n : i # j => order[i] # order[j]
  BY DEF SetToSeqs
<1>3. \A p \in FitRows : \E i \in 1 .. n : order[i] = p
  <2>1. order \in Injection(1 .. n, FitRows)
    BY <1>2 DEF Injection, IsInjective
  <2>2. Cardinality(1 .. n) = n
    BY <1>1, FS_Interval
  <2>3. order \in Surjection(1 .. n, FitRows)
    BY <1>1, <2>1, <2>2, FS_Injection
  <2> QED
    BY <2>3 DEF Surjection
<1>4. /\ DOMAIN Points(order) = 1 .. n
      /\ \A i \in 1 .. n : /\ Points(order)[i][1] = score[order[i]]
                           /\ Points(order)[i][2] = 1 <=> verdict[order[i]] = "correct"
  BY <1>2 DEF Points
<1>5. K \in SUBSET (1 .. n) /\ G \in SUBSET (1 .. n)
  BY <1>4 DEF Kept
<1>6. {order[i] : i \in K} = kept
  <2>1. \A i \in 1 .. n : order[i] \in FitRows
    BY <1>2
  <2>2. \A p \in kept : p \in FitRows
    BY DEF FitRows, LabelsInv
  <2> QED
    BY <1>3, <1>4, <2>1, <2>2 DEF Kept, FitRows
<1>7. {order[i] : i \in G} = good
  BY <1>2, <1>3, <1>4 DEF Kept, FitRows, LabelsInv
<1> QED
  <2> HIDE DEF n, K, G, kept, good
  <2>1. ASSUME NEW S \in SUBSET (1 .. n), NEW U, U = {order[i] : i \in S}
        PROVE  Cardinality(U) = Cardinality(S)
  <3> DEFINE g == [i \in S |-> order[i]]
  <3>1. g \in Bijection(S, U)
    <4>1. g \in [S -> U]
      BY <2>1
    <4>2. \A a, b \in S : g[a] = g[b] => a = b
      BY <1>2
    <4>3. \A t \in U : \E i \in S : g[i] = t
      BY <2>1
    <4>4. DOMAIN g = S
      OBVIOUS
    <4> HIDE DEF g
    <4> QED
      BY <4>1, <4>2, <4>3, <4>4 DEF Bijection, Injection, Surjection, IsInjective
  <3>2. IsFiniteSet(S)
    <4>1. IsFiniteSet(1 .. n)
      BY <1>1, FS_Interval
    <4> QED
      BY <4>1, FS_Subset
  <3> QED
    BY <3>1, <3>2, FS_Bijection DEF ExistsBijection
  <2>2. Cardinality(kept) = Cardinality(K) /\ Cardinality(good) = Cardinality(G)
    BY <1>5, <1>6, <1>7, <2>1
  <2>3. Successes(Points(order), K) = Cardinality(G)
    BY DEF G, Successes
  <2>4. Cardinality(K) = Cardinality(kept) /\ Successes(Points(order), K) = Cardinality(good)
    BY <2>2, <2>3
  <2> QED
    BY <2>4 DEF K, kept, good

(* The sequence that is fitted: points in ascending score.                 *)
LEMMA FittedSeq ==
    ASSUME Finite, LabelsInv, NEW order, Fitted(order)
    PROVE  /\ Len(fit.points) = Cardinality(FitRows)
           /\ fit.points \in [1 .. Len(fit.points) -> Nat \X {0, 1}]
           /\ \A i, j \in 1 .. Len(fit.points) :
                i < j => fit.points[i][1] <= fit.points[j][1]
<1> DEFINE n == Cardinality(FitRows)
<1>1. n \in Nat
  BY FS_Subset, FS_CardinalityType DEF Finite, FitRows
<1>2. order \in [1 .. n -> FitRows]
  BY DEF Fitted, SetToSeqs
<1>3. /\ DOMAIN fit.points = 1 .. n
      /\ \A i \in 1 .. n : fit.points[i][1] = score[order[i]]
      /\ fit.points \in [1 .. n -> Nat \X {0, 1}]
  BY <1>2 DEF Fitted, Points, FitRows, LabelsInv
<1>4. Len(fit.points) = n
  <2> HIDE DEF n
  <2>1. fit.points \in Seq(Nat \X {0, 1})
    BY <1>1, <1>3
  <2> QED
    BY <1>1, <1>3, <2>1
<1>5. \A i, j \in 1 .. n : i < j => fit.points[i][1] <= fit.points[j][1]
  BY <1>2, <1>3 DEF Fitted, ByScore
<1> HIDE DEF n
<1>6. Len(fit.points) = n /\ fit.points \in [1 .. n -> Nat \X {0, 1}]
  BY <1>3, <1>4
<1> QED
  BY <1>5, <1>6 DEF n

LEMMA FittedPoints ==
    ASSUME Finite, LabelsInv, NEW order, Fitted(order)
    PROVE  \E n \in Nat :
             /\ DOMAIN fit.points = 1 .. n /\ Len(fit.points) = n
             /\ \A i \in 1 .. n : fit.points[i][1] \in Nat \ {0}
             /\ \A i, j \in 1 .. n : i < j => fit.points[i][1] <= fit.points[j][1]
<1> DEFINE n == Len(fit.points)
<1>1. n \in Nat
  BY FittedSeq, FS_Subset, FS_CardinalityType DEF Finite, FitRows
<1>2. fit.points \in [1 .. n -> Nat \X {0, 1}]
      /\ \A i, j \in 1 .. n : i < j => fit.points[i][1] <= fit.points[j][1]
  BY FittedSeq
<1>3. \A i \in 1 .. n : fit.points[i][1] \in Nat \ {0}
  <2>1. order \in [1 .. n -> FitRows]
    BY FittedSeq DEF Fitted, SetToSeqs
  <2>2. \A i \in 1 .. n : fit.points[i][1] = score[order[i]]
    BY <2>1 DEF Fitted, Points
  <2> HIDE DEF n
  <2> QED
    BY <2>1, <2>2 DEF FitRows, LabelsInv
<1> QED
  <2> HIDE DEF n
  <2> QED
    BY <1>1, <1>2, <1>3 DEF n

LEMMA FitInit == Init => FitInv
BY DEF Init, FitInv, Fitting, NoFit, Asking, NoSession

(* The labels that are fitted do not change under the fit.                 *)
LEMMA FittedStays ==
    ASSUME LabelsInv, UNCHANGED verdict, UNCHANGED fit.points,
           \A r \in Rows : verdict[r] # "none" => score[r] > 0,
           \A r \in Rows : score[r] > 0 => score'[r] = score[r],
           \A r \in Rows : score[r] = 0 => score'[r] = 0 \/ verdict[r] = "none",
           NEW order, Fitted(order)
    PROVE  Fitted(order)'
<1>1. FitRows' = FitRows
  BY DEF FitRows, LabelsInv
<1>2. \A i \in DOMAIN order : order[i] \in FitRows
  BY DEF Fitted, SetToSeqs
<1>3. \A i \in DOMAIN order : score'[order[i]] = score[order[i]]
  BY <1>2 DEF FitRows
<1>4. ByScore(order)'
  BY <1>3 DEF Fitted, ByScore
<1>5. Points(order)' = Points(order)
  BY <1>3 DEF Points
<1> QED
  BY <1>1, <1>4, <1>5 DEF Fitted

LEMMA FitStays ==
    ASSUME LabelsInv, FitInv, UNCHANGED <<fit, verdict>>, matched' \subseteq matched,
           UNCHANGED score,
           \/ UNCHANGED session
           \/ ~Fitting /\ (Asking' => \A r \in session'.pending : score[r] > 0)
    PROVE  FitInv'
<1>1. \A order : Fitted(order) => Fitted(order)'
  BY FittedStays DEF FitInv
<1> QED
  BY <1>1 DEF FitInv, Fitting, LabelsInv, Asking

LEMMA FitNext == ASSUME Finite PROVE LabelsInv /\ FitInv /\ [Next]_vars => FitInv'
<1> SUFFICES ASSUME LabelsInv, FitInv, [Next]_vars PROVE FitInv'
  OBVIOUS
<1>1. ASSUME NEW r \in Rows, NEW s \in Scores, Deliver(r, s) PROVE FitInv'
  <2>1. \A order : Fitted(order) => Fitted(order)'
    BY <1>1, FittedStays DEF Deliver, FitInv, LabelsInv
  <2> QED
    BY <1>1, <2>1, CalibrationAssumption
       DEF Deliver, FitInv, Fitting, LabelsInv, Asking, Sitting
<1>2. ASSUME NEW r \in Rows, Retract(r) PROVE FitInv'
  BY <1>2, FitStays DEF Retract
<1>3. ASSUME NEW o \in BOOLEAN, StartValidate(o) PROVE FitInv'
  <2>1. Asking' => \A r \in session'.pending : score[r] > 0
    <3>1. CASE UNCHANGED session
      BY <1>3, <3>1 DEF StartValidate, Asking, NoSession
    <3>2. ASSUME NEW S \in SUBSET Unlabelled,
                 session' = [state |-> "asking", pending |-> S, skipped |-> 0,
                             correct |-> StoredCounts.correct,
                             incorrect |-> StoredCounts.incorrect]
          PROVE  \A r \in session'.pending : score[r] > 0
      BY <3>2 DEF Unlabelled, FitInv
    <3> QED
      BY <1>3, <3>1, <3>2 DEF StartValidate
  <2> QED
    BY <1>3, <2>1, FitStays DEF StartValidate, store, Fitting, NoFit
<1>4. ASSUME NEW r \in Rows, NEW right \in BOOLEAN, Judge(r, right) PROVE FitInv'
  <2>1. ~Fitting /\ Asking /\ r \in session.pending
    BY <1>4 DEF Judge, Asked, FitInv, NoSession, Asking
  <2>2. score[r] > 0
    BY <2>1 DEF FitInv
  <2>3. session'.pending \subseteq session.pending
    <3>1. session = [state |-> session.state, pending |-> session.pending,
                     correct |-> session.correct, incorrect |-> session.incorrect,
                     skipped |-> session.skipped]
      BY <2>1 DEF LabelsInv, Sitting
    <3> QED
      BY <1>4, <3>1 DEF Judge
  <2> QED
    BY <1>4, <2>1, <2>2, <2>3 DEF Judge, FitInv, Fitting, LabelsInv, Asking
<1>5. ASSUME NEW r \in Rows, Skip(r) PROVE FitInv'
  <2>1. ~Fitting /\ Asking
    BY <1>5 DEF Skip, Asked, FitInv, NoSession, Asking
  <2>2. session'.pending = session.pending \ {r}
    <3>1. session \in Sitting /\ session' = [session EXCEPT !.pending = @ \ {r},
                                                         !.skipped = @ + 1]
      BY <1>5, <2>1 DEF Skip, LabelsInv
    <3> QED
      BY <3>1, SkippedOne
  <2> QED
    BY <1>5, <2>1, <2>2, FitStays DEF Skip, store, FitInv
<1>6. CASE EndValidate \/ KillValidate
  <2>1. ~Fitting /\ ~Asking'
    BY <1>6 DEF EndValidate, KillValidate, FitInv, NoSession, Asking
  <2> QED
    BY <1>6, <2>1, FitStays DEF EndValidate, KillValidate, store
<1>7. ASSUME NEW order \in SetToSeqs(FitRows), StartFit(order) PROVE FitInv'
  <2>1. /\ fit'.state = "cut" /\ fit'.at = 1 /\ fit'.points = Points(order)
        /\ fit' = [state |-> fit'.state, points |-> fit'.points, cut |-> fit'.cut,
                   at |-> fit'.at, blocks |-> fit'.blocks, merged |-> fit'.merged]
    BY <1>7 DEF StartFit
  <2>2. FitRows' = FitRows /\ Points(order)' = Points(order) /\ ByScore(order)' = ByScore(order)
    BY <1>7 DEF StartFit, store, FitRows, ByScore, Points
  <2>3. Fitted(order)'
    BY <1>7, <2>1, <2>2 DEF StartFit, Fitted
  <2>4. \A i \in DOMAIN fit'.points : ~ (i < 1)
    BY <2>1, <1>7 DEF SetToSeqs, Points
  <2>5. UNCHANGED <<score, matched, verdict, session>> /\ session = NoSession
    BY <1>7 DEF StartFit, store
  <2> QED
    BY <2>1, <2>3, <2>4, <2>5 DEF FitInv, Fitting, LabelsInv, Asking, NoSession
<1>8. CASE TryCut
  <2> DEFINE points == fit.points
  <2>1. /\ fit.state = "cut" /\ Fitting /\ fit.at \in Nat \ {0}
        /\ fit = [state |-> fit.state, points |-> fit.points, cut |-> fit.cut,
                  at |-> fit.at, blocks |-> fit.blocks, merged |-> fit.merged]
        /\ UNCHANGED <<score, matched, verdict, session>>
    BY <1>8 DEF TryCut, FitInv, Fitting, store
  <2>2. PICK order : Fitted(order)
    BY <2>1 DEF FitInv
  <2>3. PICK n \in Nat :
             /\ DOMAIN points = 1 .. n /\ Len(points) = n
             /\ \A i \in 1 .. n : points[i][1] \in Nat \ {0}
             /\ \A i, j \in 1 .. n : i < j => points[i][1] <= points[j][1]
    BY <2>2, FittedPoints
  <2>4. \A i \in 1 .. n : i < fit.at => ~ Qualifies(points, points[i][1])
    BY <2>1, <2>3 DEF FitInv
  <2>5. ASSUME NEW cut, fit' = ToPool(cut), Lowest(points, cut) PROVE FitInv'
    <3>1. fit' = [state |-> "pool", points |-> points, cut |-> cut, at |-> 1,
                  blocks |-> Singletons(points), merged |-> FALSE]
      BY <2>1, <2>5 DEF ToPool
    <3>2. Fitted(order)'
      BY <2>1, <2>2, <3>1, FittedStays DEF FitInv, LabelsInv
    <3> QED
      BY <2>1, <2>5, <3>1, <3>2 DEF FitInv, Fitting, LabelsInv, Asking
  <2>6. CASE fit.at > Len(points)
    <3>1. \A i \in DOMAIN points : ~ Qualifies(points, points[i][1])
      BY <2>1, <2>3, <2>4, <2>6
    <3> QED
      BY <1>8, <2>5, <2>6, <3>1 DEF TryCut, Lowest
  <2>7. CASE fit.at <= Len(points) /\ Qualifies(points, points[fit.at][1])
    <3>1. fit.at \in DOMAIN points
      BY <2>1, <2>3, <2>7
    <3>2. \A i \in DOMAIN points :
             Qualifies(points, points[i][1]) => points[fit.at][1] <= points[i][1]
      BY <2>1, <2>3, <2>4, <3>1
    <3>3. Lowest(points, points[fit.at][1])
      BY <2>7, <3>1, <3>2 DEF Lowest
    <3>4. fit' = ToPool(points[fit.at][1])
      BY <1>8, <2>1, <2>3, <2>7 DEF TryCut
    <3> QED
      BY <2>5, <3>3, <3>4
  <2>8. CASE fit.at <= Len(points) /\ ~ Qualifies(points, points[fit.at][1])
    <3>1. fit' = [fit EXCEPT !.at = @ + 1]
      BY <1>8, <2>1, <2>3, <2>8 DEF TryCut
    <3>2. fit' = [state |-> fit.state, points |-> fit.points, cut |-> fit.cut,
                  at |-> fit.at + 1, blocks |-> fit.blocks, merged |-> fit.merged]
      BY <2>1, <3>1
    <3>3. Fitted(order)'
      BY <2>1, <2>2, <3>2, FittedStays DEF FitInv, LabelsInv
    <3>4. \A i \in DOMAIN points : i < fit.at + 1 => ~ Qualifies(points, points[i][1])
      BY <2>1, <2>3, <2>4, <2>8
    <3> QED
      BY <2>1, <3>2, <3>3, <3>4 DEF FitInv, Fitting, LabelsInv, Asking
  <2> QED
    BY <2>3, <2>1, <2>6, <2>7, <2>8
<1>9. CASE PoolStep
  <2>1. /\ fit.state = "pool" /\ Fitting
        /\ fit = [state |-> fit.state, points |-> fit.points, cut |-> fit.cut,
                  at |-> fit.at, blocks |-> fit.blocks, merged |-> fit.merged]
        /\ UNCHANGED <<score, matched, verdict, session>>
    BY <1>9 DEF PoolStep, FitInv, Fitting, store
  <2>2. /\ fit'.state \in {"pool", "done"}
        /\ fit'.points = fit.points /\ fit'.cut = fit.cut
        /\ fit' = [state |-> fit'.state, points |-> fit'.points, cut |-> fit'.cut,
                   at |-> fit'.at, blocks |-> fit'.blocks, merged |-> fit'.merged]
    <3>1. CASE fit' = PoolAt(fit)
      BY <2>1, <3>1 DEF PoolAt
    <3>2. CASE fit' = [fit EXCEPT !.merged = FALSE, !.at = 1]
      BY <2>1, <3>2
    <3>3. CASE fit' = [fit EXCEPT !.state = "done"]
      BY <2>1, <3>3
    <3> QED
      BY <1>9, <3>1, <3>2, <3>3 DEF PoolStep
  <2>3. PICK order : Fitted(order)
    BY <2>1 DEF FitInv
  <2>4. Fitted(order)'
    BY <2>1, <2>2, <2>3, FittedStays DEF FitInv, LabelsInv
  <2> QED
    BY <2>1, <2>2, <2>4 DEF FitInv, Fitting, LabelsInv, Asking
<1>10. ASSUME NEW write \in BOOLEAN, EndFit(write) PROVE FitInv'
  BY <1>10 DEF EndFit, FitInv, Fitting, NoFit, store, LabelsInv, Asking
<1>11. CASE UNCHANGED vars
  BY <1>11, FitStays DEF vars
<1> QED
  BY <1>1, <1>2, <1>3, <1>4, <1>5, <1>6, <1>7, <1>8, <1>9, <1>10, <1>11 DEF Next

(* However the labels tie, and however few they are, the cut a finished    *)
(* fit recommends is the lowest score whose stored labels clear the        *)
(* target, and it recommends none only when no score does                  *)
(* (calibrate.py:153).                                                     *)
THEOREM FitCutIsLowest == ASSUME Finite PROVE Spec => []CutIsLowest
<1>1. Init => LabelsInv /\ FitInv
  BY LabelsInit, FitInit
<1>2. LabelsInv /\ FitInv /\ [Next]_vars => LabelsInv' /\ FitInv'
  BY LabelsNext, FitNext
<1>3. LabelsInv /\ FitInv => CutIsLowest
  <2> DEFINE scores == {fit.points[i][1] : i \in DOMAIN fit.points}
             kept(c) == {p \in Rows : verdict[p] # "none" /\ score[p] >= c}
             good(c) == {p \in kept(c) : verdict[p] = "correct"}
             passing == {c \in scores :
                           /\ Cardinality(kept(c)) >= MinKept
                           /\ WilsonClears(Cardinality(good(c)), Cardinality(kept(c)), Target)}
  <2> SUFFICES ASSUME LabelsInv, FitInv, fit.state = "done"
               PROVE  IF passing = {} THEN fit.cut = 0
                      ELSE fit.cut \in passing /\ \A c \in passing : fit.cut <= c
    BY DEF CutIsLowest
  <2>1. PICK order : Fitted(order)
    BY DEF FitInv, Fitting
  <2>2. PICK n \in Nat :
             /\ DOMAIN fit.points = 1 .. n /\ Len(fit.points) = n
             /\ \A i \in 1 .. n : fit.points[i][1] \in Nat \ {0}
    BY <2>1, FittedPoints
  <2>3. \A c \in scores : c \in Nat \ {0}
    BY <2>2
  <2>4. ASSUME NEW c \in scores PROVE c \in passing <=> Qualifies(fit.points, c)
    <3>1. /\ Cardinality(Kept(fit.points, c)) = Cardinality(kept(c))
          /\ Successes(fit.points, Kept(fit.points, c)) = Cardinality(good(c))
      BY <2>1, <2>3, FitCounts DEF Fitted
    <3> QED
      BY <3>1 DEF Qualifies
  <2>5. Lowest(fit.points, fit.cut)
    BY DEF FitInv
  <2> HIDE DEF passing
  <2>6. passing \subseteq scores
    BY DEF passing
  <2> QED
    BY <2>4, <2>5, <2>6 DEF Lowest
<1> QED
  BY <1>1, <1>2, <1>3, PTL DEF Spec

-----------------------------------------------------------------------------
(* Fractions.                                                              *)

(* Both sides of a comparison of fractions may be scaled, and a common     *)
(* factor taken away.                                                      *)
LEMMA Scale ==
    ASSUME NEW x \in Int, NEW y \in Int, NEW k \in Nat, x <= y PROVE x * k <= y * k
<1>1. (y - x) * k >= 0
  OBVIOUS
<1>2. (y - x) * k = y * k - x * k
  OBVIOUS
<1> QED
  BY <1>1, <1>2

LEMMA Cancel ==
    ASSUME NEW x \in Int, NEW y \in Int, NEW k \in Nat \ {0}, x * k <= y * k PROVE x <= y
<1>1. SUFFICES ASSUME x > y PROVE FALSE
  OBVIOUS
<1>2. (x - y) * k > 0
  BY <1>1
<1>3. (x - y) * k = x * k - y * k
  OBVIOUS
<1> QED
  BY <1>2, <1>3

(* A block b violates the order with the block c after it: b's mean is     *)
(* above c's, so the mean of both is at most b's, and what led in b, r of  *)
(* its first t labels, leads in both.                                      *)
LEMMA PrefixLeft ==
    ASSUME NEW b1 \in Nat, NEW b2 \in Nat \ {0}, NEW c1 \in Nat, NEW c2 \in Nat,
           NEW r \in Nat, NEW t \in Nat, r * b2 >= b1 * t, b1 * c2 >= c1 * b2
    PROVE  r * (b2 + c2) >= (b1 + c1) * t
<1>1. (r * b2) * (b2 + c2) >= (b1 * t) * (b2 + c2)
  BY Scale
<1>2. (b1 * c2) * t >= (c1 * b2) * t
  BY Scale
<1>3. (r * b2) * (b2 + c2) = (r * (b2 + c2)) * b2
  OBVIOUS
<1>4. (b1 * t) * (b2 + c2) = (b1 * t) * b2 + (b1 * c2) * t
  OBVIOUS
<1>5. ((b1 + c1) * t) * b2 = (b1 * t) * b2 + (c1 * b2) * t
  OBVIOUS
<1>6. ((b1 + c1) * t) * b2 <= (r * (b2 + c2)) * b2
  BY <1>1, <1>2, <1>3, <1>4, <1>5
<1> QED
  BY <1>6, Cancel

(* The same for a prefix that reaches into c.                              *)
LEMMA PrefixRight ==
    ASSUME NEW b1 \in Nat, NEW b2 \in Nat, NEW c1 \in Nat, NEW c2 \in Nat \ {0},
           NEW r \in Nat, NEW t \in Nat, t <= c2, r * c2 >= c1 * t, b1 * c2 >= c1 * b2
    PROVE  (b1 + r) * (b2 + c2) >= (b1 + c1) * (b2 + t)
<1>1. (r * c2) * (b2 + c2) >= (c1 * t) * (b2 + c2)
  BY Scale
<1>2. (b1 * c2) * (c2 - t) >= (c1 * b2) * (c2 - t)
  BY Scale
<1>3. ((b1 + r) * (b2 + c2)) * c2 = (b1 * c2) * (b2 + c2) + (r * c2) * (b2 + c2)
  OBVIOUS
<1>4. (b1 * c2) * (b2 + c2) + (c1 * t) * (b2 + c2)
        = ((b1 + c1) * (b2 + t)) * c2 + ((b1 * c2) * (c2 - t) - (c1 * b2) * (c2 - t))
  OBVIOUS
<1>5. ((b1 + c1) * (b2 + t)) * c2 <= ((b1 + r) * (b2 + c2)) * c2
  BY <1>1, <1>2, <1>3, <1>4
<1> QED
  BY <1>5, Cancel

(* The order of fractions is transitive.                                   *)
LEMMA Trans ==
    ASSUME NEW a \in Nat, NEW b \in Nat, NEW c \in Nat, NEW d \in Nat \ {0},
           NEW e \in Nat, NEW f \in Nat, a * d <= c * b, c * f <= e * d
    PROVE  a * f <= e * b
<1>1. (a * d) * f <= (c * b) * f /\ (c * f) * b <= (e * d) * b
  BY Scale
<1>2. (a * f) * d <= (e * b) * d
  <2>1. (a * d) * f = (a * f) * d /\ (c * b) * f = (c * f) * b /\ (e * d) * b = (e * b) * d
    OBVIOUS
  <2> QED
    BY <1>1, <2>1
<1> QED
  BY <1>2, Cancel
-----------------------------------------------------------------------------
(* Counting the labels.                                                    *)

(* How many of the labels after the a-th, up to the b-th, are right.       *)
Ones(p, a, b) == Successes(p, a + 1 .. b)

LEMMA OnesFinite ==
    ASSUME NEW p, NEW a \in Nat, NEW b \in Nat
    PROVE  IsFiniteSet({i \in a + 1 .. b : p[i][2] = 1})
<1>1. IsFiniteSet(a + 1 .. b)
  BY FS_Interval
<1>2. {i \in a + 1 .. b : p[i][2] = 1} \subseteq a + 1 .. b
  OBVIOUS
<1> QED
  BY <1>1, <1>2, FS_Subset

LEMMA OnesType == ASSUME NEW p, NEW a \in Nat, NEW b \in Nat PROVE Ones(p, a, b) \in Nat
BY OnesFinite, FS_CardinalityType DEF Ones, Successes

LEMMA OnesAdds ==
    ASSUME NEW p, NEW a \in Nat, NEW b \in Nat, NEW c \in Nat, a <= b, b <= c
    PROVE  Ones(p, a, c) = Ones(p, a, b) + Ones(p, b, c)
<1> DEFINE L == {i \in a + 1 .. b : p[i][2] = 1}
           R == {i \in b + 1 .. c : p[i][2] = 1}
           B == {i \in a + 1 .. c : p[i][2] = 1}
<1>1. B = L \cup R /\ L \cap R = {}
  OBVIOUS
<1>2. IsFiniteSet(L) /\ IsFiniteSet(R)
  BY OnesFinite
<1>3. Ones(p, a, b) = Cardinality(L) /\ Ones(p, b, c) = Cardinality(R)
      /\ Ones(p, a, c) = Cardinality(B)
  BY DEF Ones, Successes
<1> HIDE DEF L, R, B
<1>4. Cardinality(L \cup R) = Cardinality(L) + Cardinality(R) - Cardinality(L \cap R)
  BY <1>2, FS_Union
<1>5. Cardinality(L) \in Nat /\ Cardinality(R) \in Nat /\ Cardinality({}) = 0
  BY <1>2, FS_CardinalityType, FS_EmptySet
<1>6. Cardinality(B) = Cardinality(L \cup R) /\ Cardinality(L \cap R) = 0
  BY <1>1, <1>5
<1>7. Cardinality(B) = Cardinality(L) + Cardinality(R)
  BY <1>4, <1>5, <1>6
<1> QED
  BY <1>3, <1>7

LEMMA OnesOfNone == ASSUME NEW p, NEW a \in Nat PROVE Ones(p, a, a) = 0
<1>1. {i \in a + 1 .. a : p[i][2] = 1} = {}
  OBVIOUS
<1> QED
  BY <1>1, FS_EmptySet DEF Ones, Successes

LEMMA OnesOfOne ==
    ASSUME NEW p, NEW i \in Nat \ {0}, p[i][2] \in {0, 1}
    PROVE  Ones(p, i - 1, i) = p[i][2]
<1> DEFINE S == {j \in (i - 1) + 1 .. i : p[j][2] = 1}
<1>1. CASE p[i][2] = 1
  <2>1. S = {i}
    BY <1>1
  <2> QED
    BY <1>1, <2>1, FS_Singleton DEF Ones, Successes
<1>2. CASE p[i][2] = 0
  <2>1. S = {}
    <3>1. \A j \in (i - 1) + 1 .. i : j = i
      OBVIOUS
    <3> QED
      BY <1>2, <3>1
  <2> QED
    BY <1>2, <2>1, FS_EmptySet DEF Ones, Successes
<1> QED
  BY <1>1, <1>2

-----------------------------------------------------------------------------
(* Blocks.  Block i stands for the positions after e[i - 1] up to e[i]:    *)
(* their labels that are right, their number and their last score; and no  *)
(* prefix of them has a smaller mean than the whole.                       *)
BlockType == Nat \X (Nat \ {0}) \X Nat

Leads(p, a, t, b) == Ones(p, a, t) * (b - a) >= Ones(p, a, b) * (t - a)

Spans(p, n, s, m, e) ==
    /\ e \in [0 .. m -> 0 .. n] /\ e[0] = 0 /\ e[m] = n
    /\ \A i \in 1 .. m :
         /\ e[i - 1] < e[i]
         /\ s[i] = <<Ones(p, e[i - 1], e[i]), e[i] - e[i - 1], p[e[i]][1]>>
         /\ \A t \in e[i - 1] .. e[i] : Leads(p, e[i - 1], t, e[i])

(* A pair that violates the order is taken out for the pooled block.       *)
Replaced(s, at, x) == [RemoveAt(s, at + 1) EXCEPT ![at] = x]
Replaces(u, s, at, x) ==
    /\ \A i \in 1 .. at - 1 : u[i] = s[i]
    /\ u[at] = x
    /\ \A i \in at + 1 .. Len(s) - 1 : u[i] = s[i + 1]

LEMMA PooledList ==
    ASSUME NEW s \in Seq(BlockType), NEW at \in Nat \ {0}, at < Len(s), NEW x \in BlockType,
           NEW u, u = Replaced(s, at, x)
    PROVE  /\ u \in Seq(BlockType) /\ Len(u) = Len(s) - 1 /\ Replaces(u, s, at, x)
<1> DEFINE l == SubSeq(s, 1, (at + 1) - 1)
           r == SubSeq(s, (at + 1) + 1, Len(s))
           k == Len(s)
           v == l \o r
<1>0. k \in Nat /\ DOMAIN s = 1 .. k /\ at < k
  OBVIOUS
<1>1. /\ l \in Seq(BlockType) /\ Len(l) = at
      /\ \A i \in 1 .. at : l[i] = s[i]
  <2>1. \A i \in 1 .. (at + 1) - 1 : s[i] \in BlockType
    BY <1>0
  <2>2. /\ l \in Seq(BlockType)
        /\ Len(l) = IF 1 <= (at + 1) - 1 THEN (at + 1) - 1 - 1 + 1 ELSE 0
        /\ \A i \in 1 .. (at + 1) - 1 - 1 + 1 : l[i] = s[1 + i - 1]
    BY <2>1, SubSeqProperties
  <2> QED
    BY <2>2
<1>2. /\ r \in Seq(BlockType) /\ Len(r) = (k - at) - 1
      /\ \A i \in 1 .. (k - at) - 1 : r[i] = s[at + 1 + i]
  <2>1. \A i \in (at + 1) + 1 .. k : s[i] \in BlockType
    BY <1>0
  <2>2. /\ r \in Seq(BlockType)
        /\ Len(r) = IF (at + 1) + 1 <= k THEN k - ((at + 1) + 1) + 1 ELSE 0
        /\ \A i \in 1 .. k - ((at + 1) + 1) + 1 : r[i] = s[((at + 1) + 1) + i - 1]
    BY <1>0, <2>1, SubSeqProperties
  <2>6. k \in Nat /\ at < k
    BY <1>0
  <2> HIDE DEF r, k
  <2>3. k - ((at + 1) + 1) + 1 = (k - at) - 1
    BY <1>0
  <2>4. ASSUME NEW i \in 1 .. (k - at) - 1 PROVE r[i] = s[at + 1 + i]
    <3>1. ((at + 1) + 1) + i - 1 = at + 1 + i
      OBVIOUS
    <3> QED
      BY <2>2, <2>3, <3>1
  <2>5. Len(r) = (k - at) - 1
    BY <2>6, <2>2, <2>3
  <2> QED
    BY <2>2, <2>4, <2>5
<1>3. /\ v \in Seq(BlockType) /\ Len(v) = k - 1
      /\ \A i \in 1 .. k - 1 : v[i] = IF i <= at THEN s[i] ELSE s[i + 1]
  <2> HIDE DEF l, r, k
  <2>1. /\ v \in Seq(BlockType) /\ Len(v) = Len(l) + Len(r)
        /\ \A i \in 1 .. Len(l) + Len(r) : v[i] = IF i <= Len(l) THEN l[i] ELSE r[i - Len(l)]
    BY <1>1, <1>2, ConcatProperties
  <2>2. at + ((k - at) - 1) = k - 1
    BY <1>0
  <2>3. ASSUME NEW i \in 1 .. k - 1, ~ (i <= at) PROVE r[i - at] = s[i + 1]
    <3>1. i - at \in 1 .. (k - at) - 1 /\ at + 1 + (i - at) = i + 1
      BY <1>0, <2>3
    <3> QED
      BY <1>2, <3>1
  <2> QED
    BY <1>0, <1>1, <1>2, <2>1, <2>2, <2>3
<1>4. u = [v EXCEPT ![at] = x]
  BY DEF RemoveAt, Replaced
<1> HIDE DEF l, r, v
<1>5. DOMAIN v = 1 .. k - 1
  BY <1>3
<1>6. at \in 1 .. Len(v)
  BY <1>0, <1>3
<1>7. /\ u \in Seq(BlockType) /\ Len(u) = Len(v)
      /\ \A i \in 1 .. k - 1 : u[i] = IF i = at THEN x ELSE v[i]
  <2>1. u \in Seq(BlockType) /\ Len(u) = Len(v)
    <3>1. v \in Seq(BlockType)
      BY <1>3
    <3>2. /\ [v EXCEPT ![at] = x] \in Seq(BlockType)
          /\ Len([v EXCEPT ![at] = x]) = Len(v)
      BY <1>6, <3>1, ExceptSeq
    <3> QED
      BY <1>4, <3>2
  <2> QED
    BY <1>4, <1>5, <2>1
<1> HIDE DEF k
<1>8. ASSUME NEW i \in 1 .. at - 1 PROVE u[i] = s[i]
  BY <1>0, <1>3, <1>7
<1>9. ASSUME NEW i \in at + 1 .. k - 1 PROVE u[i] = s[i + 1]
  BY <1>0, <1>3, <1>7
<1>10. u[at] = x
  BY <1>0, <1>7
<1> QED
  BY <1>3, <1>7, <1>8, <1>9, <1>10 DEF k, Replaces

LEMMA SpanFacts ==
    ASSUME NEW p, NEW n \in Nat, NEW s, NEW m \in Nat, NEW e, Spans(p, n, s, m, e),
           NEW i \in 1 .. m
    PROVE  /\ e[i - 1] \in Nat /\ e[i] \in Nat /\ e[i - 1] < e[i] /\ e[i] <= n
           /\ Ones(p, e[i - 1], e[i]) \in Nat
           /\ s[i][1] = Ones(p, e[i - 1], e[i])
           /\ s[i][2] = e[i] - e[i - 1] /\ s[i][2] \in Nat \ {0}
           /\ s[i][3] = p[e[i]][1]
           /\ \A t \in e[i - 1] .. e[i] : Leads(p, e[i - 1], t, e[i])
<1>1. i \in 0 .. m /\ i - 1 \in 0 .. m
  OBVIOUS
<1>2. /\ e[i - 1] \in 0 .. n /\ e[i] \in 0 .. n /\ e[i - 1] < e[i]
      /\ s[i] = <<Ones(p, e[i - 1], e[i]), e[i] - e[i - 1], p[e[i]][1]>>
      /\ \A t \in e[i - 1] .. e[i] : Leads(p, e[i - 1], t, e[i])
  BY <1>1 DEF Spans
<1>3. Ones(p, e[i - 1], e[i]) \in Nat
  BY <1>2, OnesType
<1> QED
  BY <1>2, <1>3

(* A block of one label.                                                   *)
LEMMA SpansOne ==
    ASSUME NEW n \in Nat, NEW p \in [1 .. n -> Nat \X {0, 1}]
    PROVE  Spans(p, n, Singletons(p), n, [i \in 0 .. n |-> i])
<1> DEFINE e == [i \in 0 .. n |-> i]
<1>1. e \in [0 .. n -> 0 .. n] /\ e[0] = 0 /\ e[n] = n
  OBVIOUS
<1>2. ASSUME NEW i \in 1 .. n
      PROVE  /\ e[i - 1] < e[i]
             /\ Singletons(p)[i] = <<Ones(p, e[i - 1], e[i]), e[i] - e[i - 1], p[e[i]][1]>>
             /\ \A t \in e[i - 1] .. e[i] : Leads(p, e[i - 1], t, e[i])
  <2>1. e[i - 1] = i - 1 /\ e[i] = i
    OBVIOUS
  <2> HIDE DEF e
  <2>2. p[i][2] \in {0, 1} /\ Ones(p, i - 1, i) = p[i][2]
    <3>1. p[i] \in Nat \X {0, 1}
      OBVIOUS
    <3>2. p[i][2] \in {0, 1}
      BY <3>1
    <3> QED
      BY <3>2, OnesOfOne
  <2>3. Singletons(p)[i] = <<p[i][2], 1, p[i][1]>>
    BY DEF Singletons
  <2>4. ASSUME NEW t \in (i - 1) .. i PROVE Leads(p, i - 1, t, i)
    <3>1. CASE t = i
      BY <2>2, <3>1 DEF Leads
    <3>2. CASE t = i - 1
      <4>1. Ones(p, i - 1, t) = 0
        BY <3>2, OnesOfNone
      <4> QED
        BY <2>2, <3>2, <4>1 DEF Leads
    <3> QED
      BY <3>1, <3>2
  <2> QED
    BY <2>1, <2>2, <2>3, <2>4
<1> HIDE DEF e
<1>3. Spans(p, n, Singletons(p), n, e)
  BY <1>1, <1>2 DEF Spans
<1> QED
  BY <1>3 DEF e

(* Two blocks that violate the order, pooled.                              *)
LEMMA LeadsPooled ==
    ASSUME NEW p, NEW a \in Nat, NEW b \in Nat, NEW c \in Nat, a < b, b < c,
           \A t \in a .. b : Leads(p, a, t, b), \A t \in b .. c : Leads(p, b, t, c),
           Ones(p, a, b) * (c - b) > Ones(p, b, c) * (b - a)
    PROVE  \A t \in a .. c : Leads(p, a, t, c)
<1> TAKE t \in a .. c
<1>1. /\ Ones(p, a, b) \in Nat /\ Ones(p, b, c) \in Nat
      /\ Ones(p, a, c) = Ones(p, a, b) + Ones(p, b, c)
  BY OnesType, OnesAdds
<1>2. b - a \in Nat \ {0} /\ c - b \in Nat \ {0} /\ t - a \in Nat
      /\ (b - a) + (c - b) = c - a /\ Ones(p, a, t) \in Nat /\ Ones(p, b, t) \in Nat
      /\ Ones(p, a, b) * (c - b) >= Ones(p, b, c) * (b - a)
  BY <1>1, OnesType
<1>3. CASE t <= b
  <2>1. Ones(p, a, t) * (b - a) >= Ones(p, a, b) * (t - a)
    BY <1>3 DEF Leads
  <2>2. Ones(p, a, t) * ((b - a) + (c - b)) >= (Ones(p, a, b) + Ones(p, b, c)) * (t - a)
    BY <1>1, <1>2, <2>1, PrefixLeft
  <2> QED
    BY <1>1, <1>2, <2>2 DEF Leads
<1>4. CASE t > b
  <2>1. Ones(p, b, t) * (c - b) >= Ones(p, b, c) * (t - b) /\ t - b \in Nat /\ t - b <= c - b
    BY <1>4 DEF Leads
  <2>2. (Ones(p, a, b) + Ones(p, b, t)) * ((b - a) + (c - b))
          >= (Ones(p, a, b) + Ones(p, b, c)) * ((b - a) + (t - b))
    BY <1>1, <1>2, <2>1, PrefixRight
  <2>3. Ones(p, a, t) = Ones(p, a, b) + Ones(p, b, t) /\ (b - a) + (t - b) = t - a
    BY <1>4, OnesAdds
  <2> QED
    BY <1>1, <1>2, <2>2, <2>3 DEF Leads
<1> QED
  BY <1>3, <1>4

LEMMA SpansPooled ==
    ASSUME NEW n \in Nat, NEW p, NEW s \in Seq(BlockType), NEW e,
           Spans(p, n, s, Len(s), e),
           NEW at \in Nat \ {0}, at < Len(s), Violates(s[at], s[at + 1]),
           NEW u, u = [RemoveAt(s, at + 1) EXCEPT ![at] = Pooled(s[at], s[at + 1])]
    PROVE  /\ u \in Seq(BlockType) /\ Len(u) = Len(s) - 1
           /\ \E f : Spans(p, n, u, Len(u), f)
<1> DEFINE m == Len(s)
           f == [i \in 0 .. m - 1 |-> IF i < at THEN e[i] ELSE e[i + 1]]
           a == e[at - 1]
           b == e[at]
           c == e[at + 1]
           x == Pooled(s[at], s[at + 1])
<1>1. m \in Nat /\ at \in 1 .. m /\ at + 1 \in 1 .. m /\ (at + 1) - 1 = at
  OBVIOUS
<1> HIDE DEF m
<1>2. Spans(p, n, s, m, e)
  BY DEF m
<1>3. /\ a \in Nat /\ b \in Nat /\ a < b /\ Ones(p, a, b) \in Nat
      /\ s[at] = <<Ones(p, a, b), b - a, p[b][1]>>
      /\ \A t \in a .. b : Leads(p, a, t, b)
  <2>1. /\ a \in Nat /\ b \in Nat /\ a < b /\ Ones(p, a, b) \in Nat
        /\ \A t \in a .. b : Leads(p, a, t, b)
    BY <1>1, <1>2, SpanFacts
  <2>2. s[at] = <<Ones(p, a, b), b - a, p[b][1]>>
    BY <1>1, <1>2 DEF Spans
  <2> QED
    BY <2>1, <2>2
<1>4. /\ c \in Nat /\ b < c /\ c <= n /\ Ones(p, b, c) \in Nat
      /\ s[at + 1] = <<Ones(p, b, c), c - b, p[c][1]>>
      /\ \A t \in b .. c : Leads(p, b, t, c)
  <2>1. /\ e[(at + 1) - 1] \in Nat /\ e[at + 1] \in Nat /\ e[(at + 1) - 1] < e[at + 1]
        /\ e[at + 1] <= n /\ Ones(p, e[(at + 1) - 1], e[at + 1]) \in Nat
        /\ \A t \in e[(at + 1) - 1] .. e[at + 1] : Leads(p, e[(at + 1) - 1], t, e[at + 1])
    BY <1>1, <1>2, SpanFacts
  <2>2. s[at + 1] = <<Ones(p, e[(at + 1) - 1], e[at + 1]), e[at + 1] - e[(at + 1) - 1],
                      p[e[at + 1]][1]>>
    BY <1>1, <1>2 DEF Spans
  <2> QED
    BY <1>1, <2>1, <2>2
<1>5. /\ x = <<Ones(p, a, c), c - a, p[c][1]>>
      /\ x \in BlockType
  <2>1. Ones(p, a, c) = Ones(p, a, b) + Ones(p, b, c) /\ (b - a) + (c - b) = c - a
    BY <1>3, <1>4, OnesAdds
  <2>2. x = <<Ones(p, a, c), c - a, p[c][1]>>
    BY <1>3, <1>4, <2>1 DEF Pooled
  <2>4. p[c][1] \in Nat
    <3> DEFINE j == at + 1
    <3>1. j \in 1 .. Len(s)
      BY <1>1 DEF m
    <3>2. s[j] \in BlockType
      <4> HIDE DEF j
      <4> QED
        BY <3>1
    <3>3. s[j][3] \in Nat
      BY <3>2 DEF BlockType
    <3> QED
      BY <1>4, <3>3
  <2> HIDE DEF a, b, c, x
  <2>5. Ones(p, a, c) \in Nat /\ c - a \in Nat \ {0}
    BY <1>3, <1>4, <2>1
  <2> QED
    BY <2>2, <2>4, <2>5 DEF BlockType
<1>6. \A t \in a .. c : Leads(p, a, t, c)
  <2>1. Ones(p, a, b) * (c - b) > Ones(p, b, c) * (b - a)
    BY <1>3, <1>4 DEF Violates
  <2> HIDE DEF a, b, c
  <2> QED
    BY <1>3, <1>4, <2>1, LeadsPooled
<1>7. /\ u \in Seq(BlockType) /\ Len(u) = m - 1
      /\ \A i \in 1 .. at - 1 : u[i] = s[i]
      /\ u[at] = x
      /\ \A i \in at + 1 .. m - 1 : u[i] = s[i + 1]
  <2> HIDE DEF x, a, b, c
  <2>1. u = Replaced(s, at, x) /\ x \in BlockType
    BY <1>5 DEF x, Replaced
  <2>2. u \in Seq(BlockType) /\ Len(u) = Len(s) - 1 /\ Replaces(u, s, at, x)
    BY <2>1, PooledList
  <2> QED
    BY <2>2 DEF m, Replaces
<1>8. /\ f \in [0 .. m - 1 -> 0 .. n] /\ f[0] = 0 /\ f[m - 1] = n
      /\ \A i \in 0 .. m - 1 : f[i] = IF i < at THEN e[i] ELSE e[i + 1]
  <2>1. e \in [0 .. m -> 0 .. n] /\ e[0] = 0 /\ e[m] = n
    BY <1>2 DEF Spans
  <2>2. \A i \in 0 .. m - 1 : i \in 0 .. m /\ i + 1 \in 0 .. m
    BY <1>1
  <2>3. 0 \in 0 .. m - 1 /\ m - 1 \in 0 .. m - 1 /\ (m - 1) + 1 = m /\ at <= m - 1
    BY <1>1 DEF m
  <2> QED
    BY <2>1, <2>2, <2>3
<1> HIDE DEF f
<1>9. ASSUME NEW i \in 1 .. m - 1
      PROVE  /\ f[i - 1] < f[i]
             /\ u[i] = <<Ones(p, f[i - 1], f[i]), f[i] - f[i - 1], p[f[i]][1]>>
             /\ \A t \in f[i - 1] .. f[i] : Leads(p, f[i - 1], t, f[i])
  <2>0. i - 1 \in 0 .. m - 1 /\ i \in 0 .. m - 1 /\ i \in 1 .. m /\ i + 1 \in 1 .. m
        /\ (i + 1) - 1 = i /\ (i - 1) + 1 = i
    BY <1>1
  <2>1. CASE i < at
    <3>1. f[i - 1] = e[i - 1] /\ f[i] = e[i] /\ u[i] = s[i]
      BY <1>7, <1>8, <2>0, <2>1
    <3>2. /\ e[i - 1] < e[i]
          /\ s[i] = <<Ones(p, e[i - 1], e[i]), e[i] - e[i - 1], p[e[i]][1]>>
          /\ \A t \in e[i - 1] .. e[i] : Leads(p, e[i - 1], t, e[i])
      BY <1>2, <2>0 DEF Spans
    <3> QED
      BY <3>1, <3>2
  <2>2. CASE i = at
    <3>1. f[i - 1] = a /\ f[i] = c /\ u[i] = x
      BY <1>7, <1>8, <2>0, <2>2
    <3> HIDE DEF a, b, c, x
    <3>2. a < c
      BY <1>3, <1>4
    <3> QED
      BY <1>5, <1>6, <3>1, <3>2
  <2>3. CASE i > at
    <3>1. f[i - 1] = e[i] /\ f[i] = e[i + 1] /\ u[i] = s[i + 1]
      <4>1. ~ (i - 1 < at) /\ ~ (i < at) /\ i \in at + 1 .. m - 1
        BY <1>1, <2>0, <2>3
      <4>2. f[i] = e[i + 1] /\ u[i] = s[i + 1]
        BY <1>7, <1>8, <2>0, <4>1
      <4>3. f[i - 1] = e[(i - 1) + 1]
        BY <1>8, <2>0, <4>1
      <4> QED
        BY <2>0, <4>2, <4>3
    <3>2. /\ e[i] < e[i + 1]
          /\ s[i + 1] = <<Ones(p, e[i], e[i + 1]), e[i + 1] - e[i], p[e[i + 1]][1]>>
          /\ \A t \in e[i] .. e[i + 1] : Leads(p, e[i], t, e[i + 1])
      <4> DEFINE j == i + 1
      <4>1. j \in 1 .. m /\ j - 1 = i
        BY <2>0
      <4>2. /\ e[j - 1] < e[j]
            /\ s[j] = <<Ones(p, e[j - 1], e[j]), e[j] - e[j - 1], p[e[j]][1]>>
            /\ \A t \in e[j - 1] .. e[j] : Leads(p, e[j - 1], t, e[j])
        <5> HIDE DEF j
        <5> QED
          BY <1>2, <4>1 DEF Spans
      <4> QED
        BY <4>1, <4>2
    <3> QED
      BY <3>1, <3>2
  <2>4. i < at \/ i = at \/ i > at
    BY <1>1
  <2> QED
    BY <2>1, <2>2, <2>3, <2>4
<1>10. Spans(p, n, u, m - 1, f)
  BY <1>8, <1>9 DEF Spans
<1> QED
  BY <1>7, <1>10 DEF m

-----------------------------------------------------------------------------
(* Blocks that are done.                                                   *)
InOrder(s, m) == \A k \in 1 .. m - 1 : ~ Violates(s[k], s[k + 1])

IsRatio(q) == q[1] \in Nat /\ q[2] \in Nat

LEMMA AtMostTransitive ==
    ASSUME NEW b, NEW c, NEW d, IsRatio(b), IsRatio(c), c[2] # 0, IsRatio(d),
           AtMost(b, c), AtMost(c, d)
    PROVE  AtMost(b, d)
<1>1. /\ b[1] \in Nat /\ b[2] \in Nat /\ c[1] \in Nat /\ c[2] \in Nat \ {0}
      /\ d[1] \in Nat /\ d[2] \in Nat
  BY DEF IsRatio
<1>2. b[1] * c[2] <= c[1] * b[2] /\ c[1] * d[2] <= d[1] * c[2]
  BY DEF AtMost
<1>3. b[1] * d[2] <= d[1] * b[2]
  <2> DEFINE b1 == b[1]  b2 == b[2]  c1 == c[1]  c2 == c[2]  d1 == d[1]  d2 == d[2]
  <2>1. b1 \in Nat /\ b2 \in Nat /\ c1 \in Nat /\ c2 \in Nat \ {0} /\ d1 \in Nat /\ d2 \in Nat
        /\ b1 * c2 <= c1 * b2 /\ c1 * d2 <= d1 * c2
    BY <1>1, <1>2
  <2>2. b1 * d2 <= d1 * b2
    <3> HIDE DEF b1, b2, c1, c2, d1, d2
    <3> QED
      BY <2>1, Trans
  <2> QED
    BY <2>2
<1> QED
  BY <1>3 DEF AtMost

LEMMA SpanNumbers ==
    ASSUME NEW p, NEW n \in Nat, NEW s, NEW m \in Nat, NEW e, Spans(p, n, s, m, e)
    PROVE  \A i \in 1 .. m : s[i][1] \in Nat /\ s[i][2] \in Nat \ {0}
<1> TAKE i \in 1 .. m
<1>1. s[i] = <<Ones(p, e[i - 1], e[i]), e[i] - e[i - 1], p[e[i]][1]>>
      /\ e[i - 1] \in 0 .. n /\ e[i] \in 0 .. n /\ e[i - 1] < e[i]
  BY DEF Spans
<1>2. Ones(p, e[i - 1], e[i]) \in Nat
  BY <1>1, OnesType
<1> QED
  BY <1>1, <1>2

(* The means of the blocks ascend, from any block to any later one.        *)
LEMMA MeansAscend ==
    ASSUME NEW p, NEW n \in Nat, NEW s, NEW m \in Nat, NEW e, Spans(p, n, s, m, e),
           InOrder(s, m), NEW i \in 1 .. m
    PROVE  \A k \in i .. m : AtMost(s[i], s[k])
<1> DEFINE Bad == {k \in i .. m : ~ AtMost(s[i], s[k])}
<1>1. SUFFICES ASSUME Bad # {} PROVE FALSE
  OBVIOUS
<1>2. PICK k \in Bad : \A g \in Bad : k <= g
  <2>1. Bad \in SUBSET Nat
    OBVIOUS
  <2> HIDE DEF Bad
  <2> QED
    BY <1>1, <2>1, LeastNumber
<1>3. \A j \in 1 .. m : s[j][1] \in Nat /\ s[j][2] \in Nat \ {0}
  BY SpanNumbers
<1>4. CASE k = i
  BY <1>3, <1>4 DEF AtMost
<1>5. CASE k # i
  <2> DEFINE j == k - 1
  <2>1. /\ j \in i .. m /\ j \in 1 .. m - 1 /\ j + 1 = k
        /\ k \in 1 .. m /\ j \in 1 .. m /\ j \notin Bad
    BY <1>2, <1>5
  <2>2. AtMost(s[i], s[j])
    BY <2>1
  <2> HIDE DEF j
  <2>3. ~ Violates(s[j], s[k])
    BY <2>1 DEF InOrder
  <2>4. /\ s[i][1] \in Nat /\ s[i][2] \in Nat \ {0} /\ s[j][1] \in Nat /\ s[j][2] \in Nat \ {0}
        /\ s[k][1] \in Nat /\ s[k][2] \in Nat \ {0}
    BY <1>3, <2>1
  <2>5. AtMost(s[j], s[k])
    BY <2>3, <2>4 DEF Violates, AtMost
  <2>6. IsRatio(s[i]) /\ IsRatio(s[j]) /\ IsRatio(s[k]) /\ s[j][2] # 0
    BY <2>4 DEF IsRatio
  <2>7. AtMost(s[i], s[k])
    BY <2>2, <2>5, <2>6, AtMostTransitive
  <2> QED
    BY <1>2, <2>7
<1> QED
  BY <1>4, <1>5

LEMMA EndsAscend ==
    ASSUME NEW p, NEW n \in Nat, NEW s, NEW m \in Nat, NEW e, Spans(p, n, s, m, e),
           NEW i \in 0 .. m
    PROVE  \A k \in i .. m : e[i] <= e[k]
<1> DEFINE Bad == {k \in i .. m : ~ (e[i] <= e[k])}
<1>1. SUFFICES ASSUME Bad # {} PROVE FALSE
  OBVIOUS
<1>2. PICK k \in Bad : \A g \in Bad : k <= g
  <2>1. Bad \in SUBSET Nat
    OBVIOUS
  <2> HIDE DEF Bad
  <2> QED
    BY <1>1, <2>1, LeastNumber
<1>3. e \in [0 .. m -> 0 .. n]
  BY DEF Spans
<1>4. k \in i .. m /\ k # i /\ ~ (e[i] <= e[k])
  BY <1>2, <1>3
<1>5. k - 1 \in i .. m /\ k - 1 \notin Bad /\ k \in 1 .. m
  BY <1>2, <1>4
<1>6. e[k - 1] < e[k] /\ e[i] <= e[k - 1]
  BY <1>5 DEF Spans
<1> QED
  BY <1>3, <1>4, <1>5, <1>6

(* A position after the start of block i lies in block i or a later one.   *)
LEMMA BlockOfLater ==
    ASSUME NEW p, NEW n \in Nat, NEW s, NEW m \in Nat, NEW e, Spans(p, n, s, m, e),
           NEW i \in 1 .. m, NEW t \in e[i - 1] .. n
    PROVE  \E k \in i .. m : e[k - 1] <= t /\ t <= e[k] /\ (k = i \/ e[k - 1] < t)
<1> DEFINE S == {k \in i .. m : t <= e[k]}
<1>1. e \in [0 .. m -> 0 .. n] /\ e[m] = n
  BY DEF Spans
<1>2. S \in SUBSET Nat /\ m \in S
  BY <1>1
<1>3. PICK k \in S : \A g \in S : k <= g
  <2> HIDE DEF S
  <2> QED
    BY <1>2, LeastNumber
<1>4. CASE k = i
  BY <1>3, <1>4
<1>5. CASE k # i
  <2>1. k - 1 \in i .. m /\ k - 1 \notin S /\ k - 1 \in 0 .. m
    BY <1>3, <1>5
  <2>2. e[k - 1] \in Nat /\ t \in Nat
    BY <1>1, <2>1
  <2>3. e[k - 1] < t
    BY <2>1, <2>2
  <2> QED
    BY <1>3, <2>2, <2>3
<1> QED
  BY <1>4, <1>5

(* A position before the end of block i lies in block i or an earlier one. *)
LEMMA BlockOfEarlier ==
    ASSUME NEW p, NEW n \in Nat, NEW s, NEW m \in Nat, NEW e, Spans(p, n, s, m, e),
           NEW i \in 1 .. m, NEW t \in 0 .. e[i]
    PROVE  \E k \in 1 .. i : e[k - 1] <= t /\ t <= e[k] /\ (k = i \/ t < e[k])
<1> DEFINE S == {k \in 1 .. i : t < e[k] \/ k = i}
<1>1. e \in [0 .. m -> 0 .. n] /\ e[0] = 0
  BY DEF Spans
<1>2. S \in SUBSET Nat /\ i \in S
  OBVIOUS
<1>3. PICK k \in S : \A g \in S : k <= g
  <2> HIDE DEF S
  <2> QED
    BY <1>2, LeastNumber
<1>4. k \in 1 .. i /\ t <= e[k] /\ (k = i \/ t < e[k])
  <2>1. k \in 0 .. m
    OBVIOUS
  <2> QED
    BY <1>1, <1>3, <2>1
<1>5. CASE k = 1
  BY <1>1, <1>4, <1>5
<1>6. CASE k # 1
  <2>1. k - 1 \in 1 .. i /\ k - 1 # i /\ k - 1 \notin S /\ k - 1 \in 0 .. m
    BY <1>3, <1>6
  <2>2. e[k - 1] \in Nat /\ t \in Nat
    BY <1>1, <2>1
  <2>3. e[k - 1] <= t
    BY <2>1, <2>2
  <2> QED
    BY <1>4, <2>3
<1> QED
  BY <1>5, <1>6

(* Two ratios at least b make one that is, and likewise at most.           *)
LEMMA AtMostAdds ==
    ASSUME NEW b, IsRatio(b), NEW x \in Nat, NEW k \in Nat, NEW y \in Nat, NEW l \in Nat
    PROVE  /\ AtMost(b, <<x, k>>) /\ AtMost(b, <<y, l>>) => AtMost(b, <<x + y, k + l>>)
           /\ AtMost(<<x, k>>, b) /\ AtMost(<<y, l>>, b) => AtMost(<<x + y, k + l>>, b)
<1> DEFINE c == b[1]
           d == b[2]
<1>1. c \in Nat /\ d \in Nat
  BY DEF IsRatio
<1>2. c * (k + l) = c * k + c * l /\ (x + y) * d = x * d + y * d
  <2> HIDE DEF c, d
  <2> QED
    BY <1>1
<1>3. c * k \in Int /\ c * l \in Int /\ x * d \in Int /\ y * d \in Int
  <2> HIDE DEF c, d
  <2> QED
    BY <1>1
<1>4. c * k <= x * d /\ c * l <= y * d => c * (k + l) <= (x + y) * d
  <2> HIDE DEF c, d
  <2> QED
    BY <1>2, <1>3
<1>5. x * d <= c * k /\ y * d <= c * l => (x + y) * d <= c * (k + l)
  <2> HIDE DEF c, d
  <2> QED
    BY <1>2, <1>3
<1> QED
  BY <1>4, <1>5 DEF AtMost

(* From the start of a block on, the mean is at least the block's.         *)
LEMMA MeanFromStart ==
    ASSUME NEW p, NEW n \in Nat, NEW s, NEW m \in Nat, NEW e, Spans(p, n, s, m, e),
           InOrder(s, m), NEW i \in 1 .. m
    PROVE  \A t \in e[i - 1] .. n : AtMost(s[i], <<Ones(p, e[i - 1], t), t - e[i - 1]>>)
<1> DEFINE a == e[i - 1]
           Mean(t) == <<Ones(p, a, t), t - a>>
           Bad == {t \in a .. n : ~ AtMost(s[i], Mean(t))}
<1>1. SUFFICES ASSUME Bad # {} PROVE FALSE
  OBVIOUS
<1>2. a \in Nat /\ e \in [0 .. m -> 0 .. n]
  BY DEF Spans
<1>3. PICK t \in Bad : \A g \in Bad : t <= g
  <2>1. Bad \in SUBSET Nat
    BY <1>2
  <2> HIDE DEF Bad
  <2> QED
    BY <1>1, <2>1, LeastNumber
<1>4. t \in a .. n /\ t \in Nat /\ ~ AtMost(s[i], Mean(t))
  BY <1>2, <1>3
<1>5. PICK k \in i .. m : e[k - 1] <= t /\ t <= e[k] /\ (k = i \/ e[k - 1] < t)
  <2>1. t \in e[i - 1] .. n
    BY <1>4
  <2> HIDE DEF Bad, Mean, a
  <2> QED
    BY <2>1, BlockOfLater
<1> DEFINE b == e[k - 1]
           c == e[k]
<1>6. k \in 1 .. m /\ b \in Nat /\ c \in Nat /\ b < c /\ b <= t /\ t <= c
  BY <1>2, <1>5 DEF Spans
<1>7. /\ s[k][1] = Ones(p, b, c) /\ s[k][2] = c - b
      /\ Ones(p, b, t) * (c - b) >= Ones(p, b, c) * (t - b)
  <2>1. s[k] = <<Ones(p, b, c), c - b, p[c][1]>> /\ \A u \in b .. c : Leads(p, b, u, c)
    BY <1>6 DEF Spans
  <2>2. t \in b .. c
    BY <1>4, <1>6
  <2> HIDE DEF b, c
  <2> QED
    BY <2>1, <2>2 DEF Leads
<1>8. Ones(p, b, t) \in Nat /\ Ones(p, b, c) \in Nat /\ t - b \in Nat
  BY <1>4, <1>6, OnesType
<1>9. AtMost(s[k], <<Ones(p, b, t), t - b>>)
  <2> HIDE DEF b, c
  <2> QED
    BY <1>7, <1>8 DEF AtMost
<1>10. CASE k = i
  BY <1>4, <1>9, <1>10
<1>11. CASE k # i
  <2>1. b \in a .. n /\ b < t
    <3>1. i \in 0 .. m /\ i - 1 \in 0 .. m /\ k - 1 \in i - 1 .. m /\ k - 1 \in 0 .. m
      BY <1>5, <1>11
    <3>2. a <= b
      BY <3>1, EndsAscend
    <3>3. b \in 0 .. n
      BY <1>2, <3>1
    <3> QED
      BY <1>2, <1>5, <1>11, <3>2, <3>3
  <2>2. AtMost(s[i], Mean(b))
    <3>1. b \notin Bad
      <4> HIDE DEF Bad, b, a
      <4> QED
        BY <1>3, <1>4, <1>6, <2>1
    <3> QED
      BY <2>1, <3>1
  <2>3. IsRatio(s[i]) /\ IsRatio(s[k]) /\ s[k][2] # 0
    BY <1>6, SpanNumbers DEF IsRatio
  <2>4. AtMost(s[i], s[k])
    BY <1>5, MeansAscend
  <2>5. IsRatio(<<Ones(p, b, t), t - b>>)
    BY <1>8 DEF IsRatio
  <2>6. AtMost(s[i], <<Ones(p, b, t), t - b>>)
    <3> HIDE DEF b
    <3> QED
      BY <1>9, <2>3, <2>4, <2>5, AtMostTransitive
  <2>7. Ones(p, a, t) = Ones(p, a, b) + Ones(p, b, t) /\ (b - a) + (t - b) = t - a
        /\ b - a \in Nat /\ Ones(p, a, b) \in Nat
    <3> HIDE DEF a, b
    <3> QED
      BY <1>2, <1>4, <1>6, <2>1, OnesAdds, OnesType
  <2>8. AtMost(s[i], <<Ones(p, a, b) + Ones(p, b, t), (b - a) + (t - b)>>)
    <3>1. AtMost(s[i], <<Ones(p, a, b), b - a>>)
      BY <2>2
    <3> HIDE DEF a, b
    <3> QED
      BY <1>8, <2>3, <2>6, <2>7, <3>1, AtMostAdds
  <2> QED
    BY <1>4, <2>7, <2>8
<1> QED
  BY <1>10, <1>11

(* Up to the end of a block, the mean is at most the block's.              *)
LEMMA MeanToEnd ==
    ASSUME NEW p, NEW n \in Nat, NEW s, NEW m \in Nat, NEW e, Spans(p, n, s, m, e),
           InOrder(s, m), NEW i \in 1 .. m
    PROVE  \A t \in 0 .. e[i] : AtMost(<<Ones(p, t, e[i]), e[i] - t>>, s[i])
<1> DEFINE z == e[i]
           Mean(t) == <<Ones(p, t, z), z - t>>
           Bad == {g \in 0 .. z : ~ AtMost(Mean(z - g), s[i])}
<1>0. z \in Nat /\ e \in [0 .. m -> 0 .. n]
  BY DEF Spans
<1>1. SUFFICES ASSUME Bad # {} PROVE FALSE
  <2>1. ASSUME NEW t \in 0 .. z, Bad = {} PROVE AtMost(Mean(t), s[i])
    <3>1. z - t \in 0 .. z /\ z - t \notin Bad /\ z - (z - t) = t
      BY <1>0, <2>1
    <3> HIDE DEF Mean, z
    <3>2. AtMost(Mean(z - (z - t)), s[i])
      BY <3>1
    <3> QED
      BY <3>1, <3>2
  <2> QED
    BY <2>1
<1>2. PICK g \in Bad : \A h \in Bad : g <= h
  <2>1. Bad \in SUBSET Nat
    BY <1>0
  <2> HIDE DEF Bad
  <2> QED
    BY <1>1, <2>1, LeastNumber
<1> DEFINE t == z - g
<1>3. t \in 0 .. z /\ t \in Nat /\ ~ AtMost(Mean(t), s[i])
  BY <1>0, <1>2
<1> HIDE DEF t
<1>4. PICK k \in 1 .. i : e[k - 1] <= t /\ t <= e[k] /\ (k = i \/ t < e[k])
  BY <1>3, BlockOfEarlier
<1> DEFINE b == e[k - 1]
           c == e[k]
<1>5. k \in 1 .. m /\ b \in Nat /\ c \in Nat /\ b < c /\ b <= t /\ t <= c
  BY <1>0, <1>4 DEF Spans
<1>6. /\ s[k][1] = Ones(p, b, c) /\ s[k][2] = c - b
      /\ Ones(p, b, t) * (c - b) >= Ones(p, b, c) * (t - b)
  <2>1. s[k] = <<Ones(p, b, c), c - b, p[c][1]>> /\ \A u \in b .. c : Leads(p, b, u, c)
    BY <1>5 DEF Spans
  <2>2. t \in b .. c
    BY <1>3, <1>5
  <2> HIDE DEF b, c
  <2> QED
    BY <2>1, <2>2 DEF Leads
<1>7. /\ Ones(p, b, t) \in Nat /\ Ones(p, t, c) \in Nat /\ Ones(p, b, c) \in Nat
      /\ Ones(p, b, c) = Ones(p, b, t) + Ones(p, t, c)
      /\ c - t \in Nat /\ c - b \in Nat /\ t - b \in Nat /\ c - b = (c - t) + (t - b)
  <2> HIDE DEF b, c
  <2> QED
    BY <1>3, <1>5, OnesType, OnesAdds
<1>8. AtMost(<<Ones(p, t, c), c - t>>, s[k])
  <2> DEFINE r == Ones(p, b, t)
             q == Ones(p, t, c)
             f == c - t
             l == t - b
  <2>1. r \in Nat /\ q \in Nat /\ f \in Nat /\ l \in Nat /\ r * (f + l) >= (r + q) * l
    <3>1. r * (c - b) >= Ones(p, b, c) * l
      BY <1>6
    <3> HIDE DEF b, c
    <3> QED
      BY <1>7, <3>1
  <2>2. q * (f + l) <= (r + q) * f
    <3> HIDE DEF r, q, f, l
    <3>1. r * (f + l) = r * f + r * l /\ (r + q) * l = r * l + q * l
      BY <2>1
    <3>2. q * (f + l) = q * f + q * l /\ (r + q) * f = r * f + q * f
      BY <2>1
    <3>3. r * f \in Int /\ r * l \in Int /\ q * l \in Int /\ q * f \in Int
      BY <2>1
    <3> QED
      BY <2>1, <3>1, <3>2, <3>3
  <2>3. s[k][1] = r + q /\ s[k][2] = f + l
    <3> HIDE DEF b, c
    <3> QED
      BY <1>6, <1>7
  <2> HIDE DEF b, c, r, q, f, l
  <2>4. AtMost(<<q, f>>, s[k])
    BY <2>2, <2>3 DEF AtMost
  <2> QED
    BY <2>4 DEF q, f
<1>9. CASE k = i
  BY <1>3, <1>8, <1>9
<1>10. CASE k # i
  <2>1. c \in 0 .. z /\ t < c
    <3>1. k \in 0 .. m /\ i \in k .. m
      BY <1>4
    <3>2. c <= z
      BY <3>1, EndsAscend
    <3> QED
      BY <1>4, <1>5, <1>10, <3>2, <1>0
  <2>2. AtMost(Mean(c), s[i])
    <3>1. z - c \in 0 .. z /\ z - c < g /\ g \in Nat
      <4> HIDE DEF c, z, Bad
      <4>1. g \in Nat
        BY <1>0, <1>2 DEF Bad
      <4> QED
        BY <1>0, <1>5, <2>1, <4>1 DEF t
    <3>2. z - c \notin Bad /\ z - (z - c) = c
      <4> HIDE DEF c, z, Bad
      <4>1. \A h \in Bad : h \in Nat
        BY <1>0 DEF Bad
      <4> QED
        BY <1>0, <1>2, <1>5, <3>1, <4>1
    <3> HIDE DEF Mean, z, c
    <3>3. AtMost(Mean(z - (z - c)), s[i])
      BY <3>1, <3>2
    <3> QED
      BY <3>2, <3>3
  <2>3. IsRatio(s[i]) /\ IsRatio(s[k]) /\ s[k][2] # 0
    BY <1>5, SpanNumbers DEF IsRatio
  <2>4. AtMost(s[k], s[i])
    <3>1. i \in k .. m
      BY <1>4
    <3>2. \A j \in k .. m : AtMost(s[k], s[j])
      <4> HIDE DEF Bad, Mean, z, b, c
      <4> QED
        BY <1>5, MeansAscend
    <3> QED
      BY <3>1, <3>2
  <2>5. IsRatio(<<Ones(p, t, c), c - t>>)
    BY <1>7 DEF IsRatio
  <2>6. AtMost(<<Ones(p, t, c), c - t>>, s[i])
    <3> HIDE DEF c
    <3> QED
      BY <1>8, <2>3, <2>4, <2>5, AtMostTransitive
  <2>7. Ones(p, t, z) = Ones(p, t, c) + Ones(p, c, z) /\ (c - t) + (z - c) = z - t
        /\ z - c \in Nat /\ Ones(p, c, z) \in Nat
    <3> HIDE DEF c, z
    <3> QED
      BY <1>0, <1>3, <1>5, <2>1, OnesAdds, OnesType
  <2>8. AtMost(<<Ones(p, t, c) + Ones(p, c, z), (c - t) + (z - c)>>, s[i])
    <3>1. AtMost(<<Ones(p, c, z), z - c>>, s[i])
      BY <2>2
    <3> HIDE DEF c, z
    <3> QED
      BY <1>7, <2>3, <2>6, <2>7, <3>1, AtMostAdds
  <2> QED
    BY <1>3, <2>7, <2>8
<1> QED
  BY <1>9, <1>10

(* At a position of block i the block's mean is the largest over the starts *)
(* of the smallest over the ends: the start of the block attains it, and   *)
(* its end refutes every other start.                                      *)
LEMMA MaxMin ==
    ASSUME NEW p, NEW n \in Nat, NEW s, NEW m \in Nat, NEW e, Spans(p, n, s, m, e),
           InOrder(s, m), NEW i \in 1 .. m, NEW j \in e[i - 1] + 1 .. e[i]
    PROVE  /\ \E a \in 1 .. j : \A z \in j .. n :
                s[i][1] * (z - a + 1) <= Successes(p, a .. z) * s[i][2]
           /\ \A a \in 1 .. j : \E z \in j .. n :
                s[i][1] * (z - a + 1) >= Successes(p, a .. z) * s[i][2]
<1> DEFINE b == e[i - 1]
           c == e[i]
<1>1. b \in Nat /\ c \in Nat /\ b < c /\ c <= n /\ j \in b + 1 .. c
  BY DEF Spans
<1>2. \A t \in b .. n : AtMost(s[i], <<Ones(p, b, t), t - b>>)
  BY MeanFromStart
<1>3. \A t \in 0 .. c : AtMost(<<Ones(p, t, c), c - t>>, s[i])
  BY MeanToEnd
<1> HIDE DEF b, c
<1>4. ASSUME NEW z \in j .. n
      PROVE  s[i][1] * (z - (b + 1) + 1) <= Successes(p, b + 1 .. z) * s[i][2]
  <2>1. z \in b .. n /\ z - (b + 1) + 1 = z - b
    BY <1>1
  <2>2. s[i][1] * (z - b) <= Ones(p, b, z) * s[i][2]
    BY <1>2, <2>1 DEF AtMost
  <2> QED
    BY <2>1, <2>2 DEF Ones
<1>5. ASSUME NEW a \in 1 .. j
      PROVE  s[i][1] * (c - a + 1) >= Successes(p, a .. c) * s[i][2]
  <2>1. a - 1 \in 0 .. c /\ (a - 1) + 1 = a /\ c - (a - 1) = c - a + 1
    BY <1>1
  <2>2. Ones(p, a - 1, c) * s[i][2] <= s[i][1] * (c - (a - 1))
    BY <1>3, <2>1 DEF AtMost
  <2>3. Ones(p, a - 1, c) = Successes(p, a .. c)
    BY <2>1 DEF Ones
  <2> QED
    BY <2>1, <2>2, <2>3
<1>6. b + 1 \in 1 .. j /\ c \in j .. n
  BY <1>1
<1> QED
  BY <1>4, <1>5, <1>6

-----------------------------------------------------------------------------
(* While the blocks are pooled they span the labels; a pass that has       *)
(* merged nothing has left only pairs in order behind it.                  *)
Settled(s, at) ==
    \A k \in 1 .. Len(s) - 1 : k < at => ~ Violates(s[k], s[k + 1])

PoolInv ==
    /\ Fitting => Len(fit.points) > 0
    /\ fit.state \in {"pool", "done"} =>
         /\ fit.blocks \in Seq(BlockType) /\ fit.blocks # <<>>
         /\ \E e : Spans(fit.points, Len(fit.points), fit.blocks, Len(fit.blocks), e)
    /\ fit.state = "pool" =>
         /\ fit.at \in Nat \ {0}
         /\ (fit.merged = TRUE \/ fit.merged = FALSE)
         /\ fit.merged = FALSE => Settled(fit.blocks, fit.at)
    /\ fit.state = "done" => InOrder(fit.blocks, Len(fit.blocks))

LEMMA PoolInit == Init => PoolInv
BY DEF Init, PoolInv, Fitting, NoFit

(* One round at a pair.                                                    *)
LEMMA PoolAtKeeps ==
    ASSUME FitInv, PoolInv, fit.state = "pool", fit.at < Len(fit.blocks), fit' = PoolAt(fit)
    PROVE  PoolInv'
<1> DEFINE s == fit.blocks
           at == fit.at
           p == fit.points
           n == Len(fit.points)
<1>1. /\ fit = [state |-> fit.state, points |-> fit.points, cut |-> fit.cut,
                at |-> fit.at, blocks |-> fit.blocks, merged |-> fit.merged]
      /\ Len(fit.points) > 0
      /\ at \in Nat \ {0} /\ s \in Seq(BlockType) /\ s # <<>>
  BY DEF FitInv, PoolInv, Fitting
<1>2. n \in Nat
  BY DEF FitInv
<1>3. PICK e : Spans(p, n, s, Len(s), e)
  BY DEF PoolInv
<1>4. CASE Violates(s[at], s[at + 1])
  <2> DEFINE u == [RemoveAt(s, at + 1) EXCEPT ![at] = Pooled(s[at], s[at + 1])]
  <2>1. fit' = [fit EXCEPT !.blocks = u, !.merged = TRUE, !.at = Back(at)]
    BY <1>4 DEF PoolAt
  <2>2. /\ u \in Seq(BlockType) /\ Len(u) = Len(s) - 1
        /\ \E f : Spans(p, n, u, Len(u), f)
    <3> HIDE DEF s, at, p, n
    <3> QED
      BY <1>1, <1>2, <1>3, <1>4, SpansPooled DEF s, at
  <2> HIDE DEF u
  <2>3. /\ fit'.state = "pool" /\ fit'.points = p /\ fit'.blocks = u
        /\ fit'.merged = TRUE /\ fit'.at = Back(at)
    BY <1>1, <2>1
  <2>4. Back(at) \in Nat \ {0}
    BY <1>1 DEF Back
  <2>5. u # <<>>
    BY <1>1, <2>2
  <2> QED
    BY <1>1, <2>2, <2>3, <2>4, <2>5 DEF PoolInv
<1>5. CASE ~ Violates(s[at], s[at + 1])
  <2>1. fit' = [fit EXCEPT !.at = @ + 1]
    BY <1>5 DEF PoolAt
  <2>2. /\ fit'.state = "pool" /\ fit'.points = p /\ fit'.blocks = s
        /\ fit'.merged = fit.merged /\ fit'.at = at + 1
    BY <1>1, <2>1
  <2>3. fit.merged = FALSE => Settled(s, at + 1)
    BY <1>1, <1>5 DEF PoolInv, Settled
  <2> QED
    BY <1>1, <1>3, <2>2, <2>3 DEF PoolInv
<1> QED
  BY <1>4, <1>5

LEMMA PoolNext ==
    ASSUME Finite PROVE LabelsInv /\ FitInv /\ PoolInv /\ [Next]_vars => PoolInv'
<1> SUFFICES ASSUME LabelsInv, FitInv, PoolInv, [Next]_vars PROVE PoolInv'
  OBVIOUS
<1>1. CASE UNCHANGED fit
  BY <1>1 DEF PoolInv, Fitting
<1>2. ASSUME NEW order \in SetToSeqs(FitRows), FitRows # {}, StartFit(order) PROVE PoolInv'
  <2>1. /\ fit'.state = "cut" /\ fit'.points = Points(order)
    BY <1>2 DEF StartFit
  <2>2. Len(Points(order)) > 0
    <3> DEFINE n == Cardinality(FitRows)
    <3>1. IsFiniteSet(FitRows)
      BY FS_Subset DEF Finite, FitRows
    <3>2. n \in Nat /\ n # 0
      BY <1>2, <3>1, FS_CardinalityType, FS_EmptySet
    <3>3. order \in [1 .. n -> FitRows]
      BY DEF SetToSeqs
    <3> HIDE DEF n
    <3>4. Points(order) \in [1 .. n -> Nat \X {0, 1}]
      BY <3>3 DEF Points, FitRows, LabelsInv
    <3>5. Len(Points(order)) = n
      <4> DEFINE q == Points(order)
      <4>1. q \in [1 .. n -> Nat \X {0, 1}]
        BY <3>4
      <4> HIDE DEF q
      <4>2. q \in Seq(Nat \X {0, 1}) /\ DOMAIN q = 1 .. n
        BY <3>2, <4>1
      <4>3. Len(q) = n
        BY <3>2, <4>2
      <4> QED
        BY <4>3 DEF q
    <3> QED
      BY <3>2, <3>5
  <2> QED
    BY <2>1, <2>2 DEF PoolInv
<1>3. CASE TryCut
  <2>1. /\ fit.state = "cut" /\ Fitting /\ Len(fit.points) > 0
        /\ fit = [state |-> fit.state, points |-> fit.points, cut |-> fit.cut,
                  at |-> fit.at, blocks |-> fit.blocks, merged |-> fit.merged]
    BY <1>3 DEF TryCut, FitInv, PoolInv, Fitting
  <2>2. ASSUME NEW cut, fit' = ToPool(cut) PROVE PoolInv'
    <3> DEFINE p == fit.points
               n == Len(p)
    <3>1. /\ fit'.state = "pool" /\ fit'.points = p /\ fit'.blocks = Singletons(p)
          /\ fit'.at = 1 /\ fit'.merged = FALSE
      BY <2>1, <2>2 DEF ToPool
    <3>2. PICK order : Fitted(order)
      BY <2>1 DEF FitInv
    <3>3. p \in [1 .. n -> Nat \X {0, 1}] /\ n \in Nat /\ n > 0
      <4>1. n = Cardinality(FitRows) /\ Cardinality(FitRows) \in Nat
        BY <3>2, FittedSeq, FS_Subset, FS_CardinalityType DEF Finite, FitRows
      <4> QED
        BY <2>1, <3>2, <4>1, FittedSeq
    <3>4. Spans(p, n, Singletons(p), n, [i \in 0 .. n |-> i])
      <4> HIDE DEF p, n
      <4> QED
        BY <3>3, SpansOne
    <3>5. /\ Singletons(p) \in Seq(BlockType) /\ Len(Singletons(p)) = n
          /\ Singletons(p) # <<>>
      <4> DEFINE u == Singletons(p)
      <4> HIDE DEF p, n
      <4>1. \A i \in 1 .. n : u[i] \in BlockType
        BY <3>3 DEF Singletons, BlockType
      <4>2. DOMAIN u = 1 .. n
        BY <3>3 DEF Singletons
      <4>3. u = [i \in 1 .. n |-> u[i]]
        BY <3>3 DEF Singletons
      <4> HIDE DEF u
      <4>4. u \in [1 .. n -> BlockType]
        BY <4>1, <4>3
      <4>5. u \in Seq(BlockType) /\ Len(u) = n /\ u # <<>>
        BY <3>3, <4>2, <4>4
      <4> QED
        BY <4>5 DEF u
    <3> HIDE DEF p, n
    <3>6. /\ Fitting' => Len(fit'.points) > 0
          /\ \E e : Spans(fit'.points, Len(fit'.points), fit'.blocks, Len(fit'.blocks), e)
      BY <3>1, <3>3, <3>4, <3>5 DEF n
    <3>7. Settled(fit'.blocks, fit'.at)
      BY <3>1 DEF Settled
    <3>8. /\ fit'.at \in Nat \ {0} /\ fit'.state # "done"
          /\ (fit'.merged = TRUE \/ fit'.merged = FALSE)
      BY <3>1
    <3>9. fit'.blocks \in Seq(BlockType) /\ fit'.blocks # <<>>
      BY <3>1, <3>5
    <3> QED
      BY <3>6, <3>7, <3>8, <3>9, Zenon DEF PoolInv
  <2>3. CASE fit' = [fit EXCEPT !.at = @ + 1]
    <3>1. fit'.state = "cut" /\ fit'.points = fit.points
      BY <2>1, <2>3
    <3> QED
      BY <2>1, <3>1 DEF PoolInv
  <2>4. (\E cut : fit' = ToPool(cut)) \/ fit' = [fit EXCEPT !.at = @ + 1]
    BY <1>3 DEF TryCut
  <2> QED
    BY <2>2, <2>3, <2>4
<1>4. CASE PoolStep
  <2>1. /\ fit.state = "pool" /\ Fitting
        /\ fit = [state |-> fit.state, points |-> fit.points, cut |-> fit.cut,
                  at |-> fit.at, blocks |-> fit.blocks, merged |-> fit.merged]
        /\ fit.at \in Nat \ {0} /\ (fit.merged = TRUE \/ fit.merged = FALSE)
        /\ Len(fit.points) > 0 /\ fit.blocks \in Seq(BlockType) /\ fit.blocks # <<>>
    BY <1>4 DEF PoolStep, FitInv, Fitting, PoolInv
  <2>2. CASE fit.at < Len(fit.blocks)
    <3>1. fit' = PoolAt(fit)
      BY <1>4, <2>2 DEF PoolStep
    <3> QED
      BY <2>1, <2>2, <3>1, PoolAtKeeps
  <2>3. CASE ~ (fit.at < Len(fit.blocks)) /\ fit.merged = TRUE
    <3>1. fit' = [fit EXCEPT !.merged = FALSE, !.at = 1]
      BY <1>4, <2>3 DEF PoolStep
    <3>2. /\ fit'.state = "pool" /\ fit'.points = fit.points /\ fit'.blocks = fit.blocks
          /\ fit'.merged = FALSE /\ fit'.at = 1
      BY <2>1, <3>1
    <3>3. Settled(fit'.blocks, fit'.at)
      BY <3>2 DEF Settled
    <3>4. /\ fit'.at \in Nat \ {0} /\ fit'.state # "done"
          /\ (fit'.merged = TRUE \/ fit'.merged = FALSE)
      BY <3>2
    <3>5. /\ fit'.blocks \in Seq(BlockType) /\ fit'.blocks # <<>>
          /\ \E e : Spans(fit'.points, Len(fit'.points), fit'.blocks, Len(fit'.blocks), e)
          /\ Len(fit'.points) > 0
      BY <2>1, <3>2 DEF PoolInv
    <3> QED
      BY <3>3, <3>4, <3>5, Zenon DEF PoolInv
  <2>4. CASE ~ (fit.at < Len(fit.blocks)) /\ fit.merged = FALSE
    <3>1. fit' = [fit EXCEPT !.state = "done"]
      BY <1>4, <2>4 DEF PoolStep
    <3>2. fit'.state = "done" /\ fit'.points = fit.points /\ fit'.blocks = fit.blocks
      BY <2>1, <3>1
    <3>3. InOrder(fit.blocks, Len(fit.blocks))
      <4>1. \A k \in 1 .. Len(fit.blocks) - 1 : k < fit.at
        BY <2>1, <2>4
      <4> QED
        BY <2>1, <2>4, <4>1 DEF PoolInv, InOrder, Settled
    <3> QED
      BY <2>1, <3>2, <3>3 DEF PoolInv
  <2> QED
    BY <2>1, <2>2, <2>3, <2>4
<1>5. ASSUME NEW write \in BOOLEAN, EndFit(write) PROVE PoolInv'
  BY <1>5 DEF EndFit, PoolInv, Fitting, NoFit
<1>6. CASE UNCHANGED vars
  BY <1>1, <1>6 DEF vars
<1> QED
  BY <1>1, <1>2, <1>3, <1>4, <1>5, <1>6
     DEF Next, Deliver, Retract, StartValidate, Judge, Skip, EndValidate, KillValidate

(* Whatever was labelled, and in whatever order tied scores were read, the *)
(* blocks of a finished fit are the isotonic regression of the labels      *)
(* (calibrate.py:107).                                                     *)
THEOREM FitIsotonic == ASSUME Finite PROVE Spec => []FitIsIsotonic
<1>1. Init => LabelsInv /\ FitInv /\ PoolInv
  BY LabelsInit, FitInit, PoolInit
<1>2. LabelsInv /\ FitInv /\ PoolInv /\ [Next]_vars => LabelsInv' /\ FitInv' /\ PoolInv'
  BY LabelsNext, FitNext, PoolNext
<1>3. LabelsInv /\ FitInv /\ PoolInv => FitIsIsotonic
  <2> DEFINE p == fit.points
             n == Len(fit.points)
             s == fit.blocks
             m == Len(fit.blocks)
             right(a, b) == Cardinality({i \in a .. b : fit.points[i][2] = 1})
             last[i \in 0 .. Len(fit.blocks)] ==
                 IF i = 0 THEN 0 ELSE last[i - 1] + fit.blocks[i][2]
             atMost(b, a, z) == b[1] * (z - a + 1) <= right(a, z) * b[2]
             atLeast(b, a, z) == b[1] * (z - a + 1) >= right(a, z) * b[2]
  <2> SUFFICES ASSUME LabelsInv, FitInv, PoolInv, fit.state = "done"
               PROVE  /\ last[m] = n
                      /\ \A i \in DOMAIN s :
                           /\ s[i][3] = p[last[i]][1]
                           /\ \A j \in last[i - 1] + 1 .. last[i] :
                                /\ \E a \in 1 .. j : \A z \in j .. n : atMost(s[i], a, z)
                                /\ \A a \in 1 .. j : \E z \in j .. n : atLeast(s[i], a, z)
    BY DEF FitIsIsotonic
  <2>1. PICK e : Spans(p, n, s, m, e)
    BY DEF PoolInv
  <2>2. InOrder(s, m) /\ m \in Nat /\ n \in Nat /\ DOMAIN s = 1 .. m
    BY DEF PoolInv
  <2>3. \A i \in 0 .. m : last[i] = e[i]
    <3> DEFINE F(g) == [i \in 0 .. m |-> IF i = 0 THEN 0 ELSE g[i - 1] + s[i][2]]
               Bad == {i \in 0 .. m : last[i] # e[i]}
    <3>1. e \in [0 .. m -> 0 .. n] /\ e[0] = 0
          /\ \A i \in 1 .. m : s[i][2] = e[i] - e[i - 1]
      BY <2>1 DEF Spans
    <3>2. e = F(e)
      <4> HIDE DEF s, m, n
      <4>1. ASSUME NEW i \in 0 .. m PROVE e[i] = IF i = 0 THEN 0 ELSE e[i - 1] + s[i][2]
        <5>1. CASE i = 0
          BY <3>1, <5>1
        <5>2. CASE i # 0
          <6>1. i \in 1 .. m /\ e[i] \in Int /\ e[i - 1] \in Int
            BY <3>1, <2>2, <5>2
          <6> QED
            BY <3>1, <5>2, <6>1
        <5> QED
          BY <5>1, <5>2
      <4> QED
        BY <3>1, <4>1
    <3>3. last = F(last)
      BY <3>2
    <3> HIDE DEF last, s, m, n
    <3>4. \A i \in 0 .. m : last[i] = IF i = 0 THEN 0 ELSE last[i - 1] + s[i][2]
      BY <3>3
    <3>5. SUFFICES ASSUME Bad # {} PROVE FALSE
      OBVIOUS
    <3>6. PICK i \in Bad : \A g \in Bad : i <= g
      <4>1. Bad \in SUBSET Nat
        OBVIOUS
      <4> HIDE DEF Bad
      <4> QED
        BY <3>5, <4>1, LeastNumber
    <3>7. i # 0
      BY <3>1, <3>4, <3>6
    <3>8. i - 1 \in 0 .. m /\ i - 1 \notin Bad /\ i \in 1 .. m
      BY <2>2, <3>6, <3>7
    <3>9. last[i - 1] = e[i - 1] /\ e[i - 1] \in Int /\ e[i] \in Int
      BY <3>1, <3>8
    <3>10. last[i] = e[i]
      BY <3>1, <3>4, <3>7, <3>8, <3>9
    <3> QED
      BY <3>6, <3>10
  <2> HIDE DEF last
  <2>4. ASSUME NEW i \in 1 .. m
        PROVE  /\ s[i][3] = p[last[i]][1]
               /\ \A j \in last[i - 1] + 1 .. last[i] :
                    /\ \E a \in 1 .. j : \A z \in j .. n : atMost(s[i], a, z)
                    /\ \A a \in 1 .. j : \E z \in j .. n : atLeast(s[i], a, z)
    <3>1. last[i - 1] = e[i - 1] /\ last[i] = e[i]
      BY <2>2, <2>3
    <3>2. s[i][3] = p[e[i]][1]
      BY <2>1 DEF Spans
    <3>3. ASSUME NEW j \in e[i - 1] + 1 .. e[i]
          PROVE  /\ \E a \in 1 .. j : \A z \in j .. n : atMost(s[i], a, z)
                 /\ \A a \in 1 .. j : \E z \in j .. n : atLeast(s[i], a, z)
      <4>1. /\ \E a \in 1 .. j : \A z \in j .. n :
                  s[i][1] * (z - a + 1) <= Successes(p, a .. z) * s[i][2]
            /\ \A a \in 1 .. j : \E z \in j .. n :
                  s[i][1] * (z - a + 1) >= Successes(p, a .. z) * s[i][2]
        <5> HIDE DEF p, n, s, m
        <5> QED
          BY <2>1, <2>2, MaxMin
      <4>2. \A a, z : Successes(p, a .. z) = right(a, z)
        BY DEF Successes
      <4> HIDE DEF right
      <4> QED
        BY <4>1, <4>2
    <3> HIDE DEF atMost, atLeast, p, s
    <3> QED
      BY <3>1, <3>2, <3>3
  <2>5. last[m] = n
    BY <2>1, <2>2, <2>3 DEF Spans
  <2> QED
    BY <2>2, <2>4, <2>5
<1> QED
  BY <1>1, <1>2, <1>3, PTL DEF Spec

-----------------------------------------------------------------------------
(* The curve.                                                              *)
KnotType == Nat \X (Nat \X (Nat \ {0}))

(* A later knot has neither the lower score nor the lower fraction.        *)
Rises(c, i, k) == c[i][1] <= c[k][1] /\ AtMost(c[i][2], c[k][2])
Rising(c) == \A i \in 1 .. Len(c) : \A k \in i .. Len(c) : Rises(c, i, k)

CurveInv == curve \in Seq(KnotType) /\ Rising(curve)

LEMMA AtMostReflexive == ASSUME NEW q, IsRatio(q) PROVE AtMost(q, q)
BY DEF AtMost, IsRatio

LEMMA KnotNumbers ==
    ASSUME NEW k \in KnotType
    PROVE  k[1] \in Nat /\ k[2][1] \in Nat /\ k[2][2] \in Nat \ {0} /\ IsRatio(k[2])
BY DEF KnotType, IsRatio

(* The knots saved are those of the pooled blocks.                         *)
LEMMA KnotsRise ==
    ASSUME Finite, LabelsInv, FitInv, PoolInv, fit.state = "done"
    PROVE  Knots(fit.blocks) \in Seq(KnotType) /\ Rising(Knots(fit.blocks))
<1> DEFINE p == fit.points
           n == Len(fit.points)
           s == fit.blocks
           m == Len(fit.blocks)
           c == Knots(s)
<1>1. PICK e : Spans(p, n, s, m, e)
  BY DEF PoolInv
<1>2. InOrder(s, m) /\ m \in Nat /\ s \in Seq(BlockType) /\ DOMAIN s = 1 .. m
  BY DEF PoolInv
<1>3. /\ n \in Nat
      /\ \A i, j \in 1 .. n : i < j => p[i][1] <= p[j][1]
  <2>1. PICK order : Fitted(order)
    BY DEF FitInv, Fitting
  <2>2. Cardinality(FitRows) \in Nat
    BY FS_Subset, FS_CardinalityType DEF Finite, FitRows
  <2> QED
    BY <2>1, <2>2, FittedSeq
<1>4. \A i \in 1 .. m : c[i] = <<s[i][3], <<s[i][1], s[i][2]>>>> /\ s[i] \in BlockType
  BY <1>2 DEF Knots
<1>5. DOMAIN c = 1 .. m
  BY <1>2 DEF Knots
<1>6. c \in Seq(KnotType) /\ Len(c) = m
  <2>1. \A i \in 1 .. m : c[i] \in KnotType
    BY <1>4 DEF KnotType, BlockType
  <2>2. c = [i \in 1 .. m |-> c[i]]
    BY <1>5 DEF Knots
  <2> HIDE DEF c, m
  <2>3. c \in [1 .. m -> KnotType]
    BY <2>1, <2>2
  <2> QED
    BY <1>2, <1>5, <2>3
<1>7. ASSUME NEW i \in 1 .. m, NEW k \in i .. m PROVE Rises(c, i, k)
  <2>1. AtMost(s[i], s[k])
    <3> HIDE DEF p, n, s, m
    <3> QED
      BY <1>1, <1>2, <1>3, MeansAscend
  <2>2. AtMost(c[i][2], c[k][2])
    BY <1>4, <2>1 DEF AtMost
  <2>3. /\ s[i][3] = p[e[i]][1] /\ s[k][3] = p[e[k]][1]
        /\ e[i] \in 1 .. n /\ e[k] \in 1 .. n
    <3>1. \A j \in 1 .. m : s[j][3] = p[e[j]][1] /\ e[j] \in 1 .. n
      <4> TAKE j \in 1 .. m
      <4>1. /\ s[j] = <<Ones(p, e[j - 1], e[j]), e[j] - e[j - 1], p[e[j]][1]>>
            /\ e[j - 1] \in 0 .. n /\ e[j] \in 0 .. n /\ e[j - 1] < e[j]
        <5> HIDE DEF p, n, s, m
        <5> QED
          BY <1>1, <1>2, <1>3 DEF Spans
      <4> QED
        BY <1>3, <4>1
    <3> QED
      BY <3>1
  <2>4. e[i] <= e[k]
    <3>1. i \in 0 .. m
      OBVIOUS
    <3> HIDE DEF p, n, s, m
    <3> QED
      BY <1>1, <1>2, <1>3, <3>1, EndsAscend
  <2>5. s[i][3] <= s[k][3]
    <3>1. CASE e[i] = e[k]
      <4>1. s[i][3] = s[k][3] /\ s[k][3] \in Nat
        BY <1>4, <2>3, <3>1 DEF BlockType
      <4> QED
        BY <4>1
    <3>2. CASE e[i] < e[k]
      BY <1>3, <2>3, <3>2
    <3> QED
      BY <2>3, <2>4, <3>1, <3>2
  <2> QED
    BY <1>4, <2>2, <2>5 DEF Rises
<1> HIDE DEF c, m
<1>8. Rising(c)
  BY <1>6, <1>7 DEF Rising
<1> QED
  BY <1>6, <1>8 DEF c

LEMMA CurveNext ==
    ASSUME Finite
    PROVE  LabelsInv /\ FitInv /\ PoolInv /\ CurveInv /\ [Next]_vars => CurveInv'
<1> SUFFICES ASSUME LabelsInv, FitInv, PoolInv, CurveInv, [Next]_vars PROVE CurveInv'
  OBVIOUS
<1>1. CASE UNCHANGED curve
  BY <1>1 DEF CurveInv
<1>2. ASSUME NEW write \in BOOLEAN, EndFit(write) PROVE CurveInv'
  <2>1. CASE curve' = Knots(fit.blocks)
    BY <1>2, <2>1, KnotsRise DEF EndFit, CurveInv
  <2> QED
    BY <1>1, <1>2, <2>1 DEF EndFit
<1> QED
  BY <1>1, <1>2 DEF Next, Deliver, Retract, StartValidate, Judge, Skip, EndValidate,
                    KillValidate, StartFit, TryCut, PoolStep, vars

(* The knots a process loads: the curve is in order already, so an order   *)
(* to load it in exists, and whichever is taken rises.                     *)
LEMMA LoadedRise ==
    ASSUME CurveInv
    PROVE  /\ LoadedKnots \in Seq(KnotType) /\ Len(LoadedKnots) = Len(curve)
           /\ Rising(LoadedKnots)
<1> DEFINE D == DOMAIN curve
           m == Len(curve)
           Sorts(f) == \A i, j \in D : i < j => Ascends(curve[f[i]], curve[f[j]])
           f == CHOOSE g \in Bijection(D, D) : Sorts(g)
           c == LoadedKnots
<1>1. m \in Nat /\ D = 1 .. m /\ \A i \in D : curve[i] \in KnotType
  BY DEF CurveInv
<1>2. \A i \in D : \A k \in D : i <= k => Rises(curve, i, k)
  BY <1>1 DEF CurveInv, Rising
<1>3. c = [i \in D |-> curve[f[i]]]
  BY DEF LoadedKnots
<1>4. f \in Bijection(D, D) /\ Sorts(f)
  <2> DEFINE same == [i \in D |-> i]
  <2>1. same \in Bijection(D, D)
    <3> HIDE DEF D
    <3> QED
      BY DEF Bijection, Injection, Surjection, IsInjective
  <2>2. ASSUME NEW i \in D, NEW j \in D, i < j PROVE Ascends(curve[i], curve[j])
    <3>1. Rises(curve, i, j) /\ curve[i][1] \in Nat /\ curve[j][1] \in Nat
      BY <1>1, <1>2, <2>2, KnotNumbers
    <3> QED
      BY <3>1 DEF Rises, Ascends
  <2>3. Sorts(same)
    BY <2>2
  <2> HIDE DEF same, Sorts
  <2> QED
    BY <2>1, <2>3
<1> HIDE DEF f, c
<1>5. f \in [D -> D] /\ Len(c) = m /\ c \in Seq(KnotType)
  <2>1. f \in [D -> D]
    BY <1>4 DEF Bijection, Injection
  <2>2. c \in [1 .. m -> KnotType]
    BY <1>1, <1>3, <2>1
  <2> HIDE DEF D, m
  <2> QED
    BY <1>1, <2>1, <2>2
<1>6. ASSUME NEW i \in 1 .. m, NEW k \in i .. m PROVE Rises(c, i, k)
  <2>1. /\ i \in D /\ k \in D /\ f[i] \in D /\ f[k] \in D
        /\ c[i] = curve[f[i]] /\ c[k] = curve[f[k]]
    BY <1>1, <1>3, <1>5
  <2>2. c[i][1] \in Nat /\ c[k][1] \in Nat /\ IsRatio(c[i][2])
    BY <1>1, <2>1, KnotNumbers
  <2>3. CASE i = k
    BY <2>2, <2>3, AtMostReflexive DEF Rises
  <2>4. CASE i < k
    <3>1. Ascends(c[i], c[k])
      BY <1>4, <2>1, <2>4
    <3>2. CASE c[i][1] = c[k][1]
      BY <2>2, <3>1, <3>2 DEF Ascends, Rises
    <3>3. CASE c[i][1] < c[k][1]
      <4>1. ~ (f[k] <= f[i])
        <5>1. SUFFICES ASSUME f[k] <= f[i] PROVE FALSE
          OBVIOUS
        <5>2. Rises(curve, f[k], f[i])
          BY <1>2, <2>1, <5>1
        <5> QED
          BY <2>1, <2>2, <3>3, <5>2 DEF Rises
      <4>2. f[i] <= f[k]
        BY <1>1, <2>1, <4>1
      <4>3. Rises(curve, f[i], f[k])
        BY <1>2, <2>1, <4>2
      <4> QED
        BY <2>1, <4>3 DEF Rises
    <3> QED
      BY <2>2, <3>1, <3>2, <3>3 DEF Ascends
  <2> QED
    BY <2>3, <2>4
<1>7. Rising(c)
  BY <1>5, <1>6 DEF Rising
<1> QED
  BY <1>5, <1>7 DEF c

-----------------------------------------------------------------------------
(* Reading the curve.  A score above the first knot and below the last is  *)
(* read on the segment the search stops at, which does not begin there.    *)
Segment(c, x, i) ==
    /\ i \in 1 .. Len(c) - 1
    /\ c[i][1] < x /\ x <= c[i + 1][1]
Inside(c, x) == c[1][1] < x /\ x < c[Len(c)][1]

LEMMA ReadOnSegment ==
    ASSUME NEW x \in Nat, LoadedKnots \in Seq(KnotType), LoadedKnots # <<>>,
           Rising(LoadedKnots), Inside(LoadedKnots, x)
    PROVE  \E i : /\ Segment(LoadedKnots, x, i)
                  /\ Calibrated(x) = Between(LoadedKnots[i], LoadedKnots[i + 1], x)
<1> DEFINE c == LoadedKnots
           n == Len(c)
           On(j) == c[j][1] <= x /\ x <= c[j + 1][1]
           First(j) == On(j) /\ \A g \in 1 .. j - 1 : ~ On(g)
           i == CHOOSE j \in 1 .. n - 1 : First(j)
           S == {j \in 1 .. n - 1 : x <= c[j + 1][1]}
<1>1. n \in Nat \ {0} /\ \A j \in 1 .. n : c[j] \in KnotType /\ c[j][1] \in Nat
  <2>1. \A j \in 1 .. n : c[j] \in KnotType
    OBVIOUS
  <2> QED
    BY <2>1, KnotNumbers
<1>2. c[1][1] < x /\ x < c[n][1]
  BY DEF Inside
<1> HIDE DEF c, n
<1>3. S \in SUBSET Nat /\ n - 1 \in S
  BY <1>1, <1>2
<1>4. PICK j \in S : \A g \in S : j <= g
  <2> HIDE DEF S
  <2> QED
    BY <1>3, LeastNumber
<1>5. j \in 1 .. n - 1 /\ First(j)
  <2>1. j \in 1 .. n - 1 /\ x <= c[j + 1][1]
    BY <1>4
  <2>2. c[j][1] <= x
    <3>1. CASE j = 1
      BY <1>1, <1>2, <3>1
    <3>2. CASE j # 1
      <4>1. j - 1 \in 1 .. n - 1 /\ (j - 1) + 1 = j /\ ~ (j <= j - 1)
        BY <1>1, <2>1, <3>2
      <4>2. j - 1 \notin S
        <5> HIDE DEF S
        <5> QED
          BY <1>4, <4>1
      <4>3. ~ (x <= c[j][1])
        BY <4>1, <4>2
      <4> QED
        BY <1>1, <2>1, <4>3
    <3> QED
      BY <3>1, <3>2
  <2>3. ASSUME NEW g \in 1 .. j - 1 PROVE ~ On(g)
    <3>1. g \in 1 .. n - 1 /\ g \notin S
      BY <1>1, <1>4, <2>1
    <3> QED
      BY <3>1
  <2> QED
    BY <2>1, <2>2, <2>3
<1>6. i \in 1 .. n - 1 /\ First(i)
  <2> HIDE DEF First
  <2> QED
    BY <1>5
<1>7. Calibrated(x) = Between(c[i], c[i + 1], x)
  <2>1. ~ (x <= c[1][1]) /\ ~ (x >= c[n][1])
    BY <1>1, <1>2
  <2> QED
    BY <2>1 DEF Calibrated, c, n
<1> HIDE DEF i
<1>8. c[i][1] < x
  <2>1. SUFFICES ASSUME c[i][1] = x PROVE FALSE
    BY <1>1, <1>6
  <2>2. i # 1
    BY <1>1, <1>2, <2>1
  <2>3. i - 1 \in 1 .. i - 1 /\ (i - 1) + 1 = i /\ i - 1 \in 1 .. n
    BY <1>1, <1>6, <2>2
  <2>4. ~ (c[i - 1][1] <= x)
    BY <1>1, <1>6, <2>1, <2>3
  <2>5. c[i - 1][1] <= c[i][1]
    <3>1. i \in i - 1 .. n
      BY <1>1, <1>6
    <3>2. Rises(c, i - 1, i)
      BY <2>3, <3>1 DEF Rising, c, n
    <3> QED
      BY <3>2 DEF Rises
  <2> QED
    BY <2>1, <2>4, <2>5
<1> QED
  BY <1>6, <1>7, <1>8 DEF Segment, c, n

(* Outside the knots the curve is constant.                                *)
LEMMA ReadOutside ==
    ASSUME NEW x \in Nat, LoadedKnots \in Seq(KnotType), LoadedKnots # <<>>
    PROVE  /\ x <= LoadedKnots[1][1] => Calibrated(x) = LoadedKnots[1][2]
           /\ LoadedKnots[1][1] < x /\ LoadedKnots[Len(LoadedKnots)][1] <= x
                => Calibrated(x) = LoadedKnots[Len(LoadedKnots)][2]
<1> DEFINE c == LoadedKnots
           n == Len(c)
<1>1. n \in Nat \ {0} /\ c[1] \in KnotType /\ c[n] \in KnotType
  OBVIOUS
<1>2. c[1][1] \in Nat /\ c[n][1] \in Nat
  BY <1>1, KnotNumbers
<1>3. x <= c[1][1] => Calibrated(x) = c[1][2]
  BY <1>2 DEF Calibrated
<1>4. c[1][1] < x /\ c[n][1] <= x => Calibrated(x) = c[n][2]
  <2>1. SUFFICES ASSUME c[1][1] < x, c[n][1] <= x PROVE Calibrated(x) = c[n][2]
    OBVIOUS
  <2>2. ~ (x <= c[1][1]) /\ x > c[1][1] /\ x >= c[n][1]
    BY <1>2, <2>1
  <2> QED
    BY <2>2 DEF Calibrated
<1> QED
  BY <1>3, <1>4

(* Between two knots: not below the left one's fraction, not above the     *)
(* right one's, and no lower a step further on.                            *)
LEMMA BetweenRises ==
    ASSUME NEW k \in KnotType, NEW l \in KnotType, AtMost(k[2], l[2]), NEW x \in Nat,
           k[1] < x, x <= l[1]
    PROVE  /\ IsRatio(Between(k, l, x)) /\ Between(k, l, x)[2] # 0
           /\ AtMost(k[2], Between(k, l, x)) /\ AtMost(Between(k, l, x), l[2])
           /\ x + 1 <= l[1] => AtMost(Between(k, l, x), Between(k, l, x + 1))
<1> DEFINE a == k[2][1]
           b == k[2][2]
           c == l[2][1]
           d == l[2][2]
           u == l[1] - x
           v == x - k[1]
           P == a * d
           Q == c * b
           B == b * d
<1>1. /\ a \in Nat /\ b \in Nat \ {0} /\ c \in Nat /\ d \in Nat \ {0}
      /\ k[1] \in Nat /\ l[1] \in Nat /\ P <= Q
  BY KnotNumbers DEF AtMost
<1>2. u \in Nat /\ v \in Nat \ {0} /\ u + v = l[1] - k[1] /\ l[1] # k[1]
  BY <1>1
<1>3. Between(k, l, x) = <<P * u + Q * v, B * (u + v)>>
  BY <1>2 DEF Between
<1>4. x + 1 <= l[1] => Between(k, l, x + 1) = <<P * (u - 1) + Q * (v + 1), B * (u + v)>>
  <2>1. l[1] - (x + 1) = u - 1 /\ (x + 1) - k[1] = v + 1
    <3>1. l[1] \in Int /\ k[1] \in Int
      BY <1>1
    <3> HIDE DEF P, Q, a, b, c, d
    <3> QED
      BY <3>1
  <2>2. Between(k, l, x + 1) = <<P * (l[1] - (x + 1)) + Q * ((x + 1) - k[1]),
                                 B * (l[1] - k[1])>>
    BY <1>2 DEF Between
  <2> QED
    BY <1>2, <2>1, <2>2
<1>5. x + 1 <= l[1] => u - 1 \in Nat
  BY <1>1
<1> HIDE DEF a, b, c, d, u, v
<1>6. P \in Nat /\ Q \in Nat /\ B \in Nat \ {0}
  BY <1>1
<1>7. u + v \in Nat \ {0} /\ P * u \in Nat /\ Q * v \in Nat
  BY <1>2, <1>6
<1>8. P * u + Q * v \in Nat /\ B * (u + v) \in Nat \ {0}
  BY <1>6, <1>7
<1>9. a * (B * (u + v)) <= (P * u + Q * v) * b
  <2>1. P * v <= Q * v
    BY <1>1, <1>2, <1>6, Scale
  <2>2. (P * u + P * v) * b <= (P * u + Q * v) * b
    BY <1>1, <1>2, <1>6, <1>7, <2>1, Scale
  <2>3. a * (B * (u + v)) = (P * u + P * v) * b
    BY <1>1, <1>2
  <2> QED
    BY <2>2, <2>3
<1>10. (P * u + Q * v) * d <= c * (B * (u + v))
  <2>1. P * u <= Q * u
    BY <1>1, <1>2, <1>6, Scale
  <2>2. (P * u + Q * v) * d <= (Q * u + Q * v) * d
    BY <1>1, <1>2, <1>6, <1>7, <2>1, Scale
  <2>3. c * (B * (u + v)) = (Q * u + Q * v) * d
    BY <1>1, <1>2
  <2> QED
    BY <2>2, <2>3
<1>11. P * u + Q * v <= P * (u - 1) + Q * (v + 1)
  <2> HIDE DEF P, Q
  <2>1. P * (u - 1) = P * u - P /\ Q * (v + 1) = Q * v + Q
    BY <1>2, <1>6
  <2> QED
    BY <1>1, <1>6, <1>7, <2>1
<1>12. (P * u + Q * v) * (B * (u + v)) <= (P * (u - 1) + Q * (v + 1)) * (B * (u + v))
  <2> DEFINE N == P * u + Q * v
             M == P * (u - 1) + Q * (v + 1)
             E == B * (u + v)
  <2>1. N \in Int /\ M \in Int /\ E \in Nat /\ N <= M
    <3> HIDE DEF P, Q, B
    <3> QED
      BY <1>2, <1>6, <1>8, <1>11
  <2>2. N * E <= M * E
    <3> HIDE DEF N, M, E
    <3> QED
      BY <2>1, Scale
  <2> QED
    BY <2>2
<1>13. k[2][1] = a /\ k[2][2] = b /\ l[2][1] = c /\ l[2][2] = d
  BY DEF a, b, c, d
<1> HIDE DEF P, Q, B
<1> QED
  BY <1>3, <1>4, <1>8, <1>9, <1>10, <1>12, <1>13 DEF AtMost, IsRatio

(* A step up the scores never lowers the value read.                       *)
LEMMA CalibratedRises ==
    ASSUME NEW x \in Nat, LoadedKnots \in Seq(KnotType), LoadedKnots # <<>>,
           Rising(LoadedKnots)
    PROVE  AtMost(Calibrated(x), Calibrated(x + 1))
<1> DEFINE c == LoadedKnots
           n == Len(c)
           y == x + 1
<1>1. n \in Nat \ {0} /\ 1 \in 1 .. n /\ n \in 1 .. n /\ y \in Nat
  OBVIOUS
<1>2. \A i \in 1 .. n : c[i] \in KnotType
  OBVIOUS
<1>3. \A i \in 1 .. n : c[i][1] \in Nat /\ IsRatio(c[i][2]) /\ c[i][2][2] # 0
  BY <1>2, KnotNumbers
<1>4. \A i \in 1 .. n : \A k \in i .. n : c[i][1] <= c[k][1] /\ AtMost(c[i][2], c[k][2])
  BY DEF Rising, Rises
<1>5. \A z \in Nat :
        /\ z <= c[1][1] => Calibrated(z) = c[1][2]
        /\ c[1][1] < z /\ c[n][1] <= z => Calibrated(z) = c[n][2]
  BY ReadOutside
<1>6. \A z \in Nat : Inside(c, z) =>
        \E i : Segment(c, z, i) /\ Calibrated(z) = Between(c[i], c[i + 1], z)
  BY ReadOnSegment
<1>7. ASSUME NEW z \in Nat, NEW i, Segment(c, z, i)
      PROVE  /\ i \in 1 .. n - 1 /\ i \in 1 .. n /\ i + 1 \in 1 .. n
             /\ IsRatio(Between(c[i], c[i + 1], z)) /\ Between(c[i], c[i + 1], z)[2] # 0
             /\ AtMost(c[i][2], Between(c[i], c[i + 1], z))
             /\ AtMost(Between(c[i], c[i + 1], z), c[i + 1][2])
             /\ z + 1 <= c[i + 1][1] =>
                  AtMost(Between(c[i], c[i + 1], z), Between(c[i], c[i + 1], z + 1))
  <2>1. i \in 1 .. n - 1 /\ i \in 1 .. n /\ i + 1 \in 1 .. n /\ i + 1 \in i .. n
        /\ c[i][1] < z /\ z <= c[i + 1][1]
    BY <1>1, <1>7 DEF Segment
  <2> DEFINE j == i + 1
  <2> HIDE DEF c, n
  <2>2. c[i] \in KnotType /\ c[j] \in KnotType /\ AtMost(c[i][2], c[j][2])
    BY <1>2, <1>4, <2>1
  <2> HIDE DEF j
  <2>3. z <= c[j][1]
    BY <2>1 DEF j
  <2>4. /\ IsRatio(Between(c[i], c[j], z)) /\ Between(c[i], c[j], z)[2] # 0
        /\ AtMost(c[i][2], Between(c[i], c[j], z)) /\ AtMost(Between(c[i], c[j], z), c[j][2])
        /\ z + 1 <= c[j][1] => AtMost(Between(c[i], c[j], z), Between(c[i], c[j], z + 1))
    BY <2>1, <2>2, <2>3, BetweenRises
  <2> QED
    BY <2>1, <2>4 DEF j
<1>8. \A z : Inside(c, z) <=> c[1][1] < z /\ z < c[n][1]
  BY DEF Inside
<1> HIDE DEF c, n
<1>9. CASE x <= c[1][1]
  <2>1. Calibrated(x) = c[1][2]
    BY <1>5, <1>9
  <2>2. CASE y <= c[1][1]
    BY <1>1, <1>3, <1>5, <2>1, <2>2, AtMostReflexive
  <2>3. CASE c[1][1] < y /\ c[n][1] <= y
    <3>1. Calibrated(y) = c[n][2]
      BY <1>1, <1>5, <2>3
    <3>2. AtMost(c[1][2], c[n][2])
      BY <1>1, <1>4
    <3> QED
      BY <2>1, <3>1, <3>2
  <2>4. CASE Inside(c, y)
    <3>1. PICK j : Segment(c, y, j) /\ Calibrated(y) = Between(c[j], c[j + 1], y)
      BY <1>1, <1>6, <2>4
    <3>2. /\ j \in 1 .. n /\ IsRatio(Calibrated(y)) /\ AtMost(c[j][2], Calibrated(y))
      BY <1>1, <1>7, <3>1
    <3>3. AtMost(c[1][2], c[j][2])
      BY <1>1, <1>4, <3>2
    <3> QED
      BY <1>1, <1>3, <2>1, <3>2, <3>3, AtMostTransitive
  <2> QED
    BY <1>1, <1>3, <1>8, <2>2, <2>3, <2>4
<1>10. CASE c[1][1] < x /\ c[n][1] <= x
  <2>1. c[1][1] < y /\ c[n][1] <= y
    BY <1>1, <1>3, <1>10
  <2>2. Calibrated(x) = c[n][2] /\ Calibrated(y) = c[n][2]
    BY <1>1, <1>5, <1>10, <2>1
  <2> QED
    BY <1>1, <1>3, <2>2, AtMostReflexive
<1>11. CASE Inside(c, x)
  <2>1. PICK i : Segment(c, x, i) /\ Calibrated(x) = Between(c[i], c[i + 1], x)
    BY <1>6, <1>11
  <2>2. /\ i \in 1 .. n - 1 /\ i \in 1 .. n /\ i + 1 \in 1 .. n
        /\ IsRatio(Calibrated(x)) /\ Calibrated(x)[2] # 0
        /\ AtMost(Calibrated(x), c[i + 1][2])
        /\ y <= c[i + 1][1] => AtMost(Calibrated(x), Between(c[i], c[i + 1], y))
    BY <1>7, <2>1
  <2>3. c[1][1] < y
    BY <1>1, <1>3, <1>11, <1>8
  <2>4. CASE c[n][1] <= y
    <3>1. Calibrated(y) = c[n][2]
      BY <1>1, <1>5, <2>3, <2>4
    <3>2. AtMost(c[i + 1][2], c[n][2])
      BY <1>1, <1>4, <2>2
    <3>3. IsRatio(c[i + 1][2]) /\ c[i + 1][2][2] # 0 /\ IsRatio(c[n][2])
      BY <1>1, <1>3, <2>2
    <3> QED
      BY <2>2, <3>1, <3>2, <3>3, AtMostTransitive
  <2>5. CASE y < c[n][1]
    <3>1. PICK j : Segment(c, y, j) /\ Calibrated(y) = Between(c[j], c[j + 1], y)
      BY <1>1, <1>6, <1>8, <2>3, <2>5
    <3>2. /\ j \in 1 .. n - 1 /\ j \in 1 .. n /\ j + 1 \in 1 .. n
          /\ IsRatio(Calibrated(y)) /\ AtMost(c[j][2], Calibrated(y))
      BY <1>1, <1>7, <3>1
    <3>3. CASE j = i
      <4>1. y <= c[i + 1][1]
        BY <3>1, <3>3 DEF Segment
      <4> QED
        BY <2>2, <3>1, <3>3, <4>1
    <3>4. CASE i < j
      <4>1. AtMost(c[i + 1][2], c[j][2])
        BY <1>1, <1>4, <2>2, <3>2, <3>4
      <4>2. IsRatio(c[i + 1][2]) /\ c[i + 1][2][2] # 0 /\ IsRatio(c[j][2]) /\ c[j][2][2] # 0
        BY <1>3, <2>2, <3>2
      <4>3. AtMost(Calibrated(x), c[j][2])
        BY <2>2, <4>1, <4>2, AtMostTransitive
      <4> QED
        BY <2>2, <3>2, <4>2, <4>3, AtMostTransitive
    <3>5. CASE j < i
      <4>1. c[j + 1][1] <= c[i][1]
        BY <1>1, <1>4, <2>2, <3>2, <3>5
      <4>2. c[i][1] < x /\ y <= c[j + 1][1]
        BY <2>1, <3>1 DEF Segment
      <4>3. c[i][1] \in Nat /\ c[j + 1][1] \in Nat
        BY <1>3, <2>2, <3>2
      <4> QED
        BY <4>1, <4>2, <4>3
    <3> QED
      BY <2>2, <3>2, <3>3, <3>4, <3>5
  <2> QED
    BY <1>1, <1>3, <2>4, <2>5
<1>12. x <= c[1][1] \/ (c[1][1] < x /\ c[n][1] <= x) \/ Inside(c, x)
  BY <1>1, <1>3, <1>8
<1> QED
  BY <1>9, <1>10, <1>11, <1>12

(* Whatever fits were written, over scores however tied and pooled, the    *)
(* curve a process loads never gives a higher raw score a lower confidence *)
(* (scorer.py:154).                                                        *)
THEOREM CurveRises == ASSUME Finite PROVE Spec => []CurveMonotone
<1>1. Init => LabelsInv /\ FitInv /\ PoolInv /\ CurveInv
  BY LabelsInit, FitInit, PoolInit DEF Init, CurveInv, Rising
<1>2. LabelsInv /\ FitInv /\ PoolInv /\ CurveInv /\ [Next]_vars
        => LabelsInv' /\ FitInv' /\ PoolInv' /\ CurveInv'
  BY LabelsNext, FitNext, PoolNext, CurveNext
<1>3. CurveInv => CurveMonotone
  <2> SUFFICES ASSUME CurveInv, curve # <<>>, NEW s \in Scores, NEW x \in 0 .. s
               PROVE  AtMost(Calibrated(x), Calibrated(x + 1))
    BY DEF CurveMonotone
  <2>1. LoadedKnots \in Seq(KnotType) /\ Rising(LoadedKnots) /\ LoadedKnots # <<>>
    <3>1. /\ LoadedKnots \in Seq(KnotType) /\ Len(LoadedKnots) = Len(curve)
          /\ Rising(LoadedKnots)
      BY LoadedRise
    <3>2. Len(curve) # 0
      BY DEF CurveInv
    <3> QED
      BY <3>1, <3>2
  <2>2. x \in Nat
    BY CalibrationAssumption DEF CalibrationAssumption
  <2> QED
    BY <2>1, <2>2, CalibratedRises
<1> QED
  BY <1>1, <1>2, <1>3, PTL DEF Spec

-----------------------------------------------------------------------------
(* Every round of a fit brings it nearer to its end.                       *)
Round(n) == 2 * (n + 1)

(* The rounds a fit with n labels may still take: a pass takes at most one *)
(* for each pair, a pass that merged is followed by another, and a merge,  *)
(* which may start all over, leaves a block less.                          *)
RoundsLeft(f, n) ==
    CASE f.state = "cut" -> (n + 1) * Round(n) + (n + 1 - f.at)
      [] f.state = "pool" -> Len(f.blocks) * Round(n)
                             + ((IF f.merged THEN n + 1 ELSE 0) + (Len(f.blocks) - f.at))
      [] OTHER -> 0

FitBounded ==
    Fitting => LET n == Len(fit.points)
               IN  RoundsLeft(fit, n) \in 0 .. (n + 2) * Round(n)

FitAdvances ==
    [][fit.state \in {"cut", "pool"} /\ fit' # fit =>
          /\ fit'.state \in {"cut", "pool", "done"} /\ fit'.points = fit.points
          /\ RoundsLeft(fit', Len(fit.points)) < RoundsLeft(fit, Len(fit.points))]_vars

(* The search stays within the list it goes through.                       *)
RoundInv ==
    /\ fit.state = "cut" => fit.at <= Len(fit.points) + 1
    /\ fit.state = "pool" => fit.at <= Len(fit.blocks) /\ Len(fit.blocks) <= Len(fit.points)

LEMMA FewerRounds ==
    ASSUME NEW n \in Nat, NEW k \in Nat, NEW m \in Nat, m < k,
           NEW a \in Nat, a < Round(n), NEW b \in Nat
    PROVE  /\ k * Round(n) + b \in Nat /\ m * Round(n) + a \in Nat
           /\ m * Round(n) + a < k * Round(n) + b
<1> DEFINE t == Round(n)
<1>1. t \in Nat
  BY DEF Round
<1>2. PICK d \in Nat : k = (m + 1) + d
  <2>1. k - (m + 1) \in Nat /\ k = (m + 1) + (k - (m + 1))
    OBVIOUS
  <2> QED
    BY <2>1
<1>3. a < t
  OBVIOUS
<1> HIDE DEF t
<1>4. m * t \in Nat /\ d * t \in Nat /\ k * t \in Nat
  BY <1>1
<1>5. k * t = (m * t + t) + d * t
  BY <1>1, <1>2
<1> QED
  BY <1>1, <1>3, <1>4, <1>5 DEF t

LEMMA LabelsNumber ==
    ASSUME Finite, LabelsInv, FitInv, PoolInv, Fitting
    PROVE  Len(fit.points) \in Nat /\ Len(fit.points) > 0
<1>1. PICK order : Fitted(order)
  BY DEF FitInv
<1>2. Len(fit.points) = Cardinality(FitRows) /\ Cardinality(FitRows) \in Nat
  BY <1>1, FittedSeq, FS_Subset, FS_CardinalityType DEF Finite, FitRows
<1> QED
  BY <1>2 DEF PoolInv

(* The rest of a pass.                                                     *)
LEMMA PassNumber ==
    ASSUME NEW n \in Nat, NEW k \in Nat, k <= n, NEW at \in Nat \ {0}, at <= k, NEW merged
    PROVE  /\ (IF merged THEN n + 1 ELSE 0) + (k - at) \in Nat
           /\ (IF merged THEN n + 1 ELSE 0) + (k - at) < Round(n)
BY DEF Round

(* One round, whatever it finds.                                           *)
LEMMA RoundFalls ==
    ASSUME Finite, LabelsInv, FitInv, PoolInv, RoundInv, TryCut \/ PoolStep
    PROVE  /\ fit'.state \in {"cut", "pool", "done"} /\ fit'.points = fit.points
           /\ RoundsLeft(fit', Len(fit.points)) < RoundsLeft(fit, Len(fit.points))
           /\ RoundInv'
<1> DEFINE n == Len(fit.points)
           at == fit.at
           s == fit.blocks
<1>1. /\ Fitting /\ fit.state \in {"cut", "pool"}
      /\ fit = [state |-> fit.state, points |-> fit.points, cut |-> fit.cut,
                at |-> fit.at, blocks |-> fit.blocks, merged |-> fit.merged]
  BY DEF TryCut, PoolStep, FitInv, Fitting
<1>2. n \in Nat /\ n > 0
  BY <1>1, LabelsNumber
<1>3. CASE TryCut
  <2>1. fit.state = "cut" /\ at \in Nat \ {0} /\ at <= n + 1
    BY <1>3 DEF TryCut, FitInv, RoundInv
  <2>2. RoundsLeft(fit, n) = (n + 1) * Round(n) + (n + 1 - at)
    BY <2>1 DEF RoundsLeft
  <2>3. ASSUME NEW cut, fit' = ToPool(cut)
        PROVE  /\ fit'.state = "pool" /\ fit'.points = fit.points
               /\ RoundsLeft(fit', n) < RoundsLeft(fit, n)
               /\ RoundInv'
    <3>1. /\ fit'.state = "pool" /\ fit'.points = fit.points /\ fit'.at = 1
          /\ fit'.blocks = Singletons(fit.points) /\ fit'.merged = FALSE
      BY <1>1, <2>3 DEF ToPool
    <3>2. Len(Singletons(fit.points)) = n
      <4>1. PICK order : Fitted(order)
        BY <1>1 DEF FitInv
      <4>2. DOMAIN fit.points = 1 .. n
        BY <4>1, FittedPoints
      <4> QED
        BY <1>2, <4>2 DEF Singletons
    <3>3. RoundsLeft(fit', n) = n * Round(n) + ((IF FALSE THEN n + 1 ELSE 0) + (n - 1))
      BY <3>1, <3>2 DEF RoundsLeft
    <3>4. /\ (IF FALSE THEN n + 1 ELSE 0) + (n - 1) \in Nat
          /\ (IF FALSE THEN n + 1 ELSE 0) + (n - 1) < Round(n)
      BY <1>2 DEF Round
    <3>5. n + 1 - at \in Nat /\ n + 1 \in Nat /\ n < n + 1
      BY <1>2, <2>1
    <3>6. RoundsLeft(fit', n) < RoundsLeft(fit, n)
      <4> HIDE DEF n, at
      <4> QED
        BY <1>2, <2>2, <3>3, <3>4, <3>5, FewerRounds
    <3>7. RoundInv'
      BY <1>2, <3>1, <3>2 DEF RoundInv
    <3> QED
      BY <3>1, <3>6, <3>7
  <2>4. CASE at <= n /\ fit' = [fit EXCEPT !.at = @ + 1]
    <3>1. fit'.state = "cut" /\ fit'.points = fit.points /\ fit'.at = at + 1
      BY <1>1, <2>1, <2>4
    <3>2. RoundsLeft(fit', n) = (n + 1) * Round(n) + (n + 1 - (at + 1))
      BY <3>1 DEF RoundsLeft
    <3>3. (n + 1) * Round(n) \in Nat
      BY <1>2 DEF Round
    <3>4. RoundInv'
      BY <1>2, <2>1, <2>4, <3>1 DEF RoundInv
    <3>5. RoundsLeft(fit', n) < RoundsLeft(fit, n)
      <4> HIDE DEF n, at
      <4> QED
        BY <1>2, <2>1, <2>2, <3>2, <3>3
    <3> QED
      BY <3>1, <3>4, <3>5
  <2>5. (\E cut : fit' = ToPool(cut)) \/ (at <= n /\ fit' = [fit EXCEPT !.at = @ + 1])
    BY <1>2, <1>3, <2>1 DEF TryCut
  <2> QED
    BY <2>3, <2>4, <2>5
<1>4. CASE PoolStep
  <2>1. /\ fit.state = "pool" /\ at \in Nat \ {0} /\ at <= Len(s) /\ Len(s) <= n
        /\ s \in Seq(BlockType) /\ (fit.merged = TRUE \/ fit.merged = FALSE)
    BY <1>4 DEF PoolStep, PoolInv, RoundInv
  <2> DEFINE k == Len(s)
             rest == (IF fit.merged THEN n + 1 ELSE 0) + (k - at)
  <2>2. k \in Nat /\ k > 0
    BY <2>1
  <2>3. RoundsLeft(fit, n) = k * Round(n) + rest
    BY <2>1 DEF RoundsLeft
  <2>4. rest \in Nat
    BY <1>2, <2>1, <2>2
  <2>5. k * Round(n) \in Nat /\ Round(n) \in Nat /\ Round(n) > 0
    <3>1. Round(n) \in Nat /\ Round(n) > 0
      BY <1>2 DEF Round
    <3> HIDE DEF n, k
    <3> QED
      BY <2>2, <3>1
  <2>6. CASE at < k /\ Violates(s[at], s[at + 1])
    <3> DEFINE x == Pooled(s[at], s[at + 1])
               u == Replaced(s, at, x)
    <3>1. fit' = [fit EXCEPT !.blocks = u, !.merged = TRUE, !.at = Back(at)]
      BY <1>4, <2>6 DEF PoolStep, PoolAt, Replaced
    <3>2. x \in BlockType
      <4>1. s[at] \in BlockType /\ s[at + 1] \in BlockType
        BY <2>1, <2>2, <2>6
      <4> QED
        BY <4>1 DEF BlockType, Pooled
    <3>3. Len(u) = k - 1
      <4>1. u = Replaced(s, at, x) /\ at < Len(s)
        BY <2>6
      <4> HIDE DEF x, u, s, at
      <4>2. Len(u) = Len(s) - 1
        BY <2>1, <3>2, <4>1, PooledList
      <4> QED
        BY <4>2
    <3> HIDE DEF u
    <3>4. /\ fit'.state = "pool" /\ fit'.points = fit.points /\ fit'.at = Back(at)
          /\ fit'.blocks = u /\ fit'.merged = TRUE
      BY <1>1, <2>1, <3>1
    <3>5. Back(at) \in Nat \ {0} /\ Back(at) <= k - 1
      BY <2>1, <2>2, <2>6 DEF Back
    <3>6. RoundsLeft(fit', n)
            = (k - 1) * Round(n) + ((IF TRUE THEN n + 1 ELSE 0) + ((k - 1) - Back(at)))
      BY <3>3, <3>4 DEF RoundsLeft
    <3>7. k - 1 \in Nat /\ k - 1 < k /\ k - 1 <= n
      BY <1>2, <2>1, <2>2
    <3>8. /\ (IF TRUE THEN n + 1 ELSE 0) + ((k - 1) - Back(at)) \in Nat
          /\ (IF TRUE THEN n + 1 ELSE 0) + ((k - 1) - Back(at)) < Round(n)
      <4> HIDE DEF n, k, at
      <4> QED
        BY <1>2, <3>5, <3>7, PassNumber
    <3>9. RoundsLeft(fit', n) < RoundsLeft(fit, n)
      <4> HIDE DEF n, k, at, rest
      <4> QED
        BY <1>2, <2>2, <2>3, <2>4, <3>6, <3>7, <3>8, FewerRounds
    <3>10. RoundInv'
      BY <3>3, <3>4, <3>5, <3>7 DEF RoundInv
    <3> QED
      BY <3>4, <3>9, <3>10
  <2>7. CASE at < k /\ ~ Violates(s[at], s[at + 1])
    <3>1. fit' = [fit EXCEPT !.at = @ + 1]
      BY <1>4, <2>7 DEF PoolStep, PoolAt
    <3>2. /\ fit'.state = "pool" /\ fit'.points = fit.points /\ fit'.at = at + 1
          /\ fit'.blocks = s /\ fit'.merged = fit.merged
      BY <1>1, <2>1, <3>1
    <3>3. RoundsLeft(fit', n)
            = k * Round(n) + ((IF fit.merged THEN n + 1 ELSE 0) + (k - (at + 1)))
      BY <3>2 DEF RoundsLeft
    <3>4. (IF fit.merged THEN n + 1 ELSE 0) + (k - (at + 1)) < rest
      BY <1>2, <2>1, <2>2
    <3>5. (IF fit.merged THEN n + 1 ELSE 0) + (k - (at + 1)) \in Int
      BY <1>2, <2>1, <2>2
    <3>6. RoundsLeft(fit', n) < RoundsLeft(fit, n)
      <4> DEFINE y == (IF fit.merged THEN n + 1 ELSE 0) + (k - (at + 1))
      <4>1. y \in Int /\ y < rest /\ RoundsLeft(fit', n) = k * Round(n) + y
        BY <3>3, <3>4, <3>5
      <4> HIDE DEF y, n, k, at, rest
      <4> QED
        BY <2>3, <2>4, <2>5, <4>1
    <3>7. RoundInv'
      BY <2>1, <2>2, <2>7, <3>2 DEF RoundInv
    <3> QED
      BY <3>2, <3>6, <3>7
  <2>8. CASE ~ (at < k) /\ fit.merged = TRUE
    <3>1. fit' = [fit EXCEPT !.merged = FALSE, !.at = 1]
      BY <1>4, <2>8 DEF PoolStep
    <3>2. /\ fit'.state = "pool" /\ fit'.points = fit.points /\ fit'.at = 1
          /\ fit'.blocks = s /\ fit'.merged = FALSE
      BY <1>1, <2>1, <3>1
    <3>3. RoundsLeft(fit', n) = k * Round(n) + (0 + (k - 1))
      BY <3>2 DEF RoundsLeft
    <3>4. 0 + (k - 1) \in Int /\ 0 + (k - 1) < rest
      BY <1>2, <2>1, <2>2, <2>8
    <3>5. RoundsLeft(fit', n) < RoundsLeft(fit, n)
      <4> DEFINE y == 0 + (k - 1)
      <4>1. y \in Int /\ y < rest /\ RoundsLeft(fit', n) = k * Round(n) + y
        BY <3>3, <3>4
      <4> HIDE DEF y, n, k, at, rest
      <4> QED
        BY <2>3, <2>4, <2>5, <4>1
    <3>6. RoundInv'
      BY <2>1, <2>2, <3>2 DEF RoundInv
    <3> QED
      BY <3>2, <3>5, <3>6
  <2>9. CASE ~ (at < k) /\ fit.merged = FALSE
    <3>1. fit' = [fit EXCEPT !.state = "done"]
      BY <1>4, <2>9 DEF PoolStep
    <3>2. fit'.state = "done" /\ fit'.points = fit.points
      BY <1>1, <3>1
    <3>3. RoundsLeft(fit', n) = 0
      BY <3>2 DEF RoundsLeft
    <3>4. 0 < RoundsLeft(fit, n)
      <4>1. 0 \in Nat /\ 0 < k /\ 0 < Round(n) /\ 0 * Round(n) + 0 = 0
        BY <2>2, <2>5
      <4> HIDE DEF n, k, at, rest
      <4> QED
        BY <1>2, <2>2, <2>3, <2>4, <4>1, FewerRounds
    <3>5. RoundInv'
      BY <3>2 DEF RoundInv
    <3> QED
      BY <3>2, <3>3, <3>4, <3>5
  <2> QED
    BY <2>1, <2>6, <2>7, <2>8, <2>9
<1> QED
  BY <1>3, <1>4

LEMMA RoundsNumber ==
    ASSUME Finite, LabelsInv, FitInv, PoolInv, RoundInv PROVE FitBounded
<1> DEFINE n == Len(fit.points)
<1> SUFFICES ASSUME Fitting PROVE RoundsLeft(fit, n) \in 0 .. (n + 2) * Round(n)
  BY DEF FitBounded
<1>1. n \in Nat /\ n > 0
  BY LabelsNumber
<1>2. fit.state \in {"cut", "pool", "done"}
  BY DEF FitInv, Fitting
<1>3. /\ n + 1 \in Nat /\ n + 2 \in Nat /\ n + 1 < n + 2 /\ n < n + 2
      /\ Round(n) \in Nat /\ Round(n) > 0
      /\ (n + 2) * Round(n) \in Nat /\ (n + 2) * Round(n) + 0 = (n + 2) * Round(n)
  BY <1>1 DEF Round
<1>4. CASE fit.state = "cut"
  <2> DEFINE y == n + 1 - fit.at
  <2>1. y \in Nat /\ y < Round(n)
    BY <1>1, <1>4 DEF FitInv, RoundInv, Round
  <2>2. RoundsLeft(fit, n) = (n + 1) * Round(n) + y
    BY <1>4 DEF RoundsLeft
  <2> HIDE DEF n, y
  <2>3. /\ (n + 1) * Round(n) + y \in Nat
        /\ (n + 1) * Round(n) + y < (n + 2) * Round(n) + 0
    BY <1>1, <1>3, <2>1, FewerRounds
  <2> QED
    BY <1>3, <2>2, <2>3
<1>5. CASE fit.state = "pool"
  <2> DEFINE k == Len(fit.blocks)
             y == (IF fit.merged THEN n + 1 ELSE 0) + (k - fit.at)
  <2>1. /\ k \in Nat /\ k <= n /\ fit.at \in Nat \ {0} /\ fit.at <= k
    BY <1>5 DEF PoolInv, RoundInv
  <2>2. y \in Nat /\ y < Round(n)
    BY <1>1, <2>1, PassNumber
  <2>3. RoundsLeft(fit, n) = k * Round(n) + y
    BY <1>5 DEF RoundsLeft
  <2>4. k < n + 2
    BY <1>1, <2>1
  <2> HIDE DEF n, k, y
  <2>5. k * Round(n) + y \in Nat /\ k * Round(n) + y < (n + 2) * Round(n) + 0
    BY <1>1, <1>3, <2>1, <2>2, <2>4, FewerRounds
  <2> QED
    BY <1>3, <2>3, <2>5
<1>6. CASE fit.state = "done"
  BY <1>3, <1>6 DEF RoundsLeft
<1> QED
  BY <1>2, <1>4, <1>5, <1>6

LEMMA RoundNext ==
    ASSUME Finite PROVE LabelsInv /\ FitInv /\ PoolInv /\ RoundInv /\ [Next]_vars => RoundInv'
<1> SUFFICES ASSUME LabelsInv, FitInv, PoolInv, RoundInv, [Next]_vars PROVE RoundInv'
  OBVIOUS
<1>1. CASE UNCHANGED fit
  BY <1>1 DEF RoundInv
<1>2. ASSUME NEW order \in SetToSeqs(FitRows), FitRows # {}, StartFit(order) PROVE RoundInv'
  <2>1. fit'.state = "cut" /\ fit'.at = 1 /\ fit'.points = Points(order)
    BY <1>2 DEF StartFit
  <2>2. FitInv' /\ LabelsInv' /\ PoolInv' /\ Fitting'
    BY <1>2, <2>1, LabelsNext, FitNext, PoolNext DEF Next, Fitting
  <2>3. Len(fit'.points) \in Nat
    <3>1. PICK order_ : Fitted(order_)'
      BY <2>2 DEF FitInv
    <3> QED
      BY <2>1
  <2> QED
    BY <2>1, <2>3 DEF RoundInv
<1>3. CASE TryCut \/ PoolStep
  BY <1>3, RoundFalls
<1>4. ASSUME NEW write \in BOOLEAN, EndFit(write) PROVE RoundInv'
  BY <1>4 DEF EndFit, RoundInv, NoFit
<1>5. CASE UNCHANGED vars
  BY <1>1, <1>5 DEF vars
<1> QED
  BY <1>1, <1>2, <1>3, <1>4, <1>5
     DEF Next, Deliver, Retract, StartValidate, Judge, Skip, EndValidate, KillValidate

(* A fit ends, however its labels violate the order: each round of its two *)
(* loops leaves fewer of a number of rounds that only the labels decide    *)
(* (calibrate.py:107, 153).                                                *)
THEOREM FitEnds == ASSUME Finite PROVE Spec => []FitBounded /\ FitAdvances
<1> DEFINE Inv == LabelsInv /\ FitInv /\ PoolInv /\ RoundInv
           Fewer == fit.state \in {"cut", "pool"} /\ fit' # fit =>
                      /\ fit'.state \in {"cut", "pool", "done"} /\ fit'.points = fit.points
                      /\ RoundsLeft(fit', Len(fit.points)) < RoundsLeft(fit, Len(fit.points))
<1>1. Init => Inv
  BY LabelsInit, FitInit, PoolInit DEF Init, RoundInv, NoFit
<1>2. Inv /\ [Next]_vars => Inv'
  BY LabelsNext, FitNext, PoolNext, RoundNext
<1>3. Inv => FitBounded
  BY RoundsNumber
<1>4. Inv /\ [Next]_vars => [Fewer]_vars
  <2> SUFFICES ASSUME Inv, Next PROVE Fewer
    OBVIOUS
  <2>1. CASE TryCut \/ PoolStep
    BY <2>1, RoundFalls
  <2>2. CASE fit' = fit \/ fit.state \notin {"cut", "pool"}
    BY <2>2
  <2>3. ASSUME NEW order, StartFit(order) PROVE fit.state \notin {"cut", "pool"}
    BY <2>3 DEF StartFit, NoFit
  <2>4. ASSUME NEW write, EndFit(write) PROVE fit.state \notin {"cut", "pool"}
    BY <2>4 DEF EndFit
  <2>5. fit' = fit \/ fit.state \notin {"cut", "pool"} \/ TryCut \/ PoolStep
    BY <2>3, <2>4
       DEF Next, Deliver, Retract, StartValidate, Judge, Skip, EndValidate, KillValidate
  <2> HIDE DEF Fewer
  <2> QED
    BY <2>1, <2>2, <2>5
<1>5. Spec => []Inv
  BY <1>1, <1>2, PTL DEF Spec
<1>6. Spec => []FitBounded
  BY <1>3, <1>5, PTL
<1>7. Spec => [][Fewer]_vars
  BY <1>4, <1>5, PTL DEF Spec
<1> QED
  BY <1>6, <1>7 DEF FitAdvances
=============================================================================
