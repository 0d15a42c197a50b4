---------------------------- MODULE Calibration -----------------------------
(***************************************************************************)
(* From hand labels to a curve: `main.py validate` asks the operator about *)
(* delivered matches and stores each answer at once, `main.py calibrate`   *)
(* chooses a cut and fits an isotonic curve to the stored labels, and the  *)
(* next process scores against the curve it finds on disk.  Runs go on     *)
(* delivering and retracting matches between, and during, these sittings.  *)
(*                                                                         *)
(* Scores are small integers (ties happen), a probability is a fraction    *)
(* <<successes, total>>, and the target a percentage.                      *)
(***************************************************************************)
EXTENDS Integers, Sequences, FiniteSets, SequencesExt

CONSTANTS Rows,       \* rows of the store
          Scores,     \* bound: raw scores told apart
          Sample,     \* --sample: rows shown in one sitting
          Target,     \* target precision, in percent
          MinKept,    \* fewest labels a cut is judged on (10 in the code)
          MaxExtra,   \* further labels bound_for looks ahead (5000 in the code)
          MaxCommands \* bound: validate and calibrate commands given

ASSUME CalibrationAssumption ==
    /\ Scores \subseteq Nat \ {0} /\ Sample \in Nat \ {0} /\ Target \in 1 .. 99
    /\ MinKept \in Nat \ {0} /\ MaxExtra \in Nat /\ MaxCommands \in Nat

VARIABLES score,     \* results.top_score, 0 while the row has no match
          matched,   \* rows of the deliverable that carry a profile
          verdict,   \* validation_labels
          session,   \* the running `validate`
          summary,   \* the last summary that named a number of labels to go
          fit,       \* the running `calibrate`
          curve,     \* calibration.yaml: knots <<score, fraction>>
          commands   \* commands given so far

store == <<score, matched, verdict>>
vars == <<score, matched, verdict, session, summary, fit, curve, commands>>

Labelled(v) == {r \in Rows : verdict[r] = v}
NoSession == [state |-> "off"]
NoSummary == [extra |-> -1, correct |-> 0, incorrect |-> 0]
NoFit == [state |-> "off"]

-----------------------------------------------------------------------------
(* The Wilson lower bound of k successes in n (z = 1.96) clears t percent. *)
(* (centre - margin) / denominator >= t, solved for t.                     *)
WilsonClears(k, n, t) ==
    /\ n > 0
    /\ 100 * k >= t * n
    /\ 625 * (100 * k - t * n) * (100 * k - t * n) >= 2401 * n * t * (100 - t)

(* ValidationState.bound_for: labels to go, all correct, or None (-1).     *)
BoundFor(correct, incorrect) ==
    LET n == correct + incorrect
        enough == {e \in 0 .. MaxExtra : WilsonClears(correct + e, n + e, Target)}
    IN  IF (incorrect > 0 /\ 100 * correct < Target * n) \/ enough = {}
        THEN -1 ELSE CHOOSE e \in enough : \A f \in enough : e <= f

-----------------------------------------------------------------------------
(* A run writes a match; a retraction takes one back and leaves its score  *)
(* and its label behind.                                                   *)
Deliver(r, s) ==
    /\ score[r] = 0
    /\ score' = [score EXCEPT ![r] = s]
    /\ matched' = matched \cup {r}
    /\ UNCHANGED <<verdict, session, summary, fit, curve, commands>>

Retract(r) ==
    /\ r \in matched
    /\ matched' = matched \ {r}
    /\ UNCHANGED <<score, verdict, session, summary, fit, curve, commands>>

-----------------------------------------------------------------------------
GiveCommand == commands < MaxCommands /\ commands' = commands + 1

(* render_summary over the counters the session holds; what it promised is *)
(* kept beside what was stored at that moment.                             *)
Summarise(s) ==
    summary' = IF s.correct + s.incorrect = 0 THEN NoSummary
               ELSE [extra |-> BoundFor(s.correct, s.incorrect),
                     correct |-> Cardinality(Labelled("correct")),
                     incorrect |-> Cardinality(Labelled("incorrect"))]

(* unlabelled_matches: Sample of the matches not yet judged, the most      *)
(* confident first.  Confidences come from the curves of different runs,   *)
(* so the raw scores do not decide which these are, nor their order.       *)
Unlabelled == {r \in matched : verdict[r] = "none"}
Shown(S) ==
    /\ S \subseteq Unlabelled
    /\ Cardinality(S) = IF Cardinality(Unlabelled) < Sample
                        THEN Cardinality(Unlabelled) ELSE Sample

\* mutant: each sitting counts from zero
CountsFromZero == [correct |-> 0, incorrect |-> 0]

(* The counters start from what earlier sittings stored.                   *)
StoredCounts == [correct |-> Cardinality(Labelled("correct")),
                 incorrect |-> Cardinality(Labelled("incorrect"))]

(* cmd_validate up to its loop; nothing to validate exits with 2, a report *)
(* or nothing left to ask prints the summary at once.                      *)
StartValidate(reportOnly) ==
    /\ session = NoSession /\ fit = NoFit
    /\ matched # {}
    /\ IF reportOnly \/ Unlabelled = {}
       THEN Summarise(StoredCounts) /\ UNCHANGED session
       ELSE /\ \E S \in SUBSET Unlabelled :
                  /\ Shown(S)
                  /\ session' = [state |-> "asking", pending |-> S, skipped |-> 0,
                                 correct |-> StoredCounts.correct,
                                 incorrect |-> StoredCounts.incorrect]
            /\ UNCHANGED summary
    /\ GiveCommand
    /\ UNCHANGED <<store, fit, curve>>

(* One answer.  y and n are stored before they are counted; s and anything *)
(* unintelligible is skipped.                                              *)
Asked(r) == session.state = "asking" /\ r \in session.pending

Judge(r, right) ==
    /\ Asked(r)
    /\ verdict' = [verdict EXCEPT ![r] = IF right THEN "correct" ELSE "incorrect"]
    /\ session' = [session EXCEPT !.pending = @ \ {r},
                       !.correct = @ + (IF right THEN 1 ELSE 0),
                       !.incorrect = @ + (IF right THEN 0 ELSE 1)]
    /\ UNCHANGED <<score, matched, summary, fit, curve, commands>>

Skip(r) ==
    /\ Asked(r)
    /\ session' = [session EXCEPT !.pending = @ \ {r}, !.skipped = @ + 1]
    /\ UNCHANGED <<store, summary, fit, curve, commands>>

(* The list is exhausted, or q, EOF or Ctrl-C leaves the loop early.       *)
EndValidate ==
    /\ session.state = "asking"
    /\ Summarise(session)
    /\ session' = NoSession
    /\ UNCHANGED <<store, fit, curve, commands>>

(* The process dies in the middle: no summary, the labels are there.       *)
KillValidate ==
    /\ session.state = "asking"
    /\ session' = NoSession
    /\ UNCHANGED <<store, summary, fit, curve, commands>>

-----------------------------------------------------------------------------
(* iter_labelled_scores: <<score, label>> in ascending score, ties in any  *)
(* order; rows no longer matched are still there.                          *)
FitRows == {r \in Rows : verdict[r] # "none" /\ score[r] > 0}
Points(order) == [i \in DOMAIN order |->
                    <<score[order[i]], IF verdict[order[i]] = "correct" THEN 1 ELSE 0>>]
ByScore(order) == \A i, j \in DOMAIN order : i < j => score[order[i]] <= score[order[j]]

\* mutant: a row exactly at the cut is not counted
KeptAbove(points, cut) == {i \in DOMAIN points : points[i][1] > cut}

Kept(points, cut) == {i \in DOMAIN points : points[i][1] >= cut}

Successes(points, S) == Cardinality({i \in S : points[i][2] = 1})

(* The cut judged on the labels at or above it.                            *)
Qualifies(points, cut) ==
    LET kept == Kept(points, cut)
    IN  /\ Cardinality(kept) >= MinKept
        /\ WilsonClears(Successes(points, kept), Cardinality(kept), Target)

(* fit_from_labels refuses an empty sample (exit 2).  choose_threshold     *)
(* starts at the lowest score.                                             *)
StartFit(order) ==
    /\ session = NoSession /\ fit = NoFit
    /\ ByScore(order)
    /\ fit' = [state |-> "cut", points |-> Points(order), cut |-> 0, at |-> 1,
               blocks |-> <<>>, merged |-> FALSE]
    /\ GiveCommand
    /\ UNCHANGED <<store, session, summary, curve>>

(* isotonic_fit's blocks: <<sum of labels, count, representative score>>.  *)
Singletons(points) == [i \in DOMAIN points |-> <<points[i][2], 1, points[i][1]>>]
ToPool(cut) == [fit EXCEPT !.state = "pool", !.cut = cut, !.at = 1,
                    !.blocks = Singletons(fit.points), !.merged = FALSE]

(* One round of choose_threshold; the first cut that qualifies is taken.   *)
TryCut ==
    /\ fit.state = "cut"
    /\ fit' = IF fit.at > Len(fit.points) THEN ToPool(0)
              ELSE LET cut == fit.points[fit.at][1]
                   IN  IF Qualifies(fit.points, cut) THEN ToPool(cut)
                       ELSE [fit EXCEPT !.at = @ + 1]
    /\ UNCHANGED <<store, session, summary, curve, commands>>

\* mutant: the pooled block forgets how many labels the left one held
PooledByHalf(b, c) == <<b[1] + c[1], c[2] + 1, c[3]>>

Violates(b, c) == b[1] * c[2] > c[1] * b[2]
Pooled(b, c) == <<b[1] + c[1], b[2] + c[2], c[3]>>

Back(i) == IF i > 1 THEN i - 1 ELSE 1

\* mutant: one forward pass over the pairs
PoolForward(f) ==
    LET b == f.blocks[f.at]
        c == f.blocks[f.at + 1]
    IN  IF Violates(b, c)
        THEN [f EXCEPT !.blocks = [RemoveAt(@, f.at + 1) EXCEPT ![f.at] = Pooled(b, c)]]
        ELSE [f EXCEPT !.at = @ + 1]

(* One round of pool-adjacent-violators at the pair at, at + 1.            *)
PoolAt(f) ==
    LET b == f.blocks[f.at]
        c == f.blocks[f.at + 1]
    IN  IF Violates(b, c)
        THEN [f EXCEPT !.blocks = [RemoveAt(@, f.at + 1) EXCEPT ![f.at] = Pooled(b, c)],
                       !.merged = TRUE, !.at = Back(@)]
        ELSE [f EXCEPT !.at = @ + 1]

PoolStep ==
    /\ fit.state = "pool"
    /\ fit' = IF fit.at < Len(fit.blocks) THEN PoolAt(fit)
              ELSE IF fit.merged THEN [fit EXCEPT !.merged = FALSE, !.at = 1]
              ELSE [fit EXCEPT !.state = "done"]
    /\ UNCHANGED <<store, session, summary, curve, commands>>

(* calibrate prints, and with --write saves the knots to calibration.yaml. *)
Knots(blocks) == [i \in DOMAIN blocks |-> <<blocks[i][3], <<blocks[i][1], blocks[i][2]>>>>]
EndFit(write) ==
    /\ fit.state = "done"
    /\ curve' = IF write THEN Knots(fit.blocks) ELSE curve
    /\ fit' = NoFit
    /\ UNCHANGED <<store, session, summary, commands>>

-----------------------------------------------------------------------------
Init ==
    /\ score = [r \in Rows |-> 0]
    /\ matched = {}
    /\ verdict = [r \in Rows |-> "none"]
    /\ session = NoSession
    /\ summary = NoSummary
    /\ fit = NoFit
    /\ curve = <<>>
    /\ commands = 0

Next ==
    \/ \E r \in Rows, s \in Scores : Deliver(r, s)
    \/ \E r \in Rows : Retract(r)
    \/ \E reportOnly \in BOOLEAN : StartValidate(reportOnly)
    \/ \E r \in Rows, right \in BOOLEAN : Judge(r, right)
    \/ \E r \in Rows : Skip(r)
    \/ EndValidate
    \/ KillValidate
    \/ FitRows # {} /\ \E order \in SetToSeqs(FitRows) : StartFit(order)
    \/ TryCut
    \/ PoolStep
    \/ \E write \in BOOLEAN : EndFit(write)

Spec == Init /\ [][Next]_vars

-----------------------------------------------------------------------------
(* scorer.calibrate over the fitted knots, as settings load them: constant *)
(* outside, linear between two knots, the later value where two share a    *)
(* score.  Fractions are <<numerator, denominator>>.                       *)
AtMost(p, q) == p[1] * q[2] <= q[1] * p[2]
Ascends(k, l) == k[1] < l[1] \/ (k[1] = l[1] /\ AtMost(k[2], l[2]))
LoadedKnots ==
    LET sorted == CHOOSE f \in Bijection(DOMAIN curve, DOMAIN curve) :
                    \A i, j \in DOMAIN curve : i < j => Ascends(curve[f[i]], curve[f[j]])
    IN  [i \in DOMAIN curve |-> curve[sorted[i]]]

Between(k, l, x) ==
    LET n == k[2][2] * l[2][2] * (l[1] - k[1])
    IN  IF l[1] = k[1] THEN l[2]
        ELSE <<k[2][1] * l[2][2] * (l[1] - x) + l[2][1] * k[2][2] * (x - k[1]), n>>

Calibrated(x) ==
    LET knots == LoadedKnots
        i == CHOOSE j \in 1 .. Len(knots) - 1 :
                /\ knots[j][1] <= x /\ x <= knots[j + 1][1]
                /\ \A g \in 1 .. j - 1 : ~(knots[g][1] <= x /\ x <= knots[g + 1][1])
    IN  CASE x <= knots[1][1] -> knots[1][2]
          [] x > knots[1][1] /\ x >= knots[Len(knots)][1] -> knots[Len(knots)][2]
          [] OTHER -> Between(knots[i], knots[i + 1], x)

-----------------------------------------------------------------------------
(* What a summary promised - so many further labels, all correct, reach    *)
(* the target - comes true when exactly that is stored afterwards, over    *)
(* any sittings, quits and retractions (validate.py:46, main.py:537).      *)
PromiseKept ==
    LET correct == Cardinality(Labelled("correct"))
        incorrect == Cardinality(Labelled("incorrect"))
    IN  summary.extra >= 0 /\ incorrect = summary.incorrect
            /\ correct = summary.correct + summary.extra
        => WilsonClears(correct, correct + incorrect, Target)

(* The cut recommended is the lowest score whose labels clear the target,  *)
(* and none is recommended only when no score does: a lower cut keeps more *)
(* rows (calibrate.py:153).                                                *)
CutIsLowest ==
    fit.state = "done" =>
        LET scores == {fit.points[i][1] : i \in DOMAIN fit.points}
            passing == {c \in scores :
                          LET kept == {p \in Rows : verdict[p] # "none" /\ score[p] >= c}
                              good == {p \in kept : verdict[p] = "correct"}
                          IN  /\ Cardinality(kept) >= MinKept
                              /\ WilsonClears(Cardinality(good), Cardinality(kept), Target)}
        IN  IF passing = {} THEN fit.cut = 0
            ELSE fit.cut \in passing /\ \A c \in passing : fit.cut <= c

(* The pooled blocks are the least-squares isotonic regression of the      *)
(* labels: at each position the largest over starts a of the smallest over *)
(* ends b of the mean label from a to b (calibrate.py:107).                *)
FitIsIsotonic ==
    fit.state = "done" =>
        LET n == Len(fit.points)
            right(a, b) == Cardinality({i \in a .. b : fit.points[i][2] = 1})
            last[i \in 0 .. Len(fit.blocks)] ==
                IF i = 0 THEN 0 ELSE last[i - 1] + fit.blocks[i][2]
        IN  /\ last[Len(fit.blocks)] = n
            /\ \A i \in DOMAIN fit.blocks :
                 LET b == fit.blocks[i]
                     atMost(a, e) == b[1] * (e - a + 1) <= right(a, e) * b[2]
                     atLeast(a, e) == b[1] * (e - a + 1) >= right(a, e) * b[2]
                 IN  /\ b[3] = fit.points[last[i]][1]
                     /\ \A j \in last[i - 1] + 1 .. last[i] :
                          /\ \E a \in 1 .. j : \A e \in j .. n : atMost(a, e)
                          /\ \A a \in 1 .. j : \E e \in j .. n : atLeast(a, e)

(* Under the curve a process loads, a higher raw score never gets the      *)
(* lower confidence, ties and pooled scores included (scorer.py:154).      *)
CurveMonotone ==
    curve # <<>> =>
        \A s \in Scores : \A x \in 0 .. s : AtMost(Calibrated(x), Calibrated(x + 1))
=============================================================================
