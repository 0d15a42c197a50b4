---------------------------- MODULE LadderProofs ----------------------------
(***************************************************************************)
(* What the ladder guarantees for every number of people, companies,       *)
(* consumers, rungs and contact queries, and whatever the texts are.       *)
(***************************************************************************)
EXTENDS Ladder, TLAPS

(* The inductive invariant, for a row in state w over the response cache S *)
(* and the company cache C.                                                *)

Answered(r, S) == \E i \in 1 .. Rungs : <<"person", r, i>> \in DOMAIN S

Confirmed(r, w, S) ==
    /\ Matched(r, w.evidence)
    /\ Corroboration => /\ <<"person", r, OpenWeb>> \in DOMAIN S
                        /\ S[<<"person", r, OpenWeb>>] \cap Independent[r] # {}

(* What the fields of w remember is so.                                    *)
Base(r, w, S, C) ==
    /\ w \in Progress
    /\ w.scored => Answered(r, S)
    /\ w.footprint = "no" => Company[r] \in DOMAIN C

(* What is known at each place of the coroutine.                           *)
Where(r, w) ==
    /\ w.pc \in {"todo", "roster"} => w.step = 1 /\ w.errors = 0
    /\ w.pc = "contact" => w.errors < w.step /\ w.step <= ContactQueries
    /\ w.pc = "ladder" => w.step <= Rungs
    /\ w.pc \in {"free_match", "match"} => Matched(r, w.evidence)
    /\ w.pc = "match" => w.scored
    /\ w.pc = "done" <=> w.decision # "none"

Settled(r, w, S) ==
    /\ w.decision = "matched" => Confirmed(r, w, S)
    /\ w.decision \in {"contact", "blank"} => w.scored \/ (NegativeCache /\ w.footprint = "no")

Good(r, w, S, C) == Base(r, w, S, C) /\ Where(r, w) /\ Settled(r, w, S)

IInv == TypeOK /\ \A r \in Rows : Good(r, work[r], serp, companies)

-----------------------------------------------------------------------------
(* The stages of one row.                                                  *)

LEMMA Bounds ==
    /\ 1 \in 1 .. (Rungs + ContactQueries) /\ 1 <= Rungs /\ 1 <= ContactQueries
    /\ 0 \in 0 .. ContactQueries
BY LadderAssumption

LEMMA DecideGood ==
    ASSUME NEW r \in Rows, NEW w, NEW S, NEW C, Base(r, w, S, C),
           NEW matched \in BOOLEAN, NEW scored \in BOOLEAN,
           matched => Confirmed(r, w, S),
           ~matched /\ scored => w.scored \/ (NegativeCache /\ w.footprint = "no")
    PROVE  Good(r, Decide(r, w, matched, scored), S, C)
<1> DEFINE v == Decide(r, w, matched, scored)
<1>1. v \in Progress /\ v.pc = "done" /\ v.decision \in {"matched", "contact", "blank", "blank_error"}
  BY DEF Base, Progress, Decide
<1>2. v.evidence = w.evidence /\ v.scored = w.scored /\ v.footprint = w.footprint
  BY DEF Base, Progress, Decide
<1>3. /\ v.decision = "matched" <=> matched
      /\ v.decision \in {"contact", "blank"} => ~matched /\ scored
  BY DEF Base, Progress, Decide
<1> HIDE DEF v
<1>4. Base(r, v, S, C)
  BY <1>1, <1>2 DEF Base
<1>5. Where(r, v)
  BY <1>1 DEF Where
<1>6. Confirmed(r, w, S) <=> Confirmed(r, v, S)
  BY <1>2 DEF Confirmed
<1>7. Settled(r, v, S)
  BY <1>2, <1>3, <1>6 DEF Settled
<1> QED
  BY <1>4, <1>5, <1>7 DEF Good, v

LEMMA NextRungGood ==
    ASSUME NEW r \in Rows, NEW w, NEW S, NEW C, Base(r, w, S, C),
           w.pc = "ladder", w.step <= Rungs, w.decision = "none"
    PROVE  Good(r, NextRung(r, w), S, C)
<1>1. CASE w.step < Rungs
  <2> DEFINE v == [w EXCEPT !.step = w.step + 1, !.waiting = FALSE]
  <2>1. NextRung(r, w) = v
    BY <1>1 DEF NextRung
  <2>0. w.step + 1 \in 1 .. (Rungs + ContactQueries) /\ w.step + 1 <= Rungs
    BY <1>1, LadderAssumption DEF Base, Progress
  <2>2. v \in Progress /\ v.pc = "ladder" /\ v.step <= Rungs /\ v.decision = "none"
    BY <2>0 DEF Base, Progress
  <2>3. v.scored = w.scored /\ v.footprint = w.footprint
    BY DEF Base, Progress
  <2> HIDE DEF v
  <2> QED
    BY <2>1, <2>2, <2>3 DEF Good, Base, Where, Settled
<1>2. CASE ~(w.step < Rungs)
  <2>1. w.scored \in BOOLEAN
    BY DEF Base, Progress
  <2>2. Good(r, Decide(r, w, FALSE, w.scored), S, C)
    BY <2>1, DecideGood
  <2> QED
    BY <1>2, <2>2 DEF NextRung
<1> QED
  BY <1>1, <1>2

LEMMA RungAnsweredGood ==
    ASSUME NEW r \in Rows, NEW w, NEW S, NEW C, Base(r, w, S, C),
           w.pc = "ladder", w.step <= Rungs, w.decision = "none",
           <<"person", r, w.step>> \in DOMAIN S, NEW response \in SUBSET Items
    PROVE  Good(r, RungAnswered(r, w, response), S, C)
<1> DEFINE v == [w EXCEPT !.evidence = w.evidence \cup response, !.scored = TRUE,
                          !.waiting = FALSE]
<1>1. /\ v \in Progress /\ v.pc = "ladder" /\ v.step = w.step /\ v.decision = "none"
      /\ v.scored = TRUE /\ v.footprint = w.footprint
  BY DEF Base, Progress
<1>2. Answered(r, S)
  BY DEF Answered, Base, Progress
<1>3. Base(r, v, S, C)
  BY <1>1, <1>2 DEF Base
<1>4. CASE ~Matched(r, v.evidence)
  <2>1. Good(r, NextRung(r, v), S, C)
    BY <1>1, <1>3, NextRungGood
  <2> QED
    BY <1>4, <2>1 DEF RungAnswered
<1>5. CASE Matched(r, v.evidence) /\ Corroboration
  <2> DEFINE u == [v EXCEPT !.pc = "match"]
  <2>1. /\ u \in Progress /\ u.pc = "match" /\ u.scored = TRUE /\ u.decision = "none"
        /\ u.footprint = w.footprint /\ u.evidence = v.evidence
    BY <1>1 DEF Progress
  <2>2. RungAnswered(r, w, response) = u
    BY <1>5 DEF RungAnswered
  <2> HIDE DEF u
  <2> QED
    BY <1>2, <1>5, <2>1, <2>2 DEF Good, Base, Where, Settled
<1>6. CASE Matched(r, v.evidence) /\ ~Corroboration
  <2>1. Good(r, Decide(r, v, TRUE, TRUE), S, C)
    <3> HIDE DEF v
    <3> QED
      BY <1>1, <1>3, <1>6, DecideGood DEF Confirmed
  <2> QED
    BY <1>6, <2>1 DEF RungAnswered
<1> QED
  BY <1>4, <1>5, <1>6

LEMMA CorroboratedGood ==
    ASSUME NEW r \in Rows, NEW w, NEW S, NEW C, Base(r, w, S, C), Where(r, w),
           w.pc \in {"free_match", "match"}, NEW found \in BOOLEAN,
           found => Confirmed(r, w, S)
    PROVE  Good(r, Corroborated(r, w, found), S, C)
<1>1. CASE found
  <2>1. Good(r, Decide(r, w, TRUE, TRUE), S, C)
    BY <1>1, DecideGood
  <2> QED
    BY <1>1, <2>1 DEF Corroborated
<1>2. CASE ~found /\ w.pc = "free_match"
  <2> DEFINE v == [w EXCEPT !.pc = "ladder", !.step = 1, !.waiting = FALSE]
  <2>0. 1 \in 1 .. (Rungs + ContactQueries)
    BY LadderAssumption
  <2>1. /\ v \in Progress /\ v.pc = "ladder" /\ v.step = 1 /\ v.decision = w.decision
        /\ v.scored = w.scored /\ v.footprint = w.footprint
    BY <2>0 DEF Base, Progress
  <2>2. Corroborated(r, w, found) = v
    BY <1>2 DEF Corroborated
  <2> HIDE DEF v
  <2> QED
    BY <1>2, <2>1, <2>2, LadderAssumption DEF Good, Base, Where, Settled
<1>3. CASE ~found /\ w.pc = "match"
  <2>1. Good(r, Decide(r, w, FALSE, TRUE), S, C)
    BY <1>3, DecideGood DEF Where
  <2> QED
    BY <1>3, <2>1 DEF Corroborated
<1> QED
  BY <1>1, <1>2, <1>3

LEMMA FindPersonGood ==
    ASSUME NEW r \in Rows, NEW w, NEW S, NEW C, Base(r, w, S, C), w.decision = "none"
    PROVE  Good(r, FindPerson(r, w), S, C)
<1>1. CASE NegativeCache /\ w.footprint = "no"
  <2>1. Good(r, Decide(r, w, FALSE, TRUE), S, C)
    BY <1>1, DecideGood
  <2> QED
    BY <1>1, <2>1 DEF FindPerson
<1>2. CASE ~(NegativeCache /\ w.footprint = "no") /\ Matched(r, w.evidence) /\ Corroboration
  <2> DEFINE v == [w EXCEPT !.pc = "free_match"]
  <2>1. /\ v \in Progress /\ v.pc = "free_match" /\ v.decision = "none"
        /\ v.scored = w.scored /\ v.footprint = w.footprint /\ v.evidence = w.evidence
    BY DEF Base, Progress
  <2>2. FindPerson(r, w) = v
    BY <1>2 DEF FindPerson
  <2> HIDE DEF v
  <2> QED
    BY <1>2, <2>1, <2>2 DEF Good, Base, Where, Settled
<1>3. CASE ~(NegativeCache /\ w.footprint = "no") /\ Matched(r, w.evidence) /\ ~Corroboration
  <2>1. Good(r, Decide(r, w, TRUE, TRUE), S, C)
    BY <1>3, DecideGood DEF Confirmed
  <2> QED
    BY <1>3, <2>1 DEF FindPerson
<1>4. CASE ~(NegativeCache /\ w.footprint = "no") /\ ~Matched(r, w.evidence)
  <2> DEFINE v == [w EXCEPT !.pc = "ladder", !.step = 1]
  <2>0. 1 \in 1 .. (Rungs + ContactQueries) /\ 1 <= Rungs
    BY LadderAssumption
  <2>1. /\ v \in Progress /\ v.pc = "ladder" /\ v.decision = "none" /\ v.step = 1
        /\ v.scored = w.scored /\ v.footprint = w.footprint
    BY <2>0 DEF Base, Progress
  <2>2. FindPerson(r, w) = v
    BY <1>4 DEF FindPerson
  <2> HIDE DEF v
  <2> QED
    BY <2>0, <2>1, <2>2 DEF Good, Base, Where, Settled
<1> QED
  BY <1>1, <1>2, <1>3, <1>4

LEMMA CompanyStageGood ==
    ASSUME NEW r \in Rows, NEW w, NEW S, NEW C, Base(r, w, S, C), w.decision = "none"
    PROVE  Good(r, CompanyStageDone(r, w), S, C)
<1>1. Good(r, Decide(r, w, FALSE, FALSE), S, C)
  BY DecideGood
<1>2. Good(r, FindPerson(r, w), S, C)
  BY FindPersonGood
<1> QED
  BY <1>1, <1>2 DEF CompanyStageDone

-----------------------------------------------------------------------------
(* The shared caches only grow, and each row alone writes its own queries. *)

CachesOK ==
    /\ DOMAIN serp \subseteq Query /\ \A q \in DOMAIN serp : serp[q] \in SUBSET Items
    /\ DOMAIN companies \subseteq Companies
    /\ \A c \in DOMAIN companies :
          companies[c] \in [footprint : BOOLEAN, roster : SUBSET Profiles]
    /\ DOMAIN contacts \subseteq Companies
    /\ \A c \in DOMAIN contacts : contacts[c] \in SUBSET Items

(* Only row r moves.                                                       *)
Only(r) == work' = [x \in Rows |-> IF x = r THEN work'[r] ELSE work[x]]

LEMMA OnlyOne ==
    ASSUME TypeOK, NEW r \in Rows, NEW w, work' = [work EXCEPT ![r] = w]
    PROVE  Only(r) /\ work'[r] = w
BY DEF TypeOK, Only

LEMMA WithFacts ==
    ASSUME NEW f, NEW x, NEW v
    PROVE  /\ DOMAIN With(f, x, v) = DOMAIN f \cup {x}
           /\ With(f, x, v)[x] = v
           /\ \A y \in DOMAIN f \ {x} : With(f, x, v)[y] = f[y]
BY DEF With

LEMMA BaseKept ==
    ASSUME NEW r \in Rows, NEW w, NEW S, NEW C, NEW S2, NEW C2, Base(r, w, S, C),
           DOMAIN S \subseteq DOMAIN S2, DOMAIN C \subseteq DOMAIN C2
    PROVE  Base(r, w, S2, C2)
BY DEF Base, Answered

LEMMA GoodKept ==
    ASSUME NEW r \in Rows, NEW w, NEW S, NEW C, NEW S2, NEW C2, Good(r, w, S, C),
           DOMAIN S \subseteq DOMAIN S2, DOMAIN C \subseteq DOMAIN C2,
           <<"person", r, OpenWeb>> \in DOMAIN S =>
               S2[<<"person", r, OpenWeb>>] = S[<<"person", r, OpenWeb>>]
    PROVE  Good(r, w, S2, C2)
<1>1. Base(r, w, S2, C2)
  BY BaseKept DEF Good
<1>2. Confirmed(r, w, S) => Confirmed(r, w, S2)
  BY DEF Confirmed
<1> QED
  BY <1>1, <1>2 DEF Good, Settled

LEMMA RowMoves ==
    ASSUME IInv, NEW r \in Rows, Only(r), CachesOK', Good(r, work'[r], serp', companies'),
           DOMAIN serp \subseteq DOMAIN serp', DOMAIN companies \subseteq DOMAIN companies',
           \A x \in Rows \ {r} : <<"person", x, OpenWeb>> \in DOMAIN serp =>
               serp'[<<"person", x, OpenWeb>>] = serp[<<"person", x, OpenWeb>>]
    PROVE  IInv'
<1>1. ASSUME NEW x \in Rows PROVE Good(x, work'[x], serp', companies')
  <2>1. CASE x = r
    BY <2>1
  <2>2. CASE x # r
    <3>1. work'[x] = work[x]
      BY <2>2 DEF Only
    <3>2. Good(x, work[x], serp', companies')
      BY <2>2, GoodKept DEF IInv
    <3> QED
      BY <3>1, <3>2
  <2> QED
    BY <2>1, <2>2
<1>2. \A x \in Rows : work'[x] \in Progress
  BY <1>1 DEF Good, Base
<1>3. work' \in [Rows -> Progress]
  BY <1>2 DEF Only
<1> QED
  BY <1>1, <1>3 DEF IInv, TypeOK, CachesOK

-----------------------------------------------------------------------------
(* The stages that write to the caches.                                    *)

LEMMA GatheredGood ==
    ASSUME TypeOK, NEW r \in Rows, NEW w, NEW S, NEW C, Base(r, w, S, C),
           w.pc = "contact", w.decision = "none",
           w.errors <= w.step, w.step <= ContactQueries, ContactsGathered(r, w)
    PROVE  /\ Only(r) /\ Good(r, work'[r], S, C)
           /\ DOMAIN contacts' \subseteq Companies
           /\ \A c \in DOMAIN contacts' : contacts'[c] \in SUBSET Items
<1>0. DOMAIN contacts \subseteq Companies /\ \A c \in DOMAIN contacts : contacts[c] \in SUBSET Items
  BY DEF TypeOK
<1> DEFINE routes == w.gathered \cap Publishes[Company[r]]
           v == [w EXCEPT !.waiting = FALSE, !.gathered = {}, !.errors = 0]
           u == [v EXCEPT !.routes = routes]
<1>1. w \in Progress /\ routes \in SUBSET Items
  BY DEF Base, Progress
<1>2. CASE w.step < ContactQueries
  <2> DEFINE x == [w EXCEPT !.step = w.step + 1, !.waiting = FALSE]
  <2>0. /\ w.step + 1 \in 1 .. (Rungs + ContactQueries) /\ w.step + 1 <= ContactQueries
        /\ w.errors < w.step + 1
    BY <1>1, <1>2, LadderAssumption DEF Progress
  <2>1. /\ x \in Progress /\ x.pc = "contact" /\ x.decision = "none" /\ x.step = w.step + 1
        /\ x.errors = w.errors /\ x.scored = w.scored /\ x.footprint = w.footprint
    BY <1>1, <2>0 DEF Progress
  <2>2. work' = [work EXCEPT ![r] = x] /\ contacts' = contacts
    BY <1>2 DEF ContactsGathered
  <2> HIDE DEF x
  <2>3. Good(r, x, S, C)
    BY <2>0, <2>1 DEF Good, Base, Where, Settled
  <2> QED
    BY <1>0, <2>2, <2>3, OnlyOne
<1>3. CASE ~(w.step < ContactQueries) /\ w.errors = ContactQueries
  <2>1. Base(r, v, S, C) /\ v.decision = "none"
    <3>1. /\ v \in Progress /\ v.scored = w.scored /\ v.footprint = w.footprint
          /\ v.decision = "none"
      BY <1>1, Bounds DEF Progress
    <3> QED
      BY <3>1 DEF Base
  <2>2. work' = [work EXCEPT ![r] = CompanyStageDone(r, v)] /\ contacts' = contacts
    BY <1>3 DEF ContactsGathered
  <2> HIDE DEF v
  <2>3. Good(r, CompanyStageDone(r, v), S, C)
    BY <2>1, CompanyStageGood
  <2>4. Only(r) /\ work'[r] = CompanyStageDone(r, v)
    BY <2>2, OnlyOne
  <2> QED
    BY <1>0, <2>2, <2>3, <2>4
<1>4. CASE ~(w.step < ContactQueries) /\ w.errors # ContactQueries
  <2>1. Base(r, u, S, C) /\ u.decision = "none"
    <3>1. /\ u \in Progress /\ u.scored = w.scored /\ u.footprint = w.footprint
          /\ u.decision = "none"
      BY <1>1, Bounds DEF Progress
    <3> QED
      BY <3>1 DEF Base
  <2>2. /\ work' = [work EXCEPT ![r] = CompanyStageDone(r, u)]
        /\ contacts' = With(contacts, Company[r], routes)
    BY <1>4 DEF ContactsGathered
  <2>3. Company[r] \in Companies
    BY LadderAssumption
  <2> HIDE DEF u, routes
  <2>4. /\ DOMAIN contacts' = DOMAIN contacts \cup {Company[r]}
        /\ contacts'[Company[r]] = routes
        /\ \A c \in DOMAIN contacts \ {Company[r]} : contacts'[c] = contacts[c]
    BY <2>2 DEF With
  <2>5. \A c \in DOMAIN contacts' : contacts'[c] \in SUBSET Items
    BY <1>0, <1>1, <2>4
  <2>6. Good(r, CompanyStageDone(r, u), S, C)
    BY <2>1, CompanyStageGood
  <2>7. Only(r) /\ work'[r] = CompanyStageDone(r, u)
    BY <2>2, OnlyOne
  <2> QED
    BY <1>0, <2>3, <2>4, <2>5, <2>6, <2>7
<1> QED
  BY <1>2, <1>3, <1>4

(* A row leaves the roster for the contact routes, with or without what    *)
(* the roster said.                                                        *)
LEMMA RosterDone ==
    ASSUME TypeOK, NEW r \in Rows, NEW S, NEW C, Good(r, work[r], S, C),
           work[r].pc = "roster",
           NEW evidence \in SUBSET Items, NEW footprint \in {"yes", "no", "unknown"},
           footprint = "no" => Company[r] \in DOMAIN C,
           work' = [work EXCEPT ![r] = [work[r] EXCEPT !.pc = "contact", !.step = 1,
                       !.waiting = FALSE, !.evidence = evidence, !.footprint = footprint]]
    PROVE  Only(r) /\ Good(r, work'[r], S, C) /\ work'[r].footprint = footprint
<1> DEFINE w == work[r]
           x == [w EXCEPT !.pc = "contact", !.step = 1, !.waiting = FALSE,
                          !.evidence = evidence, !.footprint = footprint]
<1>1. /\ w \in Progress /\ w.decision = "none" /\ w.errors = 0 /\ (w.scored => Answered(r, S))
  BY DEF Good, Base, Where
<1>2. /\ x \in Progress /\ x.pc = "contact" /\ x.decision = "none" /\ x.step = 1
      /\ x.errors = 0 /\ x.scored = w.scored /\ x.footprint = footprint
  BY Bounds, <1>1 DEF Progress
<1>3. work' = [work EXCEPT ![r] = x]
  OBVIOUS
<1> HIDE DEF x, w
<1>4. Good(r, x, S, C)
  BY Bounds, <1>1, <1>2 DEF Good, Base, Where, Settled
<1> QED
  BY <1>2, <1>3, <1>4, OnlyOne

LEMMA RosterMissed ==
    ASSUME TypeOK, NEW r \in Rows, NEW S, NEW C, Good(r, work[r], S, C),
           work[r].pc = "roster",
           work' = [work EXCEPT ![r].pc = "contact", ![r].step = 1, ![r].waiting = FALSE]
    PROVE  Only(r) /\ Good(r, work'[r], S, C)
<1> DEFINE w == work[r]
           x == [w EXCEPT !.pc = "contact", !.step = 1, !.waiting = FALSE]
           y == [x EXCEPT !.evidence = w.evidence, !.footprint = w.footprint]
<1>1. w \in Progress /\ work \in [Rows -> Progress]
  BY DEF TypeOK
<1>2. /\ w.evidence \in SUBSET Items /\ w.footprint \in {"yes", "no", "unknown"}
      /\ w.footprint = "no" => Company[r] \in DOMAIN C
  BY <1>1 DEF Good, Base, Progress
<1>3. work' = [work EXCEPT ![r] = x]
  BY <1>1 DEF Progress
<1>4. x = y
  BY <1>1 DEF Progress
<1>5. y = [w EXCEPT !.pc = "contact", !.step = 1, !.waiting = FALSE,
                    !.evidence = w.evidence, !.footprint = w.footprint]
  BY <1>1 DEF Progress
<1>6. work' = [work EXCEPT ![r] = [work[r] EXCEPT !.pc = "contact", !.step = 1,
                  !.waiting = FALSE, !.evidence = work[r].evidence,
                  !.footprint = work[r].footprint]]
  <2> HIDE DEF x, y
  <2> QED
    BY <1>3, <1>4, <1>5
<1> HIDE DEF x, y
<1> QED
  BY <1>2, <1>6, RosterDone

LEMMA RosterGood ==
    ASSUME IInv, NEW r \in Rows, work[r].pc = "roster", NEW response \in SUBSET Items,
           DOMAIN serp \subseteq DOMAIN serp',
           <<"person", r, OpenWeb>> \in DOMAIN serp =>
               serp'[<<"person", r, OpenWeb>>] = serp[<<"person", r, OpenWeb>>],
           RosterAnswered(r, response)
    PROVE  /\ Only(r) /\ Good(r, work'[r], serp', companies')
           /\ DOMAIN companies \subseteq DOMAIN companies'
           /\ DOMAIN companies' \subseteq Companies
           /\ \A c \in DOMAIN companies' :
                 companies'[c] \in [footprint : BOOLEAN, roster : SUBSET Profiles]
<1>0. TypeOK /\ work[r] \in Progress
  BY DEF IInv, TypeOK
<1> DEFINE c == Company[r]
           roster == response \cap Profiles
           footprint == roster \cap Covers[r] # {}
<1>1. CASE Trustworthy(response)
  <2>1. companies' = With(companies, c, [footprint |-> footprint, roster |-> roster])
    BY <1>1 DEF RosterAnswered
  <2>2. /\ DOMAIN companies' = DOMAIN companies \cup {c}
        /\ companies'[c] = [footprint |-> footprint, roster |-> roster]
        /\ \A d \in DOMAIN companies \ {c} : companies'[d] = companies[d]
    BY <2>1 DEF With
  <2>3. companies'[c] \in [footprint : BOOLEAN, roster : SUBSET Profiles]
    BY <2>2
  <2>4. c \in Companies
    BY LadderAssumption
  <2>5. /\ DOMAIN companies \subseteq DOMAIN companies'
        /\ DOMAIN companies' \subseteq Companies
        /\ \A d \in DOMAIN companies' :
              companies'[d] \in [footprint : BOOLEAN, roster : SUBSET Profiles]
    BY <1>0, <2>2, <2>3, <2>4 DEF TypeOK
  <2>6. Good(r, work[r], serp', companies')
    BY <2>5, GoodKept DEF IInv
  <2> DEFINE verdict == IF footprint THEN "yes" ELSE "no"
  <2>7. work' = [work EXCEPT ![r] = [work[r] EXCEPT !.pc = "contact", !.step = 1,
                    !.waiting = FALSE, !.evidence = roster, !.footprint = verdict]]
    BY <1>0, <1>1 DEF RosterAnswered, TypeOK, Progress
  <2>8. roster \in SUBSET Items /\ verdict \in {"yes", "no", "unknown"}
    OBVIOUS
  <2>9. c \in DOMAIN companies'
    BY <2>2
  <2> HIDE DEF roster, footprint, verdict
  <2> QED
    BY <1>0, <2>5, <2>6, <2>7, <2>8, <2>9, RosterDone
<1>2. CASE ~Trustworthy(response)
  <2>1. companies' = companies
    BY <1>2 DEF RosterAnswered
  <2>2. Good(r, work[r], serp', companies')
    BY <2>1, GoodKept DEF IInv
  <2>3. work' = [work EXCEPT ![r].pc = "contact", ![r].step = 1, ![r].waiting = FALSE]
    BY <1>2 DEF RosterAnswered
  <2> QED
    BY <1>0, <2>1, <2>2, <2>3, RosterMissed DEF TypeOK
<1> QED
  BY <1>1, <1>2

-----------------------------------------------------------------------------
(* The end of a search.                                                    *)

LEMMA QueryFacts ==
    ASSUME IInv, NEW r \in Rows, Searching(r)
    PROVE  /\ CurrentQuery(r) \in Query
           /\ \A x \in Rows \ {r} : CurrentQuery(r) # <<"person", x, OpenWeb>>
<1>1. work[r] \in Progress /\ Where(r, work[r]) /\ Company[r] \in Companies
  BY LadderAssumption DEF IInv, TypeOK, Good
<1>2. CASE work[r].pc = "roster"
  BY <1>1, <1>2 DEF CurrentQuery, Query
<1>3. CASE work[r].pc = "contact"
  <2>1. work[r].step \in 1 .. ContactQueries
    BY <1>1, <1>3, LadderAssumption DEF Where, Progress
  <2> QED
    BY <1>1, <1>3, <2>1 DEF CurrentQuery, Query
<1>4. CASE work[r].pc = "ladder"
  <2>1. work[r].step \in 1 .. Rungs
    BY <1>1, <1>4, LadderAssumption DEF Where, Progress
  <2> QED
    BY <1>1, <1>4, <2>1 DEF CurrentQuery, Query
<1>5. CASE work[r].pc \in {"free_match", "match"}
  BY <1>1, <1>5 DEF CurrentQuery, Query
<1> QED
  BY <1>2, <1>3, <1>4, <1>5 DEF Searching

LEMMA HandleGood ==
    ASSUME IInv, NEW r \in Rows, Searching(r), NEW response \in SUBSET Items,
           CurrentQuery(r) \in DOMAIN serp', serp'[CurrentQuery(r)] = response,
           DOMAIN serp \subseteq DOMAIN serp', DOMAIN serp' \subseteq Query,
           \A q \in DOMAIN serp' : serp'[q] \in SUBSET Items,
           \A q \in DOMAIN serp \ {CurrentQuery(r)} : serp'[q] = serp[q],
           Handle(r, response)
    PROVE  IInv'
<1> DEFINE w == work[r]
<1>0. /\ TypeOK /\ w \in Progress /\ Good(r, w, serp, companies) /\ w.decision = "none"
      /\ CurrentQuery(r) \in Query
      /\ \A x \in Rows \ {r} : CurrentQuery(r) # <<"person", x, OpenWeb>>
  BY QueryFacts DEF IInv, TypeOK, Good, Where, Searching
<1>1. \A x \in Rows \ {r} : <<"person", x, OpenWeb>> \in DOMAIN serp =>
          serp'[<<"person", x, OpenWeb>>] = serp[<<"person", x, OpenWeb>>]
  BY <1>0
<1>2. CASE w.pc = "roster"
  <2>1. RosterAnswered(r, response) /\ contacts' = contacts
    BY <1>2 DEF Handle
  <2>2. CurrentQuery(r) # <<"person", r, OpenWeb>>
    BY <1>2 DEF CurrentQuery
  <2>3. /\ Only(r) /\ Good(r, work'[r], serp', companies')
        /\ DOMAIN companies \subseteq DOMAIN companies'
        /\ DOMAIN companies' \subseteq Companies
        /\ \A c \in DOMAIN companies' :
              companies'[c] \in [footprint : BOOLEAN, roster : SUBSET Profiles]
    BY <1>2, <2>1, <2>2, RosterGood
  <2>4. CachesOK'
    BY <1>0, <2>1, <2>3 DEF TypeOK, CachesOK
  <2> QED
    BY <1>1, <2>3, <2>4, RowMoves
<1>3. CASE w.pc = "contact"
  <2> DEFINE v == [w EXCEPT !.gathered = @ \cup response]
  <2>1. ContactsGathered(r, v) /\ companies' = companies
    BY <1>3 DEF Handle
  <2>2. /\ v \in Progress /\ v.pc = "contact" /\ v.decision = "none" /\ v.errors = w.errors
        /\ v.step = w.step /\ v.scored = w.scored /\ v.footprint = w.footprint
    BY <1>0, <1>3 DEF Progress
  <2>3. w.errors <= w.step /\ w.step <= ContactQueries
    BY <1>0, <1>3 DEF Good, Where, Progress
  <2>4. Base(r, v, serp', companies')
    BY <1>0, <2>1, <2>2, BaseKept DEF Good, Base
  <2> HIDE DEF v
  <2>5. /\ Only(r) /\ Good(r, work'[r], serp', companies')
        /\ DOMAIN contacts' \subseteq Companies
        /\ \A c \in DOMAIN contacts' : contacts'[c] \in SUBSET Items
    BY <1>0, <2>1, <2>2, <2>3, <2>4, GatheredGood
  <2>6. CachesOK'
    BY <1>0, <2>1, <2>5 DEF TypeOK, CachesOK
  <2> QED
    BY <1>1, <2>1, <2>5, <2>6, RowMoves
<1>4. CASE w.pc = "ladder"
  <2>1. /\ work' = [work EXCEPT ![r] = RungAnswered(r, w, response)]
        /\ companies' = companies /\ contacts' = contacts
    BY <1>4 DEF Handle
  <2>2. Base(r, w, serp', companies')
    BY <1>0, <2>1, BaseKept DEF Good
  <2>3. <<"person", r, w.step>> \in DOMAIN serp' /\ w.step <= Rungs
    BY <1>0, <1>4 DEF CurrentQuery, Good, Where
  <2>4. Good(r, RungAnswered(r, w, response), serp', companies')
    BY <1>0, <1>4, <2>2, <2>3, RungAnsweredGood
  <2>5. Only(r) /\ work'[r] = RungAnswered(r, w, response)
    BY <1>0, <2>1, OnlyOne
  <2>6. CachesOK'
    BY <1>0, <2>1 DEF TypeOK, CachesOK
  <2> QED
    BY <1>1, <2>1, <2>4, <2>5, <2>6, RowMoves
<1>5. CASE w.pc \in {"free_match", "match"}
  <2> DEFINE found == response \cap Independent[r] # {}
  <2>1. /\ work' = [work EXCEPT ![r] = Corroborated(r, w, found)]
        /\ companies' = companies /\ contacts' = contacts
    BY <1>5 DEF Handle
  <2>2. Base(r, w, serp', companies') /\ Where(r, w)
    BY <1>0, <2>1, BaseKept DEF Good
  <2>3. found => Confirmed(r, w, serp')
    BY <1>5, <2>2 DEF Confirmed, Where, CurrentQuery
  <2>4. found \in BOOLEAN
    OBVIOUS
  <2> HIDE DEF found
  <2>5. Good(r, Corroborated(r, w, found), serp', companies')
    BY <1>5, <2>2, <2>3, <2>4, CorroboratedGood
  <2>6. Only(r) /\ work'[r] = Corroborated(r, w, found)
    BY <1>0, <2>1, OnlyOne
  <2>7. CachesOK'
    BY <1>0, <2>1 DEF TypeOK, CachesOK
  <2> QED
    BY <1>1, <2>1, <2>5, <2>6, <2>7, RowMoves
<1> QED
  BY <1>2, <1>3, <1>4, <1>5 DEF Searching

LEMMA HandleErrorGood ==
    ASSUME IInv, NEW r \in Rows, Searching(r), serp' = serp, HandleError(r)
    PROVE  IInv'
<1> DEFINE w == work[r]
<1>0. /\ TypeOK /\ w \in Progress /\ Good(r, w, serp, companies) /\ w.decision = "none"
  BY DEF IInv, TypeOK, Good, Where, Searching
<1>1. companies' = companies
  BY DEF HandleError
<1>2. ASSUME Only(r), Good(r, work'[r], serp, companies), DOMAIN contacts' \subseteq Companies,
             \A c \in DOMAIN contacts' : contacts'[c] \in SUBSET Items
      PROVE  IInv'
  <2>1. CachesOK'
    BY <1>0, <1>1, <1>2 DEF TypeOK, CachesOK
  <2> QED
    BY <1>1, <1>2, <2>1, RowMoves
<1>3. contacts' = contacts => /\ DOMAIN contacts' \subseteq Companies
                              /\ \A c \in DOMAIN contacts' : contacts'[c] \in SUBSET Items
  BY <1>0 DEF TypeOK
<1>4. CASE w.pc = "roster"
  <2>1. /\ work' = [work EXCEPT ![r].pc = "contact", ![r].step = 1, ![r].waiting = FALSE]
        /\ contacts' = contacts
    BY <1>4 DEF HandleError
  <2> QED
    BY <1>0, <1>2, <1>3, <1>4, <2>1, RosterMissed
<1>5. CASE w.pc = "contact"
  <2> DEFINE v == [w EXCEPT !.errors = @ + 1]
  <2>1. ContactsGathered(r, v)
    BY <1>5 DEF HandleError
  <2>2. /\ w.errors + 1 \in 0 .. ContactQueries /\ w.errors + 1 <= w.step
        /\ w.step <= ContactQueries
    BY <1>0, <1>5, LadderAssumption DEF Good, Where, Progress
  <2>3. /\ v \in Progress /\ v.pc = "contact" /\ v.decision = "none" /\ v.errors = w.errors + 1
        /\ v.step = w.step /\ v.scored = w.scored /\ v.footprint = w.footprint
    BY <1>0, <1>5, <2>2 DEF Progress
  <2>4. Base(r, v, serp, companies)
    BY <1>0, <2>3 DEF Good, Base
  <2> HIDE DEF v
  <2>5. /\ Only(r) /\ Good(r, work'[r], serp, companies)
        /\ DOMAIN contacts' \subseteq Companies
        /\ \A c \in DOMAIN contacts' : contacts'[c] \in SUBSET Items
    BY <1>0, <2>1, <2>2, <2>3, <2>4, GatheredGood
  <2> QED
    BY <1>2, <2>5
<1>6. CASE w.pc = "ladder"
  <2>1. work' = [work EXCEPT ![r] = NextRung(r, w)] /\ contacts' = contacts
    BY <1>6 DEF HandleError
  <2>2. Good(r, NextRung(r, w), serp, companies)
    BY <1>0, <1>6, NextRungGood DEF Good, Where
  <2>3. Only(r) /\ work'[r] = NextRung(r, w)
    BY <1>0, <2>1, OnlyOne
  <2> QED
    BY <1>2, <1>3, <2>1, <2>2, <2>3
<1>7. CASE w.pc \in {"free_match", "match"}
  <2>1. work' = [work EXCEPT ![r] = Corroborated(r, w, FALSE)] /\ contacts' = contacts
    BY <1>7 DEF HandleError
  <2>2. Good(r, Corroborated(r, w, FALSE), serp, companies)
    BY <1>0, <1>7, CorroboratedGood DEF Good
  <2>3. Only(r) /\ work'[r] = Corroborated(r, w, FALSE)
    BY <1>0, <2>1, OnlyOne
  <2> QED
    BY <1>2, <1>3, <2>1, <2>2, <2>3
<1> QED
  BY <1>4, <1>5, <1>6, <1>7 DEF Searching

-----------------------------------------------------------------------------
(* The actions.                                                            *)

(* A step of one row that leaves the caches alone.                         *)
LEMMA LocalStep ==
    ASSUME IInv, NEW r \in Rows, NEW w, Good(r, w, serp, companies),
           work' = [work EXCEPT ![r] = w], UNCHANGED <<serp, companies, contacts>>
    PROVE  IInv'
<1>1. Only(r) /\ work'[r] = w
  BY OnlyOne DEF IInv
<1>2. CachesOK'
  BY DEF IInv, TypeOK, CachesOK
<1> QED
  BY <1>1, <1>2, RowMoves

LEMMA BeginGood == ASSUME IInv, NEW r \in Rows, Begin(r) PROVE IInv'
<1> DEFINE c == Company[r]
           w == work[r]
           free == [w EXCEPT !.pc = "contact", !.evidence = companies[c].roster,
                             !.footprint = IF companies[c].footprint THEN "yes" ELSE "no"]
           search == [w EXCEPT !.pc = "roster"]
<1>0. /\ w \in Progress /\ Good(r, w, serp, companies) /\ w.pc = "todo" /\ TypeOK
      /\ w.decision = "none" /\ w.step = 1 /\ w.errors = 0
  BY DEF IInv, TypeOK, Begin, Good, Where
<1>1. CASE NegativeCache /\ c \in DOMAIN companies
  <2>1. work' = [work EXCEPT ![r] = free]
    BY <1>1 DEF Begin
  <2>2. companies[c].roster \in SUBSET Items /\ companies[c].footprint \in BOOLEAN
    BY <1>0, <1>1, LadderAssumption DEF TypeOK
  <2>3. /\ free \in Progress /\ free.pc = "contact" /\ free.decision = "none"
        /\ free.step = w.step /\ free.errors = w.errors /\ free.scored = w.scored
    BY <1>0, <2>2 DEF Progress
  <2> HIDE DEF free
  <2>4. Good(r, free, serp, companies)
    BY <1>0, <1>1, <2>3, Bounds DEF Good, Base, Where, Settled
  <2> QED
    BY <2>1, <2>4, LocalStep DEF Begin
<1>2. CASE ~(NegativeCache /\ c \in DOMAIN companies)
  <2>1. work' = [work EXCEPT ![r] = search]
    BY <1>2 DEF Begin
  <2>2. /\ search \in Progress /\ search.pc = "roster" /\ search.decision = "none"
        /\ search.step = w.step /\ search.errors = w.errors /\ search.scored = w.scored
        /\ search.footprint = w.footprint
    BY <1>0 DEF Progress
  <2> HIDE DEF search
  <2>3. Good(r, search, serp, companies)
    BY <1>0, <2>2 DEF Good, Base, Where, Settled
  <2> QED
    BY <2>1, <2>3, LocalStep DEF Begin
<1> QED
  BY <1>1, <1>2

LEMMA ContactsCachedGood == ASSUME IInv, NEW r \in Rows, ContactsCached(r) PROVE IInv'
<1> DEFINE w == work[r]
           v == [w EXCEPT !.routes = contacts[Company[r]]]
<1>0. /\ w \in Progress /\ Good(r, w, serp, companies) /\ w.decision = "none" /\ TypeOK
      /\ Company[r] \in DOMAIN contacts
  BY DEF IInv, TypeOK, ContactsCached, EntersContacts, Good, Where
<1>1. /\ v \in Progress /\ v.decision = "none" /\ v.scored = w.scored
      /\ v.footprint = w.footprint
  BY <1>0 DEF Progress, TypeOK
<1>2. work' = [work EXCEPT ![r] = CompanyStageDone(r, v)]
  BY DEF ContactsCached
<1> HIDE DEF v
<1>3. Base(r, v, serp, companies)
  BY <1>0, <1>1 DEF Good, Base
<1>4. Good(r, CompanyStageDone(r, v), serp, companies)
  BY <1>1, <1>3, CompanyStageGood
<1> QED
  BY <1>2, <1>4, LocalStep DEF ContactsCached

LEMMA AskGood == ASSUME IInv, NEW r \in Rows, Ask(r) PROVE IInv'
<1> DEFINE w == work[r]
           v == [w EXCEPT !.waiting = TRUE]
<1>0. w \in Progress /\ Good(r, w, serp, companies) /\ TypeOK
  BY DEF IInv, TypeOK
<1>1. work' = [work EXCEPT ![r] = v]
  BY <1>0 DEF Ask, TypeOK
<1>2. /\ v \in Progress /\ v.pc = w.pc /\ v.step = w.step /\ v.errors = w.errors
      /\ v.scored = w.scored /\ v.decision = w.decision /\ v.footprint = w.footprint
      /\ v.evidence = w.evidence
  BY <1>0 DEF Progress
<1> HIDE DEF v
<1>3. Confirmed(r, w, serp) => Confirmed(r, v, serp)
  BY <1>2 DEF Confirmed
<1>4. Good(r, v, serp, companies)
  BY <1>0, <1>2, <1>3 DEF Good, Base, Where, Settled
<1> QED
  BY <1>1, <1>4, LocalStep DEF Ask

LEMMA UseCachedGood == ASSUME IInv, NEW r \in Rows, UseCached(r) PROVE IInv'
<1>1. /\ Searching(r) /\ CurrentQuery(r) \in DOMAIN serp /\ serp' = serp
      /\ Handle(r, serp[CurrentQuery(r)])
  BY DEF UseCached, MaySearch
<1>2. DOMAIN serp \subseteq Query /\ \A q \in DOMAIN serp : serp[q] \in SUBSET Items
  BY DEF IInv, TypeOK
<1> QED
  BY <1>1, <1>2, HandleGood

LEMMA ReceiveGood ==
    ASSUME IInv, NEW r \in Rows, NEW response \in Responses, Receive(r, response)
    PROVE  IInv'
<1>1. Searching(r) /\ Handle(r, response) /\ response \in SUBSET Items
  BY LadderAssumption DEF Receive
<1>2. /\ DOMAIN serp' = DOMAIN serp \cup {CurrentQuery(r)}
      /\ serp'[CurrentQuery(r)] = response
      /\ \A q \in DOMAIN serp \ {CurrentQuery(r)} : serp'[q] = serp[q]
  BY DEF Receive, With
<1>3. CurrentQuery(r) \in Query
  BY <1>1, QueryFacts
<1>4. DOMAIN serp' \subseteq Query /\ \A q \in DOMAIN serp' : serp'[q] \in SUBSET Items
  BY <1>1, <1>2, <1>3 DEF IInv, TypeOK
<1> QED
  BY <1>1, <1>2, <1>4, HandleGood

LEMMA RetryGood == ASSUME IInv, NEW r \in Rows, RetryRow(r) PROVE IInv'
<1> DEFINE v == [Idle EXCEPT !.passes = work[r].passes + 1]
<1>1. work[r].passes + 1 \in 0 .. MaxPasses
  BY LadderAssumption DEF RetryRow, IInv, TypeOK, Progress
<1>2. /\ v \in Progress /\ v.pc = "todo" /\ v.step = 1 /\ v.errors = 0 /\ v.scored = FALSE
      /\ v.footprint = "unknown" /\ v.decision = "none"
  BY <1>1, Bounds DEF Idle, Progress
<1>3. work' = [work EXCEPT ![r] = v]
  BY DEF RetryRow
<1> HIDE DEF v
<1>4. Good(r, v, serp, companies)
  BY <1>2 DEF Good, Base, Where, Settled
<1> QED
  BY <1>3, <1>4, LocalStep DEF RetryRow

LEMMA InvInit == Init => IInv
<1> SUFFICES ASSUME Init PROVE IInv
  OBVIOUS
<1>1. 0 \in 0 .. MaxPasses
  BY LadderAssumption
<1>2. /\ Idle \in Progress /\ Idle.pc = "todo" /\ Idle.step = 1 /\ Idle.errors = 0
      /\ Idle.scored = FALSE /\ Idle.footprint = "unknown" /\ Idle.decision = "none"
  BY <1>1, Bounds DEF Idle, Progress
<1>3. ASSUME NEW r \in Rows PROVE Good(r, Idle, serp, companies)
  BY <1>2 DEF Good, Base, Where, Settled
<1>4. TypeOK
  BY <1>2 DEF Init, TypeOK
<1> QED
  BY <1>3, <1>4 DEF Init, IInv

LEMMA InvNext == IInv /\ [Next]_vars => IInv'
<1> SUFFICES ASSUME IInv, [Next]_vars PROVE IInv'
  OBVIOUS
<1>1. CASE UNCHANGED vars
  BY <1>1 DEF IInv, TypeOK, vars
<1>2. ASSUME NEW r \in Rows, RetryRow(r) PROVE IInv'
  BY <1>2, RetryGood
<1>3. ASSUME NEW r \in Rows, RowStep(r) PROVE IInv'
  <2>1. CASE Fail(r)
    BY <2>1, HandleErrorGood DEF Fail
  <2> QED
    BY <1>3, <2>1, BeginGood, ContactsCachedGood, AskGood, UseCachedGood, ReceiveGood DEF RowStep
<1> QED
  BY <1>1, <1>2, <1>3 DEF Next

LEMMA LadderInvariant == Spec => []IInv
BY InvInit, InvNext, PTL DEF Spec

-----------------------------------------------------------------------------
(* Types: in particular no row searches beyond its last rung or contact    *)
(* query, and no more than all contact queries fail (runner.py:395-427,    *)
(* company_contact.py:130-166).                                            *)
THEOREM LadderTyped == Spec => []TypeOK
<1>1. IInv => TypeOK
  BY DEF IInv
<1> QED
  BY <1>1, LadderInvariant, PTL

(* A match is unique and has its second source, whichever way it was found *)
(* (runner.py:436-479).                                                    *)
THEOREM LadderCorroborated == Spec => []MatchCorroborated
<1>1. IInv => MatchCorroborated
  BY DEF IInv, Good, Settled, Confirmed, MatchCorroborated
<1> QED
  BY <1>1, LadderInvariant, PTL

(* Errors alone never settle a row (runner.py:398-433, pool.py:243-260).   *)
THEOREM LadderFounded == Spec => []AnswerFounded
<1>1. IInv => AnswerFounded
  BY DEF IInv, Good, Base, Settled, Answered, AnswerFounded
<1> QED
  BY <1>1, LadderInvariant, PTL

(* The verdict on a company is written on a roster response only.          *)
LEMMA VerdictWritten ==
    ASSUME IInv, NEW r \in Rows, RowStep(r), companies' # companies
    PROVE  /\ work[r].pc = "roster" /\ work'[r] \in Progress
           /\ RosterAnswered(r, serp'[<<"roster", Company[r], 0>>])
<1>0. work'[r] \in Progress
  BY InvNext DEF Next, IInv, TypeOK
<1>1. CASE UseCached(r)
  <2>1. work[r].pc = "roster" /\ RosterAnswered(r, serp[CurrentQuery(r)]) /\ serp' = serp
    BY <1>1 DEF UseCached, Handle
  <2> QED
    BY <1>0, <2>1 DEF CurrentQuery
<1>2. ASSUME NEW response \in Responses, Receive(r, response)
      PROVE  /\ work[r].pc = "roster"
             /\ RosterAnswered(r, serp'[<<"roster", Company[r], 0>>])
  <2>1. work[r].pc = "roster" /\ RosterAnswered(r, response)
    BY <1>2 DEF Receive, Handle
  <2>2. serp'[CurrentQuery(r)] = response
    BY <1>2 DEF Receive, With
  <2> QED
    BY <2>1, <2>2 DEF CurrentQuery
<1> QED
  BY <1>0, <1>1, <1>2 DEF RowStep, Begin, ContactsCached, Ask, Fail, HandleError

(* "The negative cache is only allowed to record an absence when" a        *)
(* trustworthy response showed no profile of the company (runner.py:284-   *)
(* 319, 481-507).                                                          *)
THEOREM LadderAbsence == Spec => AbsenceEarned
<1> DEFINE Written(c) == /\ c \in DOMAIN companies' /\ ~companies'[c].footprint
                         /\ (c \in DOMAIN companies => companies[c] # companies'[c])
           Earned(c) == \E r \in Rows :
                /\ Company[r] = c /\ work[r].pc = "roster" /\ work'[r].footprint = "no"
                /\ Trustworthy(serp'[<<"roster", c, 0>>])
                /\ serp'[<<"roster", c, 0>>] \cap Covers[r] = {}
<1>1. ASSUME IInv, [Next]_vars, NEW c \in Companies, Written(c) PROVE Earned(c)
  <2>1. companies' # companies
    BY <1>1
  <2>2. PICK r \in Rows : RowStep(r)
    BY <1>1, <2>1 DEF Next, RetryRow, vars
  <2> DEFINE response == serp'[<<"roster", Company[r], 0>>]
             footprint == (response \cap Profiles) \cap Covers[r] # {}
  <2>3. work[r].pc = "roster" /\ RosterAnswered(r, response)
    BY <1>1, <2>1, <2>2, VerdictWritten
  <2>4. /\ Trustworthy(response)
        /\ companies' = With(companies, Company[r],
                             [footprint |-> footprint, roster |-> response \cap Profiles])
    BY <2>1, <2>3 DEF RosterAnswered
  <2>5. c = Company[r] /\ ~footprint
    BY <1>1, <2>4 DEF With
  <2>6. response \cap Covers[r] = {}
    BY <2>5, LadderAssumption
  <2>7. work'[r].footprint = "no"
    <3>1. work[r] \in Progress /\ work \in [Rows -> Progress]
      BY <1>1 DEF IInv, TypeOK
    <3> QED
      BY <2>3, <2>4, <2>5, <3>1 DEF RosterAnswered, Progress
  <2> HIDE DEF response, footprint
  <2> QED
    BY <2>3, <2>4, <2>5, <2>6, <2>7 DEF response
<1> DEFINE AllEarned ==
             \A c \in Companies :
                c \in DOMAIN companies' /\ ~companies'[c].footprint
                    /\ (c \in DOMAIN companies => companies[c] # companies'[c])
                => \E r \in Rows :
                      /\ Company[r] = c /\ work[r].pc = "roster" /\ work'[r].footprint = "no"
                      /\ Trustworthy(serp'[<<"roster", c, 0>>])
                      /\ serp'[<<"roster", c, 0>>] \cap Covers[r] = {}
<1>2. IInv /\ [Next]_vars => [AllEarned]_vars
  BY <1>1
<1>3. Spec => [][AllEarned]_vars
  BY <1>2, LadderInvariant, PTL DEF Spec
<1> QED
  BY <1>3 DEF AbsenceEarned

-----------------------------------------------------------------------------
(* Every step of a row brings it nearer to its decision.                   *)

Place(w) ==
    CASE w.pc = "todo" -> 6 [] w.pc = "roster" -> 5 [] w.pc = "contact" -> 4
      [] w.pc = "free_match" -> 3 [] w.pc = "ladder" -> 2 [] w.pc = "match" -> 1 [] OTHER -> 0

Turns == 2 * (Rungs + ContactQueries)

(* No stage takes more than Turns steps.                                   *)
StepsLeft(w) ==
    Place(w) * Turns + 2 * (Rungs + ContactQueries - w.step) + (IF w.waiting THEN 0 ELSE 1)

StepsBounded == \A r \in Rows : StepsLeft(work[r]) \in 0 .. 7 * Turns - 1

(* One row moves: a step nearer to its decision, or, left unanswered, back *)
(* to the start of its next pass.                                          *)
RowsAdvance ==
    [][\E r \in Rows :
          /\ \A x \in Rows \ {r} : work'[x] = work[x]
          /\ \/ /\ StepsLeft(work'[r]) < StepsLeft(work[r])
                /\ work'[r].passes = work[r].passes
             \/ /\ work[r].decision = "blank_error"
                /\ work'[r].passes = work[r].passes + 1 /\ work'[r].passes <= MaxPasses]_vars

Later(w, v) ==
    /\ v.passes = w.passes
    /\ \/ Place(v) < Place(w)
       \/ Place(v) = Place(w) /\ v.step = w.step + 1
       \/ Place(v) = Place(w) /\ v.step = w.step /\ v.waiting = TRUE /\ w.waiting = FALSE

LEMMA StepsNumber ==
    ASSUME NEW w \in Progress PROVE StepsLeft(w) \in 0 .. 7 * Turns - 1
<1>1. /\ Turns \in Nat /\ Turns = 2 * (Rungs + ContactQueries)
      /\ Rungs + ContactQueries - w.step \in 0 .. (Rungs + ContactQueries - 1)
      /\ (IF w.waiting THEN 0 ELSE 1) \in {0, 1}
  BY LadderAssumption DEF Turns, Progress
<1>2. Place(w) \in {0, 1, 2, 3, 4, 5, 6}
  BY DEF Place
<1> DEFINE rest == 2 * (Rungs + ContactQueries - w.step) + (IF w.waiting THEN 0 ELSE 1)
<1>3. rest \in Nat /\ rest < Turns
  BY <1>1, LadderAssumption
<1>4. StepsLeft(w) = Place(w) * Turns + rest
  <2>1. Place(w) * Turns \in Nat
    BY <1>1, <1>2
  <2>2. /\ 2 * (Rungs + ContactQueries - w.step) \in Nat
        /\ (IF w.waiting THEN 0 ELSE 1) \in Nat
    BY <1>1, LadderAssumption
  <2> QED
    BY <2>1, <2>2 DEF StepsLeft
<1> HIDE DEF rest
<1> QED
  BY <1>1, <1>2, <1>3, <1>4

LEMMA LaterLess ==
    ASSUME NEW w \in Progress, NEW v \in Progress, Later(w, v)
    PROVE  StepsLeft(v) < StepsLeft(w)
<1> DEFINE rest(u) == 2 * (Rungs + ContactQueries - u.step) + (IF u.waiting THEN 0 ELSE 1)
<1>1. /\ Turns \in Nat /\ Turns = 2 * (Rungs + ContactQueries)
      /\ Rungs \in Nat /\ ContactQueries \in Nat
      /\ w.step \in 1 .. (Rungs + ContactQueries) /\ v.step \in 1 .. (Rungs + ContactQueries)
      /\ w.waiting \in BOOLEAN /\ v.waiting \in BOOLEAN
  BY LadderAssumption DEF Turns, Progress
<1>2. Place(w) \in {0, 1, 2, 3, 4, 5, 6} /\ Place(v) \in {0, 1, 2, 3, 4, 5, 6}
  BY DEF Place
<1>3. rest(w) \in Nat /\ rest(w) < Turns /\ rest(v) \in Nat /\ rest(v) < Turns
  BY <1>1
<1>4. StepsLeft(w) = Place(w) * Turns + rest(w) /\ StepsLeft(v) = Place(v) * Turns + rest(v)
  <2>1. Place(w) * Turns \in Nat /\ Place(v) * Turns \in Nat
    BY <1>1, <1>2
  <2>2. /\ 2 * (Rungs + ContactQueries - w.step) \in Nat
        /\ 2 * (Rungs + ContactQueries - v.step) \in Nat
        /\ (IF w.waiting THEN 0 ELSE 1) \in Nat /\ (IF v.waiting THEN 0 ELSE 1) \in Nat
    BY <1>1
  <2> QED
    BY <2>1, <2>2 DEF StepsLeft
<1>5. CASE Place(v) < Place(w)
  <2> HIDE DEF rest
  <2> QED
    BY <1>1, <1>2, <1>3, <1>4, <1>5
<1>6. CASE Place(v) = Place(w) /\ v.step = w.step + 1
  <2>1. rest(v) < rest(w)
    BY <1>1, <1>6
  <2>2. Place(w) * Turns \in Nat
    BY <1>1, <1>2
  <2> HIDE DEF rest
  <2> QED
    BY <1>3, <1>4, <1>6, <2>1, <2>2
<1>7. CASE Place(v) = Place(w) /\ v.step = w.step /\ v.waiting = TRUE /\ w.waiting = FALSE
  <2>1. rest(v) < rest(w)
    BY <1>1, <1>7
  <2>2. Place(w) * Turns \in Nat
    BY <1>1, <1>2
  <2> HIDE DEF rest
  <2> QED
    BY <1>3, <1>4, <1>7, <2>1, <2>2
<1> QED
  BY <1>5, <1>6, <1>7 DEF Later

(* Where each stage leads.                                                 *)

Leads(v, pcs, passes) == v.pc \in pcs /\ v.passes = passes

LEMMA DecideLeads ==
    ASSUME NEW r, NEW w \in Progress, NEW matched, NEW scored
    PROVE  Leads(Decide(r, w, matched, scored), {"done"}, w.passes)
BY DEF Decide, Progress, Leads

LEMMA FindPersonLeads ==
    ASSUME NEW r, NEW w \in Progress
    PROVE  /\ Leads(FindPerson(r, w), {"done", "free_match", "ladder"}, w.passes)
           /\ Leads(CompanyStageDone(r, w), {"done", "free_match", "ladder"}, w.passes)
<1>1. \A m, n \in BOOLEAN : Leads(Decide(r, w, m, n), {"done"}, w.passes)
  BY DecideLeads
<1>2. /\ Leads([w EXCEPT !.pc = "free_match"], {"free_match"}, w.passes)
      /\ Leads([w EXCEPT !.pc = "ladder", !.step = 1], {"ladder"}, w.passes)
  BY DEF Progress, Leads
<1>3. Leads(FindPerson(r, w), {"done", "free_match", "ladder"}, w.passes)
  BY <1>1, <1>2 DEF FindPerson, Leads
<1> QED
  BY <1>1, <1>3 DEF CompanyStageDone, Leads

LEMMA NextRungLeads ==
    ASSUME NEW r, NEW w \in Progress
    PROVE  \/ Leads(NextRung(r, w), {w.pc}, w.passes) /\ NextRung(r, w).step = w.step + 1
           \/ Leads(NextRung(r, w), {"done"}, w.passes)
<1> DEFINE v == [w EXCEPT !.step = w.step + 1, !.waiting = FALSE]
<1>1. v.pc = w.pc /\ v.passes = w.passes /\ v.step = w.step + 1
  BY DEF Progress
<1>2. Leads(Decide(r, w, FALSE, w.scored), {"done"}, w.passes)
  BY DecideLeads
<1>3. NextRung(r, w) = IF w.step < Rungs THEN v ELSE Decide(r, w, FALSE, w.scored)
  BY DEF NextRung
<1> HIDE DEF v
<1> QED
  BY <1>1, <1>2, <1>3 DEF Leads

LEMMA RungAnsweredLeads ==
    ASSUME NEW r, NEW w \in Progress, NEW response \in SUBSET Items
    PROVE  \/ /\ Leads(RungAnswered(r, w, response), {w.pc}, w.passes)
              /\ RungAnswered(r, w, response).step = w.step + 1
           \/ Leads(RungAnswered(r, w, response), {"done", "match"}, w.passes)
<1> DEFINE v == [w EXCEPT !.evidence = w.evidence \cup response, !.scored = TRUE,
                          !.waiting = FALSE]
<1>1. v \in Progress /\ v.pc = w.pc /\ v.passes = w.passes /\ v.step = w.step
  BY DEF Progress
<1>2. RungAnswered(r, w, response) =
         IF ~Matched(r, v.evidence) THEN NextRung(r, v)
         ELSE IF Corroboration THEN [v EXCEPT !.pc = "match"] ELSE Decide(r, v, TRUE, TRUE)
  BY DEF RungAnswered
<1> HIDE DEF v
<1>3. Leads([v EXCEPT !.pc = "match"], {"match"}, w.passes)
  BY <1>1 DEF Progress, Leads
<1>4. Leads(Decide(r, v, TRUE, TRUE), {"done"}, w.passes)
  BY <1>1, DecideLeads
<1>5. \/ Leads(NextRung(r, v), {w.pc}, w.passes) /\ NextRung(r, v).step = w.step + 1
      \/ Leads(NextRung(r, v), {"done"}, w.passes)
  BY <1>1, NextRungLeads
<1> QED
  BY <1>2, <1>3, <1>4, <1>5 DEF Leads

LEMMA CorroboratedLeads ==
    ASSUME NEW r, NEW w \in Progress, NEW found
    PROVE  \/ Leads(Corroborated(r, w, found), {"done"}, w.passes)
           \/ w.pc = "free_match" /\ Leads(Corroborated(r, w, found), {"ladder"}, w.passes)
<1>1. \A m \in BOOLEAN : Leads(Decide(r, w, m, TRUE), {"done"}, w.passes)
  BY DecideLeads
<1>2. Leads([w EXCEPT !.pc = "ladder", !.step = 1, !.waiting = FALSE], {"ladder"}, w.passes)
  BY DEF Progress, Leads
<1> QED
  BY <1>1, <1>2 DEF Corroborated

LEMMA GatheredLeads ==
    ASSUME TypeOK, NEW r \in Rows, NEW w \in Progress, ContactsGathered(r, w)
    PROVE  \/ Leads(work'[r], {w.pc}, w.passes) /\ work'[r].step = w.step + 1
           \/ Leads(work'[r], {"done", "free_match", "ladder"}, w.passes)
<1> DEFINE routes == w.gathered \cap Publishes[Company[r]]
           v == [w EXCEPT !.waiting = FALSE, !.gathered = {}, !.errors = 0]
           u == [v EXCEPT !.routes = routes]
           x == [w EXCEPT !.step = w.step + 1, !.waiting = FALSE]
<1>1. \/ work' = [work EXCEPT ![r] = x]
      \/ work' = [work EXCEPT ![r] = CompanyStageDone(r, v)]
      \/ work' = [work EXCEPT ![r] = CompanyStageDone(r, u)]
  BY DEF ContactsGathered
<1>2. v \in Progress /\ v.passes = w.passes
  BY Bounds DEF Progress
<1>3. u \in Progress /\ u.passes = w.passes
  BY Bounds DEF Progress
<1>4. Leads(x, {w.pc}, w.passes) /\ x.step = w.step + 1
  BY DEF Progress, Leads
<1> HIDE DEF u, v, x
<1>5. work'[r] \in {x, CompanyStageDone(r, v), CompanyStageDone(r, u)}
  BY <1>1 DEF TypeOK
<1> QED
  BY <1>2, <1>3, <1>4, <1>5, FindPersonLeads

(* What a search brings, whether it was answered or failed.                *)
LEMMA SearchedLater ==
    ASSUME IInv, NEW r \in Rows, Searching(r), work'[r] \in Progress,
           \/ \E response \in SUBSET Items : Handle(r, response)
           \/ HandleError(r)
    PROVE  Later(work[r], work'[r])
<1> DEFINE w == work[r]
<1>0. /\ TypeOK /\ w \in Progress /\ Where(r, w) /\ w.decision = "none"
      /\ work \in [Rows -> Progress]
  BY DEF IInv, TypeOK, Good, Where, Searching
<1>1. CASE w.pc = "roster"
  <2> DEFINE v == [w EXCEPT !.pc = "contact", !.step = 1, !.waiting = FALSE]
             u(roster, verdict) == [w EXCEPT !.pc = "contact", !.step = 1, !.waiting = FALSE,
                                             !.evidence = roster, !.footprint = verdict]
  <2>1. \/ work' = [work EXCEPT ![r].pc = "contact", ![r].step = 1, ![r].waiting = FALSE]
        \/ \E response \in SUBSET Items : RosterAnswered(r, response)
    BY <1>1 DEF Handle, HandleError
  <2>2. ASSUME work' = [work EXCEPT ![r].pc = "contact", ![r].step = 1, ![r].waiting = FALSE]
        PROVE  work'[r] = v
    BY <1>0, <2>2 DEF Progress
  <2>3. ASSUME NEW response \in SUBSET Items, RosterAnswered(r, response)
        PROVE  work'[r] = v \/ \E roster, verdict : work'[r] = u(roster, verdict)
    <3>1. CASE Trustworthy(response)
      <4> DEFINE roster == response \cap Profiles
                 verdict == IF roster \cap Covers[r] # {} THEN "yes" ELSE "no"
      <4>1. work' = [work EXCEPT ![r].pc = "contact", ![r].step = 1, ![r].waiting = FALSE,
                                 ![r].evidence = roster, ![r].footprint = verdict]
        BY <2>3, <3>1 DEF RosterAnswered
      <4> HIDE DEF roster, verdict
      <4>2. work'[r] = u(roster, verdict)
        BY <1>0, <4>1 DEF Progress
      <4> QED
        BY <4>2
    <3>2. CASE ~Trustworthy(response)
      BY <2>2, <2>3, <3>2 DEF RosterAnswered
    <3> QED
      BY <3>1, <3>2
  <2>4. v.pc = "contact" /\ v.passes = w.passes
    BY <1>0 DEF Progress
  <2>5. \A roster, verdict : /\ u(roster, verdict).pc = "contact"
                             /\ u(roster, verdict).passes = w.passes
    BY <1>0 DEF Progress
  <2> HIDE DEF v, u
  <2>6. work'[r].pc = "contact" /\ work'[r].passes = w.passes
    BY <2>1, <2>2, <2>3, <2>4, <2>5
  <2> QED
    BY <1>1, <2>6 DEF Later, Place
<1>2. CASE w.pc = "contact"
  <2>1. PICK v : /\ v \in Progress /\ v.pc = "contact" /\ v.passes = w.passes /\ v.step = w.step
                 /\ ContactsGathered(r, v)
    <3>1. CASE \E response \in SUBSET Items : Handle(r, response)
      <4>1. PICK response \in SUBSET Items :
                ContactsGathered(r, [w EXCEPT !.gathered = w.gathered \cup response])
        BY <1>2, <3>1 DEF Handle
      <4> DEFINE v == [w EXCEPT !.gathered = w.gathered \cup response]
      <4>2. v \in Progress /\ v.pc = "contact" /\ v.passes = w.passes /\ v.step = w.step
        BY <1>0, <1>2 DEF Progress
      <4> QED
        BY <4>1, <4>2
    <3>2. CASE HandleError(r)
      <4> DEFINE v == [w EXCEPT !.errors = w.errors + 1]
      <4>1. ContactsGathered(r, v)
        BY <1>2, <3>2 DEF HandleError
      <4>2. w.errors + 1 \in 0 .. ContactQueries
        BY <1>0, <1>2, LadderAssumption DEF Where, Progress
      <4>3. v \in Progress /\ v.pc = "contact" /\ v.passes = w.passes /\ v.step = w.step
        BY <1>0, <1>2, <4>2 DEF Progress
      <4> QED
        BY <4>1, <4>3
    <3> QED
      BY <3>1, <3>2
  <2>2. \/ Leads(work'[r], {"contact"}, w.passes) /\ work'[r].step = w.step + 1
        \/ Leads(work'[r], {"done", "free_match", "ladder"}, w.passes)
    BY <1>0, <2>1, GatheredLeads
  <2> QED
    BY <1>2, <2>2 DEF Later, Leads, Place
<1>3. CASE w.pc = "ladder"
  <2>1. \/ \E response \in SUBSET Items : work'[r] = RungAnswered(r, w, response)
        \/ work'[r] = NextRung(r, w)
    BY <1>0, <1>3 DEF Handle, HandleError
  <2>2. \/ Leads(work'[r], {"ladder"}, w.passes) /\ work'[r].step = w.step + 1
        \/ Leads(work'[r], {"done", "match"}, w.passes)
    BY <1>0, <1>3, <2>1, RungAnsweredLeads, NextRungLeads DEF Leads
  <2> QED
    BY <1>3, <2>2 DEF Later, Leads, Place
<1>4. CASE w.pc \in {"free_match", "match"}
  <2>1. \E found : work'[r] = Corroborated(r, w, found)
    BY <1>0, <1>4 DEF Handle, HandleError
  <2>2. \/ Leads(work'[r], {"done"}, w.passes)
        \/ w.pc = "free_match" /\ Leads(work'[r], {"ladder"}, w.passes)
    BY <1>0, <2>1, CorroboratedLeads
  <2> QED
    BY <1>4, <2>2 DEF Later, Leads, Place
<1> QED
  BY <1>1, <1>2, <1>3, <1>4 DEF Searching

LEMMA StepLater ==
    ASSUME IInv, IInv', NEW r \in Rows, RowStep(r)
    PROVE  Later(work[r], work'[r]) /\ \A x \in Rows \ {r} : work'[x] = work[x]
<1> DEFINE w == work[r]
<1>0. w \in Progress /\ work \in [Rows -> Progress] /\ work'[r] \in Progress
  BY DEF IInv, TypeOK
<1>1. \A x \in Rows \ {r} : work'[x] = work[x]
  BY <1>0 DEF RowStep, Begin, ContactsCached, UseCached, Ask, Fail, Receive, Handle,
     HandleError, RosterAnswered, ContactsGathered
<1>2. CASE Begin(r)
  <2>1. w.pc = "todo" /\ work'[r].pc \in {"roster", "contact"} /\ work'[r].passes = w.passes
    BY <1>0, <1>2 DEF Begin, Progress
  <2> QED
    BY <1>1, <2>1 DEF Later, Place
<1>3. CASE ContactsCached(r)
  <2> DEFINE v == [w EXCEPT !.routes = contacts[Company[r]]]
  <2>1. w.pc = "contact" /\ work'[r] = CompanyStageDone(r, v)
    BY <1>0, <1>3 DEF ContactsCached, EntersContacts
  <2>2. v \in Progress /\ v.passes = w.passes
    BY <1>0, <1>3 DEF ContactsCached, IInv, TypeOK, Progress
  <2> HIDE DEF v
  <2>3. Leads(work'[r], {"done", "free_match", "ladder"}, w.passes)
    BY <2>1, <2>2, FindPersonLeads
  <2> QED
    BY <1>1, <2>1, <2>3 DEF Later, Leads, Place
<1>4. CASE Ask(r)
  <2>1. /\ w.waiting = FALSE /\ work'[r].waiting = TRUE /\ work'[r].pc = w.pc
        /\ work'[r].step = w.step /\ work'[r].passes = w.passes
    BY <1>0, <1>4 DEF Ask, MaySearch, Progress
  <2> QED
    BY <1>1, <2>1 DEF Later, Place
<1>5. CASE UseCached(r)
  <2>1. Searching(r) /\ \E response \in SUBSET Items : Handle(r, response)
    BY <1>5 DEF UseCached, MaySearch, IInv, TypeOK
  <2> QED
    BY <1>0, <1>1, <2>1, SearchedLater
<1>6. CASE Fail(r)
  BY <1>0, <1>1, <1>6, SearchedLater DEF Fail
<1>7. ASSUME NEW response \in Responses, Receive(r, response) PROVE Later(work[r], work'[r])
  <2>1. Searching(r) /\ response \in SUBSET Items /\ Handle(r, response)
    BY <1>7, LadderAssumption DEF Receive
  <2> QED
    BY <1>0, <2>1, SearchedLater
<1> QED
  BY <1>1, <1>2, <1>3, <1>4, <1>5, <1>6, <1>7 DEF RowStep

(* Resolving a row takes a bounded number of steps, whatever its searches  *)
(* bring, however they fail and whatever the other rows do to the caches:  *)
(* each step of its coroutine lowers what it has left, and no step of      *)
(* another row touches it (runner.py:148-243); an unanswered row comes     *)
(* back, as often as its passes allow (store.py:383-402).                  *)
THEOREM LadderAdvances == Spec => []StepsBounded /\ RowsAdvance
<1> DEFINE Advance ==
             \E r \in Rows :
                /\ \A x \in Rows \ {r} : work'[x] = work[x]
                /\ \/ /\ StepsLeft(work'[r]) < StepsLeft(work[r])
                      /\ work'[r].passes = work[r].passes
                   \/ /\ work[r].decision = "blank_error"
                      /\ work'[r].passes = work[r].passes + 1 /\ work'[r].passes <= MaxPasses
<1>1. IInv => StepsBounded
  BY StepsNumber DEF IInv, TypeOK, StepsBounded
<1>2. IInv /\ IInv' /\ [Next]_vars => [Advance]_vars
  <2> SUFFICES ASSUME IInv, IInv', Next PROVE Advance
    OBVIOUS
  <2>0. work \in [Rows -> Progress] /\ work' \in [Rows -> Progress]
    BY DEF IInv, TypeOK
  <2>1. ASSUME NEW r \in Rows, RowStep(r) PROVE Advance
    <3>1. Later(work[r], work'[r]) /\ \A x \in Rows \ {r} : work'[x] = work[x]
      BY <2>1, StepLater
    <3>2. StepsLeft(work'[r]) < StepsLeft(work[r])
      BY <2>0, <3>1, LaterLess
    <3> QED
      BY <3>1, <3>2 DEF Later
  <2>2. ASSUME NEW r \in Rows, RetryRow(r) PROVE Advance
    <3>1. /\ \A x \in Rows \ {r} : work'[x] = work[x]
          /\ work[r].decision = "blank_error" /\ work[r].passes < MaxPasses
          /\ work'[r].passes = work[r].passes + 1
      BY <2>0, <2>2 DEF RetryRow, Idle
    <3>2. work[r].passes + 1 <= MaxPasses
      BY <2>0, <3>1, LadderAssumption DEF Progress
    <3> QED
      BY <3>1, <3>2
  <2> QED
    BY <2>1, <2>2 DEF Next
<1>3. Spec => []StepsBounded
  BY <1>1, LadderInvariant, PTL
<1>4. Spec => [][Advance]_vars
  BY <1>2, LadderInvariant, PTL DEF Spec
<1> QED
  BY <1>3, <1>4 DEF RowsAdvance
=============================================================================
