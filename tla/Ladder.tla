------------------------------- MODULE Ladder -------------------------------
(***************************************************************************)
(* resolve_row of workers/runner.py, run by several consumers of the pool  *)
(* at once: the company stage (roster, contact routes), the person ladder, *)
(* corroboration and the decision, over the three caches the rows share.   *)
(* Each row goes through at its own pace and may only be overtaken where   *)
(* the code awaits a search; a search answered from the cache and the      *)
(* entry of a stage are steps of their own here, so the model interleaves  *)
(* a little more than asyncio does.                                        *)
(*                                                                         *)
(* A response is a set of items, and what the text rules would make of an  *)
(* item for a row is a constant.  The tiers and contact routes are enabled,*)
(* as by default.                                                          *)
(***************************************************************************)
EXTENDS Integers, FiniteSets

CONSTANTS
    Rows,           \* records with a usable name and company
    Companies,
    Company,        \* the company_key of each row
    Items,          \* search results
    Profiles,       \* items is_profile_url accepts
    Covers,         \* profiles that carry the company's tokens, the row's own name excluded
    Score,          \* for each row, the score of the profiles that pass its two gates
    Threshold,      \* the score at which the calibrated confidence suffices
    MinMargin,      \* settings.reject.min_margin
    Publishes,      \* items with a contact route of the company
    Independent,    \* items assess() takes for a second source about the row
    Responses,      \* what a search may answer
    Authoritative,  \* provider.empty_means_absent
    NegativeCache,  \* settings.enable_negative_cache
    Corroboration,  \* settings.require_corroboration
    AcceptRoutes,   \* settings.accept_on_contact_route
    ContactQueries, \* settings.max_company_contact_queries
    Rungs,          \* settings.max_person_queries
    OpenWeb,        \* the variant whose text is also the corroboration query
    MaxBusy,        \* settings.workers
    MaxPasses       \* bound: how often a deferred row is tried again

ASSUME LadderAssumption ==
    /\ Company \in [Rows -> Companies]
    /\ Profiles \subseteq Items
    /\ Covers \in [Rows -> SUBSET Profiles]
    /\ \A r \in Rows : DOMAIN Score[r] \subseteq Covers[r] /\ Score[r] \in [DOMAIN Score[r] -> Nat]
    /\ Threshold \in Nat \ {0} /\ MinMargin \in Nat
    /\ Publishes \in [Companies -> SUBSET Items]
    /\ Independent \in [Rows -> SUBSET Items]
    /\ Responses \subseteq SUBSET Items
    /\ {Authoritative, NegativeCache, Corroboration, AcceptRoutes} \subseteq BOOLEAN
    /\ ContactQueries \in Nat \ {0} /\ Rungs \in Nat \ {0} /\ OpenWeb \in Nat \ {0}
    /\ MaxBusy \in Nat \ {0} /\ MaxPasses \in Nat

VARIABLES
    serp,       \* serp_cache: the queries with a stored response, and that response
    companies,  \* company_cache: roster and footprint of the companies searched
    contacts,   \* company_contacts: the routes of the companies searched for them
    work        \* the state of resolve_row for each row

vars == <<serp, companies, contacts, work>>

Query == ({"roster"} \X Companies \X {0}) \cup ({"contact"} \X Companies \X (1 .. ContactQueries))
            \cup ({"person"} \X Rows \X (1 .. Rungs \cup {OpenWeb}))

Idle == [pc |-> "todo", step |-> 1, waiting |-> FALSE, evidence |-> {}, footprint |-> "unknown",
         gathered |-> {}, errors |-> 0, routes |-> {}, scored |-> FALSE,
         decision |-> "none", passes |-> 0]

Progress ==
    [pc : {"todo", "roster", "contact", "free_match", "ladder", "match", "done"},
     step : 1 .. (Rungs + ContactQueries), waiting : BOOLEAN, evidence : SUBSET Items,
     footprint : {"yes", "no", "unknown"}, gathered : SUBSET Items,
     errors : 0 .. ContactQueries, routes : SUBSET Items, scored : BOOLEAN,
     decision : {"none", "matched", "contact", "blank", "blank_error"},
     passes : 0 .. MaxPasses]

TypeOK ==
    /\ DOMAIN serp \subseteq Query /\ \A q \in DOMAIN serp : serp[q] \in SUBSET Items
    /\ DOMAIN companies \subseteq Companies
    /\ \A c \in DOMAIN companies :
          companies[c] \in [footprint : BOOLEAN, roster : SUBSET Profiles]
    /\ DOMAIN contacts \subseteq Companies
    /\ \A c \in DOMAIN contacts : contacts[c] \in SUBSET Items
    /\ work \in [Rows -> Progress]

Init ==
    /\ serp = [q \in {} |-> {}]
    /\ companies = [c \in {} |-> {}]
    /\ contacts = [c \in {} |-> {}]
    /\ work = [r \in Rows |-> Idle]

With(f, x, v) == [y \in DOMAIN f \cup {x} |-> IF y = x THEN v ELSE f[y]]

-----------------------------------------------------------------------------
(* The stages of one row: what becomes of its state w.                     *)

(* resolve(): the best candidate suffices and no other comes close.        *)
Matched(r, evidence) ==
    LET survivors == evidence \cap DOMAIN Score[r] IN
    \E top \in survivors :
        /\ Score[r][top] >= Threshold
        /\ \A p \in survivors \ {top} :
              Score[r][p] <= Score[r][top]
                  /\ (Score[r][p] = 0 \/ Score[r][top] - Score[r][p] >= MinMargin)

(* _decide(), over the company's routes and those found in the evidence.   *)
Decide(r, w, matched, scored) ==
    LET routes == w.routes \cup (w.evidence \cap Publishes[Company[r]])
    IN  [w EXCEPT !.pc = "done", !.waiting = FALSE,
                  !.decision = IF matched THEN "matched"
                               ELSE IF ~scored THEN "blank_error"
                               ELSE IF routes # {} /\ AcceptRoutes THEN "contact" ELSE "blank"]

(* _find_person: the negative cache, the roster for free, then the ladder. *)
FindPerson(r, w) ==
    IF NegativeCache /\ w.footprint = "no" THEN Decide(r, w, FALSE, TRUE)
    ELSE IF Matched(r, w.evidence)
         THEN IF Corroboration THEN [w EXCEPT !.pc = "free_match"] ELSE Decide(r, w, TRUE, TRUE)
         ELSE [w EXCEPT !.pc = "ladder", !.step = 1]

(* A row whose roster was inconclusive and whose company has no routes is  *)
(* left unanswered.                                                        *)
CompanyStageDone(r, w) ==
    IF w.footprint = "unknown" /\ w.routes = {} THEN Decide(r, w, FALSE, FALSE)
    ELSE FindPerson(r, w)

NextRungOneMore(r, w) ==
    IF w.step <= Rungs THEN [w EXCEPT !.step = @ + 1, !.waiting = FALSE]
    ELSE Decide(r, w, FALSE, w.scored)

NextRungSettling(r, w) ==
    IF w.step < Rungs THEN [w EXCEPT !.step = @ + 1, !.waiting = FALSE]
    ELSE Decide(r, w, FALSE, TRUE)

NextRungUntilScored(r, w) ==
    IF ~w.scored THEN [w EXCEPT !.waiting = FALSE]
    ELSE IF w.step < Rungs THEN [w EXCEPT !.step = @ + 1, !.waiting = FALSE]
    ELSE Decide(r, w, FALSE, w.scored)

NextRung(r, w) ==
    IF w.step < Rungs THEN [w EXCEPT !.step = @ + 1, !.waiting = FALSE]
    ELSE Decide(r, w, FALSE, w.scored)

(* A rung answered: everything gathered so far is scored again.            *)
RungAnswered(r, w, response) ==
    LET v == [w EXCEPT !.evidence = @ \cup response, !.scored = TRUE, !.waiting = FALSE]
    IN  IF ~Matched(r, v.evidence) THEN NextRung(r, v)
        ELSE IF Corroboration THEN [v EXCEPT !.pc = "match"] ELSE Decide(r, v, TRUE, TRUE)

CorroboratedForFree(r, w, found) ==
    IF found \/ w.pc = "free_match" THEN Decide(r, w, TRUE, TRUE)
    ELSE Decide(r, w, FALSE, TRUE)

(* _corroborate: without a second source a free match goes on to the       *)
(* ladder, and a match of the ladder is given up.                          *)
Corroborated(r, w, found) ==
    IF found THEN Decide(r, w, TRUE, TRUE)
    ELSE IF w.pc = "free_match" THEN [w EXCEPT !.pc = "ladder", !.step = 1, !.waiting = FALSE]
    ELSE Decide(r, w, FALSE, TRUE)

-----------------------------------------------------------------------------
(* The searches.                                                           *)

CurrentQuery(r) ==
    LET w == work[r] IN
    CASE w.pc = "roster" -> <<"roster", Company[r], 0>>
      [] w.pc = "contact" -> <<"contact", Company[r], w.step>>
      [] w.pc = "ladder" -> <<"person", r, w.step>>
      [] w.pc \in {"free_match", "match"} -> <<"person", r, OpenWeb>>

Searching(r) == work[r].pc \in {"roster", "contact", "ladder", "free_match", "match"}

(* Whether an empty roster response proves that there is nothing.          *)
Trustworthy(response) == response # {} \/ Authoritative

RosterAnsweredTrusting(r, response) ==
    LET c == Company[r]
        roster == response \cap Profiles
        footprint == roster \cap Covers[r] # {}
    IN  /\ companies' = With(companies, c, [footprint |-> footprint, roster |-> roster])
        /\ work' = [work EXCEPT ![r].pc = "contact", ![r].step = 1, ![r].waiting = FALSE,
                                ![r].evidence = roster,
                                ![r].footprint = IF footprint THEN "yes" ELSE "no"]

(* _company_roster with the response to the roster query.                  *)
RosterAnswered(r, response) ==
    LET c == Company[r]
        roster == response \cap Profiles
        footprint == roster \cap Covers[r] # {}
    IN  IF Trustworthy(response)
        THEN /\ companies' = With(companies, c, [footprint |-> footprint, roster |-> roster])
             /\ work' = [work EXCEPT ![r].pc = "contact", ![r].step = 1, ![r].waiting = FALSE,
                                     ![r].evidence = roster,
                                     ![r].footprint = IF footprint THEN "yes" ELSE "no"]
        ELSE /\ work' = [work EXCEPT ![r].pc = "contact", ![r].step = 1, ![r].waiting = FALSE]
             /\ UNCHANGED companies

(* discover(): after the last query the routes are saved, unless every     *)
(* query failed.                                                           *)
ContactsGathered(r, w) ==
    LET c == Company[r]
        routes == w.gathered \cap Publishes[c]
        v == [w EXCEPT !.waiting = FALSE, !.gathered = {}, !.errors = 0]
    IN  IF w.step < ContactQueries
        THEN /\ work' = [work EXCEPT ![r] = [w EXCEPT !.step = @ + 1, !.waiting = FALSE]]
             /\ UNCHANGED contacts
        ELSE IF w.errors = ContactQueries
        THEN work' = [work EXCEPT ![r] = CompanyStageDone(r, v)] /\ UNCHANGED contacts
        ELSE /\ contacts' = With(contacts, c, routes)
             /\ work' = [work EXCEPT ![r] = CompanyStageDone(r, [v EXCEPT !.routes = routes])]

(* A response without an error, from the cache or from the provider.       *)
Handle(r, response) ==
    LET w == work[r] IN
    \/ w.pc = "roster" /\ RosterAnswered(r, response) /\ UNCHANGED contacts
    \/ /\ w.pc = "contact"
       /\ ContactsGathered(r, [w EXCEPT !.gathered = @ \cup response])
       /\ UNCHANGED companies
    \/ /\ w.pc = "ladder"
       /\ work' = [work EXCEPT ![r] = RungAnswered(r, w, response)]
       /\ UNCHANGED <<companies, contacts>>
    \/ /\ w.pc \in {"free_match", "match"}
       /\ work' = [work EXCEPT ![r] = Corroborated(r, w, response \cap Independent[r] # {})]
       /\ UNCHANGED <<companies, contacts>>

HandleError(r) ==
    LET w == work[r] IN
    \/ /\ w.pc = "roster"
       /\ work' = [work EXCEPT ![r].pc = "contact", ![r].step = 1, ![r].waiting = FALSE]
       /\ UNCHANGED <<companies, contacts>>
    \/ /\ w.pc = "contact"
       /\ ContactsGathered(r, [w EXCEPT !.errors = @ + 1])
       /\ UNCHANGED companies
    \/ /\ w.pc = "ladder"
       /\ work' = [work EXCEPT ![r] = NextRung(r, w)]
       /\ UNCHANGED <<companies, contacts>>
    \/ /\ w.pc \in {"free_match", "match"}
       /\ work' = [work EXCEPT ![r] = Corroborated(r, w, FALSE)]
       /\ UNCHANGED <<companies, contacts>>

-----------------------------------------------------------------------------
(* Actions.                                                                *)

Busy == {r \in Rows : work[r].pc \notin {"todo", "done"}}

(* resolve_row looks its company up first.                                 *)
Begin(r) ==
    /\ work[r].pc = "todo" /\ Cardinality(Busy) < MaxBusy
    /\ LET c == Company[r] IN
       work' = [work EXCEPT ![r] =
          IF NegativeCache /\ c \in DOMAIN companies
          THEN [@ EXCEPT !.pc = "contact", !.evidence = companies[c].roster,
                         !.footprint = IF companies[c].footprint THEN "yes" ELSE "no"]
          ELSE [@ EXCEPT !.pc = "roster"]]
    /\ UNCHANGED <<serp, companies, contacts>>

EntersContacts(r) == work[r].pc = "contact" /\ work[r].step = 1 /\ ~work[r].waiting

(* discover() returns the cached routes of the company.                    *)
ContactsCached(r) ==
    /\ EntersContacts(r) /\ Company[r] \in DOMAIN contacts
    /\ work' = [work EXCEPT ![r] =
                   CompanyStageDone(r, [@ EXCEPT !.routes = contacts[Company[r]]])]
    /\ UNCHANGED <<serp, companies, contacts>>

MaySearch(r) ==
    /\ Searching(r) /\ ~work[r].waiting
    /\ EntersContacts(r) => Company[r] \notin DOMAIN contacts

(* client.search finds the query in the response cache, or awaits it.      *)
UseCached(r) ==
    /\ MaySearch(r) /\ CurrentQuery(r) \in DOMAIN serp
    /\ Handle(r, serp[CurrentQuery(r)])
    /\ UNCHANGED serp

Ask(r) ==
    /\ MaySearch(r) /\ CurrentQuery(r) \notin DOMAIN serp
    /\ work' = [work EXCEPT ![r].waiting = TRUE]
    /\ UNCHANGED <<serp, companies, contacts>>

(* The response is cached and handled without a pause.                     *)
Receive(r, response) ==
    /\ Searching(r) /\ work[r].waiting
    /\ serp' = With(serp, CurrentQuery(r), response)
    /\ Handle(r, response)

(* The search failed for good; nothing is cached.                          *)
Fail(r) ==
    /\ Searching(r) /\ work[r].waiting
    /\ HandleError(r)
    /\ UNCHANGED serp

(* A row left unanswered is deferred and comes back on a later pass.       *)
RetryRow(r) ==
    /\ work[r].decision = "blank_error" /\ work[r].passes < MaxPasses
    /\ work' = [work EXCEPT ![r] = [Idle EXCEPT !.passes = work[r].passes + 1]]
    /\ UNCHANGED <<serp, companies, contacts>>

RowStep(r) ==
    \/ Begin(r) \/ ContactsCached(r) \/ UseCached(r) \/ Ask(r) \/ Fail(r)
    \/ \E response \in Responses : Receive(r, response)

Next == \E r \in Rows : RowStep(r) \/ RetryRow(r)

Spec == Init /\ [][Next]_vars

(* Every consumer goes on, and every search ends (SearchReturns).          *)
FairSpec == Spec /\ \A r \in Rows : WF_vars(RowStep(r))

-----------------------------------------------------------------------------
(* Properties.                                                             *)

(* "A match found for free must clear the same bar as one found by a       *)
(* person query": whatever path led to it, a match rests on one candidate  *)
(* and on a stored response in which an independent source names the       *)
(* person.                                                                 *)
MatchCorroborated ==
    \A r \in Rows : work[r].decision = "matched" =>
        /\ Matched(r, work[r].evidence)
        /\ Corroboration =>
              /\ <<"person", r, OpenWeb>> \in DOMAIN serp
              /\ serp[<<"person", r, OpenWeb>>] \cap Independent[r] # {}

(* A row is settled only by an answer: a rung that was answered, or the    *)
(* company proven absent; errors alone leave it open.                      *)
AnswerFounded ==
    \A r \in Rows : work[r].decision \in {"contact", "blank"} =>
        \/ \E i \in 1 .. Rungs : <<"person", r, i>> \in DOMAIN serp
        \/ NegativeCache /\ work[r].footprint = "no" /\ Company[r] \in DOMAIN companies

(* "The negative cache is only allowed to record an absence when" the      *)
(* backend can prove it: whoever records or overwrites a verdict, a        *)
(* company becomes absent, and a row is stopped by it, on a response that  *)
(* could be trusted and showed that row no profile of the company.         *)
AbsenceEarned ==
    [][\A c \in Companies :
          c \in DOMAIN companies' /\ ~companies'[c].footprint
              /\ (c \in DOMAIN companies => companies[c] # companies'[c])
          => \E r \in Rows :
                /\ Company[r] = c /\ work[r].pc = "roster" /\ work'[r].footprint = "no"
                /\ Trustworthy(serp'[<<"roster", c, 0>>])
                /\ serp'[<<"roster", c, 0>>] \cap Covers[r] = {}]_vars

(* Whichever searches fail and however rows of a company share and         *)
(* overwrite its caches, all rows come to be resolved and stay so.         *)
RowsResolve == <>[](\A r \in Rows : work[r].pc = "done")

(* "If the company has no discoverable presence, no person there can       *)
(* qualify": a row the negative cache stops has no covering profile.       *)
NegativeCacheLogical ==
    \A r \in Rows : work[r].footprint = "no" => work[r].evidence \cap Covers[r] = {}
=============================================================================
