------------------------------ MODULE Contacts ------------------------------
(***************************************************************************)
(* The contact routes of a row (output/contacts.py): what a search result  *)
(* may contribute, the order and the limits of a route list, and the two   *)
(* lists a row's routes are made of -- those its company publishes, found  *)
(* once and kept in company_contacts (identity/company_contact.py), and    *)
(* those the row's own searches turned up (workers/runner.py).             *)
(*                                                                         *)
(* A page is a search result by what the code asks of its URL and text:    *)
(*   kind       what the URL is: "aggregator", "profile", "company_page",  *)
(*              "social", or "page" for every other                        *)
(*   site       companies whose brand its domain carries                   *)
(*   shapes     route types whose path pattern its path matches; root says *)
(*              the path is empty                                          *)
(*   people     rows whose person the text names                           *)
(*   concerns   companies its slug or text shows                           *)
(*   mails      addresses in the text: the role the local part is          *)
(*              classified as ("none" if none), whether it passes for a    *)
(*              role mailbox, whose names it bears, and whether its domain *)
(*              is a consumer provider ("free"), the page's or the         *)
(*              brand's ("own"), or "other"                                *)
(*   phones     numbers in the text, by how they are written               *)
(***************************************************************************)
EXTENDS Integers, SequencesExt

CONSTANTS
    Rows, NoRow,
    Companies,
    Company,        \* Company[r]: the company_key of a row
    Pages,          \* the search results there are
    Url,            \* Url[p]: the address of a page
    Gathered,       \* what a round of searches may return, deduplicated
    Profiles, NoUrl,
    RowLimit,       \* settings.max_row_routes
    CompanyLimit    \* settings.max_company_routes

(* The roles of the mailbox table; an address and a number in a text.      *)
Roles ==
    {"investor_relations", "board_office", "executive_office", "assistant", "reception"}

Mails == [address : STRING, role : Roles \cup {"none"}, mailbox : BOOLEAN,
          bears : SUBSET Rows, domain : {"free", "own", "other"}]

Phones == [number : STRING,
           written : {"service", "foreign", "area code split off", "one block"}]

ASSUME ContactsAssumption ==
    /\ NoRow \notin Rows /\ NoUrl \notin Profiles
    /\ Company \in [Rows -> Companies]
    /\ Gathered \subseteq Seq(Pages)
    /\ RowLimit \in Nat \ {0} /\ CompanyLimit \in Nat \ {0}
    /\ \A p \in Pages : /\ p.people \subseteq Rows
                         /\ p.mails \in Seq(Mails) /\ p.phones \in Seq(Phones)

(* From the most direct to the least.                                      *)
Directness ==
    <<"direct_corporate_email", "executive_office", "investor_relations", "board_office",
      "assistant", "reception", "linkedin_profile", "linkedin_company", "official_social",
      "contact_form", "conference_page">>

PersonScoped ==
    {"direct_corporate_email", "assistant", "linkedin_profile", "conference_page"}

Rank(route) == SelectInSeq(Directness, LAMBDA t : t = route.type)

Key(route) == <<route.type, route.value>>

Route(type, value, source) ==
    [type |-> type, value |-> value, source |-> source,
     scope |-> IF type \in PersonScoped THEN "person" ELSE "company"]

-----------------------------------------------------------------------------
(* The elements of a list in the order of their tickets <<weight, place>>: *)
(* lighter ones first, those of one weight as they stood in the list,      *)
(* which is how list.sort leaves them.                                     *)
Sooner(t, u) == t[1] < u[1] \/ (t[1] = u[1] /\ t[2] < u[2])

Arranged(s, T) ==
    [k \in 1 .. Cardinality(T) |->
        s[(CHOOSE t \in T : Cardinality({u \in T : Sooner(u, t)}) = k - 1)[2]]]

Selected(s, I) == Arranged(s, {<<0, i>> : i \in I})

-----------------------------------------------------------------------------
(* One search result.                                                      *)

(* A result names a person or shows a company; NoRow is never named.       *)
NamesPerson(p, r) == r \in p.people
NamesCompany(p, c) == c \in p.concerns

(* The path patterns, in the order they are tried; those of an office      *)
(* count on the company's own site only.                                   *)
PathRoutes ==
    <<"investor_relations", "board_office", "executive_office", "contact_form",
      "conference_page">>

ClassifyPage(p, c) ==
    LET fits == {k \in DOMAIN PathRoutes :
                    /\ PathRoutes[k] \in p.shapes
                    /\ c \in p.site \/ PathRoutes[k] = "conference_page"}
    IN  CASE p.kind = "profile"      -> "linkedin_profile"
          [] p.kind = "company_page" -> "linkedin_company"
          [] p.kind = "social"       -> "official_social"
          [] p.kind = "page" /\ fits # {} -> PathRoutes[Min(fits)]
          [] p.kind = "page" /\ fits = {} /\ c \in p.site /\ p.root -> "contact_form"
          [] OTHER -> "none"

PageMaybePersonal(p, c, r) ==  \* mutant: a profile that names the person is a route
    LET type == ClassifyPage(p, c)
    IN  IF \/ type = "none"
           \/ type \in PersonScoped /\ ~ NamesPerson(p, r)
           \/ type \in {"linkedin_company", "official_social"} /\ ~ NamesCompany(p, c)
        THEN <<>> ELSE <<Route(type, Url[p], p)>>

(* A /in/ URL is a candidate, never a route.                               *)
PageRoutes(p, c, r) ==
    LET type == ClassifyPage(p, c)
    IN  IF \/ type \in {"none", "linkedin_profile"}
           \/ type \in PersonScoped /\ ~ NamesPerson(p, r)
           \/ type \in {"linkedin_company", "official_social"} /\ ~ NamesCompany(p, c)
        THEN <<>> ELSE <<Route(type, Url[p], p)>>

ClassifyEmail(m) ==
    IF m.role # "none" THEN m.role
    ELSE IF m.domain = "own" THEN "direct_corporate_email" ELSE "reception"

(* A consumer mailbox only if it passes for a role and does not bear the   *)
(* name asked about; an unrelated domain only if it does not bear it.      *)
MailRefused(m, r) ==
    \/ m.domain = "free" /\ (~ m.mailbox \/ r \in m.bears)
    \/ m.domain = "other" /\ r \in m.bears

MailRoutesUnnamed(p, r) ==  \* mutant: a named mailbox is taken from any page of the company
    LET taken == Selected(p.mails, {i \in DOMAIN p.mails : ~ MailRefused(p.mails[i], r)})
    IN  [i \in DOMAIN taken |-> Route(ClassifyEmail(taken[i]), taken[i].address, p)]

MailTaken(p, m, r) ==
    /\ ~ MailRefused(m, r)
    /\ ClassifyEmail(m) \in PersonScoped => NamesPerson(p, r)

MailRoutes(p, r) ==
    LET taken == Selected(p.mails, {i \in DOMAIN p.mails : MailTaken(p, p.mails[i], r)})
    IN  [i \in DOMAIN taken |-> Route(ClassifyEmail(taken[i]), taken[i].address, p)]

(* A number written as one block may be a personal handset.                *)
Publishable(number) == number.written \in {"service", "foreign", "area code split off"}

PhoneRoutes(p, c) ==
    LET taken == IF c \notin p.site THEN <<>>
                 ELSE Selected(p.phones, {i \in DOMAIN p.phones : Publishable(p.phones[i])})
    IN  [i \in DOMAIN taken |-> Route("reception", taken[i].number, p)]

(* With NoRow for the name the company alone is asked about.               *)
RoutesFromResult(p, c, r) ==
    IF p.kind = "aggregator" THEN <<>>
    ELSE PageRoutes(p, c, r) \o MailRoutes(p, r) \o PhoneRoutes(p, c)

-----------------------------------------------------------------------------
(* Route lists.                                                            *)

(* The first route with a key is kept.                                     *)
Firsts(s) == {i \in DOMAIN s : \A j \in 1 .. i - 1 : Key(s[j]) # Key(s[i])}

Ranked(s, I) == Arranged(s, {<<Rank(s[i]), i>> : i \in I})

Cut(s, limit) == IF Len(s) <= limit THEN s ELSE SubSeq(s, 1, limit)

BestArrived(s, limit) ==  \* mutant: cut, then sorted
    LET cut == Cut(Selected(s, Firsts(s)), limit)
    IN  Ranked(cut, DOMAIN cut)

Best(s, limit) == Cut(Ranked(s, Firsts(s)), limit)

Found(results, c, r) ==
    FlattenSeq([i \in DOMAIN results |-> RoutesFromResult(results[i], c, r)])

CollectRoutes(results, c, r, limit) == Best(Found(results, c, r), limit)

MergeRoutes(person, company, limit) == Best(person \o company, limit)

-----------------------------------------------------------------------------
(* The routes of a row.                                                    *)

VARIABLES
    cache,      \* company_contacts: whether a company was searched, and its routes
    searched,   \* history: the results those routes were collected from
    made        \* the row being handed to the store: its routes, its confirmed profile and, as
                \* history, the results of its own searches and those behind its company's

vars == <<cache, searched, made>>

Unsearched == [conclusive |-> FALSE, routes |-> <<>>]
Nothing == [row |-> NoRow, evidence |-> <<>>, behind |-> <<>>, url |-> NoUrl, routes |-> <<>>]

Init ==
    /\ cache = [c \in Companies |-> Unsearched]
    /\ searched = [c \in Companies |-> <<>>]
    /\ made = Nothing

(* A profile is a route once the row's match was confirmed for it.         *)
Confirmed(url) == IF url = NoUrl THEN <<>> ELSE <<Route("linkedin_profile", url, url)>>

(* _resolve_row from the company's routes on: the routes of the evidence,  *)
(* a confirmed profile before them, the company's behind them.             *)
Resolved(r, evidence, url, company, behind) ==
    LET own == CollectRoutes(evidence, Company[r], r, RowLimit)
    IN  made' = [row |-> r, evidence |-> evidence, behind |-> behind, url |-> url,
                 routes |-> MergeRoutes(Confirmed(url) \o own, company, RowLimit)]

(* discover() returns a conclusive entry as it is.                         *)
ResolveCached(r, evidence, url) ==
    /\ cache[Company[r]].conclusive
    /\ Resolved(r, evidence, url, cache[Company[r]].routes, searched[Company[r]])
    /\ UNCHANGED <<cache, searched>>

(* Otherwise it searches for the company, without a name, and keeps the    *)
(* answer.  Consumers wait inside it: this one may have looked before      *)
(* another row stored the entry, which it then overwrites.                 *)
ResolveSearching(r, evidence, url) ==
    \E results \in Gathered :
        LET found == CollectRoutes(results, Company[r], NoRow, CompanyLimit)
        IN  /\ cache' = [cache EXCEPT ![Company[r]] = [conclusive |-> TRUE, routes |-> found]]
            /\ searched' = [searched EXCEPT ![Company[r]] = results]
            /\ Resolved(r, evidence, url, found, results)

(* Every search for the company failed: nothing is kept, and the row goes  *)
(* on without company routes.                                              *)
ResolveInconclusive(r, evidence, url) ==
    /\ Resolved(r, evidence, url, <<>>, <<>>)
    /\ UNCHANGED <<cache, searched>>

(* The consumer persists the outcome; rows are resolved one after another  *)
(* here, since all they share is the cache.                                *)
Persist ==
    /\ made # Nothing /\ made' = Nothing
    /\ UNCHANGED <<cache, searched>>

Next ==
    \/ Persist
    \/ /\ made = Nothing
       /\ \E r \in Rows, evidence \in Gathered, url \in Profiles \cup {NoUrl} :
             \/ ResolveCached(r, evidence, url)
             \/ ResolveSearching(r, evidence, url)
             \/ ResolveInconclusive(r, evidence, url)

Spec == Init /\ [][Next]_vars

-----------------------------------------------------------------------------
OnRow(i) == made.routes[i]

(* "A person-scoped route on a page that does not name the person" is      *)
(* never produced (contacts.py:461-468) -- nor inherited: the company's    *)
(* list is shared by all its people and merged into rows it was not        *)
(* collected for.                                                          *)
PersonScopeNamed ==
    \A i \in DOMAIN made.routes :
        OnRow(i).scope = "person" /\ OnRow(i).type # "linkedin_profile" =>
            NamesPerson(OnRow(i).source, made.row)

(* A profile is among the routes only as the one the row's own match was   *)
(* confirmed for, whatever /in/ pages the searches of the row or of its    *)
(* company returned (contacts.py:463-466).                                 *)
ProfileRouteVerified ==
    \A i \in DOMAIN made.routes :
        OnRow(i).type = "linkedin_profile" => OnRow(i).value = made.url

(* Two limits cut a row's routes, on the company's list before the merge   *)
(* and on the merged one.  Between them they drop no route while fewer     *)
(* than the smaller limit of the routes kept are as direct (contacts.py:   *)
(* 558-561, company_contact.py:201-208).                                   *)
DirectestKept ==
    LET found == Found(made.evidence, Company[made.row], made.row)
                 \o Found(made.behind, Company[made.row], NoRow)
        kept == {Key(OnRow(i)) : i \in DOMAIN made.routes}
    IN  made.row # NoRow =>
            \A j \in DOMAIN found : Key(found[j]) \notin kept =>
                Cardinality({i \in DOMAIN made.routes : Rank(OnRow(i)) <= Rank(found[j])})
                    >= (IF CompanyLimit <= RowLimit THEN CompanyLimit ELSE RowLimit)
=============================================================================
