------------------------------ MODULE RowStore ------------------------------
(***************************************************************************)
(* The SQLite tables every stage of the pipeline shares                    *)
(* (linkedin_enrichment/database/store.py).  One variable stands for each  *)
(* column or table the control flow reads, and one action for each         *)
(* transaction the class Store offers: Store._tx commits a method as a     *)
(* whole or rolls it back, so a method is one atomic step.                 *)
(*                                                                         *)
(* The store has no control of its own: StoreCallers.tla lets anybody call *)
(* any transaction, WorkerPool.tla drives them the way `main.py run` does. *)
(***************************************************************************)
EXTENDS Naturals, FiniteSets

CONSTANTS
    Rows,            \* row_uid of every input row
    Person,          \* Person[r]: the row's dedup_key, or its row_uid when empty
    Urls,            \* LinkedIn profile URLs
    NoUrl,           \* the empty linkedin_url column
    CompanyRoutes,   \* published contact routes other than a profile
    Filtered,        \* rows ingest/prefilter.py finds unsearchable
    MaxAttempts      \* settings.max_row_attempts

ASSUME StoreAssumption ==
    /\ DOMAIN Person = Rows
    /\ NoUrl \notin Urls
    /\ Filtered \subseteq Rows
    /\ MaxAttempts \in Nat \ {0}

VARIABLES
    status,      \* records.status; "absent" when the row is not ingested yet
    attempts,    \* records.attempts
    claimedAt,   \* records.claimed_at; 0 is NULL
    result,      \* the results row: its decision ("none" if there is no row) and URL
    routes,      \* contact_routes, by row: the unique index makes it a set
    review,      \* review_candidates, by row: how many batches of candidates it holds
    tombs        \* suppressions: the tombstoned rows

store == <<status, attempts, claimedAt, result, routes, review, tombs>>

Status == {"absent", "pending", "claimed", "deferred", "done", "skipped"}

Decision == {"none", "matched", "contact_route_only", "blank", "blank_error",
             "blank_ambiguous", "blank_skipped", "suppressed"}

RouteValue == Urls \cup CompanyRoutes

NoResult == [decision |-> "none", url |-> NoUrl]
Blank(d) == [decision |-> d, url |-> NoUrl]

(* Two batches of review candidates already say "more than one".           *)
ReviewCap == 2

StoreTypeOK ==
    /\ status \in [Rows -> Status]
    /\ attempts \in [Rows -> Nat]
    /\ claimedAt \in [Rows -> Nat]
    /\ result \in [Rows -> [decision : Decision, url : Urls \cup {NoUrl}]]
    /\ routes \in [Rows -> SUBSET RouteValue]
    /\ review \in [Rows -> 0 .. ReviewCap]
    /\ tombs \in SUBSET Rows

StoreInit ==
    /\ status = [r \in Rows |-> "absent"]
    /\ attempts = [r \in Rows |-> 0]
    /\ claimedAt = [r \in Rows |-> 0]
    /\ result = [r \in Rows |-> NoResult]
    /\ routes = [r \in Rows |-> {}]
    /\ review = [r \in Rows |-> 0]
    /\ tombs = {}

Having(s) == {r \in Rows : status[r] = s}

-----------------------------------------------------------------------------
(* What the worker may hand to the store for one row: RowOutcome after     *)
(* LadderRunner._decide, with contact routes and delivery on them enabled  *)
(* (the defaults).  A confirmed profile is also the row's first route; an  *)
(* unresolved row with routes becomes contact_route_only unless it failed; *)
(* "blank" stands for every terminal blank.                                *)
Outcome ==
    {o \in [decision : {"matched", "contact_route_only", "blank", "blank_error"},
            url : Urls \cup {NoUrl}, routes : SUBSET RouteValue, review : BOOLEAN] :
        /\ o.decision = "matched" <=> o.url # NoUrl
        /\ o.routes \cap Urls = {o.url} \ {NoUrl}
        /\ o.decision = "contact_route_only" => o.routes # {}
        /\ o.decision = "blank" => o.routes = {}
        /\ o.decision \in {"matched", "blank_error"} => ~ o.review}

-----------------------------------------------------------------------------
(* Ingestion.                                                              *)

InsertReplacing(S) ==  \* mutant: INSERT OR REPLACE
    /\ status' = [r \in Rows |-> IF r \notin S THEN status[r]
                                 ELSE IF r \in Filtered THEN "skipped" ELSE "pending"]
    /\ UNCHANGED <<attempts, claimedAt, result, routes, review, tombs>>

(* INSERT OR IGNORE: a row that is there already keeps its progress.       *)
InsertRecords(S) ==
    /\ status' = [r \in Rows |-> IF r \notin S \/ status[r] # "absent" THEN status[r]
                                 ELSE IF r \in Filtered THEN "skipped" ELSE "pending"]
    /\ UNCHANGED <<attempts, claimedAt, result, routes, review, tombs>>

RecordSkippedResults ==
    /\ result' = [r \in Rows |-> IF status[r] = "skipped" /\ result[r] = NoResult
                                 THEN Blank("blank_skipped") ELSE result[r]]
    /\ UNCHANGED <<status, attempts, claimedAt, routes, review, tombs>>

-----------------------------------------------------------------------------
(* Claim, release, reclaim.                                                *)

(* A claim stamped before the cut-off is abandoned.  Time is not counted:  *)
(* the cut-off may fall anywhere, so any set of claims closed under "older *)
(* than" may be the abandoned ones.                                        *)
AbandonedAnyStatus(S) ==  \* mutant: claimed_at alone decides, and done rows keep theirs
    /\ \A s \in S : claimedAt[s] # 0
    /\ \A r \in Rows, s \in S : claimedAt[r] # 0 /\ claimedAt[r] < claimedAt[s] => r \in S

Abandoned(S) ==
    /\ S \subseteq Having("claimed")
    /\ \A r \in Having("claimed") :
          (claimedAt[r] = 0 \/ \E s \in S : claimedAt[r] < claimedAt[s]) => r \in S

ReclaimStale(S) ==
    /\ Abandoned(S)
    /\ status' = [r \in Rows |-> IF r \in S THEN "pending" ELSE status[r]]
    /\ claimedAt' = [r \in Rows |-> IF r \in S THEN 0 ELSE claimedAt[r]]
    /\ UNCHANGED <<attempts, result, routes, review, tombs>>

(* SELECT ... WHERE status = 'pending' [AND preferred = 1] ... LIMIT n:     *)
(* eligible is the rows the filter lets through.  The order is data        *)
(* (company_key or priority) and hence left open here.                     *)
Claimable(S, n, eligible) ==
    LET found == Having("pending") \cap eligible
    IN  /\ S \subseteq found
        /\ Cardinality(S) <= n
        /\ S = found \/ Cardinality(S) = n

ClaimBatch(S, now) ==
    /\ status' = [r \in Rows |-> IF r \in S THEN "claimed" ELSE status[r]]
    /\ claimedAt' = [r \in Rows |-> IF r \in S THEN now ELSE claimedAt[r]]
    /\ UNCHANGED <<attempts, result, routes, review, tombs>>

Release(S) ==
    LET given == S \cap Having("claimed")
    IN  /\ status' = [r \in Rows |-> IF r \in given THEN "pending" ELSE status[r]]
        /\ claimedAt' = [r \in Rows |-> IF r \in given THEN 0 ELSE claimedAt[r]]
        /\ UNCHANGED <<attempts, result, routes, review, tombs>>

-----------------------------------------------------------------------------
(* Results.                                                                *)

(* Neither the row's status nor its tombstone is looked at.                *)
WriteResultLeavesClaim(r, o) ==  \* mutant: the row is not marked done with its result
    /\ result' = [result EXCEPT ![r] = [decision |-> o.decision, url |-> o.url]]
    /\ UNCHANGED <<status, attempts, claimedAt, routes, review, tombs>>

WriteResult(r, o) ==
    /\ result' = [result EXCEPT ![r] = [decision |-> o.decision, url |-> o.url]]
    /\ status' = [status EXCEPT ![r] = "done"]
    /\ UNCHANGED <<attempts, claimedAt, routes, review, tombs>>

(* A plain INSERT: running it again adds a second copy.                    *)
AddReviewCandidates(r) ==
    /\ review' = [review EXCEPT ![r] = IF @ = ReviewCap THEN @ ELSE @ + 1]
    /\ UNCHANGED <<status, attempts, claimedAt, result, routes, tombs>>

AddContactRoutes(r, R) ==
    /\ routes' = [routes EXCEPT ![r] = @ \cup R]
    /\ UNCHANGED <<status, attempts, claimedAt, result, review, tombs>>

(* One more attempt is charged: parked while the budget lasts, finalised   *)
(* as blank_error once it is spent.                                        *)
DeferFinalisesStatusOnly(r) ==  \* mutant: exhausted row marked done, result insert lost
    /\ attempts' = [attempts EXCEPT ![r] = @ + 1]
    /\ claimedAt' = [claimedAt EXCEPT ![r] = 0]
    /\ status' = [status EXCEPT ![r] = IF attempts[r] + 1 < MaxAttempts
                                       THEN "deferred" ELSE "done"]
    /\ UNCHANGED <<result, routes, review, tombs>>

DeferOneTooMany(r) ==  \* mutant: attempts <= max_attempts
    /\ attempts' = [attempts EXCEPT ![r] = @ + 1]
    /\ claimedAt' = [claimedAt EXCEPT ![r] = 0]
    /\ IF attempts[r] + 1 <= MaxAttempts
       THEN /\ status' = [status EXCEPT ![r] = "deferred"]
            /\ UNCHANGED result
       ELSE /\ status' = [status EXCEPT ![r] = "done"]
            /\ result' = [result EXCEPT ![r] = Blank("blank_error")]
    /\ UNCHANGED <<routes, review, tombs>>

DeferRow(r) ==
    /\ attempts' = [attempts EXCEPT ![r] = @ + 1]
    /\ claimedAt' = [claimedAt EXCEPT ![r] = 0]
    /\ IF attempts[r] + 1 < MaxAttempts
       THEN /\ status' = [status EXCEPT ![r] = "deferred"]
            /\ UNCHANGED result
       ELSE /\ status' = [status EXCEPT ![r] = "done"]
            /\ result' = [result EXCEPT ![r] = Blank("blank_error")]
    /\ UNCHANGED <<routes, review, tombs>>

-----------------------------------------------------------------------------
(* Second chances.                                                         *)

RequeueDeferred ==
    LET again == {r \in Having("deferred") : attempts[r] < MaxAttempts}
    IN  /\ status' = [r \in Rows |-> IF r \in again THEN "pending" ELSE status[r]]
        /\ claimedAt' = [r \in Rows |-> IF r \in again THEN 0 ELSE claimedAt[r]]
        /\ UNCHANGED <<attempts, result, routes, review, tombs>>

RequeueAnyBlank(reset) ==  \* mutant: reset takes every kind of blank
    LET again == Having("deferred") \cup
                 {r \in Rows : reset /\ result[r].decision \in {"blank_error", "blank"}}
    IN  /\ status' = [r \in Rows |-> IF r \in again THEN "pending" ELSE status[r]]
        /\ claimedAt' = [r \in Rows |-> IF r \in again THEN 0 ELSE claimedAt[r]]
        /\ attempts' = [r \in Rows |-> IF reset /\ r \in again THEN 0 ELSE attempts[r]]
        /\ UNCHANGED <<result, routes, review, tombs>>

(* With reset, every row whose result says blank_error is taken too,       *)
(* whatever its status, and the budget starts afresh.                      *)
RequeueFailed(reset) ==
    LET again == Having("deferred") \cup
                 {r \in Rows : reset /\ result[r].decision = "blank_error"}
    IN  /\ status' = [r \in Rows |-> IF r \in again THEN "pending" ELSE status[r]]
        /\ claimedAt' = [r \in Rows |-> IF r \in again THEN 0 ELSE claimedAt[r]]
        /\ attempts' = [r \in Rows |-> IF reset /\ r \in again THEN 0 ELSE attempts[r]]
        /\ UNCHANGED <<result, routes, review, tombs>>

RecordUnresolvedPending ==  \* mutant: looks for pending instead of deferred rows
    /\ result' = [r \in Rows |-> IF status[r] = "pending" /\ result[r] = NoResult
                                 THEN Blank("blank_error") ELSE result[r]]
    /\ UNCHANGED <<status, attempts, claimedAt, routes, review, tombs>>

RecordUnresolvedResults ==
    /\ result' = [r \in Rows |-> IF status[r] = "deferred" /\ result[r] = NoResult
                                 THEN Blank("blank_error") ELSE result[r]]
    /\ UNCHANGED <<status, attempts, claimedAt, routes, review, tombs>>

-----------------------------------------------------------------------------
(* Cross-row consistency and deletion on request.                          *)

Matched(r) == result[r].decision = "matched" /\ result[r].url # NoUrl

SharedByMoreThanTwo ==  \* mutant: HAVING people > 2
    {u \in Urls :
        Cardinality({Person[r] : r \in {q \in Rows : Matched(q) /\ result[q].url = u}}) > 2}

(* Profiles that won for more than one distinct person; two rows of one    *)
(* person share theirs rightly.                                            *)
FindSharedUrls ==
    {u \in Urls : \E r, s \in Rows : /\ Matched(r) /\ result[r].url = u
                                     /\ Matched(s) /\ result[s].url = u
                                     /\ Person[r] # Person[s]}

RetractKeepingUrl ==  \* mutant: the decision is changed, the URL stays
    /\ result' = [r \in Rows |-> IF Matched(r) /\ result[r].url \in FindSharedUrls
                                 THEN [result[r] EXCEPT !.decision = "blank_ambiguous"]
                                 ELSE result[r]]
    /\ UNCHANGED <<status, attempts, claimedAt, routes, review, tombs>>

RetractKeepingDecision ==  \* mutant: the URL is cleared, the decision stays
    /\ result' = [r \in Rows |-> IF Matched(r) /\ result[r].url \in FindSharedUrls
                                 THEN [result[r] EXCEPT !.url = NoUrl] ELSE result[r]]
    /\ UNCHANGED <<status, attempts, claimedAt, routes, review, tombs>>

RetractSharedUrls ==
    /\ result' = [r \in Rows |-> IF Matched(r) /\ result[r].url \in FindSharedUrls
                                 THEN Blank("blank_ambiguous") ELSE result[r]]
    /\ UNCHANGED <<status, attempts, claimedAt, routes, review, tombs>>

(* The contact_routes of the row are left where they are.                  *)
Suppress(r) ==
    /\ tombs' = tombs \cup {r}
    /\ review' = [review EXCEPT ![r] = 0]
    /\ result' = [result EXCEPT ![r] = Blank("suppressed")]
    /\ status' = [status EXCEPT ![r] = "skipped"]
    /\ UNCHANGED <<attempts, claimedAt, routes>>

-----------------------------------------------------------------------------
(* A row is never done without a decision: write_result and an exhausted   *)
(* defer_row change results and records in one transaction, and nothing    *)
(* that reopens or erases a row drops its result (store.py:266-305).       *)
SettledHasResult ==
    \A r \in Rows : status[r] = "done" => result[r].decision # "none"

(* A profile URL stands in the results table exactly on matched rows: each *)
(* of retract, suppress and defer must blank it with the decision, for the *)
(* report counts URLs and decisions separately.                            *)
ProfileOnlyOnMatch ==
    \A r \in Rows : result[r].url # NoUrl <=> result[r].decision = "matched"

(* A row accepted for its contact route has one to show: the routes and    *)
(* the decision are two transactions with a crash or a rerun between, and  *)
(* delivered_prospects joins the two tables (store.py:819, pool.py:253).   *)
DeliveredHasRoutes ==
    \A r \in Rows : result[r].decision = "contact_route_only" => routes[r] # {}

Answered(r) == status[r] = "done" /\ result[r].decision # "blank_error"

(* A row that has its answer stays done until it is suppressed: release,   *)
(* reclaim, requeue and re-ingestion are all called with rows that may     *)
(* have been finished in the meantime (pool.py:193-197), and a failure     *)
(* parks whatever row it names (store.py:326) for the next run to redo.    *)
NeverReopensAnswered ==
    [][\A r \in Rows : Answered(r) => status'[r] \in {"done", "skipped"}]_store
=============================================================================
