----------------------------- MODULE RunCommand -----------------------------
(***************************************************************************)
(* The commands of main.py over the row store, from the preflight gate to  *)
(* the files they write.  One process runs at a time and may be killed     *)
(* between any two of its transactions, or in the middle of a file.  The   *)
(* pool appears here as one row in hand at a time; WorkerPool.tla has its  *)
(* concurrency, this module what happens before it, after it, and between  *)
(* a run and the commands that follow it.                                  *)
(***************************************************************************)
EXTENDS StoreCallers

CONSTANTS
    Files,         \* input workbooks, and so the enriched CSVs
    FileOf,        \* FileOf[r]: the workbook row r comes from
    Rankable,      \* rows score_row gives a priority above 0
    Preferred,     \* rows is_preferred_role accepts
    Backends,      \* search backends of the configured provider
    Target,        \* settings.target_matches
    Names,         \* the commands the operator gives
    Modes,         \* the modes a run is given
    MaxProcesses,  \* bound: commands given
    MaxRuns,       \* bound: commands among them that run the pool
    NoRow

ASSUME CommandAssumption ==
    /\ IsFiniteSet(Rows) /\ IsFiniteSet(Files) /\ FileOf \in [Rows -> Files]
    /\ Rankable \subseteq Rows /\ Preferred \subseteq Rows
    /\ Target \in Nat /\ MaxProcesses \in Nat /\ MaxProcesses <= MaxNow /\ MaxRuns \in Nat
    /\ Names \subseteq {"run", "pilot", "ingest", "rank", "retry", "write",
                        "suppress", "report"}
    /\ Modes \subseteq {"plain", "precision", "yield"}
    /\ NoRow \notin Rows

VARIABLES
    proc,       \* the running process, or Down
    processes,  \* commands given so far; also the clock of claimed_at
    runs,       \* those of them that run the pool
    scored,     \* records.priority and preferred: the rows a ranking has stored
    sheet,      \* the enriched CSVs: one line per row
    lists,      \* top_matches.csv, partial_matches.csv, prospects.csv, review_queue.csv
    counts      \* the figures of the bottleneck and QC reports, while they are made

vars == <<store, proc, processes, runs, scored, sheet, lists, counts>>

Down == [at |-> "down"]
NoLine == [profile |-> NoUrl, routes |-> {}]
NoFile == {NoRow}
NoCounts == [profiles |-> 0, contactOnly |-> 0, total |-> 0, processed |-> 0,
             matched |-> 0, errors |-> 0]

At(point) == proc.at = point
Goto(point) == proc' = [proc EXCEPT !.at = point]
Exit == proc' = Down

Point == {"gate", "retry", "ingest", "ranking", "rank", "reclaim", "requeue", "pool",
          "routes", "decide", "candidates", "retract", "unresolved", "measure",
          "suppress", "write", "review", "bottleneck", "deliver", "report", "reported"}

Process == [at : Point, name : Names, mode : Modes \cup {"plain"},
            unread : SUBSET Rows, rank : SUBSET Rows,
            row : Rows \cup {NoRow}, out : Outcome \cup {NoResult},
            erase : SUBSET Rows, files : SUBSET Files,
            worked : SUBSET Rows, gained : SUBSET Rows]

Listing == SUBSET (Rows \cup {NoRow})

TypeOK ==
    /\ StoreTypeOK
    /\ proc \in Process \cup {Down}
    /\ processes \in 0 .. MaxProcesses /\ runs \in 0 .. MaxRuns
    /\ scored \in SUBSET Rows
    /\ sheet \in [Rows -> [profile : Urls \cup {NoUrl}, routes : SUBSET RouteValue]]
    /\ lists \in [top : Listing, partial : Listing, prospects : Listing, review : Listing]
    /\ counts \in [profiles : Nat, contactOnly : Nat, total : Nat, processed : Nat,
                    matched : Nat, errors : Nat]

Init ==
    /\ StoreInit
    /\ proc = Down /\ processes = 0 /\ runs = 0 /\ scored = {}
    /\ sheet = [r \in Rows |-> NoLine]
    /\ lists = [top |-> NoFile, partial |-> NoFile, prospects |-> NoFile, review |-> NoFile]
    /\ counts = NoCounts

-----------------------------------------------------------------------------
(* search/preflight.py: every backend is probed with a query whose answer  *)
(* is known; a provider that does not validate is one FAILED report.       *)
Answer == [outcome : {"success", "failed", "inconclusive"}, canary : BOOLEAN]
Absorb(a) == IF a.outcome = "success" /\ ~ a.canary THEN "inconclusive" ELSE a.outcome

Probe(answer) == {Absorb(answer[b]) : b \in Backends}
Unusable == {"failed"}

ExitCode(outcomes) ==
    CASE "success" \in outcomes -> 0
      [] "success" \notin outcomes /\ "inconclusive" \in outcomes -> 2
      [] OTHER -> 1

-----------------------------------------------------------------------------
(* Commands.  `resume`, and `retry` after its requeue, is a run without    *)
(* input files; a pilot is a run that ends in a measurement.               *)
FirstPoint(name, input) ==
    CASE name \in {"run", "pilot"} -> "gate"
      [] name \in {"ingest", "rank"} /\ input # {} -> "ingest"
      [] name = "rank" /\ input = {} -> "rank"
      [] name = "write" -> "write"
      [] name \in {"retry", "suppress", "report"} -> name

Runs == {"run", "pilot", "retry"}
HasRecords == Having("absent") # Rows

(* rank reads its input only into an empty database.                       *)
Begin(name, mode, input, erase) ==
    /\ proc = Down /\ processes < MaxProcesses
    /\ name \in Runs => runs < MaxRuns
    /\ name = "ingest" => input # {}
    /\ name = "rank" => (HasRecords <=> input = {})
    /\ erase # {} <=> name = "suppress"
    /\ name \notin {"run", "pilot", "ingest", "rank"} => input = {}
    /\ mode \in IF name \in Runs THEN Modes ELSE {"plain"}
    /\ proc' = [at |-> FirstPoint(name, input), name |-> name, mode |-> mode,
                unread |-> {r \in Rows : FileOf[r] \in input}, rank |-> Rows \ Having("absent"),
                row |-> NoRow, out |-> NoResult, erase |-> erase, files |-> Files,
                worked |-> {}, gained |-> {}]
    /\ processes' = processes + 1
    /\ runs' = IF name \in Runs THEN runs + 1 ELSE runs
    /\ UNCHANGED <<store, scored, sheet, lists, counts>>

(* The gate comes before the database is opened; --force skips it, and so  *)
(* does the cassette.                                                      *)
Gate ==
    /\ At("gate")
    /\ \E force \in BOOLEAN, usable \in BOOLEAN, answer \in [Backends -> Answer] :
          IF ~ force /\ ExitCode(IF usable THEN Probe(answer) ELSE Unusable) # 0
          THEN Exit
          ELSE IF proc.unread # {} THEN Goto("ingest")
          ELSE IF HasRecords THEN Goto("ranking")
          ELSE Exit
    /\ UNCHANGED <<store, processes, runs, scored, sheet, lists, counts>>

Retry ==
    /\ At("retry")
    /\ \E reset \in BOOLEAN, noRun \in BOOLEAN :
          /\ RequeueFailed(reset)
          /\ IF noRun \/ UNCHANGED store THEN Exit ELSE Goto("gate")
    /\ UNCHANGED <<processes, runs, scored, sheet, lists, counts>>

-----------------------------------------------------------------------------
(* Ingestion and the offline ranking.                                      *)
Ingest ==
    /\ At("ingest")
    /\ \E S \in SUBSET proc.unread :
          /\ S # {}
          /\ InsertRecords(S)
          /\ proc' = [proc EXCEPT !.unread = @ \ S]
    /\ UNCHANGED <<processes, runs, scored, sheet, lists, counts>>

IngestDone ==
    /\ At("ingest") /\ proc.unread = {}
    /\ RecordSkippedResults
    /\ proc' = IF proc.name = "ingest" THEN Down
               ELSE [proc EXCEPT !.at = IF proc.name = "rank" THEN "rank" ELSE "ranking",
                                 !.rank = Rows \ Having("absent")]
    /\ UNCHANGED <<processes, runs, scored, sheet, lists, counts>>

(* Precision mode claims by rank and among the preferred roles only.  It   *)
(* ranks first unless some row already has a priority.                     *)
Ranked(mode) == mode = "precision"
Prioritised == scored \cap Rankable

Ranking ==
    /\ At("ranking")
    /\ Goto(IF Ranked(proc.mode) /\ Prioritised = {} THEN "rank" ELSE "reclaim")
    /\ UNCHANGED <<store, processes, runs, scored, sheet, lists, counts>>

(* Two passes over the corpus, then one transaction per RANK_BATCH rows.   *)
Rank ==
    /\ At("rank") /\ proc.rank # {}
    /\ \E S \in SUBSET proc.rank :
          /\ S # {}
          /\ scored' = scored \cup S
          /\ proc' = [proc EXCEPT !.rank = @ \ S]
    /\ UNCHANGED <<store, processes, runs, sheet, lists, counts>>

RankDone ==
    /\ At("rank") /\ proc.rank = {}
    /\ IF proc.name = "rank" THEN Exit ELSE Goto("reclaim")
    /\ UNCHANGED <<store, processes, runs, scored, sheet, lists, counts>>

-----------------------------------------------------------------------------
(* The run proper.                                                         *)
Reclaim ==
    /\ At("reclaim")
    /\ \E S \in SUBSET Rows : ReclaimStale(S)
    /\ Goto("requeue")
    /\ UNCHANGED <<processes, runs, scored, sheet, lists, counts>>

Requeue ==
    /\ At("requeue")
    /\ RequeueDeferred
    /\ Goto("pool")
    /\ UNCHANGED <<processes, runs, scored, sheet, lists, counts>>

Pool == IF Ranked(proc.mode) THEN scored \cap Preferred ELSE Rows

TakeAnyStatus(r, o) ==  \* mutant: the claim lacks WHERE status = 'pending'
    /\ At("pool") /\ r \in Pool \ Having("absent")
    /\ ClaimBatch({r}, processes)
    /\ proc' = [proc EXCEPT !.at = IF o.routes = {} THEN "decide" ELSE "routes",
                            !.row = r, !.out = o]
    /\ UNCHANGED <<processes, runs, scored, sheet, lists, counts>>

TakeForDecision(r, o) ==  \* mutant: only a profile's routes are persisted
    /\ At("pool") /\ r \in Pool \cap Having("pending")
    /\ ClaimBatch({r}, processes)
    /\ proc' = [proc EXCEPT !.at = IF o.url = NoUrl THEN "decide" ELSE "routes",
                            !.row = r, !.out = o]
    /\ UNCHANGED <<processes, runs, scored, sheet, lists, counts>>

Take(r, o) ==
    /\ At("pool") /\ r \in Pool \cap Having("pending")
    /\ ClaimBatch({r}, processes)
    /\ proc' = [proc EXCEPT !.at = IF o.routes = {} THEN "decide" ELSE "routes",
                            !.row = r, !.out = o]
    /\ UNCHANGED <<processes, runs, scored, sheet, lists, counts>>

PersistRoutes ==
    /\ At("routes")
    /\ AddContactRoutes(proc.row, proc.out.routes)
    /\ Goto("decide")
    /\ UNCHANGED <<processes, runs, scored, sheet, lists, counts>>

(* The last write of a row is followed by progress.record; its counters    *)
(* are what a pilot is measured by.                                        *)
Recorded ==
    [proc EXCEPT !.at = "pool", !.row = NoRow, !.out = NoResult,
         !.worked = @ \cup (IF proc.name = "pilot" THEN {proc.row} ELSE {}),
         !.gained = @ \cup (IF proc.name = "pilot" /\ proc.out.decision = "matched"
                            THEN {proc.row} ELSE {})]

PersistDecision ==
    /\ At("decide")
    /\ IF proc.out.decision = "blank_error" THEN DeferRow(proc.row)
       ELSE WriteResult(proc.row, proc.out)
    /\ proc' = IF proc.out.review THEN [proc EXCEPT !.at = "candidates"] ELSE Recorded
    /\ UNCHANGED <<processes, runs, scored, sheet, lists, counts>>

PersistReview ==
    /\ At("candidates")
    /\ AddReviewCandidates(proc.row)
    /\ proc' = Recorded
    /\ UNCHANGED <<processes, runs, scored, sheet, lists, counts>>

(* Nothing is pending any more, or the limit, the target or a signal.      *)
PoolEnds ==
    /\ At("pool")
    /\ Goto("retract")
    /\ UNCHANGED <<store, processes, runs, scored, sheet, lists, counts>>

Retract ==
    /\ At("retract")
    /\ RetractSharedUrls
    /\ Goto("unresolved")
    /\ UNCHANGED <<processes, runs, scored, sheet, lists, counts>>

Unresolved ==
    /\ At("unresolved")
    /\ RecordUnresolvedResults
    /\ Goto(IF proc.name = "pilot" THEN "measure" ELSE "write")
    /\ UNCHANGED <<processes, runs, scored, sheet, lists, counts>>

(* A pilot prints what its own counters say and writes no file.            *)
Measure ==
    /\ At("measure")
    /\ counts' = [NoCounts EXCEPT !.processed = Cardinality(proc.worked),
                                  !.profiles = Cardinality(proc.gained)]
    /\ Goto("reported")
    /\ UNCHANGED <<store, processes, runs, scored, sheet, lists>>

-----------------------------------------------------------------------------
(* The files.                                                              *)
Erase ==
    /\ At("suppress")
    /\ IF proc.erase = {} THEN Goto("write") /\ UNCHANGED store
       ELSE \E r \in proc.erase :
               /\ Suppress(r)
               /\ proc' = [proc EXCEPT !.erase = @ \ {r}]
    /\ UNCHANGED <<processes, runs, scored, sheet, lists, counts>>

(* _enrichment_cells and the route columns: the profile only of a match,   *)
(* the routes of every row that has any.                                   *)
Line(r) == [profile |-> IF Matched(r) THEN result[r].url ELSE NoUrl, routes |-> routes[r]]

SourceFiles == {FileOf[r] : r \in Rows \ Having("absent")}

(* write_enriched_csv truncates the file and streams its lines.  It may    *)
(* get no further than some of them: the process dies, or the workbook it  *)
(* mirrors is no longer there.                                             *)
WriteFile(f, lines) ==
    LET whole == {r \in Rows : FileOf[r] = f}
        left == proc.files \ {f}
    IN  /\ At("write") /\ f \in proc.files \cap SourceFiles
        /\ lines \subseteq whole
        /\ sheet' = [r \in Rows |-> IF r \notin whole THEN sheet[r]
                                    ELSE IF r \in lines \ Having("absent") THEN Line(r)
                                    ELSE NoLine]
        /\ proc' = IF lines = whole THEN [proc EXCEPT !.files = left] ELSE Down
        /\ UNCHANGED <<store, processes, runs, scored, lists, counts>>

(* write_all is done; suppress stops here.                                 *)
Written ==
    /\ At("write") /\ proc.files \cap SourceFiles = {}
    /\ IF proc.name = "suppress" THEN Exit ELSE Goto("review")
    /\ UNCHANGED <<store, processes, runs, scored, sheet, lists, counts>>

WriteReviewQueue ==
    /\ At("review")
    /\ lists' = [lists EXCEPT !.review = {r \in Rows : review[r] > 0}]
    /\ IF proc.name = "write" THEN Exit
       ELSE Goto(IF proc.mode = "plain" THEN "report" ELSE "bottleneck")
    /\ UNCHANGED <<store, processes, runs, scored, sheet, counts>>

Profiles == {r \in Rows : Matched(r)}
ContactOnly == {r \in Rows : result[r].decision = "contact_route_only" /\ routes[r] # {}}
Processed == {r \in Rows : result[r].decision # "none"}
Smaller(m, n) == IF m < n THEN m ELSE n

(* bottleneck.build.                                                       *)
Bottleneck ==
    /\ At("bottleneck")
    /\ counts' = [profiles |-> Cardinality(Profiles), contactOnly |-> Cardinality(ContactOnly),
                  total |-> Cardinality(Rows \ Having("absent")),
                  processed |-> Cardinality(Processed), matched |-> 0, errors |-> 0]
    /\ Goto("deliver")
    /\ UNCHANGED <<store, processes, runs, scored, sheet, lists>>

Accepted == counts.profiles + counts.contactOnly
Leading(S, n, T) == T \subseteq S /\ Cardinality(T) = Smaller(n, Cardinality(S))

(* The most confident profiles; every row with a way in, confirmed         *)
(* profiles first.                                                         *)
TopMatches(T) == Leading(Profiles, Target, T)
Prospects(P) ==
    /\ Leading(Profiles \cup ContactOnly, Target, P)
    /\ P \subseteq Profiles \/ Profiles \subseteq P

(* The ranked list gets a name that says whether the target is met.        *)
Deliver(T, P) ==
    /\ At("deliver")
    /\ TopMatches(T) /\ Prospects(P)
    /\ lists' = IF Accepted >= Target
                THEN [lists EXCEPT !.top = T, !.prospects = P]
                ELSE [lists EXCEPT !.partial = T, !.prospects = P]
    /\ Goto("report")
    /\ UNCHANGED <<store, processes, runs, scored, sheet, counts>>

(* report.build_report counts decisions, not profiles.                     *)
Decided(d) == {r \in Rows : result[r].decision = d}

Report ==
    /\ At("report")
    /\ counts' = [counts EXCEPT !.processed = Cardinality(Processed),
                                !.total = Cardinality(Rows \ Having("absent")),
                                !.matched = Cardinality(Decided("matched")),
                                !.errors = Cardinality(Decided("blank_error"))]
    /\ Goto("reported")
    /\ UNCHANGED <<store, processes, runs, scored, sheet, lists>>

End ==
    /\ At("reported")
    /\ Exit
    /\ counts' = NoCounts
    /\ UNCHANGED <<store, processes, runs, scored, sheet, lists>>

(* Killed, interrupted, or ended by an exception; a file being written is  *)
(* WriteFile's business.                                                   *)
Crash ==
    /\ proc # Down
    /\ Exit
    /\ counts' = NoCounts
    /\ UNCHANGED <<store, processes, runs, scored, sheet, lists>>

-----------------------------------------------------------------------------
Given ==
    \E name \in Names, mode \in Modes \cup {"plain"}, input \in SUBSET Files,
       erase \in SUBSET Known : Begin(name, mode, input, erase)

Prepare == Gate \/ Retry \/ Ingest \/ IngestDone \/ Ranking \/ Rank \/ RankDone

Enrich ==
    \/ Reclaim \/ Requeue
    \/ \E r \in Rows, o \in Outcome : Take(r, o)
    \/ PersistRoutes \/ PersistDecision \/ PersistReview
    \/ PoolEnds \/ Retract \/ Unresolved \/ Measure

Output ==
    \/ Erase \/ Written \/ WriteReviewQueue \/ Bottleneck \/ Report \/ End
    \/ \E f \in Files, lines \in SUBSET Rows : WriteFile(f, lines)
    \/ \E T, P \in SUBSET Rows : Deliver(T, P)

Next == Given \/ Prepare \/ Enrich \/ Output \/ Crash

Spec == Init /\ [][Next]_vars

-----------------------------------------------------------------------------
(* Whatever the commands do, and wherever they are cut off, the store sees *)
(* nothing but whole transactions of rows that are there: what is proved   *)
(* of the store under any callers holds for main.py (store.py:85).         *)
ImplementsStore == StoreSpec

(* A row erased on request, once it is gone from the profile column, never *)
(* comes back to it, whatever is ingested, retried or rewritten afterwards *)
(* (README.md:863, schema.py:186).                                         *)
ErasedStaysErased ==
    [][\A r \in tombs : sheet[r].profile = NoUrl => sheet'[r].profile = NoUrl]_vars

(* The three places that count matches at the end of a run agree: the      *)
(* profiles in the enriched CSVs, the bottleneck's SQL count of decisions  *)
(* with a URL, the QC report's count of decisions; and the ranked lists    *)
(* hold as many rows as those counts say (main.py:282-313).                *)
CountsAgree ==
    At("reported") /\ proc.name \in {"run", "retry"} =>
        /\ counts.matched = Cardinality({r \in Rows : sheet[r].profile # NoUrl})
        /\ proc.mode # "plain" =>
              LET best == IF Accepted >= Target THEN lists.top ELSE lists.partial
              IN  /\ counts.profiles = counts.matched
                  /\ Cardinality(best) = Smaller(Target, counts.matched)
                  /\ Cardinality(lists.prospects) = Smaller(Target, Accepted)

(* "The requirement is to never emit a wrong profile" (store.py:510): a    *)
(* profile a freshly written line shows, in whatever column, is the one    *)
(* the row is matched with.                                                *)
ProfileWithheld ==
    At("review") =>
        \A r \in Rows : ({sheet[r].profile} \cup sheet[r].routes) \cap Urls
                            \subseteq {result[r].url}
=============================================================================
