# Verification of the LinkedIn enrichment pipeline

TLA+ models, TLC runs and TLAPS proofs for the program under `src/`: a
command-line pipeline that reads spreadsheets of people, searches public result
pages for each person's LinkedIn profile, scores the candidates, and writes a
workbook, a review queue and reports.  It runs for days over hundreds of
thousands of rows, is killed and resumed, is throttled by the services it
queries, and must neither lose a row nor search a person twice nor publish a
profile it cannot defend.  All of its durable state is one SQLite database.

Paths below are relative to `src/`; `store.py`, `pool.py`, `runner.py` stand for
`linkedin_enrichment/database/store.py`, `.../workers/pool.py`,
`.../workers/runner.py`.

## 1. Inventory

| component | state it keeps | operations | what makes it correct |
|---|---|---|---|
| **Row store** (`database/`) | tables `records` (status, attempts, claimed_at), `results`, `review_candidates`, `contact_routes`, `suppressions`, two company caches, `serp_cache`, `labels`, `run_stats` | one transaction per method: insert, claim, release, reclaim, write_result, defer, requeue, retract, suppress, ... | a done row has its result; an answered row is never reopened; a URL stands on matched rows only |
| **Worker pool** (`workers/pool.py`) | `_queue`, `_inflight`, `_dispatched`, `_shutdown`, `progress` | one producer task, N consumer tasks, shutdown, abort | nothing lost, nothing done twice, the drain ends, limit and target respected |
| **Run and operator commands** (`main.py`) | none but the store and the output files | `run`, `resume`, `pilot`, `retry`, `suppress`, `write`, `rank`, `validate`, `calibrate`, ... | the passes around the pool come in the right order; commands do not undo each other; the counts and the files of one run agree |
| **Ladder runner** (`workers/runner.py`) | none of its own; reads and fills the company caches | company stage, person ladder, corroboration, decision | a failure never becomes a terminal blank; one company is looked up once |
| **Search client, limiter, retry** (`search/`) | `_rate`, `_tokens`, `_updated`; request counters | search through cache, limiter, retry, provider | a failure is not remembered; permits fit the configured rate; a throttle slows it |
| **Providers** (`providers/`) | the set of disabled backends | one search over HTTP | a disabled backend is left alone; an empty response hides no failure |
| **Caches** (`cache/`) | rows of the store with an expiry | get, put | nothing stale or empty-by-failure is served |
| **Query builder, preflight** (`search/`) | none | texts of queries; probe and verdict before a run | a run does not start against a dead service |
| **Identity** (`identity/`) | none (the contact finder has a cache); `calibration.yaml` | score, reject, corroborate, adjudicate, calibrate, company contacts | the decision is monotone in the evidence; the threshold keeps its target precision |
| **Contact routes** (`output/contacts.py`) | none | what a search result contributes; merge, order and cap of a row's routes | no route of one person reaches another; the most direct are kept |
| **Ingest** (`ingest/`) | none | read, normalise, pre-filter | every input row has one row_uid and one verdict |
| **Outputs** (`output/`) | the files | enriched CSVs, review queue, ranked lists, reports, validation summary | what is selected agrees with the store |
| **Configuration, logging, dashboard, `scripts/value_rank.py`** | settings; counters | - | - |

**How they interact.**  `main.py run` opens the store, ingests the input files
(INSERT OR IGNORE), reclaims claims that are too old, requeues deferred rows, runs the
pool, withdraws profiles that won for several people, gives every deferred row a
provisional result and writes the outputs.  `validate` asks the operator about delivered
matches and stores each answer; `calibrate` fits a curve to the answers, which the next
process scores with.  In the pool the producer claims batches
and puts rows into a bounded queue; each consumer calls `resolve_row`, which searches,
and persists what it returns in up to three transactions run in threads.  Tasks share
`_inflight`, the queue and the counters; processes share only the database.

**What is hard.**  Tasks interleave at every `await`; a store call leaves the event
loop.  The process may be killed between any two transactions.  A transaction may fail
(a locked or full disk) in three places of the pool that react differently.  Shutdown,
the limit and the target may arrive while the producer is blocked or inside a batch.
Other processes write to the same rows.  `PROJECT.json` lists each of these hazards at
its line with the property that covers it, or the reason that none does.

## 2. Modules

| module | models | remarks |
|---|---|---|
| `RowStore` | the tables the control flow reads and one action per transaction of `Store` | no control of its own; no time: a cut-off may fall anywhere |
| `StoreCallers` | any number of clients calling any transaction in any order | what the store guarantees by itself |
| `RunCommand` | the commands from the preflight gate to the files: ingestion, ranking, the run's passes, `pilot`, `write`, `suppress`, reports, each cut off anywhere | extends `StoreCallers` and implements it; one row in hand at a time |
| `WorkerPool` | `cmd_run`'s phases, `_produce`, `_consume`, `_persist`, shutdown, abort, kill and restart, operator commands | extends `RowStore`; what `resolve_row` returns is any `Outcome` or an exception |
| `RowLedger` | the promise about one row: outside, open, held, parked, settled, excluded | abstract; no process, queue, budget or clock |
| `WorkerPoolRefinement` | the mapping from `WorkerPool` to `RowLedger` | |
| `SearchClient` | `SearchClient.search` by several callers: response cache, token bucket, retries, the three kinds of provider, rotation and disabling of backends | rates in whole tokens, see below |
| `Ladder` | `resolve_row` by several consumers: roster, contact discovery, person ladder, corroboration, decision, over the shared company, contact and response caches | texts are data: what a rule makes of an item is a constant |
| `Contacts` | what a search result contributes to a row, the company's route list found once and shared, the row's merged list | a page is what the code asks of it |
| `Calibration` | `validate` sitting by sitting, `calibrate` round by round, the curve as it is loaded | matches are delivered and retracted meanwhile |
| `MCRunCommand`, `MCContacts`, `MCCalibration`, `MCWorkerPool`, `MCSearchClient`, `MCLadder` | instances for TLC | |
| `RowStoreProofs`, `RunCommandProofs`, `WorkerPoolInvariant`, `WorkerPoolProofs`, `WorkerPoolClaimProofs`, `SearchClientProofs`, `LadderProofs`, `CalibrationProofs`, `ContactsProofs` | the inductive invariants and the proofs | section 5 |

**State.**  A row of `records` is `status[r]`, `attempts[r]`, `claimedAt[r]`; its
`results` row is `result[r]` (decision and URL, `"none"` if there is no row); the unique
index on `contact_routes` makes `routes[r]` a set; `review[r]` counts batches of review
candidates, capped at two.  `claimed_at` is the number of the process that stamped it: the
code compares stamps with a cut-off only, and `Abandoned` lets the cut-off fall anywhere,
so "reclaimed", "still too young" and everything between occur.  The order in which rows
are claimed and dispatched is data (company key, priority) and hence any order.  `eligible`
is what a run's claims may take: every row, or under `--precision` those with
`preferred = 1`, which any ranking may have left behind.

**Steps.**  A transaction is one step (`Store._tx` commits a method as a whole or rolls
it back).  A consumer's `await asyncio.to_thread(store....)` ends its step, so another
task may run between routes, decision, review candidates and the `finally` clause.  What
happens between two awaits on the loop is one step.  `Crash` may follow any step and
keeps only the store.

**How the modules fit.**  `RunCommand` and `WorkerPool` drive the same transactions of
`RowStore`, one with all that `main.py` does around the pool and a pool that has one row in
hand at a time, the other with all of the pool's tasks; both are shown to be callers of
the store like any other.  `WorkerPool` takes from `resolve_row` any `Outcome` or an
exception; `Ladder` says which of them come about and how, taking from the search client
any response or an error; `SearchClient` says which of those come about and how, taking
from a provider any reply.  Each therefore over-approximates the one below it.

**Search client.**  A rate is a number of tokens per tick, `Cost` tokens make a request, and
a scaled rate is rounded away from the old one, so that it changes whenever the float does;
the rate between its bounds and the tokens are then exact.  Elapsed time is counted from
`_updated` up to the point where it fills the bucket at any rate.  `acquire` holds its lock
over one turn of its loop, which is one step; back-off delays may have any length.  A
`"raising"` provider is a JSON adapter, `"duckduckgo"` raises without a status, and
`"public_search"` returns its failures as responses.  `allowed` and `signals` are
history for the properties.

**Commands.**  `proc` is the running process: the command (`name`, `mode`), the point it has
reached (`at`), and what it still has to do (`unread` input rows, rows to `rank` or
`erase`, `files` to write), besides the row and outcome in hand.  `scored` is the rows
whose `priority` and `preferred` columns a ranking has stored; `sheet[r]` is the row's line
in its enriched CSV (profile column and route columns); `lists` is the ranked lists and the review
queue; `counts` the figures a report is made of, kept from one read of the store to the
next.  The gate asks every backend a question whose answer is known and leaves with an exit
code before the database is opened.  Ingestion and ranking commit batch by batch.
`WriteFile` truncates a file and streams its lines, any number of them if the process dies
or the input workbook is gone.  The ranked lists take any of
the rows that may come first, profiles before contact-only rows.  `Crash`
may follow every step.

**Contacts.**  A page is a record of what the code asks of a search result: the kind of its
URL, the company whose brand its domain carries, the path patterns it fits, whom and what
its text names, the addresses and numbers in it and how they are written.  A sorted list
is given by its order: `Arranged` puts the elements in the order of weight and, among equals,
of place, which is what `list.sort` does.  `cache[c]` is the
company's row of `company_contacts`, `made` the row about to be persisted, with the evidence
it was made of as history.  Two consumers that search the same company at once are the
overwrite in `ResolveSearching`.

**Calibration.**  Scores are small integers, so that ties occur; a probability is a fraction,
and the Wilson bound is compared with the target in integers, which is exact for z = 1.96.
`session` is the running `validate` with the counters it reports from, `summary` what the
operator was last told with what was stored at that moment, `fit` the running `calibrate`
(`TryCut` is one round of the threshold search, `PoolStep` one of the pooling), `curve` the
file.  The rows shown are the most *confident*; confidences come from the curves of different
runs, so any `Sample` of the unlabelled matches may be shown, in any order.  `LoadedKnots` is
`sorted(...)` over the knots of the file by score and then probability: some arrangement of
their positions that ascends.

**Ladder.**  `work[r]` is the local state of `_resolve_row`; `pc` names the await the row is
at.  A stage entered and a search answered from the cache are steps of their own, where
asyncio would go on without a pause, so the model has a few more interleavings than the
code.  `Score[r]` gives the candidates that pass both gates their score; `Matched` applies
the threshold and the margin to them.  `Covers[r]` holds the profiles that show the company
to this row (its own name tokens excluded, as in `roster_covers_company` and in the gate, so
the scored are part of the covering).  `OpenWeb` is the place in the ladder
of the variant whose text is the corroboration query, so that the two share a cache entry.
Tiers and contact routes are enabled, as by default, and stored responses do not expire
(they do in `SearchClient`).

## 3. Runs

| run | question | bounds, and why they suffice | fairness |
|---|---|---|---|
| `run_command` | transactions only; an answered row stays done until it is suppressed, and keeps its routes; the counts of a run agree with its files; what was erased stays out of the profile column | 2 rows of 2 people in 2 workbooks with 1 profile both can win (the smallest set the retraction bites on), 1 backend, a target of 1, so the lists are full or not; 3 commands of which 2 run a pool, plain or precision, so a run, a suppress or retry, and a run or write follow one another, each cut off anywhere | none |
| `contacts` | no route of one person on another's row; a profile only of a confirmed match; the most direct routes kept | 2 people of 1 company; 6 pages, one for each way a route comes about or is refused; rounds of up to 2 results; limits 3 and 2, so both cut | none |
| `calibration` | the summary keeps its word; the cut is the lowest; the blocks are the isotonic regression; the curve is monotone | 4 rows, 3 in a sitting (so one sitting is not enough), 2 scores (ties), target 40 % on at least 2 labels (cuts that clear it and cuts that do not), 3 commands | none |
| `pool_crash` | one holder, budget, no premature answer, nothing left behind, explained and consistent outputs; implementation of the ledger | 3 rows, 2 consumers, batches of 2 (a batch is split between queue, consumers and producer, and a second batch follows), a kill at any step and a second process, each claiming from all rows or from one preferred row | none |
| `pool_bounds` | every pool ends; a tombstone sticks | 3 rows, one filtered at ingestion, a batch that does not fit the queue of 1, so the producer blocks; target 1; failing rows, shutdown at any point; 2 runs and one command: suppress (between runs), or retry or retry --reset at any point; suppress and reset meet in `run_command` only | weak, see below |
| `pool_faults` | what a failed transaction may strand; limit and target; release of the rest of a batch | 5 rows, batch 4, queue 1, limit 4, target 1: the producer is stopped with a full queue, blocked in put, and inside a batch; contact routes to write; one fault at any of the transactions | none |
| `search_raising` | permits within the configured rate; a throttle slows, only success speeds up; every search ends | 2 callers, 2 searches and 2 attempts each; 4 tokens a request, rates 1..4, a burst of 1, sleeps of up to 3 ticks: waiters overlap, rates move while they sleep, and at the lowest rate a sleep is shorter than the wait for a token | weak, see below |
| `search_public` | answers and cache entries explained by the replies; disabled backends spared | 2 callers, 2 queries, 2 backends: one caller disables a backend the other waits for or is about to ask | none |
| `ladder_shared` | a match is unique and corroborated, errors settle nothing, absences are earned, every row is resolved | 2 people of 1 company at once, a ladder of 2 rungs with the corroboration query among them, inconclusive empty pages, failures anywhere, 1 retry; a profile each, two of nearly one name (scores 90 and 85 about a threshold of 88 with a margin of 8), and one that shows the company to only one of them | weak, see below |
| `throttle_public`, `negative_cache`, `profile_withheld` | disagreements between the code and what it says of itself, section 6 | the smallest instance that shows each | none |

`QueueCap` is `2 * workers` in the code and in `pool_crash`; the other two pool runs halve it,
so that one consumer suffices to block the producer.  Every counter that could
grow for ever has a named bound: `MaxRuns`, `MaxFaults`, `MaxCommands` in `WorkerPool`,
`MaxNow` in `StoreCallers`, `MaxProcesses` and `MaxRuns` in `RunCommand`, `ReviewCap` in
`RowStore`, `MaxSearches` and `IdleCap` in `SearchClient`, `MaxPasses` in `Ladder`, `Scores`,
`Sample`, `MaxExtra` and `MaxCommands` in `Calibration`.  `ingest`, `rank` and
`report` as commands of their own are left out of `Names`: their steps are steps of a run too,
and the theorems cover them.  `run_command`, `profile_withheld` and `calibration` do not check deadlock: they stop when the last command has been given; the
search and ladder runs stop when the last search or row is done.  Consumers are
interchangeable, and so are rows of one person: they are declared symmetric only in runs
without liveness properties.

**Fairness.**  `FairSpec` asks for weak fairness of the producer, of each consumer and of
`cmd_run` itself: the event loop runs every ready task, a thread ends, and `resolve_row`
returns because every request has a timeout and a finite retry budget
(`search/retry.py`).  `SearchClient` asks that time passes, sleepers wake and each request
ends (every session has a timeout); that a waiter gets its token is not assumed but shown.
`Ladder` asks that each row's coroutine goes on.  `RunCommand`, `Contacts` and
`Calibration` have safety properties only.  Nothing is assumed of the operator, of faults or of kills.

**What they show.**  The pool's bookkeeping holds: a stop inside a batch releases rows of
that batch that are finishing in other tasks, and `AND status = 'claimed'` in `release` is
what makes that harmless (the mutant that releases the whole batch, held rows too, breaks
`SingleHolder`).  An abort must leave out the rows whose threads
are still writing: `_persist`'s `finally` does that by emptying `_inflight` first.  The
target is overshot by at most the rows already dispatched.  Each property is also run
against a plausible bug in the code it is about (`mutants` in `PROJECT.json`).

## 4. Properties worth reading

- `SingleHolder`, `NothingLost` (WorkerPool): the contract in `pool.py:8-11`.
- `ImplementsLedger`: one holder and one answer per row over any sequence of runs.
- `OpenRowsUnanswered`, `BudgetRespected`: what survives a kill between two transactions.
- `NoWorkLeftBehind`, `OutputExplained`, `NoSharedProfile`: what the passes of `cmd_run`
  owe to each other.  What is left pending is what the run may not claim; a line without a
  decision is one of a row the run did not get, gave back or lost with a consumer that died.
- `NeverReopensAnswered`: a finished row against release, reclaim, requeue, re-ingestion and a
  failure recorded late; `deferred` counts as reopened.
- `ImplementsStore`, `DeliveredHasRoutes`: wherever a command is cut off, the store has seen whole
  transactions, and a row delivered on contact routes has them.
- `CountsAgree`: three reads of the store by one command, after retraction and provisional
  results, and the files written between them.
- `ErasedStaysErased`: a tombstone against re-ingestion, retry and every later command.
- `PersonScopeNamed`, `ProfileRouteVerified`, `DirectestKept`: a list collected for a company and
  merged into rows it was not collected for, under two limits.
- `PromiseKept`: what the operator was told against what is stored, over sittings and kills.
- `CutIsLowest`, `FitIsIsotonic`, `CurveMonotone`: search, pooling and loading against their definitions.
- `PoolTerminates`: `queue.join()` and the full queue.
- `PermitsWithinRate`: no interleaving of waiters credits the same elapsed time twice.
- `AnswerExplained`, `FailureNeverCached`: an empty answer, given or cached, hides no failure.
- `MatchCorroborated`: on every path to a match (roster, rung, a rung after a free match that
  was given up) the second source and the margin were checked.
- `AnswerFounded`, `AbsenceEarned`: a failure is no answer, for a row or for its company.

## 5. Proofs

All theorems hold for every number of rows, consumers, runs, callers, backends, companies and
rungs, pages, workbooks and labels, and every batch, queue and list size.

| theorem | statement | assumes |
|---|---|---|
| `CallersSettled`, `CallersProfiles` | the store's guarantees against any callers | `StoreAssumption` |
| `CallersNeverReopen` | only a failure charged to the row itself takes an answered row from done to anything but skipped | as above |
| `CommandsTyped`, `CommandsImplementStore` | types; every step of every command is a transaction of `StoreSpec` or none | `CommandAssumption` |
| `CommandsSettled`, `CommandsProfiles` | hence the store's guarantees for `main.py` | as above |
| `CommandsNeverReopen` | an answered row is neither reopened nor parked | as above |
| `CommandsDelivered`, `CommandsErase`, `CommandsCountsAgree` | accepted routes are there; the erased stays out; counts and files agree | as above |
| `PoolTyped`, `PoolSettled`, `PoolProfiles` | the store's guarantees in the pool, with faults, kills and other processes | `PoolAssumption` |
| `PoolNoSharedProfile` | the outputs of a run show no profile for two people | as above |
| `PoolIntakeBounded` | the limit is exact, the target overshot by at most what was dispatched | as above |
| `PoolTombstones` | a suppressed row stays skipped and erased | also: no suppress while a pool runs |
| `PoolSingleHolder`, `PoolNothingLost`, `PoolBudget`, `PoolOpenRowsUnanswered` | the pool's contract, with faults and kills | also `Commands = {}`: no other process writes |
| `PoolNeverReopens`, `PoolOutputExplained` | an answered row is neither reopened nor parked; a line without a decision has one of the reasons named | also `Commands = {}`, any faults and kills |
| `PoolNeverStuck` | a running pool can always go on, unless every consumer died of a database error or one died recording a failure | also `Commands = {}`, any faults |
| `PoolNoWorkLeftBehind` | a run that was not stopped leaves nothing pending that its claims may take | also `MaxFaults = 0` |
| `PoolImplementsLedger` | every step of the pool is one of the ledger or none | also `MaxFaults = 0` |
| `ClientTyped`, `ClientAnswers` | types (no query is tried more than `MaxAttempts` times); an answer is what the backends said | `ClientAssumption` |
| `ClientPermits` | the permits given out in any stretch of time fit the configured rate and burst | also `MinRate <= Configured` |
| `ClientDisabled`, `ClientCaches` | a disabled backend is spared; no failure is cached | `ClientAssumption` |
| `ClientThrottles`, `ClientEarns` | a throttle slows the client; only an answer speeds it up | also `MinRate <= Configured`, and a provider that raises its failures (with the status, for the former) |
| `LadderTyped`, `LadderCorroborated`, `LadderFounded`, `LadderAbsence` | types; a match has its margin and its second source; failures settle nothing; an absence is earned | `LadderAssumption` |
| `LadderAdvances` | every step of a row lowers a bounded number of steps left, or opens its next pass | as above |
| `LabelsPromiseKept`, `FitCutIsLowest` | the summary keeps its word; the recommended cut is the lowest that clears the target | `CalibrationAssumption`, `Rows` finite |
| `FitIsotonic`, `CurveRises` | the pooled blocks are the isotonic regression; the loaded curve never falls | as above |
| `FitEnds` | every round of a fit lowers a number that its labels bound | as above |
| `ContactsPersonScopeNamed`, `ContactsProfileVerified` | no route of one person on another's row; a profile only of the row's own confirmed match | `ContactsAssumption` |
| `ContactsDirectestKept` | the two cuts drop nothing more direct than what they keep | as above |

**Argument.**  `RowStoreProofs` shows of each transaction that it keeps the types, keeps a
done row's result and a URL's match, and does not reopen an answered row unless it is a
`defer_row` of that row; `CallersTransact`
and `PoolTransacts` reduce a step of either client to such a transaction or a stutter, so
no client can break those.  That neither client defers an answered row is a matter of who holds it:
`FailureInHand` and `FailureHeld` say that a failure is charged only to a row in hand, and
the invariants below that such a row is not done.

`CommandsTransact` does the same for `RunCommand` and needs `HandInv`: the row in hand is one
the store knows and the outcome one a worker can produce.  The store's guarantees are then inherited
through the refinement.  `HandKept` adds that the row in hand is claimed until its decision is
committed and its routes are stored by then, which gives `DeliveredHasRoutes`, and that a
tombstoned row is skipped with an empty result, which gives `ErasedStaysErased`; the first also gives `NeverReopensAnswered`.  `CountsAgree` rests on
`FilesInv`: from the first file on nothing writes a result, so the lines already written, the
bottleneck's count and the lists stay right until the report is made.

`SingleHolder` and `NothingLost` are not inductive.  That a row in the queue is claimed by
this run survives a release only because what the producer releases is in nobody's hands,
which follows from what `_inflight` names at the moment it stops; that a claim takes nobody's
row needs that no consumer's row is pending while the producer is alive; that `join()` loses
nothing needs that `unfinished` counts at least what is queued or worked on.  `IInv`
(`WorkerPoolInvariant`) adds these: `PhaseInv` (what of the pool exists in which phase),
`RowInv`, `CountInv`, `InflightInv`, `BatchInv`, `StatusInv`, `ClockInv` (no claim is younger
than the process, so a restart begins with no claim of its own).  `Structure` is inductive
alone; the rest needs `Commands = {}`, and rightly so: `suppress` and `retry --reset` take
rows out of a consumer's hands.  `PoolNoWorkLeftBehind` adds `DrainInv`: a producer that is done
and was not stopped saw nothing pending that it may claim, and no consumer makes a row pending; it needs that
nothing is in flight when `join()` returns, or `run()` would release it.  Consistency of the
outputs is a matter of the order of the passes (`EndInv`); that they are explained needs also that a claim
of this run is nobody's but a dead consumer's once the pool has drained (`NothingLost`).  The bound on the overshoot
counts what is queued, blocked and worked on (`IntakeInv`).  `PoolImplementsLedger` follows from `IInv` because a row that
is deferred or decided is then claimed; with faults it is false, since an aborted pool can
defer a row it has just released.

`PermitsWithinRate` follows from the invariant that what the bucket holds, with the elapsed
time credited at the *configured* rate, is at most what is allowed: a slower rate earns less,
a throttle empties the bucket, and the assumption is needed because below the minimum a
throttle would speed the client up.  `AnswerExplained` needs that while backends are asked,
those already passed were clean, are disabled, or have failed this attempt (`ProgressInv`);
`FailureNeverCached` needs the same, and `DisabledIsSpared` that only `public_search`
disables a backend and never waits to ask the first one again (`KindInv`).  `ThrottleSlows` and
`RateIsEarned` need that the rate never falls below the minimum.

The ladder's invariant says of each row what its coroutine has reason to believe at the await
it is at: `Base` (a scored row has an answered rung, an absence is in the company cache),
`Where` (a row that asks for corroboration has a match in hand, one that contacts a company has
fewer errors than queries) and `Settled` (what a decision rests on).  One lemma per stage
(`DecideGood`, `NextRungGood`, ...) shows that the state it hands on is good again.  That other
rows do no harm needs that the caches only grow and that a row alone writes its own queries
(`GoodKept`, `RowMoves`).

`PromiseKept` needs that the counters of a sitting are the counts of the table it writes
(`LabelsInv`: nobody is asked twice), and that the number found by the bound search does clear
the target (`SummaryInv`, by the well-ordering of the naturals).  `CutIsLowest` needs that nobody is
asked while a fit runs, so that the labels it read are still those of the table; that the list
of points counts each row once (a bijection between positions and rows); and that the
search has passed no cut that qualifies (`FitInv`).

`FitIsIsotonic` needs to know what the blocks are while pairs are being pooled (`PoolInv`):
they partition the points in order, each block carries the sum, the count and the last score
of its stretch, and the mean of every beginning of a block is at least the mean of the block
(`Spans`; two blocks are pooled only when the left mean is the larger, so the pooled block
has it too, `LeadsPooled`).  It also needs that a pass that has merged nothing so far has left
no pair out of order behind it (`Settled`), so none is left when such a pass ends (`InOrder`).  Then the
means rise from block to block, so the start of a position's own block is the start
whose means never fall below the block's (`MeanFromStart`), and its end bounds the mean from any
start (`MeanToEnd`): together the max-min.  The proofs work with cross products, the fractions
themselves being out of the provers' arithmetic.  `CurveMonotone` carries the order of the
blocks into the file (`CurveInv`), shows that an ascending rearrangement exists and that any
such rises (`LoadedRise`), and that the segment read and the value interpolated on it rise with
the score (`ReadOnSegment`, `BetweenRises`).

`Contacts` needs lemmas about lists before it needs an invariant: an arranged list holds
each ticket once, lighter ones first (`Places`, `ArrangedList`); the best of a list is made of
the first elements of their keys, and what it drops is dropped for as many others that are at
least as direct (`BestKeeps`, `BestCounts`).  `FoundProper` says what any page can
contribute.  The invariant `RoutesInv` is that a company's stored list is what its recorded results
give, and that the row in hand was made of its own results and of such a list.  A route of
the company's list was collected with `NoRow` for a name, whom no page names, so it cannot be
scoped to a person.  `DirectestKept` applies `BestCounts` to both cuts (`TwiceCut`): if the route
missing was cut from the company's list, the `CompanyLimit` routes kept there are at least as
direct, and each that the merge drops is made up for.

Three theorems are the safety half of termination.  `PoolNeverStuck` rests on `FlowInv`:
what `join()` waits for is exactly what is queued plus what a consumer owes, its row at work or
the row it died with after failing to record a failure (`Stranded`).  That `unfinished` neither
misses nor repeats one needs `OnePlace` and `InflightInv`: nobody else takes such a row
out of `_inflight`.  So when the queue is empty and nobody owes, `join()` returns; when it
is not, a consumer that lives can take from it; and only the two deaths named are left.
`LadderAdvances` orders the stages of a row, and within a stage its queries and whether one
is pending (`StepsLeft`); a pass takes at most `7 * Turns` steps.  `FitEnds` does the same
for the cut search and the pooling (`RoundsLeft`): a merge may send the pooling back and
call for another pass, but leaves a block less.

**Only model-checked.**  The liveness properties `PoolTerminates`, `SearchReturns` and
`RowsResolve`.  For the pool and the ladder the theorems above leave only the step from "can go
on" and "a bounded number of steps" to "eventually"; it needs fairness and ENABLED, for which
the prover has no rule.  Every
invariant and action property that a passing run checks is also stated by a theorem.

## 6. Disagreements found

Three are shown by a run of their own:

| run | the code | what is said of it |
|---|---|---|
| `throttle_public` | a throttled backend is a response with an error: the limiter hears of a success | "backs off on any throttle signal" (`public_search.py:22`) |
| `negative_cache` | the footprint excludes the name of whoever asked first, and stops colleagues whose profiles are on the roster | "a logical consequence of reject rule 1" (`README.md:195`) |
| `profile_withheld` | the profile stays among the row's `contact_routes` when it was retracted, suppressed, or never decided because the process died, and the CSV prints it in its Contact Routes column (`writer.py:111`) | "the requirement is to never emit a wrong profile" (`store.py:510`); "erases a person's enrichment" (`README.md:863`) |

The others were met while modelling.  No run shows them; where a
module covers the place it behaves as the code does:

| the code | what is said of it |
|---|---|
| `write_result` and `defer_row` do not look at `suppressions`: a row suppressed while a consumer holds it comes back with an answer (`suppress_during_run` in `Commands`) | "tombstones the row so a later re-run cannot resurrect it" (`README.md:863`) |
| `retry --reset` takes a row that a running pool holds, if it carries a provisional `blank_error`, and `defer_row` does not look at the status: a second consumer gets the row, one settles it, the other parks it, and the next run does it again (`reset` in `Commands`) | "nothing is done twice" (`pool.py:11`) |
| `main.py write` after a crash writes without the retraction pass: two people may show one profile | "the requirement is to never emit a wrong profile" (`store.py:510`) |
| ranking is skipped once any row has a priority; a crash inside it, or a later ingestion, leaves rows the preferred pool never takes | the guard is for "a fresh database" (`main.py:241`) |
| the bottleneck advises "resume to continue" when the rows left are ones the preferred pool refuses (`bottleneck.py:188`) | "That is not data exhaustion" |
| two consumers take a duplicate and its original at once and both search | "They cost nothing" (`main.py:67`) |
| `delivered_prospects` sorts by confidence and then priority; `best_route_type` is selected and not sorted by | "then by how direct the best contact route is" (`store.py:799`) |
| a mailbox beginning with `ir` passes for a role, so `irfan` does | "rather than an individual" (`contacts.py:225`) |
| precision mode switches corroboration and ranking on over a config file that switches them off | "unless explicitly overridden" (`settings.py:371`) |
| a provisional `blank_error` stays on a requeued row | "nor carry a result while still claimable" (`store.py:269`) |
| `defer_row` raising in the exception handler skips `task_done`, and `join()` waits for ever | "exits cleanly" (`pool.py:8-10`) |
| the duckduckgo adapter raises without a status, so `on_throttle` is not called | "so the adaptive rate limiter backs off" (`http_providers.py:226`) |
| with a configured rate below the minimum, a throttle raises the rate | "halves itself automatically on each throttle" (`README.md:834`) |
| `_updated` stays, so the time before the throttle is credited after it | "Drop any accumulated burst allowance" (`ratelimit.py:66`) |
| one permit pays for a request to each backend | "one request every two seconds" (`public_search.py:22`) |
| with a backend disabled earlier, an empty response is given without having asked it | "All backends answered cleanly" (`public_search.py:547`) |
| one failed contact query and one without routes are saved as a final absence | "never recorded as 'this company publishes nothing'" (`company_contact.py:17`) |
| two rows of a company that start together both search it | "one roster query per COMPANY" (`README.md:187`) |
| an empty HTML page counts as an answered rung and can settle the row | "came back unparseable tells us nothing" (`pool.py:246`) |
| the empty page is cached, so the retry it deferred the row for reads it again | "defers the row for retry instead" (`README.md:335`) |

Not a disagreement, but worth knowing: labels of rows retracted later still feed the fit, the
knots depend on the order in which tied scores are read, and a pilot reports matches that the
retraction takes back; a retraction is not remembered, so a third row that
finds the same profile in a later run is matched.

## 7. Plan

1. *Done:* row store, worker pool with `cmd_run`, ledger, their proofs.
2. *Done:* search client with limiter, retry, rotation and response cache, its proofs.
3. *Done:* ladder with the shared caches, its proofs.
4. *Done:* the commands from gate to files, deliverables and retraction across runs, their proofs.
5. *Done:* contact routes; labels, threshold and isotonic fit against their definitions; their proofs.
6. *Done:* measures that fall with every round of a fit and every stage of a row; the pool
   never waits for itself.  Open: the same for the search client's retries, and a measure for
   the pool's rows over all their attempts.
7. Open: two overlapping pools over one database (a second process started within
   `stale_claim_seconds`, or one that takes over slow claims).

## 8. Not modelled, and why

- Pure functions of text: normalisation, the pre-filter, role keywords, the scorer's features,
  the wording of queries, HTML and JSON parsing.  Their verdicts are constants (`Filtered`,
  `Score`, `Covers`, the fields of a page), so every verdict they might give is allowed for as far
  as an instance lists it, but what text gives which verdict is not shown.
- Commands that only read: `--dry-run`, `--estimate`, `--preflight-only`, `analyze`.
- Layout: columns, labels, the dashboard, logging, the explanations in reports.
- `fit_from_csv` (the algorithm of `fit_from_labels` over other rows), the rounding of knots in
  `calibration.yaml`, `--no-contact-routes`, the cassette provider's replay.
- `mark_status` and `run_stats`, which nothing in the pipeline decides by.
- Wall-clock time, left open as said above.  `scripts/value_rank.py` is an offline one-shot
  over one file.
