----------------------------- MODULE WorkerPool -----------------------------
(***************************************************************************)
(* `main.py run` and `resume` over the row store: the phases of cmd_run,   *)
(* and between them the asyncio pool of workers/pool.py -- one producer    *)
(* that claims batches and feeds a bounded queue, Workers consumers that   *)
(* resolve a row and persist it in up to three transactions, a shutdown    *)
(* that drains, and a process that may be killed at any step and started   *)
(* again.  What happens inside resolve_row is left open here: it ends in   *)
(* any Outcome or raises.  Other processes (`main.py suppress`, `retry`)   *)
(* may write to the same store meanwhile when Commands allows them.        *)
(***************************************************************************)
EXTENDS RowStore, Sequences

CONSTANTS
    Workers,      \* the consumer tasks
    QueueCap,     \* maxsize of the queue: settings.workers * 2
    BatchSize,    \* settings.batch_size
    Limit,        \* --limit, or NoLimit
    NoLimit,
    Target,       \* settings.target_matches; 0 when there is none
    ClaimFilters, \* the row sets claim_batch may draw from: Rows, or preferred rows
    Commands,     \* the operator commands other processes may issue
    MaxRuns,      \* bound: how many times the process is started
    MaxFaults,    \* bound: how many database transactions fail
    MaxCommands,  \* bound: how many operator commands are issued
    NoRow

ASSUME PoolAssumption ==
    /\ IsFiniteSet(Workers)
    /\ QueueCap \in Nat \ {0}
    /\ BatchSize \in Nat \ {0}
    /\ Limit \in Nat \cup {NoLimit}
    /\ Target \in Nat
    /\ ClaimFilters \subseteq SUBSET Rows
    /\ Commands \subseteq {"suppress", "suppress_during_run", "retry", "reset"}
    /\ MaxRuns \in Nat /\ MaxFaults \in Nat /\ MaxCommands \in Nat
    /\ NoRow \notin Rows

VARIABLES
    phase,       \* where cmd_run is; "down" when no process is running
    runs,        \* processes started so far; also the clock claimed_at is read from
    unread,      \* input rows ingest() has not inserted yet in this run
    eligible,    \* the rows its claims are drawn from: with --precision preferred = 1
    faults,      \* database failures so far
    commands,    \* operator commands so far
    pp,          \* program point of _produce
    batch,       \* the batch it claimed last
    todo,        \* the part it has not dispatched, or means to release
    putting,     \* the row it is blocked on in queue.put
    dispatched,  \* _dispatched
    inflight,    \* _inflight
    queue,       \* _queue
    unfinished,  \* its count of put items without a task_done
    delivered,   \* progress.delivered
    shutdown,    \* _shutdown
    pc,          \* program point of each consumer
    row,         \* the record it holds
    out          \* the RowOutcome it persists

runVars == <<phase, runs, unread, eligible>>
boundVars == <<faults, commands>>
producerVars == <<pp, batch, todo, putting, dispatched>>
loopVars == <<inflight, queue, unfinished, delivered, shutdown>>
consumerVars == <<pc, row, out>>
vars == <<store, runVars, boundVars, producerVars, loopVars, consumerVars>>

Phase == {"down", "ingest", "reclaim", "requeue", "pool", "abort",
          "retract", "unresolved", "write"}
ProducerPoint == {"idle", "top", "claim", "feed", "put", "release", "done"}
ConsumerPoint == {"off", "get", "resolve", "routes", "decide", "review",
                  "failed", "record", "dead"}

(* A consumer that caught an exception has no outcome to record.           *)
NoOutcome == [decision |-> "none", url |-> NoUrl, routes |-> {}, review |-> FALSE]

TypeOK ==
    /\ StoreTypeOK
    /\ phase \in Phase /\ runs \in 0 .. MaxRuns /\ unread \in SUBSET Rows
    /\ eligible \in SUBSET Rows
    /\ faults \in 0 .. MaxFaults /\ commands \in 0 .. MaxCommands
    /\ pp \in ProducerPoint /\ batch \in SUBSET Rows /\ todo \in SUBSET Rows
    /\ putting \in Rows \cup {NoRow} /\ dispatched \in Nat
    /\ inflight \in SUBSET Rows /\ queue \in Seq(Rows)
    /\ unfinished \in Nat /\ delivered \in Nat /\ shutdown \in BOOLEAN
    /\ pc \in [Workers -> ConsumerPoint]
    /\ row \in [Workers -> Rows \cup {NoRow}]
    /\ out \in [Workers -> Outcome \cup {NoOutcome}]

Init ==
    /\ StoreInit
    /\ phase = "down" /\ runs = 0 /\ unread = {} /\ eligible = {}
    /\ faults = 0 /\ commands = 0
    /\ pp = "idle" /\ batch = {} /\ todo = {} /\ putting = NoRow /\ dispatched = 0
    /\ inflight = {} /\ queue = <<>> /\ unfinished = 0 /\ delivered = 0
    /\ shutdown = FALSE
    /\ pc = [w \in Workers |-> "off"]
    /\ row = [w \in Workers |-> NoRow]
    /\ out = [w \in Workers |-> NoOutcome]

-----------------------------------------------------------------------------
(* cmd_run up to the pool.                                                 *)

(* `run` reads the input files; `resume` needs a database that has rows.   *)
(* Either fixes the settings its claims are made with; the ranking that    *)
(* --precision filters by is over before the pool starts (main.py:243).    *)
Start ==
    /\ phase = "down" /\ runs < MaxRuns
    /\ runs' = runs + 1 /\ eligible' \in ClaimFilters
    /\ \/ phase' = "ingest" /\ unread' = Rows
       \/ phase' = "reclaim" /\ unread' = {} /\ Having("absent") # Rows
    /\ UNCHANGED <<store, boundVars, producerVars, loopVars, consumerVars>>

IngestBatch ==
    /\ phase = "ingest"
    /\ \E S \in SUBSET unread :
          /\ S # {}
          /\ InsertRecords(S)
          /\ unread' = unread \ S
    /\ UNCHANGED <<phase, runs, eligible, boundVars, producerVars, loopVars, consumerVars>>

IngestDone ==
    /\ phase = "ingest" /\ unread = {}
    /\ RecordSkippedResults
    /\ phase' = "reclaim"
    /\ UNCHANGED <<runs, unread, eligible, boundVars, producerVars, loopVars, consumerVars>>

Reclaim ==
    /\ phase = "reclaim"
    /\ \E S \in SUBSET Rows : ReclaimStale(S)
    /\ phase' = "requeue"
    /\ UNCHANGED <<runs, unread, eligible, boundVars, producerVars, loopVars, consumerVars>>

(* Requeue, then WorkerPool.run creates the producer and the consumers.    *)
Requeue ==
    /\ phase = "requeue"
    /\ RequeueDeferred
    /\ phase' = "pool"
    /\ pp' = "top"
    /\ pc' = [w \in Workers |-> "get"]
    /\ UNCHANGED <<runs, unread, eligible, boundVars, batch, todo, putting, dispatched,
                   loopVars, row, out>>

-----------------------------------------------------------------------------
(* The producer.                                                           *)

TargetHit == Target > 0 /\ delivered >= Target
LimitHit == Limit # NoLimit /\ dispatched >= Limit

RequestShutdown ==
    /\ phase = "pool" /\ ~ shutdown
    /\ shutdown' = TRUE
    /\ UNCHANGED <<store, runVars, boundVars, producerVars, consumerVars,
                   inflight, queue, unfinished, delivered>>

ProduceTop ==
    /\ phase = "pool" /\ pp = "top"
    /\ pp' = IF shutdown \/ TargetHit \/ LimitHit THEN "done" ELSE "claim"
    /\ UNCHANGED <<store, runVars, boundVars, batch, todo, putting, dispatched,
                   loopVars, consumerVars>>

(* The size of a batch: batch_size, or what --limit still allows.          *)
Size(S) ==
    \/ Limit = NoLimit /\ Claimable(S, BatchSize, eligible)
    \/ /\ Limit # NoLimit
       /\ Claimable(S, IF Limit - dispatched < BatchSize
                       THEN Limit - dispatched ELSE BatchSize, eligible)

ProduceClaim ==
    /\ phase = "pool" /\ pp = "claim"
    /\ \E S \in SUBSET Having("pending") :
          /\ Size(S)
          /\ ClaimBatch(S, runs)
          /\ batch' = S /\ todo' = S
          /\ pp' = IF S = {} THEN "done" ELSE "feed"
    /\ UNCHANGED <<runVars, boundVars, putting, dispatched, loopVars, consumerVars>>

ProduceFeedUnchecked ==  \* mutant: stop conditions are not looked at inside a batch
    /\ phase = "pool" /\ pp = "feed"
    /\ \E r \in todo :
          /\ inflight' = inflight \cup {r}
          /\ dispatched' = dispatched + 1
          /\ todo' = todo \ {r}
          /\ \/ /\ Len(queue) < QueueCap
                /\ queue' = Append(queue, r) /\ unfinished' = unfinished + 1
                /\ UNCHANGED <<pp, putting>>
             \/ /\ Len(queue) = QueueCap
                /\ pp' = "put" /\ putting' = r
                /\ UNCHANGED <<queue, unfinished>>
    /\ UNCHANGED <<store, runVars, boundVars, batch, delivered, shutdown, consumerVars>>

(* The order of a batch is data: any row of it may come next.              *)
ProduceFeed ==
    /\ phase = "pool" /\ pp = "feed" /\ ~ (shutdown \/ TargetHit \/ LimitHit)
    /\ \E r \in todo :
          /\ inflight' = inflight \cup {r}
          /\ dispatched' = dispatched + 1
          /\ todo' = todo \ {r}
          /\ \/ /\ Len(queue) < QueueCap
                /\ queue' = Append(queue, r) /\ unfinished' = unfinished + 1
                /\ UNCHANGED <<pp, putting>>
             \/ /\ Len(queue) >= QueueCap
                /\ pp' = "put" /\ putting' = r
                /\ UNCHANGED <<queue, unfinished>>
    /\ UNCHANGED <<store, runVars, boundVars, batch, delivered, shutdown, consumerVars>>

ProducePut ==
    /\ phase = "pool" /\ pp = "put" /\ Len(queue) < QueueCap
    /\ queue' = Append(queue, putting) /\ unfinished' = unfinished + 1
    /\ pp' = "feed" /\ putting' = NoRow
    /\ UNCHANGED <<store, runVars, boundVars, batch, todo, dispatched, inflight,
                   delivered, shutdown, consumerVars>>

ProduceSingleBatch ==  \* mutant: the producer ends after its first batch
    /\ phase = "pool" /\ pp = "feed" /\ todo = {}
    /\ pp' = "done"
    /\ UNCHANGED <<store, runVars, boundVars, batch, todo, putting, dispatched,
                   loopVars, consumerVars>>

ProduceBatchDone ==
    /\ phase = "pool" /\ pp = "feed" /\ todo = {}
    /\ pp' = "top"
    /\ UNCHANGED <<store, runVars, boundVars, batch, todo, putting, dispatched,
                   loopVars, consumerVars>>

ProduceStopKeepsClaims ==  \* mutant: stop without giving the rest of the batch back
    /\ phase = "pool" /\ pp = "feed" /\ todo # {}
    /\ shutdown \/ TargetHit \/ LimitHit
    /\ pp' = "done"
    /\ UNCHANGED <<store, runVars, boundVars, batch, todo, putting, dispatched,
                   loopVars, consumerVars>>

ProduceStopReleasesBatch ==  \* mutant: rows in flight are released as well
    /\ phase = "pool" /\ pp = "feed" /\ todo # {}
    /\ shutdown \/ TargetHit \/ LimitHit
    /\ todo' = batch
    /\ pp' = "release"
    /\ UNCHANGED <<store, runVars, boundVars, batch, putting, dispatched, loopVars,
                   consumerVars>>

(* Stopping inside a batch: whatever of it is not in flight is handed to   *)
(* release -- rows of this batch that have finished already among them.    *)
ProduceStop ==
    /\ phase = "pool" /\ pp = "feed" /\ todo # {}
    /\ shutdown \/ TargetHit \/ LimitHit
    /\ todo' = batch \ inflight
    /\ pp' = "release"
    /\ UNCHANGED <<store, runVars, boundVars, batch, putting, dispatched, loopVars,
                   consumerVars>>

ProduceRelease ==
    /\ phase = "pool" /\ pp = "release"
    /\ Release(todo)
    /\ todo' = {} /\ pp' = "done"
    /\ UNCHANGED <<runVars, boundVars, batch, putting, dispatched, loopVars, consumerVars>>

-----------------------------------------------------------------------------
(* The consumers.  A store call runs in a thread: it is a step of its own, *)
(* and so is the continuation on the event loop.                           *)

Live == phase \in {"pool", "abort"}

GetReportsDone(w) ==  \* mutant: the item is reported done when it is taken
    /\ phase = "pool" /\ pc[w] = "get" /\ queue # <<>>
    /\ row' = [row EXCEPT ![w] = Head(queue)]
    /\ queue' = Tail(queue)
    /\ unfinished' = unfinished - 1
    /\ pc' = [pc EXCEPT ![w] = "resolve"]
    /\ UNCHANGED <<store, runVars, boundVars, producerVars, inflight,
                   delivered, shutdown, out>>

Get(w) ==
    /\ phase = "pool" /\ pc[w] = "get" /\ queue # <<>>
    /\ row' = [row EXCEPT ![w] = Head(queue)]
    /\ queue' = Tail(queue)
    /\ pc' = [pc EXCEPT ![w] = "resolve"]
    /\ UNCHANGED <<store, runVars, boundVars, producerVars, inflight, unfinished,
                   delivered, shutdown, out>>

Resolve(w) ==
    /\ phase = "pool" /\ pc[w] = "resolve"
    /\ \E o \in Outcome :
          /\ out' = [out EXCEPT ![w] = o]
          /\ pc' = [pc EXCEPT ![w] = IF o.routes = {} THEN "decide" ELSE "routes"]
    /\ UNCHANGED <<store, runVars, boundVars, producerVars, loopVars, row>>

ResolveRaises(w) ==
    /\ phase = "pool" /\ pc[w] = "resolve"
    /\ pc' = [pc EXCEPT ![w] = "failed"]
    /\ UNCHANGED <<store, runVars, boundVars, producerVars, loopVars, row, out>>

(* The exception handler charges the row an attempt like any other failure.*)
FailRow(w) ==
    /\ Live /\ pc[w] = "failed"
    /\ DeferRow(row[w])
    /\ pc' = [pc EXCEPT ![w] = "record"]
    /\ UNCHANGED <<runVars, boundVars, producerVars, loopVars, row, out>>

PersistRoutes(w) ==
    /\ Live /\ pc[w] = "routes"
    /\ AddContactRoutes(row[w], out[w].routes)
    /\ pc' = [pc EXCEPT ![w] = "decide"]
    /\ UNCHANGED <<runVars, boundVars, producerVars, loopVars, row, out>>

PersistDecision(w) ==
    /\ Live /\ pc[w] = "decide"
    /\ \/ out[w].decision = "blank_error" /\ DeferRow(row[w])
       \/ out[w].decision # "blank_error" /\ WriteResult(row[w], out[w])
    /\ pc' = [pc EXCEPT ![w] = IF out[w].review THEN "review" ELSE "record"]
    /\ UNCHANGED <<runVars, boundVars, producerVars, loopVars, row, out>>

PersistReview(w) ==
    /\ Live /\ pc[w] = "review"
    /\ AddReviewCandidates(row[w])
    /\ pc' = [pc EXCEPT ![w] = "record"]
    /\ UNCHANGED <<runVars, boundVars, producerVars, loopVars, row, out>>

Delivers(o) == o.decision \in {"matched", "contact_route_only"}

RecordWithoutTaskDone(w) ==  \* mutant: the item is not reported done
    /\ phase = "pool" /\ pc[w] = "record"
    /\ delivered' = IF Delivers(out[w]) THEN delivered + 1 ELSE delivered
    /\ inflight' = inflight \ {row[w]}
    /\ pc' = [pc EXCEPT ![w] = "get"]
    /\ row' = [row EXCEPT ![w] = NoRow]
    /\ out' = [out EXCEPT ![w] = NoOutcome]
    /\ UNCHANGED <<store, runVars, boundVars, producerVars, queue, unfinished, shutdown>>

(* Back on the loop: progress.record, then the finally clause.             *)
Record(w) ==
    /\ phase = "pool" /\ pc[w] = "record"
    /\ delivered' = IF Delivers(out[w]) THEN delivered + 1 ELSE delivered
    /\ inflight' = inflight \ {row[w]}
    /\ unfinished' = unfinished - 1
    /\ pc' = [pc EXCEPT ![w] = "get"]
    /\ row' = [row EXCEPT ![w] = NoRow]
    /\ out' = [out EXCEPT ![w] = NoOutcome]
    /\ UNCHANGED <<store, runVars, boundVars, producerVars, queue, shutdown>>

-----------------------------------------------------------------------------
(* Database failures: the transaction rolls back and the method raises.    *)

Faulty == Live /\ faults < MaxFaults /\ faults' = faults + 1

(* _persist raises: finally runs, the consumer task ends, the row stays    *)
(* claimed and is no longer in flight.                                     *)
PersistFault(w) ==
    /\ Faulty /\ pc[w] \in {"routes", "decide", "review"}
    /\ pc' = [pc EXCEPT ![w] = "dead"]
    /\ inflight' = inflight \ {row[w]}
    /\ unfinished' = unfinished - 1
    /\ UNCHANGED <<store, runVars, commands, producerVars, queue, delivered, shutdown,
                   row, out>>

(* defer_row raises inside the handler: no finally clause is left to run.  *)
DeferFault(w) ==
    /\ Faulty /\ pc[w] = "failed"
    /\ pc' = [pc EXCEPT ![w] = "dead"]
    /\ UNCHANGED <<store, runVars, commands, producerVars, loopVars, row, out>>

AbortReleasesAll ==  \* mutant: rows being persisted are still registered as in flight
    /\ Faulty /\ phase = "pool" /\ pp \in {"claim", "release"}
    /\ Release(inflight)
    /\ inflight' = {}
    /\ phase' = "abort" /\ pp' = "done"
    /\ pc' = [w \in Workers |-> IF pc[w] \in {"get", "resolve"} THEN "off" ELSE pc[w]]
    /\ queue' = <<>>
    /\ UNCHANGED <<runs, unread, eligible, commands, batch, todo, putting, dispatched,
                   unfinished, delivered, shutdown, row, out>>

AbortKeepsClaims ==  \* mutant: nothing is released when the producer raises
    /\ Faulty /\ phase = "pool" /\ pp \in {"claim", "release"}
    /\ phase' = "abort" /\ pp' = "done"
    /\ pc' = [w \in Workers |-> IF pc[w] \in {"get", "resolve"} THEN "off" ELSE pc[w]]
    /\ queue' = <<>>
    /\ UNCHANGED <<store, runs, unread, eligible, commands, batch, todo, putting, dispatched,
                   inflight, unfinished, delivered, shutdown, row, out>>

(* claim_batch or release raises: run() passes to its finally clause.      *)
(* Consumers waiting or resolving are cancelled; a store call already in a *)
(* thread still runs to its end, but _persist's row has left inflight.     *)
ProducerFault ==
    /\ Faulty /\ phase = "pool" /\ pp \in {"claim", "release"}
    /\ LET persisting == {row[w] : w \in {v \in Workers :
                              pc[v] \in {"routes", "decide", "review", "record"}}}
       IN  /\ Release(inflight \ persisting)
           /\ inflight' = inflight \ persisting
    /\ phase' = "abort" /\ pp' = "done"
    /\ pc' = [w \in Workers |-> IF pc[w] \in {"get", "resolve"} THEN "off" ELSE pc[w]]
    /\ queue' = <<>>
    /\ UNCHANGED <<runs, unread, eligible, commands, batch, todo, putting, dispatched,
                   unfinished, delivered, shutdown, row, out>>

-----------------------------------------------------------------------------
(* The end of a run, or of the process.                                    *)

(* producer done, queue.join() returns, consumers are cancelled, whatever  *)
(* is still registered as in flight is released.                           *)
Join ==
    /\ phase = "pool" /\ pp = "done" /\ unfinished = 0
    /\ Release(inflight)
    /\ phase' = "retract"
    /\ pc' = [w \in Workers |-> IF pc[w] = "dead" THEN "dead" ELSE "off"]
    /\ UNCHANGED <<runs, unread, eligible, boundVars, producerVars, loopVars, row, out>>

Retract ==
    /\ phase = "retract"
    /\ RetractSharedUrls
    /\ phase' = "unresolved"
    /\ UNCHANGED <<runs, unread, eligible, boundVars, producerVars, loopVars, consumerVars>>

Unresolved ==
    /\ phase = "unresolved"
    /\ RecordUnresolvedResults
    /\ phase' = "write"
    /\ UNCHANGED <<runs, unread, eligible, boundVars, producerVars, loopVars, consumerVars>>

(* Everything but the store dies with the process.                         *)
EndProcess ==
    /\ phase' = "down" /\ unread' = {} /\ eligible' = {}
    /\ pp' = "idle" /\ batch' = {} /\ todo' = {} /\ putting' = NoRow /\ dispatched' = 0
    /\ inflight' = {} /\ queue' = <<>> /\ unfinished' = 0 /\ delivered' = 0
    /\ shutdown' = FALSE
    /\ pc' = [w \in Workers |-> "off"]
    /\ row' = [w \in Workers |-> NoRow]
    /\ out' = [w \in Workers |-> NoOutcome]
    /\ UNCHANGED <<store, runs, boundVars>>

WriteOutputs == phase = "write" /\ EndProcess

(* asyncio.run waits for the threads the abort left behind; the exception  *)
(* then ends the process before the passes that follow the pool.           *)
AbortEnds ==
    /\ phase = "abort"
    /\ \A w \in Workers : pc[w] \in {"off", "dead", "record"}
    /\ EndProcess

Crash == phase # "down" /\ EndProcess

-----------------------------------------------------------------------------
(* Other processes on the same database.                                   *)

SuppressCommand ==
    /\ commands < MaxCommands /\ commands' = commands + 1
    /\ "suppress" \in Commands
    /\ phase # "down" => "suppress_during_run" \in Commands
    /\ \E r \in Rows \ Having("absent") : Suppress(r)
    /\ UNCHANGED <<runVars, faults, producerVars, loopVars, consumerVars>>

(* `retry` and `retry --reset` with --no-run; without it a Start follows.  *)
RetryCommand ==
    /\ commands < MaxCommands /\ commands' = commands + 1
    /\ \/ "retry" \in Commands /\ RequeueFailed(FALSE)
       \/ "reset" \in Commands /\ RequeueFailed(TRUE)
    /\ UNCHANGED <<runVars, faults, producerVars, loopVars, consumerVars>>

-----------------------------------------------------------------------------
ProducerStep ==
    \/ ProduceTop \/ ProduceClaim \/ ProduceFeed \/ ProducePut
    \/ ProduceBatchDone \/ ProduceStop \/ ProduceRelease

ConsumerStep(w) ==
    \/ Get(w) \/ Resolve(w) \/ ResolveRaises(w) \/ FailRow(w) \/ PersistRoutes(w)
    \/ PersistDecision(w) \/ PersistReview(w) \/ Record(w)

RunStep ==
    \/ IngestBatch \/ IngestDone \/ Reclaim \/ Requeue
    \/ Join \/ Retract \/ Unresolved \/ WriteOutputs \/ AbortEnds

Fault == ProducerFault \/ \E w \in Workers : PersistFault(w) \/ DeferFault(w)

(* The only place where nothing is left to do: no process, none to come.   *)
Finished == phase = "down" /\ runs = MaxRuns /\ UNCHANGED vars

Next ==
    \/ Start \/ RunStep
    \/ ProducerStep
    \/ \E w \in Workers : ConsumerStep(w)
    \/ RequestShutdown \/ Fault \/ Crash
    \/ SuppressCommand \/ RetryCommand
    \/ Finished

Spec == Init /\ [][Next]_vars

(* The event loop runs every task that is ready, a thread ends, and        *)
(* resolve_row returns: every request has a timeout and a retry budget.    *)
(* Nothing obliges the operator to start, stop or kill the process.        *)
FairSpec ==
    /\ Spec
    /\ WF_vars(RunStep)
    /\ WF_vars(ProducerStep)
    /\ \A w \in Workers : WF_vars(ConsumerStep(w))

-----------------------------------------------------------------------------
Queued == {queue[i] : i \in 1 .. Len(queue)}

(* An abort takes the claim of a row whose failure is being recorded back  *)
(* before the thread that records it is done.                              *)
Working(w) ==
    \/ pc[w] \in {"resolve", "routes", "decide"}
    \/ pc[w] = "failed" /\ phase = "pool"

(* Rows the process answers for: claimed in this run and not settled.      *)
Undispatched == IF pp \in {"feed", "put"} THEN todo ELSE {}
Held == Undispatched \cup Queued \cup ({putting} \ {NoRow})
        \cup {row[w] : w \in {v \in Workers : Working(v)}}

(* A row is in at most one place: the undispatched part of the batch, a    *)
(* blocked put, one slot of the queue, one consumer.                       *)
OnePlace ==
    /\ \A i, j \in 1 .. Len(queue) : queue[i] = queue[j] => i = j
    /\ \A v, w \in Workers : row[v] = row[w] /\ row[v] # NoRow => v = w
    /\ \A w \in Workers : row[w] \notin Queued \cup Undispatched
    /\ putting # NoRow => putting \notin Queued \cup Undispatched \cup {row[w] : w \in Workers}
    /\ Queued \cap Undispatched = {}

HeldClaimed == \A r \in Held : status[r] = "claimed" /\ claimedAt[r] = runs

(* "Nothing is done twice" (pool.py:11): every row the process holds is in *)
(* one place, and until its decision is committed the store shows it       *)
(* claimed by this run, whatever batches, releases and earlier crashes     *)
(* interleave.                                                             *)
SingleHolder == OnePlace /\ HeldClaimed

(* "Nothing is lost" (pool.py:8-11): while the process lives, and after    *)
(* its pool has drained, a row this run claimed is in somebody's hands;    *)
(* the exceptions are the rows of consumers that died of a database error  *)
(* and a batch whose release raised.                                       *)
NothingLost ==
    phase # "down" =>
        \A r \in Rows : status[r] = "claimed" /\ claimedAt[r] = runs =>
            \/ r \in Held
            \/ r \in todo /\ (pp = "release" \/ phase = "abort")
            \/ \E w \in Workers : pc[w] = "dead" /\ row[w] = r

(* A row still to be worked has attempts left, so every parked row is      *)
(* picked up again (requeue_deferred asks attempts < max_attempts) and no  *)
(* row is charged more often than the budget says.                         *)
BudgetRespected ==
    \A r \in Rows :
        /\ attempts[r] <= MaxAttempts
        /\ status[r] \notin {"done", "skipped"} => attempts[r] < MaxAttempts

(* A row that may still be worked carries no answer but the provisional    *)
(* blank_error: a settled row is never back in the pool with its answer,   *)
(* and an answer is never visible before its row is settled.               *)
OpenRowsUnanswered ==
    \A r \in Rows : status[r] \in {"absent", "pending", "claimed", "deferred"} =>
        result[r].decision \in {"none", "blank_error"}

(* A run nobody stopped leaves no row pending that its claims could have   *)
(* taken when its pool has drained: the producer ends only on an empty     *)
(* claim, the target, the limit or a shutdown (pool.py:152-201).  Under    *)
(* --precision the other rows stay pending, and rightly so.                *)
NoWorkLeftBehind ==
    phase = "retract" /\ ~ shutdown /\ ~ TargetHit /\ ~ LimitHit
        => Having("pending") \cap eligible = {}

(* --limit is never exceeded, and the target by at most the rows already   *)
(* dispatched when it is met: a full queue, one per consumer, one in put.  *)
IntakeBounded ==
    /\ Limit # NoLimit => dispatched <= Limit
    /\ Target > 0 => delivered <= Target + QueueCap + Cardinality(Workers)

(* When the outputs are written, a line without a decision ("not           *)
(* processed") is one of a row no process has finished with: not taken or  *)
(* given back, filtered, left claimed by an earlier process, or stranded   *)
(* by a consumer that died.  Whatever this run settled or parked explains  *)
(* itself (store.py:430-451).                                              *)
OutputExplained ==
    phase = "write" =>
        \A r \in Rows : result[r].decision = "none" =>
            \/ status[r] \in {"absent", "pending", "skipped"}
            \/ status[r] = "claimed" /\ claimedAt[r] < runs
            \/ status[r] = "claimed" /\ \E w \in Workers : pc[w] = "dead" /\ row[w] = r

(* The outputs never show one profile for two people (store.py:506-510).   *)
NoSharedProfile ==
    phase = "write" =>
        \A r, s \in Rows : Matched(r) /\ Matched(s) /\ result[r].url = result[s].url
                               => Person[r] = Person[s]

(* A tombstoned row stays erased from the results, whatever runs follow    *)
(* (README.md:863, schema.py:186).                                         *)
TombstoneSticks ==
    \A r \in tombs : status[r] = "skipped" /\ result[r].decision = "suppressed"

(* Every pool that starts comes to its end: the producer is not left in a  *)
(* full queue nor join() with items nobody reports done.                   *)
PoolTerminates == phase = "pool" ~> phase # "pool"
=============================================================================
