------------------------ MODULE WorkerPoolInvariant -------------------------
(***************************************************************************)
(* The inductive invariant behind the theorems of WorkerPoolProofs.tla.    *)
(* SingleHolder and NothingLost are not inductive: they do not say which   *)
(* rows _inflight names, where the pool may be in each phase of cmd_run,   *)
(* or why the rows a claim takes are in nobody's hands.                    *)
(***************************************************************************)
EXTENDS WorkerPool

Busy == {w \in Workers : pc[w] \in {"resolve", "routes", "decide", "review",
                                    "failed", "record"}}

(* Before the pool nothing of it exists; after it nothing is at work.      *)
PhaseInv ==
    /\ phase \in {"down", "ingest", "reclaim", "requeue"} =>
          /\ pp = "idle" /\ queue = <<>> /\ inflight = {} /\ todo = {}
          /\ \A w \in Workers : pc[w] = "off" /\ row[w] = NoRow
    /\ phase = "pool" => pp # "idle"
    /\ phase = "abort" =>
          pp = "done" /\ queue = <<>> /\ \A w \in Workers : pc[w] \notin {"get", "resolve"}
    /\ phase \in {"retract", "unresolved", "write"} =>
          pp = "done" /\ queue = <<>> /\ \A w \in Workers : pc[w] \in {"off", "dead"}
    /\ putting # NoRow <=> pp = "put"

(* Whoever works on a row has one, and whoever waits has none.             *)
RowInv ==
    \A w \in Workers :
        /\ pc[w] = "dead" \/ w \in Busy => row[w] \in Rows
        /\ pc[w] = "get" => row[w] = NoRow
        /\ pc[w] \in {"routes", "decide"} => out[w] \in Outcome

(* join() does not return while a row is queued or worked on.              *)
CountInv == Live => unfinished >= Len(queue) + Cardinality(Busy)

Structure == TypeOK /\ PhaseInv /\ RowInv /\ CountInv

(* _inflight names the rows that were dispatched and not given up yet.     *)
InflightInv ==
    phase = "pool" =>
        /\ Queued \subseteq inflight
        /\ putting # NoRow => putting \in inflight
        /\ \A w \in Busy : row[w] \in inflight
        /\ inflight \subseteq Queued \cup {putting} \cup {row[w] : w \in Workers}

(* What is left of a batch is part of it, and what the producer is about   *)
(* to release is in nobody's hands.                                        *)
BatchInv ==
    /\ pp \in {"feed", "put"} => todo \subseteq batch
    /\ pp = "release" =>
          /\ todo \cap Queued = {}
          /\ \A w \in Workers : Working(w) => row[w] \notin todo

(* A claim made now cannot take a row some consumer has or had, and a row  *)
(* whose failure is being recorded is still open.                          *)
StatusInv ==
    /\ phase = "pool" /\ pp # "done" =>
          \A w \in Workers : row[w] # NoRow => status[row[w]] # "pending"
    /\ \A w \in Workers : pc[w] = "failed" => status[row[w]] \in {"claimed", "pending"}

(* No claim is younger than the process.                                   *)
ClockInv == \A r \in Rows : claimedAt[r] <= runs

Claims == InflightInv /\ BatchInv /\ StatusInv /\ ClockInv /\ SingleHolder /\ NothingLost

IInv == Structure /\ Claims /\ BudgetRespected /\ OpenRowsUnanswered

(* The consumers join() waits for: those at work, and those whose failure  *)
(* handler raised, since its row was never reported done.                  *)
Stranded == {w \in Workers : pc[w] = "dead" /\ row[w] \in inflight}
Owing == Busy \cup Stranded

(* What join() waits for is exactly what is queued or owed.                *)
FlowInv ==
    /\ phase \in {"down", "ingest", "reclaim", "requeue"} => unfinished = 0
    /\ phase = "pool" =>
          /\ unfinished = Len(queue) + Cardinality(Owing)
          /\ \A w \in Workers : pc[w] # "off"

(* The pool "exits cleanly" (pool.py:8-11), and so never waits for itself: *)
(* the producer, some consumer or join() can go on, unless every consumer  *)
(* has died of a database error or one has died recording a failure.       *)
NeverStuck ==
    phase = "pool" =>
        \/ pp \in {"top", "claim", "feed", "release"}
        \/ pp = "put" /\ Len(queue) < QueueCap
        \/ queue # <<>> /\ \E w \in Workers : pc[w] = "get"
        \/ Busy # {}
        \/ pp = "done" /\ unfinished = 0
        \/ Stranded # {} \/ \A w \in Workers : pc[w] = "dead"
=============================================================================
