------------------------ MODULE WorkerPoolRefinement ------------------------
(***************************************************************************)
(* The worker pool over the row store implements the row ledger.           *)
(***************************************************************************)
EXTENDS WorkerPool

(* The provisional blank_error of a deferred row is not an answer yet.     *)
LedgerPlace == [absent |-> "outside", pending |-> "open", claimed |-> "held",
                deferred |-> "parked", done |-> "settled", skipped |-> "excluded"]

PlaceOf(r) == LedgerPlace[status[r]]

AnswerOf(r) == IF status[r] = "done" THEN result[r] ELSE NoResult

PoolAnswer == [decision : Decision \ {"none"}, url : Urls \cup {NoUrl}]

Ledger == INSTANCE RowLedger WITH
    Answer <- PoolAnswer,
    NoAnswer <- NoResult,
    Withdrawn <- Blank("blank_ambiguous"),
    place <- [r \in Rows |-> PlaceOf(r)],
    answer <- [r \in Rows |-> AnswerOf(r)]

(* Whatever the pool's tasks, releases, crashes and restarts interleave,   *)
(* each row lives by the ledger: one holder, one answer (pool.py:8-11,     *)
(* store.py:266-271).                                                      *)
ImplementsLedger == Ledger!LedgerSpec
=============================================================================
