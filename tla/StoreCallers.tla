---------------------------- MODULE StoreCallers ----------------------------
(***************************************************************************)
(* What the row store promises to any number of processes: a run, a second *)
(* run beside it, `main.py retry`, `suppress`, `write`.  Each may call any *)
(* transaction at any time, stop between two calls and never come back, so *)
(* what holds here holds whatever the callers do.  RunCommand.tla, which   *)
(* drives the store the way main.py's commands do, implements it.          *)
(***************************************************************************)
EXTENDS RowStore

CONSTANT MaxNow  \* bound: claim times told apart

ASSUME CallersAssumption == MaxNow \in Nat

(* Callers only name rows they have read from the store.                   *)
Known == Rows \ Having("absent")

WorkerCall(r) ==
    \/ \E o \in Outcome : o.decision # "blank_error" /\ WriteResult(r, o)
    \/ \E o \in Outcome : o.routes # {} /\ AddContactRoutes(r, o.routes)
    \/ AddReviewCandidates(r)
    \/ DeferRow(r)
    \/ Suppress(r)

StoreNext ==
    \/ \E S \in SUBSET Rows : InsertRecords(S)
    \/ RecordSkippedResults
    \/ \E S \in SUBSET Rows : ReclaimStale(S)
    \/ \E S \in SUBSET Rows, now \in 1 .. MaxNow :
          S # {} /\ Claimable(S, Cardinality(S), Rows) /\ ClaimBatch(S, now)
    \/ \E S \in SUBSET Known : Release(S)
    \/ \E r \in Known : WorkerCall(r)
    \/ RequeueDeferred
    \/ \E reset \in BOOLEAN : RequeueFailed(reset)
    \/ RecordUnresolvedResults
    \/ RetractSharedUrls

StoreSpec == StoreInit /\ [][StoreNext]_store
=============================================================================
