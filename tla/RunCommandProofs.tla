-------------------------- MODULE RunCommandProofs --------------------------
(***************************************************************************)
(* Theorems about the commands of main.py, for any rows, workbooks and     *)
(* backends, any sequence of commands and any crash between two steps.     *)
(* First what the row store guarantees to any number of processes that     *)
(* call its transactions in any order and may stop between two of them     *)
(* (StoreCallers.tla); then that the commands are such callers.            *)
(***************************************************************************)
EXTENDS RunCommand, RowStoreProofs, FiniteSetTheorems

(* What a caller does is one transaction of the store.                     *)
LEMMA CallersTransact == StoreTypeOK /\ StoreNext => Transaction
<1> SUFFICES ASSUME StoreTypeOK, StoreNext PROVE Transaction
  OBVIOUS
<1>2. ASSUME NEW S \in SUBSET Rows, NEW now \in 1 .. MaxNow,
             Claimable(S, Cardinality(S), Rows), ClaimBatch(S, now)
      PROVE  Transaction
  BY <1>2, CallersAssumption DEF Transaction, SetTransaction, Claimable
<1>3. ASSUME NEW S \in SUBSET Known, Release(S) PROVE Transaction
  BY <1>3 DEF Transaction, SetTransaction, Known
<1>4. ASSUME NEW r \in Known, WorkerCall(r) PROVE Transaction
  <2>1. \A o \in Outcome : o.routes \in SUBSET RouteValue
    BY DEF Outcome
  <2>2. RowTransaction(r)
    BY <1>4, <2>1 DEF WorkerCall, RowTransaction
  <2> QED
    BY <2>2 DEF Transaction, Known
<1> QED
  BY <1>2, <1>3, <1>4 DEF StoreNext, Transaction, SetTransaction

(* The columns stay in their ranges.                                       *)
THEOREM CallersTyped == StoreSpec => []StoreTypeOK
<1>1. StoreInit => StoreTypeOK
  BY DEF StoreInit, StoreTypeOK, Status, NoResult, Decision, ReviewCap
<1>2. StoreTypeOK /\ [StoreNext]_store => StoreTypeOK'
  <2>1. StoreTypeOK /\ UNCHANGED store => StoreTypeOK'
    BY DEF StoreTypeOK, store
  <2> QED
    BY <2>1, CallersTransact, StoreTyped
<1> QED
  BY <1>1, <1>2, PTL DEF StoreSpec

(* A row is never done without a decision (store.py:266-305), whatever     *)
(* transactions of whatever callers interleave.                            *)
THEOREM CallersSettled == StoreSpec => []SettledHasResult
<1>1. StoreInit => SettledHasResult
  BY DEF StoreInit, SettledHasResult
<1>2. StoreTypeOK /\ SettledHasResult /\ [StoreNext]_store => SettledHasResult'
  <2>1. SettledHasResult /\ UNCHANGED store => SettledHasResult'
    BY DEF SettledHasResult, store
  <2> QED
    BY <2>1, CallersTransact, StoreSettled
<1> QED
  BY <1>1, <1>2, CallersTyped, PTL DEF StoreSpec

(* A profile URL stands exactly on the matched rows (store.py:361-363,     *)
(* 520-525, 721-723).                                                      *)
THEOREM CallersProfiles == StoreSpec => []ProfileOnlyOnMatch
<1>1. StoreInit => ProfileOnlyOnMatch
  BY DEF StoreInit, ProfileOnlyOnMatch, NoResult
<1>2. StoreTypeOK /\ ProfileOnlyOnMatch /\ [StoreNext]_store => ProfileOnlyOnMatch'
  <2>1. ProfileOnlyOnMatch /\ UNCHANGED store => ProfileOnlyOnMatch'
    BY DEF ProfileOnlyOnMatch, store
  <2> QED
    BY <2>1, CallersTransact, StoreProfiles
<1> QED
  BY <1>1, <1>2, CallersTyped, PTL DEF StoreSpec

(* Of all that callers may do to a row that has its answer, only a failure *)
(* charged to that row takes it from done to anything but skipped: not a   *)
(* release, a reclaim, a requeue or a claim (main.py:508, store.py:237).   *)
(* defer_row does not look at the status (store.py:326).                   *)
THEOREM CallersNeverReopen ==
    StoreSpec => [][\A r \in Rows : Answered(r) =>
                        status'[r] \in {"done", "skipped"} \/ DeferRow(r)]_store
<1> DEFINE Keeps == \A r \in Rows : Answered(r) =>
                        status'[r] \in {"done", "skipped"} \/ DeferRow(r)
<1>1. StoreTypeOK /\ [StoreNext]_store => [Keeps]_store
  BY CallersTransact, StoreNeverReopens
<1> QED
  BY <1>1, CallersTyped, PTL DEF StoreSpec

-----------------------------------------------------------------------------
(* The row and the outcome in hand are ones the store knows and the worker *)
(* can produce, and a claim has a time to be stamped with.                 *)
HandInv ==
    /\ proc # Down => processes \in 1 .. MaxProcesses
    /\ proc.at \in {"routes", "decide", "candidates"} => proc.row \in Known /\ proc.out \in Outcome
    /\ At("routes") => proc.out.routes # {}
    /\ At("suppress") => proc.erase \subseteq Known

(* A row that is in the store stays there.                                 *)
LEMMA RowsStay == StoreTypeOK /\ Transaction => Known \subseteq Known'
<1> SUFFICES ASSUME StoreTypeOK, Transaction PROVE Known \subseteq Known'
  OBVIOUS
<1> USE DEF Known, Having, StoreTypeOK
<1>1. CASE SetTransaction
  <2>1. ASSUME NEW S \in SUBSET Rows, InsertRecords(S) PROVE Known \subseteq Known'
    BY <2>1 DEF InsertRecords
  <2>2. ASSUME NEW S \in SUBSET Rows, ReclaimStale(S) PROVE Known \subseteq Known'
    BY <2>2 DEF ReclaimStale
  <2>3. ASSUME NEW S \in SUBSET Rows, Release(S) PROVE Known \subseteq Known'
    BY <2>3 DEF Release
  <2>4. ASSUME NEW S \in SUBSET Having("pending"), NEW now \in Nat, ClaimBatch(S, now)
        PROVE  Known \subseteq Known'
    BY <2>4 DEF ClaimBatch
  <2>5. CASE RecordSkippedResults \/ RecordUnresolvedResults \/ RetractSharedUrls
    BY <2>5 DEF RecordSkippedResults, RecordUnresolvedResults, RetractSharedUrls
  <2>6. CASE RequeueDeferred
    BY <2>6 DEF RequeueDeferred
  <2>7. ASSUME NEW reset \in BOOLEAN, RequeueFailed(reset) PROVE Known \subseteq Known'
    BY <2>7 DEF RequeueFailed
  <2> QED
    BY <1>1, <2>1, <2>2, <2>3, <2>4, <2>5, <2>6, <2>7 DEF SetTransaction
<1>2. ASSUME NEW r \in Rows, RowTransaction(r) PROVE Known \subseteq Known'
  BY <1>2 DEF RowTransaction, WriteResult, AddContactRoutes, AddReviewCandidates, DeferRow,
              Suppress
<1> QED
  BY <1>1, <1>2 DEF Transaction

-----------------------------------------------------------------------------
(* A step of a command is one transaction of the store or none.            *)
LEMMA CommandsTransact ==
    ASSUME TypeOK, HandInv, Next PROVE StoreNext \/ UNCHANGED store
<1>1. CASE Given \/ Gate \/ Ranking \/ Rank \/ RankDone \/ PoolEnds \/ Measure \/ Crash
  BY <1>1 DEF Given, Begin, Gate, Ranking, Rank, RankDone, PoolEnds, Measure, Crash
<1>2. CASE Retry \/ IngestDone
  BY <1>2 DEF Retry, IngestDone, StoreNext
<1>11. ASSUME NEW S \in SUBSET proc.unread, At("ingest"), InsertRecords(S) PROVE StoreNext
  BY <1>11 DEF TypeOK, Process, Down, At, StoreNext
<1>3. CASE Reclaim \/ Requeue \/ Retract \/ Unresolved
  BY <1>3 DEF Reclaim, Requeue, Retract, Unresolved, StoreNext
<1>4. ASSUME NEW r \in Rows, NEW o \in Outcome, Take(r, o) PROVE StoreNext
  <2>1. r \in Having("pending") /\ ClaimBatch({r}, processes)
    BY <1>4 DEF Take
  <2>2. Claimable({r}, Cardinality({r}), Rows)
    <3>1. Cardinality({r}) = 1
      BY FS_Singleton
    <3> QED
      BY <2>1, <3>1 DEF Claimable
  <2>3. processes \in 1 .. MaxNow
    BY <1>4, CommandAssumption, CallersAssumption DEF Take, TypeOK, HandInv, At, Down
  <2> QED
    BY <2>1, <2>2, <2>3 DEF StoreNext
<1>5. CASE PersistRoutes
  BY <1>5 DEF PersistRoutes, HandInv, At, StoreNext, WorkerCall
<1>6. CASE PersistDecision
  BY <1>6 DEF PersistDecision, HandInv, At, StoreNext, WorkerCall
<1>7. CASE PersistReview
  BY <1>7 DEF PersistReview, HandInv, At, StoreNext, WorkerCall
<1>8. CASE Erase
  BY <1>8 DEF Erase, HandInv, At, StoreNext, WorkerCall
<1>9. CASE Written \/ WriteReviewQueue \/ Bottleneck \/ Report \/ End
  BY <1>9 DEF Written, WriteReviewQueue, Bottleneck, Report, End
<1>10. CASE \/ \E f \in Files, lines \in SUBSET Rows : WriteFile(f, lines)
            \/ \E T, P \in SUBSET Rows : Deliver(T, P)
  BY <1>10 DEF WriteFile, Deliver
<1> QED
  BY <1>1, <1>2, <1>3, <1>4, <1>5, <1>6, <1>7, <1>8, <1>9, <1>10, <1>11
  DEF Next, Prepare, Enrich, Output, Ingest

LEMMA StoreMoves ==
    ASSUME TypeOK, HandInv, [Next]_vars
    PROVE  StoreTypeOK' /\ Known \subseteq Known'
<1>1. CASE UNCHANGED store
  BY <1>1 DEF TypeOK, StoreTypeOK, store, Known, Having
<1>2. CASE StoreNext
  BY <1>2, CallersTransact, StoreTyped, RowsStay DEF TypeOK
<1> QED
  BY <1>1, <1>2, CommandsTransact DEF vars

(* The process a command starts.                                           *)
LEMMA BeginTyped ==
    ASSUME TypeOK, Given
    PROVE  /\ proc' \in Process
           /\ processes' \in 1 .. MaxProcesses /\ runs' \in 0 .. MaxRuns
           /\ UNCHANGED <<store, scored, sheet, lists, counts>>
           /\ proc'.at \notin {"routes", "decide", "candidates"}
           /\ proc'.at = "suppress" => proc'.erase \subseteq Known
           /\ proc'.files = Files
           /\ proc'.at \notin {"measure", "review", "bottleneck", "deliver", "reported"}
           /\ proc'.at = "report" => proc'.name = "report"
<1>1. PICK name \in Names, mode \in Modes \cup {"plain"}, input \in SUBSET Files,
           erase \in SUBSET Known : Begin(name, mode, input, erase)
  BY DEF Given
<1>2. /\ FirstPoint(name, input) \in Point
      /\ FirstPoint(name, input) \notin {"routes", "decide", "candidates"}
      /\ FirstPoint(name, input) \notin
            {"measure", "review", "bottleneck", "deliver", "reported"}
      /\ FirstPoint(name, input) = "report" => name = "report"
  <2>1. name \in {"run", "pilot", "ingest", "rank", "retry", "write", "suppress", "report"}
    BY CommandAssumption
  <2>2. name = "ingest" => input # {}
    BY <1>1 DEF Begin
  <2> QED
    BY <2>1, <2>2 DEF FirstPoint, Point
<1>3. proc' = [at |-> FirstPoint(name, input), name |-> name, mode |-> mode,
               unread |-> {r \in Rows : FileOf[r] \in input}, rank |-> Rows \ Having("absent"),
               row |-> NoRow, out |-> NoResult, erase |-> erase, files |-> Files,
               worked |-> {}, gained |-> {}]
  BY <1>1 DEF Begin
<1>4. proc' \in Process
  BY <1>2, <1>3 DEF Process, Known
<1>5. /\ processes' \in 1 .. MaxProcesses
      /\ runs' \in 0 .. MaxRuns
      /\ UNCHANGED <<store, scored, sheet, lists, counts>>
  BY <1>1, CommandAssumption DEF Begin, TypeOK
<1> QED
  BY <1>2, <1>3, <1>4, <1>5

(* A step that only sends the process on, or ends it.                      *)
Onward ==
    \/ proc' = Down
    \/ /\ proc \in Process
       /\ \E p \in Point \ {"routes", "suppress"} :
             /\ Goto(p)
             /\ p = "decide" => At("routes")
             /\ p = "candidates" => At("decide")

LEMMA OnwardGood ==
    ASSUME TypeOK, HandInv, [Next]_vars, Onward,
           UNCHANGED <<processes, runs, scored, sheet, lists, counts>>
    PROVE  TypeOK' /\ HandInv'
<1>1. StoreTypeOK' /\ Known \subseteq Known'
  BY StoreMoves
<1>2. CASE proc' = Down
  BY <1>1, <1>2 DEF TypeOK, HandInv, Down, At
<1>3. ASSUME proc \in Process, NEW p \in Point \ {"routes", "suppress"}, Goto(p),
             p = "decide" => At("routes"), p = "candidates" => At("decide")
      PROVE  TypeOK' /\ HandInv'
  <2>1. /\ proc' \in Process /\ proc'.at = p /\ proc'.row = proc.row /\ proc'.out = proc.out
    BY <1>3 DEF Goto, Process
  <2>2. proc # Down
    BY <1>3 DEF Process, Down, Point
  <2>3. TypeOK'
    BY <1>1, <2>1 DEF TypeOK
  <2>4. HandInv'
    BY <1>1, <1>3, <2>1, <2>2 DEF HandInv, At
  <2> QED
    BY <2>3, <2>4
<1> QED
  BY <1>2, <1>3 DEF Onward

(* Where the process is somewhere, it is a process.                        *)
LEMMA Somewhere == ASSUME TypeOK, NEW p \in Point, At(p) PROVE proc \in Process
BY DEF TypeOK, At, Down, Point

LEMMA OnwardSteps ==
    ASSUME TypeOK, HandInv, Next,
           \/ Gate \/ Retry \/ Ranking \/ RankDone \/ Reclaim \/ Requeue \/ PersistRoutes
           \/ PoolEnds \/ Retract \/ Unresolved \/ Written
    PROVE  TypeOK' /\ HandInv'
<1> USE DEF Exit
<1>1. CASE Gate
  BY <1>1, OnwardGood, Somewhere DEF Gate, Onward, Point
<1>2. CASE Retry
  BY <1>2, OnwardGood, Somewhere DEF Retry, Onward, Point
<1>3. CASE Ranking
  BY <1>3, OnwardGood, Somewhere DEF Ranking, Onward, Point
<1>4. CASE RankDone
  BY <1>4, OnwardGood, Somewhere DEF RankDone, Onward, Point
<1>5. CASE Reclaim \/ Requeue
  BY <1>5, OnwardGood, Somewhere DEF Reclaim, Requeue, Onward, Point
<1>6. CASE PersistRoutes
  BY <1>6, OnwardGood, Somewhere DEF PersistRoutes, Onward, Point
<1>7. CASE PoolEnds \/ Retract
  BY <1>7, OnwardGood, Somewhere DEF PoolEnds, Retract, Onward, Point
<1>8. CASE Unresolved
  BY <1>8, OnwardGood, Somewhere DEF Unresolved, Onward, Point
<1>9. CASE Written
  BY <1>9, OnwardGood, Somewhere DEF Written, Onward, Point
<1> QED
  BY <1>1, <1>2, <1>3, <1>4, <1>5, <1>6, <1>7, <1>8, <1>9

LEMMA Counted == \A S \in SUBSET Rows : IsFiniteSet(S) /\ Cardinality(S) \in Nat
BY CommandAssumption, FS_Subset, FS_CardinalityType

LEMMA PrepareSteps ==
    ASSUME TypeOK, HandInv, Next, Ingest \/ IngestDone \/ Rank PROVE TypeOK' /\ HandInv'
<1>1. StoreTypeOK' /\ Known \subseteq Known'
  BY StoreMoves
<1>2. proc \in Process
  BY Somewhere DEF Ingest, IngestDone, Rank, Point
<1>3. /\ proc' \in Process \cup {Down}
      /\ proc'.at \notin {"routes", "decide", "candidates", "suppress"}
  <2>1. ASSUME NEW S \in SUBSET proc.unread, At("ingest"),
               proc' = [proc EXCEPT !.unread = @ \ S]
        PROVE  proc' \in Process /\ proc'.at = "ingest"
    BY <1>2, <2>1 DEF Process, At
  <2>2. ASSUME IngestDone PROVE <1>3!1 /\ <1>3!2
    <3>1. CASE proc.name = "ingest"
      BY <2>2, <3>1 DEF IngestDone, Down
    <3>2. CASE proc.name # "ingest"
      <4>1. PICK p \in {"rank", "ranking"} :
               proc' = [proc EXCEPT !.at = p, !.rank = Rows \ Having("absent")]
        BY <2>2, <3>2 DEF IngestDone
      <4> QED
        BY <1>2, <4>1 DEF Process, Point
    <3> QED
      BY <3>1, <3>2
  <2>3. ASSUME NEW S \in SUBSET proc.rank, At("rank"), proc' = [proc EXCEPT !.rank = @ \ S]
        PROVE  proc' \in Process /\ proc'.at = "rank"
    BY <1>2, <2>3 DEF Process, At
  <2> QED
    BY <2>1, <2>2, <2>3 DEF Ingest, Rank
<1>4. proc # Down
  BY <1>2 DEF Process, Down, Point
<1>5. scored' \in SUBSET Rows /\ UNCHANGED <<processes, runs, sheet, lists, counts>>
  BY <1>2 DEF TypeOK, Ingest, IngestDone, Rank, Process
<1> QED
  BY <1>1, <1>3, <1>4, <1>5 DEF TypeOK, HandInv, At

LEMMA HandSteps ==
    ASSUME TypeOK, HandInv, Next,
           (\E r \in Rows, o \in Outcome : Take(r, o)) \/ PersistDecision \/ PersistReview
    PROVE  TypeOK' /\ HandInv'
<1>1. StoreTypeOK' /\ Known \subseteq Known'
  BY StoreMoves
<1>2. proc \in Process
  BY Somewhere DEF Take, PersistDecision, PersistReview, Point
<1>3. proc # Down
  BY <1>2 DEF Process, Down, Point
<1>4. UNCHANGED <<processes, runs, scored, sheet, lists, counts>>
  BY DEF Take, PersistDecision, PersistReview
<1>5. SUFFICES /\ proc' \in Process
               /\ proc'.at \in {"routes", "decide", "candidates"}
                     => proc'.row \in Known /\ proc'.out \in Outcome
               /\ proc'.at = "routes" => proc'.out.routes # {}
               /\ proc'.at # "suppress"
  BY <1>1, <1>3, <1>4 DEF TypeOK, HandInv, At
<1>6. ASSUME NEW r \in Rows, NEW o \in Outcome, Take(r, o) PROVE <1>5!1
  <2>1. r \in Known
    BY <1>6 DEF Take, Having, Known
  <2>2. proc' = [proc EXCEPT !.at = IF o.routes = {} THEN "decide" ELSE "routes",
                             !.row = r, !.out = o]
    BY <1>6 DEF Take
  <2> QED
    BY <1>2, <2>1, <2>2 DEF Process, Point
<1>7. ASSUME proc' = Recorded, proc.row \in Known PROVE <1>5!1
  <2>1. PICK W \in SUBSET Rows, G \in SUBSET Rows :
           proc' = [proc EXCEPT !.at = "pool", !.row = NoRow, !.out = NoResult,
                                !.worked = W, !.gained = G]
    <3> DEFINE worked == proc.worked \cup (IF proc.name = "pilot" THEN {proc.row} ELSE {})
               gained == proc.gained \cup (IF proc.name = "pilot"
                                               /\ proc.out.decision = "matched"
                                            THEN {proc.row} ELSE {})
    <3>1. worked \in SUBSET Rows /\ gained \in SUBSET Rows
      BY <1>2, <1>7 DEF Process, Known
    <3> QED
      BY <1>7, <3>1 DEF Recorded
  <2>2. proc'.at = "pool" /\ proc' \in Process
    BY <1>2, <2>1 DEF Process, Point
  <2> QED
    BY <2>2
<1>8. CASE PersistDecision
  <2>1. CASE proc.out.review
    <3>1. proc' = [proc EXCEPT !.at = "candidates"] /\ At("decide")
      BY <1>8, <2>1 DEF PersistDecision
    <3> QED
      BY <1>2, <3>1 DEF Process, Point, HandInv, At
  <2>2. CASE ~ proc.out.review
    BY <1>7, <1>8, <2>2 DEF PersistDecision, HandInv, At
  <2> QED
    BY <2>1, <2>2
<1> QED
  BY <1>6, <1>7, <1>8 DEF PersistReview, HandInv, At

(* A finished file sends the process on; the figures are natural numbers.  *)
LEMMA FileSteps ==
    ASSUME TypeOK, HandInv, Next,
           \/ Erase \/ \E f \in Files, lines \in SUBSET Rows : WriteFile(f, lines)
    PROVE  TypeOK' /\ HandInv'
<1>1. StoreTypeOK' /\ Known \subseteq Known'
  BY StoreMoves
<1>2. proc \in Process /\ proc # Down
  BY Somewhere DEF Erase, WriteFile, Process, Down, Point
<1>3. CASE Erase
  <2>1. CASE proc.erase = {}
    <3>1. Goto("write") /\ UNCHANGED <<processes, runs, scored, sheet, lists, counts>>
      BY <1>3, <2>1 DEF Erase
    <3> QED
      BY <1>2, <3>1, OnwardGood DEF Onward, Point
  <2>2. ASSUME NEW r \in proc.erase, proc' = [proc EXCEPT !.erase = @ \ {r}], At("suppress")
        PROVE  TypeOK' /\ HandInv'
    <3>1. proc' \in Process /\ proc'.at = "suppress" /\ proc'.erase \subseteq proc.erase
      BY <1>2, <2>2 DEF Process, At
    <3>2. UNCHANGED <<processes, runs, scored, sheet, lists, counts>>
      BY <1>3 DEF Erase
    <3> QED
      BY <1>1, <1>2, <2>2, <3>1, <3>2 DEF TypeOK, HandInv, At
  <2> QED
    BY <1>3, <2>1, <2>2 DEF Erase
<1>4. ASSUME NEW f \in Files, NEW lines \in SUBSET Rows, WriteFile(f, lines)
      PROVE  TypeOK' /\ HandInv'
  <2>1. proc' \in Process \cup {Down} /\ proc'.at \in {"write", "down"}
    <3>1. CASE proc' = Down
      BY <3>1 DEF Down
    <3>2. CASE proc' = [proc EXCEPT !.files = proc.files \ {f}]
      BY <1>2, <1>4, <3>2 DEF WriteFile, At, Process
    <3> QED
      BY <1>4, <3>1, <3>2 DEF WriteFile
  <2>2. sheet' \in [Rows -> [profile : Urls \cup {NoUrl}, routes : SUBSET RouteValue]]
    <3>1. \A r \in Rows : Line(r) \in [profile : Urls \cup {NoUrl}, routes : SUBSET RouteValue]
      BY DEF TypeOK, StoreTypeOK, Line
    <3>2. NoLine \in [profile : Urls \cup {NoUrl}, routes : SUBSET RouteValue]
      BY DEF NoLine
    <3> QED
      BY <1>4, <3>1, <3>2 DEF WriteFile, TypeOK
  <2>3. UNCHANGED <<processes, runs, scored, lists, counts>>
    BY <1>4 DEF WriteFile
  <2> QED
    BY <1>1, <1>2, <2>1, <2>2, <2>3 DEF TypeOK, HandInv, At
<1> QED
  BY <1>3, <1>4

LEMMA FigureSteps ==
    ASSUME TypeOK, HandInv, Next,
           \/ Measure \/ WriteReviewQueue \/ Bottleneck \/ Report \/ End \/ Crash
           \/ \E T, P \in SUBSET Rows : Deliver(T, P)
    PROVE  TypeOK' /\ HandInv'
<1>1. StoreTypeOK' /\ Known \subseteq Known'
  BY StoreMoves
<1>2. proc # Down
  <2>1. ASSUME NEW p \in Point, At(p) PROVE proc # Down
    BY <2>1 DEF At, Down, Point
  <2>2. {"measure", "review", "bottleneck", "report", "reported", "deliver"} \subseteq Point
    BY DEF Point
  <2> QED
    BY <2>1, <2>2 DEF Measure, WriteReviewQueue, Bottleneck, Report, End, Crash, Deliver
<1>3. proc \in Process
  BY <1>2 DEF TypeOK
<1>4. /\ proc' \in Process \cup {Down}
      /\ proc'.at \notin {"routes", "decide", "candidates", "suppress"}
  <2>1. ASSUME proc' = Down PROVE <1>4!1 /\ <1>4!2
    BY <2>1 DEF Down
  <2>2. ASSUME NEW p \in {"reported", "report", "bottleneck", "deliver"}, Goto(p)
        PROVE  <1>4!1 /\ <1>4!2
    BY <1>3, <2>2 DEF Goto, Process, Point
  <2> QED
    BY <2>1, <2>2 DEF Measure, WriteReviewQueue, Bottleneck, Report, End, Crash, Deliver, Exit
<1>5. UNCHANGED <<processes, runs, scored, sheet>>
  BY DEF Measure, WriteReviewQueue, Bottleneck, Report, End, Crash, Deliver
<1>6. lists' \in [top : Listing, partial : Listing, prospects : Listing, review : Listing]
  <2>1. CASE WriteReviewQueue
    BY <2>1 DEF WriteReviewQueue, TypeOK, Listing
  <2>2. ASSUME NEW T \in SUBSET Rows, NEW P \in SUBSET Rows, Deliver(T, P) PROVE <1>6
    BY <2>2 DEF Deliver, TypeOK, Listing
  <2>3. CASE UNCHANGED lists
    BY <2>3 DEF TypeOK
  <2> QED
    BY <2>1, <2>2, <2>3 DEF Measure, Bottleneck, Report, End, Crash
<1>7. counts' \in [profiles : Nat, contactOnly : Nat, total : Nat, processed : Nat,
                   matched : Nat, errors : Nat]
  <2>1. CASE Measure
    <3>1. Cardinality(proc.worked) \in Nat /\ Cardinality(proc.gained) \in Nat
      BY <1>3, Counted DEF Process
    <3> QED
      BY <2>1, <3>1 DEF Measure, NoCounts
  <2>2. CASE Bottleneck \/ Report
    <3>1. /\ Profiles \in SUBSET Rows /\ ContactOnly \in SUBSET Rows
          /\ Processed \in SUBSET Rows /\ Rows \ Having("absent") \in SUBSET Rows
          /\ Decided("matched") \in SUBSET Rows /\ Decided("blank_error") \in SUBSET Rows
      BY DEF Profiles, ContactOnly, Processed, Decided
    <3>2. /\ Cardinality(Profiles) \in Nat /\ Cardinality(ContactOnly) \in Nat
          /\ Cardinality(Processed) \in Nat /\ Cardinality(Rows \ Having("absent")) \in Nat
          /\ Cardinality(Decided("matched")) \in Nat
          /\ Cardinality(Decided("blank_error")) \in Nat
      BY <3>1, Counted
    <3>3. CASE Bottleneck
      BY <3>2, <3>3 DEF Bottleneck
    <3>4. CASE Report
      BY <3>2, <3>4 DEF Report, TypeOK
    <3> QED
      BY <2>2, <3>3, <3>4
  <2>3. CASE counts' = NoCounts \/ UNCHANGED counts
    BY <2>3 DEF TypeOK, NoCounts
  <2> QED
    BY <2>1, <2>2, <2>3 DEF WriteReviewQueue, End, Crash, Deliver
<1> QED
  BY <1>1, <1>2, <1>4, <1>5, <1>6, <1>7 DEF TypeOK, HandInv, At

LEMMA HandNext == TypeOK /\ HandInv /\ [Next]_vars => TypeOK' /\ HandInv'
<1> SUFFICES ASSUME TypeOK, HandInv, [Next]_vars PROVE TypeOK' /\ HandInv'
  OBVIOUS
<1>1. CASE UNCHANGED vars
  <2>1. StoreTypeOK' /\ Known \subseteq Known'
    BY StoreMoves
  <2> QED
    BY <1>1, <2>1 DEF vars, TypeOK, HandInv, At
<1>2. CASE Next /\ Given
  <2>1. StoreTypeOK' /\ Known \subseteq Known'
    BY StoreMoves
  <2>2. /\ proc' \in Process /\ processes' \in 1 .. MaxProcesses /\ runs' \in 0 .. MaxRuns
        /\ UNCHANGED <<scored, sheet, lists, counts>>
        /\ proc'.at \notin {"routes", "decide", "candidates"}
        /\ proc'.at = "suppress" => proc'.erase \subseteq Known
    BY <1>2, BeginTyped
  <2>3. TypeOK'
    BY <2>1, <2>2, CommandAssumption DEF TypeOK
  <2>4. HandInv'
    BY <2>1, <2>2 DEF HandInv, At
  <2> QED
    BY <2>3, <2>4
<1>3. CASE Next /\ ~ Given
  BY <1>3, OnwardSteps, PrepareSteps, HandSteps, FileSteps, FigureSteps
  DEF Next, Prepare, Enrich, Output
<1> QED
  BY <1>1, <1>2, <1>3

LEMMA HandInit == Init => TypeOK /\ HandInv
<1> SUFFICES ASSUME Init PROVE TypeOK /\ HandInv
  OBVIOUS
<1>1. StoreTypeOK
  BY DEF Init, StoreInit, StoreTypeOK, Status, NoResult, Decision, ReviewCap
<1>2. /\ lists \in [top : Listing, partial : Listing, prospects : Listing, review : Listing]
      /\ counts \in [profiles : Nat, contactOnly : Nat, total : Nat, processed : Nat,
                     matched : Nat, errors : Nat]
  BY DEF Init, NoFile, Listing, NoCounts
<1> QED
  BY <1>1, <1>2, CommandAssumption DEF Init, TypeOK, HandInv, Down, At, NoLine

(* The variables stay in their ranges.                                     *)
THEOREM CommandsTyped == Spec => [](TypeOK /\ HandInv)
BY HandInit, HandNext, PTL DEF Spec

-----------------------------------------------------------------------------
(* Every command, cut off anywhere, uses the store by whole transactions   *)
(* on rows that are there (store.py:85).                                   *)
THEOREM CommandsImplementStore == Spec => ImplementsStore
<1>1. Init => StoreInit
  BY DEF Init
<1>2. TypeOK /\ HandInv /\ [Next]_vars => [StoreNext]_store
  BY CommandsTransact DEF vars
<1> QED
  BY <1>1, <1>2, CommandsTyped, PTL DEF Spec, StoreSpec, ImplementsStore

(* So a row is never done without a decision, ...                          *)
THEOREM CommandsSettled == Spec => []SettledHasResult
BY CommandsImplementStore, CallersSettled, PTL DEF ImplementsStore

(* ... and a profile stands exactly on the matched rows.                   *)
THEOREM CommandsProfiles == Spec => []ProfileOnlyOnMatch
BY CommandsImplementStore, CallersProfiles, PTL DEF ImplementsStore

-----------------------------------------------------------------------------
(* What the rows keep: an accepted route is there, an erased row is out of *)
(* work, a row that was never ingested has no result.                      *)
RowsKept ==
    /\ DeliveredHasRoutes
    /\ \A r \in tombs : status[r] = "skipped" /\ result[r] = Blank("suppressed")
    /\ \A r \in Rows : status[r] = "absent" => result[r] = NoResult

LEMMA SetKeeps ==
    ASSUME StoreTypeOK, RowsKept, SetTransaction PROVE RowsKept'
<1> USE DEF RowsKept, StoreTypeOK, DeliveredHasRoutes
<1>1. ASSUME NEW S \in SUBSET Rows, InsertRecords(S) PROVE RowsKept'
  BY <1>1 DEF InsertRecords
<1>2. ASSUME NEW S \in SUBSET Rows, ReclaimStale(S) PROVE RowsKept'
  BY <1>2 DEF ReclaimStale, Abandoned, Having
<1>3. ASSUME NEW S \in SUBSET Rows, Release(S) PROVE RowsKept'
  BY <1>3 DEF Release, Having
<1>4. ASSUME NEW S \in SUBSET Having("pending"), NEW now \in Nat, ClaimBatch(S, now)
      PROVE  RowsKept'
  BY <1>4 DEF ClaimBatch, Having
<1>5. CASE RecordSkippedResults
  BY <1>5 DEF RecordSkippedResults, Blank, NoResult
<1>6. CASE RequeueDeferred
  BY <1>6 DEF RequeueDeferred, Having
<1>7. CASE RecordUnresolvedResults
  BY <1>7 DEF RecordUnresolvedResults, Blank, NoResult
<1>8. CASE RetractSharedUrls
  BY <1>8 DEF RetractSharedUrls, Matched, Blank, NoResult
<1>9. ASSUME NEW reset \in BOOLEAN, RequeueFailed(reset) PROVE RowsKept'
  BY <1>9 DEF RequeueFailed, Having, Blank, NoResult
<1> QED
  BY <1>1, <1>2, <1>3, <1>4, <1>5, <1>6, <1>7, <1>8, <1>9 DEF SetTransaction

LEMMA RowKeeps ==
    ASSUME StoreTypeOK, RowsKept, NEW r \in Known
    PROVE  /\ \A R \in SUBSET RouteValue : AddContactRoutes(r, R) => RowsKept'
           /\ AddReviewCandidates(r) \/ Suppress(r) => RowsKept'
           /\ status[r] = "claimed" /\ DeferRow(r) => RowsKept'
           /\ \A o \in Outcome : status[r] = "claimed" /\ o.routes \subseteq routes[r]
                                 /\ WriteResult(r, o) => RowsKept'
<1> USE DEF RowsKept, StoreTypeOK, DeliveredHasRoutes, Known, Having
<1>1. \A R \in SUBSET RouteValue : AddContactRoutes(r, R) => RowsKept'
  BY DEF AddContactRoutes
<1>2. AddReviewCandidates(r) \/ Suppress(r) => RowsKept'
  <2>1. CASE AddReviewCandidates(r)
    BY <2>1 DEF AddReviewCandidates
  <2>2. CASE Suppress(r)
    <3>1. Blank("suppressed").decision # "contact_route_only"
      BY DEF Blank
    <3>2. /\ result' = [result EXCEPT ![r] = Blank("suppressed")]
          /\ status' = [status EXCEPT ![r] = "skipped"]
          /\ tombs' = tombs \cup {r} /\ routes' = routes
      BY <2>2 DEF Suppress
    <3> QED
      BY <3>1, <3>2
  <2> QED
    BY <2>1, <2>2
<1>3. ASSUME status[r] = "claimed", DeferRow(r) PROVE RowsKept'
  <2>1. r \notin tombs /\ tombs' = tombs /\ routes' = routes
    BY <1>3 DEF DeferRow
  <2>2. CASE attempts[r] + 1 < MaxAttempts
    BY <1>3, <2>1, <2>2 DEF DeferRow
  <2>3. CASE ~ (attempts[r] + 1 < MaxAttempts)
    <3>1. /\ status' = [status EXCEPT ![r] = "done"]
          /\ result' = [result EXCEPT ![r] = Blank("blank_error")]
      BY <1>3, <2>3 DEF DeferRow
    <3>2. Blank("blank_error").decision # "contact_route_only"
      BY DEF Blank
    <3> QED
      BY <2>1, <3>1, <3>2
  <2> QED
    BY <2>2, <2>3
<1>4. ASSUME NEW o \in Outcome, status[r] = "claimed", o.routes \subseteq routes[r],
             WriteResult(r, o)
      PROVE  RowsKept'
  <2>1. o.decision = "contact_route_only" => o.routes # {}
    BY DEF Outcome
  <2> QED
    BY <1>4, <2>1 DEF WriteResult
<1> QED
  BY <1>1, <1>2, <1>3, <1>4

(* The row in hand is claimed until its decision is committed, and its     *)
(* routes are in the store before that.                                    *)
HandKept ==
    /\ RowsKept
    /\ proc.at \in {"routes", "decide"} => status[proc.row] = "claimed"
    /\ At("decide") => proc.out.routes \subseteq routes[proc.row]

LEMMA Sent == ASSUME proc \in Process, NEW p, Goto(p) PROVE proc'.at = p
BY DEF Goto, Process

LEMMA HandKeeps == TypeOK /\ HandInv /\ HandKept /\ [Next]_vars => HandKept'
<1> SUFFICES ASSUME TypeOK, HandInv, HandKept, [Next]_vars PROVE HandKept'
  OBVIOUS
<1>1. StoreTypeOK /\ RowsKept
  BY DEF TypeOK, HandKept
<1>2. ASSUME UNCHANGED store PROVE RowsKept'
  BY <1>1, <1>2 DEF RowsKept, DeliveredHasRoutes, store
<1>3. ASSUME proc'.at \notin {"routes", "decide"}, RowsKept' PROVE HandKept'
  BY <1>3 DEF HandKept, At
<1>4. CASE UNCHANGED vars
  BY <1>1, <1>2, <1>4 DEF HandKept, At, vars, store
<1>5. CASE Given
  BY <1>2, <1>3, <1>5, BeginTyped
<1>6. ASSUME NEW r \in Rows, NEW o \in Outcome, Take(r, o) PROVE HandKept'
  <2>1. r \in Having("pending") /\ ClaimBatch({r}, processes) /\ processes \in Nat
    BY <1>6 DEF Take, TypeOK
  <2>2. RowsKept'
    BY <1>1, <2>1, SetKeeps DEF SetTransaction
  <2>3. status'[r] = "claimed" /\ routes' = routes /\ routes[r] \in SUBSET RouteValue
    BY <1>1, <2>1 DEF ClaimBatch, StoreTypeOK
  <2>4. proc \in Process
    BY <1>6, Somewhere DEF Take, Point
  <2>5. /\ proc'.row = r /\ proc'.out = o
        /\ proc'.at = IF o.routes = {} THEN "decide" ELSE "routes"
    BY <1>6, <2>4 DEF Take, Process
  <2> QED
    BY <2>2, <2>3, <2>5 DEF HandKept, At
<1>7. CASE PersistRoutes
  <2>1. /\ proc \in Process /\ proc.row \in Known /\ proc.row \in Rows
        /\ proc.out.routes \in SUBSET RouteValue
    BY <1>7, Somewhere DEF PersistRoutes, HandInv, At, Point, Known, Outcome
  <2>2. AddContactRoutes(proc.row, proc.out.routes) /\ Goto("decide") /\ At("routes")
    BY <1>7 DEF PersistRoutes
  <2>3. RowsKept'
    BY <1>1, <2>1, <2>2, RowKeeps
  <2>4. proc'.row = proc.row /\ proc'.out = proc.out
    BY <2>1, <2>2 DEF Goto, Process
  <2>5. status' = status /\ proc.out.routes \subseteq routes'[proc.row]
    BY <1>1, <2>1, <2>2 DEF AddContactRoutes, StoreTypeOK
  <2> QED
    BY <2>2, <2>3, <2>4, <2>5 DEF HandKept, At
<1>8. CASE PersistDecision
  <2>1. /\ proc \in Process /\ proc.row \in Known /\ proc.out \in Outcome
        /\ status[proc.row] = "claimed" /\ proc.out.routes \subseteq routes[proc.row]
    BY <1>8, Somewhere DEF PersistDecision, HandInv, HandKept, At, Point
  <2>2. RowsKept'
    BY <1>1, <1>8, <2>1, RowKeeps DEF PersistDecision
  <2>3. proc'.at \in {"candidates", "pool"}
    BY <1>8, <2>1 DEF PersistDecision, Recorded, Process
  <2> QED
    BY <1>3, <2>2, <2>3
<1>9. CASE PersistReview
  <2>1. proc \in Process /\ proc.row \in Known
    BY <1>9, Somewhere DEF PersistReview, HandInv, At, Point
  <2>2. RowsKept'
    BY <1>1, <1>9, <2>1, RowKeeps DEF PersistReview
  <2>3. proc'.at = "pool"
    BY <1>9, <2>1 DEF PersistReview, Recorded, Process
  <2> QED
    BY <1>3, <2>2, <2>3
<1>10. CASE Erase
  <2>1. /\ proc \in Process /\ At("suppress") /\ proc.erase \subseteq Known
    BY <1>10, Somewhere DEF Erase, HandInv, At, Point
  <2>2. RowsKept'
    BY <1>1, <1>2, <1>10, <2>1, RowKeeps DEF Erase
  <2>3. proc'.at \in {"suppress", "write"}
    BY <1>10, <2>1 DEF Erase, Goto, Process, At
  <2> QED
    BY <1>3, <2>2, <2>3
<1>11. CASE Retry \/ Ingest \/ IngestDone \/ Reclaim \/ Requeue \/ Retract \/ Unresolved
  <2>1. proc \in Process
    BY <1>11, Somewhere DEF Retry, Ingest, IngestDone, Reclaim, Requeue, Retract, Unresolved,
                            Point
  <2>2. SetTransaction
    BY <1>11, <2>1 DEF Retry, Ingest, IngestDone, Reclaim, Requeue, Retract, Unresolved,
                       SetTransaction, Process
  <2>3. proc'.at \notin {"routes", "decide"}
    <3>1. CASE Retry \/ Reclaim \/ Requeue \/ Retract \/ Unresolved
      BY <2>1, <3>1, Sent DEF Retry, Reclaim, Requeue, Retract, Unresolved, Exit, Down
    <3>2. CASE Ingest
      BY <2>1, <3>2 DEF Ingest, Process, At
    <3>3. CASE IngestDone
      BY <2>1, <3>3 DEF IngestDone, Process, Down
    <3> QED
      BY <1>11, <3>1, <3>2, <3>3
  <2> QED
    BY <1>1, <1>3, <2>2, <2>3, SetKeeps
<1>12. CASE Gate \/ Ranking \/ Rank \/ RankDone \/ PoolEnds \/ Written
  <2>1. proc \in Process
    BY <1>12, Somewhere DEF Gate, Ranking, Rank, RankDone, PoolEnds, Written, Point
  <2>2. UNCHANGED store /\ proc'.at \notin {"routes", "decide"}
    BY <1>12, <2>1 DEF Gate, Ranking, Rank, RankDone, PoolEnds, Written,
                       Exit, Goto, Down, Process, At
  <2> QED
    BY <1>2, <1>3, <2>2
<1>13. CASE \/ Measure \/ WriteReviewQueue \/ Bottleneck \/ Report \/ End \/ Crash
            \/ \E f \in Files, lines \in SUBSET Rows : WriteFile(f, lines)
            \/ \E T, P \in SUBSET Rows : Deliver(T, P)
  <2>1. UNCHANGED store
    BY <1>13 DEF Measure, WriteReviewQueue, Bottleneck, Report, End, Crash, WriteFile, Deliver
  <2>2. proc \in Process
    BY <1>13, Somewhere DEF Measure, WriteReviewQueue, Bottleneck, Report, End, Crash,
                            WriteFile, Deliver, Point, TypeOK
  <2>3. proc'.at \notin {"routes", "decide"}
    <3>1. ASSUME NEW f \in Files, NEW lines \in SUBSET Rows, WriteFile(f, lines)
          PROVE  proc'.at \notin {"routes", "decide"}
      BY <2>2, <3>1 DEF WriteFile, Process, At, Down
    <3>2. CASE Measure \/ WriteReviewQueue \/ Bottleneck \/ Report
      <4>1. proc' = Down \/ \E p \in {"reported", "report", "bottleneck", "deliver"} : Goto(p)
        BY <3>2 DEF Measure, WriteReviewQueue, Bottleneck, Report, Exit
      <4> QED
        BY <2>2, <4>1, Sent DEF Down
    <3>3. CASE End \/ Crash \/ \E T, P \in SUBSET Rows : Deliver(T, P)
      <4>1. proc' = Down \/ Goto("report")
        BY <3>3 DEF End, Crash, Deliver, Exit
      <4> QED
        BY <2>2, <4>1, Sent DEF Down
    <3> QED
      BY <1>13, <3>1, <3>2, <3>3
  <2> QED
    BY <1>2, <1>3, <2>1, <2>3
<1> QED
  BY <1>4, <1>5, <1>6, <1>7, <1>8, <1>9, <1>10, <1>11, <1>12, <1>13
  DEF Next, Prepare, Enrich, Output

LEMMA HandKeptAlways == Spec => []HandKept
<1>1. Init => HandKept
  BY DEF Init, StoreInit, HandKept, RowsKept, DeliveredHasRoutes, NoResult, Down, At
<1> QED
  BY <1>1, HandKeeps, CommandsTyped, PTL DEF Spec

(* A failure is charged to nothing but the row in hand.                    *)
LEMMA FailureInHand ==
    ASSUME TypeOK, HandInv, Next, NEW r \in Rows, DeferRow(r)
    PROVE  PersistDecision /\ proc.row = r
<1>1. attempts'[r] = attempts[r] + 1 /\ attempts[r] \in Nat
  BY DEF TypeOK, StoreTypeOK, DeferRow
<1>2. ~ UNCHANGED attempts
  BY <1>1
<1>3. CASE Given \/ Prepare
  BY <1>1, <1>3 DEF Given, Begin, Prepare, Gate, Retry, Ingest, IngestDone, Ranking, Rank, RankDone,
     store, InsertRecords, RecordSkippedResults, RequeueFailed
<1>4. CASE Enrich /\ ~ PersistDecision
  BY <1>2, <1>4 DEF Enrich, Reclaim, Requeue, Take, PersistRoutes, PersistReview, PoolEnds,
     Retract, Unresolved, Measure, store, ReclaimStale, RequeueDeferred, ClaimBatch,
     AddContactRoutes, AddReviewCandidates, RetractSharedUrls, RecordUnresolvedResults
<1>5. CASE Output \/ Crash
  BY <1>2, <1>5 DEF Output, Crash, Erase, WriteFile, Written, WriteReviewQueue, Bottleneck, Report,
     End, Deliver, store, Suppress
<1>6. CASE PersistDecision
  <2>1. proc.row \in Rows
    BY <1>6 DEF PersistDecision, HandInv, At, Known
  <2>2. \A q \in Rows : q # proc.row => attempts'[q] = attempts[q]
    BY <1>6, <2>1 DEF PersistDecision, DeferRow, WriteResult, TypeOK, StoreTypeOK
  <2> QED
    BY <1>1, <1>6, <2>2
<1> QED
  BY <1>3, <1>4, <1>5, <1>6 DEF Next

(* A row that has its answer is not worked, parked or requeued again: the  *)
(* one a command charges with a failure is the one it holds, and that one  *)
(* has no answer yet (store.py:326).                                       *)
THEOREM CommandsNeverReopen == Spec => NeverReopensAnswered
<1> DEFINE Keeps == \A r \in Rows : Answered(r) => status'[r] \in {"done", "skipped"}
<1>1. TypeOK /\ HandInv /\ HandKept /\ [Next]_vars => [Keeps]_store
  <2> SUFFICES ASSUME TypeOK, HandInv, HandKept, Next, ~ UNCHANGED store,
                      NEW r \in Rows, Answered(r)
               PROVE  status'[r] \in {"done", "skipped"}
    BY DEF vars
  <2>1. StoreTypeOK /\ Transaction
    BY CommandsTransact, CallersTransact DEF TypeOK
  <2>2. ~ DeferRow(r)
    BY FailureInHand DEF PersistDecision, HandKept, At, Answered
  <2> QED
    BY <2>1, <2>2, StoreNeverReopens
<1>2. Spec => [][Keeps]_store
  BY <1>1, HandKeptAlways, CommandsTyped, PTL DEF Spec
<1> QED
  BY <1>2 DEF NeverReopensAnswered

(* A row accepted for its contact route has one (store.py:819).            *)
THEOREM CommandsDelivered == Spec => []DeliveredHasRoutes
<1>1. HandKept => DeliveredHasRoutes
  BY DEF HandKept, RowsKept
<1> QED
  BY <1>1, HandKeptAlways, PTL

(* A row erased on request does not come back to the profile column of the *)
(* outputs (README.md:863, schema.py:186).                                 *)
THEOREM CommandsErase == Spec => ErasedStaysErased
<1> DEFINE Erased == \A r \in tombs : sheet[r].profile = NoUrl => sheet'[r].profile = NoUrl
<1>1. TypeOK /\ HandKept /\ [Next]_vars => [Erased]_vars
  <2> SUFFICES ASSUME TypeOK, HandKept, Next PROVE Erased
    BY DEF vars
  <2>1. ASSUME NEW f \in Files, NEW lines \in SUBSET Rows, WriteFile(f, lines) PROVE Erased
    <3> SUFFICES ASSUME NEW r \in tombs, sheet[r].profile = NoUrl PROVE sheet'[r].profile = NoUrl
      OBVIOUS
    <3>1. r \in Rows /\ ~ Matched(r)
      BY DEF TypeOK, StoreTypeOK, HandKept, RowsKept, Matched, Blank
    <3>2. sheet'[r] \in {sheet[r], Line(r), NoLine}
      BY <2>1, <3>1 DEF WriteFile
    <3> QED
      BY <3>1, <3>2 DEF Line, NoLine
  <2>2. CASE UNCHANGED sheet
    BY <2>2
  <2>3. UNCHANGED sheet \/ \E f \in Files, lines \in SUBSET Rows : WriteFile(f, lines)
    <3>1. CASE Given \/ Prepare
      BY <3>1 DEF Given, Begin, Prepare, Gate, Retry, Ingest, IngestDone, Ranking, Rank, RankDone
    <3>2. CASE Enrich
      BY <3>2 DEF Enrich, Reclaim, Requeue, Take, PersistRoutes, PersistDecision, PersistReview,
                  PoolEnds, Retract, Unresolved, Measure
    <3>3. CASE Output \/ Crash
      BY <3>3 DEF Output, Crash, Erase, Written, WriteReviewQueue, Bottleneck, Report, End, Deliver
    <3> QED
      BY <3>1, <3>2, <3>3 DEF Next
  <2> QED
    BY <2>1, <2>2, <2>3
<1>2. Spec => [][Erased]_vars
  BY <1>1, HandKeptAlways, CommandsTyped, PTL DEF Spec
<1> QED
  BY <1>2 DEF ErasedStaysErased

-----------------------------------------------------------------------------
(* What the files and the figures say, point by point after the pool.      *)
Told == proc.name \in {"run", "retry"}
SheetRight(r) == sheet[r].profile = IF Matched(r) THEN result[r].url ELSE NoUrl
Early == Point \ {"write", "review", "bottleneck", "deliver", "report", "reported"}
Best == IF Accepted >= Target THEN lists.top ELSE lists.partial
Reporting == proc.at \in {"report", "reported"} /\ Told

FilesInv ==
    /\ \A r \in Rows : status[r] = "absent" => sheet[r].profile = NoUrl
    /\ proc.at \in Early => proc.files = Files
    /\ At("measure") => proc.name = "pilot"
    /\ At("write") => \A r \in Rows : FileOf[r] \notin proc.files => SheetRight(r)
    /\ proc.at \in {"review", "bottleneck", "deliver"} \/ Reporting
          => \A r \in Rows : SheetRight(r)
    /\ At("deliver") \/ (Reporting /\ proc.mode # "plain")
          => counts.profiles = Cardinality(Profiles)
             /\ counts.contactOnly = Cardinality(ContactOnly)
    /\ Reporting /\ proc.mode # "plain" =>
          /\ Cardinality(Best) = Smaller(Target, counts.profiles)
          /\ Cardinality(lists.prospects) = Smaller(Target, Accepted)
    /\ At("reported") /\ Told => counts.matched = Cardinality(Decided("matched"))

LEMMA FilesAgree == FilesInv /\ ProfileOnlyOnMatch => CountsAgree
<1> SUFFICES ASSUME FilesInv, ProfileOnlyOnMatch, At("reported"), Told
             PROVE  /\ counts.matched = Cardinality({r \in Rows : sheet[r].profile # NoUrl})
                    /\ proc.mode # "plain" =>
                          /\ counts.profiles = counts.matched
                          /\ Cardinality(Best) = Smaller(Target, counts.matched)
                          /\ Cardinality(lists.prospects) = Smaller(Target, Accepted)
  BY DEF CountsAgree, Told, Best
<1>1. Profiles = Decided("matched")
  BY DEF Profiles, Decided, Matched, ProfileOnlyOnMatch
<1>2. Profiles = {r \in Rows : sheet[r].profile # NoUrl}
  <2>1. \A r \in Rows : SheetRight(r)
    BY DEF FilesInv, Reporting, At
  <2> QED
    BY <2>1 DEF SheetRight, Profiles, Matched
<1> QED
  BY <1>1, <1>2 DEF FilesInv, Reporting, At

(* Up to the pool and through it nothing is written.                       *)
LEMMA EarlyFiles ==
    ASSUME TypeOK, HandInv, FilesInv, [Next]_vars, UNCHANGED sheet,
           \/ proc' = Down
           \/ /\ proc'.files = Files
              /\ proc'.at \in Early \cup {"write"}
              /\ proc'.at = "measure" => proc'.name = "pilot"
    PROVE  FilesInv'
<1>1. \A r \in Rows : status'[r] = "absent" => sheet'[r].profile = NoUrl
  BY StoreMoves DEF Known, Having, FilesInv
<1>2. CASE proc' = Down
  BY <1>1, <1>2 DEF FilesInv, Down, At, Early, Point, Reporting
<1>3. ASSUME proc'.files = Files, proc'.at \in Early \cup {"write"},
             proc'.at = "measure" => proc'.name = "pilot"
      PROVE  FilesInv'
  <2>1. \A r \in Rows : FileOf[r] \in proc'.files
    BY <1>3, CommandAssumption
  <2> QED
    BY <1>1, <1>3, <2>1 DEF FilesInv, Early, At, Reporting
<1> QED
  BY <1>2, <1>3

LEMMA SentOn ==
    ASSUME proc \in Process, NEW p, Goto(p)
    PROVE  /\ proc'.at = p /\ proc'.files = proc.files
           /\ proc'.name = proc.name /\ proc'.mode = proc.mode
BY DEF Goto, Process

LEMMA EarlySteps ==
    ASSUME TypeOK, HandInv, FilesInv, Next,
           \/ Gate \/ Retry \/ Ingest \/ IngestDone \/ Ranking \/ Rank \/ RankDone
           \/ Reclaim \/ Requeue \/ (\E r \in Rows, o \in Outcome : Take(r, o))
           \/ PersistRoutes \/ PersistDecision \/ PersistReview
           \/ PoolEnds \/ Retract \/ Unresolved \/ Erase
    PROVE  FilesInv'
<1>1. proc \in Process /\ proc.at \in Early
  <2>1. ASSUME NEW p \in Early, At(p) PROVE proc \in Process /\ proc.at \in Early
    BY <2>1, Somewhere DEF Early, At
  <2>2. {"gate", "retry", "ingest", "ranking", "rank", "reclaim", "requeue", "pool", "routes",
         "decide", "candidates", "retract", "unresolved", "suppress"} \subseteq Early
    BY DEF Early, Point
  <2> QED
    BY <2>1, <2>2 DEF Gate, Retry, Ingest, IngestDone, Ranking, Rank, RankDone, Reclaim, Requeue,
       Take, PersistRoutes, PersistDecision, PersistReview, PoolEnds, Retract, Unresolved, Erase
<1>2. proc.files = Files
  BY <1>1 DEF FilesInv
<1>3. UNCHANGED sheet
  BY DEF Gate, Retry, Ingest, IngestDone, Ranking, Rank, RankDone, Reclaim, Requeue,
     Take, PersistRoutes, PersistDecision, PersistReview, PoolEnds, Retract, Unresolved, Erase
<1>4. \/ proc' = Down
      \/ /\ proc'.files = proc.files
         /\ proc'.at \in Early \cup {"write"}
         /\ proc'.at = "measure" => proc'.name = "pilot"
  <2>1. ASSUME NEW p \in {"gate", "ingest", "ranking", "rank", "reclaim", "requeue", "pool",
                          "decide", "retract", "unresolved", "write"}, Goto(p)
        PROVE  <1>4
    BY <1>1, <2>1, SentOn DEF Early, Point
  <2>2. CASE Gate \/ Retry
    BY <2>1, <2>2 DEF Gate, Retry, Exit
  <2>3. CASE Ranking \/ RankDone \/ Reclaim \/ Requeue
    BY <2>1, <2>3 DEF Ranking, RankDone, Reclaim, Requeue, Exit
  <2>4. CASE PersistRoutes \/ PoolEnds \/ Retract
    BY <2>1, <2>4 DEF PersistRoutes, PoolEnds, Retract
  <2>5. CASE Unresolved
    <3>1. CASE proc.name = "pilot"
      BY <1>1, <2>5, <3>1, SentOn DEF Unresolved, Early, Point
    <3>2. CASE proc.name # "pilot"
      BY <2>1, <2>5, <3>2 DEF Unresolved
    <3> QED
      BY <3>1, <3>2
  <2>6. CASE Ingest
    BY <1>1, <2>6 DEF Ingest, Process, At, Early, Point
  <2>7. CASE IngestDone
    <3>1. proc' = Down \/ \E p \in {"rank", "ranking"} :
                             proc' = [proc EXCEPT !.at = p, !.rank = Rows \ Having("absent")]
      BY <2>7 DEF IngestDone
    <3> QED
      BY <1>1, <3>1 DEF Process, Early, Point
  <2>8. CASE Rank
    BY <1>1, <2>8 DEF Rank, Process, At, Early, Point
  <2>9. ASSUME NEW r \in Rows, NEW o \in Outcome, Take(r, o) PROVE <1>4
    BY <1>1, <2>9 DEF Take, Process, Early, Point
  <2>10. ASSUME proc' = Recorded PROVE <1>4
    BY <1>1, <2>10 DEF Recorded, Process, Early, Point
  <2>11. CASE PersistDecision
    <3>1. CASE proc.out.review
      BY <1>1, <2>11, <3>1 DEF PersistDecision, Process, Early, Point
    <3>2. CASE ~ proc.out.review
      BY <2>10, <2>11, <3>2 DEF PersistDecision
    <3> QED
      BY <3>1, <3>2
  <2>12. CASE PersistReview
    BY <2>10, <2>12 DEF PersistReview
  <2>13. CASE Erase
    <3>1. ASSUME NEW r \in proc.erase, proc' = [proc EXCEPT !.erase = @ \ {r}] PROVE <1>4
      BY <1>1, <2>13, <3>1 DEF Erase, Process, At, Early, Point
    <3> QED
      BY <2>1, <2>13, <3>1 DEF Erase
  <2> QED
    BY <2>2, <2>3, <2>4, <2>5, <2>6, <2>7, <2>8, <2>9, <2>11, <2>12, <2>13
<1> QED
  BY <1>2, <1>3, <1>4, EarlyFiles

(* Writing the sheets: a file that is done is right, and a row that was    *)
(* never ingested has neither line nor match.                              *)
LEMMA SheetSteps ==
    ASSUME TypeOK, HandInv, HandKept, FilesInv, Next,
           \/ Written \/ WriteReviewQueue
           \/ \E f \in Files, lines \in SUBSET Rows : WriteFile(f, lines)
    PROVE  FilesInv'
<1> USE DEF SheetRight, Matched
<1>1. proc \in Process
  BY Somewhere DEF Written, WriteReviewQueue, WriteFile, Point
<1>2. \A r \in Rows : status[r] = "absent" => ~ Matched(r)
  BY DEF HandKept, RowsKept, NoResult
<1>3. ASSUME NEW f \in Files, NEW lines \in SUBSET Rows, WriteFile(f, lines) PROVE FilesInv'
  <2> DEFINE whole == {r \in Rows : FileOf[r] = f}
  <2>1. /\ At("write") /\ UNCHANGED <<store, counts>>
        /\ sheet' = [r \in Rows |-> IF r \notin whole THEN sheet[r]
                                    ELSE IF r \in lines \ Having("absent") THEN Line(r)
                                    ELSE NoLine]
        /\ \/ proc' = Down
           \/ lines = whole /\ proc' = [proc EXCEPT !.files = proc.files \ {f}]
    BY <1>3 DEF WriteFile
  <2>2. \A r \in Rows : status'[r] = "absent" => sheet'[r].profile = NoUrl
    BY <2>1 DEF FilesInv, store, Having, NoLine
  <2>3. CASE proc' = Down
    BY <2>2, <2>3 DEF FilesInv, Down, At, Early, Point, Reporting
  <2>4. CASE lines = whole /\ proc' = [proc EXCEPT !.files = proc.files \ {f}]
    <3>1. proc'.at = "write" /\ proc'.files = proc.files \ {f}
      BY <1>1, <2>1, <2>4 DEF Process, At
    <3>2. ASSUME NEW r \in Rows, FileOf[r] \notin proc'.files PROVE SheetRight(r)'
      <4>1. CASE FileOf[r] = f
        <5>1. sheet'[r] = IF r \in Having("absent") THEN NoLine ELSE Line(r)
          BY <2>1, <2>4, <4>1
        <5> QED
          BY <1>2, <2>1, <5>1 DEF Line, NoLine, Having, store
      <4>2. CASE FileOf[r] # f
        BY <2>1, <3>1, <3>2, <4>2 DEF FilesInv, store
      <4> QED
        BY <4>1, <4>2
    <3> QED
      BY <2>2, <3>1, <3>2 DEF FilesInv, At, Early, Reporting
  <2> QED
    BY <2>1, <2>3, <2>4
<1>4. CASE Written
  <2>1. /\ At("write") /\ proc.files \cap SourceFiles = {}
        /\ UNCHANGED <<store, sheet, counts, lists>> /\ (proc' = Down \/ Goto("review"))
    BY <1>4 DEF Written, Exit
  <2>2. \A r \in Rows : SheetRight(r)'
    <3> SUFFICES ASSUME NEW r \in Rows PROVE SheetRight(r)
      BY <2>1 DEF store
    <3>1. CASE FileOf[r] \in SourceFiles
      BY <2>1, <3>1 DEF FilesInv
    <3>2. CASE FileOf[r] \notin SourceFiles
      <4>1. status[r] = "absent"
        BY <3>2 DEF SourceFiles, Having
      <4> QED
        BY <1>2, <4>1 DEF FilesInv
    <3> QED
      BY <3>1, <3>2
  <2>3. proc'.at \in {"down", "review"}
    BY <1>1, <2>1, SentOn DEF Down
  <2> QED
    BY <2>1, <2>2, <2>3 DEF FilesInv, store, At, Early, Point, Reporting
<1>5. CASE WriteReviewQueue
  <2>1. /\ At("review") /\ UNCHANGED <<store, sheet, counts>>
    BY <1>5 DEF WriteReviewQueue
  <2>2. \/ proc' = Down
        \/ proc.mode = "plain" /\ Goto("report")
        \/ Goto("bottleneck")
    <3>1. IF proc.name = "write" THEN Exit
          ELSE Goto(IF proc.mode = "plain" THEN "report" ELSE "bottleneck")
      BY <1>5 DEF WriteReviewQueue
    <3>2. CASE proc.name = "write"
      BY <3>1, <3>2 DEF Exit
    <3>3. CASE proc.name # "write" /\ proc.mode = "plain"
      BY <3>1, <3>3 DEF Goto
    <3>4. CASE proc.name # "write" /\ proc.mode # "plain"
      BY <3>1, <3>4 DEF Goto
    <3> QED
      BY <3>2, <3>3, <3>4
  <2>3. \A r \in Rows : SheetRight(r)'
    BY <2>1 DEF FilesInv, store, At
  <2>4. \/ proc'.at \in {"down", "bottleneck"}
        \/ proc'.at = "report" /\ proc'.mode = "plain"
    BY <1>1, <2>2, SentOn DEF Down
  <2> QED
    BY <2>1, <2>3, <2>4 DEF FilesInv, store, At, Early, Point, Reporting
<1> QED
  BY <1>3, <1>4, <1>5

(* The figures are counted from the rows the sheets were written from.     *)
LEMMA ReportSteps ==
    ASSUME TypeOK, HandInv, FilesInv, Next,
           \/ Measure \/ Bottleneck \/ Report \/ End \/ Crash
           \/ \E T, P \in SUBSET Rows : Deliver(T, P)
    PROVE  FilesInv'
<1>1. UNCHANGED <<store, sheet>>
  BY DEF Measure, Bottleneck, Report, End, Crash, Deliver
<1>2. /\ \A r \in Rows : SheetRight(r)' <=> SheetRight(r)
      /\ Profiles' = Profiles /\ ContactOnly' = ContactOnly
      /\ Decided("matched")' = Decided("matched")
  BY <1>1 DEF SheetRight, Matched, Profiles, ContactOnly, Decided, store
<1>3. \A r \in Rows : status'[r] = "absent" => sheet'[r].profile = NoUrl
  BY <1>1 DEF FilesInv, store
<1>4. CASE End \/ Crash
  <2>1. proc' = Down
    BY <1>4 DEF End, Crash, Exit
  <2> QED
    BY <1>3, <2>1 DEF FilesInv, Down, At, Early, Point, Reporting
<1>5. CASE Measure
  <2>1. proc'.at = "reported" /\ proc'.name = "pilot"
    BY <1>5, Somewhere, SentOn DEF Measure, FilesInv, Point
  <2> QED
    BY <1>3, <2>1 DEF FilesInv, Told, At, Early, Reporting
<1>6. CASE Bottleneck
  <2>1. proc'.at = "deliver" /\ \A r \in Rows : SheetRight(r)
    BY <1>6, Somewhere, SentOn DEF Bottleneck, FilesInv, Point, At
  <2>2. /\ counts'.profiles = Cardinality(Profiles)
        /\ counts'.contactOnly = Cardinality(ContactOnly)
    BY <1>6 DEF Bottleneck
  <2> QED
    BY <1>2, <1>3, <2>1, <2>2 DEF FilesInv, Told, At, Early, Reporting
<1>7. ASSUME NEW T \in SUBSET Rows, NEW P \in SUBSET Rows, Deliver(T, P) PROVE FilesInv'
  <2>1. /\ proc'.at = "report" /\ \A r \in Rows : SheetRight(r)
        /\ counts' = counts /\ counts.profiles = Cardinality(Profiles)
        /\ counts.contactOnly = Cardinality(ContactOnly)
    BY <1>7, Somewhere, SentOn DEF Deliver, FilesInv, Point, At
  <2>2. Best' = T /\ lists'.prospects = P /\ Accepted' = Accepted
    <3>1. lists \in [top : Listing, partial : Listing, prospects : Listing, review : Listing]
      BY DEF TypeOK
    <3> QED
      BY <1>7, <2>1, <3>1 DEF Deliver, Best, Accepted
  <2>3. Cardinality(T) = Smaller(Target, counts.profiles)
    BY <1>7, <2>1 DEF Deliver, TopMatches, Prospects, Leading
  <2>4. Cardinality(Profiles \cup ContactOnly) = Accepted
    <3>1. Profiles \in SUBSET Rows /\ ContactOnly \in SUBSET Rows /\ Profiles \cap ContactOnly = {}
      BY DEF Profiles, ContactOnly, Matched
    <3>2. /\ IsFiniteSet(Profiles) /\ IsFiniteSet(ContactOnly)
          /\ Cardinality(Profiles) \in Nat /\ Cardinality(ContactOnly) \in Nat
      BY <3>1, Counted
    <3>3. Cardinality(Profiles \cup ContactOnly)
             = Cardinality(Profiles) + Cardinality(ContactOnly) - Cardinality(Profiles \cap ContactOnly)
      BY <3>2, FS_Union
    <3>4. Cardinality(Profiles \cap ContactOnly) = 0
      BY <3>1, FS_EmptySet
    <3> QED
      BY <2>1, <3>2, <3>3, <3>4 DEF Accepted
  <2>5. Cardinality(P) = Smaller(Target, Accepted)
    BY <1>7, <2>4 DEF Deliver, TopMatches, Prospects, Leading
  <2> QED
    BY <1>2, <1>3, <2>1, <2>2, <2>3, <2>5 DEF FilesInv, At, Early, Reporting
<1>8. CASE Report
  <2>1. proc \in Process /\ At("report")
    BY <1>8, Somewhere DEF Report, Point
  <2>2. proc'.at = "reported" /\ proc'.name = proc.name /\ proc'.mode = proc.mode
    BY <1>8, <2>1, SentOn DEF Report
  <2>3. /\ counts'.profiles = counts.profiles /\ counts'.contactOnly = counts.contactOnly
        /\ counts'.matched = Cardinality(Decided("matched")) /\ lists' = lists
    BY <1>8 DEF Report, TypeOK
  <2>4. Accepted' = Accepted /\ Best' = Best
    BY <2>3 DEF Accepted, Best
  <2> QED
    BY <1>2, <1>3, <2>1, <2>2, <2>3, <2>4 DEF FilesInv, At, Early, Reporting, Told
<1> QED
  BY <1>4, <1>5, <1>6, <1>7, <1>8

LEMMA FilesNext == TypeOK /\ HandInv /\ HandKept /\ FilesInv /\ [Next]_vars => FilesInv'
<1> SUFFICES ASSUME TypeOK, HandInv, HandKept, FilesInv, [Next]_vars PROVE FilesInv'
  OBVIOUS
<1>1. CASE UNCHANGED vars
  BY <1>1 DEF vars, store, FilesInv, At, Reporting, Told, SheetRight, Matched, Profiles,
              ContactOnly, Best, Accepted, Decided
<1>2. CASE Given
  <2>1. /\ proc'.files = Files /\ UNCHANGED <<store, sheet>>
        /\ proc'.at \in Early \cup {"write", "report"} /\ proc'.at # "measure"
        /\ proc'.at = "report" => proc'.name = "report"
    BY <1>2, BeginTyped DEF Process, Early
  <2>2. \A r \in Rows : status'[r] = "absent" => sheet'[r].profile = NoUrl
    BY <2>1 DEF FilesInv, store
  <2>3. \A r \in Rows : FileOf[r] \in proc'.files
    BY <2>1, CommandAssumption
  <2> QED
    BY <2>1, <2>2, <2>3 DEF FilesInv, Early, At, Reporting, Told
<1>3. CASE Next /\ ~ Given
  BY <1>3, EarlySteps, SheetSteps, ReportSteps DEF Next, Prepare, Enrich, Output
<1> QED
  BY <1>1, <1>2, <1>3

(* What the end of a run counts in three places, it counts alike           *)
(* (main.py:282-313).                                                      *)
THEOREM CommandsCountsAgree == Spec => []CountsAgree
<1>1. Init => FilesInv
  BY DEF Init, FilesInv, Down, At, Early, Point, Reporting, NoLine
<1>2. Spec => []FilesInv
  BY <1>1, FilesNext, HandKeptAlways, CommandsTyped, PTL DEF Spec
<1> QED
  BY <1>2, FilesAgree, CommandsProfiles, PTL
=============================================================================
