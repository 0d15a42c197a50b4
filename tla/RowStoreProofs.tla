--------------------------- MODULE RowStoreProofs ---------------------------
(***************************************************************************)
(* What each transaction of the row store preserves, for any number of     *)
(* rows, people and profiles and whoever calls it.  The theorems about     *)
(* StoreCallers and WorkerPool cite these lemmas.                          *)
(***************************************************************************)
EXTENDS RowStore, TLAPS

(* The transactions anybody may issue on the rows of S: all but those that *)
(* name one row.                                                           *)
SetTransaction ==
    \/ \E S \in SUBSET Rows : InsertRecords(S) \/ ReclaimStale(S) \/ Release(S)
    \/ \E S \in SUBSET Having("pending"), now \in Nat : ClaimBatch(S, now)
    \/ RecordSkippedResults \/ RequeueDeferred \/ RecordUnresolvedResults
    \/ RetractSharedUrls
    \/ \E reset \in BOOLEAN : RequeueFailed(reset)

(* The transactions on one row r.                                          *)
RowTransaction(r) ==
    \/ \E o \in Outcome : WriteResult(r, o)
    \/ \E R \in SUBSET RouteValue : AddContactRoutes(r, R)
    \/ AddReviewCandidates(r) \/ DeferRow(r) \/ Suppress(r)

Transaction == SetTransaction \/ \E r \in Rows : RowTransaction(r)

-----------------------------------------------------------------------------
(* Every transaction keeps the columns in their ranges.                    *)
LEMMA StoreTyped == StoreTypeOK /\ Transaction => StoreTypeOK'
<1> SUFFICES ASSUME StoreTypeOK, Transaction PROVE StoreTypeOK'
  OBVIOUS
<1> USE DEF StoreTypeOK, Status
<1>1. CASE SetTransaction
  <2>1. ASSUME NEW S \in SUBSET Rows, InsertRecords(S) PROVE StoreTypeOK'
    BY <2>1 DEF InsertRecords
  <2>2. ASSUME NEW S \in SUBSET Rows, ReclaimStale(S) PROVE StoreTypeOK'
    BY <2>2 DEF ReclaimStale
  <2>3. ASSUME NEW S \in SUBSET Rows, Release(S) PROVE StoreTypeOK'
    BY <2>3 DEF Release
  <2>4. ASSUME NEW S \in SUBSET Having("pending"), NEW now \in Nat, ClaimBatch(S, now)
        PROVE  StoreTypeOK'
    BY <2>4 DEF ClaimBatch
  <2>5. CASE RecordSkippedResults
    BY <2>5 DEF RecordSkippedResults, Blank, Decision
  <2>6. CASE RequeueDeferred
    BY <2>6 DEF RequeueDeferred
  <2>7. CASE RecordUnresolvedResults
    BY <2>7 DEF RecordUnresolvedResults, Blank, Decision
  <2>8. CASE RetractSharedUrls
    BY <2>8 DEF RetractSharedUrls, Blank, Decision
  <2>9. ASSUME NEW reset \in BOOLEAN, RequeueFailed(reset) PROVE StoreTypeOK'
    BY <2>9 DEF RequeueFailed
  <2> QED
    BY <1>1, <2>1, <2>2, <2>3, <2>4, <2>5, <2>6, <2>7, <2>8, <2>9 DEF SetTransaction
<1>2. ASSUME NEW r \in Rows, RowTransaction(r) PROVE StoreTypeOK'
  <2>1. ASSUME NEW o \in Outcome, WriteResult(r, o) PROVE StoreTypeOK'
    BY <2>1 DEF WriteResult, Outcome, Decision
  <2>2. ASSUME NEW R \in SUBSET RouteValue, AddContactRoutes(r, R) PROVE StoreTypeOK'
    BY <2>2 DEF AddContactRoutes
  <2>3. CASE AddReviewCandidates(r)
    BY <2>3 DEF AddReviewCandidates, ReviewCap
  <2>4. CASE DeferRow(r)
    BY <2>4 DEF DeferRow, Blank, Decision
  <2>5. CASE Suppress(r)
    BY <2>5 DEF Suppress, Blank, Decision, ReviewCap
  <2> QED
    BY <1>2, <2>1, <2>2, <2>3, <2>4, <2>5 DEF RowTransaction
<1> QED
  BY <1>1, <1>2 DEF Transaction

(* Every transaction keeps a result on every row that is done.             *)
LEMMA StoreSettled ==
    StoreTypeOK /\ SettledHasResult /\ Transaction => SettledHasResult'
<1> SUFFICES ASSUME StoreTypeOK, SettledHasResult, Transaction PROVE SettledHasResult'
  OBVIOUS
<1> USE DEF StoreTypeOK, SettledHasResult
<1>1. CASE SetTransaction
  <2>1. ASSUME NEW S \in SUBSET Rows, InsertRecords(S) PROVE SettledHasResult'
    BY <2>1 DEF InsertRecords
  <2>2. ASSUME NEW S \in SUBSET Rows, ReclaimStale(S) PROVE SettledHasResult'
    BY <2>2 DEF ReclaimStale
  <2>3. ASSUME NEW S \in SUBSET Rows, Release(S) PROVE SettledHasResult'
    BY <2>3 DEF Release
  <2>4. ASSUME NEW S \in SUBSET Having("pending"), NEW now \in Nat, ClaimBatch(S, now)
        PROVE  SettledHasResult'
    BY <2>4 DEF ClaimBatch
  <2>5. CASE RecordSkippedResults
    BY <2>5 DEF RecordSkippedResults, Blank
  <2>6. CASE RequeueDeferred
    BY <2>6 DEF RequeueDeferred
  <2>7. CASE RecordUnresolvedResults
    BY <2>7 DEF RecordUnresolvedResults, Blank
  <2>8. CASE RetractSharedUrls
    BY <2>8 DEF RetractSharedUrls, Blank
  <2>9. ASSUME NEW reset \in BOOLEAN, RequeueFailed(reset) PROVE SettledHasResult'
    BY <2>9 DEF RequeueFailed
  <2> QED
    BY <1>1, <2>1, <2>2, <2>3, <2>4, <2>5, <2>6, <2>7, <2>8, <2>9 DEF SetTransaction
<1>2. ASSUME NEW r \in Rows, RowTransaction(r) PROVE SettledHasResult'
  <2>1. ASSUME NEW o \in Outcome, WriteResult(r, o) PROVE SettledHasResult'
    BY <2>1 DEF WriteResult, Outcome
  <2>2. ASSUME NEW R \in SUBSET RouteValue, AddContactRoutes(r, R) PROVE SettledHasResult'
    BY <2>2 DEF AddContactRoutes
  <2>3. CASE AddReviewCandidates(r)
    BY <2>3 DEF AddReviewCandidates
  <2>4. CASE DeferRow(r)
    BY <2>4 DEF DeferRow, Blank
  <2>5. CASE Suppress(r)
    BY <2>5 DEF Suppress, Blank
  <2> QED
    BY <1>2, <2>1, <2>2, <2>3, <2>4, <2>5 DEF RowTransaction
<1> QED
  BY <1>1, <1>2 DEF Transaction

(* Every transaction keeps profile URLs on matched rows and nowhere else.  *)
LEMMA StoreProfiles ==
    StoreTypeOK /\ ProfileOnlyOnMatch /\ Transaction => ProfileOnlyOnMatch'
<1> SUFFICES ASSUME StoreTypeOK, ProfileOnlyOnMatch, Transaction PROVE ProfileOnlyOnMatch'
  OBVIOUS
<1> USE DEF StoreTypeOK, ProfileOnlyOnMatch
<1>1. CASE UNCHANGED result
  BY <1>1
<1>3. CASE RecordSkippedResults \/ RecordUnresolvedResults \/ RetractSharedUrls
  BY <1>3 DEF RecordSkippedResults, RecordUnresolvedResults, RetractSharedUrls, Blank
<1>4. ASSUME NEW r \in Rows, DeferRow(r) \/ Suppress(r) PROVE ProfileOnlyOnMatch'
  BY <1>4, <1>1 DEF DeferRow, Suppress, Blank
<1>2. ASSUME NEW r \in Rows, NEW o \in Outcome, WriteResult(r, o)
      PROVE  ProfileOnlyOnMatch'
  BY <1>2 DEF WriteResult, Outcome
<1> QED
  BY <1>1, <1>2, <1>3, <1>4
  DEF Transaction, SetTransaction, RowTransaction, InsertRecords, ReclaimStale, Release,
      ClaimBatch, RequeueDeferred, RequeueFailed, AddContactRoutes, AddReviewCandidates

(* No transaction takes an answered row from done to anything but skipped, *)
(* unless it charges a failure to that very row.                           *)
LEMMA StoreNeverReopens ==
    ASSUME StoreTypeOK, Transaction, NEW r \in Rows,
           Answered(r)
    PROVE  status'[r] \in {"done", "skipped"} \/ DeferRow(r)
<1> USE DEF StoreTypeOK, Having, Answered
<1>1. CASE SetTransaction
  <2>1. ASSUME NEW S \in SUBSET Rows, InsertRecords(S)
        PROVE  status'[r] \in {"done", "skipped"}
    BY <2>1 DEF InsertRecords
  <2>2. ASSUME NEW S \in SUBSET Rows, ReclaimStale(S)
        PROVE  status'[r] \in {"done", "skipped"}
    BY <2>2 DEF ReclaimStale, Abandoned
  <2>3. ASSUME NEW S \in SUBSET Rows, Release(S)
        PROVE  status'[r] \in {"done", "skipped"}
    BY <2>3 DEF Release
  <2>4. ASSUME NEW S \in SUBSET Having("pending"), NEW now \in Nat, ClaimBatch(S, now)
        PROVE  status'[r] \in {"done", "skipped"}
    BY <2>4 DEF ClaimBatch
  <2>5. CASE RequeueDeferred
    BY <2>5 DEF RequeueDeferred
  <2>6. ASSUME NEW reset \in BOOLEAN, RequeueFailed(reset)
        PROVE  status'[r] \in {"done", "skipped"}
    BY <2>6 DEF RequeueFailed
  <2>7. CASE RecordSkippedResults \/ RecordUnresolvedResults \/ RetractSharedUrls
    BY <2>7 DEF RecordSkippedResults, RecordUnresolvedResults, RetractSharedUrls
  <2> QED
    BY <1>1, <2>1, <2>2, <2>3, <2>4, <2>5, <2>6, <2>7 DEF SetTransaction
<1>2. ASSUME NEW q \in Rows, RowTransaction(q)
      PROVE  status'[r] \in {"done", "skipped"} \/ DeferRow(r)
  <2>1. CASE DeferRow(q)
    <3>1. q # r => status'[r] = status[r]
      BY <2>1 DEF DeferRow
    <3> QED
      BY <2>1, <3>1
  <2>2. CASE ~ DeferRow(q)
    BY <1>2, <2>2 DEF RowTransaction, WriteResult, AddContactRoutes, AddReviewCandidates,
                      Suppress
  <2> QED
    BY <2>1, <2>2
<1> QED
  BY <1>1, <1>2 DEF Transaction
=============================================================================
