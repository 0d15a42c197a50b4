------------------------ MODULE WorkerPoolClaimProofs -----------------------
(***************************************************************************)
(* Nothing is done twice and nothing is lost (pool.py:8-11), for any       *)
(* number of rows, consumers, batches, restarts and database failures, as  *)
(* long as no other process writes to the store: the inductive invariant   *)
(* IInv and what follows from it.  At the end, that the pool implements    *)
(* RowLedger.                                                              *)
(***************************************************************************)
EXTENDS WorkerPoolProofs, WorkerPoolRefinement

(* What Queued names when a row is put into the queue or taken from it.    *)
LEMMA QueueAppend ==
    ASSUME queue \in Seq(Rows), NEW r \in Rows, queue' = Append(queue, r)
    PROVE  /\ Queued' = Queued \cup {r}
           /\ OnePlace /\ r \notin Queued
                 => \A i, j \in 1 .. Len(queue') : queue'[i] = queue'[j] => i = j
<1>1. /\ Len(queue') = Len(queue) + 1 /\ Len(queue) \in Nat
      /\ \A i \in 1 .. Len(queue) : queue'[i] = queue[i]
      /\ queue'[Len(queue) + 1] = r
  OBVIOUS
<1>2. 1 .. Len(queue') = (1 .. Len(queue)) \cup {Len(queue) + 1}
  BY <1>1
<1>3. Queued' = Queued \cup {r}
  BY <1>1, <1>2 DEF Queued
<1>4. ASSUME OnePlace, r \notin Queued
      PROVE  \A i, j \in 1 .. Len(queue') : queue'[i] = queue'[j] => i = j
  <2>1. \A i, j \in 1 .. Len(queue) : queue[i] = queue[j] => i = j
    BY <1>4 DEF OnePlace
  <2>2. \A i \in 1 .. Len(queue) : queue[i] # r
    BY <1>4 DEF Queued
  <2> QED
    BY <1>1, <1>2, <2>1, <2>2
<1> QED
  BY <1>3, <1>4

LEMMA QueueTail ==
    ASSUME queue \in Seq(Rows), queue # <<>>, queue' = Tail(queue), OnePlace
    PROVE  /\ Head(queue) \in Queued
           /\ Queued' = Queued \ {Head(queue)}
           /\ \A i, j \in 1 .. Len(queue') : queue'[i] = queue'[j] => i = j
<1>1. /\ Len(queue) \in Nat \ {0} /\ Len(queue') = Len(queue) - 1 /\ Head(queue) = queue[1]
      /\ \A i \in 1 .. Len(queue') : queue'[i] = queue[i + 1]
  OBVIOUS
<1>2. \A i, j \in 1 .. Len(queue) : queue[i] = queue[j] => i = j
  BY DEF OnePlace
<1>3. Head(queue) \in Queued /\ Queued' \subseteq Queued \ {Head(queue)}
  BY <1>1, <1>2 DEF Queued
<1>4. ASSUME NEW x \in Queued \ {Head(queue)}
      PROVE  x \in Queued'
  <2>1. PICK i \in 1 .. Len(queue) : x = queue[i] /\ i # 1
    BY <1>1 DEF Queued
  <2>2. i - 1 \in 1 .. Len(queue') /\ queue'[i - 1] = x
    BY <1>1, <2>1
  <2> QED
    BY <2>2 DEF Queued
<1>5. \A i, j \in 1 .. Len(queue') : queue'[i] = queue'[j] => i = j
  BY <1>1, <1>2
<1> QED
  BY <1>3, <1>4, <1>5

-----------------------------------------------------------------------------
(* The places of a row stay apart.                                         *)
LEMMA OnePlaceNext ==
    Structure /\ StatusInv /\ HeldClaimed /\ OnePlace /\ [Next]_vars => OnePlace'
<1> SUFFICES ASSUME Structure, StatusInv, HeldClaimed, OnePlace, [Next]_vars
             PROVE  OnePlace'
  OBVIOUS
<1> USE DEF Structure, TypeOK, PhaseInv, RowInv
<1>1. CASE UNCHANGED <<queue, row, putting, Undispatched>>
  BY <1>1 DEF OnePlace, Queued
<1>2. CASE EndProcess
  BY <1>2 DEF EndProcess, OnePlace, Queued, Undispatched
<1>3. CASE ProduceTop \/ ProduceBatchDone \/ ProduceStop \/ ProduceRelease
  BY <1>3 DEF ProduceTop, ProduceBatchDone, ProduceStop, ProduceRelease, loopVars,
              consumerVars, OnePlace, Queued, Undispatched
<1>4. CASE ProduceClaim
  <2>1. PICK S \in SUBSET Having("pending") : Undispatched' \subseteq S
    BY <1>4 DEF ProduceClaim, Undispatched
  <2>2. UNCHANGED <<queue, row>> /\ putting' = putting /\ putting = NoRow
    BY <1>4 DEF ProduceClaim, loopVars, consumerVars
  <2>3. S \cap Queued = {}
    BY DEF HeldClaimed, Held, Having
  <2>4. \A w \in Workers : row[w] \notin S
    BY <1>4, PoolAssumption DEF ProduceClaim, StatusInv, Having
  <2> QED
    BY <2>1, <2>2, <2>3, <2>4 DEF OnePlace, Queued
<1>5. CASE ProduceFeed
  <2>1. PICK r \in todo :
          /\ todo' = todo \ {r}
          /\ \/ queue' = Append(queue, r) /\ UNCHANGED <<pp, putting>>
             \/ pp' = "put" /\ putting' = r /\ UNCHANGED queue
    BY <1>5 DEF ProduceFeed
  <2>2. row' = row /\ Undispatched = todo /\ putting = NoRow /\ Undispatched' \subseteq todo \ {r}
    BY <1>5, <2>1 DEF ProduceFeed, consumerVars, Undispatched
  <2>3. r \in Rows /\ r \notin Queued /\ \A w \in Workers : row[w] # r
    BY <2>2 DEF OnePlace
  <2>4. CASE queue' = Append(queue, r) /\ UNCHANGED <<pp, putting>>
    <3>1. Queued' = Queued \cup {r}
      BY <2>3, <2>4, QueueAppend
    <3>2. \A i, j \in 1 .. Len(queue') : queue'[i] = queue'[j] => i = j
      BY <2>3, <2>4, QueueAppend
    <3> QED
      BY <2>2, <2>3, <2>4, <3>1, <3>2 DEF OnePlace
  <2>5. CASE pp' = "put" /\ putting' = r /\ UNCHANGED queue
    BY <2>2, <2>3, <2>5 DEF OnePlace, Queued
  <2> QED
    BY <2>1, <2>4, <2>5
<1>6. CASE ProducePut
  <2>1. queue' = Append(queue, putting) /\ putting \in Rows /\ putting # NoRow /\ putting' = NoRow
    BY <1>6, PoolAssumption DEF ProducePut
  <2>2. row' = row /\ Undispatched' = Undispatched
    BY <1>6 DEF ProducePut, consumerVars, Undispatched
  <2>3. Queued' = Queued \cup {putting}
    BY <2>1, QueueAppend
  <2>4. putting \notin Queued
    BY <2>1 DEF OnePlace
  <2>5. \A i, j \in 1 .. Len(queue') : queue'[i] = queue'[j] => i = j
    BY <2>1, <2>4, QueueAppend
  <2> QED
    BY <2>1, <2>2, <2>3, <2>5 DEF OnePlace
<1>7. ASSUME NEW w \in Workers, Get(w) PROVE OnePlace'
  <2>1. /\ queue # <<>> /\ queue' = Tail(queue) /\ row' = [row EXCEPT ![w] = Head(queue)]
        /\ putting' = putting /\ Undispatched' = Undispatched
    BY <1>7 DEF Get, producerVars, Undispatched
  <2>2. /\ Head(queue) \in Queued /\ Queued' = Queued \ {Head(queue)}
        /\ \A i, j \in 1 .. Len(queue') : queue'[i] = queue'[j] => i = j
    BY <2>1, QueueTail
  <2> QED
    BY <2>1, <2>2 DEF OnePlace
<1>8. ASSUME NEW w \in Workers, Record(w) PROVE OnePlace'
  <2>1. /\ row' = [row EXCEPT ![w] = NoRow] /\ queue' = queue /\ putting' = putting
        /\ Undispatched' = Undispatched
    BY <1>8 DEF Record, producerVars, Undispatched
  <2>2. NoRow \notin Queued \cup Undispatched
    BY PoolAssumption DEF Queued, Undispatched
  <2> QED
    BY <2>1, <2>2 DEF OnePlace, Queued
<1>9. CASE ProducerFault
  <2>1. queue' = <<>> /\ row' = row /\ Undispatched' = {} /\ putting' = putting
    BY <1>9 DEF ProducerFault, Undispatched
  <2>2. Queued' = {}
    BY <2>1 DEF Queued
  <2> QED
    BY <2>1, <2>2 DEF OnePlace
<1>10. ASSUME NEW w \in Workers,
              \/ Resolve(w) \/ ResolveRaises(w) \/ FailRow(w) \/ PersistRoutes(w)
              \/ PersistDecision(w) \/ PersistReview(w) \/ PersistFault(w) \/ DeferFault(w)
       PROVE  UNCHANGED <<queue, row, putting, Undispatched>>
  BY <1>10 DEF Resolve, ResolveRaises, FailRow, PersistRoutes, PersistDecision,
               PersistReview, PersistFault, DeferFault, producerVars, loopVars, Undispatched
<1>11. CASE \/ Start \/ IngestBatch \/ IngestDone \/ Reclaim \/ Requeue \/ Join \/ Retract
            \/ Unresolved \/ RequestShutdown \/ SuppressCommand \/ RetryCommand
            \/ Finished \/ UNCHANGED vars
  BY <1>1, <1>11 DEF Start, IngestBatch, IngestDone, Reclaim, Requeue, Join, Retract,
     Unresolved, RequestShutdown, SuppressCommand, RetryCommand, Finished, vars,
     producerVars, loopVars, consumerVars, Undispatched
<1> QED
  BY <1>1, <1>2, <1>3, <1>4, <1>5, <1>6, <1>7, <1>8, <1>9, <1>10, <1>11
  DEF Next, RunStep, ProducerStep, ConsumerStep, Fault, WriteOutputs, AbortEnds, Crash

(* Every row the process holds stays claimed by this run until its         *)
(* decision is committed: nothing the pool releases is held.               *)
LEMMA HeldClaimedNext ==
    ASSUME Commands = {}
    PROVE  Structure /\ Claims /\ [Next]_vars => HeldClaimed'
<1> SUFFICES ASSUME Structure, Claims, [Next]_vars PROVE HeldClaimed'
  OBVIOUS
<1> USE DEF Structure, TypeOK, PhaseInv, RowInv, Claims, SingleHolder
<1>1. CASE UNCHANGED <<status, claimedAt, runs>> /\ Held' \subseteq Held
  BY <1>1 DEF HeldClaimed
<1>2. CASE \/ IngestBatch \/ IngestDone \/ Reclaim \/ Requeue \/ Start \/ EndProcess
           \/ Join \/ Retract \/ Unresolved
  <2>1. Undispatched' = {} /\ Queued' = {} /\ putting' = NoRow /\ \A w \in Workers : ~ Working(w)'
    <3>1. CASE IngestBatch \/ IngestDone \/ Reclaim \/ Start \/ Retract \/ Unresolved
      BY <3>1 DEF IngestBatch, IngestDone, Reclaim, Start, Retract, Unresolved, producerVars,
                  loopVars, consumerVars, Undispatched, Queued, Working
    <3>2. CASE Requeue \/ EndProcess
      BY <3>2 DEF Requeue, EndProcess, loopVars, Undispatched, Queued, Working
    <3>3. CASE Join
      <4>1. Busy = {} /\ queue = <<>>
        BY <3>3, BusyCount, FS_EmptySet DEF Join, CountInv, Live
      <4> QED
        BY <3>3, <4>1 DEF Join, producerVars, loopVars, Undispatched, Queued, Working, Busy
    <3> QED
      BY <1>2, <3>1, <3>2, <3>3
  <2>2. Held' = {}
    BY <2>1 DEF Held
  <2> QED
    BY <2>2 DEF HeldClaimed
<1>3. CASE ProduceTop \/ ProduceBatchDone \/ ProduceStop \/ ProduceFeed \/ ProducePut
  <2>1. UNCHANGED <<status, claimedAt, runs>>
    BY <1>3 DEF ProduceTop, ProduceBatchDone, ProduceStop, ProduceFeed, ProducePut, store,
                runVars
  <2>2. \A w \in Workers : Working(w)' <=> Working(w)
    BY <1>3 DEF ProduceTop, ProduceBatchDone, ProduceStop, ProduceFeed, ProducePut,
                consumerVars, runVars, Working
  <2>3. row' = row
    BY <1>3 DEF ProduceTop, ProduceBatchDone, ProduceStop, ProduceFeed, ProducePut,
                consumerVars
  <2>4. Undispatched' \cup Queued' \cup ({putting'} \ {NoRow})
           \subseteq Undispatched \cup Queued \cup ({putting} \ {NoRow})
    <3>1. CASE ProduceTop \/ ProduceBatchDone \/ ProduceStop
      BY <3>1 DEF ProduceTop, ProduceBatchDone, ProduceStop, loopVars, Undispatched, Queued
    <3>2. CASE ProduceFeed
      <4>1. PICK r \in todo :
              /\ todo' = todo \ {r}
              /\ \/ queue' = Append(queue, r) /\ UNCHANGED <<pp, putting>>
                 \/ pp' = "put" /\ putting' = r /\ UNCHANGED queue
        BY <3>2 DEF ProduceFeed
      <4>2. r \in Rows
        BY <4>1
      <4>3. Queued' \subseteq Queued \cup {r}
        <5>1. CASE queue' = Append(queue, r)
          BY <4>2, <5>1, QueueAppend
        <5>2. CASE queue' = queue
          BY <5>2 DEF Queued
        <5> QED
          BY <4>1, <5>1, <5>2
      <4> QED
        BY <3>2, <4>1, <4>3 DEF ProduceFeed, Undispatched
    <3>3. CASE ProducePut
      <4>1. Queued' = Queued \cup {putting} /\ putting # NoRow
        BY <3>3, PoolAssumption, QueueAppend DEF ProducePut
      <4> QED
        BY <3>3, <4>1 DEF ProducePut, Undispatched
    <3> QED
      BY <1>3, <3>1, <3>2, <3>3
  <2> QED
    BY <1>1, <2>1, <2>2, <2>3, <2>4 DEF Held
<1>4. CASE ProduceClaim
  <2>1. PICK S \in SUBSET Having("pending") :
          ClaimBatch(S, runs) /\ Undispatched' \subseteq S
    BY <1>4 DEF ProduceClaim, Undispatched
  <2>2. UNCHANGED <<queue, row, pc, phase, putting, runs>>
    BY <1>4 DEF ProduceClaim, loopVars, consumerVars, runVars
  <2>3. Held' \subseteq Held \cup S
    BY <2>1, <2>2 DEF Held, Queued, Working
  <2>4. \A r \in S : status'[r] = "claimed" /\ claimedAt'[r] = runs
    BY <2>1 DEF ClaimBatch, Having
  <2>5. \A r \in Held : status'[r] = "claimed" /\ claimedAt'[r] = runs
    <3>1. Held \subseteq Rows
      BY DEF Held, Undispatched, Queued, Working, Busy
    <3> QED
      BY <2>1, <3>1 DEF ClaimBatch, HeldClaimed
  <2> QED
    BY <2>2, <2>3, <2>4, <2>5 DEF HeldClaimed
<1>5. CASE ProduceRelease
  <2>1. Held' \subseteq Held /\ todo \cap Held' = {}
    BY <1>5 DEF ProduceRelease, consumerVars, loopVars, runVars, Held, Undispatched, Queued,
                Working, BatchInv
  <2>2. \A r \in Rows \ todo : status'[r] = status[r] /\ claimedAt'[r] = claimedAt[r]
    BY <1>5 DEF ProduceRelease, Release
  <2> QED
    <3>1. Held \subseteq Rows /\ runs' = runs
      BY <1>5, PoolAssumption DEF ProduceRelease, runVars, Held, Undispatched, Queued, Working, Busy
    <3> QED
      BY <2>1, <2>2, <3>1 DEF HeldClaimed
<1>6. CASE ProducerFault
  <2>1. /\ Held' \subseteq {row[w] : w \in {v \in Workers : pc[v] \in {"routes", "decide"}}}
        /\ Held' \subseteq Held
    BY <1>6 DEF ProducerFault, Held, Undispatched, Queued, Working
  <2>2. \A r \in Rows \cap Held' : status'[r] = status[r] /\ claimedAt'[r] = claimedAt[r]
    BY <1>6, <2>1 DEF ProducerFault, Release
  <2>3. Held' \subseteq Rows
    BY <2>1 DEF Busy
  <2> QED
    BY <1>6, <2>1, <2>2, <2>3 DEF ProducerFault, HeldClaimed
<1>7. ASSUME NEW w \in Workers, ConsumerStep(w) \/ PersistFault(w) \/ DeferFault(w)
      PROVE  HeldClaimed'
  <2>1. CASE Get(w)
    <3>1. Queued' \cup {Head(queue)} = Queued
      BY <2>1, QueueTail DEF Get
    <3>2. Held' \subseteq Held
      BY <2>1, <3>1 DEF Get, producerVars, runVars, Held, Undispatched, Working
    <3> QED
      BY <1>1, <2>1, <3>2 DEF Get, store, runVars
  <2>2. CASE Resolve(w) \/ ResolveRaises(w) \/ PersistRoutes(w) \/ PersistReview(w)
    <3>1. Held' \subseteq Held
      BY <2>2 DEF Resolve, ResolveRaises, PersistRoutes, PersistReview, producerVars,
                  loopVars, runVars, Held, Undispatched, Queued, Working
    <3> QED
      BY <1>1, <2>2, <3>1 DEF Resolve, ResolveRaises, PersistRoutes, PersistReview, store,
                              runVars, AddContactRoutes, AddReviewCandidates
  <2>3. CASE FailRow(w) \/ PersistDecision(w)
    <3>1. Held' \subseteq Held \ {row[w]}
      <4>1. /\ row' = row /\ pc' = [pc EXCEPT ![w] = pc'[w]]
            /\ pc'[w] \in {"record", "review"}
            /\ UNCHANGED <<queue, putting, Undispatched, phase>>
        BY <2>3 DEF FailRow, PersistDecision, producerVars, loopVars, runVars, Undispatched
      <4>2. row[w] \in Rows
        BY <2>3 DEF FailRow, PersistDecision, Busy
      <4>3. \A v \in Workers : Working(v)' => v # w /\ Working(v)
        BY <4>1 DEF Working
      <4> QED
        BY <4>1, <4>2, <4>3, PoolAssumption DEF Held, OnePlace, Queued
    <3>2. \A r \in Rows \ {row[w]} : status'[r] = status[r] /\ claimedAt'[r] = claimedAt[r]
      BY <2>3 DEF FailRow, PersistDecision, DeferRow, WriteResult, StoreTypeOK
    <3>3. Held \subseteq Rows
      BY DEF Held, Undispatched, Queued, Working, Busy
    <3> QED
      BY <2>3, <3>1, <3>2, <3>3 DEF FailRow, PersistDecision, HeldClaimed, runVars
  <2>4. CASE Record(w) \/ PersistFault(w) \/ DeferFault(w)
    <3>1. Held' \subseteq Held
      BY <2>4 DEF Record, PersistFault, DeferFault, producerVars, loopVars, runVars, Held,
                  Undispatched, Queued, Working
    <3> QED
      BY <1>1, <2>4, <3>1 DEF Record, PersistFault, DeferFault, store, runVars
  <2> QED
    BY <1>7, <2>1, <2>2, <2>3, <2>4 DEF ConsumerStep
<1>8. CASE RequestShutdown \/ Finished \/ UNCHANGED vars
  <2>1. Held' = Held
    BY <1>8 DEF RequestShutdown, Finished, vars, producerVars, loopVars, consumerVars,
                runVars, Held, Undispatched, Queued, Working
  <2> QED
    BY <1>1, <1>8, <2>1 DEF RequestShutdown, Finished, vars, store, runVars
<1>9. ~ SuppressCommand /\ ~ RetryCommand
  BY DEF SuppressCommand, RetryCommand
<1> QED
  BY <1>2, <1>3, <1>4, <1>5, <1>6, <1>7, <1>8, <1>9
  DEF Next, RunStep, ProducerStep, Fault, WriteOutputs, AbortEnds, Crash

-----------------------------------------------------------------------------
(* The bookkeeping of the producer.                                        *)

LEMMA ClockNext == Structure /\ ClockInv /\ [Next]_vars => ClockInv'
<1> SUFFICES ASSUME Structure, ClockInv, [Next]_vars, NEW r \in Rows
             PROVE  claimedAt'[r] <= runs'
  BY DEF ClockInv
<1> USE DEF Structure, TypeOK, StoreTypeOK
<1>1. runs \in Nat /\ runs' \in {runs, runs + 1}
  <2>1. CASE Start
    BY <2>1, PoolAssumption DEF Start
  <2>2. runs \in Nat /\ (runs' = runs => runs' \in {runs, runs + 1})
    BY PoolAssumption
  <2>3. ASSUME RunStep \/ RequestShutdown \/ Crash \/ Finished \/ UNCHANGED vars
        PROVE  runs' = runs
    BY <2>3 DEF RunStep, IngestBatch, IngestDone, Reclaim, Requeue, Join, Retract, Unresolved,
       WriteOutputs, AbortEnds, EndProcess, RequestShutdown, Crash, Finished, vars, runVars
  <2>4. ASSUME ProducerStep \/ ProducerFault \/ SuppressCommand \/ RetryCommand
        PROVE  runs' = runs
    BY <2>4 DEF ProducerStep, ProduceTop, ProduceClaim, ProduceFeed, ProducePut,
       ProduceBatchDone, ProduceStop, ProduceRelease, ProducerFault, SuppressCommand,
       RetryCommand, runVars
  <2>5. ASSUME NEW w \in Workers, ConsumerStep(w) \/ PersistFault(w) \/ DeferFault(w)
        PROVE  runs' = runs
    BY <2>5 DEF ConsumerStep, Get, Resolve, ResolveRaises, FailRow, PersistRoutes,
       PersistDecision, PersistReview, Record, PersistFault, DeferFault, runVars
  <2> QED
    BY <2>1, <2>2, <2>3, <2>4, <2>5 DEF Next, Fault
<1>2. claimedAt'[r] \in {claimedAt[r], 0, runs}
  <2>1. CASE UNCHANGED store
    BY <2>1 DEF store
  <2>2. ASSUME NEW S \in SUBSET Rows,
               InsertRecords(S) \/ ReclaimStale(S) \/ Release(S) \/ ClaimBatch(S, runs)
        PROVE  claimedAt'[r] \in {claimedAt[r], 0, runs}
    BY <2>2 DEF InsertRecords, ReclaimStale, Release, ClaimBatch
  <2>3. CASE RecordSkippedResults \/ RequeueDeferred \/ RecordUnresolvedResults
             \/ RetractSharedUrls
    BY <2>3 DEF RecordSkippedResults, RequeueDeferred, RecordUnresolvedResults,
                RetractSharedUrls
  <2>4. ASSUME NEW reset \in BOOLEAN, RequeueFailed(reset)
        PROVE  claimedAt'[r] \in {claimedAt[r], 0, runs}
    BY <2>4 DEF RequeueFailed
  <2>5. ASSUME NEW q, RowTransaction(q) PROVE claimedAt'[r] \in {claimedAt[r], 0, runs}
    BY <2>5 DEF RowTransaction, WriteResult, AddContactRoutes, AddReviewCandidates,
                DeferRow, Suppress
  <2>6. ASSUME NEW w \in Workers, ConsumerStep(w)
        PROVE  (\E q : RowTransaction(q)) \/ UNCHANGED store
    BY <2>6 DEF ConsumerStep, Get, Resolve, ResolveRaises, FailRow, PersistRoutes,
                PersistDecision, PersistReview, Record, RowTransaction, RowInv, Outcome
  <2>7. ASSUME SuppressCommand PROVE \E q : RowTransaction(q)
    BY <2>7 DEF SuppressCommand, RowTransaction
  <2> QED
    BY <2>1, <2>2, <2>3, <2>4, <2>5, <2>6, <2>7
    DEF Next, vars, Start, RunStep, IngestBatch, IngestDone, Having,
        Reclaim, Requeue, Join, Retract, Unresolved, WriteOutputs, AbortEnds, EndProcess,
        ProducerStep, ProduceTop, ProduceClaim, ProduceFeed, ProducePut, ProduceBatchDone,
        ProduceStop, ProduceRelease, RequestShutdown, Fault,
        ProducerFault, PersistFault, DeferFault, Crash, RetryCommand, Finished
<1> QED
  BY <1>1, <1>2 DEF ClockInv

LEMMA InflightNext == Structure /\ OnePlace /\ InflightInv /\ [Next]_vars => InflightInv'
<1> SUFFICES ASSUME Structure, OnePlace, InflightInv, [Next]_vars, phase' = "pool"
             PROVE  InflightInv'
  BY DEF InflightInv
<1> USE DEF Structure, TypeOK, PhaseInv, RowInv
<1>1. CASE UNCHANGED <<phase, inflight, queue, putting, row, Busy>>
  BY <1>1 DEF InflightInv, Queued
<1>2. CASE Requeue
  BY <1>2 DEF Requeue, loopVars, InflightInv, Queued, Busy
<1>3. CASE ProduceFeed
  <2>1. PICK r \in todo :
          /\ inflight' = inflight \cup {r}
          /\ \/ queue' = Append(queue, r) /\ UNCHANGED <<pp, putting>>
             \/ pp' = "put" /\ putting' = r /\ UNCHANGED queue
    BY <1>3 DEF ProduceFeed
  <2>2. phase = "pool" /\ putting = NoRow /\ row' = row /\ Busy' = Busy
    BY <1>3 DEF ProduceFeed, consumerVars, Busy
  <2>3. CASE queue' = Append(queue, r) /\ UNCHANGED <<pp, putting>>
    <3>1. Queued' = Queued \cup {r}
      BY <2>3, QueueAppend
    <3> QED
      BY <2>1, <2>2, <2>3, <3>1 DEF InflightInv
  <2>4. CASE pp' = "put" /\ putting' = r /\ UNCHANGED queue
    <3>1. /\ Queued' = Queued /\ Busy' = Busy /\ row' = row
          /\ inflight' = inflight \cup {r} /\ putting' = r
      BY <2>1, <2>2, <2>4 DEF Queued
    <3>2. inflight \subseteq Queued \cup {row[w] : w \in Workers}
      BY <2>2, PoolAssumption DEF InflightInv
    <3> QED
      BY <2>2, <3>1, <3>2 DEF InflightInv
  <2> QED
    BY <2>1, <2>3, <2>4
<1>4. CASE ProducePut
  <2>1. /\ phase = "pool" /\ putting \in Rows /\ queue' = Append(queue, putting)
        /\ putting' = NoRow /\ row' = row /\ Busy' = Busy /\ inflight' = inflight
    BY <1>4, PoolAssumption DEF ProducePut, consumerVars, Busy
  <2>2. Queued' = Queued \cup {putting} /\ putting # NoRow
    BY <2>1, PoolAssumption, QueueAppend
  <2>3. putting \in inflight /\ inflight \subseteq Queued \cup {putting} \cup {row[w] : w \in Workers}
    BY <2>1, <2>2 DEF InflightInv
  <2> QED
    BY <2>1, <2>2, <2>3 DEF InflightInv
<1>5. ASSUME NEW w \in Workers, Get(w) PROVE InflightInv'
  <2>1. /\ Head(queue) \in Queued /\ Queued' = Queued \ {Head(queue)}
    BY <1>5, QueueTail DEF Get
  <2>2. /\ phase = "pool" /\ row' = [row EXCEPT ![w] = Head(queue)] /\ row[w] = NoRow
        /\ putting' = putting /\ inflight' = inflight /\ Busy' = Busy \cup {w}
    BY <1>5 DEF Get, producerVars, Busy
  <2> QED
    BY <2>1, <2>2, PoolAssumption DEF InflightInv
<1>6. ASSUME NEW w \in Workers, Record(w) \/ PersistFault(w) PROVE InflightInv'
  <2>1. /\ phase = "pool" /\ inflight' = inflight \ {row[w]} /\ queue' = queue
        /\ putting' = putting /\ w \in Busy /\ Busy' = Busy \ {w}
        /\ \A v \in Workers \ {w} : row'[v] = row[v]
    BY <1>6 DEF Record, PersistFault, producerVars, runVars, Busy
  <2>2. Queued' = Queued /\ \A v \in Busy' : v # w /\ row'[v] = row[v]
    BY <2>1 DEF Queued, Busy
  <2>3. row[w] \in Rows /\ row[w] # NoRow /\ row[w] \notin Queued /\ putting # row[w]
        /\ \A v \in Busy \ {w} : row[v] # row[w]
    BY <2>1, PoolAssumption DEF OnePlace, Busy
  <2> QED
    BY <2>1, <2>2, <2>3 DEF InflightInv
<1>7. ASSUME NEW w \in Workers, DeferFault(w) PROVE InflightInv'
  BY <1>7 DEF DeferFault, producerVars, loopVars, runVars, InflightInv, Queued, Busy
<1>8. CASE ProducerStep /\ ~ ProduceFeed /\ ~ ProducePut
  BY <1>1, <1>8 DEF ProducerStep, ProduceTop, ProduceClaim, ProduceBatchDone, ProduceStop,
     ProduceRelease, runVars, loopVars, consumerVars, Busy
<1>9. ASSUME NEW w \in Workers,
             \/ Resolve(w) \/ ResolveRaises(w) \/ FailRow(w) \/ PersistRoutes(w)
             \/ PersistDecision(w) \/ PersistReview(w)
      PROVE  UNCHANGED <<phase, inflight, queue, putting, row, Busy>>
  BY <1>9 DEF Resolve, ResolveRaises, FailRow, PersistRoutes, PersistDecision,
              PersistReview, producerVars, loopVars, runVars, Busy
<1>10. CASE RequestShutdown \/ SuppressCommand \/ RetryCommand \/ Finished \/ UNCHANGED vars
  BY <1>1, <1>10 DEF RequestShutdown, SuppressCommand, RetryCommand, Finished, vars,
     runVars, producerVars, loopVars, consumerVars, Busy
<1>11. ~ (\/ Start \/ IngestBatch \/ IngestDone \/ Reclaim \/ Join \/ Retract \/ Unresolved
          \/ EndProcess \/ ProducerFault)
  BY DEF Start, IngestBatch, IngestDone, Reclaim, Join, Retract, Unresolved, EndProcess,
         ProducerFault
<1> QED
  BY <1>1, <1>2, <1>3, <1>4, <1>5, <1>6, <1>7, <1>8, <1>9, <1>10, <1>11
  DEF Next, RunStep, ConsumerStep, Fault, WriteOutputs, AbortEnds, Crash

LEMMA BatchNext ==
    Structure /\ OnePlace /\ InflightInv /\ BatchInv /\ [Next]_vars => BatchInv'
<1> SUFFICES ASSUME Structure, OnePlace, InflightInv, BatchInv, [Next]_vars PROVE BatchInv'
  OBVIOUS
<1> USE DEF Structure, TypeOK, PhaseInv, RowInv
<1>1. CASE pp' \notin {"feed", "put", "release"}
  BY <1>1 DEF BatchInv
<1>2. CASE /\ UNCHANGED <<pp, batch, todo, queue, row>>
           /\ \A w \in Workers : Working(w)' => Working(w)
  BY <1>2 DEF BatchInv, Queued
<1>3. CASE \/ Start \/ IngestBatch \/ IngestDone \/ Reclaim \/ Requeue \/ Join \/ Retract
           \/ Unresolved \/ EndProcess \/ ProducerFault
  BY <1>1, <1>3 DEF Start, IngestBatch, IngestDone, Reclaim, Requeue, Join, Retract,
     Unresolved, EndProcess, ProducerFault, producerVars
<1>4. CASE ProduceTop \/ ProduceBatchDone \/ ProduceRelease
  BY <1>1, <1>4 DEF ProduceTop, ProduceBatchDone, ProduceRelease
<1>5. CASE ProduceClaim \/ ProduceFeed \/ ProducePut
  BY <1>5 DEF ProduceClaim, ProduceFeed, ProducePut, BatchInv
<1>6. CASE ProduceStop
  <2>1. /\ phase = "pool" /\ pp' = "release" /\ todo' = batch \ inflight
        /\ UNCHANGED <<queue, row, pc, phase>>
    BY <1>6 DEF ProduceStop, loopVars, consumerVars, runVars
  <2>2. Queued' = Queued /\ \A w \in Workers : Working(w)' => w \in Busy
    BY <2>1 DEF Queued, Working, Busy
  <2> QED
    BY <2>1, <2>2 DEF InflightInv, BatchInv
<1>7. ASSUME NEW w \in Workers, Get(w) PROVE BatchInv'
  <2>1. Head(queue) \in Queued /\ Queued' = Queued \ {Head(queue)}
    BY <1>7, QueueTail DEF Get
  <2>2. /\ UNCHANGED <<pp, batch, todo>> /\ row' = [row EXCEPT ![w] = Head(queue)]
        /\ \A v \in Workers \ {w} : Working(v)' => Working(v)
    BY <1>7 DEF Get, producerVars, runVars, Working
  <2> QED
    BY <2>1, <2>2 DEF BatchInv
<1>8. ASSUME NEW w \in Workers, Record(w) PROVE BatchInv'
  <2>1. /\ UNCHANGED <<pp, batch, todo, queue>> /\ row' = [row EXCEPT ![w] = NoRow]
        /\ \A v \in Workers : Working(v)' => v # w /\ Working(v)
    BY <1>8 DEF Record, producerVars, runVars, Working
  <2> QED
    BY <2>1 DEF BatchInv, Queued
<1>9. ASSUME NEW w \in Workers,
             \/ Resolve(w) \/ ResolveRaises(w) \/ FailRow(w) \/ PersistRoutes(w)
             \/ PersistDecision(w) \/ PersistReview(w) \/ PersistFault(w) \/ DeferFault(w)
      PROVE  BatchInv'
  <2>1. UNCHANGED <<pp, batch, todo, queue, row, phase>>
    BY <1>9 DEF Resolve, ResolveRaises, FailRow, PersistRoutes, PersistDecision,
                PersistReview, PersistFault, DeferFault, producerVars, loopVars, runVars
  <2>2. \A v \in Workers : Working(v)' => Working(v)
    BY <1>9, <2>1 DEF Resolve, ResolveRaises, FailRow, PersistRoutes, PersistDecision,
                PersistReview, PersistFault, DeferFault, Working
  <2> QED
    BY <1>2, <2>1, <2>2
<1>10. CASE RequestShutdown \/ SuppressCommand \/ RetryCommand \/ Finished \/ UNCHANGED vars
  BY <1>2, <1>10 DEF RequestShutdown, SuppressCommand, RetryCommand, Finished, vars,
     runVars, producerVars, loopVars, consumerVars, Working
<1> QED
  BY <1>3, <1>4, <1>5, <1>6, <1>7, <1>8, <1>9, <1>10
  DEF Next, RunStep, ProducerStep, ConsumerStep, Fault, WriteOutputs, AbortEnds, Crash

LEMMA StatusNext ==
    ASSUME Commands = {}
    PROVE  Structure /\ StatusInv /\ OnePlace /\ HeldClaimed /\ [Next]_vars => StatusInv'
<1> SUFFICES ASSUME Structure, StatusInv, OnePlace, HeldClaimed, [Next]_vars
             PROVE  StatusInv'
  OBVIOUS
<1> USE DEF Structure, TypeOK, PhaseInv, RowInv
<1>1. CASE /\ UNCHANGED <<status, row>>
           /\ phase' = "pool" /\ pp' # "done" => phase = "pool" /\ pp # "done"
           /\ \A w \in Workers : pc'[w] = "failed" => pc[w] = "failed"
  BY <1>1 DEF StatusInv
<1>2. CASE (phase' # "pool" \/ pp' = "done") /\ \A w \in Workers : pc'[w] # "failed"
  BY <1>2 DEF StatusInv
<1>3. CASE \/ Start \/ IngestBatch \/ IngestDone \/ Reclaim \/ Join \/ Retract \/ Unresolved
           \/ EndProcess
  BY <1>2, <1>3 DEF Start, IngestBatch, IngestDone, Reclaim, Join, Retract, Unresolved,
                    EndProcess, consumerVars
<1>4. CASE Requeue
  BY <1>4 DEF Requeue, StatusInv
<1>5. CASE ProduceTop \/ ProduceBatchDone \/ ProduceStop \/ ProduceFeed \/ ProducePut
  BY <1>1, <1>5 DEF ProduceTop, ProduceBatchDone, ProduceStop, ProduceFeed, ProducePut,
                    store, runVars, consumerVars
<1>6. CASE ProduceClaim
  <2>1. PICK S \in SUBSET Having("pending") : ClaimBatch(S, runs)
    BY <1>6 DEF ProduceClaim
  <2>2. UNCHANGED <<pc, row>> /\ phase = "pool" /\ pp # "done"
    BY <1>6 DEF ProduceClaim, consumerVars
  <2>3. \A r \in Rows : status'[r] = status[r] \/ status'[r] = "claimed"
    BY <2>1 DEF ClaimBatch
  <2>4. \A w \in Workers : pc[w] = "failed" => row[w] \in Rows
    BY DEF Busy
  <2> QED
    BY <2>2, <2>3, <2>4 DEF StatusInv
<1>7. CASE ProduceRelease \/ ProducerFault
  <2>1. \A r \in Rows : \/ status'[r] = status[r]
                        \/ status[r] = "claimed" /\ status'[r] = "pending"
    BY <1>7 DEF ProduceRelease, ProducerFault, Release, Having
  <2>2. /\ row' = row /\ (phase' # "pool" \/ pp' = "done")
        /\ \A w \in Workers : pc'[w] = "failed" => pc[w] = "failed"
    BY <1>7 DEF ProduceRelease, ProducerFault, consumerVars
  <2>3. \A w \in Workers : pc[w] = "failed" => row[w] \in Rows
    BY DEF Busy
  <2> QED
    BY <2>1, <2>2, <2>3 DEF StatusInv
<1>8. ASSUME NEW w \in Workers, Get(w) PROVE StatusInv'
  <2>1. Head(queue) \in Held
    BY <1>8, QueueTail DEF Get, Held
  <2>2. /\ row' = [row EXCEPT ![w] = Head(queue)] /\ pc' = [pc EXCEPT ![w] = "resolve"]
        /\ UNCHANGED <<status, phase, pp>>
    BY <1>8 DEF Get, producerVars, runVars, store
  <2> QED
    BY <2>1, <2>2 DEF StatusInv, HeldClaimed
<1>9. ASSUME NEW w \in Workers, ResolveRaises(w) PROVE StatusInv'
  <2>1. status[row[w]] = "claimed"
    BY <1>9 DEF ResolveRaises, HeldClaimed, Held, Working
  <2>2. pc' = [pc EXCEPT ![w] = "failed"] /\ UNCHANGED <<status, row, phase, pp>>
    BY <1>9 DEF ResolveRaises, producerVars, runVars, store
  <2> QED
    BY <2>1, <2>2 DEF StatusInv
<1>10. ASSUME NEW w \in Workers, FailRow(w) \/ PersistDecision(w) PROVE StatusInv'
  <2>1. row[w] \in Rows /\ row[w] # NoRow
    BY <1>10, PoolAssumption DEF FailRow, PersistDecision, Busy
  <2>2. /\ status'[row[w]] \in {"deferred", "done"}
        /\ \A r \in Rows \ {row[w]} : status'[r] = status[r]
    BY <1>10, <2>1 DEF FailRow, PersistDecision, DeferRow, WriteResult, StoreTypeOK
  <2>3. /\ UNCHANGED <<row, phase, pp>> /\ pc'[w] # "failed"
        /\ \A v \in Workers \ {w} : pc'[v] = pc[v]
    BY <1>10 DEF FailRow, PersistDecision, producerVars, runVars
  <2>4. \A v \in Workers \ {w} : row[v] # row[w]
    BY <2>1 DEF OnePlace
  <2>5. \A v \in Workers : pc[v] = "failed" => row[v] \in Rows
    BY DEF Busy
  <2> QED
    BY <2>2, <2>3, <2>4, <2>5 DEF StatusInv
<1>11. ASSUME NEW w \in Workers, Record(w) PROVE StatusInv'
  <2>1. /\ row' = [row EXCEPT ![w] = NoRow] /\ pc' = [pc EXCEPT ![w] = "get"]
        /\ UNCHANGED <<status, phase, pp>>
    BY <1>11 DEF Record, producerVars, runVars, store
  <2> QED
    BY <2>1 DEF StatusInv
<1>12. ASSUME NEW w \in Workers,
              \/ Resolve(w) \/ PersistRoutes(w) \/ PersistReview(w) \/ PersistFault(w)
              \/ DeferFault(w)
       PROVE  StatusInv'
  BY <1>1, <1>12 DEF Resolve, PersistRoutes, PersistReview, PersistFault, DeferFault,
     producerVars, runVars, store, AddContactRoutes, AddReviewCandidates
<1>13. CASE RequestShutdown \/ Finished \/ UNCHANGED vars
  BY <1>1, <1>13 DEF RequestShutdown, Finished, vars, store, runVars, producerVars,
                     consumerVars
<1>14. ~ SuppressCommand /\ ~ RetryCommand
  BY DEF SuppressCommand, RetryCommand
<1> QED
  BY <1>3, <1>4, <1>5, <1>6, <1>7, <1>8, <1>9, <1>10, <1>11, <1>12, <1>13, <1>14
  DEF Next, RunStep, ProducerStep, ConsumerStep, Fault, WriteOutputs, AbortEnds, Crash

-----------------------------------------------------------------------------
(* A claimed row stays in somebody's hands: every step that takes it from  *)
(* one place puts it into another one, releases it, or settles it.         *)
LEMMA NothingLostNext ==
    ASSUME Commands = {}
    PROVE  Structure /\ Claims /\ [Next]_vars => NothingLost'
<1> DEFINE Kept(r) == \/ r \in Held
                      \/ r \in todo /\ (pp = "release" \/ phase = "abort")
                      \/ \E w \in Workers : pc[w] = "dead" /\ row[w] = r
<1> SUFFICES ASSUME Structure, Claims, [Next]_vars, phase' # "down",
                    NEW r \in Rows, status'[r] = "claimed", claimedAt'[r] = runs'
             PROVE  Kept(r)'
  BY DEF NothingLost
<1> USE DEF Structure, TypeOK, PhaseInv, RowInv, Claims, SingleHolder
<1>1. CASE phase # "down" /\ status[r] = "claimed" /\ claimedAt[r] = runs
  <2>0. Kept(r)
    BY <1>1 DEF NothingLost
  <2>1. CASE /\ UNCHANGED <<todo, row>> /\ Held \subseteq Held'
             /\ pp = "release" \/ phase = "abort" => pp' = "release" \/ phase' = "abort"
             /\ \A w \in Workers : pc[w] = "dead" => pc'[w] = "dead"
    BY <2>0, <2>1
  <2>2. CASE IngestBatch \/ IngestDone \/ Reclaim \/ Requeue
    BY <2>0, <2>2, PoolAssumption DEF IngestBatch, IngestDone, Reclaim, Requeue, Held,
       Undispatched, Queued, Working
  <2>3. CASE Retract \/ Unresolved
    <3>1. Held' = Held
      BY <2>3 DEF Retract, Unresolved, Held, Undispatched, Queued, Working, producerVars,
                  loopVars, consumerVars
    <3> QED
      BY <2>1, <2>3, <3>1 DEF Retract, Unresolved, producerVars, consumerVars
  <2>4. CASE ProduceTop \/ ProduceBatchDone
    <3>1. Held' = Held
      BY <2>4 DEF ProduceTop, ProduceBatchDone, Held, Undispatched, Queued, Working,
                  loopVars, consumerVars, runVars
    <3> QED
      BY <2>1, <2>4, <3>1 DEF ProduceTop, ProduceBatchDone, consumerVars
  <2>5. CASE ProduceFeed
    <3>1. PICK s \in todo :
            /\ todo' = todo \ {s}
            /\ \/ queue' = Append(queue, s) /\ UNCHANGED <<pp, putting>>
               \/ pp' = "put" /\ putting' = s /\ UNCHANGED queue
      BY <2>5 DEF ProduceFeed
    <3>2. /\ phase = "pool" /\ pp = "feed" /\ putting = NoRow /\ s \in Rows
          /\ UNCHANGED <<row, pc, phase>>
      BY <2>5 DEF ProduceFeed, consumerVars, runVars
    <3>3. Queued \cup {s} \subseteq Queued' \cup {putting'} /\ Queued \subseteq Queued'
      <4>1. queue' = Append(queue, s) => Queued' = Queued \cup {s}
        BY <3>2, QueueAppend
      <4>2. queue' = queue => Queued' = Queued
        BY DEF Queued
      <4> QED
        BY <3>1, <4>1, <4>2
    <3>4. Undispatched \subseteq Undispatched' \cup {s} /\ s # NoRow
      BY <3>1, <3>2, PoolAssumption DEF Undispatched
    <3>5. \A w \in Workers : Working(w) => Working(w)'
      BY <3>2 DEF Working
    <3>6. Held \subseteq Held'
      BY <3>2, <3>3, <3>4, <3>5 DEF Held
    <3> QED
      BY <2>0, <3>2, <3>6
  <2>6. CASE ProducePut
    <3>1. Queued' = Queued \cup {putting} /\ putting # NoRow
      BY <2>6, PoolAssumption, QueueAppend DEF ProducePut
    <3>2. UNCHANGED <<row, pc, phase, todo>> /\ Undispatched' = Undispatched
      BY <2>6 DEF ProducePut, consumerVars, runVars, Undispatched
    <3>3. Held \subseteq Held'
      BY <3>1, <3>2 DEF Held, Working
    <3> QED
      BY <2>1, <2>6, <3>2, <3>3 DEF ProducePut
  <2>7. CASE ProduceClaim
    <3>1. /\ UNCHANGED <<row, pc, phase, queue, putting>> /\ Undispatched = {}
          /\ phase = "pool" /\ pp = "claim"
      BY <2>7 DEF ProduceClaim, consumerVars, runVars, loopVars, Undispatched
    <3>2. Held \subseteq Held'
      BY <3>1 DEF Held, Working, Queued
    <3> QED
      BY <2>0, <3>1, <3>2
  <2>8. CASE ProduceStop
    <3>1. /\ UNCHANGED <<row, pc, phase, queue, putting>> /\ todo' = batch \ inflight
          /\ phase = "pool" /\ pp = "feed" /\ pp' = "release" /\ putting = NoRow
          /\ Undispatched = todo
      BY <2>8 DEF ProduceStop, consumerVars, runVars, loopVars, Undispatched
    <3>2. todo \subseteq batch /\ todo \cap inflight = {}
      BY <3>1, PoolAssumption DEF BatchInv, InflightInv, OnePlace
    <3>3. r \in Held => r \in todo \/ r \in Held'
      BY <3>1 DEF Held, Working, Queued
    <3> QED
      BY <2>0, <3>1, <3>2, <3>3
  <2>9. CASE ProduceRelease
    <3>1. r \notin todo
      BY <2>9 DEF ProduceRelease, Release, Having
    <3>2. Held \subseteq Held'
      BY <2>9 DEF ProduceRelease, Held, Working, Queued, Undispatched, consumerVars, runVars,
                  loopVars
    <3> QED
      BY <2>0, <2>9, <3>1, <3>2 DEF ProduceRelease, consumerVars
  <2>10. ASSUME NEW w \in Workers, Get(w) PROVE Kept(r)'
    <3>1. Queued \subseteq Queued' \cup {Head(queue)}
      BY <2>10, QueueTail DEF Get
    <3>2. /\ row' = [row EXCEPT ![w] = Head(queue)] /\ pc' = [pc EXCEPT ![w] = "resolve"]
          /\ pc[w] = "get" /\ UNCHANGED <<phase, putting, todo, pp, Undispatched>>
      BY <2>10 DEF Get, producerVars, runVars, Undispatched
    <3>3. /\ Working(w)' /\ row'[w] = Head(queue)
          /\ \A v \in Workers : Working(v) => v # w /\ Working(v)' /\ row'[v] = row[v]
      BY <3>2 DEF Working
    <3>4. Held \subseteq Held'
      BY <3>1, <3>2, <3>3 DEF Held
    <3> QED
      BY <2>0, <3>2, <3>4
  <2>11. ASSUME NEW w \in Workers,
                Resolve(w) \/ ResolveRaises(w) \/ PersistRoutes(w) \/ PersistReview(w)
         PROVE  Kept(r)'
    <3>1. /\ UNCHANGED <<row, phase, queue, putting, todo, pp, Undispatched>>
          /\ \A v \in Workers : (Working(v) => Working(v)') /\ (pc[v] = "dead" => pc'[v] = "dead")
      BY <2>11 DEF Resolve, ResolveRaises, PersistRoutes, PersistReview, producerVars,
                   runVars, loopVars, Undispatched, Working
    <3>2. Held \subseteq Held'
      BY <3>1 DEF Held, Queued
    <3> QED
      BY <2>1, <3>1, <3>2
  <2>12. ASSUME NEW w \in Workers, FailRow(w) \/ PersistDecision(w) PROVE Kept(r)'
    <3>1. r # row[w]
      BY <2>12 DEF FailRow, PersistDecision, DeferRow, WriteResult, StoreTypeOK, Busy
    <3>2. /\ UNCHANGED <<row, phase, queue, putting, todo, pp, Undispatched>>
          /\ \A v \in Workers \ {w} : pc'[v] = pc[v]
          /\ pc[w] # "dead"
      BY <2>12 DEF FailRow, PersistDecision, producerVars, runVars, loopVars, Undispatched
    <3>3. r \in Held => r \in Held'
      BY <3>1, <3>2 DEF Held, Queued, Working
    <3> QED
      BY <2>0, <3>2, <3>3
  <2>13. ASSUME NEW w \in Workers, Record(w) PROVE Kept(r)'
    <3>1. /\ UNCHANGED <<phase, queue, putting, todo, pp, Undispatched>>
          /\ pc[w] = "record"
          /\ \A v \in Workers \ {w} : pc'[v] = pc[v] /\ row'[v] = row[v]
      BY <2>13 DEF Record, producerVars, runVars, Undispatched
    <3>2. Held \subseteq Held'
      BY <3>1 DEF Held, Queued, Working
    <3> QED
      BY <2>0, <3>1, <3>2
  <2>14. ASSUME NEW w \in Workers, PersistFault(w) \/ DeferFault(w) PROVE Kept(r)'
    <3>1. /\ UNCHANGED <<row, phase, queue, putting, todo, pp, Undispatched>>
          /\ pc' = [pc EXCEPT ![w] = "dead"]
      BY <2>14 DEF PersistFault, DeferFault, producerVars, runVars, loopVars, Undispatched
    <3>2. r \in Held => r \in Held' \/ r = row[w]
      BY <3>1 DEF Held, Queued, Working
    <3> QED
      BY <2>0, <3>1, <3>2
  <2>15. CASE ProducerFault
    <3> DEFINE persisting == {row[w] : w \in {v \in Workers :
                                pc[v] \in {"routes", "decide", "review", "record"}}}
    <3>1. r \notin inflight \/ r \in persisting
      BY <2>15 DEF ProducerFault, Release, Having
    <3>2. /\ UNCHANGED <<row, todo>> /\ phase = "pool" /\ phase' = "abort"
          /\ putting = NoRow /\ Undispatched = {}
          /\ pc' = [w \in Workers |-> IF pc[w] \in {"get", "resolve"} THEN "off" ELSE pc[w]]
      BY <2>15 DEF ProducerFault, Undispatched
    <3>3. r \notin Queued
      BY <3>1, <3>2 DEF InflightInv, OnePlace
    <3>4. ASSUME NEW w \in Workers, Working(w), row[w] = r
          PROVE  Working(w)' /\ row'[w] = r
      <4>1. w \in Busy /\ r \in inflight
        BY <3>2, <3>4 DEF Working, Busy, InflightInv
      <4>2. PICK v \in Workers : pc[v] \in {"routes", "decide", "review", "record"} /\ row[v] = r
        BY <3>1, <4>1
      <4>3. v = w
        BY <3>4, <4>2, PoolAssumption DEF OnePlace
      <4> QED
        BY <3>2, <3>4, <4>2, <4>3 DEF Working
    <3>5. r \in Held => r \in Held'
      BY <3>2, <3>3, <3>4 DEF Held
    <3> QED
      BY <2>0, <3>2, <3>5
  <2>16. CASE Join
    <3>1. Busy = {} /\ queue = <<>>
      BY <2>16, BusyCount, FS_EmptySet DEF Join, CountInv, Live
    <3>2. Held = {}
      BY <2>16, <3>1 DEF Join, Held, Undispatched, Queued, Working, Busy
    <3> QED
      BY <2>0, <2>16, <3>2 DEF Join
  <2>17. CASE RequestShutdown \/ Finished \/ UNCHANGED vars
    <3>1. Held' = Held
      BY <2>17 DEF RequestShutdown, Finished, vars, producerVars, loopVars, consumerVars,
                   runVars, Held, Undispatched, Queued, Working
    <3> QED
      BY <2>1, <2>17, <3>1 DEF RequestShutdown, Finished, vars, producerVars, consumerVars,
                               runVars
  <2>18. ~ (Start \/ EndProcess \/ SuppressCommand \/ RetryCommand)
    BY <1>1 DEF Start, EndProcess, SuppressCommand, RetryCommand
  <2> QED
    BY <2>2, <2>3, <2>4, <2>5, <2>6, <2>7, <2>8, <2>9, <2>10, <2>11, <2>12, <2>13, <2>14,
       <2>15, <2>16, <2>17, <2>18
    DEF Next, RunStep, ProducerStep, ConsumerStep, Fault, WriteOutputs, AbortEnds, Crash
<1>2. CASE ~ (phase # "down" /\ status[r] = "claimed" /\ claimedAt[r] = runs)
  <2>1. ~ (\/ Start \/ EndProcess \/ Finished \/ UNCHANGED vars \/ SuppressCommand
           \/ RetryCommand)
    BY <1>2, PoolAssumption DEF Start, EndProcess, Finished, vars, SuppressCommand,
       RetryCommand, store, runVars, ClockInv, StoreTypeOK
  <2>2. ~ (\/ IngestBatch \/ IngestDone \/ Reclaim \/ Requeue \/ Retract \/ Unresolved
           \/ RequestShutdown)
    <3>1. ~ (RequestShutdown \/ Retract \/ Unresolved \/ IngestDone)
      BY <1>2 DEF RequestShutdown, Retract, Unresolved, IngestDone, store, runVars,
         RecordSkippedResults, RetractSharedUrls, RecordUnresolvedResults
    <3>2. ~ (IngestBatch \/ Reclaim \/ Requeue)
      BY <1>2 DEF IngestBatch, Reclaim, Requeue, runVars, InsertRecords, ReclaimStale,
         RequeueDeferred
    <3> QED
      BY <3>1, <3>2
  <2>3. ~ (\/ ProduceTop \/ ProduceFeed \/ ProducePut \/ ProduceBatchDone \/ ProduceStop
           \/ ProduceRelease \/ ProducerFault \/ Join)
    BY <1>2 DEF ProduceTop, ProduceFeed, ProducePut, ProduceBatchDone, ProduceStop,
       ProduceRelease, ProducerFault, Join, store, runVars, Release
  <2>4. ASSUME NEW w \in Workers
        PROVE  ~ (ConsumerStep(w) \/ PersistFault(w) \/ DeferFault(w))
    BY <1>2 DEF ConsumerStep, Get, Resolve, ResolveRaises, FailRow, PersistRoutes,
       PersistDecision, PersistReview, Record, PersistFault, DeferFault, Live, store, runVars,
       AddContactRoutes, AddReviewCandidates, DeferRow, WriteResult, StoreTypeOK, Busy
  <2>5. CASE ProduceClaim
    <3>1. PICK S \in SUBSET Having("pending") :
            /\ ClaimBatch(S, runs) /\ todo' = S
            /\ pp' = IF S = {} THEN "done" ELSE "feed"
      BY <2>5 DEF ProduceClaim
    <3>2. r \in S
      BY <1>2, <2>5, <3>1 DEF ProduceClaim, ClaimBatch, runVars
    <3> QED
      BY <3>1, <3>2 DEF Held, Undispatched
  <2> QED
    BY <2>1, <2>2, <2>3, <2>4, <2>5
    DEF Next, RunStep, ProducerStep, Fault, WriteOutputs, AbortEnds, Crash
<1> QED
  BY <1>1, <1>2

-----------------------------------------------------------------------------
(* What is charged to a row, and what an open row may show.                *)

(* The row a consumer defers or decides is open while it does so.          *)
LEMMA WorkedRowOpen ==
    ASSUME Structure, StatusInv, HeldClaimed, NEW w \in Workers, pc[w] \in {"failed", "decide"}
    PROVE  row[w] \in Rows /\ status[row[w]] \in {"claimed", "pending"}
<1>1. CASE pc[w] = "failed"
  BY <1>1 DEF StatusInv, Structure, RowInv, Busy
<1>2. CASE pc[w] = "decide"
  BY <1>2 DEF HeldClaimed, Held, Working, Structure, RowInv, Busy
<1> QED
  BY <1>1, <1>2

(* A step of the run is one of these transactions.                         *)
LEMMA PoolWrites ==
    ASSUME Commands = {}, Structure, [Next]_vars
    PROVE  \/ UNCHANGED <<status, attempts, result>>
           \/ \E S \in SUBSET Rows : InsertRecords(S) \/ ReclaimStale(S) \/ Release(S)
           \/ \E S \in SUBSET Having("pending") : ClaimBatch(S, runs)
           \/ RecordSkippedResults \/ RequeueDeferred \/ RecordUnresolvedResults
           \/ RetractSharedUrls
           \/ \E w \in Workers : \/ pc[w] \in {"failed", "decide"} /\ DeferRow(row[w])
                                 \/ /\ pc[w] = "decide" /\ out[w] \in Outcome
                                    /\ WriteResult(row[w], out[w])
<1> USE DEF Structure, TypeOK, RowInv
<1>1. CASE \/ Start \/ EndProcess \/ Finished \/ RequestShutdown \/ UNCHANGED vars
           \/ ProduceTop \/ ProduceFeed \/ ProducePut \/ ProduceBatchDone \/ ProduceStop
  BY <1>1 DEF Start, EndProcess, Finished, RequestShutdown, vars, ProduceTop, ProduceFeed,
              ProducePut, ProduceBatchDone, ProduceStop, store
<1>2. CASE \/ IngestBatch \/ IngestDone \/ Reclaim \/ Requeue \/ Retract \/ Unresolved
  BY <1>2 DEF IngestBatch, IngestDone, Reclaim, Requeue, Retract, Unresolved
<1>3. CASE ProduceClaim \/ ProduceRelease \/ ProducerFault \/ Join
  <2>1. todo \in SUBSET Rows /\ inflight \in SUBSET Rows
    OBVIOUS
  <2>2. CASE ProduceClaim
    BY <2>2 DEF ProduceClaim
  <2>3. CASE ProduceRelease
    BY <2>1, <2>3 DEF ProduceRelease
  <2>4. CASE ProducerFault
    BY <2>1, <2>4 DEF ProducerFault
  <2>5. CASE Join
    BY <2>1, <2>5 DEF Join
  <2> QED
    BY <1>3, <2>2, <2>3, <2>4, <2>5
<1>4. ASSUME NEW w \in Workers,
             \/ Get(w) \/ Resolve(w) \/ ResolveRaises(w) \/ PersistRoutes(w)
             \/ PersistReview(w) \/ Record(w) \/ PersistFault(w) \/ DeferFault(w)
      PROVE  UNCHANGED <<status, attempts, result>>
  BY <1>4 DEF Get, Resolve, ResolveRaises, PersistRoutes, PersistReview, Record,
              PersistFault, DeferFault, store, AddContactRoutes, AddReviewCandidates
<1>5. ASSUME NEW w \in Workers, FailRow(w) \/ PersistDecision(w)
      PROVE  \/ pc[w] \in {"failed", "decide"} /\ DeferRow(row[w])
             \/ pc[w] = "decide" /\ out[w] \in Outcome /\ WriteResult(row[w], out[w])
  BY <1>5 DEF FailRow, PersistDecision
<1>6. ~ SuppressCommand /\ ~ RetryCommand
  BY DEF SuppressCommand, RetryCommand
<1> QED
  BY <1>1, <1>2, <1>3, <1>4, <1>5, <1>6
  DEF Next, RunStep, ProducerStep, ConsumerStep, Fault, WriteOutputs, AbortEnds, Crash

LEMMA BudgetNext ==
    ASSUME Commands = {}
    PROVE  Structure /\ Claims /\ BudgetRespected /\ [Next]_vars => BudgetRespected'
<1> SUFFICES ASSUME Structure, Claims, BudgetRespected, [Next]_vars, NEW r \in Rows
             PROVE  /\ attempts'[r] <= MaxAttempts
                    /\ status'[r] \notin {"done", "skipped"} => attempts'[r] < MaxAttempts
  BY DEF BudgetRespected
<1> USE StoreAssumption DEF Structure, TypeOK, StoreTypeOK, Claims, SingleHolder,
                            BudgetRespected, Having
<1>0. attempts[r] \in Nat
  OBVIOUS
<1>1. CASE UNCHANGED <<status, attempts, result>>
  BY <1>1 DEF BudgetRespected
<1>2. ASSUME NEW S \in SUBSET Rows, InsertRecords(S) \/ ReclaimStale(S) \/ Release(S)
      PROVE  /\ attempts' = attempts
             /\ status'[r] \notin {"done", "skipped"} => status[r] \notin {"done", "skipped"}
  BY <1>2 DEF InsertRecords, ReclaimStale, Release, Abandoned
<1>3. ASSUME NEW S \in SUBSET Having("pending"), ClaimBatch(S, runs)
      PROVE  /\ attempts' = attempts
             /\ status'[r] \notin {"done", "skipped"} => status[r] \notin {"done", "skipped"}
  BY <1>3 DEF ClaimBatch
<1>4. CASE RecordSkippedResults \/ RequeueDeferred \/ RecordUnresolvedResults
           \/ RetractSharedUrls
  <2>1. attempts' = attempts /\ (status'[r] = status[r] \/ status[r] = "deferred")
    BY <1>4 DEF RecordSkippedResults, RequeueDeferred, RecordUnresolvedResults,
                RetractSharedUrls
  <2> QED
    BY <2>1
<1>5. ASSUME NEW w \in Workers, pc[w] \in {"failed", "decide"},
             DeferRow(row[w]) \/ WriteResult(row[w], out[w])
      PROVE  /\ attempts'[r] <= MaxAttempts
             /\ status'[r] \notin {"done", "skipped"} => attempts'[r] < MaxAttempts
  <2>1. row[w] \in Rows /\ attempts[row[w]] < MaxAttempts
    BY <1>5, WorkedRowOpen
  <2>2. CASE WriteResult(row[w], out[w])
    BY <2>1, <2>2 DEF WriteResult
  <2>3. CASE DeferRow(row[w])
    BY <2>1, <2>3 DEF DeferRow
  <2> QED
    BY <1>5, <2>2, <2>3
<1> QED
  BY <1>1, <1>2, <1>3, <1>4, <1>5, PoolWrites

LEMMA UnansweredNext ==
    ASSUME Commands = {}
    PROVE  Structure /\ Claims /\ OpenRowsUnanswered /\ [Next]_vars => OpenRowsUnanswered'
<1> DEFINE Open(s) == s \in {"absent", "pending", "claimed", "deferred"}
           Unanswered(d) == d \in {"none", "blank_error"}
<1> SUFFICES ASSUME Structure, Claims, OpenRowsUnanswered, [Next]_vars, NEW r \in Rows
             PROVE  Open(status'[r]) => Unanswered(result'[r].decision)
  BY DEF OpenRowsUnanswered
<1> USE DEF Structure, TypeOK, StoreTypeOK, Claims, SingleHolder, OpenRowsUnanswered,
            Having, Blank
<1>1. CASE UNCHANGED <<status, attempts, result>>
  BY <1>1
<1>2. ASSUME NEW S \in SUBSET Rows, InsertRecords(S) \/ ReclaimStale(S) \/ Release(S)
      PROVE  result' = result /\ (Open(status'[r]) => Open(status[r]))
  BY <1>2 DEF InsertRecords, ReclaimStale, Release, Abandoned
<1>3. ASSUME NEW S \in SUBSET Having("pending"), ClaimBatch(S, runs)
      PROVE  result' = result /\ (Open(status'[r]) => Open(status[r]))
  BY <1>3 DEF ClaimBatch
<1>4. CASE RecordSkippedResults \/ RequeueDeferred \/ RecordUnresolvedResults
  <2>1. CASE RecordSkippedResults
    BY <2>1 DEF RecordSkippedResults
  <2>2. CASE RequeueDeferred
    BY <2>2 DEF RequeueDeferred
  <2>3. CASE RecordUnresolvedResults
    BY <2>3 DEF RecordUnresolvedResults
  <2> QED
    BY <1>4, <2>1, <2>2, <2>3
<1>5. CASE RetractSharedUrls
  BY <1>5 DEF RetractSharedUrls, Matched
<1>6. ASSUME NEW w \in Workers, pc[w] \in {"failed", "decide"},
             DeferRow(row[w]) \/ WriteResult(row[w], out[w])
      PROVE  Open(status'[r]) => Unanswered(result'[r].decision)
  <2>1. row[w] \in Rows
    BY <1>6, WorkedRowOpen
  <2>2. CASE WriteResult(row[w], out[w])
    BY <2>1, <2>2 DEF WriteResult
  <2>3. CASE DeferRow(row[w])
    <3>1. r # row[w] => status'[r] = status[r] /\ result'[r] = result[r]
      BY <2>1, <2>3 DEF DeferRow
    <3>2. r = row[w] => \/ result'[r] = result[r] /\ Open(status[r])
                        \/ status'[r] = "done"
      BY <1>6, <2>1, <2>3, WorkedRowOpen DEF DeferRow
    <3> QED
      BY <3>1, <3>2
  <2> QED
    BY <1>6, <2>2, <2>3
<1> QED
  BY <1>1, <1>2, <1>3, <1>4, <1>5, <1>6, PoolWrites

-----------------------------------------------------------------------------
(* The invariant, and what follows from it.                                *)

LEMMA InvariantInit == Init => IInv
<1> SUFFICES ASSUME Init PROVE IInv
  OBVIOUS
<1>1. Structure
  BY StructureInit
<1>2. InflightInv /\ BatchInv /\ ClockInv /\ NothingLost
  BY DEF Init, StoreInit, InflightInv, BatchInv, ClockInv, NothingLost
<1>3. StatusInv
  BY DEF Init, StatusInv
<1>4. Queued = {} /\ Undispatched = {} /\ \A w \in Workers : ~ Working(w)
  BY DEF Init, Queued, Undispatched, Working
<1>5. SingleHolder
  <2>1. Held = {}
    BY <1>4 DEF Init, Held
  <2>2. OnePlace
    BY <1>4 DEF Init, OnePlace
  <2> QED
    BY <2>1, <2>2 DEF SingleHolder, HeldClaimed
<1>6. BudgetRespected /\ OpenRowsUnanswered
  BY StoreAssumption DEF Init, StoreInit, BudgetRespected, OpenRowsUnanswered, NoResult
<1> QED
  BY <1>1, <1>2, <1>3, <1>5, <1>6 DEF IInv, Claims

(* IInv is inductive while no other process writes to the store.           *)
THEOREM PoolInvariant == ASSUME Commands = {} PROVE Spec => []IInv
<1>1. IInv /\ [Next]_vars => IInv'
  BY StructureNext, InflightNext, BatchNext, StatusNext, ClockNext, OnePlaceNext,
     HeldClaimedNext, NothingLostNext, BudgetNext, UnansweredNext
  DEF IInv, Claims, SingleHolder
<1> QED
  BY <1>1, InvariantInit, PTL DEF Spec

(* Nothing is done twice: a row is in one place, and shown claimed by this *)
(* run until its decision is committed, whatever batches, releases, faults *)
(* and earlier crashes interleave.                                         *)
THEOREM PoolSingleHolder == ASSUME Commands = {} PROVE Spec => []SingleHolder
<1>1. IInv => SingleHolder
  BY DEF IInv, Claims
<1> QED
  BY <1>1, PoolInvariant, PTL

(* Nothing is lost: a row this run claimed is in somebody's hands, except  *)
(* for the rows of dead consumers and of a batch whose release raised.     *)
THEOREM PoolNothingLost == ASSUME Commands = {} PROVE Spec => []NothingLost
<1>1. IInv => NothingLost
  BY DEF IInv, Claims
<1> QED
  BY <1>1, PoolInvariant, PTL

(* No row is charged beyond its budget, and an open row has some left.     *)
THEOREM PoolBudget == ASSUME Commands = {} PROVE Spec => []BudgetRespected
<1>1. IInv => BudgetRespected
  BY DEF IInv
<1> QED
  BY <1>1, PoolInvariant, PTL

(* A row that may still be worked carries no answer.                       *)
THEOREM PoolOpenRowsUnanswered == ASSUME Commands = {} PROVE Spec => []OpenRowsUnanswered
<1>1. IInv => OpenRowsUnanswered
  BY DEF IInv
<1> QED
  BY <1>1, PoolInvariant, PTL

-----------------------------------------------------------------------------
(* A failure is charged to nothing but the row a consumer holds, and that  *)
(* row is not done.                                                        *)
LEMMA FailureHeld ==
    ASSUME Commands = {}, IInv, Next, NEW r \in Rows, DeferRow(r)
    PROVE  status[r] # "done"
<1> USE DEF IInv, Claims, Structure, TypeOK
<1>1. attempts'[r] = attempts[r] + 1 /\ attempts[r] \in Nat
  BY DEF StoreTypeOK, DeferRow
<1>2. ~ UNCHANGED attempts
  BY <1>1
<1>3. ~ SuppressCommand /\ ~ RetryCommand
  BY DEF SuppressCommand, RetryCommand
<1>4. PICK w \in Workers : FailRow(w) \/ PersistDecision(w)
  BY <1>2, <1>3
  DEF Next, RunStep, ProducerStep, ConsumerStep, Fault, Start, IngestBatch, IngestDone, Reclaim,
      Requeue, Join, Retract, Unresolved, WriteOutputs, AbortEnds, Crash, EndProcess, Finished,
      RequestShutdown, ProduceTop, ProduceClaim, ProduceFeed, ProducePut, ProduceBatchDone,
      ProduceStop, ProduceRelease, Get, Resolve, ResolveRaises, PersistRoutes, PersistReview,
      Record, ProducerFault, PersistFault, DeferFault, vars, store, InsertRecords,
      RecordSkippedResults, ReclaimStale, RequeueDeferred, ClaimBatch, Release,
      AddContactRoutes, AddReviewCandidates, RetractSharedUrls, RecordUnresolvedResults
<1>5. row[w] \in Rows
  BY <1>4 DEF FailRow, PersistDecision, RowInv, Busy
<1>6. status[row[w]] # "done"
  <2>1. CASE FailRow(w)
    BY <2>1 DEF FailRow, StatusInv
  <2>2. CASE PersistDecision(w)
    BY <2>2 DEF PersistDecision, SingleHolder, HeldClaimed, Held, Working
  <2> QED
    BY <1>4, <2>1, <2>2
<1>7. \A q \in Rows : q # row[w] => attempts'[q] = attempts[q]
  BY <1>4, <1>5 DEF FailRow, PersistDecision, DeferRow, WriteResult, StoreTypeOK
<1> QED
  BY <1>1, <1>6, <1>7

(* A row that has its answer is never redone, nor parked to be redone, as  *)
(* long as no other process writes to the store (pool.py:11, main.py:508): *)
(* not by a release or reclaim of a row that finished meanwhile, not by a  *)
(* failure recorded late, whatever crashes and faults there are.           *)
THEOREM PoolNeverReopens == ASSUME Commands = {} PROVE Spec => NeverReopensAnswered
<1> DEFINE Keeps == \A r \in Rows : Answered(r) => status'[r] \in {"done", "skipped"}
<1>1. IInv /\ [Next]_vars => [Keeps]_store
  <2> SUFFICES ASSUME IInv, Next, ~ UNCHANGED store, NEW r \in Rows, Answered(r)
               PROVE  status'[r] \in {"done", "skipped"}
    BY DEF vars
  <2>1. StoreTypeOK /\ Transaction
    BY PoolTransacts DEF IInv, Structure, TypeOK
  <2>2. ~ DeferRow(r)
    BY FailureHeld DEF Answered
  <2> QED
    BY <2>1, <2>2, StoreNeverReopens
<1>2. Spec => [][Keeps]_store
  BY <1>1, PoolInvariant, PTL DEF Spec
<1> QED
  BY <1>2 DEF NeverReopensAnswered

(* A line without a decision is one of a row this run did not get, gave    *)
(* back, or lost with a consumer that died; whatever it settled or parked  *)
(* explains itself (store.py:430-451), whatever crashes and faults.        *)
THEOREM PoolOutputExplained == ASSUME Commands = {} PROVE Spec => []OutputExplained
<1>1. IInv /\ EndInv /\ SettledHasResult => OutputExplained
  <2> SUFFICES ASSUME IInv, EndInv, SettledHasResult, phase = "write",
                      NEW r \in Rows, result[r].decision = "none"
               PROVE  \/ status[r] \in {"absent", "pending", "skipped"}
                      \/ status[r] = "claimed" /\ claimedAt[r] < runs
                      \/ status[r] = "claimed" /\ \E w \in Workers : pc[w] = "dead" /\ row[w] = r
    BY DEF OutputExplained
  <2> USE DEF IInv, Claims, Structure, TypeOK
  <2>1. status[r] \in {"absent", "pending", "skipped", "claimed"}
    BY DEF EndInv, SettledHasResult, StoreTypeOK, Status
  <2>2. Held = {}
    BY DEF PhaseInv, Held, Undispatched, Queued, Working
  <2>3. ASSUME status[r] = "claimed", claimedAt[r] = runs
        PROVE  \E w \in Workers : pc[w] = "dead" /\ row[w] = r
    BY <2>2, <2>3 DEF NothingLost, PhaseInv
  <2>4. claimedAt[r] <= runs /\ claimedAt[r] \in Nat /\ runs \in Nat
    BY PoolAssumption DEF ClockInv, StoreTypeOK
  <2> QED
    BY <2>1, <2>3, <2>4
<1> QED
  BY <1>1, PoolInvariant, EndAlways, PoolSettled, PTL

-----------------------------------------------------------------------------
(* A producer that ended for no other reason ended on an empty claim, and  *)
(* what consumers do afterwards puts nothing back: no call of theirs makes *)
(* a row pending, and nothing is left in flight for run() to release.      *)
Stopped == shutdown \/ TargetHit \/ LimitHit

DrainInv ==
    /\ phase = "pool" =>
         /\ pp = "claim" => ~ LimitHit
         /\ pp = "release" => Stopped
         /\ pp = "done" /\ ~ Stopped => Having("pending") \cap eligible = {}
         /\ \A w \in Workers : pc[w] \notin {"off", "dead"}
    /\ phase = "retract" /\ ~ Stopped => Having("pending") \cap eligible = {}

LEMMA DrainNext ==
    ASSUME Commands = {}, MaxFaults = 0
    PROVE  Structure /\ InflightInv /\ DrainInv /\ [Next]_vars => DrainInv'
<1> SUFFICES ASSUME Structure, InflightInv, DrainInv, [Next]_vars PROVE DrainInv'
  OBVIOUS
<1> USE DEF DrainInv, Stopped, TargetHit, LimitHit, Structure, TypeOK
<1>1. ~ Faulty /\ ~ SuppressCommand /\ ~ RetryCommand
  BY DEF Faulty, SuppressCommand, RetryCommand, PoolAssumption
<1>2. CASE \/ Start \/ IngestBatch \/ IngestDone \/ Reclaim \/ Unresolved \/ WriteOutputs
           \/ AbortEnds \/ Crash \/ Retract
  BY <1>2 DEF Start, IngestBatch, IngestDone, Reclaim, Unresolved, WriteOutputs, AbortEnds,
              Crash, Retract, EndProcess
<1>3. CASE Requeue
  BY <1>3 DEF Requeue
<1>4. CASE RequestShutdown \/ Finished \/ UNCHANGED vars
  BY <1>4 DEF RequestShutdown, Finished, vars, store, runVars, boundVars, producerVars,
              loopVars, consumerVars, Having
<1>5. CASE ProduceTop \/ ProduceFeed \/ ProducePut \/ ProduceBatchDone \/ ProduceStop
  BY <1>5 DEF ProduceTop, ProduceFeed, ProducePut, ProduceBatchDone, ProduceStop, store,
              runVars, loopVars, consumerVars, Having
<1>6. CASE ProduceClaim
  <2>1. PICK S \in SUBSET Having("pending") :
             /\ Size(S) /\ ClaimBatch(S, runs)
             /\ pp' = IF S = {} THEN "done" ELSE "feed"
    BY <1>6 DEF ProduceClaim
  <2>2. S = {} => Having("pending") \cap eligible = {}
    <3>1. \A n \in Nat \ {0} : Claimable({}, n, eligible)
                                 => Having("pending") \cap eligible = {}
      BY FS_EmptySet DEF Claimable
    <3>2. phase = "pool" /\ pp = "claim" /\ (Limit # NoLimit => Limit - dispatched \in Nat \ {0})
      BY <1>6, PoolAssumption DEF ProduceClaim
    <3> QED
      BY <2>1, <3>1, <3>2, PoolAssumption DEF Size
  <2>3. S = {} => Having("pending")' = Having("pending")
    BY <2>1 DEF ClaimBatch, Having
  <2> QED
    BY <1>6, <2>1, <2>2, <2>3 DEF ProduceClaim, runVars, loopVars, consumerVars
<1>7. CASE ProduceRelease
  BY <1>7 DEF ProduceRelease, runVars, loopVars, consumerVars
<1>8. ASSUME NEW w \in Workers, ConsumerStep(w) PROVE DrainInv'
  <2>1. Having("pending")' \subseteq Having("pending")
    <3>1. CASE Get(w) \/ Resolve(w) \/ ResolveRaises(w) \/ Record(w)
      BY <3>1 DEF Get, Resolve, ResolveRaises, Record, store, Having
    <3>2. CASE FailRow(w)
      BY <3>2 DEF FailRow, DeferRow, Having, StoreTypeOK
    <3>3. CASE PersistRoutes(w)
      BY <3>3 DEF PersistRoutes, AddContactRoutes, Having
    <3>4. CASE PersistDecision(w)
      BY <3>4 DEF PersistDecision, DeferRow, WriteResult, Having, StoreTypeOK
    <3>5. CASE PersistReview(w)
      BY <3>5 DEF PersistReview, AddReviewCandidates, Having
    <3> QED
      BY <1>8, <3>1, <3>2, <3>3, <3>4, <3>5 DEF ConsumerStep
  <2>2. /\ UNCHANGED <<phase, eligible, pp, dispatched, shutdown>>
        /\ delivered' \in Nat /\ delivered' >= delivered
    BY <1>8 DEF ConsumerStep, Get, Resolve, ResolveRaises, FailRow, PersistRoutes,
       PersistDecision, PersistReview, Record, runVars, producerVars, loopVars
  <2>3. \A v \in Workers : pc'[v] = pc[v] \/ pc'[v] \notin {"off", "dead"}
    BY <1>8 DEF ConsumerStep, Get, Resolve, ResolveRaises, FailRow, PersistRoutes,
       PersistDecision, PersistReview, Record
  <2>4. Stopped => Stopped'
    BY <2>2, PoolAssumption
  <2> QED
    BY <2>1, <2>2, <2>3, <2>4
<1>9. CASE Join
  <2>1. queue = <<>> /\ Busy = {}
    BY <1>9, BusyCount, FS_EmptySet DEF Join, CountInv, Live
  <2>2. \A w \in Workers : pc[w] = "get" /\ row[w] = NoRow
    BY <1>9, <2>1 DEF Join, Busy, RowInv, ConsumerPoint
  <2>3. putting = NoRow /\ Queued = {}
    BY <1>9, <2>1 DEF Join, PhaseInv, Queued
  <2>4. inflight = {}
    BY <1>9, <2>2, <2>3, PoolAssumption DEF Join, InflightInv
  <2>5. Having("pending")' = Having("pending")
    BY <1>9, <2>4 DEF Join, Release, Having
  <2> QED
    BY <1>9, <2>5 DEF Join, producerVars, loopVars
<1> QED
  BY <1>1, <1>2, <1>3, <1>4, <1>5, <1>6, <1>7, <1>8, <1>9
     DEF Next, RunStep, ProducerStep, Fault, ProducerFault, PersistFault, DeferFault

(* A run nobody stopped leaves no row pending that its claims may take     *)
(* when its pool has drained: for any rows, claim filters, consumers,      *)
(* batches and earlier crashes (pool.py:152-201).                          *)
THEOREM PoolNoWorkLeftBehind ==
    ASSUME Commands = {}, MaxFaults = 0 PROVE Spec => []NoWorkLeftBehind
<1>1. Init => DrainInv
  BY DEF Init, DrainInv
<1>2. IInv /\ DrainInv /\ [Next]_vars => DrainInv'
  BY DrainNext DEF IInv, Claims
<1>3. DrainInv => NoWorkLeftBehind
  BY DEF DrainInv, Stopped, NoWorkLeftBehind
<1> QED
  BY <1>1, <1>2, <1>3, PoolInvariant, PTL DEF Spec
-----------------------------------------------------------------------------
(* The pool never waits for itself.                                        *)

LEMMA OwingCount ==
    /\ IsFiniteSet(Owing) /\ Cardinality(Owing) \in Nat
    /\ Cardinality(Owing) = 0 <=> Owing = {}
    /\ \A w \in Owing : Cardinality(Owing \ {w}) = Cardinality(Owing) - 1
    /\ \A w \in Workers \ Owing : Cardinality(Owing \cup {w}) = Cardinality(Owing) + 1
<1>1. IsFiniteSet(Owing)
  BY PoolAssumption, FS_Subset DEF Owing, Busy, Stranded
<1> QED
  BY <1>1, FS_CardinalityType, FS_EmptySet, FS_RemoveElement, FS_AddElement

LEMMA FlowNext ==
    Structure /\ OnePlace /\ InflightInv /\ FlowInv /\ [Next]_vars => FlowInv'
<1> SUFFICES ASSUME Structure, OnePlace, InflightInv, FlowInv, [Next]_vars PROVE FlowInv'
  OBVIOUS
<1> USE DEF Structure, TypeOK
<1>0. /\ queue \in Seq(Rows) /\ Len(queue) \in Nat /\ unfinished \in Nat
      /\ \A w \in Workers : pc[w] = "dead" \/ w \in Busy => row[w] \in Rows /\ row[w] # NoRow
  BY PoolAssumption DEF RowInv
<1>1. CASE UNCHANGED <<phase, inflight, queue, unfinished, pc, row>>
  BY <1>1 DEF FlowInv, Owing, Busy, Stranded
<1>2. CASE Start \/ IngestBatch \/ IngestDone \/ Reclaim
  BY <1>2 DEF Start, IngestBatch, IngestDone, Reclaim, loopVars, FlowInv
<1>3. CASE Requeue
  <2>1. /\ unfinished' = 0 /\ queue' = <<>> /\ \A w \in Workers : pc'[w] = "get"
    BY <1>3 DEF Requeue, loopVars, FlowInv, PhaseInv
  <2>2. Owing' = {}
    BY <2>1 DEF Owing, Busy, Stranded
  <2>3. Cardinality(Owing') = 0
    BY <2>2, FS_EmptySet
  <2> QED
    BY <1>3, <2>1, <2>3 DEF Requeue, FlowInv
<1>4. CASE ProduceFeed
  <2>1. PICK r \in todo :
          /\ inflight' = inflight \cup {r}
          /\ \/ queue' = Append(queue, r) /\ unfinished' = unfinished + 1
             \/ UNCHANGED <<queue, unfinished>>
    BY <1>4 DEF ProduceFeed
  <2>2. phase = "pool" /\ pp = "feed" /\ UNCHANGED <<phase, pc, row>>
    BY <1>4 DEF ProduceFeed, runVars, consumerVars
  <2>3. r \in Rows /\ \A w \in Workers : row[w] # r
    BY <2>2 DEF OnePlace, Undispatched
  <2>4. Owing' = Owing
    BY <2>1, <2>2, <2>3 DEF Owing, Busy, Stranded
  <2>5. \/ Len(queue') = Len(queue) + 1 /\ unfinished' = unfinished + 1
        \/ Len(queue') = Len(queue) /\ unfinished' = unfinished
    BY <1>0, <2>1, <2>3
  <2> QED
    BY <1>0, <2>2, <2>4, <2>5, OwingCount DEF FlowInv
<1>5. CASE ProducePut
  <2>1. /\ phase = "pool" /\ putting \in Rows /\ queue' = Append(queue, putting)
        /\ unfinished' = unfinished + 1 /\ UNCHANGED <<phase, pc, row, inflight>>
    BY <1>5, PoolAssumption DEF ProducePut, runVars, consumerVars, PhaseInv
  <2>2. Len(queue') = Len(queue) + 1 /\ Owing' = Owing
    BY <1>0, <2>1 DEF Owing, Busy, Stranded
  <2> QED
    BY <1>0, <2>1, <2>2, OwingCount DEF FlowInv
<1>6. ASSUME NEW w \in Workers, Get(w) PROVE FlowInv'
  <2>1. /\ phase = "pool" /\ queue # <<>> /\ pc[w] = "get" /\ queue' = Tail(queue)
        /\ row' = [row EXCEPT ![w] = Head(queue)] /\ pc' = [pc EXCEPT ![w] = "resolve"]
        /\ UNCHANGED <<phase, inflight, unfinished>>
    BY <1>6 DEF Get, runVars
  <2>2. w \notin Owing /\ Owing' = Owing \cup {w}
    BY <2>1 DEF Owing, Busy, Stranded
  <2>3. Len(queue') = Len(queue) - 1
    BY <1>0, <2>1
  <2> QED
    BY <1>0, <2>1, <2>2, <2>3, OwingCount DEF FlowInv
<1>7. ASSUME NEW w \in Workers, Record(w) \/ PersistFault(w) PROVE FlowInv'
  <2>1. /\ w \in Busy /\ inflight' = inflight \ {row[w]} /\ unfinished' = unfinished - 1
        /\ pc' \in {[pc EXCEPT ![w] = "get"], [pc EXCEPT ![w] = "dead"]}
        /\ row' \in {row, [row EXCEPT ![w] = NoRow]}
        /\ UNCHANGED <<phase, queue>>
    BY <1>7 DEF Record, PersistFault, Busy, runVars
  <2>2. \A v \in Workers \ {w} : pc[v] = "dead" => row[v] # row[w]
    BY <1>0, <2>1 DEF OnePlace
  <2>3. w \notin Busy' /\ w \notin Stranded' /\ \A v \in Workers \ {w} : pc'[v] = pc[v] /\ row'[v] = row[v]
    <3>1. CASE Record(w)
      BY <3>1 DEF Record, Busy, Stranded
    <3>2. CASE PersistFault(w)
      BY <3>2 DEF PersistFault, Busy, Stranded
    <3> QED
      BY <1>7, <3>1, <3>2
  <2>4. w \in Owing /\ Owing' = Owing \ {w}
    BY <2>1, <2>2, <2>3 DEF Owing, Busy, Stranded
  <2> QED
    BY <1>0, <2>1, <2>4, OwingCount DEF FlowInv, PhaseInv
<1>8. ASSUME NEW w \in Workers, DeferFault(w) PROVE FlowInv'
  <2>1. /\ w \in Busy /\ pc' = [pc EXCEPT ![w] = "dead"]
        /\ UNCHANGED <<phase, inflight, queue, unfinished, row>>
    BY <1>8 DEF DeferFault, Busy, runVars, loopVars
  <2>2. CASE phase = "pool"
    <3>1. row[w] \in inflight
      BY <2>1, <2>2 DEF InflightInv
    <3>2. Owing' = Owing
      BY <2>1, <3>1 DEF Owing, Busy, Stranded
    <3> QED
      BY <1>0, <2>1, <2>2, <3>2, OwingCount DEF FlowInv
  <2>3. CASE phase # "pool"
    BY <2>1, <2>3 DEF FlowInv
  <2> QED
    BY <2>2, <2>3
<1>9. CASE ProducerFault \/ Join \/ Retract \/ Unresolved
  <2>1. phase' \in {"abort", "retract", "unresolved", "write"}
    BY <1>9 DEF ProducerFault, Join, Retract, Unresolved
  <2> QED
    BY <2>1 DEF FlowInv
<1>10. CASE EndProcess
  BY <1>10 DEF EndProcess, FlowInv
<1>11. CASE ProducerStep /\ ~ ProduceFeed /\ ~ ProducePut
  BY <1>1, <1>11 DEF ProducerStep, ProduceTop, ProduceClaim, ProduceBatchDone, ProduceStop,
     ProduceRelease, runVars, loopVars, consumerVars
<1>12. ASSUME NEW w \in Workers,
              \/ Resolve(w) \/ ResolveRaises(w) \/ FailRow(w) \/ PersistRoutes(w)
              \/ PersistDecision(w) \/ PersistReview(w)
       PROVE  FlowInv'
  <2>1. /\ UNCHANGED <<phase, inflight, queue, unfinished, row>>
        /\ w \in Busy /\ \E p \in {"resolve", "routes", "decide", "review", "failed", "record"} :
                             pc' = [pc EXCEPT ![w] = p]
    BY <1>12 DEF Resolve, ResolveRaises, FailRow, PersistRoutes, PersistDecision,
                 PersistReview, loopVars, runVars, Busy
  <2>2. Owing' = Owing
    BY <2>1 DEF Owing, Busy, Stranded
  <2>3. (\A v \in Workers : pc[v] # "off") => \A v \in Workers : pc'[v] # "off"
    BY <2>1
  <2> QED
    BY <2>1, <2>2, <2>3 DEF FlowInv
<1>13. CASE RequestShutdown \/ SuppressCommand \/ RetryCommand \/ Finished \/ UNCHANGED vars
  BY <1>1, <1>13 DEF RequestShutdown, SuppressCommand, RetryCommand, Finished, vars,
     runVars, loopVars, consumerVars
<1> QED
  BY <1>2, <1>3, <1>4, <1>5, <1>6, <1>7, <1>8, <1>9, <1>10, <1>11, <1>12, <1>13
  DEF Next, RunStep, ConsumerStep, Fault, WriteOutputs, AbortEnds, Crash

LEMMA FlowGoesOn == Structure /\ FlowInv => NeverStuck
<1> SUFFICES ASSUME Structure, FlowInv, phase = "pool", Stranded = {}, Busy = {},
                    NEW v \in Workers, pc[v] # "dead"
             PROVE  \/ pp \in {"top", "claim", "feed", "release"}
                    \/ pp = "put" /\ Len(queue) < QueueCap
                    \/ queue # <<>> /\ \E w \in Workers : pc[w] = "get"
                    \/ pp = "done" /\ unfinished = 0
  BY DEF NeverStuck
<1>1. pc[v] = "get"
  BY DEF FlowInv, Structure, TypeOK, ConsumerPoint, Busy
<1>2. pp \in {"top", "claim", "feed", "put", "release", "done"}
  BY DEF Structure, TypeOK, PhaseInv, ProducerPoint
<1>3. queue = <<>> => Len(queue) = 0 /\ Len(queue) < QueueCap
  BY PoolAssumption
<1>4. queue = <<>> => unfinished = 0
  BY <1>3, OwingCount DEF FlowInv, Owing
<1> QED
  BY <1>1, <1>2, <1>3, <1>4

(* A pool in the middle of its work can always go on: with a full queue,   *)
(* the producer blocked in put and join() waiting, there is a consumer     *)
(* that takes, works or reports, unless a database error has ended them    *)
(* all or has struck the recording of a failure (pool.py:203-241).         *)
THEOREM PoolNeverStuck == ASSUME Commands = {} PROVE Spec => []NeverStuck
<1>1. Init => FlowInv
  BY DEF Init, FlowInv
<1>2. IInv /\ FlowInv /\ [Next]_vars => FlowInv'
  BY FlowNext DEF IInv, Claims, SingleHolder
<1>3. IInv /\ FlowInv => NeverStuck
  BY FlowGoesOn DEF IInv
<1> QED
  BY <1>1, <1>2, <1>3, PoolInvariant, PTL DEF Spec

-----------------------------------------------------------------------------
(* WorkerPool implements RowLedger for any number of rows, consumers,      *)
(* batches, crashes and restarts, as long as no database transaction fails *)
(* and no other process writes to the store.  Both are needed: an aborted  *)
(* pool may defer a row it has just released, and the retry command sends  *)
(* a settled blank_error back to work.                                     *)

(* Without database failures no pool is aborted.                           *)
LEMMA NoAbort ==
    ASSUME MaxFaults = 0
    PROVE  Spec => [](phase # "abort")
<1>1. Init => phase # "abort"
  BY DEF Init
<1>2. Structure /\ phase # "abort" /\ [Next]_vars => (phase # "abort")'
  <2> SUFFICES ASSUME Structure, phase # "abort", [Next]_vars PROVE phase' # "abort"
    OBVIOUS
  <2>1. ~ Faulty
    BY DEF Faulty, Structure, TypeOK
  <2>2. CASE RunStep \/ Start \/ Crash \/ RequestShutdown \/ Finished \/ UNCHANGED vars
    BY <2>2 DEF RunStep, IngestBatch, IngestDone, Reclaim, Requeue, Join, Retract, Unresolved,
       WriteOutputs, AbortEnds, EndProcess, Start, Crash, RequestShutdown, Finished, vars, runVars
  <2>3. CASE ProducerStep \/ SuppressCommand \/ RetryCommand
    BY <2>3 DEF ProducerStep, ProduceTop, ProduceClaim, ProduceFeed, ProducePut,
       ProduceBatchDone, ProduceStop, ProduceRelease, SuppressCommand, RetryCommand, runVars
  <2>4. ASSUME NEW w \in Workers, ConsumerStep(w) PROVE phase' = phase
    BY <2>4 DEF ConsumerStep, Get, Resolve, ResolveRaises, FailRow, PersistRoutes,
       PersistDecision, PersistReview, Record, runVars
  <2> QED
    BY <2>1, <2>2, <2>3, <2>4 DEF Next, Fault, ProducerFault, PersistFault, DeferFault
<1>3. Spec => []Structure
  BY StructureInit, StructureNext, PTL DEF Spec
<1> QED
  BY <1>1, <1>2, <1>3, PTL DEF Spec

(* A transaction that moves the rows of S from one status to another, and  *)
(* leaves every result alone, is a move of the ledger.                     *)
LEMMA Moves ==
    ASSUME StoreTypeOK, StoreTypeOK', NEW S \in SUBSET Rows, NEW from, NEW to,
           result' = result,
           \A r \in S : PlaceOf(r) = from /\ status[r] # "done" /\ status'[r] # "done"
                        /\ PlaceOf(r)' = to,
           \A r \in Rows \ S : status'[r] = status[r]
    PROVE  Ledger!Move(S, from, to)
<1>1. \A r \in Rows \ S : PlaceOf(r)' = PlaceOf(r)
  BY DEF PlaceOf, LedgerPlace
<1>2. \A r \in Rows : AnswerOf(r)' = AnswerOf(r)
  BY DEF AnswerOf
<1> QED
  BY <1>1, <1>2 DEF Ledger!Move

(* Every step of the run is a step of the ledger or none.                  *)
LEMMA LedgerStep ==
    ASSUME Commands = {}, Structure, Structure', StatusInv, HeldClaimed,
           phase # "abort", [Next]_vars
    PROVE  \/ Ledger!LedgerNext
           \/ UNCHANGED <<[r \in Rows |-> PlaceOf(r)], [r \in Rows |-> AnswerOf(r)]>>
<1> DEFINE Stutters == UNCHANGED <<[r \in Rows |-> PlaceOf(r)], [r \in Rows |-> AnswerOf(r)]>>
<1>0. StoreTypeOK /\ StoreTypeOK'
  BY DEF Structure, TypeOK
<1>1. ASSUME UNCHANGED status, \A r \in Rows : status[r] = "done" => result'[r] = result[r]
      PROVE  Stutters
  BY <1>1 DEF PlaceOf, LedgerPlace, AnswerOf
<1>2. CASE UNCHANGED <<status, attempts, result>>
  BY <1>1, <1>2
<1>3. ASSUME NEW S \in SUBSET Rows, InsertRecords(S)
      PROVE  Ledger!LedgerNext
  <2> DEFINE news == {r \in S : status[r] = "absent"}
  <2>1. /\ \A r \in Rows \ news : status'[r] = status[r]
        /\ \A r \in news \ Filtered : status[r] = "absent" /\ status'[r] = "pending"
        /\ \A r \in news \cap Filtered : status[r] = "absent" /\ status'[r] = "skipped"
        /\ result' = result
    BY <1>3 DEF InsertRecords
  <2>2. \A r \in Rows : AnswerOf(r)' = AnswerOf(r)
    BY <2>1 DEF AnswerOf
  <2>3. /\ \A r \in Rows \ news : PlaceOf(r)' = PlaceOf(r)
        /\ \A r \in news : PlaceOf(r) = "outside"
        /\ \A r \in news \ Filtered : PlaceOf(r)' = "open"
        /\ \A r \in news \cap Filtered : PlaceOf(r)' = "excluded"
    BY <2>1 DEF PlaceOf, LedgerPlace
  <2>4. Ledger!Admit(news \ Filtered, news \cap Filtered)
    BY <2>2, <2>3 DEF Ledger!Admit
  <2>5. /\ news \ Filtered \in SUBSET Ledger!LedgerAt("outside")
        /\ news \cap Filtered \in SUBSET (Ledger!LedgerAt("outside") \ (news \ Filtered))
    BY <2>3 DEF Ledger!LedgerAt
  <2> HIDE DEF news
  <2> QED
    BY <2>4, <2>5 DEF Ledger!LedgerNext
<1>4. ASSUME NEW S \in SUBSET Rows, ReclaimStale(S) \/ Release(S)
      PROVE  Ledger!LedgerNext
  <2> DEFINE given == S \cap Having("claimed")
  <2>1. /\ result' = result
        /\ \A r \in given : status[r] = "claimed" /\ status'[r] = "pending"
        /\ \A r \in Rows \ given : status'[r] = status[r]
    BY <1>4 DEF ReclaimStale, Release, Abandoned, Having
  <2>2. \A r \in given : PlaceOf(r) = "held" /\ PlaceOf(r)' = "open"
    BY <2>1 DEF PlaceOf, LedgerPlace
  <2>3. Ledger!Move(given, "held", "open")
    BY <1>0, <2>1, <2>2, Moves
  <2> QED
    BY <2>3 DEF Ledger!LedgerNext, Ledger!LedgerAt, Ledger!GiveBack, Ledger!Move
<1>5. ASSUME NEW S \in SUBSET Having("pending"), ClaimBatch(S, runs)
      PROVE  Ledger!LedgerNext
  <2>1. /\ result' = result /\ S \in SUBSET Rows
        /\ \A r \in S : status[r] = "pending" /\ status'[r] = "claimed"
        /\ \A r \in Rows \ S : status'[r] = status[r]
    BY <1>5 DEF ClaimBatch, Having
  <2>2. \A r \in S : PlaceOf(r) = "open" /\ PlaceOf(r)' = "held"
    BY <2>1 DEF PlaceOf, LedgerPlace
  <2>3. Ledger!Move(S, "open", "held")
    BY <1>0, <2>1, <2>2, Moves
  <2> QED
    BY <2>1, <2>3 DEF Ledger!LedgerNext, Ledger!LedgerAt, Ledger!Take, Ledger!Move
<1>6. CASE RequeueDeferred
  <2> DEFINE again == {r \in Having("deferred") : attempts[r] < MaxAttempts}
  <2>1. /\ result' = result /\ again \in SUBSET Rows
        /\ \A r \in again : status[r] = "deferred" /\ status'[r] = "pending"
        /\ \A r \in Rows \ again : status'[r] = status[r]
    BY <1>6 DEF RequeueDeferred, Having
  <2>2. \A r \in again : PlaceOf(r) = "parked" /\ PlaceOf(r)' = "open"
    BY <2>1 DEF PlaceOf, LedgerPlace
  <2>3. Ledger!Move(again, "parked", "open")
    BY <1>0, <2>1, <2>2, Moves
  <2> QED
    BY <2>1, <2>3 DEF Ledger!LedgerNext, Ledger!LedgerAt, Ledger!Unpark, Ledger!Move
<1>7. CASE RecordSkippedResults
  BY <1>1, <1>7 DEF RecordSkippedResults
<1>8. CASE RecordUnresolvedResults
  BY <1>1, <1>8 DEF RecordUnresolvedResults
<1>9. CASE RetractSharedUrls
  <2> DEFINE back == {r \in Rows : /\ status[r] = "done" /\ Matched(r)
                                   /\ result[r].url \in FindSharedUrls}
  <2>1. /\ status' = status
        /\ \A r \in back : result'[r] = Blank("blank_ambiguous")
        /\ \A r \in Rows \ back : status[r] = "done" => result'[r] = result[r]
    BY <1>9 DEF RetractSharedUrls
  <2>2. \A r \in Rows : PlaceOf(r)' = PlaceOf(r)
    BY <2>1 DEF PlaceOf, LedgerPlace
  <2>3. /\ \A r \in back : PlaceOf(r) = "settled" /\ AnswerOf(r)' = Blank("blank_ambiguous")
        /\ \A r \in Rows \ back : AnswerOf(r)' = AnswerOf(r)
    BY <2>1 DEF PlaceOf, LedgerPlace, AnswerOf
  <2>4. Ledger!Withdraw(back)
    BY <2>2, <2>3 DEF Ledger!Withdraw
  <2> QED
    BY <2>4 DEF Ledger!LedgerNext, Ledger!LedgerAt, Ledger!Withdraw
<1>10. ASSUME NEW w \in Workers, pc[w] \in {"failed", "decide"},
              \/ DeferRow(row[w])
              \/ out[w] \in Outcome /\ WriteResult(row[w], out[w])
       PROVE  Ledger!LedgerNext
  <2>0. PICK r \in Rows : r = row[w] /\ status[r] = "claimed"
    <3>1. pc[w] = "failed" => phase = "pool"
      BY DEF Structure, PhaseInv, TypeOK, Phase
    <3>2. Working(w) /\ row[w] \in Rows
      BY <1>10, <3>1, WorkedRowOpen DEF Working
    <3> QED
      BY <3>2 DEF HeldClaimed, Held
  <2>1. PlaceOf(r) = "held" /\ AnswerOf(r) = NoResult
    BY <2>0 DEF PlaceOf, LedgerPlace, AnswerOf
  <2>2. \A q \in Rows \ {r} : status'[q] = status[q] /\ result'[q] = result[q]
    BY <1>0, <1>10, <2>0 DEF DeferRow, WriteResult, StoreTypeOK
  <2>3. \A q \in Rows \ {r} : PlaceOf(q)' = PlaceOf(q) /\ AnswerOf(q)' = AnswerOf(q)
    BY <2>2 DEF PlaceOf, LedgerPlace, AnswerOf
  <2>4. ASSUME NEW a \in PoolAnswer, status'[r] = "done", result'[r] = a
        PROVE  Ledger!Settle(r, a)
    <3>1. PlaceOf(r)' = "settled" /\ AnswerOf(r)' = a
      BY <2>4 DEF PlaceOf, LedgerPlace, AnswerOf
    <3> QED
      BY <2>1, <2>3, <3>1 DEF Ledger!Settle
  <2>5. CASE out[w] \in Outcome /\ WriteResult(row[w], out[w])
    <3>1. /\ status'[r] = "done"
          /\ result'[r] = [decision |-> out[w].decision, url |-> out[w].url]
          /\ [decision |-> out[w].decision, url |-> out[w].url] \in PoolAnswer
      BY <1>0, <2>0, <2>5 DEF WriteResult, StoreTypeOK, Outcome, PoolAnswer, Decision
    <3> QED
      BY <2>4, <3>1 DEF Ledger!LedgerNext, Ledger!LedgerAt, Ledger!Settle
  <2>6. CASE DeferRow(row[w]) /\ attempts[r] + 1 < MaxAttempts
    <3>1. status'[r] = "deferred" /\ result' = result
      BY <1>0, <2>0, <2>6 DEF DeferRow, StoreTypeOK
    <3>2. PlaceOf(r)' = "parked"
      BY <3>1 DEF PlaceOf, LedgerPlace
    <3>3. Ledger!Move({r}, "held", "parked")
      BY <1>0, <2>0, <2>1, <2>2, <3>1, <3>2, Moves
    <3> QED
      BY <3>3 DEF Ledger!LedgerNext, Ledger!LedgerAt, Ledger!Park, Ledger!Move
  <2>7. CASE DeferRow(row[w]) /\ ~ (attempts[r] + 1 < MaxAttempts)
    <3>1. /\ status'[r] = "done" /\ result'[r] = Blank("blank_error")
          /\ Blank("blank_error") \in PoolAnswer
      BY <1>0, <2>0, <2>7 DEF DeferRow, StoreTypeOK, Blank, PoolAnswer, Decision
    <3> QED
      BY <2>4, <3>1 DEF Ledger!LedgerNext, Ledger!LedgerAt, Ledger!Settle
  <2> QED
    BY <1>10, <2>5, <2>6, <2>7
<1> QED
  BY <1>2, <1>3, <1>4, <1>5, <1>6, <1>7, <1>8, <1>9, <1>10, PoolWrites

(* Each row lives by the ledger, whatever the pool's tasks, releases,      *)
(* crashes and restarts interleave.                                        *)
THEOREM PoolImplementsLedger ==
    ASSUME Commands = {}, MaxFaults = 0
    PROVE  Spec => ImplementsLedger
<1>1. Init => Ledger!LedgerInit
  BY DEF Init, StoreInit, Ledger!LedgerInit, PlaceOf, LedgerPlace, AnswerOf
<1>2. /\ IInv /\ IInv' /\ phase # "abort" /\ [Next]_vars
      => [Ledger!LedgerNext]_<<[r \in Rows |-> PlaceOf(r)], [r \in Rows |-> AnswerOf(r)]>>
  BY LedgerStep DEF IInv, Claims, SingleHolder
<1>3. Spec => []IInv
  BY PoolInvariant
<1>4. Spec => [](phase # "abort")
  BY NoAbort
<1> QED
  BY <1>1, <1>2, <1>3, <1>4, PTL DEF Spec, ImplementsLedger, Ledger!LedgerSpec
=============================================================================
