-------------------------- MODULE WorkerPoolProofs --------------------------
(***************************************************************************)
(* Theorems about the worker pool for any number of rows, consumers,       *)
(* batches, restarts and database failures.                                *)
(***************************************************************************)
EXTENDS WorkerPoolInvariant, RowStoreProofs, FiniteSetTheorems

(* Whatever the pool does to the store, it does by one transaction of it.  *)
LEMMA PoolTransacts == Structure /\ Next => Transaction \/ UNCHANGED store
<1> SUFFICES ASSUME Structure, Next PROVE Transaction \/ UNCHANGED store
  OBVIOUS
<1> USE DEF Structure, TypeOK, Transaction, SetTransaction
<1>1. CASE \/ Start \/ RequestShutdown \/ Crash \/ Finished \/ WriteOutputs \/ AbortEnds
           \/ ProduceTop \/ ProduceFeed \/ ProducePut \/ ProduceBatchDone \/ ProduceStop
  BY <1>1 DEF Start, RequestShutdown, Crash, Finished, WriteOutputs, AbortEnds, EndProcess,
              ProduceTop, ProduceFeed, ProducePut, ProduceBatchDone, ProduceStop, vars
<1>2. CASE IngestBatch \/ IngestDone \/ Reclaim \/ Requeue \/ Retract \/ Unresolved
  BY <1>2 DEF IngestBatch, IngestDone, Reclaim, Requeue, Retract, Unresolved
<1>3. CASE ProduceClaim
  BY <1>3 DEF ProduceClaim
<1>4. CASE ProduceRelease \/ Join \/ ProducerFault
  BY <1>4 DEF ProduceRelease, Join, ProducerFault
<1>5. CASE SuppressCommand \/ RetryCommand
  BY <1>5 DEF SuppressCommand, RetryCommand, RowTransaction
<1>6. ASSUME NEW w \in Workers, ConsumerStep(w) \/ PersistFault(w) \/ DeferFault(w)
      PROVE  Transaction \/ UNCHANGED store
  <2>1. CASE Get(w) \/ Resolve(w) \/ ResolveRaises(w) \/ Record(w)
             \/ PersistFault(w) \/ DeferFault(w)
    BY <2>1 DEF Get, Resolve, ResolveRaises, Record, PersistFault, DeferFault
  <2>2. CASE FailRow(w) \/ PersistReview(w)
    BY <2>2 DEF FailRow, PersistReview, RowInv, Busy, RowTransaction
  <2>3. CASE PersistRoutes(w)
    BY <2>3 DEF PersistRoutes, RowInv, Busy, RowTransaction, Outcome
  <2>4. CASE PersistDecision(w)
    BY <2>4 DEF PersistDecision, RowInv, Busy, RowTransaction
  <2> QED
    BY <1>6, <2>1, <2>2, <2>3, <2>4 DEF ConsumerStep
<1> QED
  BY <1>1, <1>2, <1>3, <1>4, <1>5, <1>6 DEF Next, RunStep, ProducerStep, Fault

(* Consumers at work are finitely many, and one more or less of them       *)
(* counts for one.                                                         *)
LEMMA BusyCount ==
    /\ IsFiniteSet(Busy) /\ Cardinality(Busy) \in Nat
    /\ \A S \in SUBSET Busy : IsFiniteSet(S) /\ Cardinality(S) \in Nat
                              /\ Cardinality(S) <= Cardinality(Busy)
    /\ \A w \in Busy : Cardinality(Busy) >= 1 /\ Cardinality(Busy \ {w}) = Cardinality(Busy) - 1
    /\ \A w \in Workers \ Busy : Cardinality(Busy \cup {w}) = Cardinality(Busy) + 1
<1>1. IsFiniteSet(Busy) /\ Busy \subseteq Workers
  BY PoolAssumption, FS_Subset DEF Busy
<1>2. IsFiniteSet(Busy) /\ Cardinality(Busy) \in Nat
  BY <1>1, FS_CardinalityType
<1>3. ASSUME NEW w \in Busy
      PROVE  Cardinality(Busy) >= 1 /\ Cardinality(Busy \ {w}) = Cardinality(Busy) - 1
  BY <1>2, FS_EmptySet, FS_RemoveElement
<1> QED
  BY <1>1, <1>2, <1>3, FS_CardinalityType, FS_Subset, FS_AddElement

(* The phases, program points and counters of the pool fit together.  This *)
(* part of the invariant does not depend on what the store holds.          *)
LEMMA StructureNext == Structure /\ [Next]_vars => Structure'
<1> SUFFICES ASSUME Structure, [Next]_vars PROVE Structure'
  OBVIOUS
<1>0. StoreTypeOK'
  BY PoolTransacts, StoreTyped DEF Structure, TypeOK, vars, StoreTypeOK, store
<1> USE DEF Structure, TypeOK, PhaseInv, RowInv, Live, Phase, ProducerPoint, ConsumerPoint
<1>1. CASE Start
  BY <1>0, <1>1, PoolAssumption DEF Start, producerVars, loopVars, consumerVars, boundVars, CountInv, Busy
<1>2. CASE IngestBatch \/ IngestDone \/ Reclaim \/ Retract \/ Unresolved
  BY <1>0, <1>2 DEF IngestBatch, IngestDone, Reclaim, Retract, Unresolved, runVars,
                    boundVars, producerVars, loopVars, consumerVars, CountInv, Busy
<1>3. CASE Requeue
  <2>1. Busy' = {}
    BY <1>3 DEF Requeue, Busy
  <2>2. Cardinality(Busy') = 0
    BY <2>1, FS_EmptySet
  <2> QED
    BY <1>0, <1>3, <2>1, <2>2 DEF Requeue, boundVars, loopVars, CountInv, Busy
<1>4. CASE RequestShutdown \/ SuppressCommand \/ RetryCommand \/ Finished
  <2>1. UNCHANGED <<runVars, producerVars, inflight, queue, unfinished, delivered,
                    consumerVars>>
    BY <1>4 DEF RequestShutdown, SuppressCommand, RetryCommand, Finished, vars, loopVars
  <2>2. faults' = faults /\ commands' \in 0 .. MaxCommands /\ shutdown' \in BOOLEAN
    <3>1. CASE RequestShutdown
      BY <3>1 DEF RequestShutdown, boundVars
    <3>2. CASE SuppressCommand \/ RetryCommand
      <4>1. /\ commands < MaxCommands /\ commands' = commands + 1
            /\ faults' = faults /\ shutdown' = shutdown
        BY <3>2 DEF SuppressCommand, RetryCommand, loopVars
      <4> QED
        BY <4>1, PoolAssumption
    <3>3. CASE Finished
      BY <3>3 DEF Finished, vars, boundVars, loopVars
    <3> QED
      BY <1>4, <3>1, <3>2, <3>3
  <2>3. CountInv'
    BY <2>1 DEF CountInv, Busy, runVars, consumerVars
  <2> QED
    BY <1>0, <2>1, <2>2, <2>3 DEF runVars, producerVars, consumerVars, Busy
<1>5. CASE ProducerStep
  <2>1. pc' = pc /\ row' = row /\ out' = out /\ Busy' = Busy
    BY <1>5 DEF ProducerStep, ProduceTop, ProduceClaim, ProduceFeed, ProducePut,
                ProduceBatchDone, ProduceStop, ProduceRelease, consumerVars, Busy
  <2>2. CASE ProduceTop \/ ProduceBatchDone \/ ProduceStop \/ ProduceRelease
    BY <1>0, <2>1, <2>2 DEF ProduceTop, ProduceBatchDone, ProduceStop, ProduceRelease,
                            runVars, boundVars, loopVars, CountInv
  <2>3. CASE ProduceClaim
    BY <1>0, <2>1, <2>3 DEF ProduceClaim, Having, runVars, boundVars, loopVars, CountInv
  <2>4. CASE ProduceFeed
    <3>1. CountInv' /\ queue' \in Seq(Rows) /\ unfinished' \in Nat
      <4>1. PICK r \in todo :
              \/ queue' = Append(queue, r) /\ unfinished' = unfinished + 1
              \/ queue' = queue /\ unfinished' = unfinished
        BY <2>4 DEF ProduceFeed
      <4>2. /\ queue' \in Seq(Rows) /\ unfinished' \in Nat
            /\ \/ Len(queue') = Len(queue) + 1 /\ unfinished' = unfinished + 1
               \/ queue' = queue /\ unfinished' = unfinished
        <5>1. r \in Rows /\ queue \in Seq(Rows) /\ unfinished \in Nat
          OBVIOUS
        <5>2. Append(queue, r) \in Seq(Rows) /\ Len(Append(queue, r)) = Len(queue) + 1
          BY <5>1
        <5>3. CASE queue' = Append(queue, r) /\ unfinished' = unfinished + 1
          BY <5>1, <5>2, <5>3
        <5>4. CASE queue' = queue /\ unfinished' = unfinished
          BY <5>1, <5>4
        <5> QED
          BY <4>1, <5>3, <5>4
      <4>3. phase' = phase
        BY <2>4 DEF ProduceFeed, runVars
      <4> QED
        BY <2>1, <4>2, <4>3, BusyCount DEF CountInv
    <3> QED
      BY <1>0, <2>1, <2>4, <3>1, PoolAssumption DEF ProduceFeed, runVars, boundVars
  <2>5. CASE ProducePut
    BY <1>0, <2>1, <2>5, BusyCount DEF ProducePut, runVars, boundVars, CountInv
  <2> QED
    BY <1>5, <2>2, <2>3, <2>4, <2>5 DEF ProducerStep
<1>6. ASSUME NEW w \in Workers, ConsumerStep(w) \/ PersistFault(w) \/ DeferFault(w)
      PROVE  Structure'
  <2>1. CASE Get(w)
    <3>1. w \notin Busy /\ Busy' = Busy \cup {w}
      BY <2>1 DEF Get, Busy
    <3>2. Len(queue') = Len(queue) - 1 /\ queue' \in Seq(Rows) /\ Head(queue) \in Rows
      BY <2>1 DEF Get
    <3>3. CountInv'
      BY <2>1, <3>1, <3>2, BusyCount DEF Get, CountInv, runVars
    <3> QED
      BY <1>0, <2>1, <3>2, <3>3 DEF Get, runVars, boundVars, producerVars, Busy
  <2>2. CASE Resolve(w) \/ ResolveRaises(w) \/ FailRow(w) \/ PersistRoutes(w)
             \/ PersistDecision(w) \/ PersistReview(w)
    <3>1. Busy' = Busy
      BY <2>2 DEF Resolve, ResolveRaises, FailRow, PersistRoutes, PersistDecision,
                  PersistReview, Busy
    <3>2. CountInv'
      BY <2>2, <3>1 DEF Resolve, ResolveRaises, FailRow, PersistRoutes, PersistDecision,
                        PersistReview, CountInv, runVars, loopVars
    <3> QED
      BY <1>0, <2>2, <3>2 DEF Resolve, ResolveRaises, FailRow, PersistRoutes,
         PersistDecision, PersistReview, runVars, boundVars, producerVars, loopVars, Busy
  <2>3. CASE Record(w) \/ PersistFault(w)
    <3>1. w \in Busy /\ Busy' = Busy \ {w}
      BY <2>3 DEF Record, PersistFault, Busy
    <3>2. unfinished' \in Nat /\ CountInv'
      BY <2>3, <3>1, BusyCount DEF Record, PersistFault, Faulty, CountInv, runVars
    <3>3. UNCHANGED <<phase, runs, unread, eligible, commands, producerVars, queue, shutdown>>
      BY <2>3 DEF Record, PersistFault, runVars, boundVars
    <3>4. /\ inflight' = inflight \ {row[w]}
          /\ faults' \in 0 .. MaxFaults /\ delivered' \in Nat
      BY <2>3, PoolAssumption DEF Record, PersistFault, Faulty, boundVars
    <3>5. \/ /\ pc' = [pc EXCEPT ![w] = "get"] /\ row' = [row EXCEPT ![w] = NoRow]
             /\ out' = [out EXCEPT ![w] = NoOutcome]
             /\ phase = "pool"
          \/ pc' = [pc EXCEPT ![w] = "dead"] /\ row' = row /\ out' = out
      BY <2>3 DEF Record, PersistFault
    <3>6. PhaseInv' /\ RowInv'
      BY <3>1, <3>3, <3>4, <3>5 DEF producerVars, Busy
    <3> QED
      BY <1>0, <3>2, <3>3, <3>4, <3>5, <3>6 DEF producerVars
  <2>4. CASE DeferFault(w)
    <3>1. w \in Busy /\ Busy' = Busy \ {w}
      BY <2>4 DEF DeferFault, Busy
    <3>2. CountInv'
      BY <2>4, <3>1, BusyCount DEF DeferFault, Faulty, CountInv, runVars, loopVars
    <3> QED
      BY <1>0, <2>4, <3>2, PoolAssumption DEF DeferFault, Faulty, runVars, producerVars, loopVars, Busy
  <2> QED
    BY <1>6, <2>1, <2>2, <2>3, <2>4 DEF ConsumerStep
<1>7. CASE ProducerFault
  <2>1. Busy' \subseteq Busy
    BY <1>7 DEF ProducerFault, Busy
  <2>2. CountInv'
    <3>1. /\ IsFiniteSet(Busy') /\ Cardinality(Busy') \in Nat /\ Cardinality(Busy) \in Nat
          /\ Cardinality(Busy') <= Cardinality(Busy)
      BY <2>1, BusyCount
    <3>2. unfinished' = unfinished /\ Len(queue') = 0 /\ Len(queue) \in Nat
          /\ unfinished >= Len(queue) + Cardinality(Busy)
      BY <1>7 DEF ProducerFault, CountInv
    <3> QED
      BY <3>1, <3>2 DEF CountInv
  <2>3. PhaseInv' /\ RowInv'
    BY <1>0, <1>7 DEF ProducerFault, Busy
  <2> QED
    BY <1>0, <1>7, <2>2, <2>3, PoolAssumption DEF ProducerFault, Faulty
<1>8. CASE Join
  <2>1. Busy = {} /\ queue = <<>>
    BY <1>8, BusyCount, FS_EmptySet DEF Join, CountInv
  <2> QED
    BY <1>0, <1>8, <2>1 DEF Join, runVars, boundVars, producerVars, loopVars, CountInv, Busy
<1>9. CASE WriteOutputs \/ AbortEnds \/ Crash
  <2>1. EndProcess
    BY <1>9 DEF WriteOutputs, AbortEnds, Crash
  <2>2. PhaseInv' /\ RowInv' /\ CountInv'
    BY <2>1 DEF EndProcess, CountInv, Busy
  <2>3. TypeOK'
    <3>1. <<>> \in Seq(Rows) /\ phase' \in Phase /\ pp' \in ProducerPoint
      BY <2>1 DEF EndProcess
    <3>2. /\ pc' \in [Workers -> ConsumerPoint] /\ row' \in [Workers -> Rows \cup {NoRow}]
          /\ out' \in [Workers -> Outcome \cup {NoOutcome}]
      BY <2>1 DEF EndProcess
    <3> QED
      BY <1>0, <2>1, <3>1, <3>2 DEF EndProcess, boundVars
  <2> QED
    BY <2>2, <2>3
<1>10. CASE UNCHANGED vars
  BY <1>0, <1>10 DEF vars, runVars, boundVars, producerVars, loopVars, consumerVars,
                     CountInv, Busy
<1> QED
  BY <1>1, <1>2, <1>3, <1>4, <1>5, <1>6, <1>7, <1>8, <1>9, <1>10 DEF Next, RunStep, Fault

LEMMA StructureInit == Init => Structure
<1> SUFFICES ASSUME Init PROVE Structure
  OBVIOUS
<1>1. StoreTypeOK
  BY DEF Init, StoreInit, StoreTypeOK, Status, NoResult, Decision, ReviewCap
<1>2. TypeOK
  <2>1. <<>> \in Seq(Rows) /\ 0 \in 0 .. MaxRuns /\ 0 \in 0 .. MaxFaults
        /\ 0 \in 0 .. MaxCommands
    BY PoolAssumption
  <2>2. /\ pc \in [Workers -> ConsumerPoint] /\ row \in [Workers -> Rows \cup {NoRow}]
        /\ out \in [Workers -> Outcome \cup {NoOutcome}]
    BY DEF Init, ConsumerPoint
  <2> QED
    BY <1>1, <2>1, <2>2 DEF Init, TypeOK, Phase, ProducerPoint
<1>3. PhaseInv /\ RowInv /\ CountInv
  BY DEF Init, PhaseInv, RowInv, CountInv, Live, Busy
<1> QED
  BY <1>2, <1>3 DEF Structure

(* Every variable stays in its range: the counters of the queue do not go  *)
(* below zero on any path through a consumer, and the clock is bounded.    *)
THEOREM PoolTyped == Spec => []TypeOK
<1>1. Spec => []Structure
  BY StructureInit, StructureNext, PTL DEF Spec
<1> QED
  BY <1>1, PTL DEF Structure

(* No row of a run is done without a decision, whatever faults, crashes    *)
(* and commands of other processes interleave with the pool.               *)
THEOREM PoolSettled == Spec => []SettledHasResult
<1>1. Init => SettledHasResult
  BY DEF Init, StoreInit, SettledHasResult
<1>2. Structure /\ SettledHasResult /\ [Next]_vars => SettledHasResult'
  <2>1. SettledHasResult /\ UNCHANGED store => SettledHasResult'
    BY DEF SettledHasResult, store
  <2> QED
    BY <2>1, PoolTransacts, StoreSettled DEF Structure, TypeOK, vars
<1>3. Spec => []Structure
  BY StructureInit, StructureNext, PTL DEF Spec
<1> QED
  BY <1>1, <1>2, <1>3, PTL DEF Spec

-----------------------------------------------------------------------------
(* Who writes to the store: the run itself by transactions on sets of      *)
(* rows, a consumer on the row it holds, a suppress of another process.    *)
LEMMA PoolWriters ==
    ASSUME Structure, Next
    PROVE  \/ UNCHANGED store
           \/ SetTransaction
           \/ SuppressCommand
           \/ \E w \in Workers : /\ row[w] \in Rows
                                 /\ FailRow(w) \/ PersistRoutes(w) \/ PersistDecision(w)
                                    \/ PersistReview(w)
<1> USE DEF Structure, TypeOK, SetTransaction
<1>1. CASE \/ Start \/ RequestShutdown \/ Crash \/ Finished \/ WriteOutputs \/ AbortEnds
           \/ ProduceTop \/ ProduceFeed \/ ProducePut \/ ProduceBatchDone \/ ProduceStop
  BY <1>1 DEF Start, RequestShutdown, Crash, Finished, WriteOutputs, AbortEnds, EndProcess,
              ProduceTop, ProduceFeed, ProducePut, ProduceBatchDone, ProduceStop, vars
<1>2. CASE IngestBatch \/ IngestDone \/ Reclaim \/ Requeue \/ Retract \/ Unresolved
  BY <1>2 DEF IngestBatch, IngestDone, Reclaim, Requeue, Retract, Unresolved
<1>3. CASE ProduceClaim
  BY <1>3 DEF ProduceClaim
<1>4. CASE ProduceRelease \/ Join \/ ProducerFault
  BY <1>4 DEF ProduceRelease, Join, ProducerFault
<1>5. CASE RetryCommand
  BY <1>5 DEF RetryCommand
<1>6. ASSUME NEW w \in Workers, Get(w) \/ Resolve(w) \/ ResolveRaises(w) \/ Record(w)
                                \/ PersistFault(w) \/ DeferFault(w)
      PROVE  UNCHANGED store
  BY <1>6 DEF Get, Resolve, ResolveRaises, Record, PersistFault, DeferFault
<1>7. ASSUME NEW w \in Workers,
             FailRow(w) \/ PersistRoutes(w) \/ PersistDecision(w) \/ PersistReview(w)
      PROVE  row[w] \in Rows
  BY <1>7 DEF FailRow, PersistRoutes, PersistDecision, PersistReview, RowInv, Busy
<1> QED
  BY <1>1, <1>2, <1>3, <1>4, <1>5, <1>6, <1>7 DEF Next, RunStep, ProducerStep, ConsumerStep, Fault

-----------------------------------------------------------------------------
(* After the retraction no profile is shared, and after the pass that      *)
(* follows it no parked row is without a result.                           *)
NoneShared ==
    \A r, s \in Rows : Matched(r) /\ Matched(s) /\ result[r].url = result[s].url
                           => Person[r] = Person[s]

EndInv ==
    /\ phase \in {"unresolved", "write"} => NoneShared
    /\ phase = "write" => \A r \in Rows : status[r] = "deferred" => result[r].decision # "none"

LEMMA RetractedNoneShared == StoreTypeOK /\ RetractSharedUrls => NoneShared'
<1> SUFFICES ASSUME StoreTypeOK, RetractSharedUrls, NEW r \in Rows, NEW s \in Rows,
                    Matched(r)', Matched(s)', result'[r].url = result'[s].url
             PROVE  Person[r] = Person[s]
  BY DEF NoneShared
<1>1. \A q \in Rows : Matched(q)' => /\ Matched(q) /\ result'[q] = result[q]
                                     /\ result[q].url \notin FindSharedUrls
  <2> SUFFICES ASSUME NEW q \in Rows, Matched(q)'
               PROVE  Matched(q) /\ result'[q] = result[q] /\ result[q].url \notin FindSharedUrls
    OBVIOUS
  <2>1. result'[q] = IF Matched(q) /\ result[q].url \in FindSharedUrls
                     THEN Blank("blank_ambiguous") ELSE result[q]
    BY DEF RetractSharedUrls
  <2>2. Blank("blank_ambiguous").decision # "matched"
    BY DEF Blank
  <2> QED
    BY <2>1, <2>2 DEF Matched
<1>2. result[r].url \in Urls
  BY <1>1 DEF StoreTypeOK, Matched
<1> QED
  BY <1>1, <1>2 DEF FindSharedUrls

LEMMA EndNext ==
    Structure /\ ProfileOnlyOnMatch /\ EndInv /\ [Next]_vars => EndInv'
<1> SUFFICES ASSUME Structure, ProfileOnlyOnMatch, EndInv, [Next]_vars PROVE EndInv'
  OBVIOUS
<1> USE DEF EndInv, NoneShared
<1>1. CASE UNCHANGED vars
  BY <1>1 DEF vars, runVars, store, Matched
<1>2. CASE phase' \notin {"unresolved", "write"}
  BY <1>2
<1>3. CASE Retract
  BY <1>3, RetractedNoneShared DEF Retract, Structure, TypeOK
<1>4. CASE Unresolved
  <2>1. /\ phase = "unresolved" /\ phase' = "write" /\ RecordUnresolvedResults
    BY <1>4 DEF Unresolved
  <2>2. \A r \in Rows : Matched(r)' => Matched(r) /\ result'[r] = result[r]
    <3>1. Blank("blank_error").decision # "matched"
      BY DEF Blank
    <3> QED
      BY <2>1, <3>1 DEF RecordUnresolvedResults, Matched
  <2>3. ASSUME NEW r \in Rows, status'[r] = "deferred" PROVE result'[r].decision # "none"
    <3>1. status[r] = "deferred" /\ result[r] \in [decision : Decision, url : Urls \cup {NoUrl}]
      BY <2>1, <2>3 DEF RecordUnresolvedResults, Structure, TypeOK, StoreTypeOK
    <3>2. CASE result[r] = NoResult
      BY <2>1, <3>1, <3>2 DEF RecordUnresolvedResults, Blank
    <3>3. CASE result[r] # NoResult
      <4>1. result[r].decision # "none"
        BY <3>1, <3>3 DEF ProfileOnlyOnMatch, NoResult
      <4> QED
        BY <2>1, <3>1, <3>3, <4>1 DEF RecordUnresolvedResults
    <3> QED
      BY <3>2, <3>3
  <2> QED
    BY <2>1, <2>2, <2>3
<1>5. CASE SuppressCommand
  <2>1. PICK q \in Rows : Suppress(q)
    BY <1>5 DEF SuppressCommand
  <2>2. phase' = phase
    BY <1>5 DEF SuppressCommand, runVars
  <2>3. Blank("suppressed").decision \notin {"matched", "none"}
    BY DEF Blank
  <2>4. \A r \in Rows : \/ result'[r] = result[r] /\ status'[r] = status[r]
                        \/ result'[r] = Blank("suppressed")
    BY <2>1 DEF Suppress, Structure, TypeOK, StoreTypeOK
  <2> QED
    BY <2>2, <2>3, <2>4 DEF Matched
<1>6. CASE RetryCommand
  <2>1. PICK reset \in BOOLEAN : RequeueFailed(reset)
    BY <1>6 DEF RetryCommand
  <2>2. phase' = phase
    BY <1>6 DEF RetryCommand, runVars
  <2>3. result' = result /\ \A r \in Rows : status'[r] \in {status[r], "pending"}
    BY <2>1 DEF RequeueFailed
  <2> QED
    BY <2>2, <2>3 DEF Matched
<1>7. CASE Finished
  BY <1>1, <1>7 DEF Finished
<1>8. CASE Start \/ Crash \/ Fault \/ ProducerStep \/ RequestShutdown
           \/ \E w \in Workers : ConsumerStep(w)
  <2>1. phase' \notin {"unresolved", "write"}
    <3>1. CASE Start \/ Crash \/ Fault \/ RequestShutdown
      BY <3>1 DEF Start, Crash, EndProcess, Fault, ProducerFault, PersistFault, DeferFault,
                  Faulty, Live, RequestShutdown, runVars
    <3>2. CASE ProducerStep
      BY <3>2 DEF ProducerStep, ProduceTop, ProduceClaim, ProduceFeed, ProducePut,
                  ProduceBatchDone, ProduceStop, ProduceRelease, runVars
    <3>3. ASSUME NEW w \in Workers, ConsumerStep(w) PROVE phase' \notin {"unresolved", "write"}
      BY <3>3 DEF ConsumerStep, Get, Resolve, ResolveRaises, FailRow, PersistRoutes,
                  PersistDecision, PersistReview, Record, Live, runVars
    <3> QED
      BY <1>8, <3>1, <3>2, <3>3
  <2> QED
    BY <1>2, <2>1
<1>9. CASE RunStep /\ ~ Retract /\ ~ Unresolved
  <2>1. phase' \notin {"unresolved", "write"}
    BY <1>9 DEF RunStep, IngestBatch, IngestDone, Reclaim, Requeue, Join, WriteOutputs,
                AbortEnds, EndProcess
  <2> QED
    BY <1>2, <2>1
<1> QED
  BY <1>1, <1>3, <1>4, <1>5, <1>6, <1>7, <1>8, <1>9 DEF Next

LEMMA PoolStructure == Spec => []Structure
BY StructureInit, StructureNext, PTL DEF Spec

(* A profile stands exactly on the matched rows.                           *)
THEOREM PoolProfiles == Spec => []ProfileOnlyOnMatch
<1>1. Init => ProfileOnlyOnMatch
  BY DEF Init, StoreInit, ProfileOnlyOnMatch, NoResult
<1>2. Structure /\ ProfileOnlyOnMatch /\ [Next]_vars => ProfileOnlyOnMatch'
  <2>1. ProfileOnlyOnMatch /\ UNCHANGED store => ProfileOnlyOnMatch'
    BY DEF ProfileOnlyOnMatch, store
  <2> QED
    BY <2>1, PoolTransacts, StoreProfiles DEF Structure, TypeOK, vars
<1> QED
  BY <1>1, <1>2, PoolStructure, PTL DEF Spec

LEMMA EndAlways == Spec => []EndInv
<1>1. Init => EndInv
  BY DEF Init, EndInv
<1> QED
  BY <1>1, EndNext, PoolStructure, PoolProfiles, PTL DEF Spec

(* The outputs never show one profile for two people (store.py:506-510),   *)
(* whatever other processes did to the store meanwhile.                    *)
THEOREM PoolNoSharedProfile == Spec => []NoSharedProfile
<1>1. EndInv => NoSharedProfile
  BY DEF EndInv, NoneShared, NoSharedProfile
<1> QED
  BY <1>1, EndAlways, PTL

-----------------------------------------------------------------------------
(* Once the target is met, the rows still on their way -- in the queue, in *)
(* a blocked put, with a consumer -- are all that can be delivered yet.    *)
Blocked == IF pp = "put" THEN 1 ELSE 0

IntakeInv ==
    /\ Limit # NoLimit => dispatched <= Limit
    /\ Len(queue) <= QueueCap
    /\ \/ Target = 0
       \/ delivered < Target
       \/ delivered + Len(queue) + Blocked + Cardinality(Busy)
              <= Target + QueueCap + Cardinality(Workers)

LEMMA Consumers ==
    /\ Cardinality(Workers) \in Nat /\ Cardinality(Busy) \in Nat
    /\ Cardinality(Busy) <= Cardinality(Workers)
<1>1. IsFiniteSet(Workers) /\ Busy \subseteq Workers
  BY PoolAssumption DEF Busy
<1> QED
  BY <1>1, FS_Subset, FS_CardinalityType

LEMMA IntakeNext == Structure /\ IntakeInv /\ [Next]_vars => IntakeInv'
<1> SUFFICES ASSUME Structure, IntakeInv, [Next]_vars PROVE IntakeInv'
  OBVIOUS
<1>1. /\ queue \in Seq(Rows) /\ Len(queue) \in Nat /\ delivered \in Nat /\ dispatched \in Nat
      /\ Cardinality(Workers) \in Nat /\ Cardinality(Busy) \in Nat
      /\ Cardinality(Busy) <= Cardinality(Workers)
      /\ Target \in Nat /\ QueueCap \in Nat \ {0} /\ (Limit # NoLimit => Limit \in Nat)
  BY Consumers, PoolAssumption DEF Structure, TypeOK
<1>2. ASSUME UNCHANGED <<dispatched, delivered, queue, pp, pc>> PROVE IntakeInv'
  BY <1>2 DEF IntakeInv, Blocked, Busy
<1>3. CASE \/ UNCHANGED vars \/ Start \/ IngestBatch \/ IngestDone \/ Reclaim \/ Retract
           \/ Unresolved \/ RequestShutdown \/ SuppressCommand \/ RetryCommand \/ Finished
  BY <1>2, <1>3 DEF vars, Start, IngestBatch, IngestDone, Reclaim, Retract, Unresolved,
     RequestShutdown, SuppressCommand, RetryCommand, Finished, producerVars, loopVars,
     consumerVars
<1>4. CASE Requeue
  <2>1. /\ Busy' = {} /\ pp' = "top"
        /\ UNCHANGED <<dispatched, delivered, queue>>
    BY <1>4 DEF Requeue, Busy, loopVars
  <2>2. Cardinality(Busy') = 0
    BY <2>1, FS_EmptySet
  <2>3. Blocked' = 0 /\ Blocked \in Nat
    BY <2>1 DEF Blocked
  <2> QED
    BY <1>1, <2>1, <2>2, <2>3 DEF IntakeInv
<1>5. CASE ProducerStep
  <2>1. Busy' = Busy /\ delivered' = delivered
    BY <1>5 DEF ProducerStep, ProduceTop, ProduceClaim, ProduceFeed, ProducePut,
                ProduceBatchDone, ProduceStop, ProduceRelease, consumerVars, loopVars, Busy
  <2>2. CASE ProduceTop \/ ProduceClaim \/ ProduceBatchDone \/ ProduceStop \/ ProduceRelease
    <3>1. Blocked' = 0 /\ Blocked \in Nat /\ UNCHANGED <<dispatched, queue>>
      BY <2>2 DEF ProduceTop, ProduceClaim, ProduceBatchDone, ProduceStop, ProduceRelease,
                  loopVars, Blocked
    <3> QED
      BY <1>1, <2>1, <3>1 DEF IntakeInv
  <2>3. CASE ProduceFeed
    <3>1. /\ ~ TargetHit /\ ~ LimitHit /\ dispatched' = dispatched + 1
          /\ \E r \in todo : \/ Len(queue) < QueueCap /\ queue' = Append(queue, r)
                             \/ queue' = queue
      BY <2>3 DEF ProduceFeed
    <3>2. Len(queue') <= QueueCap
      <4>1. \A r \in Rows : Len(Append(queue, r)) = Len(queue) + 1
        BY <1>1
      <4>2. todo \in SUBSET Rows
        BY DEF Structure, TypeOK
      <4> QED
        BY <1>1, <3>1, <4>1, <4>2 DEF IntakeInv
    <3>3. Target = 0 \/ delivered' < Target
      BY <1>1, <2>1, <3>1 DEF TargetHit
    <3>4. Limit # NoLimit => dispatched' <= Limit
      BY <1>1, <3>1 DEF LimitHit
    <3> QED
      BY <3>2, <3>3, <3>4 DEF IntakeInv
  <2>4. CASE ProducePut
    <3>1. /\ Len(queue) < QueueCap /\ queue' = Append(queue, putting)
          /\ pp = "put" /\ pp' = "feed" /\ dispatched' = dispatched
      BY <2>4 DEF ProducePut
    <3>2. putting \in Rows
      BY <3>1 DEF Structure, TypeOK, PhaseInv
    <3>3. Len(queue') = Len(queue) + 1 /\ Blocked = 1 /\ Blocked' = 0
      BY <1>1, <3>1, <3>2 DEF Blocked
    <3> QED
      BY <1>1, <2>1, <3>1, <3>3 DEF IntakeInv
  <2> QED
    BY <1>5, <2>2, <2>3, <2>4 DEF ProducerStep
<1>6. ASSUME NEW w \in Workers, ConsumerStep(w) \/ PersistFault(w) \/ DeferFault(w)
      PROVE  IntakeInv'
  <2>0. pc \in [Workers -> ConsumerPoint]
    BY DEF Structure, TypeOK
  <2>1. Blocked' = Blocked /\ Blocked \in {0, 1} /\ dispatched' = dispatched
    BY <1>6 DEF ConsumerStep, Get, Resolve, ResolveRaises, FailRow, PersistRoutes,
                PersistDecision, PersistReview, Record, PersistFault, DeferFault, producerVars,
                Blocked
  <2>2. CASE Get(w)
    <3>1. w \notin Busy /\ Busy' = Busy \cup {w} /\ delivered' = delivered
      BY <2>0, <2>2 DEF Get, Busy
    <3>2. Len(queue') = Len(queue) - 1
      BY <1>1, <2>2 DEF Get
    <3>3. Cardinality(Busy') = Cardinality(Busy) + 1
      BY <3>1, BusyCount
    <3> QED
      BY <1>1, <2>1, <3>1, <3>2, <3>3 DEF IntakeInv
  <2>3. CASE Resolve(w) \/ ResolveRaises(w) \/ FailRow(w) \/ PersistRoutes(w)
             \/ PersistDecision(w) \/ PersistReview(w)
    <3>1. Busy' = Busy /\ UNCHANGED <<queue, delivered>>
      BY <2>0, <2>3 DEF Resolve, ResolveRaises, FailRow, PersistRoutes, PersistDecision,
                        PersistReview, Busy, loopVars
    <3> QED
      BY <2>1, <3>1 DEF IntakeInv
  <2>4. CASE Record(w) \/ PersistFault(w) \/ DeferFault(w)
    <3>1. w \in Busy /\ Busy' = Busy \ {w}
      BY <2>0, <2>4 DEF Record, PersistFault, DeferFault, Busy
    <3>2. queue' = queue /\ delivered' \in {delivered, delivered + 1}
      BY <2>4 DEF Record, PersistFault, DeferFault, loopVars
    <3>3. Cardinality(Busy) >= 1 /\ Cardinality(Busy') = Cardinality(Busy) - 1
      BY <3>1, BusyCount
    <3> QED
      BY <1>1, <2>1, <3>2, <3>3 DEF IntakeInv
  <2> QED
    BY <1>6, <2>2, <2>3, <2>4 DEF ConsumerStep
<1>7. CASE ProducerFault
  <2>1. Busy' \subseteq Busy /\ pp' = "done" /\ queue' = <<>>
        /\ UNCHANGED <<dispatched, delivered>>
    BY <1>7 DEF ProducerFault, Busy
  <2>2. Cardinality(Busy') \in Nat /\ Cardinality(Busy') <= Cardinality(Busy)
    BY <2>1, BusyCount
  <2>3. Blocked' = 0 /\ Blocked \in Nat /\ Len(queue') = 0
    BY <2>1 DEF Blocked
  <2> QED
    BY <1>1, <2>1, <2>2, <2>3 DEF IntakeInv
<1>8. CASE Join
  <2>1. Busy' \subseteq Busy /\ UNCHANGED <<pp, queue, dispatched, delivered>>
    BY <1>8 DEF Join, Busy, producerVars, loopVars
  <2>2. Cardinality(Busy') \in Nat /\ Cardinality(Busy') <= Cardinality(Busy)
    BY <2>1, BusyCount
  <2>3. Blocked' = Blocked /\ Blocked \in Nat
    BY <2>1 DEF Blocked
  <2> QED
    BY <1>1, <2>1, <2>2, <2>3 DEF IntakeInv
<1>9. CASE WriteOutputs \/ AbortEnds \/ Crash
  <2>1. dispatched' = 0 /\ delivered' = 0 /\ queue' = <<>>
    BY <1>9 DEF WriteOutputs, AbortEnds, Crash, EndProcess
  <2> QED
    BY <1>1, <2>1 DEF IntakeInv
<1> QED
  BY <1>3, <1>4, <1>5, <1>6, <1>7, <1>8, <1>9 DEF Next, RunStep, Fault

(* --limit is kept, and the target exceeded by no more than the rows that  *)
(* were on their way when it was met (pool.py:145-201).                    *)
THEOREM PoolIntakeBounded == Spec => []IntakeBounded
<1>1. Init => IntakeInv
  BY PoolAssumption DEF Init, IntakeInv
<1>2. Structure /\ IntakeInv => IntakeBounded
  <2> SUFFICES ASSUME Structure, IntakeInv PROVE IntakeBounded
    OBVIOUS
  <2>1. /\ Len(queue) \in Nat /\ Blocked \in Nat /\ delivered \in Nat
        /\ Target \in Nat /\ QueueCap \in Nat
    BY PoolAssumption DEF Structure, TypeOK, Blocked
  <2> QED
    BY <2>1, Consumers DEF IntakeInv, IntakeBounded
<1> QED
  BY <1>1, <1>2, IntakeNext, PoolStructure, PTL DEF Spec

-----------------------------------------------------------------------------
(* A tombstoned row is in nobody's hands: suppress comes between two runs, *)
(* and a claim takes pending rows only.                                    *)
TombInv ==
    /\ TombstoneSticks
    /\ batch \cap tombs = {} /\ todo \cap tombs = {} /\ Queued \cap tombs = {}
    /\ putting \notin tombs
    /\ \A w \in Workers : row[w] \notin tombs
    /\ phase = "down" => batch = {}

LEMMA SetSticks ==
    StoreTypeOK /\ TombstoneSticks /\ SetTransaction => TombstoneSticks' /\ tombs' = tombs
<1> SUFFICES ASSUME StoreTypeOK, TombstoneSticks, SetTransaction
             PROVE  TombstoneSticks' /\ tombs' = tombs
  OBVIOUS
<1> USE DEF TombstoneSticks, StoreTypeOK
<1>1. ASSUME NEW S \in SUBSET Rows, InsertRecords(S) PROVE TombstoneSticks' /\ tombs' = tombs
  BY <1>1 DEF InsertRecords
<1>2. ASSUME NEW S \in SUBSET Rows, ReclaimStale(S) \/ Release(S)
      PROVE  TombstoneSticks' /\ tombs' = tombs
  BY <1>2 DEF ReclaimStale, Abandoned, Release, Having
<1>3. ASSUME NEW S \in SUBSET Having("pending"), NEW now \in Nat, ClaimBatch(S, now)
      PROVE  TombstoneSticks' /\ tombs' = tombs
  BY <1>3 DEF ClaimBatch, Having
<1>4. CASE RecordSkippedResults \/ RecordUnresolvedResults
  BY <1>4 DEF RecordSkippedResults, RecordUnresolvedResults, NoResult
<1>5. CASE RequeueDeferred
  BY <1>5 DEF RequeueDeferred, Having
<1>6. CASE RetractSharedUrls
  BY <1>6 DEF RetractSharedUrls, Matched
<1>7. ASSUME NEW reset \in BOOLEAN, RequeueFailed(reset)
      PROVE  TombstoneSticks' /\ tombs' = tombs
  BY <1>7 DEF RequeueFailed, Having
<1> QED
  BY <1>1, <1>2, <1>3, <1>4, <1>5, <1>6, <1>7 DEF SetTransaction

LEMMA StoreSticks ==
    ASSUME Structure, TombInv, Next, ~ SuppressCommand
    PROVE  TombstoneSticks' /\ tombs' = tombs
<1>1. CASE UNCHANGED store
  BY <1>1 DEF TombInv, TombstoneSticks, store
<1>2. CASE SetTransaction
  BY <1>2, SetSticks DEF TombInv, Structure, TypeOK
<1>3. ASSUME NEW w \in Workers, row[w] \in Rows,
             FailRow(w) \/ PersistRoutes(w) \/ PersistDecision(w) \/ PersistReview(w)
      PROVE  TombstoneSticks' /\ tombs' = tombs
  <2>1. /\ row[w] \notin tombs /\ tombs' = tombs
        /\ \A r \in Rows : r # row[w] => status'[r] = status[r] /\ result'[r] = result[r]
    BY <1>3 DEF TombInv, Structure, TypeOK, StoreTypeOK, FailRow, PersistRoutes,
                PersistDecision, PersistReview, DeferRow, AddContactRoutes, WriteResult,
                AddReviewCandidates
  <2>2. tombs \subseteq Rows
    BY DEF Structure, TypeOK, StoreTypeOK
  <2> QED
    BY <2>1, <2>2 DEF TombInv, TombstoneSticks
<1> QED
  BY <1>1, <1>2, <1>3, PoolWriters

LEMMA TombNext ==
    ASSUME "suppress_during_run" \notin Commands, Structure, TombInv, [Next]_vars
    PROVE  TombInv'
<1> DEFINE HandsOff(S) == /\ batch' \cap S = {} /\ todo' \cap S = {} /\ Queued' \cap S = {}
                          /\ putting' \notin S /\ \A w \in Workers : row'[w] \notin S
           Idle == phase' = "down" => batch' = {}
<1>0. tombs \subseteq Rows /\ queue \in Seq(Rows) /\ NoRow \notin Rows
  BY PoolAssumption DEF Structure, TypeOK, StoreTypeOK
<1>1. CASE UNCHANGED vars
  BY <1>1 DEF TombInv, TombstoneSticks, Queued, vars, store, runVars, producerVars, loopVars,
              consumerVars
<1>2. CASE SuppressCommand
  <2>1. /\ phase = "down" /\ UNCHANGED <<batch, todo, queue, putting, row, phase>>
    BY <1>2 DEF SuppressCommand, runVars, producerVars, loopVars, consumerVars
  <2>2. PICK q \in Rows : Suppress(q)
    BY <1>2 DEF SuppressCommand
  <2>3. TombstoneSticks'
    BY <2>2 DEF Suppress, Structure, TypeOK, StoreTypeOK, TombInv, TombstoneSticks, Blank
  <2>4. /\ batch = {} /\ todo = {} /\ queue = <<>> /\ putting = NoRow
        /\ \A w \in Workers : row[w] = NoRow
    BY <2>1 DEF TombInv, Structure, PhaseInv
  <2>5. tombs' \subseteq Rows
    BY <1>0, <2>2 DEF Suppress
  <2> QED
    BY <1>0, <2>1, <2>3, <2>4, <2>5 DEF TombInv, Queued
<1>3. ASSUME Next, ~ SuppressCommand PROVE TombstoneSticks' /\ tombs' = tombs
  BY <1>3, StoreSticks
<1>4. ASSUME Next, ~ SuppressCommand PROVE HandsOff(tombs) /\ Idle
  <2> USE DEF TombInv, Queued
  <2>1. CASE EndProcess
    BY <1>0, <2>1 DEF EndProcess
  <2>2. CASE \/ Start \/ IngestBatch \/ IngestDone \/ Reclaim \/ Requeue \/ Retract \/ Unresolved
             \/ RequestShutdown \/ RetryCommand \/ Finished \/ Join
    <3>1. UNCHANGED <<batch, todo, queue, putting, row>>
      BY <2>2 DEF Start, IngestBatch, IngestDone, Reclaim, Requeue, Retract, Unresolved,
         RequestShutdown, RetryCommand, Finished, Join, vars, producerVars, loopVars, consumerVars
    <3>2. phase' = "down" => phase = "down"
      BY <2>2 DEF Start, IngestBatch, IngestDone, Reclaim, Requeue, Retract, Unresolved,
         RequestShutdown, RetryCommand, Finished, Join, vars, runVars
    <3> QED
      BY <3>1, <3>2
  <2>3. CASE ProducerStep
    <3>1. phase' = "pool" /\ row' = row
      BY <2>3 DEF ProducerStep, ProduceTop, ProduceClaim, ProduceFeed, ProducePut,
                  ProduceBatchDone, ProduceStop, ProduceRelease, runVars, consumerVars
    <3>2. CASE ProduceTop \/ ProduceBatchDone \/ ProduceStop \/ ProduceRelease
      BY <3>1, <3>2 DEF ProduceTop, ProduceBatchDone, ProduceStop, ProduceRelease, loopVars
    <3>3. CASE ProduceClaim
      <4>1. /\ batch' \subseteq Having("pending") /\ todo' = batch'
            /\ UNCHANGED <<queue, putting>>
        BY <3>3 DEF ProduceClaim, loopVars
      <4>2. Having("pending") \cap tombs = {}
        BY DEF Having, TombstoneSticks
      <4> QED
        BY <3>1, <4>1, <4>2
    <3>4. CASE ProduceFeed
      <4>1. PICK r \in todo : /\ batch' = batch /\ todo' = todo \ {r}
                              /\ \/ queue' = Append(queue, r) /\ putting' = putting
                                 \/ queue' = queue /\ putting' = r
        BY <3>4 DEF ProduceFeed
      <4>2. r \in Rows /\ r \notin tombs
        BY <4>1 DEF Structure, TypeOK
      <4>3. Queued' \subseteq Queued \cup {r}
        BY <1>0, <4>1, <4>2
      <4> QED
        BY <3>1, <4>1, <4>2, <4>3
    <3>5. CASE ProducePut
      <4>1. /\ queue' = Append(queue, putting) /\ putting' = NoRow /\ pp = "put"
            /\ batch' = batch /\ todo' = todo
        BY <3>5 DEF ProducePut
      <4>2. putting \in Rows
        BY <4>1 DEF Structure, TypeOK, PhaseInv
      <4>3. Queued' \subseteq Queued \cup {putting}
        BY <1>0, <4>1, <4>2
      <4> QED
        BY <1>0, <3>1, <4>1, <4>3
    <3> QED
      BY <2>3, <3>2, <3>3, <3>4, <3>5 DEF ProducerStep
  <2>4. ASSUME NEW w \in Workers, ConsumerStep(w) \/ PersistFault(w) \/ DeferFault(w)
        PROVE  HandsOff(tombs) /\ Idle
    <3>0. row \in [Workers -> Rows \cup {NoRow}]
      BY DEF Structure, TypeOK
    <3>1. UNCHANGED <<batch, todo, putting>> /\ phase' # "down"
      BY <2>4 DEF ConsumerStep, Get, Resolve, ResolveRaises, FailRow, PersistRoutes,
         PersistDecision, PersistReview, Record, PersistFault, DeferFault, Faulty, Live,
         producerVars, runVars
    <3>2. CASE Get(w)
      <4>1. queue # <<>> /\ queue' = Tail(queue) /\ row' = [row EXCEPT ![w] = Head(queue)]
        BY <3>2 DEF Get
      <4>2. Queued' \subseteq Queued /\ Head(queue) \in Queued
        BY <1>0, <4>1
      <4> QED
        BY <3>0, <3>1, <4>1, <4>2
    <3>3. CASE ~ Get(w)
      <4>1. queue' = queue /\ (row' = row \/ row' = [row EXCEPT ![w] = NoRow])
        BY <2>4, <3>3 DEF ConsumerStep, Resolve, ResolveRaises, FailRow, PersistRoutes,
           PersistDecision, PersistReview, Record, PersistFault, DeferFault, loopVars
      <4> QED
        BY <1>0, <3>0, <3>1, <4>1
    <3> QED
      BY <3>2, <3>3
  <2>5. CASE ProducerFault
    BY <2>5 DEF ProducerFault
  <2> QED
    BY <1>4, <2>1, <2>2, <2>3, <2>4, <2>5
    DEF Next, RunStep, Fault, WriteOutputs, AbortEnds, Crash
<1> QED
  BY <1>1, <1>2, <1>3, <1>4 DEF TombInv

(* A tombstoned row stays erased from the results, whatever runs, crashes, *)
(* faults and retries follow -- as long as no suppress is given while a    *)
(* run is at work (README.md:863, schema.py:186).                          *)
THEOREM PoolTombstones ==
    ASSUME "suppress_during_run" \notin Commands PROVE Spec => []TombstoneSticks
<1>1. Init => TombInv
  BY PoolAssumption DEF Init, StoreInit, TombInv, TombstoneSticks, Queued
<1>2. Structure /\ TombInv /\ [Next]_vars => TombInv'
  BY TombNext
<1>3. TombInv => TombstoneSticks
  BY DEF TombInv
<1> QED
  BY <1>1, <1>2, <1>3, PoolStructure, PTL DEF Spec
=============================================================================
