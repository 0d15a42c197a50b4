------------------------- MODULE SearchClientProofs -------------------------
(***************************************************************************)
(* What the search client guarantees for every number of callers, queries, *)
(* backends and attempts and every setting of the token bucket.            *)
(***************************************************************************)
EXTENDS SearchClient, TLAPS

(* Arithmetic of the bucket.                                               *)

LEMMA BucketConstants ==
    /\ Full \in Nat \ {0} /\ Full >= Cost
    /\ Cost \in Nat \ {0} /\ Configured \in Nat \ {0} /\ MinRate \in Nat \ {0}
<1>1. \A a, b \in Nat \ {0} : a * b \in Nat \ {0} /\ a * b >= b
  OBVIOUS
<1> QED
  BY <1>1, ClientAssumption DEF Full

(* The refilled bucket, and the sleep when it holds too little.            *)
LEMMA Refill ==
    ASSUME TypeOK
    PROVE  /\ Refilled \in 0 .. Full
           /\ Refilled < Cost => Wait \in 0 .. SleepCap
<1>1. rate \in Nat \ {0} /\ idle \in Nat /\ tokens \in Nat
  BY BucketConstants DEF TypeOK, Most, IdleCap
<1>2. idle * rate \in Nat
  BY <1>1
<1>3. Refilled \in 0 .. Full
  BY <1>1, <1>2, BucketConstants DEF Refilled, Least
<1>4. ASSUME Refilled < Cost PROVE Up(Cost - Refilled, rate) \in Nat
  <2> DEFINE n == Cost - Refilled + rate - 1
  <2>1. n \in Nat
    BY <1>1, <1>3, <1>4, BucketConstants
  <2>2. n \div rate \in Nat
    <3> HIDE DEF n
    <3> QED
      BY <1>1, <2>1
  <2> QED
    BY <2>2 DEF Up
<1> QED
  BY <1>3, <1>4, ClientAssumption DEF Wait, Least

(* A throttle leaves the rate in its range, and no higher unless it was    *)
(* below the minimum; a success leaves it in its range too.                *)
LEMMA RateMoves ==
    ASSUME TypeOK
    PROVE  /\ Slower \in 1 .. Most(Configured, MinRate)
           /\ OnSuccess => rate' \in 1 .. Most(Configured, MinRate)
<1>1. rate \in Nat \ {0} /\ rate <= Most(Configured, MinRate)
  BY BucketConstants DEF TypeOK, Most
<1>2. (rate * BackoffNum) \div BackoffDen \in Nat
  BY <1>1, ClientAssumption
<1>3. (rate * BackoffNum) \div BackoffDen <= rate
  BY <1>1, <1>2, ClientAssumption
<1>4. Up(rate * RecoverNum, RecoverDen) \in Nat \ {0}
  BY <1>1, ClientAssumption DEF Up
<1> QED
  BY <1>1, <1>2, <1>3, <1>4, BucketConstants DEF Slower, OnSuccess, Most, Least

-----------------------------------------------------------------------------
(* Type correctness.                                                       *)

(* A turn of acquire() leaves every variable in its range.                 *)
LEMMA AcquireTyped ==
    ASSUME TypeOK, NEW c \in Callers, Acquire(c)
    PROVE  /\ rate' = rate /\ cache' = cache /\ disabled' = disabled
           /\ tokens' \in 0 .. Full /\ idle' = 0
           /\ pc' \in [Callers -> {"idle", "sleep", "ask", "backoff"}]
           /\ asking' \in [Callers -> Backend]
           /\ answer' \in [Callers -> {"none", "results", "empty", "error", "cached"}]
           /\ timer' \in [Callers -> 0 .. SleepCap]
           /\ allowed' \in Int /\ allowed' <= Full
           /\ signals' = signals
<1> USE BucketConstants, ClientAssumption DEF TypeOK
<1>1. Refilled \in 0 .. Full /\ (Refilled < Cost => Wait \in 0 .. SleepCap)
  BY Refill
<1>2. CASE Refilled < Cost
  <2>1. Refilled \in Int /\ ~(Refilled >= Cost)
    BY <1>1, <1>2
  <2> QED
    BY <1>1, <1>2, <2>1 DEF Acquire
<1>3. CASE Refilled >= Cost
  <2>1. Refilled - Cost \in 0 .. Full /\ ~(Refilled < Cost)
    BY <1>1, <1>3
  <2>2. allowed - Cost \in Int /\ allowed - Cost <= Full
    OBVIOUS
  <2>4. ASSUME RequestFirst(c, Left(1))
        PROVE  /\ asking' \in [Callers -> Backend]
               /\ pc' \in [Callers -> {"idle", "sleep", "ask", "backoff"}]
    BY <2>4 DEF RequestFirst, Request, Left
  <2> QED
    BY <1>3, <2>1, <2>2, <2>4 DEF Acquire
<1> QED
  BY <1>1, <1>2, <1>3

(* A caller that waits to ask again has an attempt left.                   *)
RetryInv == \A c \in Callers : pc[c] = "backoff" => attempt[c] < MaxAttempts

(* So does every step.                                                     *)
LEMMA TypeNext == TypeOK /\ RetryInv /\ [Next]_vars => TypeOK'
<1> SUFFICES ASSUME TypeOK, RetryInv, [Next]_vars PROVE TypeOK'
  OBVIOUS
<1>1. CASE UNCHANGED vars
  BY <1>1 DEF TypeOK, vars, bucket, callers, history
<1>2. ASSUME NEW c \in Callers, NEW q \in Queries, Hit(c, q) PROVE TypeOK'
  <2>1. searches' \in [Callers -> 0 .. MaxSearches]
    BY <1>2, ClientAssumption DEF TypeOK, Hit
  <2> QED
    BY <1>2, <2>1 DEF TypeOK, Hit, bucket, history
<1>3. ASSUME NEW c \in Callers, NEW q \in Queries, Search(c, q) PROVE TypeOK'
  <2>1. searches' \in [Callers -> 0 .. MaxSearches]
    BY <1>3, ClientAssumption DEF TypeOK, Search
  <2>2. /\ query' \in [Callers -> Queries \cup {NoQuery}]
        /\ attempt' \in [Callers -> 1 .. MaxAttempts]
        /\ clean' \in [Callers -> SUBSET Backend]
        /\ failed' \in [Callers -> BOOLEAN]
    BY <1>3, ClientAssumption DEF TypeOK, Search
  <2>3. Acquire(c)
    BY <1>3 DEF Search
  <2>4. 0 \in 0 .. IdleCap
    BY BucketConstants DEF IdleCap
  <2> QED
    BY <2>1, <2>2, <2>3, <2>4, AcquireTyped DEF TypeOK
<1>4. ASSUME NEW c \in Callers, Wake(c) PROVE TypeOK'
  <2>1. Acquire(c) /\ UNCHANGED <<query, attempt, clean, failed, searches>>
    BY <1>4 DEF Wake
  <2>2. 0 \in 0 .. IdleCap
    BY BucketConstants DEF IdleCap
  <2> QED
    BY <2>1, <2>2, AcquireTyped DEF TypeOK
<1>5. ASSUME NEW c \in Callers, Retry(c) PROVE TypeOK'
  <2>2. asking' \in [Callers -> Backend]
    BY <1>5, ClientAssumption DEF TypeOK, Retry, Request, Backend
  <2>3. attempt' \in [Callers -> 1 .. MaxAttempts]
    BY <1>5, ClientAssumption DEF TypeOK, RetryInv, Retry
  <2> QED
    BY <1>5, <2>2, <2>3 DEF TypeOK, Retry, Request, bucket
<1>6. ASSUME NEW c \in Callers, NEW kind \in {"results", "empty"}, Answered(c, kind)
      PROVE  TypeOK'
  <2>1. cache' \in [Queries -> {"none", "results", "empty"}]
    BY <1>6 DEF TypeOK, Answered, Put
  <2>2. clean' \in [Callers -> SUBSET Backend]
    BY <1>6 DEF TypeOK, Answered
  <2>3. rate' \in 1 .. Most(Configured, MinRate)
    BY <1>6, RateMoves DEF Answered
  <2> QED
    BY <1>6, <2>1, <2>2, <2>3 DEF TypeOK, Answered, Return, OnSuccess
<1>7. ASSUME NEW c \in Callers, NEW kind \in {"throttled", "transient", "terminal"},
             Raised(c, kind)
      PROVE  TypeOK'
  <2>1. /\ rate' \in 1 .. Most(Configured, MinRate) /\ tokens' \in 0 .. Full
        /\ idle' = idle
    BY <1>7, RateMoves, BucketConstants DEF TypeOK, Raised, OnThrottled, bucket
  <2>2. signals' \in {0, 1}
    BY <1>7 DEF TypeOK, Raised
  <2> QED
    BY <1>7, <2>1, <2>2 DEF TypeOK, Raised, Return
<1>8. ASSUME NEW c \in Callers, NEW kind \in {"empty", "throttled", "failed", "policy"},
             Missed(c, kind)
      PROVE  TypeOK'
  <2>1. disabled' \in SUBSET Backend /\ clean' \in [Callers -> SUBSET Backend]
    BY <1>8 DEF TypeOK, Missed
  <2>2. failed' \in [Callers -> BOOLEAN] /\ signals' \in {0, 1}
    BY <1>8 DEF TypeOK, Missed, SomeFailed
  <2> DEFINE outcome == IF failed'[c] THEN "error" ELSE "empty"
  <2>3. CASE /\ RequestFirst(c, Left(asking[c] + 1))
             /\ UNCHANGED <<bucket, cache, answer>>
    <3>2. asking' \in [Callers -> Backend] /\ pc' \in [Callers -> {"idle", "sleep", "ask", "backoff"}]
      BY <2>3 DEF TypeOK, RequestFirst, Request, Left
    <3> QED
      BY <1>8, <2>1, <2>2, <2>3, <3>2 DEF TypeOK, Missed, bucket
  <2>4. CASE /\ Return(c, outcome) /\ OnSuccess /\ Put(query[c], outcome)
             /\ UNCHANGED asking
    <3>1. rate' \in 1 .. Most(Configured, MinRate)
      BY <2>4, RateMoves
    <3>2. cache' \in [Queries -> {"none", "results", "empty"}]
      BY <2>4 DEF TypeOK, Put
    <3> QED
      BY <1>8, <2>1, <2>2, <2>4, <3>1, <3>2 DEF TypeOK, Missed, Return, OnSuccess
  <2> QED
    BY <1>8, <2>3, <2>4 DEF Missed
<1>9. CASE Tick
  <2>1. idle' \in 0 .. IdleCap
    BY <1>9, BucketConstants DEF TypeOK, Tick, Least, IdleCap
  <2>2. allowed' \in Int /\ allowed' <= Full
    BY <1>9, BucketConstants DEF TypeOK, Tick, Least
  <2>3. timer' \in [Callers -> 0 .. SleepCap]
    BY <1>9, ClientAssumption DEF TypeOK, Tick, Most
  <2> QED
    BY <1>9, <2>1, <2>2, <2>3 DEF TypeOK, Tick
<1>10. ASSUME NEW q \in Queries, Expire(q) PROVE TypeOK'
  BY <1>10 DEF TypeOK, Expire, bucket, callers, history
<1> QED
  BY <1>1, <1>2, <1>3, <1>4, <1>5, <1>6, <1>7, <1>8, <1>9, <1>10 DEF Next, Reply

LEMMA TypeInit == Init => TypeOK
  BY BucketConstants, ClientAssumption DEF Init, TypeOK, Most, IdleCap, Backend

(* Attempts count up to their limit and no further.                        *)
LEMMA RetryNext == TypeOK /\ RetryInv /\ [Next]_vars => RetryInv'
<1> SUFFICES ASSUME TypeOK, RetryInv, [Next]_vars, NEW d \in Callers, pc'[d] = "backoff"
             PROVE  attempt'[d] < MaxAttempts
  BY DEF RetryInv
<1> USE DEF TypeOK, RetryInv
<1>1. CASE UNCHANGED <<pc, attempt>>
  BY <1>1
<1>2. ASSUME NEW c \in Callers, Acquire(c), \A e \in Callers : e # c => attempt'[e] = attempt[e]
      PROVE  attempt'[d] < MaxAttempts
  BY <1>2 DEF Acquire, RequestFirst, Request
<1>3. ASSUME NEW c \in Callers, NEW q \in Queries, Search(c, q)
      PROVE  attempt'[d] < MaxAttempts
  BY <1>2, <1>3 DEF Search
<1>4. ASSUME NEW c \in Callers, Wake(c) PROVE attempt'[d] < MaxAttempts
  BY <1>2, <1>4 DEF Wake
<1>5. ASSUME NEW c \in Callers, Retry(c) PROVE attempt'[d] < MaxAttempts
  BY <1>5 DEF Retry, Request
<1>6. ASSUME NEW c \in Callers, Reply(c) PROVE attempt'[d] < MaxAttempts
  <2>1. ASSUME NEW kind, Answered(c, kind) PROVE attempt'[d] < MaxAttempts
    BY <2>1 DEF Answered, Return
  <2>2. ASSUME NEW kind, Raised(c, kind) PROVE attempt'[d] < MaxAttempts
    BY <2>2 DEF Raised, Return
  <2>3. ASSUME NEW kind, Missed(c, kind) PROVE attempt'[d] < MaxAttempts
    BY <2>3 DEF Missed, Return, RequestFirst, Request
  <2> QED
    BY <1>6, <2>1, <2>2, <2>3 DEF Reply
<1>7. (\E c \in Callers, q \in Queries : Hit(c, q)) \/ Tick
          \/ (\E q \in Queries : Expire(q)) \/ UNCHANGED vars
         => UNCHANGED <<pc, attempt>>
  BY DEF Hit, Tick, Expire, vars, callers
<1> QED
  BY <1>1, <1>3, <1>4, <1>5, <1>6, <1>7 DEF Next

LEMMA RetryInit == Init => RetryInv
  BY DEF Init, RetryInv

(* The client's state stays in its ranges; in particular no query is ever  *)
(* attempted more than MaxAttempts times.                                  *)
THEOREM ClientTyped == Spec => []TypeOK
<1> QED
  BY TypeInit, RetryInit, TypeNext, RetryNext, PTL DEF Spec

-----------------------------------------------------------------------------
(* The bucket conforms to the configured rate.                             *)

(* What the bucket could be refilled to, at the configured rate, fits the  *)
(* room that is left.                                                      *)
PermitInv == allowed >= Least(Full, tokens + idle * Configured)

(* With a minimum above it, the first throttle would lift the rate over    *)
(* the configured one; _validate does not exclude that.                    *)
LEMMA PermitNext ==
    ASSUME MinRate <= Configured
    PROVE  TypeOK /\ PermitInv /\ [Next]_vars => PermitInv'
<1> SUFFICES ASSUME TypeOK, PermitInv, [Next]_vars PROVE PermitInv'
  OBVIOUS
<1> USE BucketConstants
<1>0. /\ rate \in Nat /\ rate <= Configured /\ idle \in Nat /\ tokens \in Nat
      /\ tokens <= Full /\ allowed \in Int /\ allowed <= Full
  BY DEF TypeOK, Most, IdleCap
<1>1. CASE UNCHANGED <<tokens, idle, allowed>>
  BY <1>1 DEF PermitInv
<1>2. ASSUME NEW c \in Callers, Acquire(c) PROVE PermitInv'
  <2>1. idle * rate \in Nat /\ idle * Configured \in Nat /\ idle * rate <= idle * Configured
    BY <1>0
  <2>2. Refilled \in Nat /\ Refilled <= allowed /\ Refilled <= Full
    BY <1>0, <2>1 DEF PermitInv, Refilled, Least
  <2>3. idle' * Configured = 0
    BY <1>2 DEF Acquire
  <2>4. \/ tokens' = Refilled /\ allowed' = allowed
        \/ Refilled >= Cost /\ tokens' = Refilled - Cost /\ allowed' = allowed - Cost
    BY <1>2 DEF Acquire
  <2> QED
    BY <1>0, <2>2, <2>3, <2>4 DEF PermitInv, Least
<1>3. CASE tokens' = 0 /\ UNCHANGED <<idle, allowed>>
  <2>1. idle * Configured \in Nat
    BY <1>0
  <2> QED
    BY <1>0, <1>3, <2>1 DEF PermitInv, Least
<1>4. CASE Tick
  <2>1. idle * Configured \in Nat /\ (idle + 1) * Configured = idle * Configured + Configured
    BY <1>0
  <2>2. CASE idle' = idle + 1
    BY <1>0, <1>4, <2>1, <2>2 DEF Tick, PermitInv, Least
  <2>3. CASE idle' = Full
    <3>1. idle = Full \/ idle + 1 = Full
      BY <1>0, <1>4, <2>3 DEF Tick, TypeOK, IdleCap, Least
    <3>2. Full * Configured >= Full
      OBVIOUS
    <3> QED
      BY <1>0, <1>4, <2>1, <2>2, <2>3, <3>1, <3>2 DEF Tick, PermitInv, Least
  <2> QED
    BY <1>4, <2>2, <2>3 DEF Tick, Least, IdleCap
<1>5. ASSUME NEW c \in Callers, Reply(c) PROVE PermitInv'
  <2>1. ASSUME NEW kind, Answered(c, kind) PROVE PermitInv'
    BY <1>1, <2>1 DEF Answered, OnSuccess
  <2>2. ASSUME NEW kind, Raised(c, kind) PROVE PermitInv'
    BY <1>1, <1>3, <2>2 DEF Raised, OnThrottled, bucket
  <2>3. ASSUME NEW kind, Missed(c, kind) PROVE PermitInv'
    BY <1>1, <2>3 DEF Missed, OnSuccess, bucket
  <2> QED
    BY <1>5, <2>1, <2>2, <2>3 DEF Reply
<1>6. (\E c \in Callers, q \in Queries : Hit(c, q)) \/ (\E c \in Callers : Retry(c))
          \/ (\E q \in Queries : Expire(q)) \/ UNCHANGED vars
         => UNCHANGED <<tokens, idle, allowed>>
  BY DEF Hit, Retry, Expire, vars, bucket, history
<1> QED
  BY <1>1, <1>2, <1>4, <1>5, <1>6 DEF Next, Search, Wake

(* However callers interleave, sleep and are throttled, the permits given  *)
(* out in any stretch of time fit the configured rate and burst.           *)
THEOREM ClientPermits ==
    ASSUME MinRate <= Configured
    PROVE  Spec => []PermitsWithinRate
<1>1. Init => PermitInv
  <2>1. 0 * Configured = 0
    BY BucketConstants
  <2> QED
    BY <2>1, BucketConstants DEF Init, PermitInv, Least
<1>2. TypeOK /\ PermitInv => PermitsWithinRate
  <2>1. ASSUME TypeOK PROVE tokens + idle * Configured \in Nat
    BY <2>1, BucketConstants DEF TypeOK, IdleCap
  <2> QED
    BY <2>1, BucketConstants DEF TypeOK, PermitInv, PermitsWithinRate, Least
<1>3. TypeOK /\ PermitInv /\ [Next]_vars => PermitInv'
  BY PermitNext
<1> QED
  BY <1>1, <1>2, <1>3, ClientTyped, PTL DEF Spec

-----------------------------------------------------------------------------
(* What an answer means.                                                   *)

(* A search in progress has no failure it forgot, and the backends before  *)
(* the one it asks answered it clean, failed it or are disabled.           *)
ProgressInv ==
    \A c \in Callers :
        /\ pc[c] = "sleep" => ~failed[c]
        /\ pc[c] = "ask" /\ Provider # "public_search" => ~failed[c]
        /\ pc[c] = "ask" /\ ~failed[c] =>
              \A b \in Backend : b < asking[c] => b \in clean[c] \cup disabled

(* Both follow for one caller from what the others leave alone: disabled   *)
(* only grows.                                                             *)
LEMMA OthersKeep ==
    ASSUME TypeOK, ProgressInv, AnswerExplained, disabled \subseteq disabled',
           disabled' \subseteq Backend, NEW d \in Callers,
           pc'[d] = pc[d], failed'[d] = failed[d], asking'[d] = asking[d],
           clean'[d] = clean[d], answer'[d] = answer[d] \/ answer'[d] = "cached"
    PROVE  /\ pc'[d] = "sleep" => ~failed'[d]
           /\ pc'[d] = "ask" /\ Provider # "public_search" => ~failed'[d]
           /\ pc'[d] = "ask" /\ ~failed'[d] =>
                 \A b \in Backend : b < asking'[d] => b \in clean'[d] \cup disabled'
           /\ pc'[d] = "idle" =>
                 /\ answer'[d] = "empty" =>
                       ~failed'[d] /\ Backend \subseteq clean'[d] \cup disabled'
                 /\ answer'[d] = "error" => failed'[d] \/ disabled' = Backend
  BY DEF ProgressInv, AnswerExplained

LEMMA AnswerNext ==
    TypeOK /\ ProgressInv /\ AnswerExplained /\ [Next]_vars
        => ProgressInv' /\ AnswerExplained'
<1> DEFINE Good(d) ==
          /\ pc'[d] = "sleep" => ~failed'[d]
          /\ pc'[d] = "ask" /\ Provider # "public_search" => ~failed'[d]
          /\ pc'[d] = "ask" /\ ~failed'[d] =>
                \A b \in Backend : b < asking'[d] => b \in clean'[d] \cup disabled'
          /\ pc'[d] = "idle" =>
                /\ answer'[d] = "empty" =>
                      ~failed'[d] /\ Backend \subseteq clean'[d] \cup disabled'
                /\ answer'[d] = "error" => failed'[d] \/ disabled' = Backend
<1> SUFFICES ASSUME TypeOK, ProgressInv, AnswerExplained, [Next]_vars, NEW d \in Callers
             PROVE  Good(d)
  BY DEF ProgressInv, AnswerExplained
<1>1. ASSUME disabled \subseteq disabled', disabled' \subseteq Backend,
             pc'[d] = pc[d], failed'[d] = failed[d], asking'[d] = asking[d],
             clean'[d] = clean[d], answer'[d] = answer[d] \/ answer'[d] = "cached"
      PROVE  Good(d)
  BY <1>1, OthersKeep
<1>2. disabled \subseteq Backend
  BY DEF TypeOK
<1>3. ASSUME NEW c \in Callers, Acquire(c), failed' = failed \/ ~failed'[c],
             pc[c] = "sleep" \/ ~failed'[c],
             \A e \in Callers : e # c => failed'[e] = failed[e] /\ clean'[e] = clean[e]
      PROVE  Good(d)
  <2>1. CASE d # c
    BY <1>1, <1>2, <1>3, <2>1 DEF Acquire, RequestFirst, Request, TypeOK
  <2>2. CASE d = c
    <3>1. ~failed'[d] /\ disabled' = disabled
      BY <1>3, <2>2 DEF ProgressInv, Acquire
    <3>2. CASE pc'[d] = "sleep"
      BY <3>1, <3>2
    <3>3. CASE RequestFirst(c, Left(1))
      <4>1. pc'[d] = "ask" /\ \A b \in Backend : b < asking'[d] => b \in disabled
        BY <2>2, <3>3, ClientAssumption DEF RequestFirst, Request, Left, TypeOK, Backend
      <4> QED
        BY <3>1, <4>1
    <3>4. CASE Left(1) = {} /\ pc'[d] = "idle" /\ answer'[d] = "error"
      <4>1. \A b \in Backend : b >= 1
        BY ClientAssumption DEF Backend
      <4>2. \A b \in Backend : b \in disabled
        BY <3>4, <4>1 DEF Left
      <4> QED
        BY <1>2, <3>1, <3>4, <4>2
    <3> QED
      BY <1>3, <2>2, <3>2, <3>3, <3>4 DEF Acquire, TypeOK
  <2> QED
    BY <2>1, <2>2
<1>4. ASSUME NEW c \in Callers, NEW q \in Queries, Search(c, q) PROVE Good(d)
  BY <1>3, <1>4 DEF Search, TypeOK
<1>5. ASSUME NEW c \in Callers, Wake(c) PROVE Good(d)
  BY <1>3, <1>5 DEF Wake
<1>6. ASSUME NEW c \in Callers, Retry(c) PROVE Good(d)
  <2>1. CASE d # c
    BY <1>1, <1>2, <1>6, <2>1 DEF Retry, Request, TypeOK
  <2>2. CASE d = c
    <3>1. pc'[d] = "ask" /\ asking'[d] = 1 /\ ~failed'[d]
      BY <1>6, <2>2 DEF Retry, Request, TypeOK
    <3> QED
      BY <3>1, ClientAssumption DEF Backend
  <2> QED
    BY <2>1, <2>2
<1>7. ASSUME NEW c \in Callers, NEW kind \in {"results", "empty"}, Answered(c, kind)
      PROVE  Good(d)
  <2>1. CASE d # c
    BY <1>1, <1>2, <1>7, <2>1 DEF Answered, Return, TypeOK
  <2>2. CASE d = c
    <3>1. pc'[d] = "idle" /\ answer'[d] = kind /\ failed'[d] = failed[d] /\ pc[d] = "ask"
      BY <1>7, <2>2 DEF Answered, Return, TypeOK
    <3>2. ASSUME kind = "empty"
          PROVE  Provider # "public_search" /\ asking[d] \in clean'[d]
      BY <1>7, <2>2, <3>2 DEF Answered, TypeOK
    <3>3. Provider # "public_search" => Backend = {asking[d]}
      BY ClientAssumption DEF TypeOK, Backend
    <3> QED
      BY <3>1, <3>2, <3>3 DEF ProgressInv
  <2> QED
    BY <2>1, <2>2
<1>8. ASSUME NEW c \in Callers, NEW kind, Raised(c, kind) PROVE Good(d)
  <2>1. CASE d # c
    BY <1>1, <1>2, <1>8, <2>1 DEF Raised, Return, TypeOK
  <2>2. CASE d = c
    <3>1. failed'[d] /\ (pc'[d] = "backoff" \/ (pc'[d] = "idle" /\ answer'[d] = "error"))
      BY <1>8, <2>2 DEF Raised, Return, TypeOK
    <3> QED
      BY <3>1
  <2> QED
    BY <2>1, <2>2
<1>9. ASSUME NEW c \in Callers, NEW kind \in {"empty", "throttled", "failed", "policy"},
             Missed(c, kind)
      PROVE  Good(d)
  <2>1. disabled \subseteq disabled' /\ disabled' \subseteq Backend
    BY <1>2, <1>9 DEF Missed, TypeOK
  <2>2. CASE d # c
    BY <1>1, <1>9, <2>1, <2>2 DEF Missed, Return, RequestFirst, Request, TypeOK
  <2>3. CASE d = c
    <3>1. ~failed'[d] => ~failed[d] /\ kind = "empty" /\ clean'[d] = clean[d] \cup {asking[d]}
      BY <1>9, <2>3 DEF Missed, SomeFailed, TypeOK
    <3>2. ~failed'[d] => \A b \in Backend : b <= asking[d] => b \in clean'[d] \cup disabled'
      <4>1. ~failed[d] => \A b \in Backend : b < asking[d] => b \in clean[d] \cup disabled
        BY <1>9, <2>3 DEF Missed, ProgressInv
      <4>2. asking[d] \in Int /\ \A b \in Backend : b <= asking[d] => b < asking[d] \/ b = asking[d]
        BY DEF TypeOK, Backend
      <4> QED
        BY <2>1, <3>1, <4>1, <4>2
    <3>3. CASE RequestFirst(c, Left(asking[c] + 1))
      <4>1. PICK n \in Left(asking[d] + 1) :
              /\ \A b \in Left(asking[d] + 1) : n <= b
              /\ pc'[d] = "ask" /\ asking'[d] = n
        BY <2>3, <3>3 DEF RequestFirst, Request, TypeOK
      <4>2. \A b \in Backend : b < n => b <= asking[d] \/ b \in disabled
        BY <4>1, ClientAssumption DEF Left, Backend, TypeOK
      <4>3. Provider = "public_search"
        BY <1>9 DEF Missed
      <4> QED
        BY <2>1, <3>2, <4>1, <4>2, <4>3
    <3>4. CASE /\ Left(asking[c] + 1) = {}
               /\ Return(c, IF failed'[c] THEN "error" ELSE "empty")
      <4>1. pc'[d] = "idle" /\ answer'[d] = IF failed'[d] THEN "error" ELSE "empty"
        BY <2>3, <3>4 DEF Return, TypeOK
      <4>2. \A b \in Backend : b <= asking[d] \/ b \in disabled
        BY <2>3, <3>4, ClientAssumption DEF Left, Backend, TypeOK
      <4> QED
        BY <2>1, <3>2, <4>1, <4>2
    <3> QED
      BY <1>9, <3>3, <3>4 DEF Missed
  <2> QED
    BY <2>2, <2>3
<1>10. ASSUME NEW c \in Callers, NEW q \in Queries, Hit(c, q) PROVE Good(d)
  BY <1>1, <1>2, <1>10 DEF Hit, TypeOK
<1>11. Tick \/ (\E q \in Queries : Expire(q)) \/ UNCHANGED vars
         => UNCHANGED <<disabled, pc, failed, asking, clean, answer>>
  BY DEF Tick, Expire, vars, callers
<1> QED
  BY <1>1, <1>2, <1>4, <1>5, <1>6, <1>7, <1>8, <1>9, <1>10, <1>11 DEF Next, Reply

(* "Nothing found" is never said over a failure, and a backend that did    *)
(* not answer is one that was disabled; an error is never made up.         *)
THEOREM ClientAnswers == Spec => []AnswerExplained
<1>1. Init => ProgressInv /\ AnswerExplained
  BY DEF Init, ProgressInv, AnswerExplained
<1> QED
  BY <1>1, AnswerNext, ClientTyped, PTL DEF Spec

-----------------------------------------------------------------------------
(* Disabled backends, and what the cache takes in.                         *)

(* Only public_search disables a backend, and it raises nothing that is    *)
(* retried.                                                                *)
KindInv ==
    /\ Provider # "public_search" => disabled = {}
    /\ Provider = "public_search" => \A c \in Callers : pc[c] # "backoff"

LEMMA KindNext == TypeOK /\ KindInv /\ [Next]_vars => KindInv'
<1> SUFFICES ASSUME TypeOK, KindInv, [Next]_vars PROVE KindInv'
  OBVIOUS
<1> USE DEF TypeOK, KindInv
<1>1. CASE UNCHANGED <<disabled, pc>>
  BY <1>1
<1>2. ASSUME NEW c \in Callers, Acquire(c) PROVE KindInv'
  BY <1>2 DEF Acquire, RequestFirst, Request
<1>3. ASSUME NEW c \in Callers, Retry(c) PROVE KindInv'
  BY <1>3 DEF Retry, Request
<1>4. ASSUME NEW c \in Callers, NEW kind, Answered(c, kind) PROVE KindInv'
  BY <1>4 DEF Answered, Return
<1>5. ASSUME NEW c \in Callers, NEW kind, Raised(c, kind) PROVE KindInv'
  BY <1>5 DEF Raised, Return
<1>6. ASSUME NEW c \in Callers, NEW kind, Missed(c, kind) PROVE KindInv'
  BY <1>6 DEF Missed, Return, RequestFirst, Request
<1>7. (\E c \in Callers, q \in Queries : Hit(c, q)) \/ Tick
          \/ (\E q \in Queries : Expire(q)) \/ UNCHANGED vars
         => UNCHANGED <<disabled, pc>>
  BY DEF Hit, Tick, Expire, vars, callers
<1> QED
  BY <1>1, <1>2, <1>3, <1>4, <1>5, <1>6, <1>7 DEF Next, Search, Wake, Reply

LEMMA KindAlways == Spec => []KindInv
<1>1. Init => KindInv
  BY DEF Init, KindInv
<1> QED
  BY <1>1, KindNext, ClientTyped, PTL DEF Spec

(* A step that begins a request chooses among those that are not disabled  *)
(* at that moment, whoever disabled one while the caller waited.           *)
LEMMA RequestSpares ==
    ASSUME TypeOK, KindInv, Next, NEW d \in Callers, pc'[d] = "ask",
           pc[d] # "ask" \/ asking'[d] # asking[d]
    PROVE  asking'[d] \notin disabled'
<1> USE DEF TypeOK
<1>1. ASSUME NEW c \in Callers, Acquire(c) PROVE asking'[d] \notin disabled'
  BY <1>1 DEF Acquire, RequestFirst, Request, Left
<1>2. ASSUME NEW c \in Callers, Retry(c) PROVE asking'[d] \notin disabled'
  BY <1>2 DEF Retry, Request, KindInv
<1>3. ASSUME NEW c \in Callers, NEW kind, Missed(c, kind) PROVE asking'[d] \notin disabled'
  <2>1. d = c /\ asking[d] \in Nat
    BY <1>3 DEF Missed, Return, RequestFirst, Request, Backend
  <2>2. PICK n \in Left(asking[d] + 1) : asking'[d] = n
    BY <1>3, <2>1 DEF Missed, Return, RequestFirst, Request
  <2>3. n \notin disabled /\ n # asking[d]
    BY <2>1, <2>2 DEF Left, Backend
  <2> QED
    BY <1>3, <2>1, <2>2, <2>3 DEF Missed
<1>4. ~ \E c \in Callers : \E kind : Answered(c, kind) \/ Raised(c, kind)
  BY DEF Answered, Raised, Return
<1>5. ~ ((\E c \in Callers, q \in Queries : Hit(c, q)) \/ Tick \/ (\E q \in Queries : Expire(q)))
  BY DEF Hit, Tick, Expire, callers
<1> QED
  BY <1>1, <1>2, <1>3, <1>4, <1>5 DEF Next, Search, Wake, Reply

(* A disabled backend is sent no request any more, whoever found out and   *)
(* whoever was about to ask it (public_search.py:508).                     *)
THEOREM ClientDisabled == Spec => DisabledIsSpared
<1> DEFINE Spares == \A c \in Callers :
                        pc'[c] = "ask" /\ (pc[c] # "ask" \/ asking'[c] # asking[c])
                            => asking'[c] \notin disabled'
<1>1. TypeOK /\ KindInv /\ [Next]_vars => [Spares]_vars
  BY RequestSpares
<1>2. Spec => [][Spares]_vars
  BY <1>1, KindAlways, ClientTyped, PTL DEF Spec
<1> QED
  BY <1>2 DEF DisabledIsSpared

(* The cache takes in what a caller was just told, and nothing empty over  *)
(* a failure.                                                              *)
LEMMA CacheTakes ==
    ASSUME TypeOK, ProgressInv, Next, NEW q \in Queries, cache'[q] # cache[q], cache'[q] # "none"
    PROVE  \E c \in Callers : /\ query[c] = q /\ pc[c] = "ask" /\ pc'[c] = "idle"
                              /\ answer'[c] = cache'[q]
                              /\ cache'[q] = "empty" => ~failed'[c]
<1> USE DEF TypeOK
<1>1. ASSUME NEW c \in Callers, NEW kind \in {"results", "empty"}, Answered(c, kind)
      PROVE  /\ query[c] = q /\ pc[c] = "ask" /\ pc'[c] = "idle"
             /\ answer'[c] = cache'[q]
             /\ cache'[q] = "empty" => ~failed'[c]
  <2>1. query[c] = q /\ cache'[q] = kind
    BY <1>1 DEF Answered, Put
  <2>2. pc[c] = "ask" /\ pc'[c] = "idle" /\ answer'[c] = kind /\ failed' = failed
    BY <1>1 DEF Answered, Return
  <2>3. kind = "empty" => Provider # "public_search"
    BY <1>1 DEF Answered
  <2> QED
    BY <2>1, <2>2, <2>3 DEF ProgressInv
<1>2. ASSUME NEW c \in Callers, NEW kind, Missed(c, kind)
      PROVE  /\ query[c] = q /\ pc[c] = "ask" /\ pc'[c] = "idle"
             /\ answer'[c] = cache'[q]
             /\ cache'[q] = "empty" => ~failed'[c]
  <2> DEFINE outcome == IF failed'[c] THEN "error" ELSE "empty"
  <2>1. pc[c] = "ask" /\ Return(c, outcome) /\ Put(query[c], outcome)
    BY <1>2 DEF Missed
  <2>2. outcome = "empty" /\ ~failed'[c] /\ query[c] = q /\ cache'[q] = "empty"
    BY <2>1 DEF Put
  <2> QED
    BY <2>1, <2>2 DEF Return
<1>3. ~ \E c \in Callers : Acquire(c) \/ Retry(c) \/ \E kind : Raised(c, kind)
  BY DEF Acquire, Retry, Raised
<1>4. ~ ((\E c \in Callers, p \in Queries : Hit(c, p)) \/ Tick \/ (\E p \in Queries : Expire(p)))
  BY DEF Hit, Tick, Expire
<1> QED
  BY <1>1, <1>2, <1>3, <1>4 DEF Next, Search, Wake, Reply

(* "Never cache a failure": for any backends and callers, whatever fails   *)
(* in between (serp_cache.py:40).                                          *)
THEOREM ClientCaches == Spec => FailureNeverCached
<1> DEFINE Takes == \A q \in Queries :
                        cache'[q] # cache[q] /\ cache'[q] # "none" =>
                            \E c \in Callers : /\ query[c] = q /\ pc[c] = "ask" /\ pc'[c] = "idle"
                                               /\ answer'[c] = cache'[q]
                                               /\ cache'[q] = "empty" => ~failed'[c]
<1>1. TypeOK /\ ProgressInv /\ [Next]_vars => [Takes]_vars
  BY CacheTakes
<1>2. Init => ProgressInv /\ AnswerExplained
  BY DEF Init, ProgressInv, AnswerExplained
<1>3. Spec => [][Takes]_vars
  BY <1>1, <1>2, AnswerNext, ClientTyped, PTL DEF Spec
<1> QED
  BY <1>3 DEF FailureNeverCached

-----------------------------------------------------------------------------
(* The rate against what the provider says.                                *)

(* A throttle lowers a rate above the minimum, and a success does not      *)
(* take it under the minimum.                                              *)
LEMMA RateSteps ==
    ASSUME MinRate <= Configured, TypeOK, rate >= MinRate
    PROVE  /\ Slower >= MinRate /\ Slower <= rate /\ (Slower = rate => rate = MinRate)
           /\ OnSuccess => rate' >= rate
<1>1. rate \in Nat \ {0}
  BY BucketConstants DEF TypeOK, Most
<1>2. (rate * BackoffNum) \div BackoffDen \in Int /\ (rate * BackoffNum) \div BackoffDen < rate
  BY <1>1, ClientAssumption
<1>3. ASSUME rate < Configured PROVE Up(rate * RecoverNum, RecoverDen) >= rate
  <2> DEFINE n == rate * RecoverNum + RecoverDen - 1
  <2>1. n \in Nat /\ n >= rate * RecoverDen
    BY <1>1, ClientAssumption
  <2>2. n \div RecoverDen >= rate
    <3> HIDE DEF n
    <3> QED
      BY <1>1, <2>1, ClientAssumption
  <2> QED
    BY <2>2 DEF Up
<1>4. Up(rate * RecoverNum, RecoverDen) \in Int
  BY <1>1, ClientAssumption DEF Up
<1> QED
  BY <1>1, <1>2, <1>3, <1>4, BucketConstants DEF Slower, OnSuccess, Most, Least

(* What a step does to the rate and to the signals received, told by the   *)
(* kinds of step.                                                          *)
LEMMA RateChanges ==
    ASSUME TypeOK, Next, Provider # "public_search"
    PROVE  \/ UNCHANGED <<rate, signals>>
           \/ /\ OnSuccess /\ UNCHANGED signals
              /\ \E c \in Callers : /\ pc[c] = "ask" /\ pc'[c] = "idle"
                                    /\ answer'[c] \in {"results", "empty"}
           \/ Provider = "raising" /\ OnThrottled
           \/ Provider = "duckduckgo" /\ UNCHANGED rate
<1> USE DEF TypeOK
<1>1. ASSUME NEW c \in Callers, NEW kind \in {"results", "empty"}, Answered(c, kind)
      PROVE  /\ OnSuccess /\ UNCHANGED signals
             /\ pc[c] = "ask" /\ pc'[c] = "idle" /\ answer'[c] \in {"results", "empty"}
  BY <1>1 DEF Answered, Return
<1>2. ASSUME NEW c \in Callers, NEW kind, Raised(c, kind)
      PROVE  \/ UNCHANGED <<rate, signals>>
             \/ Provider = "raising" /\ OnThrottled
             \/ Provider = "duckduckgo" /\ UNCHANGED rate
  BY <1>2 DEF Raised, bucket
<1>3. ~ \E c \in Callers : \E kind : Missed(c, kind)
  BY DEF Missed
<1>4. ASSUME \/ Tick \/ \E q \in Queries : Expire(q)
             \/ \E c \in Callers : Acquire(c) \/ Retry(c) \/ \E q \in Queries : Hit(c, q)
      PROVE  UNCHANGED <<rate, signals>>
  BY <1>4 DEF Tick, Expire, Acquire, Retry, Hit, bucket, history
<1> QED
  BY <1>1, <1>2, <1>3, <1>4 DEF Next, Search, Wake, Reply

(* The rate stays at or above the minimum.                                 *)
LEMMA RateKept ==
    ASSUME MinRate <= Configured, Provider # "public_search"
    PROVE  Spec => [](rate >= MinRate)
<1>1. Init => rate >= MinRate
  BY DEF Init
<1>2. TypeOK /\ rate >= MinRate /\ [Next]_vars => (rate >= MinRate)'
  <2> SUFFICES ASSUME TypeOK, rate >= MinRate, [Next]_vars PROVE rate' >= MinRate
    OBVIOUS
  <2>1. rate \in Nat /\ MinRate \in Nat
    BY BucketConstants DEF TypeOK, Most
  <2>2. OnSuccess => rate' \in Nat
    BY RateMoves, BucketConstants DEF Most
  <2>3. OnThrottled => rate' = Slower
    BY DEF OnThrottled
  <2> QED
    BY <2>1, <2>2, <2>3, RateSteps, RateChanges DEF vars, bucket
<1> QED
  BY <1>1, <1>2, ClientTyped, PTL DEF Spec

(* A JSON adapter's throttle always slows the client, down to the minimum, *)
(* whoever succeeds in between (ratelimit.py:61-73).                       *)
THEOREM ClientThrottles ==
    ASSUME MinRate <= Configured, Provider = "raising"
    PROVE  Spec => ThrottleSlows
<1> DEFINE Slows == signals' # signals => rate' < rate \/ (rate' = rate /\ rate = MinRate)
<1>1. TypeOK /\ rate >= MinRate /\ [Next]_vars => [Slows]_vars
  <2> SUFFICES ASSUME TypeOK, rate >= MinRate, Next, signals' # signals
               PROVE  rate' < rate \/ (rate' = rate /\ rate = MinRate)
    BY DEF vars
  <2>1. rate' = Slower
    BY RateChanges DEF OnThrottled
  <2>2. rate \in Int /\ Slower \in Int
    BY RateMoves, BucketConstants DEF TypeOK, Most
  <2> QED
    BY <2>1, <2>2, RateSteps
<1>2. Spec => [](rate >= MinRate)
  BY RateKept
<1>3. Spec => [][Slows]_vars
  BY <1>1, <1>2, ClientTyped, PTL DEF Spec
<1> QED
  BY <1>3 DEF ThrottleSlows

(* Of an adapter that raises its failures, only an answered search speeds  *)
(* the client up again (ratelimit.py:75-78).                               *)
THEOREM ClientEarns ==
    ASSUME MinRate <= Configured, Provider # "public_search"
    PROVE  Spec => RateIsEarned
<1> DEFINE Earned ==
        rate' > rate => \E c \in Callers : /\ pc[c] = "ask" /\ pc'[c] = "idle"
                                           /\ answer'[c] \in {"results", "empty"}
<1>1. TypeOK /\ rate >= MinRate /\ [Next]_vars => [Earned]_vars
  <2> SUFFICES ASSUME TypeOK, rate >= MinRate, Next, rate' > rate
               PROVE  \E c \in Callers : /\ pc[c] = "ask" /\ pc'[c] = "idle"
                                         /\ answer'[c] \in {"results", "empty"}
    BY DEF vars
  <2>1. rate \in Int /\ Slower \in Int
    BY RateMoves, BucketConstants DEF TypeOK, Most
  <2>2. ~ OnThrottled /\ rate' # rate
    BY <2>1, RateSteps DEF OnThrottled
  <2> QED
    BY <2>2, RateChanges
<1>2. Spec => [][Earned]_vars
  BY <1>1, RateKept, ClientTyped, PTL DEF Spec
<1> QED
  BY <1>2 DEF RateIsEarned
=============================================================================
