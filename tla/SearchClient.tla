---------------------------- MODULE SearchClient ----------------------------
(***************************************************************************)
(* The one path every query takes (search/client.py): response cache, then *)
(* the adaptive token bucket of search/ratelimit.py, then the retries of   *)
(* search/retry.py around a provider.  Several callers -- the consumers of *)
(* the pool -- are inside SearchClient.search at once and share the cache, *)
(* the bucket and the provider's set of disabled backends.                 *)
(*                                                                         *)
(* A "raising" provider is one of the JSON adapters, whose ProviderError   *)
(* carries the HTTP status; "duckduckgo" raises without a status;          *)
(* "public_search" asks its backends in order and returns errors as        *)
(* responses.  Rates and tokens are integers in units of 1/Cost request,   *)
(* time is counted in ticks, and a scaled rate is rounded away from the    *)
(* rate it was, so that it moves whenever the float would.                 *)
(***************************************************************************)
EXTENDS Integers, FiniteSets

CONSTANTS
    Callers,       \* coroutines inside the client
    Queries, NoQuery,
    Provider,      \* the kind of adapter
    Backends,      \* how many backends it has, asked in the order 1, 2, ...
    MaxAttempts,   \* settings.retry.max_attempts
    Cost,          \* tokens one request takes
    Configured,    \* requests_per_second, as tokens per tick
    MinRate,       \* min_requests_per_second
    Burst,         \* requests that may be issued at once
    BackoffNum, BackoffDen,    \* throttle_backoff_factor
    RecoverNum, RecoverDen,    \* recovery_factor
    SleepCap,      \* the longest sleep in acquire()
    MaxSearches    \* bound: searches each caller makes

ASSUME ClientAssumption ==
    /\ Provider \in {"raising", "duckduckgo", "public_search"}
    /\ Backends \in Nat \ {0}
    /\ Provider # "public_search" => Backends = 1
    /\ NoQuery \notin Queries
    /\ MaxAttempts \in Nat \ {0}
    /\ Cost \in Nat \ {0} /\ Configured \in Nat \ {0} /\ MinRate \in Nat \ {0}
    /\ Burst \in Nat \ {0} /\ SleepCap \in Nat \ {0}
    /\ BackoffNum \in Nat /\ BackoffDen \in Nat \ {0} /\ BackoffNum < BackoffDen
    /\ RecoverNum \in Nat /\ RecoverDen \in Nat \ {0} /\ RecoverNum > RecoverDen
    /\ MaxSearches \in Nat

VARIABLES
    rate,       \* _rate
    tokens,     \* _tokens
    idle,       \* ticks since _updated, up to IdleCap
    cache,      \* serp_cache: what is stored for each query
    disabled,   \* PublicSearchProvider._disabled
    pc,         \* where each caller is
    query,      \* what it searches for
    attempt,    \* attempt of with_retry
    asking,     \* the backend it waits for
    clean,      \* backends that answered this search with nothing
    failed,     \* whether a backend failed it in this attempt
    answer,     \* the outcome of its last search
    timer,      \* ticks it still sleeps
    searches,   \* how many searches it made
    allowed,    \* history: room left under the configured rate, counting permits
    signals     \* history: parity of the throttle answers received

bucket == <<rate, tokens, idle>>
callers == <<pc, query, attempt, asking, clean, failed, answer, timer, searches>>
history == <<allowed, signals>>
vars == <<bucket, cache, disabled, callers, history>>

Backend == 1 .. Backends
Full == Burst * Cost
Least(a, b) == IF a <= b THEN a ELSE b
Most(a, b) == IF a >= b THEN a ELSE b
Up(a, b) == (a + b - 1) \div b

(* Elapsed time counts for nothing once it fills the bucket at any rate.   *)
IdleCap == Full

TypeOK ==
    /\ rate \in 1 .. Most(Configured, MinRate)
    /\ tokens \in 0 .. Full
    /\ idle \in 0 .. IdleCap
    /\ cache \in [Queries -> {"none", "results", "empty"}]
    /\ disabled \in SUBSET Backend
    /\ pc \in [Callers -> {"idle", "sleep", "ask", "backoff"}]
    /\ query \in [Callers -> Queries \cup {NoQuery}]
    /\ attempt \in [Callers -> 1 .. MaxAttempts]
    /\ asking \in [Callers -> Backend]
    /\ clean \in [Callers -> SUBSET Backend]
    /\ failed \in [Callers -> BOOLEAN]
    /\ answer \in [Callers -> {"none", "results", "empty", "error", "cached"}]
    /\ timer \in [Callers -> 0 .. SleepCap]
    /\ searches \in [Callers -> 0 .. MaxSearches]
    /\ allowed \in Int /\ allowed <= Full
    /\ signals \in {0, 1}

Init ==
    /\ rate = Configured /\ tokens = Full /\ idle = 0
    /\ cache = [q \in Queries |-> "none"]
    /\ disabled = {}
    /\ pc = [c \in Callers |-> "idle"]
    /\ query = [c \in Callers |-> NoQuery]
    /\ attempt = [c \in Callers |-> 1]
    /\ asking = [c \in Callers |-> 1]
    /\ clean = [c \in Callers |-> {}]
    /\ failed = [c \in Callers |-> FALSE]
    /\ answer = [c \in Callers |-> "none"]
    /\ timer = [c \in Callers |-> 0]
    /\ searches = [c \in Callers |-> 0]
    /\ allowed = Full /\ signals = 0

-----------------------------------------------------------------------------
(* The bucket.                                                             *)

(* Mutant: elapsed time is rounded up.                                     *)
RefilledRoundedUp == Least(Full, tokens + (idle + 1) * rate)

Refilled == Least(Full, tokens + idle * rate)

(* acquire() sleeps until the missing tokens should be there.              *)
Wait == Least(SleepCap, Up(Cost - Refilled, rate))

(* Mutant: the configured rate is halved, not the current one.             *)
SlowerOnce == Most(MinRate, (Configured * BackoffNum) \div BackoffDen)

Slower == Most(MinRate, (rate * BackoffNum) \div BackoffDen)

OnThrottled ==
    /\ rate' = Slower
    /\ tokens' = 0
    /\ UNCHANGED idle

OnSuccess ==
    /\ rate' = IF rate < Configured
               THEN Least(Configured, Up(rate * RecoverNum, RecoverDen))
               ELSE rate
    /\ UNCHANGED <<tokens, idle>>

(* Mutant: a disabled backend is asked all the same.                       *)
LeftAtAll(i) == {b \in Backend : b >= i}

(* The backends from i on that are not disabled; the first is asked next.  *)
Left(i) == {b \in Backend \ disabled : b >= i}

Request(c, b) ==
    /\ asking' = [asking EXCEPT ![c] = b]
    /\ pc' = [pc EXCEPT ![c] = "ask"]

RequestFirst(c, S) == \E b \in S : (\A d \in S : b <= d) /\ Request(c, b)

-----------------------------------------------------------------------------
(* SearchClient.search.                                                    *)

(* One turn of acquire(), the lock held throughout.  A granted token is    *)
(* followed, without a pause, by the provider's first request; with every  *)
(* backend disabled the provider raises instead and the search has failed. *)
Acquire(c) ==
    /\ idle' = 0
    /\ UNCHANGED <<rate, cache, disabled, signals>>
    /\ \/ /\ Refilled < Cost
          /\ tokens' = Refilled
          /\ pc' = [pc EXCEPT ![c] = "sleep"]
          /\ timer' = [timer EXCEPT ![c] = Wait]
          /\ UNCHANGED <<asking, answer, allowed>>
       \/ /\ Refilled >= Cost
          /\ tokens' = Refilled - Cost
          /\ allowed' = allowed - Cost
          /\ timer' = [timer EXCEPT ![c] = 0]
          /\ \/ RequestFirst(c, Left(1)) /\ UNCHANGED answer
             \/ /\ Left(1) = {}
                /\ pc' = [pc EXCEPT ![c] = "idle"]
                /\ answer' = [answer EXCEPT ![c] = "error"]
                /\ UNCHANGED asking

(* A cached response is returned without a pause.                          *)
Hit(c, q) ==
    /\ pc[c] = "idle" /\ searches[c] < MaxSearches /\ cache[q] # "none"
    /\ searches' = [searches EXCEPT ![c] = @ + 1]
    /\ query' = [query EXCEPT ![c] = q]
    /\ answer' = [answer EXCEPT ![c] = "cached"]
    /\ UNCHANGED <<bucket, cache, disabled, pc, attempt, asking, clean, failed, timer, history>>

Search(c, q) ==
    /\ pc[c] = "idle" /\ searches[c] < MaxSearches /\ cache[q] = "none"
    /\ searches' = [searches EXCEPT ![c] = @ + 1]
    /\ query' = [query EXCEPT ![c] = q]
    /\ attempt' = [attempt EXCEPT ![c] = 1]
    /\ clean' = [clean EXCEPT ![c] = {}]
    /\ failed' = [failed EXCEPT ![c] = FALSE]
    /\ Acquire(c)

Wake(c) ==
    /\ pc[c] = "sleep" /\ timer[c] = 0
    /\ Acquire(c)
    /\ UNCHANGED <<query, attempt, clean, failed, searches>>

(* Mutant: the attempt is not counted.                                     *)
RetryUncounted(c) ==
    /\ pc[c] = "backoff"
    /\ failed' = [failed EXCEPT ![c] = FALSE]
    /\ Request(c, 1)
    /\ UNCHANGED <<bucket, cache, disabled, query, attempt, clean, answer, timer, searches,
                   allowed, signals>>

(* Mutant: the limiter is told of a success before there is one.           *)
RetryAsSuccess(c) ==
    /\ pc[c] = "backoff"
    /\ attempt' = [attempt EXCEPT ![c] = @ + 1]
    /\ failed' = [failed EXCEPT ![c] = FALSE]
    /\ Request(c, 1) /\ OnSuccess
    /\ UNCHANGED <<cache, disabled, query, clean, answer, timer, searches, allowed, signals>>

(* with_retry asks the provider again; nothing is taken from the bucket.   *)
Retry(c) ==
    /\ pc[c] = "backoff"
    /\ attempt' = [attempt EXCEPT ![c] = @ + 1]
    /\ failed' = [failed EXCEPT ![c] = FALSE]
    /\ Request(c, 1)
    /\ UNCHANGED <<bucket, cache, disabled, query, clean, answer, timer, searches,
                   allowed, signals>>

Return(c, kind) ==
    /\ pc' = [pc EXCEPT ![c] = "idle"]
    /\ answer' = [answer EXCEPT ![c] = kind]

(* Mutant: every response is stored.                                       *)
PutAll(q, kind) == cache' = [cache EXCEPT ![q] = kind]

(* Mutant: a failed response is stored as the empty one it looks like.     *)
PutFailures(q, kind) ==
    cache' = [cache EXCEPT ![q] = IF kind = "error" THEN "empty" ELSE kind]

(* serp_cache.put keeps what is not a failure, over what was there.        *)
Put(q, kind) ==
    cache' = IF kind = "error" THEN cache ELSE [cache EXCEPT ![q] = kind]

(* A response without an error: results, or none that parse.               *)
Answered(c, kind) ==
    /\ pc[c] = "ask"
    /\ kind = "results" \/ Provider # "public_search"
    /\ clean' = [clean EXCEPT ![c] = IF kind = "empty" THEN @ \cup {asking[c]} ELSE @]
    /\ Return(c, kind)
    /\ OnSuccess
    /\ Put(query[c], kind)
    /\ UNCHANGED <<disabled, query, attempt, asking, failed, timer, searches,
                   allowed, signals>>

(* Mutant: one attempt too many.                                           *)
RaisedOnceMore(c, kind) ==
    /\ pc[c] = "ask" /\ Provider # "public_search"
    /\ failed' = [failed EXCEPT ![c] = TRUE]
    /\ pc' = [pc EXCEPT ![c] = IF attempt[c] <= MaxAttempts THEN "backoff" ELSE "idle"]
    /\ UNCHANGED <<bucket, cache, disabled, query, attempt, asking, clean, answer, timer,
                   searches, history>>

(* An adapter raises: retried while attempts last, unless it is terminal.  *)
Raised(c, kind) ==
    /\ pc[c] = "ask" /\ Provider # "public_search"
    /\ failed' = [failed EXCEPT ![c] = TRUE]
    /\ \/ /\ kind # "terminal" /\ attempt[c] < MaxAttempts
          /\ pc' = [pc EXCEPT ![c] = "backoff"]
          /\ UNCHANGED answer
       \/ (kind = "terminal" \/ attempt[c] >= MaxAttempts) /\ Return(c, "error")
    /\ signals' = IF kind = "throttled" THEN 1 - signals ELSE signals
    /\ \/ kind = "throttled" /\ Provider = "raising" /\ OnThrottled
       \/ /\ kind # "throttled" \/ Provider = "duckduckgo"
          /\ UNCHANGED bucket
    /\ UNCHANGED <<cache, disabled, query, attempt, asking, clean, timer, searches,
                   allowed>>

(* Mutant: only the last backend's response is looked at.                  *)
LastFailed(c, kind) == kind # "empty"

(* Whether some backend of this search has failed.                         *)
SomeFailed(c, kind) == failed[c] \/ kind # "empty"

(* A backend of public_search gave no results: the next one is asked, and  *)
(* after the last the failures are reported, or else the empty response.   *)
(* Either is a response the client takes for a success of the request.     *)
Missed(c, kind) ==
    /\ pc[c] = "ask" /\ Provider = "public_search"
    /\ disabled' = IF kind = "policy" THEN disabled \cup {asking[c]} ELSE disabled
    /\ clean' = [clean EXCEPT ![c] = IF kind = "empty" THEN @ \cup {asking[c]} ELSE @]
    /\ failed' = [failed EXCEPT ![c] = SomeFailed(c, kind)]
    /\ signals' = IF kind = "throttled" THEN 1 - signals ELSE signals
    /\ LET left == Left(asking[c] + 1)
           outcome == IF failed'[c] THEN "error" ELSE "empty"
       IN  \/ /\ RequestFirst(c, left)
              /\ UNCHANGED <<bucket, cache, answer>>
           \/ /\ left = {} /\ Return(c, outcome) /\ OnSuccess /\ Put(query[c], outcome)
              /\ UNCHANGED asking
    /\ UNCHANGED <<query, attempt, timer, searches, allowed>>

-----------------------------------------------------------------------------
(* The environment.                                                        *)

Tick ==
    /\ idle' = Least(IdleCap, idle + 1)
    /\ timer' = [c \in Callers |-> Most(0, timer[c] - 1)]
    /\ allowed' = Least(Full, allowed + Configured)
    /\ UNCHANGED <<rate, tokens, cache, disabled, pc, query, attempt, asking, clean, failed,
                   answer, searches, signals>>

(* A cached response passes its time to live.                              *)
Expire(q) ==
    /\ cache[q] # "none"
    /\ cache' = [cache EXCEPT ![q] = "none"]
    /\ UNCHANGED <<bucket, disabled, callers, history>>

Reply(c) ==
    \/ \E kind \in {"results", "empty"} : Answered(c, kind)
    \/ \E kind \in {"throttled", "transient", "terminal"} : Raised(c, kind)
    \/ \E kind \in {"empty", "throttled", "failed", "policy"} : Missed(c, kind)

Next ==
    \/ \E c \in Callers :
          \/ \E q \in Queries : Hit(c, q) \/ Search(c, q)
          \/ Wake(c) \/ Retry(c) \/ Reply(c)
    \/ Tick
    \/ \E q \in Queries : Expire(q)

Spec == Init /\ [][Next]_vars

(* Time passes, sleepers wake, and a request ends: every session has a     *)
(* timeout.                                                                *)
FairSpec ==
    /\ Spec /\ WF_vars(Tick)
    /\ \A c \in Callers : WF_vars(Wake(c)) /\ WF_vars(Retry(c)) /\ WF_vars(Reply(c))

-----------------------------------------------------------------------------
(* Properties.                                                             *)

(* However many callers there are, however long they slept and whatever    *)
(* the provider answered, the permits acquire() gives out in any stretch   *)
(* of time fit a bucket of Burst requests refilled at the configured rate: *)
(* no interleaving of waiters credits the same elapsed time twice.         *)
PermitsWithinRate == allowed >= 0

(* What search() answers is what the provider said: nothing found only if  *)
(* no backend failed this attempt and each one was asked and clean or is   *)
(* disabled, and an error only after a failure or with nobody left to ask. *)
AnswerExplained ==
    \A c \in Callers : pc[c] = "idle" =>
        /\ answer[c] = "empty" => ~failed[c] /\ Backend \subseteq clean[c] \cup disabled
        /\ answer[c] = "error" => failed[c] \/ disabled = Backend

(* "Backends that failed with a non-retryable policy/config error are      *)
(* skipped for the rest of the run": whoever found out, nobody else sends  *)
(* such a backend a request any more.                                      *)
DisabledIsSpared ==
    [][\A c \in Callers :
          pc'[c] = "ask" /\ (pc[c] # "ask" \/ asking'[c] # asking[c])
              => asking'[c] \notin disabled']_vars

(* "Never cache a failure": what the cache takes in is the answer a caller *)
(* just got for that very query, and an empty one only if nothing failed.  *)
FailureNeverCached ==
    [][\A q \in Queries :
          cache'[q] # cache[q] /\ cache'[q] # "none" =>
              \E c \in Callers : /\ query[c] = q /\ pc[c] = "ask" /\ pc'[c] = "idle"
                                 /\ answer'[c] = cache'[q]
                                 /\ cache'[q] = "empty" => ~failed'[c]]_vars

(* "Every throttle signal halves the refill rate", down to the minimum.    *)
ThrottleSlows == [][signals' # signals => rate' < rate \/ (rate' = rate /\ rate = MinRate)]_vars

(* "Every success nudges it back up" -- and nothing else does.             *)
RateIsEarned ==
    [][rate' > rate =>
          \E c \in Callers : /\ pc[c] = "ask" /\ pc'[c] = "idle"
                             /\ answer'[c] \in {"results", "empty"}]_vars

(* A search ends: no sleeper is forgotten, no retry goes on for ever.      *)
SearchReturns == \A c \in Callers : (pc[c] # "idle") ~> (pc[c] = "idle")
=============================================================================
