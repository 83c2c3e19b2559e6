--------------------------------- MODULE Rpc ---------------------------------
(***************************************************************************)
(* block_scraper/scraper/rpc.py under _fetch_block of pipeline.py: a fetch *)
(* gathers three calls; a call is attempted over and over, each time under *)
(* a semaphore that all calls share, until it is answered or gives up.     *)
(* The node is external: it answers, refuses, throttles or is not reached. *)
(* A fetch whose call fails ends at once, and its other calls go on.       *)
(***************************************************************************)
EXTENDS Integers, FiniteSets, Functions

CONSTANTS
  Kinds,           \* the calls of a fetch: two trace_block, one get_block_timestamp
  MaxConcurrency,  \* max_concurrency, the permits of the semaphore
  MaxAttempts,     \* max_attempts
  NWorkers,        \* fetches under way at most
  NBlocks,         \* blocks to fetch
  MaxFetches       \* bound: fetches, repeated ones included

ASSUME RpcAssumption ==
  /\ Kinds \subseteq {"reads", "writes", "timestamp"}
  /\ {MaxConcurrency, MaxAttempts, NWorkers, NBlocks, MaxFetches} \subseteq Nat \ {0}

CU_TRACE_BLOCK == 40
CU_GET_BLOCK == 20

Cost(kind) == IF kind = "timestamp" THEN CU_GET_BLOCK ELSE CU_TRACE_BLOCK

Costs == [k \in Kinds |-> Cost(k)]
FetchCost == SumFunction(Costs)

Fetches == 1..MaxFetches
Calls == Fetches \X Kinds

VARIABLES
  pending,      \* blocks in the work queue
  fetch,        \* per fetch: unused, waiting in gather, fetched or failed
  pc, attempt,  \* per call: where _post is, and attempt_number
  permits,      \* of the semaphore
  cu_spent, retry_count

counters == <<cu_spent, retry_count>>
vars == <<pending, fetch, pc, attempt, permits, counters>>

Init ==
  /\ pending = NBlocks
  /\ fetch = [f \in Fetches |-> "unused"]
  /\ pc = [c \in Calls |-> "unused"]
  /\ attempt = [c \in Calls |-> 0]
  /\ permits = MaxConcurrency
  /\ cu_spent = 0 /\ retry_count = 0

Waiting == {f \in Fetches : fetch[f] = "waiting"}

(* gather makes a task of each call; all three then queue for a permit. *)
StartFetch(f) ==
  /\ pending > 0 /\ fetch[f] = "unused" /\ \A g \in 1..f - 1 : fetch[g] # "unused"
  /\ Cardinality(Waiting) < NWorkers
  /\ pending' = pending - 1
  /\ fetch' = [fetch EXCEPT ![f] = "waiting"]
  /\ pc' = [c \in Calls |-> IF c[1] = f THEN "queued" ELSE pc[c]]
  /\ attempt' = [c \in Calls |-> IF c[1] = f THEN 1 ELSE attempt[c]]
  /\ UNCHANGED <<permits, counters>>

Acquire(c) ==
  /\ pc[c] = "queued" /\ permits > 0
  /\ permits' = permits - 1
  /\ pc' = [pc EXCEPT ![c] = "posting"]
  /\ UNCHANGED <<pending, fetch, attempt, counters>>

(* Mutant: the permit is kept when an attempt ends. *)
KeepPermit == permits

(* Leaving the block of the semaphore. *)
Release == permits + 1

(* Mutant: the cost is charged for every attempt. *)
ChargeAttempts(c) == cu_spent + attempt[c] * Cost(c[2])

Charge(c) == cu_spent + Cost(c[2])

(* The answer is charged, and then used: a body without a result is       *)
(* charged as well, and fails the call.                                    *)
Answer(c) ==
  /\ pc[c] = "posting"
  /\ pc' \in {[pc EXCEPT ![c] = end] : end \in {"done", "failed"}}
  /\ permits' = Release
  /\ cu_spent' = Charge(c)
  /\ UNCHANGED <<pending, fetch, attempt, retry_count>>

(* A JSON-RPC error, or a body that is no JSON, is not retried. *)
Refuse(c) ==
  /\ pc[c] = "posting"
  /\ pc' = [pc EXCEPT ![c] = "failed"]
  /\ permits' = Release
  /\ UNCHANGED <<pending, fetch, attempt, counters>>

(* Status 429 or 5xx with Retry-After: the call sleeps with its permit. *)
Throttle(c) ==
  /\ pc[c] = "posting"
  /\ pc' = [pc EXCEPT ![c] = "throttled"]
  /\ UNCHANGED <<pending, fetch, attempt, permits, counters>>

(* The end of that sleep, such a status without Retry-After, a timeout or  *)
(* a lost connection: the attempt failed, and the last one is re-raised.   *)
AttemptFails(c) ==
  /\ pc[c] \in {"posting", "throttled"}
  /\ permits' = Release
  /\ pc' = [pc EXCEPT ![c] = IF attempt[c] < MaxAttempts THEN "backoff" ELSE "failed"]
  /\ UNCHANGED <<pending, fetch, attempt, counters>>

(* The wait before the next attempt is over. *)
Retry(c) ==
  /\ pc[c] = "backoff"
  /\ pc' = [pc EXCEPT ![c] = "queued"]
  /\ attempt' = [attempt EXCEPT ![c] = @ + 1]
  /\ retry_count' = retry_count + 1
  /\ UNCHANGED <<pending, fetch, permits, cu_spent>>

(* gather returns when all three are done, or raises when one failed; the  *)
(* worker then puts the block back.                                        *)
Gathered(f) ==
  /\ fetch[f] = "waiting" /\ \A k \in Kinds : pc[<<f, k>>] = "done"
  /\ fetch' = [fetch EXCEPT ![f] = "fetched"]
  /\ UNCHANGED <<pending, pc, attempt, permits, counters>>

Raised(f) ==
  /\ fetch[f] = "waiting" /\ \E k \in Kinds : pc[<<f, k>>] = "failed"
  /\ fetch' = [fetch EXCEPT ![f] = "failed"]
  /\ pending' = pending + 1
  /\ UNCHANGED <<pc, attempt, permits, counters>>

CallStep(c) ==
  \/ Acquire(c) \/ Answer(c) \/ Refuse(c) \/ Throttle(c) \/ AttemptFails(c) \/ Retry(c)
FetchEnds(f) == Gathered(f) \/ Raised(f)

Next ==
  \/ \E f \in Fetches : StartFetch(f) \/ FetchEnds(f)
  \/ \E c \in Calls : CallStep(c)

(* Sleeps end, requests time out, and the event loop runs what is ready. *)
Fairness ==
  /\ \A c \in Calls : WF_vars(CallStep(c))
  /\ \A f \in Fetches : WF_vars(FetchEnds(f))

Spec == Init /\ [][Next]_vars /\ Fairness

-----------------------------------------------------------------------------
Ended(end) == {f \in Fetches : fetch[f] = end}
Retries(c) == IF pc[c] = "unused" THEN 0 ELSE attempt[c] - 1
InFlight == {c \in Calls : pc[c] \in {"posting", "throttled"}}

(* The counters shown to the user agree with the calls made, those of      *)
(* failed fetches that nobody awaits any more included: every fetched      *)
(* block cost its three calls, no fetch was charged more than that however *)
(* often they were retried, retry_count is the attempts beyond the first,  *)
(* and the permits limit all requests (rpc.py 81-127).                     *)
CountersAgree ==
  /\ cu_spent >= FetchCost * Cardinality(Ended("fetched"))
  /\ cu_spent <= FetchCost * Cardinality(Fetches \ Ended("unused"))
  /\ retry_count = SumFunction([c \in Calls |-> Retries(c)])
  /\ \A c \in Calls : attempt[c] <= MaxAttempts
  /\ permits + Cardinality(InFlight) = MaxConcurrency

(* A fetch that waits is answered or fails in the end, although its calls  *)
(* share the permits with orphans and with calls that sleep holding one:   *)
(* what the fairness of the workers in Scraper rests on (pipeline.py 44).  *)
EveryFetchEnds == \A f \in Fetches : (fetch[f] = "waiting") ~> (fetch[f] # "waiting")
=============================================================================
