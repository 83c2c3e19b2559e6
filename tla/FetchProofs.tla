---------------------------- MODULE FetchProofs ----------------------------
(***************************************************************************)
(* The fetch of a block.  The counters of the rpc client, for any number   *)
(* of fetches, workers, permits and attempts, and whatever the node        *)
(* answers: the calls of a failed fetch go on with nobody waiting for      *)
(* them, and are counted still.  And the parsing of the traces it brings,  *)
(* for any contracts, slots, values and length of a block: the reads are   *)
(* the touched keys, the writes bracket what the block changed, however    *)
(* the node spells the slots.                                              *)
(***************************************************************************)
EXTENDS Rpc, Tracer, CollectionProofs

-----------------------------------------------------------------------------
(* The inductive invariant. *)

CallStates ==
  {"unused", "queued", "posting", "throttled", "backoff", "done", "failed"}

Shapes ==
  /\ fetch \in [Fetches -> {"unused", "waiting", "fetched", "failed"}]
  /\ pc \in [Calls -> CallStates]
  /\ attempt \in [Calls -> 0..MaxAttempts]
  /\ permits \in Nat /\ cu_spent \in Nat /\ retry_count \in Nat

(* A call belongs to a fetch that was begun, has made an attempt, and is   *)
(* given another only when one is left; a fetch is over when its calls are.*)
CallsInv ==
  /\ \A c \in Calls :
       /\ pc[c] # "unused" => fetch[c[1]] # "unused" /\ 1 <= attempt[c]
       /\ pc[c] = "backoff" => attempt[c] < MaxAttempts
  /\ \A f \in Fetches : fetch[f] = "fetched" => \A k \in Kinds : pc[<<f, k>>] = "done"

PermitsInv == permits + Cardinality(InFlight) = MaxConcurrency

RetriesInv == retry_count = SumFunction([c \in Calls |-> Retries(c)])

(* Every call that was answered has been charged, once, and so were some   *)
(* that failed.                                                            *)
Charged(C) == [c \in Calls |-> IF c \in C THEN Costs[c[2]] ELSE 0]
Over(C) ==
  \A c \in Calls : /\ pc[c] = "done" => c \in C
                   /\ c \in C => pc[c] \in {"done", "failed"}
ChargesInv == \E C \in SUBSET Calls : Over(C) /\ cu_spent = SumFunction(Charged(C))

IInv == Shapes /\ CallsInv /\ PermitsInv /\ RetriesInv /\ ChargesInv

-----------------------------------------------------------------------------
(* There are finitely many calls. *)
LEMMA FinitelyMany ==
  IsFiniteSet(Fetches) /\ IsFiniteSet(Kinds) /\ IsFiniteSet(Calls)
<1>1. IsFiniteSet(Fetches)
  <2>1. 1 \in Int /\ MaxFetches \in Int
    BY RpcAssumption
  <2> QED BY <2>1, FS_Interval DEF Fetches
<1>2. IsFiniteSet(Kinds)
  <2> DEFINE All == {"reads", "writes", "timestamp"}
  <2>1. IsFiniteSet({"reads"}) /\ IsFiniteSet({"reads"} \cup {"writes"})
    BY FS_Singleton, FS_AddElement
  <2>2. IsFiniteSet({"reads"} \cup {"writes"} \cup {"timestamp"})
    BY <2>1, FS_AddElement
  <2>3. All = {"reads"} \cup {"writes"} \cup {"timestamp"}
    OBVIOUS
  <2> QED BY <2>2, <2>3, RpcAssumption, FS_Subset
<1>3. IsFiniteSet(Calls)
  BY <1>1, <1>2, FS_Product DEF Calls
<1> QED BY <1>1, <1>2, <1>3

(* What is charged for a call is a number. *)
LEMMA CostsTyped == Costs \in [Kinds -> Nat] /\ \A c \in Calls : Costs[c[2]] \in Nat
<1>1. \A k \in Kinds : Cost(k) \in Nat
  BY DEF Cost, CU_GET_BLOCK, CU_TRACE_BLOCK
<1>2. Costs \in [Kinds -> Nat]
  BY <1>1 DEF Costs
<1>3. \A c \in Calls : c[2] \in Kinds
  BY DEF Calls
<1> QED BY <1>2, <1>3

(* So is what is charged for each call, of any set of calls. *)
LEMMA ChargedTyped == ASSUME NEW C PROVE Charged(C) \in [Calls -> Nat]
BY CostsTyped DEF Charged

(* No call is counted twice among the charges. *)
LEMMA ChargeOnce ==
  ASSUME NEW C, NEW c \in Calls, c \notin C
  PROVE  SumFunction(Charged(C \cup {c})) = SumFunction(Charged(C)) + Cost(c[2])
<1> DEFINE f == Charged(C)
           h == Charged(C \cup {c})
           n == Costs[c[2]]
<1>1. n = Cost(c[2])
  BY DEF Costs, Calls
<1>2. n \in Nat /\ f \in [Calls -> Nat] /\ h \in [Calls -> Nat]
  BY CostsTyped, ChargedTyped
<1>3. f[c] = 0 /\ h[c] = n /\ \A x \in Calls \ {c} : h[x] = f[x]
  BY DEF Charged
<1> HIDE DEF f, h, n
<1>4. h[c] = f[c] + n
  BY <1>2, <1>3
<1>5. SumFunction(h) = SumFunction(f) + n
  BY <1>2, <1>3, <1>4, FinitelyMany, SumGrows
<1> QED BY <1>1, <1>5 DEF f, h

-----------------------------------------------------------------------------
(* One call's step: from state s to state e, within its fetch. *)
Moves(c, s, e) ==
  /\ c \in Calls /\ pc[c] = s /\ e \in CallStates
  /\ pc' = [pc EXCEPT ![c] = e] /\ fetch' = fetch

Flying == {"posting", "throttled"}

(* What the step of a call does to the calls that hold a permit. *)
LEMMA FlightMoves ==
  ASSUME Shapes, NEW c, NEW s, NEW e, Moves(c, s, e)
  PROVE  /\ IsFiniteSet(InFlight) /\ Cardinality(InFlight) \in Nat
         /\ s \in Flying /\ e \in Flying => Cardinality(InFlight') = Cardinality(InFlight)
         /\ s \notin Flying /\ e \notin Flying =>
              Cardinality(InFlight') = Cardinality(InFlight)
         /\ s \notin Flying /\ e \in Flying =>
              Cardinality(InFlight') = Cardinality(InFlight) + 1
         /\ s \in Flying /\ e \notin Flying =>
              Cardinality(InFlight') = Cardinality(InFlight) - 1
<1>1. IsFiniteSet(InFlight) /\ Cardinality(InFlight) \in Nat
  <2>1. InFlight \subseteq Calls
    BY DEF InFlight
  <2> QED BY <2>1, FinitelyMany, FS_Subset, FS_CardinalityType
<1>2. c \in Calls /\ pc[c] = s /\ pc'[c] = e /\ \A x \in Calls : x # c => pc'[x] = pc[x]
  BY DEF Moves, Shapes
<1>3. c \in InFlight <=> s \in Flying
  BY <1>2 DEF InFlight, Flying
<1>4. e \in Flying => InFlight' = InFlight \cup {c}
  BY <1>2 DEF InFlight, Flying
<1>5. e \notin Flying => InFlight' = InFlight \ {c}
  BY <1>2 DEF InFlight, Flying
<1>6. /\ Cardinality(InFlight \cup {c})
           = IF c \in InFlight THEN Cardinality(InFlight) ELSE Cardinality(InFlight) + 1
      /\ Cardinality(InFlight \ {c})
           = IF c \in InFlight THEN Cardinality(InFlight) - 1 ELSE Cardinality(InFlight)
  BY <1>1, FS_AddElement, FS_RemoveElement
<1> QED BY <1>1, <1>3, <1>4, <1>5, <1>6

(* The calls stay in order when one takes a step, unless it is over. *)
LEMMA CallsMove ==
  ASSUME Shapes, CallsInv, NEW c, NEW s, NEW e, Moves(c, s, e),
         s \notin {"unused", "done"}, e # "unused",
         attempt' \in [Calls -> 0..MaxAttempts],
         \A x \in Calls : x # c => attempt'[x] = attempt[x],
         1 <= attempt'[c], e = "backoff" => attempt'[c] < MaxAttempts
  PROVE  CallsInv'
<1>1. c \in Calls /\ pc[c] = s /\ pc'[c] = e /\ \A x \in Calls : x # c => pc'[x] = pc[x]
  BY DEF Moves, Shapes
<1>2. fetch' = fetch
  BY DEF Moves
<1>3. ASSUME NEW x \in Calls
      PROVE  /\ pc'[x] # "unused" => fetch'[x[1]] # "unused" /\ 1 <= attempt'[x]
             /\ pc'[x] = "backoff" => attempt'[x] < MaxAttempts
  <2>1. /\ pc[x] # "unused" => fetch[x[1]] # "unused" /\ 1 <= attempt[x]
        /\ pc[x] = "backoff" => attempt[x] < MaxAttempts
    BY DEF CallsInv
  <2>2. CASE x = c
    BY <1>1, <1>2, <2>1, <2>2
  <2>3. CASE x # c
    <3>1. pc'[x] = pc[x] /\ attempt'[x] = attempt[x]
      BY <1>1, <2>3
    <3> QED BY <1>2, <2>1, <3>1
  <2> QED BY <2>2, <2>3
<1>4. ASSUME NEW f \in Fetches, fetch'[f] = "fetched", NEW k \in Kinds
      PROVE  pc'[<<f, k>>] = "done"
  <2>1. pc[<<f, k>>] = "done" /\ <<f, k>> \in Calls
    BY <1>2, <1>4 DEF CallsInv, Calls
  <2>2. <<f, k>> # c
    BY <1>1, <2>1
  <2> QED BY <1>1, <2>1, <2>2
<1> QED BY <1>3, <1>4 DEF CallsInv

(* So do the retries, if the step is no retry, *)
LEMMA RetriesMove ==
  ASSUME Shapes, RetriesInv, NEW c, NEW s, NEW e, Moves(c, s, e),
         s # "unused", e # "unused", attempt' = attempt, retry_count' = retry_count
  PROVE  RetriesInv'
<1>1. ASSUME NEW x \in Calls PROVE Retries(x)' = Retries(x)
  <2>1. CASE x = c
    <3>1. pc[x] # "unused" /\ pc'[x] # "unused"
      BY <2>1 DEF Moves, Shapes
    <3> QED BY <3>1 DEF Retries
  <2>2. CASE x # c
    <3>1. pc'[x] = pc[x]
      BY <2>2 DEF Moves, Shapes
    <3> QED BY <3>1 DEF Retries
  <2> QED BY <2>1, <2>2
<1>2. [x \in Calls |-> Retries(x)]' = [x \in Calls |-> Retries(x)]
  BY <1>1
<1> QED BY <1>2 DEF RetriesInv

(* and the charges, if it charges nothing and is not the last. *)
LEMMA ChargesMove ==
  ASSUME Shapes, ChargesInv, NEW c, NEW s, NEW e, Moves(c, s, e),
         s \notin {"done", "failed"}, e # "done", cu_spent' = cu_spent
  PROVE  ChargesInv'
<1>1. PICK C \in SUBSET Calls : Over(C) /\ cu_spent = SumFunction(Charged(C))
  BY DEF ChargesInv
<1>2. c \in Calls /\ pc[c] = s /\ pc'[c] = e /\ \A x \in Calls : x # c => pc'[x] = pc[x]
  BY DEF Moves, Shapes
<1>3. c \notin C
  BY <1>1, <1>2 DEF Over
<1>4. Over(C)'
  <2>1. ASSUME NEW x \in Calls
        PROVE  /\ pc'[x] = "done" => x \in C
               /\ x \in C => pc'[x] \in {"done", "failed"}
    <3>1. CASE x = c
      BY <1>2, <1>3, <3>1
    <3>2. CASE x # c
      <4>1. pc'[x] = pc[x]
        BY <1>2, <3>2
      <4> QED BY <1>1, <4>1 DEF Over
    <3> QED BY <3>1, <3>2
  <2> QED BY <2>1 DEF Over
<1>5. Charged(C)' = Charged(C)
  BY DEF Charged
<1>6. cu_spent' = SumFunction(Charged(C)')
  BY <1>1, <1>5
<1> QED BY <1>4, <1>6 DEF ChargesInv

(* The shapes stay what they are. *)
LEMMA ShapesMove ==
  ASSUME Shapes, NEW c, NEW s, NEW e, Moves(c, s, e),
         attempt' \in [Calls -> 0..MaxAttempts],
         permits' \in Nat, cu_spent' \in Nat, retry_count' \in Nat
  PROVE  Shapes'
<1>1. fetch' \in [Fetches -> {"unused", "waiting", "fetched", "failed"}]
  BY DEF Shapes, Moves
<1>2. pc' \in [Calls -> CallStates]
  BY DEF Shapes, Moves
<1> QED BY <1>1, <1>2 DEF Shapes

-----------------------------------------------------------------------------
(* The steps. *)

(* A call that takes a permit. *)
LEMMA AcquireKeeps == ASSUME IInv, NEW c \in Calls, Acquire(c) PROVE IInv'
<1>1. Moves(c, "queued", "posting")
  BY DEF Acquire, Moves, CallStates
<1>2. /\ permits' = permits - 1 /\ permits > 0
      /\ attempt' = attempt /\ cu_spent' = cu_spent /\ retry_count' = retry_count
  BY DEF Acquire, counters
<1>3. Shapes /\ CallsInv /\ PermitsInv /\ RetriesInv /\ ChargesInv
  BY DEF IInv
<1>4. /\ permits \in Nat /\ cu_spent \in Nat /\ retry_count \in Nat
      /\ attempt \in [Calls -> 0..MaxAttempts] /\ 1 <= attempt[c]
  BY <1>1, <1>3 DEF Shapes, CallsInv, Moves
<1>5. Shapes'
  BY <1>1, <1>2, <1>3, <1>4, ShapesMove
<1>6. CallsInv'
  BY <1>1, <1>2, <1>3, <1>4, CallsMove
<1>7. PermitsInv'
  <2>1. /\ Cardinality(InFlight) \in Nat
        /\ Cardinality(InFlight') = Cardinality(InFlight) + 1
    BY <1>1, <1>3, FlightMoves DEF Flying
  <2> QED BY <1>2, <1>3, <1>4, <2>1 DEF PermitsInv
<1>8. RetriesInv'
  BY <1>1, <1>2, <1>3, RetriesMove
<1>9. ChargesInv'
  BY <1>1, <1>2, <1>3, ChargesMove
<1> QED BY <1>5, <1>6, <1>7, <1>8, <1>9 DEF IInv

(* A call that fails for good or for now gives its permit back: what the   *)
(* refusal of a node and a failed attempt have in common.                  *)
LEMMA EndingKeeps ==
  ASSUME IInv, NEW c \in Calls, NEW s \in Flying, NEW e \in {"failed", "backoff"},
         Moves(c, s, e), e = "backoff" => attempt[c] < MaxAttempts,
         permits' = permits + 1, attempt' = attempt,
         cu_spent' = cu_spent, retry_count' = retry_count
  PROVE  IInv'
<1>1. Shapes /\ CallsInv /\ PermitsInv /\ RetriesInv /\ ChargesInv
  BY DEF IInv
<1>2. s \notin {"unused", "done", "failed"} /\ e \notin {"unused", "done"} /\ e \notin Flying
  BY DEF Flying
<1>3. /\ permits \in Nat /\ cu_spent \in Nat /\ retry_count \in Nat
      /\ attempt \in [Calls -> 0..MaxAttempts] /\ 1 <= attempt[c]
  BY <1>1, <1>2 DEF Shapes, CallsInv, Moves
<1>4. Shapes'
  BY <1>1, <1>3, ShapesMove
<1>5. CallsInv'
  BY <1>1, <1>2, <1>3, CallsMove
<1>6. PermitsInv'
  <2>1. /\ Cardinality(InFlight) \in Nat
        /\ Cardinality(InFlight') = Cardinality(InFlight) - 1
    BY <1>1, <1>2, FlightMoves
  <2> QED BY <1>1, <1>3, <2>1 DEF PermitsInv
<1>7. RetriesInv'
  BY <1>1, <1>2, RetriesMove
<1>8. ChargesInv'
  BY <1>1, <1>2, ChargesMove
<1> QED BY <1>4, <1>5, <1>6, <1>7, <1>8 DEF IInv

(* A call that the node refuses. *)
LEMMA RefuseKeeps == ASSUME IInv, NEW c \in Calls, Refuse(c) PROVE IInv'
<1>1. Moves(c, "posting", "failed") /\ "posting" \in Flying
  BY DEF Refuse, Moves, CallStates, Flying
<1>2. /\ permits' = permits + 1 /\ attempt' = attempt
      /\ cu_spent' = cu_spent /\ retry_count' = retry_count
  BY DEF Refuse, Release, counters
<1> QED BY <1>1, <1>2, EndingKeeps

(* A call whose attempt fails. *)
LEMMA AttemptFailsKeeps == ASSUME IInv, NEW c \in Calls, AttemptFails(c) PROVE IInv'
<1> DEFINE e == IF attempt[c] < MaxAttempts THEN "backoff" ELSE "failed"
<1>1. pc[c] \in Flying /\ Moves(c, pc[c], e)
  BY DEF AttemptFails, Moves, CallStates, Flying
<1>2. /\ permits' = permits + 1 /\ attempt' = attempt
      /\ cu_spent' = cu_spent /\ retry_count' = retry_count
  BY DEF AttemptFails, Release, counters
<1>3. e \in {"failed", "backoff"} /\ (e = "backoff" => attempt[c] < MaxAttempts)
  OBVIOUS
<1> HIDE DEF e
<1> QED BY <1>1, <1>2, <1>3, EndingKeeps

(* A call that the node throttles keeps its permit. *)
LEMMA ThrottleKeeps == ASSUME IInv, NEW c \in Calls, Throttle(c) PROVE IInv'
<1>1. Moves(c, "posting", "throttled")
  BY DEF Throttle, Moves, CallStates
<1>2. /\ permits' = permits /\ attempt' = attempt
      /\ cu_spent' = cu_spent /\ retry_count' = retry_count
  BY DEF Throttle, counters
<1>3. Shapes /\ CallsInv /\ PermitsInv /\ RetriesInv /\ ChargesInv
  BY DEF IInv
<1>4. /\ permits \in Nat /\ cu_spent \in Nat /\ retry_count \in Nat
      /\ attempt \in [Calls -> 0..MaxAttempts] /\ 1 <= attempt[c]
  BY <1>1, <1>3 DEF Shapes, CallsInv, Moves
<1>5. Shapes'
  BY <1>1, <1>2, <1>3, <1>4, ShapesMove
<1>6. CallsInv'
  BY <1>1, <1>2, <1>3, <1>4, CallsMove
<1>7. PermitsInv'
  <2>1. Cardinality(InFlight') = Cardinality(InFlight)
    BY <1>1, <1>3, FlightMoves DEF Flying
  <2> QED BY <1>2, <1>3, <2>1 DEF PermitsInv
<1>8. RetriesInv'
  BY <1>1, <1>2, <1>3, RetriesMove
<1>9. ChargesInv'
  BY <1>1, <1>2, <1>3, ChargesMove
<1> QED BY <1>5, <1>6, <1>7, <1>8, <1>9 DEF IInv

(* A call that is answered is charged, whatever becomes of the answer. *)
LEMMA AnswerKeeps == ASSUME IInv, NEW c \in Calls, Answer(c) PROVE IInv'
<1>1. PICK e \in {"done", "failed"} : pc' = [pc EXCEPT ![c] = e]
  BY DEF Answer
<1>2. Moves(c, "posting", e)
  BY <1>1 DEF Answer, Moves, CallStates
<1>3. /\ permits' = permits + 1 /\ attempt' = attempt
      /\ cu_spent' = cu_spent + Cost(c[2]) /\ retry_count' = retry_count
  BY DEF Answer, Release, Charge
<1>4. Shapes /\ CallsInv /\ PermitsInv /\ RetriesInv /\ ChargesInv
  BY DEF IInv
<1>5. /\ permits \in Nat /\ cu_spent \in Nat /\ retry_count \in Nat
      /\ attempt \in [Calls -> 0..MaxAttempts] /\ 1 <= attempt[c] /\ Cost(c[2]) \in Nat
  <2>1. Cost(c[2]) \in Nat
    BY DEF Cost, CU_GET_BLOCK, CU_TRACE_BLOCK
  <2> QED BY <1>2, <1>4, <2>1 DEF Shapes, CallsInv, Moves
<1>6. Shapes'
  <2>1. permits' \in Nat /\ cu_spent' \in Nat /\ retry_count' \in Nat
    BY <1>3, <1>5
  <2> QED BY <1>2, <1>3, <1>4, <1>5, <2>1, ShapesMove
<1>7. CallsInv'
  BY <1>1, <1>2, <1>3, <1>4, <1>5, CallsMove
<1>8. PermitsInv'
  <2>1. /\ Cardinality(InFlight) \in Nat
        /\ Cardinality(InFlight') = Cardinality(InFlight) - 1
    BY <1>1, <1>2, <1>4, FlightMoves DEF Flying
  <2> QED BY <1>3, <1>4, <1>5, <2>1 DEF PermitsInv
<1>9. RetriesInv'
  BY <1>1, <1>2, <1>3, <1>4, RetriesMove
<1>10. ChargesInv'
  <2>1. PICK C \in SUBSET Calls : Over(C) /\ cu_spent = SumFunction(Charged(C))
    BY <1>4 DEF ChargesInv
  <2>2. pc[c] = "posting" /\ pc'[c] = e /\ \A x \in Calls : x # c => pc'[x] = pc[x]
    BY <1>2, <1>4 DEF Moves, Shapes
  <2>3. c \notin C
    BY <2>1, <2>2 DEF Over
  <2> DEFINE D == C \cup {c}
  <2>4. D \in SUBSET Calls
    OBVIOUS
  <2>5. Over(D)'
    <3>1. ASSUME NEW x \in Calls
          PROVE  /\ pc'[x] = "done" => x \in D
                 /\ x \in D => pc'[x] \in {"done", "failed"}
      <4>1. CASE x = c
        BY <1>1, <2>2, <4>1
      <4>2. CASE x # c
        <5>1. pc'[x] = pc[x] /\ (x \in D <=> x \in C)
          BY <2>2, <4>2
        <5> QED BY <2>1, <5>1 DEF Over
      <4> QED BY <4>1, <4>2
    <3> QED BY <3>1 DEF Over
  <2>6. SumFunction(Charged(D)) = SumFunction(Charged(C)) + Cost(c[2])
    BY <2>3, ChargeOnce
  <2>7. Charged(D)' = Charged(D)
    BY DEF Charged
  <2> HIDE DEF D
  <2>8. cu_spent' = SumFunction(Charged(D)')
    BY <1>3, <2>1, <2>6, <2>7
  <2> QED BY <2>4, <2>5, <2>8 DEF ChargesInv
<1> QED BY <1>6, <1>7, <1>8, <1>9, <1>10 DEF IInv

(* A call that is tried again. *)
LEMMA RetryKeeps == ASSUME IInv, NEW c \in Calls, Retry(c) PROVE IInv'
<1>1. Moves(c, "backoff", "queued")
  BY DEF Retry, Moves, CallStates
<1>2. /\ permits' = permits /\ attempt' = [attempt EXCEPT ![c] = @ + 1]
      /\ cu_spent' = cu_spent /\ retry_count' = retry_count + 1
  BY DEF Retry
<1>3. Shapes /\ CallsInv /\ PermitsInv /\ RetriesInv /\ ChargesInv
  BY DEF IInv
<1>4. /\ permits \in Nat /\ cu_spent \in Nat /\ retry_count \in Nat
      /\ attempt \in [Calls -> 0..MaxAttempts] /\ MaxAttempts \in Nat
      /\ 1 <= attempt[c] /\ attempt[c] < MaxAttempts
  BY <1>1, <1>3, RpcAssumption DEF Shapes, CallsInv, Moves
<1>5. attempt[c] + 1 \in 0..MaxAttempts /\ attempt[c] \in Nat /\ retry_count' \in Nat
  BY <1>2, <1>4
<1>6. /\ attempt' \in [Calls -> 0..MaxAttempts] /\ attempt'[c] = attempt[c] + 1
      /\ \A x \in Calls : x # c => attempt'[x] = attempt[x]
  BY <1>2, <1>4, <1>5
<1>7. Shapes'
  BY <1>1, <1>2, <1>3, <1>4, <1>5, <1>6, ShapesMove
<1>8. CallsInv'
  <2>1. 1 <= attempt'[c]
    BY <1>4, <1>5, <1>6
  <2> QED BY <1>1, <1>3, <1>6, <2>1, CallsMove
<1>9. PermitsInv'
  <2>1. Cardinality(InFlight') = Cardinality(InFlight)
    BY <1>1, <1>3, FlightMoves DEF Flying
  <2> QED BY <1>2, <1>3, <2>1 DEF PermitsInv
<1>10. RetriesInv'
  <2> DEFINE f == [x \in Calls |-> Retries(x)]
             h == [x \in Calls |-> Retries(x)']
  <2>1. f \in [Calls -> Nat] /\ h \in [Calls -> Nat]
    <3>1. \A x \in Calls : Retries(x) \in Nat
      BY <1>3 DEF Retries, Shapes, CallsInv
    <3>2. \A x \in Calls : Retries(x)' \in Nat
      BY <1>7, <1>8 DEF Retries, Shapes, CallsInv
    <3> QED BY <3>1, <3>2
  <2>2. h[c] = f[c] + 1
    <3>1. pc[c] # "unused" /\ pc'[c] # "unused"
      BY <1>1, <1>3 DEF Moves, Shapes
    <3>2. f[c] = attempt[c] - 1 /\ h[c] = attempt'[c] - 1
      BY <3>1 DEF Retries
    <3> QED BY <1>5, <1>6, <3>2
  <2>3. \A x \in Calls \ {c} : h[x] = f[x]
    <3> TAKE x \in Calls \ {c}
    <3>1. pc'[x] = pc[x] /\ attempt'[x] = attempt[x]
      BY <1>1, <1>3, <1>6 DEF Moves, Shapes
    <3> QED BY <3>1 DEF Retries
  <2>4. [x \in Calls |-> Retries(x)]' = h
    OBVIOUS
  <2>5. retry_count = SumFunction(f)
    BY <1>3 DEF RetriesInv
  <2>6. RetriesInv' <=> retry_count' = SumFunction(h)
    BY <2>4 DEF RetriesInv
  <2> HIDE DEF f, h
  <2>7. SumFunction(h) = SumFunction(f) + 1
    BY <2>1, <2>2, <2>3, FinitelyMany, SumGrows
  <2> QED BY <1>2, <2>5, <2>6, <2>7
<1>11. ChargesInv'
  BY <1>1, <1>2, <1>3, ChargesMove
<1> QED BY <1>7, <1>8, <1>9, <1>10, <1>11 DEF IInv

(* A fetch whose calls are gathered, or that ends with the first failure:  *)
(* the calls stay as they are.                                             *)
LEMMA FetchEndsKeeps == ASSUME IInv, NEW f \in Fetches, FetchEnds(f) PROVE IInv'
<1>1. /\ pc' = pc /\ attempt' = attempt /\ permits' = permits
      /\ cu_spent' = cu_spent /\ retry_count' = retry_count
  BY DEF FetchEnds, Gathered, Raised, counters
<1>2. PICK e \in {"fetched", "failed"} :
        /\ fetch' = [fetch EXCEPT ![f] = e]
        /\ e = "fetched" => \A k \in Kinds : pc[<<f, k>>] = "done"
  BY DEF FetchEnds, Gathered, Raised
<1>3. Shapes /\ CallsInv /\ PermitsInv /\ RetriesInv /\ ChargesInv
  BY DEF IInv
<1>4. fetch'[f] = e /\ \A g \in Fetches : g # f => fetch'[g] = fetch[g]
  BY <1>2, <1>3 DEF Shapes
<1>5. Shapes'
  BY <1>1, <1>2, <1>3 DEF Shapes
<1>6. CallsInv'
  <2>1. ASSUME NEW x \in Calls
        PROVE  /\ pc'[x] # "unused" => fetch'[x[1]] # "unused" /\ 1 <= attempt'[x]
               /\ pc'[x] = "backoff" => attempt'[x] < MaxAttempts
    <3>1. x[1] \in Fetches
      BY DEF Calls
    <3>2. fetch[x[1]] # "unused" => fetch'[x[1]] # "unused"
      BY <1>4, <3>1
    <3> QED BY <1>1, <1>3, <3>2 DEF CallsInv
  <2>2. ASSUME NEW g \in Fetches, fetch'[g] = "fetched", NEW k \in Kinds
        PROVE  pc'[<<g, k>>] = "done"
    <3>1. CASE g = f
      BY <1>1, <1>2, <1>4, <2>2, <3>1
    <3>2. CASE g # f
      <4>1. fetch[g] = "fetched"
        BY <1>4, <2>2, <3>2
      <4> QED BY <1>1, <1>3, <4>1 DEF CallsInv
    <3> QED BY <3>1, <3>2
  <2> QED BY <2>1, <2>2 DEF CallsInv
<1>7. PermitsInv' /\ RetriesInv' /\ ChargesInv'
  BY <1>1, <1>3 DEF PermitsInv, InFlight, RetriesInv, Retries, ChargesInv, Over, Charged
<1> QED BY <1>5, <1>6, <1>7 DEF IInv

(* A fetch that begins queues calls that made no attempt before. *)
LEMMA StartFetchKeeps == ASSUME IInv, NEW f \in Fetches, StartFetch(f) PROVE IInv'
<1>1. /\ permits' = permits /\ cu_spent' = cu_spent /\ retry_count' = retry_count
      /\ fetch[f] = "unused" /\ fetch' = [fetch EXCEPT ![f] = "waiting"]
      /\ pc' = [c \in Calls |-> IF c[1] = f THEN "queued" ELSE pc[c]]
      /\ attempt' = [c \in Calls |-> IF c[1] = f THEN 1 ELSE attempt[c]]
  BY DEF StartFetch, counters
<1>2. Shapes /\ CallsInv /\ PermitsInv /\ RetriesInv /\ ChargesInv
  BY DEF IInv
<1>3. fetch'[f] = "waiting" /\ \A g \in Fetches : g # f => fetch'[g] = fetch[g]
  BY <1>1, <1>2 DEF Shapes
<1>4. \A c \in Calls : c[1] \in Fetches /\ (c[1] = f => pc[c] = "unused")
  BY <1>1, <1>2 DEF CallsInv, Calls
<1>5. \A c \in Calls : /\ c[1] = f => pc'[c] = "queued" /\ attempt'[c] = 1
                       /\ c[1] # f => pc'[c] = pc[c] /\ attempt'[c] = attempt[c]
  BY <1>1
<1>6. Shapes'
  <2>1. fetch' \in [Fetches -> {"unused", "waiting", "fetched", "failed"}]
    BY <1>1, <1>2 DEF Shapes
  <2>2. pc' \in [Calls -> CallStates]
    BY <1>1, <1>2 DEF Shapes, CallStates
  <2>3. 1 \in 0..MaxAttempts
    BY RpcAssumption
  <2>4. attempt' \in [Calls -> 0..MaxAttempts]
    BY <1>1, <1>2, <2>3 DEF Shapes
  <2> QED BY <1>1, <1>2, <2>1, <2>2, <2>4 DEF Shapes
<1>7. CallsInv'
  <2>1. ASSUME NEW x \in Calls
        PROVE  /\ pc'[x] # "unused" => fetch'[x[1]] # "unused" /\ 1 <= attempt'[x]
               /\ pc'[x] = "backoff" => attempt'[x] < MaxAttempts
    <3>1. CASE x[1] = f
      BY <1>3, <1>5, <3>1
    <3>2. CASE x[1] # f
      <4>1. fetch'[x[1]] = fetch[x[1]] /\ pc'[x] = pc[x] /\ attempt'[x] = attempt[x]
        BY <1>3, <1>4, <1>5, <3>2
      <4> QED BY <1>2, <4>1 DEF CallsInv
    <3> QED BY <3>1, <3>2
  <2>2. ASSUME NEW g \in Fetches, fetch'[g] = "fetched", NEW k \in Kinds
        PROVE  pc'[<<g, k>>] = "done"
    <3>1. g # f /\ fetch[g] = "fetched"
      BY <1>3, <2>2
    <3>2. pc[<<g, k>>] = "done" /\ <<g, k>> \in Calls /\ <<g, k>>[1] = g
      BY <1>2, <3>1 DEF CallsInv, Calls
    <3> QED BY <1>5, <3>1, <3>2
  <2> QED BY <2>1, <2>2 DEF CallsInv
<1>8. PermitsInv'
  <2>1. InFlight' = InFlight
    BY <1>4, <1>5 DEF InFlight
  <2> QED BY <1>1, <1>2, <2>1 DEF PermitsInv
<1>9. RetriesInv'
  <2>1. \A c \in Calls : Retries(c)' = Retries(c)
    <3> TAKE c \in Calls
    <3>1. CASE c[1] = f
      BY <1>4, <1>5, <3>1 DEF Retries
    <3>2. CASE c[1] # f
      BY <1>5, <3>2 DEF Retries
    <3> QED BY <3>1, <3>2
  <2>2. [c \in Calls |-> Retries(c)]' = [c \in Calls |-> Retries(c)]
    BY <2>1
  <2> QED BY <1>1, <1>2, <2>2 DEF RetriesInv
<1>10. ChargesInv'
  <2>1. PICK C \in SUBSET Calls : Over(C) /\ cu_spent = SumFunction(Charged(C))
    BY <1>2 DEF ChargesInv
  <2>2. Over(C)'
    <3>1. ASSUME NEW x \in Calls
          PROVE  /\ pc'[x] = "done" => x \in C
                 /\ x \in C => pc'[x] \in {"done", "failed"}
      <4>1. CASE x[1] = f
        <5>1. x \notin C
          BY <1>4, <2>1, <4>1 DEF Over
        <5> QED BY <1>5, <4>1, <5>1
      <4>2. CASE x[1] # f
        <5>1. pc'[x] = pc[x]
          BY <1>5, <4>2
        <5> QED BY <2>1, <5>1 DEF Over
      <4> QED BY <4>1, <4>2
    <3> QED BY <3>1 DEF Over
  <2>3. Charged(C)' = Charged(C)
    BY DEF Charged
  <2>4. cu_spent' = SumFunction(Charged(C)')
    BY <1>1, <2>1, <2>3
  <2> QED BY <2>2, <2>4 DEF ChargesInv
<1> QED BY <1>6, <1>7, <1>8, <1>9, <1>10 DEF IInv

(* The client before its first fetch. *)
LEMMA InitIInv == Init => IInv
<1> SUFFICES ASSUME Init PROVE IInv
  OBVIOUS
<1>1. Shapes /\ CallsInv
  BY RpcAssumption DEF Init, Shapes, CallsInv, CallStates, Calls
<1>2. PermitsInv
  <2>1. InFlight = {}
    BY DEF Init, InFlight
  <2> QED BY <2>1, FS_EmptySet, RpcAssumption DEF Init, PermitsInv
<1>3. RetriesInv
  <2>1. [c \in Calls |-> Retries(c)] \in [Calls -> {0}]
    BY DEF Init, Retries
  <2>2. SumFunction([c \in Calls |-> Retries(c)]) = 0
    BY <2>1, FinitelyMany, SumOfZeros
  <2> QED BY <2>2 DEF Init, RetriesInv
<1>4. ChargesInv
  <2>1. Charged({}) \in [Calls -> {0}]
    BY DEF Charged
  <2>2. SumFunction(Charged({})) = 0
    BY <2>1, FinitelyMany, SumOfZeros
  <2>3. Over({})
    BY DEF Init, Over
  <2>4. {} \in SUBSET Calls
    OBVIOUS
  <2> QED BY <2>2, <2>3, <2>4 DEF Init, ChargesInv
<1> QED BY <1>1, <1>2, <1>3, <1>4 DEF IInv

(* The invariant holds of every state of the client (rpc.py 81-139).       *)
THEOREM RpcInvariant == Spec => []IInv
<1>1. Init => IInv
  BY InitIInv
<1>2. IInv /\ [Next]_vars => IInv'
  <2> SUFFICES ASSUME IInv, [Next]_vars PROVE IInv'
    OBVIOUS
  <2>1. ASSUME NEW f \in Fetches, StartFetch(f) \/ FetchEnds(f) PROVE IInv'
    BY <2>1, StartFetchKeeps, FetchEndsKeeps
  <2>2. ASSUME NEW c \in Calls, CallStep(c) PROVE IInv'
    BY <2>2, AcquireKeeps, AnswerKeeps, RefuseKeeps, ThrottleKeeps, AttemptFailsKeeps,
       RetryKeeps DEF CallStep
  <2>3. CASE UNCHANGED vars
    BY <2>3 DEF vars, counters, IInv, Shapes, CallsInv, PermitsInv, InFlight, RetriesInv,
                Retries, ChargesInv, Over, Charged
  <2> QED BY <2>1, <2>2, <2>3 DEF Next
<1> QED BY <1>1, <1>2, PTL DEF Spec

-----------------------------------------------------------------------------
(* So many fetches, so many times the cost of one. *)
LEMMA FetchesCost ==
  ASSUME NEW F \in SUBSET Fetches
  PROVE  SumFunction(Charged({c \in Calls : c[1] \in F})) = FetchCost * Cardinality(F)
<1>1. Charged({c \in Calls : c[1] \in F}) = Rows(Fetches, Kinds, Costs, F)
  BY DEF Charged, Rows, Calls
<1>2. SumFunction(Rows(Fetches, Kinds, Costs, F)) = SumFunction(Costs) * Cardinality(F)
  BY FinitelyMany, CostsTyped, SumOfRows DEF Calls
<1> QED BY <1>1, <1>2 DEF FetchCost

(* More calls cost no less. *)
LEMMA MoreCost ==
  ASSUME NEW C, NEW D, C \subseteq D
  PROVE  SumFunction(Charged(C)) <= SumFunction(Charged(D))
<1>1. \A c \in Calls : Charged(C)[c] <= Charged(D)[c]
  <2> TAKE c \in Calls
  <2>1. Costs[c[2]] \in Nat
    BY CostsTyped
  <2> QED BY <2>1 DEF Charged
<1> QED BY <1>1, ChargedTyped, FinitelyMany, SumMonotone

(* The counters agree with the calls, those of failed fetches that nobody  *)
(* waits for any more included, and the semaphore limits all requests,     *)
(* however many fetches there are (rpc.py 81-127).                         *)
THEOREM CountersAlwaysAgree == Spec => []CountersAgree
<1>1. IInv => CountersAgree
  <2> SUFFICES ASSUME IInv PROVE CountersAgree
    OBVIOUS
  <2>1. PICK C \in SUBSET Calls : Over(C) /\ cu_spent = SumFunction(Charged(C))
    BY DEF IInv, ChargesInv
  <2>2. {c \in Calls : c[1] \in Ended("fetched")} \subseteq C
    <3> SUFFICES ASSUME NEW c \in Calls, c[1] \in Ended("fetched") PROVE c \in C
      OBVIOUS
    <3>1. c[1] \in Fetches /\ c[2] \in Kinds /\ c = <<c[1], c[2]>>
      BY DEF Calls
    <3>2. pc[<<c[1], c[2]>>] = "done"
      BY <3>1 DEF IInv, CallsInv, Ended
    <3> QED BY <2>1, <3>1, <3>2 DEF Over
  <2>3. C \subseteq {c \in Calls : c[1] \in Fetches \ Ended("unused")}
    <3> SUFFICES ASSUME NEW c \in C PROVE c[1] \in Fetches \ Ended("unused")
      OBVIOUS
    <3>1. c \in Calls /\ c[1] \in Fetches
      BY DEF Calls
    <3>2. pc[c] # "unused"
      BY <2>1, <3>1 DEF Over
    <3>3. fetch[c[1]] # "unused"
      BY <3>1, <3>2 DEF IInv, CallsInv
    <3> QED BY <3>1, <3>3 DEF Ended
  <2>4. SumFunction(Charged({c \in Calls : c[1] \in Ended("fetched")})) <= cu_spent
    BY <2>1, <2>2, MoreCost
  <2>5. cu_spent <= SumFunction(Charged({c \in Calls : c[1] \in Fetches \ Ended("unused")}))
    BY <2>1, <2>3, MoreCost
  <2>6. FetchCost * Cardinality(Ended("fetched")) <= cu_spent
    <3>1. Ended("fetched") \in SUBSET Fetches
      BY DEF Ended
    <3> QED BY <2>4, <3>1, FetchesCost
  <2>7. cu_spent <= FetchCost * Cardinality(Fetches \ Ended("unused"))
    BY <2>5, FetchesCost
  <2>8. \A c \in Calls : attempt[c] <= MaxAttempts
    BY RpcAssumption DEF IInv, Shapes
  <2>9. FetchCost * Cardinality(Ended("fetched")) \in Int /\ cu_spent \in Int
    <3>1. FetchCost \in Nat
      BY FinitelyMany, CostsTyped, SumIsNatural DEF FetchCost
    <3>2. Cardinality(Ended("fetched")) \in Nat
      BY FinitelyMany, FS_Subset, FS_CardinalityType DEF Ended
    <3> QED BY <3>1, <3>2 DEF IInv, Shapes
  <2>10. cu_spent >= FetchCost * Cardinality(Ended("fetched"))
    BY <2>6, <2>9
  <2> QED BY <2>7, <2>8, <2>10 DEF CountersAgree, IInv, RetriesInv, PermitsInv
<1> QED BY <1>1, RpcInvariant, PTL

-----------------------------------------------------------------------------
(* The keys of a block. *)

(* What ToSet makes of a longer list. *)
LEMMA ToSetAppend ==
  ASSUME NEW S, NEW s \in Seq(S), NEW x
  PROVE  ToSet(Append(s, x)) = ToSet(s) \cup {x}
<1>1. Append(s, x) \in Seq(S \cup {x})
  OBVIOUS
<1>2. /\ Len(Append(s, x)) = Len(s) + 1 /\ Append(s, x)[Len(s) + 1] = x
      /\ \A i \in 1..Len(s) : Append(s, x)[i] = s[i]
  OBVIOUS
<1>3. Len(s) \in Nat /\ DOMAIN s = 1..Len(s) /\ DOMAIN Append(s, x) = 1..Len(s) + 1
  BY <1>1, <1>2
<1> QED BY <1>2, <1>3 DEF ToSet

(* A name of two digits is the same in full and without a leading zero.    *)
LEMMA NamesInFull ==
  ASSUME NEW d \in Seq(Nat), Len(d) = 2, NEW short \in BOOLEAN
  PROVE  PadLeft(Spelled(d, short), 2) = d
<1>1. CASE short /\ d[1] = 0
  <2> DEFINE t == Tail(d)
             z == [i \in 1..2 - Len(t) |-> 0]
  <2>1. t \in Seq(Nat) /\ Len(t) = 1 /\ t[1] = d[2]
    <3>1. d # <<>>
      BY EmptySeq
    <3>2. t \in Seq(Nat) /\ Len(t) = Len(d) - 1 /\ \A i \in 1..Len(t) : t[i] = d[i + 1]
      BY <3>1, HeadTailProperties
    <3> HIDE DEF t
    <3>3. Len(t) = 1 /\ 1 \in 1..1 /\ 1 + 1 = 2
      BY <3>2
    <3> QED BY <3>2, <3>3
  <2> HIDE DEF t
  <2>2. z = [i \in 1..1 |-> 0]
    BY <2>1
  <2> HIDE DEF z
  <2>3. z \in Seq(Nat) /\ Len(z) = 1 /\ z[1] = 0
    BY <2>2
  <2>4. /\ z \o t \in Seq(Nat) /\ Len(z \o t) = 2
        /\ \A i \in 1..2 : (z \o t)[i] = IF i <= 1 THEN z[i] ELSE t[i - 1]
    <3>1. /\ z \o t \in Seq(Nat) /\ Len(z \o t) = Len(z) + Len(t)
          /\ \A i \in 1..Len(z) + Len(t) :
               (z \o t)[i] = IF i <= Len(z) THEN z[i] ELSE t[i - Len(z)]
      BY <2>1, <2>3, ConcatProperties
    <3> QED BY <2>1, <2>3, <3>1
  <2>5. (z \o t)[1] = d[1] /\ (z \o t)[2] = d[2]
    <3>1. 1 \in 1..2 /\ 2 \in 1..2 /\ 1 <= 1 /\ ~(2 <= 1) /\ 2 - 1 = 1
      OBVIOUS
    <3> QED BY <1>1, <2>1, <2>3, <2>4, <3>1
  <2>6. z \o t = d
    <3> DEFINE u == z \o t
    <3>1. u \in Seq(Nat) /\ Len(u) = 2 /\ u[1] = d[1] /\ u[2] = d[2]
      BY <2>4, <2>5
    <3> HIDE DEF u
    <3>2. \A i \in 1..2 : u[i] = d[i]
      BY <3>1
    <3>3. u = d
      BY <3>1, <3>2, SeqEqual
    <3> QED BY <3>3 DEF u
  <2> QED BY <1>1, <2>6 DEF PadLeft, Spelled, t, z
<1>2. CASE ~(short /\ d[1] = 0)
  <2> DEFINE z == [i \in 1..2 - Len(d) |-> 0]
  <2>1. z = <<>>
    OBVIOUS
  <2>2. z \o d = d
    BY <2>1
  <2> QED BY <1>2, <2>2 DEF PadLeft, Spelled
<1> QED BY <1>1, <1>2

(* So the keys carry the full names. *)
LEMMA KeysInFull ==
  ASSUME NEW a \in Addresses, NEW short \in BOOLEAN
  PROVE  /\ HeaderKey(Spelled(a, short)) = <<a, NoSlot>>
         /\ \A s \in Slots : SlotKey(Spelled(a, short), Spelled(s, short)) = <<a, s>>
<1>1. AddrToBytes(Spelled(a, short)) = a
  BY NamesInFull, TracerAssumption DEF AddrToBytes, ADDR_LEN
<1>2. \A s \in Slots : SlotToBytes(Spelled(s, short)) = s
  BY NamesInFull, TracerAssumption DEF SlotToBytes, SLOT_LEN
<1> QED BY <1>1, <1>2 DEF HeaderKey, SlotKey

(* Slots are spelled apart. *)
LEMMA SlotsSpelledApart ==
  ASSUME NEW s \in Slots, NEW t \in Slots, NEW short \in BOOLEAN,
         Spelled(s, short) = Spelled(t, short)
  PROVE  s = t
<1>1. PadLeft(Spelled(s, short), 2) = s /\ PadLeft(Spelled(t, short), 2) = t
  BY NamesInFull, TracerAssumption DEF SLOT_LEN
<1> QED BY <1>1

-----------------------------------------------------------------------------
(* What one transaction adds to the two sets. *)

(* The slots of a and b that hold different values. *)
Differs(old, new) == {s \in Slots : Stored(old, s) # Stored(new, s)}

HeaderDiffers(old, new) ==
  (old = Absent) # (new = Absent) \/ (old # Absent /\ old.fields # new.fields)

(* The keys of account a that a transaction changed. *)
ChangedKeys(a, old, new) ==
  (IF HeaderDiffers(old, new) THEN {<<a, NoSlot>>} ELSE {}) \cup {<<a, s>> : s \in Differs(old, new)}

(* The keys that the prestate of a transaction stands for. *)
LEMMA ReadsOfOne ==
  ASSUME NEW a \in Addresses, NEW S \in SUBSET Slots, NEW short \in BOOLEAN
  PROVE  ReadKeys([n \in {Spelled(a, short)} |-> [storage |-> {Spelled(s, short) : s \in S}]])
           = {<<a, NoSlot>>} \cup {<<a, s>> : s \in S}
<1> DEFINE name == Spelled(a, short)
           e == [n \in {name} |-> [storage |-> {Spelled(s, short) : s \in S}]]
<1>1. DOMAIN e = {name} /\ e[name].storage = {Spelled(s, short) : s \in S}
  OBVIOUS
<1>2. ReadKeys(e) = {HeaderKey(name)} \cup {SlotKey(name, x) : x \in e[name].storage}
  <2> HIDE DEF e, name
  <2> QED BY <1>1 DEF ReadKeys
<1>3. {SlotKey(name, x) : x \in e[name].storage} = {SlotKey(name, Spelled(s, short)) : s \in S}
  BY <1>1
<1>4. {SlotKey(name, Spelled(s, short)) : s \in S} = {<<a, s>> : s \in S}
  BY KeysInFull
<1> QED BY <1>2, <1>3, <1>4, KeysInFull

(* The storage of one side of a diff lists a slot that is set under its    *)
(* name.                                                                   *)
ListsSlots(stor, acc, S, short) ==
  /\ \A x : x \in DOMAIN stor <=> \E s \in S : acc.storage[s] # 0 /\ Spelled(s, short) = x
  /\ \A s \in S : acc.storage[s] # 0 => stor[Spelled(s, short)] = acc.storage[s]

(* And so it is. *)
LEMMA SideOf ==
  ASSUME NEW acc, NEW F, NEW S \in SUBSET Slots, NEW short \in BOOLEAN
  PROVE  ListsSlots(Side(acc, F, S, short).storage, acc, S, short)
<1> DEFINE set == {s \in S : acc.storage[s] # 0}
           names == {Spelled(s, short) : s \in set}
           stor == [n \in names |-> acc.storage[CHOOSE s \in set : Spelled(s, short) = n]]
<1>1. Side(acc, F, S, short).storage = stor
  BY DEF Side
<1>2. ASSUME NEW s \in S, acc.storage[s] # 0 PROVE stor[Spelled(s, short)] = acc.storage[s]
  <2>1. s \in set /\ Spelled(s, short) \in names
    BY <1>2
  <2>2. (CHOOSE t \in set : Spelled(t, short) = Spelled(s, short)) = s
    BY <2>1, SlotsSpelledApart
  <2> QED BY <2>1, <2>2
<1>3. \A x : x \in DOMAIN stor <=> \E s \in S : acc.storage[s] # 0 /\ Spelled(s, short) = x
  OBVIOUS
<1> HIDE DEF stor
<1> QED BY <1>1, <1>2, <1>3 DEF ListsSlots

(* What either side of the diff of an account has for a slot.              *)
Listing(acc, F, S, short) ==
  IF acc = Absent THEN NoState ELSE Side(acc, F, S, short)

HoldsSlots(stor, acc, S, short) ==
  /\ \A s \in S : Lookup(stor, Spelled(s, short), NONE)
                   = IF Stored(acc, s) = 0 THEN NONE ELSE Stored(acc, s)
  /\ \A x : x \in DOMAIN stor <=> \E s \in S : Stored(acc, s) # 0 /\ Spelled(s, short) = x

(* And so it does, also when there is no account. *)
LEMMA SlotListed ==
  ASSUME NEW acc \in AccountStates, NEW F, NEW S \in SUBSET Slots, NEW short \in BOOLEAN
  PROVE  HoldsSlots(Listing(acc, F, S, short).storage, acc, S, short)
<1> DEFINE stor == Listing(acc, F, S, short).storage
<1>1. CASE acc = Absent
  <2>1. stor = <<>> /\ DOMAIN <<>> = {}
    BY <1>1 DEF Listing, NoState
  <2> QED BY <1>1, <2>1 DEF Stored, Lookup, HoldsSlots
<1>2. CASE acc # Absent
  <2>1. stor = Side(acc, F, S, short).storage /\ \A s \in S : Stored(acc, s) = acc.storage[s]
    BY <1>2 DEF Listing, Stored
  <2>2. ListsSlots(stor, acc, S, short)
    BY <2>1, SideOf
  <2> HIDE DEF stor
  <2>4. \A s \in S : Spelled(s, short) \in DOMAIN stor <=> acc.storage[s] # 0
    BY <2>2, SlotsSpelledApart DEF ListsSlots
  <2>5. \A s \in S : Lookup(stor, Spelled(s, short), NONE)
                       = IF Stored(acc, s) = 0 THEN NONE ELSE Stored(acc, s)
    BY <2>1, <2>2, <2>4 DEF Lookup, ListsSlots
  <2>6. \A x : x \in DOMAIN stor <=> \E s \in S : Stored(acc, s) # 0 /\ Spelled(s, short) = x
    BY <2>1, <2>2 DEF ListsSlots
  <2> QED BY <2>5, <2>6 DEF stor, HoldsSlots
<1> QED BY <1>1, <1>2

(* The slots in which the two sides differ are those that hold different   *)
(* values: one that is unset on one side is listed on the other.           *)
SlotsTell(old, new, F, G, S, short) ==
  ChangedSlots(Listing(old, F, S, short).storage, Listing(new, G, S, short).storage)
    = {Spelled(s, short) : s \in S \cap Differs(old, new)}

(* And so they do. *)
LEMMA SlotsOfOne ==
  ASSUME NEW old \in AccountStates, NEW new \in AccountStates, NEW F, NEW G,
         NEW S \in SUBSET Slots, NEW short \in BOOLEAN
  PROVE  SlotsTell(old, new, F, G, S, short)
<1> DEFINE p == Listing(old, F, S, short).storage
           q == Listing(new, G, S, short).storage
<1>1. HoldsSlots(p, old, S, short) /\ HoldsSlots(q, new, S, short)
  BY SlotListed
<1>3. \A s \in S : Stored(old, s) # NONE /\ Stored(new, s) # NONE
  BY TracerAssumption DEF Stored, AccountStates
<1> HIDE DEF p, q
<1>4. \A s \in S : Lookup(p, Spelled(s, short), NONE) # Lookup(q, Spelled(s, short), NONE)
                     <=> s \in Differs(old, new)
  BY <1>1, <1>3 DEF Differs, HoldsSlots
<1>5. ASSUME NEW x \in ChangedSlots(p, q) PROVE \E s \in S \cap Differs(old, new) : x = Spelled(s, short)
  <2>1. PICK s \in S : x = Spelled(s, short)
    BY <1>1, <1>5 DEF ChangedSlots, HoldsSlots
  <2> QED BY <1>4, <1>5, <2>1 DEF ChangedSlots
<1>6. ASSUME NEW s \in S \cap Differs(old, new) PROVE Spelled(s, short) \in ChangedSlots(p, q)
  <2>1. Stored(old, s) # 0 \/ Stored(new, s) # 0
    BY DEF Differs
  <2> QED BY <1>1, <1>4, <2>1 DEF ChangedSlots, HoldsSlots
<1>7. ChangedSlots(p, q) = {Spelled(s, short) : s \in S \cap Differs(old, new)}
  BY <1>5, <1>6
<1> QED BY <1>7 DEF p, q, SlotsTell

(* The keys of a diff of one account. *)
LEMMA WritesOfListed ==
  ASSUME NEW d, NEW name, DOMAIN d.pre \cup DOMAIN d.post = {name}
  PROVE  WriteKeys(d)
           = (IF HeaderChanged(d, name) THEN {HeaderKey(name)} ELSE {})
               \cup {SlotKey(name, x) : x \in ChangedSlots(Lookup(d.pre, name, NoState).storage,
                                                           Lookup(d.post, name, NoState).storage)}
BY DEF WriteKeys

(* The write keys of a transaction are what it changed, and at most the    *)
(* header of the account besides if it changed anything.                   *)
LEMMA WritesOfOne ==
  ASSUME NEW a \in Addresses, NEW old \in AccountStates, NEW new \in AccountStates,
         NEW S \in SUBSET Slots, Differs(old, new) \subseteq S,
         NEW brief \in BOOLEAN, NEW short \in BOOLEAN
  PROVE  /\ ChangedKeys(a, old, new) \subseteq WriteKeys(DiffOf(a, old, new, S, brief, short))
         /\ WriteKeys(DiffOf(a, old, new, S, brief, short))
              \subseteq ChangedKeys(a, old, new) \cup (IF old = new THEN {} ELSE {<<a, NoSlot>>})
<1> DEFINE name == Spelled(a, short)
           slots == IF brief THEN {s \in S : Stored(old, s) # Stored(new, s)} ELSE S
           fields == IF brief /\ old # Absent
                     THEN {f \in HeaderFields : old.fields[f] # new.fields[f]} ELSE HeaderFields
           d == DiffOf(a, old, new, S, brief, short)
<1>1. CASE old = new
  <2>1. d.pre = <<>> /\ d.post = <<>> /\ DOMAIN <<>> = {}
    BY <1>1 DEF DiffOf
  <2>2. WriteKeys(d) = {}
    <3> HIDE DEF d
    <3> QED BY <2>1 DEF WriteKeys
  <2>3. ChangedKeys(a, old, new) = {}
    BY <1>1 DEF ChangedKeys, Differs, HeaderDiffers
  <2> QED BY <2>2, <2>3
<1>2. CASE old # new
  <2>1. /\ d.pre = IF old = Absent THEN <<>>
                   ELSE [n \in {name} |-> Side(old, HeaderFields, slots, short)]
        /\ d.post = IF new = Absent THEN <<>>
                    ELSE [n \in {name} |-> Side(new, fields, slots, short)]
    BY <1>2 DEF DiffOf
  <2>2. DOMAIN <<>> = {}
    OBVIOUS
  <2> HIDE DEF d, name, slots, fields
  <2>3. /\ name \in DOMAIN d.pre <=> old # Absent
        /\ name \in DOMAIN d.post <=> new # Absent
        /\ DOMAIN d.pre \cup DOMAIN d.post = {name}
    BY <1>2, <2>1, <2>2
  <2>4. /\ Lookup(d.pre, name, NoState) = Listing(old, HeaderFields, slots, short)
        /\ Lookup(d.post, name, NoState) = Listing(new, fields, slots, short)
    BY <2>1, <2>3 DEF Lookup, Listing
  <2>5. slots \in SUBSET Slots /\ slots \cap Differs(old, new) = Differs(old, new)
    BY DEF slots, Differs
  <2>6. {SlotKey(name, x) : x \in ChangedSlots(Lookup(d.pre, name, NoState).storage,
                                               Lookup(d.post, name, NoState).storage)}
          = {<<a, s>> : s \in Differs(old, new)}
    <3>1. ChangedSlots(Lookup(d.pre, name, NoState).storage, Lookup(d.post, name, NoState).storage)
            = {Spelled(s, short) : s \in Differs(old, new)}
      <4>1. SlotsTell(old, new, HeaderFields, fields, slots, short)
        BY <2>5, SlotsOfOne
      <4> QED BY <2>4, <2>5, <4>1 DEF SlotsTell
    <3>2. {SlotKey(name, x) : x \in {Spelled(s, short) : s \in Differs(old, new)}}
            = {SlotKey(name, Spelled(s, short)) : s \in Differs(old, new)}
      OBVIOUS
    <3>3. \A s \in Differs(old, new) : SlotKey(name, Spelled(s, short)) = <<a, s>>
      BY KeysInFull DEF name, Differs
    <3> QED BY <3>1, <3>2, <3>3
  <2>7. HeaderKey(name) = <<a, NoSlot>>
    BY KeysInFull DEF name
  <2>8. HeaderDiffers(old, new) => HeaderChanged(d, name)
    <3>1. CASE (old = Absent) # (new = Absent)
      BY <2>3, <3>1 DEF HeaderChanged
    <3>2. CASE old # Absent /\ new # Absent /\ old.fields # new.fields
      <4>1. old.fields \in [HeaderFields -> Values] /\ new.fields \in [HeaderFields -> Values]
        BY <3>2 DEF AccountStates
      <4>2. PICK f \in HeaderFields : old.fields[f] # new.fields[f]
        BY <3>2, <4>1
      <4>3. f \in fields
        BY <4>2 DEF fields
      <4>4. /\ Lookup(Listing(old, HeaderFields, slots, short).fields, f, NONE) = old.fields[f]
            /\ Lookup(Listing(new, fields, slots, short).fields, f, NONE) = new.fields[f]
        BY <3>2, <4>2, <4>3 DEF Lookup, Listing, Side
      <4> QED BY <2>4, <4>2, <4>4 DEF HeaderChanged
    <3> QED BY <3>1, <3>2 DEF HeaderDiffers
  <2>9. WriteKeys(d) = (IF HeaderChanged(d, name) THEN {<<a, NoSlot>>} ELSE {})
                         \cup {<<a, s>> : s \in Differs(old, new)}
    BY <2>3, <2>6, <2>7, WritesOfListed
  <2> QED BY <1>2, <2>8, <2>9 DEF ChangedKeys, d
<1> QED BY <1>1, <1>2

-----------------------------------------------------------------------------
(* The behaviour. *)

(* The traces are sequences, the world holds accounts, and the keys that   *)
(* the parser finds are those the history has: without its second part the *)
(* write set of a longer trace says nothing about the shorter one.         *)
TraceInv ==
  /\ world \in [Addresses -> AccountStates]
  /\ readTrace \in Seq(ToSet(readTrace)) /\ writeTrace \in Seq(ToSet(writeTrace))
  /\ ReadsAreTheTouched
  /\ WritesCoverTheChanges

(* It holds of a block without transactions. *)
LEMMA InitTraceInv == TraceInit => TraceInv
<1> SUFFICES ASSUME TraceInit PROVE TraceInv
  OBVIOUS
<1>1. /\ world \in [Addresses -> AccountStates]
      /\ readTrace = <<>> /\ writeTrace = <<>> /\ touched = {} /\ changed = {}
  BY WorldAssumption DEF TraceInit
<1>2. <<>> \in Seq({}) /\ ToSet(<<>>) = {}
  BY RecencyNew, EmptySeq
<1>3. ParseReadSet(<<>>) = {} /\ ParseWriteSet(<<>>) = {}
  BY <1>2 DEF ParseReadSet, ParseWriteSet
<1> QED BY <1>1, <1>2, <1>3 DEF TraceInv, ReadsAreTheTouched, WritesCoverTheChanges

(* A trace that grows by an entry stays a sequence, and gives the keys of  *)
(* the entry besides.                                                      *)
LEMMA TraceGrows ==
  ASSUME NEW t, t \in Seq(ToSet(t)), NEW e
  PROVE  /\ Append(t, e) \in Seq(ToSet(Append(t, e)))
         /\ ParseReadSet(Append(t, e)) = ParseReadSet(t) \cup ReadKeys(e)
         /\ ParseWriteSet(Append(t, e)) = ParseWriteSet(t) \cup WriteKeys(e)
<1>1. ToSet(Append(t, e)) = ToSet(t) \cup {e}
  BY ToSetAppend
<1>2. t \in Seq(ToSet(t) \cup {e})
  BY SeqMonotonic
<1>3. Append(t, e) \in Seq(ToSet(t) \cup {e})
  BY <1>2
<1> QED BY <1>1, <1>3 DEF ParseReadSet, ParseWriteSet

(* A transaction keeps it. *)
LEMMA TransactionKeeps ==
  ASSUME TraceInv, NEW a \in Addresses, NEW S \in SUBSET Slots, NEW new \in AccountStates,
         NEW brief \in BOOLEAN, NEW short \in BOOLEAN, Transaction(a, S, new, brief, short)
  PROVE  TraceInv'
<1> DEFINE old == world[a]
           r == [n \in {Spelled(a, short)} |-> [storage |-> {Spelled(s, short) : s \in S}]]
           d == DiffOf(a, old, new, S, brief, short)
<1>1. /\ world' = [world EXCEPT ![a] = new]
      /\ readTrace' = Append(readTrace, r) /\ writeTrace' = Append(writeTrace, d)
      /\ touched' = touched \cup {<<a, NoSlot>>} \cup {<<a, s>> : s \in S}
      /\ modified' = IF old = new THEN modified ELSE modified \cup {a}
  BY DEF Transaction
<1>2. Differs(old, new) \subseteq S /\ changed' = changed \cup ChangedKeys(a, old, new)
  BY DEF Transaction, Differs, ChangedKeys, HeaderDiffers
<1>3. old \in AccountStates /\ world' \in [Addresses -> AccountStates]
  BY <1>1 DEF TraceInv
<1>4. ReadKeys(r) = {<<a, NoSlot>>} \cup {<<a, s>> : s \in S}
  BY ReadsOfOne
<1>5. /\ ChangedKeys(a, old, new) \subseteq WriteKeys(d)
      /\ WriteKeys(d) \subseteq ChangedKeys(a, old, new)
                                  \cup (IF old = new THEN {} ELSE {<<a, NoSlot>>})
  BY <1>2, <1>3, WritesOfOne
<1> HIDE DEF old, r, d
<1>6. /\ readTrace' \in Seq(ToSet(readTrace'))
      /\ ParseReadSet(readTrace') = ParseReadSet(readTrace) \cup ReadKeys(r)
  BY <1>1, TraceGrows DEF TraceInv
<1>7. /\ writeTrace' \in Seq(ToSet(writeTrace'))
      /\ ParseWriteSet(writeTrace') = ParseWriteSet(writeTrace) \cup WriteKeys(d)
  BY <1>1, TraceGrows DEF TraceInv
<1>8. ReadsAreTheTouched'
  BY <1>1, <1>4, <1>6 DEF TraceInv, ReadsAreTheTouched
<1>9. WritesCoverTheChanges'
  <2>1. /\ changed \subseteq ParseWriteSet(writeTrace)
        /\ ParseWriteSet(writeTrace) \subseteq changed \cup {<<b, NoSlot>> : b \in modified}
    BY DEF TraceInv, WritesCoverTheChanges
  <2>2. changed' \subseteq ParseWriteSet(writeTrace')
    BY <1>2, <1>5, <1>7, <2>1
  <2>3. /\ {<<b, NoSlot>> : b \in modified} \subseteq {<<b, NoSlot>> : b \in modified'}
        /\ old # new => <<a, NoSlot>> \in {<<b, NoSlot>> : b \in modified'}
    BY <1>1
  <2>4. ParseWriteSet(writeTrace') \subseteq changed' \cup {<<b, NoSlot>> : b \in modified'}
    BY <1>2, <1>5, <1>7, <2>1, <2>3
  <2> QED BY <2>2, <2>4 DEF WritesCoverTheChanges
<1> QED BY <1>3, <1>6, <1>7, <1>8, <1>9 DEF TraceInv

(* The parsed keys always keep up with the block. *)
THEOREM TraceInvariant == TraceSpec => []TraceInv
<1>1. TraceInv /\ [TraceNext]_traceVars => TraceInv'
  <2> SUFFICES ASSUME TraceInv, [TraceNext]_traceVars PROVE TraceInv'
    OBVIOUS
  <2>1. CASE TraceNext
    BY <2>1, TransactionKeeps DEF TraceNext
  <2>2. CASE UNCHANGED traceVars
    BY <2>2 DEF traceVars, TraceInv, ReadsAreTheTouched, WritesCoverTheChanges
  <2> QED BY <2>1, <2>2
<1> QED BY <1>1, InitTraceInv, PTL DEF TraceSpec

(* The read set is exactly what was touched, for any accounts, slots,      *)
(* values and number of transactions (tracer.py 26-36, models.py 11-24).   *)
THEOREM ReadsAlwaysTheTouched == TraceSpec => []ReadsAreTheTouched
BY TraceInvariant, PTL DEF TraceInv

(* No change is missed, and only headers of modified accounts are in       *)
(* excess, whichever way the tracer shortens a diff (tracer.py 39-57).     *)
THEOREM WritesAlwaysCover == TraceSpec => []WritesCoverTheChanges
BY TraceInvariant, PTL DEF TraceInv
=============================================================================
