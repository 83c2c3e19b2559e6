------------------------- MODULE ReplacementPolicy -------------------------
(***************************************************************************)
(* One boxed policy, of any kind, under every sequence of accesses and     *)
(* removals.  WitnessCache removes keys (expiry, invalidation) that no     *)
(* textbook version of these policies ever loses, so the interplay of      *)
(* remove with the bookkeeping of LFU and ARC is what is at stake.         *)
(***************************************************************************)
EXTENDS Policy

CONSTANTS Keys,
          Capacity,   \* as asked of PolicyKind::build
          MaxUses     \* bound: accesses of one key while it is resident

ASSUME CapacityAssumption == Capacity \in Nat

c == BuildCapacity(Capacity)

VARIABLES kind, st,
          out,     \* the last call and its outcome
          recent,  \* history: the resident keys by last access, oldest first
          uses     \* history: accesses of each resident key since it entered

vars == <<kind, st, out, recent, uses>>

resident == PolicyResident(kind, st)

Init ==
  /\ kind \in PolicyKinds
  /\ st = PolicyNew(kind)
  /\ out = [op |-> "new"]
  /\ recent = <<>>
  /\ uses = [k \in Keys |-> 0]

Access(k) ==
  LET a == PolicyAccess(kind, st, c, k)
      stay == IF a.evicted = {} THEN recent
              ELSE RemoveFirst(recent, CHOOSE v \in a.evicted : TRUE)
  IN /\ uses[k] < MaxUses
     /\ st' = a.st
     /\ out' = [op |-> "access", key |-> k, hit |-> a.hit, evicted |-> a.evicted]
     /\ recent' = MoveToBack(stay, k)
     /\ uses' = [x \in Keys |-> IF x = k THEN uses[k] + 1
                                ELSE IF x \in a.evicted THEN 0 ELSE uses[x]]
     /\ UNCHANGED kind

RemoveKey(k) ==
  /\ st' = PolicyRemove(kind, st, k)
  /\ out' = [op |-> "remove", key |-> k, removed |-> k \in resident]
  /\ recent' = RemoveFirst(recent, k)
  /\ uses' = [uses EXCEPT ![k] = 0]
  /\ UNCHANGED kind

Next == \E k \in Keys : Access(k) \/ RemoveKey(k)

Spec == Init /\ [][Next]_vars

-----------------------------------------------------------------------------
(* The bookkeeping of each policy keeps its type. *)
TypeOK ==
  /\ kind \in PolicyKinds
  /\ kind = "lru" => st \in Seq(Keys)
  /\ kind = "lfu" => /\ DOMAIN st = {"freq", "buckets", "min"}
                     /\ DOMAIN st.freq \subseteq Keys
                     /\ \A k \in DOMAIN st.freq : st.freq[k] \in Nat \ {0}
                     /\ \A f \in DOMAIN st.buckets : st.buckets[f] \in Seq(Keys)
                     /\ st.min \in Nat
  /\ kind = "arc" => st \in [p : 0..c, t1 : Seq(Keys), t2 : Seq(Keys),
                             b1 : Seq(Keys), b2 : Seq(Keys)]

(* An LFU bucket holds, once each, exactly the resident keys of its count, *)
(* and no bucket is empty: a key left behind in an old bucket would be     *)
(* evicted later while it is in use (lfu.rs 23-30, 43-72).                 *)
LfuBucketsMatch ==
  kind = "lfu" =>
    /\ DOMAIN st.buckets = {st.freq[k] : k \in DOMAIN st.freq}
    /\ \A f \in DOMAIN st.buckets :
         /\ IsInjective(st.buckets[f])
         /\ ToSet(st.buckets[f]) = {k \in DOMAIN st.freq : st.freq[k] = f}

(* The hint never passes a bucket in use, so the climb of fix_min_freq     *)
(* ends, and ends at the lowest count (lfu.rs 32-39); removals empty       *)
(* buckets without touching the hint.                                      *)
LfuMinReachesBucket ==
  kind = "lfu" => \A f \in DOMAIN st.buckets : st.min <= f

(* ARC's four lists never share or repeat a key: every push_back it makes  *)
(* is of a key the list does not hold (ordered.rs 90), so that a key is    *)
(* resident or remembered, never both (arc.rs 34-99).                      *)
ArcListsDisjoint ==
  kind = "arc" =>
    \A f \in {"t1", "t2", "b1", "b2"} :
      /\ IsInjective(st[f])
      /\ \A g \in {"t1", "t2", "b1", "b2"} \ {f} : ToSet(st[f]) \cap ToSet(st[g]) = {}

(* ARC remembers at most as many keys as it may hold: the trimming loops   *)
(* bound the whole directory by twice the capacity even after removals     *)
(* (arc.rs 82-89).                                                         *)
ArcDirectoryBounded ==
  kind = "arc" => ArcLen(st) + Len(st.b1) + Len(st.b2) <= 2 * c

(* LRU and LFU stay within capacity; ARC is never more than one key over.  *)
OccupancyBounded ==
  PolicyLen(kind, st) <= IF kind = "arc" THEN c + 1 ELSE c

(* The promise of policy_arc.rs (capacity_never_exceeded) and of the       *)
(* debug_assert in cache.rs 172-176: no policy exceeds its capacity.       *)
CapacityNeverExceeded == PolicyLen(kind, st) <= c

(* The victim is the one the policy is named for, judged from the history  *)
(* alone: LRU takes the oldest resident key; LFU the oldest of the least   *)
(* used; ARC the oldest of the keys seen once or the oldest of the others  *)
(* (lru.rs 21-22, lfu.rs 56-66, arc.rs 34-45).                             *)
OldestOf(S) == {k \in S : \A i, j \in 1..Len(recent) :
                             recent[i] = k /\ recent[j] \in S => i <= j}
LeastUsed(S) == {k \in S : \A x \in S : uses[k] <= uses[x]}
JustifiedVictims ==
  CASE kind = "lru" -> OldestOf(resident)
    [] kind = "lfu" -> OldestOf(LeastUsed(resident))
    [] kind = "arc" -> OldestOf(ToSet(st.t1)) \cup OldestOf(ToSet(st.t2))
VictimIsJustified ==
  [][out' # out /\ out'.op = "access" => out'.evicted \subseteq JustifiedVictims]_vars

(* Every policy keeps the promises of the trait. *)
Trait == INSTANCE ResidentSet WITH Capacity <- c
ImplementsResidentSet == Trait!Spec
=============================================================================
