------------------------- MODULE WitnessCacheProofs -------------------------
(***************************************************************************)
(* What the witness cache keeps, for all keys, capacities, retentions,     *)
(* strata and bounds: a policy and its window never drift apart, nothing   *)
(* stays past its retention or its writing, a block's witness leaves out   *)
(* only what the client held when the block arrived, and a leaf of it is   *)
(* one key.                                                                *)
(***************************************************************************)
EXTENDS WitnessCache, CollectionProofs

-----------------------------------------------------------------------------
(* The derivation of leaves, for every geometry and every slot.            *)

(* A slot is put together again from its chunk and its last byte. *)
LEMMA SlotFromParts ==
  ASSUME NEW n \in Nat, NEW d \in Nat \ {0}
  PROVE  /\ n \div d \in Nat /\ n % d \in 0..d - 1
         /\ n = d * (n \div d) + (n % d)
  OBVIOUS

(* A slot that goes to the header stem is its own last byte. *)
LEMMA HeaderSlot ==
  ASSUME NEW n \in Nat, SlotBelowHeaderOffset(n)
  PROVE  n % NodeWidth = n /\ n < HeaderOffset
<1>1. n = NodeWidth * (n \div NodeWidth) + (n % NodeWidth) /\ n % NodeWidth \in 0..NodeWidth - 1
  BY SlotFromParts, GeometryAssumption
<1>2. n \div NodeWidth = 0 /\ n % NodeWidth < HeaderOffset
  BY DEF SlotBelowHeaderOffset
<1>3. NodeWidth * 0 = 0
  BY GeometryAssumption
<1> QED BY <1>1, <1>2, <1>3

(* The byte that a header slot is moved to does not wrap. *)
LEMMA HeaderSuffix ==
  ASSUME NEW n \in Nat, SlotBelowHeaderOffset(n)
  PROVE  (HeaderOffset + (n % NodeWidth)) % NodeWidth = HeaderOffset + n
<1>1. n % NodeWidth = n /\ n < HeaderOffset
  BY HeaderSlot
<1>2. HeaderOffset + n \in 0..NodeWidth - 1
  BY <1>1, GeometryAssumption
<1> QED BY <1>1, <1>2, GeometryAssumption

(* Two slots of one account, both in the header stem or both out of it,    *)
(* share a leaf only if they are one slot.                                 *)
LEMMA SlotsApart ==
  ASSUME NEW m \in Nat, NEW n \in Nat, NEW a, NEW b,
         KeyToLeaf([addr |-> a, slot |-> m]) = KeyToLeaf([addr |-> b, slot |-> n])
  PROVE  a = b /\ m = n
<1>0. m # NoSlot /\ n # NoSlot
  BY GeometryAssumption
<1>1. CASE SlotBelowHeaderOffset(m) /\ SlotBelowHeaderOffset(n)
  <2>1. /\ KeyToLeaf([addr |-> a, slot |-> m]) = <<HeaderStem(a), HeaderOffset + m>>
        /\ KeyToLeaf([addr |-> b, slot |-> n]) = <<HeaderStem(b), HeaderOffset + n>>
    BY <1>0, <1>1, HeaderSuffix DEF KeyToLeaf
  <2>2. a = b /\ HeaderOffset + m = HeaderOffset + n
    BY <2>1 DEF HeaderStem
  <2> QED BY <2>2, GeometryAssumption
<1>2. CASE ~SlotBelowHeaderOffset(m) /\ ~SlotBelowHeaderOffset(n)
  <2>1. /\ KeyToLeaf([addr |-> a, slot |-> m]) = <<StorageStem(a, m \div NodeWidth), m % NodeWidth>>
        /\ KeyToLeaf([addr |-> b, slot |-> n]) = <<StorageStem(b, n \div NodeWidth), n % NodeWidth>>
    BY <1>0, <1>2 DEF KeyToLeaf
  <2>2. a = b /\ m \div NodeWidth = n \div NodeWidth /\ m % NodeWidth = n % NodeWidth
    BY <2>1 DEF StorageStem
  <2>3. /\ m = NodeWidth * (m \div NodeWidth) + (m % NodeWidth)
        /\ n = NodeWidth * (n \div NodeWidth) + (n % NodeWidth)
    BY SlotFromParts, GeometryAssumption
  <2> QED BY <2>2, <2>3
<1>3. CASE SlotBelowHeaderOffset(m) /\ ~SlotBelowHeaderOffset(n)
  <2>1. /\ KeyToLeaf([addr |-> a, slot |-> m])[1].storage = FALSE
        /\ KeyToLeaf([addr |-> b, slot |-> n])[1].storage = TRUE
    BY <1>0, <1>3 DEF KeyToLeaf, HeaderStem, StorageStem
  <2> QED BY <2>1
<1>4. CASE ~SlotBelowHeaderOffset(m) /\ SlotBelowHeaderOffset(n)
  <2>1. /\ KeyToLeaf([addr |-> a, slot |-> m])[1].storage = TRUE
        /\ KeyToLeaf([addr |-> b, slot |-> n])[1].storage = FALSE
    BY <1>0, <1>4 DEF KeyToLeaf, HeaderStem, StorageStem
  <2> QED BY <2>1
<1> QED BY <1>1, <1>2, <1>3, <1>4

(* A slot does not share the leaf of an account header: the suffix 0 is    *)
(* below every slot of the header stem.                                    *)
LEMMA SlotOffHeader ==
  ASSUME NEW n \in Nat, NEW a, NEW b
  PROVE  KeyToLeaf([addr |-> a, slot |-> NoSlot]) # KeyToLeaf([addr |-> b, slot |-> n])
<1>0. n # NoSlot
  BY GeometryAssumption
<1>1. KeyToLeaf([addr |-> a, slot |-> NoSlot]) = <<HeaderStem(a), 0>>
  BY DEF KeyToLeaf
<1>2. CASE SlotBelowHeaderOffset(n)
  <2>1. KeyToLeaf([addr |-> b, slot |-> n]) = <<HeaderStem(b), HeaderOffset + n>>
    BY <1>0, <1>2, HeaderSuffix DEF KeyToLeaf
  <2>2. HeaderOffset + n # 0
    BY GeometryAssumption
  <2> QED BY <1>1, <2>1, <2>2
<1>3. CASE ~SlotBelowHeaderOffset(n)
  <2>1. /\ KeyToLeaf([addr |-> a, slot |-> NoSlot])[1].storage = FALSE
        /\ KeyToLeaf([addr |-> b, slot |-> n])[1].storage = TRUE
    BY <1>0, <1>1, <1>3 DEF KeyToLeaf, HeaderStem, StorageStem
  <2> QED BY <2>1
<1> QED BY <1>2, <1>3

(* Keys that share a leaf are one key: a leaf of the witness is one entry  *)
(* of the state (witness.rs 48-63).                                        *)
THEOREM LeafDeterminesKey ==
  ASSUME NEW j \in StateKeys, NEW k \in StateKeys, KeyToLeaf(j) = KeyToLeaf(k)
  PROVE  j = k
<1>1. /\ j = [addr |-> j.addr, slot |-> j.slot]
      /\ k = [addr |-> k.addr, slot |-> k.slot]
  BY DEF StateKeys
<1>2. j.slot \in Nat \cup {NoSlot} /\ k.slot \in Nat \cup {NoSlot}
  BY DEF StateKeys
<1>3. CASE j.slot \in Nat /\ k.slot \in Nat
  <2>1. j.addr = k.addr /\ j.slot = k.slot
    BY <1>1, <1>3, SlotsApart
  <2> QED BY <1>1, <2>1
<1>4. CASE j.slot = NoSlot /\ k.slot = NoSlot
  <2>1. KeyToLeaf(j)[1].addr = j.addr /\ KeyToLeaf(k)[1].addr = k.addr
    BY <1>4 DEF KeyToLeaf, HeaderStem
  <2>2. j.addr = k.addr
    BY <2>1
  <2> QED BY <1>1, <1>4, <2>2
<1>5. CASE j.slot = NoSlot /\ k.slot \in Nat
  BY <1>1, <1>5, SlotOffHeader
<1>6. CASE j.slot \in Nat /\ k.slot = NoSlot
  BY <1>1, <1>6, SlotOffHeader
<1> QED BY <1>2, <1>3, <1>4, <1>5, <1>6

-----------------------------------------------------------------------------
(* The caches. *)

(* A window in order: its stamps are of the keys it lists, none is of a    *)
(* block to come, and they do not descend along the list.                  *)
Stamped(w, at) ==
  /\ DOMAIN w.seen = ToSet(w.order)
  /\ \A k \in ToSet(w.order) : w.seen[k] \in 0..at
Ascending(w) ==
  \A i, j \in 1..Len(w.order) : i <= j => w.seen[w.order[i]] <= w.seen[w.order[j]]
WindowInv(w, at, K) ==
  w.order \in Recency(K) /\ Stamped(w, at) /\ Ascending(w)

(* A window stays in order when a key is removed from it. *)
LEMMA WindowRemoveInv ==
  ASSUME NEW K, NEW at \in Nat, NEW w, WindowInv(w, at, K), NEW k
  PROVE  /\ WindowInv(WindowRemove(w, k), at, K)
         /\ ToSet(WindowRemove(w, k).order) = ToSet(w.order) \ {k}
<1> DEFINE v == WindowRemove(w, k)
<1>1. /\ v.order = RemoveFirst(w.order, k)
      /\ v.seen = [x \in ToSet(w.order) \ {k} |-> w.seen[x]]
  BY DEF WindowRemove, WindowInv, Stamped
<1> HIDE DEF v
<1>2. /\ v.order \in Recency(K)
      /\ ToSet(v.order) = ToSet(w.order) \ {k}
  BY <1>1, RecencyRemove DEF WindowInv
<1>3. Stamped(v, at)
  <2>1. \A x \in ToSet(w.order) : w.seen[x] \in 0..at
    BY DEF WindowInv, Stamped
  <2>2. DOMAIN v.seen = ToSet(v.order)
    BY <1>1, <1>2
  <2>3. \A x \in ToSet(v.order) : v.seen[x] = w.seen[x]
    BY <1>1, <1>2
  <2> QED BY <1>2, <2>1, <2>2, <2>3 DEF Stamped
<1>4. Ascending(v)
  <2> SUFFICES ASSUME NEW i \in 1..Len(v.order), NEW j \in 1..Len(v.order), i <= j
               PROVE  v.seen[v.order[i]] <= v.seen[v.order[j]]
    BY DEF Ascending
  <2>1. PICK a, b \in 1..Len(w.order) :
          a <= b /\ v.order[i] = w.order[a] /\ v.order[j] = w.order[b]
    <3>1. w.order \in Recency(K)
      BY DEF WindowInv
    <3>2. InOrderOf(v.order, w.order)
      BY <1>1, <3>1, RemoveKeepsOrder
    <3> QED BY <3>2 DEF InOrderOf
  <2>2. v.order[i] \in ToSet(v.order) /\ v.order[j] \in ToSet(v.order)
    BY <1>2 DEF ToSet, Recency
  <2>3. w.seen[w.order[a]] <= w.seen[w.order[b]]
    BY <2>1 DEF WindowInv, Ascending
  <2> QED BY <1>1, <1>2, <2>1, <2>2, <2>3
<1> QED BY <1>2, <1>3, <1>4 DEF v, WindowInv

(* What touching key k makes of window w. *)
Touched(v, w, k, at, K) ==
  /\ WindowInv(v, at, K)
  /\ ToSet(v.order) = ToSet(w.order) \cup {k}
  /\ \A x \in ToSet(w.order) \cup {k} : v.seen[x] = IF x = k THEN at ELSE w.seen[x]

(* A window stays in order when the latest block touches one of its keys   *)
(* or a new one.                                                           *)
LEMMA WindowTouchInv ==
  ASSUME NEW K, NEW at \in Nat, NEW w, WindowInv(w, at, K), NEW k \in K
  PROVE  Touched(WindowTouch(w, k, at), w, k, at, K)
<1> DEFINE r == RemoveFirst(w.order, k)
           v == WindowTouch(w, k, at)
<1>1. /\ v.order = Append(r, k)
      /\ v.seen = [x \in ToSet(w.order) \cup {k} |-> IF x = k THEN at ELSE w.seen[x]]
  BY DEF WindowTouch, WindowInv, Stamped
<1>2. r \in Recency(K) /\ ToSet(r) = ToSet(w.order) \ {k}
  BY RecencyRemove DEF WindowInv
<1>3. ASSUME NEW i \in 1..Len(r), NEW j \in 1..Len(r), i <= j
      PROVE  w.seen[r[i]] <= w.seen[r[j]]
  <2>1. PICK a, b \in 1..Len(w.order) :
          a <= b /\ r[i] = w.order[a] /\ r[j] = w.order[b]
    <3>1. w.order \in Recency(K)
      BY DEF WindowInv
    <3>2. InOrderOf(r, w.order)
      BY <3>1, RemoveKeepsOrder
    <3> QED BY <1>3, <3>2 DEF InOrderOf
  <2> QED BY <2>1 DEF WindowInv, Ascending
<1> HIDE DEF r, v
<1>4. /\ v.order \in Recency(K)
      /\ ToSet(v.order) = ToSet(w.order) \cup {k}
  BY <1>1, <1>2, RecencyAppend
<1>5. Stamped(v, at)
  <2>1. \A x \in ToSet(w.order) : w.seen[x] \in 0..at
    BY DEF WindowInv, Stamped
  <2>2. DOMAIN v.seen = ToSet(v.order)
    BY <1>1, <1>4
  <2>3. \A x \in ToSet(v.order) : v.seen[x] = IF x = k THEN at ELSE w.seen[x]
    BY <1>1, <1>4
  <2>4. at \in 0..at
    OBVIOUS
  <2> QED BY <1>4, <2>1, <2>2, <2>3, <2>4 DEF Stamped
<1>6. Ascending(v)
  <2> SUFFICES ASSUME NEW i \in 1..Len(v.order), NEW j \in 1..Len(v.order), i <= j
               PROVE  v.seen[v.order[i]] <= v.seen[v.order[j]]
    BY DEF Ascending
  <2>0. r \in Seq(K) /\ Len(r) \in Nat /\ DOMAIN r = 1..Len(r)
    BY <1>2 DEF Recency
  <2>1. /\ Len(v.order) = Len(r) + 1
        /\ \A m \in 1..Len(r) : v.order[m] = r[m]
        /\ v.order[Len(r) + 1] = k
    BY <1>1, <2>0, AppendProperties
  <2>2. \A m \in 1..Len(r) :
          r[m] \in ToSet(w.order) /\ r[m] # k /\ v.seen[r[m]] = w.seen[r[m]]
    <3> TAKE m \in 1..Len(r)
    <3>1. r[m] \in ToSet(r)
      BY <2>0 DEF ToSet
    <3>2. r[m] \in ToSet(w.order) /\ r[m] # k
      BY <1>2, <3>1
    <3> QED BY <1>1, <3>2
  <2>3. v.seen[k] = at /\ at <= at
    BY <1>1
  <2>4. CASE j = Len(r) + 1
    <3>1. v.seen[v.order[j]] = at
      BY <2>1, <2>3, <2>4
    <3>2. v.order[i] \in ToSet(v.order)
      BY <1>4 DEF ToSet, Recency
    <3>3. v.seen[v.order[i]] \in 0..at
      BY <1>4, <1>5, <3>2 DEF Stamped
    <3> QED BY <3>1, <3>3
  <2>5. CASE j # Len(r) + 1
    <3>1. i \in 1..Len(r) /\ j \in 1..Len(r)
      BY <2>0, <2>1, <2>5
    <3> QED BY <1>3, <2>1, <2>2, <3>1
  <2> QED BY <2>4, <2>5
<1>7. \A x \in ToSet(w.order) \cup {k} : v.seen[x] = IF x = k THEN at ELSE w.seen[x]
  BY <1>1
<1> HIDE DEF v
<1>8. WindowInv(v, at, K)
  BY <1>4, <1>5, <1>6 DEF WindowInv
<1>9. Touched(v, w, k, at, K)
  BY <1>4, <1>7, <1>8 DEF Touched
<1> QED BY <1>9 DEF v

(* It stays in order as the block number rises. *)
LEMMA WindowLater ==
  ASSUME NEW K, NEW at \in Nat, NEW then \in Nat, at <= then, NEW w, WindowInv(w, at, K)
  PROVE  WindowInv(w, then, K)
<1>1. \A n \in 0..at : n \in 0..then
  OBVIOUS
<1> QED BY <1>1 DEF WindowInv, Stamped

(* When the front is not expired nothing is. *)
LEMMA FrontSpeaksForAll ==
  ASSUME NEW K, NEW at \in Nat, NEW n \in Nat, NEW w, WindowInv(w, at, K),
         ~FrontExpired(w, n, at)
  PROVE  \A k \in DOMAIN w.seen : w.seen[k] + n > at
<1> SUFFICES ASSUME NEW k \in ToSet(w.order) PROVE w.seen[k] + n > at
  BY DEF WindowInv, Stamped
<1>1. w.order \in Seq(K) /\ Len(w.order) \in Nat /\ DOMAIN w.order = 1..Len(w.order)
  BY DEF WindowInv, Recency
<1>2. PICK i \in 1..Len(w.order) : w.order[i] = k
  BY <1>1 DEF ToSet
<1>3. w.order # <<>> /\ 1 \in 1..Len(w.order) /\ 1 <= i /\ Head(w.order) = w.order[1]
  BY <1>1, <1>2
<1>4. w.seen[w.order[1]] <= w.seen[k]
  BY <1>2, <1>3 DEF WindowInv, Ascending
<1>5. w.order[1] \in ToSet(w.order)
  BY <1>1, <1>3 DEF ToSet
<1>6. w.seen[w.order[1]] \in Nat /\ w.seen[k] \in Nat
  BY <1>5 DEF WindowInv, Stamped
<1>7. ~(w.seen[w.order[1]] + n <= at)
  BY <1>3 DEF FrontExpired
<1> QED BY <1>4, <1>6, <1>7

-----------------------------------------------------------------------------
(* The inductive invariant. *)

(* A cache in order: its policy is, its window is, and they know the same  *)
(* keys.                                                                   *)
CacheInv(pk, at, cache, c, K) ==
  /\ PolicyInv(pk, cache.policy, c, K)
  /\ WindowInv(cache.window, at, K)
  /\ ToSet(cache.window.order) = PolicyResident(pk, cache.policy)

Unexpired(at, cache) ==
  \A k \in DOMAIN cache.window.seen : cache.window.seen[k] + Retention > at

CachesInv ==
  /\ CacheInv(kind, now, leaf, LeafRoom, Keys)
  /\ CacheInv(kind, now, stem, StemRoom, Stems)
  /\ pc # "drain" => Unexpired(now, leaf) /\ Unexpired(now, stem)

(* The block under way and what process_block keeps of it. *)
ReadStems == {StemOf(r) : r \in rec.reads}
BlockInv ==
  /\ kind \in PolicyKinds
  /\ pc \in {"idle", "drain", "writes", "reads", "stems"}
  /\ now \in 0..LastBlock /\ (pc # "idle" => now # 0)
  /\ rec \in [reads : SUBSET Keys, writes : SUBSET Keys] /\ IsFiniteSet(rec.reads)
  /\ pc \in {"idle", "drain", "writes"} => rec.reads = {}
  /\ todo \subseteq rec.writes /\ (pc # "writes" => todo = {})
  /\ writtenResident \subseteq Keys
  /\ blockStems \in Recency(Stems) /\ ToSet(blockStems) \subseteq ReadStems
  /\ arrival \in [leaves : SUBSET Keys, stems : SUBSET Stems]
  /\ stale \in [leaves : SUBSET Keys, stems : SUBSET Stems]

(* The accumulator holds the leaves of the block and, once the stems are   *)
(* read, those that are no longer waiting.                                 *)
AccumInv ==
  /\ acc = [leaves |-> acc.leaves, stems |-> acc.stems]
  /\ DOMAIN acc.leaves \subseteq {KeyToLeaf(k) : k \in rec.reads \cup rec.writes}
  /\ DOMAIN acc.stems \subseteq ReadStems \ ToSet(blockStems)
  /\ pc # "stems" => DOMAIN acc.stems = {}
  /\ pc \in {"idle", "drain"} => DOMAIN acc.leaves = {}

(* What is resident while a block is processed was so on arrival or has    *)
(* been read since, and what the block has written is no longer.           *)
ProvenanceInv ==
  pc \in {"writes", "reads", "stems"} =>
    /\ writtenResident \subseteq arrival.leaves
    /\ LeafResident \subseteq arrival.leaves \cup rec.reads
    /\ StemResident \subseteq arrival.stems \cup DOMAIN acc.stems
    /\ \A w \in rec.writes \ todo :
         StemOf(w) \in StemResident => StemOf(w) \in DOMAIN acc.stems

IInv ==
  /\ CachesInv /\ BlockInv /\ AccumInv /\ ProvenanceInv
  /\ WrittenIsForgotten
  /\ WarmOnlyIfHeldOnArrival

(* The counters of the block and of the sinks. *)
MetricsType ==
  [reads : Nat, hits : Nat, misses : Nat, invalidations : Nat,
   survived : Nat, stemSurvived : Nat, contracts : [Addresses -> Nat]]
CountsInv ==
  /\ metrics \in [Sinks -> MetricsType]
  /\ tally \in [hits : Nat, misses : Nat, invalidations : Nat]
  /\ tally.hits + tally.misses = Cardinality(rec.reads)

-----------------------------------------------------------------------------
(* What the steps of a cache do to it. *)

(* build asks for room for at least one entry. *)
LEMMA RoomForOne == LeafRoom \in Nat \ {0} /\ StemRoom \in Nat \ {0}
BY CacheAssumption DEF LeafRoom, StemRoom, BuildCapacity, AtLeastOne

(* A new cache is in order and empty. *)
LEMMA CacheNewInv ==
  ASSUME NEW K, NEW c \in Nat \ {0}, NEW at \in Nat, kind \in PolicyKinds
  PROVE  /\ CacheInv(kind, at, CacheNew, c, K)
         /\ PolicyResident(kind, CacheNew.policy) = {}
         /\ DOMAIN CacheNew.window.seen = {}
<1>1. CacheNew.policy = PolicyNew(kind) /\ CacheNew.window = WindowNew
  BY DEF CacheNew
<1>2. /\ PolicyInv(kind, PolicyNew(kind), c, K)
      /\ PolicyResident(kind, PolicyNew(kind)) = {}
  BY PolicyNewInv
<1>3. WindowNew.order = <<>> /\ DOMAIN WindowNew.seen = {}
  BY DEF WindowNew
<1>4. <<>> \in Recency(K) /\ ToSet(<<>>) = {} /\ Len(<<>>) = 0
  BY RecencyNew
<1>5. WindowInv(WindowNew, at, K)
  BY <1>3, <1>4 DEF WindowInv, Stamped, Ascending
<1> QED BY <1>1, <1>2, <1>3, <1>4, <1>5 DEF CacheInv

(* The effect on a cache in order of losing a key it may hold: policy and  *)
(* window both forget it, and nothing else changes.                        *)
LosesKey(new, cache, c, K, k) ==
  /\ CacheInv(kind, now, new, c, K)
  /\ PolicyResident(kind, new.policy) = PolicyResident(kind, cache.policy) \ {k}
  /\ \A x \in DOMAIN new.window.seen :
       x \in DOMAIN cache.window.seen /\ new.window.seen[x] = cache.window.seen[x]

(* The effect of taking a key in: it is stamped with the block, and policy *)
(* and window lose the same victim, if any.                                *)
TakesKey(o, cache, c, K, k) ==
  /\ CacheInv(kind, now, o.cache, c, K)
  /\ o.hit = (k \in PolicyResident(kind, cache.policy))
  /\ PolicyResident(kind, o.cache.policy)
       = (PolicyResident(kind, cache.policy) \ o.evicted) \cup {k}
  /\ \/ o.evicted = {}
     \/ /\ k \notin PolicyResident(kind, cache.policy)
        /\ \E v \in PolicyResident(kind, cache.policy) : o.evicted = {v}
  /\ \A x \in DOMAIN o.cache.window.seen :
       \/ x = k /\ o.cache.window.seen[x] = now
       \/ /\ x \in DOMAIN cache.window.seen
          /\ o.cache.window.seen[x] = cache.window.seen[x]

(* An eviction takes its key out of the policy and the window. *)
LEMMA EvictLoses ==
  ASSUME NEW K, NEW c \in Nat \ {0}, NEW cache, kind \in PolicyKinds, now \in Nat,
         CacheInv(kind, now, cache, c, K), NEW k
  PROVE  LosesKey(Evict(cache, k), cache, c, K, k)
<1> DEFINE new == Evict(cache, k)
<1>1. /\ new.policy = PolicyRemove(kind, cache.policy, k)
      /\ new.window = WindowRemove(cache.window, k)
  BY DEF Evict
<1> HIDE DEF new
<1>2. /\ PolicyInv(kind, new.policy, c, K)
      /\ PolicyResident(kind, new.policy) = PolicyResident(kind, cache.policy) \ {k}
  <2>1. PolicyInv(kind, cache.policy, c, K)
    BY DEF CacheInv
  <2>2. /\ PolicyInv(kind, PolicyRemove(kind, cache.policy, k), c, K)
        /\ PolicyResident(kind, PolicyRemove(kind, cache.policy, k))
             = PolicyResident(kind, cache.policy) \ {k}
    BY <2>1, PolicyRemoveEffect
  <2> QED BY <1>1, <2>2
<1>3. /\ WindowInv(new.window, now, K)
      /\ ToSet(new.window.order) = ToSet(cache.window.order) \ {k}
  BY <1>1, WindowRemoveInv DEF CacheInv
<1>4. new.window.seen = [x \in DOMAIN cache.window.seen \ {k} |-> cache.window.seen[x]]
  BY <1>1 DEF WindowRemove
<1>5. CacheInv(kind, now, new, c, K)
  BY <1>2, <1>3 DEF CacheInv
<1> QED BY <1>2, <1>4, <1>5 DEF new, LosesKey

(* A write takes its key out of the cache, and out of what the policy      *)
(* remembers: a window that does not know the key has no entry to lose.    *)
LEMMA InvalidateLoses ==
  ASSUME NEW K, NEW c \in Nat \ {0}, NEW cache, kind \in PolicyKinds, now \in Nat,
         CacheInv(kind, now, cache, c, K), NEW k
  PROVE  LosesKey(Invalidate(cache, k), cache, c, K, k)
<1>1. CASE k \in PolicyResident(kind, cache.policy)
  <2>1. Invalidate(cache, k) = Evict(cache, k)
    BY <1>1 DEF Invalidate, Evict
  <2> QED BY <2>1, EvictLoses
<1>2. CASE k \notin PolicyResident(kind, cache.policy)
  <2> DEFINE new == Invalidate(cache, k)
  <2>1. new.policy = PolicyRemove(kind, cache.policy, k) /\ new.window = cache.window
    BY <1>2 DEF Invalidate
  <2> HIDE DEF new
  <2>2. PolicyInv(kind, cache.policy, c, K)
    BY DEF CacheInv
  <2>3. /\ PolicyInv(kind, new.policy, c, K)
        /\ PolicyResident(kind, new.policy) = PolicyResident(kind, cache.policy) \ {k}
    BY <2>1, <2>2, PolicyRemoveEffect
  <2>4. PolicyResident(kind, new.policy) = PolicyResident(kind, cache.policy)
    BY <1>2, <2>3
  <2>5. CacheInv(kind, now, new, c, K)
    BY <2>1, <2>3, <2>4 DEF CacheInv
  <2> QED BY <2>1, <2>3, <2>5 DEF new, LosesKey
<1> QED BY <1>1, <1>2

(* A read takes its key in, at the cost of one other key at most. *)
LEMMA EnterTakes ==
  ASSUME NEW K, NEW c \in Nat \ {0}, NEW cache, kind \in PolicyKinds, now \in Nat,
         CacheInv(kind, now, cache, c, K), NEW k \in K
  PROVE  TakesKey(Enter(cache, c, k), cache, c, K, k)
<1> DEFINE o == Enter(cache, c, k)
           new == o.cache
           before == PolicyResident(kind, cache.policy)
           p == PolicyAccess(kind, cache.policy, c, k)
           kept == IF p.evicted = {} THEN cache.window
                   ELSE WindowRemove(cache.window, CHOOSE v \in p.evicted : TRUE)
<1>1. /\ o.hit = p.hit /\ o.evicted = p.evicted
      /\ new.policy = p.st /\ new.window = WindowTouch(kept, k, now)
  BY DEF Enter
<1>2. /\ PolicyInv(kind, p.st, c, K)
      /\ AccessEffect(p, before, PolicyResident(kind, p.st),
                      PolicyLen(kind, cache.policy) >= c, k)
  BY PolicyAccessEffect DEF CacheInv
<1> HIDE DEF o, new, p
<1>3. WindowInv(cache.window, now, K) /\ ToSet(cache.window.order) = before
  BY DEF CacheInv
<1>4. /\ WindowInv(kept, now, K)
      /\ ToSet(kept.order) = before \ p.evicted
      /\ \A x \in ToSet(kept.order) : kept.seen[x] = cache.window.seen[x]
  <2>1. CASE p.evicted = {}
    BY <1>3, <2>1
  <2>2. CASE p.evicted # {}
    <3>1. PICK v \in before : p.evicted = {v}
      BY <1>2, <2>2 DEF AccessEffect
    <3>2. (CHOOSE u \in p.evicted : TRUE) = v
      BY <3>1
    <3>3. kept = WindowRemove(cache.window, v)
      BY <2>2, <3>2
    <3> HIDE DEF kept
    <3>4. WindowInv(kept, now, K) /\ ToSet(kept.order) = before \ {v}
      BY <1>3, <3>3, WindowRemoveInv
    <3>5. kept.seen = [x \in DOMAIN cache.window.seen \ {v} |-> cache.window.seen[x]]
      BY <3>3 DEF WindowRemove
    <3>6. DOMAIN cache.window.seen = before
      BY <1>3 DEF WindowInv, Stamped
    <3> QED BY <3>1, <3>4, <3>5, <3>6
  <2> QED BY <2>1, <2>2
<1> HIDE DEF kept
<1>5. /\ WindowInv(new.window, now, K)
      /\ ToSet(new.window.order) = ToSet(kept.order) \cup {k}
      /\ \A x \in ToSet(kept.order) \cup {k} :
           new.window.seen[x] = IF x = k THEN now ELSE kept.seen[x]
  <2>1. WindowInv(kept, now, K)
    BY <1>4
  <2>2. Touched(WindowTouch(kept, k, now), kept, k, now, K)
    BY <2>1, WindowTouchInv
  <2> QED BY <1>1, <2>2 DEF Touched
<1>6. PolicyResident(kind, new.policy) = (before \ o.evicted) \cup {k}
  BY <1>1, <1>2 DEF AccessEffect
<1>7. CacheInv(kind, now, new, c, K)
  BY <1>1, <1>2, <1>4, <1>5, <1>6 DEF CacheInv
<1>8. ASSUME NEW x \in DOMAIN new.window.seen
      PROVE  \/ x = k /\ new.window.seen[x] = now
             \/ x \in DOMAIN cache.window.seen
                /\ new.window.seen[x] = cache.window.seen[x]
  <2>1. x \in ToSet(kept.order) \cup {k}
    BY <1>5 DEF WindowInv, Stamped
  <2>2. DOMAIN cache.window.seen = before
    BY <1>3 DEF WindowInv, Stamped
  <2> QED BY <1>4, <1>5, <2>1, <2>2
<1>9. o.evicted = {} \/ (k \notin before /\ \E v \in before : o.evicted = {v})
  BY <1>1, <1>2 DEF AccessEffect
<1>10. o.hit = (k \in before)
  BY <1>1, <1>2 DEF AccessEffect
<1> QED BY <1>6, <1>7, <1>8, <1>9, <1>10 DEF o, new, before, TakesKey

-----------------------------------------------------------------------------
(* Every step keeps the invariant, conjunct by conjunct. *)

(* What the invariant says of the numbers and the caches before a step. *)
LEMMA BeforeStep ==
  ASSUME CachesInv, BlockInv
  PROVE  /\ kind \in PolicyKinds /\ now \in Nat /\ Retention \in Nat \ {0}
         /\ CacheInv(kind, now, leaf, LeafRoom, Keys)
         /\ CacheInv(kind, now, stem, StemRoom, Stems)
BY CacheAssumption DEF CachesInv, BlockInv

(* A cache stays in order when the next block arrives. *)
LEMMA CacheLater ==
  ASSUME NEW K, NEW c, NEW cache, NEW at \in Nat, NEW then \in Nat, at <= then,
         CacheInv(kind, at, cache, c, K)
  PROVE  CacheInv(kind, then, cache, c, K)
BY WindowLater DEF CacheInv

(* Every step leaves both caches in order, and rid of what expired once    *)
(* the drain is over.                                                      *)
LEMMA CachesStep == CachesInv /\ BlockInv /\ [Next]_vars => CachesInv'
<1> SUFFICES ASSUME CachesInv, BlockInv, [Next]_vars PROVE CachesInv'
  OBVIOUS
<1>0. /\ kind \in PolicyKinds /\ now \in Nat /\ Retention \in Nat \ {0}
      /\ CacheInv(kind, now, leaf, LeafRoom, Keys)
      /\ CacheInv(kind, now, stem, StemRoom, Stems)
  BY BeforeStep
<1>1. CASE Arrive
  <2>1. PICK n \in now + 1..now + MaxGap : now' = n
    BY <1>1 DEF Arrive
  <2>2. n \in Nat /\ now <= n
    BY <1>0, <2>1, CacheAssumption
  <2>3. /\ CacheInv(kind, n, leaf, LeafRoom, Keys)
        /\ CacheInv(kind, n, stem, StemRoom, Stems)
    BY <1>0, <2>2, CacheLater
  <2>4. pc' = "drain" /\ kind' = kind /\ leaf' = leaf /\ stem' = stem
    BY <1>1 DEF Arrive
  <2> QED BY <2>1, <2>3, <2>4 DEF CachesInv
<1>2. CASE DrainLeaf
  <2>1. /\ leaf' = Evict(leaf, Head(leaf.window.order)) /\ stem' = stem
        /\ pc' = "drain" /\ now' = now /\ kind' = kind
    BY <1>2 DEF DrainLeaf
  <2>2. LosesKey(leaf', leaf, LeafRoom, Keys, Head(leaf.window.order))
    BY <1>0, <2>1, RoomForOne, EvictLoses
  <2> QED BY <1>0, <2>1, <2>2 DEF CachesInv, LosesKey
<1>3. CASE DrainStem
  <2>1. /\ stem' = Evict(stem, Head(stem.window.order)) /\ leaf' = leaf
        /\ pc' = "drain" /\ now' = now /\ kind' = kind
    BY <1>3 DEF DrainStem
  <2>2. LosesKey(stem', stem, StemRoom, Stems, Head(stem.window.order))
    BY <1>0, <2>1, RoomForOne, EvictLoses
  <2> QED BY <1>0, <2>1, <2>2 DEF CachesInv, LosesKey
<1>4. CASE BeginWrites
  <2>1. /\ ~FrontExpired(leaf.window, Retention, now)
        /\ ~FrontExpired(stem.window, Retention, now)
        /\ leaf' = leaf /\ stem' = stem /\ now' = now /\ kind' = kind
    BY <1>4 DEF BeginWrites
  <2>2. WindowInv(leaf.window, now, Keys) /\ WindowInv(stem.window, now, Stems)
    BY <1>0 DEF CacheInv
  <2>3. Unexpired(now, leaf) /\ Unexpired(now, stem)
    BY <1>0, <2>1, <2>2, FrontSpeaksForAll DEF Unexpired
  <2> QED BY <1>0, <2>1, <2>3 DEF CachesInv
<1>5. ASSUME NEW w \in Keys, Write(w) PROVE CachesInv'
  <2>1. /\ leaf' = Invalidate(leaf, w) /\ stem' = Invalidate(stem, StemOf(w))
        /\ pc = "writes" /\ now' = now /\ kind' = kind
    BY <1>5 DEF Write
  <2>2. /\ LosesKey(leaf', leaf, LeafRoom, Keys, w)
        /\ LosesKey(stem', stem, StemRoom, Stems, StemOf(w))
    BY <1>0, <2>1, RoomForOne, InvalidateLoses
  <2>3. Unexpired(now, leaf) /\ Unexpired(now, stem)
    BY <2>1 DEF CachesInv
  <2>4. Unexpired(now, leaf') /\ Unexpired(now, stem')
    BY <2>2, <2>3 DEF Unexpired, LosesKey
  <2> QED BY <2>1, <2>2, <2>4 DEF CachesInv, LosesKey
<1>6. ASSUME NEW r \in Keys, Read(r) PROVE CachesInv'
  <2> DEFINE o == Enter(leaf, LeafRoom, r)
  <2>1. /\ leaf' = o.cache /\ stem' = stem
        /\ pc = "reads" /\ now' = now /\ kind' = kind
    BY <1>6 DEF Read
  <2>2. TakesKey(o, leaf, LeafRoom, Keys, r)
    BY <1>0, RoomForOne, EnterTakes
  <2>3. Unexpired(now, leaf) /\ Unexpired(now, stem)
    BY <2>1 DEF CachesInv
  <2> HIDE DEF o
  <2>4. Unexpired(now, o.cache)
    BY <1>0, <2>2, <2>3 DEF Unexpired, TakesKey
  <2> QED BY <1>0, <2>1, <2>2, <2>3, <2>4 DEF CachesInv, TakesKey
<1>7. CASE ReadStem
  <2> DEFINE id == Head(blockStems)
             o == Enter(stem, StemRoom, id)
  <2>1. /\ stem' = o.cache /\ leaf' = leaf /\ blockStems # <<>>
        /\ pc = "stems" /\ now' = now /\ kind' = kind
    BY <1>7 DEF ReadStem
  <2>2. id \in Stems
    BY <2>1, RecencyPop DEF BlockInv
  <2> HIDE DEF id
  <2>3. TakesKey(o, stem, StemRoom, Stems, id)
    BY <1>0, <2>2, RoomForOne, EnterTakes
  <2>4. Unexpired(now, leaf) /\ Unexpired(now, stem)
    BY <2>1 DEF CachesInv
  <2> HIDE DEF o
  <2>5. Unexpired(now, o.cache)
    BY <1>0, <2>3, <2>4 DEF Unexpired, TakesKey
  <2> QED BY <1>0, <2>1, <2>3, <2>4, <2>5 DEF CachesInv, TakesKey
<1>8. CASE BeginReads \/ BeginStems \/ EndBlock \/ UNCHANGED vars
  <2>1. /\ leaf' = leaf /\ stem' = stem /\ now' = now /\ kind' = kind
        /\ pc' # "drain" => pc # "drain"
    BY <1>8 DEF BeginReads, BeginStems, EndBlock, vars
  <2> QED BY <2>1 DEF CachesInv
<1> QED BY <1>1, <1>2, <1>3, <1>4, <1>5, <1>6, <1>7, <1>8 DEF Next

-----------------------------------------------------------------------------
(* What a write leaves resident. *)
LEMMA WriteResidency ==
  ASSUME CachesInv, BlockInv, NEW w \in Keys, Write(w)
  PROVE  /\ LeafResident' = LeafResident \ {w}
         /\ StemResident' = StemResident \ {StemOf(w)}
<1>0. /\ kind \in PolicyKinds /\ now \in Nat
      /\ CacheInv(kind, now, leaf, LeafRoom, Keys)
      /\ CacheInv(kind, now, stem, StemRoom, Stems)
      /\ LeafRoom \in Nat \ {0} /\ StemRoom \in Nat \ {0}
  BY BeforeStep, RoomForOne
<1>1. /\ leaf' = Invalidate(leaf, w) /\ stem' = Invalidate(stem, StemOf(w)) /\ kind' = kind
  BY DEF Write
<1>2. /\ LosesKey(leaf', leaf, LeafRoom, Keys, w)
      /\ LosesKey(stem', stem, StemRoom, Stems, StemOf(w))
  BY <1>0, <1>1, InvalidateLoses
<1> QED BY <1>1, <1>2 DEF LosesKey, LeafResident, StemResident

(* What the read of a key finds, and leaves, resident. *)
LEMMA ReadResidency ==
  ASSUME CachesInv, BlockInv, NEW r \in Keys, Read(r)
  PROVE  LET out == Enter(leaf, LeafRoom, r)
         IN /\ out.hit = (r \in LeafResident)
            /\ LeafResident' = (LeafResident \ out.evicted) \cup {r}
            /\ \/ out.evicted = {}
               \/ r \notin LeafResident /\ \E v \in LeafResident : out.evicted = {v}
            /\ StemResident' = StemResident
<1> DEFINE out == Enter(leaf, LeafRoom, r)
<1>0. /\ kind \in PolicyKinds /\ now \in Nat
      /\ CacheInv(kind, now, leaf, LeafRoom, Keys)
      /\ CacheInv(kind, now, stem, StemRoom, Stems)
      /\ LeafRoom \in Nat \ {0} /\ StemRoom \in Nat \ {0}
  BY BeforeStep, RoomForOne
<1>1. leaf' = out.cache /\ stem' = stem /\ kind' = kind
  BY DEF Read
<1>2. TakesKey(out, leaf, LeafRoom, Keys, r)
  BY <1>0, EnterTakes
<1> HIDE DEF out
<1> QED BY <1>1, <1>2 DEF out, TakesKey, LeafResident, StemResident

(* What the read of a stem finds, and leaves, resident. *)
LEMMA ReadStemResidency ==
  ASSUME CachesInv, BlockInv, ReadStem
  PROVE  LET id == Head(blockStems)
             out == Enter(stem, StemRoom, id)
         IN /\ id \in ToSet(blockStems)
            /\ out.hit = (id \in StemResident)
            /\ StemResident' = (StemResident \ out.evicted) \cup {id}
            /\ LeafResident' = LeafResident
<1> DEFINE id == Head(blockStems)
           out == Enter(stem, StemRoom, id)
<1>0. /\ kind \in PolicyKinds /\ now \in Nat
      /\ CacheInv(kind, now, leaf, LeafRoom, Keys)
      /\ CacheInv(kind, now, stem, StemRoom, Stems)
      /\ LeafRoom \in Nat \ {0} /\ StemRoom \in Nat \ {0}
  BY BeforeStep, RoomForOne
<1>1. stem' = out.cache /\ leaf' = leaf /\ kind' = kind /\ blockStems # <<>>
  BY DEF ReadStem
<1>2. id \in ToSet(blockStems) /\ id \in Stems
  BY <1>1, RecencyPop DEF BlockInv
<1> HIDE DEF id
<1>3. TakesKey(out, stem, StemRoom, Stems, id)
  BY <1>0, <1>2, EnterTakes
<1> HIDE DEF out
<1> QED BY <1>1, <1>2, <1>3 DEF id, out, TakesKey, LeafResident, StemResident

(* What the drain leaves resident. *)
LEMMA DrainResidency ==
  ASSUME CachesInv, BlockInv, DrainLeaf \/ DrainStem
  PROVE  /\ DrainLeaf => LeafResident' = LeafResident \ {Head(leaf.window.order)}
         /\ DrainLeaf => StemResident' = StemResident
         /\ DrainStem => StemResident' = StemResident \ {Head(stem.window.order)}
         /\ DrainStem => LeafResident' = LeafResident
<1> DEFINE k == Head(leaf.window.order)
           s == Head(stem.window.order)
<1>0. /\ kind \in PolicyKinds /\ now \in Nat
      /\ CacheInv(kind, now, leaf, LeafRoom, Keys)
      /\ CacheInv(kind, now, stem, StemRoom, Stems)
      /\ LeafRoom \in Nat \ {0} /\ StemRoom \in Nat \ {0}
  BY BeforeStep, RoomForOne
<1>1. /\ LosesKey(Evict(leaf, k), leaf, LeafRoom, Keys, k)
      /\ LosesKey(Evict(stem, s), stem, StemRoom, Stems, s)
  BY <1>0, EvictLoses
<1>2. /\ DrainLeaf => leaf' = Evict(leaf, k) /\ stem' = stem
      /\ DrainStem => stem' = Evict(stem, s) /\ leaf' = leaf
      /\ kind' = kind
  BY DEF DrainLeaf, DrainStem
<1> QED BY <1>1, <1>2 DEF LosesKey, LeafResident, StemResident

(* Every other step leaves the caches alone. *)
LEMMA QuietResidency ==
  ASSUME Arrive \/ BeginWrites \/ BeginReads \/ BeginStems \/ EndBlock \/ UNCHANGED vars
  PROVE  LeafResident' = LeafResident /\ StemResident' = StemResident
<1>1. leaf' = leaf /\ stem' = stem /\ kind' = kind
  BY DEF Arrive, BeginWrites, BeginReads, BeginStems, EndBlock, vars
<1> QED BY <1>1 DEF LeafResident, StemResident

(* What is resident is a key, or the stem of one, and finitely many are.   *)
LEMMA ResidentKeys ==
  ASSUME CachesInv, BlockInv
  PROVE  /\ LeafResident \subseteq Keys /\ IsFiniteSet(LeafResident)
         /\ StemResident \subseteq Stems /\ IsFiniteSet(StemResident)
<1>1. /\ PolicyInv(kind, leaf.policy, LeafRoom, Keys)
      /\ PolicyInv(kind, stem.policy, StemRoom, Stems)
  BY BeforeStep DEF CacheInv
<1> QED BY <1>1, BeforeStep, RoomForOne, PolicyLenResident DEF LeafResident, StemResident

-----------------------------------------------------------------------------
(* Every step keeps the block's own bookkeeping. *)
LEMMA BlockStep == CachesInv /\ BlockInv /\ [Next]_vars => BlockInv'
<1> SUFFICES ASSUME CachesInv, BlockInv, [Next]_vars PROVE BlockInv'
  OBVIOUS
<1>0. /\ rec = [reads |-> rec.reads, writes |-> rec.writes]
      /\ arrival = [leaves |-> arrival.leaves, stems |-> arrival.stems]
      /\ stale = [leaves |-> stale.leaves, stems |-> stale.stems]
      /\ rec.reads \subseteq Keys /\ rec.writes \subseteq Keys
  BY DEF BlockInv
<1>1. CASE Arrive
  <2>1. PICK n \in now + 1..now + MaxGap, writes \in SUBSET Keys :
          /\ n <= LastBlock /\ now' = n
          /\ rec' = [reads |-> {}, writes |-> writes]
    BY <1>1 DEF Arrive
  <2>2. now' \in 0..LastBlock /\ now' # 0
    BY <2>1, CacheAssumption DEF BlockInv
  <2>3. pc = "idle" /\ todo = {} /\ ToSet(blockStems) = {}
    BY <1>1 DEF Arrive, BlockInv, ReadStems
  <2>4. /\ rec' \in [reads : SUBSET Keys, writes : SUBSET Keys]
        /\ rec'.reads = {} /\ IsFiniteSet(rec'.reads)
    BY <2>1, FS_EmptySet
  <2>5. pc' = "drain" /\ UNCHANGED <<kind, todo, writtenResident, blockStems, arrival, stale>>
    BY <1>1 DEF Arrive
  <2> QED BY <2>2, <2>3, <2>4, <2>5 DEF BlockInv, ReadStems
<1>2. CASE DrainLeaf \/ DrainStem
  <2>1. pc' = pc /\ UNCHANGED <<kind, now, rec, todo, writtenResident, blockStems, arrival, stale>>
    BY <1>2 DEF DrainLeaf, DrainStem, block
  <2> QED BY <2>1 DEF BlockInv, ReadStems
<1>3. CASE BeginWrites
  <2>1. /\ pc = "drain" /\ pc' = "writes"
        /\ writtenResident' = Snapshot /\ todo' = rec.writes
        /\ arrival' = [leaves |-> LeafResident, stems |-> StemResident]
        /\ UNCHANGED <<kind, now, rec, blockStems, stale>>
    BY <1>3 DEF BeginWrites
  <2>2. LeafResident \subseteq Keys /\ StemResident \subseteq Stems
    BY ResidentKeys
  <2> QED BY <2>1, <2>2 DEF BlockInv, ReadStems, Snapshot
<1>4. ASSUME NEW w \in Keys, Write(w) PROVE BlockInv'
  <2>1. /\ pc = "writes" /\ pc' = pc
        /\ todo' = todo \ {w}
        /\ stale' = [leaves |-> stale.leaves \cup {w}, stems |-> stale.stems \cup {StemOf(w)}]
        /\ UNCHANGED <<kind, now, rec, writtenResident, blockStems, arrival>>
    BY <1>4 DEF Write
  <2>2. StemOf(w) \in Stems
    BY DEF Stems
  <2>3. stale' \in [leaves : SUBSET Keys, stems : SUBSET Stems]
    BY <2>1, <2>2 DEF BlockInv
  <2> QED BY <2>1, <2>3 DEF BlockInv, ReadStems
<1>5. CASE BeginReads
  <2>1. /\ pc = "writes" /\ todo = {} /\ pc' = "reads"
        /\ UNCHANGED <<kind, now, rec, todo, writtenResident, blockStems, arrival, stale>>
    BY <1>5 DEF BeginReads, block
  <2> QED BY <2>1 DEF BlockInv, ReadStems
<1>6. ASSUME NEW r \in Keys, Read(r) PROVE BlockInv'
  <2>1. /\ pc = "reads" /\ pc' = pc
        /\ rec' = [rec EXCEPT !.reads = @ \cup {r}]
        /\ blockStems' = IF StemOf(r) \in ToSet(blockStems) THEN blockStems
                         ELSE Append(blockStems, StemOf(r))
        /\ stale' = [stale EXCEPT !.leaves = @ \ {r}]
        /\ UNCHANGED <<kind, now, todo, writtenResident, arrival>>
    BY <1>6 DEF Read
  <2>2. /\ rec'.reads = rec.reads \cup {r} /\ rec'.writes = rec.writes
        /\ rec' \in [reads : SUBSET Keys, writes : SUBSET Keys]
    BY <2>1, <1>0
  <2>3. IsFiniteSet(rec'.reads)
    BY <2>2, FS_AddElement DEF BlockInv
  <2>4. stale' \in [leaves : SUBSET Keys, stems : SUBSET Stems]
    BY <2>1 DEF BlockInv
  <2>5. ReadStems' = ReadStems \cup {StemOf(r)}
    BY <2>2 DEF ReadStems
  <2>6. StemOf(r) \in Stems
    BY DEF Stems
  <2>7. blockStems' \in Recency(Stems) /\ ToSet(blockStems') \subseteq ReadStems'
    BY <2>1, <2>5, <2>6, RecencyAppend DEF BlockInv
  <2> QED BY <2>1, <2>2, <2>3, <2>4, <2>7 DEF BlockInv
<1>7. CASE BeginStems
  <2>1. /\ pc = "reads" /\ pc' = "stems"
        /\ UNCHANGED <<kind, now, rec, todo, writtenResident, blockStems, arrival, stale>>
    BY <1>7 DEF BeginStems, block
  <2> QED BY <2>1 DEF BlockInv, ReadStems
<1>8. CASE ReadStem
  <2>1. /\ pc = "stems" /\ pc' = pc /\ blockStems # <<>>
        /\ blockStems' = Tail(blockStems)
        /\ stale' = [stale EXCEPT !.stems = @ \ {Head(blockStems)}]
        /\ UNCHANGED <<kind, now, rec, todo, writtenResident, arrival>>
    BY <1>8 DEF ReadStem
  <2>2. blockStems' \in Recency(Stems) /\ ToSet(blockStems') \subseteq ToSet(blockStems)
    BY <2>1, RecencyPop DEF BlockInv
  <2>3. stale' \in [leaves : SUBSET Keys, stems : SUBSET Stems]
    BY <2>1 DEF BlockInv
  <2> QED BY <2>1, <2>2, <2>3 DEF BlockInv, ReadStems
<1>9. CASE EndBlock
  <2>1. /\ pc = "stems" /\ pc' = "idle" /\ blockStems = <<>>
        /\ rec' = NoBlock /\ arrival' = [leaves |-> {}, stems |-> {}]
        /\ UNCHANGED <<kind, now, todo, writtenResident, blockStems, stale>>
    BY <1>9 DEF EndBlock
  <2>2. rec' \in [reads : SUBSET Keys, writes : SUBSET Keys] /\ IsFiniteSet(rec'.reads)
    BY <2>1, FS_EmptySet DEF NoBlock
  <2>3. todo = {} /\ ToSet(blockStems) = {} /\ rec'.reads = {}
    BY <2>1, RecencyNew DEF BlockInv, NoBlock
  <2> QED BY <2>1, <2>2, <2>3 DEF BlockInv, ReadStems
<1>10. CASE UNCHANGED vars
  BY <1>10 DEF vars, BlockInv, ReadStems
<1> QED BY <1>1, <1>2, <1>3, <1>4, <1>5, <1>6, <1>7, <1>8, <1>9, <1>10 DEF Next

-----------------------------------------------------------------------------
(* The effect of a record on the leaves of an accumulator: the leaf of the *)
(* key joins them, and counts as warm only if this record says so.         *)
RecordsLeaf(new, a, id, res) ==
  /\ new = [leaves |-> new.leaves, stems |-> a.stems]
  /\ DOMAIN new.leaves = DOMAIN a.leaves \cup {id}
  /\ new.leaves[id].resident => res
  /\ \A l \in DOMAIN a.leaves \ {id} : new.leaves[l] = a.leaves[l]

(* A leaf that is recorded joins the leaves of the accumulator. *)
LEMMA RecordLeafEffect ==
  ASSUME NEW a, a = [leaves |-> a.leaves, stems |-> a.stems], NEW k,
         NEW res \in BOOLEAN, NEW wr \in BOOLEAN
  PROVE  RecordsLeaf(RecordLeaf(a, k, res, wr), a, KeyToLeaf(k), res)
<1> DEFINE id == KeyToLeaf(k)
           known == id \in DOMAIN a.leaves
           one == [resident |-> res /\ (known => a.leaves[id].resident),
                   written |-> wr \/ (known /\ a.leaves[id].written)]
           leaves == [l \in DOMAIN a.leaves \cup {id} |-> IF l = id THEN one ELSE a.leaves[l]]
           new == RecordLeaf(a, k, res, wr)
<1>1. new = [a EXCEPT !.leaves = leaves]
  BY DEF RecordLeaf
<1>2. one.resident => res
  OBVIOUS
<1> HIDE DEF new, one
<1>3. new = [leaves |-> leaves, stems |-> a.stems]
  BY <1>1
<1>4. new.leaves = leaves
  BY <1>3
<1> HIDE DEF id
<1>5. leaves[id] = one
  OBVIOUS
<1> QED BY <1>2, <1>3, <1>4, <1>5 DEF new, id, RecordsLeaf

(* A stem that is recorded joins the stems of the accumulator. *)
LEMMA RecordStemEffect ==
  ASSUME NEW a, a = [leaves |-> a.leaves, stems |-> a.stems], NEW id, NEW res
  PROVE  LET new == RecordStem(a, id, res)
         IN /\ new = [leaves |-> a.leaves, stems |-> new.stems]
            /\ DOMAIN new.stems = DOMAIN a.stems \cup {id}
            /\ new.stems[id] = res
            /\ \A s \in DOMAIN a.stems \ {id} : new.stems[s] = a.stems[s]
BY DEF RecordStem

(* Every step keeps the accumulator to the leaves and stems of the block.  *)
LEMMA AccumStep == CachesInv /\ BlockInv /\ AccumInv /\ [Next]_vars => AccumInv'
<1> SUFFICES ASSUME CachesInv, BlockInv, AccumInv, [Next]_vars PROVE AccumInv'
  OBVIOUS
<1>1. CASE Arrive
  <2>1. pc = "idle" /\ pc' = "drain" /\ acc' = acc /\ blockStems' = blockStems
    BY <1>1 DEF Arrive
  <2>2. DOMAIN acc.leaves = {} /\ DOMAIN acc.stems = {}
    BY <2>1 DEF AccumInv
  <2> QED BY <2>1, <2>2 DEF AccumInv
<1>2. CASE DrainLeaf \/ DrainStem
  <2>1. pc' = pc /\ UNCHANGED <<rec, blockStems, acc>>
    BY <1>2 DEF DrainLeaf, DrainStem, block
  <2> QED BY <2>1 DEF AccumInv, ReadStems
<1>3. CASE BeginWrites \/ BeginReads \/ BeginStems
  <2>1. /\ pc' \in {"writes", "reads", "stems"} /\ pc # "stems"
        /\ UNCHANGED <<rec, blockStems, acc>>
    BY <1>3 DEF BeginWrites, BeginReads, BeginStems, block
  <2> QED BY <2>1 DEF AccumInv, ReadStems
<1>4. ASSUME NEW w \in Keys, Write(w) PROVE AccumInv'
  <2> DEFINE res == w \in writtenResident
  <2>1. /\ acc' = RecordLeaf(acc, w, res, TRUE)
        /\ pc = "writes" /\ pc' = pc /\ w \in rec.writes
        /\ UNCHANGED <<rec, blockStems>>
    BY <1>4 DEF Write, BlockInv
  <2>2. /\ acc' = [leaves |-> acc'.leaves, stems |-> acc.stems]
        /\ DOMAIN acc'.leaves = DOMAIN acc.leaves \cup {KeyToLeaf(w)}
    <3>1. res \in BOOLEAN /\ TRUE \in BOOLEAN
      OBVIOUS
    <3> HIDE DEF res
    <3>2. RecordsLeaf(acc', acc, KeyToLeaf(w), res)
      BY <2>1, <3>1, RecordLeafEffect DEF AccumInv
    <3> QED BY <3>2 DEF RecordsLeaf
  <2>3. acc'.stems = acc.stems
    BY <2>2
  <2> QED BY <2>1, <2>2, <2>3 DEF AccumInv, ReadStems
<1>5. ASSUME NEW r \in Keys, Read(r) PROVE AccumInv'
  <2> DEFINE res == Enter(leaf, LeafRoom, r).hit \/ r \in writtenResident
  <2>1. /\ acc' = RecordLeaf(acc, r, res, FALSE)
        /\ pc = "reads" /\ pc' = pc
        /\ rec' = [rec EXCEPT !.reads = @ \cup {r}]
    BY <1>5 DEF Read
  <2>2. /\ acc' = [leaves |-> acc'.leaves, stems |-> acc.stems]
        /\ DOMAIN acc'.leaves = DOMAIN acc.leaves \cup {KeyToLeaf(r)}
    <3>1. RecordsLeaf(acc', acc, KeyToLeaf(r), res)
      BY <2>1, RecordLeafEffect DEF AccumInv
    <3> QED BY <3>1 DEF RecordsLeaf
  <2>3. rec'.reads = rec.reads \cup {r} /\ rec'.writes = rec.writes
    BY <2>1 DEF BlockInv
  <2>4. acc'.stems = acc.stems
    BY <2>2
  <2>5. DOMAIN acc.stems = {}
    BY <2>1 DEF AccumInv
  <2> QED BY <2>1, <2>2, <2>3, <2>4, <2>5 DEF AccumInv
<1>6. CASE ReadStem
  <2> DEFINE id == Head(blockStems)
             hit == Enter(stem, StemRoom, id).hit
  <2>1. /\ acc' = RecordStem(acc, id, hit) /\ blockStems # <<>>
        /\ pc = "stems" /\ pc' = pc
        /\ blockStems' = Tail(blockStems) /\ rec' = rec
    BY <1>6 DEF ReadStem
  <2>2. /\ acc' = [leaves |-> acc.leaves, stems |-> acc'.stems]
        /\ DOMAIN acc'.stems = DOMAIN acc.stems \cup {id}
    BY <2>1, RecordStemEffect DEF AccumInv
  <2>3. id \in ToSet(blockStems) /\ ToSet(blockStems') = ToSet(blockStems) \ {id}
    BY <2>1, RecencyPop DEF BlockInv
  <2>4. acc'.leaves = acc.leaves /\ ReadStems' = ReadStems
    BY <2>1, <2>2 DEF ReadStems
  <2> HIDE DEF id
  <2>5. DOMAIN acc'.stems \subseteq ReadStems' \ ToSet(blockStems')
    BY <2>2, <2>3, <2>4 DEF AccumInv, BlockInv
  <2> QED BY <2>1, <2>2, <2>4, <2>5 DEF AccumInv
<1>7. CASE EndBlock
  <2>1. acc' = [leaves |-> <<>>, stems |-> <<>>] /\ pc' = "idle"
    BY <1>7 DEF EndBlock, AccumNew
  <2>2. DOMAIN acc'.leaves = {} /\ DOMAIN acc'.stems = {}
    BY <2>1
  <2> QED BY <2>1, <2>2 DEF AccumInv
<1>8. CASE UNCHANGED vars
  BY <1>8 DEF vars, AccumInv, ReadStems
<1> QED BY <1>1, <1>2, <1>3, <1>4, <1>5, <1>6, <1>7, <1>8 DEF Next

-----------------------------------------------------------------------------
(* Every step keeps account of where the resident keys come from. *)
LEMMA ProvenanceStep ==
  CachesInv /\ BlockInv /\ AccumInv /\ ProvenanceInv /\ [Next]_vars => ProvenanceInv'
<1> SUFFICES ASSUME CachesInv, BlockInv, AccumInv, ProvenanceInv, [Next]_vars
             PROVE  ProvenanceInv'
  OBVIOUS
<1>1. CASE Arrive \/ DrainLeaf \/ DrainStem \/ EndBlock
  <2>1. pc' \in {"drain", "idle"}
    BY <1>1 DEF Arrive, DrainLeaf, DrainStem, EndBlock
  <2> QED BY <2>1 DEF ProvenanceInv
<1>2. CASE BeginWrites
  <2>1. /\ writtenResident' = rec.writes \cap LeafResident
        /\ arrival' = [leaves |-> LeafResident, stems |-> StemResident]
        /\ todo' = rec.writes /\ rec' = rec
    BY <1>2 DEF BeginWrites, Snapshot
  <2>2. LeafResident' = LeafResident /\ StemResident' = StemResident
    BY <1>2, QuietResidency
  <2> QED BY <2>1, <2>2 DEF ProvenanceInv
<1>3. ASSUME NEW w \in Keys, Write(w) PROVE ProvenanceInv'
  <2>1. /\ pc = "writes" /\ todo' = todo \ {w}
        /\ UNCHANGED <<rec, writtenResident, arrival>>
    BY <1>3 DEF Write
  <2>2. LeafResident' = LeafResident \ {w} /\ StemResident' = StemResident \ {StemOf(w)}
    BY <1>3, WriteResidency
  <2>3. DOMAIN acc.stems = {}
    BY <2>1 DEF AccumInv
  <2>4. /\ StemResident \subseteq arrival.stems
        /\ \A v \in rec.writes \ todo : StemOf(v) \notin StemResident
        /\ writtenResident \subseteq arrival.leaves
        /\ LeafResident \subseteq arrival.leaves \cup rec.reads
    BY <2>1, <2>3 DEF ProvenanceInv
  <2>5. \A v \in rec'.writes \ todo' : StemOf(v) \notin StemResident'
    BY <2>1, <2>2, <2>4
  <2>6. /\ StemResident' \subseteq arrival'.stems
        /\ LeafResident' \subseteq arrival'.leaves \cup rec'.reads
        /\ writtenResident' \subseteq arrival'.leaves
    BY <2>1, <2>2, <2>4
  <2> QED BY <2>5, <2>6 DEF ProvenanceInv
<1>4. CASE BeginReads \/ BeginStems
  <2>1. /\ pc \in {"writes", "reads"}
        /\ UNCHANGED <<rec, todo, writtenResident, arrival, acc>>
    BY <1>4 DEF BeginReads, BeginStems, block
  <2>2. LeafResident' = LeafResident /\ StemResident' = StemResident
    BY <1>4, QuietResidency
  <2> QED BY <2>1, <2>2 DEF ProvenanceInv
<1>5. ASSUME NEW r \in Keys, Read(r) PROVE ProvenanceInv'
  <2>1. /\ pc = "reads" /\ rec' = [rec EXCEPT !.reads = @ \cup {r}]
        /\ UNCHANGED <<todo, writtenResident, arrival>>
    BY <1>5 DEF Read
  <2>2. rec'.reads = rec.reads \cup {r} /\ rec'.writes = rec.writes
    BY <2>1 DEF BlockInv
  <2>3. LeafResident' \subseteq LeafResident \cup {r} /\ StemResident' = StemResident
    BY <1>5, ReadResidency
  <2>4. /\ StemResident \subseteq arrival.stems \cup DOMAIN acc.stems
        /\ \A v \in rec.writes \ todo : StemOf(v) \in StemResident => StemOf(v) \in DOMAIN acc.stems
        /\ writtenResident \subseteq arrival.leaves
        /\ LeafResident \subseteq arrival.leaves \cup rec.reads
    BY <2>1 DEF ProvenanceInv
  <2>5. DOMAIN acc.stems = {}
    BY <2>1 DEF AccumInv
  <2>6. LeafResident' \subseteq arrival'.leaves \cup rec'.reads
    BY <2>1, <2>2, <2>3, <2>4
  <2> QED BY <2>1, <2>2, <2>3, <2>4, <2>5, <2>6 DEF ProvenanceInv
<1>6. CASE ReadStem
  <2> DEFINE id == Head(blockStems)
             hit == Enter(stem, StemRoom, id).hit
  <2>1. /\ pc = "stems" /\ acc' = RecordStem(acc, id, hit)
        /\ UNCHANGED <<rec, todo, writtenResident, arrival>>
    BY <1>6 DEF ReadStem
  <2>2. DOMAIN acc'.stems = DOMAIN acc.stems \cup {id}
    BY <2>1, RecordStemEffect DEF AccumInv
  <2>3. LeafResident' = LeafResident /\ StemResident' \subseteq StemResident \cup {id}
    BY <1>6, ReadStemResidency
  <2>4. /\ StemResident \subseteq arrival.stems \cup DOMAIN acc.stems
        /\ \A v \in rec.writes \ todo : StemOf(v) \in StemResident => StemOf(v) \in DOMAIN acc.stems
        /\ writtenResident \subseteq arrival.leaves
        /\ LeafResident \subseteq arrival.leaves \cup rec.reads
    BY <2>1 DEF ProvenanceInv
  <2> HIDE DEF id
  <2>5. StemResident' \subseteq arrival'.stems \cup DOMAIN acc'.stems
    BY <2>1, <2>2, <2>3, <2>4
  <2>6. \A v \in rec'.writes \ todo' : StemOf(v) \in StemResident' => StemOf(v) \in DOMAIN acc'.stems
    BY <2>1, <2>2, <2>3, <2>4
  <2> QED BY <2>1, <2>3, <2>4, <2>5, <2>6 DEF ProvenanceInv
<1>7. CASE UNCHANGED vars
  <2>1. UNCHANGED <<pc, rec, todo, writtenResident, arrival, acc>>
    BY <1>7 DEF vars
  <2> QED BY <1>7, <2>1, QuietResidency DEF ProvenanceInv
<1> QED BY <1>1, <1>2, <1>3, <1>4, <1>5, <1>6, <1>7 DEF Next

(* What the caches know, resident or ghost, of the keys and the stems. *)
LeafKnown == PolicyKnown(kind, leaf.policy)
StemKnown == PolicyKnown(kind, stem.policy)

(* A cache in order that loses a key no longer knows it, and one that      *)
(* takes a key in knows no other key that it did not know.                 *)
LEMMA CacheKnown ==
  ASSUME NEW K, NEW c \in Nat \ {0}, NEW cache, kind \in PolicyKinds,
         CacheInv(kind, now, cache, c, K), NEW k
  PROVE  /\ PolicyKnown(kind, Evict(cache, k).policy)
              = PolicyKnown(kind, cache.policy) \ {k}
         /\ PolicyKnown(kind, Invalidate(cache, k).policy)
              = PolicyKnown(kind, cache.policy) \ {k}
         /\ k \in K => PolicyKnown(kind, Enter(cache, c, k).cache.policy)
                          \subseteq PolicyKnown(kind, cache.policy) \cup {k}
<1>1. PolicyInv(kind, cache.policy, c, K)
  BY DEF CacheInv
<1>2. /\ Evict(cache, k).policy = PolicyRemove(kind, cache.policy, k)
      /\ Invalidate(cache, k).policy = PolicyRemove(kind, cache.policy, k)
      /\ Enter(cache, c, k).cache.policy = PolicyAccess(kind, cache.policy, c, k).st
  BY DEF Evict, Invalidate, Enter
<1>3. PolicyKnown(kind, PolicyRemove(kind, cache.policy, k))
        = PolicyKnown(kind, cache.policy) \ {k}
  BY <1>1, PolicyRemoveKnown
<1>4. k \in K => PolicyKnown(kind, PolicyAccess(kind, cache.policy, c, k).st)
                   \subseteq PolicyKnown(kind, cache.policy) \cup {k}
  BY <1>1, PolicyAccessKnown
<1> QED BY <1>2, <1>3, <1>4

(* Every step keeps what was written forgotten until it is read. *)
LEMMA ForgottenStep ==
  CachesInv /\ BlockInv /\ WrittenIsForgotten /\ [Next]_vars => WrittenIsForgotten'
<1> SUFFICES ASSUME CachesInv, BlockInv, WrittenIsForgotten, [Next]_vars
             PROVE  WrittenIsForgotten'
  OBVIOUS
<1>0. stale = [leaves |-> stale.leaves, stems |-> stale.stems]
  BY DEF BlockInv
<1>1. /\ kind \in PolicyKinds
      /\ CacheInv(kind, now, leaf, LeafRoom, Keys)
      /\ CacheInv(kind, now, stem, StemRoom, Stems)
      /\ LeafRoom \in Nat \ {0} /\ StemRoom \in Nat \ {0}
  BY BeforeStep, RoomForOne
<1>2. LeafKnown \cap stale.leaves = {} /\ StemKnown \cap stale.stems = {}
  BY DEF WrittenIsForgotten, LeafKnown, StemKnown
<1>3. SUFFICES LeafKnown' \cap stale'.leaves = {} /\ StemKnown' \cap stale'.stems = {}
  BY DEF WrittenIsForgotten, LeafKnown, StemKnown
<1>4. CASE DrainLeaf
  <2>1. /\ stale' = stale /\ kind' = kind /\ stem' = stem
        /\ leaf' = Evict(leaf, Head(leaf.window.order))
    BY <1>4 DEF DrainLeaf
  <2>2. PICK k : k = Head(leaf.window.order)
    OBVIOUS
  <2>3. PolicyKnown(kind, Evict(leaf, k).policy) = PolicyKnown(kind, leaf.policy) \ {k}
    BY <1>1, CacheKnown
  <2>4. LeafKnown' \subseteq LeafKnown /\ StemKnown' = StemKnown
    BY <2>1, <2>2, <2>3 DEF LeafKnown, StemKnown
  <2> QED BY <1>2, <2>1, <2>4
<1>5. CASE DrainStem
  <2>1. /\ stale' = stale /\ kind' = kind /\ leaf' = leaf
        /\ stem' = Evict(stem, Head(stem.window.order))
    BY <1>5 DEF DrainStem
  <2>2. PICK k : k = Head(stem.window.order)
    OBVIOUS
  <2>3. PolicyKnown(kind, Evict(stem, k).policy) = PolicyKnown(kind, stem.policy) \ {k}
    BY <1>1, CacheKnown
  <2>4. StemKnown' \subseteq StemKnown /\ LeafKnown' = LeafKnown
    BY <2>1, <2>2, <2>3 DEF LeafKnown, StemKnown
  <2> QED BY <1>2, <2>1, <2>4
<1>6. ASSUME NEW w \in Keys, Write(w)
      PROVE  LeafKnown' \cap stale'.leaves = {} /\ StemKnown' \cap stale'.stems = {}
  <2>1. stale'.leaves = stale.leaves \cup {w} /\ stale'.stems = stale.stems \cup {StemOf(w)}
    BY <1>6 DEF Write
  <2>2. /\ kind' = kind
        /\ leaf' = Invalidate(leaf, w) /\ stem' = Invalidate(stem, StemOf(w))
    BY <1>6 DEF Write
  <2>3. LeafKnown' = LeafKnown \ {w} /\ StemKnown' = StemKnown \ {StemOf(w)}
    <3>1. PolicyKnown(kind, Invalidate(leaf, w).policy) = PolicyKnown(kind, leaf.policy) \ {w}
      BY <1>1, CacheKnown
    <3>2. PICK s : s = StemOf(w)
      OBVIOUS
    <3>3. PolicyKnown(kind, Invalidate(stem, s).policy) = PolicyKnown(kind, stem.policy) \ {s}
      BY <1>1, CacheKnown
    <3> QED BY <2>2, <3>1, <3>2, <3>3 DEF LeafKnown, StemKnown
  <2> QED BY <1>2, <2>1, <2>3
<1>7. ASSUME NEW r \in Keys, Read(r)
      PROVE  LeafKnown' \cap stale'.leaves = {} /\ StemKnown' \cap stale'.stems = {}
  <2>1. stale'.leaves = stale.leaves \ {r} /\ stale'.stems = stale.stems
    BY <1>0, <1>7 DEF Read
  <2>2. kind' = kind /\ leaf' = Enter(leaf, LeafRoom, r).cache /\ stem' = stem
    BY <1>7 DEF Read
  <2>3. LeafKnown' \subseteq LeafKnown \cup {r} /\ StemKnown' = StemKnown
    BY <1>1, <2>2, CacheKnown DEF LeafKnown, StemKnown
  <2> QED BY <1>2, <2>1, <2>3
<1>8. CASE ReadStem
  <2> DEFINE id == Head(blockStems)
  <2>1. stale'.stems = stale.stems \ {id} /\ stale'.leaves = stale.leaves
    BY <1>0, <1>8 DEF ReadStem
  <2>2. kind' = kind /\ stem' = Enter(stem, StemRoom, id).cache /\ leaf' = leaf
    BY <1>8 DEF ReadStem
  <2>3. id \in Stems
    <3>1. blockStems # <<>>
      BY <1>8 DEF ReadStem
    <3> QED BY <3>1, RecencyPop DEF BlockInv
  <2> HIDE DEF id
  <2>4. StemKnown' \subseteq StemKnown \cup {id} /\ LeafKnown' = LeafKnown
    BY <1>1, <2>2, <2>3, CacheKnown DEF LeafKnown, StemKnown
  <2> QED BY <1>2, <2>1, <2>4
<1>9. CASE Arrive \/ BeginWrites \/ BeginReads \/ BeginStems \/ EndBlock \/ UNCHANGED vars
  <2>1. stale' = stale /\ kind' = kind /\ leaf' = leaf /\ stem' = stem
    BY <1>9 DEF Arrive, BeginWrites, BeginReads, BeginStems, EndBlock, vars
  <2> QED BY <1>2, <2>1 DEF LeafKnown, StemKnown
<1> QED BY <1>4, <1>5, <1>6, <1>7, <1>8, <1>9 DEF Next

(* A key of the block whose leaf is that of another is that key. *)
LEMMA LeafOfOneKey ==
  ASSUME NEW j \in Keys, NEW k \in Keys, KeyToLeaf(j) = KeyToLeaf(k)
  PROVE  j = k
<1>1. j \in StateKeys /\ k \in StateKeys
  BY CacheAssumption
<1> QED BY <1>1, LeafDeterminesKey

(* Every step keeps to the rule that only what the client held on arrival  *)
(* counts as warm.                                                         *)
LEMMA WarmStep ==
  /\ CachesInv /\ BlockInv /\ AccumInv /\ ProvenanceInv
  /\ WarmOnlyIfHeldOnArrival
  /\ [Next]_vars
  => WarmOnlyIfHeldOnArrival'
<1> SUFFICES ASSUME CachesInv, BlockInv, AccumInv, ProvenanceInv,
                    WarmOnlyIfHeldOnArrival, [Next]_vars
             PROVE  WarmOnlyIfHeldOnArrival'
  OBVIOUS
<1> USE DEF WarmOnlyIfHeldOnArrival
<1>0. acc = [leaves |-> acc.leaves, stems |-> acc.stems]
  BY DEF AccumInv
<1>1. CASE Arrive \/ BeginWrites
  <2>1. pc \in {"idle", "drain"} /\ acc' = acc
    BY <1>1 DEF Arrive, BeginWrites
  <2>2. DOMAIN acc.leaves = {} /\ DOMAIN acc.stems = {}
    BY <2>1 DEF AccumInv
  <2> QED BY <2>1, <2>2
<1>2. CASE EndBlock
  <2>1. acc' = [leaves |-> <<>>, stems |-> <<>>]
    BY <1>2 DEF EndBlock, AccumNew
  <2>2. DOMAIN acc'.leaves = {} /\ DOMAIN acc'.stems = {}
    BY <2>1
  <2> QED BY <2>2
<1>3. ASSUME NEW w \in Keys, Write(w) PROVE WarmOnlyIfHeldOnArrival'
  <2> DEFINE res == w \in writtenResident
             id == KeyToLeaf(w)
  <2>1. /\ acc' = RecordLeaf(acc, w, res, TRUE)
        /\ pc = "writes" /\ UNCHANGED <<rec, arrival>>
    BY <1>3 DEF Write
  <2>2. res \in BOOLEAN /\ TRUE \in BOOLEAN /\ (res => w \in arrival.leaves)
    BY <2>1 DEF ProvenanceInv
  <2> HIDE DEF res
  <2>3. /\ acc' = [leaves |-> acc'.leaves, stems |-> acc.stems]
        /\ DOMAIN acc'.leaves = DOMAIN acc.leaves \cup {id}
        /\ acc'.leaves[id].resident => res
        /\ \A l \in DOMAIN acc.leaves \ {id} : acc'.leaves[l] = acc.leaves[l]
    <3>1. RecordsLeaf(acc', acc, id, res)
      BY <1>0, <2>1, <2>2, RecordLeafEffect
    <3> QED BY <3>1 DEF RecordsLeaf
  <2>4. acc'.stems = acc.stems
    BY <2>3
  <2>5. ASSUME NEW k \in rec.reads \cup rec.writes, KeyToLeaf(k) \in DOMAIN acc'.leaves,
               acc'.leaves[KeyToLeaf(k)].resident
        PROVE  k \in arrival.leaves
    <3>1. k \in Keys
      BY DEF BlockInv
    <3>2. CASE KeyToLeaf(k) = id
      <4>1. k = w
        BY <3>1, <3>2, LeafOfOneKey
      <4> QED BY <2>2, <2>3, <2>5, <3>2, <4>1
    <3>3. CASE KeyToLeaf(k) # id
      <4>1. KeyToLeaf(k) \in DOMAIN acc.leaves \ {id}
        BY <2>3, <2>5, <3>3
      <4> QED BY <2>3, <2>5, <4>1
    <3> QED BY <3>2, <3>3
  <2> QED BY <2>1, <2>4, <2>5
<1>4. ASSUME NEW r \in Keys, Read(r) PROVE WarmOnlyIfHeldOnArrival'
  <2> DEFINE hit == Enter(leaf, LeafRoom, r).hit
             res == hit \/ r \in writtenResident
             id == KeyToLeaf(r)
  <2>1. /\ acc' = RecordLeaf(acc, r, res, FALSE)
        /\ pc = "reads" /\ arrival' = arrival /\ r \notin rec.reads
        /\ rec' = [rec EXCEPT !.reads = @ \cup {r}]
    BY <1>4 DEF Read
  <2>2. hit = (r \in LeafResident)
    BY <1>4, ReadResidency
  <2> HIDE DEF hit
  <2>3. res \in BOOLEAN /\ FALSE \in BOOLEAN /\ (res => r \in arrival.leaves)
    BY <2>1, <2>2 DEF ProvenanceInv
  <2> HIDE DEF res
  <2>4. /\ acc' = [leaves |-> acc'.leaves, stems |-> acc.stems]
        /\ DOMAIN acc'.leaves = DOMAIN acc.leaves \cup {id}
        /\ acc'.leaves[id].resident => res
        /\ \A l \in DOMAIN acc.leaves \ {id} : acc'.leaves[l] = acc.leaves[l]
    <3>1. RecordsLeaf(acc', acc, id, res)
      BY <1>0, <2>1, <2>3, RecordLeafEffect
    <3> QED BY <3>1 DEF RecordsLeaf
  <2>5. acc'.stems = acc.stems
    BY <2>4
  <2>6. rec'.reads = rec.reads \cup {r} /\ rec'.writes = rec.writes
    BY <2>1 DEF BlockInv
  <2>7. ASSUME NEW k \in rec'.reads \cup rec'.writes, KeyToLeaf(k) \in DOMAIN acc'.leaves,
               acc'.leaves[KeyToLeaf(k)].resident
        PROVE  k \in arrival.leaves
    <3>1. CASE KeyToLeaf(k) = id
      <4>1. k \in Keys
        BY <2>6 DEF BlockInv
      <4>2. k = r
        BY <3>1, <4>1, LeafOfOneKey
      <4> QED BY <2>3, <2>4, <2>7, <3>1, <4>2
    <3>2. CASE KeyToLeaf(k) # id
      <4>1. KeyToLeaf(k) \in DOMAIN acc.leaves \ {id} /\ k \in rec.reads \cup rec.writes
        BY <2>4, <2>6, <2>7, <3>2
      <4> QED BY <2>4, <2>7, <4>1
    <3> QED BY <3>1, <3>2
  <2> QED BY <2>1, <2>5, <2>6, <2>7
<1>5. CASE ReadStem
  <2> DEFINE id == Head(blockStems)
             hit == Enter(stem, StemRoom, id).hit
  <2>1. /\ acc' = RecordStem(acc, id, hit)
        /\ pc = "stems" /\ UNCHANGED <<rec, arrival>>
    BY <1>5 DEF ReadStem
  <2>2. id \in ToSet(blockStems) /\ hit = (id \in StemResident)
    BY <1>5, ReadStemResidency
  <2>3. /\ acc' = [leaves |-> acc.leaves, stems |-> acc'.stems]
        /\ DOMAIN acc'.stems = DOMAIN acc.stems \cup {id}
        /\ acc'.stems[id] = hit
        /\ \A s \in DOMAIN acc.stems \ {id} : acc'.stems[s] = acc.stems[s]
    BY <1>0, <2>1, RecordStemEffect
  <2>4. acc'.leaves = acc.leaves
    BY <2>3
  <2> HIDE DEF id, hit
  <2>5. id \notin DOMAIN acc.stems /\ todo = {}
    BY <2>1, <2>2 DEF AccumInv, BlockInv
  <2>6. hit => id \in arrival.stems \ {StemOf(w) : w \in rec.writes}
    BY <2>1, <2>2, <2>5 DEF ProvenanceInv
  <2>7. ASSUME NEW s \in DOMAIN acc'.stems, acc'.stems[s]
        PROVE  s \in arrival.stems \ {StemOf(w) : w \in rec.writes}
    BY <2>3, <2>6, <2>7
  <2> QED BY <2>1, <2>4, <2>7
<1>6. CASE DrainLeaf \/ DrainStem \/ BeginReads \/ BeginStems \/ UNCHANGED vars
  <2>1. UNCHANGED <<rec, acc, arrival>>
    BY <1>6 DEF DrainLeaf, DrainStem, BeginReads, BeginStems, block, vars
  <2> QED BY <2>1
<1> QED BY <1>1, <1>2, <1>3, <1>4, <1>5, <1>6 DEF Next

-----------------------------------------------------------------------------
(* The invariant holds of a new cache. *)
LEMMA InitIInv == Init => IInv
<1> SUFFICES ASSUME Init PROVE IInv
  OBVIOUS
<1>1. /\ kind \in PolicyKinds /\ pc = "idle" /\ now = 0 /\ todo = {}
      /\ rec = [reads |-> {}, writes |-> {}]
      /\ leaf = CacheNew /\ stem = CacheNew
      /\ writtenResident = {} /\ blockStems = <<>>
      /\ acc = [leaves |-> <<>>, stems |-> <<>>]
      /\ arrival = [leaves |-> {}, stems |-> {}]
      /\ stale = [leaves |-> {}, stems |-> {}]
  BY DEF Init, NoBlock, AccumNew
<1>2. CachesInv
  <2>1. /\ CacheInv(kind, now, leaf, LeafRoom, Keys)
        /\ CacheInv(kind, now, stem, StemRoom, Stems)
        /\ DOMAIN leaf.window.seen = {} /\ DOMAIN stem.window.seen = {}
    BY <1>1, RoomForOne, CacheNewInv
  <2> QED BY <2>1 DEF CachesInv, Unexpired
<1>3. BlockInv
  <2>1. blockStems \in Recency(Stems) /\ ToSet(blockStems) = {}
    BY <1>1, RecencyNew
  <2>2. now \in 0..LastBlock
    BY <1>1, CacheAssumption
  <2>3. rec.reads = {} /\ IsFiniteSet(rec.reads)
    BY <1>1, FS_EmptySet
  <2> QED BY <1>1, <2>1, <2>2, <2>3 DEF BlockInv
<1>4. DOMAIN acc.leaves = {} /\ DOMAIN acc.stems = {}
  BY <1>1
<1>5. PolicyKnown(kind, leaf.policy) = {} /\ PolicyKnown(kind, stem.policy) = {}
  <2>1. leaf.policy = PolicyNew(kind) /\ stem.policy = PolicyNew(kind)
    BY <1>1 DEF CacheNew
  <2> QED BY <1>1, <2>1, PolicyNewKnown
<1> QED BY <1>1, <1>2, <1>3, <1>4, <1>5
        DEF IInv, AccumInv, ProvenanceInv, WrittenIsForgotten, WarmOnlyIfHeldOnArrival

(* Every step keeps the invariant. *)
LEMMA StepIInv == IInv /\ [Next]_vars => IInv'
BY CachesStep, BlockStep, AccumStep, ProvenanceStep, ForgottenStep, WarmStep DEF IInv

(* The caches, the accumulator and the provenance of what they hold are    *)
(* always in order.                                                        *)
THEOREM CacheInOrder == Spec => []IInv
BY InitIInv, StepIInv, PTL DEF Spec

-----------------------------------------------------------------------------
(* A cache in order is one whose policy and window are in step. *)
LEMMA CacheInStep ==
  ASSUME NEW at, NEW cache, NEW c, NEW K, CacheInv(kind, at, cache, c, K)
  PROVE  InStep(cache)
<1>1. cache.window.order \in Seq(K) /\ IsInjective(cache.window.order)
  BY DEF CacheInv, WindowInv, Recency
<1>2. DOMAIN cache.window.order = 1..Len(cache.window.order)
  BY <1>1
<1>3. \A i, j \in 1..Len(cache.window.order) :
        cache.window.order[i] = cache.window.order[j] => i = j
  BY <1>1, <1>2 DEF IsInjective
<1> QED BY <1>3 DEF InStep, CacheInv, WindowInv, Stamped

(* A policy and its window always know the same keys, each once (cache.rs  *)
(* 63-165): no entry can be reported with a made-up age.                   *)
THEOREM WindowsAlwaysMatchPolicies == Spec => []WindowsMatchPolicies
<1>1. IInv => WindowsMatchPolicies
  BY CacheInStep DEF IInv, CachesInv, WindowsMatchPolicies
<1> QED BY <1>1, CacheInOrder, PTL

(* A window is always sorted by last sight, so that looking at its front   *)
(* expires all that is too old (window.rs 33-44, cache.rs 63-83).          *)
THEOREM AlwaysWithinRetention == Spec => []WithinRetention
<1>1. IInv => WithinRetention
  <2> SUFFICES ASSUME IInv PROVE WithinRetention
    OBVIOUS
  <2>1. Ascending(leaf.window) /\ Ascending(stem.window)
    BY DEF IInv, CachesInv, CacheInv, WindowInv
  <2>2. pc # "drain" => Unexpired(now, leaf) /\ Unexpired(now, stem)
    BY DEF IInv, CachesInv
  <2> QED BY <2>1, <2>2 DEF WithinRetention, InRetention, Ascending, Unexpired
<1> QED BY <1>1, CacheInOrder, PTL

(* What was written and not read since is neither held nor remembered by   *)
(* the client, ARC's ghost lists included (cache.rs 94-118, arc.rs 94-99). *)
THEOREM WrittenAlwaysForgotten == Spec => []WrittenIsForgotten
<1>1. IInv => WrittenIsForgotten
  BY DEF IInv
<1> QED BY <1>1, CacheInOrder, PTL

(* A witness never leaves out what the client did not hold when the block  *)
(* arrived, nor a stem the block wrote to (cache.rs 85-165).               *)
THEOREM WarmAlwaysHeldOnArrival == Spec => []WarmOnlyIfHeldOnArrival
<1>1. IInv => WarmOnlyIfHeldOnArrival
  BY DEF IInv
<1> QED BY <1>1, CacheInOrder, PTL

(* A cache in order has the type of one. *)
LEMMA CacheTyped ==
  ASSUME NEW c \in Nat \ {0}, NEW K, NEW cache, kind \in PolicyKinds,
         CacheInv(kind, now, cache, c, K)
  PROVE  CacheType(cache, K)
<1>1. PolicyInv(kind, cache.policy, c, K)
  BY DEF CacheInv
<1>2. PolicyResident(kind, cache.policy) \subseteq K
  BY <1>1, PolicyLenResident
<1>3. /\ cache.window.order \in Seq(K)
      /\ DOMAIN cache.window.seen = PolicyResident(kind, cache.policy)
      /\ \A k \in DOMAIN cache.window.seen : cache.window.seen[k] \in 0..now
  BY DEF CacheInv, WindowInv, Recency, Stamped
<1> QED BY <1>2, <1>3 DEF CacheType

(* Every variable keeps its type, and no window stamp is of a block to     *)
(* come (window.rs 11-20).                                                 *)
THEOREM TypesAreKept == Spec => []TypeOK
<1>1. IInv => TypeOK
  <2> SUFFICES ASSUME IInv PROVE TypeOK
    OBVIOUS
  <2> USE DEF IInv
  <2>1. CacheType(leaf, Keys) /\ CacheType(stem, Stems)
    BY RoomForOne, CacheTyped DEF CachesInv, BlockInv
  <2>2. ReadStems \subseteq Stems /\ todo \subseteq Keys
    BY DEF BlockInv, ReadStems, Stems
  <2>3. DOMAIN acc.stems \subseteq Stems
    BY <2>2 DEF AccumInv
  <2>4. /\ arrival.leaves \subseteq Keys /\ arrival.stems \subseteq Stems
        /\ stale.leaves \subseteq Keys /\ stale.stems \subseteq Stems
    BY DEF BlockInv
  <2> QED BY <2>1, <2>2, <2>3, <2>4 DEF BlockInv, AccumInv, ReadStems, TypeOK
<1> QED BY <1>1, CacheInOrder, PTL

-----------------------------------------------------------------------------
(* The books. *)

(* What a step may add to the counters of an active sink: reads are hits   *)
(* or misses.                                                              *)
Gain ==
  {d \in [reads : Nat, hits : Nat, misses : Nat, invalidations : Nat,
          survived : Nat, stemSurvived : Nat] : d.reads = d.hits + d.misses}
Leaving(n, ns, i) ==
  [reads |-> 0, hits |-> 0, misses |-> 0, invalidations |-> i,
   survived |-> n, stemSurvived |-> ns]
Totals(reads, hits, misses) ==
  [reads |-> reads, hits |-> hits, misses |-> misses, invalidations |-> 0,
   survived |-> 0, stemSurvived |-> 0]

(* The counters with a gain, whose invalidations one contract is charged.  *)
Booked(m, d, a) ==
  [reads |-> m.reads + d.reads, hits |-> m.hits + d.hits,
   misses |-> m.misses + d.misses, invalidations |-> m.invalidations + d.invalidations,
   survived |-> m.survived + d.survived, stemSurvived |-> m.stemSurvived + d.stemSurvived,
   contracts |-> [b \in Addresses |->
                    m.contracts[b] + IF b = a THEN d.invalidations ELSE 0]]

(* A gain goes to the sinks that are active at the block, and keeps the    *)
(* leaves that entered by a miss equal to those that left and those that   *)
(* are resident.                                                           *)
Books(d, a) ==
  /\ d \in Gain /\ now \in 1..LastBlock
  /\ d.invalidations = 0 \/ a \in Addresses
  /\ metrics' = [s \in Sinks |-> IF InStratum(s, now) THEN Booked(metrics[s], d, a)
                                                      ELSE metrics[s]]
  /\ d.misses + tally'.misses + Cardinality(LeafResident)
       = tally.misses + d.survived + Cardinality(LeafResident')

(* A step of which no sink hears. *)
Unheard ==
  metrics' = metrics /\ tally'.misses = tally.misses /\ LeafResident' = LeafResident

(* The counters of a sink with a gain. *)
LEMMA BookedAdds ==
  ASSUME NEW m \in MetricsType, NEW d \in Gain, NEW a
  PROVE  /\ Booked(m, d, a) \in MetricsType
         /\ \A f \in Counters : Booked(m, d, a)[f] = m[f] + d[f]
         /\ \A b \in Addresses : Booked(m, d, a).contracts[b]
              = m.contracts[b] + IF b = a THEN d.invalidations ELSE 0
<1> DEFINE new == Booked(m, d, a)
           charges == [b \in Addresses |-> m.contracts[b] + IF b = a THEN d.invalidations ELSE 0]
<1>1. charges \in [Addresses -> Nat]
  <2> SUFFICES ASSUME NEW b \in Addresses
               PROVE  m.contracts[b] + (IF b = a THEN d.invalidations ELSE 0) \in Nat
    OBVIOUS
  <2>1. m.contracts[b] \in Nat /\ d.invalidations \in Nat
    BY DEF MetricsType, Gain
  <2> QED BY <2>1
<1> HIDE DEF charges
<1>2. new \in MetricsType /\ new.contracts = charges
  BY <1>1 DEF charges, Booked, MetricsType, Gain
<1>3. \A f \in Counters : new[f] = m[f] + d[f]
  BY DEF Booked, Counters, MetricsType, Gain
<1> QED BY <1>2, <1>3 DEF charges

(* A survival of a leaf, of a stem, and the totals of a block are gains.   *)
LEMMA SurvivalGains ==
  ASSUME NEW m \in MetricsType, NEW n \in Nat, NEW a
  PROVE  /\ Leaving(n, 0, 0) \in Gain
         /\ Leaving(0, n, 0) \in Gain
         /\ [m EXCEPT !.survived = @ + n] = Booked(m, Leaving(n, 0, 0), a)
         /\ [m EXCEPT !.stemSurvived = @ + n] = Booked(m, Leaving(0, n, 0), a)
<1>1. m.contracts = [b \in Addresses |-> m.contracts[b] + IF b = a THEN 0 ELSE 0]
  BY DEF MetricsType
<1> QED BY <1>1 DEF Booked, MetricsType, Leaving, Gain

(* Counters are the same when each of them is.                             *)
LEMMA SameCounters ==
  ASSUME NEW m \in MetricsType, NEW k \in MetricsType,
         m.reads = k.reads, m.hits = k.hits, m.misses = k.misses,
         m.invalidations = k.invalidations, m.survived = k.survived,
         m.stemSurvived = k.stemSurvived, m.contracts = k.contracts
  PROVE  m = k
BY DEF MetricsType

(* What a write adds to a sink: a key that leaves counts as a survival and *)
(* an invalidation, charged to its contract, and so does a stem.           *)
SetsByWrite(k, m, x, y, z, a, w) ==
  /\ k \in MetricsType
  /\ k.reads = m.reads /\ k.hits = m.hits /\ k.misses = m.misses
  /\ k.survived = x /\ k.stemSurvived = y /\ k.invalidations = z
  /\ k.contracts = [m.contracts EXCEPT ![a] = w]

(* The assignments of a write, field by field. *)
LEMMA WriteSets ==
  ASSUME NEW m \in MetricsType, NEW x \in Nat, NEW y \in Nat, NEW z \in Nat,
         NEW a, NEW w \in Nat
  PROVE  SetsByWrite([m EXCEPT !.survived = x, !.stemSurvived = y, !.invalidations = z,
                               !.contracts[a] = w], m, x, y, z, a, w)
BY DEF MetricsType, SetsByWrite
AfterWrite(m, n, ns, a) ==
  [m EXCEPT !.survived = @ + n, !.stemSurvived = @ + ns, !.invalidations = @ + n,
            !.contracts[a] = @ + n]

(* They book one leaving. *)
LEMMA WriteGains ==
  ASSUME NEW m \in MetricsType, NEW n \in Nat, NEW ns \in Nat, NEW a \in Addresses
  PROVE  AfterWrite(m, n, ns, a) = Booked(m, Leaving(n, ns, n), a)
<1> DEFINE d == Leaving(n, ns, n)
           x == m.survived + n
           y == m.stemSurvived + ns
           z == m.invalidations + n
           w == m.contracts[a] + n
           k == [m EXCEPT !.survived = x, !.stemSurvived = y, !.invalidations = z,
                          !.contracts[a] = w]
           b == Booked(m, d, a)
<1>1. x \in Nat /\ y \in Nat /\ z \in Nat /\ w \in Nat
  BY DEF MetricsType
<1>2. /\ d.reads = 0 /\ d.hits = 0 /\ d.misses = 0
      /\ d.survived = n /\ d.stemSurvived = ns /\ d.invalidations = n /\ d \in Gain
  BY DEF Leaving, Gain
<1> HIDE DEF d
<1>3. /\ b.reads = m.reads + 0 /\ b.hits = m.hits + 0 /\ b.misses = m.misses + 0
      /\ b.survived = x /\ b.stemSurvived = y /\ b.invalidations = z
      /\ b.contracts = [c \in Addresses |-> m.contracts[c] + IF c = a THEN n ELSE 0]
  BY <1>2 DEF Booked
<1>4. b \in MetricsType
  BY <1>2, BookedAdds
<1> HIDE DEF x, y, z, w, b
<1>5. SetsByWrite(k, m, x, y, z, a, w)
  BY <1>1, WriteSets
<1> HIDE DEF k
<1>6. [m.contracts EXCEPT ![a] = w]
        = [c \in Addresses |-> m.contracts[c] + IF c = a THEN n ELSE 0]
  BY DEF MetricsType, w
<1>7. m.reads + 0 = m.reads /\ m.hits + 0 = m.hits /\ m.misses + 0 = m.misses
  BY DEF MetricsType
<1>8. k = b
  BY <1>3, <1>4, <1>5, <1>6, <1>7, SameCounters DEF SetsByWrite
<1> QED BY <1>8 DEF k, b, d, x, y, z, w, AfterWrite

(* What the end of a block adds to a sink: its reads, hits and misses.     *)
SetsByBlock(k, m, x, y, z) ==
  /\ k \in MetricsType
  /\ k.reads = x /\ k.hits = y /\ k.misses = z
  /\ k.survived = m.survived /\ k.stemSurvived = m.stemSurvived
  /\ k.invalidations = m.invalidations /\ k.contracts = m.contracts

(* The assignments of the end of a block, field by field. *)
LEMMA BlockSets ==
  ASSUME NEW m \in MetricsType, NEW x \in Nat, NEW y \in Nat, NEW z \in Nat
  PROVE  SetsByBlock([m EXCEPT !.reads = x, !.hits = y, !.misses = z], m, x, y, z)
BY DEF MetricsType, SetsByBlock
AfterBlock(m, reads, hits, misses) ==
  [m EXCEPT !.reads = @ + reads, !.hits = @ + hits, !.misses = @ + misses]

(* They book its totals. *)
LEMMA BlockGains ==
  ASSUME NEW m \in MetricsType, NEW reads \in Nat, NEW hits \in Nat, NEW misses \in Nat,
         reads = hits + misses, NEW a
  PROVE  AfterBlock(m, reads, hits, misses) = Booked(m, Totals(reads, hits, misses), a)
<1> DEFINE d == Totals(reads, hits, misses)
           x == m.reads + reads
           y == m.hits + hits
           z == m.misses + misses
           k == [m EXCEPT !.reads = x, !.hits = y, !.misses = z]
           b == Booked(m, d, a)
<1>1. x \in Nat /\ y \in Nat /\ z \in Nat
  BY DEF MetricsType
<1>2. /\ d.reads = reads /\ d.hits = hits /\ d.misses = misses
      /\ d.survived = 0 /\ d.stemSurvived = 0 /\ d.invalidations = 0 /\ d \in Gain
  BY DEF Totals, Gain
<1> HIDE DEF d
<1>3. /\ b.reads = x /\ b.hits = y /\ b.misses = z
      /\ b.survived = m.survived + 0 /\ b.stemSurvived = m.stemSurvived + 0
      /\ b.invalidations = m.invalidations + 0
      /\ b.contracts = [c \in Addresses |-> m.contracts[c] + IF c = a THEN 0 ELSE 0]
  BY <1>2 DEF Booked
<1>4. b \in MetricsType
  BY <1>2, BookedAdds
<1> HIDE DEF x, y, z, b
<1>5. SetsByBlock(k, m, x, y, z)
  BY <1>1, BlockSets
<1> HIDE DEF k
<1>6. m.contracts = [c \in Addresses |-> m.contracts[c] + IF c = a THEN 0 ELSE 0]
  BY DEF MetricsType
<1>7. /\ m.survived + 0 = m.survived /\ m.stemSurvived + 0 = m.stemSurvived
      /\ m.invalidations + 0 = m.invalidations
  BY DEF MetricsType
<1>8. k = b
  BY <1>3, <1>4, <1>5, <1>6, <1>7, SameCounters DEF SetsByBlock
<1> QED BY <1>8 DEF k, b, d, x, y, z, AfterBlock

(* How many leaves are resident after a step that loses or takes some.     *)
LEMMA LoseOne ==
  ASSUME NEW S, IsFiniteSet(S), NEW k
  PROVE  /\ Cardinality(S) \in Nat /\ Cardinality(S \ {k}) \in Nat
         /\ Cardinality(S) = Cardinality(S \ {k}) + IF k \in S THEN 1 ELSE 0
<1>1. Cardinality(S) \in Nat /\ IsFiniteSet(S \ {k})
  BY FS_CardinalityType, FS_RemoveElement
<1>2. CASE k \in S
  BY <1>1, <1>2, FS_RemoveElement, FS_CardinalityType
<1>3. CASE k \notin S
  <2>1. S \ {k} = S
    BY <1>3
  <2> QED BY <1>1, <1>3, <2>1
<1> QED BY <1>2, <1>3

(* And how many after a step that admits one, for a victim or none. *)
LEMMA TakeOne ==
  ASSUME NEW S, IsFiniteSet(S), NEW k, NEW V,
         V = {} \/ (k \notin S /\ \E v \in S : V = {v})
  PROVE  /\ Cardinality(S) \in Nat /\ Cardinality((S \ V) \cup {k}) \in Nat
         /\ Cardinality(V) \in Nat
         /\ Cardinality(S) + (IF k \in S THEN 0 ELSE 1)
              = Cardinality((S \ V) \cup {k}) + Cardinality(V)
<1>1. CASE V = {}
  <2>1. Cardinality(V) = 0 /\ S \ V = S
    BY <1>1, FS_EmptySet
  <2>2. /\ Cardinality(S) \in Nat
        /\ IF k \in S THEN Cardinality(S \cup {k}) = Cardinality(S)
                      ELSE Cardinality(S \cup {k}) = Cardinality(S) + 1
    BY FS_CardinalityType, FS_AddElement
  <2> QED BY <2>1, <2>2
<1>2. ASSUME NEW v \in S, V = {v}, k \notin S
      PROVE  /\ Cardinality(S) \in Nat /\ Cardinality((S \ V) \cup {k}) \in Nat
             /\ Cardinality(V) \in Nat
             /\ Cardinality(S) + 1 = Cardinality((S \ V) \cup {k}) + Cardinality(V)
  <2>1. Cardinality(V) = 1
    BY <1>2, FS_Singleton
  <2>2. IsFiniteSet(S \ {v}) /\ Cardinality(S \ {v}) \in Nat /\ Cardinality(S) = Cardinality(S \ {v}) + 1
    BY LoseOne, FS_RemoveElement
  <2>3. Cardinality((S \ {v}) \cup {k}) = Cardinality(S \ {v}) + 1
    <3>1. k \notin S \ {v}
      BY <1>2
    <3> QED BY <2>2, <3>1, FS_AddElement
  <2>4. V = {v}
    BY <1>2
  <2> QED BY <2>1, <2>2, <2>3, <2>4
<1> QED BY <1>1, <1>2

(* A read of a stem costs at most one other. *)
LEMMA StemVictim ==
  ASSUME CachesInv, BlockInv, ReadStem
  PROVE  Cardinality(Enter(stem, StemRoom, Head(blockStems)).evicted) \in Nat
<1> DEFINE id == Head(blockStems)
           out == Enter(stem, StemRoom, id)
<1>1. blockStems # <<>>
  BY DEF ReadStem
<1>2. id \in Stems
  BY <1>1, RecencyPop DEF BlockInv
<1> HIDE DEF id
<1>3. TakesKey(out, stem, StemRoom, Stems, id)
  BY <1>2, BeforeStep, RoomForOne, EnterTakes
<1> HIDE DEF out
<1>4. out.evicted = {} \/ \E v : out.evicted = {v}
  BY <1>3 DEF TakesKey
<1>5. Cardinality(out.evicted) \in Nat
  <2>1. CASE out.evicted = {}
    BY <2>1, FS_EmptySet
  <2>2. ASSUME NEW v, out.evicted = {v} PROVE Cardinality(out.evicted) \in Nat
    <3>1. Cardinality({v}) = 1
      BY FS_Singleton
    <3> QED BY <2>2, <3>1
  <2> QED BY <1>4, <2>1, <2>2
<1> QED BY <1>5 DEF out, id

(* Every step is one of which no sink hears, or one that books a gain.     *)
LEMMA StepBooks ==
  CachesInv /\ BlockInv /\ CountsInv /\ [Next]_vars => Unheard \/ \E d, a : Books(d, a)
<1> SUFFICES ASSUME CachesInv, BlockInv, CountsInv, [Next]_vars
             PROVE  Unheard \/ \E d, a : Books(d, a)
  OBVIOUS
<1>0. /\ metrics \in [Sinks -> MetricsType]
      /\ tally.misses \in Nat /\ tally.hits \in Nat
      /\ IsFiniteSet(LeafResident)
      /\ pc # "idle" => now \in 1..LastBlock
  BY ResidentKeys, CacheAssumption DEF CountsInv, BlockInv
<1>1. CASE Arrive \/ BeginWrites \/ BeginReads \/ BeginStems \/ UNCHANGED vars
  <2>1. metrics' = metrics /\ tally' = tally
    BY <1>1 DEF Arrive, BeginWrites, BeginReads, BeginStems, block, vars
  <2> QED BY <1>1, <2>1, QuietResidency DEF Unheard
<1>2. CASE DrainLeaf
  <2> DEFINE k == Head(leaf.window.order)
             d == Leaving(1, 0, 0)
  <2>1. LeafResident' = LeafResident \ {k}
    BY <1>2, DrainResidency
  <2>2. k \in LeafResident
    <3>1. leaf.window.order # <<>>
      BY <1>2 DEF DrainLeaf, FrontExpired
    <3>2. leaf.window.order \in Recency(Keys)
      BY DEF CachesInv, CacheInv, WindowInv
    <3>3. k \in ToSet(leaf.window.order)
      BY <3>1, <3>2, RecencyPop
    <3> QED BY <3>3 DEF CachesInv, CacheInv, LeafResident
  <2>3. tally' = tally /\ pc = "drain"
    BY <1>2 DEF DrainLeaf, block
  <2>4. metrics' = [s \in Sinks |-> IF InStratum(s, now) THEN Booked(metrics[s], d, 0)
                                                         ELSE metrics[s]]
    <3>1. metrics' = [s \in Sinks |-> IF InStratum(s, now)
                                      THEN [metrics[s] EXCEPT !.survived = @ + 1]
                                      ELSE metrics[s]]
      BY <1>2 DEF DrainLeaf, RecordSurvival, Record
    <3>2. \A m \in MetricsType : [m EXCEPT !.survived = @ + 1] = Booked(m, d, 0)
      BY SurvivalGains
    <3> QED BY <1>0, <3>1, <3>2
  <2>5. d \in Gain /\ d.misses = 0 /\ d.survived = 1 /\ d.invalidations = 0
    BY DEF Gain, Leaving
  <2> HIDE DEF k, d
  <2>6. d.misses + tally'.misses + Cardinality(LeafResident)
          = tally.misses + d.survived + Cardinality(LeafResident')
    BY <1>0, <2>1, <2>2, <2>3, <2>5, LoseOne
  <2>7. Books(d, 0)
    BY <1>0, <2>3, <2>4, <2>5, <2>6 DEF Books
  <2> QED BY <2>7
<1>3. CASE DrainStem
  <2> DEFINE d == Leaving(0, 1, 0)
  <2>1. LeafResident' = LeafResident
    BY <1>3, DrainResidency
  <2>2. tally' = tally /\ pc = "drain"
    BY <1>3 DEF DrainStem, block
  <2>3. metrics' = [s \in Sinks |-> IF InStratum(s, now) THEN Booked(metrics[s], d, 0)
                                                         ELSE metrics[s]]
    <3>1. metrics' = [s \in Sinks |-> IF InStratum(s, now)
                                      THEN [metrics[s] EXCEPT !.stemSurvived = @ + 1]
                                      ELSE metrics[s]]
      BY <1>3 DEF DrainStem, RecordStemSurvival, Record
    <3>2. \A m \in MetricsType : [m EXCEPT !.stemSurvived = @ + 1] = Booked(m, d, 0)
      BY SurvivalGains
    <3> QED BY <1>0, <3>1, <3>2
  <2>4. d \in Gain /\ d.misses = 0 /\ d.survived = 0 /\ d.invalidations = 0
    BY DEF Gain, Leaving
  <2> HIDE DEF d
  <2>5. d.misses + tally'.misses + Cardinality(LeafResident)
          = tally.misses + d.survived + Cardinality(LeafResident')
    BY <1>0, <2>1, <2>2, <2>4, FS_CardinalityType
  <2>6. Books(d, 0)
    BY <1>0, <2>2, <2>3, <2>4, <2>5 DEF Books
  <2> QED BY <2>6
<1>4. ASSUME NEW w \in Keys, Write(w) PROVE \E d, a : Books(d, a)
  <2> DEFINE n == IF w \in LeafResident THEN 1 ELSE 0
             ns == IF StemOf(w) \in StemResident THEN 1 ELSE 0
             d == Leaving(n, ns, n)
             a == w.addr
  <2>1. LeafResident' = LeafResident \ {w}
    BY <1>4, WriteResidency
  <2>2. tally' = [tally EXCEPT !.invalidations = @ + n] /\ pc = "writes"
    BY <1>4 DEF Write
  <2>3. tally'.misses = tally.misses
    BY <2>2 DEF CountsInv
  <2>4. a \in Addresses
    BY CacheAssumption DEF StateKeys
  <2>5. metrics' = [s \in Sinks |-> IF InStratum(s, now)
                                    THEN AfterWrite(metrics[s], n, ns, a)
                                    ELSE metrics[s]]
    BY <1>4 DEF Write, Record, AfterWrite
  <2>6. n \in Nat /\ ns \in Nat
    OBVIOUS
  <2>7. Cardinality(LeafResident) = Cardinality(LeafResident') + n
    BY <1>0, <2>1, LoseOne
  <2>8. Cardinality(LeafResident) \in Nat /\ Cardinality(LeafResident') \in Nat
    BY <1>0, <2>1, LoseOne
  <2> HIDE DEF n, ns, a
  <2>9. d \in Gain /\ d.misses = 0 /\ d.survived = n
    BY <2>6 DEF Gain, Leaving
  <2>10. \A m \in MetricsType : AfterWrite(m, n, ns, a) = Booked(m, d, a)
    BY <2>4, <2>6, WriteGains
  <2> HIDE DEF d
  <2>11. metrics' = [s \in Sinks |-> IF InStratum(s, now) THEN Booked(metrics[s], d, a)
                                                          ELSE metrics[s]]
    BY <1>0, <2>5, <2>10
  <2>12. d.misses + tally'.misses + Cardinality(LeafResident)
           = tally.misses + d.survived + Cardinality(LeafResident')
    BY <1>0, <2>3, <2>6, <2>7, <2>8, <2>9
  <2>13. Books(d, a)
    BY <1>0, <2>2, <2>4, <2>9, <2>11, <2>12 DEF Books
  <2> QED BY <2>13
<1>5. ASSUME NEW r \in Keys, Read(r) PROVE \E d, a : Books(d, a)
  <2> DEFINE out == Enter(leaf, LeafRoom, r)
             gone == Cardinality(out.evicted)
             d == Leaving(gone, 0, 0)
  <2>1. /\ out.hit = (r \in LeafResident)
        /\ LeafResident' = (LeafResident \ out.evicted) \cup {r}
        /\ \/ out.evicted = {}
           \/ r \notin LeafResident /\ \E v \in LeafResident : out.evicted = {v}
    BY <1>5, ReadResidency
  <2>2. /\ tally' = IF out.hit THEN [tally EXCEPT !.hits = @ + 1]
                               ELSE [tally EXCEPT !.misses = @ + 1]
        /\ pc = "reads"
    BY <1>5 DEF Read
  <2>3. metrics' = [s \in Sinks |-> IF InStratum(s, now)
                                    THEN [metrics[s] EXCEPT !.survived = @ + gone]
                                    ELSE metrics[s]]
    BY <1>5 DEF Read, RecordSurvival, Record
  <2> HIDE DEF out
  <2>4. /\ gone \in Nat
        /\ Cardinality(LeafResident) \in Nat /\ Cardinality(LeafResident') \in Nat
        /\ Cardinality(LeafResident) + (IF r \in LeafResident THEN 0 ELSE 1)
             = Cardinality(LeafResident') + gone
    BY <1>0, <2>1, TakeOne
  <2>5. tally'.misses = tally.misses + IF r \in LeafResident THEN 0 ELSE 1
    <3>1. CASE r \in LeafResident
      <4>1. tally' = [tally EXCEPT !.hits = @ + 1]
        BY <2>1, <2>2, <3>1
      <4>2. tally'.misses = tally.misses
        BY <4>1 DEF CountsInv
      <4> QED BY <1>0, <3>1, <4>2
    <3>2. CASE r \notin LeafResident
      <4>1. tally' = [tally EXCEPT !.misses = @ + 1]
        BY <2>1, <2>2, <3>2
      <4>2. tally'.misses = tally.misses + 1
        BY <4>1 DEF CountsInv
      <4> QED BY <3>2, <4>2
    <3> QED BY <3>1, <3>2
  <2> HIDE DEF gone
  <2>6. d \in Gain /\ d.misses = 0 /\ d.survived = gone /\ d.invalidations = 0
    BY <2>4 DEF Gain, Leaving
  <2>7. \A m \in MetricsType : [m EXCEPT !.survived = @ + gone] = Booked(m, d, 0)
    BY <2>4, SurvivalGains
  <2> HIDE DEF d
  <2>8. metrics' = [s \in Sinks |-> IF InStratum(s, now) THEN Booked(metrics[s], d, 0)
                                                         ELSE metrics[s]]
    BY <1>0, <2>3, <2>7
  <2>9. d.misses + tally'.misses + Cardinality(LeafResident)
          = tally.misses + d.survived + Cardinality(LeafResident')
    BY <1>0, <2>4, <2>5, <2>6
  <2>10. Books(d, 0)
    BY <1>0, <2>2, <2>6, <2>8, <2>9 DEF Books
  <2> QED BY <2>10
<1>6. CASE ReadStem
  <2> DEFINE out == Enter(stem, StemRoom, Head(blockStems))
             gone == Cardinality(out.evicted)
             d == Leaving(0, gone, 0)
  <2>1. LeafResident' = LeafResident
    BY <1>6, ReadStemResidency
  <2>2. tally' = tally /\ pc = "stems"
    BY <1>6 DEF ReadStem
  <2>3. metrics' = [s \in Sinks |-> IF InStratum(s, now)
                                    THEN [metrics[s] EXCEPT !.stemSurvived = @ + gone]
                                    ELSE metrics[s]]
    BY <1>6 DEF ReadStem, RecordStemSurvival, Record
  <2>4. gone \in Nat
    BY <1>6, StemVictim
  <2> HIDE DEF gone
  <2>5. d \in Gain /\ d.misses = 0 /\ d.survived = 0 /\ d.invalidations = 0
    BY <2>4 DEF Gain, Leaving
  <2>6. \A m \in MetricsType : [m EXCEPT !.stemSurvived = @ + gone] = Booked(m, d, 0)
    BY <2>4, SurvivalGains
  <2> HIDE DEF d
  <2>7. metrics' = [s \in Sinks |-> IF InStratum(s, now) THEN Booked(metrics[s], d, 0)
                                                         ELSE metrics[s]]
    BY <1>0, <2>3, <2>6
  <2>8. d.misses + tally'.misses + Cardinality(LeafResident)
          = tally.misses + d.survived + Cardinality(LeafResident')
    BY <1>0, <2>1, <2>2, <2>5, FS_CardinalityType
  <2>9. Books(d, 0)
    BY <1>0, <2>2, <2>5, <2>7, <2>8 DEF Books
  <2> QED BY <2>9
<1>7. CASE EndBlock
  <2> DEFINE reads == Cardinality(rec.reads)
             d == Totals(reads, tally.hits, tally.misses)
  <2>1. LeafResident' = LeafResident
    BY <1>7, QuietResidency
  <2>2. tally'.misses = 0 /\ pc = "stems"
    BY <1>7 DEF EndBlock, TallyNew
  <2>3. metrics' = [s \in Sinks |-> IF InStratum(s, now)
                                    THEN AfterBlock(metrics[s], reads, tally.hits,
                                                    tally.misses)
                                    ELSE metrics[s]]
    BY <1>7 DEF EndBlock, Record, AfterBlock
  <2>4. reads \in Nat /\ reads = tally.hits + tally.misses
    BY <1>0 DEF CountsInv
  <2> HIDE DEF reads
  <2>5. /\ d \in Gain /\ d.misses = tally.misses /\ d.survived = 0
        /\ d.invalidations = 0
    BY <1>0, <2>4 DEF Gain, Totals
  <2>6. \A m \in MetricsType :
          AfterBlock(m, reads, tally.hits, tally.misses) = Booked(m, d, 0)
    BY <1>0, <2>4, BlockGains
  <2> HIDE DEF d
  <2>7. metrics' = [s \in Sinks |-> IF InStratum(s, now) THEN Booked(metrics[s], d, 0)
                                                         ELSE metrics[s]]
    BY <1>0, <2>3, <2>6
  <2>8. d.misses + tally'.misses + Cardinality(LeafResident)
          = tally.misses + d.survived + Cardinality(LeafResident')
    BY <1>0, <2>1, <2>2, <2>5, FS_CardinalityType
  <2>9. Books(d, 0)
    BY <1>0, <2>2, <2>5, <2>7, <2>8 DEF Books
  <2> QED BY <2>9
<1> QED BY <1>1, <1>2, <1>3, <1>4, <1>5, <1>6, <1>7 DEF Next

(* Every step keeps the counters numbers, and the block's reads are the    *)
(* hits and the misses counted so far.                                     *)
LEMMA CountsStep ==
  CachesInv /\ BlockInv /\ CountsInv /\ [Next]_vars => CountsInv'
<1> SUFFICES ASSUME CachesInv, BlockInv, CountsInv, [Next]_vars PROVE CountsInv'
  OBVIOUS
<1>0. /\ tally = [hits |-> tally.hits, misses |-> tally.misses,
                  invalidations |-> tally.invalidations]
      /\ tally.hits \in Nat /\ tally.misses \in Nat /\ tally.invalidations \in Nat
      /\ metrics \in [Sinks -> MetricsType]
      /\ tally.hits + tally.misses = Cardinality(rec.reads)
  BY DEF CountsInv
<1>1. metrics' \in [Sinks -> MetricsType]
  <2>1. CASE Unheard
    BY <1>0, <2>1 DEF Unheard
  <2>2. ASSUME NEW d, NEW a, Books(d, a) PROVE metrics' \in [Sinks -> MetricsType]
    <3>1. d \in Gain /\ \A m \in MetricsType : Booked(m, d, a) \in MetricsType
      BY <2>2, BookedAdds DEF Books
    <3> QED BY <1>0, <2>2, <3>1 DEF Books
  <2> QED BY <2>1, <2>2, StepBooks
<1>2. /\ tally' \in [hits : Nat, misses : Nat, invalidations : Nat]
      /\ tally'.hits + tally'.misses = Cardinality(rec'.reads)
  <2>1. CASE Arrive
    <3>1. tally' = tally /\ rec'.reads = {} /\ rec.reads = {}
      BY <2>1 DEF Arrive, BlockInv
    <3> QED BY <1>0, <3>1
  <2>2. CASE \/ DrainLeaf \/ DrainStem \/ BeginWrites \/ BeginReads \/ BeginStems
             \/ ReadStem \/ UNCHANGED vars
    <3>1. tally' = tally /\ rec' = rec
      BY <2>2 DEF DrainLeaf, DrainStem, BeginWrites, BeginReads, BeginStems, ReadStem, block, vars
    <3> QED BY <1>0, <3>1
  <2>3. ASSUME NEW w \in Keys, Write(w)
        PROVE  /\ tally' \in [hits : Nat, misses : Nat, invalidations : Nat]
               /\ tally'.hits + tally'.misses = Cardinality(rec'.reads)
    <3> DEFINE n == IF w \in LeafResident THEN 1 ELSE 0
    <3>1. tally' = [tally EXCEPT !.invalidations = @ + n] /\ rec' = rec /\ n \in Nat
      BY <2>3 DEF Write
    <3> HIDE DEF n
    <3>2. /\ tally' \in [hits : Nat, misses : Nat, invalidations : Nat]
          /\ tally'.hits = tally.hits /\ tally'.misses = tally.misses
      BY <1>0, <3>1
    <3> QED BY <1>0, <3>1, <3>2
  <2>4. ASSUME NEW r \in Keys, Read(r)
        PROVE  /\ tally' \in [hits : Nat, misses : Nat, invalidations : Nat]
               /\ tally'.hits + tally'.misses = Cardinality(rec'.reads)
    <3>1. /\ rec'.reads = rec.reads \cup {r} /\ r \notin rec.reads
          /\ \/ tally' = [tally EXCEPT !.hits = @ + 1]
             \/ tally' = [tally EXCEPT !.misses = @ + 1]
      BY <2>4 DEF Read, BlockInv
    <3>2. Cardinality(rec'.reads) = Cardinality(rec.reads) + 1
      BY <3>1, FS_AddElement DEF BlockInv
    <3>3. CASE tally' = [tally EXCEPT !.hits = @ + 1]
      <4>1. /\ tally' \in [hits : Nat, misses : Nat, invalidations : Nat]
            /\ tally'.hits = tally.hits + 1 /\ tally'.misses = tally.misses
        BY <1>0, <3>3
      <4> QED BY <1>0, <3>2, <4>1
    <3>4. CASE tally' = [tally EXCEPT !.misses = @ + 1]
      <4>1. /\ tally' \in [hits : Nat, misses : Nat, invalidations : Nat]
            /\ tally'.hits = tally.hits /\ tally'.misses = tally.misses + 1
        BY <1>0, <3>4
      <4> QED BY <1>0, <3>2, <4>1
    <3> QED BY <3>1, <3>3, <3>4
  <2>5. CASE EndBlock
    <3>1. /\ tally' = [hits |-> 0, misses |-> 0, invalidations |-> 0]
          /\ rec'.reads = {}
      BY <2>5 DEF EndBlock, TallyNew, NoBlock
    <3> QED BY <3>1, FS_EmptySet
  <2> QED BY <2>1, <2>2, <2>3, <2>4, <2>5 DEF Next
<1> QED BY <1>1, <1>2 DEF CountsInv

(* What is resident after a step is a key, and finitely many are.          *)
LEMMA ResidentKeysNext ==
  ASSUME CachesInv', BlockInv'
  PROVE  LeafResident' \in SUBSET Keys /\ IsFiniteSet(LeafResident')
<1>1. PolicyInv(kind', leaf'.policy, LeafRoom, Keys) /\ kind' \in PolicyKinds
  BY DEF CachesInv, BlockInv, CacheInv
<1> QED BY <1>1, RoomForOne, PolicyLenResident DEF LeafResident

(* A gain keeps the books of each sink.                                    *)
LEMMA GainKeepsBooks ==
  ASSUME CachesInv, BlockInv, CountsInv, CountsInv', LeafResident' \in SUBSET Keys,
         IsFiniteSet(LeafResident'), BooksBalance, NEW d, NEW a, Books(d, a)
  PROVE  BooksBalance'
<1> SUFFICES ASSUME NEW s \in Sinks
             PROVE  /\ s \in AlwaysActive =>
                         metrics'[s].misses + tally'.misses
                           = metrics'[s].survived + Cardinality(LeafResident')
                    /\ metrics'[s].reads = metrics'[s].hits + metrics'[s].misses
                    /\ metrics'[s].invalidations = SumFunction(metrics'[s].contracts)
  BY DEF BooksBalance, AlwaysActive
<1> DEFINE m == metrics[s]
           new == metrics'[s]
<1>0. m \in MetricsType /\ new \in MetricsType
  BY DEF CountsInv
<1>1. /\ s \in AlwaysActive => m.misses + tally.misses = m.survived + Cardinality(LeafResident)
      /\ m.reads = m.hits + m.misses
      /\ m.invalidations = SumFunction(m.contracts)
  BY DEF BooksBalance
<1>2. /\ d \in Gain /\ (d.invalidations = 0 \/ a \in Addresses)
      /\ new = IF InStratum(s, now) THEN Booked(m, d, a) ELSE m
      /\ d.misses + tally'.misses + Cardinality(LeafResident)
           = tally.misses + d.survived + Cardinality(LeafResident')
  BY DEF Books
<1>3. s \in AlwaysActive => InStratum(s, now)
  BY DEF AlwaysActive, Books
<1>4. /\ Cardinality(LeafResident) \in Nat /\ Cardinality(LeafResident') \in Nat
      /\ tally.misses \in Nat /\ tally'.misses \in Nat
  BY ResidentKeys, FS_CardinalityType DEF CountsInv
<1> HIDE DEF m, new
<1>5. CASE ~InStratum(s, now)
  <2>1. new = m /\ s \notin AlwaysActive
    BY <1>2, <1>3, <1>5
  <2> QED BY <1>1, <2>1 DEF new
<1>6. CASE InStratum(s, now)
  <2>1. new = Booked(m, d, a)
    BY <1>2, <1>6
  <2>2. /\ new.reads = m.reads + d.reads /\ new.hits = m.hits + d.hits
        /\ new.misses = m.misses + d.misses /\ new.survived = m.survived + d.survived
        /\ new.invalidations = m.invalidations + d.invalidations
    BY <2>1 DEF Booked
  <2>3. /\ d.reads \in Nat /\ d.hits \in Nat /\ d.misses \in Nat /\ d.survived \in Nat
        /\ d.invalidations \in Nat /\ d.reads = d.hits + d.misses
    BY <1>2 DEF Gain
  <2>4. /\ m.reads \in Nat /\ m.hits \in Nat /\ m.misses \in Nat /\ m.survived \in Nat
        /\ m.invalidations \in Nat
        /\ m.contracts \in [Addresses -> Nat] /\ new.contracts \in [Addresses -> Nat]
    BY <1>0 DEF MetricsType
  <2>5. SumFunction(new.contracts) = SumFunction(m.contracts) + d.invalidations
    <3>1. \A b \in Addresses : new.contracts[b]
            = m.contracts[b] + IF b = a THEN d.invalidations ELSE 0
      BY <1>0, <1>2, <2>1, BookedAdds
    <3>2. CASE a \in Addresses
      <4>1. new.contracts[a] = m.contracts[a] + d.invalidations
        BY <3>1, <3>2
      <4>2. \A b \in Addresses \ {a} : new.contracts[b] = m.contracts[b]
        <5> SUFFICES ASSUME NEW b \in Addresses \ {a} PROVE new.contracts[b] = m.contracts[b]
          OBVIOUS
        <5>1. new.contracts[b] = m.contracts[b] + 0 /\ m.contracts[b] \in Nat
          BY <2>4, <3>1
        <5> QED BY <5>1
      <4>3. IsFiniteSet(Addresses)
        BY CacheAssumption
      <4> QED BY <2>3, <2>4, <3>2, <4>1, <4>2, <4>3, SumGrows
    <3>3. CASE a \notin Addresses
      <4>1. d.invalidations = 0
        BY <1>2, <3>3
      <4>2. new.contracts = m.contracts
        <5>1. \A b \in Addresses : new.contracts[b] = m.contracts[b]
          BY <2>4, <3>1, <4>1
        <5> QED BY <2>4, <5>1
      <4>3. SumFunction(m.contracts) \in Nat
        BY <2>4, SumIsNatural, CacheAssumption
      <4> QED BY <4>1, <4>2, <4>3
    <3> QED BY <3>2, <3>3
  <2>6. new.reads = new.hits + new.misses
    BY <1>1, <2>2, <2>3, <2>4
  <2>7. s \in AlwaysActive =>
          new.misses + tally'.misses = new.survived + Cardinality(LeafResident')
    <3> SUFFICES ASSUME s \in AlwaysActive
                 PROVE  new.misses + tally'.misses = new.survived + Cardinality(LeafResident')
      OBVIOUS
    <3>1. m.misses + tally.misses = m.survived + Cardinality(LeafResident)
      BY <1>1
    <3> QED BY <1>2, <1>4, <2>2, <2>3, <2>4, <3>1
  <2>8. new.invalidations = SumFunction(new.contracts)
    BY <1>1, <2>2, <2>5
  <2> QED BY <2>6, <2>7, <2>8 DEF new
<1> QED BY <1>5, <1>6

(* Every step keeps the books.                                             *)
LEMMA BooksStep ==
  CachesInv /\ BlockInv /\ CountsInv /\ BooksBalance /\ [Next]_vars => BooksBalance'
<1> SUFFICES ASSUME CachesInv, BlockInv, CountsInv, BooksBalance, [Next]_vars
             PROVE  BooksBalance'
  OBVIOUS
<1>1. CASE Unheard
  BY <1>1 DEF Unheard, BooksBalance, AlwaysActive
<1>2. ASSUME NEW d, NEW a, Books(d, a) PROVE BooksBalance'
  <2>1. CountsInv' /\ CachesInv' /\ BlockInv'
    BY CountsStep, CachesStep, BlockStep
  <2>2. LeafResident' \in SUBSET Keys /\ IsFiniteSet(LeafResident')
    BY <2>1, ResidentKeysNext
  <2> QED BY <1>2, <2>1, <2>2, GainKeepsBooks
<1> QED BY <1>1, <1>2, StepBooks

(* Sinks that share the blocks out among them, and one of which is active  *)
(* at the block, gain together what that one does.                         *)
LEMMA PartGains ==
  ASSUME NEW part \in Partitions, now \in 1..LastBlock, NEW n \in Nat,
         NEW f \in [part -> Nat], NEW h \in [part -> Nat],
         \A s \in part : h[s] = f[s] + IF InStratum(s, now) THEN n ELSE 0
  PROVE  SumFunction(h) = SumFunction(f) + n
<1> DEFINE active == {s \in part : InStratum(s, now)}
<1>1. IsFiniteSet(part) /\ IsFiniteSet(active) /\ Cardinality(active) = 1
  <2>1. IsFiniteSet(part) /\ Cardinality(active) = 1
    BY CacheAssumption, FS_Subset DEF Partitions
  <2> QED BY <2>1, FS_Subset
<1>2. PICK s \in part : active = {s}
  <2> HIDE DEF active
  <2>1. PICK x : active = {x}
    BY <1>1, FS_Singleton
  <2>2. active \subseteq part
    BY DEF active
  <2> QED BY <2>1, <2>2
<1>3. InStratum(s, now) /\ \A x \in part \ {s} : ~InStratum(x, now)
  BY <1>2
<1>4. h[s] = f[s] + n
  BY <1>3
<1>5. \A x \in part \ {s} : h[x] = f[x]
  <2> SUFFICES ASSUME NEW x \in part \ {s} PROVE h[x] = f[x]
    OBVIOUS
  <2>1. h[x] = f[x] + 0 /\ f[x] \in Nat
    BY <1>3
  <2> QED BY <2>1
<1> QED BY <1>1, <1>4, <1>5, SumGrows

(* Partitions agree on every total, in the middle of a block too.          *)
StrataAgree ==
  \A part, other \in Partitions :
    /\ \A field \in Counters : Total(field, part) = Total(field, other)
    /\ \A a \in Addresses : ChargedTo(a, part) = ChargedTo(a, other)

(* A gain is one for every partition. *)
LEMMA PartitionTotals ==
  ASSUME CountsInv, CountsInv', NEW d, NEW a, Books(d, a), NEW part \in Partitions
  PROVE  /\ \A field \in Counters : Total(field, part)' = Total(field, part) + d[field]
         /\ \A b \in Addresses : ChargedTo(b, part)'
              = ChargedTo(b, part) + IF b = a THEN d.invalidations ELSE 0
<1>0. /\ metrics \in [Sinks -> MetricsType] /\ metrics' \in [Sinks -> MetricsType]
      /\ d \in Gain /\ now \in 1..LastBlock /\ part \subseteq Sinks
  BY DEF CountsInv, Books, Partitions
<1>1. /\ \A s \in part, f \in Counters : metrics[s][f] \in Nat /\ metrics'[s][f] \in Nat
      /\ \A s \in part, b \in Addresses :
           metrics[s].contracts[b] \in Nat /\ metrics'[s].contracts[b] \in Nat
      /\ \A f \in Counters : d[f] \in Nat
      /\ d.invalidations \in Nat
  <2>1. \A m \in MetricsType : /\ \A f \in Counters : m[f] \in Nat
                               /\ \A b \in Addresses : m.contracts[b] \in Nat
    BY DEF MetricsType, Counters
  <2>2. \A f \in Counters : d[f] \in Nat
    BY <1>0 DEF Gain, Counters
  <2>3. d.invalidations \in Nat
    BY <1>0 DEF Gain
  <2> QED BY <1>0, <2>1, <2>2, <2>3
<1>2. ASSUME NEW s \in part
      PROVE  /\ \A f \in Counters :
                  metrics'[s][f] = metrics[s][f] + IF InStratum(s, now) THEN d[f] ELSE 0
             /\ \A b \in Addresses :
                  metrics'[s].contracts[b] = metrics[s].contracts[b]
                    + IF InStratum(s, now) THEN (IF b = a THEN d.invalidations ELSE 0) ELSE 0
  <2>1. metrics[s] \in MetricsType
    BY <1>0
  <2>2. CASE InStratum(s, now)
    <3>1. metrics'[s] = Booked(metrics[s], d, a)
      BY <1>0, <2>2 DEF Books
    <3> QED BY <1>0, <2>1, <2>2, <3>1, BookedAdds
  <2>3. CASE ~InStratum(s, now)
    <3>1. metrics'[s] = metrics[s]
      BY <1>0, <2>3 DEF Books
    <3> QED BY <1>1, <2>3, <3>1
  <2> QED BY <2>2, <2>3
<1>3. ASSUME NEW field \in Counters
      PROVE  Total(field, part)' = Total(field, part) + d[field]
  <2> DEFINE f == [s \in part |-> metrics[s][field]]
             h == [s \in part |-> metrics'[s][field]]
  <2>1. f \in [part -> Nat] /\ h \in [part -> Nat] /\ d[field] \in Nat
    BY <1>1
  <2>2. \A s \in part : h[s] = f[s] + IF InStratum(s, now) THEN d[field] ELSE 0
    BY <1>2
  <2>3. Total(field, part) = SumFunction(f) /\ Total(field, part)' = SumFunction(h)
    BY DEF Total
  <2> HIDE DEF f, h
  <2> QED BY <1>0, <2>1, <2>2, <2>3, PartGains
<1>4. ASSUME NEW b \in Addresses
      PROVE  ChargedTo(b, part)' = ChargedTo(b, part) + IF b = a THEN d.invalidations ELSE 0
  <2> DEFINE f == [s \in part |-> metrics[s].contracts[b]]
             h == [s \in part |-> metrics'[s].contracts[b]]
             n == IF b = a THEN d.invalidations ELSE 0
  <2>1. f \in [part -> Nat] /\ h \in [part -> Nat] /\ n \in Nat
    BY <1>1
  <2>2. \A s \in part : h[s] = f[s] + IF InStratum(s, now) THEN n ELSE 0
    BY <1>2
  <2>3. ChargedTo(b, part) = SumFunction(f) /\ ChargedTo(b, part)' = SumFunction(h)
    BY DEF ChargedTo
  <2> HIDE DEF f, h, n
  <2>4. ChargedTo(b, part)' = ChargedTo(b, part) + n
    BY <1>0, <2>1, <2>2, <2>3, PartGains
  <2> QED BY <2>4 DEF n
<1> QED BY <1>3, <1>4

(* Every step keeps partitions in agreement.                               *)
LEMMA StrataStep ==
  CachesInv /\ BlockInv /\ CountsInv /\ StrataAgree /\ [Next]_vars => StrataAgree'
<1> SUFFICES ASSUME CachesInv, BlockInv, CountsInv, StrataAgree, [Next]_vars
             PROVE  StrataAgree'
  OBVIOUS
<1>1. CASE Unheard
  <2>1. metrics' = metrics
    BY <1>1 DEF Unheard
  <2>2. /\ \A field \in Counters, part \in Partitions : Total(field, part)' = Total(field, part)
        /\ \A a \in Addresses, part \in Partitions : ChargedTo(a, part)' = ChargedTo(a, part)
    BY <2>1 DEF Total, ChargedTo
  <2>3. ASSUME NEW part \in Partitions, NEW other \in Partitions
        PROVE  /\ \A field \in Counters : Total(field, part)' = Total(field, other)'
               /\ \A b \in Addresses : ChargedTo(b, part)' = ChargedTo(b, other)'
    <3>1. /\ \A field \in Counters : Total(field, part) = Total(field, other)
          /\ \A b \in Addresses : ChargedTo(b, part) = ChargedTo(b, other)
      BY DEF StrataAgree
    <3> QED BY <2>2, <3>1
  <2> QED BY <2>3 DEF StrataAgree, Partitions
<1>2. ASSUME NEW d, NEW a, Books(d, a) PROVE StrataAgree'
  <2>1. CountsInv'
    BY CountsStep
  <2>2. ASSUME NEW part \in Partitions, NEW other \in Partitions
        PROVE  /\ \A field \in Counters : Total(field, part)' = Total(field, other)'
               /\ \A b \in Addresses : ChargedTo(b, part)' = ChargedTo(b, other)'
    <3>1. /\ \A field \in Counters : Total(field, part) = Total(field, other)
          /\ \A b \in Addresses : ChargedTo(b, part) = ChargedTo(b, other)
      BY DEF StrataAgree
    <3>2. /\ \A field \in Counters : Total(field, part)' = Total(field, part) + d[field]
          /\ \A b \in Addresses : ChargedTo(b, part)'
               = ChargedTo(b, part) + IF b = a THEN d.invalidations ELSE 0
      BY <1>2, <2>1, PartitionTotals
    <3>3. /\ \A field \in Counters : Total(field, other)' = Total(field, other) + d[field]
          /\ \A b \in Addresses : ChargedTo(b, other)'
               = ChargedTo(b, other) + IF b = a THEN d.invalidations ELSE 0
      BY <1>2, <2>1, PartitionTotals
    <3> QED BY <3>1, <3>2, <3>3
  <2> QED BY <2>2 DEF StrataAgree, Partitions
<1> QED BY <1>1, <1>2, StepBooks

(* The counters start at zero. *)
LEMMA InitCounts == Init => CountsInv /\ BooksBalance /\ StrataAgree
<1> SUFFICES ASSUME Init PROVE CountsInv /\ BooksBalance /\ StrataAgree
  OBVIOUS
<1> DEFINE none == [a \in Addresses |-> 0]
<1>1. /\ metrics = [s \in Sinks |-> MetricsNew]
      /\ tally = [hits |-> 0, misses |-> 0, invalidations |-> 0]
      /\ rec.reads = {}
  BY DEF Init, TallyNew, NoBlock
<1>2. SumFunction(none) = 0
  BY CacheAssumption, SumOfZeros
<1>3. /\ MetricsNew \in MetricsType
      /\ MetricsNew.reads = 0 /\ MetricsNew.hits = 0 /\ MetricsNew.misses = 0
      /\ MetricsNew.survived = 0 /\ MetricsNew.invalidations = 0
      /\ MetricsNew.contracts = none
      /\ \A f \in Counters : MetricsNew[f] = 0
  BY DEF MetricsNew, MetricsType, Counters
<1>4. LeafResident = {} /\ Cardinality(LeafResident) = 0 /\ Cardinality(rec.reads) = 0
  <2>1. leaf = CacheNew /\ kind \in PolicyKinds
    BY DEF Init
  <2>2. LeafResident = {}
    BY <2>1, CacheNewInv, RoomForOne DEF LeafResident
  <2> QED BY <1>1, <2>2, FS_EmptySet
<1>5. CountsInv
  BY <1>1, <1>3, <1>4 DEF CountsInv
<1>6. BooksBalance
  <2> HIDE DEF none
  <2> SUFFICES ASSUME NEW s \in Sinks
               PROVE  LET m == metrics[s]
                      IN /\ s \in AlwaysActive =>
                              m.misses + tally.misses = m.survived + Cardinality(LeafResident)
                         /\ m.reads = m.hits + m.misses
                         /\ m.invalidations = SumFunction(m.contracts)
    BY DEF BooksBalance
  <2>1. metrics[s] = MetricsNew
    BY <1>1
  <2> QED BY <1>1, <1>2, <1>3, <1>4, <2>1
<1>7. StrataAgree
  <2>1. ASSUME NEW part \in Partitions
        PROVE  /\ \A f \in Counters : Total(f, part) = 0
               /\ \A b \in Addresses : ChargedTo(b, part) = 0
    <3>1. part \subseteq Sinks /\ IsFiniteSet(part)
      BY CacheAssumption, FS_Subset DEF Partitions
    <3>2. \A f \in Counters : [s \in part |-> metrics[s][f]] \in [part -> {0}]
      BY <1>1, <1>3, <3>1
    <3>3. \A b \in Addresses : [s \in part |-> metrics[s].contracts[b]] \in [part -> {0}]
      BY <1>1, <1>3, <3>1
    <3>4. \A f \in [part -> {0}] : SumFunction(f) = 0
      BY <3>1, SumOfZeros
    <3> QED BY <3>2, <3>3, <3>4 DEF Total, ChargedTo
  <2> QED BY <2>1 DEF StrataAgree
<1> QED BY <1>5, <1>6, <1>7

(* The books are kept at every step. *)
LEMMA AlwaysCounted == Spec => [](IInv /\ CountsInv /\ BooksBalance /\ StrataAgree)
<1>1. Init => IInv /\ CountsInv /\ BooksBalance /\ StrataAgree
  BY InitIInv, InitCounts
<1>2. IInv /\ CountsInv /\ BooksBalance /\ StrataAgree /\ [Next]_vars
        => (IInv /\ CountsInv /\ BooksBalance /\ StrataAgree)'
  BY StepIInv, CountsStep, BooksStep, StrataStep DEF IInv
<1> QED BY <1>1, <1>2, PTL DEF Spec

(* A leaf that entered by a miss is resident or was reported once; reads   *)
(* are hits or misses; every invalidation is charged to one contract       *)
(* (cache.rs 63-138, metrics.rs 44-47 and 114-144).                        *)
THEOREM BooksAlwaysBalance == Spec => []BooksBalance
BY AlwaysCounted, PTL

(* Strata that share the blocks out among them see together what any       *)
(* others that do see (metrics.rs 113-125).                                *)
THEOREM StrataAlwaysAddUp == Spec => []StrataAddUp
<1>1. StrataAgree => StrataAddUp
  BY DEF StrataAgree, StrataAddUp
<1> QED BY <1>1, AlwaysCounted, PTL

-----------------------------------------------------------------------------
(* What sealing the accumulator needs: finitely many leaves, each warm or  *)
(* not and written or not.                                                 *)
LeafState == [resident : BOOLEAN, written : BOOLEAN]
LeavesInv ==
  /\ IsFiniteSet(DOMAIN acc.leaves)
  /\ \A l \in DOMAIN acc.leaves : acc.leaves[l] \in LeafState

(* A record of a leaf keeps them so. *)
LEMMA RecordLeafTyped ==
  ASSUME NEW a, a = [leaves |-> a.leaves, stems |-> a.stems],
         IsFiniteSet(DOMAIN a.leaves),
         \A l \in DOMAIN a.leaves : a.leaves[l] \in LeafState,
         NEW k, NEW res \in BOOLEAN, NEW wr \in BOOLEAN
  PROVE  LET new == RecordLeaf(a, k, res, wr)
         IN /\ IsFiniteSet(DOMAIN new.leaves)
            /\ \A l \in DOMAIN new.leaves : new.leaves[l] \in LeafState
<1> DEFINE id == KeyToLeaf(k)
           known == id \in DOMAIN a.leaves
           one == [resident |-> res /\ (known => a.leaves[id].resident),
                   written |-> wr \/ (known /\ a.leaves[id].written)]
           leaves == [l \in DOMAIN a.leaves \cup {id} |-> IF l = id THEN one ELSE a.leaves[l]]
           new == RecordLeaf(a, k, res, wr)
<1>1. new.leaves = leaves
  <2>1. new = [a EXCEPT !.leaves = leaves]
    BY DEF RecordLeaf
  <2> HIDE DEF new, leaves
  <2> QED BY <2>1
<1>2. one \in LeafState
  <2>1. (res /\ (known => a.leaves[id].resident)) \in BOOLEAN
    OBVIOUS
  <2>2. (wr \/ (known /\ a.leaves[id].written)) \in BOOLEAN
    OBVIOUS
  <2> QED BY <2>1, <2>2 DEF LeafState
<1> HIDE DEF new, one, id
<1>3. IsFiniteSet(DOMAIN leaves)
  <2>1. DOMAIN leaves = DOMAIN a.leaves \cup {id}
    OBVIOUS
  <2> QED BY <2>1, FS_AddElement
<1>4. \A l \in DOMAIN leaves : leaves[l] \in LeafState
  BY <1>2
<1> HIDE DEF leaves
<1> QED BY <1>1, <1>3, <1>4 DEF new

(* Every step keeps them so.                                               *)
LEMMA LeavesStep == AccumInv /\ LeavesInv /\ [Next]_vars => LeavesInv'
<1> SUFFICES ASSUME AccumInv, LeavesInv, [Next]_vars PROVE LeavesInv'
  OBVIOUS
<1>1. CASE \/ Arrive \/ DrainLeaf \/ DrainStem \/ BeginWrites \/ BeginReads
           \/ BeginStems \/ UNCHANGED vars
  <2>1. acc' = acc
    BY <1>1 DEF Arrive, DrainLeaf, DrainStem, BeginWrites, BeginReads, BeginStems, block, vars
  <2> QED BY <2>1 DEF LeavesInv
<1>2. ASSUME NEW w \in Keys, Write(w) PROVE LeavesInv'
  <2> DEFINE res == w \in writtenResident
  <2>1. acc' = RecordLeaf(acc, w, res, TRUE) /\ res \in BOOLEAN /\ TRUE \in BOOLEAN
    BY <1>2 DEF Write
  <2> HIDE DEF res
  <2> QED BY <2>1, RecordLeafTyped DEF LeavesInv, AccumInv
<1>3. ASSUME NEW r \in Keys, Read(r) PROVE LeavesInv'
  <2> DEFINE res == Enter(leaf, LeafRoom, r).hit \/ r \in writtenResident
  <2>1. acc' = RecordLeaf(acc, r, res, FALSE) /\ res \in BOOLEAN /\ FALSE \in BOOLEAN
    BY <1>3 DEF Read
  <2> HIDE DEF res
  <2> QED BY <2>1, RecordLeafTyped DEF LeavesInv, AccumInv
<1>4. CASE ReadStem
  <2>1. acc'.leaves = acc.leaves
    <3>1. acc' = RecordStem(acc, Head(blockStems), Enter(stem, StemRoom, Head(blockStems)).hit)
      BY <1>4 DEF ReadStem
    <3> QED BY <3>1, RecordStemEffect DEF AccumInv
  <2> QED BY <2>1 DEF LeavesInv
<1>5. CASE EndBlock
  <2>1. acc' = [leaves |-> <<>>, stems |-> <<>>]
    BY <1>5 DEF EndBlock, AccumNew
  <2>2. DOMAIN acc'.leaves = {}
    BY <2>1
  <2> QED BY <2>2, FS_EmptySet DEF LeavesInv
<1> QED BY <1>1, <1>2, <1>3, <1>4, <1>5 DEF Next

(* The strict rule leaves out a stem only if the relaxed rule does. *)
LEMMA StrictIsRelaxed ==
  ASSUME NEW a, NEW s, Elides(a, s)
  PROVE  ElidesRelaxed(a, s)
BY DEF Elides, ElidesRelaxed, Dirty, Written

(* The entries of the stems a rule does not leave out cost at most those   *)
(* of all the stems, and more stems cost more.                             *)
LEMMA StemCost ==
  ASSUME NEW S, IsFiniteSet(S), NEW T \in SUBSET S
  PROVE  /\ Cardinality(S) \in Nat /\ Cardinality(T) \in Nat
         /\ STEM_ENTRY_BYTES * Cardinality(T) \in Nat
         /\ STEM_ENTRY_BYTES * Cardinality(S) \in Nat
         /\ STEM_ENTRY_BYTES * Cardinality(T) <= STEM_ENTRY_BYTES * Cardinality(S)
<1>1. /\ Cardinality(S) \in Nat /\ Cardinality(T) \in Nat
      /\ Cardinality(T) <= Cardinality(S)
  BY FS_Subset, FS_CardinalityType
<1> QED BY <1>1 DEF STEM_ENTRY_BYTES

(* No rule sends more leaf bytes than the naive witness.                   *)
LEMMA LeafCost ==
  ASSUME LeavesInv
  PROVE  LET naive == SumFunction([l \in DOMAIN acc.leaves |-> LeafNaive(acc.leaves[l])])
             sent == SumFunction([l \in DOMAIN acc.leaves |-> LeafSent(acc.leaves[l])])
         IN naive \in Nat /\ sent \in Nat /\ sent <= naive
<1> DEFINE D == DOMAIN acc.leaves
           f == [l \in D |-> LeafSent(acc.leaves[l])]
           h == [l \in D |-> LeafNaive(acc.leaves[l])]
<1>1. \A st \in LeafState :
        LeafNaive(st) \in Nat /\ LeafSent(st) \in Nat /\ LeafSent(st) <= LeafNaive(st)
  BY DEF LeafState, LeafNaive, LeafSent, LEAF_ENTRY_BYTES, VALUE_BYTES
<1>2. IsFiniteSet(D) /\ \A l \in D : acc.leaves[l] \in LeafState
  BY DEF LeavesInv
<1>3. f \in [D -> Nat] /\ h \in [D -> Nat] /\ \A l \in D : f[l] <= h[l]
  BY <1>1, <1>2
<1> HIDE DEF D, f, h
<1>4. SumFunction(f) \in Nat /\ SumFunction(h) \in Nat /\ SumFunction(f) <= SumFunction(h)
  BY <1>2, <1>3, SumIsNatural, SumMonotone
<1> QED BY <1>4 DEF f, h, D

(* The byte counts of a sealed accumulator.                                *)
LEMMA SealedBytes ==
  ASSUME LeavesInv
  PROVE  LET wb == Seal(acc)
         IN /\ wb.sent <= wb.naive
            /\ wb.sent_stem_opt <= wb.sent
            /\ wb.sent_stem <= wb.naive
            /\ IPA_FLOOR_BYTES <= wb.naive
<1> DEFINE stems == StemsTouched(acc)
           naive == SumFunction([l \in DOMAIN acc.leaves |-> LeafNaive(acc.leaves[l])])
           sent == SumFunction([l \in DOMAIN acc.leaves |-> LeafSent(acc.leaves[l])])
           strict == {s \in stems : ~Elides(acc, s)}
           cached == {s \in stems : ~ElidesCachedStem(acc, s)}
           relaxed == {s \in stems : ~ElidesRelaxed(acc, s)}
           Cost(T) == STEM_ENTRY_BYTES * Cardinality(T)
           wb == Seal(acc)
<1>1. /\ wb.naive = IPA_FLOOR_BYTES + naive + Cost(stems)
      /\ wb.sent = IPA_FLOOR_BYTES + sent + Cost(strict)
      /\ wb.sent_stem = IPA_FLOOR_BYTES + sent + Cost(cached)
      /\ wb.sent_stem_opt = IPA_FLOOR_BYTES + sent + Cost(relaxed)
  BY DEF Seal, NaiveStems
<1>2. IsFiniteSet(stems)
  <2> DEFINE D == DOMAIN acc.leaves
             f == [l \in D |-> l[1]]
  <2>1. IsFiniteSet(D) /\ stems = {l[1] : l \in D}
    BY DEF LeavesInv, StemsTouched
  <2>2. f \in Surjection(D, stems)
    BY <2>1 DEF Surjection
  <2> QED BY <2>1, <2>2, FS_Surjection
<1>3. naive \in Nat /\ sent \in Nat /\ sent <= naive
  BY LeafCost
<1>4. strict \subseteq stems /\ cached \subseteq stems /\ relaxed \subseteq strict
  BY StrictIsRelaxed
<1>5. IsFiniteSet(strict)
  BY <1>2, <1>4, FS_Subset
<1> HIDE DEF stems, naive, sent, strict, cached, relaxed, Cost, wb
<1>6. /\ Cost(stems) \in Nat /\ Cost(strict) \in Nat /\ Cost(cached) \in Nat
      /\ Cost(relaxed) \in Nat
      /\ Cost(strict) <= Cost(stems) /\ Cost(cached) <= Cost(stems)
      /\ Cost(relaxed) <= Cost(strict)
  BY <1>2, <1>4, <1>5, StemCost DEF Cost
<1>7. IPA_FLOOR_BYTES \in Nat
  BY DEF IPA_FLOOR_BYTES
<1> HIDE DEF IPA_FLOOR_BYTES
<1>8. /\ wb.sent <= wb.naive /\ wb.sent_stem_opt <= wb.sent
      /\ wb.sent_stem <= wb.naive /\ IPA_FLOOR_BYTES <= wb.naive
  BY <1>1, <1>3, <1>6, <1>7
<1> QED BY <1>8 DEF wb

(* No subtraction of byte counts underflows when a block is sealed, and    *)
(* the relaxed rule never sends more than the strict one (witness.rs 188   *)
(* and 193, metrics.rs 206 and 215).                                       *)
THEOREM BytesNeverUnderflow == Spec => []BytesDoNotUnderflow
<1>1. Init => LeavesInv
  <2>1. Init => DOMAIN acc.leaves = {}
    BY DEF Init, AccumNew
  <2> QED BY <2>1, FS_EmptySet DEF LeavesInv
<1>2. IInv /\ LeavesInv /\ [Next]_vars => LeavesInv'
  BY LeavesStep DEF IInv
<1>3. LeavesInv => BytesDoNotUnderflow
  BY SealedBytes DEF BytesDoNotUnderflow
<1> QED BY <1>1, <1>2, <1>3, CacheInOrder, PTL DEF Spec
=============================================================================
