---------------------------- MODULE WitnessCache ----------------------------
(***************************************************************************)
(* caching_strategies/src/cache.rs: the client's witness cache, driven one *)
(* block at a time by process_block.  A leaf cache and a stem cache, each  *)
(* a replacement policy next to a retention window that must know the same *)
(* keys, are emptied of what expired and of what the block writes, then    *)
(* asked for what the block reads.                                         *)
(***************************************************************************)
EXTENDS Policy, RetentionWindow, Witness

CONSTANTS
  Keys,                        \* the state keys blocks read and write
  LeafCapacity, StemCapacity,  \* as asked of PolicyKind::build
  Retention,                   \* window_n
  Sinks,                       \* the strata that gather metrics
  InStratum(_, _),             \* whether a sink is active at a block
  MaxReads, MaxWrites,         \* bounds: keys read and written by a block
  MaxReadsInAll,               \* bound: reads that any sink is told of
  MaxGap, LastBlock            \* bounds: block numbers

ASSUME CacheAssumption ==
  /\ Keys \subseteq StateKeys
  /\ IsFiniteSet(Addresses)    \* of 20 bytes
  /\ IsFiniteSet(Sinks)        \* the strata the run was given
  /\ LeafCapacity \in Nat /\ StemCapacity \in Nat
  /\ Retention \in Nat \ {0}
  /\ MaxGap \in Nat \ {0} /\ LastBlock \in Nat

Stems == {StemOf(k) : k \in Keys}
LeafRoom == BuildCapacity(LeafCapacity)
StemRoom == BuildCapacity(StemCapacity)

VARIABLES
  kind,             \* the policy both caches were built with
  pc,               \* the part of process_block under way
  now,              \* rec.block_number
  rec,              \* the block: its writes, and its reads as they are met
  todo,             \* writes still to be applied
  leaf, stem,       \* the two caches: [policy, window]
  writtenResident,  \* keys the block writes that were resident on arrival
  blockStems,       \* distinct stems of the reads, in order of first read
  acc,              \* the block's BlockWitnessAccum
  tally,            \* the block's counters
  metrics,          \* sink -> what RunMetrics has gathered
  arrival,          \* history: what was resident when the block arrived
  stale             \* history: keys and stems written since last accessed

vars == <<kind, pc, now, rec, todo, leaf, stem, writtenResident, blockStems,
          acc, tally, metrics, arrival, stale>>

block == <<rec, writtenResident, blockStems, acc, tally>>

LeafResident == PolicyResident(kind, leaf.policy)
StemResident == PolicyResident(kind, stem.policy)

NoBlock == [reads |-> {}, writes |-> {}]
CacheNew == [policy |-> PolicyNew(kind), window |-> WindowNew]
TallyNew == [hits |-> 0, misses |-> 0, invalidations |-> 0]
MetricsNew == [reads |-> 0, hits |-> 0, misses |-> 0, invalidations |-> 0,
               survived |-> 0, stemSurvived |-> 0,
               contracts |-> [a \in Addresses |-> 0]]

Init ==
  /\ kind \in PolicyKinds
  /\ pc = "idle" /\ now = 0 /\ todo = {}
  /\ rec = NoBlock
  /\ leaf = CacheNew /\ stem = CacheNew
  /\ writtenResident = {} /\ blockStems = <<>>
  /\ acc = AccumNew /\ tally = TallyNew
  /\ metrics = [s \in Sinks |-> MetricsNew]
  /\ arrival = [leaves |-> {}, stems |-> {}]
  /\ stale = [leaves |-> {}, stems |-> {}]

-----------------------------------------------------------------------------
(* The caches.  A key leaves by removal, after which its window entry goes *)
(* too, or as the victim of an access.                                     *)
Evict(cache, k) ==
  [policy |-> PolicyRemove(kind, cache.policy, k),
   window |-> WindowRemove(cache.window, k)]

(* Mutant: a write reaches only the keys that are held. *)
InvalidateHeldOnly(cache, k) ==
  IF k \in PolicyResident(kind, cache.policy) THEN Evict(cache, k) ELSE cache

(* policy.remove of the key written, held or not: ARC forgets also a key   *)
(* it only remembers.  The window's entry goes if the key was held.        *)
Invalidate(cache, k) ==
  [policy |-> PolicyRemove(kind, cache.policy, k),
   window |-> IF k \in PolicyResident(kind, cache.policy)
              THEN WindowRemove(cache.window, k) ELSE cache.window]

(* Mutant: the victim of an access stays in the window. *)
EnterKeepsVictim(cache, c, k) ==
  LET out == PolicyAccess(kind, cache.policy, c, k)
  IN [hit |-> out.hit, evicted |-> out.evicted,
      cache |-> [policy |-> out.st, window |-> WindowTouch(cache.window, k, now)]]

(* policy.access, the victim's window.remove, window.touch of the key. *)
Enter(cache, c, k) ==
  LET out == PolicyAccess(kind, cache.policy, c, k)
      kept == IF out.evicted = {} THEN cache.window
              ELSE WindowRemove(cache.window, CHOOSE v \in out.evicted : TRUE)
  IN [hit |-> out.hit, evicted |-> out.evicted,
      cache |-> [policy |-> out.st, window |-> WindowTouch(kept, k, now)]]

-----------------------------------------------------------------------------
(* The sinks: only the active ones record. *)
Record(update(_)) ==
  metrics' = [s \in Sinks |-> IF InStratum(s, now) THEN update(metrics[s])
                                                   ELSE metrics[s]]

(* Mutant: the end of a stem's stay is reported to every sink. *)
RecordStemSurvivalToAll(n) ==
  metrics' = [s \in Sinks |-> [metrics[s] EXCEPT !.stemSurvived = @ + n]]

(* Mutant: a survival is reported whether or not a key left. *)
RecordSurvivalAlways(n) == Record(LAMBDA m : [m EXCEPT !.survived = @ + 1])

RecordSurvival(n) == Record(LAMBDA m : [m EXCEPT !.survived = @ + n])
RecordStemSurvival(n) == Record(LAMBDA m : [m EXCEPT !.stemSurvived = @ + n])

-----------------------------------------------------------------------------
(* A block arrives: numbers ascend, with gaps where shards are missing.    *)
(* Its reads, in any order, are chosen as the loop over them meets them:   *)
(* nothing before that loop looks at them.                                 *)
Arrive ==
  /\ pc = "idle"
  /\ \E n \in now + 1..now + MaxGap : n <= LastBlock /\ now' = n
  /\ \E writes \in SUBSET Keys :
       /\ Cardinality(writes) <= MaxWrites
       /\ rec' = [reads |-> {}, writes |-> writes]
  /\ pc' = "drain"
  /\ UNCHANGED <<kind, todo, leaf, stem, writtenResident, blockStems, acc, tally,
                 metrics, arrival, stale>>

(* drain_expired of the leaf window, one expired key at a time. *)
DrainLeaf ==
  /\ pc = "drain"
  /\ FrontExpired(leaf.window, Retention, now)
  /\ leaf' = Evict(leaf, Head(leaf.window.order))
  /\ RecordSurvival(1)
  /\ UNCHANGED <<kind, pc, now, todo, stem, block, arrival, stale>>

DrainStem ==
  /\ pc = "drain" /\ ~FrontExpired(leaf.window, Retention, now)
  /\ FrontExpired(stem.window, Retention, now)
  /\ stem' = Evict(stem, Head(stem.window.order))
  /\ RecordStemSurvival(1)
  /\ UNCHANGED <<kind, pc, now, todo, leaf, block, arrival, stale>>

(* Mutant: the snapshot is not cleared from one block to the next. *)
SnapshotNotCleared == writtenResident \cup (rec.writes \cap LeafResident)

(* The snapshot taken before the first write. *)
Snapshot == rec.writes \cap LeafResident

BeginWrites ==
  /\ pc = "drain"
  /\ ~FrontExpired(leaf.window, Retention, now)
  /\ ~FrontExpired(stem.window, Retention, now)
  /\ writtenResident' = Snapshot
  /\ arrival' = [leaves |-> LeafResident, stems |-> StemResident]
  /\ todo' = rec.writes
  /\ pc' = "writes"
  /\ UNCHANGED <<kind, now, rec, leaf, stem, blockStems, acc, tally, metrics, stale>>

Write(w) ==
  /\ pc = "writes" /\ w \in todo
  /\ todo' = todo \ {w}
  /\ acc' = RecordLeaf(acc, w, w \in writtenResident, TRUE)
  /\ leaf' = Invalidate(leaf, w)
  /\ stem' = Invalidate(stem, StemOf(w))
  /\ LET n == IF w \in LeafResident THEN 1 ELSE 0
         ns == IF StemOf(w) \in StemResident THEN 1 ELSE 0
     IN /\ tally' = [tally EXCEPT !.invalidations = @ + n]
        /\ Record(LAMBDA m : [m EXCEPT !.survived = @ + n, !.stemSurvived = @ + ns,
                                       !.invalidations = @ + n,
                                       !.contracts[w.addr] = @ + n])
  /\ stale' = [leaves |-> stale.leaves \cup {w}, stems |-> stale.stems \cup {StemOf(w)}]
  /\ UNCHANGED <<kind, pc, now, rec, writtenResident, blockStems, arrival>>

BeginReads ==
  /\ pc = "writes" /\ todo = {}
  /\ pc' = "reads"
  /\ UNCHANGED <<kind, now, todo, leaf, stem, block, metrics, arrival, stale>>

Read(r) ==
  /\ pc = "reads" /\ r \notin rec.reads /\ Cardinality(rec.reads) < MaxReads
  /\ \A s \in Sinks : metrics[s].reads + Cardinality(rec.reads) < MaxReadsInAll
  /\ rec' = [rec EXCEPT !.reads = @ \cup {r}]
  /\ LET out == Enter(leaf, LeafRoom, r)
     IN /\ leaf' = out.cache
        /\ acc' = RecordLeaf(acc, r, out.hit \/ r \in writtenResident, FALSE)
        /\ RecordSurvival(Cardinality(out.evicted))
        /\ tally' = IF out.hit THEN [tally EXCEPT !.hits = @ + 1]
                               ELSE [tally EXCEPT !.misses = @ + 1]
  /\ blockStems' = IF StemOf(r) \in ToSet(blockStems) THEN blockStems
                   ELSE Append(blockStems, StemOf(r))
  /\ stale' = [stale EXCEPT !.leaves = @ \ {r}]
  /\ UNCHANGED <<kind, pc, now, todo, stem, writtenResident, arrival>>

BeginStems ==
  /\ pc = "reads"
  /\ pc' = "stems"
  /\ UNCHANGED <<kind, now, todo, leaf, stem, block, metrics, arrival, stale>>

ReadStem ==
  /\ pc = "stems" /\ blockStems # <<>>
  /\ LET id == Head(blockStems)
         out == Enter(stem, StemRoom, id)
     IN /\ stem' = out.cache
        /\ acc' = RecordStem(acc, id, out.hit)
        /\ RecordStemSurvival(Cardinality(out.evicted))
        /\ stale' = [stale EXCEPT !.stems = @ \ {id}]
  /\ blockStems' = Tail(blockStems)
  /\ UNCHANGED <<kind, pc, now, rec, todo, leaf, writtenResident, tally, arrival>>

(* record_block: the block's counters join the totals of the active sinks, *)
(* and what was local to process_block is gone.                            *)
EndBlock ==
  /\ pc = "stems" /\ blockStems = <<>>
  /\ pc' = "idle"
  /\ Record(LAMBDA m : [m EXCEPT !.reads = @ + Cardinality(rec.reads),
                                 !.hits = @ + tally.hits,
                                 !.misses = @ + tally.misses])
  /\ rec' = NoBlock /\ acc' = AccumNew /\ tally' = TallyNew
  /\ arrival' = [leaves |-> {}, stems |-> {}]
  /\ UNCHANGED <<kind, now, todo, leaf, stem, writtenResident, blockStems, stale>>

Next ==
  \/ Arrive \/ DrainLeaf \/ DrainStem
  \/ BeginWrites \/ \E w \in Keys : Write(w)
  \/ BeginReads \/ \E r \in Keys : Read(r)
  \/ BeginStems \/ ReadStem \/ EndBlock

Spec == Init /\ [][Next]_vars

-----------------------------------------------------------------------------
CacheType(cache, K) ==
  /\ PolicyResident(kind, cache.policy) \subseteq K
  /\ cache.window.order \in Seq(K)
  /\ DOMAIN cache.window.seen \subseteq K
  /\ \A k \in DOMAIN cache.window.seen : cache.window.seen[k] \in 0..now

(* Every variable keeps its type; window stamps are never in the future. *)
TypeOK ==
  /\ kind \in PolicyKinds
  /\ pc \in {"idle", "drain", "writes", "reads", "stems"}
  /\ now \in 0..LastBlock
  /\ rec.reads \subseteq Keys /\ rec.writes \subseteq Keys
  /\ todo \subseteq Keys /\ writtenResident \subseteq Keys
  /\ CacheType(leaf, Keys) /\ CacheType(stem, Stems)
  /\ ToSet(blockStems) \subseteq {StemOf(r) : r \in rec.reads}
  /\ DOMAIN acc.stems \subseteq Stems
  /\ DOMAIN acc.leaves \subseteq {KeyToLeaf(k) : k \in rec.reads \cup rec.writes}
  /\ arrival.leaves \subseteq Keys /\ arrival.stems \subseteq Stems
  /\ stale.leaves \subseteq Keys /\ stale.stems \subseteq Stems

(* Between any two steps a policy and its window know the same keys, each  *)
(* once: an entry only one of them knew would never expire, or would be    *)
(* reported with a made-up age (the unwrap_or(now) of cache.rs 97, 109,    *)
(* 131 and 156 never applies).                                             *)
InStep(cache) ==
  /\ DOMAIN cache.window.seen = PolicyResident(kind, cache.policy)
  /\ ToSet(cache.window.order) = PolicyResident(kind, cache.policy)
  /\ \A i, j \in 1..Len(cache.window.order) :
       cache.window.order[i] = cache.window.order[j] => i = j
WindowsMatchPolicies == InStep(leaf) /\ InStep(stem)

(* Looking at the front alone is enough to expire everything: windows stay *)
(* sorted by last sight, and once a block is past its drain no entry that  *)
(* is too old is left anywhere (window.rs 33-44).                          *)
InRetention(cache) ==
  LET w == cache.window
  IN /\ \A i, j \in 1..Len(w.order) :
          i <= j => w.seen[w.order[i]] <= w.seen[w.order[j]]
     /\ pc # "drain" => \A k \in DOMAIN w.seen : w.seen[k] + Retention > now
WithinRetention == InRetention(leaf) /\ InRetention(stem)

(* What was written since it was last read is forgotten: the leaf, and     *)
(* its stem, is neither held nor, under ARC, remembered as a ghost, so no  *)
(* stale copy answers and its next read moves no target and earns no place *)
(* in t2 (cache.rs 94-118, arc.rs 94-99).                                  *)
WrittenIsForgotten ==
  /\ PolicyKnown(kind, leaf.policy) \cap stale.leaves = {}
  /\ PolicyKnown(kind, stem.policy) \cap stale.stems = {}

(* The witness leaves a value out only if the client held it on arrival:   *)
(* a leaf counted warm, or a stem recorded as cached, was resident before  *)
(* the block, and the stem was not written by the block (cache.rs 85-165). *)
WarmOnlyIfHeldOnArrival ==
  /\ \A k \in rec.reads \cup rec.writes :
       KeyToLeaf(k) \in DOMAIN acc.leaves /\ acc.leaves[KeyToLeaf(k)].resident
         => k \in arrival.leaves
  /\ \A s \in DOMAIN acc.stems :
       acc.stems[s] => s \in arrival.stems \ {StemOf(w) : w \in rec.writes}

(* The books of a sink that sees every block balance: each leaf that       *)
(* entered by a miss is still resident or has been reported, once, as a    *)
(* survival; every read is a hit or a miss; every invalidation is charged  *)
(* to one contract (cache.rs 63-138, metrics.rs 44-47 and 114-144).        *)
AlwaysActive == {s \in Sinks : \A b \in 1..LastBlock : InStratum(s, b)}
BooksBalance ==
  \A s \in Sinks :
    LET m == metrics[s]
    IN /\ s \in AlwaysActive =>
            m.misses + tally.misses = m.survived + Cardinality(LeafResident)
       /\ m.reads = m.hits + m.misses
       /\ m.invalidations = SumFunction(m.contracts)

(* Between blocks, sinks that share the blocks out among them have seen    *)
(* together what any others that do have seen, such as one that is always  *)
(* active: a key that entered under one stratum and leaves under another   *)
(* is reported once, to the stratum of the block at which it left, so that *)
(* the survivals of one stratum may exceed its misses but those of all of  *)
(* them may not (metrics.rs 113-125).                                      *)
Counters == {"reads", "hits", "misses", "invalidations", "survived", "stemSurvived"}
Partitions ==
  {part \in SUBSET Sinks :
     \A b \in 1..LastBlock : Cardinality({s \in part : InStratum(s, b)}) = 1}
Total(field, part) == SumFunction([s \in part |-> metrics[s][field]])
ChargedTo(a, part) == SumFunction([s \in part |-> metrics[s].contracts[a]])
StrataAddUp ==
  pc = "idle" => \A part, other \in Partitions :
    /\ \A field \in Counters : Total(field, part) = Total(field, other)
    /\ \A a \in Addresses : ChargedTo(a, part) = ChargedTo(a, other)

(* Where process_block seals its accumulator. *)
Sealing == pc = "stems" /\ blockStems = <<>>

(* No unsigned subtraction of the byte counts can underflow: naive - sent  *)
(* (witness.rs 193), naive - sent_stem (metrics.rs 206) and naive - floor  *)
(* (metrics.rs 215); and the relaxed rule never sends more than the strict *)
(* one (the debug_assert of witness.rs 188).                               *)
BytesDoNotUnderflow ==
  Sealing => LET wb == Seal(acc)
             IN /\ wb.sent <= wb.naive
                /\ wb.sent_stem_opt <= wb.sent
                /\ wb.sent_stem <= wb.naive
                /\ IPA_FLOOR_BYTES <= wb.naive

(* What the comment of witness.rs 73-75 says of LeafState.resident: it is  *)
(* residency as of the start of the block, for every leaf recorded.        *)
ResidencyIsOnArrival ==
  \A k \in rec.reads \cup rec.writes :
    KeyToLeaf(k) \in DOMAIN acc.leaves =>
      acc.leaves[KeyToLeaf(k)].resident = (k \in arrival.leaves)
=============================================================================
