------------------------------ MODULE Experiment ------------------------------
(***************************************************************************)
(* The stages between a scrape and a sweep, over one data directory: the   *)
(* range the scraper resolved and the shards it stored, one damage done to *)
(* them at most, the simulator's verify-load, and characterize.py over a   *)
(* directory that it passed.  Both of the project's readers of the shards  *)
(* meet here, and the simulator's reader of the two files of the second.   *)
(***************************************************************************)
EXTENDS Loader, Characterize, Params

CONSTANTS
  Latest, Margin,         \* the node's latest block, and safety_margin
  NBlocks, Starts, Ends,  \* arguments of the scraper; no --start is {}
  ShardSize,
  Versions,               \* schema versions a manifest may have
  Chains, PlainChain      \* the keys that each block may read and write, and
                          \* those of the runs that are damaged

(* An argument is one number, and the range is shorter than its numbers    *)
(* can count.  A block reads finitely many keys, and the analytics measure *)
(* the windows of the sweep (config.rs 7, characterize.py 20).             *)
ASSUME ExperimentAssumption ==
  /\ Latest \in 0..2 ^ Width - 2 /\ Margin \in Nat /\ ShardSize \in Nat \ {0}
  /\ NBlocks \subseteq Int
  /\ \A arg \in Starts \cup Ends : arg \subseteq Int /\ \A b, c \in arg : b = c
  /\ \A end \in Ends : \A b \in end : b < 2 ^ Width - 1
  /\ \A chain \in Chains : \A b \in 0..Latest :
       chain[b].reads \cup chain[b].writes \subseteq StateKeys /\ IsFiniteSet(chain[b].reads)
  /\ ToSet(WINDOWS) \subseteq StatWindows /\ StatWindows \subseteq Nat \ {0}

VARIABLES
  range,                  \* what the scraper resolved, <<first, last>>
  stage                   \* "stored", "verify", "measure", "run" or "failed"

vars == <<range, directory, loader, p1, stats, strata, stage>>

(* The shards of a run over the range, and `scraper verify`. *)
D == INSTANCE Dataset WITH StartBlock <- range[1], EndBlock <- range[2]

-----------------------------------------------------------------------------
ResolveRange(n_blocks, start, end) ==
  LET resolved_end == IF end = {} THEN Latest - Margin ELSE Max(end)
  IN <<IF start = {} THEN resolved_end - n_blocks + 1 ELSE Max(start), resolved_end>>

(* A shard as the scraper writes it: slots are kept as they are, names     *)
(* have their length.                                                      *)
Wire(k) == [addr |-> [id |-> k.addr, len |-> ADDR_LEN],
            slot |-> IF k.slot = NoSlot THEN NoSlot ELSE [id |-> k.slot, len |-> SLOT_LEN]]

Fetch(chain, b) ==
  [number |-> b,
   reads |-> {Wire(k) : k \in chain[b].reads}, writes |-> {Wire(k) : k \in chain[b].writes}]

FileOf(chain, blocks) ==
  {[records |-> [i \in DOMAIN blocks |-> Fetch(chain, blocks[i])],
    decodes |-> TRUE, copy |-> 0]}

(* Any of the shards whose blocks the node has, or some of them only.      *)
Stored(version, chain) ==
  \E kept \in SUBSET {i \in D!Shards : D!ShardRange(i) \subseteq 0..Latest} :
    LET File(i) == FileOf(chain, D!InOrder(D!ShardRange(i)))
        listed == D!InOrder(kept)
    IN /\ disk = [i \in D!Shards |-> IF i \in kept THEN File(i) ELSE {}]
       /\ manifest = [start |-> range[1], end |-> range[2], schema |-> version,
                      shards |-> [j \in DOMAIN listed |->
                        D!EntryOf(listed[j], D!ShardRange(listed[j]), File(listed[j]))]]

Init ==
  /\ stage = "stored"
  /\ verify_sha \in BOOLEAN /\ debug \in BOOLEAN
  /\ \E n \in NBlocks, start \in Starts, end \in Ends, version \in Versions, chain \in Chains :
       range = ResolveRange(n, start, end) /\ Stored(version, chain)
  /\ LoaderInit /\ CharacterizeInit

-----------------------------------------------------------------------------
Shorten(name) == [name EXCEPT !.len = @ - 1]

(* What may have become of the bytes of a file. *)
Damaged(c) ==
  LET records == c.records
      Renamed(keys) == [c EXCEPT !.records[1].reads = keys]
  IN {{}, {[c EXCEPT !.decodes = FALSE]}, {[c EXCEPT !.copy = 1]},
      {[c EXCEPT !.records = Tail(records)]},
      {[c EXCEPT !.records = [i \in DOMAIN records |->
          [records[i] EXCEPT !.number = @ + 1]]]},
      {[c EXCEPT !.records[1].number = @ + 1]},
      {Renamed({[k EXCEPT !.addr = Shorten(@)] : k \in records[1].reads})},
      {Renamed({IF k.slot = NoSlot THEN k ELSE [k EXCEPT !.slot = Shorten(@)] :
                  k \in records[1].reads})}}

Held == {i \in DOMAIN disk : disk[i] # {}}
Contents(i) == CHOOSE c \in disk[i] : TRUE

Keep ==
  /\ stage = "stored"
  /\ stage' = "verify"
  /\ UNCHANGED <<range, directory, loader, p1, stats, strata>>

Spoil ==
  /\ stage = "stored"
  /\ \A i \in Held : disk[i] = FileOf(PlainChain, Numbers(Contents(i).records))
  /\ \/ \E i \in Held : \E bytes \in Damaged(Contents(i)) : disk' = [disk EXCEPT ![i] = bytes]
     \/ \E i, j \in Held : i < j /\ disk' = [disk EXCEPT ![i] = disk[j], ![j] = disk[i]]
  /\ stage' = "verify"
  /\ UNCHANGED <<range, manifest, verify_sha, debug, loader, p1, stats, strata>>

VerifyLoad ==
  /\ stage = "verify"
  /\ LoaderNext
  /\ UNCHANGED <<range, p1, stats, strata, stage>>

TotalBlocks == SumFunction([i \in DOMAIN manifest.shards |-> manifest.shards[i].count])

(* The one who runs the experiment goes on if verify-load said OK, and     *)
(* characterize.py if there are blocks.                                    *)
Proceed ==
  /\ stage = "verify" /\ verdict \in {"ok", "failed"}
  /\ stage' = IF verdict = "ok" /\ TotalBlocks > 0 THEN "measure" ELSE "failed"
  /\ UNCHANGED <<range, directory, loader, p1, stats, strata>>

(* The records as dataio.py decodes them, which looks at no hash, count or *)
(* length.                                                                 *)
Decoded ==
  [i \in DOMAIN disk |->
     IF disk[i] = {} THEN <<>>
     ELSE [j \in DOMAIN Contents(i).records |-> ConvertRecord(Contents(i).records[j])]]

Measured == IterBlocks(manifest.shards, Decoded)

Measure ==
  /\ stage = "measure"
  /\ LET i == Len(p1.read_storage) + 1
     IN i <= Len(Measured) /\ Feed(Measured[i])
  /\ UNCHANGED <<range, directory, loader, stage>>

Conclusions ==
  /\ stage = "measure" /\ Len(p1.read_storage) = Len(Measured)
  /\ Report(Measured)
  /\ stage' = "run"
  /\ UNCHANGED <<range, directory, loader>>

Next == Keep \/ Spoil \/ VerifyLoad \/ Proceed \/ Measure \/ Conclusions

Spec == Init /\ [][Next]_vars

-----------------------------------------------------------------------------
BlockRange == manifest.start..manifest.end
Intact(entry) == disk[entry.file] = entry.sha

(* What verify-load says OK to is the range of the manifest: its blocks,   *)
(* one by one, if it looked at the hashes or any file is as it was.  It    *)
(* never compares a block with the first of the range, and the length of   *)
(* the range wraps, so that more than the two checks it ends with is       *)
(* needed (main.rs 77-105, manifest.rs 49-51, loader.rs 91-130).  The      *)
(* sweep, which checks neither, reads just those blocks (sweep.rs 112).    *)
AcceptedIsTheRange ==
  verdict = "ok" =>
    /\ Len(yielded) = Cardinality(BlockRange)
    /\ \A i \in 1..Len(yielded) - 1 : yielded[i + 1].number = yielded[i].number + 1
    /\ verify_sha \/ (\E entry \in ToSet(manifest.shards) : Intact(entry)) =>
         ToSet(Numbers(yielded)) = BlockRange
    /\ FlattenSeq([i \in DOMAIN manifest.shards |->
                     CHOOSE records \in SweepReads[i] : TRUE]) = yielded

(* Dataset's view of a file: its blocks, and its bytes. *)
Blobs(bytes) ==
  {[blocks |-> {r.number : r \in ToSet(c.records)}, epoch |-> c] : c \in bytes}
Listing == [i \in DOMAIN manifest.shards |-> [manifest.shards[i] EXCEPT !.sha = Blobs(@)]]

(* The two verifiers never disagree on a directory of the schema both      *)
(* know: what the scraper passes, the simulator passes with either flag,   *)
(* and if it looks at the hashes it passes nothing else but an empty       *)
(* range, whose blocks are none; and Dataset's view of verify-load, which  *)
(* the scraper is checked against, is this one (__main__.py _verify,       *)
(* main.rs 72-107).                                                        *)
VerdictsDivideOnNothing ==
  verdict \in {"ok", "failed"} /\ manifest.schema = SUPPORTED_SCHEMA_VERSION =>
    LET passed == D!Verify(manifest.shards, disk)
        empty == manifest.end = manifest.start - 1
    IN /\ passed => verdict = "ok"
       /\ verify_sha /\ verdict = "ok" => passed \/ empty
       /\ verify_sha /\ ~empty =>
            (verdict = "ok" <=> D!VerifyLoad(Listing, [i \in DOMAIN disk |-> Blobs(disk[i])], TRUE))

-----------------------------------------------------------------------------
(* The keys that have been streamed to the simulator. *)
KeysStreamed == UNION {r.reads \cup r.writes : r \in ToSet(yielded)}

(* No two keys of a directory have one leaf: what the witness counts as    *)
(* one leaf is one key, no write forgets the leaf of another, and the low  *)
(* slots that are moved into the header stem land on nothing that is there *)
(* (witness.rs 48-63, cache.rs 94-118).                                    *)
LeafIsUnique ==
  \A j, k \in KeysStreamed : KeyToLeaf(j) = KeyToLeaf(k) => j = k

(* "Must agree exactly with key_to_leaf in caching_strategies/src/         *)
(* witness.rs" (dataio.py 57-59): no key of a directory has one leaf in    *)
(* Rust and another in Python, and the suffix fits the byte that Rust has  *)
(* for it.                                                                 *)
MirrorAgrees ==
  \A k \in KeysStreamed :
    /\ MirrorLeaf(k) = KeyToLeaf(k)
    /\ MirrorLeaf(k)[2] < NodeWidth

-----------------------------------------------------------------------------
(* Half of the rounding of a capacity to whole entries, and of one entry   *)
(* at least.                                                               *)
Nearest(entries, pct, sizes) ==
  LET sum == SumFunction(sizes)
      off == 2 * (100 * Len(sizes) * entries - pct * sum)
  IN \/ -100 * Len(sizes) <= off /\ off <= 100 * Len(sizes)
     \/ entries = 1 /\ off > 0

(* Distinct items of every group of n blocks, the last one perhaps short.  *)
GroupSizes(n, items) ==
  [g \in 1..(Len(items) + n - 1) \div n |->
     Cardinality(UNION {items[i] : i \in {j \in DOMAIN items : (j - 1) \div n = g - 1}})]

Leaves == [i \in DOMAIN yielded |-> {KeyToLeaf(k) : k \in yielded[i].reads}]
Stems == [i \in DOMAIN yielded |-> {StemOf(k) : k \in yielded[i].reads}]

(* The files of characterize.py load, and the capacity of every cell of    *)
(* the grid is its share of the mean number of leaves, or of stems, that   *)
(* the simulator meets in a window, of the blocks and keys it streams      *)
(* itself; and a window of whole shorter ones never has the smaller cache, *)
(* if no short group is last (characterize.py 101-119, config.rs 60-87,    *)
(* sweep.rs 40-54).                                                        *)
CapacitiesMeasureTheData ==
  stage = "run" =>
    \A file \in stats :
      /\ LoadsParams(file) /\ HasCapacities(file) /\ \A f \in strata : LoadsStrata(f)
      /\ \A w \in ToSet(WINDOWS), pct \in ToSet(CAPACITY_PCTS) :
           /\ \A c \in CapacityEntries(file, w, pct) :
                c >= 1 /\ Nearest(c, pct, GroupSizes(w, Leaves))
           /\ \A c \in StemCapacityEntries(file, w, pct) :
                c >= 1 /\ Nearest(c, pct, GroupSizes(w, Stems))
      /\ \A v, w \in ToSet(WINDOWS), pct \in ToSet(CAPACITY_PCTS) :
           w % v = 0 /\ Len(yielded) % w = 0 =>
             /\ Max(CapacityEntries(file, v, pct)) <= Max(CapacityEntries(file, w, pct))
             /\ Max(StemCapacityEntries(file, v, pct))
                  <= Max(StemCapacityEntries(file, w, pct))

StorageReads(n) ==
  Cardinality(UNION {Slots(r.reads) : r \in {x \in ToSet(yielded) : x.number = n}})

(* The strata that the metrics are split by are told apart by the storage  *)
(* they read: no transfer-only block reads more of it than a DeFi-heavy    *)
(* one, the blocks that are both read the same, and a quarter of the       *)
(* blocks streamed are transfer-only (characterize.py 145-169 and 261-268, *)
(* strata.rs 62-68).                                                       *)
StrataSeparate ==
  stage = "run" =>
    \A f \in strata :
      LET Of(kind) == {n \in BlockRange : InStratum(f, kind, n)}
      IN /\ ToSet(f.defi_heavy) \cup ToSet(f.transfer_only) \subseteq ToSet(Numbers(yielded))
         /\ \A t \in ToSet(f.transfer_only), d \in ToSet(f.defi_heavy) :
              StorageReads(t) <= StorageReads(d)
         /\ Cardinality({StorageReads(n) : n \in Of("defi") \cap Of("transfer")}) <= 1
         /\ 4 * Len(f.transfer_only) >= Len(yielded)
=============================================================================
