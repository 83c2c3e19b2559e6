# A TLA+ model of stateless-ethereum-caching

The repository measures how much of a stateless Ethereum block's witness a client could leave out
if it cached state. It has three programs that share a data directory:

- **the scraper** (`block_scraper/`, Python, asyncio) fetches what each block of a range reads and
  writes, and stores it in shard files listed in `manifest.json`;
- **the simulator** (`caching_strategies/`, Rust) streams the shards through many witness caches,
  one per policy, retention window and capacity, and writes what they saved;
- **the analytics** (`analytics/`, Python) characterise the data before a sweep and draw its results.

This directory models the parts that keep state or must agree with one another, checks them on small
instances with TLC, and proves the central facts for all instances with TLAPS.

## Inventory

| Component | Source | State | Operations |
|---|---|---|---|
| ordered map | `ordered.rs` | node vector, free stack, index, head, tail | push_back, touch_back, remove, front, pop_front |
| replacement policies | `policy/*.rs` | LRU: an ordered map. LFU: counts, buckets, `min_freq`. ARC: `t1 t2 b1 b2`, `p` | access, remove, contains, len |
| retention window | `window.rs` | keys with the block they were last seen in | touch, remove, drain_expired |
| witness cache | `cache.rs` | a policy and a window for leaves, the same for stems, scratch sets of the block | process_block |
| witness accounting | `witness.rs` | the block's leaves and stems | key_to_leaf, record_leaf, record_stem, seal |
| metrics, strata | `metrics.rs`, `strata.rs` | counters per stratum | record_* |
| dataset loader | `loader.rs`, `manifest.rs`, `model.rs`, `main.rs` | position in the stream, buffer, count, gaps | load_shard, ShardStream, verify_load |
| sweep | `sweep.rs`, `config.rs` | one cache and three metrics per cell | build_grid, run_sweep |
| result files | `output.rs`, `resultio.py` | three tables | from_metrics, write_\*, load_\*, run_id_for |
| scraper pipeline | `pipeline.py` | work queue, results queue, tasks | resolve_range, worker, writer, run_scrape |
| shard store | `writer.py`, `checkpoint.py` | buffers; shard files, manifest, checkpoint on disk | add, flush, resume |
| scraper commands | `__main__.py` | none | scrape, resume, verify |
| rpc client, trace parsing | `rpc.py`, `tracer.py`, `models.py` | session, semaphore | _post, parse_read_set, parse_write_set |
| analytics' reader | `dataio.py` | none | iter_blocks, key_to_stem, key_to_leaf |
| characterisation | `characterize.py` | working set per window, storage counters | feed, finalize, run_pass2, main |
| tables, plots | `make_tables.py`, `plot_*.py` | none | drawing (not modelled) |

**How they interact.** A block enters `process_block`, which drives two policies and two windows by
calls (a key must leave a policy and its window together), fills a `BlockWitnessAccum`, and reports
to three metric sinks of which only the active ones record. Policies, windows and ghost lists are all
ordered maps. The scraper's workers and its writer share a bounded queue within one event loop. The
programs share files only: the scraper writes shards and a manifest, which the simulator and the analytics
read with readers of their own; `characterize.py` writes `dataset_stats.json`, from which the simulator
takes the capacities of its caches, and `strata.json`, by which it splits its metrics; the simulator writes
tables that the analytics look up by a run id they compute themselves. Rust and Python share no code, only the definition of a leaf.

**What is hard.**

- *Legal calls that reach an illegal state.* The cache takes keys out of the middle of the policies,
  which the textbook algorithms never do; slots of the ordered map are reused; ARC's `replace` may
  find the list it chose empty.
- *Two structures that must agree*: policy and window, index and list, counts and buckets, Rust and
  Python leaves, the two `verify` commands, the names and the columns of a table, the run ids of sweep and analytics.
- *Order within a block*: drains, snapshot, writes, reads, stems. A read depends on the reads before it.
- *Crash and resumption* between the three writes of a flush.
- *Interleaving* of workers that fail, queue again and leave, with a writer that counts their marks.
- *Unsigned subtraction* of sums that different loops add up, and of the ends of a range that may be empty or reversed.
- *A directory that is not as it was written*: unfinished, or damaged on disk, and read by three programs with different checks.
- *Boundaries of statistics*: a short last window, percentiles that fall together, a mean below one entry.

What makes each component correct is stated below, run by run; the lines at which each hazard bites
are listed under `hazards` in `PROJECT.json`.

## Modules

```
RecencyMap      what an ordered map promises
  ^ implemented by
OrderedMap      ordered.rs: slots, links, free stack

ResidentSet     what the trait ReplacementPolicy promises
  ^ implemented by
ReplacementPolicy ── Policy ── Lru, Lfu, Arc

WitnessCache    cache.rs ── Policy, RetentionWindow (window.rs), Witness (witness.rs) ── VerkleKey

Metrics         metrics.rs: what a cache reports ── Results (output.rs, resultio.py: the tables)
Sweep           sweep.rs: the grid of cells over the stream of shards ── Params ── Model

Scrape          what a scrape promises
  ^ implemented by
Scraper         pipeline.py, writer.py, checkpoint.py ── Dataset (geometry, manifest, both verifiers)
Rpc             rpc.py: the calls behind one of Scraper's fetches
Tracer          tracer.py, models.py: from a block's traces to its read and write sets

Experiment      from the resolved range to the files the sweep loads: the composition of
  ── Dataset        the geometry and `scraper verify`
  ── Loader         loader.rs, manifest.rs, verify_load ── Model (model.rs), VerkleKey
  ── Characterize   characterize.py ── DataIO (dataio.py: the derivation of a leaf in Python) ── VerkleKey
  ── Params         config.rs, strata.rs

CollectionProofs    sets, counts, sums, lists and the single steps of the policies: what the proofs below cite
  ── ReplacementPolicyProofs
  ── WitnessCacheProofs     with the leaves
  ── OrderedMapProofs
  ── ScraperProofs
  ── FetchProofs            Rpc and Tracer: what one fetch rests on
  ── SweepProofs            with Metrics and Results: what one run writes
  ── ExperimentProofs       what both verifiers say of a directory, and what is measured of it
```

**OrderedMap** keeps slots and links as the code does (slot numbers start at 1, `NONE` is 0; Rust's
`usize::MAX`). Each public call is an action; `ret` holds its answer, so that the refinement to
RecencyMap is about answers as well as order. `push_back` has the code's `debug_assert` as its guard.

**Lru, Lfu, Arc** are pure operators from a policy and a key to an outcome `[st, hit, evicted]`. They
see an ordered map as the sequence of its keys, which is what the refinement of OrderedMap licenses. The
search loop of LFU's `fix_min_freq` is a minimum; that the loop ends is the property
`LfuMinReachesBucket`. ARC's trimming loops are one `SubSeq` each. **ReplacementPolicy** runs any of
the three under every sequence of `access` and `remove`, with two history variables (`recent`, `uses`)
from which the victims are judged without looking at the policy's own bookkeeping.

**WitnessCache** follows `process_block` in its order: drain both windows, take the snapshot, write,
read, access the stems, seal. Each iteration of a loop is an action. Within a drain, the code first
pops all expired keys of a window and then removes them from the policy; the model takes both steps for
one key at a time, since nothing else reads either in between. The reads of a block are chosen as the
loop meets them. A record's keys are a set: the scraper writes them from a Python set, so their order
is arbitrary and none repeats. `arrival` and `stale` are history variables. **Witness** computes the
bytes with the code's constants. **VerkleKey** is parameterised by node width and header offset (256 and
64 in the code), so that a small tree has keys that share a stem. A write goes to both policies whether its key is
held or not (`Invalidate`): under ARC it also removes the ghost that the key may be, so that the next read of a written key
is a plain miss.

**Scraper** has a worker's program counter and the block it holds, the two queues, and a flush of three
writes. The tasks share one event loop and the flush awaits nothing, hence `Awaiting`: between the
writes of a flush only `Kill` can happen. A shard file is `Blob(blocks, epoch)`; `epoch`, the number of
the run, stands for bytes, because msgpack writes the keys of a block in the order of a Python set,
which changes from process to process: a shard written again has another hash. The file is its own
hash. What the simulator makes of the directory has the flag `--verify-sha` as a parameter, off by default: only with
it does a file have to be the one that its entry lists. Temporary files need no state: a kill before the move leaves what was there. The manifest in
memory and on disk differ only within a flush, when nothing reads the one in memory.

**Rpc** looks inside one step of Scraper, `Fetched` or `FetchFails`. A fetch gathers its calls; each call is
queued for a permit, posting, asleep with its permit (`throttled`), in back-off, done or failed. A fetch whose
call fails ends at once and its other calls run on. The node is external: it answers, refuses or
fails at any time. Its property `EveryFetchEnds` is what the fairness of Scraper's workers rests on.

**Tracer** has the two parsers as operators and an external node that executes transactions and reports
each as the prestate tracer would. The node may or may not list what a transaction left unchanged, and may
spell a name without its leading zeros: the code is written for both. `touched`, `changed` and `modified` are the reference.
`WritesCoverTheChanges` is what holds of the write set; that it is "only what changed" does not (Findings).

**Metrics** takes survivals, invalidations and outcomes of blocks in any order, since nothing in `RunMetrics`
relies on one; when the cache reports which is WitnessCache's subject. It keeps every field of `RunMetrics`;
`outcomes`, all outcomes so far, is a history variable. **Results** turns a run into its row and series: each table
is a list of names and a list of columns, as in `output.rs`, and is read back by name, as in `resultio.py`, so
that two columns in the wrong order would show. Ratios are fractions.

**Sweep** reduces a cache to the blocks it was given and a sink to those it recorded, which is all that the
threads, the barrier per shard and the output files can get wrong. `ProcessBlock` and `WriteFiles` are the
steps between which threads interleave; rayon gives a cell to one thread. `Again` runs the program
once more into the same directory. The analytics' `run_id_for` is modelled beside the ids of `build_grid`.
**Params** holds what the simulator takes from the two files of the analytics: a mean is a fraction, so that
rounding to entries is exact, and what a file may lack is a set of at most one element.

**Scrape** is the abstract scrape: blocks become safe, never cease to be, the number reported is the end of
the contiguous safe prefix, and it ends with all of them. Scraper implements it (`ImplementsScrape`).

**Loader** is `verify_load` record by record. The bytes of a file are a record of what they decode to; any
change makes other bytes, and the sha256 is the bytes. A name from outside carries its length, which
`convert_key` tests. Block numbers wrap at `Width` bits in a release build, and a build that checks for
overflow (`debug`) stops at a reversed range, and at one that is too long to be counted.

**Characterize** keeps per window what `Pass1` keeps. Python's hashes of keys and stems are taken to be
injective, the means exact; sorting is by ranks (`Sorted`, the stable order of `sorted`), both percentiles are computed as
numpy does, between the two nearest ranks, then cut to an integer. Which of equally frequent contracts `most_common` takes is left open, because their order is
that of a Python set.

**Experiment** puts the programs in the order their READMEs give: a range is resolved, some of its shards are
stored, at most one damage is done to the files (gone, unreadable, rewritten with other bytes, a record lost,
numbers shifted, a name cut short, two files exchanged), `verify-load` runs, and `characterize.py` runs if it
said OK. That a directory is verified before it is used is the user's discipline, not the code's; the
properties are about directories that passed. `range` is what the scraper resolved, and never changes; `D` is Dataset over it,
the geometry by which the shards are stored and the scraper's `verify`.

## Runs

| Run | What it asks | Instance |
|---|---|---|
| `ordered_map` | list, index and free slots agree; every call answers as RecencyMap's | 3 keys, 2 values |
| `policies` | bookkeeping, bounds, the right victim, the trait's promise | 7 interchangeable keys, capacity 3, at most 3 uses of a resident key |
| `arc_overshoot` | *violation*: ARC exceeds its capacity | 5 keys, capacity 2 |
| `witness_cache` | policies and windows in step, what was written forgotten, by ghosts too, witness and counters truthful, the strata add up to the whole, no underflow | 3 keys on 2 stems, leaf capacity 2, stem capacity 1, retention 2, blocks 1 to 4 with gaps; three sinks, two of which partition the blocks |
| `residency` | *violation*: residency is not as of the start of the block | as above |
| `scraper` | no block lost, checkpoint durable, the two verifiers agree, but for what the missing flag lets pass; the whole implements Scrape, and so ends | 5 blocks in 3 shards, the last short; 2 workers, 1 result, 2 failures, 2 kills |
| `rpc` | counters agree with the calls, every fetch ends | 2 fetches of 2 calls, 2 permits, 2 attempts |
| `tracer` | reads are what was touched, no write is missed | 2 accounts, 2 slots, 2 fields, 2 transactions |
| `write_excess` | *violation*: the write set has a header that nothing changed | as above |
| `metrics` | histogram, contract list, peaks, totals, row and series agree, as read back by name | 7 ages at the borders, 3 contracts, 2 blocks with different outcomes in every field |
| `sweep` | cells see the stream in order, a finished table is backed by its files under the ids the analytics compute | 4 cells (2 windows, 2 capacities), 2 threads, 3 blocks in 2 shards, 2 sweeps, 1 failed cell each |
| `experiment` | what verify-load accepts is the range; both verifiers agree; capacities and strata are those of the stream the simulator reads; leaves are unique, Python equals Rust | the code's geometry, slots 0, 63, 64, 255 and 256, latest block 7, 9 ranges (empty, reversed and below block 0 among them), shards of 2, every subset of them, 8 damages and exchanges, 243 contents, windows 1 and 2 |

**Bounds, and why they are enough.** Three keys give a node of the list two neighbours and let a freed
slot be reused under another key while others are free. ARC's directory holds `2c` keys, so that its
second trimming loop runs only with a key more; and its target moves by more than one, and meets its cap,
only from a capacity of three on. Hence seven keys over a capacity of three, which also force LFU buckets of
several keys; `MaxUses` keeps LFU's counts finite and three uses make three buckets. The keys are
symmetric: no definition of the policies chooses among them. In the cache, two keys of three share a stem, so that a write to one hits the other's
stem; capacities of 2 and 1 force evictions of leaves and of stems; retention 2 with gaps up to 2 over
four blocks lets keys expire, be refreshed in time, and expire several at once. `MaxReads` (2) and
`MaxWrites` (1) bound a block: a read-write collision, a read that evicts, and two reads of one stem fit. `MaxReadsInAll` (5)
bounds the reads of a run, since two reads in each of four blocks only repeat what shorter runs do.
In the scraper three shards can complete in any order and with a hole; one place in the results queue
makes both workers wait; two kills let a run be killed while it repairs what a killed run left: killed first before the
checkpoint and then before the manifest, it leaves a whole file beside the hash of an older one, which the simulator passes by default
and `scraper verify` does not. The
deadlock check is off where a bound, or the end of the work, ends the behaviours: the cache runs (`LastBlock`), `tracer`,
`metrics`, `rpc`, `sweep` and `experiment`.
In `rpc` one of the two traces stands for both, which are alike; the second fetch is either at once or a repetition next
to the orphan of the first. Two transactions suffice for `tracer`: parsing takes the union over transactions, and
the second makes a value come back or an account go that the first created. In `sweep` two cells wait for
a thread while two run, two windows and two capacities tell an id from one with its axes exchanged, and the second
sweep meets every set of files that a failed one can leave (`MaxFailures` bounds the cells whose writes fail).
In `experiment` the arguments resolve to a plain range, a range of one shard more, an empty one, one below block 0,
and two that end before they start; five blocks make a short last shard and a short last window, and are the fewest for
which the lower quartile is itself a block with another below it. Directories are damaged with one content of the blocks only
(`PlainChain`); a single damage already separates the checks, and with two shards leaves one intact.
The slots lie at the borders of the derivation: the first and the last of the header stem, the one after it, and the last and the first of
two storage stems; slot 256 has a low byte below 64. `Latest`, `Margin`, `NBlocks`, `Starts` and `Ends` bound the ranges, `Chains` the contents.

**Fairness** (runs `scraper` and `rpc`): in `rpc`, each call and each gather is weakly fair, because sleeps end and requests
have a total timeout. In `scraper`, `Start` (whoever runs the scraper resumes it), each worker, and the
writer are weakly fair. asyncio runs every task that is ready and a bounded queue wakes its waiters in
order. A fetch that is under way is answered or fails in the end, which is `EveryFetchEnds` of run `rpc`. Failures of a block are bounded by `MaxFailures`: a block that fails for ever is
queued again for ever by the code, and the liveness of Scrape is not true of it.

## Findings

1. **ARC can hold `capacity + 1` keys** (`policy/arc.rs:41`; run `arc_overshoot`). With `|t1| = c = p` and
   `t2` empty, a miss calls `replace`, which prefers `t2`, finds nothing there and evicts nothing; the
   key is admitted all the same. The test `capacity_never_exceeded` and the `debug_assert` of
   `cache.rs:172` say otherwise; the assertion stops a debug build. `OccupancyBounded`, proved, says that it is never
   more than one.
2. **Residency is not "as of the start of the block"** (`cache.rs:129` against the comment of
   `witness.rs:73`; run `residency`). A key held on arrival and evicted by an earlier read of the same
   block is charged as cold. What does hold is the other direction: `WarmOnlyIfHeldOnArrival`.
3. **The write set is not "only what changed"** (`tracer.py:46` against `block_scraper/README.md:13-14`; run
   `write_excess`). A field on one side of a diff only counts as changed, so that a node that leaves unchanged fields out of
   `post` makes every write to storage a write to the account's header as well, which the simulator then invalidates. Whether the node
   does is up to the node; the repository's test of a cleared slot repeats the balance in `post` (`tests/test_tracer_parse.py:89`). What holds is that no change is missed and
   that the excess is headers of modified accounts: `WritesCoverTheChanges`, proved.

By default `verify-load` is weaker than `scraper verify`: without `--verify-sha` it says OK to a directory whose file is newer than its entry.
No text promises otherwise, so this is no finding; `VerifiersAgree` says how far apart the two can be, which is that such a directory
still holds every block and that the scraper, resumed, still has blocks to write.

## What is proved

Every theorem is checked by TLAPS, from the named assumptions on the constants alone. Each inductive
invariant `IInv` was first checked by TLC on the instance of its run.

**Common ground** (`CollectionProofs`). What removing and appending do to a list without repeats; how many
places of a list hold a value; when one list is in the order of another, and stays so; sums of functions over finite sets, and what becomes of one when a single
argument changes; the list that joins the lists of a list; the members of a set in the order of their ranks (ascending, or by
any strict total order: `RankedInOrder`). Sums and joins are recursive in the libraries,
and induction over them is out of the prover's reach as a theorem schema; here it is brought down to the least
natural number for which the fact fails, which is first-order.

**The policies** (`ReplacementPolicyProofs`, for every key set and every capacity). The inductive invariant
says that the history-free state of the policy is in order (`PolicyInv`): LRU's list has no repeats and is within
capacity; LFU's buckets are exactly the preimages of its counts, without repeats, and the hint is no higher than any of
them; ARC's lists are free of repeats and pairwise disjoint, `p` is at most `c`, `t1` and `t2` hold at most `c + 1`
keys and the whole directory at most `2c`.
None of these is inductive alone. That LFU evicts a key at all needs a bucket at or above the hint, which
needs the buckets to match the counts. ARC's occupancy is the subtle one: at `c + 1` keys the
next miss must evict, and it does, because the overshoot happens only with `t1` at the target and a further key in either list makes `replace`
succeed. There is one lemma per policy and operation (in `CollectionProofs`, since the witness cache cites them too), then one step per action. From `IInv`
follow `TypesAreKept`, `OccupancyIsBounded`, `ArcDirectoryIsBounded`, `ArcListsAreDisjoint`,
`LfuBucketsAlwaysMatch` and `LfuHintReachesABucket`. `PoliciesKeepTheTrait` shows the refinement:
`Spec => Trait!Spec`, initial states to initial states and every step to a step.
`VictimsAreJustified` is the action property: who is evicted, judged from the accesses alone. It needs a second
invariant on top of the first, `HInv` (`HistoryFollows`): the history lists the resident keys without repeats; LRU's list, every bucket of LFU
and ARC's `t1` and `t2` are in its order; and LFU's counts are the accesses since a key entered. The steps rest on what one access,
eviction or remove makes of an order: whatever was in the old order, without the victim and the key, is in the new one, and stays so when the key
is appended. The heads that the policies pop are then the oldest of their lists.

**The ordered map** (`OrderedMapProofs`, for every set of keys and values). `Held` says that each slot is either owned
by the one key that it names, or on the free stack, once; `LinkedAs` that the links run forwards and backwards through the
slots of one sequence of owned slots. That sequence is a state function, the walk from the head; a recursive walk says nothing
about a step, so every operation is shown to turn links of an order `o` into links of the new order (appended,
taken out, moved to the back), and links determine their order. The walk alone is not inductive: without
the backward links, unlinking a middle slot may cut the list, and without ownership a reused slot could be one still linked.
`ListAndSlotsAlwaysAgree` and `TypesAreKept` follow, and `RecencyMapImplemented` is the whole refinement,
`Spec => Abstract!Spec` with its answers, which is what lets policies and windows treat an ordered map as a sequence.

**The witness cache** (`WitnessCacheProofs`, for every set of keys, finite sets of addresses and sinks, all capacities, any
retention and any strata). All eight invariants of the run are theorems. `IInv` has four parts and two of the properties. *CachesInv*: both policies
are in order, both windows know exactly the keys of their policies, sorted by last sight, with no stamp after `now`, and none too old
once the drains are over. `WindowsMatchPolicies` needs the policies' own invariant: it is by it that a hit changes no member and a miss trades one victim for the key.
*BlockInv*: what is still to be written or accessed is of the record. *AccumInv*: the accumulator holds only leaves of the record, and only
stems that are no longer waiting; that a leaf stands for one key is `LeafDeterminesKey`. *ProvenanceInv*: what is resident during a block
was so on arrival or has been read since, and what the block has written is no longer. With it
`WarmOnlyIfHeldOnArrival` is inductive; without it a read after an eviction would prove nothing about arrival.
`WrittenIsForgotten` is about more than what is resident: under ARC a key can also be known as a ghost, so that its step rests on what
each operation does to all four lists (`CacheKnown`: an access makes nothing known but its key, a removal leaves the key unknown in all).
`BooksAlwaysBalance` and `StrataAlwaysAddUp` carry on with counters as sums: at each step of a block the
totals of a partition grow by what its one active sink records, which is the same for every partition. `BytesNeverUnderflow` compares sums and cardinalities over the
accumulator as `seal` computes them, for any number of leaves and stems.

**The scraper** (`ScraperProofs`, for any blocks, shard size, finite set of workers, room in the results queue, number of failures and kills).
All six invariants are theorems. `IInv` has a part for each thing that a step or a kill could break: *DiskInv*, that the manifest is
sorted and lists a shard at most once, and a completed shard is on disk with the hash that is listed; *FlushInv*, that
the shard being written is whole in memory and on disk as far as the flush has come (without it, the write that completes a shard
proves nothing about the two before it); *PlacesInv*, that the copies of a block in work, hands, results and buffers add up to one
if it is pending and to none otherwise; *EndInv*, that each worker that left has put one mark, behind everything it had put before, so that
the writer's count of marks means that nothing is left; and *Reports*, that the checkpoint's highest block is the end
of the contiguous prefix of complete shards. `ScrapeImplemented` is the safety half of `ImplementsScrape`: every step of
the pipeline is a step of Scrape or a stutter. The other half, that the scrape ends, is liveness and stays with TLC.

Both verifiers are followed with the hashes compared and without (`LoadsIff`, `VerifyLoadIff`). With them `verify-load` accepts just what
`scraper verify` does. Without them a listed file need only have the count of its entry; that such a directory is whole all the same follows from *DiskInv*, since
whatever file a kill leaves in the place of a listed shard has the blocks of that shard, and that the stream ascends follows from the order of the entries alone.
Were nothing pending, every shard would be complete and on disk with the hash that is listed (`NothingPending`): what the two disagree on is always work left.

**The leaves** (for every node width of at least twice the header offset). `LeafDeterminesKey` (`WitnessCacheProofs`): the derivation is injective on all keys of
the state. `LeavesAreUnique` and `MirrorAlwaysAgrees` (`ExperimentProofs`) lift this, and the equality of both derivations, to any directory: whatever
damage is done to it, all that verify-load streams is of keys of the state (`StreamedKeys`), because a damaged file keeps its names' identity or does not load.

**The rpc client** (`FetchProofs`, for any number of fetches, workers, permits and attempts, whatever the node answers, and
any subset of the three kinds of call). `CountersAgree` is not inductive: it bounds `cu_spent` by counting fetches, but what is charged is a call,
and a call of a fetch that failed is still charged when its answer comes. `ChargesInv` names the calls that were charged: a set
that holds every answered call and none that is still under way, whose costs sum to `cu_spent`. An answer adds a call that cannot have been in
the set yet. *CallsInv* ties the calls to their fetch (a fetched one has only answered calls, a call exists only in a fetch that was
begun) and lets a call wait for a retry only while an attempt is left. *PermitsInv* and *RetriesInv* are conjuncts of the property. `CountersAlwaysAgree`
follows from two inclusions, of the calls of fetched blocks in the charged set and of that set in the calls of begun fetches; the cost of
whole rows of the table of calls is the cost of one row times their number (`SumOfRows`).

**Trace parsing** (`FetchProofs`, for any accounts, slots, values and number of transactions). The names of the accounts and slots
are byte strings of the two widths, `InitialWorld` gives each account a state, and nothing else is assumed. Both properties are inductive together with the types,
once a transaction is known by what its entry adds to a parsed set: `ReadKeys` of the entry is what the transaction touched, and `WriteKeys` holds what it
changed and, in excess, headers of accounts that it modified. Below that is the arithmetic of names: a name without its leading zeros, padded on the left to its
width, is the name again, and two names that pad to one are one. What the diff leaves out is followed case by case: an account that is created is in `post` only, one
that is destroyed in `pre` only, a slot that is cleared in `pre` only.

**The sweep** (`SweepProofs`, for any shards, thread count, number of sweeps and failures, and any lists of policies, windows
and capacities without repeats). `IInv` relates a cell to the stream by where the sweep is: the shards before this one, and of this one as many blocks as the cell
is done with (*StreamInv*). The barrier is what makes it inductive: the next shard begins only when every cell is through, so that what comes before it is the same
for all. *FilesInv* says that the files of the runs a cell has written out in this sweep are of this sweep; it survives the writes of other cells because
`RunIds` gives no two runs one id, which is the arithmetic of a mixed-radix number. *TableInv* says that the table, sorted by id, has each run at the place of its id: the
rows are collected in the order of their ids, so that the sort leaves them alone. `RunsAlwaysBacked` then equates `RunIdFor`, the analytics' own computation
from lists of its own, with `RunIds`, which is where the lists must be without repeats.

**The data directory** (`ExperimentProofs`, for any arguments below the last block number, any shard size, any of the shards stored,
any schema version, any contents, every damage of `Damaged` and every exchange of two files, with and without the flag, in both kinds of build).
`IInv` says what the directory is and how far verify-load has come. *ManifestInv*: the manifest lists shards of the range, each
with the numbers of its blocks and the hash of whole records, and one above the other. *DiskInv*: a file holds one list of records with numbers, or nothing.
*LoaderInv* relates the loop to the directory at once: what was yielded and what is buffered are together the join of the lists of the shards so far,
all of which load, no gap is counted exactly where there is none (without `prev` being the last number yielded, a later gap could be
missed), "ok" is said only of a directory that is accepted as a whole (`Accepts`) and "failed" only of one that is not.
`AcceptedAlwaysTheRange` is then about `Accepts` alone. Entries one above the other, within the range, whose counts sum to the length of the range leave no room
between them (`SpansFit`, `SpansCover`); that the length is meant needs the argument that the remainder of a range of at most `2^Width - 1` blocks is its length, or
the directory is empty (`AcceptedLength`); and one file that is intact fixes the number of its first record at the place where the entries before it end,
from which the absence of gaps carries it to all (`AcceptedNumbers`). For `VerdictsNeverDivide` a directory passes `scraper verify` exactly if every file is intact
and the entries are the range, end to end (`PassedIs`); such a directory is accepted (`PassedIsAccepted`), one that is accepted with its hashes passes unless the
range is empty (`AcceptedPasses`), and Dataset's one-line view of verify-load, on which `VerifiersAlwaysAgree` of the scraper rests, is the same condition
(`ViewPasses`). An empty range is the one case where they differ: verify-load accepts a manifest without shards, `scraper verify` does not.

**What is measured** (`ExperimentProofs`, for any windows, capacities, node width and header offset, any number of blocks and any finite sets of
keys that they read). The assumptions added for it are that the analytics measure every window of the sweep, as the two lists of `characterize.py:20` and
`config.rs:7` do, and that a block reads finitely many keys of the state. `MeasureInv` is the second invariant on top of `IInv`: while the first pass is at
block n, each window holds the keys and the stems of the blocks since the last multiple of its length, and the sizes so far are those of the groups
before it (*PassAt*; `WindowStep` for one block more, `WindowEnd` for the short group that `finalize` flushes). Neither property says this, and
neither is inductive without it. What iter_blocks gives is what verify-load streamed because the accepted manifest is in order already, so that
sorting it leaves it alone, and because both decode a record alike (`MeasuredIs`; that damaged files keep sound names, or do not load, is part of `Numbered` in `IInv`).
`CapacitiesAlwaysMeasure` then rests on four facts: a group has as many leaves as keys, since no two keys share a leaf (`LeafOfOneKey`); both derivations have one
stem for a key; the rounding of a share is off by half an entry at most (`EntriesNear`); and m shorter windows together see at most m times what the window that
they make up sees (`SumOfShorter`), so that its share is no smaller (`EntriesGrow`). The last holds for windows that are multiples of each other only: with
windows of 2 and 3 blocks a key read in blocks 2 and 3 counts twice in the one and once in the other. That the windows divide the number of blocks, as the property
once had it, is not enough; the windows of the code are powers of two.
`StrataAlwaysSeparate` rests on the order of the thresholds: the first quartile, interpolated and cut, is no larger than the median, and a quarter of the blocks at
least is not above it (`QuartileAndMedian`, `ThresholdsAre`). A block in both strata has just the two thresholds' common value.

**What one run writes** (`SweepProofs`, for any ages, contracts and outcomes, in any order and number). `TopK` is positive, as
`TOP_CONTRACTS` is in `sweep.rs`; an outcome has no more hits than reads and sends no more than it would without a cache, which is
what `BytesDoNotUnderflow` says of the cache that reports it; a label has the seven fields of the row that do not come from
`RunMetrics`. `MetricsInv` ties `gathered` to the history: *Sampled*, the series holds the sample of each outcome; *Totalled*, a total
is the sum of its column, where invalidations count those still pending for the next block; *Peaked*, the two peaks of occupancy
are maxima and the three peaks of bytes those of one block, the first with the most (which is not inductive without the maximum: a later
block replaces all three or none); *Tallied*, each histogram counts each age in its bucket and each contract has its number of
invalidations. Below it is that the halvings of `FloorLog2` stop between two powers of two (`FloorLog2Unfolds`,
`LogBorders`), that the buckets' ranges divide the ages, and that a sum, a count and a maximum grow by one entry. For the files, the
names of a table are distinct and as many as its columns, so that each column is read back under its own name (`RunRead`,
`LineReads`, `ContractReads`), which two columns out of order would break. `TalliesAlwaysExact` needs that sorting by count and, among equal counts, by
address is sorting by a strict total order, whatever the counts (`BeforeOrders`, `RankedInOrder`): the first `TopK` of the list are
then just the contracts above all others.

**Only model-checked.** What is beyond this prover: the liveness half of `ImplementsScrape`, and `EveryFetchEnds`. Every invariant and every action
property of the passing runs is a theorem.

## What is not modelled, and why

- The encodings (msgpack, zstd, Parquet, JSON) beyond whether they decode, the plots and LaTeX tables, logging and
  progress, argument parsing and the environment: pure input and output.
- In `characterize.py`, the figures that only a plot or the summary shows (growth curve, global keys, timespan), and
  floating-point rounding of means, which cannot move a capacity unless its exact value lies on a half.
- A scrape with `--concurrency 0`, and a block that fails for ever (see `hazards`).
- That the statistics were made from the directory that is swept: the code never compares them.

## Plan

Done, in this order: ordered map, policies and their proofs, retention window, witness cache, scraper and
dataset, stem derivation and its proofs, trace parsing, rpc client, metrics, sweep, the abstract scrape, result tables,
parameters of the sweep, loader, characterisation and the experiment that composes them; then the proofs of the
witness cache, of the scraper with the safety half of its refinement, of the ordered map with the whole of its own, of
the rpc client, of the victims of the policies, of trace parsing, of the sweep, of the metrics and their files, and of the
data directory under both verifiers and of what is then measured of it.

Left: nothing of the plan. Of the hazards, two have no property because no part of the repository says what should
happen (`--concurrency 0`, a block that fails for ever), and one because the files of two data sets are nowhere compared.
