------------------------------- MODULE Metrics -------------------------------
(***************************************************************************)
(* caching_strategies/src/metrics.rs: what one run gathers block by block. *)
(* The cache reports survivals and invalidations as they happen and an     *)
(* outcome at the end of each block; Results writes the totals and the     *)
(* series out.                                                             *)
(***************************************************************************)
EXTENDS Results, FiniteSetsExt, Functions

CONSTANTS
  Contracts,      \* addresses, as numbers: they are ordered
  Ages,           \* of survivals, in blocks
  Outcomes,       \* what process_block may report of a block
  Label,          \* the run: its id, cell and stratum
  TopK,           \* TOP_CONTRACTS of sweep.rs
  MaxSurvivals, MaxInvalidations, MaxBlocks  \* bounds

LEAF_ENTRY_BYTES == 33
STEM_ENTRY_BYTES == 128

BlockOutcome ==
  [block_number : Nat, reads : Nat, hits : Nat, misses : Nat, invalidations : Nat,
   stem_invalidations : Nat, leaf_entries : Nat, stem_entries : Nat,
   naive : Nat, sent : Nat, sent_stem : Nat, sent_stem_opt : Nat, floor : Nat]

(* No difference that is taken of an outcome is below 0.                   *)
ASSUME MetricsAssumption ==
  /\ Contracts \subseteq Nat /\ Ages \subseteq Nat /\ Outcomes \subseteq BlockOutcome
  /\ DOMAIN Label = {"run_id", "policy", "window", "capacity_pct", "capacity_entries",
                      "stem_capacity_entries", "stratum"}
  /\ TopK \in Nat \ {0} /\ {MaxSurvivals, MaxInvalidations, MaxBlocks} \subseteq Nat
  /\ \A o \in Outcomes :
       /\ o.hits <= o.reads
       /\ {o.sent, o.sent_stem, o.sent_stem_opt, o.floor} \subseteq 0..o.naive

-----------------------------------------------------------------------------
(* 63 - leading_zeros of a positive age: the halvings that leave one bit. *)
FloorLog2[age \in Nat] == IF age < 2 THEN 0 ELSE 1 + FloorLog2[age \div 2]

(* Mutant: the powers of two are shifted by one bucket. *)
BucketTooHigh(age) ==
  IF age < 8 THEN age
  ELSE LET b == 6 + FloorLog2[age] IN IF b < SURVIVAL_BUCKETS THEN b ELSE SURVIVAL_BUCKETS - 1

BucketOf(age) ==
  IF age < 8 THEN age
  ELSE LET b == 5 + FloorLog2[age] IN IF b < SURVIVAL_BUCKETS THEN b ELSE SURVIVAL_BUCKETS - 1

HistogramNew == [buckets |-> [b \in 0..SURVIVAL_BUCKETS - 1 |-> 0], sum_age |-> 0, n |-> 0]
RecordAge(h, age) ==
  [buckets |-> [h.buckets EXCEPT ![BucketOf(age)] = @ + 1],
   sum_age |-> h.sum_age + age, n |-> h.n + 1]

LeafBytes(fp) == fp.leaf_entries * LEAF_ENTRY_BYTES
StemBytes(fp) == fp.stem_entries * STEM_ENTRY_BYTES
TotalBytes(fp) == LeafBytes(fp) + StemBytes(fp)

(* The entry of addr, 0 when there is none, and 1 more. *)
Counted(counts, addr) ==
  [a \in DOMAIN counts \cup {addr} |->
     (IF a \in DOMAIN counts THEN counts[a] ELSE 0) + IF a = addr THEN 1 ELSE 0]

(* The contracts with the most invalidations, ties by address. *)
Before(counts, a, b) == counts[a] > counts[b] \/ (counts[a] = counts[b] /\ a < b)
TopKContracts(counts, k) ==
  LET v == DOMAIN counts
      Rank(a) == Cardinality({b \in v : Before(counts, b, a)})
  IN [i \in 1..Min({k, Cardinality(v)}) |-> CHOOSE a \in v : Rank(a) = i - 1]

-----------------------------------------------------------------------------
VARIABLES
  gathered,  \* RunMetrics
  pending,   \* the invalidations process_block has counted in its block
  ages,      \* history: the survivals recorded of leaves and stems, in order
  inv,       \* history: the contracts whose keys were invalidated, in order
  outcomes   \* history: what was reported of each block

metricsVars == <<gathered, pending, ages, inv, outcomes>>

RunMetricsNew ==
  [blocks_counted |-> 0, total_reads |-> 0, total_hits |-> 0, total_misses |-> 0,
   total_invalidations |-> 0, total_stem_invalidations |-> 0,
   peak_occupancy |-> 0, peak_stem_occupancy |-> 0,
   survival |-> HistogramNew, stem_survival |-> HistogramNew,
   counts |-> <<>>, series |-> <<>>,
   total_witness_bytes_naive |-> 0, total_witness_bytes_sent |-> 0, total_bytes_saved |-> 0,
   total_noncacheable_floor_bytes |-> 0, total_witness_bytes_sent_stem |-> 0,
   total_witness_bytes_sent_stem_opt |-> 0,
   sum_cache_bytes |-> 0, peak_cache_bytes |-> 0, peak_leaf_bytes |-> 0, peak_stem_bytes |-> 0]

MetricsInit ==
  /\ gathered = RunMetricsNew /\ pending = 0
  /\ ages = [leaf |-> <<>>, stem |-> <<>>] /\ inv = <<>> /\ outcomes = <<>>

RecordSurvival(age) ==
  /\ Len(ages.leaf) + Len(ages.stem) < MaxSurvivals
  /\ gathered' = [gathered EXCEPT !.survival = RecordAge(@, age)]
  /\ ages' = [ages EXCEPT !.leaf = Append(@, age)]
  /\ UNCHANGED <<pending, inv, outcomes>>

RecordStemSurvival(age) ==
  /\ Len(ages.leaf) + Len(ages.stem) < MaxSurvivals
  /\ gathered' = [gathered EXCEPT !.stem_survival = RecordAge(@, age)]
  /\ ages' = [ages EXCEPT !.stem = Append(@, age)]
  /\ UNCHANGED <<pending, inv, outcomes>>

RecordInvalidation(addr) ==
  /\ Len(inv) < MaxInvalidations
  /\ gathered' = [gathered EXCEPT !.counts = Counted(@, addr), !.total_invalidations = @ + 1]
  /\ pending' = pending + 1
  /\ inv' = Append(inv, addr)
  /\ UNCHANGED <<ages, outcomes>>

Higher(a, b) == IF a > b THEN a ELSE b

(* Mutant: each of the three peaks is a maximum of its own. *)
PeaksApart(x, fp) ==
  [x EXCEPT !.peak_cache_bytes = Higher(@, TotalBytes(fp)),
            !.peak_leaf_bytes = Higher(@, LeafBytes(fp)),
            !.peak_stem_bytes = Higher(@, StemBytes(fp))]

(* The three peaks are those of the first block with the largest total. *)
Peaks(x, fp) ==
  IF TotalBytes(fp) > x.peak_cache_bytes
  THEN [x EXCEPT !.peak_cache_bytes = TotalBytes(fp),
              !.peak_leaf_bytes = LeafBytes(fp), !.peak_stem_bytes = StemBytes(fp)]
  ELSE x

(* The sample of a block in the series. *)
Sample(o) ==
  [block_number |-> o.block_number, reads |-> o.reads, hits |-> o.hits,
   misses |-> o.misses, invalidations |-> o.invalidations, occupancy |-> o.leaf_entries,
   witness_naive |-> o.naive, witness_sent |-> o.sent, bytes_saved |-> o.naive - o.sent,
   floor |-> o.floor, cache_bytes |-> TotalBytes(o), bytes_sent_stem |-> o.sent_stem]

(* The totals grow by the outcome, and a sample of it joins the series. *)
RecordBlock(o) ==
  /\ gathered.blocks_counted < MaxBlocks
  /\ gathered' = Peaks([gathered EXCEPT
       !.blocks_counted = @ + 1,
       !.total_reads = @ + o.reads, !.total_hits = @ + o.hits, !.total_misses = @ + o.misses,
       !.total_stem_invalidations = @ + o.stem_invalidations,
       !.peak_occupancy = Higher(@, o.leaf_entries),
       !.peak_stem_occupancy = Higher(@, o.stem_entries),
       !.total_witness_bytes_naive = @ + o.naive, !.total_witness_bytes_sent = @ + o.sent,
       !.total_bytes_saved = @ + (o.naive - o.sent),
       !.total_noncacheable_floor_bytes = @ + o.floor,
       !.total_witness_bytes_sent_stem = @ + o.sent_stem,
       !.total_witness_bytes_sent_stem_opt = @ + o.sent_stem_opt,
       !.sum_cache_bytes = @ + TotalBytes(o),
       !.series = Append(@, Sample(o))], o)
  /\ pending' = 0
  /\ outcomes' = Append(outcomes, o)
  /\ UNCHANGED <<ages, inv>>

(* An outcome carries the number of the block, of which a stratum may skip *)
(* some, and the invalidations counted since its start.                    *)
Reported(o) ==
  [o EXCEPT !.block_number = 2 * gathered.blocks_counted + 1, !.invalidations = pending,
            !.misses = o.reads - o.hits]

MetricsNext ==
  \/ \E age \in Ages : RecordSurvival(age) \/ RecordStemSurvival(age)
  \/ \E addr \in Contracts : RecordInvalidation(addr)
  \/ \E o \in Outcomes : RecordBlock(Reported(o))

MetricsSpec == MetricsInit /\ [][MetricsNext]_metricsVars

-----------------------------------------------------------------------------
(* What a reader finds in the files. *)
Row == ReadBack(RunPosition, RunColumns(FromMetrics(Label, gathered)))
Series ==
  [i \in DOMAIN gathered.series |-> ReadBack(SeriesPosition, SeriesColumns(gathered.series[i]))]
TopContracts ==
  LET top == TopKContracts(gathered.counts, TopK)
  IN [i \in DOMAIN top |->
        ReadBack(ContractPosition, ContractColumns(top[i], gathered.counts[top[i]]))]

SumOver(s, column) == SumFunction([i \in DOMAIN s |-> s[i][column]])
Fractions == {"overall_hit_rate", "overall_compression_ratio", "compression_stem", "cacheable_fraction"}

(* Column of the row -> column of the series it is the sum of. *)
SumOf == [total_reads |-> "reads", total_hits |-> "hits", total_misses |-> "misses",
          bytes_naive |-> "bytes_naive", bytes_sent |-> "bytes_sent", bytes_saved |-> "bytes_saved",
          floor_bytes |-> "floor_bytes", bytes_sent_stem |-> "bytes_sent_stem"]

(* The peaks of bytes are those of one block, of which none was larger. *)
PeaksOfOneBlock(row, series) ==
  /\ row.peak_cache_bytes = Max({0} \cup {series[i].cache_bytes : i \in DOMAIN series})
  /\ series # <<>> => \E i \in DOMAIN series :
       /\ series[i].cache_bytes = row.peak_cache_bytes
       /\ row.peak_leaf_bytes = LEAF_ENTRY_BYTES * outcomes[i].leaf_entries
       /\ row.peak_stem_bytes = STEM_ENTRY_BYTES * outcomes[i].stem_entries

(* A line of the series is the outcome of its block. *)
IsOutcome(b, o) ==
  /\ \A c \in {"block_number", "reads", "hits", "misses", "invalidations"} : b[c] = o[c]
  /\ <<b.bytes_naive, b.bytes_sent, b.bytes_sent_stem>> = <<o.naive, o.sent, o.sent_stem>>
  /\ b.floor_bytes = o.floor /\ b.occupancy = o.leaf_entries
  /\ b.bytes_saved + b.bytes_sent = b.bytes_naive
  /\ b.block_hit_rate = Ratio(o.hits, o.reads)

(* What a reader may conclude from the row of a run and its series, looked *)
(* up by the names of their columns: each line is the outcome of a block,  *)
(* the row is the sum of the lines and carries the labels of its run, the  *)
(* fractions lie between 0 and 1, and the three peaks are those of one     *)
(* block (metrics.rs 127-217, output.rs 54-241).                           *)
RowMatchesSeries ==
  LET row == Row
      series == Series
  IN /\ Len(series) = Len(outcomes)
     /\ \A i \in DOMAIN series : IsOutcome(series[i], outcomes[i])
     /\ row.blocks_counted = Len(series)
     /\ \A c \in DOMAIN SumOf : row[c] = SumOver(series, SumOf[c])
     /\ row.total_invalidations = SumOver(series, "invalidations") + pending
     /\ row.total_stem_invalidations = SumOver(outcomes, "stem_invalidations")
     /\ row.bytes_sent_stem_opt = SumOver(outcomes, "sent_stem_opt")
     /\ row.overall_hit_rate = Ratio(row.total_hits, row.total_reads)
     /\ row.overall_compression_ratio = Ratio(row.bytes_saved, row.bytes_naive)
     /\ \A c \in Fractions : row[c][1] \in 0..row[c][2]
     /\ row.mean_cache_bytes = Ratio(SumOver(series, "cache_bytes"), Len(series))
     /\ row.peak_occupancy = Max({0} \cup {series[i].occupancy : i \in DOMAIN series})
     /\ row.stem_peak_occupancy = Max({0} \cup {outcomes[i].stem_entries : i \in DOMAIN outcomes})
     /\ PeaksOfOneBlock(row, series)
     /\ \A c \in DOMAIN Label : row[c] = Label[c]

(* The ages a bucket of the histogram stands for: one each below 8, then   *)
(* doubling ranges, of which the last has no end.                          *)
AgesOf(b) ==
  IF b < 8 THEN {b}
  ELSE IF b < SURVIVAL_BUCKETS - 1 THEN 2 ^ (b - 5)..2 ^ (b - 4) - 1
  ELSE {age \in Nat : 2 ^ (b - 5) <= age}

Occurrences(s, X) == Cardinality({i \in DOMAIN s : s[i] \in X})

(* The histogram and the list of contracts are what was recorded, as read  *)
(* back from the files: each bucket counts the ages in its range, and the  *)
(* list holds the contracts with most invalidations, in order, with none   *)
(* left out that has more than one listed (metrics.rs 14-54, output.rs     *)
(* 137-139 and 243-254).                                                   *)
TalliesAreExact ==
  LET row == Row
      listed == TopContracts
      top == {listed[i].address : i \in DOMAIN listed}
      met == ToSet(inv)
      count == [a \in met |-> Occurrences(inv, {a})]
  IN /\ \A b \in 0..SURVIVAL_BUCKETS - 1 :
          row[BucketName(b)] = Occurrences(ages.leaf, AgesOf(b))
     /\ row.mean_survival = Ratio(SumFunction(ages.leaf), Len(ages.leaf))
     /\ row.stem_mean_survival = Ratio(SumFunction(ages.stem), Len(ages.stem))
     /\ \A i \in DOMAIN listed : listed[i].invalidations = count[listed[i].address]
     /\ Len(listed) = Min({TopK, Cardinality(met)})
     /\ \A i \in 1..Len(listed) - 1 : Before(count, listed[i].address, listed[i + 1].address)
     /\ \A a \in met \ top : count[a] <= count[Last(listed).address]
=============================================================================
