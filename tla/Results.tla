-------------------------------- MODULE Results --------------------------------
(***************************************************************************)
(* caching_strategies/src/output.rs: the tables a sweep writes.  A table   *)
(* is given as a list of column names and a list of columns, paired by     *)
(* their positions alone, and analytics_lib/resultio.py reads it back by   *)
(* name.  Here a table has one row and a column is its value.              *)
(***************************************************************************)
EXTENDS Integers, Sequences, SequencesExt

SURVIVAL_BUCKETS == 14

(* A float that is a ratio is kept as a fraction, 0 when there is nothing  *)
(* to divide by.                                                           *)
Ratio(num, den) == IF den = 0 THEN <<0, 1>> ELSE <<num, den>>

(* The row of a run: the totals of its RunMetrics, with its labels. *)
FromMetrics(label, m) ==
  LET naive == m.total_witness_bytes_naive
  IN [run_id |-> label.run_id, policy |-> label.policy, window |-> label.window,
      capacity_pct |-> label.capacity_pct, capacity_entries |-> label.capacity_entries,
      stem_capacity_entries |-> label.stem_capacity_entries, stratum |-> label.stratum,
      blocks_counted |-> m.blocks_counted, total_reads |-> m.total_reads,
      total_hits |-> m.total_hits, total_misses |-> m.total_misses,
      total_invalidations |-> m.total_invalidations,
      total_stem_invalidations |-> m.total_stem_invalidations,
      peak_occupancy |-> m.peak_occupancy, stem_peak_occupancy |-> m.peak_stem_occupancy,
      mean_survival |-> Ratio(m.survival.sum_age, m.survival.n),
      stem_mean_survival |-> Ratio(m.stem_survival.sum_age, m.stem_survival.n),
      survival_buckets |-> m.survival.buckets,
      bytes_naive |-> naive, bytes_sent |-> m.total_witness_bytes_sent,
      bytes_saved |-> m.total_bytes_saved, floor_bytes |-> m.total_noncacheable_floor_bytes,
      bytes_sent_stem |-> m.total_witness_bytes_sent_stem,
      bytes_sent_stem_opt |-> m.total_witness_bytes_sent_stem_opt,
      overall_hit_rate |-> Ratio(m.total_hits, m.total_reads),
      overall_compression_ratio |-> Ratio(m.total_bytes_saved, naive),
      compression_stem |-> Ratio(naive - m.total_witness_bytes_sent_stem, naive),
      cacheable_fraction |-> Ratio(naive - m.total_noncacheable_floor_bytes, naive),
      peak_cache_bytes |-> m.peak_cache_bytes, peak_leaf_bytes |-> m.peak_leaf_bytes,
      peak_stem_bytes |-> m.peak_stem_bytes,
      mean_cache_bytes |-> Ratio(m.sum_cache_bytes, m.blocks_counted)]

(* runs.parquet. *)
BucketNames ==
  <<"survival_b0", "survival_b1", "survival_b2", "survival_b3", "survival_b4",
    "survival_b5", "survival_b6", "survival_b7", "survival_b8", "survival_b9",
    "survival_b10", "survival_b11", "survival_b12", "survival_b13">>
BucketName(i) == BucketNames[i + 1]
RunFields ==
  <<"run_id", "policy", "window", "capacity_pct", "capacity_entries", "stratum",
    "blocks_counted", "total_reads", "total_hits", "total_misses", "overall_hit_rate",
    "overall_compression_ratio", "total_invalidations", "peak_occupancy", "mean_survival">>
  \o [i \in 1..SURVIVAL_BUCKETS |-> BucketName(i - 1)]
  \o <<"bytes_sent", "bytes_saved", "bytes_naive", "floor_bytes", "cacheable_fraction",
       "peak_cache_bytes", "mean_cache_bytes", "peak_leaf_bytes", "peak_stem_bytes",
       "bytes_sent_stem", "bytes_sent_stem_opt", "compression_stem", "stem_capacity_entries",
       "stem_peak_occupancy", "stem_mean_survival", "total_stem_invalidations">>

RunColumns(r) ==
  <<r.run_id, r.policy, r.window, r.capacity_pct, r.capacity_entries, r.stratum,
    r.blocks_counted, r.total_reads, r.total_hits, r.total_misses, r.overall_hit_rate,
    r.overall_compression_ratio, r.total_invalidations, r.peak_occupancy, r.mean_survival>>
  \o [i \in 1..SURVIVAL_BUCKETS |-> r.survival_buckets[i - 1]]
  \o <<r.bytes_sent, r.bytes_saved, r.bytes_naive, r.floor_bytes, r.cacheable_fraction,
       r.peak_cache_bytes, r.mean_cache_bytes, r.peak_leaf_bytes, r.peak_stem_bytes,
       r.bytes_sent_stem, r.bytes_sent_stem_opt, r.compression_stem, r.stem_capacity_entries,
       r.stem_peak_occupancy, r.stem_mean_survival, r.total_stem_invalidations>>

(* series/run_*.parquet, one row per block. *)
SeriesFields ==
  <<"block_number", "reads", "hits", "misses", "block_hit_rate", "bytes_sent",
    "bytes_saved", "bytes_naive", "floor_bytes", "invalidations", "occupancy",
    "cache_bytes", "bytes_sent_stem">>

SeriesColumns(s) ==
  <<s.block_number, s.reads, s.hits, s.misses, Ratio(s.hits, s.reads), s.witness_sent,
    s.bytes_saved, s.witness_naive, s.floor, s.invalidations, s.occupancy,
    s.cache_bytes, s.bytes_sent_stem>>

(* contracts/run_*.parquet, one row per contract. *)
ContractFields == <<"address", "invalidations">>
ContractColumns(addr, count) == <<addr, count>>

(* RecordBatch::try_new wants as many columns as names; a reader looks a   *)
(* column up by its name.                                                  *)
Position(fields) ==
  [name \in ToSet(fields) |-> CHOOSE i \in 1..Len(fields) : fields[i] = name]
RunPosition == Position(RunFields)
SeriesPosition == Position(SeriesFields)
ContractPosition == Position(ContractFields)

ReadBack(position, cols) == [name \in DOMAIN position |-> cols[position[name]]]
=============================================================================
