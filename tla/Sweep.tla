-------------------------------- MODULE Sweep --------------------------------
(***************************************************************************)
(* caching_strategies/src/sweep.rs: one pass over the shards drives every  *)
(* cell of the grid (policy, window, capacity), each with its own witness  *)
(* cache and one sink of metrics per stratum, and writes two files per run *)
(* and one table of all runs.  A cache is here the sequence of the blocks  *)
(* it was given, and a sink that of the blocks it recorded; WitnessCache   *)
(* says what they do with a block.                                         *)
(***************************************************************************)
EXTENDS Params, FiniteSets, Functions

CONSTANTS
  Policies,                          \* PolicyKind::ALL, in order
  Stats, StrataFile,                 \* dataset_stats.json and strata.json
  Shards,                            \* the blocks of each shard of the manifest
  Threads,                           \* of rayon's pool
  NONE,
  MaxSweeps, MaxFailures             \* bounds: sweeps into one out_dir, and
                                     \* cells of a sweep whose writes fail

ASSUME SweepAssumption ==
  /\ Policies \in Seq(STRING) /\ IsInjective(Policies)
  /\ Shards \in Seq(Seq(Nat))
  /\ Threads \in Nat \ {0} /\ MaxSweeps \in Nat \ {0} /\ MaxFailures \in Nat

NCells == Len(Policies) * Len(WINDOWS) * Len(CAPACITY_PCTS)
Cells == 1..NCells
Ids == 0..3 * NCells - 1

(* Mutant: ids are handed out per stratum. *)
RunIdsByStratum(c) == [idx \in 1..3 |-> NCells * (idx - 1) + c - 1]

RunIds(c) == [idx \in 1..3 |-> 3 * (c - 1) + idx - 1]

(* The cells in the order of the three nested loops. *)
BuildGrid ==
  [c \in Cells |->
     LET i == (c - 1) \div Len(CAPACITY_PCTS)
         window == WINDOWS[(i % Len(WINDOWS)) + 1]
         pct == CAPACITY_PCTS[((c - 1) % Len(CAPACITY_PCTS)) + 1]
     IN [policy |-> Policies[(i \div Len(WINDOWS)) + 1],
         window |-> window,
         capacity_pct |-> pct,
         capacity_entries |-> CapacityEntries(Stats, window, pct),
         stem_capacity_entries |-> StemCapacityEntries(Stats, window, pct)]]

-----------------------------------------------------------------------------
VARIABLES
  phase,              \* where run_sweep is
  sweep,              \* the number of this run of the program
  si,                 \* the shard in memory, 0 before the first
  pos,                \* per cell, the blocks of that shard it is done with
  cache, metrics,     \* per cell; and per cell and stratum
  wrote, failed,      \* per cell: runs written out, and whether a write failed
  series, contracts,  \* the files of out_dir, per run id
  runs                \* runs.parquet

sim == <<si, pos, cache, metrics>>
files == <<series, contracts>>
vars == <<phase, sweep, sim, wrote, failed, files, runs>>

Fresh ==
  [si |-> 0, pos |-> [c \in Cells |-> 0], cache |-> [c \in Cells |-> <<>>],
   metrics |-> [c \in Cells |-> [idx \in 1..3 |-> <<>>]],
   wrote |-> [c \in Cells |-> 0], failed |-> [c \in Cells |-> FALSE]]

Init ==
  /\ phase = "start" /\ sweep = 1
  /\ si = Fresh.si /\ pos = Fresh.pos /\ cache = Fresh.cache /\ metrics = Fresh.metrics
  /\ wrote = Fresh.wrote /\ failed = Fresh.failed
  /\ series = [id \in Ids |-> NONE] /\ contracts = [id \in Ids |-> NONE] /\ runs = NONE

(* Manifest, statistics, strata and grid, or the first error among them. *)
Load ==
  /\ phase = "start"
  /\ \/ /\ LoadsParams(Stats) /\ LoadsStrata(StrataFile) /\ HasCapacities(Stats)
        /\ phase' = "shards"
     \/ phase' = "failed"
  /\ UNCHANGED <<sweep, sim, wrote, failed, files, runs>>

(* The shard in memory, empty before the first is loaded. *)
Shard == IF si = 0 THEN <<>> ELSE Shards[si]

(* Mutant: the next shard is loaded once some cell is done with this one. *)
SomeThrough == \E c \in Cells : pos[c] = Len(Shard)

(* for_each returns when every cell is through the shard. *)
AllThrough == \A c \in Cells : pos[c] = Len(Shard)

Between == phase = "shards" /\ AllThrough

LoadShard ==
  /\ Between /\ si < Len(Shards)
  /\ si' = si + 1
  /\ pos' = [c \in Cells |-> 0]
  /\ UNCHANGED <<phase, sweep, cache, metrics, wrote, failed, files, runs>>

LoadShardFails ==
  /\ Between /\ si < Len(Shards)
  /\ phase' = "failed"
  /\ UNCHANGED <<sweep, sim, wrote, failed, files, runs>>

Running == {c \in Cells : 0 < pos[c] /\ pos[c] < Len(Shard)}

(* A thread gives cell c the next block of the shard. *)
ProcessBlock(c) ==
  /\ phase = "shards" /\ pos[c] < Len(Shard)
  /\ pos[c] > 0 \/ Cardinality(Running) < Threads
  /\ LET block == Shard[pos[c] + 1]
     IN /\ cache' = [cache EXCEPT ![c] = Append(@, block)]
        /\ metrics' = [metrics EXCEPT ![c] =
             [idx \in 1..3 |-> IF InStratum(StrataFile, Strata[idx], block)
                               THEN Append(@[idx], block) ELSE @[idx]]]
  /\ pos' = [pos EXCEPT ![c] = @ + 1]
  /\ UNCHANGED <<phase, sweep, si, wrote, failed, files, runs>>

EndShards ==
  /\ Between /\ si = Len(Shards)
  /\ phase' = "files"
  /\ UNCHANGED <<sweep, sim, wrote, failed, files, runs>>

(* A thread is at cell c's files, or takes the cell up. *)
Writing(c) ==
  /\ phase = "files" /\ ~failed[c] /\ wrote[c] < 3
  /\ wrote[c] > 0 \/ Cardinality({d \in Cells : ~failed[d] /\ wrote[d] \in 1..2}) < Threads

(* The series of the cell's next run, and then its contracts. *)
WriteFiles(c) ==
  /\ Writing(c)
  /\ LET idx == wrote[c] + 1
         id == RunIds(c)[idx]
     IN /\ series' = [series EXCEPT ![id] = [sweep |-> sweep, blocks |-> metrics[c][idx]]]
        /\ contracts' = [contracts EXCEPT ![id] = [sweep |-> sweep, cell |-> c, idx |-> idx]]
  /\ wrote' = [wrote EXCEPT ![c] = @ + 1]
  /\ UNCHANGED <<phase, sweep, sim, failed, runs>>

(* Either file cannot be written: the cell gives up. *)
WriteFails(c) ==
  /\ Writing(c) /\ Cardinality({d \in Cells : failed[d]}) < MaxFailures
  /\ failed' = [failed EXCEPT ![c] = TRUE]
  /\ \/ UNCHANGED series
     \/ LET idx == wrote[c] + 1
        IN series' = [series EXCEPT ![RunIds(c)[idx]] =
                        [sweep |-> sweep, blocks |-> metrics[c][idx]]]
  /\ UNCHANGED <<phase, sweep, sim, wrote, contracts, runs>>

(* collect() has the first error if any cell failed; the others may not    *)
(* have been started then.                                                 *)
CollectFails ==
  /\ phase = "files" /\ \E c \in Cells : failed[c]
  /\ \A c \in Cells : failed[c] \/ wrote[c] \in {0, 3}
  /\ phase' = "failed"
  /\ UNCHANGED <<sweep, sim, wrote, failed, files, runs>>

(* A row: the run's labels, and the totals of its sink. *)
RunSummary(c, idx) ==
  [run_id |-> RunIds(c)[idx], spec |-> BuildGrid[c], stratum |-> Strata[idx],
   blocks_counted |-> Len(metrics[c][idx])]

(* A sort by run_id keeps equals as they are (the proofs cannot look into  *)
(* SortSeq).                                                               *)
ByRunId(rows) ==
  LET Before(i, j) ==
        rows[i].run_id < rows[j].run_id \/ (rows[i].run_id = rows[j].run_id /\ i < j)
  IN [n \in DOMAIN rows |->
        rows[CHOOSE j \in DOMAIN rows :
               Cardinality({i \in DOMAIN rows : Before(i, j)}) = n - 1]]

WriteRuns ==
  /\ phase = "files" /\ \A c \in Cells : ~failed[c] /\ wrote[c] = 3
  /\ \/ /\ runs' = ByRunId(
             FlattenSeq([c \in Cells |-> [idx \in 1..3 |-> RunSummary(c, idx)]]))
        /\ phase' = "done"
     \/ phase' = "failed" /\ UNCHANGED runs
  /\ UNCHANGED <<sweep, sim, wrote, failed, files>>

(* The program is run again with the same out_dir. *)
Again ==
  /\ phase \in {"done", "failed"} /\ sweep < MaxSweeps
  /\ phase' = "start" /\ sweep' = sweep + 1
  /\ si' = Fresh.si /\ pos' = Fresh.pos /\ cache' = Fresh.cache /\ metrics' = Fresh.metrics
  /\ wrote' = Fresh.wrote /\ failed' = Fresh.failed
  /\ UNCHANGED <<files, runs>>

Next ==
  \/ Load \/ LoadShard \/ LoadShardFails \/ EndShards
  \/ \E c \in Cells : ProcessBlock(c) \/ WriteFiles(c) \/ WriteFails(c)
  \/ CollectFails \/ WriteRuns \/ Again

Spec == Init /\ [][Next]_vars

-----------------------------------------------------------------------------
Stream == FlattenSeq(Shards)
OfStratum(idx, blocks) ==
  LET kept[i \in 0..Len(blocks)] ==
        IF i = 0 THEN <<>>
        ELSE IF InStratum(StrataFile, Strata[idx], blocks[i]) THEN Append(kept[i - 1], blocks[i])
        ELSE kept[i - 1]
  IN kept[Len(blocks)]

(* However the threads interleave, a cell's cache is given the blocks of   *)
(* the stream one by one in order, as if the cell ran alone, and the sink  *)
(* of a stratum records just its blocks (sweep.rs 112-133).                *)
CellsFollowTheStream ==
  \A c \in Cells :
    /\ IsPrefix(cache[c], Stream)
    /\ \A idx \in 1..3 : metrics[c][idx] = OfStratum(idx, cache[c])
    /\ phase \in {"files", "done"} => cache[c] = Stream

(* resultio.py's run_id_for: where the analytics look for a run, computed  *)
(* from lists of their own.                                                *)
IndexOf(s, x) == (CHOOSE i \in DOMAIN s : s[i] = x) - 1
RunIdFor(policy, window, pct, stratum) ==
  ((IndexOf(Policies, policy) * Len(WINDOWS) + IndexOf(WINDOWS, window)) * Len(CAPACITY_PCTS)
     + IndexOf(CAPACITY_PCTS, pct)) * Len(Strata) + IndexOf(Strata, stratum)

(* When a sweep reports success, whatever an earlier one left behind, the  *)
(* analytics find under run_id_for of a cell and a stratum the row of that *)
(* run, its series and its contracts: the files are this sweep's, and hold *)
(* the blocks of the row (sweep.rs 40-54 and 144-184, resultio.py 67-91).  *)
RunsAreBacked ==
  phase = "done" =>
    /\ Len(runs) = 3 * NCells
    /\ \A c \in Cells, idx \in 1..3 :
         LET spec == BuildGrid[c]
             id == RunIdFor(spec.policy, spec.window, spec.capacity_pct, Strata[idx])
             row == runs[id + 1]
         IN /\ row.run_id = id /\ row.spec = spec /\ row.stratum = Strata[idx]
            /\ series[id] = [sweep |-> sweep, blocks |-> OfStratum(idx, Stream)]
            /\ contracts[id] = [sweep |-> sweep, cell |-> c, idx |-> idx]
            /\ row.blocks_counted = Len(series[id].blocks)
=============================================================================
