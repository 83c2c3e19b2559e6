------------------------------ MODULE MCMetrics ------------------------------
(***************************************************************************)
(* Metrics on two blocks, two survivals and three invalidations, with ages *)
(* on both sides of the histogram's borders, and outcomes of which the one *)
(* with more leaves is not the one with more bytes.                        *)
(***************************************************************************)
EXTENDS Metrics

MCAges == {0, 7, 8, 15, 16, 255, 256}

Outcome(reads, hits, stemInv, leaves, stems, naive, sent, stem, opt) ==
  [block_number |-> 0, reads |-> reads, hits |-> hits, misses |-> 0, invalidations |-> 0,
   stem_invalidations |-> stemInv, leaf_entries |-> leaves, stem_entries |-> stems,
   naive |-> naive, sent |-> sent, sent_stem |-> stem, sent_stem_opt |-> opt, floor |-> 576]

MCOutcomes == {Outcome(0, 0, 0, 0, 0, 576, 576, 576, 576),
               Outcome(3, 1, 2, 5, 0, 930, 897, 801, 769),
               Outcome(5, 0, 1, 4, 1, 1200, 1200, 1072, 1200)}

MCLabel == [run_id |-> 7, policy |-> "arc", window |-> 8, capacity_pct |-> 25,
            capacity_entries |-> 20, stem_capacity_entries |-> 3, stratum |-> "defi"]
=============================================================================
