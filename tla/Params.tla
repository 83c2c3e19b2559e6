-------------------------------- MODULE Params --------------------------------
(***************************************************************************)
(* caching_strategies/src/config.rs and strata.rs: what the simulator      *)
(* takes from the two files of the analytics, dataset_stats.json and       *)
(* strata.json.  A mean is a fraction <<numerator, denominator>>; a part   *)
(* that a file may lack is a set of at most one element.                   *)
(***************************************************************************)
EXTENDS Integers, Sequences, SequencesExt, Model

CONSTANTS WINDOWS, CAPACITY_PCTS  \* the axes of the grid, in order

ASSUME GridAssumption ==
  /\ WINDOWS \in Seq(Nat) /\ IsInjective(WINDOWS)
  /\ CAPACITY_PCTS \in Seq(1..100) /\ IsInjective(CAPACITY_PCTS)

(* parse_by_window, of a map from windows to their statistics. *)
HasMeans(raw) == \A w \in DOMAIN raw : raw[w].mean # {}

(* DatasetParams::load succeeds; files of older analytics have no stems. *)
LoadsParams(stats) ==
  /\ HasMeans(stats.window_working_set)
  /\ \A raw \in stats.window_working_set_stems : HasMeans(raw)

(* Mutant: the capacity is cut to a whole number, and may be 0. *)
EntriesCut(mean, pct) == (mean[1] * pct) \div (mean[2] * 100)

(* The mean times pct / 100, rounded half up, and at least one. *)
Entries(mean, pct) ==
  LET entries == (2 * mean[1] * pct + 100 * mean[2]) \div (200 * mean[2])
  IN IF entries < 1 THEN 1 ELSE entries

WorkingSet(raw, window) == IF window \in DOMAIN raw THEN raw[window].mean ELSE {}

CapacityEntries(stats, window, pct) ==
  {Entries(mean, pct) : mean \in WorkingSet(stats.window_working_set, window)}

StemCapacityEntries(stats, window, pct) ==
  UNION {{Entries(mean, pct) : mean \in WorkingSet(raw, window)} :
           raw \in stats.window_working_set_stems}

(* build_grid finds a capacity of both caches for every cell. *)
HasCapacities(stats) ==
  \A w \in ToSet(WINDOWS), p \in ToSet(CAPACITY_PCTS) :
    CapacityEntries(stats, w, p) # {} /\ StemCapacityEntries(stats, w, p) # {}

-----------------------------------------------------------------------------
Strata == <<"all", "defi", "transfer">>

(* Strata::load succeeds: a contract of another length is refused. *)
LoadsStrata(file) == \A c \in file.defi_contracts : FromHex(c) # {}

InStratum(file, kind, block) ==
  CASE kind = "all" -> TRUE
    [] kind = "defi" -> block \in ToSet(file.defi_heavy)
    [] kind = "transfer" -> block \in ToSet(file.transfer_only)
=============================================================================
