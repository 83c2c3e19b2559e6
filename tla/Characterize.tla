----------------------------- MODULE Characterize -----------------------------
(***************************************************************************)
(* analytics/characterize.py, which measures the scraped blocks once for   *)
(* every sweep: the working sets that the capacities of the caches are     *)
(* taken from, and the strata.  The hashes that stand for keys and stems   *)
(* are taken to differ where those do, and the means to be exact.  The     *)
(* figures that only a plot or the summary shows are left out.             *)
(***************************************************************************)
EXTENDS Model, DataIO, Integers, Sequences, SequencesExt, FiniteSetsExt, Functions

CONSTANTS
  StatWindows,        \* characterize.py's own WINDOWS
  N_TOP_CONTRACTS

VARIABLES
  p1,                 \* Pass1
  stats, strata       \* dataset_stats.json and strata.json, {} before they are written

-----------------------------------------------------------------------------
(* The places of a list of numbers in the order of a stable sort. *)
Sorted(nums) ==
  LET Ahead(i, j) == nums[i] < nums[j] \/ (nums[i] = nums[j] /\ i < j)
      Rank(j) == Cardinality({i \in DOMAIN nums : Ahead(i, j)})
  IN [r \in DOMAIN nums |-> CHOOSE j \in DOMAIN nums : Rank(j) = r - 1]

(* iter_blocks: the shards by first block, whatever their files hold. *)
IterBlocks(shards, bytes) ==
  LET order == Sorted([i \in DOMAIN shards |-> shards[i].first])
  IN FlattenSeq([r \in DOMAIN order |-> bytes[shards[order[r]].file]])

-----------------------------------------------------------------------------
EmptyWindow == [acc |-> {}, stem_acc |-> {}, cnt |-> 0, sizes |-> <<>>, stem_sizes |-> <<>>]

Pass1Init ==
  [window |-> [n \in StatWindows |-> EmptyWindow], read_storage |-> <<>>, accesses |-> <<>>]

CharacterizeInit == p1 = Pass1Init /\ stats = {} /\ strata = {}

(* Mutant: the stems of a window are not forgotten at its end. *)
CloseLeaves(w) ==
  [w EXCEPT !.sizes = Append(@, Cardinality(w.acc)),
            !.stem_sizes = Append(@, Cardinality(w.stem_acc)),
            !.acc = {}, !.cnt = 0]

Close(w) ==
  [w EXCEPT !.sizes = Append(@, Cardinality(w.acc)),
            !.stem_sizes = Append(@, Cardinality(w.stem_acc)),
            !.acc = {}, !.stem_acc = {}, !.cnt = 0]

FeedWindow(w, n, reads) ==
  LET fed == [w EXCEPT !.acc = @ \cup reads,
                       !.stem_acc = @ \cup {MirrorStem(k) : k \in reads},
                       !.cnt = @ + 1]
  IN IF fed.cnt = n THEN Close(fed) ELSE fed

(* Flushes a trailing partial window, whose sizes are smaller. *)
Finalize(w) == IF w.cnt > 0 THEN Close(w) ELSE w

Slots(keys) == {k \in keys : k.slot # NoSlot}

(* The counters of a Counter, with one more for each storage key. *)
CountAccesses(counter, keys) ==
  LET Of(a) == Cardinality({k \in keys : k.addr = a})
  IN [a \in DOMAIN counter \cup {k.addr : k \in keys} |->
        IF a \in DOMAIN counter THEN counter[a] + Of(a) ELSE Of(a)]

(* Pass1.feed; reads and writes are added up in one counter, since only    *)
(* their sum is used.                                                      *)
Feed(b) ==
  /\ stats = {}
  /\ p1' = [window |-> [n \in StatWindows |-> FeedWindow(p1.window[n], n, b.reads)],
            read_storage |-> Append(p1.read_storage, Cardinality(Slots(b.reads))),
            accesses |-> CountAccesses(CountAccesses(p1.accesses, Slots(b.reads)),
                                       Slots(b.writes))]
  /\ UNCHANGED <<stats, strata>>

-----------------------------------------------------------------------------
(* A fraction; none of an empty series. *)
Stats(sizes) ==
  [mean |-> IF sizes = <<>> THEN {} ELSE {<<SumFunction(sizes), Len(sizes)>>}]

(* np.percentile, linear between the two nearest ranks, cut to an int. *)
Percentile(series, q) ==
  LET a == [r \in DOMAIN series |-> series[Sorted(series)[r]]]
      rank == q * (Len(series) - 1)
      below == a[rank \div 100 + 1]
      above == IF rank % 100 = 0 THEN below ELSE a[rank \div 100 + 2]
  IN (100 * below + (rank % 100) * (above - below)) \div 100

(* Counter.most_common; which of equals come first is left open. *)
MostCommon(counter) ==
  {top \in SUBSET DOMAIN counter :
     /\ Cardinality(top) = Min({N_TOP_CONTRACTS, Cardinality(DOMAIN counter)})
     /\ \A a \in top, b \in DOMAIN counter \ top : counter[a] >= counter[b]}

Thresholds(storage_arr) ==
  [transfer_storage_max |-> Percentile(storage_arr, 25),
   defi_storage_min |-> Percentile(storage_arr, 50)]

TransferOnly(b, thresholds) ==
  Cardinality(Slots(b.reads)) <= thresholds.transfer_storage_max

(* Mutant: a block may be as small as it likes. *)
DefiHeavyAtAnySize(b, defi_set, thresholds) ==
  LET hits == {k \in Slots(b.reads) : k.addr \in defi_set}
  IN Slots(b.reads) # {} /\ 2 * Cardinality(hits) >= Cardinality(Slots(b.reads))

DefiHeavy(b, defi_set, thresholds) ==
  LET hits == {k \in Slots(b.reads) : k.addr \in defi_set}
  IN /\ Slots(b.reads) # {} /\ 2 * Cardinality(hits) >= Cardinality(Slots(b.reads))
     /\ Cardinality(Slots(b.reads)) >= thresholds.defi_storage_min

Numbers(blocks) == [i \in DOMAIN blocks |-> blocks[i].number]

(* The numbers of the blocks at some places, in their order. *)
NumbersAt(blocks, places) ==
  [k \in 1..Cardinality(places) |->
     blocks[CHOOSE i \in places : Cardinality({j \in places : j < i}) = k - 1].number]

(* run_pass2, over all blocks a second time. *)
RunPass2(blocks, defi_set, thresholds) ==
  LET heavy == {i \in DOMAIN blocks : DefiHeavy(blocks[i], defi_set, thresholds)}
      light == {i \in DOMAIN blocks : TransferOnly(blocks[i], thresholds)}
  IN [defi_heavy |-> NumbersAt(blocks, heavy), transfer_only |-> NumbersAt(blocks, light)]

(* main, from the end of the first pass on. *)
Report(blocks) ==
  /\ stats = {}
  /\ LET window == [n \in StatWindows |-> Finalize(p1.window[n])]
     IN stats' = {[window_working_set |-> [n \in StatWindows |-> Stats(window[n].sizes)],
                   window_working_set_stems |->
                     {[n \in StatWindows |-> Stats(window[n].stem_sizes)]}]}
  /\ \E defi_set \in MostCommon(p1.accesses) :
       LET pass2 == RunPass2(blocks, defi_set, Thresholds(p1.read_storage))
       IN strata' = {[defi_contracts |-> {ToHex(a) : a \in defi_set},
                      defi_heavy |-> pass2.defi_heavy,
                      transfer_only |-> pass2.transfer_only]}
  /\ UNCHANGED p1
=============================================================================
