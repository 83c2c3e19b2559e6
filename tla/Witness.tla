------------------------------ MODULE Witness ------------------------------
(***************************************************************************)
(* caching_strategies/src/witness.rs: what one block touched, gathered     *)
(* leaf by leaf, and the bytes its witness costs without a cache and under *)
(* the three rules that let a cached entry be left out.                    *)
(***************************************************************************)
EXTENDS VerkleKey, FiniteSets, Functions

VALUE_BYTES == 32
LEAF_ENTRY_BYTES == 33      \* suffix and value
STEM_ENTRY_BYTES == 128     \* commitment, stem, depth and extension commitments
IPA_FLOOR_BYTES == 576

AccumNew == [leaves |-> <<>>, stems |-> <<>>]

(* A leaf recorded twice stays warm only if it was warm both times, and is *)
(* written if it was once.                                                 *)
RecordLeaf(acc, k, resident, written) ==
  LET id == KeyToLeaf(k)
      known == id \in DOMAIN acc.leaves
      new == [resident |-> resident /\ (known => acc.leaves[id].resident),
              written |-> written \/ (known /\ acc.leaves[id].written)]
  IN [acc EXCEPT !.leaves = [l \in DOMAIN acc.leaves \cup {id} |->
                               IF l = id THEN new ELSE acc.leaves[l]]]

RecordStem(acc, stem, resident) ==
  [acc EXCEPT !.stems = [s \in DOMAIN acc.stems \cup {stem} |->
                           IF s = stem THEN resident ELSE acc.stems[s]]]

-----------------------------------------------------------------------------
LeafNaive(st) == LEAF_ENTRY_BYTES + IF st.written THEN VALUE_BYTES ELSE 0

LeafSent(st) ==
  IF st.resident /\ ~st.written THEN 0
  ELSE IF st.resident THEN LEAF_ENTRY_BYTES
  ELSE LeafNaive(st)

StemsTouched(acc) == {l[1] : l \in DOMAIN acc.leaves}
LeavesOf(acc, stem) == {acc.leaves[l] : l \in {x \in DOMAIN acc.leaves : x[1] = stem}}

Resident(acc, stem) == \E st \in LeavesOf(acc, stem) : st.resident /\ ~st.written
Written(acc, stem) == \E st \in LeavesOf(acc, stem) : st.written
Dirty(acc, stem) == \E st \in LeavesOf(acc, stem) : ~st.resident \/ st.written

(* When the entry of a stem is left out: the strict rule (sent), the rule  *)
(* of the stem cache (sent_stem) and the relaxed rule (sent_stem_opt).     *)
Elides(acc, stem) == Resident(acc, stem) /\ ~Dirty(acc, stem)
ElidesCachedStem(acc, stem) ==
  stem \in DOMAIN acc.stems /\ acc.stems[stem] /\ ~Written(acc, stem)
ElidesRelaxed(acc, stem) == Resident(acc, stem) /\ ~Written(acc, stem)

(* Mutant: the stems of the naive witness are counted from the stem records. *)
StemsRecorded(acc) == DOMAIN acc.stems

(* The stems the naive witness pays for. *)
NaiveStems(acc) == StemsTouched(acc)

Seal(acc) ==
  LET stems == StemsTouched(acc)
      naiveLeaves == SumFunction([l \in DOMAIN acc.leaves |-> LeafNaive(acc.leaves[l])])
      sentLeaves == SumFunction([l \in DOMAIN acc.leaves |-> LeafSent(acc.leaves[l])])
      Charged(elided(_)) ==
        IPA_FLOOR_BYTES + sentLeaves
          + STEM_ENTRY_BYTES * Cardinality({s \in stems : ~elided(s)})
  IN [naive |-> IPA_FLOOR_BYTES + naiveLeaves + STEM_ENTRY_BYTES * Cardinality(NaiveStems(acc)),
      sent |-> Charged(LAMBDA s : Elides(acc, s)),
      sent_stem |-> Charged(LAMBDA s : ElidesCachedStem(acc, s)),
      sent_stem_opt |-> Charged(LAMBDA s : ElidesRelaxed(acc, s))]
=============================================================================
