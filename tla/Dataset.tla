------------------------------ MODULE Dataset ------------------------------
(***************************************************************************)
(* The data directory the scraper writes and the simulator reads: shard    *)
(* files, and the list of them in manifest.json.  A file holds records for *)
(* a set of blocks, in ascending order; `epoch`, the run of the scraper    *)
(* that wrote it, stands for its bytes, since the order of the keys in a   *)
(* record changes from one Python process to the next.  The sha256 of a    *)
(* file is the file itself.                                                *)
(***************************************************************************)
EXTENDS Integers, SequencesExt, FiniteSetsExt

CONSTANTS StartBlock, EndBlock, ShardSize

ASSUME DatasetAssumption ==
  /\ StartBlock \in Int /\ EndBlock \in Int
  /\ ShardSize \in Nat \ {0}

Blocks == StartBlock..EndBlock

-----------------------------------------------------------------------------
(* The geometry of the shards (writer.py). *)
NShards == (EndBlock - StartBlock + ShardSize) \div ShardSize   \* rounded up
Shards == 0..NShards - 1

ShardIndex(bn) == (bn - StartBlock) \div ShardSize

FirstBlock(s) == StartBlock + s * ShardSize

LastBlock(s) ==
  IF FirstBlock(s) + ShardSize - 1 > EndBlock THEN EndBlock
                                              ELSE FirstBlock(s) + ShardSize - 1

ShardRange(s) == FirstBlock(s)..LastBlock(s)

(* The numbers of S, ascending (the proofs cannot look into SetToSortSeq). *)
InOrder(S) ==
  [i \in 1..Cardinality(S) |-> CHOOSE b \in S : Cardinality({c \in S : c < b}) = i - 1]

-----------------------------------------------------------------------------
(* A shard on disk, none or one, and its entry in the manifest. *)
NoFile == {}
Blob(blocks, epoch) == {[blocks |-> blocks, epoch |-> epoch]}

(* Mutant: the entry of a short last shard claims a whole one. *)
WholeShardEntry(s, blocks, blob) ==
  [file |-> s, first |-> FirstBlock(s), last |-> FirstBlock(s) + ShardSize - 1,
   count |-> Cardinality(blocks), sha |-> blob]

EntryOf(s, blocks, blob) ==
  [file |-> s, first |-> Min(blocks), last |-> Max(blocks),
   count |-> Cardinality(blocks), sha |-> blob]

Listed(shards, s) == {i \in DOMAIN shards : shards[i].file = s}

(* Mutant: a new entry goes to the end of the list. *)
AppendShard(shards, e) ==
  IF Listed(shards, e.file) # {}
  THEN [i \in DOMAIN shards |-> IF shards[i].file = e.file THEN e ELSE shards[i]]
  ELSE Append(shards, e)

(* upsert_shard: sorting the list, which was sorted, with the new entry at *)
(* its end puts the entry after those that do not start later.             *)
UpsertShard(shards, e) ==
  IF Listed(shards, e.file) # {}
  THEN [i \in DOMAIN shards |-> IF shards[i].file = e.file THEN e ELSE shards[i]]
  ELSE InsertAt(shards, 1 + Cardinality({i \in DOMAIN shards : shards[i].first <= e.first}), e)

-----------------------------------------------------------------------------
(* `scraper verify` (_verify): every file is there with its hash, counts   *)
(* match ranges, and the ranges cover the run without a gap.               *)
Before(shards, i, j) ==
  shards[i].first < shards[j].first \/ (shards[i].first = shards[j].first /\ i < j)

Covered(shards) ==
  [r \in DOMAIN shards |->
     shards[CHOOSE j \in DOMAIN shards :
              Cardinality({i \in DOMAIN shards : Before(shards, i, j)}) = r - 1]]

Verify(shards, files) ==
  LET covered == Covered(shards)
  IN /\ \A i \in DOMAIN shards :
          /\ files[shards[i].file] # NoFile
          /\ files[shards[i].file] = shards[i].sha
          /\ shards[i].last - shards[i].first + 1 = shards[i].count
     /\ covered # <<>>
     /\ \A i \in DOMAIN covered :
          covered[i].first = IF i = 1 THEN StartBlock ELSE covered[i - 1].last + 1
     /\ covered[Len(covered)].last = EndBlock

(* load_shard and fill: what reading one listed shard yields, if it does   *)
(* not fail.  Its hash is compared only on request, and by default is not. *)
Loads(e, files, verify_sha) ==
  /\ files[e.file] # NoFile
  /\ verify_sha => files[e.file] = e.sha
  /\ \A f \in files[e.file] : Cardinality(f.blocks) = e.count

RecordsOf(e, files) == InOrder(UNION {f.blocks : f \in files[e.file]})

(* ShardStream: the blocks read before the first shard that fails. *)
Streamed(shards, files, verify_sha) ==
  LET fails == {i \in DOMAIN shards : ~Loads(shards[i], files, verify_sha)}
      n == IF fails = {} THEN Len(shards) ELSE Min(fails) - 1
  IN FlattenSeq([i \in 1..n |-> RecordsOf(shards[i], files)])

(* The simulator's verify command (verify_load). *)
VerifyLoad(shards, files, verify_sha) ==
  LET stream == Streamed(shards, files, verify_sha)
  IN /\ \A i \in DOMAIN shards : Loads(shards[i], files, verify_sha)
     /\ Len(stream) = EndBlock - StartBlock + 1
     /\ \A i \in 1..Len(stream) - 1 : stream[i + 1] = stream[i] + 1
=============================================================================
