-------------------------------- MODULE Loader --------------------------------
(***************************************************************************)
(* caching_strategies/src: loader.rs, manifest.rs and the verify-load      *)
(* command of main.rs, step by step over a data directory as it may be     *)
(* found: whole, unfinished, or damaged after it was written.              *)
(*                                                                         *)
(* The bytes of a file are {}, where there is none, or {[records, decodes, *)
(* copy]}; the sha256 of a file is its bytes.  A record holds wire keys,   *)
(* whose names have a length.                                              *)
(***************************************************************************)
EXTENDS Integers, Sequences, SequencesExt, FiniteSetsExt, Model, VerkleKey

CONSTANT Width      \* bits of a block number

ASSUME WidthAssumption == 2 ^ Width \in Nat \ {0}

SUPPORTED_SCHEMA_VERSION == 1

VARIABLES
  manifest,               \* manifest.json: [start, end, schema, shards]
  disk,                   \* file -> its bytes
  verify_sha,             \* the command's flag
  debug,                  \* a build that checks for overflow
  verdict,                \* "open", "streaming", "ok" or "failed"
  next_shard, buffer,     \* of ShardStream; shards are counted from 1
  prev, gaps,             \* of verify_load; prev is a set of at most one
  yielded                 \* the records the stream has given, `count` of them

directory == <<manifest, disk, verify_sha, debug>>
loader == <<verdict, next_shard, buffer, prev, gaps, yielded>>

-----------------------------------------------------------------------------
(* convert_key and convert_record: names of another length are refused. *)
Converts(k) ==
  /\ k.addr.len = ADDR_LEN
  /\ k.slot # NoSlot => k.slot.len = SLOT_LEN

Key(k) == [addr |-> k.addr.id, slot |-> IF k.slot = NoSlot THEN NoSlot ELSE k.slot.id]

ConvertRecord(r) ==
  [number |-> r.number,
   reads |-> {Key(k) : k \in r.reads}, writes |-> {Key(k) : k \in r.writes}]

(* Mutant: the hash is not looked at. *)
LoadAnyShard(bytes, expected) ==
  {[i \in DOMAIN c.records |-> ConvertRecord(c.records[i])] :
     c \in {x \in bytes :
              /\ x.decodes
              /\ \A r \in ToSet(x.records) : \A k \in r.reads \cup r.writes : Converts(k)}}

(* The records of a shard, or nothing where load_shard fails. *)
LoadShard(bytes, expected) ==
  {[i \in DOMAIN c.records |-> ConvertRecord(c.records[i])] :
     c \in {x \in bytes :
              /\ expected # {} => expected = bytes
              /\ x.decodes
              /\ \A r \in ToSet(x.records) : \A k \in r.reads \cup r.writes : Converts(k)}}

Expected(entry) == IF verify_sha THEN entry.sha ELSE {}
Read(entry) == LoadShard(disk[entry.file], Expected(entry))

(* The difference wraps where overflow is not checked. *)
BlockSpan == (manifest.end - manifest.start + 1) % 2 ^ Width

-----------------------------------------------------------------------------
LoaderInit ==
  /\ verdict = "open"
  /\ next_shard = 1 /\ buffer = <<>>
  /\ prev = {} /\ gaps = 0
  /\ yielded = <<>>

(* Numbers are unsigned: a range that begins below 0 is not parsed. *)
ManifestLoads == {manifest.start, manifest.end} \subseteq 0..2 ^ Width - 1
AssertSchemaV1 == manifest.schema = SUPPORTED_SCHEMA_VERSION

(* A checked build panics on a range that ends before it starts, and on    *)
(* one whose length has no number.                                         *)
SpanFits == manifest.start <= manifest.end /\ manifest.end - manifest.start < 2 ^ Width - 1

(* Up to the line that prints the span. *)
Open ==
  /\ verdict = "open"
  /\ verdict' = IF ManifestLoads /\ AssertSchemaV1 /\ (debug => SpanFits)
                THEN "streaming" ELSE "failed"
  /\ UNCHANGED <<directory, next_shard, buffer, prev, gaps, yielded>>

Fill ==
  /\ verdict = "streaming" /\ buffer = <<>> /\ next_shard <= Len(manifest.shards)
  /\ next_shard' = next_shard + 1
  /\ LET entry == manifest.shards[next_shard]
         loaded == {rs \in Read(entry) : Len(rs) = entry.count}
     IN IF loaded = {} THEN verdict' = "failed" /\ UNCHANGED buffer
                       ELSE buffer' \in loaded /\ UNCHANGED verdict
  /\ UNCHANGED <<directory, prev, gaps, yielded>>

(* Mutant: a gap is a number that does not ascend. *)
IsGapBackwards(n) == \E p \in prev : n <= p

IsGap(n) == \E p \in prev : n # p + 1

NextRecord ==
  /\ verdict = "streaming" /\ buffer # <<>>
  /\ LET n == Head(buffer).number
     IN /\ gaps' = IF IsGap(n) THEN gaps + 1 ELSE gaps
        /\ prev' = {n}
  /\ yielded' = Append(yielded, Head(buffer))
  /\ buffer' = Tail(buffer)
  /\ UNCHANGED <<directory, verdict, next_shard>>

Conclude ==
  /\ verdict = "streaming" /\ buffer = <<>> /\ next_shard > Len(manifest.shards)
  /\ verdict' = IF Len(yielded) = BlockSpan /\ gaps = 0 THEN "ok" ELSE "failed"
  /\ UNCHANGED <<directory, next_shard, buffer, prev, gaps, yielded>>

LoaderNext == Open \/ Fill \/ NextRecord \/ Conclude

-----------------------------------------------------------------------------
(* run_sweep reads the shards itself, and counts nothing. *)
SweepReads == [i \in DOMAIN manifest.shards |-> Read(manifest.shards[i])]
=============================================================================
