------------------------------ MODULE Scraper ------------------------------
(***************************************************************************)
(* block_scraper/scraper: worker tasks take block numbers from a queue,    *)
(* fetch them and put the records on a bounded queue; one writer buffers   *)
(* the records by shard and flushes each shard that is whole, in three     *)
(* writes of its own: shard file, manifest, checkpoint.  The process may   *)
(* be killed at any time and resumed.                                      *)
(*                                                                         *)
(* The tasks share one event loop.  A task is interrupted only at an       *)
(* await, and flushing awaits nothing, so that only a kill comes between   *)
(* the writes of a flush.                                                  *)
(***************************************************************************)
EXTENDS Dataset

CONSTANTS
  Workers,                 \* the n_workers worker tasks
  QueueSize,               \* queue_size, of the results queue
  MaxFailures, MaxKills    \* bounds: fetches that fail, kills of the process

ASSUME ScraperAssumption ==
  /\ 0 <= StartBlock /\ StartBlock <= EndBlock
  /\ IsFiniteSet(Workers) /\ Workers # {}
  /\ QueueSize \in Nat \ {0}

VARIABLES
  phase,          \* "down", "run" or "done"
  work,           \* queue of block numbers
  results,        \* queue of records and _DONE marks
  pc, held,       \* where each worker is, and the block it has in hand
  doneWorkers,    \* the _DONE marks the writer has got
  buffer,         \* shard -> blocks buffered
  flush,          \* the writer's flush: what it writes next, of which shard
  files,          \* disk: shard -> Blob or NoFile
  manifest,       \* disk, and memory while running: manifest.shards
  checkpoint,     \* disk, and memory while running
  epoch,          \* runs of the process so far
  failures, kills \* bounded counters

memory == <<work, results, pc, held, doneWorkers, buffer, flush>>
disk == <<files, manifest, checkpoint>>
vars == <<phase, memory, disk, epoch, failures, kills>>

(* A record is the set of its block; the mark is the empty set. *)
DONE == {}

NoFlush == [next |-> "none", shard |-> 0]

Idle ==
  /\ work = <<>> /\ results = <<>>
  /\ pc = [w \in Workers |-> "exited"] /\ held = [w \in Workers |-> {}]
  /\ doneWorkers = 0
  /\ buffer = [s \in Shards |-> {}]
  /\ flush = NoFlush

(* `scrape` has saved a manifest that lists no shard. *)
Init ==
  /\ phase = "down" /\ Idle
  /\ files = [s \in Shards |-> NoFile]
  /\ manifest = <<>>
  /\ checkpoint = [completed |-> {}, highest |-> -1]
  /\ epoch = 0 /\ failures = 0 /\ kills = 0

-----------------------------------------------------------------------------
PendingBlocks == {bn \in Blocks : ShardIndex(bn) \notin checkpoint.completed}

(* ShardStore(...) and run_scrape up to the start of its tasks. *)
Start ==
  /\ phase = "down"
  /\ epoch' = epoch + 1
  /\ phase' = IF PendingBlocks = {} THEN "done" ELSE "run"
  /\ work' = InOrder(PendingBlocks)
  /\ pc' = [w \in Workers |-> "take"]
  /\ doneWorkers' = 0
  /\ UNCHANGED <<results, held, buffer, flush, disk, failures, kills>>

(* Another task may run: the writer is at its await. *)
Awaiting == phase = "run" /\ flush = NoFlush

-----------------------------------------------------------------------------
(* A worker. *)

Take(w) ==
  /\ Awaiting /\ pc[w] = "take"
  /\ IF work = <<>>
     THEN pc' = [pc EXCEPT ![w] = "leave"] /\ UNCHANGED <<work, held>>
     ELSE /\ pc' = [pc EXCEPT ![w] = "fetch"]
          /\ held' = [held EXCEPT ![w] = {Head(work)}]
          /\ work' = Tail(work)
  /\ UNCHANGED <<phase, results, doneWorkers, buffer, flush, disk, epoch, failures, kills>>

(* The three calls of _fetch_block answer. *)
Fetched(w) ==
  /\ Awaiting /\ pc[w] = "fetch"
  /\ pc' = [pc EXCEPT ![w] = "put"]
  /\ UNCHANGED <<phase, work, results, held, doneWorkers, buffer, flush, disk,
                 epoch, failures, kills>>

(* Mutant: the block that failed is not queued again. *)
DropBlock(bn) == work

(* The block that failed goes to the end of the queue. *)
Requeue(bn) == Append(work, bn)

(* One of them raises; the worker then sleeps for a second. *)
FetchFails(w) ==
  /\ Awaiting /\ pc[w] = "fetch" /\ failures < MaxFailures
  /\ failures' = failures + 1
  /\ \E bn \in held[w] : work' = Requeue(bn)
  /\ held' = [held EXCEPT ![w] = {}]
  /\ pc' = [pc EXCEPT ![w] = "sleep"]
  /\ UNCHANGED <<phase, results, doneWorkers, buffer, flush, disk, epoch, kills>>

Wake(w) ==
  /\ Awaiting /\ pc[w] = "sleep"
  /\ pc' = [pc EXCEPT ![w] = "take"]
  /\ UNCHANGED <<phase, work, results, held, doneWorkers, buffer, flush, disk,
                 epoch, failures, kills>>

(* Mutant: the queue has no bound. *)
PutUnbounded(item) == results' = Append(results, item)

(* results.put, which waits for room. *)
PutResult(item) == Len(results) < QueueSize /\ results' = Append(results, item)

Put(w) ==
  /\ Awaiting /\ pc[w] = "put"
  /\ PutResult(held[w])
  /\ held' = [held EXCEPT ![w] = {}]
  /\ pc' = [pc EXCEPT ![w] = "take"]
  /\ UNCHANGED <<phase, work, doneWorkers, buffer, flush, disk, epoch, failures, kills>>

(* Nothing is left to take: the worker reports that it is leaving. *)
Leave(w) ==
  /\ Awaiting /\ pc[w] = "leave"
  /\ PutResult(DONE)
  /\ pc' = [pc EXCEPT ![w] = "exited"]
  /\ UNCHANGED <<phase, work, held, doneWorkers, buffer, flush, disk, epoch,
                 failures, kills>>

-----------------------------------------------------------------------------
(* The writer. *)

Whole(blocks, s) == Cardinality(blocks) >= Cardinality(ShardRange(s))

(* Mutant: the writer stops at the first mark. *)
WritingUntilFirstDone == doneWorkers < 1

Writing == doneWorkers < Cardinality(Workers)

ReceiveDone ==
  /\ Awaiting /\ Writing /\ results # <<>> /\ Head(results) = DONE
  /\ results' = Tail(results)
  /\ doneWorkers' = doneWorkers + 1
  /\ UNCHANGED <<phase, work, pc, held, buffer, flush, disk, epoch, failures, kills>>

(* store.add, up to the flush it may start. *)
Receive ==
  /\ Awaiting /\ Writing /\ results # <<>>
  /\ \E bn \in Head(results) :
       LET s == ShardIndex(bn)
           blocks == buffer[s] \cup {bn}
       IN IF s \in checkpoint.completed
          THEN UNCHANGED <<buffer, flush>>
          ELSE /\ buffer' = [buffer EXCEPT ![s] = blocks]
               /\ flush' = IF Whole(blocks, s) THEN [next |-> "file", shard |-> s]
                                               ELSE flush
  /\ results' = Tail(results)
  /\ UNCHANGED <<phase, work, pc, held, doneWorkers, disk, epoch, failures, kills>>

(* Mutant: the checkpoint is saved before the manifest. *)
CheckpointFirst(step) ==
  CASE step = "file" -> "checkpoint"
    [] step = "checkpoint" -> "manifest"
    [] step = "manifest" -> "none"

(* The order of the three writes of _flush. *)
After(step) ==
  CASE step = "file" -> "manifest"
    [] step = "manifest" -> "checkpoint"
    [] step = "checkpoint" -> "none"

FlushStep(step) ==
  /\ phase = "run" /\ flush.next = step
  /\ flush' = IF After(step) = "none" THEN NoFlush ELSE [flush EXCEPT !.next = After(step)]
  /\ buffer' = IF After(step) = "none" THEN [buffer EXCEPT ![flush.shard] = {}] ELSE buffer
  /\ UNCHANGED <<phase, work, results, pc, held, doneWorkers, epoch, failures, kills>>

(* The shard file is replaced in one move. *)
WriteFile ==
  /\ FlushStep("file")
  /\ files' = [files EXCEPT ![flush.shard] = Blob(buffer[flush.shard], epoch)]
  /\ UNCHANGED <<manifest, checkpoint>>

SaveManifest ==
  /\ FlushStep("manifest")
  /\ LET s == flush.shard
     IN manifest' = UpsertShard(manifest, EntryOf(s, buffer[s], Blob(buffer[s], epoch)))
  /\ UNCHANGED <<files, checkpoint>>

(* Mutant: the last block of the last completed shard, gaps or not. *)
HighestCompleted(completed) ==
  IF completed = {} THEN StartBlock - 1 ELSE LastBlock(Max(completed))

(* The last block of the completed shards that follow one another from the *)
(* first.                                                                  *)
HighestContiguous(completed) ==
  LET prefix == {s \in Shards : \A r \in 0..s : r \in completed}
  IN IF prefix = {} THEN StartBlock - 1 ELSE LastBlock(Max(prefix))

SaveCheckpoint ==
  /\ FlushStep("checkpoint")
  /\ LET completed == checkpoint.completed \cup {flush.shard}
     IN checkpoint' = [completed |-> completed, highest |-> HighestContiguous(completed)]
  /\ UNCHANGED <<files, manifest>>

(* The writer has returned, the workers are gathered, and flush_complete   *)
(* takes what is whole and still buffered.                                 *)
Finish ==
  /\ Awaiting /\ ~Writing
  /\ \A w \in Workers : pc[w] = "exited"
  /\ LET whole == {s \in Shards : buffer[s] # {} /\ Whole(buffer[s], s)}
     IN IF whole = {}
        THEN phase' = "done" /\ UNCHANGED flush
        ELSE /\ \E s \in whole : flush' = [next |-> "file", shard |-> s]
             /\ UNCHANGED phase
  /\ UNCHANGED <<work, results, pc, held, doneWorkers, buffer, disk, epoch, failures, kills>>

-----------------------------------------------------------------------------
(* A kill takes the memory; what was written stays. *)
Kill ==
  /\ phase = "run" /\ kills < MaxKills
  /\ kills' = kills + 1
  /\ phase' = "down"
  /\ work' = <<>> /\ results' = <<>>
  /\ pc' = [w \in Workers |-> "exited"] /\ held' = [w \in Workers |-> {}]
  /\ doneWorkers' = 0
  /\ buffer' = [s \in Shards |-> {}]
  /\ flush' = NoFlush
  /\ UNCHANGED <<disk, epoch, failures>>

(* `resume` after the end finds nothing to do. *)
Rest == phase = "done" /\ UNCHANGED vars

Work(w) == Take(w) \/ Fetched(w) \/ Wake(w) \/ Put(w) \/ Leave(w)
Write == ReceiveDone \/ Receive \/ WriteFile \/ SaveManifest \/ SaveCheckpoint \/ Finish

Next ==
  \/ Start
  \/ \E w \in Workers : Work(w) \/ FetchFails(w)
  \/ Write
  \/ Kill \/ Rest

Spec == Init /\ [][Next]_vars

(* The event loop runs every task that can run, a call that is retried is  *)
(* answered in the end (rpc.py bounds the failures of one call, the queue  *)
(* those of a block), and whoever runs the scraper resumes it.             *)
Fairness == WF_vars(Start) /\ WF_vars(Write) /\ \A w \in Workers : WF_vars(Work(w))
FairSpec == Spec /\ Fairness

-----------------------------------------------------------------------------
(* Every variable keeps its type; the results queue keeps its bound. *)
TypeOK ==
  /\ phase \in {"down", "run", "done"}
  /\ work \in Seq(Blocks)
  /\ results \in Seq({DONE} \cup {{bn} : bn \in Blocks}) /\ Len(results) <= QueueSize
  /\ pc \in [Workers -> {"take", "fetch", "put", "sleep", "leave", "exited"}]
  /\ held \in [Workers -> {{}} \cup {{bn} : bn \in Blocks}]
  /\ doneWorkers \in 0..Cardinality(Workers)
  /\ buffer \in [Shards -> SUBSET Blocks]
  /\ flush \in [next : {"none", "file", "manifest", "checkpoint"}, shard : Shards]
  /\ \A s \in Shards : files[s] # NoFile => \E e \in 1..epoch, B \in SUBSET ShardRange(s) :
                                              files[s] = Blob(B, e)
  /\ \A i \in DOMAIN manifest : manifest[i].file \in Shards
  /\ checkpoint.completed \subseteq Shards

(* While the process runs, every block of a shard that is not completed is *)
(* in exactly one place (to be fetched, in a worker's hand, on the way to  *)
(* the writer or in its buffer), whatever fails and whoever leaves early;  *)
(* no block of a completed shard is anywhere (pipeline.py 93-120).         *)
PlacesOf(bn) ==
  Cardinality({i \in DOMAIN work : work[i] = bn})
    + Cardinality({w \in Workers : bn \in held[w]})
    + Cardinality({i \in DOMAIN results : bn \in results[i]})
    + Cardinality({s \in Shards : bn \in buffer[s]})
BlocksAccountedFor ==
  phase = "run" => \A bn \in Blocks : PlacesOf(bn) = IF bn \in PendingBlocks THEN 1 ELSE 0

(* A shard is completed only when a kill can no longer hurt it: its file   *)
(* holds every block of its range, and the manifest lists it once with the *)
(* hash of that very file (writer.py 73-101).                              *)
CheckpointIsDurable ==
  \A s \in checkpoint.completed :
    /\ \E f \in files[s] : f.blocks = ShardRange(s)
    /\ \E i \in DOMAIN manifest :
         /\ Listed(manifest, s) = {i}
         /\ manifest[i] = EntryOf(s, ShardRange(s), files[s])

(* Whatever was killed when, the simulator that streams the directory      *)
(* meets block numbers that only ascend, until a shard it cannot load: its *)
(* windows count on it (loader.rs 106-140, checkpoint.py 65-71).           *)
StreamAscends ==
  \A verify_sha \in BOOLEAN :
    LET stream == Streamed(manifest, files, verify_sha)
    IN \A i \in 1..Len(stream) - 1 : stream[i] < stream[i + 1]

(* At every moment, the scraper's verify accepts the directories that the  *)
(* simulator's does with --verify-sha.  Without it the simulator accepts   *)
(* more: a kill may leave a file that was written again beside the entry   *)
(* of the file it replaced.  Such a directory too holds every block, and   *)
(* the scraper still owes work on it (__main__.py 70-121, main.rs 19-24    *)
(* and 58-107, loader.rs 54-71).                                           *)
VerifiersAgree ==
  LET accepted == Verify(manifest, files)
      Loaded(verify_sha) == VerifyLoad(manifest, files, verify_sha)
  IN /\ accepted <=> Loaded(TRUE)
     /\ accepted => Loaded(FALSE)
     /\ Loaded(FALSE) => \A bn \in Blocks : \E f \in files[ShardIndex(bn)] : bn \in f.blocks
     /\ Loaded(FALSE) /\ ~accepted => PendingBlocks # {}

(* A run that ends has written a directory that verifies, and leaves no    *)
(* record behind in memory (pipeline.py 134-146).                          *)
DoneIsVerified ==
  phase = "done" =>
    /\ Verify(manifest, files)
    /\ \A s \in Shards : buffer[s] = {}
    /\ work = <<>> /\ results = <<>>

(* The scraper is a Scrape: through kills and resumptions, the blocks of   *)
(* completed shards are on disk for good, highest_contiguous_block is at   *)
(* every moment the last number up to which all are (writer.py 95-111),    *)
(* and the scrape ends, with all of them: no worker waits for room the     *)
(* writer will not make, and the writer waits for no mark that will not    *)
(* come (pipeline.py 85-146).                                              *)
Abstract == INSTANCE Scrape WITH
  safe <- {bn \in Blocks : \E s \in checkpoint.completed : \E f \in files[s] : bn \in f.blocks},
  highest <- IF checkpoint.completed = {} THEN StartBlock - 1 ELSE checkpoint.highest,
  done <- phase = "done"
ImplementsScrape == Abstract!Spec
=============================================================================
