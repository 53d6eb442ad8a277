----------------------------- MODULE ImportRun -----------------------------
(***************************************************************************)
(* One import run of a coordinator (src/import-coordinator.ts): the chain  *)
(* of alarms that drives it, each running one slice of the current phase,  *)
(* and what the phases make of the data: the dump's lines become drafts,   *)
(* the drafts are bucketed by partition, and each partition is aggregated, *)
(* finalized, reordered, built and uploaded in chunks.                     *)
(*                                                                         *)
(* A slice commits in one transaction, or ends with an error, or is killed *)
(* by the runtime.  The wasm heap of the partition in progress is not      *)
(* durable: an eviction, a kill or a failed slice may leave it behind or   *)
(* ahead of the tables.  A line, a draft and a row are one unit of data.   *)
(* Leases, retention and the manifest are in StorePublish, the watchdog in *)
(* ImportWatchdog; here the fence is what the two reads of supersededBy    *)
(* see, and a read that fails is a fence seen later.                       *)
(***************************************************************************)
EXTENDS Integers, Sequences, FiniteSets, SequencesExt, TLC

CONSTANTS
    MAX_PHASE_ATTEMPTS, MAX_RETRIES, MAX_WASM_REWINDS, MAX_POOL_WAITS,
    IS_LISTS_MAX_ATTEMPTS, NOTIFY_MAX_ATTEMPTS, RULINGS_MAX_ATTEMPTS,
    PLATFORM_RETRIES,   \* Redeliveries of an alarm whose handler was killed.
    Lines,              \* Lines of the streamed dumps.
    FileBytes,          \* Length of a staged dump.
    FETCH_SLICE_BYTES, STAGE_BLOB_BYTES,
    CANONICAL_SLICE_LINES, TRANSFORM_SLICE_LINES,
    STREAM_CHECKPOINT_GRID_RAW,
    DRAFT_BATCH,        \* Drafts in a batch.
    PartitionCount,     \* What choosePartitionCount answers.
    KV_CHUNK, KV_CHUNK_SAFE,  \* Rows in a chunk, at either cut.
    PURGE_SLICE,        \* Tables one purge slice empties.
    MaxRuns, MaxFaults  \* Bounds: runs started; errors and outside events met.

ASSUME CeilingsAssumption ==
    /\ {MAX_PHASE_ATTEMPTS, MAX_RETRIES, PLATFORM_RETRIES, NOTIFY_MAX_ATTEMPTS, RULINGS_MAX_ATTEMPTS}
         \subseteq Nat \ {0}
    /\ {MAX_WASM_REWINDS, MAX_POOL_WAITS, IS_LISTS_MAX_ATTEMPTS, MaxRuns, MaxFaults} \subseteq Nat
    /\ NOTIFY_MAX_ATTEMPTS <= MAX_RETRIES /\ RULINGS_MAX_ATTEMPTS <= MAX_RETRIES
    /\ MAX_PHASE_ATTEMPTS > MAX_RETRIES + 1
ASSUME SizesAssumption ==
    /\ {Lines, FileBytes, DRAFT_BATCH, PartitionCount, KV_CHUNK_SAFE, PURGE_SLICE, STAGE_BLOB_BYTES,
        STREAM_CHECKPOINT_GRID_RAW} \subseteq Nat \ {0}
    /\ {FETCH_SLICE_BYTES, KV_CHUNK, CANONICAL_SLICE_LINES, TRANSFORM_SLICE_LINES} \subseteq Nat
    /\ FETCH_SLICE_BYTES > STAGE_BLOB_BYTES /\ KV_CHUNK > KV_CHUNK_SAFE
    /\ CANONICAL_SLICE_LINES > STREAM_CHECKPOINT_GRID_RAW
    /\ TRANSFORM_SLICE_LINES > STREAM_CHECKPOINT_GRID_RAW

Partitions == 0..PartitionCount - 1
None == -1
Kinds == {"tags", "rulings"}   \* The staged dumps, by who reads them.
Versions == {1, 2}             \* Upstream may replace a dump once.
Batches == 0..(Lines \div DRAFT_BATCH + 1)
Scopes == {"none", "reset", "blobs", "rewind", "partition", "retire"}
WasmPhases == {"agg", "finalize", "reorder", "build"}
Phases == WasmPhases \cup
    {"idle", "purge_staging", "listing", "is_lists", "fetch:tags", "fetch:rulings",
     "canonical", "transform", "tags", "scores", "routing", "oracle_index", "bucket",
     "publish", "placement", "manifest", "notify", "rulings", "reference", "purge"}

VARIABLES
    job,    \* The run record and the counters of the alarm chain.
    d,      \* The object's tables and cursors, and the wasm heap.
    kv,     \* What the run wrote to KV, under keys of its own.
    alarm,  \* None, or how often the platform has redelivered it.
    fence,  \* What supersededBy would answer.
    upstream, faults

vars == <<job, d, kv, alarm, fence, upstream, faults>>

(* A draft is a line of the dump one run read.                             *)
Draft(n, i) == <<n, i>>
PartitionOf(draft) == draft[2] % PartitionCount
Drafts == (1..MaxRuns) \X (1..Lines)

freshRecord == [rows |-> 0, cut |-> KV_CHUNK, published |-> 0, count |-> 0]
NoWasm == [agg |-> <<>>, fin |-> <<>>]
Empty == [b \in Batches |-> <<>>]

(* The object before any run: the cursors of its meta table, the tables,   *)
(* and the wasm heap.                                                      *)
Fresh ==
    [phase |-> "idle", scope |-> "none", kind |-> "none", next |-> "none",
     waits |-> 0, work |-> 0, tries |-> 0,
     canonical |-> 0, raw |-> 0, scored |-> 0, bucketed |-> 0,
     started |-> None, aggDone |-> None, finDone |-> None, base |-> 0, staged |-> 0, reordered |-> 0,
     partition |-> 0, recs |-> [k \in Partitions |-> freshRecord],
     linked |-> FALSE, rewinds |-> 0,
     files |-> [k \in Kinds |-> [got |-> 0, etag |-> 0, done |-> FALSE]],
     checkpoint |-> None, blobs |-> [k \in Kinds |-> <<>>], batches |-> Empty, pending |-> <<>>,
     tagdata |-> {}, tags |-> <<>>, corpus |-> {}, routing |-> Empty,
     parts |-> [k \in Partitions |-> Empty], spill |-> <<>>, ordered |-> <<>>, chunks |-> <<>>,
     wasm |-> NoWasm]

(* A run that begins clears every cursor (metaClear) and the staged files' *)
(* records; the tables outlive a run until a purge empties them.           *)
Cleared(s) ==
    [Fresh EXCEPT !.blobs = s.blobs, !.batches = s.batches, !.pending = s.pending,
                  !.tagdata = s.tagdata, !.tags = s.tags, !.corpus = s.corpus, !.routing = s.routing,
                  !.parts = s.parts, !.spill = s.spill, !.ordered = s.ordered, !.chunks = s.chunks,
                  !.wasm = s.wasm]

Unwritten ==
    [chunks |-> [k \in Partitions |-> <<>>], routing |-> {},
     published |-> FALSE, counts |-> [k \in Partitions |-> 0]]

Init ==
    /\ job = [state |-> "idle", n |-> 0, attempts |-> 0, retries |-> 0, lost |-> FALSE, cause |-> "none"]
    /\ d = Fresh
    /\ kv = Unwritten
    /\ alarm = None /\ fence = "none" /\ upstream = 1 /\ faults = 0

Fault == faults < MaxFaults /\ faults' = faults + 1

-----------------------------------------------------------------------------
(* The steps.  Each is the set of outcomes a slice of the phase can commit *)
(* from s, the object's state, in run n; the empty set is a                *)
(* FatalImportError.                                                       *)

beginPurge(s, scope, next) == [s EXCEPT !.scope = scope, !.next = next, !.phase = "purge_staging"]

(* The listing waits, a bounded number of times, for the storage of the    *)
(* coordinators that retire.                                               *)
stepListing(s) ==
    {[s EXCEPT !.files = Fresh.files, !.phase = "is_lists"]}
      \cup (IF s.waits < MAX_POOL_WAITS THEN {[s EXCEPT !.waits = @ + 1]} ELSE {})

(* The refresh of the lists takes some slices, and is left for the night   *)
(* on any error of its own or after slices that were ended from outside.   *)
stepIsLists(s, attempts) ==
    LET leave == [s EXCEPT !.work = 0, !.phase = "fetch:tags"]
    IN  {leave} \cup (IF attempts <= IS_LISTS_MAX_ATTEMPTS /\ s.work = 0
                      THEN {[s EXCEPT !.work = 1]} ELSE {})

phaseAfterFetch(kind) == IF kind = "tags" THEN "fetch:rulings" ELSE "canonical"

(* Mutant: the file's tag is not sent, so a changed file is read on.       *)
stepFetch_NoTag(s, kind) ==
    LET f == s.files[kind]
        to == IF f.got + FETCH_SLICE_BYTES < FileBytes THEN f.got + FETCH_SLICE_BYTES ELSE FileBytes
        done == to = FileBytes
        kept == IF done THEN to ELSE to - ((to - f.got) % STAGE_BLOB_BYTES)
    IN  IF f.done THEN {[s EXCEPT !.phase = phaseAfterFetch(kind)]}
        ELSE {[s EXCEPT !.blobs[kind] = @ \o [i \in 1..(kept - f.got) |-> <<upstream, f.got + i>>],
                        !.files[kind] = [got |-> kept, etag |-> upstream, done |-> done],
                        !.phase = IF done THEN phaseAfterFetch(kind) ELSE @]}

(* One ranged request.  Whole blobs are kept, the tail is asked for again; *)
(* the file's tag is sent from the second request on, and a file that      *)
(* changed comes back whole and is started over.                           *)
stepFetch(s, kind) ==
    LET f == s.files[kind]
        to == IF f.got + FETCH_SLICE_BYTES < FileBytes THEN f.got + FETCH_SLICE_BYTES ELSE FileBytes
        done == to = FileBytes
        kept == IF done THEN to ELSE to - ((to - f.got) % STAGE_BLOB_BYTES)
    IN  IF f.done THEN {[s EXCEPT !.phase = phaseAfterFetch(kind)]}
        ELSE IF f.etag \notin {0, upstream}
        THEN {[s EXCEPT !.blobs[kind] = <<>>, !.files[kind] = Fresh.files[kind]]}
        ELSE {[s EXCEPT !.blobs[kind] = @ \o [i \in 1..(kept - f.got) |-> <<upstream, f.got + i>>],
                        !.files[kind] = [got |-> kept, etag |-> upstream, done |-> done],
                        !.phase = IF done THEN phaseAfterFetch(kind) ELSE @]}

(* A streamed dump is read on from the newest checkpoint at or before the  *)
(* cursor: without one, only from before the first grid line.              *)
openDumpStream(s, cursor) ==
    \/ s.checkpoint # None /\ s.checkpoint <= cursor
    \/ cursor < STREAM_CHECKPOINT_GRID_RAW

Consumed(cursor, slice) == IF cursor + slice < Lines THEN cursor + slice ELSE Lines
Exhausted(cursor, slice) == Lines - cursor < slice

(* The decoder's state is saved at each grid line that the slice passed.   *)
persistStreamCheckpoint(s, from, cursor, exhausted) ==
    LET passed == {g \in from + 1..cursor - 1 : g % STREAM_CHECKPOINT_GRID_RAW = 0}
    IN  IF exhausted THEN None
        ELSE IF passed = {} THEN s.checkpoint ELSE CHOOSE g \in passed : \A h \in passed : h <= g

stepCanonical(s, n) ==
    LET cursor == Consumed(s.canonical, CANONICAL_SLICE_LINES)
        exhausted == Exhausted(s.canonical, CANONICAL_SLICE_LINES)
        ids == {Draft(n, i) : i \in s.canonical + 1..cursor}
    IN  IF ~openDumpStream(s, s.canonical) \/ (s.canonical > 0 /\ s.tagdata = {}) THEN {}
        ELSE {[s EXCEPT !.tagdata = ids \cup (IF s.canonical = 0 THEN {} ELSE @), !.canonical = cursor,
                        !.checkpoint = persistStreamCheckpoint(s, s.canonical, cursor, exhausted),
                        !.phase = IF exhausted THEN "transform" ELSE @]}

packedDraftGroups(drafts) ==
    [g \in 1..((Len(drafts) + DRAFT_BATCH - 1) \div DRAFT_BATCH) |->
        SubSeq(drafts, (g - 1) * DRAFT_BATCH + 1,
               IF g * DRAFT_BATCH < Len(drafts) THEN g * DRAFT_BATCH ELSE Len(drafts))]

Rows(batches) == Cardinality({b \in DOMAIN batches : batches[b] # <<>>})

(* The drafts of a slice join the pending tail of the last one; full       *)
(* groups become batches, and the last group stays pending unless the dump *)
(* is exhausted.                                                           *)
stepTransform(s, n) ==
    LET cursor == Consumed(s.raw, TRANSFORM_SLICE_LINES)
        exhausted == Exhausted(s.raw, TRANSFORM_SLICE_LINES)
        all == s.pending \o [i \in 1..cursor - s.raw |-> Draft(n, s.raw + i)]
        groups == packedDraftGroups(all)
        kept == IF exhausted \/ groups = <<>> THEN groups ELSE Front(groups)
        first == Rows(s.batches)
    IN  IF ~openDumpStream(s, s.raw) \/ s.tagdata = {} THEN {}
        ELSE {[s EXCEPT !.batches = [b \in Batches |->
                            IF b \in first..first + Len(kept) - 1 THEN kept[b - first + 1] ELSE @[b]],
                        !.pending = IF kept = groups THEN <<>> ELSE Last(groups), !.raw = cursor,
                        !.checkpoint = persistStreamCheckpoint(s, s.raw, cursor, exhausted),
                        !.phase = IF exhausted THEN "tags" ELSE @]}

(* The tag maps, the number of partitions and the upload's state; then the *)
(* staged dumps they were read from are dropped.                           *)
stepTags(s) ==
    {beginPurge([s EXCEPT !.tags = s.blobs["tags"], !.linked = FALSE, !.wasm = NoWasm,
                          !.scored = 0, !.partition = 0, !.recs = Fresh.recs], "blobs", "scores")}

(* Mutant: every batch's keys are staged in the first row.                 *)
stepScores_OneRow(s) ==
    LET row == s.scored \in Batches /\ s.batches[s.scored] # <<>>
        batch == Range(s.batches[s.scored])
    IN  IF s.tags = <<>> \/ (s.scored > 0 /\ s.corpus = {}) THEN {}
        ELSE IF ~row THEN {[s EXCEPT !.phase = "routing", !.linked = FALSE, !.wasm = NoWasm]}
        ELSE {[s EXCEPT !.corpus = batch \cup (IF s.scored = 0 THEN {} ELSE @), !.scored = @ + 1,
                        !.routing[0] = s.batches[s.scored], !.linked = FALSE, !.wasm = NoWasm]}

(* One batch into the corpus-wide tables and the routing keys.             *)
stepScores(s) ==
    LET row == s.scored \in Batches /\ s.batches[s.scored] # <<>>
        batch == Range(s.batches[s.scored])
    IN  IF s.tags = <<>> \/ (s.scored > 0 /\ s.corpus = {}) THEN {}
        ELSE IF ~row THEN {[s EXCEPT !.phase = "routing", !.linked = FALSE, !.wasm = NoWasm]}
        ELSE {[s EXCEPT !.corpus = batch \cup (IF s.scored = 0 THEN {} ELSE @), !.scored = @ + 1,
                        !.routing[s.scored] = s.batches[s.scored], !.linked = FALSE, !.wasm = NoWasm]}

(* The filter is written, or could not be: either way the run goes on.     *)
stepRouting(s) == {[s EXCEPT !.phase = "oracle_index", !.linked = FALSE, !.wasm = NoWasm]}
RoutingKeys(s) == UNION {Range(s.routing[b]) : b \in Batches}

stepOracleIndex(s) == {[s EXCEPT !.routing = Empty, !.bucketed = 0, !.phase = "bucket"]}

bucketDrafts(batch, k) == SelectSeq(batch, LAMBDA draft: PartitionOf(draft) = k)

(* One batch's drafts move to their partitions, under a key made of the    *)
(* cursor, so that a slice that runs again replaces what it wrote.         *)
stepBucket(s) ==
    LET b == s.bucketed
    IN  IF b \notin Batches \/ s.batches[b] = <<>> THEN {[s EXCEPT !.phase = "agg"]}
        ELSE {[s EXCEPT !.parts = [k \in Partitions |-> [@[k] EXCEPT ![b] = bucketDrafts(s.batches[b], k)]],
                        !.batches[b] = <<>>, !.bucketed = b + 1]}

-----------------------------------------------------------------------------
(* The partition loop.                                                     *)

(* Mutants: the ceiling is passed by one; rewinds are not counted.         *)
Rewound_OneMore(s) ==
    IF s.rewinds > MAX_WASM_REWINDS \/ Rows(s.parts[s.partition]) = 0 THEN {}
    ELSE {beginPurge([s EXCEPT !.rewinds = @ + 1, !.started = None, !.aggDone = None,
                               !.finDone = None, !.reordered = 0], "rewind", "agg")}
Rewound_Uncounted(s) ==
    IF Rows(s.parts[s.partition]) = 0 THEN {}
    ELSE {beginPurge([s EXCEPT !.started = None, !.aggDone = None,
                               !.finDone = None, !.reordered = 0], "rewind", "agg")}

(* The wasm heap is trusted only under the nonce the tables remember.  One *)
(* that was lost or marked dirty sends the partition back to its           *)
(* aggregation, a bounded number of times.                                 *)
Rewound(s) ==
    IF s.rewinds >= MAX_WASM_REWINDS \/ Rows(s.parts[s.partition]) = 0 THEN {}
    ELSE {beginPurge([s EXCEPT !.rewinds = @ + 1, !.started = None, !.aggDone = None,
                               !.finDone = None, !.reordered = 0], "rewind", "agg")}
ensureWasmContinuity(s, then) == IF s.linked THEN then ELSE Rewound(s)

(* The next rows of the partition's drafts after a cursor.                 *)
RowsAfter(s, last) == {b \in Batches : b > last /\ s.parts[s.partition][b] # <<>>}
NextRow(s, last) == CHOOSE b \in RowsAfter(s, last) : \A c \in RowsAfter(s, last) : b <= c

(* A partition begins in a fresh heap, with every cursor at its start.     *)
Started(s) ==
    IF s.started = s.partition THEN s
    ELSE [s EXCEPT !.wasm = NoWasm, !.linked = TRUE, !.started = s.partition, !.aggDone = None,
                   !.finDone = None, !.base = 0, !.staged = 0, !.reordered = 0]

stepAgg(s0) ==
    LET s == Started(s0)
    IN  IF Rows(s.parts[s.partition]) = 0 /\ s.started # s0.started THEN {}
        ELSE ensureWasmContinuity(s,
               IF RowsAfter(s, s.aggDone) = {}
               THEN {[s EXCEPT !.finDone = None, !.base = 0, !.phase = "finalize"]}
               ELSE LET b == NextRow(s, s.aggDone)
                    IN  {[s EXCEPT !.wasm.agg = @ \o s.parts[s.partition][b], !.aggDone = b]})

(* Rows of a table keyed by the position of its first row: writing a group *)
(* again replaces it.                                                      *)
WriteAt(table, base, rows) ==
    [i \in 1..(IF base + Len(rows) > Len(table) THEN base + Len(rows) ELSE Len(table)) |->
        IF i \in base + 1..base + Len(rows) THEN rows[i - base] ELSE table[i]]

stepFinalize(s) ==
    ensureWasmContinuity(s,
        IF RowsAfter(s, s.finDone) = {}
        THEN {[s EXCEPT !.staged = Len(s.wasm.fin), !.phase = "reorder"]}
        ELSE LET b == NextRow(s, s.finDone)
                 rows == s.parts[s.partition][b]
             IN  {[s EXCEPT !.wasm.fin = @ \o rows, !.spill = WriteAt(@, s.base, rows),
                            !.base = @ + Len(rows), !.finDone = b]})

(* The order in which the build takes the staged rows: the engine's sort.  *)
stagedOrder(rows) == SortSeq([i \in 1..Len(rows) |-> i], LAMBDA i, j: rows[i][2] > rows[j][2])

stepReorder(s) ==
    ensureWasmContinuity(s,
        LET at == s.reordered + 1
            order == stagedOrder(s.wasm.fin)
        IN  IF s.staged = 0 \/ Len(order) # s.staged \/ order[at] > Len(s.spill) THEN {}
            ELSE {[s EXCEPT !.ordered = WriteAt(@, s.reordered, <<s.spill[order[at]]>>), !.reordered = at,
                            !.phase = IF at >= s.staged THEN "build" ELSE @]})

(* The archive of the partition, in rows read straight through; the heap   *)
(* is given up with it.                                                    *)
stepBuild(s) ==
    ensureWasmContinuity(s,
        IF Len(s.wasm.fin) # s.staged \/ Len(s.ordered) < s.staged THEN {}
        ELSE {[s EXCEPT !.chunks = [i \in 1..s.staged |-> [agg |-> s.wasm.agg, row |-> s.ordered[i]]],
                        !.recs[s.partition] = [freshRecord EXCEPT !.rows = s.staged],
                        !.wasm = NoWasm, !.linked = FALSE, !.phase = "publish"]})

publishChunkTotal(rec) == (rec.rows + rec.cut - 1) \div rec.cut

assembleChunk(s) ==
    LET rec == s.recs[s.partition]
        from == rec.published * rec.cut
    IN  SubSeq(s.chunks, from + 1, IF from + rec.cut < rec.rows THEN from + rec.cut ELSE rec.rows)

(* One chunk: put and counted, or too big for a KV value at the larger     *)
(* cut, which starts the partition's upload over at the safe one; after    *)
(* the last, the partition's staging is purged.                            *)
stepPublish(s) ==
    LET rec == s.recs[s.partition]
        k == s.partition
    IN  IF rec.published < publishChunkTotal(rec)
        THEN {[s EXCEPT !.recs[k].published = @ + 1]}
               \cup (IF rec.cut # KV_CHUNK_SAFE
                     THEN {[s EXCEPT !.recs[k].cut = KV_CHUNK_SAFE, !.recs[k].published = 0]} ELSE {})
        ELSE {beginPurge([s EXCEPT !.recs[k].count = publishChunkTotal(rec)], "partition", "none")}

stepPlacement(s) == {[s EXCEPT !.phase = "manifest"]}
stepManifest(s) == {[s EXCEPT !.phase = "notify", !.tries = 0]}

(* Objects that did not answer are waited for a bounded number of times.   *)
(* The rulings count their attempts from the start.                        *)
stepNotify(s) == {[s EXCEPT !.phase = "rulings", !.tries = 0]}
stepRulings(s) == {[s EXCEPT !.phase = "reference"]}
stepReference(s) == {[s EXCEPT !.phase = "purge"]}
stepPurge(s) == {[s EXCEPT !.phase = "idle"]}

-----------------------------------------------------------------------------
(* Purges: the tables of a scope, in order, a slice at a time.             *)

PURGE_TABLES(scope) ==
    IF scope \in {"reset", "retire"}
    THEN <<"chunks", "ordered", "spill", "routing", "tags", "corpus", "parts", "batches", "blobs">>
    ELSE IF scope = "partition" THEN <<"chunks", "ordered", "spill", "part">>
    ELSE IF scope = "rewind" THEN <<"ordered", "spill">> ELSE <<"kinds">>

Rowless(s, t) ==
    CASE t \in {"chunks", "ordered", "spill"} -> s[t] = <<>>
      [] t = "routing" -> s.routing = Empty
      [] t = "tags" -> s.tags = <<>> /\ s.tagdata = {}
      [] t = "corpus" -> s.corpus = {}
      [] t = "parts" -> s.parts = Fresh.parts
      [] t = "part" -> s.parts[s.partition] = Empty
      [] t = "batches" -> s.batches = Empty /\ s.pending = <<>>
      [] t = "kinds" -> s.blobs["tags"] = <<>>
      [] OTHER -> s.blobs = Fresh.blobs

(* The tables of T lose their rows.                                        *)
DeleteFrom(s, T) ==
    LET cleared(t, rows, empty) == IF t \in T THEN empty ELSE rows
    IN  [s EXCEPT !.chunks = cleared("chunks", @, <<>>), !.ordered = cleared("ordered", @, <<>>),
                  !.spill = cleared("spill", @, <<>>), !.routing = cleared("routing", @, Empty),
                  !.tags = cleared("tags", @, <<>>), !.tagdata = cleared("tags", @, {}),
                  !.corpus = cleared("corpus", @, {}),
                  !.parts = cleared("parts", cleared("part", @, [@ EXCEPT ![s.partition] = Empty]), Fresh.parts),
                  !.batches = cleared("batches", @, Empty), !.pending = cleared("batches", @, <<>>),
                  !.blobs = cleared("blobs", cleared("kinds", @, [@ EXCEPT !["tags"] = <<>>]), Fresh.blobs)]

(* What one slice empties: the first PURGE_SLICE tables that have rows.    *)
Full(s) == {i \in DOMAIN PURGE_TABLES(s.scope) : ~Rowless(s, PURGE_TABLES(s.scope)[i])}
planPurgeSlice(s) ==
    LET tables == PURGE_TABLES(s.scope)
        full == Full(s)
    IN  {tables[i] : i \in {j \in full : Cardinality({h \in full : h < j}) < PURGE_SLICE}}

(* The phase a purge leads to: that of a partition, to the next one.       *)
LastPartition(s) == s.partition = PartitionCount - 1
PhaseAfterPurge(s) ==
    CASE s.scope = "reset" -> "listing"
      [] s.scope = "blobs" -> s.next
      [] s.scope = "retire" -> "idle"
      [] s.scope = "partition" /\ LastPartition(s) -> "placement"
      [] OTHER -> "agg"

AfterPurge(s) ==
    [s EXCEPT !.phase = PhaseAfterPurge(s), !.next = "none",
              !.partition = IF s.scope = "partition" /\ ~LastPartition(s) THEN @ + 1 ELSE @]

(* One slice; the purge is over with the first that has room to spare.     *)
stepPurgeStaging(s) ==
    {IF Cardinality(Full(s)) >= PURGE_SLICE THEN DeleteFrom(s, T)
     ELSE [AfterPurge(DeleteFrom(s, T)) EXCEPT !.scope = "none"] : T \in {planPurgeSlice(s)}}

step(s, n, attempts) ==
    CASE s.phase = "listing" -> stepListing(s)
      [] s.phase = "is_lists" -> stepIsLists(s, attempts)
      [] s.phase = "fetch:tags" -> stepFetch(s, "tags")
      [] s.phase = "fetch:rulings" -> stepFetch(s, "rulings")
      [] s.phase = "canonical" -> stepCanonical(s, n)
      [] s.phase = "transform" -> stepTransform(s, n)
      [] s.phase = "tags" -> stepTags(s)
      [] s.phase = "scores" -> stepScores(s)
      [] s.phase = "routing" -> stepRouting(s)
      [] s.phase = "oracle_index" -> stepOracleIndex(s)
      [] s.phase = "bucket" -> stepBucket(s)
      [] s.phase = "agg" -> stepAgg(s)
      [] s.phase = "finalize" -> stepFinalize(s)
      [] s.phase = "reorder" -> stepReorder(s)
      [] s.phase = "build" -> stepBuild(s)
      [] s.phase = "publish" -> stepPublish(s)
      [] s.phase = "purge_staging" -> stepPurgeStaging(s)
      [] s.phase = "placement" -> stepPlacement(s)
      [] s.phase = "manifest" -> stepManifest(s)
      [] s.phase = "notify" -> stepNotify(s)
      [] s.phase = "rulings" -> stepRulings(s)
      [] s.phase = "reference" -> stepReference(s)
      [] s.phase = "purge" -> stepPurge(s)

-----------------------------------------------------------------------------
(* What a slice writes to KV before it commits: a slice that is killed may *)
(* have written it too.                                                    *)
PutAt(seq, i, x) == [j \in 1..(IF i > Len(seq) THEN i ELSE Len(seq)) |-> IF j = i THEN x ELSE seq[j]]

Writes(s) ==
    LET k == s.partition
        rec == s.recs[k]
    IN  CASE s.phase = "publish" /\ rec.published < publishChunkTotal(rec) ->
               [kv EXCEPT !.chunks[k] = PutAt(@, rec.published + 1, assembleChunk(s))]
          [] s.phase = "routing" -> [kv EXCEPT !.routing = RoutingKeys(s)]
          [] s.phase = "manifest" ->
               [kv EXCEPT !.published = TRUE, !.counts = [j \in Partitions |-> s.recs[j].count]]
          [] OTHER -> kv

(* The filter is the one write a completed slice may have gone without.    *)
Written(s, e) ==
    IF s.phase = "publish" /\ e.recs[s.partition].published = 0 THEN {kv}
    ELSE IF s.phase = "routing" THEN {kv, Writes(s)} ELSE {Writes(s)}

(* Mutant: the barrier throws at whatever count it has reached.            *)
Thrown_Unbounded(s) ==
    CASE s.phase = "notify" -> {s, [s EXCEPT !.tries = @ + 1]}
      [] s.phase = "rulings" -> {[s EXCEPT !.tries = @ + 1]}
      [] OTHER -> {s}

(* What a slice that throws leaves behind: the attempts that notify and    *)
(* rulings count, rows fed to the heap, half of an archive.  Of notify's   *)
(* errors only those of the barrier are counted, and the last one it would *)
(* count is not thrown; those of its reads of KV and of the sweep of the   *)
(* abandoned engines are not counted, and thrown at any count.             *)
Thrown(s) ==
    CASE s.phase = "notify" ->
           {s} \cup (IF s.tries + 1 < NOTIFY_MAX_ATTEMPTS THEN {[s EXCEPT !.tries = @ + 1]} ELSE {})
      [] s.phase = "rulings" -> {[s EXCEPT !.tries = @ + 1]}
      [] s.phase = "agg" /\ Started(s).linked /\ RowsAfter(Started(s), Started(s).aggDone) # {} ->
           LET e == Started(s) IN {[e EXCEPT !.wasm.agg = @ \o e.parts[e.partition][NextRow(e, e.aggDone)]]}
      [] s.phase = "finalize" /\ s.linked /\ RowsAfter(s, s.finDone) # {} ->
           {[s EXCEPT !.wasm.fin = @ \o s.parts[s.partition][NextRow(s, s.finDone)]]}
      [] s.phase = "build" /\ s.linked -> {[s EXCEPT !.chunks = <<[agg |-> s.wasm.agg, row |-> s.ordered[1]]>>]}
      [] OTHER -> {s}

(* The phases that let an error reach the alarm.                           *)
Throws(s) ==
    /\ s.phase \notin {"is_lists", "oracle_index", "placement", "reference", "purge"}
    /\ s.phase = "rulings" => s.tries + 1 < RULINGS_MAX_ATTEMPTS

-----------------------------------------------------------------------------
(* The alarm.                                                              *)

Retiring(s) == s.phase = "purge_staging" /\ s.scope = "retire"
beginRetire(s, kind) == [beginPurge(s, "retire", "none") EXCEPT !.kind = kind]

(* The state the alarm works from: a superseded run begins to retire.      *)
Current == IF ~Retiring(d) /\ fence # "none" THEN beginRetire(d, fence) ELSE d
Attempt == job.attempts + 1
Live == job.state = "running" /\ alarm # None /\ d.phase # "idle"
Runnable == Live /\ Attempt <= MAX_PHASE_ATTEMPTS

Evicted(s) == [s EXCEPT !.wasm = NoWasm, !.linked = FALSE]

failRun(s, cause) ==
    /\ job' = [job EXCEPT !.state = "failed", !.attempts = Attempt, !.cause = cause]
    /\ d' = [s EXCEPT !.phase = "idle"] /\ alarm' = None

(* A retiring run never fails: it tries again later, from a clean count.   *)
deferRetire(s) ==
    /\ job' = [job EXCEPT !.retries = 0, !.attempts = 0]
    /\ d' = s /\ alarm' = 0

(* Mutant: a retiring run that cannot go on fails, like any other.         *)
FailOrDefer_Fails(s, cause) == failRun(s, cause)

FailOrDefer(s, cause) == IF Retiring(s) THEN deferRetire(s) ELSE failRun(s, cause)

(* An alarm of a run that has ended.                                       *)
StaleAlarm ==
    /\ alarm # None /\ ~Live /\ alarm' = None
    /\ UNCHANGED <<job, d, kv, fence, upstream, faults>>

(* The storage or the time budget is spent.                                *)
OverBudget ==
    /\ Live /\ Fault /\ FailOrDefer(Current, "budget")
    /\ UNCHANGED <<kv, fence, upstream>>

TooManyAttempts ==
    /\ Live /\ Attempt > MAX_PHASE_ATTEMPTS /\ FailOrDefer(Current, "killed")
    /\ UNCHANGED <<kv, fence, upstream, faults>>

(* A slice that completes: the counters are cleared if they had risen, and *)
(* the next alarm is armed.  The end of a retirement deletes the object's  *)
(* storage, unless a deploy ended the run or the object dies first.        *)
Completed(s, e) ==
    /\ d' \in IF Retiring(s) /\ e.phase = "idle" /\ e.kind = "watchdog"
              THEN {e, Fresh} ELSE {e}
    /\ kv' \in Written(s, e)
    /\ job' = [job EXCEPT !.retries = 0, !.attempts = IF Attempt > 1 THEN 0 ELSE Attempt,
                          !.state = IF e.phase # "idle" THEN @
                                    ELSE IF Retiring(s) THEN "superseded" ELSE "done"]
    /\ alarm' = IF e.phase # "idle" \/ (alarm > 0 /\ ~Retiring(s)) THEN 0 ELSE None

Slice ==
    /\ Runnable /\ \E e \in step(Current, job.n, Attempt): Completed(Current, e)
    /\ UNCHANGED <<fence, upstream, faults>>

(* Before the family's first key, and before a partition's first chunk, a  *)
(* deploy that holds the upload lease is waited for.                       *)
beginFamilyUploadWaits ==
    /\ Runnable /\ Fault /\ fence = "none"
    /\ d.phase = "routing" \/ (d.phase = "publish" /\ d.recs[d.partition].published = 0)
    /\ job' = [job EXCEPT !.retries = 0, !.attempts = IF Attempt > 1 THEN 0 ELSE Attempt] /\ alarm' = 0
    /\ UNCHANGED <<d, kv, fence, upstream>>

FatalSlice ==
    /\ Runnable /\ step(Current, job.n, Attempt) = {} /\ FailOrDefer(Current, "fatal")
    /\ UNCHANGED <<kv, fence, upstream, faults>>

(* A dump that vanished upstream, or a refused write, ends the run; the    *)
(* rulings are given up instead.                                           *)
Refused ==
    /\ Runnable /\ Fault /\ Throws(Current) /\ Current.phase # "rulings"
    /\ FailOrDefer(Current, IF Current.phase \in {"canonical", "transform"} THEN "fatal" ELSE "quota")
    /\ UNCHANGED <<kv, fence, upstream>>

(* Mutant: a failed slice keeps the heap it left ahead of the tables.      *)
Dirty_Kept(s) == s

(* A failed slice of a phase that feeds the heap marks it dirty.           *)
Dirty(s) == IF s.phase \in WasmPhases THEN [s EXCEPT !.linked = FALSE] ELSE s

(* Any other error: again after a while, up to a ceiling.  The errors of   *)
(* notify and of the rulings are bounded without a fault of their own: by  *)
(* that ceiling, and by the attempts they count.                           *)
FailedSlice ==
    /\ Runnable /\ Throws(Current)
    /\ IF Current.phase \in {"notify", "rulings"} THEN UNCHANGED faults ELSE Fault
    /\ \E t \in Thrown(Current):
         IF job.retries < MAX_RETRIES
         THEN /\ job' = [job EXCEPT !.retries = @ + 1, !.attempts = Attempt]
              /\ d' = Dirty(t) /\ alarm' = 0
         ELSE FailOrDefer(t, "errors")
    /\ kv' \in {kv, Writes(Current)}
    /\ UNCHANGED <<fence, upstream>>

(* The fence before a write finds the run superseded since the alarm began. *)
FencedMidSlice(kind) ==
    /\ Runnable /\ Fault /\ fence = "none" /\ d.phase \in {"routing", "publish", "manifest"}
    /\ fence' = kind /\ d' = beginRetire(d, kind) /\ alarm' = 0
    /\ job' = [job EXCEPT !.attempts = Attempt]
    /\ UNCHANGED <<kv, upstream>>

(* Mutant: only the platform's redeliveries stand behind a killed slice.   *)
Redelivery_NoDeadMan == IF alarm < PLATFORM_RETRIES THEN alarm + 1 ELSE None

(* What fires after a kill: the platform redelivers the alarm a few times, *)
(* and a redelivered one has armed its dead-man alarm before the slice.    *)
Redelivery == IF alarm > 0 THEN 0 ELSE IF alarm < PLATFORM_RETRIES THEN alarm + 1 ELSE None

(* The runtime kills the slice, or resets the object under it: nothing but *)
(* the attempt and what already reached KV remains.                        *)
Killed ==
    /\ Runnable
    /\ job' = [job EXCEPT !.attempts = Attempt]
    /\ d' = Evicted(Current) /\ kv' \in {kv, Writes(Current)} /\ alarm' = Redelivery
    /\ UNCHANGED <<fence, upstream, faults>>

(* Killed at the end of a run, between the phase and the run record.       *)
KilledWhileEnding ==
    /\ Live /\ Fault
    /\ d' = [Evicted(Current) EXCEPT !.phase = "idle", !.scope = "none"] /\ alarm' = Redelivery
    /\ job' = [job EXCEPT !.attempts = Attempt]
    /\ UNCHANGED <<kv, fence, upstream>>

(* The alarm cannot keep its own books: it gives up until someone kicks it. *)
LoseBooks ==
    /\ Live /\ Fault /\ alarm' = None
    /\ job' = [job EXCEPT !.lost = TRUE] /\ d' = Evicted(Current) /\ kv' \in {kv, Writes(Current)}
    /\ UNCHANGED <<fence, upstream>>

runAlarm ==
    \/ StaleAlarm \/ OverBudget \/ TooManyAttempts \/ Slice \/ beginFamilyUploadWaits \/ FatalSlice
    \/ Refused \/ FailedSlice \/ Killed \/ KilledWhileEnding \/ LoseBooks
    \/ \E kind \in {"watchdog", "deploy"}: FencedMidSlice(kind)

-----------------------------------------------------------------------------
(* The rest of the world.                                                  *)

Evict ==
    /\ d.linked /\ d' = Evicted(d)
    /\ UNCHANGED <<job, kv, alarm, fence, upstream, faults>>

(* The watchdog kicks a run that has stopped.                              *)
kick ==
    /\ job.state = "running" /\ alarm = None /\ alarm' = 0
    /\ job' = [job EXCEPT !.lost = FALSE]
    /\ UNCHANGED <<d, kv, fence, upstream, faults>>

(* A start on an object whose last run ended, or whose run has stopped.    *)
startImport ==
    /\ job.state = "running" => alarm = None
    /\ job.n < MaxRuns /\ alarm' = 0
    /\ job' = [state |-> "running", n |-> job.n + 1, attempts |-> 0, retries |-> 0, lost |-> FALSE, cause |-> "none"]
    /\ d' = beginPurge(Cleared(d), "reset", "none")
    /\ fence' = "none" /\ kv' = Unwritten
    /\ UNCHANGED <<upstream, faults>>

Supersede(kind) ==
    /\ job.state = "running" /\ fence = "none" /\ fence' = kind /\ Fault
    /\ UNCHANGED <<job, d, kv, alarm, upstream>>

(* Upstream replaces the dumps.                                            *)
Republish ==
    /\ upstream = 1 /\ upstream' = 2 /\ Fault
    /\ UNCHANGED <<job, d, kv, alarm, fence>>

Next ==
    \/ runAlarm \/ Evict \/ kick \/ startImport \/ Republish
    \/ \E kind \in {"watchdog", "deploy"}: Supersede(kind)

(* An armed alarm fires, and a slice of a retirement that is attempted     *)
(* again and again completes some time.                                    *)
Fairness == WF_vars(runAlarm) /\ SF_vars(Retiring(Current) /\ Slice)

Spec == Init /\ [][Next]_vars /\ Fairness

-----------------------------------------------------------------------------
(* The types of the run, its tables and what it published.                 *)
TypeOK ==
    /\ job \in [state : {"idle", "running", "done", "failed", "superseded"}, n : 0..MaxRuns,
                attempts : 0..MAX_PHASE_ATTEMPTS + 1, retries : 0..MAX_RETRIES, lost : BOOLEAN,
                cause : {"none", "budget", "killed", "fatal", "quota", "errors"}]
    /\ d.phase \in Phases /\ d.scope \in Scopes /\ d.partition \in Partitions
    /\ d.raw \in 0..Lines /\ d.canonical \in 0..Lines /\ d.rewinds \in 0..MAX_WASM_REWINDS
    /\ alarm \in None..PLATFORM_RETRIES
    /\ fence \in {"none", "watchdog", "deploy"} /\ upstream \in Versions /\ faults \in 0..MaxFaults

(* The archive the manifest names holds, for each partition, exactly the   *)
(* drafts of the run's own dump that hash to it, each once, in build order *)
(* and aggregated over all of them, however often a slice was killed,      *)
(* failed or evicted, and whatever an earlier run left in the tables.      *)
CorpusOf(n, k) == {Draft(n, i) : i \in {j \in 1..Lines : PartitionOf(Draft(n, j)) = k}}
Exactly(seq, set) == Range(seq) = set /\ Len(seq) = Cardinality(set)
Archive(k) == FlattenSeq(SubSeq(kv.chunks[k], 1, kv.counts[k]))
ArchiveFaithful ==
    kv.published =>
        \A k \in Partitions:
            LET archive == Archive(k)
                corpus == CorpusOf(job.n, k)
            IN  /\ Exactly([i \in DOMAIN archive |-> archive[i].row], corpus)
                /\ \A i \in DOMAIN archive:
                     /\ Exactly(archive[i].agg, corpus)
                     /\ i > 1 => archive[i - 1].row[2] > archive[i].row[2]

(* A routing filter that is published has every key of the corpus: one     *)
(* that misses a key hides a card from every search that trusts it.        *)
FilterComplete ==
    kv.routing # {} => kv.routing = {Draft(job.n, i) : i \in 1..Lines}

(* The tag maps come from one whole version of their dump, though upstream *)
(* may replace the file between two ranged requests.                       *)
TagsWhole ==
    d.tags # <<>> => \E v \in Versions: d.tags = [i \in 1..FileBytes |-> <<v, i>>]

(* A run in flight has an alarm behind it, however often its slices are    *)
(* killed: only an alarm that lost its books, or one killed while the run  *)
(* was ending, leaves it to the watchdog.                                  *)
RunningIsArmed ==
    job.state = "running" /\ alarm = None => job.lost \/ d.phase = "idle"

(* A retiring run ends superseded, never failed, and writes nothing more   *)
(* that a reader or its successor could see.                               *)
RetireIsQuiet ==
    [][Retiring(d) /\ job'.n = job.n => job'.state # "failed" /\ kv' = kv]_vars

(* A run that has published its store is never failed by its data, nor by  *)
(* the rulings, and never by engines that do not answer: of the errors     *)
(* that fail it in notify, the barrier counted fewer than the attempts it  *)
(* allows them.  The others, reads of KV that kept failing, do cost it the *)
(* purge; so do kills, a budget or a quota.                                *)
Uncounted == job.retries + 1 - d'.tries
PublishedGoesOn ==
    [][kv.published /\ job.state = "running" /\ d.phase # "manifest" /\ job'.n = job.n =>
         /\ job'.cause # "fatal"
         /\ job'.cause = "errors" =>
              d.phase = "notify" /\ Uncounted > MAX_RETRIES + 1 - NOTIFY_MAX_ATTEMPTS]_vars

(* Every run ends, done, failed or superseded, though its slices may be    *)
(* killed and its heap evicted without end, unless its alarm lost its      *)
(* books or died in the act of ending it.                                  *)
RunEnds ==
    job.state = "running" ~> (job.state # "running" \/ alarm = None)
=============================================================================
