------------------------- MODULE ImportRun_proofs -------------------------
(***************************************************************************)
(* What is proved of ImportRun for every value of its constants: types,    *)
(* that a run in flight has its alarm, that a retiring run is quiet, that  *)
(* a published run goes on, and two facts about the data: the tag maps are *)
(* one version of their dump, and the routing filter has the whole corpus. *)
(***************************************************************************)
EXTENDS ImportRun, FiniteSetTheorems, TLAPS

-----------------------------------------------------------------------------
(* The inductive invariant.                                                *)

Columns ==
    {"phase", "scope", "kind", "next", "waits", "work", "tries", "canonical", "raw", "scored",
     "bucketed", "started", "aggDone", "finDone", "base", "staged", "reordered", "partition", "recs",
     "linked", "rewinds", "files", "checkpoint", "blobs", "batches", "pending", "tagdata", "tags",
     "corpus", "routing", "parts", "spill", "ordered", "chunks", "wasm"}

(* The cursors of the object, and where a purge under way leads.           *)
Cursors(s) ==
    /\ DOMAIN s = Columns
    /\ s.phase \in Phases /\ s.scope \in Scopes /\ s.partition \in Partitions
    /\ s.raw \in 0..Lines /\ s.canonical \in 0..Lines /\ s.rewinds \in 0..MAX_WASM_REWINDS
    /\ s.tries \in Nat /\ (s.phase = "notify" => s.tries < NOTIFY_MAX_ATTEMPTS)
    /\ s.phase = "purge_staging" /\ s.scope = "blobs" => s.next = "scores"

(* The dump of the tags is staged from one version of it, a prefix of it   *)
(* until it is done, over blobs that the reset has emptied.                *)
Bytes(v, n) == [i \in 1..n |-> <<v, i>>]
File == [got : 0..FileBytes, etag : {0} \cup Versions, done : BOOLEAN]
AfterTags == {"fetch:rulings", "canonical", "transform", "tags"}
Fetching == {"is_lists", "fetch:tags"} \cup AfterTags
Whole(tags) == tags = <<>> \/ \E v \in Versions: tags = Bytes(v, FileBytes)

StagedSound(f, bytes) ==
    /\ bytes = Bytes(f.etag, f.got)
    /\ f.etag = 0 => f.got = 0
    /\ f.done => f.got = FileBytes /\ f.etag # 0

TagsSound(s) ==
    /\ Whole(s.tags)
    /\ DOMAIN s.blobs = Kinds
    /\ s.phase = "listing" => s.blobs["tags"] = <<>>
    /\ s.phase \in Fetching =>
         /\ s.files \in [Kinds -> File]
         /\ StagedSound(s.files["tags"], s.blobs["tags"])
    /\ s.phase \in AfterTags => s.files["tags"].done

(* The drafts of the lines read so far are the batches and the pending     *)
(* group, and the routing keys those of the batches scored so far.         *)
Corpus(n, lines) == {Draft(n, i) : i \in 1..lines}
InBatches(s) == UNION {Range(s.batches[b]) : b \in Batches}
FirstRows(s, F) == DOMAIN s.batches = Batches /\ \A b \in Batches: s.batches[b] # <<>> <=> b < F
Unread(s) == s.batches = Empty /\ s.pending = <<>> /\ s.raw = 0

Packed(s, n, F) ==
    /\ FirstRows(s, F)
    /\ s.pending \in Seq(Corpus(n, Lines))
    /\ s.raw = F * DRAFT_BATCH + Len(s.pending)
    /\ InBatches(s) \cup Range(s.pending) = Corpus(n, s.raw)

Drafted(s, n) == InBatches(s) = Corpus(n, Lines) /\ \E F \in Nat: FirstRows(s, F)

BeforeLines == {"listing", "is_lists", "fetch:tags", "fetch:rulings", "canonical"}
InScope(s, scope) == s.phase = "purge_staging" /\ s.scope = scope
FilterSound(s, n) ==
    /\ InScope(s, "reset") => s.raw = 0 /\ s.scored = 0
    /\ s.phase \in BeforeLines => Unread(s)
    /\ s.phase = "transform" => \E F \in Nat: Packed(s, n, F)
    /\ s.phase \in BeforeLines \cup {"transform", "tags"} => s.scored = 0 /\ s.routing = Empty
    /\ s.phase \in {"tags", "scores"} \/ InScope(s, "blobs") => Drafted(s, n)
    /\ s.phase = "scores" \/ InScope(s, "blobs") =>
         /\ s.scored \in Nat
         /\ s.routing = [b \in Batches |-> IF b < s.scored THEN s.batches[b] ELSE <<>>]
    /\ s.phase = "routing" => RoutingKeys(s) = Corpus(n, Lines)

Data(s, n) == Cursors(s) /\ TagsSound(s) /\ FilterSound(s, n)

(* The run record j against the object's state s and what the run wrote, w. *)
Published == {"manifest", "notify", "rulings", "reference", "purge", "idle"}
Books(j, s, w) ==
    /\ s.phase # "idle" => j.state = "running" /\ j.attempts <= MAX_PHASE_ATTEMPTS
    /\ j.state = "running" => j.cause = "none"
    /\ w.published => s.phase \in Published \/ Retiring(s)
    /\ s.phase = "rulings" => j.retries <= s.tries

Store(w, n) ==
    /\ DOMAIN w = {"chunks", "routing", "published", "counts"}
    /\ w.published \in BOOLEAN
    /\ w.routing # {} => w.routing = Corpus(n, Lines)

IInv == TypeOK /\ Data(d, job.n) /\ Books(job, d, kv) /\ Store(kv, job.n) /\ RunningIsArmed

-----------------------------------------------------------------------------
(* Constants and small facts.                                              *)

LEMMA Sizes ==
    /\ Lines \in Nat \ {0} /\ FileBytes \in Nat \ {0} /\ DRAFT_BATCH \in Nat \ {0}
    /\ PartitionCount \in Nat \ {0} /\ PURGE_SLICE \in Nat \ {0} /\ STAGE_BLOB_BYTES \in Nat \ {0}
    /\ FETCH_SLICE_BYTES \in Nat \ {0} /\ CANONICAL_SLICE_LINES \in Nat \ {0}
    /\ TRANSFORM_SLICE_LINES \in Nat \ {0}
  BY SizesAssumption

LEMMA Ceilings ==
    /\ MAX_PHASE_ATTEMPTS \in Nat \ {0} /\ MAX_RETRIES \in Nat \ {0} /\ PLATFORM_RETRIES \in Nat \ {0}
    /\ NOTIFY_MAX_ATTEMPTS \in Nat \ {0} /\ RULINGS_MAX_ATTEMPTS \in Nat \ {0}
    /\ MAX_WASM_REWINDS \in Nat /\ MaxRuns \in Nat /\ MaxFaults \in Nat
    /\ NOTIFY_MAX_ATTEMPTS <= MAX_RETRIES /\ RULINGS_MAX_ATTEMPTS <= MAX_RETRIES
  BY CeilingsAssumption

(* A step to a phase past the routing filter, or to a purge other than the *)
(* reset and that of the staged dumps, has no early table to answer for.   *)
Early == Fetching \cup {"listing", "scores", "routing"}

LEMMA Late ==
    ASSUME NEW s, NEW n, NEW e, Data(s, n), Cursors(e),
           e.tags \in {s.tags, <<>>}, DOMAIN e.blobs = Kinds,
           e.phase \notin Early, ~InScope(e, "reset"), ~InScope(e, "blobs")
    PROVE  Data(e, n)
<1>1. TagsSound(e)
  BY DEF TagsSound, Data, Early, AfterTags, Fetching, Whole
<1>2. FilterSound(e, n)
  BY DEF FilterSound, Data, Early, AfterTags, Fetching, BeforeLines
<1> QED BY <1>1, <1>2 DEF Data

(* What the phases after the routing filter leave alone.                   *)
Kept(s, e) ==
    /\ DOMAIN e = Columns
    /\ e.raw = s.raw /\ e.canonical = s.canonical /\ e.tags = s.tags /\ e.blobs = s.blobs

Counted(s, e) == Kept(s, e) /\ e.partition = s.partition /\ e.rewinds = s.rewinds /\ e.tries = s.tries

Moved(s, e, phase) == Counted(s, e) /\ e.phase = phase /\ e.scope = s.scope

LEMMA MovedLate ==
    ASSUME NEW s, NEW n, Data(s, n), NEW e, NEW phase \in Phases \ Early, phase \notin {"purge_staging", "notify"},
           Moved(s, e, phase)
    PROVE  Data(e, n)
<1>1. Cursors(e)
  BY DEF Data, Cursors, Moved, Counted, Kept
<1> QED BY <1>1, Late DEF Data, TagsSound, Moved, Counted, Kept, InScope

LEMMA Purging ==
    ASSUME NEW s, NEW n, Data(s, n), NEW e, Counted(s, e), NEW scope \in Scopes \ {"blobs", "reset"},
           e.phase = "purge_staging", e.scope = scope
    PROVE  Data(e, n)
<1>1. "purge_staging" \in Phases \ Early /\ scope \in Scopes
  BY DEF Phases, Early, Fetching, AfterTags
<1>2. Cursors(e)
  BY <1>1 DEF Data, Cursors, Counted, Kept
<1> QED BY <1>1, <1>2, Late DEF Data, TagsSound, Counted, Kept, InScope

LEMMA PurgeBegins ==
    ASSUME NEW s, DOMAIN s = Columns, NEW scope, NEW next
    PROVE  LET e == beginPurge(s, scope, next)
           IN  /\ Counted(s, e) /\ e.phase = "purge_staging" /\ e.scope = scope /\ e.next = next
  BY DEF beginPurge, Counted, Kept, Columns

LEMMA RewoundData ==
    ASSUME NEW s, NEW n, Data(s, n), NEW e \in Rewound(s)
    PROVE  Data(e, n)
<1> DEFINE t == [s EXCEPT !.rewinds = @ + 1, !.started = None, !.aggDone = None,
                          !.finDone = None, !.reordered = 0]
<1>1. e = beginPurge(t, "rewind", "agg") /\ ~(s.rewinds >= MAX_WASM_REWINDS)
  BY DEF Rewound
<1>2. DOMAIN s = Columns
  BY DEF Data, Cursors
<1>3. /\ Kept(s, t) /\ t.partition = s.partition /\ t.tries = s.tries /\ t.rewinds = s.rewinds + 1
      /\ t.phase = s.phase /\ t.scope = s.scope /\ t.next = s.next /\ t.batches = s.batches
      /\ t.routing = s.routing /\ t.scored = s.scored /\ t.files = s.files /\ t.pending = s.pending
  BY <1>2 DEF Kept, Columns
<1> HIDE DEF t
<1>4. t.rewinds \in 0..MAX_WASM_REWINDS
  BY <1>1, <1>3, Ceilings DEF Data, Cursors
<1>5. Data(t, n)
  <2>1. Cursors(t)
    BY <1>3, <1>4 DEF Data, Cursors, Kept
  <2>2. TagsSound(t)
    BY <1>3 DEF Data, TagsSound, Kept
  <2>3. FilterSound(t, n)
    BY <1>3 DEF Data, FilterSound, Kept, InScope, Unread, Packed, FirstRows, Drafted, InBatches, RoutingKeys
  <2> QED BY <2>1, <2>2, <2>3 DEF Data
<1>6. "rewind" \in Scopes \ {"blobs", "reset"}
  BY DEF Scopes
<1> QED BY <1>1, <1>3, <1>5, <1>6, PurgeBegins, Purging DEF Kept

(* What no invariant of the data reads: the heap and the cursors of the    *)
(* partition in progress.                                                  *)
Untouched(s, t) ==
    /\ Counted(s, t)
    /\ t.phase = s.phase /\ t.scope = s.scope /\ t.next = s.next /\ t.files = s.files
    /\ t.batches = s.batches /\ t.pending = s.pending /\ t.routing = s.routing /\ t.scored = s.scored

LEMMA SameData ==
    ASSUME NEW s, NEW n, Data(s, n), NEW t, Untouched(s, t)
    PROVE  Data(t, n)
<1>1. Cursors(t)
  BY DEF Data, Cursors, Untouched, Counted, Kept
<1>2. TagsSound(t)
  BY DEF Data, TagsSound, Untouched, Counted, Kept
<1>3. FilterSound(t, n)
  BY DEF Data, FilterSound, Untouched, Counted, Kept, InScope, Unread, Packed, FirstRows, Drafted,
         InBatches, RoutingKeys
<1> QED BY <1>1, <1>2, <1>3 DEF Data

LEMMA StartedData ==
    ASSUME NEW s, NEW n, Data(s, n)
    PROVE  Data(Started(s), n) /\ Untouched(s, Started(s))
<1>1. Untouched(s, Started(s))
  BY DEF Started, Untouched, Counted, Kept, Data, Cursors, Columns
<1> QED BY <1>1, SameData

LEMMA LatePhases ==
    WasmPhases \cup {"oracle_index", "bucket", "publish", "placement", "manifest", "notify", "rulings",
                     "reference", "purge", "idle"} \subseteq (Phases \ Early) \ {"purge_staging"}
  BY DEF WasmPhases, Phases, Early, Fetching, AfterTags

LEMMA AggData ==
    ASSUME NEW s, NEW n, Data(s, n), NEW e \in stepAgg(s), s.phase = "agg"
    PROVE  Data(e, n)
<1> DEFINE t == Started(s)
<1>1. Data(t, n) /\ t.phase = "agg" /\ DOMAIN t = Columns
  BY StartedData DEF Untouched, Data, Cursors
<1>2. \/ e \in Rewound(t)
      \/ e = [t EXCEPT !.finDone = None, !.base = 0, !.phase = "finalize"]
      \/ \E b : e = [t EXCEPT !.wasm.agg = @ \o t.parts[t.partition][b], !.aggDone = b]
  BY DEF stepAgg, ensureWasmContinuity
<1> HIDE DEF t
<1>3. CASE e \in Rewound(t)
  BY <1>1, <1>3, RewoundData
<1>4. CASE e = [t EXCEPT !.finDone = None, !.base = 0, !.phase = "finalize"]
  <2>1. Moved(t, e, "finalize")
    BY <1>1, <1>4 DEF Moved, Counted, Kept, Columns
  <2> QED BY <2>1, <1>1, MovedLate, LatePhases DEF WasmPhases
<1>5. ASSUME NEW b, e = [t EXCEPT !.wasm.agg = @ \o t.parts[t.partition][b], !.aggDone = b]
      PROVE  Data(e, n)
  <2>1. Moved(t, e, "agg")
    BY <1>1, <1>5 DEF Moved, Counted, Kept, Columns
  <2> QED BY <2>1, <1>1, MovedLate, LatePhases DEF WasmPhases
<1> QED BY <1>2, <1>3, <1>4, <1>5

LEMMA FinalizeData ==
    ASSUME NEW s, NEW n, Data(s, n), NEW e \in stepFinalize(s), s.phase = "finalize"
    PROVE  Data(e, n)
<1>1. DOMAIN s = Columns
  BY DEF Data, Cursors
<1>2. \/ e \in Rewound(s)
      \/ e = [s EXCEPT !.staged = Len(s.wasm.fin), !.phase = "reorder"]
      \/ \E b, rows : e = [s EXCEPT !.wasm.fin = @ \o rows, !.spill = WriteAt(@, s.base, rows),
                                    !.base = @ + Len(rows), !.finDone = b]
  BY DEF stepFinalize, ensureWasmContinuity
<1>3. CASE e \in Rewound(s)
  BY <1>3, RewoundData
<1>4. CASE e = [s EXCEPT !.staged = Len(s.wasm.fin), !.phase = "reorder"]
  <2>1. Moved(s, e, "reorder")
    BY <1>1, <1>4 DEF Moved, Counted, Kept, Columns
  <2> QED BY <2>1, MovedLate, LatePhases DEF WasmPhases
<1>5. ASSUME NEW b, NEW rows,
             e = [s EXCEPT !.wasm.fin = @ \o rows, !.spill = WriteAt(@, s.base, rows),
                           !.base = @ + Len(rows), !.finDone = b]
      PROVE  Data(e, n)
  <2>1. Moved(s, e, "finalize")
    BY <1>1, <1>5 DEF Moved, Counted, Kept, Columns
  <2> QED BY <2>1, MovedLate, LatePhases DEF WasmPhases
<1> QED BY <1>2, <1>3, <1>4, <1>5

LEMMA ReorderData ==
    ASSUME NEW s, NEW n, Data(s, n), NEW e \in stepReorder(s), s.phase = "reorder"
    PROVE  Data(e, n)
<1>1. DOMAIN s = Columns
  BY DEF Data, Cursors
<1>2. \/ e \in Rewound(s)
      \/ \E rows, at : e = [s EXCEPT !.ordered = WriteAt(@, s.reordered, rows), !.reordered = at,
                                     !.phase = IF at >= s.staged THEN "build" ELSE @]
  <2> DEFINE at == s.reordered + 1
             rows == <<s.spill[stagedOrder(s.wasm.fin)[at]]>>
             t == [s EXCEPT !.ordered = WriteAt(@, s.reordered, rows), !.reordered = at,
                            !.phase = IF at >= s.staged THEN "build" ELSE @]
  <2>1. e \in Rewound(s) \/ e = t
    BY DEF stepReorder, ensureWasmContinuity
  <2> QED BY <2>1
<1>3. CASE e \in Rewound(s)
  BY <1>3, RewoundData
<1>4. ASSUME NEW rows, NEW at,
             e = [s EXCEPT !.ordered = WriteAt(@, s.reordered, rows), !.reordered = at,
                           !.phase = IF at >= s.staged THEN "build" ELSE @]
      PROVE  Data(e, n)
  <2>1. Moved(s, e, "build") \/ Moved(s, e, "reorder")
    BY <1>1, <1>4 DEF Moved, Counted, Kept, Columns
  <2> QED BY <2>1, MovedLate, LatePhases DEF WasmPhases
<1> QED BY <1>2, <1>3, <1>4

LEMMA BuildData ==
    ASSUME NEW s, NEW n, Data(s, n), NEW e \in stepBuild(s), s.phase = "build"
    PROVE  Data(e, n)
<1>1. DOMAIN s = Columns
  BY DEF Data, Cursors
<1>2. CASE s.linked
  <2>1. PICK rows, rec : e = [s EXCEPT !.chunks = rows, !.recs[s.partition] = rec,
                                       !.wasm = NoWasm, !.linked = FALSE, !.phase = "publish"]
    <3> DEFINE rows == [i \in 1..s.staged |-> [agg |-> s.wasm.agg, row |-> s.ordered[i]]]
               rec == [freshRecord EXCEPT !.rows = s.staged]
    <3>1. e = [s EXCEPT !.chunks = rows, !.recs[s.partition] = rec,
                        !.wasm = NoWasm, !.linked = FALSE, !.phase = "publish"]
      BY <1>2 DEF stepBuild, ensureWasmContinuity
    <3> QED BY <3>1
  <2>2. Moved(s, e, "publish")
    <3>1. /\ DOMAIN e = Columns /\ e.phase = "publish"
          /\ e.scope = s.scope /\ e.raw = s.raw /\ e.canonical = s.canonical
      BY <1>1, <2>1 DEF Columns
    <3>2. e.tags = s.tags /\ e.blobs = s.blobs
      BY <1>1, <2>1 DEF Columns
    <3>3. e.partition = s.partition /\ e.rewinds = s.rewinds /\ e.tries = s.tries
      BY <1>1, <2>1 DEF Columns
    <3> QED BY <3>1, <3>2, <3>3 DEF Moved, Counted, Kept
  <2> QED BY <2>2, MovedLate, LatePhases
<1>3. CASE ~s.linked
  BY <1>3, RewoundData DEF stepBuild, ensureWasmContinuity
<1> QED BY <1>2, <1>3

LEMMA PublishData ==
    ASSUME NEW s, NEW n, Data(s, n), NEW e \in stepPublish(s), s.phase = "publish"
    PROVE  Data(e, n)
<1>1. DOMAIN s = Columns
  BY DEF Data, Cursors
<1> DEFINE t == [s EXCEPT !.recs[s.partition].count = publishChunkTotal(s.recs[s.partition])]
<1>2. \/ e = [s EXCEPT !.recs[s.partition].published = @ + 1]
      \/ e = [s EXCEPT !.recs[s.partition].cut = KV_CHUNK_SAFE, !.recs[s.partition].published = 0]
      \/ e = beginPurge(t, "partition", "none")
  BY DEF stepPublish
<1>3. Untouched(s, t)
  BY <1>1 DEF Untouched, Counted, Kept, Columns
<1> HIDE DEF t
<1>4. CASE e = beginPurge(t, "partition", "none")
  <2>1. Data(t, n) /\ DOMAIN t = Columns /\ "partition" \in Scopes \ {"blobs", "reset"}
    BY <1>3, SameData DEF Untouched, Counted, Kept, Scopes
  <2> QED BY <1>4, <2>1, PurgeBegins, Purging
<1>5. CASE e = [s EXCEPT !.recs[s.partition].published = @ + 1]
  <2>1. Untouched(s, e)
    BY <1>1, <1>5 DEF Untouched, Counted, Kept, Columns
  <2> QED BY <2>1, SameData
<1>6. CASE e = [s EXCEPT !.recs[s.partition].cut = KV_CHUNK_SAFE, !.recs[s.partition].published = 0]
  <2> DEFINE u == [s EXCEPT !.recs[s.partition].cut = KV_CHUNK_SAFE]
  <2>1. Untouched(s, u)
    BY <1>1 DEF Untouched, Counted, Kept, Columns
  <2>2. e = [u EXCEPT !.recs[s.partition].published = 0]
    BY <1>6
  <2> HIDE DEF u
  <2>3. Untouched(u, e)
    BY <2>1, <2>2 DEF Untouched, Counted, Kept, Columns
  <2> QED BY <2>1, <2>3, SameData
<1> QED BY <1>2, <1>4, <1>5, <1>6

LEMMA RoutingData ==
    ASSUME NEW s, NEW n, Data(s, n), NEW e \in stepRouting(s)
    PROVE  Data(e, n)
<1>1. Moved(s, e, "oracle_index")
  BY DEF stepRouting, Moved, Counted, Kept, Columns, Data, Cursors
<1> QED BY <1>1, MovedLate, LatePhases

LEMMA OracleIndexData ==
    ASSUME NEW s, NEW n, Data(s, n), NEW e \in stepOracleIndex(s)
    PROVE  Data(e, n)
<1>1. Moved(s, e, "bucket")
  BY DEF stepOracleIndex, Moved, Counted, Kept, Columns, Data, Cursors
<1> QED BY <1>1, MovedLate, LatePhases

LEMMA BucketData ==
    ASSUME NEW s, NEW n, Data(s, n), NEW e \in stepBucket(s), s.phase = "bucket"
    PROVE  Data(e, n)
<1>1. DOMAIN s = Columns
  BY DEF Data, Cursors
<1>2. \/ e = [s EXCEPT !.phase = "agg"]
      \/ \E parts, b : e = [s EXCEPT !.parts = parts, !.batches[b] = <<>>, !.bucketed = b + 1]
  <2> DEFINE b == s.bucketed
             parts == [k \in Partitions |-> [s.parts[k] EXCEPT ![b] = bucketDrafts(s.batches[b], k)]]
  <2>1. e = [s EXCEPT !.phase = "agg"] \/ e = [s EXCEPT !.parts = parts, !.batches[b] = <<>>, !.bucketed = b + 1]
    BY DEF stepBucket
  <2> QED BY <2>1
<1>3. ASSUME NEW parts, NEW b, e = [s EXCEPT !.parts = parts, !.batches[b] = <<>>, !.bucketed = b + 1]
      PROVE  Moved(s, e, "bucket")
  <2>1. DOMAIN e = Columns /\ e.phase = s.phase /\ e.scope = s.scope
    BY <1>1, <1>3 DEF Columns
  <2>2. e.raw = s.raw /\ e.canonical = s.canonical /\ e.tags = s.tags /\ e.blobs = s.blobs
    BY <1>1, <1>3 DEF Columns
  <2>3. e.partition = s.partition /\ e.rewinds = s.rewinds /\ e.tries = s.tries
    BY <1>1, <1>3 DEF Columns
  <2> QED BY <2>1, <2>2, <2>3 DEF Moved, Counted, Kept
<1>4. CASE e = [s EXCEPT !.phase = "agg"]
  <2>1. Moved(s, e, "agg")
    BY <1>1, <1>4 DEF Moved, Counted, Kept, Columns
  <2> QED BY <2>1, MovedLate, LatePhases DEF WasmPhases
<1> QED BY <1>2, <1>3, <1>4, MovedLate, LatePhases

LEMMA PlacementData ==
    ASSUME NEW s, NEW n, Data(s, n), NEW e \in stepPlacement(s)
    PROVE  Data(e, n)
<1>1. Moved(s, e, "manifest")
  BY DEF stepPlacement, Moved, Counted, Kept, Columns, Data, Cursors
<1> QED BY <1>1, MovedLate, LatePhases

LEMMA ManifestData ==
    ASSUME NEW s, NEW n, Data(s, n), NEW e \in stepManifest(s)
    PROVE  Data(e, n)
<1>1. /\ Kept(s, e) /\ e.phase = "notify" /\ e.partition = s.partition /\ e.rewinds = s.rewinds
      /\ e.scope = s.scope /\ e.tries = 0
  BY DEF stepManifest, Kept, Columns, Data, Cursors
<1>2. Cursors(e)
  BY <1>1, LatePhases, Ceilings DEF Data, Cursors, Kept
<1> QED BY <1>1, <1>2, Late, LatePhases DEF Data, TagsSound, Kept, InScope

LEMMA NotifyData ==
    ASSUME NEW s, NEW n, Data(s, n), NEW e \in stepNotify(s)
    PROVE  Data(e, n)
<1>1. /\ Kept(s, e) /\ e.phase = "rulings" /\ e.partition = s.partition /\ e.rewinds = s.rewinds
      /\ e.scope = s.scope /\ e.tries = 0
  BY DEF stepNotify, Kept, Columns, Data, Cursors
<1>2. Cursors(e)
  BY <1>1, LatePhases DEF Data, Cursors, Kept
<1> QED BY <1>1, <1>2, Late, LatePhases DEF Data, TagsSound, Kept, InScope

LEMMA RulingsData ==
    ASSUME NEW s, NEW n, Data(s, n), NEW e \in stepRulings(s)
    PROVE  Data(e, n)
<1>1. Moved(s, e, "reference")
  BY DEF stepRulings, Moved, Counted, Kept, Columns, Data, Cursors
<1> QED BY <1>1, MovedLate, LatePhases

LEMMA ReferenceData ==
    ASSUME NEW s, NEW n, Data(s, n), NEW e \in stepReference(s)
    PROVE  Data(e, n)
<1>1. Moved(s, e, "purge")
  BY DEF stepReference, Moved, Counted, Kept, Columns, Data, Cursors
<1> QED BY <1>1, MovedLate, LatePhases

LEMMA PurgeData ==
    ASSUME NEW s, NEW n, Data(s, n), NEW e \in stepPurge(s)
    PROVE  Data(e, n)
<1>1. Moved(s, e, "idle")
  BY DEF stepPurge, Moved, Counted, Kept, Columns, Data, Cursors
<1> QED BY <1>1, MovedLate, LatePhases

-----------------------------------------------------------------------------
(* The phases up to the routing filter.                                    *)

(* What the phases of the dumps leave alone of each other's tables.        *)
SameFetch(s, e) == e.files = s.files /\ e.blobs = s.blobs /\ e.tags = s.tags
SameLines(s, e) == e.batches = s.batches /\ e.pending = s.pending /\ e.raw = s.raw
SameKeys(s, e) == e.scored = s.scored /\ e.routing = s.routing

LEMMA ListingData ==
    ASSUME NEW s, NEW n, Data(s, n), NEW e \in stepListing(s), s.phase = "listing"
    PROVE  Data(e, n)
<1>1. DOMAIN s = Columns
  BY DEF Data, Cursors
<1>2. CASE e = [s EXCEPT !.waits = @ + 1]
  <2>1. Untouched(s, e)
    BY <1>1, <1>2 DEF Untouched, Counted, Kept, Columns
  <2> QED BY <2>1, SameData
<1>3. CASE e = [s EXCEPT !.files = Fresh.files, !.phase = "is_lists"]
  <2>1. /\ Moved(s, e, "is_lists") /\ SameLines(s, e) /\ SameKeys(s, e)
        /\ e.files = [k \in Kinds |-> [got |-> 0, etag |-> 0, done |-> FALSE]]
    BY <1>1, <1>3 DEF Moved, Counted, Kept, SameLines, SameKeys, Columns, Fresh
  <2>2. Cursors(e)
    BY <2>1 DEF Data, Cursors, Moved, Counted, Kept, Phases
  <2>3. TagsSound(e)
    <3>1. e.files \in [Kinds -> File]
      BY <2>1, Sizes DEF File
    <3>2. StagedSound(e.files["tags"], e.blobs["tags"])
      <4>1. e.blobs["tags"] = <<>>
        BY <2>1 DEF Data, TagsSound, Moved, Counted, Kept
      <4>2. e.files["tags"] = [got |-> 0, etag |-> 0, done |-> FALSE]
        BY <2>1 DEF Kinds
      <4>3. Bytes(0, 0) = <<>>
        BY DEF Bytes
      <4> QED BY <4>1, <4>2, <4>3 DEF StagedSound
    <3> QED BY <2>1, <3>1, <3>2 DEF Data, TagsSound, Moved, Counted, Kept, AfterTags
  <2>4. FilterSound(e, n)
    BY <2>1 DEF Data, FilterSound, SameLines, SameKeys, Moved, BeforeLines, InScope, Unread
  <2> QED BY <2>2, <2>3, <2>4 DEF Data
<1> QED BY <1>2, <1>3 DEF stepListing

LEMMA IsListsData ==
    ASSUME NEW s, NEW n, Data(s, n), NEW a, NEW e \in stepIsLists(s, a), s.phase = "is_lists"
    PROVE  Data(e, n)
<1>1. DOMAIN s = Columns
  BY DEF Data, Cursors
<1>2. CASE e = [s EXCEPT !.work = 1]
  <2>1. Untouched(s, e)
    BY <1>1, <1>2 DEF Untouched, Counted, Kept, Columns
  <2> QED BY <2>1, SameData
<1>3. CASE e = [s EXCEPT !.work = 0, !.phase = "fetch:tags"]
  <2>1. /\ Moved(s, e, "fetch:tags") /\ SameFetch(s, e) /\ SameLines(s, e) /\ SameKeys(s, e)
    BY <1>1, <1>3 DEF Moved, Counted, Kept, SameFetch, SameLines, SameKeys, Columns
  <2>2. Cursors(e)
    BY <2>1 DEF Data, Cursors, Moved, Counted, Kept, Phases
  <2>3. TagsSound(e)
    BY <2>1 DEF Data, TagsSound, Moved, SameFetch, Fetching, AfterTags
  <2>4. FilterSound(e, n)
    BY <2>1 DEF Data, FilterSound, SameLines, SameKeys, Moved, BeforeLines, InScope, Unread
  <2> QED BY <2>2, <2>3, <2>4 DEF Data
<1> QED BY <1>2, <1>3 DEF stepIsLists

(* A step from one early phase to the next that moves neither the staged   *)
(* dumps nor the drafts, or moves the dumps only.                          *)
LEMMA FetchMoves ==
    ASSUME NEW s, NEW n, Data(s, n), NEW e, s.phase \in {"fetch:tags", "fetch:rulings"},
           DOMAIN e = Columns, SameLines(s, e), SameKeys(s, e), e.tags = s.tags,
           e.canonical = s.canonical, e.partition = s.partition, e.rewinds = s.rewinds, e.tries = s.tries,
           e.scope = s.scope,
           e.phase \in {"fetch:tags", "fetch:rulings", "canonical"}, TagsSound(e)
    PROVE  Data(e, n)
<1>1. Cursors(e)
  BY DEF Data, Cursors, SameLines, Phases
<1>2. FilterSound(e, n)
  BY DEF Data, FilterSound, SameLines, SameKeys, BeforeLines, InScope, Unread
<1> QED BY <1>1, <1>2 DEF Data

(* A ranged request appends the bytes that follow the staged ones, from    *)
(* the version of the staged ones.                                         *)
LEMMA Appended ==
    ASSUME NEW v \in Versions, NEW m \in Nat, NEW k \in Nat, m <= k
    PROVE  Bytes(v, m) \o [i \in 1..k - m |-> <<v, m + i>>] = Bytes(v, k)
  BY DEF Bytes

LEMMA WholeBlobs ==
    ASSUME NEW got \in 0..FileBytes
    PROVE  LET to == IF got + FETCH_SLICE_BYTES < FileBytes THEN got + FETCH_SLICE_BYTES ELSE FileBytes
               kept == IF to = FileBytes THEN to ELSE to - ((to - got) % STAGE_BLOB_BYTES)
           IN  kept \in got..FileBytes /\ (to = FileBytes => kept = FileBytes)
<1> DEFINE to == IF got + FETCH_SLICE_BYTES < FileBytes THEN got + FETCH_SLICE_BYTES ELSE FileBytes
<1>1. to \in Nat /\ got \in Nat /\ got <= to /\ to <= FileBytes
  BY Sizes
<1> HIDE DEF to
<1>2. \A x \in Nat: x % STAGE_BLOB_BYTES \in 0..x
  <2> TAKE x \in Nat
  <2>1. x % STAGE_BLOB_BYTES \in 0..STAGE_BLOB_BYTES - 1
    BY Sizes
  <2>2. x < STAGE_BLOB_BYTES => x % STAGE_BLOB_BYTES = x
    BY Sizes
  <2> QED BY <2>1, <2>2, Sizes
<1>3. to - got \in Nat
  BY <1>1
<1>4. (to - got) % STAGE_BLOB_BYTES \in 0..to - got
  BY <1>2, <1>3
<1>5. to - ((to - got) % STAGE_BLOB_BYTES) \in got..FileBytes
  BY <1>1, <1>4, Sizes
<1>6. (IF to = FileBytes THEN to ELSE to - ((to - got) % STAGE_BLOB_BYTES)) \in got..FileBytes
  BY <1>1, <1>5, Sizes
<1> QED BY <1>6 DEF to

LEMMA FetchData ==
    ASSUME NEW s, NEW n, Data(s, n), upstream \in Versions, NEW kind \in Kinds,
           s.phase = IF kind = "tags" THEN "fetch:tags" ELSE "fetch:rulings",
           NEW e \in stepFetch(s, kind)
    PROVE  Data(e, n)
<1> DEFINE f == s.files[kind]
           to == IF f.got + FETCH_SLICE_BYTES < FileBytes THEN f.got + FETCH_SLICE_BYTES ELSE FileBytes
           done == to = FileBytes
           kept == IF done THEN to ELSE to - ((to - f.got) % STAGE_BLOB_BYTES)
           next == IF kind = "tags" THEN "fetch:rulings" ELSE "canonical"
           more == [i \in 1..kept - f.got |-> <<upstream, f.got + i>>]
           g == [got |-> kept, etag |-> upstream, done |-> done]
<1>1. DOMAIN s = Columns /\ s.phase \in Fetching
  BY DEF Data, Cursors, Fetching, AfterTags, Kinds
<1>2. /\ s.files \in [Kinds -> File] /\ DOMAIN s.blobs = Kinds /\ f \in File
      /\ StagedSound(s.files["tags"], s.blobs["tags"]) /\ Whole(s.tags)
      /\ kind # "tags" => s.files["tags"].done
  BY <1>1 DEF Data, TagsSound, Kinds, AfterTags
<1>3. kept \in f.got..FileBytes /\ (done => kept = FileBytes) /\ f.got \in 0..FileBytes
  BY <1>2, WholeBlobs DEF File
<1>4. g \in File
  BY <1>3, Sizes DEF File
<1>5. Fresh.files[kind] = [got |-> 0, etag |-> 0, done |-> FALSE] /\ Fresh.files[kind] \in File
  BY Sizes DEF Fresh, File
<1>6. \/ f.done /\ e = [s EXCEPT !.phase = next]
      \/ e = [s EXCEPT !.blobs[kind] = <<>>, !.files[kind] = Fresh.files[kind]]
      \/ /\ ~f.done /\ f.etag \in {0, upstream}
         /\ e = [s EXCEPT !.blobs[kind] = @ \o more, !.files[kind] = g,
                          !.phase = IF done THEN next ELSE @]
  BY DEF stepFetch, phaseAfterFetch
<1>7. CASE f.done /\ e = [s EXCEPT !.phase = next]
  <2>1. /\ DOMAIN e = Columns /\ SameLines(s, e) /\ SameKeys(s, e) /\ SameFetch(s, e)
        /\ e.canonical = s.canonical /\ e.partition = s.partition /\ e.rewinds = s.rewinds
        /\ e.tries = s.tries /\ e.scope = s.scope /\ e.phase = next
    BY <1>1, <1>7 DEF SameLines, SameKeys, SameFetch, Columns
  <2>2. TagsSound(e)
    BY <1>2, <1>7, <2>1 DEF TagsSound, SameFetch, Fetching, AfterTags, Kinds
  <2> QED BY <2>1, <2>2, FetchMoves DEF SameFetch, Kinds
<1>8. ASSUME NEW blobs, NEW files, NEW phase, phase \in {s.phase, next},
             e = [s EXCEPT !.blobs = blobs, !.files = files, !.phase = phase],
             DOMAIN blobs = Kinds, files \in [Kinds -> File], StagedSound(files["tags"], blobs["tags"]),
             phase # "fetch:tags" => files["tags"].done
      PROVE  Data(e, n)
  <2>1. /\ DOMAIN e = Columns /\ SameLines(s, e) /\ SameKeys(s, e) /\ e.tags = s.tags
        /\ e.canonical = s.canonical /\ e.partition = s.partition /\ e.rewinds = s.rewinds
        /\ e.tries = s.tries /\ e.scope = s.scope
        /\ e.phase = phase /\ e.blobs = blobs /\ e.files = files
    BY <1>1, <1>8 DEF SameLines, SameKeys, Columns
  <2>2. phase \in {"fetch:tags", "fetch:rulings", "canonical"}
    BY <1>8 DEF Kinds
  <2>3. TagsSound(e)
    BY <1>2, <1>8, <2>1, <2>2 DEF TagsSound, AfterTags
  <2> QED BY <2>1, <2>2, <2>3, FetchMoves DEF Kinds
<1>9. CASE e = [s EXCEPT !.blobs[kind] = <<>>, !.files[kind] = Fresh.files[kind]]
  <2> DEFINE blobs == [s.blobs EXCEPT ![kind] = <<>>]
             files == [s.files EXCEPT ![kind] = Fresh.files[kind]]
  <2>1. e = [s EXCEPT !.blobs = blobs, !.files = files, !.phase = s.phase]
    BY <1>1, <1>9 DEF Columns
  <2>2. DOMAIN blobs = Kinds /\ files \in [Kinds -> File]
    BY <1>2, <1>5
  <2>3. kind = "tags" => files["tags"] = [got |-> 0, etag |-> 0, done |-> FALSE] /\ blobs["tags"] = <<>>
    BY <1>2, <1>5
  <2>4. kind # "tags" => files["tags"] = s.files["tags"] /\ blobs["tags"] = s.blobs["tags"]
    BY <1>2
  <2>5. StagedSound(files["tags"], blobs["tags"])
    <3>1. Bytes(0, 0) = <<>>
      BY DEF Bytes
    <3> HIDE DEF files, blobs
    <3> QED BY <2>3, <2>4, <1>2, <3>1 DEF StagedSound
  <2> HIDE DEF files, blobs
  <2> QED BY <2>1, <2>2, <2>4, <2>5, <1>8, <1>2 DEF Kinds
<1>10. CASE /\ ~f.done /\ f.etag \in {0, upstream}
            /\ e = [s EXCEPT !.blobs[kind] = @ \o more, !.files[kind] = g,
                             !.phase = IF done THEN next ELSE @]
  <2> DEFINE blobs == [s.blobs EXCEPT ![kind] = @ \o more]
             files == [s.files EXCEPT ![kind] = g]
             phase == IF done THEN next ELSE s.phase
  <2>1. e = [s EXCEPT !.blobs = blobs, !.files = files, !.phase = phase]
    <3> HIDE DEF more, g, done, next
    <3> QED BY <1>1, <1>10 DEF Columns
  <2>2. DOMAIN blobs = Kinds /\ files \in [Kinds -> File]
    <3> HIDE DEF more, g
    <3> QED BY <1>2, <1>4
  <2>3. kind = "tags" => files["tags"] = g /\ blobs["tags"] = s.blobs["tags"] \o more
    <3> HIDE DEF more, g
    <3> QED BY <1>2
  <2>4. kind # "tags" => files["tags"] = s.files["tags"] /\ blobs["tags"] = s.blobs["tags"]
    <3> HIDE DEF more, g
    <3> QED BY <1>2
  <2>5. kind = "tags" => s.blobs["tags"] \o more = Bytes(upstream, kept)
    <3> HAVE kind = "tags"
    <3>1. f.got \in Nat /\ kept \in Nat /\ f.got <= kept
      BY <1>3, Sizes
    <3>2. s.blobs["tags"] = Bytes(f.etag, f.got) /\ (f.etag = 0 => f.got = 0)
      BY <1>2 DEF StagedSound
    <3>3. Bytes(f.etag, f.got) = Bytes(upstream, f.got)
      BY <1>10, <3>2 DEF Bytes
    <3>4. \A m, k \in Nat: m <= k =>
            Bytes(upstream, m) \o [i \in 1..k - m |-> <<upstream, m + i>>] = Bytes(upstream, k)
      BY Appended
    <3>5. s.blobs["tags"] = Bytes(upstream, f.got)
      BY <3>2, <3>3
    <3> HIDE DEF kept, f
    <3>6. Bytes(upstream, f.got) \o more = Bytes(upstream, kept)
      BY <3>1, <3>4
    <3> QED BY <3>5, <3>6
  <2>6. StagedSound(files["tags"], blobs["tags"])
    <3>1. g.etag = upstream /\ g.got = kept /\ g.done = done /\ upstream # 0
      BY DEF Versions
    <3> HIDE DEF files, blobs, g, kept, more, done
    <3> QED BY <2>3, <2>4, <2>5, <1>2, <1>3, <3>1 DEF StagedSound
  <2>7. phase # "fetch:tags" => files["tags"].done
    <3>1. g.done = done
      OBVIOUS
    <3> HIDE DEF files, g, done
    <3> QED BY <2>3, <2>4, <1>2, <3>1
  <2> HIDE DEF files, blobs, done, next
  <2> QED BY <2>1, <2>2, <2>6, <2>7, <1>8
<1> HIDE DEF f, more, g, done, next
<1> QED BY <1>6, <1>7, <1>9, <1>10

LEMMA ConsumedLines ==
    ASSUME NEW cursor \in 0..Lines, NEW slice \in Nat \ {0}
    PROVE  /\ Consumed(cursor, slice) \in cursor..Lines
           /\ Exhausted(cursor, slice) => Consumed(cursor, slice) = Lines
  BY Sizes DEF Consumed, Exhausted

LEMMA NothingRead ==
    ASSUME NEW s, NEW n, Unread(s)
    PROVE  Packed(s, n, 0)
<1>1. FirstRows(s, 0)
  BY DEF Unread, FirstRows, Empty, Batches
<1>2. s.pending = <<>> /\ s.pending \in Seq(Corpus(n, Lines)) /\ Len(s.pending) = 0 /\ Range(s.pending) = {}
  BY DEF Unread, Range
<1>3. InBatches(s) = {}
  BY DEF Unread, InBatches, Empty, Range
<1>4. Corpus(n, 0) = {}
  BY DEF Corpus
<1>5. s.raw = 0 * DRAFT_BATCH + Len(s.pending)
  BY <1>2, Sizes DEF Unread
<1>6. s.raw = 0
  BY DEF Unread
<1> QED BY <1>1, <1>2, <1>3, <1>4, <1>5, <1>6 DEF Packed

LEMMA CanonicalData ==
    ASSUME NEW s, NEW n, Data(s, n), NEW e \in stepCanonical(s, n), s.phase = "canonical"
    PROVE  Data(e, n)
<1> DEFINE cursor == Consumed(s.canonical, CANONICAL_SLICE_LINES)
           exhausted == Exhausted(s.canonical, CANONICAL_SLICE_LINES)
<1>1. DOMAIN s = Columns /\ cursor \in 0..Lines
  BY Sizes, ConsumedLines DEF Data, Cursors
<1>2. PICK ids, checkpoint :
        e = [s EXCEPT !.tagdata = ids, !.canonical = cursor, !.checkpoint = checkpoint,
                      !.phase = IF exhausted THEN "transform" ELSE @]
  <2> DEFINE ids == {Draft(n, i) : i \in s.canonical + 1..cursor} \cup (IF s.canonical = 0 THEN {} ELSE s.tagdata)
             checkpoint == persistStreamCheckpoint(s, s.canonical, cursor, exhausted)
  <2>1. e = [s EXCEPT !.tagdata = ids, !.canonical = cursor, !.checkpoint = checkpoint,
                      !.phase = IF exhausted THEN "transform" ELSE @]
    BY DEF stepCanonical
  <2> QED BY <2>1
<1> HIDE DEF cursor, exhausted
<1>3. /\ DOMAIN e = Columns /\ SameFetch(s, e) /\ SameLines(s, e) /\ SameKeys(s, e)
      /\ e.phase \in {"canonical", "transform"}
  BY <1>1, <1>2 DEF SameFetch, SameLines, SameKeys, Columns
<1>4. /\ e.canonical = cursor /\ e.partition = s.partition /\ e.rewinds = s.rewinds
      /\ e.tries = s.tries /\ e.scope = s.scope
  BY <1>1, <1>2 DEF Columns
<1>5. Cursors(e)
  BY <1>1, <1>3, <1>4 DEF Data, Cursors, SameLines, Phases
<1>6. TagsSound(e)
  BY <1>3 DEF Data, TagsSound, SameFetch, Fetching, AfterTags
<1>7. Unread(s) /\ Unread(e)
  BY <1>3 DEF Data, FilterSound, BeforeLines, Unread, SameLines
<1>8. Packed(e, n, 0)
  BY <1>7, NothingRead
<1>9. FilterSound(e, n)
  BY <1>3, <1>7, <1>8 DEF Data, FilterSound, BeforeLines, SameKeys, InScope
<1> QED BY <1>5, <1>6, <1>9 DEF Data

(* The tag maps are taken from the staged dump when it is whole; the       *)
(* batches wait behind the purge of the dumps for their scores.            *)
LEMMA TagsData ==
    ASSUME NEW s, NEW n, Data(s, n), NEW e \in stepTags(s), s.phase = "tags"
    PROVE  Data(e, n)
<1> DEFINE t == [s EXCEPT !.tags = s.blobs["tags"], !.linked = FALSE, !.wasm = NoWasm,
                          !.scored = 0, !.partition = 0, !.recs = Fresh.recs]
<1>1. DOMAIN s = Columns
  BY DEF Data, Cursors
<1>2. e = beginPurge(t, "blobs", "scores")
  BY DEF stepTags
<1>3. /\ DOMAIN t = Columns /\ SameLines(s, t) /\ t.tags = s.blobs["tags"] /\ t.blobs = s.blobs
      /\ t.canonical = s.canonical /\ t.partition = 0 /\ t.rewinds = s.rewinds /\ t.tries = s.tries
  BY <1>1 DEF SameLines, Columns
<1>4. t.scored = 0 /\ t.routing = s.routing
  BY <1>1 DEF Columns
<1> HIDE DEF t
<1>5. /\ DOMAIN e = Columns /\ SameLines(t, e) /\ SameFetch(t, e) /\ SameKeys(t, e)
      /\ e.canonical = t.canonical /\ e.partition = 0 /\ e.rewinds = t.rewinds /\ e.tries = t.tries
      /\ e.phase = "purge_staging" /\ e.scope = "blobs" /\ e.next = "scores"
  BY <1>2, <1>3 DEF beginPurge, SameLines, SameFetch, SameKeys, Columns
<1>6. Cursors(e)
  BY <1>3, <1>5, Sizes DEF Data, Cursors, SameLines, Phases, Scopes, Partitions
<1>7. TagsSound(e)
  <2>1. LET f == s.files["tags"]
        IN  s.blobs["tags"] = Bytes(f.etag, f.got) /\ f.got = FileBytes /\ f.etag # 0
            /\ f.etag \in {0} \cup Versions
    BY DEF Data, TagsSound, StagedSound, Fetching, AfterTags, Kinds, File
  <2>2. Whole(e.tags)
    BY <2>1, <1>3, <1>5 DEF Whole, SameFetch
  <2> QED BY <2>2, <1>3, <1>5 DEF Data, TagsSound, SameFetch, Fetching, AfterTags
<1>8. Drafted(s, n) /\ s.routing = Empty
  BY DEF Data, FilterSound
<1>9. Drafted(e, n)
  BY <1>8, <1>3, <1>5 DEF Drafted, InBatches, FirstRows, SameLines
<1>10. e.routing = [b \in Batches |-> IF b < e.scored THEN e.batches[b] ELSE <<>>]
  BY <1>3, <1>4, <1>5, <1>8 DEF SameKeys, Empty, Batches
<1>11. FilterSound(e, n)
  BY <1>4, <1>5, <1>9, <1>10 DEF FilterSound, BeforeLines, SameKeys, InScope
<1> QED BY <1>6, <1>7, <1>11 DEF Data

LEMMA BatchNumbers ==
    /\ Batches \subseteq Nat
    /\ \A b, c \in Nat: c \in Batches /\ b <= c => b \in Batches
<1>1. Lines \div DRAFT_BATCH \in Nat
  BY Sizes
<1> QED BY <1>1 DEF Batches

LEMMA ScoresData ==
    ASSUME NEW s, NEW n, Data(s, n), NEW e \in stepScores(s), s.phase = "scores"
    PROVE  Data(e, n)
<1> DEFINE row == s.scored \in Batches /\ s.batches[s.scored] # <<>>
           keys == [s.routing EXCEPT ![s.scored] = s.batches[s.scored]]
<1>1. DOMAIN s = Columns
  BY DEF Data, Cursors
<1>2. /\ Drafted(s, n) /\ s.scored \in Nat
      /\ s.routing = [b \in Batches |-> IF b < s.scored THEN s.batches[b] ELSE <<>>]
  BY DEF Data, FilterSound
<1>3. \/ ~row /\ e = [s EXCEPT !.phase = "routing", !.linked = FALSE, !.wasm = NoWasm]
      \/ row /\ \E corpus : e = [s EXCEPT !.corpus = corpus, !.scored = @ + 1, !.routing[s.scored] = s.batches[s.scored],
                                          !.linked = FALSE, !.wasm = NoWasm]
  <2> DEFINE corpus == Range(s.batches[s.scored]) \cup (IF s.scored = 0 THEN {} ELSE s.corpus)
  <2>1. \/ ~row /\ e = [s EXCEPT !.phase = "routing", !.linked = FALSE, !.wasm = NoWasm]
        \/ row /\ e = [s EXCEPT !.corpus = corpus, !.scored = @ + 1, !.routing[s.scored] = s.batches[s.scored],
                                !.linked = FALSE, !.wasm = NoWasm]
    BY DEF stepScores
  <2> QED BY <2>1
<1>4. CASE ~row /\ e = [s EXCEPT !.phase = "routing", !.linked = FALSE, !.wasm = NoWasm]
  <2>1. Counted(s, e) /\ SameLines(s, e) /\ SameKeys(s, e) /\ e.phase = "routing" /\ e.scope = s.scope
    BY <1>1, <1>4 DEF Counted, Kept, SameLines, SameKeys, Columns
  <2>2. Cursors(e)
    BY <2>1 DEF Data, Cursors, Counted, Kept, Phases
  <2>3. TagsSound(e)
    BY <2>1 DEF Data, TagsSound, Counted, Kept, Fetching, AfterTags
  <2>4. \A b \in Batches: s.routing[b] = s.batches[b]
    <3>1. PICK F \in Nat : FirstRows(s, F)
      BY <1>2 DEF Drafted
    <3>2. s.scored \in Batches => s.scored >= F
      BY <1>2, <1>4, <3>1 DEF FirstRows
    <3>3. Batches \subseteq Nat /\ \A b, c \in Nat: c \in Batches /\ b <= c => b \in Batches
      BY BatchNumbers
    <3>4. \A b \in Batches: b >= s.scored => b >= F
      BY <3>1, <3>2, <3>3, <1>2
    <3> QED BY <3>1, <3>3, <3>4, <1>2 DEF FirstRows
  <2>5. RoutingKeys(s) = InBatches(s)
    BY <2>4 DEF RoutingKeys, InBatches
  <2>6. RoutingKeys(e) = Corpus(n, Lines)
    BY <2>1, <2>5, <1>2 DEF Drafted, RoutingKeys, SameKeys
  <2>7. FilterSound(e, n)
    BY <2>1, <2>6 DEF FilterSound, BeforeLines, InScope
  <2> QED BY <2>2, <2>3, <2>7 DEF Data
<1>5. ASSUME NEW corpus, row,
             e = [s EXCEPT !.corpus = corpus, !.scored = @ + 1, !.routing[s.scored] = s.batches[s.scored],
                           !.linked = FALSE, !.wasm = NoWasm]
      PROVE  Data(e, n)
  <2>1. Counted(s, e)
    BY <1>1, <1>5 DEF Counted, Kept, Columns
  <2>2. SameLines(s, e) /\ e.phase = "scores" /\ e.scope = s.scope
    BY <1>1, <1>5 DEF SameLines, Columns
  <2>3. e.scored = s.scored + 1 /\ e.routing = keys
    BY <1>1, <1>5 DEF Columns
  <2>4. Cursors(e)
    BY <2>1, <2>2 DEF Data, Cursors, Counted, Kept, Phases
  <2>5. TagsSound(e)
    BY <2>1, <2>2 DEF Data, TagsSound, Counted, Kept, Fetching, AfterTags
  <2>6. e.routing = [b \in Batches |-> IF b < e.scored THEN e.batches[b] ELSE <<>>]
    <3>1. keys = [b \in Batches |-> IF b = s.scored THEN s.batches[b] ELSE s.routing[b]]
      BY <1>2
    <3>2. \A b \in Batches: keys[b] = IF b < s.scored + 1 THEN s.batches[b] ELSE <<>>
      BY <3>1, <1>2, BatchNumbers
    <3> QED BY <2>2, <2>3, <3>1, <3>2 DEF SameLines
  <2>7. Drafted(e, n)
    BY <1>2, <2>2 DEF Drafted, InBatches, FirstRows, SameLines
  <2>8. FilterSound(e, n)
    BY <1>2, <2>2, <2>3, <2>6, <2>7 DEF FilterSound, BeforeLines, InScope
  <2> QED BY <2>4, <2>5, <2>8 DEF Data
<1> HIDE DEF row
<1> QED BY <1>3, <1>4, <1>5

(* Arithmetic of the groups.                                               *)
LEMMA Division ==
    ASSUME NEW x \in Nat, NEW q \in Nat \ {0}
    PROVE  x \div q \in Nat /\ (x \div q) * q <= x /\ x < (x \div q) * q + q
  OBVIOUS

LEMMA Multiples ==
    ASSUME NEW a \in Int, NEW b \in Int, NEW q \in Nat \ {0}
    PROVE  /\ a <= b => a * q <= b * q
           /\ a * q <= b * q => a <= b
           /\ (a + 1) * q = a * q + q /\ (a - 1) * q = a * q - q /\ a * q \in Int
           /\ (a + b) * q = a * q + b * q
  OBVIOUS

(* Where a position falls among groups of q.                               *)
LEMMA GroupOf ==
    ASSUME NEW len \in Nat, NEW q \in Nat \ {0}, NEW j \in 1..len
    PROVE  \E g \in 1..(len + q - 1) \div q : (g - 1) * q < j /\ j <= g * q
<1> DEFINE h == (j - 1) \div q
           K == (len + q - 1) \div q
<1>1. h \in Nat /\ h * q <= j - 1 /\ j - 1 < h * q + q
  BY Division
<1>2. K \in Nat /\ len + q - 1 < K * q + q
  BY Division
<1> HIDE DEF h, K
<1>3. (h + 1) * q = h * q + q /\ (K + 1) * q = K * q + q /\ h * q \in Int /\ K * q \in Int
  BY <1>1, <1>2, Multiples
<1>4. h * q < K * q
  BY <1>1, <1>2, <1>3
<1>5. h < K
  BY <1>1, <1>2, <1>4, Multiples
<1>6. h + 1 \in 1..K /\ ((h + 1) - 1) * q < j /\ j <= (h + 1) * q
  BY <1>1, <1>2, <1>3, <1>5
<1> QED BY <1>6 DEF K

(* The groups of a sequence of drafts are full but for the last, none is   *)
(* empty, and together they hold exactly its drafts.                       *)
LEMMA Groups ==
    ASSUME NEW S, NEW all \in Seq(S)
    PROVE  LET groups == packedDraftGroups(all)
               K == Len(groups)
           IN  /\ K \in Nat /\ groups \in [1..K -> Seq(S)]
               /\ K = 0 => Len(all) = 0
               /\ K > 0 => (K - 1) * DRAFT_BATCH < Len(all) /\ Len(all) <= K * DRAFT_BATCH
               /\ \A g \in 1..K: groups[g] # <<>>
               /\ K > 0 => Len(groups[K]) = Len(all) - (K - 1) * DRAFT_BATCH
               /\ UNION {Range(groups[g]) : g \in 1..K} = Range(all)
<1> DEFINE K == (Len(all) + DRAFT_BATCH - 1) \div DRAFT_BATCH
           q == DRAFT_BATCH
           L == Len(all)
           low(g) == (g - 1) * q
           high(g) == IF g * q < L THEN g * q ELSE L
           groups == packedDraftGroups(all)
<1>1. q \in Nat \ {0} /\ L \in Nat
  BY Sizes
<1>2. L + q - 1 \in Nat
  BY <1>1
<1>3. K \in Nat /\ K * q <= L + q - 1 /\ L + q - 1 < K * q + q
  BY <1>1, <1>2, Division
<1>4. groups = [g \in 1..K |-> SubSeq(all, low(g) + 1, high(g))]
  BY DEF packedDraftGroups
<1> HIDE DEF K, q, L, groups
<1>5. Len(groups) = K
  BY <1>3, <1>4
<1>6. ASSUME NEW g \in 1..K
      PROVE  /\ low(g) \in Nat /\ high(g) \in Nat /\ low(g) < high(g) /\ high(g) <= L
             /\ g * q \in Int /\ high(g) <= g * q
  <2>1. g \in Int /\ K \in Int /\ g <= K /\ 0 <= g - 1 /\ g - 1 \in Int /\ 0 \in Int
    BY <1>3
  <2>2. g * q <= K * q /\ (g - 1) * q = g * q - q /\ g * q \in Int /\ 0 * q <= (g - 1) * q
    BY <2>1, <1>1, <1>3, Multiples
  <2>3. 0 * q = 0
    BY <1>1
  <2> QED BY <2>1, <2>2, <2>3, <1>1, <1>3
<1>7. ASSUME NEW g \in 1..K
      PROVE  /\ groups[g] = SubSeq(all, low(g) + 1, high(g))
             /\ groups[g] \in Seq(S) /\ Len(groups[g]) = high(g) - low(g) /\ groups[g] # <<>>
             /\ \A i \in 1..high(g) - low(g): groups[g][i] = all[low(g) + i]
  <2>1. groups[g] = SubSeq(all, low(g) + 1, high(g))
    BY <1>4, <1>7
  <2>2. low(g) \in Nat /\ high(g) \in Nat /\ low(g) < high(g) /\ high(g) <= Len(all)
    BY <1>6, <1>7 DEF L
  <2> HIDE DEF low, high
  <2>3. low(g) + 1 \in 1..Len(all) /\ high(g) \in 1..Len(all)
    BY <2>2
  <2>4. SubSeq(all, low(g) + 1, high(g)) \in Seq(S)
    BY <2>3
  <2>5. Len(SubSeq(all, low(g) + 1, high(g))) = high(g) - low(g)
    BY <2>2, <2>3
  <2>6. \A i \in 1..high(g) - low(g): SubSeq(all, low(g) + 1, high(g))[i] = all[low(g) + i]
    BY <2>2, <2>3
  <2>7. Len(groups[g]) = high(g) - low(g)
    BY <2>1, <2>5
  <2>8. groups[g] # <<>>
    BY <2>2, <2>7
  <2>9. \A i \in 1..high(g) - low(g): groups[g][i] = all[low(g) + i]
    BY <2>1, <2>6
  <2> QED BY <2>1, <2>4, <2>7, <2>8, <2>9
<1>8. groups \in [1..K -> Seq(S)]
  BY <1>4, <1>7
<1>9. K = 0 => L = 0
  BY <1>1, <1>3
<1>10. K > 0 => low(K) < L /\ L <= K * q /\ Len(groups[K]) = L - low(K)
  <2> HAVE K > 0
  <2>1. K \in 1..K
    BY <1>3
  <2>2. L <= K * q /\ K * q \in Int
    BY <2>1, <1>1, <1>3, <1>6
  <2>3. high(K) = L
    BY <2>2, <1>1
  <2> QED BY <2>1, <2>2, <2>3, <1>6, <1>7
<1>11. UNION {Range(groups[g]) : g \in 1..K} \subseteq Range(all)
  <2> SUFFICES ASSUME NEW g \in 1..K, NEW x \in Range(groups[g])
               PROVE  x \in Range(all)
    OBVIOUS
  <2> DEFINE i == CHOOSE i \in DOMAIN groups[g] : x = groups[g][i]
  <2>1. i \in DOMAIN groups[g] /\ x = groups[g][i]
    BY DEF Range
  <2> HIDE DEF i
  <2>2. DOMAIN groups[g] = 1..high(g) - low(g)
    BY <1>7
  <2>3. low(g) + i \in 1..Len(all) /\ x = all[low(g) + i]
    BY <2>1, <2>2, <1>6, <1>7 DEF L
  <2> QED BY <2>3 DEF Range
<1>12. Range(all) \subseteq UNION {Range(groups[g]) : g \in 1..K}
  <2> SUFFICES ASSUME NEW x \in Range(all)
               PROVE  \E g \in 1..K: x \in Range(groups[g])
    OBVIOUS
  <2>1. PICK j \in 1..L : x = all[j]
    BY DEF Range, L
  <2>2. PICK g \in 1..K : (g - 1) * q < j /\ j <= g * q
    BY <1>1, GroupOf DEF K, L, q
  <2>3. low(g) \in Nat /\ high(g) \in Nat /\ g * q \in Int /\ low(g) < j /\ j <= high(g)
    BY <2>1, <2>2, <1>1, <1>6
  <2> HIDE DEF low, high
  <2>4. j - low(g) \in 1..high(g) - low(g) /\ low(g) + (j - low(g)) = j
    BY <2>1, <2>3
  <2>5. x = groups[g][j - low(g)] /\ j - low(g) \in DOMAIN groups[g]
    BY <2>1, <2>4, <1>7
  <2> QED BY <2>5 DEF Range
<1> QED BY <1>3, <1>5, <1>7, <1>8, <1>9, <1>10, <1>11, <1>12 DEF q, L, groups

(* The batches written so far are the first ones.                          *)
LEMMA WrittenRows ==
    ASSUME NEW s, NEW F \in Nat, FirstRows(s, F), F * DRAFT_BATCH <= Lines
    PROVE  Rows(s.batches) = F /\ \A b \in 0..F: b \in Batches
<1>1. F <= Lines \div DRAFT_BATCH
  <2>1. Lines \div DRAFT_BATCH \in Nat /\ Lines < (Lines \div DRAFT_BATCH) * DRAFT_BATCH + DRAFT_BATCH
    BY Sizes, Division
  <2> DEFINE D == Lines \div DRAFT_BATCH
  <2>2. (D + 1) * DRAFT_BATCH = D * DRAFT_BATCH + DRAFT_BATCH /\ D * DRAFT_BATCH \in Int
    BY <2>1, Sizes, Multiples
  <2>3. F * DRAFT_BATCH \in Int
    BY Sizes, Multiples
  <2> HIDE DEF D
  <2>4. ~((D + 1) * DRAFT_BATCH <= F * DRAFT_BATCH)
    BY <2>1, <2>2, <2>3, Sizes DEF D
  <2>5. ~(D + 1 <= F)
    BY <2>1, <2>4, Sizes, Multiples DEF D
  <2> QED BY <2>1, <2>5 DEF D
<1>2. \A b \in 0..F: b \in Batches
  BY <1>1, Sizes DEF Batches
<1>3. {b \in DOMAIN s.batches : s.batches[b] # <<>>} = 0..F - 1
  <2> DEFINE rows == {b \in DOMAIN s.batches : s.batches[b] # <<>>}
  <2>1. \A b \in Batches: s.batches[b] # <<>> <=> b < F
    BY DEF FirstRows
  <2>2. rows = {b \in Batches : b < F}
    BY <2>1 DEF FirstRows
  <2> HIDE DEF rows
  <2>3. rows = 0..F - 1
    <3>1. \A b : b \in rows => b \in 0..F - 1
      BY <2>2, BatchNumbers
    <3>2. \A b : b \in 0..F - 1 => b \in 0..F /\ b < F
      OBVIOUS
    <3>3. \A b : b \in 0..F - 1 => b \in rows
      BY <3>2, <2>2, <1>2
    <3> QED BY <3>1, <3>3
  <2> QED BY <2>3 DEF rows
<1>4. Cardinality(0..F - 1) = F
  BY FS_Interval
<1> QED BY <1>2, <1>3, <1>4 DEF Rows

LEMMA CorpusGrows ==
    ASSUME NEW n, NEW from \in 0..Lines, NEW to \in from..Lines
    PROVE  LET lines == [i \in 1..to - from |-> Draft(n, from + i)]
           IN  /\ lines \in Seq(Corpus(n, Lines)) /\ Len(lines) = to - from
               /\ Corpus(n, from) \cup Range(lines) = Corpus(n, to)
<1> DEFINE lines == [i \in 1..to - from |-> Draft(n, from + i)]
<1>1. \A i \in 1..to - from: from + i \in 1..Lines
  BY Sizes
<1>2. lines \in Seq(Corpus(n, Lines)) /\ Len(lines) = to - from
  <2>1. \A i \in 1..to - from: Draft(n, from + i) \in Corpus(n, Lines)
    BY <1>1 DEF Corpus
  <2>2. to - from \in Nat
    BY Sizes
  <2> QED BY <2>1, <2>2
<1>3. Range(lines) = {Draft(n, i) : i \in from + 1..to}
  <2>1. Range(lines) = {Draft(n, from + i) : i \in 1..to - from}
    BY <1>2 DEF Range
  <2>2. \A i \in 1..to - from: from + i \in from + 1..to
    BY Sizes
  <2>3. \A i \in from + 1..to: i - from \in 1..to - from /\ from + (i - from) = i
    BY Sizes
  <2>4. {Draft(n, from + i) : i \in 1..to - from} \subseteq {Draft(n, i) : i \in from + 1..to}
    BY <2>2
  <2>5. {Draft(n, i) : i \in from + 1..to} \subseteq {Draft(n, from + i) : i \in 1..to - from}
    BY <2>3
  <2> QED BY <2>1, <2>4, <2>5
<1>4. 1..to = (1..from) \cup (from + 1..to)
  BY Sizes
<1> QED BY <1>2, <1>3, <1>4 DEF Corpus

LEMMA Joined ==
    ASSUME NEW S, NEW a \in Seq(S), NEW b \in Seq(S)
    PROVE  a \o b \in Seq(S) /\ Len(a \o b) = Len(a) + Len(b) /\ Range(a \o b) = Range(a) \cup Range(b)
<1>1. a \o b \in Seq(S) /\ Len(a \o b) = Len(a) + Len(b) /\ Len(a) \in Nat /\ Len(b) \in Nat
  OBVIOUS
<1>2. \A i \in 1..Len(a): (a \o b)[i] = a[i] /\ i \in 1..Len(a \o b)
  OBVIOUS
<1>3. \A i \in 1..Len(b): (a \o b)[Len(a) + i] = b[i] /\ Len(a) + i \in 1..Len(a \o b)
  OBVIOUS
<1>4. \A i \in 1..Len(a \o b): i \in 1..Len(a) \/ (i - Len(a) \in 1..Len(b) /\ i = Len(a) + (i - Len(a)))
  <2> DEFINE x == Len(a)
             y == Len(b)
             z == Len(a \o b)
  <2>1. x \in Nat /\ y \in Nat /\ z = x + y
    BY <1>1
  <2> HIDE DEF x, y, z
  <2>2. \A i \in 1..z: i \in 1..x \/ (i - x \in 1..y /\ i = x + (i - x))
    BY <2>1
  <2> QED BY <2>2 DEF x, y, z
<1>5. Range(a) \subseteq Range(a \o b)
  BY <1>2 DEF Range
<1>6. Range(b) \subseteq Range(a \o b)
  <2> SUFFICES ASSUME NEW i \in 1..Len(b)
               PROVE  b[i] \in Range(a \o b)
    BY <1>1 DEF Range
  <2>1. Len(a) + i \in DOMAIN (a \o b) /\ (a \o b)[Len(a) + i] = b[i]
    BY <1>1, <1>3
  <2> QED BY <2>1 DEF Range
<1>7. Range(a \o b) \subseteq Range(a) \cup Range(b)
  <2> SUFFICES ASSUME NEW i \in 1..Len(a \o b)
               PROVE  (a \o b)[i] \in Range(a) \cup Range(b)
    BY <1>1 DEF Range
  <2>1. CASE i \in 1..Len(a)
    BY <2>1, <1>2 DEF Range
  <2>2. CASE i - Len(a) \in 1..Len(b) /\ i = Len(a) + (i - Len(a))
    BY <2>2, <1>3 DEF Range
  <2> QED BY <1>4, <2>1, <2>2
<1> QED BY <1>1, <1>5, <1>6, <1>7

(* What a slice writes after the batches it found: the groups it keeps, at *)
(* the next free numbers, so that the batches stay the first ones and hold *)
(* exactly the lines up to the cursor, with the pending group.             *)
Overlaid(batches, F, m, kept) ==
    [b \in Batches |-> IF b \in F..F + m - 1 THEN kept[b - F + 1] ELSE batches[b]]
InGroups(groups, m) == UNION {Range(groups[g]) : g \in 1..m}

LEMMA BatchesWritten ==
    ASSUME NEW s, NEW n, NEW F \in Nat, Packed(s, n, F), NEW m \in Nat, NEW kept, DOMAIN kept = 1..m,
           \A g \in 1..m: kept[g] # <<>>,
           m > 0 => F + m - 1 \in Batches,
           NEW e, e.batches = Overlaid(s.batches, F, m, kept)
    PROVE  FirstRows(e, F + m) /\ InBatches(e) = InBatches(s) \cup InGroups(kept, m)
<1> USE DEF Overlaid, InGroups
<1>1. /\ DOMAIN s.batches = Batches /\ \A b \in Batches: s.batches[b] # <<>> <=> b < F
      /\ DOMAIN e.batches = Batches
  BY DEF Packed, FirstRows
<1>2. \A b \in Batches: b \in Nat
  BY BatchNumbers
<1>3. \A b \in Batches: b \in F..F + m - 1 => b - F + 1 \in 1..m
  BY <1>2
<1>4. \A b \in Batches: b \notin F..F + m - 1 => b < F \/ b >= F + m
  BY <1>2
<1>5. \A b \in Batches: b \in F..F + m - 1 => b < F + m /\ ~(b < F)
  BY <1>2
<1>6. \A b \in Batches: e.batches[b] = IF b \in F..F + m - 1 THEN kept[b - F + 1] ELSE s.batches[b]
  OBVIOUS
<1>7. \A b \in Batches: b < F => b < F + m
  BY <1>2
<1>8. \A b \in Batches: b >= F + m => ~(b < F) /\ ~(b < F + m)
  BY <1>2
<1>9. FirstRows(e, F + m)
  <2> SUFFICES ASSUME NEW b \in Batches
               PROVE  e.batches[b] # <<>> <=> b < F + m
    BY <1>1 DEF FirstRows
  <2>1. CASE b \in F..F + m - 1
    BY <2>1, <1>3, <1>5, <1>6
  <2>2. CASE b \notin F..F + m - 1
    BY <2>2, <1>1, <1>4, <1>6, <1>7, <1>8
  <2> QED BY <2>1, <2>2
<1>10. InBatches(e) \subseteq InBatches(s) \cup InGroups(kept, m)
  <2> SUFFICES ASSUME NEW b \in Batches, NEW x \in Range(e.batches[b])
               PROVE  x \in InBatches(s) \cup InGroups(kept, m)
    BY DEF InBatches
  <2>1. CASE b \in F..F + m - 1
    BY <2>1, <1>3, <1>6
  <2>2. CASE b \notin F..F + m - 1
    BY <2>2, <1>6 DEF InBatches
  <2> QED BY <2>1, <2>2
<1>11. InBatches(s) \subseteq InBatches(e)
  <2> SUFFICES ASSUME NEW b \in Batches, NEW x \in Range(s.batches[b])
               PROVE  x \in InBatches(e)
    BY DEF InBatches
  <2>1. s.batches[b] # <<>>
    BY DEF Range
  <2>2. b \notin F..F + m - 1
    BY <2>1, <1>1, <1>5
  <2> QED BY <2>2, <1>6 DEF InBatches
<1>12. InGroups(kept, m) \subseteq InBatches(e)
  <2> SUFFICES ASSUME NEW g \in 1..m, NEW x \in Range(kept[g])
               PROVE  x \in InBatches(e)
    OBVIOUS
  <2>1. F + g - 1 \in Nat /\ F + m - 1 \in Nat /\ F + g - 1 <= F + m - 1 /\ m > 0
    OBVIOUS
  <2>2. F + g - 1 \in Batches
    BY <2>1, BatchNumbers
  <2>3. F + g - 1 \in F..F + m - 1 /\ (F + g - 1) - F + 1 = g
    OBVIOUS
  <2>4. e.batches[F + g - 1] = kept[g]
    BY <2>2, <2>3, <1>6
  <2> QED BY <2>2, <2>4 DEF InBatches
<1> QED BY <1>9, <1>10, <1>11, <1>12

LEMMA TransformData ==
    ASSUME NEW s, NEW n, Data(s, n), NEW e \in stepTransform(s, n), s.phase = "transform"
    PROVE  Data(e, n)
<1> DEFINE cursor == Consumed(s.raw, TRANSFORM_SLICE_LINES)
           exhausted == Exhausted(s.raw, TRANSFORM_SLICE_LINES)
           lines == [i \in 1..cursor - s.raw |-> Draft(n, s.raw + i)]
           all == s.pending \o lines
           groups == packedDraftGroups(all)
           kept == IF exhausted \/ groups = <<>> THEN groups ELSE Front(groups)
           first == Rows(s.batches)
           batches == [b \in Batches |-> IF b \in first..first + Len(kept) - 1 THEN kept[b - first + 1]
                                         ELSE s.batches[b]]
           pending == IF kept = groups THEN <<>> ELSE Last(groups)
           checkpoint == persistStreamCheckpoint(s, s.raw, cursor, exhausted)
           K == Len(groups)
           q == DRAFT_BATCH
<1>1. e = [s EXCEPT !.batches = batches, !.pending = pending, !.raw = cursor, !.checkpoint = checkpoint,
                    !.phase = IF exhausted THEN "tags" ELSE @]
  BY DEF stepTransform
<1>2. PICK F \in Nat : Packed(s, n, F)
  BY DEF Data, FilterSound
<1>3. /\ s.raw \in 0..Lines /\ cursor \in s.raw..Lines /\ (exhausted => cursor = Lines)
      /\ DOMAIN s = Columns
  BY Sizes, ConsumedLines DEF Data, Cursors
<1>4. /\ FirstRows(s, F) /\ s.pending \in Seq(Corpus(n, Lines)) /\ Len(s.pending) \in Nat
      /\ s.raw = F * q + Len(s.pending) /\ F * q \in Int
      /\ InBatches(s) \cup Range(s.pending) = Corpus(n, s.raw)
  <2>1. F * q \in Int
    BY Sizes, Multiples
  <2> HIDE DEF q
  <2> QED BY <1>2, <2>1 DEF Packed, q
<1> HIDE DEF cursor, exhausted
<1>5. /\ lines \in Seq(Corpus(n, Lines)) /\ Len(lines) = cursor - s.raw
      /\ Corpus(n, s.raw) \cup Range(lines) = Corpus(n, cursor)
  BY <1>3, CorpusGrows
<1> HIDE DEF lines
<1>6. /\ all \in Seq(Corpus(n, Lines)) /\ Len(all) = cursor - F * q
      /\ InBatches(s) \cup Range(all) = Corpus(n, cursor)
  <2>1. /\ all \in Seq(Corpus(n, Lines)) /\ Len(all) = Len(s.pending) + Len(lines)
        /\ Range(all) = Range(s.pending) \cup Range(lines)
    BY <1>4, <1>5, Joined
  <2>2. Len(all) = cursor - F * q
    BY <2>1, <1>3, <1>4, <1>5, Sizes
  <2> QED BY <2>1, <2>2, <1>4, <1>5
<1> HIDE DEF all
<1>7. /\ K \in Nat /\ groups \in [1..K -> Seq(Corpus(n, Lines))]
      /\ K = 0 => Len(all) = 0
      /\ K > 0 => (K - 1) * q < Len(all) /\ Len(all) <= K * q
      /\ \A g \in 1..K: groups[g] # <<>>
      /\ K > 0 => Len(groups[K]) = Len(all) - (K - 1) * q
      /\ InGroups(groups, K) = Range(all)
  BY <1>6, Groups DEF InGroups
<1> HIDE DEF groups
<1>8. first = F
  <2> DEFINE x == F * q
  <2>1. x \in Int /\ s.raw = x + Len(s.pending)
    BY <1>4
  <2> HIDE DEF x
  <2>2. x <= Lines
    BY <2>1, <1>3, <1>4, Sizes
  <2> QED BY <2>2, <1>4, WrittenRows DEF x
<1>9. K > 0 => F + K - 1 \in Batches
  <2> HAVE K > 0
  <2> DEFINE k == K - 1
             x == F * q
             y == k * q
  <2>1. F \in Int /\ k \in Int /\ q \in Nat \ {0} /\ F + k \in Nat
    BY <1>7, Sizes
  <2>2. (F + k) * q = x + y /\ x \in Int /\ y \in Int
    <3> HIDE DEF k, q
    <3> QED BY <2>1, Multiples
  <2>3. y < Len(all) /\ Len(all) = cursor - x
    BY <1>6, <1>7
  <2>4. cursor \in Int /\ cursor <= Lines /\ Len(all) \in Nat
    BY <1>3, <1>6, Sizes
  <2> HIDE DEF x, y, k
  <2>5. x + y <= Lines
    BY <2>2, <2>3, <2>4, Sizes
  <2>6. F + (K - 1) \in Nat /\ (F + (K - 1)) * q <= Lines
    BY <2>1, <2>2, <2>5 DEF k
  <2>7. F + (K - 1) <= Lines \div q
    <3> DEFINE D == Lines \div q
               z == F + (K - 1)
    <3>1. D \in Nat /\ Lines < D * q + q /\ (D + 1) * q = D * q + q /\ D * q \in Int
      BY Sizes, Division, Multiples
    <3> HIDE DEF D, z
    <3>2. z \in Nat /\ z * q <= Lines /\ z * q \in Int
      BY <2>6, Sizes, Multiples DEF z
    <3>3. ~((D + 1) * q <= z * q)
      BY <3>1, <3>2, Sizes
    <3>4. ~(D + 1 <= z)
      BY <3>1, <3>2, <3>3, Sizes, Multiples
    <3> QED BY <3>1, <3>2, <3>4 DEF D, z
  <2> QED BY <2>6, <2>7, Sizes DEF Batches
<1> HIDE DEF kept, first, pending, checkpoint
<1>10. /\ DOMAIN e = Columns /\ e.batches = batches /\ e.pending = pending /\ e.raw = cursor
       /\ e.phase = IF exhausted THEN "tags" ELSE "transform"
       /\ SameFetch(s, e) /\ SameKeys(s, e)
       /\ e.canonical = s.canonical /\ e.partition = s.partition /\ e.rewinds = s.rewinds
       /\ e.tries = s.tries /\ e.scope = s.scope
  <2> HIDE DEF batches
  <2>1. /\ DOMAIN e = Columns /\ e.batches = batches /\ e.pending = pending /\ e.raw = cursor
        /\ e.phase = IF exhausted THEN "tags" ELSE "transform"
    BY <1>1, <1>3 DEF Columns
  <2>2. SameFetch(s, e) /\ SameKeys(s, e)
    BY <1>1, <1>3 DEF SameFetch, SameKeys, Columns
  <2>3. /\ e.canonical = s.canonical /\ e.partition = s.partition /\ e.rewinds = s.rewinds
        /\ e.tries = s.tries /\ e.scope = s.scope
    BY <1>1, <1>3 DEF Columns
  <2> QED BY <2>1, <2>2, <2>3
<1>11. Cursors(e)
  <2>1. e.raw \in 0..Lines
    BY <1>3, <1>10, Sizes
  <2>2. e.phase \in Phases /\ e.phase # "purge_staging"
    BY <1>10 DEF Phases
  <2> HIDE DEF batches
  <2> QED BY <1>10, <2>1, <2>2 DEF Data, Cursors
<1>12. TagsSound(e)
  <2> HIDE DEF batches
  <2> QED BY <1>10 DEF Data, TagsSound, SameFetch, Fetching, AfterTags
<1>13. ASSUME NEW m \in Nat, kept \in [1..m -> Seq(Corpus(n, Lines))], Len(kept) = m, m <= K,
              \A g \in 1..m: kept[g] = groups[g]
       PROVE  FirstRows(e, F + m) /\ InBatches(e) = InBatches(s) \cup InGroups(groups, m)
  <2>1. \A g \in 1..m: g \in 1..K /\ kept[g] # <<>>
    BY <1>7, <1>13
  <2>2. m > 0 => F + m - 1 \in Batches
    <3> HAVE m > 0
    <3>1. F + m - 1 \in Nat /\ F + K - 1 \in Nat /\ F + m - 1 <= F + K - 1 /\ K > 0
      BY <1>7, <1>13
    <3> QED BY <3>1, <1>9, BatchNumbers
  <2>3. e.batches = Overlaid(s.batches, F, m, kept)
    BY <1>8, <1>10, <1>13 DEF Overlaid
  <2>4. DOMAIN kept = 1..m
    BY <1>13
  <2> HIDE DEF batches
  <2>5. FirstRows(e, F + m) /\ InBatches(e) = InBatches(s) \cup InGroups(kept, m)
    BY <2>1, <2>2, <2>3, <2>4, <1>2, <1>13, BatchesWritten
  <2>6. InGroups(kept, m) = InGroups(groups, m)
    BY <1>13 DEF InGroups
  <2> QED BY <2>5, <2>6
<1> HIDE DEF batches
<1>14. CASE exhausted \/ groups = <<>>
  <2>1. kept = groups /\ pending = <<>>
    BY <1>14 DEF kept, pending
  <2>2. /\ FirstRows(e, F + K) /\ InBatches(e) = InBatches(s) \cup Range(all)
    <3>1. /\ K \in Nat /\ kept \in [1..K -> Seq(Corpus(n, Lines))] /\ Len(kept) = K /\ K <= K
          /\ \A g \in 1..K: kept[g] = groups[g]
      BY <2>1, <1>7
    <3>2. InGroups(groups, K) = Range(all)
      BY <1>7
    <3> HIDE DEF K
    <3> QED BY <3>1, <3>2, <1>13
  <2>3. InBatches(e) = Corpus(n, cursor) /\ F + K \in Nat
    BY <2>2, <1>6, <1>7
  <2>4. CASE exhausted
    <3>1. Drafted(e, n)
      BY <2>2, <2>3, <2>4, <1>3 DEF Drafted
    <3>2. FilterSound(e, n)
      BY <3>1, <2>4, <1>10 DEF Data, FilterSound, BeforeLines, SameKeys, InScope
    <3> QED BY <3>2, <1>11, <1>12 DEF Data
  <2>5. CASE ~exhausted
    <3>1. K = 0
      BY <2>5, <1>14 DEF K
    <3>2. cursor = F * q /\ F + K = F
      BY <3>1, <1>3, <1>4, <1>6, <1>7, Sizes
    <3>3. Len(e.pending) = 0 /\ e.pending \in Seq(Corpus(n, Lines)) /\ Range(e.pending) = {}
      BY <2>1, <1>10 DEF Range
    <3>4. Packed(e, n, F)
      BY <3>2, <3>3, <2>2, <2>3, <1>3, <1>4, <1>10 DEF Packed
    <3>5. FilterSound(e, n)
      BY <3>4, <2>5, <1>10 DEF Data, FilterSound, BeforeLines, SameKeys, InScope
    <3> QED BY <3>5, <1>11, <1>12 DEF Data
  <2> QED BY <2>4, <2>5
<1>15. CASE ~(exhausted \/ groups = <<>>)
  <2> DEFINE m == K - 1
  <2>1. K > 0 /\ m \in Nat /\ m + 1 = K
    <3>1. K = 0 => groups = <<>>
      BY <1>7
    <3> QED BY <3>1, <1>7, <1>15
  <2>2. kept = SubSeq(groups, 1, m)
    BY <1>15 DEF kept, Front
  <2> HIDE DEF m
  <2>3. kept \in [1..m -> Seq(Corpus(n, Lines))] /\ Len(kept) = m /\ \A g \in 1..m: kept[g] = groups[g]
    <3>1. groups \in Seq(Seq(Corpus(n, Lines)))
      BY <1>7
    <3> HIDE DEF K
    <3>2. \A g \in 1..m: SubSeq(groups, 1, m)[g] = groups[g]
      BY <3>1, <2>1, <1>7 DEF K
    <3>3. SubSeq(groups, 1, m) \in Seq(Seq(Corpus(n, Lines))) /\ Len(SubSeq(groups, 1, m)) = m
      BY <3>1, <2>1, <1>7 DEF K
    <3>4. kept \in Seq(Seq(Corpus(n, Lines))) /\ Len(kept) = m
      BY <2>2, <3>3
    <3>5. kept \in [1..m -> Seq(Corpus(n, Lines))]
      BY <3>4
    <3> QED BY <2>2, <3>2, <3>4, <3>5
  <2>4. FirstRows(e, F + m) /\ InBatches(e) = InBatches(s) \cup InGroups(groups, m)
    BY <2>1, <2>3, <1>7, <1>13
  <2>5. pending = groups[K]
    <3>1. kept # groups
      BY <2>1, <2>3, <1>7
    <3> QED BY <3>1 DEF pending, Last
  <2>6. 1..K = (1..m) \cup {K}
    BY <2>1
  <2>7. Range(all) = InGroups(groups, m) \cup Range(pending)
    <3>1. \A x : x \in InGroups(groups, K) <=> x \in InGroups(groups, m) \/ x \in Range(groups[K])
      BY <2>6 DEF InGroups
    <3>2. InGroups(groups, K) = InGroups(groups, m) \cup Range(groups[K])
      BY <3>1
    <3> QED BY <1>7, <2>5, <3>2
  <2>8. InBatches(e) \cup Range(pending) = Corpus(n, cursor)
    BY <2>4, <2>7, <1>6
  <2>9. pending \in Seq(Corpus(n, Lines)) /\ Len(pending) = Len(all) - m * q
    BY <2>1, <2>5, <2>6, <1>7 DEF m
  <2>10. cursor = (F + m) * q + Len(pending)
    <3>1. (F + m) * q = F * q + m * q /\ m * q \in Int /\ F * q \in Int
      BY <2>1, Sizes, Multiples
    <3> QED BY <3>1, <2>9, <1>3, <1>6, Sizes
  <2>11. Packed(e, n, F + m) /\ F + m \in Nat
    BY <2>1, <2>4, <2>8, <2>9, <2>10, <1>10 DEF Packed
  <2>12. FilterSound(e, n)
    BY <2>11, <1>10, <1>15 DEF Data, FilterSound, BeforeLines, SameKeys, InScope
  <2> QED BY <2>12, <1>11, <1>12 DEF Data
<1> QED BY <1>14, <1>15

-----------------------------------------------------------------------------
(* The purges.                                                             *)

(* A purge touches rows only, and never those of the tag maps' dump but    *)
(* whole.                                                                  *)
LEMMA RowsDeleted ==
    ASSUME NEW s, NEW n, Data(s, n), NEW T, NEW r, r = DeleteFrom(s, T)
    PROVE  /\ DOMAIN r = Columns /\ r.phase = s.phase /\ r.scope = s.scope /\ r.next = s.next
           /\ r.raw = s.raw /\ r.canonical = s.canonical /\ r.partition = s.partition
           /\ r.rewinds = s.rewinds /\ r.tries = s.tries /\ r.scored = s.scored
           /\ r.tags \in {s.tags, <<>>} /\ DOMAIN r.blobs = Kinds
           /\ r.blobs["tags"] = IF {"kinds", "blobs"} \cap T # {} THEN <<>> ELSE s.blobs["tags"]
           /\ r.batches = IF "batches" \in T THEN Empty ELSE s.batches
           /\ r.pending = IF "batches" \in T THEN <<>> ELSE s.pending
           /\ r.routing = IF "routing" \in T THEN Empty ELSE s.routing
<1>1. DOMAIN s = Columns /\ DOMAIN s.blobs = Kinds
  BY DEF Data, Cursors, TagsSound
<1> DEFINE cleared(t, rows, empty) == IF t \in T THEN empty ELSE rows
           chunks == cleared("chunks", s.chunks, <<>>)
           ordered == cleared("ordered", s.ordered, <<>>)
           spill == cleared("spill", s.spill, <<>>)
           routing == cleared("routing", s.routing, Empty)
           tags == cleared("tags", s.tags, <<>>)
           tagdata == cleared("tags", s.tagdata, {})
           corpus == cleared("corpus", s.corpus, {})
           parts == cleared("parts", cleared("part", s.parts, [s.parts EXCEPT ![s.partition] = Empty]),
                            Fresh.parts)
           batches == cleared("batches", s.batches, Empty)
           pending == cleared("batches", s.pending, <<>>)
           blobs == cleared("blobs", cleared("kinds", s.blobs, [s.blobs EXCEPT !["tags"] = <<>>]), Fresh.blobs)
<1> DEFINE early == [s EXCEPT !.chunks = chunks, !.ordered = ordered, !.spill = spill, !.routing = routing,
                              !.tags = tags]
           late == [early EXCEPT !.tagdata = tagdata, !.corpus = corpus, !.parts = parts]
<1>2. r = [late EXCEPT !.batches = batches, !.pending = pending, !.blobs = blobs]
  BY Zenon DEF DeleteFrom
<1> HIDE DEF chunks, ordered, spill, routing, tags, tagdata, corpus, parts, batches, pending, blobs
<1>3. /\ DOMAIN early = Columns /\ early.phase = s.phase /\ early.scope = s.scope /\ early.next = s.next
      /\ early.routing = routing /\ early.tags = tags
  BY <1>1 DEF Columns
<1>4. /\ early.raw = s.raw /\ early.canonical = s.canonical /\ early.partition = s.partition
      /\ early.rewinds = s.rewinds /\ early.tries = s.tries /\ early.scored = s.scored
  BY <1>1 DEF Columns
<1> HIDE DEF early
<1>5. /\ DOMAIN late = Columns /\ late.phase = s.phase /\ late.scope = s.scope /\ late.next = s.next
      /\ late.routing = routing /\ late.tags = tags
  BY <1>3 DEF Columns
<1>6. /\ late.raw = s.raw /\ late.canonical = s.canonical /\ late.partition = s.partition
      /\ late.rewinds = s.rewinds /\ late.tries = s.tries /\ late.scored = s.scored
  BY <1>3, <1>4 DEF Columns
<1> HIDE DEF late
<1>9. /\ DOMAIN r = Columns /\ r.phase = s.phase /\ r.scope = s.scope /\ r.next = s.next
      /\ r.routing = routing /\ r.tags = tags
  BY <1>2, <1>5 DEF Columns
<1>10. /\ r.raw = s.raw /\ r.canonical = s.canonical /\ r.partition = s.partition
       /\ r.rewinds = s.rewinds /\ r.tries = s.tries /\ r.scored = s.scored
  BY <1>2, <1>5, <1>6 DEF Columns
<1>11. r.batches = batches /\ r.pending = pending /\ r.blobs = blobs
  BY <1>2, <1>5 DEF Columns
<1>7. Fresh.blobs = [k \in Kinds |-> <<>>]
  BY DEF Fresh
<1>8. /\ DOMAIN r.blobs = Kinds
      /\ r.blobs["tags"] = IF {"kinds", "blobs"} \cap T # {} THEN <<>> ELSE s.blobs["tags"]
  BY <1>1, <1>7, <1>11 DEF Kinds, blobs
<1> QED BY <1>8, <1>9, <1>10, <1>11 DEF routing, tags, batches, pending

(* The last slice of a reset has emptied every table.                      *)
LEMMA LastSlice ==
    ASSUME NEW s, s.scope = "reset", ~(Cardinality(Full(s)) >= PURGE_SLICE),
           NEW t \in {"routing", "batches", "blobs"}
    PROVE  Rowless(s, t) \/ t \in planPurgeSlice(s)
<1> DEFINE tables == PURGE_TABLES(s.scope)
           full == Full(s)
<1>1. DOMAIN tables = 1..9 /\ \E i \in 1..9: tables[i] = t
  <2>1. tables = <<"chunks", "ordered", "spill", "routing", "tags", "corpus", "parts", "batches", "blobs">>
    BY DEF PURGE_TABLES
  <2> HIDE DEF tables
  <2>2. DOMAIN tables = 1..9 /\ tables[4] = "routing" /\ tables[8] = "batches" /\ tables[9] = "blobs"
    BY <2>1
  <2> QED BY <2>2
<1>2. PICK i \in 1..9 : tables[i] = t
  BY <1>1
<1>3. IsFiniteSet(full) /\ Cardinality(full) \in Nat
  <2>1. full \subseteq 1..9
    BY <1>1 DEF Full
  <2>2. \A b \in Int: IsFiniteSet(1..b)
    BY FS_Interval
  <2>3. IsFiniteSet(full)
    BY <2>1, <2>2, FS_Subset
  <2> QED BY <2>3, FS_CardinalityType
<1>4. Cardinality({h \in full : h < i}) <= Cardinality(full) /\ Cardinality({h \in full : h < i}) \in Nat
  <2> HIDE DEF full
  <2>1. {h \in full : h < i} \subseteq full
    OBVIOUS
  <2> QED BY <2>1, <1>3, FS_Subset, FS_CardinalityType
<1>5. Cardinality({h \in full : h < i}) < PURGE_SLICE
  BY <1>3, <1>4, Sizes
<1>6. i \in full => tables[i] \in planPurgeSlice(s)
  BY <1>5 DEF planPurgeSlice
<1>7. i \notin full => Rowless(s, tables[i])
  BY <1>1 DEF Full
<1> QED BY <1>2, <1>6, <1>7

LEMMA RowlessTables ==
    ASSUME NEW s
    PROVE  /\ Rowless(s, "routing") <=> s.routing = Empty
           /\ Rowless(s, "batches") <=> s.batches = Empty /\ s.pending = <<>>
           /\ Rowless(s, "blobs") <=> s.blobs = Fresh.blobs
<1>1. Rowless(s, "routing") <=> s.routing = Empty
  BY Zenon DEF Rowless
<1>2. Rowless(s, "batches") <=> s.batches = Empty /\ s.pending = <<>>
  BY Zenon DEF Rowless
<1>3. Rowless(s, "blobs") <=> s.blobs = Fresh.blobs
  BY Zenon DEF Rowless
<1> QED BY <1>1, <1>2, <1>3

(* Where the purge of a scope leads.                                       *)
LEMMA PurgeEnds ==
    ASSUME NEW r
    PROVE  /\ r.scope = "reset" => PhaseAfterPurge(r) = "listing"
           /\ r.scope = "blobs" => PhaseAfterPurge(r) = r.next
           /\ r.scope = "retire" => PhaseAfterPurge(r) = "idle"
           /\ r.scope \notin {"reset", "blobs"} => PhaseAfterPurge(r) \in {"idle", "placement", "agg"}
<1>1. r.scope = "reset" => PhaseAfterPurge(r) = "listing"
  BY Zenon DEF PhaseAfterPurge
<1>2. r.scope = "blobs" => PhaseAfterPurge(r) = r.next
  BY Zenon DEF PhaseAfterPurge
<1>3. r.scope = "retire" => PhaseAfterPurge(r) = "idle"
  BY Zenon DEF PhaseAfterPurge
<1>4. r.scope \notin {"reset", "blobs"} => PhaseAfterPurge(r) \in {"idle", "placement", "agg"}
  BY Zenon DEF PhaseAfterPurge
<1> QED BY <1>1, <1>2, <1>3, <1>4

LEMMA PurgeStagingData ==
    ASSUME NEW s, NEW n, Data(s, n), NEW e \in stepPurgeStaging(s), s.phase = "purge_staging"
    PROVE  Data(e, n)
<1> DEFINE T == planPurgeSlice(s)
           r == DeleteFrom(s, T)
<1>1. e = IF Cardinality(Full(s)) >= PURGE_SLICE THEN r ELSE [AfterPurge(r) EXCEPT !.scope = "none"]
  BY DEF stepPurgeStaging
<1>2. /\ DOMAIN r = Columns /\ r.phase = s.phase /\ r.scope = s.scope /\ r.next = s.next
      /\ r.raw = s.raw /\ r.canonical = s.canonical /\ r.partition = s.partition
      /\ r.rewinds = s.rewinds /\ r.tries = s.tries /\ r.scored = s.scored
      /\ r.tags \in {s.tags, <<>>} /\ DOMAIN r.blobs = Kinds
      /\ r.blobs["tags"] = IF {"kinds", "blobs"} \cap T # {} THEN <<>> ELSE s.blobs["tags"]
      /\ r.batches = IF "batches" \in T THEN Empty ELSE s.batches
      /\ r.pending = IF "batches" \in T THEN <<>> ELSE s.pending
      /\ r.routing = IF "routing" \in T THEN Empty ELSE s.routing
  BY RowsDeleted
<1>3. s.scope = "blobs" => r.batches = s.batches /\ r.pending = s.pending /\ r.routing = s.routing
  <2> HAVE s.scope = "blobs"
  <2>1. PURGE_TABLES(s.scope) = <<"kinds">>
    BY DEF PURGE_TABLES
  <2>2. \A i \in DOMAIN PURGE_TABLES(s.scope): PURGE_TABLES(s.scope)[i] = "kinds"
    BY <2>1
  <2>3. T \subseteq {"kinds"}
    BY <2>2 DEF planPurgeSlice, Full
  <2> HIDE DEF T, r
  <2> QED BY <2>3, <1>2
<1> HIDE DEF r, T
<1>4. Data(r, n)
  <2>1. Cursors(r)
    BY <1>2 DEF Data, Cursors
  <2>2. TagsSound(r)
    BY <1>2 DEF Data, TagsSound, Whole, Fetching, AfterTags
  <2>3. InScope(r, "blobs") => /\ Drafted(r, n) /\ r.scored \in Nat
                               /\ r.routing = [b \in Batches |-> IF b < r.scored THEN r.batches[b] ELSE <<>>]
    BY <1>2, <1>3 DEF Data, FilterSound, InScope, Drafted, InBatches, FirstRows
  <2>4. FilterSound(r, n)
    BY <2>3, <1>2 DEF Data, FilterSound, InScope, BeforeLines
  <2> QED BY <2>1, <2>2, <2>4 DEF Data
<1>5. CASE Cardinality(Full(s)) >= PURGE_SLICE
  BY <1>1, <1>4, <1>5
<1>6. CASE ~(Cardinality(Full(s)) >= PURGE_SLICE)
  <2> DEFINE phase == PhaseAfterPurge(r)
             partition == IF r.scope = "partition" /\ ~LastPartition(r) THEN r.partition + 1 ELSE r.partition
  <2>1. e = [r EXCEPT !.phase = phase, !.next = "none", !.partition = partition, !.scope = "none"]
    BY <1>1, <1>2, <1>6 DEF AfterPurge, Columns
  <2>2. partition \in Partitions
    BY <1>4, Sizes DEF Data, Cursors, Partitions, LastPartition
  <2> HIDE DEF phase, partition
  <2>3. /\ DOMAIN e = Columns /\ e.phase = phase /\ e.scope = "none" /\ e.partition = partition
        /\ e.raw = r.raw /\ e.canonical = r.canonical /\ e.rewinds = r.rewinds /\ e.tries = r.tries
    BY <2>1, <1>2 DEF Columns
  <2>4. /\ e.scored = r.scored /\ e.tags = r.tags /\ e.blobs = r.blobs
        /\ e.batches = r.batches /\ e.pending = r.pending /\ e.routing = r.routing
    BY <2>1, <1>2 DEF Columns
  <2>5. phase \in Phases \ {"purge_staging", "notify"} => Cursors(e)
    BY <2>2, <2>3, <1>4 DEF Data, Cursors, Scopes
  <2>6. CASE s.scope = "reset"
    <3>1. phase = "listing"
      BY <2>6, <1>2, PurgeEnds DEF phase
    <3>2. r.routing = Empty /\ r.batches = Empty /\ r.pending = <<>>
      BY <2>6, <1>2, <1>6, LastSlice, RowlessTables DEF T
    <3>3. r.blobs["tags"] = <<>>
      <4>1. Fresh.blobs["tags"] = <<>>
        BY DEF Fresh, Kinds
      <4> QED BY <4>1, <2>6, <1>2, <1>6, LastSlice, RowlessTables DEF T
    <3>4. Cursors(e)
      BY <2>5, <3>1 DEF Phases
    <3>5. TagsSound(e)
      BY <2>3, <2>4, <3>1, <3>3, <1>4 DEF Data, TagsSound, Fetching, AfterTags
    <3>6. r.raw = 0 /\ r.scored = 0
      BY <2>6, <1>2 DEF Data, FilterSound, InScope
    <3>7. FilterSound(e, n)
      BY <2>3, <2>4, <3>1, <3>2, <3>6 DEF FilterSound, BeforeLines, InScope, Unread
    <3> QED BY <3>4, <3>5, <3>7 DEF Data
  <2>7. CASE s.scope = "blobs"
    <3>1. phase = "scores"
      BY <2>7, <1>2, PurgeEnds DEF phase, Data, Cursors
    <3>2. Cursors(e)
      BY <2>5, <3>1 DEF Phases
    <3>3. TagsSound(e)
      BY <2>3, <2>4, <3>1, <1>4 DEF Data, TagsSound, Fetching, AfterTags
    <3>4. /\ Drafted(r, n) /\ r.scored \in Nat
          /\ r.routing = [b \in Batches |-> IF b < r.scored THEN r.batches[b] ELSE <<>>]
      BY <2>7, <1>2, <1>4 DEF Data, FilterSound, InScope
    <3>5. Drafted(e, n)
      BY <2>4, <3>4 DEF Drafted, InBatches, FirstRows
    <3>6. FilterSound(e, n)
      BY <2>3, <2>4, <3>1, <3>4, <3>5 DEF FilterSound, BeforeLines, InScope
    <3> QED BY <3>2, <3>3, <3>6 DEF Data
  <2>8. CASE s.scope \notin {"reset", "blobs"}
    <3>1. phase \in {"idle", "placement", "agg"}
      BY <2>8, <1>2, PurgeEnds DEF phase
    <3>2. Cursors(e)
      BY <2>5, <3>1 DEF Phases, WasmPhases
    <3> QED BY <2>3, <2>4, <3>1, <3>2, <1>2, <1>4, Late DEF Early, Fetching, AfterTags, InScope
  <2> QED BY <2>6, <2>7, <2>8
<1> QED BY <1>5, <1>6

-----------------------------------------------------------------------------
(* Every slice.                                                            *)

LEMMA StepData ==
    ASSUME NEW s, NEW n, Data(s, n), upstream \in Versions, s.phase # "idle", NEW a, NEW e \in step(s, n, a)
    PROVE  Data(e, n)
<1>1. CASE s.phase = "listing"
  <2>1. step(s, n, a) = stepListing(s)
    BY <1>1, Zenon DEF step
  <2> QED BY <1>1, <2>1, ListingData
<1>2. CASE s.phase = "is_lists"
  <2>1. step(s, n, a) = stepIsLists(s, a)
    BY <1>2, Zenon DEF step
  <2> QED BY <1>2, <2>1, IsListsData
<1>3. CASE s.phase = "fetch:tags"
  <2>1. step(s, n, a) = stepFetch(s, "tags")
    BY <1>3, Zenon DEF step
  <2>2. "tags" \in Kinds /\ s.phase = IF "tags" = "tags" THEN "fetch:tags" ELSE "fetch:rulings"
    BY <1>3 DEF Kinds
  <2> QED BY <1>3, <2>1, <2>2, FetchData
<1>4. CASE s.phase = "fetch:rulings"
  <2>1. step(s, n, a) = stepFetch(s, "rulings")
    BY <1>4, Zenon DEF step
  <2>2. "rulings" \in Kinds /\ s.phase = IF "rulings" = "tags" THEN "fetch:tags" ELSE "fetch:rulings"
    BY <1>4 DEF Kinds
  <2> QED BY <1>4, <2>1, <2>2, FetchData
<1>5. CASE s.phase = "canonical"
  <2>1. step(s, n, a) = stepCanonical(s, n)
    BY <1>5, Zenon DEF step
  <2> QED BY <1>5, <2>1, CanonicalData
<1>6. CASE s.phase = "transform"
  <2>1. step(s, n, a) = stepTransform(s, n)
    BY <1>6, Zenon DEF step
  <2> QED BY <1>6, <2>1, TransformData
<1>7. CASE s.phase = "tags"
  <2>1. step(s, n, a) = stepTags(s)
    BY <1>7, Zenon DEF step
  <2> QED BY <1>7, <2>1, TagsData
<1>8. CASE s.phase = "scores"
  <2>1. step(s, n, a) = stepScores(s)
    BY <1>8, Zenon DEF step
  <2> QED BY <1>8, <2>1, ScoresData
<1>9. CASE s.phase = "routing"
  <2>1. step(s, n, a) = stepRouting(s)
    BY <1>9, Zenon DEF step
  <2> QED BY <1>9, <2>1, RoutingData
<1>10. CASE s.phase = "oracle_index"
  <2>1. step(s, n, a) = stepOracleIndex(s)
    BY <1>10, Zenon DEF step
  <2> QED BY <1>10, <2>1, OracleIndexData
<1>11. CASE s.phase = "bucket"
  <2>1. step(s, n, a) = stepBucket(s)
    BY <1>11, Zenon DEF step
  <2> QED BY <1>11, <2>1, BucketData
<1>12. CASE s.phase = "agg"
  <2>1. step(s, n, a) = stepAgg(s)
    BY <1>12, Zenon DEF step
  <2> QED BY <1>12, <2>1, AggData
<1>13. CASE s.phase = "finalize"
  <2>1. step(s, n, a) = stepFinalize(s)
    BY <1>13, Zenon DEF step
  <2> QED BY <1>13, <2>1, FinalizeData
<1>14. CASE s.phase = "reorder"
  <2>1. step(s, n, a) = stepReorder(s)
    BY <1>14, Zenon DEF step
  <2> QED BY <1>14, <2>1, ReorderData
<1>15. CASE s.phase = "build"
  <2>1. step(s, n, a) = stepBuild(s)
    BY <1>15, Zenon DEF step
  <2> QED BY <1>15, <2>1, BuildData
<1>16. CASE s.phase = "publish"
  <2>1. step(s, n, a) = stepPublish(s)
    BY <1>16, Zenon DEF step
  <2> QED BY <1>16, <2>1, PublishData
<1>17. CASE s.phase = "purge_staging"
  <2>1. step(s, n, a) = stepPurgeStaging(s)
    BY <1>17, Zenon DEF step
  <2> QED BY <1>17, <2>1, PurgeStagingData
<1>18. CASE s.phase = "placement"
  <2>1. step(s, n, a) = stepPlacement(s)
    BY <1>18, Zenon DEF step
  <2> QED BY <1>18, <2>1, PlacementData
<1>19. CASE s.phase = "manifest"
  <2>1. step(s, n, a) = stepManifest(s)
    BY <1>19, Zenon DEF step
  <2> QED BY <1>19, <2>1, ManifestData
<1>20. CASE s.phase = "notify"
  <2>1. step(s, n, a) = stepNotify(s)
    BY <1>20, Zenon DEF step
  <2> QED BY <1>20, <2>1, NotifyData
<1>21. CASE s.phase = "rulings"
  <2>1. step(s, n, a) = stepRulings(s)
    BY <1>21, Zenon DEF step
  <2> QED BY <1>21, <2>1, RulingsData
<1>22. CASE s.phase = "reference"
  <2>1. step(s, n, a) = stepReference(s)
    BY <1>22, Zenon DEF step
  <2> QED BY <1>22, <2>1, ReferenceData
<1>23. CASE s.phase = "purge"
  <2>1. step(s, n, a) = stepPurge(s)
    BY <1>23, Zenon DEF step
  <2> QED BY <1>23, <2>1, PurgeData
<1> QED
  <2>1. s.phase \in Phases
    BY DEF Data, Cursors
  <2> QED BY <2>1, <1>1, <1>2, <1>3, <1>4, <1>5, <1>6, <1>7, <1>8, <1>9, <1>10, <1>11,
            <1>12, <1>13, <1>14, <1>15, <1>16, <1>17, <1>18, <1>19, <1>20, <1>21, <1>22, <1>23
            DEF Phases, WasmPhases

(* The phases from the manifest on cannot fail for the data's sake, and    *)
(* neither can a purge that retires; where they lead.                      *)
LEMMA PublishedSteps ==
    ASSUME NEW s, NEW n, Data(s, n), NEW a, s.phase \in {"manifest", "notify", "rulings", "reference", "purge"}
    PROVE  step(s, n, a) # {} /\ \A e \in step(s, n, a): e.phase \in Published
<1>1. DOMAIN s = Columns
  BY DEF Data, Cursors
<1>2. CASE s.phase = "manifest"
  <2>1. step(s, n, a) = stepManifest(s)
    BY <1>2, Zenon DEF step
  <2> QED BY <1>1, <2>1 DEF stepManifest, Published, Columns
<1>3. CASE s.phase = "notify"
  <2>1. step(s, n, a) = stepNotify(s)
    BY <1>3, Zenon DEF step
  <2> QED BY <1>1, <2>1 DEF stepNotify, Published, Columns
<1>4. CASE s.phase = "rulings"
  <2>1. step(s, n, a) = stepRulings(s)
    BY <1>4, Zenon DEF step
  <2> QED BY <1>1, <2>1 DEF stepRulings, Published, Columns
<1>5. CASE s.phase = "reference"
  <2>1. step(s, n, a) = stepReference(s)
    BY <1>5, Zenon DEF step
  <2> QED BY <1>1, <2>1 DEF stepReference, Published, Columns
<1>6. CASE s.phase = "purge"
  <2>1. step(s, n, a) = stepPurge(s)
    BY <1>6, Zenon DEF step
  <2> QED BY <1>1, <2>1 DEF stepPurge, Published, Columns
<1> QED BY <1>2, <1>3, <1>4, <1>5, <1>6

LEMMA RetiringSteps ==
    ASSUME NEW s, NEW n, Data(s, n), NEW a, Retiring(s)
    PROVE  step(s, n, a) # {} /\ \A e \in step(s, n, a): Retiring(e) \/ e.phase = "idle"
<1> DEFINE r == DeleteFrom(s, planPurgeSlice(s))
<1>1. step(s, n, a) = stepPurgeStaging(s)
  BY Zenon DEF Retiring, step
<1>2. step(s, n, a) = {IF Cardinality(Full(s)) >= PURGE_SLICE THEN r ELSE [AfterPurge(r) EXCEPT !.scope = "none"]}
  BY <1>1 DEF stepPurgeStaging
<1>3. DOMAIN r = Columns /\ r.phase = s.phase /\ r.scope = s.scope
  BY RowsDeleted
<1> HIDE DEF r
<1>4. Retiring(r) /\ PhaseAfterPurge(r) = "idle"
  BY <1>3, PurgeEnds DEF Retiring
<1>5. [AfterPurge(r) EXCEPT !.scope = "none"].phase = "idle"
  BY <1>3, <1>4 DEF AfterPurge, Columns
<1> QED BY <1>2, <1>4, <1>5

-----------------------------------------------------------------------------
(* What an alarm does to the object besides its step.                      *)

LEMMA RetireBegins ==
    ASSUME NEW s, NEW n, Data(s, n), NEW kind
    PROVE  Data(beginRetire(s, kind), n) /\ Retiring(beginRetire(s, kind))
<1> DEFINE t == beginPurge(s, "retire", "none")
           e == beginRetire(s, kind)
<1>1. DOMAIN s = Columns
  BY DEF Data, Cursors
<1>2. Counted(s, t) /\ t.phase = "purge_staging" /\ t.scope = "retire"
  BY <1>1, PurgeBegins
<1>3. e = [t EXCEPT !.kind = kind]
  BY DEF beginRetire
<1> HIDE DEF t, e
<1>4. Counted(s, e) /\ e.phase = "purge_staging" /\ e.scope = "retire"
  BY <1>2, <1>3 DEF Counted, Kept, Columns
<1>5. Data(e, n) /\ Retiring(e)
  BY <1>4, Purging DEF Scopes, Retiring
<1> QED BY <1>5 DEF e

(* The phase and the counters of s are those of t.                         *)
SamePlace(s, t) == t.phase = s.phase /\ t.scope = s.scope /\ t.tries = s.tries

LEMMA EvictedData ==
    ASSUME NEW s, NEW n, Data(s, n)
    PROVE  Data(Evicted(s), n) /\ SamePlace(s, Evicted(s))
<1>1. Untouched(s, Evicted(s))
  BY DEF Evicted, Untouched, Counted, Kept, Data, Cursors, Columns
<1> QED BY <1>1, SameData DEF Untouched, Counted, SamePlace

LEMMA DirtyData ==
    ASSUME NEW s, NEW n, Data(s, n)
    PROVE  Data(Dirty(s), n) /\ SamePlace(s, Dirty(s))
<1>1. Untouched(s, Dirty(s))
  BY DEF Dirty, Untouched, Counted, Kept, Data, Cursors, Columns
<1> QED BY <1>1, SameData DEF Untouched, Counted, SamePlace

LEMMA ThrownData ==
    ASSUME NEW s, NEW n, Data(s, n), NEW t \in Thrown(s)
    PROVE  /\ Data(t, n)
           /\ t.phase = s.phase /\ t.scope = s.scope
           /\ t.tries = s.tries + 1 \/ (s.phase # "rulings" /\ t.tries = s.tries)
<1>1. DOMAIN s = Columns /\ s.tries \in Nat
  BY DEF Data, Cursors
<1>2. CASE s.phase \in {"notify", "rulings"}
  <2>1. \/ t = s /\ s.phase = "notify"
        \/ /\ t = [s EXCEPT !.tries = @ + 1]
           /\ s.phase = "notify" => s.tries + 1 < NOTIFY_MAX_ATTEMPTS
    BY <1>2, Zenon DEF Thrown
  <2>2. CASE t = s /\ s.phase = "notify"
    BY <2>2
  <2>3. CASE /\ t = [s EXCEPT !.tries = @ + 1]
             /\ s.phase = "notify" => s.tries + 1 < NOTIFY_MAX_ATTEMPTS
    <3>1. Kept(s, t) /\ t.phase = s.phase /\ t.scope = s.scope /\ t.tries = s.tries + 1
      BY <2>3, <1>1 DEF Kept, Columns
    <3>2. t.partition = s.partition /\ t.rewinds = s.rewinds
      BY <2>3, <1>1 DEF Columns
    <3>3. Cursors(t)
      BY <2>3, <3>1, <3>2, <1>1, <1>2 DEF Data, Cursors, Kept
    <3>4. Data(t, n)
      BY <3>1, <3>3, <1>2, Late DEF Data, TagsSound, Kept, InScope, Early, Fetching, AfterTags
    <3> QED BY <3>1, <3>4
  <2> QED BY <2>1, <2>2, <2>3
<1>3. CASE s.phase \notin {"notify", "rulings"}
  <2>1. Untouched(s, t)
    <3>1. CASE s.phase = "agg"
      <4> DEFINE e == Started(s)
                 heap == e.wasm.agg \o e.parts[e.partition][NextRow(e, e.aggDone)]
      <4>1. s.phase \notin {"notify", "rulings"} /\ s.phase # "finalize" /\ s.phase # "build"
        BY <3>1
      <4>2. t = s \/ t = [e EXCEPT !.wasm.agg = heap]
        BY <4>1, Zenon DEF Thrown
      <4>3. Untouched(s, e)
        BY StartedData
      <4> HIDE DEF e, heap
      <4> QED BY <4>2, <4>3, <1>1 DEF Untouched, Counted, Kept, Columns
    <3>2. CASE s.phase = "finalize"
      <4> DEFINE heap == s.wasm.fin \o s.parts[s.partition][NextRow(s, s.finDone)]
      <4>1. s.phase \notin {"notify", "rulings"} /\ s.phase # "agg" /\ s.phase # "build"
        BY <3>2
      <4>2. t = s \/ t = [s EXCEPT !.wasm.fin = heap]
        BY <4>1, Zenon DEF Thrown
      <4> HIDE DEF heap
      <4> QED BY <4>2, <1>1 DEF Untouched, Counted, Kept, Columns
    <3>3. CASE s.phase = "build"
      <4> DEFINE half == <<[agg |-> s.wasm.agg, row |-> s.ordered[1]]>>
      <4>1. s.phase \notin {"notify", "rulings"} /\ s.phase # "agg" /\ s.phase # "finalize"
        BY <3>3
      <4>2. t = s \/ t = [s EXCEPT !.chunks = half]
        BY <4>1, Zenon DEF Thrown
      <4> HIDE DEF half
      <4> QED BY <4>2, <1>1 DEF Untouched, Counted, Kept, Columns
    <3>4. CASE s.phase # "agg" /\ s.phase # "finalize" /\ s.phase # "build"
      <4>1. t = s
        BY <3>4, <1>3, Zenon DEF Thrown
      <4> QED BY <4>1, <1>1 DEF Untouched, Counted, Kept
    <3> QED BY <3>1, <3>2, <3>3, <3>4
  <2> QED BY <2>1, <1>1, <1>3, SameData DEF Untouched, Counted
<1> QED BY <1>2, <1>3

(* What reached KV of a slice: nothing of one that retires, and of the     *)
(* routing slice the keys of the whole corpus.                             *)
LEMMA WritesSound ==
    ASSUME NEW s, NEW n, Data(s, n), Store(kv, n)
    PROVE  /\ Store(Writes(s), n)
           /\ Writes(s).published => kv.published \/ s.phase = "manifest"
           /\ s.phase = "purge_staging" => Writes(s) = kv
<1>1. CASE s.phase \notin {"publish", "routing", "manifest"}
  <2>1. s.phase # "publish" /\ s.phase # "routing" /\ s.phase # "manifest"
    BY <1>1
  <2>2. Writes(s) = kv
    BY <2>1, Zenon DEF Writes
  <2> QED BY <2>2
<1>2. CASE s.phase = "publish"
  <2> DEFINE k == s.partition
             put == PutAt(kv.chunks[k], s.recs[k].published + 1, assembleChunk(s))
  <2>1. s.phase # "routing" /\ s.phase # "manifest"
    BY <1>2
  <2>2. Writes(s) = kv \/ Writes(s) = [kv EXCEPT !.chunks[k] = put]
    BY <2>1, Zenon DEF Writes
  <2> HIDE DEF k, put
  <2> QED BY <2>2, <1>2 DEF Store
<1>3. CASE s.phase = "routing"
  <2>1. s.phase # "publish"
    BY <1>3
  <2>2. Writes(s) = [kv EXCEPT !.routing = RoutingKeys(s)]
    BY <2>1, <1>3, Zenon DEF Writes
  <2>3. RoutingKeys(s) = Corpus(n, Lines)
    BY <1>3 DEF Data, FilterSound
  <2> QED BY <2>2, <2>3, <1>3 DEF Store
<1>4. CASE s.phase = "manifest"
  <2> DEFINE counts == [j \in Partitions |-> s.recs[j].count]
  <2>1. s.phase # "publish" /\ s.phase # "routing"
    BY <1>4
  <2>2. Writes(s) = [kv EXCEPT !.published = TRUE, !.counts = counts]
    BY <2>1, <1>4, Zenon DEF Writes
  <2> HIDE DEF counts
  <2> QED BY <2>2, <1>4 DEF Store
<1> QED BY <1>1, <1>2, <1>3, <1>4

-----------------------------------------------------------------------------
(* The actions.                                                            *)

Causes == {"budget", "killed", "fatal", "quota", "errors"}
Jobs ==
    [state : {"idle", "running", "done", "failed", "superseded"}, n : 0..MaxRuns,
     attempts : 0..MAX_PHASE_ATTEMPTS + 1, retries : 0..MAX_RETRIES, lost : BOOLEAN,
     cause : {"none"} \cup Causes]
Sound(j, s, w) == Data(s, j.n) /\ Books(j, s, w) /\ Store(w, j.n)

LEMMA Given ==
    ASSUME IInv
    PROVE  /\ job \in Jobs /\ Sound(job, d, kv) /\ alarm \in None..PLATFORM_RETRIES
           /\ fence \in {"none", "watchdog", "deploy"} /\ upstream \in Versions /\ faults \in 0..MaxFaults
  BY DEF IInv, TypeOK, Jobs, Causes, Sound

LEMMA Concluded ==
    ASSUME job' \in Jobs, Sound(job', d', kv'), RunningIsArmed', alarm' \in None..PLATFORM_RETRIES,
           fence' \in {"none", "watchdog", "deploy"}, upstream' \in Versions, faults' \in 0..MaxFaults
    PROVE  IInv'
<1>1. Data(d, job.n)' /\ Books(job, d, kv)' /\ Store(kv, job.n)'
  BY DEF Sound
<1>2. TypeOK'
  BY <1>1 DEF TypeOK, Jobs, Causes, Data, Cursors
<1> QED BY <1>1, <1>2 DEF IInv

LEMMA Faults ==
    ASSUME faults \in 0..MaxFaults, Fault
    PROVE  faults' \in 0..MaxFaults
  BY Ceilings DEF Fault

LEMMA Alarms ==
    /\ 0 \in None..PLATFORM_RETRIES /\ None \in None..PLATFORM_RETRIES /\ 0 # None
    /\ \A a \in None..PLATFORM_RETRIES: a # None => a \in Nat
  BY Ceilings DEF None

(* The state an alarm works from.                                          *)
LEMMA CurrentSound ==
    ASSUME Sound(job, d, kv), d.phase # "idle"
    PROVE  /\ Sound(job, Current, kv) /\ Current.phase # "idle"
           /\ Retiring(d) => Current = d
           /\ Current = d \/ Retiring(Current)
<1>1. CASE Current = d
  BY <1>1
<1>2. CASE ~Retiring(d) /\ Current = beginRetire(d, fence)
  <2>1. Data(Current, job.n) /\ Retiring(Current)
    BY <1>2, RetireBegins DEF Sound
  <2> QED BY <2>1, <1>2 DEF Sound, Books, Retiring
<1> QED BY <1>1, <1>2 DEF Current

(* A run that ends in failure, or a retirement put off.                    *)
LEMMA EndOrDefer ==
    ASSUME IInv, Live, NEW s, NEW cause \in Causes, FailOrDefer(s, cause), Data(s, job.n), Store(kv', job.n)
    PROVE  /\ job' \in Jobs /\ Sound(job', d', kv') /\ alarm' \in None..PLATFORM_RETRIES /\ RunningIsArmed'
           /\ Retiring(s) => job'.state = "running" /\ job'.cause = "none"
           /\ ~Retiring(s) => job'.cause = cause
<1>1. /\ job \in Jobs /\ Books(job, d, kv) /\ job.state = "running" /\ d.phase # "idle"
      /\ job.attempts <= MAX_PHASE_ATTEMPTS /\ job.cause = "none"
  BY Given DEF Live, Sound, Books
<1>2. CASE Retiring(s)
  <2>1. job' = [job EXCEPT !.retries = 0, !.attempts = 0] /\ d' = s /\ alarm' = 0
    BY <1>2 DEF FailOrDefer, deferRetire
  <2>2. /\ job' \in Jobs /\ job'.n = job.n /\ job'.state = "running" /\ job'.attempts = 0 /\ job'.retries = 0
        /\ job'.cause = "none"
    <3>1. 0 \in 0..MAX_PHASE_ATTEMPTS + 1 /\ 0 \in 0..MAX_RETRIES
      BY Ceilings
    <3> QED BY <2>1, <3>1, <1>1 DEF Jobs
  <2>3. Sound(job', d', kv')
    BY <2>1, <2>2, <1>2, Ceilings DEF Sound, Books, Retiring
  <2>4. RunningIsArmed'
    BY <2>1, Alarms DEF RunningIsArmed
  <2> QED BY <2>1, <2>2, <2>3, <2>4, <1>2, Alarms
<1>3. CASE ~Retiring(s)
  <2>1. /\ job' = [job EXCEPT !.state = "failed", !.attempts = Attempt, !.cause = cause]
        /\ d' = [s EXCEPT !.phase = "idle"] /\ alarm' = None
    BY <1>3 DEF FailOrDefer, failRun
  <2>2. job' \in Jobs /\ job'.n = job.n /\ job'.state = "failed" /\ job'.cause = cause
    <3>1. Attempt \in 0..MAX_PHASE_ATTEMPTS + 1
      BY <1>1, Ceilings DEF Jobs, Attempt
    <3> QED BY <2>1, <3>1, <1>1 DEF Jobs
  <2>3. Moved(s, d', "idle")
    BY <2>1 DEF Moved, Counted, Kept, Data, Cursors, Columns
  <2>4. Data(d', job.n) /\ d'.phase = "idle"
    BY <2>3, MovedLate, LatePhases DEF Moved
  <2>5. Sound(job', d', kv')
    BY <2>2, <2>4 DEF Sound, Books, Published
  <2>6. RunningIsArmed'
    BY <2>2 DEF RunningIsArmed
  <2> QED BY <2>1, <2>2, <2>5, <2>6, <1>3, Alarms
<1> QED BY <1>2, <1>3

(* An object that keeps its place under the same run, whatever an attempt  *)
(* does to the counters.                                                   *)
LEMMA StaysInPlace ==
    ASSUME NEW j, NEW k, NEW s, NEW t, NEW w, NEW v, Sound(j, s, w), Data(t, j.n), SamePlace(s, t),
           Store(v, j.n), v.published => w.published \/ s.phase = "manifest", k.n = j.n, k.state = j.state,
           k.cause = j.cause, s.phase # "idle" => k.attempts <= MAX_PHASE_ATTEMPTS,
           s.phase = "rulings" => k.retries <= s.tries
    PROVE  Sound(k, t, v)
  BY DEF Sound, Books, SamePlace, Published, Retiring

(* What each action keeps: the invariant, and what a step may never do.    *)
Quiet == Retiring(d) /\ job'.n = job.n => job'.state # "failed" /\ kv' = kv
GoesOn ==
    kv.published /\ job.state = "running" /\ d.phase # "manifest" /\ job'.n = job.n =>
        /\ job'.cause # "fatal"
        /\ job'.cause = "errors" =>
             d.phase = "notify" /\ Uncounted > MAX_RETRIES + 1 - NOTIFY_MAX_ATTEMPTS

LEMMA AlarmBegins ==
    ASSUME IInv, Live
    PROVE  /\ job \in Jobs /\ Sound(job, Current, kv) /\ Current.phase # "idle"
           /\ job.state = "running" /\ job.cause = "none" /\ job.attempts <= MAX_PHASE_ATTEMPTS
           /\ Attempt \in 0..MAX_PHASE_ATTEMPTS + 1
           /\ Retiring(d) => Current = d /\ Retiring(Current)
           /\ Current = d \/ Retiring(Current)
           /\ kv.published /\ d.phase # "manifest" =>
                Retiring(Current) \/ Current.phase \in {"notify", "rulings", "reference", "purge"}
           /\ upstream \in Versions /\ alarm \in Nat /\ alarm <= PLATFORM_RETRIES
<1>1. /\ job \in Jobs /\ Sound(job, d, kv) /\ d.phase # "idle" /\ job.state = "running"
      /\ alarm \in None..PLATFORM_RETRIES /\ alarm # None /\ upstream \in Versions
  BY Given DEF Live
<1>2. job.cause = "none" /\ job.attempts <= MAX_PHASE_ATTEMPTS
  BY <1>1 DEF Sound, Books
<1>3. Attempt \in 0..MAX_PHASE_ATTEMPTS + 1
  BY <1>1, <1>2, Ceilings DEF Attempt, Jobs
<1>4. /\ Sound(job, Current, kv) /\ Current.phase # "idle" /\ (Retiring(d) => Current = d)
      /\ (Current = d \/ Retiring(Current))
  BY <1>1, CurrentSound
<1>5. kv.published /\ d.phase # "manifest" =>
        Retiring(Current) \/ Current.phase \in {"notify", "rulings", "reference", "purge"}
  BY <1>1, <1>4 DEF Sound, Books, Published
<1>6. alarm \in Nat /\ alarm <= PLATFORM_RETRIES
  BY <1>1, Alarms, Ceilings
<1> QED BY <1>1, <1>2, <1>3, <1>4, <1>5, <1>6

LEMMA StaleAlarmStep ==
    ASSUME IInv, StaleAlarm
    PROVE  IInv' /\ Quiet /\ GoesOn
<1>1. /\ job' = job /\ d' = d /\ kv' = kv /\ fence' = fence /\ upstream' = upstream /\ faults' = faults
      /\ alarm' = None
  BY DEF StaleAlarm
<1>2. RunningIsArmed'
  BY <1>1 DEF StaleAlarm, Live, RunningIsArmed
<1>3. IInv'
  BY <1>1, <1>2, Given, Concluded, Alarms
<1> QED BY <1>1, <1>3, Given DEF Quiet, GoesOn, Sound, Books, Retiring

(* The alarms that end the run, or put a retirement off, before a slice.   *)
LEMMA EndsStep ==
    ASSUME IInv, Live, NEW cause \in Causes, FailOrDefer(Current, cause), UNCHANGED <<kv, fence, upstream>>,
           faults' \in 0..MaxFaults,
           cause \in {"errors", "fatal"} => Retiring(Current) \/ ~kv.published \/ d.phase = "manifest"
    PROVE  IInv' /\ Quiet /\ GoesOn
<1>1. Data(Current, job.n) /\ Store(kv', job.n)
  BY AlarmBegins DEF Sound
<1>2. /\ job' \in Jobs /\ Sound(job', d', kv') /\ alarm' \in None..PLATFORM_RETRIES /\ RunningIsArmed'
      /\ Retiring(Current) => job'.state = "running" /\ job'.cause = "none"
      /\ ~Retiring(Current) => job'.cause = cause
  BY <1>1, EndOrDefer
<1>3. IInv'
  BY <1>2, Given, Concluded
<1> QED BY <1>2, <1>3, AlarmBegins DEF Quiet, GoesOn

LEMMA OverBudgetStep ==
    ASSUME IInv, OverBudget
    PROVE  IInv' /\ Quiet /\ GoesOn
  BY Given, Faults, EndsStep DEF OverBudget, Causes

LEMMA TooManyAttemptsStep ==
    ASSUME IInv, TooManyAttempts
    PROVE  IInv' /\ Quiet /\ GoesOn
  BY Given, EndsStep DEF TooManyAttempts, Causes

LEMMA FatalSliceStep ==
    ASSUME IInv, FatalSlice
    PROVE  IInv' /\ Quiet /\ GoesOn
<1>1. Live /\ step(Current, job.n, Attempt) = {}
  BY DEF FatalSlice, Runnable
<1>2. Data(Current, job.n)
  BY <1>1, AlarmBegins DEF Sound
<1>3. Current.phase \notin {"notify", "rulings", "reference", "purge"}
  BY <1>1, <1>2, PublishedSteps
<1>4. Retiring(Current) \/ ~kv.published \/ d.phase = "manifest"
  BY <1>1, <1>3, AlarmBegins
<1> QED BY <1>1, <1>4, Given, EndsStep DEF FatalSlice, Causes

LEMMA RefusedStep ==
    ASSUME IInv, Refused
    PROVE  IInv' /\ Quiet /\ GoesOn
<1> DEFINE cause == IF Current.phase \in {"canonical", "transform"} THEN "fatal" ELSE "quota"
<1>1. Live /\ FailOrDefer(Current, cause) /\ UNCHANGED <<kv, fence, upstream>> /\ Fault
  BY DEF Refused, Runnable
<1>2. cause \in Causes
  BY DEF Causes
<1>3. cause \in {"errors", "fatal"} => Retiring(Current) \/ ~kv.published \/ d.phase = "manifest"
  BY <1>1, AlarmBegins
<1>4. faults' \in 0..MaxFaults
  BY <1>1, Given, Faults
<1> HIDE DEF cause
<1> QED BY <1>1, <1>2, <1>3, <1>4, EndsStep

LEMMA FreshData ==
    ASSUME NEW n
    PROVE  Data(Fresh, n) /\ Fresh.phase = "idle"
<1>1. /\ DOMAIN Fresh = Columns /\ Fresh.phase = "idle" /\ Fresh.scope = "none" /\ Fresh.partition = 0
      /\ Fresh.raw = 0 /\ Fresh.canonical = 0 /\ Fresh.rewinds = 0
  BY DEF Fresh, Columns
<1>2. Fresh.tries = 0 /\ Fresh.tags = <<>> /\ Fresh.blobs = [k \in Kinds |-> <<>>]
  BY DEF Fresh
<1>3. Cursors(Fresh)
  BY <1>1, <1>2, Sizes, Ceilings DEF Cursors, Phases, Scopes, Partitions
<1>4. TagsSound(Fresh)
  BY <1>1, <1>2 DEF TagsSound, Whole, Fetching, AfterTags
<1>5. FilterSound(Fresh, n)
  BY <1>1 DEF FilterSound, BeforeLines, InScope
<1> QED BY <1>1, <1>3, <1>4, <1>5 DEF Data

LEMMA SliceStep ==
    ASSUME IInv, Slice
    PROVE  IInv' /\ Quiet /\ GoesOn
<1>1. PICK e \in step(Current, job.n, Attempt) : Completed(Current, e)
  BY DEF Slice
<1>2. Live /\ Attempt <= MAX_PHASE_ATTEMPTS /\ UNCHANGED <<fence, upstream, faults>>
  BY DEF Slice, Runnable
<1>3. /\ job \in Jobs /\ Sound(job, Current, kv) /\ Current.phase # "idle" /\ job.state = "running"
      /\ job.cause = "none" /\ (Retiring(d) => Current = d /\ Retiring(Current))
      /\ upstream \in Versions /\ Attempt \in 0..MAX_PHASE_ATTEMPTS + 1
  BY <1>2, AlarmBegins
<1>4. Data(e, job.n)
  BY <1>1, <1>3, StepData DEF Sound
<1>5. Data(d', job.n) /\ (d' = e \/ (e.phase = "idle" /\ d'.phase = "idle"))
  BY <1>1, <1>4, FreshData DEF Completed
<1>6. kv' \in {kv, Writes(Current)}
  BY <1>1 DEF Completed, Written
<1>7. /\ Store(kv', job.n) /\ (kv'.published => kv.published \/ Current.phase = "manifest")
      /\ (Retiring(Current) => kv' = kv)
  BY <1>3, <1>6, WritesSound DEF Sound, Retiring
<1>8. /\ job' \in Jobs /\ job'.n = job.n /\ job'.cause = "none" /\ job'.attempts <= MAX_PHASE_ATTEMPTS
      /\ job'.retries = 0
      /\ job'.state = IF e.phase # "idle" THEN "running" ELSE IF Retiring(Current) THEN "superseded" ELSE "done"
  <2> DEFINE attempts == IF Attempt > 1 THEN 0 ELSE Attempt
             state == IF e.phase # "idle" THEN "running" ELSE IF Retiring(Current) THEN "superseded" ELSE "done"
  <2>1. job' = [job EXCEPT !.retries = 0, !.attempts = attempts, !.state = state]
    BY <1>1, <1>3 DEF Completed
  <2>2. attempts \in 0..MAX_PHASE_ATTEMPTS + 1 /\ attempts <= MAX_PHASE_ATTEMPTS /\ 0 \in 0..MAX_RETRIES
    BY <1>2, <1>3, Ceilings
  <2>3. state \in {"running", "superseded", "done"}
    OBVIOUS
  <2> HIDE DEF attempts, state
  <2>4. job' \in Jobs
    BY <2>1, <2>2, <2>3, <1>3 DEF Jobs
  <2>5. /\ job'.n = job.n /\ job'.cause = job.cause /\ job'.attempts = attempts /\ job'.retries = 0
        /\ job'.state = state
    BY <2>1, <1>3 DEF Jobs
  <2> QED BY <2>2, <2>4, <2>5, <1>3 DEF state
<1>9. kv'.published => d'.phase \in Published \/ Retiring(d')
  <2> SUFFICES ASSUME kv'.published, d' = e
               PROVE  e.phase \in Published \/ Retiring(e)
    BY <1>5 DEF Published
  <2>1. Current.phase \in Published \/ Retiring(Current)
    BY <1>3, <1>7 DEF Sound, Books, Published
  <2>2. CASE Retiring(Current)
    BY <2>2, <1>1, <1>3, RetiringSteps DEF Sound, Published
  <2>3. CASE Current.phase \in Published
    BY <2>3, <1>1, <1>3, PublishedSteps DEF Sound, Published
  <2> QED BY <2>1, <2>2, <2>3
<1>10. d'.tries \in Nat
  BY <1>5 DEF Data, Cursors
<1>11. Sound(job', d', kv')
  BY <1>5, <1>7, <1>8, <1>9, <1>10, Ceilings DEF Sound, Books
<1>12. alarm' \in {0, None} /\ (alarm' = None => e.phase = "idle")
  BY <1>1, Alarms DEF Completed
<1>13. RunningIsArmed'
  BY <1>5, <1>12 DEF RunningIsArmed
<1>14. IInv'
  BY <1>2, <1>8, <1>11, <1>12, <1>13, Alarms, Given, Concluded
<1> QED BY <1>3, <1>7, <1>8, <1>14 DEF Quiet, GoesOn

LEMMA BeginFamilyUploadWaitsStep ==
    ASSUME IInv, beginFamilyUploadWaits
    PROVE  IInv' /\ Quiet /\ GoesOn
<1> DEFINE attempts == IF Attempt > 1 THEN 0 ELSE Attempt
<1>1. /\ Live /\ Fault /\ Attempt <= MAX_PHASE_ATTEMPTS /\ d.phase \in {"routing", "publish"}
      /\ job' = [job EXCEPT !.retries = 0, !.attempts = attempts] /\ alarm' = 0
      /\ d' = d /\ kv' = kv /\ fence' = fence /\ upstream' = upstream
  BY DEF beginFamilyUploadWaits, Runnable
<1>2. job \in Jobs /\ Sound(job, d, kv) /\ job.cause = "none" /\ Attempt \in 0..MAX_PHASE_ATTEMPTS + 1
  BY <1>1, AlarmBegins, Given
<1>3. attempts \in 0..MAX_PHASE_ATTEMPTS + 1 /\ attempts <= MAX_PHASE_ATTEMPTS /\ 0 \in 0..MAX_RETRIES
  BY <1>1, <1>2, Ceilings
<1> HIDE DEF attempts
<1>4. job' \in Jobs
  BY <1>1, <1>2, <1>3 DEF Jobs
<1>5. /\ job'.n = job.n /\ job'.state = job.state /\ job'.cause = job.cause /\ job'.attempts = attempts
  BY <1>1, <1>2 DEF Jobs
<1>6. Sound(job', d', kv')
  BY <1>1, <1>2, <1>3, <1>5 DEF Sound, Books
<1>7. RunningIsArmed'
  BY <1>1, Alarms DEF RunningIsArmed
<1>8. IInv'
  BY <1>1, <1>4, <1>6, <1>7, Given, Faults, Alarms, Concluded
<1> QED BY <1>1, <1>2, <1>5, <1>8 DEF Quiet, GoesOn, Retiring

LEMMA FailedSliceStep ==
    ASSUME IInv, FailedSlice
    PROVE  IInv' /\ Quiet /\ GoesOn
<1>1. Live /\ Attempt <= MAX_PHASE_ATTEMPTS /\ Throws(Current) /\ UNCHANGED <<fence, upstream>>
  BY DEF FailedSlice, Runnable
<1> PICK t \in Thrown(Current) :
      IF job.retries < MAX_RETRIES
      THEN /\ job' = [job EXCEPT !.retries = @ + 1, !.attempts = Attempt]
           /\ d' = Dirty(t) /\ alarm' = 0
      ELSE FailOrDefer(t, "errors")
  BY DEF FailedSlice
<1> DEFINE e == Dirty(t)
<1>2. /\ job \in Jobs /\ Sound(job, Current, kv) /\ Current.phase # "idle" /\ job.state = "running"
      /\ job.cause = "none" /\ (Retiring(d) => Current = d /\ Retiring(Current))
      /\ Attempt \in 0..MAX_PHASE_ATTEMPTS + 1
  BY <1>1, AlarmBegins
<1>3. faults' \in 0..MaxFaults
  BY Given, Faults DEF FailedSlice
<1>4. /\ Store(kv', job.n) /\ (kv'.published => kv.published \/ Current.phase = "manifest")
      /\ (Retiring(Current) => kv' = kv)
  <2>1. kv' \in {kv, Writes(Current)}
    BY DEF FailedSlice
  <2> QED BY <2>1, <1>2, WritesSound DEF Sound, Retiring
<1>5. /\ Data(t, job.n) /\ t.phase = Current.phase /\ t.scope = Current.scope
      /\ t.tries = Current.tries + 1 \/ (Current.phase # "rulings" /\ t.tries = Current.tries)
  BY <1>2, ThrownData DEF Sound
<1>6. Current.phase = "rulings" =>
        /\ job.retries <= Current.tries /\ Current.tries \in Nat /\ job.retries < MAX_RETRIES
  <2>1. Current.tries \in Nat
    BY <1>2 DEF Sound, Data, Cursors
  <2>2. Current.phase = "rulings" => Current.tries + 1 < RULINGS_MAX_ATTEMPTS
    BY <1>1 DEF Throws
  <2>3. Current.phase = "rulings" => job.retries <= Current.tries
    BY <1>2 DEF Sound, Books
  <2>4. job.retries \in Nat
    BY <1>2, Ceilings DEF Jobs
  <2> QED BY <2>1, <2>2, <2>3, <2>4, Ceilings
<1>7. CASE job.retries < MAX_RETRIES
  <2>1. job' = [job EXCEPT !.retries = @ + 1, !.attempts = Attempt] /\ d' = e /\ alarm' = 0
    BY <1>7
  <2>2. Data(e, job.n) /\ SamePlace(t, e)
    BY <1>5, DirtyData
  <2>3. job.retries + 1 \in 0..MAX_RETRIES
    BY <1>2, <1>7, Ceilings DEF Jobs
  <2>4. job' \in Jobs
    BY <2>1, <2>3, <1>2 DEF Jobs
  <2>5. /\ job'.n = job.n /\ job'.state = job.state /\ job'.cause = job.cause /\ job'.attempts = Attempt
        /\ job'.retries = job.retries + 1
    BY <2>1, <1>2 DEF Jobs
  <2> HIDE DEF e
  <2>6. e.phase = "rulings" => job.retries + 1 <= e.tries
    BY <2>2, <2>3, <1>2, <1>5, <1>6, Ceilings DEF SamePlace, Jobs
  <2>7. kv'.published => e.phase \in Published \/ Retiring(e)
    BY <2>2, <1>2, <1>4, <1>5 DEF Sound, Books, SamePlace, Retiring, Published
  <2>8. Sound(job', d', kv')
    BY <2>1, <2>2, <2>5, <2>6, <2>7, <1>1, <1>2, <1>4 DEF Sound, Books
  <2>9. RunningIsArmed'
    BY <2>1, Alarms DEF RunningIsArmed
  <2>10. IInv'
    BY <2>1, <2>4, <2>8, <2>9, <1>1, <1>3, Given, Alarms, Concluded
  <2> QED BY <2>5, <2>10, <1>2, <1>4 DEF Quiet, GoesOn
<1>8. CASE ~(job.retries < MAX_RETRIES)
  <2>1. FailOrDefer(t, "errors")
    BY <1>8
  <2>2. "errors" \in Causes
    BY DEF Causes
  <2>3. /\ job' \in Jobs /\ Sound(job', d', kv') /\ alarm' \in None..PLATFORM_RETRIES /\ RunningIsArmed'
        /\ Retiring(t) => job'.state = "running" /\ job'.cause = "none"
        /\ ~Retiring(t) => job'.cause = "errors"
    BY <2>1, <2>2, <1>1, <1>4, <1>5, EndOrDefer
  <2>4. IInv'
    BY <2>3, <1>1, <1>3, Given, Concluded
  <2>5. Retiring(t) <=> Retiring(Current)
    BY <1>5 DEF Retiring
  <2>6. Current.phase \notin {"rulings", "reference", "purge"}
    BY <1>1, <1>6, <1>8 DEF Throws
  <2>7. kv.published /\ d.phase # "manifest" => Retiring(Current) \/ Current.phase = "notify"
    BY <2>6, <1>1, AlarmBegins
  <2>8. ~Retiring(Current) => Current = d
    BY <1>1, AlarmBegins
  <2>9. Current.phase = "notify" => ~Retiring(t) /\ t.tries < NOTIFY_MAX_ATTEMPTS
    BY <1>5 DEF Retiring, Data, Cursors
  <2>10. job.retries = MAX_RETRIES
    BY <1>2, <1>8, Ceilings DEF Jobs
  <2>11. Current.phase = "notify" => d'.tries = t.tries
    BY <2>1, <2>9, <1>5 DEF FailOrDefer, failRun, Data, Cursors, Columns
  <2>12. t.tries \in Nat
    BY <1>5 DEF Data, Cursors
  <2>13. Current.phase = "notify" => Uncounted > MAX_RETRIES + 1 - NOTIFY_MAX_ATTEMPTS
    BY <2>9, <2>10, <2>11, <2>12, Ceilings DEF Uncounted
  <2> QED BY <2>3, <2>4, <2>5, <2>7, <2>8, <2>13, <1>2, <1>4 DEF Quiet, GoesOn
<1> QED BY <1>7, <1>8

LEMMA FencedMidSliceStep ==
    ASSUME IInv, NEW kind \in {"watchdog", "deploy"}, FencedMidSlice(kind)
    PROVE  IInv' /\ Quiet /\ GoesOn
<1>1. /\ Live /\ Fault /\ Attempt <= MAX_PHASE_ATTEMPTS /\ d.phase \in {"routing", "publish", "manifest"}
      /\ fence' = kind /\ d' = beginRetire(d, kind) /\ alarm' = 0
      /\ job' = [job EXCEPT !.attempts = Attempt] /\ kv' = kv /\ upstream' = upstream
  BY DEF FencedMidSlice, Runnable
<1>2. /\ job \in Jobs /\ Sound(job, d, kv) /\ job.cause = "none" /\ job.state = "running"
      /\ Attempt \in 0..MAX_PHASE_ATTEMPTS + 1
  BY <1>1, AlarmBegins, Given
<1>3. Data(d', job.n) /\ Retiring(d')
  BY <1>1, <1>2, RetireBegins DEF Sound
<1>4. job' \in Jobs
  BY <1>1, <1>2 DEF Jobs
<1>5. /\ job'.n = job.n /\ job'.state = job.state /\ job'.cause = job.cause /\ job'.attempts = Attempt
  BY <1>1, <1>2 DEF Jobs
<1>6. Sound(job', d', kv')
  BY <1>1, <1>2, <1>3, <1>5 DEF Sound, Books, Retiring
<1>7. RunningIsArmed'
  BY <1>1, Alarms DEF RunningIsArmed
<1>8. IInv'
  BY <1>1, <1>4, <1>6, <1>7, Given, Faults, Alarms, Concluded
<1> QED BY <1>1, <1>2, <1>5, <1>8 DEF Quiet, GoesOn, Retiring

LEMMA KilledStep ==
    ASSUME IInv, Killed
    PROVE  IInv' /\ Quiet /\ GoesOn
<1>1. /\ Live /\ Attempt <= MAX_PHASE_ATTEMPTS /\ job' = [job EXCEPT !.attempts = Attempt]
      /\ d' = Evicted(Current) /\ kv' \in {kv, Writes(Current)} /\ alarm' = Redelivery
      /\ UNCHANGED <<fence, upstream, faults>>
  BY DEF Killed, Runnable
<1>2. /\ job \in Jobs /\ Sound(job, Current, kv) /\ job.cause = "none" /\ job.state = "running"
      /\ (Retiring(d) => Current = d /\ Retiring(Current))
      /\ Attempt \in 0..MAX_PHASE_ATTEMPTS + 1 /\ alarm \in Nat /\ alarm <= PLATFORM_RETRIES
  BY <1>1, AlarmBegins
<1>3. job' \in Jobs
  BY <1>1, <1>2 DEF Jobs
<1>4. /\ job'.n = job.n /\ job'.state = job.state /\ job'.cause = job.cause /\ job'.attempts = Attempt
      /\ job'.retries = job.retries
  BY <1>1, <1>2 DEF Jobs
<1>5. /\ Store(kv', job.n) /\ (kv'.published => kv.published \/ Current.phase = "manifest")
      /\ (Retiring(Current) => kv' = kv)
  BY <1>1, <1>2, WritesSound DEF Sound, Retiring
<1>6. Data(d', job.n) /\ SamePlace(Current, d')
  BY <1>1, <1>2, EvictedData DEF Sound
<1>7. Current.phase = "rulings" => job'.retries <= Current.tries
  BY <1>2, <1>4 DEF Sound, Books
<1>8. Sound(job', d', kv')
  BY <1>1, <1>2, <1>4, <1>5, <1>6, <1>7, StaysInPlace
<1>9. alarm' \in 0..PLATFORM_RETRIES
  BY <1>1, <1>2, Ceilings DEF Redelivery
<1>10. alarm' \in None..PLATFORM_RETRIES /\ alarm' # None
  BY <1>9, Ceilings DEF None
<1>11. RunningIsArmed'
  BY <1>10 DEF RunningIsArmed
<1>12. IInv'
  BY <1>1, <1>3, <1>8, <1>10, <1>11, Given, Concluded
<1> QED BY <1>2, <1>4, <1>5, <1>12 DEF Quiet, GoesOn

LEMMA KilledWhileEndingStep ==
    ASSUME IInv, KilledWhileEnding
    PROVE  IInv' /\ Quiet /\ GoesOn
<1> DEFINE t == Evicted(Current)
<1>1. /\ Live /\ Fault /\ d' = [t EXCEPT !.phase = "idle", !.scope = "none"] /\ alarm' = Redelivery
      /\ job' = [job EXCEPT !.attempts = Attempt] /\ UNCHANGED <<kv, fence, upstream>>
  BY DEF KilledWhileEnding
<1>2. /\ job \in Jobs /\ Sound(job, Current, kv) /\ job.cause = "none" /\ job.state = "running"
      /\ Attempt \in 0..MAX_PHASE_ATTEMPTS + 1 /\ alarm \in Nat /\ alarm <= PLATFORM_RETRIES
  BY <1>1, AlarmBegins
<1>3. job' \in Jobs
  BY <1>1, <1>2 DEF Jobs
<1>4. job'.n = job.n /\ job'.state = job.state /\ job'.cause = job.cause
  BY <1>1, <1>2 DEF Jobs
<1>5. Data(t, job.n)
  BY <1>2, EvictedData DEF Sound
<1> HIDE DEF t
<1>6. Data(d', job.n) /\ d'.phase = "idle"
  <2>1. /\ DOMAIN d' = Columns /\ d'.phase = "idle" /\ d'.scope = "none" /\ d'.partition = t.partition
        /\ d'.raw = t.raw /\ d'.canonical = t.canonical /\ d'.rewinds = t.rewinds /\ d'.tries = t.tries
    BY <1>1, <1>5 DEF Data, Cursors, Columns
  <2>2. d'.tags = t.tags /\ d'.blobs = t.blobs
    BY <1>1, <1>5 DEF Data, Cursors, Columns
  <2>3. Cursors(d')
    BY <2>1, <1>5 DEF Data, Cursors, Phases, Scopes
  <2> QED BY <2>1, <2>2, <2>3, <1>5, Late DEF Data, TagsSound, InScope, Early, Fetching, AfterTags
<1>7. Sound(job', d', kv')
  BY <1>1, <1>2, <1>4, <1>6 DEF Sound, Books, Published
<1>8. alarm' \in 0..PLATFORM_RETRIES
  BY <1>1, <1>2, Ceilings DEF Redelivery
<1>9. alarm' \in None..PLATFORM_RETRIES
  BY <1>8, Ceilings DEF None
<1>10. RunningIsArmed'
  BY <1>6 DEF RunningIsArmed
<1>11. IInv'
  BY <1>1, <1>3, <1>7, <1>9, <1>10, Given, Faults, Concluded
<1> QED BY <1>1, <1>2, <1>4, <1>11 DEF Quiet, GoesOn

LEMMA LoseBooksStep ==
    ASSUME IInv, LoseBooks
    PROVE  IInv' /\ Quiet /\ GoesOn
<1>1. /\ Live /\ Fault /\ alarm' = None /\ job' = [job EXCEPT !.lost = TRUE]
      /\ d' = Evicted(Current) /\ kv' \in {kv, Writes(Current)} /\ UNCHANGED <<fence, upstream>>
  BY DEF LoseBooks
<1>2. /\ job \in Jobs /\ Sound(job, Current, kv) /\ job.cause = "none" /\ job.state = "running"
      /\ (Retiring(d) => Current = d /\ Retiring(Current)) /\ job.attempts <= MAX_PHASE_ATTEMPTS
  BY <1>1, AlarmBegins
<1>3. job' \in Jobs
  BY <1>1, <1>2 DEF Jobs
<1>4. /\ job'.n = job.n /\ job'.state = job.state /\ job'.cause = job.cause /\ job'.attempts = job.attempts
      /\ job'.retries = job.retries /\ job'.lost
  BY <1>1, <1>2 DEF Jobs
<1>5. /\ Store(kv', job.n) /\ (kv'.published => kv.published \/ Current.phase = "manifest")
      /\ (Retiring(Current) => kv' = kv)
  BY <1>1, <1>2, WritesSound DEF Sound, Retiring
<1>6. Data(d', job.n) /\ SamePlace(Current, d')
  BY <1>1, <1>2, EvictedData DEF Sound
<1>7. Current.phase = "rulings" => job'.retries <= Current.tries
  BY <1>2, <1>4 DEF Sound, Books
<1>8. Sound(job', d', kv')
  BY <1>2, <1>4, <1>5, <1>6, <1>7, StaysInPlace
<1>9. RunningIsArmed'
  BY <1>4 DEF RunningIsArmed
<1>10. IInv'
  BY <1>1, <1>3, <1>8, <1>9, Given, Faults, Alarms, Concluded
<1> QED BY <1>2, <1>4, <1>5, <1>10 DEF Quiet, GoesOn

LEMMA EvictStep ==
    ASSUME IInv, Evict
    PROVE  IInv' /\ Quiet /\ GoesOn
<1>1. /\ d' = Evicted(d) /\ job' = job /\ kv' = kv /\ alarm' = alarm /\ fence' = fence
      /\ upstream' = upstream /\ faults' = faults
  BY DEF Evict
<1>2. Sound(job, d, kv) /\ RunningIsArmed
  BY Given DEF IInv
<1>3. Data(d', job.n) /\ SamePlace(d, d')
  BY <1>1, <1>2, EvictedData DEF Sound
<1>4. Sound(job', d', kv')
  BY <1>1, <1>2, <1>3, StaysInPlace DEF Sound, Books
<1>5. RunningIsArmed'
  BY <1>1, <1>2, <1>3 DEF RunningIsArmed, SamePlace
<1>6. IInv'
  BY <1>1, <1>4, <1>5, Given, Concluded
<1> QED BY <1>1, <1>2, <1>6 DEF Quiet, GoesOn, Sound, Books, Retiring

LEMMA KickStep ==
    ASSUME IInv, kick
    PROVE  IInv' /\ Quiet /\ GoesOn
<1>1. /\ job.state = "running" /\ alarm' = 0 /\ job' = [job EXCEPT !.lost = FALSE]
      /\ d' = d /\ kv' = kv /\ fence' = fence /\ upstream' = upstream /\ faults' = faults
  BY DEF kick
<1>2. job \in Jobs /\ Sound(job, d, kv)
  BY Given
<1>3. job' \in Jobs
  BY <1>1, <1>2 DEF Jobs
<1>4. /\ job'.n = job.n /\ job'.state = job.state /\ job'.cause = job.cause /\ job'.attempts = job.attempts
      /\ job'.retries = job.retries
  BY <1>1, <1>2 DEF Jobs
<1>5. Sound(job', d', kv')
  BY <1>1, <1>2, <1>4 DEF Sound, Books
<1>6. RunningIsArmed'
  BY <1>1, Alarms DEF RunningIsArmed
<1>7. IInv'
  BY <1>1, <1>3, <1>5, <1>6, Given, Alarms, Concluded
<1> QED BY <1>1, <1>2, <1>4, <1>7 DEF Quiet, GoesOn, Sound, Books, Retiring

LEMMA StartImportStep ==
    ASSUME IInv, startImport
    PROVE  IInv' /\ Quiet /\ GoesOn
<1> DEFINE s == Cleared(d)
<1>1. /\ job.n < MaxRuns /\ alarm' = 0 /\ d' = beginPurge(s, "reset", "none") /\ fence' = "none"
      /\ kv' = Unwritten /\ upstream' = upstream /\ faults' = faults
      /\ job' = [state |-> "running", n |-> job.n + 1, attempts |-> 0, retries |-> 0, lost |-> FALSE,
                 cause |-> "none"]
  BY DEF startImport
<1>2. job \in Jobs /\ Data(d, job.n)
  BY Given DEF Sound
<1>3. job' \in Jobs
  <2>1. job.n + 1 \in 0..MaxRuns
    BY <1>1, <1>2, Ceilings DEF Jobs
  <2>2. 0 \in 0..MAX_PHASE_ATTEMPTS + 1 /\ 0 \in 0..MAX_RETRIES
    BY Ceilings
  <2> QED BY <2>1, <2>2, <1>1 DEF Jobs
<1>4. job'.n = job.n + 1 /\ job.n \in Nat
  BY <1>1, <1>2, Ceilings DEF Jobs
<1>5. Data(d', job'.n) /\ d'.phase = "purge_staging"
  <2>1. /\ DOMAIN Fresh = Columns /\ Fresh.raw = 0 /\ Fresh.canonical = 0 /\ Fresh.rewinds = 0
        /\ Fresh.partition = 0 /\ Fresh.tries = 0 /\ Fresh.scored = 0
    BY DEF Fresh, Columns
  <2>2. /\ DOMAIN s = Columns /\ s.raw = 0 /\ s.canonical = 0 /\ s.rewinds = 0
        /\ s.partition = 0 /\ s.tries = 0 /\ s.scored = 0 /\ s.tags = d.tags /\ s.blobs = d.blobs
    BY <2>1 DEF Cleared, Columns
  <2> HIDE DEF s
  <2>3. Counted(s, d') /\ d'.phase = "purge_staging" /\ d'.scope = "reset"
    BY <2>2, <1>1, PurgeBegins
  <2>4. d'.scored = 0
    BY <2>2, <1>1 DEF beginPurge, Columns
  <2>5. Cursors(d')
    BY <2>2, <2>3, Sizes, Ceilings DEF Cursors, Counted, Kept, Phases, Scopes, Partitions
  <2>6. TagsSound(d')
    BY <2>2, <2>3, <1>2 DEF Data, TagsSound, Counted, Kept, Fetching, AfterTags
  <2>7. FilterSound(d', job'.n)
    BY <2>2, <2>3, <2>4 DEF FilterSound, Counted, Kept, InScope, BeforeLines
  <2> QED BY <2>3, <2>5, <2>6, <2>7 DEF Data
<1> HIDE DEF s
<1>6. Store(kv', job'.n) /\ ~kv'.published
  BY <1>1 DEF Store, Unwritten
<1>7. Sound(job', d', kv')
  BY <1>1, <1>5, <1>6, Ceilings DEF Sound, Books
<1>8. RunningIsArmed'
  BY <1>1, Alarms DEF RunningIsArmed
<1>9. IInv'
  BY <1>1, <1>3, <1>7, <1>8, Given, Alarms, Concluded
<1> QED BY <1>4, <1>9 DEF Quiet, GoesOn

(* What changes neither the object, nor the run, nor what it wrote.        *)
LEMMA ElsewhereStep ==
    ASSUME IInv, UNCHANGED <<job, d, kv, alarm>>, fence' \in {"none", "watchdog", "deploy"},
           upstream' \in Versions, faults' \in 0..MaxFaults
    PROVE  IInv' /\ Quiet /\ GoesOn
<1>1. job \in Jobs /\ Sound(job, d, kv) /\ RunningIsArmed
  BY Given DEF IInv
<1>2. IInv'
  BY <1>1, Given, Concluded DEF RunningIsArmed
<1> QED BY <1>1, <1>2 DEF Quiet, GoesOn, Sound, Books, Retiring

LEMMA IInvInit == Init => IInv
<1> SUFFICES ASSUME Init
             PROVE  IInv
  OBVIOUS
<1>1. /\ job = [state |-> "idle", n |-> 0, attempts |-> 0, retries |-> 0, lost |-> FALSE, cause |-> "none"]
      /\ d = Fresh /\ kv = Unwritten /\ alarm = None /\ fence = "none" /\ upstream = 1 /\ faults = 0
  BY DEF Init
<1>2. Data(d, job.n) /\ d.phase = "idle"
  BY <1>1, FreshData
<1>3. Store(kv, job.n) /\ ~kv.published
  BY <1>1 DEF Store, Unwritten
<1>4. Books(job, d, kv)
  BY <1>1, <1>2, <1>3 DEF Books
<1>5. RunningIsArmed
  BY <1>1 DEF RunningIsArmed
<1>6. 0 \in 0..MaxRuns /\ 0 \in 0..MAX_PHASE_ATTEMPTS + 1 /\ 0 \in 0..MAX_RETRIES /\ 0 \in 0..MaxFaults
  BY Ceilings
<1>7. TypeOK
  BY <1>1, <1>2, <1>6, Alarms DEF TypeOK, Data, Cursors, Versions
<1> QED BY <1>2, <1>3, <1>4, <1>5, <1>7 DEF IInv

LEMMA NextStep ==
    ASSUME IInv, Next
    PROVE  IInv' /\ Quiet /\ GoesOn
<1>1. CASE runAlarm
  BY <1>1, StaleAlarmStep, OverBudgetStep, TooManyAttemptsStep, SliceStep, BeginFamilyUploadWaitsStep,
     FatalSliceStep, RefusedStep, FailedSliceStep, KilledStep, KilledWhileEndingStep, LoseBooksStep,
     FencedMidSliceStep DEF runAlarm
<1>2. CASE Evict \/ kick \/ startImport
  BY <1>2, EvictStep, KickStep, StartImportStep
<1>3. CASE Republish
  <2>1. UNCHANGED <<job, d, kv, alarm>> /\ fence' = fence /\ upstream' \in Versions /\ Fault
    BY <1>3 DEF Republish, Versions
  <2> QED BY <2>1, Given, Faults, ElsewhereStep
<1>4. CASE \E kind \in {"watchdog", "deploy"}: Supersede(kind)
  <2>1. /\ UNCHANGED <<job, d, kv, alarm>> /\ fence' \in {"watchdog", "deploy"} /\ upstream' = upstream
        /\ Fault
    BY <1>4 DEF Supersede
  <2> QED BY <2>1, Given, Faults, ElsewhereStep
<1> QED BY <1>1, <1>2, <1>3, <1>4 DEF Next

LEMMA IInvStep == IInv /\ [Next]_vars => IInv'
<1> SUFFICES ASSUME IInv, [Next]_vars
             PROVE  IInv'
  OBVIOUS
<1>1. CASE Next
  BY <1>1, NextStep
<1>2. CASE UNCHANGED vars
  <2>1. UNCHANGED <<job, d, kv, alarm>> /\ fence' = fence /\ upstream' = upstream /\ faults' = faults
    BY <1>2 DEF vars
  <2> QED BY <2>1, Given, ElsewhereStep
<1> QED BY <1>1, <1>2

-----------------------------------------------------------------------------
\* The run record, the cursors and the alarm keep their types, the ceilings on
\* attempts, retries and rewinds among them.
THEOREM TypeCorrect == Spec => []TypeOK
<1>1. IInv => TypeOK
  BY DEF IInv
<1> QED BY <1>1, IInvInit, IInvStep, PTL DEF Spec

\* However often its slices are killed, a run in flight has an alarm behind it,
\* unless that alarm lost its books or died as the run was ending.
THEOREM RunHasAlarm == Spec => []RunningIsArmed
<1>1. IInv => RunningIsArmed
  BY DEF IInv
<1> QED BY <1>1, IInvInit, IInvStep, PTL DEF Spec

\* The tag maps come from one whole version of their dump, whichever ranged
\* request the file was replaced before.
THEOREM TagsFromOneDump == Spec => []TagsWhole
<1>1. IInv => TagsWhole
  BY DEF IInv, Data, TagsSound, Whole, TagsWhole, Bytes
<1> QED BY <1>1, IInvInit, IInvStep, PTL DEF Spec

\* A routing filter that is published has every key of the corpus.
THEOREM FilterHasCorpus == Spec => []FilterComplete
<1>1. IInv => FilterComplete
  BY DEF IInv, Store, Corpus, FilterComplete
<1> QED BY <1>1, IInvInit, IInvStep, PTL DEF Spec

\* A run that retires is never marked failed and writes nothing to KV.
THEOREM RetiresQuietly == Spec => RetireIsQuiet
<1>1. ASSUME IInv, [Next]_vars
      PROVE  [Retiring(d) /\ job'.n = job.n => job'.state # "failed" /\ kv' = kv]_vars
  BY <1>1, NextStep DEF Quiet
<1> QED BY <1>1, IInvInit, IInvStep, PTL DEF Spec, RetireIsQuiet

\* A run whose manifest is written is not failed by its data or the rulings,
\* nor by engines that do not answer: only by errors of notify's own reads.
THEOREM PublishedRunGoesOn == Spec => PublishedGoesOn
<1>1. ASSUME IInv, [Next]_vars
      PROVE  [kv.published /\ job.state = "running" /\ d.phase # "manifest" /\ job'.n = job.n =>
                /\ job'.cause # "fatal"
                /\ job'.cause = "errors" =>
                     d.phase = "notify" /\ Uncounted > MAX_RETRIES + 1 - NOTIFY_MAX_ATTEMPTS]_vars
  BY <1>1, NextStep DEF GoesOn
<1> QED BY <1>1, IInvInit, IInvStep, PTL DEF Spec, PublishedGoesOn
=============================================================================
