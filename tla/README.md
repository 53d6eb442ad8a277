# A TLA+ model of Sylvan Librarian's store: import, publish, serve

Sylvan Librarian serves Scryfall-compatible card search from Cloudflare Workers.
A nightly import builds the card store and uploads it to Workers KV; deploys upload
stores too; Durable Objects all over the world load what KV's manifest names. This
directory specifies that machinery in TLA+, model-checks it with TLC and proves the
parts that hold for every size with TLAPS.

Paths below are relative to the repository root.

## 1. The system

| Component | State it keeps | Operations | Correct when |
|---|---|---|---|
| KV retention (`src/engine/kv-retention.ts`) | none: pure | roles of families, lease arbitration, sweep plan, byte guard, format retirement | a plan spares every live family and the one in flight; at most three families stay |
| Manifests and keys (`src/engine/store-kv.ts`) | `store:manifest`, `store:manifest:v<fmt>`, chunk keys, routing filter, `store:publishing` | write manifest and mirror, list missing chunks | a manifest never names an absent chunk |
| Import coordinator (`src/import-coordinator.ts`) | SQLite: run record, phase, `pp_publish` cursor, `upload_lease`; one alarm | start, one slice per alarm, fail, retire, purge | it publishes only while designated, unfenced and holding the lease; it ends |
| Import watchdog (`src/import-watchdog.ts`) | `import:coordinator` pointer | status, kick, suspect, failover, restart a lost start, release replaced objects | a wedged run is replaced; at most one coordinator publishes |
| Deploy (`scripts/import-store.sh`, `prune-kv.ts`, `ensure-format-manifest.ts`, `store-age.ts`, `deploy-upload.ts`, `seed-remote-kv.ts`) | `import:deploy-fence`, the lease | on every deploy, with no lease: sweep, copy the mirror; unless it skips the import: fence, settle, lease, make room, upload, publish, sweep; switch code | the deployed code always finds an index; nothing live is swept |
| Publish notification (`stepNotify`, `stepPurge`) | attempt counter, live set | prepare, commit, release, purge the edge cache | the edge is purged after the readers converge |
| Engine objects (`src/engine/store.ts`, `search-engine-do.ts`, `store-cache.ts`) | loaded store, in-flight load/refresh/prefetch, recorded manifest, cached archive | load, prefetch, swap, prune | one load at a time; an abandoned load never becomes the store |
| Shard controller (`src/engine/shard-controller.ts`) | per region: own, target, ready width | expand, warm, adopt, contract, announce | a shard takes traffic once it is warm (it does not: section 3); a region scales in again |
| Gather (`src/engine/gather.ts`, `sibling-hedge.ts`, `sibling-limit.ts`) | per gather: slots, hedges, pinned generation | fan out, hedge, merge | one generation per page; at most six calls; no stuck slot |
| Shared reads (`src/engine/kv-memo.ts`, `shared-load.ts`) | module-level promises and memos | join a load, with a deadline | a cancelled owner never hangs a joiner |
| Worker calls (`src/engine/remote-engine.ts`) | per request: both legs, retries; per isolate: cooling | ask, hedge, fail over, retry | every request ends |
| Lookups (`src/engine/partitioned-engine.ts`) | manifest and routing filter of the isolate | by id, batch, pinned search | the answer is what asking every partition would give |
| Placement (`placement-policy.ts`, `engine-moves.ts`) | the manifest's placement block | serve, leave, alias, move | every region's users reach one that is served; a name given up is not used again |

The rest (the query parser, routes, the Rust engine, codecs, encodings of the indexes,
operator scripts) computes without interleaving; `PROJECT.json` lists each part with the
reason it is left out.

**How they interact.** Every writer shares one KV namespace, and KV has no transactions:
an operation is a `get`, `put`, `list` or `delete`, and every pair of them can be interleaved
with another writer's. The writers of generation keys and manifests are the coordinators' uploads
and sweeps; a deploy's upload and sweep, behind its fence; and, before that fence and on every production
deploy, the sweep of `prune-kv.ts` and the copy of `ensure-format-manifest.ts`, which take no
lease. What keeps the first two apart is four keys; the third is kept apart by nothing. The *pointer* names the
designated coordinator by an epoch that only grows: a coordinator that reads a newer one
retires. The *deploy fence* retires every run that began before it. The *upload lease* names
the one family in flight, so that every sweep spares it; a deploy takes it from anyone, a later
epoch from an earlier one. The *manifests* name what is live; each replaces a predecessor that
stays as the rollback. A run reads these fences again before each write, but a read and the
write after it are never one step.

**What is hard.** A Durable Object can be reset between any two of its KV calls (a deploy,
`ctx.abort`, a crash), and its alarm then fires again with only SQLite left. It can wedge for
hours and then carry on where it was. Deletion plans are computed from reads several awaits
old, and a sweep's reads are of different moments. The two writes of a manifest (its format's key, then the mirror) can be cut in half.
Archive-format switches take three actors: a deploy publishes, `wrangler deploy` switches the
code, a nightly run of the new code retires the old format. `PROJECT.json` "hazards" gives
each at its line.

## 2. Modules

| Module | Models | Kind |
|---|---|---|
| `KvRetention` | `kv-retention.ts`'s decisions, with the manifest-key rules of `store-kv.ts` | operators |
| `StorePublish` | coordinators, failover, deploys before and behind their fence, lease expiry over one namespace | state machine |
| `ImportWatchdog` | the pointer, watchdog ticks, both crons, the coordinators they start, kick, replace and release | state machine |
| `ImportRun` | one coordinator's alarm chain through every phase, and what it makes of the data | state machine |
| `EngineStore` | one engine object: loads, caches, the wasm instance, the two-step fan-out of a publish | state machine |
| `SiblingCalls` | the limiter and the hedges of one gather's calls | state machine |
| `Gather` | one gather: keys, pinned build, merge, rows, the three narrowings of it | state machine, with the merge as operators |
| `ShardController` | isolates of a region and the width they announce | state machine |
| `Placement` | a night's decision: regions served, aliases, generations, epochs | state machine |
| `PartitionLookup` | a Worker's lookup through hints, hashes and repair rounds | state machine |
| `WorkerCall` | the shared catalog read and the raced, retried engine call | state machine |
| `StoreContract` | what KV promises a Worker that loads a store, and the exceptions it counts | abstract specification |
| `MCStorePublish`, `MCImportWatchdog`, `MCImportRun`, `MCEngineStore` | constants for TLC | model-checking instances |
| `MCServing` | `Serving` with `WorkerCall`; a behaviour is one machine's | model-checking instance |
| `Serving` | `SiblingCalls`, `Gather`, `ShardController`, `Placement` and `PartitionLookup` side by side, with the assumptions on their constants and the properties checked and proved | composition |
| `StorePublish_proofs` | what a retention plan spares, leaves and makes room for; type correctness of the protocol | proofs |
| `StorePublish_safety` | the writers exclude each other, no manifest names an absent chunk, the refinement | proofs |
| `StorePublish_promises` | no publish is lost, the deployed code has an index, sweeps spare the holder, the byte guard and the number of families | proofs |
| `StorePublish_rollback` | with one format, the rollback stays whole while no family is astray | proofs |
| `ImportWatchdog_proofs` | types, who may run, who may retire, what a replacement needs | proofs |
| `ImportRun_proofs` | types, the alarm of a run in flight, what a run has made of its data, the retirement | proofs |
| `EngineStore_proofs` | types, one whole archive per answer, the fan-out's convergence | proofs |
| `Serving_proofs` | widths backed by warm-ups, regions served, names not used again, slots counted, lookups that miss nothing, pages of one build | proofs |

`StorePublish` extends `KvRetention`: all three writers decide through the same code, so all
actions use the same operators. `StorePublish!Contract` instantiates `StoreContract` with a
refinement mapping (`store` is the chunks in KV without the routing filters, `live` the family
each manifest key names, `toCome` the unleased sweeps and copies that deploys have still to make), and
the run `publish` checks `ImplementsContract`.

The three import modules see one protocol at three grains. `StorePublish` has the writers of KV and
their fences, with an import before and after its upload as one step; `ImportWatchdog` has who is
designated, with an import as a few alarms; `ImportRun` has the alarms, with the fence as what two
reads return. `EngineStore` is the readers' side of one publish. The serving modules share nothing
with each other in the code but calls, and each takes the others' behaviour as a choice: a call in
`Gather` may fail at any time, which is what `SiblingCalls` can make of it; objects swap at will.

### State and code: `StorePublish`

| Variable | Code |
|---|---|
| `kv` | the generation keys: per family, the chunks put and the filter (key `Filter`) |
| `manifests` | `store:manifest` (`Legacy`) and `store:manifest:v<fmt>` |
| `lease` | `store:publishing` |
| `pointer` | `import:coordinator`'s epoch; coordinator *n* is the one designated at epoch *n* |
| `fence` | `import:deploy-fence`, counted; a run is fenced out if a fence came after its `run_started_ms` |
| `code` | `ARCHIVE_FORMAT_VERSION` of the deployed Worker |
| `builds` | the clock behind `built_at`: the number of builds stamped |
| `co` | a coordinator's durable run: phase, start, `built_at`, `format_version`, `upload_lease`, publish cursor |
| `slice` | the alarm in flight: where it stands between two KV calls, and what it has read; lost at a reset |
| `dep` | a deploy job, from its fence to `wrangler deploy` |
| `prep` | a deploy job before its fence: the sweep and the copy between their reads, and whether it skips the import |
| `astray` | history, no code: the families an unleased sweep overlooked or a late copy brought back (below) |
| `waits` | timing (below): whose short sequence an actor's long operation outlasts |

An alarm is a chain of actions starting and ending at `pc = "rest"`; `KillSlice` cuts it
anywhere, `FailRun` ends the run (`failRun`, which releases the lease), `Retire` and
`BeginRetire` are a fence's answer. `ClaimLease`, `PutLease`, `ReadRoles`, `MakeRoom` are
`beginFamilyUpload`; `PutFilter` is `stepRouting`; `RenewFence`, `RenewLease`, `ChunkFence`,
`PutChunk` are `stepPublish`; `ReadReplaced` to `SweepDrop` are `stepManifest`. The deploy's
actions follow `import-store.sh` in order: `BeginDeploy` is `store-age.ts`'s answer; `PruneReadManifests`,
`PruneReadLease` and `PruneDrop` are `prune-kv.ts`; `EnsureReadOwn`, `EnsureReadLegacy` and `EnsureCopy` are
`ensureFormatManifest`; then `SkipImport`, or `WriteDeployFence` and on through `beginDeployUpload`,
`seed-remote-kv.ts` and `finishDeployUpload`, whose sweep is the same function with the same three reads
(`DeploySweepRead`, `DeploySweepReadLease`, `DeploySweepDrop`).

### What the unleased writers cost: `astray`

The sweep before the fence decides on manifests and a lease that it read one after the other. A run
that publishes and releases its lease between the two reads is in neither answer, and its family, live by
then, is swept. So `ManifestComplete` as the code promises it (`EveryManifestComplete`) does not hold, and
neither does "a publish overwrites only what it read": a copy of the mirror that was read before a publish
and lands after it puts the older store back. These are the code's own gaps, each a finding or named in
the property. Past them, what matters is that nothing else is lost. `astray` is a history
variable that never enables or changes a step: `PruneReadLease` adds to it the families that are live, or
the live one's rollback, at that moment and in neither of the sweep's two reads
(`Overlooked`: at most the family that held the lease when the manifests were read, and its rollback), and
`EnsureCopy` the families a late copy covers or brings back (`PutBack`). `ManifestComplete` and
`RollbackKept` are of every family that is not astray; `StoreContract` counts the exceptions, one slip for
each deploy's sweep and one for its copy, and allows no other.

### State and code: the other modules

- `ImportWatchdog`: `pointer` is `import:coordinator`, `seen` what a colo that has not had the last put
  still reads; `co` the durable run of each coordinator; `tick` the tick in flight between its awaits;
  `mail` requests on their way. A tick goes from `readPointer` to `Act` or
  `StartEnds`, cut anywhere by `KillTick`. Time is an age in
  units of five minutes.
- `ImportRun`: `job` is the run record with `phase_attempts`, retries and rewinds; `d` the SQLite tables,
  cursors and the wasm heap; `kv` what the run wrote. `runAlarm` is the alarm before its slice,
  each slice is the `step*` method of its phase, and a slice commits, fails or is killed. A line, a
  draft and a row are one unit, so that the property can say which rows an archive has.
- `EngineStore`: `o` is the object (module state of `store.ts`, the two caches and recorded manifest of
  `store-cache.ts`, the wasm instance as the chunks fed to it, the loads and publisher's calls in
  flight); `fan` the notify phase. Everything between two awaits is one step.
- The serving modules keep one record each. `SiblingCalls`: `open` and `waiting` are the limiter,
  `calls` the `HedgePhase`s. `Gather`: `home` and `away` are the builds the region's and the neighbour's
  objects serve, `heard` is `PhaseBuild`, `reply` and `got` the builds that answered for keys and rows.
  `ShardController`: `iso` is `RegionState`, `ann` the announcement an object holds. `Placement`: `block` is
  the manifest's placement block with one object's `EngineMoveRecord`. `PartitionLookup`: `slots` are the
  promises of `firstDecided` or of a round. `WorkerCall`: `entry` is `CATALOG_TABLES`, `call` the state
  of `raceNeighbour`.

### Abstractions: `StorePublish`

- Timestamps are ordinals. Builds are stamped in strictly increasing order, clocks do not
  disagree, epochs and fences are counted.
- A family's size is its number of keys; every partition has the chunks between two members of
  `Starts`; `KvLimit` is what `KV_GUARD_BYTES` leaves after the stable keys. A run projects a
  tenth more than the store it replaces (`NEW_FAMILY_ALLOWANCE`), rounded up; a deploy knows its size.
- A list and the deletes planned from it are one step (nothing is decided between them); so are
  the three reads of one fence. The reads of a sweep are steps of their own: manifests, then lease, for a
  deploy's; manifests, then keys and lease, for a run's, which reads the lease last. The pointer, fence and lease are read one after the other in
  the code, each with its own verdict; the model decides from one moment. The window this hides is
  inside the one it keeps, between the fence and the write.
- KV reads are fresh. The code compares epochs rather than names because they may be stale; a
  stale pointer only delays a retirement.
- The alias, names and oracle-tag blobs, written before the manifest, are left out; so are the
  phases before a build is stamped and after its manifest, one step each (`build`, `post`), and
  the re-cut of a partition whose chunk compressed badly (`restartAtSafeCut`), which repeats puts.
- A deploy may skip its import over any store it could load (`UsableStore`); whether the store is
  superseded is Scryfall's dates, hence a choice. A preview build that is let through to an empty namespace, or
  forced, is a deploy that dies before it switches the code.
- A run for which nothing was heard for `STALE_IDLE_MS` is replaced in place by any trigger:
  `StartImport` is enabled in every phase while no alarm is in flight.

### Abstractions: the others

- Time is a choice wherever the code has a timer: a timer that is set may fire at any moment. Only
  `ImportWatchdog` counts it, because its decisions compare ages.
- `ImportWatchdog` covers less than a day, so no ledger entry expires; a tick lasts less than a unit.
- `ImportRun`: the wasm group is taken to be lost with a failed slice. Its bookkeeping of row and
  time budgets is a choice between going on and being over.
- `EngineStore` has one object and one build replaced by the next; a load past its deadline is kept as
  a second, abandoned one, of which there is at most one.
- `SiblingCalls`: peers' latencies are a choice, and so is whether a coordinator counts as busy.
- `Gather`: a row is its sort key; keys are distinct. Index lookups return the partitions that hold a
  match, of the build they were made for.
- `ShardController`: an isolate has one request out at a time; whether a reply shows saturation is a
  choice while the region is busy, which covers every threshold and the burst season.
- `Placement`: colos are known by their continent; one object of one region has a record; the health
  verdicts (distances, hedges, load times against replicas) are inputs.
- `PartitionLookup`: a filter answers for a key it was not built with anything at all.
- `WorkerCall`: a request is a catalog or a page; a cancelled request's calls settle nothing.

### Timing in `StorePublish`

The code relies on durations in two places, and says so. A deploy's fence must be in place long
enough (`DEPLOY_FENCE_SETTLE_MS`, kept fresh by `DEPLOY_FENCE_FRESH_MS`) for every coordinator
that read the old value to have finished the write that followed; and a replaced coordinator has
at most one write under way, while its successor first imports for tens of minutes before its
first key. The constant `Prompt` states that assumption: a *long operation* (an import before its
stamp, an upload, a settling fence) does not end before every *short sequence* under way at its
beginning. With `Prompt = FALSE` a sequence may stall for ever. No bound on the interleaving *within*
short sequences is assumed. The sweep and the copy before the fence are short sequences like the others.

`SerialDeploys` is that one deploy job is over before the next begins.

Neither is enforced by the code, and without either `ManifestComplete` fails:

- *Without `Prompt`*, with two coordinators: `stepManifest` checks its fences (4503) and then puts the manifest;
  `beginFamilyUpload` reads the manifests (1681) and then sweeps (1703). A coordinator that stalls between fence and
  put for its successor's whole import, and wakes between those two, publishes a family that the sweep then
  deletes. The in-alarm watchdog (`ALARM_WATCHDOG_MS`) resets an object that stalls for minutes, but
  not one whose platform stopped it.
- *With two deploys at once*: `deployStillHoldsLease` (`seed-remote-kv.ts` 403) and the puts after it are separate
  calls. Another deploy that takes the lease and sweeps between them leaves the first to write a manifest whose
  chunks are gone: the check narrows the race and does not close it.

## 3. What is checked

| Run | Instance | Result |
|---|---|---|
| `publish` | 2 coordinators (one failover), 1 deploy, 4 builds, one format | passes, 0.79 M states |
| `runs` | 3 coordinators, no deploy, 5 builds, 8 keys of room | passes, 0.65 M states |
| `formats` | 1 coordinator, 1 deploy that may bump the format, 4 builds, 8 keys of room, every best-effort step may fail | passes, 1.66 M states |
| `watchdog` | 1 failover a day, 2 nightly deliveries, 2 faults | passes, 0.34 M states |
| `chain` | 2 runs over 4 lines in 2 partitions, 2 versions of a dump, 1 fault | passes, 0.29 M states |
| `engine` | 1 object, 2 builds of 2 chunks, the second with an lz4 cache, 1 fault | passes, 2.56 M states |
| `serving` | the six serving machines, one per behaviour | passes, 0.36 M states |
| `prune` | 1 coordinator, 1 deploy, nothing fails or stalls | `EveryManifestComplete` violated |
| `downgrade` | 1 coordinator, 1 deploy of an older format | `DeployedCodeHasIndex` violated |
| `abandoned_load` | the instance of `engine` | `AbandonedTouchesNothing` violated |
| `pushed_record` | 1 object, 4 builds of 1 chunk, no fault | `PushedStands` violated |
| `warm` | the instance of `serving` with 3 shards | `ReadyAreWarm` violated |

### Bounds

`publish`, `runs`, `formats` and their violations use `MCStorePublish`. One partition of two chunks is
enough to have a chunk put behind a renewed lease and one behind the plain fence, a family half
uploaded, and a family whole. `MaxBuilds = 4` is the two builds of the initial store and two more, so that
any two of a run, its successor's and a deploy each upload a family, or one publishes while the deploy that
skips its import sweeps; `runs`, without a deploy, has three more, for both failovers. A third new build in
`publish` takes four times as long and passed as well (`MaxBuilds = 5`, 5.3 M states), and the proofs are for
any number. `MaxEpoch` 1 and 2 are one failover and a failover of a failover; a third adds an
object related to the newest as the first is. A second deploy in series meets the first only through
what it left in KV, as the initial states already do. Reaching `MaxBuilds` is why deadlock
checking stays on: the system never stops, since a trigger can always start a run.

`watchdog`: one failover reaches both the cap and the release of a replaced coordinator; two cron
deliveries are the nightly's and its duplicate, or one after a failover; two faults combine a wedge
with a lost message or a tick's death.

`chain`: four lines are two stream checkpoints and two batches of drafts, cut into slices that end
on and off the checkpoint grid; two partitions leave one to be half done while another is published;
the second run starts over whatever the first left. A killed slice or an eviction is no fault
and may happen anywhere; `MaxFaults` counts errors, a fence and a replaced dump.

`engine`: two builds make one publish; the second with `lz4` needs the cache it has to derive.
`pushed_record` needs four: the one recorded, one the object missed, one that KV's cache still answers
and the one pushed meanwhile.

`serving`: `Init` picks the machine, and the machines share no state, so the run is six explorations
in one. `SiblingCalls` has three siblings for two slots, so that originals and hedges queue behind each
other, one of them cooling. `Gather` has three partitions, a publish between builds of two and three
partitions in both directions and at the same count, and every placement of three rows among two
partitions as own, art-less and shared rows; pages at and past `DEEP_OFFSET_PROBE`, indexes absent, of
the build and of the next. `ShardController` has two isolates (one that knows and one that adopts) and
two shards; the warm-ups of two shards at once, which need a third, are the run `warm`, and with one
isolate and three shards TLC also checks `QuietFolds` and `WidthWasWarmed` (0.1 M states, by hand: with two
isolates it is beyond 17 M). `Placement` has three regions on three continents, of which one starts unserved, and nights
until each may have come back once. `PartitionLookup` takes keys held by no, one or two of three
partitions in either build, and oracle ids across a change from two to three partitions and back.
`WorkerCall` has two requests, which is an owner and a joiner, or two callers that add up strikes.

`CHECK_DEADLOCK FALSE` is given where a machine ends: a run (`chain`), an object after its publish
(`engine`, `abandoned_load`, `pushed_record`), a gather or a request (`serving`).

### Properties

Publishing:

- `ManifestComplete`: every manifest names a family whose chunks are all in KV, unless it is astray.
- `AtMostThreeFamilies`, `WithinByteGuard`: the namespace never outgrows what the plan paid for.
- `RollbackKept`: the family the live manifest replaced is whole, unless it is astray.
- `DeployKeepsLease`: nobody takes or overwrites the lease of a deploy under way.
- `SweepsSpareTheHolder`: no sweep touches the family the lease names, but a deploy's that read the lease too early.
- `NoLostPublish`: a publish overwrites only the manifest it read, and a late copy undoes one publish at most.
- `DeployedCodeHasIndex`: the deployed code finds a manifest of its own format.
- `ImplementsContract`: the whole implements `StoreContract`, with its counted slips.
- `WritersExclude`, the invariant that says why the above hold: which coordinators and
  deploys can be inside which sequence together, what each has in KV at that moment, and what the
  sweep before a fence must have seen of all of them.

Watchdog:

- `NoUndesignatedRun`: no coordinator runs before the pointer designates it.
- `CurrentNeverRetires`: the designated coordinator never believes it was replaced.
- `ReplacedForCause`: only two missed checks in a row, or a kick that did not help, replace it.
- `ListedUntilReleased`: a replaced object stays listed until it holds nothing.
- `ImportEnds`, `RetiredReleased` (liveness): a started import ends on some coordinator, unless the cap
  leaves a hopeless one; a replaced object that is not wedged for ever is released.

Import run:

- `ArchiveFaithful`: a published archive has exactly its partition's drafts, each once, in order.
- `FilterComplete`: a published routing filter has every key of the corpus.
- `TagsWhole`: the tag maps come from one version of their dump.
- `RunningIsArmed`: a run in flight has an alarm, but for two ways of losing it that are named.
- `RetireIsQuiet`: a retiring run writes nothing and does not fail.
- `PublishedGoesOn`: after the manifest no fault of the data, no ruling and no engine that does not answer fails a
  run; only errors of notify's own reads, which it does not count, do.
- `RunEnds` (liveness): every run ends.

Serving:

- `ServesWholeStore`: an object answers from one whole archive, the one its manifest names.
- `Converged`: after the fan-out, no object it reached serves an older build, unless its record gave way.
- `SlotsExact`, `GatherEnds`: the limiter's count is exact and a gather ends.
- `PageIsReference`: a page is made of answers and rows of one build (`PageOfOneBuild`), and it is the page of
  that whole build, rows, order and total, if at most one publish fell within its gather.
- `QuietFolds`: a quiet region folds to one shard.
- `RoutesServed`, `LeftStaysLeft`: aliases lead to served regions; a name given up stays so, but after a
  pin, an unreadable manifest, a build without the partition, or a return that no probe asked for.
- `LookupIsFanOut`: a lookup never misses what every build has, nor finds what none has.
- `RequestEnds`: a request that is not cancelled is answered or fails for a cause.

Each module has one `TypeOK` where its state is not one record of enumerated fields.

### Fairness

- `ImportWatchdog`: a tick goes on, mail is delivered, alarms fire and a put reaches every colo (weak),
  unless the object is wedged or the tick dies; time passes again and again (strong, since a tick in
  progress stops the clock). The platform delivers crons and alarms; faults are bounded, not fair.
- `ImportRun`: an armed alarm fires (weak). A retiring run's slice is at some time not killed (strong):
  kills repeat without end otherwise, and a retiring run has no retry budget to end it. Every
  other run ends though all its slices are killed.
- `EngineStore`: a deadline that is set fires.
- `SiblingCalls`: calls settle, because each has a deadline, and continuations run; no hedge timer is
  assumed to fire.
- `ShardController`: requests keep coming to each isolate and are answered, warm-ups have deadlines, time
  passes. Nothing is assumed of which shard a request goes to.
- `WorkerCall`: the request that is not cancelled takes its steps; no timer of the hedge is assumed.

### Where the code and its documentation disagree

- **A deploy's sweep deletes the live store** (`prune`). Every production deploy runs `prune-kv.ts` with no lease and
  before its fence. `sweepGenerationsByRole` reads the manifests (`deploy-upload.ts` 266), then the lease (276): a nightly run that
  publishes and releases in between is in neither answer, and its family is deleted, though `kv-retention.ts` says that
  "neither the sweep nor the byte guard ever deletes a live family". Readers then find a manifest whose chunks are gone
  until the next publish. With the lease read first, a holder that has released it since would be spared and one
  that released it before would be in the manifests.
- **A cold shard takes traffic** (`warm`). `markShardReady` admits every shard up to the one that answered, so a later
  shard's warm-up admits an earlier one that is still loading, or whose own was cancelled. The comments say that an unwarmed
  shard is "deliberately unreachable"; the test "out-of-order warm pings never admit a gap" has shard 1 in that case.
- **Going back to an older archive format** (`downgrade`): a nightly run retires the manifest that
  a rollback deploy has published and not switched to yet.
- **An abandoned load still writes** (`abandoned_load`): a load resumed after its deadline unloads the
  store its replacement installed, because `loadStore` unloads before its first fence check.
- **A pushed manifest overwritten by a read** (`pushed_record`): a load compares KV's manifest with the
  record it read before the await and then records KV's (`store.ts` 1427). A manifest that a prepare
  recorded in between is lost, though 1404-1410 says that a newer record "is not stale — it is the
  publish the coordinator just pushed, which has already counted this object as converged".

More observations, not in any run. The epoch of an object's name, documented as lowered only by a pin,
is lost with the placement block when the old manifest cannot be read, and with its record when the
partition was gone for a build; an alias removed because no served region fits reuses its old names.
A stale manifest makes a lookup miss a card in a partition it does not know. The comment on `NOTIFY_MAX_ATTEMPTS`
says that a published run proceeds after so many attempts at notify; only the barrier's errors are counted, and a
KV read, the listing of engines or the sweep of abandoned ones that keeps failing runs out of retries and fails
the run before its purge. `phase_attempts` alternates between one and two in a healthy chain. A trap while
a commit's announcement is awaited leaves an empty instance recorded as live. `LeftStaysLeft`,
`LookupIsFanOut`, `PublishedGoesOn` and `Converged` say where they leave these out.

And of publishing. With `EmptyStart = TRUE` nothing is swept until the first manifest
exists, so repeated failing first imports can leave four families; two live formats
and a mirror behind both can do so too. With `FenceReadsFail = TRUE` (every fence read of an
alarm fails and the run carries on) `ManifestComplete` does not hold. The sweep of a deploy reads the
lease before it lists the keys: a run that claims the lease between the two loses what it has put, which it
notices before its manifest (`SweepsSpareTheHolder` names that case). A copy of the mirror that lands after a
publish of its format undoes that publish (`NoLostPublish` names it), and the chunks of what it put back
may be gone with the next sweep; it takes a store that has no per-format key yet.

## 4. What is proved

| Theorem | States | Needs |
|---|---|---|
| `StorePublish_proofs!TypeCorrect` | `Spec => []TypeOK` | |
| `StorePublish_safety!WritersApart` | `Spec => []WritersExclude` | (*) |
| `StorePublish_safety!NoAbsentChunk` | `Spec => []ManifestComplete` | (*) |
| `StorePublish_safety!LeaseStaysWithDeploy` | `Spec => []DeployKeepsLease` | (*) |
| `StorePublish_safety!PublishImplementsContract` | `Spec => Contract!Spec`, the refinement | (*) |
| `StorePublish_promises!NoPublishLostFromOwnKey` | `Spec => NoLostPublish`, from a store with its format's own key | (*), `~CleanupFails`, `~Downgrades`, `~EmptyStart` |
| `StorePublish_promises!CodeHasIndex` | `Spec => []DeployedCodeHasIndex` | (*), `~Downgrades`, `~EmptyStart` |
| `StorePublish_promises!HolderStaysWhole` | `Spec => SweepsSpareTheHolder` | (*) |
| `StorePublish_promises!GuardHolds` | `Spec => []WithinByteGuard` | (*), `~CleanupFails`, `~EmptyStart`, room for two stores |
| `StorePublish_promises!FamiliesBounded` | never more families in KV than manifest keys and one | (*), `~CleanupFails`, `~EmptyStart` |
| `StorePublish_promises!ThreeFamilies` | `Spec => []AtMostThreeFamilies` | the same, one format |
| `StorePublish_rollback!RollbackStays` | `Spec => [](astray = {} => RollbackKept)` | (*), one format, room for two stores and the run's estimate of a third |
| `StorePublish_proofs!PlanSparesRoles` | a plan never retires a live family or the one in flight | |
| `StorePublish_proofs!PlanCapsFamilies` | what a plan leaves, with the family in flight, is at most three, or the live ones and that one | a live family |
| `StorePublish_proofs!PlanLeavesRoom` | a plan that does not refuse leaves room for what comes in | |
| `ImportWatchdog_proofs!TypeCorrect` | `Spec => []TypeOK` | |
| `ImportWatchdog_proofs!OnlyDesignatedRun` | `Spec => []NoUndesignatedRun` | |
| `ImportWatchdog_proofs!DesignatedGoesOn` | `Spec => []CurrentNeverRetires` | |
| `ImportWatchdog_proofs!RetiredStayListed` | `Spec => ListedUntilReleased` | |
| `ImportWatchdog_proofs!OnlyReplacedForCause` | `Spec => ReplacedForCause` | |
| `ImportRun_proofs!TypeCorrect` | `Spec => []TypeOK` | |
| `ImportRun_proofs!RunHasAlarm` | `Spec => []RunningIsArmed` | |
| `ImportRun_proofs!TagsFromOneDump` | `Spec => []TagsWhole` | |
| `ImportRun_proofs!FilterHasCorpus` | `Spec => []FilterComplete` | |
| `ImportRun_proofs!RetiresQuietly` | `Spec => RetireIsQuiet` | |
| `ImportRun_proofs!PublishedRunGoesOn` | `Spec => PublishedGoesOn` | |
| `EngineStore_proofs!TypeCorrect` | `Spec => []TypeOK` | |
| `EngineStore_proofs!WholeStoreOnly` | `Spec => []ServesWholeStore` | |
| `EngineStore_proofs!FanOutConverges` | `Spec => []Converged` | |
| `Serving_proofs!WidthComesOfWarmUps` | a region's spec implies `[]WidthWasWarmed` | |
| `Serving_proofs!RoutesAreServed` | the nights' spec implies `[]RoutesServed` | |
| `Serving_proofs!NamesNotReused` | the nights' spec implies `[]LeftStaysLeft` | |
| `Serving_proofs!SlotsAreExact` | the calls' spec implies `[]SlotsExact` | |
| `Serving_proofs!LookupsAreFanOut` | a lookup's initial states and steps imply `[]LookupIsFanOut` | |
| `Serving_proofs!PagesAreOfOneBuild` | a gather's initial states and steps imply `[]PageOfOneBuild`, the first part of `PageIsReference` | |

(*) `Prompt`, `SerialDeploys` and `~FenceReadsFail`: a short sequence of KV operations ends
within a long operation, deploy jobs are serial, and a fence that is read is read. Each is needed: the
traces without the first and the second are above (Timing), and a fence whose read fails lets a replaced run
carry on. Every theorem is for all values of the other constants:
the numbers of coordinators, deploys, formats, builds, chunks, lines, faults, regions, partitions, siblings
and slots, the limits and ceilings, the start, downgrades, whether best-effort reads, releases and sweeps fail. They rest on the
constants' named assumptions, which TLC evaluates in every run, and on nothing else.

The further hypotheses of `StorePublish_promises` say what the promise depends on.
`~CleanupFails` is that the best-effort reads, releases, retirements and sweeps succeed: a run that could
not read the manifests goes on without a sweep, or publishes over what it did not see. `~EmptyStart` is a
namespace with a store in it: before the first manifest nothing is swept. `MirrorBacked` is a
store with its format's own key, where `ensureFormatManifest` has nothing to copy.
`~Downgrades` is the run `downgrade`.

### The publish protocol

`TypeOK` is not inductive: that a put stays within a family's chunks, that a run's format is a
format and that what is written is a build need to know the phase each step of an alarm belongs
to. The inductive invariant of `TypeCorrect` is `Typed`: `TypeOK`, `SlicesFitPhases` and
`FormatChosen`. The proof has one step per action, on lemmas that say how an action that moves one
record of one actor leaves the others.

`ManifestComplete` is far from inductive: that a manifest about to be written names a whole family
has to survive every other writer's sweep. The inductive invariant is `Safe`: `Typed`,
`ManifestComplete` and `WritersExclude`, whose conjuncts say

- no two writers build the same family (`BuildsDistinct`);
- while a replaced coordinator is in an alarm, its successors have nothing in KV and wait for it
  (`RunsExclude`), so at most one coordinator is in one (`OneMidAlarm`);
- at each step of a deploy, what a coordinator that its fence does not cover can be doing
  (`Excluded`): nothing in KV while the fence settles, at rest while the deploy holds the lease,
  no further than its claim until the deploy's own sweep is over;
- whoever can go on with an upload holds the lease, or has published (`Backed`);
- the sweep before a fence, between its reads and its deletes, has seen every live family and every
  one that may be live before it is over, but for those astray (`SawEveryone`). This is where timing enters: a run
  that it has not seen still has an upload ahead that outlasts the sweep;
- whoever is about to publish has its whole family in KV, and whoever is about to sweep has seen
  every live family, but for those astray (`RunReady`, `DeployReady`).

The proof first sums up each of the twenty-four actions of a coordinator (`RunEffect`), the
fifteen of a deploy behind its fence (`JobEffect`) and the nine before it by what the other writers
can tell of it: who may leave rest and on what condition, whose lease may go, that keys of live
families survive, that manifests and keys are never changed by one step. It then shows the invariant kept by every step with such an effect.
The refinement uses the same effects: a step that moves manifests leaves the keys alone and some
manifest live, and a step that moves keys leaves every live family whole, hence unchanged. A sweep that
overlooks a family and a copy that comes late are slips, each of which spends one of `SlipsToCome`.

The promises, and the rollback, stand on `Safe`, each with an invariant of its own:

- `NoLostPublish`: `PublishersSaw`, that whoever is between its read of the replaced manifest and its write
  still has the one that is live. Its own key is the one it read, and no deploy is about to copy the mirror
  (`NoCopy`), which `Keyed`, `MirrorBacked` and `CopiesNothing` derive from the initial store.
- `DeployedCodeHasIndex`: `HasIndex`, that no run is of a newer format than the deployed one and no deploy of an
  older, that a deploy between its publish and its switch has its key, and that the deployed format
  has one or leads the mirror with every run in it.
- `SweepsSpareTheHolder`: `HolderNamed`, that a run about to sweep has its own family in the lease. A deploy's
  sweep spares what it saw live or in flight, and the property says no more of it, because no more is true.
- `WithinByteGuard`, `AtMostThreeFamilies`: `UploadsFit`, that whoever may still put a key has room for its
  whole family next to everything in KV. Two writers never have it at once by `Safe`; a replaced run at rest
  may have lost it, but will not put. `PlanLeavesRoom` and `PlanCapsFamilies` give the room after a
  sweep, provided that the guard was asked about a live store (`AskedOfLive`).
- `RollbackKept`: `Restores`, in `StorePublish_rollback`. With one format the primary is the format's own
  manifest, or the mirror before there is one (`OnePrimary`). What a publisher read is still what it replaces
  (`RunRestores`, `JobRestores`); a sweep under the lease has seen the roles as they are, and its plan has
  room for all of them (`PlanSparesRollback`). The sweep before a fence holds no lease: what it has seen has
  every family that is the rollback or that a run about to publish will make it (`PruneRestores`), for a run that
  has published gives its lease up and nobody has taken it since (`GivesUp`). The theorem speaks of
  the states with nothing astray; the runs check the property beyond them too, where only a rollback that
  is itself astray is excused.

`PlanCapsFamilies` rests on finite-set cardinality: the roles are at most live, rollback and
in flight, and `RollbackRole` gives the rollback up when it would be a fourth. `PlanLeavesRoom` adds sizes:
`Bytes` of disjoint sets of families add up, and what the guard subtracts is the rollback's.

### The watchdog

None of the properties is inductive: they speak of the pointer and the coordinators, and the tick
decides from what it read. `IInv` has one part per channel: the durable runs (`RunsSound`: a run was designated,
retires only for a newer epoch), the pointer (`PointerSound`), the tick's copy of it (`OnePointer`), requests
under way (`MailSound`), the release round (`Releasing`: a name neither awaited nor kept is gone), the answers a tick
may have at each step (`AnswersSound`), and where the suspect mark and a decision to fail over come
from (`MarkEarned`, `SuspectEarned`, `FailoverEarned`). The last showed `ReplacedForCause`, as first
stated, to be wrong: a tick that dies over the mark of an older check leaves it for the next, which may
replace the coordinator after one missed check of its own. The property names that case (`died`).

### The import run

`IInv` is `Data` for the SQLite tables and cursors, `Books` for the run record, `Store` for what
was written. `TagsSound` follows the dump: what is staged is a prefix of one version, over blobs the
reset has emptied, so a slice that runs twice appends nothing twice. `FilterSound` follows the corpus from lines to
drafts (`Packed`), batches (`Drafted`), routing keys of the batches scored. One lemma per phase step
says what it makes of each part, and kills, evictions, retries and a new run are lemmas of their own. For
`PublishedGoesOn` the record counts: in rulings every error is counted (`retries <= tries`), so they run out before
the retries do; in notify the tries stay below their ceiling, so a run out of retries had that many uncounted.

### The engine object

A step of the model is a chain of synchronous parts of the code, each an operator from objects to objects.
`LoadResult` and `LateResult` say what every part does to the object on behalf of the load in flight
and of an abandoned one; one lemma proves it per part, and two more take it to the invariant. `LoadSound` is
what makes a load safe to install: what is in the wasm instance is a prefix of its build, the whole of it
where it may be installed. `Converged` needs that the record stands from the prepare on (`RecordStands`) and
that from the commit on nothing older is served or loading (`Settled`), which is why a commit joins the
load in flight.

### The regions

`ShardsInv`: every width that is routed to, announced or on its way back is backed by a warm-up of a shard at or
above it. An isolate's own width is not, which is why replies and not widths are the induction's matter. That is
all the code keeps: `ReadyAreWarm` is false.
`NightsInv`: an alias leads to a region without one (`Routed`), and every name given up is of an earlier
generation, of an earlier epoch, or of the current ones while its region is not served (`Outlived`). That
a region left finds another one served when its probes fit it rests on the least index of a sequence that meets a
set, from the library's theorem on minima of well-founded relations.

### Calls, lookups and pages

The machines of `Serving` share no state, and each of these theorems is about one of them, with its own
assumption. `CallsAssumption` asks for a slot at least. `LayoutsAssumption` says that a build's rows are in its
partitions and that the coordinator has one of the partitions; `WorldsAssumption` the same of a lookup's keys, that
an oracle id is held where it hashes to by the partition count (`partition.ts`), that at one count a key that both
builds have stays where it is (the hash is of the card's oracle id, which a printing keeps), and that
the rule "sole" is asked only of ids that are held once.

`SlotsExact` is not inductive: what a step does to the count depends on the kind of call it ends.
`Account` adds that each call is in a shape the hedges can leave it in (`Sound`), that no row is asked for while
keys are (`KeysFirst`), and that each queued leg is in line once (`InLine`). A step is a chain
of parts (`release`, `hedge`, `finish`, ...) between which the count is off by one, so `Account(s, spare)` carries
the slots that are counted and held by nobody; a lemma per part says what it makes of `spare`, and an action
begins and ends at 0. `Issue` sends a phase's calls as the code does, as many as there are slots, and lines up the
others.

`LookupIsFanOut` is kept by `LookupInv`. A hint is where the manifest's build first has the key, if it has
it (`HintsRight`). Of one key (`Polled`), a card came from a partition that some build has it in, and a
partition that was passed over or knew nothing does not have it in every build; `Decides` is the lemma
that the answer made of that by `firstDecided` is then the right one. Of a batch (`Merged`), at one partition count a key
that both builds have is asked of its first holder in the first round and found there by its end (`FoundFirst`);
across a change of the count, an oracle id's owner by either count has been asked after two rounds (`FoundMoved`), for
which the manifest that is read again has to be the new one.

`PageOfOneBuild` is kept by `GatherInv`. While keys are asked for, `PassAsked` says whom the pass asks: the holders an
index of a build names, or all partitions of some width. When the keys are merged all answers are of one build
(`PageMade`), and rows are taken of no other. That nobody is left out is the matter of the last step,
`gatherPasses`. A listed or named page is served only if it is of the index's build. A full page is checked
by its width alone, against the store that the coordinator has by then; `FullAsked` says why
that is enough: the page's build is one the coordinator itself answered of, what it serves is
that build or a later one, and with one publish there are only two to tell apart. When it starts at the
second build's width it can no longer answer of the first; and when it repeats the pass, it serves the second
build for good.

With two publishes within one gather this fails, and so does the property: a gather that starts at the width of
the first build can be answered of a wider second one by every partition it asks; if the coordinator then swaps to a
third build, of the first's width, before the check, nothing looks wrong and a partition is left out. TLC finds
this with builds of 2, 3 and 2 partitions and no bound on the publishes. The comment on `gatherRun` says that
the check catches "a repartition between the two"; it compares with the store loaded when the answers are in, which need not be the
one they are of (the page has its `builtAt`). It takes two repartitions within the seconds of a
gather, and the property is stated for at most one publish.

### Only model-checked

- `RollbackKept` once another family is astray, and with more than one format. With two, TLC finds no
  violation while nothing fails, and one with failing cleanups: a
  retirement that has moved the mirror and then fails (`retireOlderFormats` answers what it read) leaves the
  sweep counting the old format's family as live, and the rollback would be a fourth. Past the room for two
  stores and a run's estimate of a third the guard gives the rollback up by design (`decideByteGuard`).
- `NoLostPublish` from a store with the mirror alone, where the deploys' copies can come late.
- `ArchiveFaithful`: what folds over sequences of drafts, batches and chunks compute, an induction over data. So is
  the second part of `PageIsReference`, that the merge of the partitions' answers is the whole build's page.
- Liveness: `ImportEnds`, `RetiredReleased`, `RunEnds`, `GatherEnds`, `QuietFolds`, `RequestEnds`. Liveness under
  fairness, and `ENABLED`, are out of the prover's reach.

## 5. Not modelled

- The query parser, the HTTP routes and their formatting, the Rust engine, codecs and size arithmetic,
  the encodings of the indexes: functions of their input without state that another step could
  meet. They are the larger part of the repository's lines, with generated tables and the parity,
  benchmark and load scripts, so that the modules cover the protocol code and about an eighth of all lines.
- Rulings and reference mirrors: keys rewritten in place by which nothing else decides.
- The edge caches in front of KV and of pages, beyond the order of the purge.
- Fuzzy names and autocomplete: merges of ranked lists, in one round.
- `sibling-split.ts`: the second half of a wide gather, run in a call of its own; it keeps `Gather`'s
  protocol and shares `SiblingCalls`' limiter.
- The sweep of abandoned objects (`sweepAbandonedEngines`, `retired-engine-sweep.ts`) and
  health reports: they decide by measured quiet, on objects nothing routes to.
- Two publishes within one gather are beyond the runs' layouts (not beyond the proof); more than one request of an isolate in flight to one region.

## 6. Plan

1. `RollbackKept` once another family is astray: `Restores` of the states where the roles are not.
2. `PageOfOneBuild` without its bound, should the check of `gatherPasses` come to compare builds rather than widths.
3. `ImplementsContract` composed with `EngineStore`: the readers' side instantiated from `StoreContract`, so that
   an object that follows the manifest loads.
4. The sweep of abandoned objects, composed with `Placement`: an object that is released is not
   the one a later night names.
