----------------------------- MODULE EngineStore -----------------------------
(***************************************************************************)
(* One engine object (src/engine/search-engine-do.ts) and the store it     *)
(* serves (src/engine/store.ts, store-cache.ts): loads started by requests *)
(* and by publishes, their deadline, the archive cache in the object's own *)
(* storage, the wasm instance the archive is fed into, and the two-step    *)
(* fan-out of the import coordinator that moves warm objects to the build  *)
(* it has published.                                                       *)
(*                                                                         *)
(* Everything between two awaits is one step.  An operator that takes and  *)
(* gives an object o is a synchronous part of a load.  Builds are numbered *)
(* in the order they are published; an archive is NChunks chunks, and what *)
(* is fed into the instance is kept as data.                               *)
(***************************************************************************)
EXTENDS Integers, Sequences, FiniteSets

CONSTANTS
    NChunks,              \* Chunks of an archive.
    Lz4Builds,            \* Builds whose manifest asks for the lz4 cache.
    NOTIFY_MAX_ATTEMPTS,
    MaxBuild, MaxFaults  \* Bounds.

ASSUME BoundsAssumption ==
    /\ {NChunks, NOTIFY_MAX_ATTEMPTS, MaxBuild} \subseteq Nat \ {0}
    /\ MaxFaults \in Nat /\ Lz4Builds \subseteq 1..MaxBuild

Builds == 1..MaxBuild
Chunks == 1..NChunks
(* The load in flight, and the last one abandoned, still running; the      *)
(* publisher's call, and one whose answer it has lost.                     *)
LoadIds == {"load", "late"}
RpcIds == {"call", "orphan"}
NoChunk == <<0, 0>>
None == <<NoChunk>>
Whole(v) == [i \in Chunks |-> <<v, i>>]

VARIABLES
    o,    \* The object: memory, wasm instance, storage, loads and calls.
    kv,   \* The published manifest, and the object's announcement.
    fan,  \* The coordinator's notify phase.
    faults

vars == <<o, kv, fan, faults>>

NoLoad ==
    [pc |-> "none", src |-> 0, fb |-> 0, from |-> "kv", early |-> 0, bad |-> FALSE, n |-> 0,
     told |-> FALSE, asked |-> FALSE]
NoRpc == [kind |-> "none", pc |-> "none", v |-> 0, n |-> 0]
NoDisk == [live |-> 0, ann |-> 0, gz |-> [v \in Builds |-> {}], lz4 |-> [v \in Builds |-> <<>>]]

(* What an isolate starts with: memory only, the storage stays.  Two marks *)
(* of the model remember, since a manifest was last pushed, that a load    *)
(* fell back from the record of it to an older build, and that the record  *)
(* was overwritten with an older one.                                      *)
Awake(disk) ==
    [current |-> 0, prefetching |-> 0, backoff |-> FALSE, fill |-> 0,
     fellBack |-> FALSE, overwritten |-> FALSE, buf |-> None, store |-> None, disk |-> disk,
     load |-> NoLoad, late |-> NoLoad, call |-> NoRpc, orphan |-> NoRpc]

Init ==
    /\ o = Awake(NoDisk)
    /\ kv = [manifest |-> 1, announced |-> FALSE]
    /\ fan = [pc |-> "over", target |-> 1, attempts |-> 0, told |-> FALSE, missed |-> FALSE]
    /\ faults = 0

Fault == faults < MaxFaults /\ faults' = faults + 1

(* Reads of the manifest may answer from a cache a minute behind, however  *)
(* long the publish is ago.                                                *)
readManifest == {kv.manifest, kv.manifest - 1} \ {0}

-----------------------------------------------------------------------------
(* The archive cache.                                                      *)

pruneCacheOlderThan(disk, gz, lz4, limit) ==
    [disk EXCEPT !.gz = [v \in Builds |-> IF v <= limit /\ v \notin gz THEN {} ELSE @[v]],
                 !.lz4 = [v \in Builds |-> IF v <= limit /\ v \notin lz4 THEN <<>> ELSE @[v]]]
dropOlderBuilds(disk, v) == pruneCacheOlderThan(disk, {v}, {v}, v)

isCompressedCached(disk, v) == disk.gz[v] = Chunks
isLz4Cached(disk, v) == disk.lz4[v] # <<>>

(* Where a load reads an archive from.                                     *)
localCompressedArchive(disk, v) ==
    IF isLz4Cached(disk, v) THEN "lz4" ELSE IF isCompressedCached(disk, v) THEN "gz" ELSE "kv"

(* A copy that could not be read is dropped.                               *)
invalidate(disk, from, v) ==
    IF from = "lz4" THEN [disk EXCEPT !.lz4[v] = <<>>]
    ELSE IF from = "gz" THEN [disk EXCEPT !.gz[v] = {}] ELSE disk

(* After the archive was installed: an incomplete copy is dropped, older   *)
(* builds give way to a complete one.                                      *)
commit(disk, from, v) ==
    IF from # "kv" THEN disk
    ELSE IF v \in Lz4Builds \/ isCompressedCached(disk, v) THEN dropOlderBuilds(disk, v)
    ELSE [disk EXCEPT !.gz[v] = {}]

-----------------------------------------------------------------------------
(* A load.                                                                 *)

(* Mutant: an abandoned load goes on.                                      *)
checkFence_Never(s, l) == TRUE

checkFence(s, l) == l = "load"

(* The end of a load, for whoever awaits it.                               *)
Told(call, pc) == IF call.pc = "await" THEN [call EXCEPT !.pc = pc] ELSE call
Outcome(s, l, pc) ==
    IF l = "late" THEN s ELSE [s EXCEPT !.call = Told(@, pc), !.orphan = Told(@, pc)]
Stalled(s, l) == [Outcome(s, l, "failed") EXCEPT ![l] = NoLoad]
Failed(s, l) ==
    [Stalled(s, l) EXCEPT !.backoff = IF s[l].asked /\ l = "load" THEN TRUE ELSE @]
Returned(s, l) ==
    [Outcome(s, l, "acked") EXCEPT ![l] = NoLoad, !.backoff = IF s[l].asked /\ l = "load" THEN FALSE ELSE @]

(* Feeding begins: the archive is read from the best copy, the store being *)
(* served is unloaded, and the instance is given a new buffer.             *)
Feed(s, l, v) ==
    LET from == localCompressedArchive(s.disk, v)
        t == [s EXCEPT !.disk = IF from = "kv" THEN dropOlderBuilds(@, v) ELSE @,
                       !.store = IF s.current # 0 THEN None ELSE @,
                       !.current = 0,
                       ![l] = [@ EXCEPT !.pc = "feed", !.src = v, !.from = from, !.n = 0, !.early = 0,
                                              !.told = s.disk.ann = v]]
    IN  IF s.current = v THEN Returned(s, l)
        ELSE IF ~checkFence(t, l) THEN Stalled(t, l)
        ELSE [t EXCEPT !.buf = <<>>]

(* An error of the archive: a cached copy is dropped, and a manifest that  *)
(* was preferred to KV's own gives way to it.                              *)
LoadError(s, l) ==
    LET ld == s[l]
        t == [s EXCEPT !.disk = invalidate(@, ld.from, ld.src)]
    IN  IF ld.fb = 0 THEN Failed(t, l)
        ELSE Feed([t EXCEPT !.disk.live = ld.fb, ![l].fb = 0, !.fellBack = TRUE], l, ld.fb)

(* The archive is whole in the instance; what the cache took is committed. *)
Install(s, l) ==
    LET ld == s[l]
    IN  IF ~checkFence(s, l) THEN Stalled(s, l)
        ELSE IF s.buf = None \/ Len(s.buf) # NChunks THEN LoadError(s, l)
        ELSE [s EXCEPT !.store = s.buf, !.buf = None, !.disk = commit(@, ld.from, ld.src),
                       ![l].pc = "announce"]

(* The manifest is decided.  An archive fed ahead of the decision is used  *)
(* if it is the one decided for.                                           *)
Decided(s, l, v) ==
    LET ld == s[l]
        t == [s EXCEPT !.store = IF s.current # 0 THEN None ELSE @, !.current = 0,
                       ![l] = [@ EXCEPT !.src = v, !.told = s.disk.ann = v]]
    IN  IF ld.early # v \/ s.current = v THEN Feed(s, l, v)
        ELSE IF ld.bad THEN LoadError(t, l)
        ELSE Install(t, l)

(* The one load in flight, up to its first await.                          *)
startLoad(s, known, asked) ==
    LET t == [s EXCEPT !.load = [NoLoad EXCEPT !.pc = "read", !.asked = asked]]
    IN  IF known # 0 THEN Feed(t, "load", known)
        ELSE IF s.disk.live # 0 THEN [t EXCEPT !.load.pc = "spec", !.load.src = s.disk.live]
        ELSE t

(* A request that finds no store starts a load, unless one is in flight or *)
(* the last one failed a moment ago.                                       *)
getEngine ==
    /\ o.current = 0 /\ o.load.pc = "none" /\ ~o.backoff
    /\ o' = startLoad(o, 0, TRUE)
    /\ UNCHANGED <<kv, fan, faults>>

BackoffEnds ==
    /\ o.backoff /\ o' = [o EXCEPT !.backoff = FALSE]
    /\ UNCHANGED <<kv, fan, faults>>

(* The archive last pushed is fed from the cache while the manifest is     *)
(* being read.                                                             *)
speculativeLocalFeed(l) ==
    LET ld == o[l]
        from == localCompressedArchive(o.disk, ld.src)
    IN  /\ ld.pc = "spec"
        /\ o' = IF o.current # 0 \/ from = "kv" THEN [o EXCEPT ![l].pc = "truth"]
                ELSE IF ~checkFence(o, l) THEN Stalled(o, l)
                ELSE [o EXCEPT !.buf = <<>>,
                               ![l] = [@ EXCEPT !.pc = "early", !.from = from, !.early = ld.src, !.n = 0]]
        /\ UNCHANGED <<kv, fan, faults>>

(* The next chunk of a copy in the cache: gone if its rows were dropped.   *)
CachedChunk(s, ld) ==
    IF ld.from = "lz4" THEN (IF isLz4Cached(s.disk, ld.src) THEN s.disk.lz4[ld.src][ld.n + 1] ELSE NoChunk)
    ELSE IF ld.n + 1 \in s.disk.gz[ld.src] THEN <<ld.src, ld.n + 1>> ELSE NoChunk

EarlyChunk(l) ==
    LET ld == o[l]
        chunk == CachedChunk(o, ld)
        failed == [o EXCEPT !.disk = invalidate(@, ld.from, ld.src),
                            ![l] = [@ EXCEPT !.pc = "truth", !.bad = TRUE]]
    IN  /\ ld.pc = "early"
        /\ o' = IF ld.n = NChunks THEN [o EXCEPT ![l].pc = "truth"]
                ELSE IF chunk = NoChunk THEN failed
                ELSE IF ~checkFence(o, l) THEN Stalled(o, l)
                ELSE IF o.buf = None THEN failed
                ELSE [o EXCEPT !.buf = Append(@, chunk), ![l].n = @ + 1]
        /\ UNCHANGED <<kv, fan, faults>>

(* The manifest in KV arrives, or the read of it fails.  The newer of it   *)
(* and the record read when the load began is loaded.  KV's own stays      *)
(* behind as a fallback, or takes the place of the record, whatever was    *)
(* pushed there since.                                                     *)
TruthArrives(l) ==
    LET ld == o[l]
    IN  /\ ld.pc = "truth"
        /\ \/ Fault /\ o' = Decided(o, l, ld.src)
           \/ /\ UNCHANGED faults
              /\ \E truth \in readManifest:
                   o' = IF truth = ld.src THEN Decided(o, l, truth)
                        ELSE IF ld.src > truth THEN Decided([o EXCEPT ![l].fb = truth], l, ld.src)
                        ELSE Decided([o EXCEPT !.disk.live = truth,
                                               !.overwritten = @ \/ truth < o.disk.live], l, truth)
        /\ UNCHANGED <<kv, fan>>

(* Without a pushed manifest KV's is the only one.                         *)
ManifestArrives(l) ==
    /\ o[l].pc = "read"
    /\ \/ Fault /\ o' = Failed(o, l)
       \/ UNCHANGED faults /\ \E truth \in readManifest: o' = Feed(o, l, truth)
    /\ UNCHANGED <<kv, fan>>

(* The next block.  From KV, it is first put into the cache, unless that   *)
(* will hold the lz4 copy.                                                 *)
feedStore(l) ==
    LET ld == o[l]
        cached == ld.from # "kv"
        chunk == IF cached THEN CachedChunk(o, ld) ELSE <<ld.src, ld.n + 1>>
        t == IF cached \/ ld.src \in Lz4Builds THEN o ELSE [o EXCEPT !.disk.gz[ld.src] = @ \cup {ld.n + 1}]
    IN  /\ ld.pc = "feed" /\ ld.n < NChunks
        /\ \/ ~cached /\ Fault /\ o' = LoadError(o, l)
           \/ /\ UNCHANGED faults
              /\ o' = IF chunk = NoChunk THEN LoadError(o, l)
                      ELSE IF ~checkFence(t, l) THEN Stalled(t, l)
                      ELSE IF t.buf = None \/ Len(t.buf) = NChunks THEN LoadError(t, l)
                      ELSE [t EXCEPT !.buf = Append(@, chunk), ![l].n = @ + 1]
        /\ UNCHANGED <<kv, fan>>

Finish(l) ==
    /\ o[l].pc = "feed" /\ o[l].n = NChunks
    /\ o' = Install(o, l)
    /\ UNCHANGED <<kv, fan, faults>>

(* The announcement begun with the feed lands, or is given up.             *)
announceSelfOnce(l) ==
    LET ld == o[l]
    IN  /\ ld.pc \in {"feed", "announce"} /\ ~ld.told
        /\ \/ /\ UNCHANGED faults /\ kv' = [kv EXCEPT !.announced = TRUE]
              /\ o' = [o EXCEPT ![l].told = TRUE, !.disk.ann = ld.src]
           \/ Fault /\ o' = [o EXCEPT ![l].told = TRUE] /\ UNCHANGED kv
        /\ UNCHANGED fan

(* The load becomes the object's store.                                    *)
Commit(l) ==
    LET ld == o[l]
    IN  /\ ld.pc = "announce" /\ ld.told
        /\ o' = IF ~checkFence(o, l) THEN Stalled(o, l)
                ELSE [Returned(o, l) EXCEPT
                        !.current = ld.src,
                        !.fill = IF ld.from # "lz4" /\ ld.src \in Lz4Builds THEN ld.src ELSE @]
        /\ UNCHANGED <<kv, fan, faults>>

(* A compressed copy is made of the installed store, if it still is.       *)
fillLz4Cache ==
    LET v == o.fill
        pruned == pruneCacheOlderThan(o.disk, {}, {v}, v)
    IN  /\ v # 0
        /\ o' = IF o.current # v \/ isLz4Cached(o.disk, v) THEN [o EXCEPT !.fill = 0]
                ELSE [o EXCEPT !.fill = 0, !.disk = IF o.store = None THEN pruned
                                                    ELSE [pruned EXCEPT !.lz4[v] = o.store]]
        /\ UNCHANGED <<kv, fan, faults>>

(* The deadline: the load is abandoned, and whoever awaits it is told.  (A *)
(* load abandoned before it is not heard of again.)                        *)
Deadline ==
    /\ o.load.pc # "none"
    /\ o' = [Outcome(o, "load", "failed") EXCEPT !.load = NoLoad, !.late = [o.load EXCEPT !.asked = FALSE]]
    /\ UNCHANGED <<kv, fan, faults>>

loadStore(l) ==
    \/ speculativeLocalFeed(l) \/ EarlyChunk(l) \/ TruthArrives(l) \/ ManifestArrives(l)
    \/ feedStore(l) \/ Finish(l) \/ announceSelfOnce(l) \/ Commit(l)

-----------------------------------------------------------------------------
(* The publisher's calls.                                                  *)

Acked(s, r) == [s EXCEPT ![r].pc = "acked"]

(* Mutant: a call does not wait for the load it finds in flight.           *)
settleInFlightLoad_Skipped == TRUE

(* A call goes on once no load is in flight.                               *)
settleInFlightLoad == o.load.pc = "none"

(* Prepare: a warm object fetches the build into its cache; a cold one     *)
(* keeps nothing older.                                                    *)
preparePublish(r) ==
    LET v == o[r].v
        held == isLz4Cached(o.disk, v) \/ isCompressedCached(o.disk, v)
    IN  /\ o[r].kind = "prepare" /\ o[r].pc = "settle" /\ settleInFlightLoad
        /\ \/ /\ o.current = 0
              /\ o' = Acked([o EXCEPT !.disk = dropOlderBuilds(@, v)], r)
           \/ o.current = v /\ o' = Acked(o, r)
           \/ /\ o.current \notin {0, v} /\ o.prefetching = 0
              /\ o' = IF held THEN Acked([o EXCEPT !.disk = dropOlderBuilds(@, v)], r)
                      ELSE [o EXCEPT !.disk = dropOlderBuilds(@, v), !.prefetching = v,
                                     ![r].pc = "prefetch", ![r].n = 0]
           \/ /\ o.current \notin {0, v} /\ o.prefetching = v
              /\ o' = [o EXCEPT ![r].pc = "join"]
        /\ UNCHANGED <<kv, fan, faults>>

(* One chunk.  A prefetch that fails leaves the swap to read KV.           *)
prefetchOnce(r) ==
    LET c == o[r]
        t == [o EXCEPT !.disk.gz[c.v] = @ \cup {c.n + 1}, ![r].n = @ + 1]
    IN  /\ c.pc = "prefetch"
        /\ \/ Fault /\ o' = Acked([o EXCEPT !.prefetching = 0], r)
           \/ /\ UNCHANGED faults
              /\ o' = IF c.n + 1 < NChunks THEN t
                      ELSE Acked([t EXCEPT !.prefetching = 0, !.disk = dropOlderBuilds(@, c.v)], r)
        /\ UNCHANGED <<kv, fan>>

JoinedPrefetch(r) ==
    /\ o[r].pc = "join" /\ o.prefetching # o[r].v /\ o' = Acked(o, r)
    /\ UNCHANGED <<kv, fan, faults>>

(* Commit: a warm object swaps to the build last pushed to it.             *)
commitPublish(r) ==
    LET v == o.disk.live
    IN  /\ o[r].kind = "commit" /\ o[r].pc = "settle" /\ settleInFlightLoad
        /\ \/ /\ o.current \in {0, v} \/ v = 0
              /\ o' = Acked(o, r)
           \/ /\ o.current \notin {0, v} /\ v # 0
              /\ o' = startLoad([o EXCEPT ![r].pc = "await"], v, FALSE)
        /\ UNCHANGED <<kv, fan, faults>>

(* The storage of a shard above the fan-out is given back.                 *)
releaseCache(s) == [s EXCEPT !.disk = NoDisk]

Calls == \E r \in RpcIds: preparePublish(r) \/ prefetchOnce(r) \/ JoinedPrefetch(r) \/ commitPublish(r)

-----------------------------------------------------------------------------
(* The coordinator's notify phase, for this object.                        *)

(* The live set is listed once per attempt.                                *)
NotifyBegins ==
    /\ fan.pc \in {"idle", "retry"} /\ fan.target = kv.manifest
    /\ fan' = [fan EXCEPT !.pc = IF kv.announced THEN "prepare" ELSE "done", !.told = kv.announced]
    /\ UNCHANGED <<o, kv, faults>>

SendPrepare ==
    /\ fan.pc = "prepare" /\ fan' = [fan EXCEPT !.pc = "preparing"]
    /\ o' = [o EXCEPT !.disk.live = fan.target, !.fellBack = FALSE, !.overwritten = FALSE,
                      !.call = [NoRpc EXCEPT !.kind = "prepare", !.pc = "settle", !.v = fan.target]]
    /\ UNCHANGED <<kv, faults>>

SendCommit ==
    /\ fan.pc = "commit" /\ fan' = [fan EXCEPT !.pc = "committing"]
    /\ o' = [o EXCEPT !.call = [NoRpc EXCEPT !.kind = "commit", !.pc = "settle"]]
    /\ UNCHANGED <<kv, faults>>

Sent == fan.pc \in {"preparing", "committing"}

(* Mutant: one attempt too many.                                           *)
barrier_OneMore ==
    fan' = IF fan.attempts < NOTIFY_MAX_ATTEMPTS THEN [fan EXCEPT !.pc = "retry", !.attempts = @ + 1]
           ELSE [fan EXCEPT !.pc = "done", !.attempts = @ + 1, !.missed = TRUE]

(* A call that failed costs an attempt; after the last, the phase goes on  *)
(* without the object.                                                     *)
barrier ==
    fan' = IF fan.attempts + 1 < NOTIFY_MAX_ATTEMPTS THEN [fan EXCEPT !.pc = "retry", !.attempts = @ + 1]
           ELSE [fan EXCEPT !.pc = "done", !.attempts = @ + 1, !.missed = TRUE]

Answer ==
    /\ Sent /\ o.call.pc \in {"acked", "failed"}
    /\ o' = [o EXCEPT !.call = NoRpc]
    /\ IF o.call.pc = "failed" THEN barrier
       ELSE fan' = [fan EXCEPT !.pc = IF @ = "preparing" THEN "commit" ELSE "done"]
    /\ UNCHANGED <<kv, faults>>

(* The answer is lost: the call goes on in the object.                     *)
LoseAnswer ==
    /\ Sent /\ o.orphan.pc = "none" /\ Fault /\ barrier
    /\ o' = [o EXCEPT !.call = NoRpc, !.orphan = o.call]
    /\ UNCHANGED kv

OrphanEnds ==
    /\ o.orphan.pc \in {"acked", "failed"} /\ o' = [o EXCEPT !.orphan = NoRpc]
    /\ UNCHANGED <<kv, fan, faults>>

(* After the commits, a shard above the fan-out is released.               *)
Release ==
    /\ fan.pc = "done" /\ fan.told /\ Fault
    /\ o' = releaseCache(o) /\ kv' = [kv EXCEPT !.announced = FALSE] /\ fan' = [fan EXCEPT !.pc = "over"]

(* The next night's manifest.                                              *)
Publish ==
    /\ fan.pc \in {"idle", "done", "over"} /\ kv.manifest < MaxBuild
    /\ fan.target = kv.manifest
    /\ kv' = [kv EXCEPT !.manifest = @ + 1]
    /\ fan' = [fan EXCEPT !.pc = "idle", !.target = @ + 1, !.attempts = 0, !.told = FALSE, !.missed = FALSE]
    /\ UNCHANGED <<o, faults>>

(* A trap drops the wasm instance, and with it the store being served; an  *)
(* eviction drops everything in memory.                                    *)
dropInstance ==
    /\ Fault /\ o' = [o EXCEPT !.buf = None, !.store = None, !.current = 0]
    /\ UNCHANGED <<kv, fan>>

Evict ==
    /\ Fault /\ o' = [Awake(o.disk) EXCEPT !.fellBack = o.fellBack, !.overwritten = o.overwritten]
    /\ IF Sent THEN barrier ELSE UNCHANGED fan
    /\ UNCHANGED kv

Notify ==
    \/ NotifyBegins \/ SendPrepare \/ SendCommit \/ Answer \/ LoseAnswer \/ OrphanEnds \/ Release
Next ==
    \/ getEngine \/ BackoffEnds \/ fillLz4Cache \/ Calls \/ Notify \/ Publish
    \/ dropInstance \/ Evict
    \/ Deadline \/ \E l \in LoadIds: loadStore(l)

(* Timers fire.  Nothing is assumed of the reads a load waits for.         *)
Fairness == WF_vars(Deadline)
Spec == Init /\ [][Next]_vars /\ Fairness

-----------------------------------------------------------------------------
(* The types of the object's state.                                        *)
Numbers == 0..MaxBuild
Archives == Seq(Numbers \X (0..NChunks))
Loads ==
    [pc: {"none", "read", "spec", "early", "truth", "feed", "announce"}, src: Numbers, fb: Numbers,
     from: {"kv", "gz", "lz4"}, early: Numbers, bad: BOOLEAN, n: 0..NChunks, told: BOOLEAN, asked: BOOLEAN]
Rpcs ==
    [kind: {"none", "prepare", "commit"}, v: Numbers, n: 0..NChunks,
     pc: {"none", "settle", "prefetch", "join", "await", "acked", "failed"}]
Disks == [live: Numbers, ann: Numbers, gz: [Builds -> SUBSET Chunks], lz4: [Builds -> Archives]]
Objects ==
    [current: Numbers, prefetching: Numbers, backoff: BOOLEAN, fill: Numbers, fellBack: BOOLEAN,
     overwritten: BOOLEAN, buf: Archives, store: Archives, disk: Disks,
     load: Loads, late: Loads, call: Rpcs, orphan: Rpcs]
Fans ==
    [pc: {"idle", "prepare", "preparing", "commit", "committing", "retry", "done", "over"},
     target: Builds, attempts: 0..NOTIFY_MAX_ATTEMPTS, told: BOOLEAN, missed: BOOLEAN]
TypeOK ==
    /\ o \in Objects /\ fan \in Fans
    /\ kv \in [manifest: Builds, announced: BOOLEAN] /\ faults \in 0..MaxFaults

(* The object never answers from a part of an archive, a mix of two or     *)
(* another build than the one its manifest names, and keeps no such copy,  *)
(* however a swap, a cold load, an abandoned load, a prefetch, a trap and  *)
(* an eviction interleave.  (An instance lost to a trap answers errors.)   *)
ServesWholeStore ==
    /\ o.current # 0 => o.store \in {Whole(o.current), None}
    /\ \A v \in Builds: o.disk.lz4[v] \in {<<>>, Whole(v)}

(* Once the coordinator has had every answer, an object it told of the     *)
(* build serves no older one, unless the build's archive failed it since,  *)
(* or a load put an older manifest in the place of the one it was told of. *)
Converged ==
    fan.pc = "done" /\ fan.told /\ ~fan.missed =>
        o.current \in {0, fan.target} \/ o.fellBack \/ o.overwritten

(* What the tiebreak of a load is said to ensure: an object told of a      *)
(* build does not go back to an older one that KV still answers.           *)
PushedStands ==
    fan.pc = "done" /\ fan.told /\ ~fan.missed => o.current \in {0, fan.target} \/ o.fellBack

(* What the fence is said to ensure: a load that was abandoned touches     *)
(* neither the instance nor the store being served.                        *)
AbandonedTouchesNothing ==
    [][loadStore("late") => <<o'.store, o'.buf, o'.current>> = <<o.store, o.buf, o.current>>]_vars
=============================================================================
