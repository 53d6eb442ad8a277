-------------------------- MODULE EngineStore_proofs --------------------------
(***************************************************************************)
(* An engine object answers from one whole build, and follows a publish:   *)
(* EngineStore's type invariant, ServesWholeStore and Converged, for every *)
(* number of builds, chunks, attempts and faults.                          *)
(*                                                                         *)
(* A load is a chain of synchronous parts, each an operator from objects   *)
(* to objects.  LoadResult and LateResult say what every such part does to *)
(* the object on behalf of the load in flight and of an abandoned one; a   *)
(* lemma proves it for each part, and LoadKeeps and LateKeeps take it from *)
(* there to the invariant.                                                 *)
(***************************************************************************)
EXTENDS EngineStore, TLAPS

(* The first n chunks of an archive.                                       *)
Prefix(v, n) == [i \in 1..n |-> <<v, i>>]

(* The lz4 copies are whole.                                               *)
DiskSound(disk) == \A v \in Builds: disk.lz4[v] \in {<<>>, Whole(v)}
(* The store being served is the build it is said to be, unless a trap     *)
(* took it.                                                                *)
StoreSound(s) == s.current # 0 => s.store \in {Whole(s.current), None}
(* From the moment its manifest is known, a load names a build.            *)
LateSound(ld) == ld.pc \notin {"none", "read"} => ld.src \in Builds
(* Only a prepare fetches, and only a commit waits for a load.             *)
CallSound(c) ==
    /\ c.kind = "prepare" => c.v \in Builds
    /\ c.pc \in {"prefetch", "join"} => c.kind = "prepare"
    /\ c.pc = "prefetch" => c.n < NChunks
    /\ c.pc = "await" => c.kind = "commit"
(* What holds of an object at every point of a synchronous part.           *)
Base(s) ==
    /\ s \in Objects /\ DiskSound(s.disk) /\ StoreSound(s)
    /\ LateSound(s.late) /\ CallSound(s.call) /\ CallSound(s.orphan)
(* What holds of the load in flight between two steps: nothing is served   *)
(* beside it, and what is in the instance is a prefix of its build, the    *)
(* whole of it once it was installed, or once it was fed ahead of the      *)
(* decision without an error.                                              *)
LoadSound(s) ==
    /\ s.load.pc # "none" => s.current = 0
    /\ LateSound(s.load)
    /\ s.load.pc = "spec" => s.load.early = 0
    /\ s.load.pc = "early" => s.load.early = s.load.src
    /\ s.load.pc \in {"early", "feed"} => s.buf \in {None, Prefix(s.load.src, s.load.n)}
    /\ s.load.pc = "truth" /\ s.load.early # 0 /\ ~s.load.bad =>
           s.load.early = s.load.src /\ s.buf \in {None, Whole(s.load.src)}
    /\ s.load.pc = "announce" => s.store \in {Whole(s.load.src), None}

(* Since the last push, the record of it gave way to an older build.       *)
GaveWay == o.fellBack \/ o.overwritten
Converging == fan.pc = "done" /\ fan.told /\ ~fan.missed
(* The notify phase is for the build last published, has an attempt left   *)
(* while it goes on, and awaits the call it has sent.                      *)
FanSound ==
    /\ fan.target = kv.manifest
    /\ fan.pc \notin {"done", "over"} => fan.attempts < NOTIFY_MAX_ATTEMPTS
    /\ fan.pc = "preparing" => o.call.kind = "prepare"
    /\ fan.pc = "committing" => o.call.kind = "commit"
(* From the prepare on, the object keeps the record it was given.          *)
RecordStands ==
    fan.pc \in {"preparing", "commit", "committing"} \/ Converging =>
        o.disk.live = fan.target \/ GaveWay
(* From the commit on, no older build is served, and none is being loaded: *)
(* the commit waited for every load that began before it, and those after  *)
(* it start from the record.                                               *)
Settled ==
    (fan.pc = "committing" /\ o.call.pc \in {"await", "acked"}) \/ Converging =>
        \/ GaveWay
        \/ /\ o.current \in {0, fan.target}
           /\ o.load.pc # "none" => o.load.pc # "read" /\ o.load.src = fan.target

IInv == TypeOK /\ Base(o) /\ LoadSound(o) /\ FanSound /\ RecordStands /\ Settled

-----------------------------------------------------------------------------
(* Bounds, and what follows of them for arithmetic.                        *)
LEMMA Small ==
    /\ MaxBuild \in Nat /\ NChunks \in Nat \ {0} /\ 0 \in Numbers /\ Builds \subseteq Numbers
    /\ 0 \in 0..NChunks /\ 0 \notin Builds
    /\ \A v \in Numbers: v # 0 => v \in Builds
BY BoundsAssumption DEF Numbers, Builds

(* What the instance holds grows by the next chunk, and is the whole       *)
(* archive after the last.                                                 *)
LEMMA Prefixes ==
    /\ None \in Archives /\ <<>> \in Archives
    /\ \A v \in Numbers: \A n \in 0..NChunks:
           /\ Prefix(v, n) \in Archives /\ Len(Prefix(v, n)) = n
           /\ n < NChunks => Append(Prefix(v, n), <<v, n + 1>>) = Prefix(v, n + 1)
    /\ \A v \in Numbers:
           /\ Whole(v) = Prefix(v, NChunks) /\ Whole(v) \in Archives
           /\ Prefix(v, 0) = <<>>
           /\ \A n \in 0..NChunks: n < NChunks => Whole(v)[n + 1] = <<v, n + 1>>
<1>1. None \in Archives /\ <<>> \in Archives
  BY Small DEF None, NoChunk, Archives
<1>2. ASSUME NEW v \in Numbers, NEW n \in 0..NChunks
      PROVE  /\ Prefix(v, n) \in Archives /\ Len(Prefix(v, n)) = n
             /\ n < NChunks => Append(Prefix(v, n), <<v, n + 1>>) = Prefix(v, n + 1)
  <2>1. n \in Nat /\ n <= NChunks
    BY Small
  <2>2. Prefix(v, n) \in Archives /\ Len(Prefix(v, n)) = n
    BY <2>1, Small DEF Prefix, Archives
  <2>3. ASSUME n < NChunks PROVE Append(Prefix(v, n), <<v, n + 1>>) = Prefix(v, n + 1)
    BY <2>1, <2>3, Small DEF Prefix
  <2> QED BY <2>2, <2>3
<1>3. ASSUME NEW v \in Numbers
      PROVE  /\ Whole(v) = Prefix(v, NChunks)
             /\ Prefix(v, 0) = <<>>
             /\ \A n \in 0..NChunks: n < NChunks => Whole(v)[n + 1] = <<v, n + 1>>
  BY Small DEF Prefix, Whole, Chunks
<1>4. NChunks \in 0..NChunks
  BY Small
<1> QED BY <1>1, <1>2, <1>3, <1>4

(* The parts of the archive cache keep its copies whole, and the record.   *)
LEMMA PruneKeeps ==
    ASSUME NEW disk \in Disks, DiskSound(disk), NEW gz, NEW lz4, NEW limit
    PROVE  LET d == pruneCacheOlderThan(disk, gz, lz4, limit)
           IN  d \in Disks /\ DiskSound(d) /\ d.live = disk.live /\ d.ann = disk.ann
BY Prefixes DEF pruneCacheOlderThan, Disks, DiskSound

LEMMA DropKeeps ==
    ASSUME NEW disk \in Disks, DiskSound(disk), NEW v
    PROVE  LET d == dropOlderBuilds(disk, v)
           IN  d \in Disks /\ DiskSound(d) /\ d.live = disk.live /\ d.ann = disk.ann
BY PruneKeeps DEF dropOlderBuilds

LEMMA InvalidateKeeps ==
    ASSUME NEW disk \in Disks, DiskSound(disk), NEW from, NEW v \in Builds
    PROVE  LET d == invalidate(disk, from, v)
           IN  d \in Disks /\ DiskSound(d) /\ d.live = disk.live /\ d.ann = disk.ann
BY Prefixes DEF invalidate, Disks, DiskSound

LEMMA CommitKeeps ==
    ASSUME NEW disk \in Disks, DiskSound(disk), NEW from, NEW v \in Builds
    PROVE  LET d == commit(disk, from, v)
           IN  d \in Disks /\ DiskSound(d) /\ d.live = disk.live /\ d.ann = disk.ann
<1> DEFINE d == commit(disk, from, v)
<1>1. \/ d = disk \/ d = dropOlderBuilds(disk, v) \/ d = [disk EXCEPT !.gz[v] = {}]
  BY DEF commit
<1>2. ASSUME d = [disk EXCEPT !.gz[v] = {}]
      PROVE  d \in Disks /\ DiskSound(d) /\ d.live = disk.live /\ d.ann = disk.ann
  BY <1>2 DEF Disks, DiskSound
<1> QED BY <1>1, <1>2, DropKeeps

-----------------------------------------------------------------------------
(* A call is left alone, or told the end of the load it waits for.         *)
CallKept(c, d) ==
    /\ d \in Rpcs /\ d.kind = c.kind /\ d.v = c.v /\ d.n = c.n
    /\ d.pc = c.pc \/ (c.pc = "await" /\ d.pc \in {"acked", "failed"})
(* Store, cache and marks are left alone.                                  *)
Same(s, t) ==
    /\ t.current = s.current /\ t.store = s.store /\ t.buf = s.buf /\ t.disk = s.disk
    /\ t.fellBack = s.fellBack /\ t.overwritten = s.overwritten
(* A load has ended, and with it the wait of the calls; an abandoned one   *)
(* has ended, and nobody is told.                                          *)
Ended(s, t) ==
    /\ t \in Objects /\ Same(s, t) /\ t.load = NoLoad /\ t.late = s.late
    /\ CallKept(s.call, t.call) /\ CallKept(s.orphan, t.orphan)
LateEnded(s, t) ==
    /\ t \in Objects /\ Same(s, t) /\ t.late = NoLoad /\ t.load = s.load
    /\ t.call = s.call /\ t.orphan = s.orphan

(* Nothing in flight.                                                      *)
LEMMA Idle == NoLoad \in Loads /\ NoLoad.pc = "none" /\ NoRpc \in Rpcs /\ CallSound(NoRpc)
BY Small DEF NoLoad, NoRpc, Loads, Rpcs, CallSound

(* Who awaits a load, and how it ends.                                     *)
LEMMA ToldKeeps ==
    ASSUME NEW c \in Rpcs, NEW pc \in {"acked", "failed"}
    PROVE  CallKept(c, Told(c, pc))
BY DEF Rpcs, Told, CallKept

LEMMA KeptSound ==
    ASSUME NEW c, NEW d, CallSound(c), CallKept(c, d)
    PROVE  CallSound(d)
BY DEF CallKept, CallSound

LEMMA OutcomeKeeps ==
    ASSUME NEW s \in Objects, NEW pc \in {"acked", "failed"}
    PROVE  LET t == Outcome(s, "load", pc)
           IN  /\ t \in Objects /\ Same(s, t) /\ t.load = s.load /\ t.late = s.late
               /\ CallKept(s.call, t.call) /\ CallKept(s.orphan, t.orphan)
<1> DEFINE c == Told(s.call, pc)
           d == Told(s.orphan, pc)
<1>1. s.call \in Rpcs /\ s.orphan \in Rpcs
  BY DEF Objects
<1>2. CallKept(s.call, c) /\ CallKept(s.orphan, d) /\ c \in Rpcs /\ d \in Rpcs
  BY <1>1, ToldKeeps DEF CallKept
<1>3. Outcome(s, "load", pc) = [s EXCEPT !.call = c, !.orphan = d]
  BY DEF Outcome
<1> HIDE DEF c, d
<1> QED BY <1>2, <1>3 DEF Objects, Same

LEMMA EndedBackoff ==
    ASSUME NEW s, NEW t, NEW b \in BOOLEAN
    PROVE  /\ Ended(s, t) => Ended(s, [t EXCEPT !.backoff = b])
           /\ LateEnded(s, t) => LateEnded(s, [t EXCEPT !.backoff = b])
BY DEF Ended, LateEnded, Same, Objects

LEMMA LoadEnds ==
    ASSUME NEW s \in Objects
    PROVE  /\ Ended(s, Stalled(s, "load")) /\ Ended(s, Failed(s, "load"))
           /\ Ended(s, Returned(s, "load"))
<1>1. ASSUME NEW pc \in {"acked", "failed"}
      PROVE  Ended(s, [Outcome(s, "load", pc) EXCEPT !.load = NoLoad])
  <2> DEFINE t == Outcome(s, "load", pc)
  <2>1. /\ t \in Objects /\ Same(s, t) /\ t.load = s.load /\ t.late = s.late
        /\ CallKept(s.call, t.call) /\ CallKept(s.orphan, t.orphan)
    BY OutcomeKeeps
  <2> HIDE DEF t
  <2> DEFINE r == [t EXCEPT !.load = NoLoad]
  <2>2. /\ r \in Objects /\ r.load = NoLoad /\ r.late = t.late /\ r.call = t.call
        /\ r.orphan = t.orphan /\ Same(t, r)
    BY <2>1, Idle DEF Objects, Same
  <2> HIDE DEF r
  <2>3. Ended(s, r)
    BY <2>1, <2>2 DEF Ended, Same
  <2> QED BY <2>3 DEF t, r
<1>2. Ended(s, Stalled(s, "load"))
  BY <1>1 DEF Stalled
<1>3. Ended(s, Failed(s, "load"))
  <2> DEFINE t == Stalled(s, "load")
             b == IF s.load.asked /\ "load" = "load" THEN TRUE ELSE t.backoff
  <2>1. t.backoff \in BOOLEAN
    BY <1>2 DEF Ended, Objects
  <2>2. Failed(s, "load") = [t EXCEPT !.backoff = b]
    BY DEF Failed
  <2>3. Ended(s, t)
    BY <1>2
  <2> HIDE DEF t
  <2>4. b \in BOOLEAN
    BY <2>1
  <2> HIDE DEF b
  <2> QED BY <2>2, <2>3, <2>4, EndedBackoff
<1>4. Ended(s, Returned(s, "load"))
  <2> DEFINE u == Outcome(s, "load", "acked")
             t == [u EXCEPT !.load = NoLoad]
             b == IF s.load.asked /\ "load" = "load" THEN FALSE ELSE u.backoff
  <2>1. u \in Objects
    BY OutcomeKeeps
  <2>2. b \in BOOLEAN
    BY <2>1 DEF Objects
  <2>3. Ended(s, t)
    BY <1>1
  <2>4. Ended(s, [t EXCEPT !.backoff = b])
    BY <2>2, <2>3, EndedBackoff
  <2>5. Returned(s, "load") = [u EXCEPT !.load = NoLoad, !.backoff = b]
    BY DEF Returned
  <2> HIDE DEF u, b
  <2>6. [u EXCEPT !.load = NoLoad, !.backoff = b] = [t EXCEPT !.backoff = b]
    BY <2>1 DEF Objects
  <2> QED BY <2>4, <2>5, <2>6
<1> QED BY <1>2, <1>3, <1>4

LEMMA LateEnds ==
    ASSUME NEW s \in Objects
    PROVE  /\ LateEnded(s, Stalled(s, "late")) /\ LateEnded(s, Failed(s, "late"))
           /\ LateEnded(s, Returned(s, "late"))
<1> DEFINE t == [s EXCEPT !.late = NoLoad]
<1>1. LateEnded(s, t)
  BY Idle DEF LateEnded, Same, Objects
<1>2. t.backoff \in BOOLEAN /\ t.backoff = s.backoff
  BY DEF Objects
<1>3. Stalled(s, "late") = t
  BY DEF Stalled, Outcome
<1>4. Failed(s, "late") = [t EXCEPT !.backoff = t.backoff]
  BY <1>3 DEF Failed
<1>5. Returned(s, "late") = [t EXCEPT !.backoff = t.backoff]
  BY DEF Returned, Outcome, Objects
<1> HIDE DEF t
<1> QED BY <1>1, <1>2, <1>3, <1>4, <1>5, EndedBackoff

-----------------------------------------------------------------------------
(* What a part does for the load in flight, that goes on with build v: the *)
(* object stays sound, and but for a fallback the record stays as it is    *)
(* and the load ends or names v.                                           *)
LoadResult(s, t, v) ==
    /\ Base(t) /\ LoadSound(t)
    /\ t.late = s.late /\ t.overwritten = s.overwritten
    /\ CallKept(s.call, t.call) /\ CallKept(s.orphan, t.orphan)
    /\ \/ t.fellBack
       \/ /\ t.fellBack = s.fellBack /\ t.disk.live = s.disk.live /\ t.current \in {0, s.current}
          /\ t.load.pc = "none" \/ (t.load.pc # "read" /\ t.load.src = v)
(* What a part does for an abandoned load: it feeds nothing and installs   *)
(* nothing, but may unload the store and spoil the record.                 *)
LateResult(s, t) ==
    /\ t \in Objects /\ DiskSound(t.disk) /\ LateSound(t.late)
    /\ t.load = s.load /\ t.buf = s.buf /\ t.overwritten = s.overwritten
    /\ t.call = s.call /\ t.orphan = s.orphan
    /\ \/ t.current = s.current /\ t.store = s.store
       \/ t.current = 0 /\ s.current # 0
    /\ t.fellBack \/ (t.fellBack = s.fellBack /\ t.disk.live = s.disk.live)

LEMMA FieldTypes ==
    ASSUME NEW s \in Objects
    PROVE  /\ s.disk \in Disks /\ s.load \in Loads /\ s.late \in Loads
           /\ s.call \in Rpcs /\ s.orphan \in Rpcs /\ s.current \in Numbers
           /\ s.buf \in Archives /\ s.store \in Archives
BY DEF Objects

LEMMA EndedResult ==
    ASSUME NEW s, NEW t, NEW v, Base(s), Ended(s, t)
    PROVE  LoadResult(s, t, v)
<1>1. CallSound(t.call) /\ CallSound(t.orphan)
  BY KeptSound DEF Base, Ended
<1> QED
  BY <1>1, Idle DEF Base, Ended, LoadResult, LoadSound, Same, StoreSound, LateSound

LEMMA LateEndedResult ==
    ASSUME NEW s, NEW t, DiskSound(s.disk), LateEnded(s, t)
    PROVE  LateResult(s, t)
BY Idle DEF LateEnded, LateResult, Same, LateSound

(* The parts of a load, one by one.                                        *)
LEMMA FeedLoad ==
    ASSUME NEW s, Base(s), NEW v \in Builds, s.current # v
    PROVE  LoadResult(s, Feed(s, "load", v), v) /\ Feed(s, "load", v).load.pc = "feed"
<1> DEFINE from == localCompressedArchive(s.disk, v)
           told == s.disk.ann = v
           ld == [s.load EXCEPT !.pc = "feed", !.src = v, !.from = from, !.n = 0, !.early = 0,
                                !.told = told]
           disk == IF from = "kv" THEN dropOlderBuilds(s.disk, v) ELSE s.disk
           store == IF s.current # 0 THEN None ELSE s.store
           t == [s EXCEPT !.disk = disk, !.store = store, !.current = 0, !.load = ld, !.buf = <<>>]
<1>1. s \in Objects /\ DiskSound(s.disk)
  BY DEF Base
<1>2. disk \in Disks /\ DiskSound(disk) /\ disk.live = s.disk.live
  BY <1>1, FieldTypes, DropKeeps
<1>3. store \in Archives
  BY <1>1, FieldTypes, Prefixes
<1>4. /\ ld \in Loads /\ ld.pc = "feed" /\ ld.src = v /\ ld.n = 0
  BY <1>1, FieldTypes, Small DEF Loads, localCompressedArchive
<1>5. Feed(s, "load", v) = t
  BY <1>1 DEF Feed, checkFence, Objects
<1> HIDE DEF ld, disk, store, from, told
<1>6. /\ t \in Objects /\ t.disk = disk /\ t.store = store /\ t.current = 0 /\ t.load = ld
      /\ t.buf = <<>> /\ t.late = s.late /\ t.call = s.call /\ t.orphan = s.orphan
      /\ t.fellBack = s.fellBack /\ t.overwritten = s.overwritten
  BY <1>1, <1>2, <1>3, <1>4, Small, Prefixes DEF Objects
<1> HIDE DEF t
<1>7. <<>> = Prefix(v, 0)
  BY Small, Prefixes
<1>8. Base(t) /\ LoadSound(t)
  BY <1>2, <1>4, <1>6, <1>7 DEF Base, LoadSound, StoreSound, LateSound
<1>9. CallKept(s.call, t.call) /\ CallKept(s.orphan, t.orphan)
  BY <1>1, <1>6, FieldTypes DEF CallKept
<1> QED BY <1>2, <1>4, <1>5, <1>6, <1>8, <1>9 DEF LoadResult

LEMMA FeedLate ==
    ASSUME NEW s \in Objects, DiskSound(s.disk), LateSound(s.late), NEW v \in Builds
    PROVE  LateResult(s, Feed(s, "late", v))
<1> DEFINE from == localCompressedArchive(s.disk, v)
           told == s.disk.ann = v
           ld == [s.late EXCEPT !.pc = "feed", !.src = v, !.from = from, !.n = 0, !.early = 0,
                                !.told = told]
           disk == IF from = "kv" THEN dropOlderBuilds(s.disk, v) ELSE s.disk
           store == IF s.current # 0 THEN None ELSE s.store
           t == [s EXCEPT !.disk = disk, !.store = store, !.current = 0, !.late = ld]
<1>2. disk \in Disks /\ DiskSound(disk) /\ disk.live = s.disk.live
  BY FieldTypes, DropKeeps
<1>3. store \in Archives
  BY FieldTypes, Prefixes
<1>4. ld \in Loads
  BY FieldTypes, Small DEF Loads, localCompressedArchive
<1>5. Feed(s, "late", v) = IF s.current = v THEN Returned(s, "late") ELSE Stalled(t, "late")
  BY DEF Feed, checkFence
<1> HIDE DEF ld, disk, from, told
<1>6. /\ t \in Objects /\ t.disk = disk /\ t.store = store /\ t.current = 0 /\ t.load = s.load
      /\ t.buf = s.buf /\ t.call = s.call /\ t.orphan = s.orphan
      /\ t.fellBack = s.fellBack /\ t.overwritten = s.overwritten
  BY <1>2, <1>3, <1>4, Small DEF Objects
<1> HIDE DEF t
<1>7. LateEnded(s, Returned(s, "late")) /\ LateEnded(t, Stalled(t, "late"))
  BY <1>6, LateEnds
<1>8. LateResult(s, Returned(s, "late"))
  BY <1>7, LateEndedResult
<1>9. LateResult(t, Stalled(t, "late"))
  BY <1>2, <1>6, <1>7, LateEndedResult
<1>10. LateResult(s, Stalled(t, "late"))
  BY <1>2, <1>6, <1>7, <1>9 DEF LateResult, LateEnded, Same
<1> QED BY <1>5, <1>8, <1>10

LEMMA LoadErrorLoad ==
    ASSUME NEW s, Base(s), s.current = 0, s.load.src \in Builds
    PROVE  LoadResult(s, LoadError(s, "load"), s.load.src)
<1> DEFINE disk == invalidate(s.disk, s.load.from, s.load.src)
           t == [s EXCEPT !.disk = disk]
           fb == s.load.fb
           back == [disk EXCEPT !.live = fb]
           ld == [s.load EXCEPT !.fb = 0]
           u == [s EXCEPT !.disk = back, !.load = ld, !.fellBack = TRUE]
<1>1. s \in Objects /\ DiskSound(s.disk) /\ fb \in Numbers /\ s.load \in Loads
  BY FieldTypes DEF Base, Loads
<1>2. disk \in Disks /\ DiskSound(disk) /\ disk.live = s.disk.live
  BY <1>1, FieldTypes, InvalidateKeeps
<1>3. LoadError(s, "load") = IF fb = 0 THEN Failed(t, "load") ELSE Feed(u, "load", fb)
  BY <1>1 DEF LoadError, Objects
<1>4. back \in Disks /\ DiskSound(back)
  BY <1>1, <1>2 DEF Disks, DiskSound
<1>5. ld \in Loads
  BY <1>1, Small DEF Loads
<1> HIDE DEF disk, back, ld, fb
<1>6. /\ t \in Objects /\ t.disk = disk /\ t.store = s.store /\ t.current = s.current /\ t.load = s.load
      /\ t.buf = s.buf /\ t.late = s.late /\ t.call = s.call /\ t.orphan = s.orphan
      /\ t.fellBack = s.fellBack /\ t.overwritten = s.overwritten
  BY <1>1, <1>2 DEF Objects
<1>7. /\ u \in Objects /\ u.disk = back /\ u.store = s.store /\ u.current = s.current
      /\ u.buf = s.buf /\ u.late = s.late /\ u.call = s.call /\ u.orphan = s.orphan
      /\ u.fellBack = TRUE /\ u.overwritten = s.overwritten
  BY <1>1, <1>4, <1>5 DEF Objects
<1> HIDE DEF t, u
<1>8. CASE fb = 0
  <2>1. Base(t)
    BY <1>2, <1>6 DEF Base, StoreSound
  <2>2. LoadResult(t, Failed(t, "load"), s.load.src)
    BY <2>1, <1>6, LoadEnds, EndedResult
  <2> QED BY <1>2, <1>3, <1>6, <1>8, <2>2 DEF LoadResult
<1>9. CASE fb # 0
  <2>1. Base(u)
    BY <1>4, <1>7 DEF Base, StoreSound
  <2>2. fb \in Builds /\ u.current # fb
    BY <1>1, <1>7, <1>9, Small
  <2>3. LoadResult(u, Feed(u, "load", fb), fb)
    BY <2>1, <2>2, FeedLoad
  <2> QED BY <1>3, <1>7, <1>9, <2>3 DEF LoadResult
<1> QED BY <1>8, <1>9

LEMMA LoadErrorLate ==
    ASSUME NEW s \in Objects, DiskSound(s.disk), LateSound(s.late), s.late.src \in Builds
    PROVE  LateResult(s, LoadError(s, "late"))
<1> DEFINE disk == invalidate(s.disk, s.late.from, s.late.src)
           t == [s EXCEPT !.disk = disk]
           fb == s.late.fb
           back == [disk EXCEPT !.live = fb]
           ld == [s.late EXCEPT !.fb = 0]
           u == [s EXCEPT !.disk = back, !.late = ld, !.fellBack = TRUE]
<1>1. fb \in Numbers /\ s.late \in Loads
  BY FieldTypes DEF Loads
<1>2. disk \in Disks /\ DiskSound(disk) /\ disk.live = s.disk.live
  BY FieldTypes, InvalidateKeeps
<1>3. LoadError(s, "late") = IF fb = 0 THEN Failed(t, "late") ELSE Feed(u, "late", fb)
  BY DEF LoadError, Objects
<1>4. back \in Disks /\ DiskSound(back)
  BY <1>1, <1>2 DEF Disks, DiskSound
<1>5. ld \in Loads /\ LateSound(ld)
  BY <1>1, Small DEF Loads, LateSound
<1> HIDE DEF disk, back, ld, fb
<1>6. /\ t \in Objects /\ t.disk = disk /\ t.store = s.store /\ t.current = s.current /\ t.load = s.load
      /\ t.buf = s.buf /\ t.late = s.late /\ t.call = s.call /\ t.orphan = s.orphan
      /\ t.fellBack = s.fellBack /\ t.overwritten = s.overwritten
  BY <1>1, <1>2 DEF Objects
<1>7. /\ u \in Objects /\ u.disk = back /\ u.store = s.store /\ u.current = s.current
      /\ u.buf = s.buf /\ u.late = ld /\ u.load = s.load /\ u.call = s.call /\ u.orphan = s.orphan
      /\ u.fellBack = TRUE /\ u.overwritten = s.overwritten
  BY <1>1, <1>4, <1>5 DEF Objects
<1> HIDE DEF t, u
<1>8. CASE fb = 0
  <2>1. LateResult(t, Failed(t, "late"))
    BY <1>2, <1>6, LateEnds, LateEndedResult
  <2> QED BY <1>2, <1>3, <1>6, <1>8, <2>1 DEF LateResult
<1>9. CASE fb # 0
  <2>1. LateResult(u, Feed(u, "late", fb))
    BY <1>1, <1>4, <1>5, <1>7, <1>9, Small, FeedLate
  <2> QED BY <1>3, <1>7, <1>9, <2>1 DEF LateResult
<1> QED BY <1>8, <1>9

LEMMA InstallLoad ==
    ASSUME NEW s, Base(s), s.current = 0, s.load.src \in Builds,
           s.load.pc = "truth" \/ s.load.pc = "feed",
           s.buf # None /\ Len(s.buf) = NChunks => s.buf = Whole(s.load.src)
    PROVE  LoadResult(s, Install(s, "load"), s.load.src)
<1> DEFINE disk == commit(s.disk, s.load.from, s.load.src)
           ld == [s.load EXCEPT !.pc = "announce"]
           t == [s EXCEPT !.store = s.buf, !.buf = None, !.disk = disk, !.load = ld]
<1>1. s \in Objects /\ DiskSound(s.disk) /\ s.load \in Loads
  BY FieldTypes DEF Base
<1>2. disk \in Disks /\ DiskSound(disk) /\ disk.live = s.disk.live
  BY <1>1, FieldTypes, CommitKeeps
<1>3. ld \in Loads /\ ld.pc = "announce" /\ ld.src = s.load.src
  BY <1>1 DEF Loads
<1>4. \/ Install(s, "load") = LoadError(s, "load")
      \/ Install(s, "load") = t /\ s.buf = Whole(s.load.src)
  BY <1>1 DEF Install, checkFence, Objects
<1> HIDE DEF disk, ld
<1>5. /\ t \in Objects /\ t.disk = disk /\ t.store = s.buf /\ t.current = s.current /\ t.load = ld
      /\ t.late = s.late /\ t.call = s.call /\ t.orphan = s.orphan
      /\ t.fellBack = s.fellBack /\ t.overwritten = s.overwritten
  BY <1>1, <1>2, <1>3, FieldTypes, Prefixes DEF Objects
<1> HIDE DEF t
<1>6. ASSUME s.buf = Whole(s.load.src) PROVE LoadResult(s, t, s.load.src)
  <2>1. Base(t) /\ LoadSound(t)
    BY <1>2, <1>3, <1>5, <1>6 DEF Base, LoadSound, StoreSound, LateSound
  <2>2. CallKept(s.call, t.call) /\ CallKept(s.orphan, t.orphan)
    BY <1>1, <1>5, FieldTypes DEF CallKept
  <2> QED BY <1>2, <1>3, <1>5, <2>1, <2>2 DEF LoadResult
<1> QED BY <1>4, <1>6, LoadErrorLoad

LEMMA DecidedLoad ==
    ASSUME NEW s, Base(s), s.current = 0, s.load.pc = "truth", NEW v \in Builds,
           s.load.early = v /\ ~s.load.bad => s.buf \in {None, Whole(v)}
    PROVE  LoadResult(s, Decided(s, "load", v), v)
<1> DEFINE told == s.disk.ann = v
           ld == [s.load EXCEPT !.src = v, !.told = told]
           t == [s EXCEPT !.store = s.store, !.current = 0, !.load = ld]
<1>1. s \in Objects /\ s.load \in Loads
  BY FieldTypes DEF Base
<1>2. ld \in Loads /\ ld.src = v /\ ld.pc = s.load.pc
  BY <1>1, Small DEF Loads
<1>3. Decided(s, "load", v) = IF s.load.early # v \/ s.current = v THEN Feed(s, "load", v)
                              ELSE IF s.load.bad THEN LoadError(t, "load")
                              ELSE Install(t, "load")
  BY <1>1 DEF Decided, Objects
<1> HIDE DEF ld
<1>4. /\ t \in Objects /\ t.disk = s.disk /\ t.store = s.store /\ t.current = s.current /\ t.load = ld
      /\ t.buf = s.buf /\ t.late = s.late /\ t.call = s.call /\ t.orphan = s.orphan
      /\ t.fellBack = s.fellBack /\ t.overwritten = s.overwritten
  BY <1>1, <1>2, Small DEF Objects
<1> HIDE DEF t
<1>5. Base(t)
  BY <1>4 DEF Base, StoreSound
<1>6. s.current # v
  BY Small
<1>7. ASSUME NEW u, LoadResult(t, u, v) PROVE LoadResult(s, u, v)
  BY <1>4, <1>7 DEF LoadResult
<1>8. CASE s.load.early # v
  BY <1>3, <1>6, <1>8, FeedLoad
<1>9. CASE s.load.early = v /\ s.load.bad
  BY <1>2, <1>3, <1>4, <1>5, <1>6, <1>7, <1>9, LoadErrorLoad
<1>10. CASE s.load.early = v /\ ~s.load.bad
  BY <1>2, <1>3, <1>4, <1>5, <1>6, <1>7, <1>10, InstallLoad
<1> QED BY <1>1, <1>8, <1>9, <1>10 DEF Loads

LEMMA DecidedLate ==
    ASSUME NEW s \in Objects, DiskSound(s.disk), LateSound(s.late), NEW v \in Builds
    PROVE  LateResult(s, Decided(s, "late", v))
<1> DEFINE told == s.disk.ann = v
           ld == [s.late EXCEPT !.src = v, !.told = told]
           store == IF s.current # 0 THEN None ELSE s.store
           t == [s EXCEPT !.store = store, !.current = 0, !.late = ld]
<1>1. s.late \in Loads
  BY FieldTypes
<1>2. ld \in Loads /\ ld.src = v /\ LateSound(ld)
  BY <1>1, Small DEF Loads, LateSound
<1>3. Decided(s, "late", v) = IF s.late.early # v \/ s.current = v THEN Feed(s, "late", v)
                              ELSE IF s.late.bad THEN LoadError(t, "late")
                              ELSE Install(t, "late")
  BY DEF Decided
<1>4. store \in Archives
  BY FieldTypes, Prefixes
<1> HIDE DEF ld
<1>5. /\ t \in Objects /\ t.disk = s.disk /\ t.store = store /\ t.current = 0 /\ t.load = s.load
      /\ t.buf = s.buf /\ t.late = ld /\ t.call = s.call /\ t.orphan = s.orphan
      /\ t.fellBack = s.fellBack /\ t.overwritten = s.overwritten
  BY <1>2, <1>4, Small DEF Objects
<1> HIDE DEF t
<1>6. LateResult(t, LoadError(t, "late"))
  BY <1>2, <1>5, LoadErrorLate
<1>7. Install(t, "late") = Stalled(t, "late")
  BY DEF Install, checkFence
<1>8. LateResult(t, Install(t, "late"))
  BY <1>5, <1>7, LateEnds, LateEndedResult
<1>9. ASSUME NEW u, LateResult(t, u) PROVE LateResult(s, u)
  BY <1>5, <1>9 DEF LateResult
<1> QED BY <1>3, <1>6, <1>8, <1>9, FeedLate

-----------------------------------------------------------------------------
(* The invariant, from its parts.                                          *)
LEMMA IInvNext ==
    ASSUME TypeOK', Base(o'), LoadSound(o'), FanSound', RecordStands', Settled'
    PROVE  IInv'
BY DEF IInv, Base, LoadSound, DiskSound, StoreSound, LateSound, CallSound

LEMMA FaultKeeps ==
    ASSUME TypeOK, Fault \/ UNCHANGED faults
    PROVE  faults' \in 0..MaxFaults
BY BoundsAssumption DEF TypeOK, Fault

(* A part run for the load in flight keeps the invariant. It may start     *)
(* from an object whose record was just replaced: by the manifest of the   *)
(* build last published, or by an older one, and that is marked.           *)
LEMMA LoadKeeps ==
    ASSUME IInv, NEW s, NEW v, LoadResult(s, o', v), o.load.pc # "none",
           s.call = o.call, s.orphan = o.orphan, s.current = o.current, s.fellBack = o.fellBack,
           o.overwritten => s.overwritten,
           s.disk.live \in {o.disk.live, fan.target} \/ s.overwritten \/ o.disk.live # fan.target,
           o.load.pc # "read" /\ o.load.src = fan.target => v = fan.target,
           UNCHANGED fan, kv' \in {kv, [kv EXCEPT !.announced = TRUE]}, Fault \/ UNCHANGED faults
    PROVE  IInv'
<1>1. Base(o') /\ LoadSound(o') /\ o' \in Objects
  BY DEF LoadResult, Base
<1>2. kv' \in [manifest: Builds, announced: BOOLEAN] /\ kv'.manifest = kv.manifest
  BY DEF IInv, TypeOK
<1>3. TypeOK'
  BY <1>1, <1>2, FaultKeeps DEF IInv, TypeOK
<1>4. o'.call.kind = o.call.kind /\ (o'.call.pc \in {"await", "acked"} => o.call.pc \in {"await", "acked"})
  BY DEF LoadResult, CallKept
<1>5. FanSound'
  BY <1>2, <1>4 DEF IInv, FanSound
<1>6. GaveWay => GaveWay'
  BY DEF LoadResult, GaveWay
<1>7. RecordStands'
  BY <1>6 DEF IInv, RecordStands, Converging, LoadResult, GaveWay
<1>8. Settled'
  <2> SUFFICES ASSUME (fan.pc = "committing" /\ o'.call.pc \in {"await", "acked"}) \/ Converging, ~GaveWay'
               PROVE  /\ o'.current \in {0, fan.target}
                      /\ o'.load.pc # "none" => o'.load.pc # "read" /\ o'.load.src = fan.target
    BY DEF Settled, Converging
  <2>1. o.current \in {0, fan.target} /\ o.load.pc # "read" /\ o.load.src = fan.target
    BY <1>4, <1>6 DEF IInv, Settled
  <2> QED BY <2>1 DEF LoadResult, GaveWay
<1> QED BY <1>1, <1>3, <1>5, <1>7, <1>8, IInvNext

(* So does a part run for an abandoned load.                               *)
LEMMA LateKeeps ==
    ASSUME IInv, NEW s, LateResult(s, o'), s.load = o.load, s.buf = o.buf, s.store = o.store,
           s.call = o.call, s.orphan = o.orphan, s.current = o.current, s.fellBack = o.fellBack,
           o.overwritten => s.overwritten,
           s.disk.live \in {o.disk.live, fan.target} \/ s.overwritten \/ o.disk.live # fan.target,
           UNCHANGED fan, kv' \in {kv, [kv EXCEPT !.announced = TRUE]}, Fault \/ UNCHANGED faults
    PROVE  IInv'
<1>1. Base(o') /\ LoadSound(o') /\ o' \in Objects
  BY DEF IInv, Base, StoreSound, LoadSound, LateResult
<1>2. kv' \in [manifest: Builds, announced: BOOLEAN] /\ kv'.manifest = kv.manifest
  BY DEF IInv, TypeOK
<1>3. TypeOK'
  BY <1>1, <1>2, FaultKeeps DEF IInv, TypeOK
<1>4. FanSound'
  BY <1>2 DEF IInv, FanSound, LateResult
<1>5. GaveWay => GaveWay'
  BY DEF LateResult, GaveWay
<1>6. RecordStands'
  BY <1>5 DEF IInv, RecordStands, Converging, LateResult, GaveWay
<1>7. Settled'
  BY <1>5 DEF IInv, Settled, Converging, LateResult
<1> QED BY <1>1, <1>3, <1>4, <1>6, <1>7, IInvNext

(* A step of a call that touches neither the store nor a load.             *)
LEMMA CallKeeps ==
    ASSUME IInv, o' \in Objects, DiskSound(o'.disk), o'.disk.live = o.disk.live,
           o'.load = o.load, o'.late = o.late, o'.buf = o.buf, o'.store = o.store,
           o'.current = o.current, o'.fellBack = o.fellBack, o'.overwritten = o.overwritten,
           CallSound(o'.call), CallSound(o'.orphan), o'.call.kind = o.call.kind,
           \/ o'.call = o.call \/ o.call.kind = "prepare"
           \/ /\ o'.call.pc = "acked" /\ o.load.pc = "none"
              /\ o.current \in {0, o.disk.live} \/ o.disk.live = 0,
           UNCHANGED <<kv, fan>>, Fault \/ UNCHANGED faults
    PROVE  IInv'
<1>1. Base(o') /\ LoadSound(o')
  BY DEF IInv, Base, StoreSound, LoadSound
<1>2. TypeOK'
  BY FaultKeeps DEF IInv, TypeOK
<1>3. FanSound'
  BY DEF IInv, FanSound
<1>4. RecordStands'
  BY DEF IInv, RecordStands, Converging, GaveWay
<1>5. Settled'
  <2>1. fan.target # 0
    BY Small DEF IInv, TypeOK, Fans
  <2> QED BY <2>1 DEF IInv, Settled, Converging, GaveWay, FanSound, RecordStands
<1> QED BY <1>1, <1>2, <1>3, <1>4, <1>5, IInvNext

-----------------------------------------------------------------------------
(* A step that only moves the load on.                                     *)
LEMMA ReplaceLoad ==
    ASSUME NEW s, Base(s), s.current = 0, s.load.src \in Builds,
           NEW ld \in Loads, NEW buf \in Archives, NEW disk \in Disks, NEW t,
           t = [s EXCEPT !.load = ld, !.buf = buf, !.disk = disk],
           DiskSound(disk), disk.live = s.disk.live,
           ld.pc \in {"early", "truth", "feed", "announce"}, ld.src = s.load.src,
           ld.pc = "early" => ld.early = ld.src,
           ld.pc \in {"early", "feed"} => buf \in {None, Prefix(ld.src, ld.n)},
           ld.pc = "truth" /\ ld.early # 0 /\ ~ld.bad =>
               ld.early = ld.src /\ buf \in {None, Whole(ld.src)},
           ld.pc = "announce" => s.store \in {Whole(ld.src), None}
    PROVE  LoadResult(s, t, s.load.src)
<1>1. s \in Objects
  BY DEF Base
<1>2. /\ t \in Objects /\ t.disk = disk /\ t.store = s.store /\ t.current = s.current /\ t.load = ld
      /\ t.buf = buf /\ t.late = s.late /\ t.call = s.call /\ t.orphan = s.orphan
      /\ t.fellBack = s.fellBack /\ t.overwritten = s.overwritten
  BY <1>1 DEF Objects
<1>3. Base(t)
  BY <1>2 DEF Base, StoreSound
<1>4. LoadSound(t)
  BY <1>2 DEF LoadSound, LateSound
<1>5. CallKept(s.call, t.call) /\ CallKept(s.orphan, t.orphan)
  BY <1>1, <1>2, FieldTypes DEF CallKept
<1> QED BY <1>2, <1>3, <1>4, <1>5 DEF LoadResult

LEMMA InFlight ==
    ASSUME IInv, o.load.pc \notin {"none", "read"}
    PROVE  /\ o \in Objects /\ Base(o) /\ LoadSound(o) /\ o.current = 0 /\ o.load.src \in Builds
           /\ o.load \in Loads /\ o.buf \in Archives /\ o.disk \in Disks /\ DiskSound(o.disk)
           /\ o.load.src \in Numbers /\ o.load.n \in 0..NChunks
BY FieldTypes, Small DEF IInv, Base, LoadSound, LateSound, Loads

(* The steps of the load in flight.                                        *)
LEMMA SpeculativeStep ==
    ASSUME IInv, speculativeLocalFeed("load")
    PROVE  IInv'
<1> DEFINE from == localCompressedArchive(o.disk, o.load.src)
           l1 == [o.load EXCEPT !.pc = "truth"]
           l2 == [o.load EXCEPT !.pc = "early", !.from = from, !.early = o.load.src, !.n = 0]
<1>1. o.load.pc = "spec" /\ UNCHANGED <<kv, fan, faults>>
  BY DEF speculativeLocalFeed
<1>2. /\ o \in Objects /\ Base(o) /\ LoadSound(o) /\ o.current = 0 /\ o.load.src \in Builds
      /\ o.load \in Loads /\ o.buf \in Archives /\ o.disk \in Disks /\ DiskSound(o.disk)
      /\ o.load.src \in Numbers
  BY <1>1, InFlight
<1>3. \/ o' = [o EXCEPT !.load = l1, !.buf = o.buf, !.disk = o.disk]
      \/ o' = [o EXCEPT !.load = l2, !.buf = <<>>, !.disk = o.disk]
  BY <1>2 DEF speculativeLocalFeed, checkFence, Objects
<1>4. l1 \in Loads /\ l1.pc = "truth" /\ l1.src = o.load.src /\ l1.early = 0
  BY <1>1, <1>2 DEF Loads, LoadSound
<1>5. l2 \in Loads /\ l2.pc = "early" /\ l2.src = o.load.src /\ l2.early = o.load.src /\ l2.n = 0
  BY <1>2, Small DEF Loads, localCompressedArchive
<1>6. <<>> \in Archives /\ <<>> = Prefix(o.load.src, 0)
  BY <1>2, Prefixes
<1> HIDE DEF l1, l2, from
<1>7. LoadResult(o, o', o.load.src)
  <2>1. CASE o' = [o EXCEPT !.load = l1, !.buf = o.buf, !.disk = o.disk]
    BY <1>2, <1>4, <2>1, ReplaceLoad
  <2>2. CASE o' = [o EXCEPT !.load = l2, !.buf = <<>>, !.disk = o.disk]
    BY <1>2, <1>5, <1>6, <2>2, ReplaceLoad
  <2> QED BY <1>3, <2>1, <2>2
<1> QED BY <1>1, <1>7, LoadKeeps

(* A chunk found in the cache is the one looked for.                       *)
LEMMA CachedChunks ==
    ASSUME NEW s, DiskSound(s.disk), NEW ld \in Loads, ld.src \in Builds, ld.n < NChunks,
           CachedChunk(s, ld) # NoChunk
    PROVE  CachedChunk(s, ld) = <<ld.src, ld.n + 1>>
<1>1. CASE ld.from = "lz4"
  BY <1>1, Prefixes, Small DEF CachedChunk, DiskSound, isLz4Cached, Loads
<1>2. CASE ld.from # "lz4"
  BY <1>2 DEF CachedChunk
<1> QED BY <1>1, <1>2

LEMMA EarlyStep ==
    ASSUME IInv, EarlyChunk("load")
    PROVE  IInv'
<1> DEFINE chunk == CachedChunk(o, o.load)
           disk == invalidate(o.disk, o.load.from, o.load.src)
           buf == Append(o.buf, chunk)
           l1 == [o.load EXCEPT !.pc = "truth"]
           l2 == [o.load EXCEPT !.pc = "truth", !.bad = TRUE]
           l3 == [o.load EXCEPT !.n = @ + 1]
<1>1. o.load.pc = "early" /\ UNCHANGED <<kv, fan, faults>>
  BY DEF EarlyChunk
<1>2. /\ o \in Objects /\ Base(o) /\ LoadSound(o) /\ o.current = 0 /\ o.load.src \in Builds
      /\ o.load \in Loads /\ o.buf \in Archives /\ o.disk \in Disks /\ DiskSound(o.disk)
      /\ o.load.src \in Numbers /\ o.load.n \in 0..NChunks
  BY <1>1, InFlight
<1>3. \/ o.load.n = NChunks /\ o' = [o EXCEPT !.load = l1, !.buf = o.buf, !.disk = o.disk]
      \/ o' = [o EXCEPT !.load = l2, !.buf = o.buf, !.disk = disk]
      \/ /\ o.load.n # NChunks /\ chunk # NoChunk /\ o.buf # None
         /\ o' = [o EXCEPT !.load = l3, !.buf = buf, !.disk = o.disk]
  BY <1>2 DEF EarlyChunk, checkFence, Objects
<1>4. o.load.early = o.load.src /\ o.buf \in {None, Prefix(o.load.src, o.load.n)}
  BY <1>1, <1>2 DEF LoadSound
<1>5. l1 \in Loads /\ l1.pc = "truth" /\ l1.src = o.load.src /\ l1.early = o.load.src
  BY <1>2, <1>4 DEF Loads
<1>6. l2 \in Loads /\ l2.pc = "truth" /\ l2.src = o.load.src /\ l2.bad
  BY <1>2 DEF Loads
<1>7. disk \in Disks /\ DiskSound(disk) /\ disk.live = o.disk.live
  BY <1>2, InvalidateKeeps
<1>8. CASE o.load.n = NChunks /\ o' = [o EXCEPT !.load = l1, !.buf = o.buf, !.disk = o.disk]
  <2> HIDE DEF l1
  <2>1. o.buf \in {None, Whole(o.load.src)}
    BY <1>2, <1>4, <1>8, Prefixes
  <2>2. LoadResult(o, o', o.load.src)
    BY <1>2, <1>5, <1>8, <2>1, ReplaceLoad
  <2> QED BY <1>1, <2>2, LoadKeeps
<1>9. CASE o' = [o EXCEPT !.load = l2, !.buf = o.buf, !.disk = disk]
  <2> HIDE DEF l2, disk
  <2>2. LoadResult(o, o', o.load.src)
    BY <1>2, <1>6, <1>7, <1>9, ReplaceLoad
  <2> QED BY <1>1, <2>2, LoadKeeps
<1>10. CASE /\ o.load.n # NChunks /\ chunk # NoChunk /\ o.buf # None
            /\ o' = [o EXCEPT !.load = l3, !.buf = buf, !.disk = o.disk]
  <2>1. o.load.n < NChunks /\ o.load.n + 1 \in 0..NChunks
    BY <1>2, <1>10, Small
  <2>2. chunk = <<o.load.src, o.load.n + 1>>
    BY <1>2, <1>10, <2>1, CachedChunks
  <2>3. buf = Prefix(o.load.src, o.load.n + 1)
    BY <1>2, <1>4, <1>10, <2>1, <2>2, Prefixes
  <2>4. buf \in Archives
    BY <1>2, <2>1, <2>3, Prefixes
  <2>5. l3 \in Loads /\ l3.pc = "early" /\ l3.src = o.load.src /\ l3.early = o.load.src
        /\ l3.n = o.load.n + 1
    BY <1>1, <1>2, <1>4, <2>1 DEF Loads
  <2> HIDE DEF l3, buf
  <2>6. LoadResult(o, o', o.load.src)
    BY <1>2, <1>10, <2>3, <2>4, <2>5, ReplaceLoad
  <2> QED BY <1>1, <2>6, LoadKeeps
<1> QED BY <1>3, <1>8, <1>9, <1>10

(* A read of the manifest names a build, at most the one last published.   *)
LEMMA Manifests ==
    ASSUME IInv
    PROVE  /\ readManifest \subseteq Builds /\ fan.target = kv.manifest /\ fan.target \in Builds
           /\ \A truth \in readManifest: truth <= fan.target
BY BoundsAssumption DEF IInv, TypeOK, FanSound, readManifest, Builds

LEMMA TruthStep ==
    ASSUME IInv, TruthArrives("load")
    PROVE  IInv'
<1>1. o.load.pc = "truth" /\ UNCHANGED <<kv, fan>> /\ (Fault \/ UNCHANGED faults)
  BY DEF TruthArrives
<1>2. /\ o \in Objects /\ Base(o) /\ LoadSound(o) /\ o.current = 0 /\ o.load.src \in Builds
      /\ o.load \in Loads /\ o.disk \in Disks /\ DiskSound(o.disk)
  BY <1>1, InFlight
<1>3. o.load.early = 0 \/ o.load.bad \/ (o.load.early = o.load.src /\ o.buf \in {None, Whole(o.load.src)})
  BY <1>1, <1>2 DEF LoadSound
<1>4. CASE o' = Decided(o, "load", o.load.src)
  <2>1. LoadResult(o, o', o.load.src)
    BY <1>1, <1>2, <1>3, <1>4, DecidedLoad, Small
  <2> QED BY <1>1, <2>1, LoadKeeps
<1>5. ASSUME NEW truth \in readManifest, o.load.src > truth,
             o' = Decided([o EXCEPT !.load.fb = truth], "load", o.load.src)
      PROVE  IInv'
  <2> DEFINE ld == [o.load EXCEPT !.fb = truth]
             s == [o EXCEPT !.load = ld]
  <2>1. ld \in Loads /\ ld.pc = "truth" /\ ld.src = o.load.src /\ ld.early = o.load.early
        /\ ld.bad = o.load.bad
    BY <1>1, <1>2, Manifests, Small DEF Loads
  <2>2. o' = Decided(s, "load", o.load.src)
    BY <1>5
  <2> HIDE DEF ld
  <2>3. /\ s \in Objects /\ s.disk = o.disk /\ s.store = o.store /\ s.current = o.current /\ s.load = ld
        /\ s.buf = o.buf /\ s.late = o.late /\ s.call = o.call /\ s.orphan = o.orphan
        /\ s.fellBack = o.fellBack /\ s.overwritten = o.overwritten
    BY <1>2, <2>1 DEF Objects
  <2> HIDE DEF s
  <2>4. Base(s)
    BY <1>2, <2>3 DEF Base, StoreSound
  <2>5. LoadResult(s, o', o.load.src)
    BY <1>2, <1>3, <2>1, <2>2, <2>3, <2>4, DecidedLoad, Small
  <2> QED BY <1>1, <2>3, <2>5, LoadKeeps
<1>6. ASSUME NEW truth \in readManifest, o.load.src < truth, NEW b,
             b = (o.overwritten \/ truth < o.disk.live),
             o' = Decided([o EXCEPT !.disk.live = truth, !.overwritten = b], "load", truth)
      PROVE  IInv'
  <2> DEFINE disk == [o.disk EXCEPT !.live = truth]
             s == [o EXCEPT !.disk = disk, !.overwritten = b]
  <2>1. disk \in Disks /\ DiskSound(disk) /\ disk.live = truth
    BY <1>2, Manifests, Small DEF Disks, DiskSound
  <2>2. o' = Decided(s, "load", truth)
    BY <1>6
  <2>3. b \in BOOLEAN /\ (o.overwritten => b) /\ (truth < o.disk.live => b)
    BY <1>2, <1>6 DEF Objects
  <2> HIDE DEF disk
  <2>4. /\ s \in Objects /\ s.disk = disk /\ s.store = o.store /\ s.current = o.current
        /\ s.load = o.load /\ s.buf = o.buf /\ s.late = o.late /\ s.call = o.call /\ s.orphan = o.orphan
        /\ s.fellBack = o.fellBack /\ s.overwritten = b
    BY <1>2, <2>1, <2>3 DEF Objects
  <2> HIDE DEF s
  <2>5. Base(s)
    BY <1>2, <2>1, <2>4 DEF Base, StoreSound
  <2>6. truth \in Builds /\ truth # o.load.src
    BY <1>2, <1>6, Manifests, Small DEF Builds
  <2>7. LoadResult(s, o', truth)
    BY <1>1, <1>2, <1>3, <2>2, <2>4, <2>5, <2>6, DecidedLoad, Small
  <2>8. ~(truth < o.disk.live) /\ o.disk.live = fan.target => truth = fan.target
    BY <1>6, <2>6, Manifests DEF Builds
  <2>9. o.load.src # fan.target
    BY <1>2, <1>6, <2>6, Manifests DEF Builds
  <2> QED BY <1>1, <2>1, <2>3, <2>4, <2>7, <2>8, <2>9, LoadKeeps
<1>7. ASSUME NEW truth \in readManifest, truth # o.load.src, ~(o.load.src > truth)
      PROVE  o.load.src < truth
  BY <1>2, <1>7, Manifests, Small DEF Builds
<1> QED BY <1>4, <1>5, <1>6, <1>7 DEF TruthArrives

LEMMA ManifestStep ==
    ASSUME IInv, ManifestArrives("load")
    PROVE  IInv'
<1>1. o.load.pc = "read" /\ UNCHANGED <<kv, fan>> /\ (Fault \/ UNCHANGED faults)
  BY DEF ManifestArrives
<1>2. o \in Objects /\ Base(o) /\ o.current = 0
  BY <1>1 DEF IInv, Base, LoadSound
<1>3. CASE o' = Failed(o, "load")
  <2>1. LoadResult(o, o', 0)
    BY <1>2, <1>3, LoadEnds, EndedResult
  <2> QED BY <1>1, <2>1, LoadKeeps
<1>4. ASSUME NEW truth \in readManifest, o' = Feed(o, "load", truth)
      PROVE  IInv'
  <2>1. truth \in Builds
    BY Manifests
  <2>2. LoadResult(o, o', truth)
    BY <1>2, <1>4, <2>1, FeedLoad, Small
  <2> QED BY <1>1, <2>2, LoadKeeps
<1> QED BY <1>3, <1>4 DEF ManifestArrives

LEMMA FeedStep ==
    ASSUME IInv, feedStore("load")
    PROVE  IInv'
<1> DEFINE cached == o.load.from # "kv"
           chunk == IF cached THEN CachedChunk(o, o.load) ELSE <<o.load.src, o.load.n + 1>>
           filled == [o.disk EXCEPT !.gz[o.load.src] = @ \cup {o.load.n + 1}]
           disk == IF cached \/ o.load.src \in Lz4Builds THEN o.disk ELSE filled
           t == [o EXCEPT !.disk = disk]
           ld == [o.load EXCEPT !.n = @ + 1]
           buf == Append(o.buf, chunk)
<1>1. /\ o.load.pc = "feed" /\ o.load.n < NChunks /\ UNCHANGED <<kv, fan>>
      /\ Fault \/ UNCHANGED faults
  BY DEF feedStore
<1>2. /\ o \in Objects /\ Base(o) /\ LoadSound(o) /\ o.current = 0 /\ o.load.src \in Builds
      /\ o.load \in Loads /\ o.buf \in Archives /\ o.disk \in Disks /\ DiskSound(o.disk)
      /\ o.load.src \in Numbers /\ o.load.n \in 0..NChunks
  BY <1>1, InFlight
<1>3. o.load.n + 1 \in Chunks /\ o.load.n + 1 \in 0..NChunks
  BY <1>1, <1>2, Small DEF Chunks
<1>4. /\ filled \in Disks /\ DiskSound(filled) /\ filled.live = o.disk.live
  BY <1>2, <1>3 DEF Disks, DiskSound
<1>5. disk \in Disks /\ DiskSound(disk) /\ disk.live = o.disk.live
  BY <1>2, <1>4
<1>6. \/ o' = LoadError(o, "load") \/ o' = LoadError(t, "load")
      \/ /\ chunk # NoChunk /\ t.buf # None
         /\ o' = [t EXCEPT !.buf = Append(t.buf, chunk), !.load.n = @ + 1]
  <2>1. t = IF cached \/ o.load.src \in Lz4Builds THEN o ELSE [o EXCEPT !.disk = filled]
    BY <1>2 DEF Objects
  <2> HIDE DEF chunk, disk, t
  <2> QED BY <1>2, <2>1 DEF feedStore, checkFence, chunk
<1>7. /\ t \in Objects /\ t.disk = disk /\ t.store = o.store /\ t.current = o.current /\ t.load = o.load
      /\ t.buf = o.buf /\ t.late = o.late /\ t.call = o.call /\ t.orphan = o.orphan
      /\ t.fellBack = o.fellBack /\ t.overwritten = o.overwritten
  <2> HIDE DEF disk
  <2> QED BY <1>2, <1>5 DEF Objects
<1>8. CASE o' = LoadError(o, "load")
  <2>1. LoadResult(o, o', o.load.src)
    BY <1>2, <1>8, LoadErrorLoad
  <2> QED BY <1>1, <2>1, LoadKeeps
<1>9. CASE o' = LoadError(t, "load")
  <2> HIDE DEF t, disk
  <2>1. Base(t)
    BY <1>2, <1>5, <1>7 DEF Base, StoreSound
  <2>2. LoadResult(t, o', o.load.src)
    BY <1>2, <1>7, <1>9, <2>1, LoadErrorLoad
  <2> QED BY <1>1, <1>5, <1>7, <2>2, LoadKeeps
<1>10. CASE /\ chunk # NoChunk /\ t.buf # None
            /\ o' = [t EXCEPT !.buf = Append(t.buf, chunk), !.load.n = @ + 1]
  <2>1. chunk = <<o.load.src, o.load.n + 1>>
    BY <1>1, <1>2, <1>10, CachedChunks
  <2>2. o.buf = Prefix(o.load.src, o.load.n)
    BY <1>1, <1>2, <1>7, <1>10 DEF LoadSound
  <2>3. buf = Prefix(o.load.src, o.load.n + 1) /\ buf \in Archives
    <3> HIDE DEF chunk
    <3>1. buf = Append(Prefix(o.load.src, o.load.n), <<o.load.src, o.load.n + 1>>)
      BY <2>1, <2>2
    <3> HIDE DEF buf
    <3> QED BY <1>1, <1>2, <1>3, <3>1, Prefixes
  <2>4. ld \in Loads /\ ld.pc = "feed" /\ ld.src = o.load.src /\ ld.n = o.load.n + 1
    BY <1>1, <1>2, <1>3 DEF Loads
  <2>5. o' = [o EXCEPT !.load = ld, !.buf = buf, !.disk = disk]
    <3> HIDE DEF disk, chunk
    <3> QED BY <1>2, <1>10 DEF Objects
  <2> HIDE DEF ld, buf, disk
  <2>6. LoadResult(o, o', o.load.src)
    BY <1>2, <1>5, <2>3, <2>4, <2>5, ReplaceLoad
  <2> QED BY <1>1, <2>6, LoadKeeps
<1> QED BY <1>6, <1>8, <1>9, <1>10

LEMMA FinishStep ==
    ASSUME IInv, Finish("load")
    PROVE  IInv'
<1>1. /\ o.load.pc = "feed" /\ o.load.n = NChunks /\ UNCHANGED <<kv, fan, faults>>
      /\ o' = Install(o, "load")
  BY DEF Finish
<1>2. /\ Base(o) /\ LoadSound(o) /\ o.current = 0 /\ o.load.src \in Builds /\ o.load.src \in Numbers
  BY <1>1, InFlight
<1>3. o.buf \in {None, Whole(o.load.src)}
  BY <1>1, <1>2, Prefixes DEF LoadSound
<1>4. LoadResult(o, o', o.load.src)
  BY <1>1, <1>2, <1>3, InstallLoad
<1> QED BY <1>1, <1>4, LoadKeeps

LEMMA CommitStep ==
    ASSUME IInv, Commit("load")
    PROVE  IInv'
<1> DEFINE v == o.load.src
           t == Returned(o, "load")
           fill == IF o.load.from # "lz4" /\ v \in Lz4Builds THEN v ELSE t.fill
<1>1. o.load.pc = "announce" /\ UNCHANGED <<kv, fan, faults>>
  BY DEF Commit
<1>2. /\ o \in Objects /\ Base(o) /\ LoadSound(o) /\ o.current = 0 /\ v \in Builds /\ v \in Numbers
  BY <1>1, InFlight
<1>3. o' = [t EXCEPT !.current = v, !.fill = fill]
  BY DEF Commit, checkFence
<1>4. Ended(o, t)
  BY <1>2, LoadEnds
<1>5. fill \in Numbers
  BY <1>2, <1>4 DEF Ended, Objects
<1>6. o.store \in {Whole(v), None}
  BY <1>1, <1>2 DEF LoadSound
<1> HIDE DEF t, fill
<1>7. /\ o' \in Objects /\ o'.disk = o.disk /\ o'.store = o.store /\ o'.current = v
      /\ o'.load = NoLoad /\ o'.buf = o.buf /\ o'.late = o.late /\ o'.call = t.call /\ o'.orphan = t.orphan
      /\ o'.fellBack = o.fellBack /\ o'.overwritten = o.overwritten
  BY <1>2, <1>3, <1>4, <1>5 DEF Objects, Ended, Same
<1>8. CallKept(o.call, o'.call) /\ CallKept(o.orphan, o'.orphan)
  BY <1>4, <1>7 DEF Ended
<1>9. CallSound(o'.call) /\ CallSound(o'.orphan)
  BY <1>2, <1>8, KeptSound DEF Base
<1>10. Base(o') /\ LoadSound(o')
  BY <1>2, <1>6, <1>7, <1>9, Idle DEF Base, StoreSound, LoadSound, LateSound
<1>11. TypeOK' /\ FanSound'
  BY <1>1, <1>7, <1>8 DEF IInv, TypeOK, FanSound, CallKept
<1>12. RecordStands'
  BY <1>1, <1>7 DEF IInv, RecordStands, Converging, GaveWay
<1>13. Settled'
  BY <1>1, <1>7, <1>8, Idle DEF IInv, Settled, Converging, GaveWay, CallKept
<1> QED BY <1>10, <1>11, <1>12, <1>13, IInvNext

LEMMA AnnounceStep ==
    ASSUME IInv, announceSelfOnce("load")
    PROVE  IInv'
<1> DEFINE ld == [o.load EXCEPT !.told = TRUE]
           disk == [o.disk EXCEPT !.ann = o.load.src]
<1>1. /\ o.load.pc \in {"feed", "announce"} /\ UNCHANGED fan
      /\ kv' = [kv EXCEPT !.announced = TRUE] \/ kv' = kv
      /\ Fault \/ UNCHANGED faults
  BY DEF announceSelfOnce
<1>2. /\ o \in Objects /\ Base(o) /\ LoadSound(o) /\ o.current = 0 /\ o.load.src \in Builds
      /\ o.load \in Loads /\ o.buf \in Archives /\ o.disk \in Disks /\ DiskSound(o.disk)
      /\ o.load.src \in Numbers
  BY <1>1, InFlight
<1>3. \/ o' = [o EXCEPT !.load = ld, !.buf = o.buf, !.disk = disk]
      \/ o' = [o EXCEPT !.load = ld, !.buf = o.buf, !.disk = o.disk]
  BY <1>2 DEF announceSelfOnce, Objects
<1>4. ld \in Loads /\ \A f \in {"pc", "src", "early", "bad", "n"}: ld[f] = o.load[f]
  BY <1>2 DEF Loads
<1>5. disk \in Disks /\ DiskSound(disk) /\ disk.live = o.disk.live
  BY <1>2 DEF Disks, DiskSound
<1>6. /\ ld.pc = o.load.pc /\ ld.src = o.load.src /\ ld.early = o.load.early
      /\ ld.bad = o.load.bad /\ ld.n = o.load.n
  BY <1>4
<1> HIDE DEF ld, disk
<1>7. LoadResult(o, o', o.load.src)
  BY <1>1, <1>2, <1>3, <1>4, <1>5, <1>6, ReplaceLoad DEF LoadSound
<1> QED BY <1>1, <1>7, LoadKeeps

-----------------------------------------------------------------------------
(* The steps of an abandoned load.                                         *)
LEMMA ReplaceLate ==
    ASSUME NEW s \in Objects, NEW ld \in Loads, NEW disk \in Disks, NEW t,
           t = [s EXCEPT !.late = ld, !.disk = disk],
           LateSound(ld), DiskSound(disk), disk.live = s.disk.live
    PROVE  LateResult(s, t)
<1>1. /\ t \in Objects /\ t.disk = disk /\ t.store = s.store /\ t.current = s.current /\ t.load = s.load
      /\ t.buf = s.buf /\ t.late = ld /\ t.call = s.call /\ t.orphan = s.orphan
      /\ t.fellBack = s.fellBack /\ t.overwritten = s.overwritten
  BY DEF Objects
<1> QED BY <1>1 DEF LateResult

LEMMA Abandoned ==
    ASSUME IInv
    PROVE  /\ o \in Objects /\ DiskSound(o.disk) /\ LateSound(o.late) /\ o.late \in Loads
           /\ o.disk \in Disks /\ o.late.n \in 0..NChunks
           /\ o.late.pc \notin {"none", "read"} => o.late.src \in Builds /\ o.late.src \in Numbers
           /\ LateResult(o, Stalled(o, "late")) /\ LateResult(o, Failed(o, "late"))
BY FieldTypes, Small, LateEnds, LateEndedResult DEF IInv, Base, LateSound, Loads

LEMMA LateSpeculativeStep ==
    ASSUME IInv, speculativeLocalFeed("late")
    PROVE  IInv'
<1> DEFINE ld == [o.late EXCEPT !.pc = "truth"]
<1>1. o.late.pc = "spec" /\ UNCHANGED <<kv, fan, faults>>
  BY DEF speculativeLocalFeed
<1>2. /\ o \in Objects /\ o.late \in Loads /\ o.disk \in Disks /\ DiskSound(o.disk)
      /\ o.late.src \in Builds
  BY <1>1, Abandoned
<1>3. o' = [o EXCEPT !.late = ld, !.disk = o.disk] \/ o' = Stalled(o, "late")
  BY <1>2 DEF speculativeLocalFeed, checkFence, Objects
<1>4. ld \in Loads /\ LateSound(ld)
  BY <1>2 DEF Loads, LateSound
<1> HIDE DEF ld
<1>5. LateResult(o, o')
  BY <1>2, <1>3, <1>4, ReplaceLate, Abandoned
<1> QED BY <1>1, <1>5, LateKeeps

LEMMA LateEarlyStep ==
    ASSUME IInv, EarlyChunk("late")
    PROVE  IInv'
<1> DEFINE disk == invalidate(o.disk, o.late.from, o.late.src)
           l1 == [o.late EXCEPT !.pc = "truth"]
           l2 == [o.late EXCEPT !.pc = "truth", !.bad = TRUE]
<1>1. o.late.pc = "early" /\ UNCHANGED <<kv, fan, faults>>
  BY DEF EarlyChunk
<1>2. /\ o \in Objects /\ o.late \in Loads /\ o.disk \in Disks /\ DiskSound(o.disk)
      /\ o.late.src \in Builds
  BY <1>1, Abandoned
<1>3. \/ o' = [o EXCEPT !.late = l1, !.disk = o.disk] \/ o' = [o EXCEPT !.late = l2, !.disk = disk]
      \/ o' = Stalled(o, "late")
  BY <1>2 DEF EarlyChunk, checkFence, Objects
<1>4. l1 \in Loads /\ LateSound(l1) /\ l2 \in Loads /\ LateSound(l2)
  BY <1>2 DEF Loads, LateSound
<1>5. disk \in Disks /\ DiskSound(disk) /\ disk.live = o.disk.live
  BY <1>2, InvalidateKeeps
<1> HIDE DEF l1, l2, disk
<1>6. LateResult(o, o')
  BY <1>2, <1>3, <1>4, <1>5, ReplaceLate, Abandoned
<1> QED BY <1>1, <1>6, LateKeeps

LEMMA LateTruthStep ==
    ASSUME IInv, TruthArrives("late")
    PROVE  IInv'
<1>1. o.late.pc = "truth" /\ UNCHANGED <<kv, fan>> /\ (Fault \/ UNCHANGED faults)
  BY DEF TruthArrives
<1>2. /\ o \in Objects /\ o.late \in Loads /\ o.disk \in Disks /\ DiskSound(o.disk)
      /\ LateSound(o.late) /\ o.late.src \in Builds
  BY <1>1, Abandoned
<1>3. ASSUME NEW v \in Builds, o' = Decided(o, "late", v)
      PROVE  IInv'
  <2>1. LateResult(o, o')
    BY <1>2, <1>3, DecidedLate
  <2> QED BY <1>1, <2>1, LateKeeps
<1>4. ASSUME NEW truth \in readManifest,
             o' = Decided([o EXCEPT !.late.fb = truth], "late", o.late.src)
      PROVE  IInv'
  <2> DEFINE ld == [o.late EXCEPT !.fb = truth]
             s == [o EXCEPT !.late = ld]
  <2>1. ld \in Loads /\ LateSound(ld)
    BY <1>2, Manifests, Small DEF Loads, LateSound
  <2>2. o' = Decided(s, "late", o.late.src)
    BY <1>4
  <2> HIDE DEF ld
  <2>3. /\ s \in Objects /\ s.disk = o.disk /\ s.store = o.store /\ s.current = o.current /\ s.load = o.load
        /\ s.buf = o.buf /\ s.late = ld /\ s.call = o.call /\ s.orphan = o.orphan
        /\ s.fellBack = o.fellBack /\ s.overwritten = o.overwritten
    BY <1>2, <2>1 DEF Objects
  <2> HIDE DEF s
  <2>4. LateResult(s, o')
    BY <1>2, <2>1, <2>2, <2>3, DecidedLate
  <2> QED BY <1>1, <2>3, <2>4, LateKeeps
<1>5. ASSUME NEW truth \in readManifest, NEW b, b = (o.overwritten \/ truth < o.disk.live),
             o' = Decided([o EXCEPT !.disk.live = truth, !.overwritten = b], "late", truth)
      PROVE  IInv'
  <2> DEFINE disk == [o.disk EXCEPT !.live = truth]
             s == [o EXCEPT !.disk = disk, !.overwritten = b]
  <2>1. disk \in Disks /\ DiskSound(disk) /\ disk.live = truth
    BY <1>2, Manifests, Small DEF Disks, DiskSound
  <2>2. o' = Decided(s, "late", truth)
    BY <1>5
  <2>3. b \in BOOLEAN /\ (o.overwritten => b) /\ (truth < o.disk.live => b)
    BY <1>2, <1>5 DEF Objects
  <2> HIDE DEF disk
  <2>4. /\ s \in Objects /\ s.disk = disk /\ s.store = o.store /\ s.current = o.current
        /\ s.load = o.load /\ s.buf = o.buf /\ s.late = o.late /\ s.call = o.call /\ s.orphan = o.orphan
        /\ s.fellBack = o.fellBack /\ s.overwritten = b
    BY <1>2, <2>1, <2>3 DEF Objects
  <2> HIDE DEF s
  <2>5. truth \in Builds
    BY Manifests
  <2>6. LateResult(s, o')
    BY <1>2, <2>1, <2>2, <2>4, <2>5, DecidedLate
  <2>7. ~(truth < o.disk.live) /\ o.disk.live = fan.target => truth = fan.target
    BY <2>5, Manifests DEF Builds
  <2> QED BY <1>1, <2>1, <2>3, <2>4, <2>6, <2>7, LateKeeps
<1>6. readManifest \subseteq Builds
  BY Manifests
<1> QED BY <1>2, <1>3, <1>4, <1>5, <1>6 DEF TruthArrives

LEMMA LateManifestStep ==
    ASSUME IInv, ManifestArrives("late")
    PROVE  IInv'
<1>1. UNCHANGED <<kv, fan>> /\ (Fault \/ UNCHANGED faults)
  BY DEF ManifestArrives
<1>2. o' = Failed(o, "late") \/ \E truth \in Builds: o' = Feed(o, "late", truth)
  BY Manifests DEF ManifestArrives
<1>3. LateResult(o, o')
  BY <1>2, Abandoned, FeedLate
<1> QED BY <1>1, <1>3, LateKeeps

LEMMA LateFeedStep ==
    ASSUME IInv, feedStore("late")
    PROVE  IInv'
<1> DEFINE filled == [o.disk EXCEPT !.gz[o.late.src] = @ \cup {o.late.n + 1}]
           t == [o EXCEPT !.disk = filled]
<1>1. /\ o.late.pc = "feed" /\ o.late.n < NChunks /\ UNCHANGED <<kv, fan>>
      /\ Fault \/ UNCHANGED faults
  BY DEF feedStore
<1>2. /\ o \in Objects /\ o.late \in Loads /\ o.disk \in Disks /\ DiskSound(o.disk)
      /\ LateSound(o.late) /\ o.late.src \in Builds /\ o.late.n \in 0..NChunks
  BY <1>1, Abandoned
<1>3. o.late.n + 1 \in Chunks
  BY <1>1, <1>2, Small DEF Chunks
<1>4. /\ filled \in Disks /\ DiskSound(filled) /\ filled.live = o.disk.live
  BY <1>2, <1>3 DEF Disks, DiskSound
<1>5. o' = LoadError(o, "late") \/ o' = Stalled(o, "late") \/ o' = Stalled(t, "late")
  <2>1. t = [o EXCEPT !.disk.gz[o.late.src] = @ \cup {o.late.n + 1}]
    BY <1>2
  <2> HIDE DEF t
  <2> QED BY <1>2, <2>1 DEF feedStore, checkFence
<1> HIDE DEF filled
<1>6. /\ t \in Objects /\ t.disk = filled /\ t.store = o.store /\ t.current = o.current /\ t.load = o.load
      /\ t.buf = o.buf /\ t.late = o.late /\ t.call = o.call /\ t.orphan = o.orphan
      /\ t.fellBack = o.fellBack /\ t.overwritten = o.overwritten
  BY <1>2, <1>4 DEF Objects
<1> HIDE DEF t
<1>7. LateResult(o, LoadError(o, "late"))
  BY <1>2, LoadErrorLate
<1>8. LateResult(t, Stalled(t, "late"))
  BY <1>4, <1>6, LateEnds, LateEndedResult
<1>9. LateResult(o, Stalled(t, "late"))
  BY <1>4, <1>6, <1>8 DEF LateResult
<1>10. LateResult(o, o')
  BY <1>5, <1>7, <1>9, Abandoned
<1> QED BY <1>1, <1>10, LateKeeps

LEMMA LateEndStep ==
    ASSUME IInv, Finish("late") \/ Commit("late")
    PROVE  IInv'
<1>1. o' = Stalled(o, "late") /\ UNCHANGED <<kv, fan, faults>>
  BY DEF Finish, Commit, Install, checkFence
<1>2. LateResult(o, o')
  BY <1>1, Abandoned
<1> QED BY <1>1, <1>2, LateKeeps

LEMMA LateAnnounceStep ==
    ASSUME IInv, announceSelfOnce("late")
    PROVE  IInv'
<1> DEFINE ld == [o.late EXCEPT !.told = TRUE]
           disk == [o.disk EXCEPT !.ann = o.late.src]
<1>1. /\ o.late.pc \in {"feed", "announce"} /\ UNCHANGED fan
      /\ kv' = [kv EXCEPT !.announced = TRUE] \/ kv' = kv
      /\ Fault \/ UNCHANGED faults
  BY DEF announceSelfOnce
<1>2. /\ o \in Objects /\ o.late \in Loads /\ o.disk \in Disks /\ DiskSound(o.disk)
      /\ LateSound(o.late) /\ o.late.src \in Builds /\ o.late.src \in Numbers
  BY <1>1, Abandoned
<1>3. \/ o' = [o EXCEPT !.late = ld, !.disk = disk]
      \/ o' = [o EXCEPT !.late = ld, !.disk = o.disk]
  BY <1>2 DEF announceSelfOnce, Objects
<1>4. ld \in Loads /\ LateSound(ld)
  BY <1>2 DEF Loads, LateSound
<1>5. disk \in Disks /\ DiskSound(disk) /\ disk.live = o.disk.live
  BY <1>2 DEF Disks, DiskSound
<1> HIDE DEF ld, disk
<1>6. LateResult(o, o')
  BY <1>2, <1>3, <1>4, <1>5, ReplaceLate
<1> QED BY <1>1, <1>6, LateKeeps

LEMMA LoadStoreStep ==
    ASSUME IInv, NEW l \in LoadIds, loadStore(l)
    PROVE  IInv'
<1>1. CASE l = "load"
  BY <1>1, SpeculativeStep, EarlyStep, TruthStep, ManifestStep, FeedStep, FinishStep, AnnounceStep,
     CommitStep DEF loadStore
<1>2. CASE l = "late"
  BY <1>2, LateSpeculativeStep, LateEarlyStep, LateTruthStep, LateManifestStep, LateFeedStep,
     LateEndStep, LateAnnounceStep DEF loadStore
<1> QED BY <1>1, <1>2 DEF LoadIds

-----------------------------------------------------------------------------
(* The steps of the publisher's calls.                                     *)
LEMMA ReplaceCall ==
    ASSUME IInv, NEW r \in RpcIds, NEW d \in Rpcs, NEW disk \in Disks, NEW p \in Numbers,
           o' = [o EXCEPT ![r] = d, !.disk = disk, !.prefetching = p],
           CallSound(d), d.kind = o[r].kind, DiskSound(disk), disk.live = o.disk.live,
           \/ o[r].kind = "prepare"
           \/ /\ d.pc = "acked" /\ o.load.pc = "none"
              /\ o.current \in {0, o.disk.live} \/ o.disk.live = 0,
           UNCHANGED <<kv, fan>>, Fault \/ UNCHANGED faults
    PROVE  IInv'
<1>1. o \in Objects /\ CallSound(o.call) /\ CallSound(o.orphan)
  BY DEF IInv, Base
<1>2. CASE r = "call"
  <2>1. /\ o' \in Objects /\ o'.disk = disk /\ o'.store = o.store /\ o'.current = o.current
        /\ o'.load = o.load /\ o'.buf = o.buf /\ o'.late = o.late /\ o'.call = d /\ o'.orphan = o.orphan
        /\ o'.fellBack = o.fellBack /\ o'.overwritten = o.overwritten
    BY <1>1, <1>2 DEF Objects
  <2>2. o[r] = o.call
    BY <1>2
  <2> QED BY <1>1, <2>1, <2>2, CallKeeps
<1>3. CASE r = "orphan"
  <2>1. /\ o' \in Objects /\ o'.disk = disk /\ o'.store = o.store /\ o'.current = o.current
        /\ o'.load = o.load /\ o'.buf = o.buf /\ o'.late = o.late /\ o'.call = o.call /\ o'.orphan = d
        /\ o'.fellBack = o.fellBack /\ o'.overwritten = o.overwritten
    BY <1>1, <1>3 DEF Objects
  <2> QED BY <1>1, <2>1, CallKeeps
<1> QED BY <1>2, <1>3 DEF RpcIds

LEMMA Calling ==
    ASSUME IInv, NEW r \in RpcIds
    PROVE  /\ o \in Objects /\ Base(o) /\ o[r] \in Rpcs /\ CallSound(o[r])
           /\ o.disk \in Disks /\ DiskSound(o.disk)
           /\ o.prefetching \in Numbers /\ o.current \in Numbers
<1>1. o \in Objects /\ Base(o)
  BY DEF IInv, Base
<1>2. o.prefetching \in Numbers
  BY <1>1 DEF Objects
<1> QED BY <1>1, <1>2, FieldTypes DEF Base, RpcIds

LEMMA PrepareStep ==
    ASSUME IInv, NEW r \in RpcIds, preparePublish(r)
    PROVE  IInv'
<1> DEFINE v == o[r].v
           acked == [o[r] EXCEPT !.pc = "acked"]
           fetching == [o[r] EXCEPT !.pc = "prefetch", !.n = 0]
           joined == [o[r] EXCEPT !.pc = "join"]
           disk == dropOlderBuilds(o.disk, v)
<1>1. o[r].kind = "prepare" /\ UNCHANGED <<kv, fan, faults>>
  BY DEF preparePublish
<1>2. /\ o \in Objects /\ o[r] \in Rpcs /\ o.disk \in Disks /\ DiskSound(o.disk)
      /\ o.prefetching \in Numbers /\ v \in Builds /\ v \in Numbers
  BY <1>1, Calling, Small DEF CallSound
<1>3. disk \in Disks /\ DiskSound(disk) /\ disk.live = o.disk.live
  BY <1>2, DropKeeps
<1>4. /\ acked \in Rpcs /\ CallSound(acked) /\ acked.kind = o[r].kind
      /\ fetching \in Rpcs /\ CallSound(fetching) /\ fetching.kind = o[r].kind
      /\ joined \in Rpcs /\ CallSound(joined) /\ joined.kind = o[r].kind
  <2>1. CallSound(o[r])
    BY Calling
  <2>2. acked \in Rpcs /\ CallSound(acked) /\ acked.kind = o[r].kind
    BY <1>2, <2>1 DEF Rpcs, CallSound
  <2>3. fetching \in Rpcs /\ CallSound(fetching) /\ fetching.kind = o[r].kind
    <3>1. fetching \in Rpcs /\ fetching.kind = o[r].kind /\ fetching.v = v /\ fetching.n = 0
          /\ fetching.pc = "prefetch"
      BY <1>2, Small DEF Rpcs
    <3>2. 0 < NChunks
      BY Small
    <3> HIDE DEF fetching
    <3> QED BY <1>1, <1>2, <3>1, <3>2 DEF CallSound
  <2>4. joined \in Rpcs /\ CallSound(joined) /\ joined.kind = o[r].kind
    BY <1>1, <1>2, <2>1 DEF Rpcs, CallSound
  <2> QED BY <2>2, <2>3, <2>4
<1>5. \/ o' = [o EXCEPT ![r] = acked, !.disk = disk, !.prefetching = o.prefetching]
      \/ o' = [o EXCEPT ![r] = acked, !.disk = o.disk, !.prefetching = o.prefetching]
      \/ o' = [o EXCEPT ![r] = fetching, !.disk = disk, !.prefetching = v]
      \/ o' = [o EXCEPT ![r] = joined, !.disk = o.disk, !.prefetching = o.prefetching]
  <2> HIDE DEF disk
  <2>1. r \in {"call", "orphan"}
    BY DEF RpcIds
  <2> QED BY <1>2, <2>1 DEF preparePublish, Acked, Objects, disk
<1> HIDE DEF acked, fetching, joined, disk, v
<1> QED BY <1>1, <1>2, <1>3, <1>4, <1>5, ReplaceCall

LEMMA PrefetchStep ==
    ASSUME IInv, NEW r \in RpcIds, prefetchOnce(r)
    PROVE  IInv'
<1> DEFINE v == o[r].v
           acked == [o[r] EXCEPT !.pc = "acked"]
           next == [o[r] EXCEPT !.n = @ + 1]
           done == [next EXCEPT !.pc = "acked"]
           filled == [o.disk EXCEPT !.gz[v] = @ \cup {o[r].n + 1}]
           disk == dropOlderBuilds(filled, v)
<1>1. o[r].pc = "prefetch" /\ UNCHANGED <<kv, fan>> /\ (Fault \/ UNCHANGED faults)
  BY DEF prefetchOnce
<1>2. /\ o \in Objects /\ o[r] \in Rpcs /\ o.disk \in Disks /\ DiskSound(o.disk)
      /\ o.prefetching \in Numbers /\ o[r].kind = "prepare" /\ v \in Builds /\ v \in Numbers
      /\ o[r].n < NChunks /\ o[r].n \in 0..NChunks
  BY <1>1, Calling, Small DEF CallSound, Rpcs
<1>3. o[r].n + 1 \in Chunks /\ o[r].n + 1 \in 0..NChunks
  BY <1>2, Small DEF Chunks
<1>4. filled \in Disks /\ DiskSound(filled) /\ filled.live = o.disk.live
  BY <1>2, <1>3 DEF Disks, DiskSound
<1>5. disk \in Disks /\ DiskSound(disk) /\ disk.live = o.disk.live
  <2> HIDE DEF filled
  <2> QED BY <1>4, DropKeeps
<1>6. acked \in Rpcs /\ CallSound(acked) /\ acked.kind = o[r].kind
  BY <1>2 DEF Rpcs, CallSound
<1>7. next \in Rpcs /\ next.kind = o[r].kind /\ next.n = o[r].n + 1 /\ next.v = v /\ next.pc = o[r].pc
  BY <1>2, <1>3 DEF Rpcs
<1>8. o[r].n + 1 < NChunks => CallSound(next)
  BY <1>1, <1>2, <1>7 DEF CallSound
<1>9. done \in Rpcs /\ CallSound(done) /\ done.kind = o[r].kind
  <2> HIDE DEF next
  <2> QED BY <1>2, <1>7 DEF Rpcs, CallSound
<1>10. \/ o' = [o EXCEPT ![r] = acked, !.disk = o.disk, !.prefetching = 0]
       \/ /\ o[r].n + 1 < NChunks
          /\ o' = [o EXCEPT ![r] = next, !.disk = filled, !.prefetching = o.prefetching]
       \/ o' = [o EXCEPT ![r] = done, !.disk = disk, !.prefetching = 0]
  <2>1. r \in {"call", "orphan"}
    BY DEF RpcIds
  <2>2. CASE o' = Acked([o EXCEPT !.prefetching = 0], r)
    BY <1>2, <2>1, <2>2 DEF Acked, Objects
  <2> DEFINE t == [o EXCEPT !.disk.gz[v] = @ \cup {o[r].n + 1}, ![r].n = @ + 1]
  <2>3. t = [o EXCEPT ![r] = next, !.disk = filled, !.prefetching = o.prefetching]
    BY <1>2, <2>1 DEF Objects
  <2> HIDE DEF t, next, filled
  <2>4. CASE o[r].n + 1 < NChunks /\ o' = t
    BY <2>3, <2>4
  <2>5. CASE o' = Acked([t EXCEPT !.prefetching = 0, !.disk = dropOlderBuilds(@, v)], r)
    BY <1>2, <2>1, <2>3, <2>5 DEF Acked, Objects
  <2> QED BY <2>2, <2>4, <2>5 DEF prefetchOnce, t
<1> HIDE DEF acked, next, done, filled, disk, v
<1> QED BY <1>1, <1>2, <1>4, <1>5, <1>6, <1>7, <1>8, <1>9, <1>10, Small, ReplaceCall

LEMMA JoinStep ==
    ASSUME IInv, NEW r \in RpcIds, JoinedPrefetch(r)
    PROVE  IInv'
<1> DEFINE acked == [o[r] EXCEPT !.pc = "acked"]
<1>1. o[r].pc = "join" /\ UNCHANGED <<kv, fan, faults>>
  BY DEF JoinedPrefetch
<1>2. /\ o \in Objects /\ o[r] \in Rpcs /\ o.disk \in Disks /\ DiskSound(o.disk)
      /\ o.prefetching \in Numbers /\ CallSound(o[r]) /\ o[r].kind = "prepare"
  BY <1>1, Calling DEF CallSound
<1>3. o' = [o EXCEPT ![r] = acked, !.disk = o.disk, !.prefetching = o.prefetching]
  BY <1>2 DEF JoinedPrefetch, Acked, Objects, RpcIds
<1>4. acked \in Rpcs /\ CallSound(acked) /\ acked.kind = o[r].kind
  BY <1>2 DEF Rpcs, CallSound
<1> HIDE DEF acked
<1> QED BY <1>1, <1>2, <1>3, <1>4, ReplaceCall

(* The swap finds no load in flight, and starts one of the record.         *)
LEMMA SwapStep ==
    ASSUME IInv, NEW r \in RpcIds, commitPublish(r)
    PROVE  IInv'
<1> DEFINE v == o.disk.live
           acked == [o[r] EXCEPT !.pc = "acked"]
           await == [o[r] EXCEPT !.pc = "await"]
           ld == [NoLoad EXCEPT !.pc = "read", !.asked = FALSE]
           s == [o EXCEPT ![r] = await, !.load = ld]
<1>1. o[r].kind = "commit" /\ o.load.pc = "none" /\ UNCHANGED <<kv, fan, faults>>
  BY DEF commitPublish, settleInFlightLoad
<1>2. /\ o \in Objects /\ Base(o) /\ o[r] \in Rpcs /\ CallSound(o[r])
      /\ o.disk \in Disks /\ DiskSound(o.disk)
      /\ o.prefetching \in Numbers /\ o.current \in Numbers /\ r \in {"call", "orphan"}
  BY Calling DEF RpcIds
<1>3. v \in Numbers
  BY <1>2 DEF Disks
<1>4. acked \in Rpcs /\ CallSound(acked) /\ acked.kind = o[r].kind /\ acked.pc = "acked"
  BY <1>1, <1>2 DEF Rpcs, CallSound
<1>5. await \in Rpcs /\ CallSound(await) /\ await.kind = o[r].kind
  BY <1>1, <1>2 DEF Rpcs, CallSound
<1>6. CASE o' = Acked(o, r) /\ (o.current \in {0, v} \/ v = 0)
  <2>1. o' = [o EXCEPT ![r] = acked, !.disk = o.disk, !.prefetching = o.prefetching]
    BY <1>2, <1>6 DEF Acked, Objects
  <2> HIDE DEF acked
  <2> QED BY <1>1, <1>2, <1>4, <1>6, <2>1, ReplaceCall
<1>7. CASE o.current \notin {0, v} /\ v # 0 /\ o' = startLoad([o EXCEPT ![r].pc = "await"], v, FALSE)
  <2>1. o' = Feed(s, "load", v)
    BY <1>2, <1>7 DEF startLoad, Objects
  <2>2. ld \in Loads
    BY Idle DEF Loads
  <2> HIDE DEF ld, await
  <2>3. /\ s \in Objects /\ s.disk = o.disk /\ s.store = o.store /\ s.current = o.current
        /\ s.buf = o.buf /\ s.late = o.late /\ s.fellBack = o.fellBack /\ s.overwritten = o.overwritten
        /\ s.call.kind = o.call.kind
        /\ s.call \in {o.call, await} /\ s.orphan \in {o.orphan, await}
    BY <1>2, <1>5, <2>2 DEF Objects
  <2> HIDE DEF s
  <2>4. Base(s)
    BY <1>2, <1>5, <2>3 DEF Base, StoreSound
  <2>5. LoadResult(s, o', v) /\ o'.load.pc = "feed"
    <3>1. v \in Builds /\ s.current # v
      BY <1>3, <1>7, <2>3, Small
    <3> HIDE DEF v
    <3>2. LoadResult(s, Feed(s, "load", v), v) /\ Feed(s, "load", v).load.pc = "feed"
      BY <2>4, <3>1, FeedLoad
    <3> QED BY <2>1, <3>2
  <2>6. Base(o') /\ LoadSound(o') /\ o' \in Objects /\ o'.current = 0
    BY <2>5 DEF LoadResult, LoadSound, Base
  <2>7. o'.call.kind = o.call.kind
    BY <2>3, <2>5 DEF LoadResult, CallKept
  <2>8. GaveWay => GaveWay'
    BY <2>3, <2>5 DEF LoadResult, GaveWay
  <2>9. TypeOK' /\ FanSound'
    BY <1>1, <2>6, <2>7 DEF IInv, TypeOK, FanSound
  <2>10. RecordStands'
    BY <1>1, <2>3, <2>5, <2>8 DEF IInv, RecordStands, Converging, LoadResult, GaveWay
  <2>11. Settled'
    BY <1>1, <2>3, <2>5, <2>6, <2>8 DEF IInv, RecordStands, Settled, Converging, LoadResult, GaveWay
  <2> QED BY <2>6, <2>9, <2>10, <2>11, IInvNext
<1> QED BY <1>6, <1>7 DEF commitPublish

(* A request's load starts from the record, if there is one.               *)
LEMMA RequestStep ==
    ASSUME IInv, getEngine
    PROVE  IInv'
<1> DEFINE l1 == [NoLoad EXCEPT !.pc = "read", !.asked = TRUE]
           l2 == [NoLoad EXCEPT !.pc = "spec", !.src = o.disk.live, !.asked = TRUE]
<1>1. o.current = 0 /\ o.load.pc = "none" /\ UNCHANGED <<kv, fan, faults>>
  BY DEF getEngine
<1>2. o \in Objects /\ Base(o) /\ o.disk \in Disks /\ o.disk.live \in Numbers
  BY FieldTypes DEF IInv, Base, Disks
<1>3. \/ o' = [o EXCEPT !.load = l1] /\ o.disk.live = 0
      \/ o' = [o EXCEPT !.load = l2] /\ o.disk.live # 0
  BY <1>2, Small DEF getEngine, startLoad, NoLoad, Objects
<1>4. l1 \in Loads /\ l1.pc = "read"
  BY Small DEF NoLoad, Loads
<1>5. l2 \in Loads /\ l2.pc = "spec" /\ l2.src = o.disk.live /\ l2.early = 0
  BY <1>2, Small DEF NoLoad, Loads
<1> HIDE DEF l1, l2
<1>6. /\ o' \in Objects /\ o'.disk = o.disk /\ o'.store = o.store /\ o'.current = o.current
      /\ o'.buf = o.buf /\ o'.late = o.late /\ o'.fellBack = o.fellBack /\ o'.overwritten = o.overwritten
      /\ o'.call = o.call /\ o'.orphan = o.orphan
      /\ (o'.load = l1 /\ o.disk.live = 0) \/ (o'.load = l2 /\ o.disk.live \in Builds)
  BY <1>2, <1>3, <1>4, <1>5, Small DEF Objects
<1>7. Base(o') /\ LoadSound(o')
  BY <1>1, <1>2, <1>4, <1>5, <1>6 DEF Base, StoreSound, LoadSound, LateSound
<1>8. TypeOK' /\ FanSound' /\ RecordStands'
  BY <1>1, <1>6 DEF IInv, TypeOK, FanSound, RecordStands, Converging, GaveWay
<1>9. Settled'
  <2>1. fan.target # 0
    BY Small DEF IInv, TypeOK, Fans
  <2> QED BY <1>1, <1>4, <1>5, <1>6, <2>1 DEF IInv, RecordStands, Settled, Converging, GaveWay
<1> QED BY <1>7, <1>8, <1>9, IInvNext

-----------------------------------------------------------------------------
(* Nothing but the timers changes.                                         *)
Sames(s, t) ==
    /\ Same(s, t) /\ t.load = s.load /\ t.late = s.late /\ t.call = s.call /\ t.orphan = s.orphan
(* What the remaining steps need of the invariant.                         *)
LEMMA ObjectTypes ==
    ASSUME IInv
    PROVE  /\ o \in Objects /\ Base(o) /\ LoadSound(o) /\ o.disk \in Disks /\ o.load \in Loads /\ o.late \in Loads
           /\ o.call \in Rpcs /\ o.orphan \in Rpcs /\ fan \in Fans /\ kv \in [manifest: Builds, announced: BOOLEAN]
           /\ faults \in 0..MaxFaults /\ fan.target = kv.manifest /\ fan.target \in Builds
BY FieldTypes DEF IInv, TypeOK, FanSound, Fans

LEMMA MemoryStep ==
    ASSUME IInv, BackoffEnds \/ fillLz4Cache
    PROVE  IInv'
<1> DEFINE v == o.fill
           pruned == pruneCacheOlderThan(o.disk, {}, {v}, v)
           filled == [pruned EXCEPT !.lz4[v] = o.store]
<1>1. /\ o \in Objects /\ Base(o) /\ o.disk \in Disks /\ DiskSound(o.disk) /\ o.fill \in Numbers
      /\ UNCHANGED <<kv, fan, faults>> /\ 0 \in Numbers /\ v \in Numbers
      /\ CallSound(o.call) /\ CallSound(o.orphan)
  <2>1. o \in Objects /\ Base(o) /\ o.disk \in Disks
    BY ObjectTypes
  <2> QED BY <2>1, Small DEF BackoffEnds, fillLz4Cache, Base, Objects
<1>2. pruned \in Disks /\ DiskSound(pruned) /\ pruned.live = o.disk.live
  BY <1>1, PruneKeeps
<1>3. CASE o' = [o EXCEPT !.backoff = FALSE] \/ o' = [o EXCEPT !.fill = 0]
  <2>1. o' \in Objects /\ Sames(o, o')
    BY <1>1, <1>3 DEF Objects, Sames, Same
  <2> QED BY <1>1, <2>1, CallKeeps DEF Sames, Same
<1>4. ASSUME NEW disk \in Disks, DiskSound(disk), disk.live = o.disk.live,
             o' = [o EXCEPT !.fill = 0, !.disk = disk]
      PROVE  IInv'
  <2>1. /\ o' \in Objects /\ o'.disk = disk /\ o'.store = o.store /\ o'.current = o.current
        /\ o'.load = o.load /\ o'.buf = o.buf /\ o'.late = o.late /\ o'.call = o.call /\ o'.orphan = o.orphan
        /\ o'.fellBack = o.fellBack /\ o'.overwritten = o.overwritten
    BY <1>1, <1>4 DEF Objects
  <2> QED BY <1>1, <1>4, <2>1, CallKeeps
<1>5. CASE v # 0 /\ o.current = v /\ o.store # None
  <2>1. v \in Builds /\ o.store = Whole(v) /\ o.store \in Archives
    BY <1>1, <1>5, Small, FieldTypes DEF Base, StoreSound
  <2> HIDE DEF pruned, v
  <2>2. filled \in Disks /\ DiskSound(filled) /\ filled.live = o.disk.live
    BY <1>2, <2>1 DEF Disks, DiskSound
  <2>3. o' = [o EXCEPT !.fill = 0, !.disk = o.disk] \/ o' = [o EXCEPT !.fill = 0, !.disk = filled]
        \/ o' = [o EXCEPT !.backoff = FALSE]
    BY <1>1, <1>5 DEF fillLz4Cache, BackoffEnds, pruned, v, Objects
  <2> HIDE DEF filled
  <2> QED BY <1>1, <1>3, <1>4, <2>2, <2>3
<1>6. CASE ~(v # 0 /\ o.current = v /\ o.store # None)
  <2>1. o' = [o EXCEPT !.fill = 0, !.disk = o.disk] \/ o' = [o EXCEPT !.fill = 0, !.disk = pruned]
        \/ o' = [o EXCEPT !.backoff = FALSE]
    BY <1>1, <1>6 DEF fillLz4Cache, BackoffEnds, Objects
  <2> HIDE DEF pruned
  <2> QED BY <1>1, <1>2, <1>3, <1>4, <2>1
<1> QED BY <1>5, <1>6

LEMMA DeadlineStep ==
    ASSUME IInv, Deadline
    PROVE  IInv'
<1> DEFINE t == Outcome(o, "load", "failed")
           ld == [o.load EXCEPT !.asked = FALSE]
<1>1. UNCHANGED <<kv, fan, faults>> /\ o' = [t EXCEPT !.load = NoLoad, !.late = ld]
  BY DEF Deadline
<1>2. o \in Objects /\ Base(o) /\ LoadSound(o) /\ o.load \in Loads
  BY ObjectTypes
<1>3. /\ t \in Objects /\ Same(o, t)
      /\ CallKept(o.call, t.call) /\ CallKept(o.orphan, t.orphan)
  BY <1>2, OutcomeKeeps
<1>4. ld \in Loads /\ LateSound(ld)
  BY <1>2 DEF Loads, LateSound, LoadSound
<1> HIDE DEF t, ld
<1>5. /\ o' \in Objects /\ Same(o, o') /\ o'.load = NoLoad /\ o'.late = ld
      /\ o'.call = t.call /\ o'.orphan = t.orphan
  BY <1>1, <1>3, <1>4, Idle DEF Objects, Same
<1>6. CallSound(o'.call) /\ CallSound(o'.orphan)
  BY <1>2, <1>3, <1>5, KeptSound DEF Base
<1>7. Base(o') /\ LoadSound(o')
  BY <1>2, <1>4, <1>5, <1>6, Idle DEF Base, StoreSound, LoadSound, LateSound, Same
<1>8. TypeOK' /\ FanSound' /\ RecordStands'
  BY <1>1, <1>3, <1>5 DEF IInv, TypeOK, FanSound, RecordStands, Converging, GaveWay, CallKept, Same
<1>9. Settled'
  BY <1>1, <1>3, <1>5, Idle DEF IInv, Settled, Converging, GaveWay, CallKept, Same
<1> QED BY <1>7, <1>8, <1>9, IInvNext

(* A failed call costs an attempt, and after the last the object is        *)
(* counted as missed: nothing is claimed of it then.                       *)
LEMMA BarrierMoves ==
    ASSUME IInv, Sent, barrier
    PROVE  /\ fan' \in Fans /\ fan'.target = fan.target
           /\ \/ fan'.pc = "retry" /\ fan'.attempts < NOTIFY_MAX_ATTEMPTS
              \/ fan'.pc = "done" /\ fan'.missed
<1>1. fan \in Fans /\ fan.attempts < NOTIFY_MAX_ATTEMPTS
  BY DEF IInv, TypeOK, FanSound, Sent
<1>2. NOTIFY_MAX_ATTEMPTS \in Nat
  BY BoundsAssumption
<1>3. fan.attempts + 1 \in 0..NOTIFY_MAX_ATTEMPTS
  BY <1>1, <1>2 DEF Fans
<1> QED BY <1>1, <1>2, <1>3 DEF barrier, Fans

LEMMA AfterBarrier ==
    ASSUME IInv, Sent, barrier, Base(o'), LoadSound(o'), UNCHANGED kv, Fault \/ UNCHANGED faults
    PROVE  IInv'
<1>1. TypeOK'
  BY BarrierMoves, FaultKeeps DEF IInv, TypeOK, Base
<1>2. FanSound' /\ RecordStands' /\ Settled'
  BY BarrierMoves DEF IInv, FanSound, RecordStands, Settled, Converging
<1> QED BY <1>1, <1>2, IInvNext

LEMMA NewCall ==
    ASSUME IInv, NEW c \in Rpcs, NEW d \in Rpcs, CallSound(c), CallSound(d),
           o' = [o EXCEPT !.call = c, !.orphan = d]
    PROVE  /\ Base(o') /\ LoadSound(o') /\ o'.load = o.load /\ o'.call = c /\ Same(o, o')
           /\ o' \in Objects
<1>1. o \in Objects /\ Base(o) /\ LoadSound(o)
  BY ObjectTypes
<1>2. /\ o' \in Objects /\ Same(o, o') /\ o'.load = o.load /\ o'.late = o.late
      /\ o'.call = c /\ o'.orphan = d
  BY <1>1 DEF Objects, Same
<1> QED BY <1>1, <1>2 DEF Base, StoreSound, LoadSound, Same

(* The steps of the coordinator.                                           *)
LEMMA NotifyBeginsStep ==
    ASSUME IInv, NotifyBegins
    PROVE  IInv'
<1> DEFINE pc == IF kv.announced THEN "prepare" ELSE "done"
<1>1. /\ fan.pc \in {"idle", "retry"} /\ UNCHANGED <<o, kv, faults>>
      /\ fan' = [fan EXCEPT !.pc = pc, !.told = kv.announced]
  BY DEF NotifyBegins
<1>2. fan \in Fans /\ kv.announced \in BOOLEAN
  BY ObjectTypes
<1>3. /\ fan' \in Fans /\ fan'.target = fan.target /\ fan'.attempts = fan.attempts
      /\ fan'.told = kv.announced /\ fan'.pc = pc
  BY <1>1, <1>2 DEF Fans
<1>4. TypeOK' /\ FanSound'
  BY <1>1, <1>3 DEF IInv, TypeOK, FanSound
<1>5. RecordStands' /\ Settled'
  BY <1>3 DEF RecordStands, Settled, Converging
<1>6. Base(o') /\ LoadSound(o')
  BY <1>1 DEF IInv
<1> QED BY <1>4, <1>5, <1>6, IInvNext

LEMMA SendPrepareStep ==
    ASSUME IInv, SendPrepare
    PROVE  IInv'
<1> DEFINE c == [NoRpc EXCEPT !.kind = "prepare", !.pc = "settle", !.v = fan.target]
           disk == [o.disk EXCEPT !.live = fan.target]
<1>1. /\ fan.pc = "prepare" /\ UNCHANGED <<kv, faults>> /\ fan' = [fan EXCEPT !.pc = "preparing"]
      /\ o' = [o EXCEPT !.disk = disk, !.fellBack = FALSE, !.overwritten = FALSE, !.call = c]
  <2>1. o \in Objects
    BY ObjectTypes
  <2> QED BY <2>1 DEF SendPrepare, Objects
<1>2. /\ o \in Objects /\ Base(o) /\ LoadSound(o) /\ o.disk \in Disks /\ fan \in Fans
      /\ fan.target \in Builds /\ fan.target \in Numbers
  BY ObjectTypes, Small
<1>3. c \in Rpcs /\ CallSound(c) /\ c.kind = "prepare"
  BY <1>2, Small DEF NoRpc, Rpcs, CallSound
<1>4. disk \in Disks /\ disk.live = fan.target /\ disk.lz4 = o.disk.lz4
  BY <1>2 DEF Disks
<1>5. /\ fan' \in Fans /\ fan'.target = fan.target /\ fan'.attempts = fan.attempts
      /\ fan'.pc = "preparing"
  BY <1>1, <1>2 DEF Fans
<1> HIDE DEF c, disk
<1>6. /\ o' \in Objects /\ o'.disk = disk /\ o'.store = o.store /\ o'.current = o.current
      /\ o'.load = o.load /\ o'.buf = o.buf /\ o'.late = o.late /\ o'.call = c /\ o'.orphan = o.orphan
  BY <1>1, <1>2, <1>3, <1>4 DEF Objects
<1>7. Base(o') /\ LoadSound(o')
  BY <1>2, <1>3, <1>4, <1>6 DEF Base, StoreSound, LoadSound, DiskSound
<1>8. TypeOK' /\ FanSound' /\ RecordStands' /\ Settled'
  BY <1>1, <1>3, <1>4, <1>5, <1>6
  DEF IInv, TypeOK, FanSound, RecordStands, Settled, Converging
<1> QED BY <1>7, <1>8, IInvNext

LEMMA SendCommitStep ==
    ASSUME IInv, SendCommit
    PROVE  IInv'
<1> DEFINE c == [NoRpc EXCEPT !.kind = "commit", !.pc = "settle"]
<1>1. o \in Objects /\ Base(o) /\ o.orphan \in Rpcs /\ fan \in Fans
  BY ObjectTypes
<1>2. /\ fan.pc = "commit" /\ UNCHANGED <<kv, faults>> /\ fan' = [fan EXCEPT !.pc = "committing"]
      /\ o' = [o EXCEPT !.call = c, !.orphan = o.orphan]
  BY <1>1 DEF SendCommit, Objects
<1>3. c \in Rpcs /\ CallSound(c) /\ c.kind = "commit" /\ c.pc = "settle"
  BY Small DEF NoRpc, Rpcs, CallSound
<1>4. /\ fan' \in Fans /\ fan'.target = fan.target /\ fan'.attempts = fan.attempts
      /\ fan'.pc = "committing"
  BY <1>1, <1>2 DEF Fans
<1> HIDE DEF c
<1>5. /\ Base(o') /\ LoadSound(o') /\ o'.load = o.load /\ o'.call = c /\ Same(o, o')
      /\ o' \in Objects
  BY <1>1, <1>2, <1>3, NewCall DEF Base
<1>6. TypeOK' /\ FanSound' /\ RecordStands' /\ Settled'
  BY <1>2, <1>3, <1>4, <1>5
  DEF IInv, TypeOK, FanSound, RecordStands, Settled, Converging, GaveWay, Same
<1> QED BY <1>5, <1>6, IInvNext

LEMMA AnswerStep ==
    ASSUME IInv, Answer
    PROVE  IInv'
<1>1. o \in Objects /\ Base(o) /\ o.orphan \in Rpcs /\ fan \in Fans
  BY ObjectTypes
<1>2. Sent /\ UNCHANGED <<kv, faults>> /\ o' = [o EXCEPT !.call = NoRpc, !.orphan = o.orphan]
  BY <1>1 DEF Answer, Objects
<1>3. /\ Base(o') /\ LoadSound(o') /\ o'.load = o.load /\ o'.call = NoRpc /\ Same(o, o')
      /\ o' \in Objects
  BY <1>1, <1>2, Idle, NewCall DEF Base
<1>4. CASE o.call.pc = "failed"
  <2>1. barrier
    BY <1>4 DEF Answer
  <2> QED BY <1>2, <1>3, <2>1, AfterBarrier
<1>5. CASE o.call.pc # "failed"
  <2> DEFINE pc == IF fan.pc = "preparing" THEN "commit" ELSE "done"
  <2>1. o.call.pc = "acked" /\ fan' = [fan EXCEPT !.pc = pc]
    BY <1>5 DEF Answer
  <2>2. /\ fan' \in Fans /\ fan'.target = fan.target /\ fan'.attempts = fan.attempts
        /\ fan'.pc = pc /\ fan'.told = fan.told /\ fan'.missed = fan.missed
    BY <1>1, <2>1 DEF Fans
  <2>3. TypeOK' /\ FanSound'
    BY <1>2, <1>3, <2>2 DEF IInv, TypeOK, FanSound, Sent
  <2>4. RecordStands' /\ Settled'
    BY <1>2, <1>3, <2>1, <2>2
    DEF IInv, RecordStands, Settled, Converging, GaveWay, Same, Sent
  <2> QED BY <1>3, <2>3, <2>4, IInvNext
<1> QED BY <1>4, <1>5

LEMMA LoseAnswerStep ==
    ASSUME IInv, LoseAnswer
    PROVE  IInv'
<1>1. o \in Objects /\ Base(o) /\ o.call \in Rpcs
  BY ObjectTypes
<1>2. Sent /\ barrier /\ UNCHANGED kv /\ Fault /\ o' = [o EXCEPT !.call = NoRpc, !.orphan = o.call]
  BY DEF LoseAnswer
<1>3. Base(o') /\ LoadSound(o')
  BY <1>1, <1>2, Idle, NewCall DEF Base
<1> QED BY <1>2, <1>3, AfterBarrier

LEMMA OrphanEndsStep ==
    ASSUME IInv, OrphanEnds
    PROVE  IInv'
<1>1. o \in Objects /\ Base(o) /\ o.call \in Rpcs
  BY ObjectTypes
<1>2. UNCHANGED <<kv, fan, faults>> /\ o' = [o EXCEPT !.call = o.call, !.orphan = NoRpc]
  BY <1>1 DEF OrphanEnds, Objects
<1>3. /\ Base(o') /\ LoadSound(o') /\ o'.load = o.load /\ o'.call = o.call /\ Same(o, o')
      /\ o' \in Objects
  BY <1>1, <1>2, Idle, NewCall DEF Base
<1>4. TypeOK' /\ FanSound' /\ RecordStands' /\ Settled'
  BY <1>2, <1>3
  DEF IInv, TypeOK, FanSound, RecordStands, Settled, Converging, GaveWay, Same
<1> QED BY <1>3, <1>4, IInvNext

LEMMA ReleaseStep ==
    ASSUME IInv, Release
    PROVE  IInv'
<1>1. /\ Fault /\ o' = [o EXCEPT !.disk = NoDisk] /\ kv' = [kv EXCEPT !.announced = FALSE]
      /\ fan' = [fan EXCEPT !.pc = "over"]
  BY DEF Release, releaseCache
<1>2. /\ o \in Objects /\ Base(o) /\ LoadSound(o) /\ fan \in Fans
      /\ kv \in [manifest: Builds, announced: BOOLEAN]
  BY ObjectTypes
<1>3. NoDisk \in Disks /\ DiskSound(NoDisk)
  BY Small, Prefixes DEF NoDisk, Disks, DiskSound
<1>4. /\ o' \in Objects /\ o'.disk = NoDisk /\ o'.store = o.store /\ o'.current = o.current
      /\ o'.load = o.load /\ o'.buf = o.buf /\ o'.late = o.late /\ o'.call = o.call /\ o'.orphan = o.orphan
  BY <1>1, <1>2, <1>3 DEF Objects
<1>5. Base(o') /\ LoadSound(o')
  BY <1>2, <1>3, <1>4 DEF Base, StoreSound, LoadSound
<1>6. fan' \in Fans /\ fan'.pc = "over" /\ fan'.target = fan.target
  BY <1>1, <1>2 DEF Fans
<1>7. kv' \in [manifest: Builds, announced: BOOLEAN] /\ kv'.manifest = kv.manifest
  BY <1>1, <1>2
<1>8. TypeOK' /\ FanSound' /\ RecordStands' /\ Settled'
  BY <1>1, <1>4, <1>6, <1>7, FaultKeeps
  DEF IInv, TypeOK, FanSound, RecordStands, Settled, Converging
<1> QED BY <1>5, <1>8, IInvNext

LEMMA PublishStep ==
    ASSUME IInv, Publish
    PROVE  IInv'
<1>1. /\ UNCHANGED <<o, faults>> /\ kv.manifest < MaxBuild /\ kv' = [kv EXCEPT !.manifest = @ + 1]
      /\ fan' = [fan EXCEPT !.pc = "idle", !.target = @ + 1, !.attempts = 0, !.told = FALSE, !.missed = FALSE]
  BY DEF Publish
<1>2. /\ Base(o) /\ LoadSound(o) /\ fan \in Fans /\ fan.target = kv.manifest
      /\ kv \in [manifest: Builds, announced: BOOLEAN]
  BY ObjectTypes
<1>3. /\ kv.manifest + 1 \in Builds /\ fan.target + 1 \in Builds
      /\ 0 \in 0..NOTIFY_MAX_ATTEMPTS /\ 0 < NOTIFY_MAX_ATTEMPTS
  BY <1>1, <1>2, BoundsAssumption DEF Builds
<1>4. /\ fan' \in Fans /\ fan'.pc = "idle" /\ fan'.target = fan.target + 1 /\ fan'.attempts = 0
  BY <1>1, <1>2, <1>3 DEF Fans
<1>5. kv' \in [manifest: Builds, announced: BOOLEAN] /\ kv'.manifest = kv.manifest + 1
  BY <1>1, <1>2, <1>3
<1>6. TypeOK' /\ FanSound' /\ RecordStands' /\ Settled'
  BY <1>1, <1>2, <1>3, <1>4, <1>5 DEF IInv, TypeOK, FanSound, RecordStands, Settled, Converging
<1>7. Base(o') /\ LoadSound(o')
  BY <1>1, <1>2
<1> QED BY <1>6, <1>7, IInvNext

LEMMA TrapStep ==
    ASSUME IInv, dropInstance
    PROVE  IInv'
<1>1. /\ UNCHANGED <<kv, fan>> /\ Fault /\ o' = [o EXCEPT !.buf = None, !.store = None, !.current = 0]
  BY DEF dropInstance
<1>2. o \in Objects /\ Base(o) /\ LoadSound(o)
  BY ObjectTypes
<1>3. /\ o' \in Objects /\ o'.disk = o.disk /\ o'.store = None /\ o'.current = 0
      /\ o'.load = o.load /\ o'.buf = None /\ o'.late = o.late /\ o'.call = o.call /\ o'.orphan = o.orphan
      /\ o'.fellBack = o.fellBack /\ o'.overwritten = o.overwritten
  BY <1>1, <1>2, Small, Prefixes DEF Objects
<1>4. Base(o') /\ LoadSound(o')
  BY <1>2, <1>3 DEF Base, StoreSound, LoadSound
<1>5. TypeOK' /\ FanSound' /\ RecordStands' /\ Settled'
  BY <1>1, <1>3, FaultKeeps
  DEF IInv, TypeOK, FanSound, RecordStands, Settled, Converging, GaveWay
<1> QED BY <1>4, <1>5, IInvNext

(* A new isolate.                                                          *)
LEMMA AwakeFields ==
    ASSUME NEW disk \in Disks
    PROVE  LET t == Awake(disk)
           IN  /\ t \in Objects /\ t.disk = disk /\ t.current = 0
               /\ t.load = NoLoad /\ t.late = NoLoad /\ t.call = NoRpc /\ t.orphan = NoRpc
<1>1. /\ NoLoad \in Loads /\ NoRpc \in Rpcs /\ 0 \in Numbers /\ None \in Archives
  BY Idle, Small, Prefixes
<1> QED BY <1>1 DEF Awake, Objects

LEMMA AwakeSound ==
    ASSUME NEW t \in Objects, DiskSound(t.disk), t.current = 0,
           t.load = NoLoad, t.late = NoLoad, t.call = NoRpc, t.orphan = NoRpc
    PROVE  Base(t) /\ LoadSound(t)
BY Idle DEF Base, StoreSound, LoadSound, LateSound

LEMMA EvictStep ==
    ASSUME IInv, Evict
    PROVE  IInv'
<1>1. /\ UNCHANGED kv /\ Fault /\ (IF Sent THEN barrier ELSE UNCHANGED fan)
      /\ o' = [Awake(o.disk) EXCEPT !.fellBack = o.fellBack, !.overwritten = o.overwritten]
  BY DEF Evict
<1>2. /\ o \in Objects /\ o.disk \in Disks /\ DiskSound(o.disk)
      /\ o.fellBack \in BOOLEAN /\ o.overwritten \in BOOLEAN
  BY ObjectTypes DEF Base, Objects
<1>3. /\ Base(o') /\ LoadSound(o') /\ o' \in Objects /\ o'.disk = o.disk /\ o'.current = 0
      /\ o'.load = NoLoad /\ o'.call = NoRpc
      /\ o'.fellBack = o.fellBack /\ o'.overwritten = o.overwritten
  <2> DEFINE t == Awake(o.disk)
  <2>1. /\ t \in Objects /\ t.disk = o.disk /\ t.current = 0
        /\ t.load = NoLoad /\ t.late = NoLoad /\ t.call = NoRpc /\ t.orphan = NoRpc
    BY <1>2, AwakeFields
  <2>2. o' = [t EXCEPT !.fellBack = o.fellBack, !.overwritten = o.overwritten]
    BY <1>1
  <2> HIDE DEF t
  <2>3. /\ o' \in Objects /\ o'.disk = o.disk /\ o'.current = 0
        /\ o'.load = NoLoad /\ o'.late = NoLoad /\ o'.call = NoRpc /\ o'.orphan = NoRpc
        /\ o'.fellBack = o.fellBack /\ o'.overwritten = o.overwritten
    BY <1>2, <2>1, <2>2 DEF Objects
  <2> QED BY <1>2, <2>3, AwakeSound
<1>4. CASE Sent
  BY <1>1, <1>3, <1>4, AfterBarrier
<1>5. CASE ~Sent
  <2>1. TypeOK' /\ FanSound' /\ RecordStands' /\ Settled'
    BY <1>1, <1>3, <1>5, FaultKeeps, Idle
    DEF IInv, TypeOK, FanSound, RecordStands, Settled, Converging, GaveWay, Sent
  <2> QED BY <1>3, <2>1, IInvNext
<1> QED BY <1>4, <1>5

-----------------------------------------------------------------------------
(* The invariant is inductive.                                             *)
LEMMA InitIInv == Init => IInv
<1> SUFFICES ASSUME Init PROVE IInv
  OBVIOUS
<1>1. NoDisk \in Disks /\ DiskSound(NoDisk)
  BY Small, Prefixes DEF NoDisk, Disks, DiskSound
<1>2. /\ o \in Objects /\ o.disk = NoDisk /\ o.current = 0
      /\ o.load = NoLoad /\ o.late = NoLoad /\ o.call = NoRpc /\ o.orphan = NoRpc
  BY <1>1, AwakeFields DEF Init
<1>3. Base(o) /\ LoadSound(o)
  BY <1>1, <1>2, AwakeSound
<1>4. /\ fan \in Fans /\ kv \in [manifest: Builds, announced: BOOLEAN] /\ faults \in 0..MaxFaults
      /\ fan.pc = "over" /\ fan.target = kv.manifest
  <2>1. 1 \in Builds /\ 0 \in 0..NOTIFY_MAX_ATTEMPTS /\ 0 \in 0..MaxFaults
    BY BoundsAssumption DEF Builds
  <2> QED BY <2>1 DEF Init, Fans
<1> QED BY <1>2, <1>3, <1>4 DEF IInv, TypeOK, FanSound, RecordStands, Settled, Converging

LEMMA NextIInv == IInv /\ [Next]_vars => IInv'
<1> SUFFICES ASSUME IInv, [Next]_vars PROVE IInv'
  OBVIOUS
<1>1. CASE UNCHANGED vars
  BY <1>1 DEF vars, IInv, TypeOK, Base, LoadSound, DiskSound, StoreSound, LateSound, CallSound,
     FanSound, RecordStands, Settled, Converging, GaveWay
<1>2. CASE getEngine
  BY <1>2, RequestStep
<1>3. CASE BackoffEnds \/ fillLz4Cache
  BY <1>3, MemoryStep
<1>4. CASE Calls
  BY <1>4, PrepareStep, PrefetchStep, JoinStep, SwapStep DEF Calls
<1>5. CASE Notify
  BY <1>5, NotifyBeginsStep, SendPrepareStep, SendCommitStep, AnswerStep, LoseAnswerStep,
     OrphanEndsStep, ReleaseStep DEF Notify
<1>6. CASE Publish
  BY <1>6, PublishStep
<1>7. CASE dropInstance \/ Evict
  BY <1>7, TrapStep, EvictStep
<1>8. CASE Deadline \/ \E l \in LoadIds: loadStore(l)
  BY <1>8, DeadlineStep, LoadStoreStep
<1> QED BY <1>1, <1>2, <1>3, <1>4, <1>5, <1>6, <1>7, <1>8 DEF Next

LEMMA Inductive == Spec => []IInv
<1>1. Init => IInv
  BY InitIInv
<1>2. IInv /\ [Next]_vars => IInv'
  BY NextIInv
<1> QED BY <1>1, <1>2, PTL DEF Spec

(* The state of the object, the fan-out and the manifest keeps its types,  *)
(* and the fan-out its bound of attempts (NOTIFY_MAX_ATTEMPTS in           *)
(* stepNotify).                                                            *)
THEOREM TypeCorrect == Spec => []TypeOK
<1>1. IInv => TypeOK
  BY DEF IInv
<1> QED BY <1>1, Inductive, PTL

(* The object serves one whole build, the one its manifest names, and the  *)
(* lz4 copies it keeps are whole (loadStore, its fence, fillLz4Cache).     *)
THEOREM WholeStoreOnly == Spec => []ServesWholeStore
<1>1. IInv => ServesWholeStore
  BY DEF IInv, Base, StoreSound, DiskSound, ServesWholeStore
<1> QED BY <1>1, Inductive, PTL

(* An object that acknowledged a prepare and a commit is on the build, or  *)
(* cold, unless its record gave way (settleInFlightLoad, commitPublish,    *)
(* stepNotify).                                                            *)
THEOREM FanOutConverges == Spec => []Converged
<1>1. IInv => Converged
  BY DEF IInv, Settled, Converging, GaveWay, Converged
<1> QED BY <1>1, Inductive, PTL
=============================================================================
