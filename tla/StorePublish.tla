---------------------------- MODULE StorePublish ----------------------------
(***************************************************************************)
(* How a card store reaches KV, with every writer that shares the          *)
(* namespace: the import coordinators (src/import-coordinator.ts), which   *)
(* upload a family one chunk per alarm; the watchdog                       *)
(* (src/import-watchdog.ts), which moves the pointer to a new coordinator; *)
(* and the deploy (scripts/import-store.sh), which first sweeps and copies a *)
(* manifest with no lease at all (prune-kv.ts, ensure-format-manifest.ts)  *)
(* and then, unless it skips the import, fences the coordinators and       *)
(* uploads its own family (seed-remote-kv.ts).  All of them sweep by role  *)
(* (KvRetention).                                                          *)
(*                                                                         *)
(* A step is one KV operation, or several with no decision between them    *)
(* that another writer could spoil.  An alarm of a coordinator is a slice: *)
(* a sequence of steps that begins and ends with pc "rest", may be killed  *)
(* between any two, and keeps only what its SQLite holds.                  *)
(***************************************************************************)
EXTENDS KvRetention

CONSTANTS
    MaxEpoch,    \* Bound: failovers in one behaviour.
    Deploys,     \* The deploy jobs, each of which runs once.
    Starts,      \* The chunks that are the first of their partition.
    EmptyStart,    \* TRUE: the namespace starts empty, FALSE: with a store live.
    SerialDeploys, \* TRUE: one deploy job at a time.
    Downgrades,    \* TRUE: a deploy may take the code back to an older format.
    CleanupFails,  \* TRUE: a best-effort read, release, retirement or sweep may fail.
    FenceReadsFail, \* TRUE: so may a fence's read, and then the run carries on.
    Prompt         \* TRUE: a short KV sequence ends within any long operation.

ASSUME MaxEpochAssumption == MaxEpoch \in Nat
ASSUME StartsAssumption == Starts \subseteq 1..Chunks
ASSUME CasesAssumption ==
    /\ {EmptyStart, SerialDeploys, Downgrades, CleanupFails, FenceReadsFail, Prompt} \subseteq BOOLEAN
    /\ ~EmptyStart => MaxBuilds >= 2

Coordinators == 0..MaxEpoch
Actors == Coordinators \cup Deploys
ASSUME DeploysAssumption == Deploys \cap Coordinators = {} /\ IsFiniteSet(Deploys)

VARIABLES
    kv,        \* Family -> the chunks of it present in KV.
    manifests, \* Manifest key -> what it holds.
    lease,     \* store:publishing, the upload lease.
    pointer,   \* import:coordinator, the epoch of the designated coordinator.
    fence,     \* import:deploy-fence, as how many fences were written.
    code,      \* The archive format of the deployed Worker.
    builds,    \* The newest built_at stamped.
    co,        \* Coordinator -> its durable run (SQLite meta and pp_publish).
    slice,     \* Coordinator -> its alarm in flight, lost when it is killed.
    dep,       \* Deploy -> its job from the fence on.
    waits,     \* Actor -> those whose short sequence its long operation outlasts.
    prep,      \* Deploy -> its job before the fence, which takes no lease.
    astray     \* History: the families an unleased writer overlooked or brought back.

kvVars == <<kv, manifests, lease>>
prepVars == <<prep, astray>>
vars == <<kv, manifests, lease, pointer, fence, code, builds, co, slice, dep, waits, prep, astray>>

RunPhases == {"idle", "build", "routing", "publish", "manifest", "post", "retire"}
Working == {"build", "routing", "publish", "manifest", "post"}
SlicePcs == {"rest", "claim", "claimed", "sweep", "filter", "renew", "write", "put",
             "check", "fence", "commit", "mirror", "release", "roles", "drop"}
DeployPcs == {"off", "settle", "sweep", "drop", "upload", "carry", "check", "commit",
              "mirror", "release", "roles", "lease", "purge", "switch", "done", "dead"}
PrepSteps == {"roles", "lease", "drop", "own", "legacy", "copy"}
PrepPcs == PrepSteps \cup {"off", "ready", "over"}

Lease == [built : 0..MaxBuilds, owner : {"none", "run", "deploy"}, epoch : Nat]
Runs == [phase : RunPhases, started : Nat, built : 0..MaxBuilds, fmt : Formats \cup {0},
         held : BOOLEAN, done : 0..Chunks]
Slices == [pc : SlicePcs, seen : Published, replaced : Manifest]
Jobs == [pc : DeployPcs, fmt : Formats \cup {0}, built : 0..MaxBuilds, at : Nat, done : 0..Chunks,
         seen : Published, replaced : Manifest, mirror : BOOLEAN, inFlight : 0..MaxBuilds]
Preparations == [pc : PrepPcs, fmt : Formats \cup {0}, skips : BOOLEAN, seen : Published,
                 holder : 0..MaxBuilds, copied : Manifest]

TypeOK ==
    /\ kv \in Store
    /\ manifests \in Published
    /\ lease \in Lease
    /\ pointer \in Coordinators
    /\ fence \in Nat
    /\ code \in Formats
    /\ builds \in 0..MaxBuilds
    /\ co \in [Coordinators -> Runs]
    /\ slice \in [Coordinators -> Slices]
    /\ dep \in [Deploys -> Jobs]
    /\ waits \in [Actors -> SUBSET Actors]
    /\ prep \in [Deploys -> Preparations]
    /\ astray \subseteq Families

NothingPublished == [k \in ManifestKeys |-> NoManifest]
IdleRun == [phase |-> "idle", started |-> 0, built |-> 0, fmt |-> 0, held |-> FALSE, done |-> 0]
AtRest == [pc |-> "rest", seen |-> NothingPublished, replaced |-> NoManifest]
NotStarted == [pc |-> "off", fmt |-> 0, built |-> 0, at |-> 0, done |-> 0,
               seen |-> NothingPublished, replaced |-> NoManifest, mirror |-> FALSE,
               inFlight |-> 0]
Unprepared == [pc |-> "off", fmt |-> 0, skips |-> FALSE, seen |-> NothingPublished,
               holder |-> NoFamily, copied |-> NoManifest]

\* Either nothing was ever published, or one store is live under the deployed
\* format, with the store it replaced: through both of the format's keys, or (a
\* store older than the per-format keys) through the mirror alone.
Init ==
    /\ code \in Formats
    /\ builds = IF EmptyStart THEN 0 ELSE 2
    /\ \E keys \in {{Legacy}, {Legacy, code}} :
          manifests = [k \in ManifestKeys |->
              IF k \in keys /\ ~EmptyStart THEN [built |-> 2, fmt |-> code, prev |-> 1]
              ELSE NoManifest]
    /\ kv = [f \in Families |-> IF f \in 1..builds THEN FamilyKeys ELSE {}]
    /\ lease = NoLease
    /\ pointer = 0
    /\ fence = 0
    /\ co = [c \in Coordinators |-> IdleRun]
    /\ slice = [c \in Coordinators |-> AtRest]
    /\ dep = [d \in Deploys |-> NotStarted]
    /\ waits = [a \in Actors |-> {}]
    /\ prep = [d \in Deploys |-> Unprepared]
    /\ astray = {}

-----------------------------------------------------------------------------
(***************************************************************************)
(* Time.  A long operation (an import before its first key, an upload, the *)
(* deploy's fence settling) takes minutes; a short sequence of KV          *)
(* operations takes seconds.  Under Prompt, a short sequence under way     *)
(* when a long operation begins is over before it ends; without it, a      *)
(* sequence may stall for as long as it likes.  An import also outlasts a  *)
(* settling fence (DEPLOY_FENCE_FRESH_MS).                                 *)
(***************************************************************************)
MidSequence == {c \in Coordinators : slice[c].pc # "rest"} \cup
               {d \in Deploys : \/ dep[d].pc \notin {"off", "settle", "upload", "done", "dead"}
                                \/ prep[d].pc \in PrepSteps}
Settling == {d \in Deploys : dep[d].pc = "settle"}

LongBegins(a, busy) == waits' = IF Prompt THEN [waits EXCEPT ![a] = busy \ {a}] ELSE waits
LongMayEnd(a) == waits[a] = {}
Over(x) == [a \in Actors |-> waits[a] \ {x}]
SequenceOver(x) == waits' = Over(x)

-----------------------------------------------------------------------------
(***************************************************************************)
(* The fences (supersededBy) and the end of a run.                         *)
(***************************************************************************)
\* Mutations: a run no longer sees the deploy's fence; the watchdog's pointer.
Superseded_NoDeployFence(c) == pointer > c
Superseded_NoPointer(c) == fence > co[c].started

Superseded(c) == pointer > c \/ fence > co[c].started
MyLease(c) == [built |-> co[c].built, owner |-> "run", epoch |-> c]
LeaseLost(c) == DecideUploadLease(lease, MyLease(c)) # "take"

\* The alarm's fence, and the write-time one (fenceBeforeWrite): a read that
\* fails retires nothing.
AlarmPasses(c) == FenceReadsFail \/ ~Superseded(c)
WriteStops(c) == Superseded(c) \/ LeaseLost(c)
WritePasses(c) == FenceReadsFail \/ ~WriteStops(c)

\* Compare-and-delete: releasePublishing, releaseDeployLease.
Released(b) == IF lease.built = b THEN NoLease ELSE lease
Release(b) == lease' = Released(b) \/ (CleanupFails /\ UNCHANGED lease)

Rest(c) == [slice EXCEPT ![c] = AtRest]
Goto(c, pc) == slice' = [slice EXCEPT ![c].pc = pc]
AtAlarm(c, phase) == co[c].phase = phase /\ slice[c].pc = "rest"

BeginRetire(c) ==
    /\ co' = [co EXCEPT ![c].phase = "retire"]
    /\ slice' = Rest(c)
    /\ SequenceOver(c)

\* failRun: the run is over and gives its lease back.
EndFailed(c) ==
    /\ co' = [co EXCEPT ![c].phase = "idle"]
    /\ slice' = Rest(c)
    /\ SequenceOver(c)
    /\ Release(co[c].built)

\* The nightly cron, a failover's start, or a lost start made up for: triggers
\* address the designated coordinator. One with a run in flight declines, unless
\* nothing of that run was heard for STALE_IDLE_MS: the new run replaces it.
StartImport(c) ==
    /\ c = pointer
    /\ slice[c].pc = "rest"
    /\ co' = [co EXCEPT ![c] = [IdleRun EXCEPT !.phase = "build", !.started = fence]]
    /\ LongBegins(c, MidSequence \cup Settling)
    /\ UNCHANGED <<kvVars, pointer, fence, code, builds, slice, dep, prepVars>>

\* The top of every alarm.
Retire(c) ==
    /\ co[c].phase \in Working
    /\ slice[c].pc = "rest"
    /\ Superseded(c)
    /\ BeginRetire(c)
    /\ UNCHANGED <<kvVars, pointer, fence, code, builds, dep, prepVars>>

\* The retire purge: the run ends, the lease is the successor's business.
RetirePurged(c) ==
    /\ AtAlarm(c, "retire")
    /\ co' = [co EXCEPT ![c].phase = "idle"]
    /\ UNCHANGED <<kvVars, pointer, fence, code, builds, slice, dep, waits, prepVars>>

\* A budget or the attempt cap, checked after the fence, or an error mid-slice.
FailRun(c) ==
    /\ co[c].phase \in Working
    /\ slice[c].pc # "rest" \/ AlarmPasses(c)
    /\ EndFailed(c)
    /\ UNCHANGED <<kv, manifests, pointer, fence, code, builds, dep, prepVars>>

\* The object is reset (a deploy, ctx.abort, a crash): the alarm fires again.
KillSlice(c) ==
    /\ slice[c].pc # "rest"
    /\ slice' = Rest(c)
    /\ SequenceOver(c)
    /\ UNCHANGED <<kvVars, pointer, fence, code, builds, co, dep, prepVars>>

\* The watchdog replaces a coordinator that went silent, with or without a run in
\* flight: pointer first.
Failover ==
    /\ pointer < MaxEpoch
    /\ pointer' = pointer + 1
    /\ UNCHANGED <<kvVars, fence, code, builds, co, slice, dep, waits, prepVars>>

-----------------------------------------------------------------------------
(***************************************************************************)
(* A run up to its first key: the build is stamped at the end of tags, and *)
(* beginFamilyUpload takes the lease and makes room.                       *)
(***************************************************************************)
StampBuild(c) ==
    /\ AtAlarm(c, "build")
    /\ AlarmPasses(c)
    /\ LongMayEnd(c)
    /\ builds < MaxBuilds
    /\ builds' = builds + 1
    /\ co' = [co EXCEPT ![c].phase = "routing", ![c].built = builds + 1, ![c].fmt = code]
    /\ UNCHANGED <<kvVars, pointer, fence, code, slice, dep, waits, prepVars>>

\* The fence and the lease's answer; a run told to wait asks again later.
ClaimLease(c) ==
    /\ AtAlarm(c, "routing")
    /\ ~co[c].held
    /\ AlarmPasses(c)
    /\ \/ /\ DecideUploadLease(lease, MyLease(c)) = "take"
          /\ Goto(c, "claim")
          /\ UNCHANGED <<co, waits>>
       \/ /\ DecideUploadLease(lease, MyLease(c)) = "yield"
          /\ BeginRetire(c)
    /\ UNCHANGED <<kvVars, pointer, fence, code, builds, dep, prepVars>>

\* Mutation: a takeover does not write the lease.
PutLease_OnlyWhenFree(c) ==
    /\ slice[c].pc = "claim"
    /\ lease' = IF lease = NoLease THEN MyLease(c) ELSE lease
    /\ Goto(c, "claimed")
    /\ UNCHANGED <<kv, manifests, pointer, fence, code, builds, co, dep, waits, prepVars>>

PutLease(c) ==
    /\ slice[c].pc = "claim"
    /\ lease' = MyLease(c)
    /\ Goto(c, "claimed")
    /\ UNCHANGED <<kv, manifests, pointer, fence, code, builds, co, dep, waits, prepVars>>

\* retireOlderFormats: what KV holds afterwards, and what the run takes it to
\* hold.  One that fails, before or after the mirror moved, counts as none.
Retirements(pub, f) ==
    LET after == RetireOlderFormats(pub, f)
    IN  {<<after, after>>} \cup
        IF CleanupFails THEN {<<pub, pub>>, <<[pub EXCEPT ![Legacy] = after[Legacy]], pub>>} ELSE {}

\* The live manifests, once the formats this code has made obsolete are retired;
\* on a read that fails, nothing is swept and the guard is not asked.
ReadRoles(c) ==
    /\ slice[c].pc = "claimed"
    /\ \/ \E r \in Retirements(manifests, co[c].fmt) :
             /\ manifests' = r[1]
             /\ slice' = [slice EXCEPT ![c].pc = "sweep", ![c].seen = r[2]]
       \/ CleanupFails /\ Goto(c, "sweep") /\ UNCHANGED manifests
    /\ UNCHANGED <<kv, lease, pointer, fence, code, builds, co, dep, waits, prepVars>>

ClaimPlan(c) ==
    PlanRetention(kv, slice[c].seen, co[c].built, RunIncoming(slice[c].seen, co[c].fmt))

MakeRoom(c) ==
    /\ slice[c].pc = "sweep"
    /\ kv' = WithoutFamilies(kv, ClaimPlan(c).retire)
    /\ \/ /\ ClaimPlan(c).decision = "refuse"
          /\ EndFailed(c)
       \/ /\ ClaimPlan(c).decision # "refuse"
          /\ co' = [co EXCEPT ![c].held = TRUE]
          /\ slice' = [Rest(c) EXCEPT ![c].pc = "filter"]
          /\ UNCHANGED <<lease, waits>>
    /\ UNCHANGED <<manifests, pointer, fence, code, builds, dep, prepVars>>

\* stepRouting's key, the family's first; failing to build it fails nothing. The
\* partitions' builds come next.
PutFilter(c) ==
    /\ slice[c].pc = "filter"
    /\ \/ kv' = [kv EXCEPT ![co[c].built] = @ \cup {Filter}]
       \/ UNCHANGED kv
    /\ co' = [co EXCEPT ![c].phase = "publish"]
    /\ slice' = Rest(c)
    /\ waits' = [Over(c) EXCEPT ![c] = IF Prompt THEN MidSequence \ {c} ELSE {}]
    /\ UNCHANGED <<manifests, lease, pointer, fence, code, builds, dep, prepVars>>

-----------------------------------------------------------------------------
(***************************************************************************)
(* stepPublish: one chunk per alarm, behind the write-time fence.  The     *)
(* first chunk of a partition renews the lease first, as stepRouting does  *)
(* when it runs again.                                                     *)
(***************************************************************************)
\* Mutation: the cursor is taken for the next chunk's number.
NextChunk_Cursor(c) == co[c].done

NextChunk(c) == co[c].done + 1

RenewFence(c) ==
    /\ \/ AtAlarm(c, "routing") /\ co[c].held
       \/ AtAlarm(c, "publish") /\ NextChunk(c) \in Starts /\ LongMayEnd(c)
    /\ \/ WritePasses(c) /\ Goto(c, "renew") /\ UNCHANGED <<co, waits>>
       \/ WriteStops(c) /\ BeginRetire(c)
    /\ UNCHANGED <<kvVars, pointer, fence, code, builds, dep, prepVars>>

RenewLease(c) ==
    /\ slice[c].pc = "renew"
    /\ lease' = MyLease(c)
    /\ Goto(c, IF co[c].phase = "routing" THEN "filter" ELSE "write")
    /\ UNCHANGED <<kv, manifests, pointer, fence, code, builds, co, dep, waits, prepVars>>

ChunkFence(c) ==
    /\ \/ slice[c].pc = "write"
       \/ AtAlarm(c, "publish") /\ NextChunk(c) \notin Starts /\ LongMayEnd(c)
    /\ \/ WritePasses(c) /\ Goto(c, "put") /\ UNCHANGED <<co, waits>>
       \/ WriteStops(c) /\ BeginRetire(c)
    /\ UNCHANGED <<kvVars, pointer, fence, code, builds, dep, prepVars>>

\* The put lands; the object may be reset before the cursor is recorded.
PutChunk(c) ==
    /\ slice[c].pc = "put"
    /\ kv' = [kv EXCEPT ![co[c].built] = @ \cup {NextChunk(c)}]
    /\ \/ /\ co' = [co EXCEPT ![c].done = @ + 1,
                    ![c].phase = IF NextChunk(c) = Chunks THEN "manifest" ELSE @]
       \/ /\ UNCHANGED co
    /\ slice' = Rest(c)
    /\ SequenceOver(c)
    /\ UNCHANGED <<manifests, lease, pointer, fence, code, builds, dep, prepVars>>

-----------------------------------------------------------------------------
(***************************************************************************)
(* stepManifest: one alarm, from the first fence to the sweep.  Killed     *)
(* anywhere it starts over; the phase moves on only at its end.            *)
(***************************************************************************)
\* liveManifestJson: a read that fails publishes over nothing.
ReplacedRead(f) ==
    {ReplacedManifest(manifests, f)} \cup IF CleanupFails THEN {NoManifest} ELSE {}

ReadReplaced(c) ==
    /\ AtAlarm(c, "manifest")
    /\ \/ /\ WritePasses(c)
          /\ \E m \in ReplacedRead(co[c].fmt) :
                slice' = [slice EXCEPT ![c].pc = "check", ![c].replaced = m]
          /\ UNCHANGED <<co, waits>>
       \/ WriteStops(c) /\ BeginRetire(c)
    /\ UNCHANGED <<kvVars, pointer, fence, code, builds, dep, prepVars>>

\* missingManifestChunks: a manifest naming absent chunks is refused, and the run with it.
CheckChunks(c) ==
    /\ slice[c].pc = "check"
    /\ \/ /\ Complete(kv, co[c].built)
          /\ Goto(c, "fence")
          /\ UNCHANGED <<lease, co, waits>>
       \/ ~Complete(kv, co[c].built) /\ EndFailed(c)
    /\ UNCHANGED <<kv, manifests, pointer, fence, code, builds, dep, prepVars>>

CommitFence(c) ==
    /\ slice[c].pc = "fence"
    /\ \/ WritePasses(c) /\ Goto(c, "commit") /\ UNCHANGED <<co, waits>>
       \/ WriteStops(c) /\ BeginRetire(c)
    /\ UNCHANGED <<kvVars, pointer, fence, code, builds, dep, prepVars>>

MyManifest(c) == NextManifest(co[c].built, co[c].fmt, slice[c].replaced)

\* writeManifest: the mirror is read, the format's own key put, then the mirror
\* if it follows; one that could not be read does.
WriteManifest(c) ==
    /\ slice[c].pc = "commit"
    /\ manifests' = [manifests EXCEPT ![co[c].fmt] = MyManifest(c)]
    /\ \/ Goto(c, IF LegacyFollows(manifests, co[c].fmt) THEN "mirror" ELSE "release")
       \/ CleanupFails /\ Goto(c, "mirror")
    /\ UNCHANGED <<kv, lease, pointer, fence, code, builds, co, dep, waits, prepVars>>

WriteMirror(c) ==
    /\ slice[c].pc = "mirror"
    /\ manifests' = [manifests EXCEPT ![Legacy] = MyManifest(c)]
    /\ Goto(c, "release")
    /\ UNCHANGED <<kv, lease, pointer, fence, code, builds, co, dep, waits, prepVars>>

ReleaseLease(c) ==
    /\ slice[c].pc = "release"
    /\ Release(co[c].built)
    /\ Goto(c, "roles")
    /\ UNCHANGED <<kv, manifests, pointer, fence, code, builds, co, dep, waits, prepVars>>

\* sweepByRole: the manifests first, this run's own as it was just written.
SweepRead(c) ==
    LET own == [manifests EXCEPT ![co[c].fmt] = MyManifest(c)]
    IN  /\ slice[c].pc = "roles"
        /\ \E r \in Retirements(own, co[c].fmt) :
              /\ manifests' = [r[1] EXCEPT ![co[c].fmt] = manifests[co[c].fmt]]
              /\ slice' = [slice EXCEPT ![c].pc = "drop", ![c].seen = r[2]]
        /\ UNCHANGED <<kv, lease, pointer, fence, code, builds, co, dep, waits, prepVars>>

\* Then the key list, then the lease: a holder that is not live is in flight.
\* Best effort: a read that fails leaves every key where it is.
InFlight(b, pub) == IF b \in LiveFamilies(pub) THEN NoFamily ELSE b

SweepDrop(c) ==
    /\ slice[c].pc = "drop"
    /\ \/ kv' = WithoutFamilies(kv,
                  PlanRetention(kv, slice[c].seen, InFlight(lease.built, slice[c].seen), NoGuard).retire)
       \/ CleanupFails /\ UNCHANGED kv
    /\ co' = [co EXCEPT ![c].phase = "post"]
    /\ slice' = Rest(c)
    /\ SequenceOver(c)
    /\ UNCHANGED <<manifests, lease, pointer, fence, code, builds, dep, prepVars>>

\* notify, rulings, reference and purge write no generation key and no manifest.
FinishRun(c) ==
    /\ AtAlarm(c, "post")
    /\ AlarmPasses(c)
    /\ co' = [co EXCEPT ![c].phase = "idle"]
    /\ UNCHANGED <<kvVars, pointer, fence, code, builds, slice, dep, waits, prepVars>>

-----------------------------------------------------------------------------
(***************************************************************************)
(* The deploy before its fence (import-store.sh).  A production deploy,    *)
(* whether or not it goes on to import, sweeps by role (prune-kv.ts) and   *)
(* sees to it that its format has a key of its own                         *)
(* (ensure-format-manifest.ts); either may fail without failing the job.   *)
(* Neither takes the lease, and each decides on what it read a step        *)
(* earlier.                                                                *)
(***************************************************************************)
Active(d) == dep[d].pc \notin {"off", "done", "dead"}
Preparing(d) == dep[d].pc = "off" /\ prep[d].pc \notin {"off", "over"}
UnderWay(d) == Active(d) \/ Preparing(d)

\* store-age.ts: the store that this code would load is of its format, and has
\* the last chunk of every partition.
LastChunks == {n \in 1..Chunks : n = Chunks \/ n + 1 \in Starts}

UsableStore(f) ==
    LET m == IF manifests[f].built # NoFamily THEN manifests[f] ELSE manifests[Legacy]
    IN  m.built # NoFamily /\ m.fmt = f /\ LastChunks \subseteq kv[m.built]

\* The job skips the import only over a usable store; one that is superseded,
\* and FORCE_IMPORT, import all the same.
BeginDeploy(d) ==
    /\ dep[d].pc = "off" /\ prep[d].pc = "off"
    /\ SerialDeploys => \A e \in Deploys : ~UnderWay(e)
    /\ \E f \in {g \in Formats : Downgrades \/ g >= code}, skips \in BOOLEAN :
          /\ skips => UsableStore(f)
          /\ prep' = [prep EXCEPT ![d].pc = "roles", ![d].fmt = f, ![d].skips = skips]
    /\ UNCHANGED <<kvVars, pointer, fence, code, builds, co, slice, dep, waits, astray>>

PruneOver(d) ==
    prep' = [prep EXCEPT ![d].pc = "own", ![d].seen = NothingPublished, ![d].holder = NoFamily]

\* sweepGenerationsByRole, the manifests first: with none readable nothing is
\* swept. Whose lease it is now decides nothing (history).
PruneReadManifests(d) ==
    /\ prep[d].pc = "roles"
    /\ \/ /\ Primary(manifests).built # NoFamily
          /\ prep' = [prep EXCEPT ![d].pc = "lease", ![d].seen = manifests, ![d].holder = lease.built]
       \/ (CleanupFails \/ Primary(manifests).built = NoFamily) /\ PruneOver(d)
    /\ UNCHANGED <<kvVars, pointer, fence, code, builds, co, slice, dep, waits, astray>>

\* The sweep decides on roles that are no longer those: a family published since
\* they were read, its lease given back, is debris to it; and beside the lease's
\* holder and a mirror that has moved on since, the rollback is a fourth family.
Rollback(pub) == IF OtherLive(pub) = {} THEN Primary(pub).prev ELSE NoFamily
Overlooked(d) ==
    LET seen == prep[d].seen
        role == RollbackRole(kv, seen, InFlight(lease.built, seen))
    IN  ((LiveFamilies(manifests) \cup ({Rollback(manifests)} \ {role}))
           \ (LiveFamilies(seen) \cup {lease.built})) \ {NoFamily}

\* Mutation: the sweep keeps what its manifests name and asks for no lease.
PruneReadLease_Never(d) ==
    /\ prep[d].pc = "lease"
    /\ prep' = [prep EXCEPT ![d].pc = "drop", ![d].holder = NoFamily]
    /\ astray' = astray \cup Overlooked(d)
    /\ UNCHANGED <<kvVars, pointer, fence, code, builds, co, slice, dep, waits>>

PruneReadLease(d) ==
    /\ prep[d].pc = "lease"
    /\ \/ /\ prep' = [prep EXCEPT ![d].pc = "drop", ![d].holder = lease.built]
          /\ astray' = astray \cup Overlooked(d)
       \/ CleanupFails /\ PruneOver(d) /\ UNCHANGED astray
    /\ UNCHANGED <<kvVars, pointer, fence, code, builds, co, slice, dep, waits>>

PrunePlan(d) ==
    PlanRetention(kv, prep[d].seen, InFlight(prep[d].holder, prep[d].seen), NoGuard)

PruneDrop(d) ==
    /\ prep[d].pc = "drop"
    /\ \/ kv' = WithoutFamilies(kv, PrunePlan(d).retire)
       \/ CleanupFails /\ UNCHANGED kv
    /\ PruneOver(d)
    /\ UNCHANGED <<manifests, lease, pointer, fence, code, builds, co, slice, dep, waits, astray>>

Prepared(d) ==
    /\ prep' = [prep EXCEPT ![d].pc = "ready", ![d].copied = NoManifest]
    /\ SequenceOver(d)

\* ensureFormatManifest: a store older than the per-format keys gets its own.
EnsureReadOwn(d) ==
    /\ prep[d].pc = "own"
    /\ \/ /\ manifests[prep[d].fmt].built = NoFamily
          /\ prep' = [prep EXCEPT ![d].pc = "legacy"]
          /\ UNCHANGED waits
       \/ (CleanupFails \/ manifests[prep[d].fmt].built # NoFamily) /\ Prepared(d)
    /\ UNCHANGED <<kvVars, pointer, fence, code, builds, co, slice, dep, astray>>

EnsureReadLegacy(d) ==
    LET m == manifests[Legacy]
    IN  /\ prep[d].pc = "legacy"
        /\ \/ /\ m.built # NoFamily /\ m.fmt = prep[d].fmt
              /\ prep' = [prep EXCEPT ![d].pc = "copy", ![d].copied = m]
              /\ UNCHANGED waits
           \/ (CleanupFails \/ m.built = NoFamily \/ m.fmt # prep[d].fmt) /\ Prepared(d)
        /\ UNCHANGED <<kvVars, pointer, fence, code, builds, co, slice, dep, astray>>

\* The copy comes late once its format's key, or the mirror, has moved on: it
\* puts back the store it read, and that store's rollback, over a newer one.
Late(d) == manifests[prep[d].fmt].built # NoFamily \/ manifests[Legacy] # prep[d].copied
PutBack(d) ==
    {manifests[prep[d].fmt].built, prep[d].copied.built, prep[d].copied.prev} \ {NoFamily}

EnsureCopy(d) ==
    /\ prep[d].pc = "copy"
    /\ \/ /\ manifests' = [manifests EXCEPT ![prep[d].fmt] = prep[d].copied]
          /\ astray' = IF Late(d) THEN astray \cup PutBack(d) ELSE astray
       \/ CleanupFails /\ UNCHANGED <<manifests, astray>>
    /\ Prepared(d)
    /\ UNCHANGED <<kv, lease, pointer, fence, code, builds, co, slice, dep>>

\* The import is skipped; `wrangler deploy` follows.
SkipImport(d) ==
    /\ Preparing(d) /\ prep[d].pc = "ready" /\ prep[d].skips
    /\ code' = prep[d].fmt
    /\ prep' = [prep EXCEPT ![d].pc = "over"]
    /\ UNCHANGED <<kvVars, pointer, fence, builds, co, slice, dep, waits, astray>>

PreparationDies(d) ==
    /\ Preparing(d)
    /\ prep' = [prep EXCEPT ![d].pc = "over", ![d].seen = NothingPublished,
                           ![d].holder = NoFamily, ![d].copied = NoManifest]
    /\ SequenceOver(d)
    /\ UNCHANGED <<kvVars, pointer, fence, code, builds, co, slice, dep, astray>>

-----------------------------------------------------------------------------
(***************************************************************************)
(* The deploy that imports.  Its fence retires every run that started      *)
(* before it; once that is settled it takes the lease from whoever holds   *)
(* it, makes room, uploads, and publishes while the lease is still its     *)
(* own.                                                                    *)
(***************************************************************************)
Job(d, pc) == dep' = [dep EXCEPT ![d].pc = pc]

WriteDeployFence(d) ==
    /\ dep[d].pc = "off"
    /\ prep[d].pc = "ready" /\ ~prep[d].skips
    /\ fence' = fence + 1
    /\ dep' = [dep EXCEPT ![d].pc = "settle", ![d].fmt = prep[d].fmt, ![d].at = fence + 1]
    /\ LongBegins(d, MidSequence)
    /\ UNCHANGED <<kvVars, pointer, code, builds, co, slice, prepVars>>

BeginDeployUpload(d) ==
    /\ dep' = [dep EXCEPT ![d].pc = "upload", ![d].seen = NothingPublished]
    /\ waits' = [Over(d) EXCEPT ![d] = IF Prompt THEN MidSequence \ {d} ELSE {}]

TakeLease(d) ==
    /\ dep[d].pc = "settle"
    /\ LongMayEnd(d)
    /\ builds < MaxBuilds
    /\ builds' = builds + 1
    /\ lease' = [built |-> builds + 1, owner |-> "deploy", epoch |-> dep[d].at]
    /\ dep' = [dep EXCEPT ![d].pc = "sweep", ![d].built = builds + 1]
    /\ UNCHANGED <<kv, manifests, pointer, fence, code, co, slice, waits, prepVars>>

\* The deploy makes room only on what it could read: otherwise it goes straight to its upload.
DeployReadRoles(d) ==
    /\ dep[d].pc = "sweep"
    /\ \/ /\ dep' = [dep EXCEPT ![d].pc = "drop", ![d].seen = manifests]
          /\ UNCHANGED waits
       \/ CleanupFails /\ BeginDeployUpload(d)
    /\ UNCHANGED <<kvVars, pointer, fence, code, builds, co, slice, prepVars>>

\* A deploy's family is cut and compressed before it asks: its size is exact.
DeployPlan(d) == PlanRetention(kv, dep[d].seen, dep[d].built, Cardinality(FamilyKeys))

DeployMakeRoom(d) ==
    /\ dep[d].pc = "drop"
    /\ \/ kv' = WithoutFamilies(kv, DeployPlan(d).retire)
       \/ CleanupFails /\ UNCHANGED kv
    /\ \/ /\ DeployPlan(d).decision = "refuse"
          /\ Release(dep[d].built)
          /\ dep' = [dep EXCEPT ![d].pc = "dead", ![d].seen = NothingPublished]
          /\ SequenceOver(d)
       \/ /\ DeployPlan(d).decision # "refuse"
          /\ BeginDeployUpload(d)
          /\ UNCHANGED lease
    /\ UNCHANGED <<manifests, pointer, fence, code, builds, co, slice, prepVars>>

\* The chunks, and the routing filter after them.
DeployPutKey(d) ==
    LET n == dep[d].done + 1
    IN  /\ dep[d].pc = "upload"
        /\ kv' = [kv EXCEPT ![dep[d].built] = @ \cup {IF n <= Chunks THEN n ELSE Filter}]
        /\ dep' = IF n <= Chunks THEN [dep EXCEPT ![d].done = n]
                  ELSE [dep EXCEPT ![d].pc = "carry"]
        /\ UNCHANGED <<manifests, lease, pointer, fence, code, builds, co, slice, waits, prepVars>>

\* A read that fails publishes over nothing, and leaves the mirror alone.
DeployReadReplaced(d) ==
    /\ dep[d].pc = "carry"
    /\ LongMayEnd(d)
    /\ \/ dep' = [dep EXCEPT ![d].pc = "check",
                             ![d].replaced = ReplacedManifest(manifests, dep[d].fmt),
                             ![d].mirror = LegacyFollows(manifests, dep[d].fmt)]
       \/ CleanupFails /\ Job(d, "check")
    /\ UNCHANGED <<kvVars, pointer, fence, code, builds, co, slice, waits, prepVars>>

\* deployStillHoldsLease: refuses to write the manifest once another deploy took
\* it; a read that fails answers yes.
DeployCheckLease(d) ==
    /\ dep[d].pc = "check"
    /\ \/ /\ CleanupFails \/ lease.built = dep[d].built
          /\ Job(d, "commit")
          /\ UNCHANGED waits
       \/ /\ lease.built # dep[d].built
          /\ Job(d, "dead")
          /\ SequenceOver(d)
    /\ UNCHANGED <<kvVars, pointer, fence, code, builds, co, slice, prepVars>>

DeployManifest(d) == NextManifest(dep[d].built, dep[d].fmt, dep[d].replaced)

DeployWriteManifest(d) ==
    /\ dep[d].pc = "commit"
    /\ manifests' = [manifests EXCEPT ![dep[d].fmt] = DeployManifest(d)]
    /\ Job(d, IF dep[d].mirror THEN "mirror" ELSE "release")
    /\ UNCHANGED <<kv, lease, pointer, fence, code, builds, co, slice, waits, prepVars>>

DeployWriteMirror(d) ==
    /\ dep[d].pc = "mirror"
    /\ manifests' = [manifests EXCEPT ![Legacy] = DeployManifest(d)]
    /\ Job(d, "release")
    /\ UNCHANGED <<kv, lease, pointer, fence, code, builds, co, slice, waits, prepVars>>

DeployReleaseLease(d) ==
    /\ dep[d].pc = "release"
    /\ Release(dep[d].built)
    /\ Job(d, "roles")
    /\ UNCHANGED <<kv, manifests, pointer, fence, code, builds, co, slice, waits, prepVars>>

\* sweepGenerationsByRole again, with the manifest just written for its own
\* format's: the manifests, then the lease, then the key list.
DeploySweepRead(d) ==
    /\ dep[d].pc = "roles"
    /\ dep' = [dep EXCEPT ![d].pc = "lease",
                          ![d].seen = [manifests EXCEPT ![dep[d].fmt] = DeployManifest(d)]]
    /\ UNCHANGED <<kvVars, pointer, fence, code, builds, co, slice, waits, prepVars>>

DeploySweepReadLease(d) ==
    /\ dep[d].pc = "lease"
    /\ dep' = [dep EXCEPT ![d].pc = "purge", ![d].inFlight = InFlight(lease.built, dep[d].seen)]
    /\ UNCHANGED <<kvVars, pointer, fence, code, builds, co, slice, waits, prepVars>>

DeploySweepDrop(d) ==
    /\ dep[d].pc = "purge"
    /\ \/ kv' = WithoutFamilies(kv, PlanRetention(kv, dep[d].seen, dep[d].inFlight, NoGuard).retire)
       \/ CleanupFails /\ UNCHANGED kv
    /\ dep' = [dep EXCEPT ![d].pc = "switch", ![d].seen = NothingPublished, ![d].inFlight = 0]
    /\ UNCHANGED <<manifests, lease, pointer, fence, code, builds, co, slice, waits, prepVars>>

\* `wrangler deploy`: the Worker now speaks the published format.
SwitchCode(d) ==
    /\ dep[d].pc = "switch"
    /\ code' = dep[d].fmt
    /\ Job(d, "done")
    /\ SequenceOver(d)
    /\ UNCHANGED <<kvVars, pointer, fence, builds, co, slice, prepVars>>

\* The job is cancelled or fails; nothing it wrote is taken back.
DeployDies(d) ==
    /\ Active(d)
    /\ dep' = [dep EXCEPT ![d].pc = "dead", ![d].seen = NothingPublished, ![d].inFlight = 0]
    /\ SequenceOver(d)
    /\ UNCHANGED <<kvVars, pointer, fence, code, builds, co, slice, prepVars>>

\* A lease whose holder stopped without releasing it expires.
Holds(c) == co[c].phase \in Working /\ co[c].built = lease.built
LeaseExpires ==
    /\ lease.built # NoFamily
    /\ \A d \in Deploys : Active(d) => dep[d].built # lease.built
    /\ \A c \in Coordinators : ~Holds(c)
    /\ lease' = NoLease
    /\ UNCHANGED <<kv, manifests, pointer, fence, code, builds, co, slice, dep, waits, prepVars>>

-----------------------------------------------------------------------------
Slice(c) ==
    \/ StampBuild(c)
    \/ ClaimLease(c) \/ PutLease(c) \/ ReadRoles(c) \/ MakeRoom(c)
    \/ PutFilter(c) \/ RenewFence(c) \/ RenewLease(c) \/ ChunkFence(c) \/ PutChunk(c)
    \/ ReadReplaced(c) \/ CheckChunks(c) \/ CommitFence(c)
    \/ WriteManifest(c) \/ WriteMirror(c) \/ ReleaseLease(c)
    \/ SweepRead(c) \/ SweepDrop(c)
    \/ FinishRun(c)

Run(c) ==
    \/ StartImport(c) \/ Retire(c) \/ RetirePurged(c) \/ FailRun(c) \/ KillSlice(c)
    \/ Slice(c)

Prepare(d) ==
    \/ BeginDeploy(d)
    \/ PruneReadManifests(d) \/ PruneReadLease(d) \/ PruneDrop(d)
    \/ EnsureReadOwn(d) \/ EnsureReadLegacy(d) \/ EnsureCopy(d)
    \/ SkipImport(d) \/ PreparationDies(d)

Deploy(d) ==
    \/ WriteDeployFence(d)
    \/ TakeLease(d) \/ DeployReadRoles(d) \/ DeployMakeRoom(d)
    \/ DeployPutKey(d) \/ DeployReadReplaced(d) \/ DeployCheckLease(d)
    \/ DeployWriteManifest(d) \/ DeployWriteMirror(d) \/ DeployReleaseLease(d)
    \/ DeploySweepRead(d) \/ DeploySweepReadLease(d) \/ DeploySweepDrop(d) \/ SwitchCode(d)
    \/ DeployDies(d)

Next ==
    \/ \E c \in Coordinators : Run(c)
    \/ \E d \in Deploys : Prepare(d) \/ Deploy(d)
    \/ Failover
    \/ LeaseExpires

Spec == Init /\ [][Next]_vars

-----------------------------------------------------------------------------
(***************************************************************************)
(* Correctness.                                                            *)
(***************************************************************************)

Whole(f) == Complete(kv, f)

\* Every manifest a reader can load from names a family whose chunks are all in
\* KV, whatever is swept, failed over, deployed or killed (the 2026-09-15 outage
\* stepManifest's chunk check is for), but for the families that went astray:
\* published and given up between two reads of a deploy's unleased sweep, or
\* brought back by a late copy. EveryManifestComplete is what the code promises.
ManifestComplete ==
    \A k \in ManifestKeys :
        manifests[k].built \in {NoFamily} \cup astray \/ Whole(manifests[k].built)

\* "Neither the sweep nor the byte guard ever deletes a live family"
\* (src/engine/kv-retention.ts): no manifest ever names an absent chunk.
EveryManifestComplete ==
    \A k \in ManifestKeys : manifests[k].built = NoFamily \/ Whole(manifests[k].built)

\* The deployed Worker finds a manifest of its own format, under its own key or
\* in the mirror: the import comes before the deploy (import-store.sh), and no
\* retirement of another format takes it away.
DeployedCodeHasIndex ==
    manifests[code].built # NoFamily \/ manifests[Legacy].fmt = code

\* KV never holds a fourth family: whoever uploads made room before its first
\* key (beginFamilyUpload, beginDeployUpload).
AtMostThreeFamilies == Cardinality(Present(kv)) <= 3

\* While one family is live, the family its manifest replaced is still whole, so
\* the publish can be rolled back (planRetention's rollback role), unless that
\* family went astray.
RollbackKept == Rollback(manifests) \in {NoFamily} \cup astray \/ Whole(Rollback(manifests))

\* The steps at which a deploy holds the lease.
Holding == {"sweep", "drop", "upload", "carry", "check", "commit", "mirror", "release"}

\* From the moment it takes the lease until it gives it back, the lease names the
\* deploy: no run that was fenced out renews its own over it.
DeployKeepsLease ==
    \A d \in Deploys : dep[d].pc \in Holding => lease.built = dep[d].built

\* No sweep deletes a key of the family the lease names, however old it is. A
\* deploy's reads the lease before the key list: it may take what a holder
\* that came in between has put, which that run's chunk check then misses; it
\* never takes a family it saw live or in flight.
SweepsSpareTheHolder ==
    [][\A f \in Families :
          \/ kv[f] \subseteq kv'[f]
          \/ lease.built # f
          \/ \E d \in Deploys : PruneDrop(d) /\ f \notin LiveFamilies(prep[d].seen) \cup {prep[d].holder}
          \/ \E d \in Deploys : DeploySweepDrop(d) /\ f \notin LiveFamilies(dep[d].seen) \cup {dep[d].inFlight}]_vars

\* The generation keys never outgrow the guard: whoever uploads asked
\* decideByteGuard first, and nothing else adds keys.
WithinByteGuard == Bytes(kv, Families) <= KvLimit

\* A publish never overwrites a manifest it did not see: the new one rolls back
\* to the family it displaced, or is the same build again. The deploy's copy of
\* the mirror is no publish and reads no key again: a late one undoes a publish,
\* and never more than one.
NoLostPublish ==
    [][\A f \in Formats :
          LET old == manifests[f]
              new == manifests'[f]
          IN  \/ new.built \in {old.built, NoFamily} \/ old.built = NoFamily
              \/ new.prev = old.built
              \/ old.prev = new.built /\ \E d \in Deploys : EnsureCopy(d)]_vars

\* Every Worker's view: the publish protocol implements the contract of the
\* store's readers (engine/store-kv.ts loads a manifest, then its chunks).
Slips == Deploys \X {"sweep", "copy"}
SlipsToCome ==
    {s \in Slips :
       \/ s[2] = "copy" /\ prep[s[1]].pc \in PrepSteps \cup {"off"}
       \/ s[2] = "sweep" /\ prep[s[1]].pc \in {"off", "roles", "lease"}}
Contract == INSTANCE StoreContract
    WITH Keys <- ManifestKeys, Parts <- 1..Chunks,
         store <- [f \in Families |-> kv[f] \ {Filter}],
         live <- [k \in ManifestKeys |-> manifests[k].built],
         toCome <- SlipsToCome
ImplementsContract == Contract!Spec

-----------------------------------------------------------------------------
(***************************************************************************)
(* Why a published store stays whole: under Prompt, the fences and the     *)
(* lease keep the writers out of each other's way.  The conjunction below  *)
(* is inductive together with TypeOK and ManifestComplete                  *)
(* (StorePublish_safety).                                                  *)
(***************************************************************************)
Resting(c) == slice[c].pc = "rest"
Ended(c) == co[c].phase \in {"idle", "retire"}

\* An alarm's step belongs to its run's phase, and a run in flight has a family.
FitsPhase(c) ==
    LET pc == slice[c].pc
        r  == co[c]
    IN  /\ pc \in {"claim", "claimed", "sweep"} => r.phase = "routing" /\ ~r.held
        /\ pc = "filter" => r.phase = "routing" /\ r.held
        /\ pc = "renew" => r.phase = "publish" \/ (r.phase = "routing" /\ r.held)
        /\ pc \in {"write", "put"} => r.phase = "publish"
        /\ pc \in {"check", "fence", "commit", "mirror", "release", "roles", "drop"}
             => r.phase = "manifest"
        /\ pc \in {"rest", "claim", "claimed"} => slice[c].seen = NothingPublished
        /\ r.phase \in {"build", "routing"} => r.done = 0
        /\ r.phase = "build" => ~r.held
        /\ r.phase = "publish" => r.done < Chunks
        /\ r.phase \in {"routing", "publish", "manifest"} => r.built # NoFamily /\ r.fmt \in Formats

SlicesFitPhases == \A c \in Coordinators : FitsPhase(c)

\* A deploy under way has chosen its format, and copies a manifest of that format.
FormatChosen == \A d \in Deploys : dep[d].pc = "off" \/ dep[d].fmt \in Formats
CopyChosen ==
    \A d \in Deploys :
        /\ prep[d].pc = "off" \/ prep[d].fmt \in Formats
        /\ prep[d].pc = "copy" => prep[d].copied.built # NoFamily /\ prep[d].copied.fmt = prep[d].fmt

\* No two writers ever build the same family.
BuildsDistinct ==
    /\ \A c \in Coordinators : co[c].built <= builds /\ co[c].started <= fence
    /\ \A d \in Deploys : dep[d].built <= builds
    /\ \A c, e \in Coordinators : c # e /\ co[c].built # NoFamily => co[c].built # co[e].built
    /\ \A c \in Coordinators, d \in Deploys :
          co[c].built # NoFamily => co[c].built # dep[d].built

\* While a replaced coordinator is in a short sequence, its successors have
\* nothing in KV yet and wait for it; at most one coordinator is in one.
RunsExclude ==
    \A c, e \in Coordinators :
        /\ e > pointer => co[e].phase = "idle"
        /\ c < e /\ ~Resting(c) => Ended(e) \/ (co[e].phase = "build" /\ c \in waits[e])

\* Not fenced out by deploy d.
Unfenced(c, d) == co[c].started >= dep[d].at

OneDeploy == \A d, e \in Deploys : UnderWay(d) /\ UnderWay(e) => d = e
PreparedFirst == \A d \in Deploys : dep[d].pc # "off" => prep[d].pc = "ready"

\* What the fence and then the lease keep the coordinators from, at each step of deploy d.
Excluded(d) ==
    LET pc == dep[d].pc
    IN  /\ Active(d) => dep[d].at = fence
        /\ pc = "settle" => \A c \in Coordinators : Resting(c) \/ c \in waits[d]
        /\ pc \in {"settle", "sweep", "drop"} =>
             \A c \in Coordinators :
                 Unfenced(c, d) => Ended(c) \/ (co[c].phase = "build" /\ d \in waits[c])
        /\ pc \in Holding =>
             /\ \A c \in Coordinators : Resting(c)
             /\ dep[d].built # NoFamily
             /\ lease.built = dep[d].built
             /\ lease.owner = "deploy"
        /\ pc \in Holding \ {"sweep", "drop"} =>
             \A c \in Coordinators :
                 Unfenced(c, d) => \/ Ended(c) \/ co[c].phase = "build"
                                   \/ co[c].phase = "routing" /\ ~co[c].held
        /\ pc \in {"roles", "lease", "purge", "switch"} =>
             \A c \in Coordinators :
                 /\ Resting(c) \/ co[c].phase = "routing"
                 /\ Unfenced(c, d) => \/ Ended(c) \/ co[c].phase \in {"build", "routing"}
                                      \/ co[c].phase = "publish" /\ d \in waits[c]

DeployExcludes == \A d \in Deploys : Excluded(d)

\* A run that can go on, from its claim on, holds the lease, or it has published.
MayGoOn(c) == ~Resting(c) \/ ~Superseded(c)
Claimed(c) ==
    \/ slice[c].pc \in {"claimed", "sweep"}
    \/ co[c].phase = "routing" /\ co[c].held
    \/ co[c].phase \in {"publish", "manifest"}
HasPublished(c) == co[c].phase = "manifest" /\ co[c].built \in LiveFamilies(manifests) \cup astray

Backed(c) ==
    MayGoOn(c) /\ Claimed(c) => lease.built = co[c].built \/ HasPublished(c)

RunsBacked == \A c \in Coordinators : Backed(c)

\* What the sweep before the fence has seen: every family that is live, and of
\* every run that may publish before it is over, but for those that are astray.
SawFamily(d, f) == f \in LiveFamilies(prep[d].seen) \cup {prep[d].holder} \cup astray

SawEveryone(d) ==
    prep[d].pc \in {"lease", "drop"} =>
      /\ \A f \in LiveFamilies(manifests) : SawFamily(d, f)
      /\ \A c \in Coordinators :
            MayGoOn(c) /\ co[c].phase \in {"publish", "manifest"}
              => \/ SawFamily(d, co[c].built)
                 \/ co[c].phase = "publish" /\ Resting(c) /\ d \in waits[c]

SweepsInformed == \A d \in Deploys : SawEveryone(d)

\* Whoever is about to publish has its whole family in KV, and whoever is about
\* to sweep has seen every family that is live, but for those that are astray.
Covered(seen) == LiveFamilies(manifests) \subseteq LiveFamilies(seen) \cup astray
OwnKeyKept(c) ==
    \/ manifests[co[c].fmt].built = co[c].built
    \/ {manifests[co[c].fmt].built, co[c].built} \subseteq astray

RunReady(c) ==
    LET pc == slice[c].pc
    IN  /\ pc \in {"fence", "commit", "mirror"} => co[c].built \in astray \/ Whole(co[c].built)
        /\ pc \in {"mirror", "release", "roles"} => OwnKeyKept(c)
        /\ pc = "sweep" => Covered(slice[c].seen) \/ slice[c].seen = NothingPublished
        /\ pc = "drop" => Covered(slice[c].seen)

RunsReady == \A c \in Coordinators : RunReady(c)

DeployReady(d) ==
    LET pc == dep[d].pc
    IN  /\ pc \in {"off", "settle", "sweep", "drop"} => dep[d].done = 0
        /\ pc = "upload" => 1..dep[d].done \subseteq kv[dep[d].built]
        /\ pc \in {"carry", "check", "commit", "mirror"} => Whole(dep[d].built)
        /\ pc \in {"mirror", "release", "roles"} => manifests[dep[d].fmt].built \in {dep[d].built, NoFamily}
        /\ pc \in {"drop", "lease", "purge"} => Covered(dep[d].seen)

DeploysReady == \A d \in Deploys : DeployReady(d)

\* At any moment at most one of the writers that take the lease may delete a
\* family or publish one. The deploy's steps before its fence run beside them:
\* between its two reads a sweep loses sight of one family at most, that of the
\* lease's holder when it read the manifests. But for such a family a
\* publisher's is whole, and no sweep is blind to what is live.
WritersExclude ==
    /\ SlicesFitPhases /\ FormatChosen /\ CopyChosen /\ BuildsDistinct /\ RunsExclude
    /\ OneDeploy /\ PreparedFirst /\ DeployExcludes
    /\ RunsBacked /\ SweepsInformed
    /\ RunsReady /\ DeploysReady
=============================================================================
