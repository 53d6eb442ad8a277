---------------------- MODULE StorePublish_promises ----------------------
(***************************************************************************)
(* What else the publish protocol promises, each from Safe and a few facts *)
(* of its own: a publish replaces the manifest it has read, the deployed   *)
(* code has an index, a sweep spares the family in flight, and the         *)
(* generation keys stay within the byte guard.                             *)
(***************************************************************************)
EXTENDS StorePublish_safety

-----------------------------------------------------------------------------
(***************************************************************************)
(* How an alarm and a job get from one of their steps to the next.         *)
(***************************************************************************)
LEMMA GotoKeeps ==
    ASSUME Typed, NEW c \in Coordinators, NEW pc \in SlicePcs, Goto(c, pc)
    PROVE  /\ slice'[c].pc = pc /\ slice'[c].seen = slice[c].seen /\ slice'[c].replaced = slice[c].replaced
           /\ \A e \in Coordinators \ {c} : slice'[e] = slice[e]
<1> DEFINE s == [slice[c] EXCEPT !.pc = pc]
<1>1. s.pc = pc /\ s.seen = slice[c].seen /\ s.replaced = slice[c].replaced
  BY TypedParts DEF Slices
<1>2. slice' = [slice EXCEPT ![c] = s]
  BY DEF Goto
<1> HIDE DEF s
<1> QED BY <1>1, <1>2, TypedParts

LEMMA RestGoes ==
    ASSUME Typed, NEW c \in Coordinators, slice' = Rest(c)
    PROVE  slice'[c].pc = "rest"
BY TypedParts DEF Rest, AtRest

\* A step that leaves an alarm at rest, or enters it at a step given.
LEMMA AlarmGoes ==
    ASSUME Typed, NEW c \in Coordinators, Run(c)
    PROVE  \/ slice'[c].pc = "rest"
           \/ ClaimLease(c) /\ Goto(c, "claim") /\ UNCHANGED <<co, waits>>
           \/ PutLease(c) \/ ReadRoles(c) \/ MakeRoom(c)
           \/ RenewFence(c) /\ Goto(c, "renew") /\ UNCHANGED <<co, waits>> /\ WritePasses(c)
           \/ RenewLease(c)
           \/ ChunkFence(c) /\ Goto(c, "put") /\ UNCHANGED <<co, waits>> /\ WritePasses(c)
           \/ ReadReplaced(c) /\ WritePasses(c) /\ UNCHANGED <<co, waits>>
           \/ CheckChunks(c) /\ Goto(c, "fence") /\ UNCHANGED <<co, waits>>
           \/ CommitFence(c) /\ Goto(c, "commit") /\ UNCHANGED <<co, waits>>
           \/ WriteManifest(c) \/ WriteMirror(c) \/ ReleaseLease(c) \/ SweepRead(c)
<1>1. CASE StartImport(c) \/ RetirePurged(c) \/ StampBuild(c) \/ FinishRun(c)
  BY <1>1 DEF StartImport, RetirePurged, StampBuild, FinishRun, AtAlarm
<1>2. CASE slice' = Rest(c)
  BY <1>2, RestGoes
<1>3. CASE Retire(c) \/ FailRun(c) \/ KillSlice(c) \/ PutFilter(c) \/ PutChunk(c) \/ SweepDrop(c)
  BY <1>2, <1>3 DEF Retire, BeginRetire, FailRun, EndFailed, KillSlice, PutFilter, PutChunk, SweepDrop
<1>4. CASE ClaimLease(c)
  BY <1>2, <1>4 DEF ClaimLease, BeginRetire
<1>5. CASE RenewFence(c)
  BY <1>2, <1>5 DEF RenewFence, BeginRetire
<1>6. CASE ChunkFence(c)
  BY <1>2, <1>6 DEF ChunkFence, BeginRetire
<1>7. CASE ReadReplaced(c)
  BY <1>2, <1>7 DEF ReadReplaced, BeginRetire
<1>8. CASE CheckChunks(c)
  BY <1>2, <1>8 DEF CheckChunks, EndFailed
<1>9. CASE CommitFence(c)
  BY <1>2, <1>9 DEF CommitFence, BeginRetire
<1> QED BY <1>1, <1>3, <1>4, <1>5, <1>6, <1>7, <1>8, <1>9 DEF Run, Slice

\* No other job is under way while one takes a step, and no alarm is while one
\* holds the lease.
LEMMA JobAlone ==
    ASSUME Prompt, Safe, NEW d \in Deploys, Deploy(d)
    PROVE  /\ co' = co /\ slice' = slice
           /\ \A e \in Deploys \ {d} : dep'[e] = dep[e] /\ ~UnderWay(e) /\ ~Active(e)
BY DeployHasEffect, DeployUnderWay DEF JobEffect, JobFrame, Safe, WritersExclude, OneDeploy, UnderWay

LEMMA RunApart ==
    ASSUME Prompt, ~FenceReadsFail, Safe, NEW c \in Coordinators, Run(c)
    PROVE  /\ dep' = dep
           /\ \A e \in Coordinators \ {c} : co'[e] = co[e]
           /\ \A d \in Deploys : dep[d].pc \in Holding => Resting(c)
BY RunHasEffect DEF Safe, WritersExclude, RunsReady, RunEffect, OthersKept, DeployExcludes, Excluded

\* A job before its fence leaves the others' records alone.
LEMMA PrepareQuiet ==
    ASSUME NEW d \in Deploys, Prepare(d)
    PROVE  /\ UNCHANGED <<lease, pointer, fence, builds, co, slice, dep>>
           /\ manifests' = manifests \/ EnsureCopy(d)
           /\ kv' = kv \/ PruneDrop(d)
BY PrepareKeeps

LEMMA ElsewhereQuiet ==
    ASSUME Failover \/ LeaseExpires \/ UNCHANGED vars
    PROVE  UNCHANGED <<kv, manifests, code, fence, builds, co, slice, dep, prep, astray>>
BY DEF Failover, LeaseExpires, vars, kvVars, prepVars

-----------------------------------------------------------------------------
(***************************************************************************)
(* No publish is lost: nobody publishes between the read of the manifest   *)
(* to be replaced and the write.  A deploy's copy of a store older than    *)
(* the per-format keys (EnsureCopy) may come between, and may itself undo  *)
(* a publish: the promise is one of stores that no deploy copies.          *)
(***************************************************************************)
\* What a publisher of format f that read m will not overwrite unseen.
SeenFor(m, f) ==
    IF manifests[f].built = NoFamily
    THEN manifests[Legacy].fmt = f => m.built = manifests[Legacy].built
    ELSE m.built = manifests[f].built

RunSaw(c) == slice[c].pc \in {"check", "fence", "commit"} => SeenFor(slice[c].replaced, co[c].fmt)
JobSaw(d) == dep[d].pc \in {"check", "commit"} => SeenFor(dep[d].replaced, dep[d].fmt)
PublishersSaw == (\A c \in Coordinators : RunSaw(c)) /\ (\A d \in Deploys : JobSaw(d))

\* A mirror that has its format to itself leads: no newer format is live with it.
MirrorLeads ==
    \A f \in Formats :
        manifests[f].built = NoFamily /\ manifests[Legacy].fmt = f
          => Primary(manifests).built = manifests[Legacy].built

LEMMA ReplacedIsSeen ==
    ASSUME MirrorLeads, NEW f \in Formats
    PROVE  SeenFor(ReplacedManifest(manifests, f), f)
BY DEF MirrorLeads, SeenFor, ReplacedManifest

\* A run in an alarm meets no other writer of manifests but a copy.
LEMMA RunSees ==
    ASSUME Prompt, ~FenceReadsFail, ~CleanupFails, Safe, MirrorLeads, PublishersSaw,
           NEW c \in Coordinators, Run(c)
    PROVE  PublishersSaw'
<1>1. Typed /\ RunEffect(c)
  BY RunHasEffect DEF Safe, WritersExclude, RunsReady
<1>2. /\ dep' = dep /\ \A e \in Coordinators \ {c} : co'[e] = co[e] /\ slice'[e] = slice[e]
      /\ Resting(c) => manifests' = manifests
  BY <1>1 DEF RunEffect, OthersKept, ManifestsMove
<1>3. ASSUME NEW e \in Coordinators \ {c} PROVE RunSaw(e)'
  <2>1. slice[e].pc \in {"check", "fence", "commit"} => manifests' = manifests
    BY <1>2, OneMidAlarm DEF Resting
  <2> QED BY <1>2, <2>1 DEF PublishersSaw, RunSaw, SeenFor
<1>4. ASSUME NEW d \in Deploys PROVE JobSaw(d)'
  <2>1. dep[d].pc \in {"check", "commit"} => manifests' = manifests
    BY <1>2 DEF Safe, WritersExclude, DeployExcludes, Excluded, Holding
  <2> QED BY <1>2, <2>1 DEF PublishersSaw, JobSaw, SeenFor
<1>5. RunSaw(c)'
  <2>1. CASE ReadReplaced(c) /\ UNCHANGED <<co, waits>> /\ WritePasses(c)
    <3>1. co[c].phase = "manifest" /\ co[c].fmt \in Formats
      BY <1>1, <2>1, TypedParts DEF ReadReplaced, AtAlarm, FitsPhase
    <3>2. CASE slice'[c].pc = "rest"
      BY <3>2 DEF RunSaw
    <3>3. CASE \E m \in ReplacedRead(co[c].fmt) : slice' = [slice EXCEPT ![c].pc = "check", ![c].replaced = m]
      <4>1. slice' = [slice EXCEPT ![c].pc = "check", ![c].replaced = ReplacedManifest(manifests, co[c].fmt)]
        BY <3>3 DEF ReplacedRead
      <4>2. slice'[c].replaced = ReplacedManifest(manifests, co[c].fmt)
        BY <1>1, <4>1, TypedParts DEF Slices
      <4>3. UNCHANGED manifests
        BY <2>1 DEF ReadReplaced, kvVars
      <4> QED BY <2>1, <3>1, <4>2, <4>3, ReplacedIsSeen DEF RunSaw, SeenFor
    <3> QED BY <1>1, <2>1, <3>2, <3>3, RestGoes DEF ReadReplaced, BeginRetire
  <2>2. CASE \/ CheckChunks(c) /\ Goto(c, "fence") /\ UNCHANGED <<co, waits>>
             \/ CommitFence(c) /\ Goto(c, "commit") /\ UNCHANGED <<co, waits>>
    <3>1. UNCHANGED <<manifests, co>> /\ slice'[c].replaced = slice[c].replaced
      BY <1>1, <2>2, GotoKeeps DEF CheckChunks, CommitFence, SlicePcs, kvVars
    <3>2. slice[c].pc \in {"check", "fence", "commit"}
      BY <2>2 DEF CheckChunks, CommitFence
    <3> QED BY <3>1, <3>2 DEF PublishersSaw, RunSaw, SeenFor
  <2>3. CASE ReadRoles(c)
    <3>1. slice'[c].pc = "sweep"
      BY <1>1, <2>3, TypedParts DEF ReadRoles, Goto, Slices
    <3> QED BY <3>1 DEF RunSaw
  <2>4. CASE MakeRoom(c)
    <3>1. slice'[c].pc \in {"rest", "filter"}
      BY <1>1, <2>4, TypedParts, RestGoes, RestType DEF MakeRoom, EndFailed, Slices
    <3> QED BY <3>1 DEF RunSaw
  <2>5. CASE SweepRead(c)
    <3>1. slice'[c].pc = "drop"
      BY <1>1, <2>5, TypedParts DEF SweepRead, Slices
    <3> QED BY <3>1 DEF RunSaw
  <2>6. CASE \E pc \in SlicePcs \ {"check", "fence", "commit"} : Goto(c, pc)
    BY <1>1, <2>6, GotoKeeps DEF RunSaw
  <2>7. CASE slice'[c].pc = "rest"
    BY <2>7 DEF RunSaw
  <2> QED BY <1>1, <2>1, <2>2, <2>3, <2>4, <2>5, <2>6, <2>7, AlarmGoes
          DEF PutLease, RenewLease, WriteManifest, WriteMirror, ReleaseLease, SlicePcs
<1> QED BY <1>3, <1>4, <1>5 DEF PublishersSaw

\* The steps of a job that lead to its last look at the lease and to its publish.
LEMMA JobGoes ==
    ASSUME Typed, NEW d \in Deploys, Deploy(d)
    PROVE  \/ dep'[d].pc \notin {"check", "commit"}
           \/ DeployReadReplaced(d)
           \/ DeployCheckLease(d) /\ Job(d, "commit")
<1>1. ASSUME NEW pc \in DeployPcs \ {"check", "commit"}, Job(d, pc) PROVE dep'[d].pc \notin {"check", "commit"}
  BY <1>1, StepOf
<1>2. CASE WriteDeployFence(d)
  <2>1. dep' = [dep EXCEPT ![d].pc = "settle", ![d].fmt = prep[d].fmt, ![d].at = fence + 1]
    BY <1>2 DEF WriteDeployFence
  <2>2. dep'[d].pc = "settle"
    BY <2>1, DepTyped, TypedParts DEF Jobs
  <2> QED BY <2>2
<1>3. CASE DeploySweepReadLease(d)
  <2> DEFINE held == InFlight(lease.built, dep[d].seen)
  <2>1. dep' = [dep EXCEPT ![d].pc = "purge", ![d].inFlight = held]
    BY <1>3 DEF DeploySweepReadLease
  <2> HIDE DEF held
  <2>2. dep'[d].pc = "purge"
    BY <2>1, DepTyped, TypedParts DEF Jobs
  <2> QED BY <2>2
<1>4. CASE TakeLease(d)
  <2>1. dep'[d].pc = "sweep"
    BY <1>4, DepTyped, TypedParts DEF TakeLease, Jobs
  <2> QED BY <2>1
<1>5. CASE BeginDeployUpload(d)
  BY <1>5, UploadBegins
<1>6. CASE DeployReadRoles(d)
  <2>1. CASE dep' = [dep EXCEPT ![d].pc = "drop", ![d].seen = manifests]
    <3>1. dep'[d].pc = "drop"
      BY <2>1, DepTyped, TypedParts DEF Jobs
    <3> QED BY <3>1
  <2> QED BY <1>5, <1>6, <2>1 DEF DeployReadRoles
<1>7. CASE DeployMakeRoom(d)
  <2>1. CASE dep' = [dep EXCEPT ![d].pc = "dead", ![d].seen = NothingPublished]
    <3>1. dep'[d].pc = "dead"
      BY <2>1, DepTyped, TypedParts DEF Jobs
    <3> QED BY <3>1
  <2> QED BY <1>5, <1>7, <2>1 DEF DeployMakeRoom
<1>8. CASE DeployPutKey(d)
  <2>1. dep' = [dep EXCEPT ![d].done = dep[d].done + 1] \/ Job(d, "carry")
    BY <1>8 DEF DeployPutKey, Job
  <2>2. dep[d].pc = "upload"
    BY <1>8 DEF DeployPutKey
  <2>3. dep'[d].pc \in {"upload", "carry"}
    BY <2>1, <2>2, StepOf, DepTyped, TypedParts DEF Jobs, DeployPcs
  <2> QED BY <2>3
<1>9. CASE DeploySweepRead(d)
  <2> DEFINE own == [manifests EXCEPT ![dep[d].fmt] = DeployManifest(d)]
  <2>1. dep' = [dep EXCEPT ![d].pc = "lease", ![d].seen = own]
    BY <1>9 DEF DeploySweepRead
  <2> HIDE DEF own
  <2>2. dep'[d].pc = "lease"
    BY <2>1, DepTyped, TypedParts DEF Jobs
  <2> QED BY <2>2
<1>10. CASE DeploySweepDrop(d)
  <2>1. dep'[d].pc = "switch"
    BY <1>10, DepTyped, TypedParts DEF DeploySweepDrop, Jobs
  <2> QED BY <2>1
<1>11. CASE DeployDies(d)
  <2>1. dep'[d].pc = "dead"
    BY <1>11, DepTyped, TypedParts DEF DeployDies, Jobs
  <2> QED BY <2>1
<1>12. CASE DeployWriteManifest(d) \/ DeployWriteMirror(d) \/ DeployReleaseLease(d) \/ SwitchCode(d)
  BY <1>1, <1>12 DEF DeployWriteManifest, DeployWriteMirror, DeployReleaseLease, SwitchCode, DeployPcs
<1>13. CASE DeployCheckLease(d)
  BY <1>1, <1>13 DEF DeployCheckLease, DeployPcs
<1> QED BY <1>2, <1>3, <1>4, <1>6, <1>7, <1>8, <1>9, <1>10, <1>11, <1>12, <1>13 DEF Deploy

\* The steps that write a manifest.
LEMMA RunsWrite ==
    ASSUME NEW c \in Coordinators, Run(c)
    PROVE  manifests' = manifests \/ ReadRoles(c) \/ WriteManifest(c) \/ WriteMirror(c) \/ SweepRead(c)
BY DEF Run, Slice, StartImport, Retire, RetirePurged, FailRun, KillSlice, StampBuild, ClaimLease, PutLease,
   MakeRoom, PutFilter, RenewFence, RenewLease, ChunkFence, PutChunk, ReadReplaced, CheckChunks, CommitFence,
   ReleaseLease, SweepDrop, FinishRun, kvVars

LEMMA JobsWrite ==
    ASSUME NEW d \in Deploys, Deploy(d)
    PROVE  manifests' = manifests \/ DeployWriteManifest(d) \/ DeployWriteMirror(d)
BY DEF Deploy, WriteDeployFence, TakeLease, DeployReadRoles, DeployMakeRoom, DeployPutKey, DeployReadReplaced,
   DeployCheckLease, DeployReleaseLease, DeploySweepRead, DeploySweepReadLease, DeploySweepDrop, SwitchCode,
   DeployDies, kvVars

\* A job on its own: the runs are at rest while it publishes.
LEMMA JobSees ==
    ASSUME Prompt, ~CleanupFails, Safe, MirrorLeads, PublishersSaw, NEW d \in Deploys, Deploy(d)
    PROVE  PublishersSaw'
<1>1. Typed /\ JobEffect(d)
  BY DeployHasEffect DEF Safe
<1>2. /\ co' = co /\ slice' = slice
      /\ \A e \in Deploys \ {d} : dep'[e] = dep[e] /\ ~Active(e)
  BY JobAlone
<1>3. ASSUME NEW e \in Deploys \ {d} PROVE JobSaw(e)'
  <2>1. dep'[e].pc \in {"off", "done", "dead"}
    BY <1>2 DEF Active
  <2> QED BY <2>1 DEF JobSaw
<1>4. ASSUME NEW c \in Coordinators PROVE RunSaw(c)'
  <2>1. CASE manifests' = manifests
    BY <1>2, <2>1 DEF PublishersSaw, RunSaw, SeenFor
  <2>2. CASE DeployWriteManifest(d) \/ DeployWriteMirror(d)
    <3>1. Resting(c)
      BY <2>2 DEF DeployWriteManifest, DeployWriteMirror, Safe, WritersExclude, DeployExcludes, Excluded, Holding
    <3> QED BY <1>2, <3>1 DEF Resting, RunSaw
  <2> QED BY <2>1, <2>2, JobsWrite
<1>5. JobSaw(d)'
  <2>1. CASE DeployReadReplaced(d)
    <3>1. dep' = [dep EXCEPT ![d].pc = "check", ![d].replaced = ReplacedManifest(manifests, dep[d].fmt),
                             ![d].mirror = LegacyFollows(manifests, dep[d].fmt)]
      BY <2>1 DEF DeployReadReplaced
    <3>2. dep'[d].replaced = ReplacedManifest(manifests, dep[d].fmt) /\ dep'[d].fmt = dep[d].fmt
      <4> DEFINE m == ReplacedManifest(manifests, dep[d].fmt)
                 y == LegacyFollows(manifests, dep[d].fmt)
                 j == [[dep[d] EXCEPT !.pc = "check"] EXCEPT !.replaced = m]
      <4> HIDE DEF m, y
      <4>1. dep'[d] = [j EXCEPT !.mirror = y]
        BY <1>1, <3>1, TypedParts DEF m, y
      <4>2. j.replaced = m /\ j.fmt = dep[d].fmt /\ DOMAIN j = DOMAIN dep[d]
        BY <1>1, DepTyped DEF Jobs
      <4> HIDE DEF j
      <4>3. dep'[d].replaced = m /\ dep'[d].fmt = dep[d].fmt
        BY <1>1, <4>1, <4>2, DepTyped DEF Jobs
      <4> QED BY <4>3 DEF m
    <3>3. UNCHANGED manifests /\ dep[d].fmt \in Formats
      BY <1>1, <2>1, TypedParts DEF DeployReadReplaced, kvVars, FormatChosen
    <3> QED BY <3>2, <3>3, ReplacedIsSeen DEF JobSaw, SeenFor
  <2>2. CASE DeployCheckLease(d) /\ Job(d, "commit")
    <3>1. dep'[d].replaced = dep[d].replaced /\ dep'[d].fmt = dep[d].fmt
      BY <1>1, <2>2, DepTyped, TypedParts DEF Job, Jobs
    <3>2. UNCHANGED manifests /\ dep[d].pc = "check"
      BY <2>2 DEF DeployCheckLease, kvVars
    <3> QED BY <3>1, <3>2 DEF PublishersSaw, JobSaw, SeenFor
  <2>3. CASE dep'[d].pc \notin {"check", "commit"}
    BY <2>3 DEF JobSaw
  <2> QED BY <1>1, <2>1, <2>2, <2>3, JobGoes
<1> QED BY <1>3, <1>4, <1>5 DEF PublishersSaw

\* No deploy is about to copy the mirror.
NoCopy == \A d \in Deploys : prep[d].pc # "copy"

LEMMA SeesStep ==
    ASSUME Prompt, ~FenceReadsFail, ~CleanupFails
    PROVE  Safe /\ MirrorLeads /\ NoCopy /\ PublishersSaw /\ [Next]_vars => PublishersSaw'
<1> SUFFICES ASSUME Safe, MirrorLeads, NoCopy, PublishersSaw, [Next]_vars PROVE PublishersSaw'
  OBVIOUS
<1>2. ASSUME NEW d \in Deploys, Prepare(d) PROVE PublishersSaw'
  <2>1. UNCHANGED <<manifests, co, slice, dep>>
    BY <1>2, PrepareQuiet DEF NoCopy, EnsureCopy
  <2> QED BY <2>1 DEF PublishersSaw, RunSaw, JobSaw, SeenFor
<1>1. CASE Failover \/ LeaseExpires \/ UNCHANGED vars
  <2>1. UNCHANGED <<manifests, co, slice, dep>>
    BY <1>1 DEF Failover, LeaseExpires, vars, kvVars
  <2> QED BY <2>1 DEF PublishersSaw, RunSaw, JobSaw, SeenFor
<1> QED BY <1>1, <1>2, RunSees, JobSees DEF Next

LEMMA SeesInit == Init => PublishersSaw
BY DEF Init, PublishersSaw, RunSaw, JobSaw, AtRest, NotStarted

NothingLost ==
    \A f \in Formats :
      LET old == manifests[f]
          new == manifests'[f]
      IN  new.built \notin {old.built, NoFamily} /\ old.built # NoFamily => new.prev = old.built

\* Whoever writes a format's key has seen what it held.
LEMMA OverwritesSeen ==
    ASSUME manifests \in Published, NEW k \in Formats, NEW b \in 0..MaxBuilds, NEW m, SeenFor(m, k),
           manifests' = [manifests EXCEPT ![k] = NextManifest(b, k, m)]
    PROVE  NothingLost
<1>1. manifests'[k] = NextManifest(b, k, m) /\ \A f \in Formats \ {k} : manifests'[f] = manifests[f]
  BY DEF Published, ManifestKeys
<1>2. NextManifest(b, k, m).built = b /\ (m.built # b => NextManifest(b, k, m).prev = m.built)
  BY DEF NextManifest
<1> QED BY <1>1, <1>2 DEF SeenFor, NothingLost

LEMMA NothingLostStep ==
    ASSUME Prompt, ~FenceReadsFail
    PROVE  Safe /\ NoCopy /\ PublishersSaw /\ [Next]_vars => NothingLost \/ UNCHANGED vars
<1> SUFFICES ASSUME Safe, NoCopy, PublishersSaw, Next PROVE NothingLost
  OBVIOUS
<1>1. Typed /\ Legacy \notin Formats /\ Legacy \in ManifestKeys /\ \A k \in Formats : k \in ManifestKeys
  BY DEF Safe, Formats, Legacy, ManifestKeys
<1>2. CASE manifests' = manifests
  BY <1>2 DEF NothingLost
<1>3. ASSUME NEW m, manifests' = [manifests EXCEPT ![Legacy] = m] PROVE NothingLost
  <2>1. \A f \in Formats : manifests'[f] = manifests[f]
    BY <1>1, <1>3, TypedParts DEF Published
  <2> QED BY <2>1 DEF NothingLost
<1>4. ASSUME NEW c \in Coordinators, Run(c) PROVE NothingLost
  <2>1. FitsPhase(c) /\ co[c].built \in 0..MaxBuilds
    BY <1>1, TypedParts DEF Runs
  <2>2. CASE WriteManifest(c)
    <3>1. SeenFor(slice[c].replaced, co[c].fmt) /\ co[c].fmt \in Formats
      BY <2>1, <2>2 DEF WriteManifest, FitsPhase, PublishersSaw, RunSaw
    <3> QED BY <1>1, <2>1, <2>2, <3>1, OverwritesSeen, TypedParts DEF WriteManifest, MyManifest
  <2>3. CASE WriteMirror(c)
    BY <1>3, <2>3 DEF WriteMirror
  <2>4. CASE ReadRoles(c)
    <3>1. co[c].fmt \in Formats
      BY <2>1, <2>4 DEF ReadRoles, FitsPhase
    <3>2. \A k \in Formats : manifests'[k].built \in {manifests[k].built, NoFamily}
      BY <1>1, <2>4, <3>1, RetirementsMove, TypedParts DEF ReadRoles
    <3> QED BY <3>2 DEF NothingLost
  <2>5. CASE SweepRead(c)
    <3> DEFINE own == [manifests EXCEPT ![co[c].fmt] = MyManifest(c)]
    <3>1. co[c].fmt \in Formats /\ slice[c] \in Slices
      BY <1>1, <2>1, <2>5, TypedParts DEF SweepRead, FitsPhase
    <3>2. own \in Published /\ \A k \in Formats \ {co[c].fmt} : own[k] = manifests[k]
      BY <1>1, <2>1, <3>1, NextManifestType, TypedParts DEF MyManifest, Slices, Published
    <3>3. PICK r \in Retirements(own, co[c].fmt) :
             manifests' = [r[1] EXCEPT ![co[c].fmt] = manifests[co[c].fmt]]
      BY <2>5 DEF SweepRead
    <3> HIDE DEF own
    <3>4. r[1] \in Published /\ \A k \in Formats : r[1][k].built \in {own[k].built, NoFamily}
      BY <3>1, <3>2, RetirementsMove, RetirementsType
    <3>5. \A k \in Formats : manifests'[k].built \in {manifests[k].built, NoFamily}
      BY <1>1, <3>1, <3>2, <3>3, <3>4 DEF Published
    <3> QED BY <3>5 DEF NothingLost
  <2> QED BY <1>2, <1>4, <2>2, <2>3, <2>4, <2>5, RunsWrite
<1>5. ASSUME NEW d \in Deploys, Deploy(d) PROVE NothingLost
  <2>2. CASE DeployWriteManifest(d)
    <3>1. SeenFor(dep[d].replaced, dep[d].fmt) /\ dep[d].fmt \in Formats /\ dep[d].built \in 0..MaxBuilds
      BY <1>1, <2>2, DepTyped, TypedParts DEF DeployWriteManifest, FormatChosen, Jobs, PublishersSaw, JobSaw
    <3> QED BY <1>1, <2>2, <3>1, OverwritesSeen, TypedParts DEF DeployWriteManifest, DeployManifest
  <2>3. CASE DeployWriteMirror(d)
    BY <1>3, <2>3 DEF DeployWriteMirror
  <2> QED BY <1>2, <1>5, <2>2, <2>3, JobsWrite
<1>6. CASE Failover \/ LeaseExpires
  BY <1>2, <1>6 DEF Failover, LeaseExpires, kvVars
<1>7. ASSUME NEW d \in Deploys, Prepare(d) PROVE NothingLost
  BY <1>2, <1>7, PrepareQuiet DEF NoCopy, EnsureCopy
<1> QED BY <1>4, <1>5, <1>6, <1>7 DEF Next

-----------------------------------------------------------------------------
(***************************************************************************)
(* What the manifest keys hold: a format's key its own format, and a       *)
(* mirror a job is about to write no other's.                              *)
(***************************************************************************)
KeysNamed ==
    /\ \A f \in Formats : manifests[f].built # NoFamily => manifests[f].fmt = f
    /\ \A k \in ManifestKeys : manifests[k].built = NoFamily => manifests[k].fmt = 0

JobKeyed(d) ==
    LET j == dep[d]
    IN  /\ j.pc \in {"off", "settle", "sweep", "drop", "upload", "carry"} => ~j.mirror
        /\ j.pc = "mirror" \/ (j.pc \in {"check", "commit"} /\ j.mirror) => manifests[Legacy].fmt \in {0, j.fmt}
        /\ j.pc = "mirror" => manifests[j.fmt].built # NoFamily

Keyed == KeysNamed /\ \A d \in Deploys : JobKeyed(d)

\* One key takes a manifest of format f, the format's own first.
PutsAt(f, k) ==
    /\ f \in Formats /\ k \in {f, Legacy}
    /\ k = Legacy => manifests[f].built # NoFamily
    /\ manifests'[k].built # NoFamily /\ manifests'[k].fmt = f
    /\ \A j \in ManifestKeys \ {k} : manifests'[j] = manifests[j]

\* Older formats than f, which has a manifest, lose theirs.
Retires(f) ==
    /\ f \in Formats /\ manifests[f].built # NoFamily
    /\ \A k \in Formats : manifests'[k] = manifests[k] \/ (k < f /\ manifests'[k] = NoManifest)
    /\ \/ manifests'[Legacy] = manifests[Legacy] /\ manifests[Legacy].fmt >= f
       \/ manifests'[Legacy].built # NoFamily /\ manifests'[Legacy].fmt = f

RunWrites(c) ==
    \/ manifests' = manifests
    \/ /\ ~Resting(c)
       /\ LET f == co[c].fmt IN PutsAt(f, f) \/ PutsAt(f, Legacy) \/ Retires(f)

JobWrites(d) ==
    \/ manifests' = manifests
    \/ dep[d].pc = "commit" /\ PutsAt(dep[d].fmt, dep[d].fmt)
    \/ dep[d].pc = "mirror" /\ PutsAt(dep[d].fmt, Legacy)

LEMMA Keys ==
    /\ Legacy \notin Formats /\ Legacy \in ManifestKeys /\ Legacy = 0
    /\ \A k \in Formats : k \in ManifestKeys /\ k \in Nat /\ k > 0
    /\ \A k \in ManifestKeys : k = Legacy \/ k \in Formats
BY FormatsAssumption DEF Formats, Legacy, ManifestKeys

LEMMA PutIs ==
    ASSUME manifests \in Published, NEW f \in Formats, NEW k \in {f, Legacy}, NEW b \in Families, NEW m,
           k = Legacy => manifests[f].built # NoFamily,
           manifests' = [manifests EXCEPT ![k] = NextManifest(b, f, m)]
    PROVE  PutsAt(f, k)
<1>1. NextManifest(b, f, m).built = b /\ NextManifest(b, f, m).fmt = f /\ b # NoFamily
  BY DEF NextManifest, Families, NoFamily
<1>2. manifests'[k] = NextManifest(b, f, m) /\ \A j \in ManifestKeys \ {k} : manifests'[j] = manifests[j]
  BY Keys DEF Published
<1> QED BY <1>1, <1>2 DEF PutsAt

\* What a retirement does to each key.
LEMMA RetirementKeys ==
    ASSUME NEW pub \in Published, NEW f \in Formats, NEW r \in Retirements(pub, f), r[1] # pub,
           pub[f].fmt = f
    PROVE  /\ pub[f].built # NoFamily
           /\ \A k \in Formats : r[1][k] = pub[k] \/ (k < f /\ r[1][k] = NoManifest)
           /\ \/ r[1][Legacy] = pub[Legacy] /\ pub[Legacy].fmt >= f
              \/ r[1][Legacy] = pub[f]
<1> DEFINE after == RetireOlderFormats(pub, f)
           half == [pub EXCEPT ![Legacy] = after[Legacy]]
<1>1. r[1] \in {after, pub, half}
  BY DEF Retirements
<1>2. CASE pub[f].built = NoFamily
  <2>1. after = pub
    BY <1>2, RetirementLemma
  <2> HIDE DEF after
  <2>2. half = pub
    BY <2>1 DEF Published
  <2> HIDE DEF half
  <2> QED BY <1>1, <2>1, <2>2
<1>3. CASE pub[f].built # NoFamily
  <2>1. after[Legacy] = IF pub[Legacy].fmt < f THEN pub[f] ELSE pub[Legacy]
    BY <1>3, Keys DEF RetireOlderFormats
  <2>2. \A k \in Formats : after[k] = IF k < f THEN NoManifest ELSE pub[k]
    BY <1>3, Keys DEF RetireOlderFormats
  <2> HIDE DEF after
  <2>3. half[Legacy] = after[Legacy] /\ \A k \in Formats : half[k] = pub[k]
    BY Keys DEF Published
  <2> HIDE DEF half
  <2>4. pub[Legacy].fmt \in Nat /\ f \in Nat
    BY Keys, FormatsAssumption DEF Published, Manifest
  <2> QED BY <1>1, <1>3, <2>1, <2>2, <2>3, <2>4
<1> QED BY <1>2, <1>3

LEMMA RunHasWrites ==
    ASSUME Safe, Keyed, NEW c \in Coordinators, Run(c)
    PROVE  RunWrites(c)
<1>1. /\ Typed /\ FitsPhase(c) /\ RunReady(c)
      /\ co[c] \in Runs /\ slice[c] \in Slices /\ manifests \in Published
  BY TypedParts DEF Safe, WritersExclude, RunsReady
<1> DEFINE f == co[c].fmt
           b == co[c].built
<1>2. ASSUME co[c].phase \in {"routing", "manifest"} PROVE f \in Formats /\ b \in Families
  BY <1>1, <1>2 DEF FitsPhase, Runs, Families, NoFamily
<1>7. ASSUME OwnKeyKept(c), b \in Families PROVE manifests[f].built # NoFamily
  BY <1>1, <1>7, TypedParts DEF OwnKeyKept, Families, NoFamily, Safe, Typed, TypeOK
<1>3. CASE WriteManifest(c)
  <2>1. ~Resting(c) /\ co[c].phase = "manifest"
    BY <1>1, <1>3 DEF WriteManifest, Resting, FitsPhase
  <2>2. PutsAt(f, f)
    BY <1>1, <1>2, <1>3, <2>1, PutIs, Keys DEF WriteManifest, MyManifest
  <2> QED BY <2>1, <2>2 DEF RunWrites
<1>4. CASE WriteMirror(c)
  <2>1. ~Resting(c) /\ co[c].phase = "manifest" /\ OwnKeyKept(c)
    BY <1>1, <1>4 DEF WriteMirror, Resting, FitsPhase, RunReady
  <2>2. manifests[f].built # NoFamily
    BY <1>2, <1>7, <2>1
  <2>3. PutsAt(f, Legacy)
    BY <1>1, <1>2, <1>4, <2>1, <2>2, PutIs DEF WriteMirror, MyManifest
  <2> QED BY <2>1, <2>3 DEF RunWrites
<1>5. CASE ReadRoles(c)
  <2>1. ~Resting(c) /\ f \in Formats
    BY <1>1, <1>2, <1>5 DEF ReadRoles, Resting, FitsPhase
  <2>2. manifests' = manifests \/ \E r \in Retirements(manifests, f) : manifests' = r[1]
    BY <1>5 DEF ReadRoles
  <2>3. ASSUME manifests' # manifests PROVE Retires(f)
    <3>1. PICK r \in Retirements(manifests, f) : manifests' = r[1]
      BY <2>2, <2>3
    <3>2. manifests[f].built # NoFamily
      BY <1>1, <2>1, <2>3, <3>1, Keys, RetirementLemma DEF Retirements, Published
    <3>3. manifests[f].fmt = f
      BY <2>1, <3>2 DEF Keyed, KeysNamed
    <3> HIDE DEF f
    <3> QED BY <1>1, <2>1, <2>3, <3>1, <3>3, RetirementKeys DEF Retires
  <2> QED BY <2>1, <2>3 DEF RunWrites
<1>6. CASE SweepRead(c)
  <2> DEFINE own == [manifests EXCEPT ![f] = MyManifest(c)]
  <2>1. ~Resting(c) /\ f \in Formats /\ b \in Families /\ manifests[f].built # NoFamily
    <3>1. slice[c].pc = "roles"
      BY <1>6 DEF SweepRead
    <3> QED BY <1>1, <1>2, <1>7, <3>1 DEF Resting, FitsPhase, RunReady
  <2>2. MyManifest(c) \in Manifest /\ MyManifest(c).built = b /\ MyManifest(c).fmt = f
    BY <1>1, <2>1 DEF MyManifest, NextManifest, Slices, Manifest, Families
  <2>3. /\ own \in Published /\ own[f] = MyManifest(c) /\ own[Legacy] = manifests[Legacy]
        /\ \A k \in Formats \ {f} : own[k] = manifests[k]
    BY <1>1, <2>1, <2>2, Keys DEF Published
  <2>4. PICK r \in Retirements(own, f) : manifests' = [r[1] EXCEPT ![f] = manifests[f]]
    BY <1>6 DEF SweepRead
  <2> HIDE DEF own
  <2>5. r[1] \in Published
    BY <2>1, <2>3, <2>4, RetirementsType
  <2>6. /\ manifests'[f] = manifests[f] /\ manifests'[Legacy] = r[1][Legacy]
        /\ \A k \in Formats \ {f} : manifests'[k] = r[1][k]
    BY <2>1, <2>4, <2>5, Keys DEF Published
  <2> HIDE DEF f, b
  <2>7. CASE r[1] = own
    <3>1. \A k \in ManifestKeys : manifests'[k] = manifests[k]
      BY <2>3, <2>6, <2>7, Keys
    <3>2. manifests' \in Published
      BY <1>1, <2>1, <2>4, <2>5, Keys DEF Published
    <3>3. manifests' = manifests
      BY <1>1, <3>1, <3>2 DEF Published
    <3> QED BY <3>3 DEF RunWrites
  <2>8. CASE r[1] # own
    <3>1. /\ \A k \in Formats : r[1][k] = own[k] \/ (k < f /\ r[1][k] = NoManifest)
          /\ \/ r[1][Legacy] = own[Legacy] /\ own[Legacy].fmt >= f
             \/ r[1][Legacy] = own[f]
      BY <2>1, <2>2, <2>3, <2>4, <2>8, RetirementKeys
    <3>2. b # NoFamily
      BY <2>1 DEF Families, NoFamily
    <3>3. Retires(f)
      BY <2>1, <2>2, <2>3, <2>6, <3>1, <3>2 DEF Retires
    <3> QED BY <2>1, <3>3 DEF RunWrites, f
  <2> QED BY <2>7, <2>8
<1> QED BY <1>3, <1>4, <1>5, <1>6, RunsWrite DEF RunWrites

LEMMA JobHasWrites ==
    ASSUME Safe, Keyed, NEW d \in Deploys, Deploy(d)
    PROVE  JobWrites(d)
<1>1. Typed /\ dep[d] \in Jobs /\ manifests \in Published /\ Excluded(d)
  BY TypedParts, DepTyped DEF Safe, WritersExclude, DeployExcludes
<1> DEFINE f == dep[d].fmt
           b == dep[d].built
<1>2. ASSUME dep[d].pc # "off" PROVE f \in Formats
  BY <1>1, <1>2, TypedParts DEF FormatChosen
<1>3. ASSUME dep[d].pc \in Holding PROVE b \in Families
  BY <1>1, <1>3 DEF Excluded, Jobs, Families, NoFamily
<1>5. CASE DeployWriteManifest(d)
  <2>1. dep[d].pc = "commit" /\ f \in Formats /\ b \in Families
    BY <1>2, <1>3, <1>5 DEF DeployWriteManifest, Holding
  <2>2. PutsAt(f, f)
    BY <1>1, <1>5, <2>1, PutIs, Keys DEF DeployWriteManifest, DeployManifest
  <2> QED BY <2>1, <2>2 DEF JobWrites
<1>6. CASE DeployWriteMirror(d)
  <2>1. dep[d].pc = "mirror" /\ f \in Formats /\ b \in Families /\ manifests[f].built # NoFamily
    BY <1>2, <1>3, <1>6 DEF DeployWriteMirror, Holding, Keyed, JobKeyed
  <2>2. PutsAt(f, Legacy)
    BY <1>1, <1>6, <2>1, PutIs DEF DeployWriteMirror, DeployManifest
  <2> QED BY <2>1, <2>2 DEF JobWrites
<1> QED BY <1>5, <1>6, JobsWrite DEF JobWrites

\* The copy of the mirror is a put at its format's own key.
LEMMA PrepareHasWrites ==
    ASSUME Safe, NEW d \in Deploys, Prepare(d)
    PROVE  manifests' = manifests \/ PutsAt(prep[d].fmt, prep[d].fmt)
<1> SUFFICES ASSUME manifests' # manifests PROVE PutsAt(prep[d].fmt, prep[d].fmt)
  OBVIOUS
<1> DEFINE f == prep[d].fmt
           m == prep[d].copied
<1>1. EnsureCopy(d)
  BY PrepareQuiet
<1>2. prep[d].pc = "copy" /\ manifests' = [manifests EXCEPT ![f] = m]
  BY <1>1 DEF EnsureCopy
<1>3. f \in Formats /\ m.built # NoFamily /\ m.fmt = f /\ manifests \in Published
  BY <1>2, TypedParts DEF Safe, CopyChosen
<1> HIDE DEF f, m
<1>4. manifests'[f] = m /\ \A j \in ManifestKeys \ {f} : manifests'[j] = manifests[j]
  BY <1>2, <1>3, Keys DEF Published
<1>5. PutsAt(f, f)
  BY <1>3, <1>4, Keys DEF PutsAt
<1> QED BY <1>5 DEF f

LEMMA WritesNamed ==
    ASSUME KeysNamed, manifests \in Published, NEW f,
           manifests' = manifests \/ PutsAt(f, f) \/ PutsAt(f, Legacy) \/ Retires(f)
    PROVE  KeysNamed'
<1>1. NoManifest.built = NoFamily /\ NoManifest.fmt = 0
  BY DEF NoManifest
<1>2. CASE manifests' = manifests
  BY <1>2 DEF KeysNamed
<1>3. CASE PutsAt(f, f) \/ PutsAt(f, Legacy)
  BY <1>3, Keys DEF PutsAt, KeysNamed
<1>4. CASE Retires(f)
  BY <1>1, <1>4, Keys DEF Retires, KeysNamed
<1> QED BY <1>2, <1>3, <1>4

Early == {"settle", "sweep", "drop", "upload", "carry"}
JobKeeps(d) == dep'[d].fmt = dep[d].fmt /\ dep'[d].mirror = dep[d].mirror

\* Every step of a job: where it leads, and what it does with the format and
\* with the answer whether the mirror follows.
JobGoesOn(d) ==
    LET from == dep[d].pc
        to   == dep'[d].pc
    IN  \/ /\ from = "off" /\ to = "settle" /\ Preparing(d)
           /\ dep'[d].mirror = dep[d].mirror /\ dep'[d].fmt = prep[d].fmt
        \/ from \in Early /\ to \in Early /\ JobKeeps(d)
        \/ /\ from = "carry" /\ to = "check" /\ dep'[d].fmt = dep[d].fmt
           /\ dep'[d].mirror \in {dep[d].mirror, LegacyFollows(manifests, dep[d].fmt)}
        \/ from = "check" /\ to = "commit" /\ JobKeeps(d)
        \/ /\ from = "commit" /\ DeployWriteManifest(d) /\ JobKeeps(d)
           /\ to = IF dep[d].mirror THEN "mirror" ELSE "release"
        \/ from = "mirror" /\ to = "release" /\ JobKeeps(d)
        \/ from \in {"release", "roles", "lease", "purge"} /\ to \in {"roles", "lease", "purge", "switch"} /\ JobKeeps(d)
        \/ from = "switch" /\ to = "done" /\ SwitchCode(d)
        \/ to = "dead"

LEMMA JobHasMoves ==
    ASSUME Typed, NEW d \in Deploys, Deploy(d)
    PROVE  JobGoesOn(d)
<1>t. dep \in [Deploys -> Jobs] /\ dep[d] \in Jobs
  BY TypedParts
<1>1. ASSUME NEW pc \in DeployPcs, Job(d, pc) PROVE dep'[d].pc = pc /\ JobKeeps(d)
  BY <1>t, <1>1 DEF Job, JobKeeps, Jobs
<1>2. CASE WriteDeployFence(d)
  <2>1. dep' = [dep EXCEPT ![d].pc = "settle", ![d].fmt = prep[d].fmt, ![d].at = fence + 1]
    BY <1>2 DEF WriteDeployFence
  <2>2. dep'[d].pc = "settle" /\ dep'[d].mirror = dep[d].mirror /\ dep'[d].fmt = prep[d].fmt
    BY <1>t, <2>1 DEF Jobs
  <2> QED BY <1>2, <2>2 DEF WriteDeployFence, JobGoesOn, Preparing
<1>4. CASE TakeLease(d)
  <2>1. dep'[d].pc = "sweep" /\ JobKeeps(d)
    BY <1>t, <1>4 DEF TakeLease, Jobs, JobKeeps
  <2> QED BY <1>4, <2>1 DEF TakeLease, JobGoesOn, Early
<1>5. CASE BeginDeployUpload(d) /\ dep[d].pc \in Early
  <2>1. dep'[d].pc = "upload" /\ JobKeeps(d)
    BY <1>t, <1>5 DEF BeginDeployUpload, Jobs, JobKeeps
  <2> QED BY <1>5, <2>1 DEF JobGoesOn, Early
<1>6. CASE DeployReadRoles(d)
  <2>1. CASE dep' = [dep EXCEPT ![d].pc = "drop", ![d].seen = manifests]
    <3>1. dep'[d].pc = "drop" /\ JobKeeps(d)
      BY <1>t, <2>1 DEF Jobs, JobKeeps
    <3> QED BY <1>6, <3>1 DEF DeployReadRoles, JobGoesOn, Early
  <2> QED BY <1>5, <1>6, <2>1 DEF DeployReadRoles, Early
<1>7. CASE DeployMakeRoom(d)
  <2>1. CASE dep' = [dep EXCEPT ![d].pc = "dead", ![d].seen = NothingPublished]
    <3>1. dep'[d].pc = "dead"
      BY <1>t, <2>1 DEF Jobs
    <3> QED BY <3>1 DEF JobGoesOn
  <2> QED BY <1>5, <1>7, <2>1 DEF DeployMakeRoom, Early
<1>8. CASE DeployPutKey(d)
  <2>1. CASE dep' = [dep EXCEPT ![d].done = dep[d].done + 1]
    <3>1. dep'[d].pc = dep[d].pc /\ JobKeeps(d)
      BY <1>t, <2>1 DEF Jobs, JobKeeps
    <3> QED BY <1>8, <3>1 DEF DeployPutKey, JobGoesOn, Early
  <2>2. CASE Job(d, "carry")
    BY <1>1, <1>8, <2>2 DEF DeployPutKey, JobGoesOn, Early, DeployPcs
  <2> QED BY <1>8, <2>1, <2>2 DEF DeployPutKey, Job
<1>9. CASE DeployReadReplaced(d)
  <2>1. CASE Job(d, "check")
    BY <1>1, <1>9, <2>1 DEF DeployReadReplaced, JobGoesOn, JobKeeps, DeployPcs
  <2>2. CASE dep' = [dep EXCEPT ![d].pc = "check", ![d].replaced = ReplacedManifest(manifests, dep[d].fmt),
                                ![d].mirror = LegacyFollows(manifests, dep[d].fmt)]
    <3>1. /\ dep'[d].pc = "check" /\ dep'[d].fmt = dep[d].fmt
          /\ dep'[d].mirror = LegacyFollows(manifests, dep[d].fmt)
      <4> DEFINE m == ReplacedManifest(manifests, dep[d].fmt)
                 y == LegacyFollows(manifests, dep[d].fmt)
      <4> HIDE DEF m, y
      <4>1. dep' = [dep EXCEPT ![d].pc = "check", ![d].replaced = m, ![d].mirror = y]
        BY <2>2 DEF m, y
      <4>2. dep'[d].pc = "check" /\ dep'[d].fmt = dep[d].fmt /\ dep'[d].mirror = y
        BY <1>t, <4>1 DEF Jobs
      <4> QED BY <4>2 DEF y
    <3> QED BY <1>9, <3>1 DEF DeployReadReplaced, JobGoesOn
  <2> QED BY <1>9, <2>1, <2>2 DEF DeployReadReplaced
<1>10. CASE DeployCheckLease(d)
  BY <1>1, <1>10 DEF DeployCheckLease, JobGoesOn, DeployPcs
<1>11. CASE DeployWriteManifest(d)
  <2>1. Job(d, IF dep[d].mirror THEN "mirror" ELSE "release") /\ dep[d].pc = "commit"
    BY <1>11 DEF DeployWriteManifest
  <2>2. dep'[d].pc = (IF dep[d].mirror THEN "mirror" ELSE "release") /\ JobKeeps(d)
    BY <1>1, <2>1 DEF DeployPcs
  <2> QED BY <1>11, <2>1, <2>2 DEF JobGoesOn
<1>12. CASE DeployWriteMirror(d) \/ DeployReleaseLease(d)
  BY <1>1, <1>12 DEF DeployWriteMirror, DeployReleaseLease, JobGoesOn, DeployPcs
<1>13. CASE DeploySweepRead(d)
  <2> DEFINE own == [manifests EXCEPT ![dep[d].fmt] = DeployManifest(d)]
  <2>1. dep' = [dep EXCEPT ![d].pc = "lease", ![d].seen = own]
    BY <1>13 DEF DeploySweepRead
  <2> HIDE DEF own
  <2>2. dep'[d].pc = "lease" /\ JobKeeps(d)
    BY <1>t, <2>1 DEF Jobs, JobKeeps
  <2> QED BY <1>13, <2>2 DEF DeploySweepRead, JobGoesOn
<1>3. CASE DeploySweepReadLease(d)
  <2> DEFINE held == InFlight(lease.built, dep[d].seen)
  <2>1. dep' = [dep EXCEPT ![d].pc = "purge", ![d].inFlight = held]
    BY <1>3 DEF DeploySweepReadLease
  <2> HIDE DEF held
  <2>2. dep'[d].pc = "purge" /\ JobKeeps(d)
    BY <1>t, <2>1 DEF Jobs, JobKeeps
  <2> QED BY <1>3, <2>2 DEF DeploySweepReadLease, JobGoesOn
<1>14. CASE DeploySweepDrop(d)
  <2>1. dep'[d].pc = "switch" /\ JobKeeps(d)
    BY <1>t, <1>14 DEF DeploySweepDrop, Jobs, JobKeeps
  <2> QED BY <1>14, <2>1 DEF DeploySweepDrop, JobGoesOn
<1>15. CASE SwitchCode(d)
  BY <1>1, <1>15 DEF SwitchCode, JobGoesOn, DeployPcs
<1>16. CASE DeployDies(d)
  <2>1. dep'[d].pc = "dead"
    BY <1>t, <1>16 DEF DeployDies, Jobs
  <2> QED BY <2>1 DEF JobGoesOn
<1> QED BY <1>2, <1>3, <1>4, <1>6, <1>7, <1>8, <1>9, <1>10, <1>11, <1>12, <1>13, <1>14, <1>15, <1>16 DEF Deploy

LEMMA KeyedStep ==
    ASSUME Prompt, ~FenceReadsFail
    PROVE  Safe /\ Keyed /\ [Next]_vars => Keyed'
<1> SUFFICES ASSUME Safe, Keyed, [Next]_vars PROVE Keyed'
  OBVIOUS
<1>t. manifests \in Published
  BY TypedParts DEF Safe
<1>1. ASSUME NEW c \in Coordinators, Run(c) PROVE Keyed'
  <2>1. RunWrites(c) /\ dep' = dep /\ \A d \in Deploys : dep[d].pc \in Holding => Resting(c)
    BY <1>1, RunHasWrites, RunApart
  <2>2. KeysNamed'
    BY <1>t, <2>1, WritesNamed DEF Keyed, RunWrites
  <2>3. ASSUME NEW d \in Deploys PROVE JobKeyed(d)'
    <3>1. dep[d].pc \in {"check", "commit", "mirror"} => manifests' = manifests
      BY <2>1 DEF RunWrites, Holding
    <3> QED BY <2>1, <3>1 DEF Keyed, JobKeyed
  <2> QED BY <2>2, <2>3 DEF Keyed
<1>2. ASSUME NEW d \in Deploys, Deploy(d) PROVE Keyed'
  <2>1. /\ JobWrites(d) /\ JobGoesOn(d) /\ Typed /\ FormatChosen /\ JobKeyed(d)
        /\ \A e \in Deploys \ {d} : dep'[e] = dep[e] /\ ~Active(e)
    BY <1>2, JobHasWrites, JobHasMoves, JobAlone, TypedParts DEF Safe, Keyed
  <2>2. KeysNamed'
    BY <1>t, <2>1, WritesNamed DEF Keyed, JobWrites
  <2>3. ASSUME NEW e \in Deploys \ {d} PROVE JobKeyed(e)'
    <3>1. dep'[e] = dep[e] /\ dep[e].pc \in {"off", "done", "dead"} /\ JobKeyed(e)
      BY <2>1 DEF Active, Keyed
    <3> QED BY <3>1 DEF JobKeyed
  <2>4. JobKeyed(d)'
    <3>1. CASE dep[d].pc = "carry" /\ dep'[d].pc = "check"
      <4>1. manifests' = manifests /\ dep'[d].fmt = dep[d].fmt
        BY <2>1, <3>1 DEF JobWrites, JobGoesOn, Early
      <4>2. dep'[d].mirror => LegacyFollows(manifests, dep[d].fmt)
        BY <2>1, <3>1 DEF JobKeyed, JobGoesOn, Early
      <4>3. dep'[d].mirror => manifests[Legacy].fmt \in {0, dep[d].fmt}
        BY <4>2, Keys DEF LegacyFollows, Keyed, KeysNamed
      <4> QED BY <3>1, <4>1, <4>3 DEF JobKeyed
    <3>2. CASE dep[d].pc = "check" /\ dep'[d].pc = "commit"
      <4>1. manifests' = manifests /\ JobKeeps(d)
        BY <2>1, <3>2 DEF JobWrites, JobGoesOn, Early
      <4> QED BY <2>1, <3>2, <4>1 DEF JobKeyed, JobKeeps
    <3>3. CASE dep[d].pc = "commit" /\ dep'[d].pc \in {"mirror", "release"}
      <4>1. JobKeeps(d) /\ DeployWriteManifest(d) /\ (dep'[d].pc = "mirror" => dep[d].mirror)
        BY <2>1, <3>3 DEF JobGoesOn, Early
      <4>2. dep[d].fmt \in Formats /\ dep[d].built # NoFamily
        BY <2>1, <3>3 DEF FormatChosen, Safe, WritersExclude, DeployExcludes, Excluded, Holding
      <4>3. manifests'[dep[d].fmt] = DeployManifest(d) /\ manifests'[Legacy] = manifests[Legacy]
        BY <1>t, <4>1, <4>2, Keys DEF DeployWriteManifest, Published
      <4>4. manifests'[dep[d].fmt].built # NoFamily
        BY <4>2, <4>3 DEF DeployManifest, NextManifest
      <4> QED BY <2>1, <3>3, <4>1, <4>3, <4>4 DEF JobKeyed, JobKeeps
    <3>4. CASE dep'[d].pc \in Early
      <4>1. ~dep'[d].mirror
        BY <2>1, <3>4 DEF JobGoesOn, JobKeyed, JobKeeps, Early
      <4> QED BY <3>4, <4>1 DEF JobKeyed, Early
    <3>5. CASE dep'[d].pc \in {"release", "roles", "lease", "purge", "switch", "done", "dead"}
      BY <3>5 DEF JobKeyed
    <3> QED BY <2>1, <3>1, <3>2, <3>3, <3>4, <3>5 DEF JobGoesOn, Early
  <2> QED BY <2>2, <2>3, <2>4 DEF Keyed
<1>3. CASE Failover \/ LeaseExpires \/ UNCHANGED vars
  <2>1. manifests' = manifests /\ dep' = dep
    BY <1>3, ElsewhereQuiet
  <2> QED BY <2>1 DEF Keyed, KeysNamed, JobKeyed
<1>4. ASSUME NEW d \in Deploys, Prepare(d) PROVE Keyed'
  <2>1. dep' = dep /\ (manifests' = manifests \/ PutsAt(prep[d].fmt, prep[d].fmt))
    BY <1>4, PrepareQuiet, PrepareHasWrites
  <2>2. KeysNamed'
    BY <1>t, <2>1, WritesNamed DEF Keyed
  <2>3. /\ manifests'[Legacy] = manifests[Legacy]
        /\ \A f \in Formats : manifests[f].built # NoFamily => manifests'[f].built # NoFamily
    BY <2>1, Keys DEF PutsAt
  <2>4. ASSUME NEW e \in Deploys PROVE JobKeyed(e)'
    <3>1. dep[e].pc = "mirror" => dep[e].fmt \in Formats
      BY TypedParts DEF Safe, FormatChosen
    <3> QED BY <2>1, <2>3, <3>1 DEF Keyed, JobKeyed
  <2> QED BY <2>2, <2>4 DEF Keyed
<1> QED BY <1>1, <1>2, <1>3, <1>4 DEF Next

LEMMA KeyedInit == Init => Keyed
<1> SUFFICES ASSUME Init PROVE Keyed
  OBVIOUS
<1>1. PICK keys \in {{Legacy}, {Legacy, code}} :
        manifests = [k \in ManifestKeys |->
              IF k \in keys /\ ~EmptyStart THEN [built |-> 2, fmt |-> code, prev |-> 1] ELSE NoManifest]
  BY DEF Init
<1>2. NoManifest.built = NoFamily /\ NoManifest.fmt = 0
  BY DEF NoManifest
<1>3. KeysNamed
  BY <1>1, <1>2, Keys DEF KeysNamed, NoFamily
<1>4. \A d \in Deploys : dep[d].pc = "off" /\ ~dep[d].mirror
  BY DEF Init, NotStarted
<1> QED BY <1>3, <1>4 DEF Keyed, JobKeyed

\* The mirror's format has a manifest of its own: no store is older than the
\* per-format keys.
MirrorBacked == manifests[Legacy].fmt \in Formats => manifests[manifests[Legacy].fmt].built # NoFamily

LEMMA WritesBacked ==
    ASSUME KeysNamed, MirrorBacked, manifests \in Published, NEW f,
           manifests' = manifests \/ PutsAt(f, f) \/ PutsAt(f, Legacy) \/ Retires(f)
    PROVE  MirrorBacked'
<1>1. CASE manifests' = manifests
  BY <1>1 DEF MirrorBacked
<1>2. CASE PutsAt(f, f) \/ PutsAt(f, Legacy)
  BY <1>2, Keys DEF PutsAt, MirrorBacked
<1>3. CASE Retires(f)
  <2>1. manifests'[f] = manifests[f] /\ f \in Formats
    BY <1>3, Keys DEF Retires
  <2>2. CASE manifests'[Legacy].fmt = f
    BY <1>3, <2>1, <2>2 DEF Retires, MirrorBacked
  <2>3. CASE manifests'[Legacy] = manifests[Legacy] /\ manifests[Legacy].fmt >= f
    <3> SUFFICES ASSUME manifests[Legacy].fmt \in Formats
                 PROVE  manifests'[manifests[Legacy].fmt].built # NoFamily
      BY <2>3 DEF MirrorBacked
    <3> QED BY <1>3, <2>1, <2>3, Keys DEF Retires, MirrorBacked
  <2> QED BY <1>3, <2>2, <2>3 DEF Retires
<1> QED BY <1>1, <1>2, <1>3

LEMMA BackedStep ==
    ASSUME Prompt, ~FenceReadsFail
    PROVE  Safe /\ Keyed /\ MirrorBacked /\ [Next]_vars => MirrorBacked'
<1> SUFFICES ASSUME Safe, Keyed, MirrorBacked, [Next]_vars PROVE MirrorBacked'
  OBVIOUS
<1>1. KeysNamed /\ manifests \in Published
  BY TypedParts DEF Safe, Keyed
<1>2. ASSUME NEW c \in Coordinators, Run(c) PROVE MirrorBacked'
  BY <1>1, <1>2, RunHasWrites, WritesBacked DEF RunWrites
<1>3. ASSUME NEW d \in Deploys, Deploy(d) PROVE MirrorBacked'
  BY <1>1, <1>3, JobHasWrites, WritesBacked DEF JobWrites
<1>4. CASE Failover \/ LeaseExpires \/ UNCHANGED vars
  <2>1. manifests' = manifests
    BY <1>4, ElsewhereQuiet
  <2> QED BY <2>1 DEF MirrorBacked
<1>5. ASSUME NEW d \in Deploys, Prepare(d) PROVE MirrorBacked'
  BY <1>1, <1>5, PrepareHasWrites, WritesBacked
<1> QED BY <1>2, <1>3, <1>4, <1>5 DEF Next

LEMMA BackedLeads == MirrorBacked => MirrorLeads
BY DEF MirrorBacked, MirrorLeads

-----------------------------------------------------------------------------
(***************************************************************************)
(* The deployed code has an index.                                         *)
(***************************************************************************)
FromMirror == {"mirror", "release", "roles", "lease", "purge", "switch"}

\* A mirror, or a store a deploy has taken for usable, of a format that is yet
\* to be deployed is under that format's own key.
Ahead ==
    /\ manifests[Legacy].fmt > code => manifests[manifests[Legacy].fmt].built # NoFamily
    /\ \A d \in Deploys :
          Preparing(d) => /\ prep[d].fmt >= code
                          /\ prep[d].skips /\ prep[d].fmt > code => manifests[prep[d].fmt].built # NoFamily

HasIndex ==
    /\ \A c \in Coordinators : co[c].fmt <= code
    /\ \A d \in Deploys : Active(d) => dep[d].fmt >= code
    /\ \A d \in Deploys : dep[d].pc \in FromMirror => manifests[dep[d].fmt].built # NoFamily
    /\ \/ manifests[code].built # NoFamily
       \/ manifests[Legacy].fmt = code /\ \A c \in Coordinators : co[c].fmt \in {0, code}
    /\ Ahead

\* A run's format is the one deployed when it stamped its build.
LEMMA RunFormats ==
    ASSUME Prompt, ~FenceReadsFail, Safe, NEW c \in Coordinators, Run(c)
    PROVE  code' = code /\ \A e \in Coordinators : co'[e].fmt \in {co[e].fmt, 0, code}
<1>t. Typed /\ co \in [Coordinators -> Runs]
  BY TypedParts DEF Safe
<1>1. code' = code
  BY DEF Run, Slice, StartImport, Retire, RetirePurged, FailRun, KillSlice, StampBuild, ClaimLease, PutLease,
         ReadRoles, MakeRoom, PutFilter, RenewFence, RenewLease, ChunkFence, PutChunk, ReadReplaced, CheckChunks,
         CommitFence, WriteManifest, WriteMirror, ReleaseLease, SweepRead, SweepDrop, FinishRun
<1>2. \A e \in Coordinators \ {c} : co'[e] = co[e]
  BY RunApart
<1> SUFFICES co'[c].fmt \in {co[c].fmt, 0, code}
  BY <1>1, <1>2
<1>3. ASSUME NEW p, co' = [co EXCEPT ![c].phase = p] PROVE co'[c].fmt = co[c].fmt
  BY <1>t, <1>3 DEF Runs
<1>4. CASE co' = co
  BY <1>4
<1>5. CASE StartImport(c)
  <2> DEFINE r == [IdleRun EXCEPT !.phase = "build", !.started = fence]
  <2>1. r.fmt = 0
    BY DEF IdleRun
  <2>2. co'[c] = r
    BY <1>t, <1>5 DEF StartImport
  <2> QED BY <2>1, <2>2
<1>6. CASE StampBuild(c)
  <2> DEFINE r == [co[c] EXCEPT !.phase = "routing", !.built = builds + 1]
  <2>1. DOMAIN r = DOMAIN co[c] /\ "fmt" \in DOMAIN co[c]
    BY <1>t DEF Runs
  <2>2. co'[c] = [r EXCEPT !.fmt = code]
    BY <1>t, <1>6 DEF StampBuild
  <2> HIDE DEF r
  <2>3. co'[c].fmt = code
    BY <2>1, <2>2
  <2> QED BY <2>3
<1>7. CASE MakeRoom(c) \/ PutChunk(c)
  <2>1. ASSUME co' = [co EXCEPT ![c].held = TRUE] PROVE co'[c].fmt = co[c].fmt
    BY <1>t, <2>1 DEF Runs
  <2>2. ASSUME NEW p, co' = [co EXCEPT ![c].done = co[c].done + 1, ![c].phase = p] PROVE co'[c].fmt = co[c].fmt
    BY <1>t, <2>2 DEF Runs
  <2>3. CASE MakeRoom(c)
    BY <1>3, <2>1, <2>3 DEF MakeRoom, EndFailed
  <2>4. CASE PutChunk(c)
    <3>1. CASE co' = [co EXCEPT ![c].done = @ + 1, ![c].phase = IF NextChunk(c) = Chunks THEN "manifest" ELSE @]
      <4> DEFINE p == IF NextChunk(c) = Chunks THEN "manifest" ELSE co[c].phase
      <4>1. co' = [co EXCEPT ![c].done = co[c].done + 1, ![c].phase = p]
        BY <1>t, <3>1 DEF Runs
      <4> QED BY <2>2, <4>1
    <3> QED BY <1>4, <2>4, <3>1 DEF PutChunk
  <2> QED BY <1>7, <2>3, <2>4
<1>8. CASE \E p : co' = [co EXCEPT ![c].phase = p]
  BY <1>3, <1>8
<1>9. \/ co' = co \/ StartImport(c) \/ StampBuild(c) \/ MakeRoom(c) \/ PutChunk(c)
      \/ \E p : co' = [co EXCEPT ![c].phase = p]
  BY DEF Run, Slice, Retire, RetirePurged, FailRun, KillSlice, ClaimLease, PutLease, BeginRetire, EndFailed,
         ReadRoles, PutFilter, RenewFence, RenewLease, ChunkFence, ReadReplaced, CheckChunks,
         CommitFence, WriteManifest, WriteMirror, ReleaseLease, SweepRead, SweepDrop, FinishRun
<1> QED BY <1>4, <1>5, <1>6, <1>7, <1>8, <1>9

\* Before its fence a job keeps its format and its verdict on the store.
LEMMA PreparationKeeps ==
    ASSUME Typed, NEW d \in Deploys, Prepare(d), Preparing(d)'
    PROVE  \/ Preparing(d) /\ prep'[d].fmt = prep[d].fmt /\ prep'[d].skips = prep[d].skips
           \/ /\ manifests' = manifests /\ code' = code
              /\ prep'[d].fmt \in Formats /\ (Downgrades \/ prep'[d].fmt >= code)
              /\ prep'[d].skips => UsableStore(prep'[d].fmt)
<1>t. prep \in [Deploys -> Preparations] /\ prep[d] \in Preparations
  BY TypedParts
<1>q. dep' = dep
  BY PrepareQuiet
<1>1. CASE BeginDeploy(d)
  <2>1. PICK f \in {g \in Formats : Downgrades \/ g >= code}, skips \in BOOLEAN :
           /\ skips => UsableStore(f)
           /\ prep' = [prep EXCEPT ![d].pc = "roles", ![d].fmt = f, ![d].skips = skips]
    BY <1>1 DEF BeginDeploy
  <2>2. prep'[d] = [prep[d] EXCEPT !.pc = "roles", !.fmt = f, !.skips = skips]
    BY <1>t, <2>1
  <2>3. prep'[d].fmt = f /\ prep'[d].skips = skips
    BY <1>t, <2>2 DEF Preparations
  <2> QED BY <1>1, <2>1, <2>3 DEF BeginDeploy, kvVars
<1>2. CASE SkipImport(d) \/ PreparationDies(d)
  <2>1. prep'[d].pc = "over"
    BY <1>t, <1>2 DEF SkipImport, PreparationDies, Preparations
  <2> QED BY <2>1 DEF Preparing
<1>3. CASE PruneReadManifests(d) \/ PruneReadLease(d) \/ PruneDrop(d)
  <2>1. prep'[d].fmt = prep[d].fmt /\ prep'[d].skips = prep[d].skips /\ prep[d].pc \in PrepSteps
    BY <1>t, <1>3 DEF PruneReadManifests, PruneReadLease, PruneDrop, PruneOver, Preparations, PrepSteps
  <2> QED BY <1>q, <2>1 DEF Preparing, PrepSteps
<1>4. CASE EnsureReadOwn(d) \/ EnsureReadLegacy(d) \/ EnsureCopy(d)
  <2>1. prep[d].pc \in PrepSteps
    BY <1>4 DEF EnsureReadOwn, EnsureReadLegacy, EnsureCopy, PrepSteps
  <2>2. prep'[d].fmt = prep[d].fmt /\ prep'[d].skips = prep[d].skips
    <3>1. CASE EnsureReadOwn(d) \/ EnsureCopy(d)
      BY <1>t, <3>1 DEF EnsureReadOwn, EnsureCopy, Prepared, Preparations
    <3>2. CASE EnsureReadLegacy(d)
      <4> DEFINE m == manifests[Legacy]
      <4>1. prep' \in {[prep EXCEPT ![d].pc = "copy", ![d].copied = m],
                      [prep EXCEPT ![d].pc = "ready", ![d].copied = NoManifest]}
        BY <3>2 DEF EnsureReadLegacy, Prepared
      <4> HIDE DEF m
      <4> QED BY <1>t, <4>1 DEF Preparations
    <3> QED BY <1>4, <3>1, <3>2
  <2> QED BY <1>q, <2>1, <2>2 DEF Preparing, PrepSteps
<1> QED BY <1>1, <1>2, <1>3, <1>4 DEF Prepare

LEMMA PrepareKeepsIndex ==
    ASSUME SerialDeploys, ~Downgrades, Safe, Keyed, HasIndex, NEW d \in Deploys, Prepare(d)
    PROVE  HasIndex'
<1>t. /\ Typed /\ manifests \in Published /\ code \in Formats /\ code \in Nat
      /\ \A c \in Coordinators : co[c].fmt \in Nat
      /\ manifests[Legacy].fmt \in Nat /\ (manifests[Legacy].fmt > code => manifests[Legacy].fmt \in Formats)
  BY TypedParts, FormatsAssumption, Keys DEF Safe, Runs, Formats, Published, Manifest
<1>1. /\ co' = co /\ dep' = dep /\ (manifests' = manifests \/ PutsAt(prep[d].fmt, prep[d].fmt))
      /\ dep[d].pc = "off"
      /\ \A e \in Deploys \ {d} : ~UnderWay(e) /\ prep'[e] = prep[e]
  BY PrepareQuiet, PrepareHasWrites, PrepareUnderWay
<1>2. /\ manifests'[Legacy] = manifests[Legacy]
      /\ \A k \in Formats : manifests[k].built # NoFamily => manifests'[k].built # NoFamily
  BY <1>1, Keys DEF PutsAt
<1>3. \A e \in Deploys : ~Active(e) /\ ~Active(e)' /\ dep'[e].pc \notin FromMirror /\ (e # d => ~Preparing(e)')
  BY <1>1 DEF UnderWay, Active, Preparing, FromMirror
<1>4. CASE SkipImport(d)
  <2>1. /\ Preparing(d) /\ prep[d].skips /\ code' = prep[d].fmt /\ manifests' = manifests
        /\ prep[d].fmt \in Formats /\ prep[d].fmt \in Nat /\ prep[d].fmt >= code
    BY <1>t, <1>4, TypedParts, Keys DEF SkipImport, kvVars, CopyChosen, Preparing, HasIndex, Ahead
  <2>2. ~Preparing(d)'
    <3>1. prep'[d].pc = "over"
      BY <1>4, <1>t, TypedParts DEF SkipImport, Preparations
    <3> QED BY <3>1 DEF Preparing
  <2>3. \A c \in Coordinators : co[c].fmt <= prep[d].fmt
    BY <1>t, <2>1 DEF HasIndex
  <2>4. Ahead'
    <3>1. manifests[Legacy].fmt > prep[d].fmt => manifests[Legacy].fmt > code
      BY <1>t, <2>1
    <3> QED BY <1>3, <2>1, <2>2, <3>1 DEF HasIndex, Ahead
  <2>5. \/ manifests[prep[d].fmt].built # NoFamily
        \/ manifests[Legacy].fmt = prep[d].fmt /\ \A c \in Coordinators : co[c].fmt \in {0, prep[d].fmt}
    <3>1. CASE prep[d].fmt = code
      BY <3>1 DEF HasIndex
    <3>2. CASE prep[d].fmt > code
      BY <2>1, <3>2 DEF HasIndex, Ahead
    <3> QED BY <1>t, <2>1, <3>1, <3>2
  <2> QED BY <1>1, <1>3, <2>1, <2>3, <2>4, <2>5 DEF HasIndex
<1>5. CASE ~SkipImport(d)
  <2>1. code' = code
    BY <1>5, PrepareKeeps
  <2>2. ASSUME Preparing(d)'
        PROVE  /\ prep'[d].fmt >= code
               /\ prep'[d].skips /\ prep'[d].fmt > code => manifests'[prep'[d].fmt].built # NoFamily
    <3>1. CASE Preparing(d) /\ prep'[d].fmt = prep[d].fmt /\ prep'[d].skips = prep[d].skips
      <4>1. prep[d].fmt \in Formats
        BY <1>t, <3>1, TypedParts DEF CopyChosen, Preparing
      <4> QED BY <1>2, <3>1, <4>1 DEF HasIndex, Ahead
    <3>2. CASE /\ manifests' = manifests /\ prep'[d].fmt \in Formats /\ prep'[d].fmt >= code
               /\ prep'[d].skips => UsableStore(prep'[d].fmt)
      <4> DEFINE f == prep'[d].fmt
      <4> SUFFICES ASSUME UsableStore(f), f > code PROVE manifests[f].built # NoFamily
        BY <3>2
      <4>1. CASE manifests[f].built = NoFamily
        <5>1. manifests[Legacy].fmt = f
          BY <4>1 DEF UsableStore
        <5> HIDE DEF f
        <5> QED BY <5>1 DEF HasIndex, Ahead
      <4> QED BY <4>1
    <3> QED BY <1>t, <2>1, <2>2, <3>1, <3>2, PreparationKeeps
  <2>3. Ahead'
    <3>1. manifests[Legacy].fmt > code => manifests'[manifests[Legacy].fmt].built # NoFamily
      BY <1>t, <1>2 DEF HasIndex, Ahead
    <3> QED BY <1>2, <1>3, <2>1, <2>2, <3>1 DEF Ahead
  <2>4. \/ manifests'[code].built # NoFamily
        \/ manifests'[Legacy].fmt = code /\ \A c \in Coordinators : co[c].fmt \in {0, code}
    BY <1>t, <1>2 DEF HasIndex
  <2> QED BY <1>1, <1>3, <2>1, <2>3, <2>4 DEF HasIndex
<1> QED BY <1>4, <1>5

LEMMA IndexStep ==
    ASSUME Prompt, SerialDeploys, ~FenceReadsFail, ~Downgrades
    PROVE  Safe /\ Keyed /\ HasIndex /\ [Next]_vars => HasIndex'
<1> SUFFICES ASSUME Safe, Keyed, HasIndex, [Next]_vars PROVE HasIndex'
  OBVIOUS
<1>t. /\ Typed /\ manifests \in Published /\ code \in Formats /\ FormatChosen
      /\ \A c \in Coordinators : co[c].fmt \in Nat
      /\ \A d \in Deploys : dep[d].fmt \in Nat
  BY TypedParts, FormatsAssumption DEF Safe, Runs, Jobs, Formats
<1>1. ASSUME NEW c \in Coordinators, Run(c) PROVE HasIndex'
  <2>1. /\ RunWrites(c) /\ dep' = dep /\ code' = code
        /\ \A e \in Coordinators : co'[e].fmt \in {co[e].fmt, 0, code}
    BY <1>1, RunHasWrites, RunApart, RunFormats
  <2>2. \A e \in Coordinators : co'[e].fmt <= code'
    BY <1>t, <2>1, Keys DEF HasIndex
  <2>3. \A k \in Formats : k >= code /\ manifests[k].built # NoFamily => manifests'[k].built # NoFamily
    <3> TAKE k \in Formats
    <3>1. CASE manifests' = manifests
      BY <3>1
    <3>2. CASE PutsAt(co[c].fmt, co[c].fmt) \/ PutsAt(co[c].fmt, Legacy)
      BY <3>2, Keys DEF PutsAt
    <3>3. CASE Retires(co[c].fmt)
      BY <1>t, <3>3, Keys DEF Retires, HasIndex
    <3> QED BY <2>1, <3>1, <3>2, <3>3 DEF RunWrites
  <2>4. \A d \in Deploys :
          dep[d].pc \in FromMirror => manifests'[dep[d].fmt].built # NoFamily
    <3> TAKE d \in Deploys
    <3> HAVE dep[d].pc \in FromMirror
    <3>1. dep[d].fmt \in Formats /\ dep[d].fmt >= code /\ manifests[dep[d].fmt].built # NoFamily
      BY <1>t DEF FormatChosen, HasIndex, Active, FromMirror
    <3> QED BY <2>3, <3>1
  <2>5. \/ manifests'[code].built # NoFamily
        \/ manifests'[Legacy].fmt = code /\ \A e \in Coordinators : co'[e].fmt \in {0, code}
    <3>1. CASE manifests[code].built # NoFamily
      BY <1>t, <2>3, <3>1, Keys
    <3>2. CASE manifests[code].built = NoFamily
      <4>1. manifests[Legacy].fmt = code /\ \A e \in Coordinators : co[e].fmt \in {0, code}
        BY <3>2 DEF HasIndex
      <4>2. \A e \in Coordinators : co'[e].fmt \in {0, code}
        BY <2>1, <4>1
      <4>3. CASE manifests' = manifests
        BY <4>1, <4>2, <4>3
      <4>4. CASE PutsAt(co[c].fmt, co[c].fmt)
        BY <4>1, <4>4, Keys DEF PutsAt
      <4>5. CASE PutsAt(co[c].fmt, Legacy) \/ Retires(co[c].fmt)
        BY <3>2, <4>1, <4>5, Keys DEF PutsAt, Retires
      <4> QED BY <2>1, <4>3, <4>4, <4>5 DEF RunWrites
    <3> QED BY <3>1, <3>2
  <2>6. \A d \in Deploys : Active(d)' => dep'[d].fmt >= code'
    BY <2>1 DEF HasIndex, Active
  <2>7. Ahead'
    <3>1. \A d \in Deploys : Preparing(d)' => Preparing(d) /\ prep'[d] = prep[d] /\ prep[d].fmt \in Formats
      BY <1>1, <1>t, <2>1, RunKeepsPreparations, TypedParts DEF Preparing, CopyChosen
    <3>2. manifests'[Legacy].fmt > code => manifests'[manifests'[Legacy].fmt].built # NoFamily
      <4>1. CASE manifests'[Legacy] = manifests[Legacy] /\ manifests[Legacy].fmt > code
        <5>1. manifests[Legacy].fmt \in Formats
          BY <1>t, <4>1, Keys DEF Published, Manifest
        <5> QED BY <1>t, <2>3, <4>1, <5>1, Keys DEF HasIndex, Ahead
      <4>2. CASE manifests'[Legacy] # manifests[Legacy]
        <5>1. manifests'[Legacy].fmt = co[c].fmt \/ manifests'[Legacy] = manifests[Legacy]
          BY <2>1, Keys DEF RunWrites, PutsAt, Retires
        <5> QED BY <1>t, <4>2, <5>1, Keys DEF HasIndex
      <4> QED BY <4>1, <4>2
    <3> QED BY <1>t, <2>1, <2>3, <3>1, <3>2 DEF HasIndex, Ahead
  <2> QED BY <2>1, <2>2, <2>4, <2>5, <2>6, <2>7 DEF HasIndex
<1>2. ASSUME NEW d \in Deploys, Deploy(d) PROVE HasIndex'
  <2>1. /\ JobWrites(d) /\ JobGoesOn(d) /\ JobKeyed(d) /\ co' = co
        /\ \A e \in Deploys \ {d} : dep'[e] = dep[e] /\ ~Active(e)
        /\ \A e \in Deploys \ {d} : ~Preparing(e)
    BY <1>2, <1>t, JobHasWrites, JobHasMoves, JobAlone DEF Keyed, UnderWay
  <2>2. \A e \in Deploys \ {d} : dep'[e].pc \in {"off", "done", "dead"} /\ ~Active(e)'
    BY <2>1 DEF Active
  <2>3. \A k \in Formats : manifests[k].built # NoFamily => manifests'[k].built # NoFamily
    <3> TAKE k \in Formats
    <3>1. CASE manifests' = manifests
      BY <3>1
    <3>2. CASE PutsAt(dep[d].fmt, dep[d].fmt) \/ PutsAt(dep[d].fmt, Legacy)
      BY <3>2, Keys DEF PutsAt
    <3> QED BY <2>1, <3>1, <3>2 DEF JobWrites
  <2>6. SwitchCode(d) \/ code' = code
    BY <1>2 DEF Deploy, WriteDeployFence, TakeLease, DeployReadRoles, DeployMakeRoom,
       DeployPutKey, DeployReadReplaced, DeployCheckLease, DeployWriteManifest, DeployWriteMirror,
       DeployReleaseLease, DeploySweepRead, DeploySweepReadLease, DeploySweepDrop, DeployDies
  <2>8. code' >= code => Ahead'
    <3>1. \A e \in Deploys : ~Preparing(e)'
      <4>1. dep'[d].pc # "off"
        BY <2>1 DEF JobGoesOn, Early
      <4>2. prep' = prep
        BY <1>2, DeployKeepsPreparations
      <4> QED BY <2>1, <4>1, <4>2 DEF Preparing
    <3>2. manifests'[Legacy].fmt > code => manifests'[manifests'[Legacy].fmt].built # NoFamily
      <4>1. CASE manifests'[Legacy] = manifests[Legacy] /\ manifests[Legacy].fmt > code
        <5>1. manifests[Legacy].fmt \in Formats
          BY <1>t, <4>1, Keys DEF Published, Manifest
        <5> QED BY <1>t, <2>3, <4>1, <5>1, Keys DEF HasIndex, Ahead
      <4>2. CASE manifests'[Legacy] # manifests[Legacy]
        <5>1. PutsAt(dep[d].fmt, Legacy)
          BY <2>1, <4>2, Keys DEF JobWrites, PutsAt
        <5> QED BY <5>1, Keys DEF PutsAt
      <4> QED BY <4>1, <4>2
    <3>3. manifests'[Legacy].fmt \in Nat /\ code \in Nat
      <4>1. manifests[Legacy].fmt \in Nat
        BY <1>t, Keys DEF Published, Manifest
      <4> QED BY <1>t, <2>1, <4>1, Keys DEF JobWrites, PutsAt
    <3>4. code' >= code => (manifests'[Legacy].fmt > code' => manifests'[Legacy].fmt > code)
      <4>1. code' \in Nat
        BY <1>t, <2>6, Keys DEF SwitchCode
      <4> QED BY <3>3, <4>1
    <3> QED BY <3>1, <3>2, <3>4 DEF Ahead
  <2>4. CASE dep'[d].pc \in DeployPcs \ {"off", "done"} /\ code' = code
    <3>1. dep'[d].pc # "dead" => dep'[d].fmt >= code
      BY <2>1, <2>4 DEF JobGoesOn, JobKeeps, HasIndex, Ahead, Active, Early
    <3>2. dep'[d].pc \in FromMirror => manifests'[dep'[d].fmt].built # NoFamily
      <4> HAVE dep'[d].pc \in FromMirror
      <4>1. CASE dep[d].pc = "commit"
        <5>1. DeployWriteManifest(d) /\ JobKeeps(d) /\ dep[d].fmt \in Formats /\ dep[d].built # NoFamily
          BY <1>t, <2>1, <4>1 DEF JobGoesOn, Early, FromMirror, FormatChosen, Safe, WritersExclude, DeployExcludes, Excluded,
             Holding
        <5>2. manifests'[dep[d].fmt] = DeployManifest(d)
          BY <1>t, <5>1, Keys DEF DeployWriteManifest, Published
        <5>3. manifests'[dep[d].fmt].built # NoFamily
          BY <5>1, <5>2 DEF DeployManifest, NextManifest
        <5> QED BY <5>1, <5>3 DEF JobKeeps
      <4>2. CASE dep[d].pc # "commit"
        <5>1. dep[d].pc \in FromMirror \ {"switch"} /\ JobKeeps(d)
          BY <2>1, <4>2 DEF JobGoesOn, Early, FromMirror
        <5>2. dep[d].fmt \in Formats /\ manifests[dep[d].fmt].built # NoFamily
          BY <1>t, <5>1 DEF FormatChosen, HasIndex, FromMirror
        <5> QED BY <2>3, <5>1, <5>2 DEF JobKeeps
      <4> QED BY <4>1, <4>2
    <3>3. \/ manifests'[code].built # NoFamily
          \/ manifests'[Legacy].fmt = code /\ \A e \in Coordinators : co'[e].fmt \in {0, code}
      <4>1. CASE manifests[code].built # NoFamily
        BY <1>t, <2>3, <4>1
      <4>2. CASE manifests[code].built = NoFamily
        <5>1. manifests[Legacy].fmt = code /\ \A e \in Coordinators : co[e].fmt \in {0, code}
          BY <4>2 DEF HasIndex
        <5>2. CASE manifests'[Legacy] = manifests[Legacy]
          BY <2>1, <5>1, <5>2
        <5>3. CASE dep[d].pc = "mirror" /\ PutsAt(dep[d].fmt, Legacy)
          <6>1. dep[d].fmt = code
            BY <1>t, <2>1, <5>1, <5>3, Keys DEF JobKeyed
          <6> QED BY <4>2, <5>3, <6>1 DEF PutsAt
        <5>4. CASE PutsAt(dep[d].fmt, dep[d].fmt)
          <6>1. manifests'[Legacy] = manifests[Legacy]
            BY <5>4, Keys DEF PutsAt
          <6> QED BY <5>2, <6>1
        <5> QED BY <2>1, <5>2, <5>3, <5>4 DEF JobWrites
      <4> QED BY <4>1, <4>2
    <3>4. Ahead' /\ (\A e \in Deploys \ {d} : dep'[e].pc \notin FromMirror)
      BY <1>t, <2>2, <2>4, <2>8, Keys DEF FromMirror
    <3> QED BY <2>1, <2>2, <2>4, <3>1, <3>2, <3>3, <3>4 DEF HasIndex, Active
  <2>5. CASE SwitchCode(d)
    <3>1. dep[d].pc = "switch" /\ code' = dep[d].fmt /\ manifests' = manifests /\ Job(d, "done")
      BY <2>5 DEF SwitchCode, kvVars
    <3>2. dep'[d].pc = "done"
      BY <1>t, <3>1, StepOf DEF DeployPcs
    <3>3. dep[d].fmt >= code /\ manifests[dep[d].fmt].built # NoFamily
      BY <3>1 DEF HasIndex, Active, FromMirror
    <3>4. \A e \in Coordinators : co[e].fmt <= dep[d].fmt
      BY <1>t, <3>3, Keys DEF HasIndex
    <3> QED BY <2>1, <2>2, <2>8, <3>1, <3>2, <3>3, <3>4 DEF HasIndex, Active, FromMirror
  <2>7. SwitchCode(d) \/ dep'[d].pc \in DeployPcs \ {"off", "done"}
    BY <2>1 DEF JobGoesOn, Early, DeployPcs
  <2> QED BY <2>4, <2>5, <2>6, <2>7
<1>3. CASE Failover \/ LeaseExpires \/ UNCHANGED vars
  <2>1. UNCHANGED <<manifests, co, dep, code, prep>>
    BY <1>3, ElsewhereQuiet
  <2> QED BY <2>1 DEF HasIndex, Active, Ahead, Preparing
<1> QED BY <1>1, <1>2, <1>3, PrepareKeepsIndex DEF Next

LEMMA IndexInit ==
    ASSUME ~EmptyStart
    PROVE  Init => HasIndex
<1> SUFFICES ASSUME Init PROVE HasIndex
  OBVIOUS
<1>1. PICK keys \in {{Legacy}, {Legacy, code}} :
        manifests = [k \in ManifestKeys |->
              IF k \in keys /\ ~EmptyStart THEN [built |-> 2, fmt |-> code, prev |-> 1] ELSE NoManifest]
  BY DEF Init
<1>2. manifests[Legacy].fmt = code
  BY <1>1, Keys
<1>3. /\ \A c \in Coordinators : co[c].fmt = 0
      /\ \A d \in Deploys : dep[d].pc = "off"
      /\ \A d \in Deploys : prep[d].pc = "off"
      /\ code \in Formats
  BY DEF Init, IdleRun, NotStarted, Unprepared
<1> QED BY <1>2, <1>3, Keys DEF HasIndex, Active, Ahead, Preparing, FromMirror

\* From a live store on, no upload, retirement, sweep, failover, kill or deploy
\* ever leaves the deployed Worker without a manifest of its own format, as
\* long as no deploy takes the format back.
THEOREM CodeHasIndex ==
    ASSUME Prompt, SerialDeploys, ~FenceReadsFail, ~Downgrades, ~EmptyStart
    PROVE  Spec => []DeployedCodeHasIndex
<1>1. HasIndex => DeployedCodeHasIndex
  BY DEF HasIndex, DeployedCodeHasIndex
<1> QED BY <1>1, SafeInit, SafeStep, KeyedInit, KeyedStep, IndexInit, IndexStep, PTL DEF Spec

-----------------------------------------------------------------------------
(***************************************************************************)
(* From a store under its format's own key, no deploy ever copies the      *)
(* mirror, so no publish is lost.                                          *)
(***************************************************************************)
CopiesNothing ==
    /\ MirrorBacked /\ NoCopy
    /\ \A d \in Deploys : prep[d].pc = "legacy" => manifests[prep[d].fmt].built = NoFamily /\ prep[d].fmt > code

LEMMA CopiesNothingStep ==
    ASSUME Prompt, SerialDeploys, ~FenceReadsFail, ~Downgrades
    PROVE  Safe /\ Keyed /\ HasIndex /\ CopiesNothing /\ [Next]_vars => CopiesNothing'
<1> SUFFICES ASSUME Safe, Keyed, HasIndex, CopiesNothing, [Next]_vars PROVE CopiesNothing'
  OBVIOUS
<1>t. /\ Typed /\ manifests \in Published /\ code \in Formats /\ prep \in [Deploys -> Preparations]
      /\ \A c \in Coordinators : co[c].fmt <= code /\ co[c].fmt \in Nat
      /\ \A d \in Deploys : prep[d].pc # "off" => prep[d].fmt \in Formats
  BY TypedParts, FormatsAssumption DEF Safe, Runs, Formats, CopyChosen, HasIndex
<1>0. MirrorBacked'
  BY BackedStep DEF CopiesNothing
<1>1. ASSUME NEW c \in Coordinators, Run(c) PROVE CopiesNothing'
  <2>1. prep' = prep /\ code' = code /\ RunWrites(c)
    BY <1>1, RunKeepsPreparations, RunFormats, RunHasWrites
  <2>2. ASSUME NEW d \in Deploys, prep[d].pc = "legacy"
        PROVE  manifests'[prep[d].fmt].built = NoFamily
    <3>1. prep[d].fmt \in Formats /\ prep[d].fmt > code /\ manifests[prep[d].fmt].built = NoFamily
      BY <1>t, <2>2 DEF CopiesNothing
    <3>2. prep[d].fmt # co[c].fmt /\ prep[d].fmt # Legacy
      BY <1>t, <3>1, Keys
    <3>3. NoManifest.built = NoFamily
      BY DEF NoManifest
    <3> QED BY <2>1, <3>1, <3>2, <3>3, Keys DEF RunWrites, PutsAt, Retires
  <2> QED BY <1>0, <2>1, <2>2 DEF CopiesNothing, NoCopy
<1>2. ASSUME NEW d \in Deploys, Deploy(d) PROVE CopiesNothing'
  <2>1. prep' = prep /\ prep[d].pc = "ready" /\ \A e \in Deploys \ {d} : ~Preparing(e) /\ ~UnderWay(e)
    BY <1>2, DeployKeepsPreparations, DeployUnderWay, JobAlone DEF Safe, WritersExclude, UnderWay
  <2>2. \A e \in Deploys : prep[e].pc # "legacy"
    <3>1. \A e \in Deploys : prep[e].pc = "legacy" => dep[e].pc = "off"
      BY DEF Safe, WritersExclude, PreparedFirst
    <3> QED BY <2>1, <3>1 DEF Preparing
  <2> QED BY <1>0, <2>1, <2>2 DEF CopiesNothing, NoCopy
<1>3. ASSUME NEW d \in Deploys, Prepare(d) PROVE CopiesNothing'
  <2>1. /\ dep[d].pc = "off" /\ manifests' = manifests
        /\ \A e \in Deploys \ {d} : ~UnderWay(e) /\ prep'[e] = prep[e]
    BY <1>3, PrepareUnderWay, PrepareQuiet DEF CopiesNothing, NoCopy, EnsureCopy
  <2>2. \A e \in Deploys \ {d} : prep'[e].pc \notin {"legacy", "copy"}
    <3>1. \A e \in Deploys \ {d} : prep[e].pc = "legacy" => dep[e].pc = "off"
      BY DEF Safe, WritersExclude, PreparedFirst
    <3> QED BY <2>1, <3>1 DEF UnderWay, Preparing, CopiesNothing, NoCopy
  <2>3. manifests[code].built # NoFamily
    BY <1>t DEF HasIndex, CopiesNothing, MirrorBacked
  <2>4. CASE prep'[d].pc \in {"legacy", "copy"}
    <3>1. EnsureReadOwn(d) \/ EnsureReadLegacy(d)
      <4>1. ~(\/ BeginDeploy(d) \/ PruneReadManifests(d) \/ PruneReadLease(d) \/ PruneDrop(d)
              \/ SkipImport(d) \/ PreparationDies(d))
        <5>1. BeginDeploy(d) => prep'[d].pc = "roles"
          <6> SUFFICES ASSUME BeginDeploy(d) PROVE prep'[d].pc = "roles"
            OBVIOUS
          <6>1. PICK f \in Formats, skips \in BOOLEAN :
                   prep' = [prep EXCEPT ![d].pc = "roles", ![d].fmt = f, ![d].skips = skips]
            BY DEF BeginDeploy
          <6>2. prep'[d] = [prep[d] EXCEPT !.pc = "roles", !.fmt = f, !.skips = skips]
            BY <1>t, <6>1
          <6> QED BY <1>t, <6>2 DEF Preparations
        <5>2. PruneReadManifests(d) \/ PruneReadLease(d) \/ PruneDrop(d) => prep'[d].pc \in {"lease", "drop", "own"}
          BY <1>t DEF PruneReadManifests, PruneReadLease, PruneDrop, PruneOver, Preparations
        <5>3. SkipImport(d) \/ PreparationDies(d) => prep'[d].pc = "over"
          BY <1>t DEF SkipImport, PreparationDies, Preparations
        <5> QED BY <2>4, <5>1, <5>2, <5>3
      <4> QED BY <1>3, <4>1 DEF Prepare, EnsureCopy, CopiesNothing, NoCopy
    <3>2. prep[d].fmt \in Formats /\ Preparing(d)
      BY <1>t, <2>1, <3>1 DEF EnsureReadOwn, EnsureReadLegacy, Preparing
    <3>3. CASE EnsureReadOwn(d)
      <4>1. ~Prepared(d)
        BY <1>t, <2>4 DEF Prepared, Preparations
      <4>2. manifests[prep[d].fmt].built = NoFamily /\ prep' = [prep EXCEPT ![d].pc = "legacy"] /\ code' = code
        BY <3>3, <4>1 DEF EnsureReadOwn
      <4>3. prep'[d].pc = "legacy" /\ prep'[d].fmt = prep[d].fmt
        BY <1>t, <4>2 DEF Preparations
      <4>4. prep[d].fmt > code
        <5>1. prep[d].fmt >= code /\ prep[d].fmt # code
          BY <2>3, <3>2, <4>2 DEF HasIndex, Ahead
        <5> QED BY <1>t, <3>2, <5>1, Keys
      <4> QED BY <1>0, <2>1, <2>2, <4>2, <4>3, <4>4 DEF CopiesNothing, NoCopy
    <3>4. CASE EnsureReadLegacy(d)
      <4>1. manifests[prep[d].fmt].built = NoFamily
        BY <3>4 DEF EnsureReadLegacy, CopiesNothing
      <4>2. manifests[Legacy].fmt # prep[d].fmt
        BY <3>2, <4>1 DEF CopiesNothing, MirrorBacked
      <4>3. Prepared(d)
        BY <3>4, <4>2 DEF EnsureReadLegacy
      <4>4. prep'[d].pc = "ready"
        BY <1>t, <4>3 DEF Prepared, Preparations
      <4> QED BY <2>4, <4>4
    <3> QED BY <3>1, <3>3, <3>4
  <2>5. CASE prep'[d].pc \notin {"legacy", "copy"}
    BY <1>0, <2>2, <2>5 DEF CopiesNothing, NoCopy
  <2> QED BY <2>4, <2>5
<1>4. CASE Failover \/ LeaseExpires \/ UNCHANGED vars
  <2>1. UNCHANGED <<manifests, code, prep>>
    BY <1>4, ElsewhereQuiet
  <2> QED BY <1>0, <2>1 DEF CopiesNothing, NoCopy
<1> QED BY <1>1, <1>2, <1>3, <1>4 DEF Next

LEMMA CopiesNothingInit == Init /\ MirrorBacked => CopiesNothing
BY DEF Init, CopiesNothing, NoCopy, Unprepared

\* From a store that has its format's own key on, no publish is lost, whatever
\* formats the deploys bring, as long as none takes the format back and no read
\* fails: between a publisher's look at the manifest it replaces and its put,
\* nobody else writes the key.
THEOREM NoPublishLostFromOwnKey ==
    ASSUME Prompt, SerialDeploys, ~FenceReadsFail, ~CleanupFails, ~Downgrades, ~EmptyStart
    PROVE  Spec /\ MirrorBacked => NoLostPublish
<1>1. Safe /\ NoCopy /\ PublishersSaw /\ [Next]_vars => [NothingLost]_vars
  BY NothingLostStep
<1>2. CopiesNothing => NoCopy /\ MirrorLeads
  BY BackedLeads DEF CopiesNothing
<1>3. NothingLost =>
        \A f \in Formats :
          LET old == manifests[f]
              new == manifests'[f]
          IN  \/ new.built \in {old.built, NoFamily} \/ old.built = NoFamily
              \/ new.prev = old.built
              \/ old.prev = new.built /\ \E d \in Deploys : EnsureCopy(d)
  BY DEF NothingLost
<1> QED BY <1>1, <1>2, <1>3, SafeInit, SafeStep, KeyedInit, KeyedStep, IndexInit, IndexStep,
           CopiesNothingInit, CopiesNothingStep, SeesInit, SeesStep, PTL
        DEF Spec, NoLostPublish

-----------------------------------------------------------------------------
(***************************************************************************)
(* A sweep spares the family the lease names.  A run sweeps under its own  *)
(* lease or having read whose it is; a deploy makes room under its own.    *)
(***************************************************************************)
HolderNamed == \A c \in Coordinators : slice[c].pc \in {"claimed", "sweep"} => lease.built = co[c].built

\* A claim has taken its lease and then read the roles.
LEMMA ClaimGoes ==
    ASSUME Typed, NEW c \in Coordinators, Run(c), slice'[c].pc \in {"claimed", "sweep"}
    PROVE  PutLease(c) \/ ReadRoles(c)
<1>t. co[c] \in Runs /\ FitsPhase(c)
  BY TypedParts
<1>1. CASE MakeRoom(c)
  <2>1. slice'[c].pc \in {"rest", "filter"}
    BY <1>t, <1>1, TypedParts, RestGoes, RestType DEF MakeRoom, EndFailed, Slices
  <2> QED BY <2>1
<1>2. CASE SweepRead(c)
  <2>1. slice'[c].pc = "drop"
    BY <1>t, <1>2, TypedParts DEF SweepRead, Slices
  <2> QED BY <2>1
<1>3. ASSUME NEW pc \in SlicePcs \ {"claimed", "sweep"}, Goto(c, pc) PROVE FALSE
  BY <1>t, <1>3, GotoKeeps
<1>4. CASE ReadReplaced(c) /\ WritePasses(c) /\ UNCHANGED <<co, waits>>
  <2>1. ~\E m \in ReplacedRead(co[c].fmt) : slice' = [slice EXCEPT ![c].pc = "check", ![c].replaced = m]
    <3> SUFFICES ASSUME NEW m, slice' = [slice EXCEPT ![c].pc = "check", ![c].replaced = m] PROVE FALSE
      OBVIOUS
    <3>1. slice'[c].pc = "check"
      BY <1>t, TypedParts DEF Slices
    <3> QED BY <3>1
  <2>2. BeginRetire(c)
    BY <1>4, <2>1 DEF ReadReplaced
  <2>3. slice'[c].pc = "rest"
    BY <1>t, <2>2, RestGoes DEF BeginRetire
  <2> QED BY <2>3
<1>5. CASE RenewLease(c) \/ WriteManifest(c) \/ WriteMirror(c) \/ ReleaseLease(c)
  BY <1>3, <1>5 DEF RenewLease, WriteManifest, WriteMirror, ReleaseLease, SlicePcs
<1>6. CASE slice'[c].pc = "rest"
  BY <1>6
<1>7. ~(\/ Goto(c, "claim") \/ Goto(c, "renew") \/ Goto(c, "put") \/ Goto(c, "fence") \/ Goto(c, "commit"))
  BY <1>3 DEF SlicePcs
<1> QED BY <1>t, <1>1, <1>2, <1>4, <1>5, <1>6, <1>7, AlarmGoes

LEMMA HolderStep ==
    ASSUME Prompt, ~FenceReadsFail
    PROVE  Safe /\ HolderNamed /\ [Next]_vars => HolderNamed'
<1> SUFFICES ASSUME Safe, HolderNamed, [Next]_vars, NEW c \in Coordinators, slice'[c].pc \in {"claimed", "sweep"}
             PROVE  lease'.built = co'[c].built
  BY DEF HolderNamed
<1>t. Typed /\ co[c] \in Runs /\ FitsPhase(c) /\ c \in Nat
  BY TypedParts, Apart DEF Safe
<1>1. CASE Run(c)
  <2>1. PutLease(c) \/ ReadRoles(c)
    BY <1>1, <1>t, ClaimGoes
  <2>2. CASE PutLease(c)
    BY <2>2 DEF PutLease, MyLease
  <2>3. CASE ReadRoles(c)
    BY <2>3 DEF ReadRoles, HolderNamed
  <2> QED BY <2>1, <2>2, <2>3
<1>2. ASSUME NEW e \in Coordinators \ {c}, Run(e) PROVE lease'.built = co'[c].built
  <2>1. RunEffect(e)
    BY <1>2, <1>t, RunHasEffect DEF Safe, WritersExclude, RunsReady
  <2>2. slice'[c] = slice[c] /\ co'[c] = co[c]
    BY <2>1 DEF RunEffect, OthersKept
  <2>3. ~Resting(c) /\ lease.built = co[c].built /\ co[c].built # NoFamily
    BY <1>t, <2>2 DEF Resting, HolderNamed, FitsPhase
  <2>4. Resting(e) /\ lease.built # co[e].built
    BY <2>3, OneMidAlarm DEF Safe, WritersExclude, BuildsDistinct
  <2>5. lease' = lease
    BY <2>1, <2>4 DEF RunEffect, LeaseMoves
  <2> QED BY <2>2, <2>3, <2>5
<1>3. ASSUME NEW d \in Deploys, Deploy(d) PROVE lease'.built = co'[c].built
  <2>1. co' = co /\ slice' = slice
    BY <1>3, JobAlone
  <2>2. ~Resting(c) /\ lease.built = co[c].built
    BY <2>1 DEF Resting, HolderNamed
  <2>3. dep[d].pc \notin Holding /\ ~(dep[d].pc = "settle" /\ LongMayEnd(d))
    BY <2>2 DEF Safe, WritersExclude, DeployExcludes, Excluded, LongMayEnd
  <2>4. lease' = lease
    BY <1>3, <2>3 DEF Deploy, WriteDeployFence, TakeLease, DeployReadRoles, DeployMakeRoom,
       DeployPutKey, DeployReadReplaced, DeployCheckLease, DeployWriteManifest, DeployWriteMirror,
       DeployReleaseLease, DeploySweepRead, DeploySweepReadLease, DeploySweepDrop, SwitchCode, DeployDies, Holding, kvVars
  <2> QED BY <2>1, <2>2, <2>4
<1>4. CASE Failover \/ UNCHANGED vars
  BY <1>4 DEF Failover, vars, kvVars, HolderNamed
<1>5. CASE LeaseExpires
  <2>1. co' = co /\ slice' = slice
    BY <1>5, ElsewhereQuiet
  <2>2. Holds(c)
    BY <1>t, <2>1 DEF HolderNamed, Holds, FitsPhase, Working
  <2> QED BY <1>5, <2>2 DEF LeaseExpires
<1>6. ASSUME NEW d \in Deploys, Prepare(d) PROVE lease'.built = co'[c].built
  <2>1. UNCHANGED <<lease, co, slice>>
    BY <1>6, PrepareQuiet
  <2> QED BY <2>1 DEF HolderNamed
<1> QED BY <1>1, <1>2, <1>3, <1>4, <1>5, <1>6 DEF Next

LEMMA HolderInit == Init => HolderNamed
BY DEF Init, HolderNamed, AtRest

\* The steps that take keys away.
LEMMA RunsDrop ==
    ASSUME Typed, NEW c \in Coordinators, Run(c)
    PROVE  (\A f \in Families : kv[f] \subseteq kv'[f]) \/ MakeRoom(c) \/ SweepDrop(c)
<1>1. ASSUME NEW b, NEW k, kv' = [kv EXCEPT ![b] = @ \cup {k}] PROVE \A f \in Families : kv[f] \subseteq kv'[f]
  BY <1>1, TypedParts DEF Store
<1>2. CASE PutFilter(c) \/ PutChunk(c)
  BY <1>1, <1>2 DEF PutFilter, PutChunk
<1>3. CASE kv' = kv
  BY <1>3
<1> QED BY <1>2, <1>3 DEF Run, Slice, StartImport, Retire, RetirePurged, FailRun, KillSlice, StampBuild, ClaimLease,
   PutLease, ReadRoles, RenewFence, RenewLease, ChunkFence, ReadReplaced, CheckChunks, CommitFence,
   WriteManifest, WriteMirror, ReleaseLease, SweepRead, FinishRun, kvVars

LEMMA JobsDrop ==
    ASSUME Typed, NEW d \in Deploys, Deploy(d)
    PROVE  (\A f \in Families : kv[f] \subseteq kv'[f]) \/ DeployMakeRoom(d) \/ DeploySweepDrop(d)
<1>1. CASE DeployPutKey(d)
  BY <1>1, TypedParts DEF DeployPutKey, Store
<1>2. CASE kv' = kv
  BY <1>2
<1> QED BY <1>1, <1>2 DEF Deploy, WriteDeployFence, TakeLease, DeployReadRoles,
   DeployReadReplaced, DeployCheckLease, DeployWriteManifest, DeployWriteMirror,
   DeployReleaseLease, DeploySweepRead, DeploySweepReadLease, SwitchCode, DeployDies, kvVars

HolderSpared ==
    \A f \in Families :
        \/ kv[f] \subseteq kv'[f]
        \/ lease.built # f
        \/ \E d \in Deploys : PruneDrop(d) /\ f \notin LiveFamilies(prep[d].seen) \cup {prep[d].holder}
        \/ \E d \in Deploys : DeploySweepDrop(d) /\ f \notin LiveFamilies(dep[d].seen) \cup {dep[d].inFlight}

\* A plan spares what its sweep has seen: the live families and the one in flight.
LEMMA PlanSparesSeen ==
    ASSUME NEW pub, NEW b, NEW guard, NEW f \in Families,
           f \in LiveFamilies(pub) \/ f = b,
           kv' = WithoutFamilies(kv, PlanRetention(kv, pub, b, guard).retire)
    PROVE  kv'[f] = kv[f]
<1> DEFINE retire == PlanRetention(kv, pub, b, guard).retire
<1>1. retire \cap LiveFamilies(pub) = {} /\ (b # NoFamily => b \notin retire)
  BY PlanSparesRoles
<1>2. f # NoFamily
  BY DEF Families, NoFamily
<1> HIDE DEF retire
<1>3. \A x \in Families \ retire : kv'[x] = kv[x]
  BY DEF WithoutFamilies, retire
<1> QED BY <1>1, <1>2, <1>3

LEMMA FlightIsSeen ==
    ASSUME NEW b, NEW pub
    PROVE  b \in LiveFamilies(pub) \/ InFlight(b, pub) = b
BY DEF InFlight

LEMMA HolderSparedStep ==
    ASSUME Prompt, ~FenceReadsFail
    PROVE  Safe /\ HolderNamed /\ [Next]_vars => [HolderSpared]_vars
<1> SUFFICES ASSUME Safe, HolderNamed, Next, NEW f \in Families, lease.built = f
             PROVE  \/ kv[f] \subseteq kv'[f]
                    \/ \E d \in Deploys : /\ PruneDrop(d)
                                           /\ f \notin LiveFamilies(prep[d].seen) \cup {prep[d].holder}
                    \/ \E d \in Deploys : /\ DeploySweepDrop(d)
                                           /\ f \notin LiveFamilies(dep[d].seen) \cup {dep[d].inFlight}
  BY DEF HolderSpared
<1>t. Typed
  BY DEF Safe
<1>2. ASSUME NEW c \in Coordinators, Run(c) PROVE kv[f] \subseteq kv'[f]
  <2>1. CASE MakeRoom(c)
    <3>1. f = co[c].built
      BY <2>1 DEF MakeRoom, HolderNamed
    <3> QED BY <2>1, <3>1, PlanSparesSeen DEF MakeRoom, ClaimPlan
  <2>2. CASE SweepDrop(c)
    BY <2>2, PlanSparesSeen, FlightIsSeen DEF SweepDrop
  <2> QED BY <1>t, <1>2, <2>1, <2>2, RunsDrop
<1>3. ASSUME NEW d \in Deploys, Deploy(d)
      PROVE  kv[f] \subseteq kv'[f] \/ (DeploySweepDrop(d) /\ f \notin LiveFamilies(dep[d].seen) \cup {dep[d].inFlight})
  <2>1. CASE DeployMakeRoom(d)
    <3>1. f = dep[d].built
      BY <2>1 DEF DeployMakeRoom, Safe, WritersExclude, DeployExcludes, Excluded, Holding
    <3> QED BY <2>1, <3>1, PlanSparesSeen DEF DeployMakeRoom, DeployPlan
  <2>2. CASE DeploySweepDrop(d)
    BY <2>2, PlanSparesSeen DEF DeploySweepDrop
  <2> QED BY <1>t, <1>3, <2>1, <2>2, JobsDrop
<1>4. ASSUME NEW d \in Deploys, Prepare(d)
      PROVE  kv[f] \subseteq kv'[f] \/ (PruneDrop(d) /\ f \notin LiveFamilies(prep[d].seen) \cup {prep[d].holder})
  <2>1. CASE PruneDrop(d)
    BY <2>1, PlanSparesSeen, FlightIsSeen DEF PruneDrop, PrunePlan
  <2> QED BY <1>4, <2>1, PrepareQuiet
<1>5. CASE Failover \/ LeaseExpires
  BY <1>5, ElsewhereQuiet
<1> QED BY <1>2, <1>3, <1>4, <1>5 DEF Next

\* No claim, no making of room and no sweep, of a run or a deploy, deletes a key
\* of the family the lease names, whoever took the lease in between; but for a
\* deploy's sweep that neither saw that family live nor, when it read the
\* lease, in flight.
THEOREM HolderStaysWhole ==
    ASSUME Prompt, SerialDeploys, ~FenceReadsFail
    PROVE  Spec => SweepsSpareTheHolder
BY SafeInit, SafeStep, HolderInit, HolderStep, HolderSparedStep, PTL DEF Spec, SweepsSpareTheHolder, HolderSpared

-----------------------------------------------------------------------------
(***************************************************************************)
(* The generation keys stay within the byte guard, and few families are    *)
(* in KV at once.  Whoever puts keys has made room for its whole family,   *)
(* and nobody else has put any since.                                      *)
(***************************************************************************)
Uploading(c) == co[c].phase = "publish" \/ (co[c].phase = "routing" /\ co[c].held)

\* The limit leaves room for the two stores the namespace starts with.
Roomy == 2 * (Chunks + 1) <= KvLimit
Bounded ==
    /\ Roomy => WithinByteGuard
    /\ Cardinality(Present(kv)) <= LatestFormat + 2

\* There is room for the whole of family b next to all the others of a store.
RoomIn(store, b) ==
    /\ Roomy => Bytes(store, Families \ {b}) + Chunks + 1 <= KvLimit
    /\ Cardinality(Present(store) \ {b}) <= LatestFormat + 1
Room(b) == RoomIn(kv, b)
RoomThen(b) == RoomIn(kv', b)

\* Who may still put keys has room for them: a replaced run at rest may not.
UploadsFit ==
    /\ Bounded
    /\ \A c \in Coordinators : Uploading(c) /\ (~Resting(c) \/ ~Superseded(c)) => Room(co[c].built)
    /\ \A d \in Deploys : dep[d].pc = "upload" => Room(dep[d].built)

\* The guard is asked about the size of a store that is live.
AskedOfLive ==
    /\ LiveFamilies(manifests) # {}
    /\ \A c \in Coordinators : slice[c].pc = "sweep" => LiveFamilies(slice[c].seen) # {}
    /\ \A d \in Deploys : dep[d].pc = "drop" => LiveFamilies(dep[d].seen) # {}

LEMMA FewerPresent ==
    ASSUME NEW store \in Store, NEW less \in Store, NEW out, \A f \in Families \ out : less[f] \subseteq store[f]
    PROVE  /\ Cardinality(Present(less) \ out) \in Nat /\ Cardinality(Present(store) \ out) \in Nat
           /\ Cardinality(Present(less) \ out) <= Cardinality(Present(store) \ out)
<1>1. IsFiniteSet(Families)
  BY MaxBuildsAssumption, FS_Interval DEF Families
<1>2. Present(less) \ out \subseteq Present(store) \ out /\ Present(store) \ out \subseteq Families
  BY DEF Present
<1>3. IsFiniteSet(Present(store) \ out)
  BY <1>1, <1>2, FS_Subset
<1> QED BY <1>2, <1>3, FS_Subset, FS_CardinalityType

LEMMA RoomKept ==
    ASSUME kv \in Store, kv' \in Store, NEW b, \A f \in Families \ {b} : kv'[f] \subseteq kv[f], Room(b)
    PROVE  RoomThen(b)
<1>1. Families \ {b} \in SUBSET Families
  OBVIOUS
<1>2. Bytes(kv', Families \ {b}) <= Bytes(kv, Families \ {b})
  BY <1>1, BytesShrink
<1>3. Bytes(kv', Families \ {b}) \in Nat /\ Bytes(kv, Families \ {b}) \in Nat
  BY <1>1, KeysFinite
<1>4. /\ Cardinality(Present(kv') \ {b}) \in Nat /\ Cardinality(Present(kv) \ {b}) \in Nat
      /\ Cardinality(Present(kv') \ {b}) <= Cardinality(Present(kv) \ {b})
  BY FewerPresent
<1> QED BY <1>2, <1>3, <1>4, ChunksAssumption, KvLimitAssumption, FormatsAssumption DEF Room, RoomThen, RoomIn

LEMMA RoomFits ==
    ASSUME kv' \in Store, NEW b \in Families, RoomThen(b)
    PROVE  Bounded'
<1>1. Bytes(kv', Families) = Bytes(kv', Families \ {b}) + Bytes(kv', {b}) /\ Bytes(kv', {b}) <= Chunks + 1
  BY BytesSplit, FamilyBytes
<1>2. Bytes(kv', Families \ {b}) \in Nat /\ Bytes(kv', {b}) \in Nat
  BY KeysFinite
<1>3. Roomy => WithinByteGuard'
  BY <1>1, <1>2, ChunksAssumption, KvLimitAssumption DEF RoomThen, RoomIn, WithinByteGuard
<1>4. Cardinality(Present(kv')) <= LatestFormat + 2 /\ Cardinality(Present(kv')) \in Nat
  <2> DEFINE others == Present(kv') \ {b}
  <2>1. IsFiniteSet(Families) /\ others \subseteq Families
    BY MaxBuildsAssumption, FS_Interval DEF Families, Present
  <2>2. IsFiniteSet(others)
    BY <2>1, FS_Subset
  <2>3. Present(kv') \subseteq others \cup {b}
    OBVIOUS
  <2>4. Cardinality(others) <= LatestFormat + 1
    BY DEF RoomThen, RoomIn
  <2> HIDE DEF others
  <2>5. IsFiniteSet(others \cup {b}) /\ Cardinality(others \cup {b}) <= LatestFormat + 2
    <3>1. Cardinality(others) \in Nat
      BY <2>2, FS_CardinalityType
    <3>2. IsFiniteSet(others \cup {b}) /\ Cardinality(others \cup {b}) <= Cardinality(others) + 1
      BY <2>2, <3>1, FS_AddElement
    <3>3. Cardinality(others \cup {b}) \in Nat
      BY <3>2, FS_CardinalityType
    <3> QED BY <2>4, <3>1, <3>2, <3>3, FormatsAssumption
  <2>6. IsFiniteSet(Present(kv')) /\ Cardinality(Present(kv')) <= Cardinality(others \cup {b})
    BY <2>3, <2>5, FS_Subset
  <2> QED BY <2>5, <2>6, FS_CardinalityType, FormatsAssumption
<1> QED BY <1>3, <1>4 DEF Bounded, Roomy

\* What a plan leaves has room for the family the guard was asked about.
LEMMA RoomMade ==
    ASSUME kv \in Store, NEW pub \in Published, LiveFamilies(pub) # {}, NEW b \in Families,
           NEW incoming \in Nat, incoming >= Chunks + 1,
           PlanRetention(kv, pub, b, incoming).decision # "refuse",
           kv' = WithoutFamilies(kv, PlanRetention(kv, pub, b, incoming).retire)
    PROVE  RoomThen(b)
<1> DEFINE retire == PlanRetention(kv, pub, b, incoming).retire
<1>1. kv' \in Store /\ Bytes(kv', Families) + incoming <= KvLimit
  BY PlanLeavesRoom DEF Families
<1>2. Families \ {b} \in SUBSET Families
  OBVIOUS
<1>3. Bytes(kv', Families \ {b}) <= Bytes(kv', Families)
  BY <1>1, <1>2, BytesShrink
<1>4. Bytes(kv', Families \ {b}) \in Nat /\ Bytes(kv', Families) \in Nat
  BY <1>1, <1>2, KeysFinite
<1>5. Bytes(kv', Families \ {b}) + Chunks + 1 <= KvLimit
  BY <1>1, <1>3, <1>4, ChunksAssumption, KvLimitAssumption
<1>6. Cardinality((Present(kv) \ retire) \ {b}) <= LatestFormat + 1
  BY PlanLeavesFew
<1> HIDE DEF retire
<1>7. Present(kv') = Present(kv) \ retire
  BY DEF Present, WithoutFamilies, retire
<1> QED BY <1>5, <1>6, <1>7 DEF RoomThen, RoomIn

LEMMA ShrinkFits ==
    ASSUME kv \in Store, kv' \in Store, \A f \in Families : kv'[f] \subseteq kv[f], Bounded
    PROVE  Bounded'
<1>1. Bytes(kv', Families) <= Bytes(kv, Families)
  BY BytesShrink
<1>2. Bytes(kv', Families) \in Nat /\ Bytes(kv, Families) \in Nat
  BY KeysFinite
<1>3. /\ Cardinality(Present(kv') \ {}) \in Nat /\ Cardinality(Present(kv) \ {}) \in Nat
      /\ Cardinality(Present(kv') \ {}) <= Cardinality(Present(kv) \ {})
  BY FewerPresent
<1>4. Present(kv') \ {} = Present(kv') /\ Present(kv) \ {} = Present(kv)
  OBVIOUS
<1> QED BY <1>1, <1>2, <1>3, <1>4, KvLimitAssumption, FormatsAssumption DEF Bounded, Roomy, WithinByteGuard

\* The only puts are those of a run uploading, in the middle of its alarm.
LEMMA RunsPut ==
    ASSUME Typed, NEW c \in Coordinators, Run(c)
    PROVE  \/ \A f \in Families : kv'[f] \subseteq kv[f]
           \/ /\ Uploading(c) /\ ~Resting(c) /\ co'[c].built = co[c].built
              /\ \A f \in Families \ {co[c].built} : kv'[f] = kv[f]
<1>t. FitsPhase(c) /\ kv \in Store /\ co \in [Coordinators -> Runs]
  BY TypedParts
<1>1. ASSUME NEW k, kv' = [kv EXCEPT ![co[c].built] = @ \cup {k}]
      PROVE  \A f \in Families \ {co[c].built} : kv'[f] = kv[f]
  BY <1>t, <1>1 DEF Store
<1>2. CASE PutFilter(c)
  <2>1. co'[c].built = co[c].built
    BY <1>t, <1>2 DEF PutFilter, Runs
  <2> QED BY <1>t, <1>1, <1>2, <2>1 DEF PutFilter, FitsPhase, Uploading, Resting
<1>3. CASE PutChunk(c)
  <2>1. co'[c].built = co[c].built
    BY <1>t, <1>3 DEF PutChunk, Runs
  <2> QED BY <1>t, <1>1, <1>3, <2>1 DEF PutChunk, FitsPhase, Uploading, Resting
<1>4. CASE kv' = kv
  BY <1>4
<1>5. CASE MakeRoom(c) \/ SweepDrop(c)
  <2>1. ASSUME NEW fams, kv' = WithoutFamilies(kv, fams) PROVE \A f \in Families : kv'[f] \subseteq kv[f]
    BY <2>1 DEF WithoutFamilies
  <2> QED BY <1>5, <2>1 DEF MakeRoom, SweepDrop
<1> QED BY <1>2, <1>3, <1>4, <1>5 DEF Run, Slice, StartImport, Retire, RetirePurged, FailRun, KillSlice, StampBuild,
   ClaimLease, PutLease, ReadRoles, RenewFence, RenewLease, ChunkFence, ReadReplaced, CheckChunks, CommitFence,
   WriteManifest, WriteMirror, ReleaseLease, SweepRead, FinishRun, kvVars

\* A run comes to upload by making room only.
LEMMA UploadsFrom ==
    ASSUME Typed, NEW c \in Coordinators, Run(c), Uploading(c)'
    PROVE  Uploading(c) \/ MakeRoom(c)
<1>t. FitsPhase(c) /\ co \in [Coordinators -> Runs]
  BY TypedParts
<1>1. ASSUME co'[c].phase \notin {"routing", "publish"} PROVE FALSE
  BY <1>1 DEF Uploading
<1>2. ASSUME NEW p \in RunPhases \ {"routing", "publish"}, co' = [co EXCEPT ![c].phase = p] PROVE FALSE
  BY <1>t, <1>1, <1>2 DEF Runs
<1>3. ~BeginRetire(c) /\ ~EndFailed(c)
  BY <1>2 DEF BeginRetire, EndFailed, RunPhases
<1>4. ~StartImport(c)
  <2>1. [IdleRun EXCEPT !.phase = "build", !.started = fence].phase = "build"
    BY DEF IdleRun
  <2> QED BY <1>t, <1>1, <2>1 DEF StartImport
<1>5. ~StampBuild(c)
  <2> SUFFICES ASSUME StampBuild(c) PROVE FALSE
    OBVIOUS
  <2>1. co'[c].phase = "routing" /\ co'[c].held = co[c].held
    BY <1>t DEF StampBuild, Runs
  <2> QED BY <1>t, <2>1 DEF StampBuild, AtAlarm, FitsPhase, Uploading
<1>6. CASE UNCHANGED co
  BY <1>6 DEF Uploading
<1>7. CASE PutFilter(c) \/ PutChunk(c)
  BY <1>t, <1>7 DEF PutFilter, PutChunk, FitsPhase, Uploading
<1>8. ~RetirePurged(c) /\ ~FinishRun(c) /\ ~SweepDrop(c)
  BY <1>2 DEF RetirePurged, FinishRun, SweepDrop, RunPhases
<1> QED BY <1>3, <1>4, <1>5, <1>6, <1>7, <1>8 DEF Run, Slice, Retire, FailRun, KillSlice, ClaimLease, PutLease, ReadRoles,
   RenewFence, RenewLease, ChunkFence, ReadReplaced, CheckChunks, CommitFence, WriteManifest, WriteMirror,
   ReleaseLease, SweepRead

\* What a claim has read when it makes room.
LEMMA ClaimSees ==
    ASSUME Typed, NEW c \in Coordinators, Run(c), slice'[c].pc = "sweep", ~CleanupFails
    PROVE  slice'[c].seen = manifests'
<1>t. co[c] \in Runs /\ FitsPhase(c)
  BY TypedParts
<1>1. ReadRoles(c)
  BY ClaimGoes, <1>t, TypedParts, GotoKeeps DEF PutLease, SlicePcs
<1>2. PICK r \in Retirements(manifests, co[c].fmt) :
         manifests' = r[1] /\ slice' = [slice EXCEPT ![c].pc = "sweep", ![c].seen = r[2]]
  BY <1>1 DEF ReadRoles
<1>3. r[1] = r[2]
  BY DEF Retirements
<1>4. slice'[c].seen = r[2]
  BY <1>2, TypedParts DEF Slices
<1> QED BY <1>2, <1>3, <1>4

\* What a deploy has read when it makes room.
LEMMA DeploySees ==
    ASSUME Typed, NEW d \in Deploys, Deploy(d), dep'[d].pc = "drop"
    PROVE  dep'[d].seen = manifests
<1>t. dep \in [Deploys -> Jobs] /\ dep[d] \in Jobs
  BY TypedParts
<1>1. ASSUME NEW pc \in DeployPcs \ {"drop"}, Job(d, pc) PROVE FALSE
  BY <1>1, StepOf
<1>2. ASSUME BeginDeployUpload(d) PROVE FALSE
  BY <1>2, UploadBegins
<1>3. ASSUME NEW pc, pc # "drop", dep' = [dep EXCEPT ![d].pc = pc, ![d].seen = NothingPublished] PROVE FALSE
  <2>1. dep'[d].pc = pc
    BY <1>t, <1>3 DEF Jobs
  <2> QED BY <1>3, <2>1
<1>4. CASE DeployReadRoles(d)
  <2>1. dep' = [dep EXCEPT ![d].pc = "drop", ![d].seen = manifests]
    BY <1>2, <1>4 DEF DeployReadRoles
  <2> QED BY <1>t, <2>1 DEF Jobs
<1>5. ~DeployMakeRoom(d)
  BY <1>2, <1>3 DEF DeployMakeRoom
<1>6. ~WriteDeployFence(d)
  <2> SUFFICES ASSUME WriteDeployFence(d) PROVE FALSE
    OBVIOUS
  <2>1. dep' = [dep EXCEPT ![d].pc = "settle", ![d].fmt = prep[d].fmt, ![d].at = fence + 1]
    BY DEF WriteDeployFence
  <2>2. dep'[d].pc = "settle"
    BY <1>t, <2>1 DEF Jobs
  <2> QED BY <2>2
<1>7. ~TakeLease(d)
  <2> SUFFICES ASSUME TakeLease(d) PROVE FALSE
    OBVIOUS
  <2>1. dep'[d].pc = "sweep"
    BY <1>t DEF TakeLease, Jobs
  <2> QED BY <2>1
<1>8. ~DeployPutKey(d)
  <2> SUFFICES ASSUME DeployPutKey(d) PROVE FALSE
    OBVIOUS
  <2>1. dep[d].pc = "upload"
    BY DEF DeployPutKey
  <2>2. dep' = [dep EXCEPT ![d].done = dep[d].done + 1] \/ Job(d, "carry")
    BY DEF DeployPutKey, Job
  <2>3. dep'[d].pc \in {"upload", "carry"}
    BY <2>1, <2>2, <1>t, StepOf DEF Jobs, DeployPcs
  <2> QED BY <2>3
<1>9. ~DeploySweepRead(d)
  <2> DEFINE own == [manifests EXCEPT ![dep[d].fmt] = DeployManifest(d)]
  <2> SUFFICES ASSUME DeploySweepRead(d) PROVE FALSE
    OBVIOUS
  <2>1. dep' = [dep EXCEPT ![d].pc = "lease", ![d].seen = own]
    BY DEF DeploySweepRead
  <2> HIDE DEF own
  <2>2. dep'[d].pc = "lease"
    BY <1>t, <2>1 DEF Jobs
  <2> QED BY <2>2
<1>10. ~DeploySweepReadLease(d)
  <2> DEFINE held == InFlight(lease.built, dep[d].seen)
  <2> SUFFICES ASSUME DeploySweepReadLease(d) PROVE FALSE
    OBVIOUS
  <2>1. dep' = [dep EXCEPT ![d].pc = "purge", ![d].inFlight = held]
    BY DEF DeploySweepReadLease
  <2> HIDE DEF held
  <2>2. dep'[d].pc = "purge"
    BY <1>t, <2>1 DEF Jobs
  <2> QED BY <2>2
<1>11. ~DeployReadReplaced(d) /\ ~DeploySweepDrop(d) /\ ~DeployDies(d)
  <2>1. DeployReadReplaced(d) => dep'[d].pc = "check"
    BY <1>t DEF DeployReadReplaced, Job, Jobs
  <2>2. DeploySweepDrop(d) => dep'[d].pc = "switch"
    BY <1>t DEF DeploySweepDrop, Jobs
  <2>3. DeployDies(d) => dep'[d].pc = "dead"
    BY <1>t DEF DeployDies, Jobs
  <2> QED BY <2>1, <2>2, <2>3
<1>12. ~(\/ DeployCheckLease(d) \/ DeployWriteManifest(d) \/ DeployWriteMirror(d) \/ DeployReleaseLease(d)
        \/ SwitchCode(d))
  BY <1>1 DEF DeployCheckLease, DeployWriteManifest, DeployWriteMirror, DeployReleaseLease, SwitchCode, DeployPcs
<1> QED BY <1>4, <1>5, <1>6, <1>7, <1>8, <1>9, <1>10, <1>11, <1>12 DEF Deploy

LEMMA AskedStep ==
    ASSUME Prompt, SerialDeploys, ~FenceReadsFail, ~CleanupFails
    PROVE  Safe /\ AskedOfLive /\ [Next]_vars => AskedOfLive'
<1> SUFFICES ASSUME Safe, AskedOfLive, [Next]_vars PROVE AskedOfLive'
  OBVIOUS
<1>t. Typed
  BY DEF Safe
<1>1. LiveFamilies(manifests') # {}
  <2>1. CASE \A d \in Deploys : ~Prepare(d)
    BY <2>1, OneThingAtATime DEF AskedOfLive, StaysLive
  <2>2. ASSUME NEW d \in Deploys, Prepare(d) PROVE LiveFamilies(manifests') # {}
    <3>1. CASE manifests' = manifests
      BY <3>1 DEF AskedOfLive
    <3>2. CASE EnsureCopy(d) /\ manifests' # manifests
      <4>1. /\ prep[d].fmt \in ManifestKeys /\ prep[d].copied.built # NoFamily
            /\ manifests' = [manifests EXCEPT ![prep[d].fmt] = prep[d].copied]
        BY <3>2, CopyMoves
      <4>2. manifests'[prep[d].fmt].built # NoFamily
        BY <1>t, <4>1, TypedParts DEF Published
      <4> QED BY <4>1, <4>2 DEF LiveFamilies
    <3> QED BY <2>2, <3>1, <3>2, PrepareQuiet
  <2> QED BY <2>1, <2>2
<1>2. ASSUME NEW c \in Coordinators, slice'[c].pc = "sweep" PROVE LiveFamilies(slice'[c].seen) # {}
  <2>1. CASE slice'[c] = slice[c]
    BY <1>2, <2>1 DEF AskedOfLive
  <2>2. CASE Run(c)
    BY <1>t, <1>1, <1>2, <2>2, ClaimSees
  <2>3. ASSUME NEW e \in Coordinators \ {c}, Run(e) PROVE slice'[c] = slice[c]
    <3>1. RunEffect(e)
      BY <1>t, <2>3, RunHasEffect DEF Safe, WritersExclude, RunsReady
    <3> QED BY <3>1 DEF RunEffect, OthersKept
  <2>4. ASSUME NEW d \in Deploys, Prepare(d) \/ Deploy(d) PROVE slice'[c] = slice[c]
    BY <2>4, JobAlone, PrepareQuiet
  <2>5. CASE Failover \/ LeaseExpires \/ UNCHANGED vars
    BY <2>1, <2>5, ElsewhereQuiet
  <2> QED BY <2>1, <2>2, <2>3, <2>4, <2>5 DEF Next
<1>3. ASSUME NEW d \in Deploys, dep'[d].pc = "drop" PROVE LiveFamilies(dep'[d].seen) # {}
  <2>1. CASE dep'[d] = dep[d]
    BY <1>3, <2>1 DEF AskedOfLive
  <2>2. CASE Deploy(d)
    BY <1>t, <1>3, <2>2, DeploySees DEF AskedOfLive
  <2>3. ASSUME NEW e \in Deploys \ {d}, Deploy(e) PROVE dep'[d] = dep[d]
    BY <2>3, JobAlone
  <2>4. ASSUME NEW e \in Deploys, Prepare(e) PROVE dep'[d] = dep[d]
    BY <2>4, PrepareQuiet
  <2>5. ASSUME NEW c \in Coordinators, Run(c) PROVE dep'[d] = dep[d]
    BY <2>5, RunApart
  <2>6. CASE Failover \/ LeaseExpires \/ UNCHANGED vars
    BY <2>1, <2>6, ElsewhereQuiet
  <2> QED BY <2>1, <2>2, <2>3, <2>4, <2>5, <2>6 DEF Next
<1> QED BY <1>1, <1>2, <1>3 DEF AskedOfLive

\* The guard is asked for at least what a family can come to.
LEMMA IncomingCovers ==
    ASSUME NEW pub \in Published, LiveFamilies(pub) # {}, NEW f \in Formats
    PROVE  /\ RunIncoming(pub, f) \in Nat /\ RunIncoming(pub, f) >= Chunks + 1
           /\ Cardinality(FamilyKeys) \in Nat /\ Cardinality(FamilyKeys) >= Chunks + 1
<1>1. ReplacedManifest(pub, f).built # NoFamily
  BY PrimaryExists DEF ReplacedManifest
<1>2. RunIncoming(pub, f) = (Chunks * 11 + 9) \div 10
  BY <1>1 DEF RunIncoming
<1>3. \A n \in Nat \ {0} : (n * 11 + 9) \div 10 \in Nat /\ (n * 11 + 9) \div 10 >= n + 1
  OBVIOUS
<1> QED BY <1>2, <1>3, FamilySize, ChunksAssumption

\* A run that makes room has it.
LEMMA ClaimFits ==
    ASSUME Safe, AskedOfLive, NEW c \in Coordinators, MakeRoom(c), Uploading(c)'
    PROVE  RoomThen(co[c].built) /\ co'[c].built = co[c].built /\ \A f \in Families : kv'[f] \subseteq kv[f]
<1>t. /\ FitsPhase(c) /\ co \in [Coordinators -> Runs] /\ co[c] \in Runs /\ kv \in Store
      /\ slice[c].seen \in Published
  BY TypedParts DEF Safe, Slices
<1>1. ClaimPlan(c).decision # "refuse" /\ co'[c].built = co[c].built
  <2>1. ~EndFailed(c)
    BY <1>t DEF EndFailed, Uploading, Runs
  <2> QED BY <1>t, <2>1 DEF MakeRoom, Runs
<1>2. co[c].built \in Families /\ co[c].fmt \in Formats /\ LiveFamilies(slice[c].seen) # {}
  BY <1>t DEF MakeRoom, FitsPhase, Families, NoFamily, Runs, AskedOfLive
<1>3. RunIncoming(slice[c].seen, co[c].fmt) \in Nat /\ RunIncoming(slice[c].seen, co[c].fmt) >= Chunks + 1
  BY <1>t, <1>2, IncomingCovers
<1>4. RoomThen(co[c].built) /\ kv' = WithoutFamilies(kv, ClaimPlan(c).retire)
  <2> DEFINE b == co[c].built
  <2>1. RoomThen(b)
    BY <1>t, <1>1, <1>2, <1>3, RoomMade DEF MakeRoom, ClaimPlan
  <2> QED BY <1>1, <2>1 DEF MakeRoom, Room, RoomThen
<1> QED BY <1>1, <1>4 DEF WithoutFamilies

\* A replaced run stays replaced.
LEMMA StaysReplaced ==
    ASSUME Typed, NEW c \in Coordinators, co'[c].started = co[c].started, Superseded(c),
           pointer' = pointer \/ pointer' = pointer + 1, fence' = fence \/ fence' = fence + 1
    PROVE  Superseded(c)'
<1>1. c \in Nat /\ pointer \in Nat /\ fence \in Nat /\ co[c].started \in Nat
  BY TypedParts, Apart DEF Runs
<1> QED BY <1>1 DEF Superseded

\* A run that puts is alone: no other may still put, and no deploy uploads.
LEMMA PutsAlone ==
    ASSUME Safe, NEW c \in Coordinators, Uploading(c), ~Resting(c)
    PROVE  /\ \A e \in Coordinators \ {c} : Uploading(e) => Resting(e) /\ Superseded(e)
           /\ \A d \in Deploys : dep[d].pc # "upload"
<1>1. ASSUME NEW e \in Coordinators \ {c}, Uploading(e), ~Superseded(e) PROVE FALSE
  <2>1. c \in Nat /\ e \in Nat /\ pointer \in Nat /\ ~(pointer > e)
    BY <1>1, Apart, TypedParts DEF Safe, Superseded
  <2>2. CASE c < e
    BY <1>1, <2>2 DEF Safe, WritersExclude, RunsExclude, Ended, Uploading
  <2>3. CASE e < c
    BY <2>1, <2>3 DEF Safe, WritersExclude, RunsExclude, Uploading
  <2> QED BY <2>1, <2>2, <2>3
<1>2. \A e \in Coordinators \ {c} : Resting(e)
  BY OneMidAlarm
<1>3. \A d \in Deploys : dep[d].pc # "upload"
  BY DEF Safe, WritersExclude, DeployExcludes, Excluded, Holding
<1> QED BY <1>1, <1>2, <1>3

\* What the run itself has room for, after its step.
LEMMA RunFits ==
    ASSUME Prompt, ~FenceReadsFail, Safe, AskedOfLive, UploadsFit, NEW c \in Coordinators, Run(c),
           Uploading(c)', ~Resting(c)' \/ ~Superseded(c)'
    PROVE  RoomThen(co[c].built) /\ co'[c].built = co[c].built
<1>t. Typed /\ kv \in Store /\ kv' \in Store
  BY RunTyped, TypedParts DEF Safe, RunsTyped
<1>1. RunEffect(c)
  BY <1>t, RunHasEffect DEF Safe, WritersExclude, RunsReady
<1>2. CASE MakeRoom(c)
  BY <1>2, ClaimFits
<1>3. CASE ~MakeRoom(c)
  <2>1. Uploading(c)
    BY <1>t, <1>3, UploadsFrom
  <2>2. RunGoesOn(c)
    BY <1>1, <2>1 DEF RunEffect, Moves, RunStarts, RunStamped, RunEnds, Ended, Uploading
  <2>3. co'[c].built = co[c].built
    BY <2>2 DEF RunGoesOn, SameBuild
  <2>4. Room(co[c].built)
    BY <2>1, <2>2 DEF RunGoesOn, MayBegin, UploadsFit
  <2>5. \A f \in Families \ {co[c].built} : kv'[f] \subseteq kv[f]
    BY <1>t, RunsPut
  <2>6. RoomThen(co[c].built)
    <3> DEFINE b == co[c].built
    <3>1. RoomThen(b)
      BY <1>t, <2>4, <2>5, RoomKept
    <3> QED BY <2>3, <3>1 DEF Room, RoomThen
  <2> QED BY <2>3, <2>6
<1> QED BY <1>2, <1>3

\* What another run or a deploy has room for, after a run's step.
LEMMA OthersFit ==
    ASSUME Safe, UploadsFit, NEW c \in Coordinators, Run(c), NEW b, Room(b),
           Uploading(c) => Resting(c)
    PROVE  RoomThen(b)
<1>1. kv \in Store /\ kv' \in Store /\ Typed
  BY RunTyped, TypedParts DEF Safe, RunsTyped
<1>2. \A f \in Families : kv'[f] \subseteq kv[f]
  BY <1>1, RunsPut
<1> QED BY <1>1, <1>2, RoomKept

\* The parts of UploadsFit after a step.
LEMMA FitsAfter ==
    ASSUME Bounded',
           \A c \in Coordinators : Uploading(c)' /\ (~Resting(c)' \/ ~Superseded(c)') => RoomThen(co'[c].built),
           \A d \in Deploys : dep'[d].pc = "upload" => RoomThen(dep'[d].built)
    PROVE  UploadsFit'
BY DEF UploadsFit, Room, RoomThen

LEMMA RunFitsStep ==
    ASSUME Prompt, ~FenceReadsFail, Safe, AskedOfLive, UploadsFit, NEW c \in Coordinators, Run(c)
    PROVE  UploadsFit'
<1>t. Typed /\ kv \in Store /\ kv' \in Store /\ FitsPhase(c) /\ co[c] \in Runs
  BY RunTyped, TypedParts DEF Safe, RunsTyped
<1>1. RunEffect(c)
  BY <1>t, RunHasEffect DEF Safe, WritersExclude, RunsReady
<1>2. ASSUME NEW e \in Coordinators, Uploading(e)', ~Resting(e)' \/ ~Superseded(e)'
      PROVE  RoomThen(co[e].built) /\ co'[e].built = co[e].built
  <2>1. CASE e = c
    BY <1>2, <2>1, RunFits
  <2>2. CASE e # c
    <3>1. co'[e] = co[e] /\ slice'[e] = slice[e] /\ pointer' = pointer /\ fence' = fence
      BY <1>1, <2>2 DEF RunEffect, OthersKept
    <3>2. Uploading(e) /\ (~Resting(e) \/ ~Superseded(e))
      BY <1>2, <3>1 DEF Uploading, Resting, Superseded
    <3>3. Room(co[e].built)
      BY <3>2 DEF UploadsFit
    <3>4. Uploading(c) => Resting(c)
      BY <2>2, <3>2, PutsAlone
    <3> DEFINE b == co[e].built
    <3>5. RoomThen(b)
      BY <1>t, <3>3, <3>4, OthersFit
    <3> QED BY <3>1, <3>5 DEF Room, RoomThen
  <2> QED BY <2>1, <2>2
<1>3. ASSUME NEW d \in Deploys, dep'[d].pc = "upload" PROVE RoomThen(dep[d].built) /\ dep'[d].built = dep[d].built
  <2>1. dep' = dep
    BY <1>1 DEF RunEffect, OthersKept
  <2>2. Room(dep[d].built) /\ (Uploading(c) => Resting(c))
    BY <1>3, <2>1, PutsAlone DEF UploadsFit
  <2> DEFINE b == dep[d].built
  <2>3. RoomThen(b)
    BY <1>t, <2>2, OthersFit
  <2> QED BY <2>1, <2>3 DEF Room, RoomThen
<1>4. Bounded'
  <2>1. CASE \A f \in Families : kv'[f] \subseteq kv[f]
    BY <1>t, <2>1, ShrinkFits DEF UploadsFit
  <2>2. CASE /\ Uploading(c) /\ ~Resting(c)
             /\ \A f \in Families \ {co[c].built} : kv'[f] = kv[f]
    <3> DEFINE b == co[c].built
    <3>1. b \in Families /\ Room(b)
      BY <1>t, <2>2 DEF UploadsFit, FitsPhase, Uploading, Families, NoFamily, Runs
    <3>2. RoomThen(b)
      BY <1>t, <2>2, <3>1, RoomKept
    <3> QED BY <1>t, <3>1, <3>2, RoomFits
  <2> QED BY <1>t, <2>1, <2>2, RunsPut
<1>5. /\ \A e \in Coordinators : Uploading(e)' /\ (~Resting(e)' \/ ~Superseded(e)') => RoomThen(co'[e].built)
      /\ \A d \in Deploys : dep'[d].pc = "upload" => RoomThen(dep'[d].built)
  BY <1>2, <1>3
<1> QED BY <1>4, <1>5, FitsAfter

\* A deploy's uploads, and how it comes to them.
LEMMA JobsPut ==
    ASSUME Typed, NEW d \in Deploys, Deploy(d)
    PROVE  \/ \A f \in Families : kv'[f] \subseteq kv[f]
           \/ dep[d].pc = "upload" /\ \A f \in Families \ {dep[d].built} : kv'[f] = kv[f]
<1>t. kv \in Store
  BY TypedParts
<1>1. CASE DeployPutKey(d)
  BY <1>t, <1>1 DEF DeployPutKey, Store
<1>2. CASE kv' = kv
  BY <1>2
<1>3. CASE DeployMakeRoom(d) \/ DeploySweepDrop(d)
  <2>1. ASSUME NEW fams, kv' = WithoutFamilies(kv, fams) PROVE \A f \in Families : kv'[f] \subseteq kv[f]
    BY <2>1 DEF WithoutFamilies
  <2> QED BY <1>3, <2>1 DEF DeployMakeRoom, DeploySweepDrop
<1> QED BY <1>1, <1>2, <1>3 DEF Deploy, WriteDeployFence, TakeLease, DeployReadRoles,
   DeployReadReplaced, DeployCheckLease, DeployWriteManifest, DeployWriteMirror,
   DeployReleaseLease, DeploySweepRead, DeploySweepReadLease, SwitchCode, DeployDies, kvVars

LEMMA UploadFrom ==
    ASSUME Typed, NEW d \in Deploys, Deploy(d), dep'[d].pc = "upload", ~CleanupFails
    PROVE  /\ dep'[d].built = dep[d].built
           /\ dep[d].pc = "upload" \/ (DeployMakeRoom(d) /\ DeployPlan(d).decision # "refuse")
<1>t. dep \in [Deploys -> Jobs] /\ dep[d] \in Jobs
  BY TypedParts
<1>1. ASSUME NEW pc \in DeployPcs \ {"upload"}, Job(d, pc) PROVE FALSE
  BY <1>1, StepOf
<1>2. ASSUME NEW j \in Jobs, dep' = [dep EXCEPT ![d] = j], j.pc # "upload" PROVE FALSE
  BY <1>2, JobFacts
<1>3. CASE DeployPutKey(d)
  <2>1. dep'[d].built = dep[d].built
    BY <1>t, <1>3 DEF DeployPutKey, Jobs
  <2> QED BY <1>3, <2>1 DEF DeployPutKey
<1>4. CASE DeployMakeRoom(d)
  <2>1. CASE dep' = [dep EXCEPT ![d].pc = "dead", ![d].seen = NothingPublished]
    BY <1>t, <2>1 DEF Jobs
  <2>2. CASE DeployPlan(d).decision # "refuse" /\ BeginDeployUpload(d)
    <3>1. dep'[d].built = dep[d].built
      BY <1>t, <2>2 DEF BeginDeployUpload, Jobs
    <3> QED BY <1>4, <2>2, <3>1
  <2> QED BY <1>4, <2>1, <2>2 DEF DeployMakeRoom
<1>5. ~WriteDeployFence(d)
  <2> SUFFICES ASSUME WriteDeployFence(d) PROVE FALSE
    OBVIOUS
  <2>1. dep' = [dep EXCEPT ![d].pc = "settle", ![d].fmt = prep[d].fmt, ![d].at = fence + 1]
    BY DEF WriteDeployFence
  <2>2. dep'[d].pc = "settle"
    BY <1>t, <2>1 DEF Jobs
  <2> QED BY <2>2
<1>6. ~DeploySweepReadLease(d)
  <2> DEFINE held == InFlight(lease.built, dep[d].seen)
  <2> SUFFICES ASSUME DeploySweepReadLease(d) PROVE FALSE
    OBVIOUS
  <2>1. dep' = [dep EXCEPT ![d].pc = "purge", ![d].inFlight = held]
    BY DEF DeploySweepReadLease
  <2> HIDE DEF held
  <2>2. dep'[d].pc = "purge"
    BY <1>t, <2>1 DEF Jobs
  <2> QED BY <2>2
<1>7. ~TakeLease(d)
  <2> SUFFICES ASSUME TakeLease(d) PROVE FALSE
    OBVIOUS
  <2>1. dep'[d].pc = "sweep"
    BY <1>t DEF TakeLease, Jobs
  <2> QED BY <2>1
<1>8. ~DeployReadRoles(d)
  <2> SUFFICES ASSUME DeployReadRoles(d) PROVE FALSE
    OBVIOUS
  <2>1. dep'[d].pc = "drop"
    BY <1>t DEF DeployReadRoles, Jobs
  <2> QED BY <2>1
<1>9. ~DeployReadReplaced(d)
  <2> SUFFICES ASSUME DeployReadReplaced(d) PROVE FALSE
    OBVIOUS
  <2>1. dep'[d].pc = "check"
    BY <1>t DEF DeployReadReplaced, Jobs
  <2> QED BY <2>1
<1>10. ~DeploySweepRead(d) /\ ~DeploySweepDrop(d) /\ ~DeployDies(d)
  <2>1. DeploySweepRead(d) => dep'[d].pc = "lease"
    <3> DEFINE own == [manifests EXCEPT ![dep[d].fmt] = DeployManifest(d)]
    <3> SUFFICES ASSUME DeploySweepRead(d) PROVE dep'[d].pc = "lease"
      OBVIOUS
    <3>1. dep' = [dep EXCEPT ![d].pc = "lease", ![d].seen = own]
      BY DEF DeploySweepRead
    <3> HIDE DEF own
    <3> QED BY <1>t, <3>1 DEF Jobs
  <2>2. DeploySweepDrop(d) => dep'[d].pc = "switch"
    BY <1>t DEF DeploySweepDrop, Jobs
  <2>3. DeployDies(d) => dep'[d].pc = "dead"
    BY <1>t DEF DeployDies, Jobs
  <2> QED BY <2>1, <2>2, <2>3
<1>11. ~(\/ DeployCheckLease(d) \/ DeployWriteManifest(d) \/ DeployWriteMirror(d) \/ DeployReleaseLease(d)
        \/ SwitchCode(d))
  BY <1>1 DEF DeployCheckLease, DeployWriteManifest, DeployWriteMirror, DeployReleaseLease, SwitchCode, DeployPcs
<1> QED BY <1>3, <1>4, <1>5, <1>6, <1>7, <1>8, <1>9, <1>10, <1>11 DEF Deploy

\* While a deploy uploads, no run may still put.
LEMMA UploadsAlone ==
    ASSUME Safe, NEW d \in Deploys, dep[d].pc = "upload", NEW c \in Coordinators, Uploading(c)
    PROVE  Resting(c) /\ Superseded(c)
<1>1. Active(d) /\ dep[d].pc \in Holding \ {"sweep", "drop"}
  BY DEF Active, Holding
<1>2. Resting(c) /\ dep[d].at = fence /\ ~Unfenced(c, d)
  BY <1>1 DEF Safe, WritersExclude, DeployExcludes, Excluded, Ended, Uploading
<1>3. fence \in Nat /\ co[c].started \in Nat
  BY TypedParts DEF Safe, Runs
<1> QED BY <1>2, <1>3 DEF Unfenced, Superseded

LEMMA DeployFitsStep ==
    ASSUME Prompt, SerialDeploys, ~CleanupFails, Safe, AskedOfLive, UploadsFit, NEW d \in Deploys, Deploy(d)
    PROVE  UploadsFit'
<1>t. Typed /\ kv \in Store /\ kv' \in Store /\ dep[d] \in Jobs
  BY DeployTyped, TypedParts DEF Safe, RunsTyped
<1>1. JobEffect(d)
  BY DeployHasEffect
<1>2. ASSUME NEW c \in Coordinators, Uploading(c)', ~Resting(c)' \/ ~Superseded(c)'
      PROVE  RoomThen(co'[c].built)
  <2>1. co' = co /\ slice' = slice /\ pointer' = pointer /\ (fence' = fence \/ fence' = fence + 1)
    BY <1>1 DEF JobEffect, JobFrame
  <2>2. Uploading(c) /\ (~Resting(c) \/ ~Superseded(c))
    <3>1. Uploading(c) /\ (Resting(c) <=> Resting(c)')
      BY <1>2, <2>1 DEF Uploading, Resting
    <3>2. Superseded(c) => Superseded(c)'
      BY <1>t, <2>1, StaysReplaced
    <3> QED BY <1>2, <3>1, <3>2
  <2>3. Room(co[c].built) /\ dep[d].pc # "upload"
    BY <2>2, UploadsAlone DEF UploadsFit
  <2>4. \A f \in Families : kv'[f] \subseteq kv[f]
    BY <1>t, <2>3, JobsPut
  <2>5. RoomThen(co[c].built)
    BY <1>t, <2>3, <2>4, RoomKept
  <2> QED BY <2>1, <2>5
<1>3. ASSUME NEW e \in Deploys, dep'[e].pc = "upload" PROVE RoomThen(dep'[e].built)
  <2>1. CASE e # d
    <3>1. dep'[e] = dep[e] /\ ~Active(e)
      BY <2>1, JobAlone
    <3> QED BY <1>3, <3>1 DEF Active
  <2>2. CASE e = d
    <3>1. /\ dep'[d].built = dep[d].built
          /\ dep[d].pc = "upload" \/ (DeployMakeRoom(d) /\ DeployPlan(d).decision # "refuse")
      BY <1>t, <1>3, <2>2, UploadFrom
    <3>2. CASE dep[d].pc = "upload"
      <4>1. Room(dep[d].built)
        BY <3>2 DEF UploadsFit
      <4>2. \A f \in Families \ {dep[d].built} : kv'[f] \subseteq kv[f]
        BY <1>t, JobsPut
      <4>3. RoomThen(dep[d].built)
        BY <1>t, <4>1, <4>2, RoomKept
      <4> QED BY <2>2, <3>1, <4>3
    <3>3. CASE DeployMakeRoom(d) /\ DeployPlan(d).decision # "refuse"
      <4>1. dep[d].pc = "drop" /\ kv' = WithoutFamilies(kv, DeployPlan(d).retire)
        BY <3>3 DEF DeployMakeRoom
      <4>2. dep[d].built \in Families /\ dep[d].seen \in Published
        BY <1>t, <4>1 DEF Safe, WritersExclude, DeployExcludes, Excluded, Holding, Jobs, Families, NoFamily
      <4>3. LiveFamilies(dep[d].seen) # {}
        BY <4>1 DEF AskedOfLive
      <4>4. Cardinality(FamilyKeys) \in Nat /\ Cardinality(FamilyKeys) >= Chunks + 1
        BY FamilySize, ChunksAssumption
      <4>5. RoomThen(dep[d].built)
        BY <1>t, <3>3, <4>1, <4>2, <4>3, <4>4, RoomMade DEF DeployPlan
      <4> QED BY <2>2, <3>1, <4>5
    <3> QED BY <3>1, <3>2, <3>3
  <2> QED BY <2>1, <2>2
<1>4. Bounded'
  <2>1. CASE \A f \in Families : kv'[f] \subseteq kv[f]
    BY <1>t, <2>1, ShrinkFits DEF UploadsFit
  <2>2. CASE dep[d].pc = "upload" /\ \A f \in Families \ {dep[d].built} : kv'[f] = kv[f]
    <3> DEFINE b == dep[d].built
    <3>1. b \in Families /\ Room(b)
      BY <1>t, <2>2 DEF UploadsFit, Safe, WritersExclude, DeployExcludes, Excluded, Holding, Jobs, Families, NoFamily
    <3>2. RoomThen(b)
      BY <1>t, <2>2, <3>1, RoomKept
    <3> QED BY <1>t, <3>1, <3>2, RoomFits
  <2> QED BY <1>t, <2>1, <2>2, JobsPut
<1> QED BY <1>2, <1>3, <1>4, FitsAfter

LEMMA FitsStep ==
    ASSUME Prompt, SerialDeploys, ~FenceReadsFail, ~CleanupFails
    PROVE  Safe /\ AskedOfLive /\ UploadsFit /\ [Next]_vars => UploadsFit'
<1> SUFFICES ASSUME Safe, AskedOfLive, UploadsFit, [Next]_vars PROVE UploadsFit'
  OBVIOUS
<1>1. CASE \E c \in Coordinators : Run(c)
  BY <1>1, RunFitsStep
<1>2. CASE \E d \in Deploys : Deploy(d)
  BY <1>2, DeployFitsStep
<1>4. ASSUME NEW d \in Deploys, Prepare(d) PROVE UploadsFit'
  <2>1. UNCHANGED <<pointer, fence, co, slice, dep>> /\ (kv' = kv \/ PruneDrop(d))
    BY <1>4, PrepareQuiet
  <2>2. kv \in Store /\ kv' \in Store /\ \A f \in Families : kv'[f] \subseteq kv[f]
    <3>1. kv \in Store
      BY TypedParts DEF Safe
    <3>2. CASE kv' = kv
      BY <3>1, <3>2
    <3>3. ASSUME NEW fams, kv' = WithoutFamilies(kv, fams)
          PROVE  kv' \in Store /\ \A f \in Families : kv'[f] \subseteq kv[f]
      BY <3>1, <3>3 DEF WithoutFamilies, Store
    <3> QED BY <2>1, <3>1, <3>2, <3>3 DEF PruneDrop
  <2>3. ASSUME NEW b, Room(b) PROVE RoomThen(b)
    BY <2>2, <2>3, RoomKept
  <2>4. ASSUME NEW c \in Coordinators, Uploading(c)', ~Resting(c)' \/ ~Superseded(c)'
        PROVE  RoomThen(co'[c].built)
    <3>1. Room(co[c].built) /\ co'[c].built = co[c].built
      BY <2>1, <2>4 DEF Uploading, Resting, Superseded, UploadsFit
    <3> DEFINE b == co[c].built
    <3>2. RoomThen(b)
      BY <2>3, <3>1
    <3> QED BY <3>1, <3>2 DEF RoomThen
  <2>5. ASSUME NEW e \in Deploys, dep'[e].pc = "upload" PROVE RoomThen(dep'[e].built)
    <3>1. Room(dep[e].built) /\ dep'[e].built = dep[e].built
      BY <2>1, <2>5 DEF UploadsFit
    <3> DEFINE b == dep[e].built
    <3>2. RoomThen(b)
      BY <2>3, <3>1
    <3> QED BY <3>1, <3>2 DEF RoomThen
  <2>6. Bounded'
    BY <2>2, ShrinkFits DEF UploadsFit
  <2> QED BY <2>4, <2>5, <2>6, FitsAfter
<1>3. CASE Failover \/ LeaseExpires \/ UNCHANGED vars
  <2>1. UNCHANGED <<kv, fence, co, slice, dep>> /\ (pointer' = pointer \/ pointer' = pointer + 1)
    BY <1>3, ElsewhereQuiet DEF Failover, LeaseExpires, vars
  <2>2. ASSUME NEW c \in Coordinators, Uploading(c)', ~Resting(c)' \/ ~Superseded(c)'
        PROVE  RoomThen(co'[c].built)
    <3>1. Uploading(c) /\ (Resting(c) <=> Resting(c)')
      BY <2>1, <2>2 DEF Uploading, Resting
    <3>2. Superseded(c) => Superseded(c)'
      BY <2>1, StaysReplaced DEF Safe
    <3> QED BY <2>1, <2>2, <3>1, <3>2 DEF UploadsFit, Room, RoomThen
  <2>3. /\ Bounded'
        /\ \A d \in Deploys : dep'[d].pc = "upload" => RoomThen(dep'[d].built)
    BY <2>1 DEF UploadsFit, Room, RoomThen, Bounded, Roomy, WithinByteGuard
  <2> QED BY <2>2, <2>3, FitsAfter
<1> QED BY <1>1, <1>2, <1>3, <1>4 DEF Next

\* Two stores and nobody at work.
LEMMA FitsInit ==
    ASSUME ~EmptyStart
    PROVE  Init => AskedOfLive /\ UploadsFit
<1> SUFFICES ASSUME Init PROVE AskedOfLive /\ UploadsFit
  OBVIOUS
<1>1. LiveFamilies(manifests) # {}
  <2>1. PICK keys \in {{Legacy}, {Legacy, code}} :
          manifests = [k \in ManifestKeys |->
              IF k \in keys /\ ~EmptyStart THEN [built |-> 2, fmt |-> code, prev |-> 1] ELSE NoManifest]
    BY DEF Init
  <2>2. Legacy \in ManifestKeys /\ manifests[Legacy].built = 2
    BY <2>1 DEF ManifestKeys
  <2>3. 2 \in LiveFamilies(manifests)
    BY <2>2 DEF LiveFamilies, NoFamily
  <2> QED BY <2>3
<1>2. AskedOfLive
  BY <1>1 DEF Init, AtRest, NotStarted, AskedOfLive
<1>3. Roomy => WithinByteGuard
  <2> DEFINE built == 1..2
  <2>7. kv = [f \in Families |-> IF f \in built THEN FamilyKeys ELSE {}]
    BY DEF Init
  <2>8. kv \in Store
    BY <2>7 DEF Store
  <2>9. \A f \in Families : f \in built \/ kv[f] = {}
    BY <2>7
  <2>10. KeysOf(kv, Families) \subseteq built \X FamilyKeys
    BY <2>9 DEF KeysOf
  <2>1. kv \in Store /\ KeysOf(kv, Families) \subseteq (1..2) \X FamilyKeys
    BY <2>8, <2>10
  <2>2. IsFiniteSet(1..2) /\ Cardinality(1..2) = 2
    <3>1. \A n \in Nat \ {0} : IsFiniteSet(1..n) /\ Cardinality(1..n) = n
      BY FS_Interval
    <3>2. 2 \in Nat \ {0}
      OBVIOUS
    <3> QED BY <3>1, <3>2, Zenon
  <2>3. IsFiniteSet((1..2) \X FamilyKeys) /\ Cardinality((1..2) \X FamilyKeys) = 2 * (Chunks + 1)
    BY <2>2, FamilySize, FS_Product
  <2>4. Cardinality(KeysOf(kv, Families)) <= Cardinality((1..2) \X FamilyKeys)
    BY <2>1, <2>3, FS_Subset
  <2>5. Families \in SUBSET Families
    OBVIOUS
  <2>6. Bytes(kv, Families) = Cardinality(KeysOf(kv, Families)) /\ Bytes(kv, Families) \in Nat
    BY <2>1, <2>5, KeysFinite
  <2> QED BY <2>3, <2>4, <2>6, ChunksAssumption, KvLimitAssumption DEF WithinByteGuard, Roomy
<1>4. Cardinality(Present(kv)) <= LatestFormat + 2
  <2>1. \A n \in Nat \ {0} : IsFiniteSet(1..n) /\ Cardinality(1..n) = n
    BY FS_Interval
  <2> DEFINE built == 1..2
  <2>2. 2 \in Nat \ {0}
    OBVIOUS
  <2>3. IsFiniteSet(built) /\ Cardinality(built) = 2
    BY <2>1, <2>2, Zenon
  <2>4. kv = [f \in Families |-> IF f \in built THEN FamilyKeys ELSE {}]
    BY DEF Init
  <2> HIDE DEF built
  <2>5. Present(kv) \subseteq built
    BY <2>4 DEF Present
  <2> QED BY <2>3, <2>5, FS_Subset, FS_CardinalityType, FormatsAssumption
<1> QED BY <1>2, <1>3, <1>4 DEF Bounded, Init, IdleRun, NotStarted, UploadsFit, Uploading

\* From a live store on, no history of uploads, kills, failovers and deploys takes
\* the generation keys past the limit, as long as no read or sweep fails.
THEOREM GuardHolds ==
    ASSUME Prompt, SerialDeploys, ~FenceReadsFail, ~CleanupFails, ~EmptyStart, 2 * (Chunks + 1) <= KvLimit
    PROVE  Spec => []WithinByteGuard
<1>1. UploadsFit => WithinByteGuard
  BY DEF UploadsFit, Bounded, Roomy
<1> QED BY <1>1, SafeInit, SafeStep, AskedStep, FitsInit, FitsStep, PTL DEF Spec

\* Nor does KV ever hold more families than there are manifest keys, and one
\* more: the family being uploaded.
THEOREM FamiliesBounded ==
    ASSUME Prompt, SerialDeploys, ~FenceReadsFail, ~CleanupFails, ~EmptyStart
    PROVE  Spec => [](Cardinality(Present(kv)) <= LatestFormat + 2)
<1>1. UploadsFit => Cardinality(Present(kv)) <= LatestFormat + 2
  BY DEF UploadsFit, Bounded
<1> QED BY <1>1, SafeInit, SafeStep, AskedStep, FitsInit, FitsStep, PTL DEF Spec

\* With one archive format that is three: live, rollback and in flight.
THEOREM ThreeFamilies ==
    ASSUME Prompt, SerialDeploys, ~FenceReadsFail, ~CleanupFails, ~EmptyStart, LatestFormat = 1
    PROVE  Spec => []AtMostThreeFamilies
<1>1. Cardinality(Present(kv)) <= LatestFormat + 2 => AtMostThreeFamilies
  BY DEF AtMostThreeFamilies
<1> QED BY <1>1, FamiliesBounded, PTL

=============================================================================
