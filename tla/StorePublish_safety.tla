------------------------ MODULE StorePublish_safety ------------------------
(***************************************************************************)
(* Why no manifest ever names an absent chunk: WritersExclude and          *)
(* ManifestComplete are inductive together, for every number of builds,    *)
(* formats, chunks, coordinators and deploys, and whatever best-effort     *)
(* step fails, once the deploys are serial, a fence can be read, and a     *)
(* short sequence of KV operations ends within a long operation.           *)
(*                                                                         *)
(* A coordinator's step is first summed up (RunEffect) by what the other   *)
(* writers can tell of it; the invariant is then shown to survive every    *)
(* step with that effect, whichever of the actions it was.                 *)
(***************************************************************************)
EXTENDS StorePublish_proofs

Safe == Typed /\ WritersExclude /\ ManifestComplete

-----------------------------------------------------------------------------
(***************************************************************************)
(* What a step of coordinator c is to the others.                          *)
(***************************************************************************)
\* A resting coordinator that goes to work has passed its fence, waited for its
\* build and, before its first key, been granted the lease.
MayBegin(c) ==
    /\ ~Superseded(c)
    /\ co[c].phase = "routing" /\ ~co[c].held => DecideUploadLease(lease, MyLease(c)) = "take"
    /\ co[c].phase = "publish" => waits[c] = {}

RunStarts(c) ==
    /\ Resting(c) /\ c = pointer
    /\ co'[c].phase = "build" /\ co'[c].started = fence /\ co'[c].built = NoFamily
    /\ waits'[c] = (MidSequence \cup Settling) \ {c}
    /\ builds' = builds

SameBuild(c) == co'[c].built = co[c].built /\ co'[c].started = co[c].started /\ builds' = builds

RunStamped(c) ==
    /\ Resting(c) /\ ~Superseded(c) /\ waits[c] = {}
    /\ co[c].phase = "build" /\ co'[c].phase = "routing" /\ ~co'[c].held
    /\ co'[c].built = builds + 1 /\ co'[c].started = co[c].started /\ builds' = builds + 1

RunEnds(c) == co[c].phase # "idle" /\ Ended(c)' /\ SameBuild(c)

RunGoesOn(c) ==
    /\ SameBuild(c)
    /\ co[c].phase \in {"routing", "publish", "manifest"}
    /\ Resting(c) => MayBegin(c) /\ ~Resting(c)'
    /\ Resting(c)' \/ co'[c].phase = co[c].phase
    /\ co[c].phase = "routing" =>
         co'[c].phase = "routing" \/ (co'[c].phase = "publish" /\ waits'[c] = MidSequence \ {c})

Moves(c) ==
    \/ RunStarts(c) /\ Resting(c)'
    \/ RunStamped(c) /\ Resting(c)'
    \/ RunEnds(c) /\ Resting(c)'
    \/ RunGoesOn(c)

OthersKept(c) ==
    /\ UNCHANGED <<pointer, fence, dep, prep, astray>>
    /\ \A e \in Coordinators \ {c} : co'[e] = co[e] /\ slice'[e] = slice[e]
    /\ \A a \in Actors \ {c} :
          waits'[a] = waits[a] \/ (waits'[a] = waits[a] \ {c} /\ Resting(c)')

LeaseMoves(c) ==
    lease' = lease \/ ~Resting(c) \/ (lease' = NoLease /\ lease.built = co[c].built)

KvMoves(c) ==
    \/ \A f \in Families : kv[f] \subseteq kv'[f]
    \/ /\ ~Resting(c)
       /\ manifests' = manifests
       /\ \A f \in Families \cap (LiveFamilies(manifests) \ astray) : kv'[f] = kv[f]

\* The last live manifest does not go.
StaysLive == LiveFamilies(manifests) # {} => LiveFamilies(manifests') # {}

ManifestsMove(c) ==
    \/ manifests' = manifests
    \/ /\ ~Resting(c)
       /\ kv' = kv
       /\ StaysLive
       /\ \A f \in LiveFamilies(manifests') \ LiveFamilies(manifests) :
             f = co[c].built /\ co[c].phase = "manifest" /\ (f \in astray \/ Complete(kv, f))
       /\ co[c].phase = "routing" =>
            /\ LiveFamilies(manifests') \subseteq LiveFamilies(manifests)
            /\ \A k \in Formats : manifests'[k].built \in {manifests[k].built, NoFamily}

RunEffect(c) ==
    OthersKept(c) /\ Moves(c) /\ LeaseMoves(c) /\ KvMoves(c) /\ ManifestsMove(c) /\ RunReady(c)'

-----------------------------------------------------------------------------
LEMMA TypedParts ==
    ASSUME Typed
    PROVE  /\ kv \in Store /\ manifests \in Published /\ lease \in Lease
           /\ pointer \in Coordinators /\ fence \in Nat /\ code \in Formats /\ builds \in 0..MaxBuilds
           /\ co \in [Coordinators -> Runs] /\ slice \in [Coordinators -> Slices]
           /\ dep \in [Deploys -> Jobs] /\ waits \in [Actors -> SUBSET Actors]
           /\ prep \in [Deploys -> Preparations] /\ astray \subseteq Families
           /\ \A c \in Coordinators : FitsPhase(c)
           /\ FormatChosen /\ CopyChosen
BY DEF Typed, TypeOK, SlicesFitPhases

\* A deploy's record on its own, and the steps it moves between, without the
\* rest of the state.
LEMMA DepTyped ==
    ASSUME Typed, NEW d \in Deploys
    PROVE  dep[d] \in Jobs
BY TypedParts

LEMMA SafeDepTyped ==
    ASSUME Safe, NEW d \in Deploys
    PROVE  dep[d] \in Jobs
BY DepTyped DEF Safe

LEMMA PcsOfDeploys ==
    /\ "settle" \in DeployPcs /\ "drop" \in DeployPcs /\ "upload" \in DeployPcs
    /\ "check" \in DeployPcs /\ "purge" \in DeployPcs /\ "switch" \in DeployPcs
    /\ "dead" \in DeployPcs /\ "sweep" \in DeployPcs /\ "lease" \in DeployPcs
BY DEF DeployPcs

\* A run that ends its step at rest has nothing to be ready for.
LEMMA RestIsReady ==
    ASSUME NEW c \in Coordinators, Resting(c)'
    PROVE  RunReady(c)'
BY DEF Resting, RunReady

LEMMA OverKeeps ==
    ASSUME Typed, NEW c \in Coordinators, SequenceOver(c), Resting(c)'
    PROVE  \A a \in Actors \ {c} : waits'[a] = waits[a] \ {c}
BY TypedParts DEF SequenceOver, Over

\* However a run ends: its lease given back or not, its last deletions as stated.
LEMMA EndEffect ==
    ASSUME Typed, NEW c \in Coordinators, co[c].phase # "idle",
           NEW p \in {"idle", "retire"}, co' = [co EXCEPT ![c].phase = p],
           slice' = Rest(c) \/ (Resting(c) /\ slice' = slice),
           SequenceOver(c) \/ waits' = waits,
           UNCHANGED <<manifests, pointer, fence, builds, dep, prep, astray>>,
           LeaseMoves(c), KvMoves(c)
    PROVE  RunEffect(c)
<1>1. co'[c].phase = p /\ co'[c].built = co[c].built /\ co'[c].started = co[c].started
  BY TypedParts DEF Runs
<1>2. Resting(c)'
  BY TypedParts DEF Rest, Resting, AtRest
<1>3. \A e \in Coordinators \ {c} : co'[e] = co[e] /\ slice'[e] = slice[e]
  BY TypedParts DEF Rest
<1>4. OthersKept(c)
  BY <1>2, <1>3, OverKeeps DEF OthersKept
<1>5. Moves(c)
  BY <1>1, <1>2 DEF Moves, RunEnds, SameBuild, Ended
<1> QED BY <1>2, <1>4, <1>5, RestIsReady DEF RunEffect, ManifestsMove

LEMMA RetireEffect ==
    ASSUME Typed, NEW c \in Coordinators, co[c].phase # "idle", BeginRetire(c),
           UNCHANGED <<kvVars, pointer, fence, builds, dep, prep, astray>>
    PROVE  RunEffect(c)
<1>1. LeaseMoves(c) /\ KvMoves(c)
  BY DEF LeaseMoves, KvMoves, kvVars
<1> QED BY <1>1, EndEffect DEF BeginRetire, kvVars

LEMMA ReleaseMoves ==
    ASSUME NEW c \in Coordinators, Release(co[c].built)
    PROVE  LeaseMoves(c)
BY DEF Release, Released, LeaseMoves

LEMMA FailEffect ==
    ASSUME Typed, NEW c \in Coordinators, co[c].phase # "idle", EndFailed(c),
           UNCHANGED <<manifests, pointer, fence, builds, dep, prep, astray>>, KvMoves(c)
    PROVE  RunEffect(c)
<1>1. LeaseMoves(c)
  BY ReleaseMoves DEF EndFailed
<1> QED BY <1>1, EndEffect DEF EndFailed

\* A step within an alarm, or the one that opens it.
LEMMA AlarmEffect ==
    ASSUME Typed, NEW c \in Coordinators, co[c].phase \in {"routing", "publish", "manifest"},
           NEW s \in Slices, s.pc # "rest", slice' = [slice EXCEPT ![c] = s],
           UNCHANGED <<co, waits, pointer, fence, builds, dep, prep, astray>>,
           Resting(c) => MayBegin(c),
           LeaseMoves(c), KvMoves(c), ManifestsMove(c), RunReady(c)'
    PROVE  RunEffect(c)
<1>1. slice'[c] = s /\ \A e \in Coordinators \ {c} : slice'[e] = slice[e]
  BY TypedParts
<1>2. ~Resting(c)'
  BY <1>1 DEF Resting
<1>3. OthersKept(c)
  BY <1>1 DEF OthersKept
<1>4. Moves(c)
  BY <1>2 DEF Moves, RunGoesOn, SameBuild
<1> QED BY <1>3, <1>4 DEF RunEffect

LEMMA GotoEffect ==
    ASSUME Typed, NEW c \in Coordinators, co[c].phase \in {"routing", "publish", "manifest"},
           NEW pc \in SlicePcs, pc # "rest", Goto(c, pc),
           UNCHANGED <<co, waits, pointer, fence, builds, dep, prep, astray>>,
           Resting(c) => MayBegin(c),
           LeaseMoves(c), KvMoves(c), ManifestsMove(c), RunReady(c)'
    PROVE  RunEffect(c)
<1> DEFINE s == [slice[c] EXCEPT !.pc = pc]
<1>1. s \in Slices /\ s.pc = pc
  BY TypedParts DEF Slices
<1>2. slice' = [slice EXCEPT ![c] = s]
  BY DEF Goto
<1> HIDE DEF s
<1> QED BY <1>1, <1>2, AlarmEffect

\* A run that leaves KV alone.
LEMMA QuietMoves ==
    ASSUME NEW c \in Coordinators, UNCHANGED kvVars
    PROVE  LeaseMoves(c) /\ KvMoves(c) /\ ManifestsMove(c)
BY DEF LeaseMoves, KvMoves, ManifestsMove, kvVars

-----------------------------------------------------------------------------
(***************************************************************************)
(* Retention, as the writers use it.                                       *)
(***************************************************************************)
LEMMA NothingIsLive == NothingPublished \in Published /\ LiveFamilies(NothingPublished) = {}
BY NothingPublishedType DEF NothingPublished, LiveFamilies, NoManifest

\* However a retirement ends: no family becomes live, no format's key takes
\* another build, and whoever saw its outcome has seen every live family.
LEMMA RetirementsMove ==
    ASSUME NEW pub \in Published, NEW f \in Formats, NEW r \in Retirements(pub, f)
    PROVE  /\ LiveFamilies(r[1]) \subseteq LiveFamilies(pub)
           /\ LiveFamilies(r[1]) \subseteq LiveFamilies(r[2])
           /\ \A k \in Formats : r[1][k].built \in {pub[k].built, NoFamily}
           /\ r[1][f].built = pub[f].built /\ r[2][f].built = pub[f].built
<1> DEFINE after == RetireOlderFormats(pub, f)
<1>1. /\ after \in Published /\ after[f] = pub[f]
      /\ after[Legacy] \in {pub[Legacy], pub[f]}
      /\ LiveFamilies(after) \subseteq LiveFamilies(pub)
  BY RetirementLemma
<1>2. f \in ManifestKeys /\ f # Legacy /\ Legacy \in ManifestKeys
      /\ \A k \in Formats : k \in ManifestKeys /\ k # Legacy
  BY DEF ManifestKeys, Formats, Legacy
<1>3. \A k \in Formats : after[k] \in {pub[k], NoManifest}
  BY <1>2 DEF RetireOlderFormats
<1> HIDE DEF after
<1>4. \A k \in Formats : after[k].built \in {pub[k].built, NoFamily}
  BY <1>3 DEF NoManifest
<1> DEFINE half == [pub EXCEPT ![Legacy] = after[Legacy]]
<1>5. half[Legacy] = after[Legacy] /\ \A k \in Formats : half[k] = pub[k]
  BY <1>2 DEF Published
<1>6. LiveFamilies(half) \subseteq LiveFamilies(pub)
  BY <1>1, <1>2, <1>5 DEF LiveFamilies, ManifestKeys
<1> HIDE DEF half
<1>7. r \in {<<after, after>>, <<pub, pub>>, <<half, pub>>}
  BY DEF Retirements, after, half
<1>8. CASE r = <<after, after>>
  BY <1>1, <1>4, <1>8
<1>9. CASE r = <<pub, pub>>
  BY <1>9
<1>10. CASE r = <<half, pub>>
  BY <1>5, <1>6, <1>10
<1> QED BY <1>7, <1>8, <1>9, <1>10

\* A retirement never takes the last live manifest.
LEMMA RetirementsStay ==
    ASSUME NEW pub \in Published, NEW f \in Formats, NEW r \in Retirements(pub, f),
           LiveFamilies(pub) # {}
    PROVE  LiveFamilies(r[1]) # {}
<1> DEFINE after == RetireOlderFormats(pub, f)
           half == [pub EXCEPT ![Legacy] = after[Legacy]]
<1>1. r[1] \in {after, pub, half}
  BY DEF Retirements
<1>2. CASE pub[f].built = NoFamily
  <2>1. after = pub
    BY <1>2, RetirementLemma
  <2> HIDE DEF after
  <2>2. half = pub
    BY <2>1 DEF Published
  <2> HIDE DEF half
  <2> QED BY <1>1, <2>1, <2>2
<1>3. CASE pub[f].built # NoFamily
  <2>1. after[f] = pub[f]
    BY RetirementLemma
  <2> HIDE DEF after
  <2>2. f \in ManifestKeys /\ f # Legacy
    BY DEF ManifestKeys, Formats, Legacy
  <2>3. half[f] = pub[f]
    BY <2>2 DEF Published
  <2> HIDE DEF half
  <2>4. r[1][f].built # NoFamily
    BY <1>1, <1>3, <2>1, <2>3
  <2> QED BY <2>2, <2>4 DEF LiveFamilies
<1> QED BY <1>2, <1>3

\* A sweep planned on manifests that name every live family spares them all, but
\* for those that are astray.
LEMMA SweepSpares ==
    ASSUME NEW seen \in Published, Covered(seen), NEW inFlight, NEW incoming,
           kv \in Store, kv' = WithoutFamilies(kv, PlanRetention(kv, seen, inFlight, incoming).retire)
    PROVE  \A f \in Families \cap (LiveFamilies(manifests) \ astray) : kv'[f] = kv[f]
<1> DEFINE retire == PlanRetention(kv, seen, inFlight, incoming).retire
<1>1. retire \cap LiveFamilies(seen) = {}
  BY PlanSparesRoles
<1> HIDE DEF retire
<1>2. kv' = WithoutFamilies(kv, retire)
  BY DEF retire
<1> QED BY <1>1, <1>2 DEF WithoutFamilies, Covered

\* A run that could not read what is live sweeps nothing.
LEMMA BlindClaimSpares ==
    ASSUME NEW c \in Coordinators, Typed, co[c].fmt \in Formats,
           slice[c].seen = NothingPublished, kv' = WithoutFamilies(kv, ClaimPlan(c).retire)
    PROVE  kv' = kv
<1>1. RunIncoming(NothingPublished, co[c].fmt) = NoGuard
  <2>1. Primary(NothingPublished).built = NoFamily
    BY NothingIsLive, NoneLive
  <2>2. NothingPublished[co[c].fmt].built = NoFamily
    BY DEF NothingPublished, NoManifest, ManifestKeys
  <2> QED BY <2>1, <2>2 DEF RunIncoming, ReplacedManifest
<1>2. ClaimPlan(c).retire = {}
  BY <1>1, NothingIsLive, PlanBlind DEF ClaimPlan
<1> QED BY <1>2, TypedParts DEF WithoutFamilies, Store

-----------------------------------------------------------------------------
(***************************************************************************)
(* Every action of a coordinator has that effect.                          *)
(***************************************************************************)
LEMMA StartEffect ==
    ASSUME Prompt, Typed, NEW c \in Coordinators, StartImport(c),
           UNCHANGED <<prep, astray>>
    PROVE  RunEffect(c)
<1> DEFINE r == [IdleRun EXCEPT !.phase = "build", !.started = fence]
<1>1. r.phase = "build" /\ r.started = fence /\ r.built = NoFamily
  BY DEF IdleRun, NoFamily
<1>2. co' = [co EXCEPT ![c] = r] /\ slice' = slice /\ Resting(c) /\ c = pointer
  BY DEF StartImport, Resting
<1> HIDE DEF r
<1>3. co'[c] = r /\ \A e \in Coordinators \ {c} : co'[e] = co[e]
  BY <1>2, TypedParts
<1>4. /\ waits'[c] = (MidSequence \cup Settling) \ {c}
      /\ \A a \in Actors \ {c} : waits'[a] = waits[a]
  BY TypedParts DEF StartImport, LongBegins, Actors
<1>5. Resting(c)'
  BY <1>2 DEF Resting
<1>6. OthersKept(c)
  BY <1>2, <1>3, <1>4 DEF StartImport, OthersKept
<1>7. Moves(c)
  BY <1>1, <1>2, <1>3, <1>4, <1>5 DEF StartImport, Moves, RunStarts
<1>8. LeaseMoves(c) /\ KvMoves(c) /\ ManifestsMove(c)
  BY QuietMoves DEF StartImport
<1> QED BY <1>5, <1>6, <1>7, <1>8, RestIsReady DEF RunEffect

LEMMA StampEffect ==
    ASSUME ~FenceReadsFail, Typed, NEW c \in Coordinators, StampBuild(c),
           UNCHANGED <<prep, astray>>
    PROVE  RunEffect(c)
<1> DEFINE r == [co[c] EXCEPT !.phase = "routing", !.built = builds + 1, !.fmt = code]
<1>1. r.phase = "routing" /\ r.built = builds + 1 /\ r.started = co[c].started /\ r.held = co[c].held
  BY TypedParts DEF Runs
<1>2. co' = [co EXCEPT ![c] = r] /\ slice' = slice /\ Resting(c) /\ builds' = builds + 1
      /\ co[c].phase = "build" /\ ~Superseded(c) /\ waits[c] = {}
  BY DEF StampBuild, Resting, AtAlarm, AlarmPasses, LongMayEnd
<1> HIDE DEF r
<1>3. co'[c] = r /\ \A e \in Coordinators \ {c} : co'[e] = co[e]
  BY <1>2, TypedParts
<1>4. Resting(c)' /\ ~co[c].held
  BY <1>2, TypedParts DEF Resting, FitsPhase
<1>5. OthersKept(c)
  BY <1>2, <1>3 DEF StampBuild, OthersKept
<1>6. Moves(c)
  BY <1>1, <1>2, <1>3, <1>4 DEF Moves, RunStamped
<1>7. LeaseMoves(c) /\ KvMoves(c) /\ ManifestsMove(c)
  BY QuietMoves DEF StampBuild
<1> QED BY <1>4, <1>5, <1>6, <1>7, RestIsReady DEF RunEffect

\* The steps that end a run, or the alarm.
LEMMA OverEffect ==
    ASSUME ~FenceReadsFail, Typed, NEW c \in Coordinators,
           Retire(c) \/ RetirePurged(c) \/ FailRun(c) \/ FinishRun(c) \/ KillSlice(c),
           UNCHANGED <<prep, astray>>
    PROVE  RunEffect(c)
<1>1. CASE Retire(c)
  BY <1>1, RetireEffect DEF Retire, Working
<1>2. CASE RetirePurged(c)
  <2>1. LeaseMoves(c) /\ KvMoves(c)
    BY <1>2, QuietMoves DEF RetirePurged
  <2> QED BY <1>2, <2>1, EndEffect DEF RetirePurged, AtAlarm, Resting, kvVars
<1>3. CASE FailRun(c)
  <2>1. KvMoves(c)
    BY <1>3 DEF FailRun, KvMoves
  <2> QED BY <1>3, <2>1, FailEffect DEF FailRun, Working
<1>4. CASE FinishRun(c)
  <2>1. LeaseMoves(c) /\ KvMoves(c)
    BY <1>4, QuietMoves DEF FinishRun
  <2> QED BY <1>4, <2>1, EndEffect DEF FinishRun, AtAlarm, Resting, kvVars
<1>5. CASE KillSlice(c)
  <2>1. ~Resting(c) /\ co' = co /\ slice' = Rest(c) /\ SequenceOver(c)
    BY <1>5 DEF KillSlice, Resting
  <2>2. Resting(c)' /\ \A e \in Coordinators \ {c} : slice'[e] = slice[e]
    BY <2>1, TypedParts DEF Rest, Resting, AtRest
  <2>3. co[c].phase \in {"routing", "publish", "manifest"}
    BY <2>1, TypedParts DEF FitsPhase, Resting, Slices, SlicePcs
  <2>4. OthersKept(c)
    BY <1>5, <2>1, <2>2, OverKeeps DEF KillSlice, OthersKept
  <2>5. Moves(c)
    BY <1>5, <2>1, <2>2, <2>3 DEF KillSlice, Moves, RunGoesOn, SameBuild
  <2>6. LeaseMoves(c) /\ KvMoves(c) /\ ManifestsMove(c)
    BY <1>5, QuietMoves DEF KillSlice
  <2> QED BY <2>2, <2>4, <2>5, <2>6, RestIsReady DEF RunEffect
<1> QED BY <1>1, <1>2, <1>3, <1>4, <1>5

\* Claiming the lease and making room.
LEMMA ClaimEffect ==
    ASSUME ~FenceReadsFail, Typed, NEW c \in Coordinators, RunReady(c),
           ClaimLease(c) \/ PutLease(c) \/ ReadRoles(c) \/ MakeRoom(c),
           UNCHANGED <<prep, astray>>
    PROVE  RunEffect(c)
<1>1. CASE ClaimLease(c)
  <2>1. co[c].phase = "routing" /\ ~co[c].held /\ ~Superseded(c) /\ Resting(c)
        /\ UNCHANGED <<kvVars, pointer, fence, builds, dep, prep, astray>>
    BY <1>1 DEF ClaimLease, AtAlarm, AlarmPasses, Resting
  <2>2. CASE DecideUploadLease(lease, MyLease(c)) = "take" /\ Goto(c, "claim") /\ UNCHANGED <<co, waits>>
    <3>1. RunReady(c)'
      BY <2>2, TypedParts, GotoType DEF RunReady, SlicePcs
    <3>2. MayBegin(c)
      BY <2>1, <2>2 DEF MayBegin
    <3>3. LeaseMoves(c) /\ KvMoves(c) /\ ManifestsMove(c)
      BY <2>1, QuietMoves
    <3> QED BY <2>1, <2>2, <3>1, <3>2, <3>3, GotoEffect DEF SlicePcs
  <2>3. CASE BeginRetire(c)
    BY <2>1, <2>3, RetireEffect
  <2> QED BY <1>1, <2>2, <2>3 DEF ClaimLease
<1>2. CASE PutLease(c)
  <2>1. co[c].phase = "routing" /\ ~Resting(c) /\ Goto(c, "claimed")
    BY <1>2, TypedParts DEF PutLease, FitsPhase, Resting
  <2>2. RunReady(c)'
    BY <2>1, TypedParts, GotoType DEF RunReady, SlicePcs
  <2>3. LeaseMoves(c) /\ KvMoves(c) /\ ManifestsMove(c)
    BY <1>2, <2>1 DEF PutLease, LeaseMoves, KvMoves, ManifestsMove
  <2> QED BY <1>2, <2>1, <2>2, <2>3, GotoEffect DEF PutLease, SlicePcs
<1>3. CASE ReadRoles(c)
  <2>1. co[c].phase = "routing" /\ ~Resting(c) /\ co[c].fmt \in Formats /\ slice[c].seen = NothingPublished
    BY <1>3, TypedParts DEF ReadRoles, FitsPhase, Resting
  <2>2. LeaseMoves(c) /\ KvMoves(c)
    BY <1>3 DEF ReadRoles, LeaseMoves, KvMoves
  <2>3. CASE \E r \in Retirements(manifests, co[c].fmt) :
             /\ manifests' = r[1]
             /\ slice' = [slice EXCEPT ![c].pc = "sweep", ![c].seen = r[2]]
    <3>1. PICK r \in Retirements(manifests, co[c].fmt) :
             /\ manifests' = r[1]
             /\ slice' = [slice EXCEPT ![c].pc = "sweep", ![c].seen = r[2]]
      BY <2>3
    <3>2. /\ r[2] \in Published
          /\ LiveFamilies(r[1]) \subseteq LiveFamilies(manifests)
          /\ LiveFamilies(r[1]) \subseteq LiveFamilies(r[2])
          /\ \A k \in Formats : r[1][k].built \in {manifests[k].built, NoFamily}
      BY <2>1, TypedParts, RetirementsType, RetirementsMove
    <3>l. StaysLive
      BY <2>1, <3>1, TypedParts, RetirementsStay DEF StaysLive
    <3>3. ManifestsMove(c)
      BY <1>3, <2>1, <3>1, <3>2, <3>l DEF ReadRoles, ManifestsMove
    <3> DEFINE x == [slice[c] EXCEPT !.pc = "sweep", !.seen = r[2]]
    <3>4. x \in Slices /\ x.pc = "sweep" /\ x.seen = r[2]
      BY <3>2, TypedParts DEF Slices, SlicePcs
    <3>5. slice' = [slice EXCEPT ![c] = x]
      BY <3>1
    <3> HIDE DEF x
    <3>6. RunReady(c)'
      BY <3>1, <3>2, <3>4, <3>5, TypedParts DEF RunReady, Covered
    <3> QED BY <1>3, <2>1, <2>2, <3>3, <3>4, <3>5, <3>6, AlarmEffect DEF ReadRoles
  <2>4. CASE Goto(c, "sweep") /\ UNCHANGED manifests
    <3>1. RunReady(c)'
      BY <2>1, <2>4, TypedParts, GotoType DEF RunReady, SlicePcs, NothingPublished
    <3>2. ManifestsMove(c)
      BY <2>4 DEF ManifestsMove
    <3> QED BY <1>3, <2>1, <2>2, <2>4, <3>1, <3>2, GotoEffect DEF ReadRoles, SlicePcs
  <2> QED BY <1>3, <2>3, <2>4 DEF ReadRoles
<1>4. CASE MakeRoom(c)
  <2>1. co[c].phase = "routing" /\ ~Resting(c) /\ co[c].fmt \in Formats
    BY <1>4, TypedParts DEF MakeRoom, FitsPhase, Resting
  <2>2. KvMoves(c)
    <3>1. kv' = WithoutFamilies(kv, ClaimPlan(c).retire) /\ manifests' = manifests
      BY <1>4 DEF MakeRoom
    <3>2. CASE Covered(slice[c].seen)
      <4>1. slice[c].seen \in Published
        BY TypedParts DEF Slices
      <4> QED BY <2>1, <3>1, <3>2, <4>1, TypedParts, SweepSpares DEF ClaimPlan, KvMoves
    <3>3. CASE slice[c].seen = NothingPublished
      BY <2>1, <3>1, <3>3, BlindClaimSpares DEF KvMoves
    <3> QED BY <1>4, <3>2, <3>3 DEF MakeRoom, RunReady
  <2>3. CASE EndFailed(c)
    BY <1>4, <2>1, <2>2, <2>3, FailEffect DEF MakeRoom
  <2>4. CASE /\ co' = [co EXCEPT ![c].held = TRUE]
             /\ slice' = [Rest(c) EXCEPT ![c].pc = "filter"]
             /\ UNCHANGED <<lease, waits>>
    <3> DEFINE r == [co[c] EXCEPT !.held = TRUE]
    <3>1. r.phase = co[c].phase /\ r.built = co[c].built /\ r.started = co[c].started
      BY TypedParts DEF Runs
    <3>2. co' = [co EXCEPT ![c] = r]
      BY <2>4
    <3> HIDE DEF r
    <3>3. co'[c] = r /\ \A e \in Coordinators \ {c} : co'[e] = co[e]
      BY <3>2, TypedParts
    <3>4. slice'[c].pc = "filter" /\ \A e \in Coordinators \ {c} : slice'[e] = slice[e]
      BY <2>4, TypedParts, RestType DEF Rest, AtRest
    <3>5. OthersKept(c)
      BY <1>4, <2>4, <3>3, <3>4 DEF MakeRoom, OthersKept
    <3>6. Moves(c)
      BY <1>4, <2>1, <3>1, <3>3, <3>4 DEF MakeRoom, Moves, RunGoesOn, SameBuild, Resting
    <3>7. LeaseMoves(c) /\ ManifestsMove(c) /\ RunReady(c)'
      BY <1>4, <2>4, <3>4 DEF MakeRoom, LeaseMoves, ManifestsMove, RunReady
    <3> QED BY <2>2, <3>5, <3>6, <3>7 DEF RunEffect
  <2>5. EndFailed(c) \/ (/\ co' = [co EXCEPT ![c].held = TRUE]
                          /\ slice' = [Rest(c) EXCEPT ![c].pc = "filter"]
                          /\ UNCHANGED <<lease, waits>>)
    BY <1>4, Zenon DEF MakeRoom
  <2> QED BY <2>3, <2>4, <2>5
<1> QED BY <1>1, <1>2, <1>3, <1>4

\* Uploading the family's keys.
LEMMA UploadEffect ==
    ASSUME Prompt, ~FenceReadsFail, Typed, NEW c \in Coordinators,
           PutFilter(c) \/ RenewFence(c) \/ RenewLease(c) \/ ChunkFence(c) \/ PutChunk(c),
           UNCHANGED <<prep, astray>>
    PROVE  RunEffect(c)
<1>1. CASE PutFilter(c)
  <2>1. co[c].phase = "routing" /\ ~Resting(c)
    BY <1>1, TypedParts DEF PutFilter, FitsPhase, Resting
  <2> DEFINE r == [co[c] EXCEPT !.phase = "publish"]
  <2>2. r.phase = "publish" /\ r.built = co[c].built /\ r.started = co[c].started
    BY TypedParts DEF Runs
  <2>3. co' = [co EXCEPT ![c] = r] /\ slice' = Rest(c)
    BY <1>1 DEF PutFilter
  <2> HIDE DEF r
  <2>4. co'[c] = r /\ Resting(c)' /\ \A e \in Coordinators \ {c} : co'[e] = co[e] /\ slice'[e] = slice[e]
    BY <2>3, TypedParts, RestType DEF Rest, AtRest, Resting
  <2>5. /\ waits'[c] = MidSequence \ {c}
        /\ \A a \in Actors \ {c} : waits'[a] = waits[a] \ {c}
    BY <1>1, TypedParts DEF PutFilter, Over, Actors
  <2>6. OthersKept(c)
    BY <1>1, <2>4, <2>5 DEF PutFilter, OthersKept
  <2>7. Moves(c)
    BY <1>1, <2>1, <2>2, <2>4, <2>5 DEF PutFilter, Moves, RunGoesOn, SameBuild
  <2>8. LeaseMoves(c) /\ KvMoves(c) /\ ManifestsMove(c)
    <3>1. \A f \in Families : kv[f] \subseteq kv'[f]
      BY <1>1, TypedParts DEF PutFilter, Store
    <3> QED BY <1>1, <3>1 DEF PutFilter, LeaseMoves, KvMoves, ManifestsMove
  <2> QED BY <2>4, <2>6, <2>7, <2>8, RestIsReady DEF RunEffect
<1>2. CASE RenewFence(c)
  <2>1. /\ Resting(c) /\ UNCHANGED <<kvVars, pointer, fence, builds, dep, prep, astray>>
        /\ (co[c].phase = "routing" /\ co[c].held) \/ (co[c].phase = "publish" /\ waits[c] = {})
    BY <1>2 DEF RenewFence, AtAlarm, Resting, LongMayEnd
  <2>2. CASE WritePasses(c) /\ Goto(c, "renew") /\ UNCHANGED <<co, waits>>
    <3>1. RunReady(c)'
      BY <2>2, TypedParts, GotoType DEF RunReady, SlicePcs
    <3>2. MayBegin(c)
      BY <2>1, <2>2 DEF MayBegin, WritePasses, WriteStops
    <3>3. LeaseMoves(c) /\ KvMoves(c) /\ ManifestsMove(c)
      BY <2>1, QuietMoves
    <3> QED BY <2>1, <2>2, <3>1, <3>2, <3>3, GotoEffect DEF SlicePcs
  <2>3. CASE BeginRetire(c)
    BY <2>1, <2>3, RetireEffect
  <2> QED BY <1>2, <2>2, <2>3 DEF RenewFence
<1>3. CASE RenewLease(c)
  <2> DEFINE pc == IF co[c].phase = "routing" THEN "filter" ELSE "write"
  <2>1. /\ co[c].phase \in {"routing", "publish"} /\ ~Resting(c) /\ Goto(c, pc)
        /\ pc \in SlicePcs /\ pc \in {"filter", "write"}
    BY <1>3, TypedParts DEF RenewLease, FitsPhase, Resting, SlicePcs
  <2> HIDE DEF pc
  <2>2. RunReady(c)'
    BY <2>1, TypedParts, GotoType DEF RunReady
  <2>3. LeaseMoves(c) /\ KvMoves(c) /\ ManifestsMove(c)
    BY <1>3, <2>1 DEF RenewLease, LeaseMoves, KvMoves, ManifestsMove
  <2> QED BY <1>3, <2>1, <2>2, <2>3, GotoEffect DEF RenewLease
<1>4. CASE ChunkFence(c)
  <2>1. /\ co[c].phase = "publish" /\ UNCHANGED <<kvVars, pointer, fence, builds, dep, prep, astray>>
        /\ Resting(c) => waits[c] = {}
    BY <1>4, TypedParts DEF ChunkFence, AtAlarm, FitsPhase, Resting, LongMayEnd
  <2>2. CASE WritePasses(c) /\ Goto(c, "put") /\ UNCHANGED <<co, waits>>
    <3>1. RunReady(c)'
      BY <2>2, TypedParts, GotoType DEF RunReady, SlicePcs
    <3>2. Resting(c) => MayBegin(c)
      BY <2>1, <2>2 DEF MayBegin, WritePasses, WriteStops
    <3>3. LeaseMoves(c) /\ KvMoves(c) /\ ManifestsMove(c)
      BY <2>1, QuietMoves
    <3> QED BY <2>1, <2>2, <3>1, <3>2, <3>3, GotoEffect DEF SlicePcs
  <2>3. CASE BeginRetire(c)
    BY <2>1, <2>3, RetireEffect
  <2> QED BY <1>4, <2>2, <2>3 DEF ChunkFence
<1>5. CASE PutChunk(c)
  <2>1. co[c].phase = "publish" /\ ~Resting(c) /\ slice' = Rest(c)
    BY <1>5, TypedParts DEF PutChunk, FitsPhase, Resting
  <2>2. Resting(c)' /\ \A e \in Coordinators \ {c} : slice'[e] = slice[e]
    BY <2>1, TypedParts, RestType DEF Rest, AtRest, Resting
  <2>3. /\ co'[c].built = co[c].built /\ co'[c].started = co[c].started
        /\ \A e \in Coordinators \ {c} : co'[e] = co[e]
    BY <1>5, TypedParts DEF PutChunk, Runs
  <2>4. OthersKept(c)
    BY <1>5, <2>2, <2>3, OverKeeps DEF PutChunk, OthersKept
  <2>5. Moves(c)
    BY <1>5, <2>1, <2>2, <2>3 DEF PutChunk, Moves, RunGoesOn, SameBuild
  <2>6. LeaseMoves(c) /\ KvMoves(c) /\ ManifestsMove(c)
    <3>1. \A f \in Families : kv[f] \subseteq kv'[f]
      BY <1>5, TypedParts DEF PutChunk, Store
    <3> QED BY <1>5, <3>1 DEF PutChunk, LeaseMoves, KvMoves, ManifestsMove
  <2> QED BY <2>2, <2>4, <2>5, <2>6, RestIsReady DEF RunEffect
<1> QED BY <1>1, <1>2, <1>3, <1>4, <1>5

\* stepManifest, up to the publish.
LEMMA CommitEffect ==
    ASSUME ~FenceReadsFail, Typed, NEW c \in Coordinators, RunReady(c),
           ReadReplaced(c) \/ CheckChunks(c) \/ CommitFence(c),
           UNCHANGED <<prep, astray>>
    PROVE  RunEffect(c)
<1>1. CASE ReadReplaced(c)
  <2>1. /\ Resting(c) /\ UNCHANGED <<kvVars, pointer, fence, builds, dep, prep, astray>>
        /\ co[c].phase = "manifest" /\ co[c].fmt \in Formats
    BY <1>1, TypedParts DEF ReadReplaced, AtAlarm, Resting, FitsPhase
  <2>2. CASE /\ WritePasses(c)
             /\ \E m \in ReplacedRead(co[c].fmt) :
                   slice' = [slice EXCEPT ![c].pc = "check", ![c].replaced = m]
             /\ UNCHANGED <<co, waits>>
    <3>1. PICK m \in ReplacedRead(co[c].fmt) :
                  slice' = [slice EXCEPT ![c].pc = "check", ![c].replaced = m]
      BY <2>2
    <3>2. m \in Manifest
      BY <2>1, TypedParts, ReplacedManifestType, NoManifestType DEF ReplacedRead
    <3> DEFINE x == [slice[c] EXCEPT !.pc = "check", !.replaced = m]
    <3>3. x \in Slices /\ x.pc = "check"
      BY <3>2, TypedParts DEF Slices, SlicePcs
    <3>4. slice' = [slice EXCEPT ![c] = x]
      BY <3>1
    <3> HIDE DEF x
    <3>5. RunReady(c)'
      BY <3>3, <3>4, TypedParts DEF RunReady
    <3>6. MayBegin(c)
      BY <2>1, <2>2 DEF MayBegin, WritePasses, WriteStops
    <3>7. LeaseMoves(c) /\ KvMoves(c) /\ ManifestsMove(c)
      BY <2>1, QuietMoves
    <3> QED BY <2>1, <2>2, <3>3, <3>4, <3>5, <3>6, <3>7, AlarmEffect
  <2>3. CASE BeginRetire(c)
    BY <2>1, <2>3, RetireEffect
  <2> QED BY <1>1, <2>2, <2>3 DEF ReadReplaced
<1>2. CASE CheckChunks(c)
  <2>1. co[c].phase = "manifest" /\ ~Resting(c) /\ UNCHANGED <<kv, manifests, pointer, fence, builds, dep, prep, astray>>
    BY <1>2, TypedParts DEF CheckChunks, FitsPhase, Resting
  <2>2. KvMoves(c) /\ ManifestsMove(c)
    BY <2>1 DEF KvMoves, ManifestsMove
  <2>3. CASE Complete(kv, co[c].built) /\ Goto(c, "fence") /\ UNCHANGED <<lease, co, waits>>
    <3>1. RunReady(c)'
      BY <2>1, <2>3, TypedParts, GotoType DEF RunReady, Whole, SlicePcs
    <3>2. LeaseMoves(c)
      BY <2>3 DEF LeaseMoves
    <3> QED BY <2>1, <2>2, <2>3, <3>1, <3>2, GotoEffect DEF SlicePcs
  <2>4. CASE EndFailed(c)
    BY <2>1, <2>2, <2>4, FailEffect
  <2> QED BY <1>2, <2>3, <2>4 DEF CheckChunks
<1>3. CASE CommitFence(c)
  <2>1. /\ co[c].phase = "manifest" /\ ~Resting(c) /\ slice[c].pc = "fence"
        /\ UNCHANGED <<kvVars, pointer, fence, builds, dep, prep, astray>>
    BY <1>3, TypedParts DEF CommitFence, FitsPhase, Resting
  <2>2. CASE Goto(c, "commit") /\ UNCHANGED <<co, waits>>
    <3>1. RunReady(c)'
      BY <2>1, <2>2, TypedParts, GotoType DEF RunReady, Whole, SlicePcs, kvVars
    <3>2. LeaseMoves(c) /\ KvMoves(c) /\ ManifestsMove(c)
      BY <2>1, QuietMoves
    <3> QED BY <2>1, <2>2, <3>1, <3>2, GotoEffect DEF SlicePcs
  <2>3. CASE BeginRetire(c)
    BY <2>1, <2>3, RetireEffect
  <2> QED BY <1>3, <2>2, <2>3 DEF CommitFence
<1> QED BY <1>1, <1>2, <1>3

\* Publishing a whole family at one key makes it live, and nothing else.
LEMMA PublishedLive ==
    ASSUME NEW pub \in Published, NEW k \in ManifestKeys, NEW m \in Manifest
    PROVE  LiveFamilies([pub EXCEPT ![k] = m]) \subseteq LiveFamilies(pub) \cup {m.built}
BY DEF LiveFamilies, Published

LEMMA PublishedStays ==
    ASSUME NEW pub \in Published, NEW k \in ManifestKeys, NEW m \in Manifest, m.built # NoFamily
    PROVE  LiveFamilies([pub EXCEPT ![k] = m]) # {}
<1>1. [pub EXCEPT ![k] = m][k] = m
  BY DEF Published
<1> QED BY <1>1 DEF LiveFamilies

\* The publish and the sweep after it.
LEMMA PublishEffect ==
    ASSUME Typed, NEW c \in Coordinators, RunReady(c),
           WriteManifest(c) \/ WriteMirror(c) \/ ReleaseLease(c) \/ SweepRead(c) \/ SweepDrop(c),
           UNCHANGED <<prep, astray>>
    PROVE  RunEffect(c)
<1>1. /\ co[c].phase = "manifest" /\ ~Resting(c) /\ co[c].built # NoFamily
      /\ co[c].fmt \in Formats /\ co[c].fmt \in ManifestKeys /\ co[c].fmt # Legacy
      /\ Legacy \in ManifestKeys
      /\ UNCHANGED <<pointer, fence, builds, dep, prep, astray>>
  <2>1. co[c].phase = "manifest" /\ ~Resting(c)
    BY TypedParts
    DEF WriteManifest, WriteMirror, ReleaseLease, SweepRead, SweepDrop, FitsPhase, Resting
  <2>2. co[c].fmt \in Formats /\ co[c].built # NoFamily
    BY <2>1, TypedParts DEF FitsPhase
  <2> QED BY <2>1, <2>2 DEF WriteManifest, WriteMirror, ReleaseLease, SweepRead, SweepDrop,
         ManifestKeys, Formats, Legacy
<1>2. MyManifest(c) \in Manifest /\ MyManifest(c).built = co[c].built
  BY <1>1, TypedParts, NextManifestType DEF MyManifest, Runs, Slices
<1>3. CASE WriteManifest(c)
  <2>1. /\ manifests' = [manifests EXCEPT ![co[c].fmt] = MyManifest(c)]
        /\ UNCHANGED <<kv, lease, co, waits>> /\ (co[c].built \in astray \/ Complete(kv, co[c].built))
    BY <1>3 DEF WriteManifest, RunReady, Whole
  <2>2. PICK pc \in {"mirror", "release"} : Goto(c, pc)
    BY <1>3 DEF WriteManifest
  <2>3. manifests'[co[c].fmt].built = co[c].built
    BY <1>1, <1>2, <2>1, TypedParts DEF Published
  <2>4. RunReady(c)'
    BY <1>1, <2>1, <2>2, <2>3, TypedParts, GotoType DEF RunReady, OwnKeyKept, Whole, SlicePcs
  <2>5. LeaseMoves(c) /\ KvMoves(c)
    BY <2>1 DEF LeaseMoves, KvMoves
  <2>6. ManifestsMove(c)
    <3>1. LiveFamilies(manifests') \subseteq LiveFamilies(manifests) \cup {co[c].built}
      BY <1>1, <1>2, <2>1, TypedParts, PublishedLive
    <3>2. StaysLive
      BY <1>1, <1>2, <2>1, TypedParts, PublishedStays DEF StaysLive
    <3> QED BY <1>1, <2>1, <3>1, <3>2 DEF ManifestsMove
  <2> QED BY <1>1, <2>1, <2>2, <2>4, <2>5, <2>6, GotoEffect DEF SlicePcs
<1>4. CASE WriteMirror(c)
  <2>1. /\ manifests' = [manifests EXCEPT ![Legacy] = MyManifest(c)] /\ Goto(c, "release")
        /\ UNCHANGED <<kv, lease, co, waits>> /\ (co[c].built \in astray \/ Complete(kv, co[c].built))
        /\ OwnKeyKept(c)
    BY <1>4 DEF WriteMirror, RunReady, Whole
  <2>2. manifests'[co[c].fmt] = manifests[co[c].fmt]
    BY <1>1, <2>1, TypedParts DEF Published
  <2>3. RunReady(c)'
    BY <1>1, <2>1, <2>2, TypedParts, GotoType DEF RunReady, OwnKeyKept, SlicePcs
  <2>4. LeaseMoves(c) /\ KvMoves(c)
    BY <2>1 DEF LeaseMoves, KvMoves
  <2>5. ManifestsMove(c)
    <3>1. LiveFamilies(manifests') \subseteq LiveFamilies(manifests) \cup {co[c].built}
      BY <1>1, <1>2, <2>1, TypedParts, PublishedLive
    <3>2. StaysLive
      BY <1>1, <1>2, <2>1, TypedParts, PublishedStays DEF StaysLive
    <3> QED BY <1>1, <2>1, <3>1, <3>2 DEF ManifestsMove
  <2> QED BY <1>1, <2>1, <2>3, <2>4, <2>5, GotoEffect DEF SlicePcs
<1>5. CASE ReleaseLease(c)
  <2>1. /\ Goto(c, "roles") /\ UNCHANGED <<kv, manifests, co, waits>> /\ Release(co[c].built)
        /\ OwnKeyKept(c)
    BY <1>5 DEF ReleaseLease, RunReady
  <2>2. RunReady(c)'
    BY <1>1, <2>1, TypedParts, GotoType DEF RunReady, OwnKeyKept, SlicePcs
  <2>3. LeaseMoves(c) /\ KvMoves(c) /\ ManifestsMove(c)
    BY <2>1, ReleaseMoves DEF KvMoves, ManifestsMove
  <2> QED BY <1>1, <2>1, <2>2, <2>3, GotoEffect DEF SlicePcs
<1>6. CASE SweepRead(c)
  <2> DEFINE f == co[c].fmt
             own == [manifests EXCEPT ![f] = MyManifest(c)]
  <2>1. UNCHANGED <<kv, lease, co, waits>> /\ OwnKeyKept(c)
    BY <1>6 DEF SweepRead, RunReady
  <2>2. PICK r \in Retirements(own, f) :
              /\ manifests' = [r[1] EXCEPT ![f] = manifests[f]]
              /\ slice' = [slice EXCEPT ![c].pc = "drop", ![c].seen = r[2]]
    BY <1>6 DEF SweepRead
  <2>3. own \in Published /\ LiveFamilies(own) \subseteq LiveFamilies(manifests) \cup {co[c].built}
    BY <1>1, <1>2, TypedParts, PublishedLive DEF Published
  <2>4. own[f].built = co[c].built
    BY <1>1, <1>2, TypedParts DEF Published
  <2> HIDE DEF own
  <2>5. /\ r[1] \in Published /\ r[2] \in Published
        /\ LiveFamilies(r[1]) \subseteq LiveFamilies(own)
        /\ LiveFamilies(r[1]) \subseteq LiveFamilies(r[2])
        /\ r[1][f].built = co[c].built
    BY <1>1, <2>2, <2>3, <2>4, RetirementsType, RetirementsMove
  <2>6. manifests'[f] = manifests[f] /\ manifests[f].built # NoFamily /\ manifests[f] \in Manifest
        /\ manifests' \in Published
    <3>1. astray \subseteq Families /\ NoFamily \notin Families /\ manifests[f] \in Manifest
      BY <1>1, TypedParts DEF Families, NoFamily, Published
    <3> QED BY <1>1, <2>1, <2>2, <2>5, <3>1 DEF OwnKeyKept, Published
  <2>7. LiveFamilies(manifests') \subseteq LiveFamilies(r[1]) \cup {manifests[f].built}
    BY <1>1, <2>2, <2>5, <2>6, PublishedLive
  <2>k. \/ manifests[f].built = co[c].built /\ co[c].built \in LiveFamilies(manifests)
        \/ {manifests[f].built, co[c].built} \subseteq astray
    BY <1>1, <2>1 DEF OwnKeyKept, LiveFamilies
  <2>l. manifests[f].built \in LiveFamilies(manifests)
    BY <1>1, <2>6 DEF LiveFamilies
  <2>8. LeaseMoves(c) /\ KvMoves(c) /\ ManifestsMove(c)
    <3>1. StaysLive
      BY <1>1, <2>6 DEF StaysLive, LiveFamilies
    <3>2. \A g \in LiveFamilies(manifests') \ LiveFamilies(manifests) :
             g = co[c].built /\ g \in astray
      BY <2>3, <2>5, <2>7, <2>k, <2>l
    <3> QED BY <1>1, <2>1, <3>1, <3>2 DEF LeaseMoves, KvMoves, ManifestsMove
  <2> DEFINE x == [slice[c] EXCEPT !.pc = "drop", !.seen = r[2]]
  <2>9. x \in Slices /\ x.pc = "drop" /\ x.seen = r[2]
    BY <2>5, TypedParts DEF Slices, SlicePcs
  <2>10. slice' = [slice EXCEPT ![c] = x]
    BY <2>2
  <2> HIDE DEF x
  <2>11. LiveFamilies(manifests') \subseteq LiveFamilies(r[2]) \cup astray
    <3>1. co[c].built \in LiveFamilies(r[1])
      BY <1>1, <2>5 DEF LiveFamilies
    <3> QED BY <2>5, <2>7, <2>k, <3>1
  <2>12. RunReady(c)'
    BY <2>9, <2>10, <2>11, TypedParts DEF RunReady, Covered
  <2> QED BY <1>1, <2>1, <2>8, <2>9, <2>10, <2>12, AlarmEffect
<1>7. CASE SweepDrop(c)
  <2> DEFINE r == [co[c] EXCEPT !.phase = "post"]
  <2>1. r.phase = "post" /\ r.built = co[c].built /\ r.started = co[c].started
    BY TypedParts DEF Runs
  <2>2. co' = [co EXCEPT ![c] = r] /\ slice' = Rest(c) /\ UNCHANGED <<manifests, lease>>
    BY <1>7 DEF SweepDrop
  <2> HIDE DEF r
  <2>3. co'[c] = r /\ Resting(c)' /\ \A e \in Coordinators \ {c} : co'[e] = co[e] /\ slice'[e] = slice[e]
    BY <2>2, TypedParts, RestType DEF Rest, AtRest, Resting
  <2>4. OthersKept(c)
    BY <1>7, <1>1, <2>3, OverKeeps DEF SweepDrop, OthersKept
  <2>5. Moves(c)
    BY <1>1, <2>1, <2>3 DEF Moves, RunGoesOn, SameBuild
  <2>6. KvMoves(c)
    <3>1. slice[c].seen \in Published /\ Covered(slice[c].seen)
      BY <1>7, TypedParts DEF SweepDrop, RunReady, Slices
    <3>2. CASE kv' = WithoutFamilies(kv,
                  PlanRetention(kv, slice[c].seen, InFlight(lease.built, slice[c].seen), NoGuard).retire)
      BY <1>1, <2>2, <3>1, <3>2, TypedParts, SweepSpares DEF KvMoves
    <3>3. CASE UNCHANGED kv
      BY <3>3 DEF KvMoves
    <3> QED BY <1>7, <3>2, <3>3 DEF SweepDrop
  <2>7. LeaseMoves(c) /\ ManifestsMove(c)
    BY <2>2 DEF LeaseMoves, ManifestsMove
  <2> QED BY <2>3, <2>4, <2>5, <2>6, <2>7, RestIsReady DEF RunEffect
<1> QED BY <1>3, <1>4, <1>5, <1>6, <1>7

LEMMA RunHasEffect ==
    ASSUME Prompt, ~FenceReadsFail, Typed, NEW c \in Coordinators, RunReady(c), Run(c)
    PROVE  RunEffect(c)
<1>1. UNCHANGED <<prep, astray>>
  BY RunKeepsPreparations
<1> QED BY <1>1, StartEffect, StampEffect, OverEffect, ClaimEffect, UploadEffect, CommitEffect,
           PublishEffect DEF Run, Slice

-----------------------------------------------------------------------------
(***************************************************************************)
(* A step with that effect leaves the writers apart and the store whole.   *)
(***************************************************************************)
LEMMA Apart ==
    /\ \A c \in Coordinators : c \in Nat /\ c \in Actors
    /\ \A d \in Deploys : d \in Actors
    /\ \A c \in Coordinators, d \in Deploys : c # d
BY MaxEpochAssumption, DeploysAssumption DEF Coordinators, Actors

\* At most one coordinator is in the middle of an alarm.
LEMMA OneMidAlarm ==
    ASSUME Safe, NEW c \in Coordinators, NEW e \in Coordinators, ~Resting(c), ~Resting(e)
    PROVE  c = e
<1>1. \A x \in Coordinators : ~Resting(x) => co[x].phase \in {"routing", "publish", "manifest"}
  BY TypedParts DEF Safe, FitsPhase, Resting, Slices, SlicePcs
<1>2. ASSUME NEW x \in Coordinators, NEW y \in Coordinators, ~Resting(x), ~Resting(y), x < y PROVE FALSE
  BY <1>1, <1>2 DEF Safe, WritersExclude, RunsExclude, Ended
<1>3. c = e \/ c < e \/ e < c
  BY Apart
<1> QED BY <1>2, <1>3

\* A run that goes on from rest was the designated one, started since the last
\* fence, and no deploy holds the lease.
LEMMA BeginsAlone ==
    ASSUME Safe, NEW c \in Coordinators, RunGoesOn(c), Resting(c)
    PROVE  /\ \A e \in Coordinators : e > c => co[e].phase = "idle"
           /\ \A d \in Deploys : Active(d) => Unfenced(c, d)
           /\ \A d \in Deploys : dep[d].pc \notin Holding
<1>1. /\ ~Superseded(c) /\ co[c].phase \in {"routing", "publish", "manifest"}
      /\ co[c].phase = "routing" /\ ~co[c].held => DecideUploadLease(lease, MyLease(c)) = "take"
  BY DEF RunGoesOn, MayBegin
<1>2. fence \in Nat /\ pointer \in Nat /\ co[c].started \in Nat /\ co[c].built # NoFamily
  BY <1>1, TypedParts, Apart DEF Safe, Runs, FitsPhase
<1>3. pointer <= c /\ fence <= co[c].started
  BY <1>1, <1>2, Apart DEF Superseded
<1>4. \A d \in Deploys : Active(d) => Unfenced(c, d)
  BY <1>2, <1>3 DEF Safe, WritersExclude, DeployExcludes, Excluded, Unfenced
<1>5. ASSUME NEW d \in Deploys, dep[d].pc \in Holding PROVE FALSE
  <2>1. Active(d) /\ Unfenced(c, d) /\ Excluded(d)
    BY <1>4, <1>5 DEF Active, Holding, Safe, WritersExclude, DeployExcludes
  <2>2. co[c].phase = "routing" /\ ~co[c].held
    BY <1>1, <1>5, <2>1 DEF Excluded, Holding, Ended
  <2>3. lease.built # NoFamily /\ lease.built # co[c].built /\ lease.owner = "deploy"
    BY <1>2, <1>5, <2>1 DEF Excluded, Safe, WritersExclude, BuildsDistinct
  <2> QED BY <1>1, <2>2, <2>3 DEF DecideUploadLease, MyLease
<1> QED BY <1>2, <1>3, <1>4, <1>5, Apart DEF Safe, WritersExclude, RunsExclude

LEMMA EffectBuilds ==
    ASSUME Safe, NEW c \in Coordinators, RunEffect(c)
    PROVE  BuildsDistinct'
<1>1. /\ BuildsDistinct /\ builds \in Nat /\ fence \in Nat
      /\ \A e \in Coordinators : co[e].built \in Nat /\ co[e].started \in Nat
      /\ \A d \in Deploys : dep[d].built \in Nat
  BY TypedParts, MaxBuildsAssumption DEF Safe, WritersExclude, Runs, Jobs
<1>2. UNCHANGED <<fence, dep>> /\ \A e \in Coordinators \ {c} : co'[e] = co[e]
  BY DEF RunEffect, OthersKept
<1>3. CASE RunStarts(c)
  BY <1>1, <1>2, <1>3 DEF RunStarts, BuildsDistinct, NoFamily
<1>4. CASE RunStamped(c)
  BY <1>1, <1>2, <1>4 DEF RunStamped, BuildsDistinct, NoFamily
<1>5. CASE SameBuild(c)
  BY <1>1, <1>2, <1>5 DEF SameBuild, BuildsDistinct, NoFamily
<1> QED BY <1>3, <1>4, <1>5 DEF RunEffect, Moves, RunEnds, RunGoesOn

LEMMA EffectRuns ==
    ASSUME Safe, NEW c \in Coordinators, RunEffect(c)
    PROVE  RunsExclude'
<1>1. /\ OthersKept(c) /\ Moves(c) /\ RunsExclude
  BY DEF RunEffect, Safe, WritersExclude
<1>2. ASSUME NEW e \in Coordinators, e > pointer PROVE co'[e].phase = "idle"
  <2>1. co[e].phase = "idle"
    BY <1>1, <1>2 DEF RunsExclude
  <2>2. CASE e = c
    <3>1. ~(c = pointer)
      BY <1>2, <2>2, TypedParts, Apart DEF Safe
    <3> QED BY <1>1, <2>1, <2>2, <3>1 DEF Moves, RunStarts, RunStamped, RunEnds, RunGoesOn
  <2> QED BY <1>1, <2>1, <2>2 DEF OthersKept
<1>3. ASSUME NEW x \in Coordinators, NEW e \in Coordinators, x < e, ~Resting(x)'
      PROVE  Ended(e)' \/ (co'[e].phase = "build" /\ x \in waits'[e])
  <2>1. CASE x = c
    <3>1. RunGoesOn(c) /\ waits'[e] = waits[e] /\ co'[e] = co[e]
      BY <1>1, <1>3, <2>1, Apart DEF Moves, OthersKept
    <3>2. CASE Resting(c)
      BY <1>3, <2>1, <3>1, <3>2, BeginsAlone, Apart DEF Ended
    <3>3. CASE ~Resting(c)
      BY <1>1, <1>3, <2>1, <3>1, <3>3 DEF RunsExclude, Ended
    <3> QED BY <3>2, <3>3
  <2>2. CASE x # c
    <3>1. ~Resting(x)
      BY <1>1, <1>3, <2>2 DEF OthersKept, Resting
    <3>2. Ended(e) \/ (co[e].phase = "build" /\ x \in waits[e])
      BY <1>1, <1>3, <3>1 DEF RunsExclude
    <3>3. CASE e # c
      BY <1>1, <2>2, <3>2, <3>3, Apart DEF OthersKept, Ended
    <3>4. CASE e = c
      <4>1. CASE RunStarts(c)
        <5>1. x \in MidSequence
          BY <3>1 DEF MidSequence, Resting
        <5> QED BY <2>2, <3>4, <4>1, <5>1 DEF RunStarts
      <4>2. CASE RunStamped(c)
        BY <3>2, <3>4, <4>2 DEF RunStamped, Ended
      <4>3. CASE RunEnds(c)
        BY <3>4, <4>3 DEF RunEnds
      <4>4. CASE RunGoesOn(c)
        BY <3>2, <3>4, <4>4 DEF RunGoesOn, Ended
      <4> QED BY <1>1, <4>1, <4>2, <4>3, <4>4 DEF Moves
    <3> QED BY <3>3, <3>4
  <2> QED BY <2>1, <2>2
<1>4. pointer' = pointer
  BY <1>1 DEF OthersKept
<1> QED BY <1>2, <1>3, <1>4 DEF RunsExclude

\* What the lease names, while a deploy holds it.
LEMMA EffectSparesHolder ==
    ASSUME Safe, NEW c \in Coordinators, RunEffect(c), NEW d \in Deploys, dep[d].pc \in Holding
    PROVE  lease' = lease /\ Resting(c) /\ Resting(c)'
<1>1. Excluded(d)
  BY DEF Safe, WritersExclude, DeployExcludes
<1>2. Resting(c) /\ dep[d].built # NoFamily /\ lease.built = dep[d].built
  BY <1>1 DEF Excluded
<1>3. lease.built # co[c].built
  BY <1>2 DEF Safe, WritersExclude, BuildsDistinct
<1>4. ~RunGoesOn(c)
  BY <1>2, BeginsAlone
<1> QED BY <1>2, <1>3, <1>4 DEF RunEffect, LeaseMoves, Moves

LEMMA EffectExcluded ==
    ASSUME Safe, NEW c \in Coordinators, RunEffect(c), NEW d \in Deploys
    PROVE  Excluded(d)'
<1>1. OthersKept(c) /\ Moves(c) /\ Excluded(d)
  BY DEF RunEffect, Safe, WritersExclude, DeployExcludes
<1>2. /\ dep' = dep /\ fence' = fence /\ (Active(d)' <=> Active(d))
      /\ \A e \in Coordinators \ {c} : co'[e] = co[e] /\ slice'[e] = slice[e]
      /\ \A e \in Coordinators \ {c} : d \in waits[e] => d \in waits'[e]
      /\ \A e \in Coordinators \ {c} : e \in waits[d] => e \in waits'[d]
      /\ ~Resting(c)' => waits'[d] = waits[d]
  BY <1>1, Apart DEF OthersKept, Active
<1>3. \A e \in Coordinators \ {c} :
         /\ (Resting(e)' <=> Resting(e)) /\ (Ended(e)' <=> Ended(e))
         /\ (Unfenced(e, d)' <=> Unfenced(e, d))
  BY <1>2 DEF Resting, Ended, Unfenced
<1>4. RunStamped(c) \/ RunEnds(c) \/ RunGoesOn(c) => (Unfenced(c, d)' <=> Unfenced(c, d))
  BY <1>2 DEF RunStamped, RunEnds, RunGoesOn, SameBuild, Unfenced
<1>5. RunStamped(c) /\ Active(d) => Unfenced(c, d)
  <2>1. fence \in Nat /\ co[c].started \in Nat
    BY TypedParts DEF Safe, Runs
  <2> QED BY <1>1, <2>1 DEF RunStamped, Superseded, Excluded, Unfenced
<1>6. ASSUME dep[d].pc = "settle", ~Resting(c)' PROVE c \in waits'[d]
  <2>1. RunGoesOn(c) /\ Active(d)
    BY <1>1, <1>6 DEF Moves, Active
  <2>2. CASE Resting(c)
    <3>1. Unfenced(c, d)
      BY <2>1, <2>2, BeginsAlone
    <3> QED BY <1>1, <1>6, <2>1, <3>1 DEF Excluded, RunGoesOn, Ended
  <2>3. CASE ~Resting(c)
    BY <1>1, <1>2, <1>6, <2>3 DEF Excluded
  <2> QED BY <2>2, <2>3
<1>7. ASSUME dep[d].pc \in {"settle", "sweep", "drop"}, Unfenced(c, d)'
      PROVE  Ended(c)' \/ (co'[c].phase = "build" /\ d \in waits'[c])
  <2>1. Active(d)
    BY <1>7 DEF Active
  <2>2. CASE RunStarts(c)
    <3>1. d \in MidSequence \cup Settling
      BY <1>7 DEF MidSequence, Settling
    <3> QED BY <2>2, <3>1, Apart DEF RunStarts
  <2>3. CASE RunStamped(c)
    BY <1>1, <1>5, <1>7, <2>1, <2>3 DEF Excluded, RunStamped, Ended
  <2>4. CASE RunEnds(c)
    BY <2>4 DEF RunEnds
  <2>5. CASE RunGoesOn(c)
    BY <1>1, <1>4, <1>7, <2>5 DEF Excluded, RunGoesOn, Ended
  <2> QED BY <1>1, <2>2, <2>3, <2>4, <2>5 DEF Moves
<1>8. ASSUME dep[d].pc \in Holding
      PROVE  Resting(c)' /\ lease' = lease /\ ~RunGoesOn(c)
  BY <1>8, EffectSparesHolder, BeginsAlone
<1>9. ASSUME dep[d].pc \in Holding \ {"sweep", "drop"}, Unfenced(c, d)'
      PROVE  \/ Ended(c)' \/ co'[c].phase = "build"
             \/ co'[c].phase = "routing" /\ ~co'[c].held
  BY <1>1, <1>8, <1>9 DEF Moves, RunStarts, RunStamped, RunEnds
<1>10. ASSUME dep[d].pc \in {"roles", "lease", "purge", "switch"}
       PROVE  /\ Resting(c)' \/ co'[c].phase = "routing"
              /\ Unfenced(c, d)' => \/ Ended(c)' \/ co'[c].phase \in {"build", "routing"}
                                    \/ co'[c].phase = "publish" /\ d \in waits'[c]
  <2>1. Active(d) /\ d \in MidSequence
    BY <1>10 DEF Active, MidSequence
  <2>2. CASE ~RunGoesOn(c)
    BY <1>1, <2>2 DEF Moves, RunStarts, RunStamped, RunEnds
  <2>3. CASE RunGoesOn(c)
    <3>1. Unfenced(c, d) => co[c].phase = "routing" \/ (co[c].phase = "publish" /\ d \in waits[c])
      BY <1>1, <1>10, <2>3 DEF Excluded, RunGoesOn, Ended
    <3>2. co[c].phase = "routing" \/ Resting(c)
      BY <1>1, <1>10 DEF Excluded
    <3>3. CASE Resting(c)
      <4>1. Unfenced(c, d) /\ MayBegin(c) /\ ~Resting(c)'
        BY <2>1, <2>3, <3>3, BeginsAlone DEF RunGoesOn
      <4>2. co[c].phase = "routing"
        BY <3>1, <4>1 DEF MayBegin
      <4> QED BY <2>3, <4>1, <4>2 DEF RunGoesOn
    <3>4. CASE ~Resting(c)
      <4>1. co[c].phase = "routing"
        BY <3>2, <3>4
      <4>2. d \in MidSequence \ {c}
        BY <2>1, Apart
      <4> QED BY <2>3, <4>1, <4>2 DEF RunGoesOn
    <3> QED BY <3>3, <3>4
  <2> QED BY <2>2, <2>3
<1> QED
  <2>1. Active(d)' => dep'[d].at = fence'
    BY <1>1, <1>2 DEF Excluded
  <2>2. dep'[d].pc = "settle" => \A e \in Coordinators : Resting(e)' \/ e \in waits'[d]
    BY <1>1, <1>2, <1>3, <1>6 DEF Excluded
  <2>3. dep'[d].pc \in {"settle", "sweep", "drop"} =>
          \A e \in Coordinators :
             Unfenced(e, d)' => Ended(e)' \/ (co'[e].phase = "build" /\ d \in waits'[e])
    BY <1>1, <1>2, <1>3, <1>7 DEF Excluded
  <2>4. dep'[d].pc \in Holding =>
          /\ \A e \in Coordinators : Resting(e)'
          /\ dep'[d].built # NoFamily /\ lease'.built = dep'[d].built /\ lease'.owner = "deploy"
    BY <1>1, <1>2, <1>3, <1>8 DEF Excluded
  <2>5. dep'[d].pc \in Holding \ {"sweep", "drop"} =>
          \A e \in Coordinators :
             Unfenced(e, d)' => \/ Ended(e)' \/ co'[e].phase = "build"
                                \/ co'[e].phase = "routing" /\ ~co'[e].held
    BY <1>1, <1>2, <1>3, <1>9 DEF Excluded
  <2>6. dep'[d].pc \in {"roles", "lease", "purge", "switch"} =>
          \A e \in Coordinators :
             /\ Resting(e)' \/ co'[e].phase = "routing"
             /\ Unfenced(e, d)' => \/ Ended(e)' \/ co'[e].phase \in {"build", "routing"}
                                   \/ co'[e].phase = "publish" /\ d \in waits'[e]
    BY <1>1, <1>2, <1>3, <1>10 DEF Excluded
  <2> QED BY <2>1, <2>2, <2>3, <2>4, <2>5, <2>6 DEF Excluded

\* A family that stays whole: every one but those a sweep takes, and no sweep
\* takes a live one.
LEMMA WholeKept ==
    ASSUME kv \in Store, NEW b \in Families, Complete(kv, b), kv[b] \subseteq kv'[b] \/ kv'[b] = kv[b]
    PROVE  Complete(kv', b)
BY DEF Complete

LEMMA LiveAreFamilies ==
    ASSUME NEW pub \in Published
    PROVE  LiveFamilies(pub) \subseteq Families
<1>1. \A k \in ManifestKeys : pub[k].built \in 0..MaxBuilds
  BY DEF Published, Manifest
<1> QED BY <1>1, MaxBuildsAssumption DEF LiveFamilies, Families, NoFamily

LEMMA EffectReady ==
    ASSUME Safe, NEW c \in Coordinators, RunEffect(c)
    PROVE  RunsReady'
<1> SUFFICES ASSUME NEW e \in Coordinators PROVE RunReady(e)'
  BY DEF RunsReady
<1>1. CASE e = c
  BY <1>1 DEF RunEffect
<1>2. CASE e # c /\ Resting(e)
  BY <1>2 DEF RunEffect, OthersKept, Resting, RunReady
<1>3. CASE e # c /\ ~Resting(e)
  <2>1. Resting(c)
    BY <1>3, OneMidAlarm
  <2>2. co'[e] = co[e] /\ slice'[e] = slice[e] /\ manifests' = manifests /\ astray' = astray
        /\ \A f \in Families : kv[f] \subseteq kv'[f]
    BY <1>3, <2>1 DEF RunEffect, OthersKept, KvMoves, ManifestsMove
  <2>3. RunReady(e)
    BY DEF Safe, WritersExclude, RunsReady
  <2>4. slice[e].pc \in {"fence", "commit", "mirror"} => co[e].built \in Families
    BY TypedParts DEF Safe, FitsPhase, Runs, Families, NoFamily
  <2>5. slice[e].pc \in {"fence", "commit", "mirror"} =>
          co[e].built \in astray \/ Complete(kv', co[e].built)
    BY <2>2, <2>3, <2>4, WholeKept, TypedParts DEF Safe, RunReady, Whole
  <2> QED BY <2>2, <2>3, <2>5 DEF RunReady, Covered, OwnKeyKept, Whole
<1> QED BY <1>1, <1>2, <1>3

LEMMA EffectDeployReady ==
    ASSUME Safe, NEW c \in Coordinators, RunEffect(c), NEW d \in Deploys
    PROVE  DeployReady(d)'
<1>1. /\ DeployReady(d) /\ Excluded(d) /\ dep' = dep /\ astray' = astray
      /\ KvMoves(c) /\ ManifestsMove(c)
  BY DEF Safe, WritersExclude, DeploysReady, DeployExcludes, RunEffect, OthersKept
<1>2. CASE dep[d].pc \in Holding
  <2>1. Resting(c) /\ dep[d].built # NoFamily
    BY <1>1, <1>2, EffectSparesHolder DEF Excluded
  <2>2. manifests' = manifests /\ \A f \in Families : kv[f] \subseteq kv'[f]
    BY <1>1, <2>1 DEF KvMoves, ManifestsMove
  <2>3. dep[d].built \in Families
    BY <2>1, TypedParts DEF Safe, Jobs, Families, NoFamily
  <2>4. kv[dep[d].built] \subseteq kv'[dep[d].built]
    BY <2>2, <2>3
  <2>5. Complete(kv, dep[d].built) => Complete(kv', dep[d].built)
    BY <2>4 DEF Complete
  <2> QED BY <1>1, <1>2, <2>2, <2>4, <2>5 DEF DeployReady, Covered, Holding, Whole
<1>3. CASE dep[d].pc \in {"roles", "lease", "purge"}
  <2>1. Resting(c) \/ co[c].phase = "routing"
    BY <1>1, <1>3 DEF Excluded
  <2>2. dep[d].fmt \in Formats
    BY <1>3, TypedParts DEF Safe, FormatChosen
  <2>3. /\ LiveFamilies(manifests') \subseteq LiveFamilies(manifests)
        /\ manifests'[dep[d].fmt].built \in {manifests[dep[d].fmt].built, NoFamily}
    BY <1>1, <2>1, <2>2 DEF ManifestsMove
  <2> QED BY <1>1, <1>3, <2>3 DEF DeployReady, Covered
<1>4. CASE dep[d].pc \notin Holding \cup {"roles", "lease", "purge"}
  BY <1>1, <1>4 DEF DeployReady, Holding
<1> QED BY <1>2, <1>3, <1>4

\* ManifestComplete, said of the families.
LEMMA CompleteAsLive ==
    ASSUME astray \subseteq Families
    PROVE  ManifestComplete <=> \A f \in LiveFamilies(manifests) : f \in astray \/ Complete(kv, f)
BY DEF ManifestComplete, LiveFamilies, Whole, Families, NoFamily

LEMMA EffectComplete ==
    ASSUME Safe, NEW c \in Coordinators, RunEffect(c)
    PROVE  ManifestComplete'
<1>1. \A f \in LiveFamilies(manifests) : (f \in astray \/ Complete(kv, f)) /\ f \in Families
  BY TypedParts, CompleteAsLive, LiveAreFamilies DEF Safe
<1>2. KvMoves(c) /\ ManifestsMove(c) /\ astray' = astray
  BY DEF RunEffect, OthersKept
<1> SUFFICES \A f \in LiveFamilies(manifests') : f \in astray' \/ Complete(kv', f)
  BY DEF ManifestComplete, LiveFamilies, Whole
<1>3. CASE manifests' = manifests
  <2>1. \A f \in LiveFamilies(manifests) \ astray : kv[f] \subseteq kv'[f]
    BY <1>1, <1>2 DEF KvMoves
  <2> QED BY <1>1, <1>2, <1>3, <2>1 DEF Complete
<1>4. CASE manifests' # manifests
  BY <1>1, <1>2, <1>4 DEF ManifestsMove
<1> QED BY <1>3, <1>4

\* While one coordinator is in the middle of an alarm, no other can go on.
LEMMA OthersStopped ==
    ASSUME Safe, NEW c \in Coordinators, NEW e \in Coordinators, e # c, ~Resting(c)
    PROVE  MayGoOn(e) => co[e].phase \in {"idle", "retire", "build"}
<1>1. co[c].phase \in {"routing", "publish", "manifest"}
  BY TypedParts DEF Safe, FitsPhase, Resting, Slices, SlicePcs
<1>2. ~(c > pointer)
  BY <1>1 DEF Safe, WritersExclude, RunsExclude
<1>3. Resting(e)
  BY OneMidAlarm
<1>4. CASE c < e
  BY <1>4 DEF Safe, WritersExclude, RunsExclude, Ended
<1>5. CASE e < c
  <2>1. pointer > e
    BY <1>2, <1>5, TypedParts, Apart DEF Safe
  <2> QED BY <1>3, <2>1 DEF MayGoOn, Superseded
<1> QED BY <1>4, <1>5, Apart

\* The invariant RunsBacked, for the run that takes the step.
LEMMA BackedKept ==
    ASSUME NEW c \in Coordinators, Backed(c), UNCHANGED <<lease, manifests, astray>>,
           co'[c].built = co[c].built, co[c].phase = "manifest" => co'[c].phase = "manifest",
           MayGoOn(c)' => MayGoOn(c), Claimed(c)' => Claimed(c)
    PROVE  Backed(c)'
BY DEF Backed, HasPublished

LEMMA OverIsUnclaimed ==
    ASSUME NEW c \in Coordinators, Resting(c)',
           \/ co'[c].phase \in {"idle", "build", "post", "retire"}
           \/ co'[c].phase = "routing" /\ ~co'[c].held
    PROVE  Backed(c)'
BY DEF Backed, Claimed, Resting

LEMMA EndBacked ==
    ASSUME Typed, NEW c \in Coordinators, BeginRetire(c) \/ EndFailed(c)
    PROVE  Backed(c)'
<1>1. slice'[c] = AtRest /\ co'[c].phase \in {"idle", "retire"}
  BY TypedParts DEF BeginRetire, EndFailed, Rest, Runs
<1> QED BY <1>1, OverIsUnclaimed DEF Resting, AtRest

\* A step within an alarm of a run that goes on as it was.
LEMMA AlarmBacked ==
    ASSUME Typed, NEW c \in Coordinators, Backed(c), MayGoOn(c), Claimed(c),
           UNCHANGED <<lease, manifests, astray, co>>
    PROVE  Backed(c)'
BY DEF Backed, HasPublished

LEMMA RunBacked ==
    ASSUME ~FenceReadsFail, Typed, NEW c \in Coordinators, Backed(c), RunReady(c), Run(c),
           UNCHANGED <<prep, astray>>
    PROVE  Backed(c)'
<1>1. CASE StartImport(c) \/ RetirePurged(c) \/ FinishRun(c) \/ StampBuild(c) \/ SweepDrop(c)
  <2>1. Resting(c)'
    BY <1>1, TypedParts, RestType
    DEF StartImport, RetirePurged, FinishRun, StampBuild, SweepDrop, AtAlarm, Resting, Rest, AtRest
  <2>2. CASE StampBuild(c)
    <3>1. ~co[c].held
      BY <2>2, TypedParts DEF StampBuild, AtAlarm, FitsPhase
    <3>2. co'[c].phase = "routing" /\ ~co'[c].held
      BY <2>2, <3>1, TypedParts DEF StampBuild, Runs
    <3> QED BY <2>1, <3>2, OverIsUnclaimed
  <2>3. CASE ~StampBuild(c)
    <3>1. CASE StartImport(c)
      <4>1. co'[c].phase = "build"
        BY <3>1, TypedParts DEF StartImport, Runs
      <4> QED BY <2>1, <4>1, OverIsUnclaimed
    <3>2. CASE RetirePurged(c)
      <4>1. co'[c].phase = "idle"
        BY <3>2, TypedParts DEF RetirePurged, Runs
      <4> QED BY <2>1, <4>1, OverIsUnclaimed
    <3>3. CASE FinishRun(c)
      <4>1. co'[c].phase = "idle"
        BY <3>3, TypedParts DEF FinishRun, Runs
      <4> QED BY <2>1, <4>1, OverIsUnclaimed
    <3>4. CASE SweepDrop(c)
      <4>1. co'[c].phase = "post"
        BY <3>4, TypedParts DEF SweepDrop, Runs
      <4> QED BY <2>1, <4>1, OverIsUnclaimed
    <3> QED BY <1>1, <2>3, <3>1, <3>2, <3>3, <3>4
  <2> QED BY <2>2, <2>3
<1>2. CASE Retire(c) \/ FailRun(c)
  BY <1>2, EndBacked DEF Retire, FailRun
<1>3. CASE KillSlice(c)
  <2>1. UNCHANGED <<lease, manifests, astray, co>> /\ ~Resting(c) /\ slice'[c] = AtRest
    BY <1>3, TypedParts DEF KillSlice, kvVars, Resting, Rest
  <2> QED BY <2>1, BackedKept DEF MayGoOn, Claimed, AtRest
<1>4. CASE ClaimLease(c)
  <2>1. co[c].phase = "routing" /\ ~co[c].held
    BY <1>4 DEF ClaimLease, AtAlarm
  <2>2. CASE Goto(c, "claim") /\ UNCHANGED <<co, waits>>
    BY <2>1, <2>2, TypedParts, GotoType DEF Backed, Claimed, SlicePcs
  <2> QED BY <1>4, <2>2, EndBacked DEF ClaimLease
<1>5. CASE PutLease(c) \/ RenewLease(c)
  BY <1>5, TypedParts DEF PutLease, RenewLease, MyLease, Backed
<1>6. CASE ReadRoles(c)
  <2>1. co[c].phase = "routing" /\ Claimed(c) /\ MayGoOn(c) /\ UNCHANGED <<lease, co>>
    BY <1>6, TypedParts DEF ReadRoles, FitsPhase, Claimed, MayGoOn, Resting
  <2> QED BY <2>1 DEF Backed, HasPublished
<1>7. CASE MakeRoom(c)
  <2>1. co[c].phase = "routing" /\ Claimed(c) /\ MayGoOn(c)
    BY <1>7, TypedParts DEF MakeRoom, FitsPhase, Claimed, MayGoOn, Resting
  <2>2. CASE EndFailed(c)
    BY <2>2, EndBacked
  <2>3. CASE /\ co' = [co EXCEPT ![c].held = TRUE]
             /\ slice' = [Rest(c) EXCEPT ![c].pc = "filter"]
             /\ UNCHANGED <<lease, waits>>
    <3>1. co'[c].built = co[c].built
      BY <2>3, TypedParts DEF Runs
    <3> QED BY <2>1, <2>3, <3>1 DEF Backed, HasPublished
  <2>4. EndFailed(c) \/ (/\ co' = [co EXCEPT ![c].held = TRUE]
                          /\ slice' = [Rest(c) EXCEPT ![c].pc = "filter"]
                          /\ UNCHANGED <<lease, waits>>)
    BY <1>7, Zenon DEF MakeRoom
  <2> QED BY <2>2, <2>3, <2>4
<1>8. CASE PutFilter(c)
  <2>1. co[c].phase = "routing" /\ Claimed(c) /\ MayGoOn(c) /\ UNCHANGED lease
        /\ co'[c].built = co[c].built
    BY <1>8, TypedParts DEF PutFilter, FitsPhase, Claimed, MayGoOn, Resting, Runs
  <2> QED BY <2>1 DEF Backed, HasPublished
<1>9. CASE RenewFence(c) \/ ChunkFence(c) \/ ReadReplaced(c) \/ CommitFence(c)
  <2>1. UNCHANGED <<lease, manifests, astray>> /\ Claimed(c)
    BY <1>9, TypedParts
    DEF RenewFence, ChunkFence, ReadReplaced, CommitFence, kvVars, AtAlarm, FitsPhase, Claimed
  <2>2. CASE WritePasses(c) /\ UNCHANGED co
    BY <2>1, <2>2, AlarmBacked DEF WritePasses, WriteStops, MayGoOn
  <2> QED BY <1>9, <2>2, EndBacked DEF RenewFence, ChunkFence, ReadReplaced, CommitFence
<1>10. CASE PutChunk(c)
  <2>1. /\ co[c].phase = "publish" /\ Claimed(c) /\ MayGoOn(c) /\ UNCHANGED <<lease, manifests>>
        /\ co'[c].built = co[c].built
    BY <1>10, TypedParts DEF PutChunk, FitsPhase, Claimed, MayGoOn, Resting, Runs
  <2> QED BY <2>1 DEF Backed, HasPublished
<1>11. CASE CheckChunks(c)
  <2>1. Claimed(c) /\ MayGoOn(c) /\ UNCHANGED manifests
    BY <1>11, TypedParts DEF CheckChunks, FitsPhase, Claimed, MayGoOn, Resting
  <2>2. CASE UNCHANGED <<lease, co>>
    BY <2>1, <2>2, AlarmBacked
  <2> QED BY <1>11, <2>2, EndBacked DEF CheckChunks
<1>12. CASE WriteManifest(c) \/ WriteMirror(c) \/ ReleaseLease(c) \/ SweepRead(c)
  <2>1. /\ co[c].phase = "manifest" /\ UNCHANGED co /\ co[c].built # NoFamily
        /\ co[c].fmt \in Formats /\ co[c].fmt \in ManifestKeys /\ co[c].fmt # Legacy
    <3>1. co[c].phase = "manifest" /\ UNCHANGED co
      BY <1>12, TypedParts DEF WriteManifest, WriteMirror, ReleaseLease, SweepRead, FitsPhase
    <3>2. co[c].built # NoFamily /\ co[c].fmt \in Formats
      BY <3>1, TypedParts DEF FitsPhase
    <3> QED BY <3>1, <3>2 DEF ManifestKeys, Formats, Legacy
  <2>2. MyManifest(c).built = co[c].built
    BY <2>1, TypedParts, NextManifestType DEF MyManifest, Runs, Slices
  <2>3. CASE WriteManifest(c)
    <3>1. manifests'[co[c].fmt].built = co[c].built
      BY <2>1, <2>2, <2>3, TypedParts DEF WriteManifest, Published
    <3> QED BY <2>1, <3>1 DEF Backed, HasPublished, LiveFamilies
  <2>4. CASE ~WriteManifest(c)
    <3>1. OwnKeyKept(c)
      BY <1>12, <2>4 DEF WriteMirror, ReleaseLease, SweepRead, RunReady
    <3>2. manifests'[co[c].fmt] = manifests[co[c].fmt]
      <4>1. CASE WriteMirror(c) \/ ReleaseLease(c)
        BY <2>1, <4>1, TypedParts DEF WriteMirror, ReleaseLease, Published
      <4>2. CASE SweepRead(c)
        <5> DEFINE own == [manifests EXCEPT ![co[c].fmt] = MyManifest(c)]
        <5>1. own \in Published
          <6>1. MyManifest(c) \in Manifest
            BY <2>1, TypedParts, NextManifestType DEF MyManifest, Runs, Slices
          <6> QED BY <2>1, <6>1, TypedParts DEF Published
        <5>2. PICK r \in Retirements(own, co[c].fmt) :
                  manifests' = [r[1] EXCEPT ![co[c].fmt] = manifests[co[c].fmt]]
          BY <4>2 DEF SweepRead
        <5>3. r[1] \in Published
          BY <2>1, <5>1, RetirementsType
        <5> QED BY <2>1, <5>2, <5>3 DEF Published
      <4> QED BY <1>12, <2>4, <4>1, <4>2
    <3> QED BY <2>1, <3>1, <3>2 DEF OwnKeyKept, Backed, HasPublished, LiveFamilies
  <2> QED BY <2>3, <2>4
<1> QED BY <1>1, <1>2, <1>3, <1>4, <1>5, <1>6, <1>7, <1>8, <1>9, <1>10, <1>11, <1>12 DEF Run, Slice

LEMMA EffectBacked ==
    ASSUME ~FenceReadsFail, Safe, NEW c \in Coordinators, Run(c), RunEffect(c)
    PROVE  RunsBacked'
<1> SUFFICES ASSUME NEW e \in Coordinators PROVE Backed(e)'
  BY DEF RunsBacked
<1>1. Backed(e) /\ RunReady(e) /\ Typed /\ OthersKept(c) /\ UNCHANGED <<prep, astray>>
  BY DEF Safe, WritersExclude, RunsBacked, RunsReady, RunEffect, OthersKept
<1>2. CASE e = c
  BY <1>1, <1>2, RunBacked
<1>3. CASE e # c
  <2>1. /\ co'[e] = co[e] /\ slice'[e] = slice[e]
        /\ (MayGoOn(e)' <=> MayGoOn(e)) /\ (Claimed(e)' <=> Claimed(e))
    BY <1>1, <1>3 DEF OthersKept, MayGoOn, Claimed, Resting, Superseded
  <2>2. CASE ~Resting(c)
    <3>1. MayGoOn(e) => ~Claimed(e)
      BY <1>1, <1>3, <2>2, OthersStopped, TypedParts DEF Claimed, FitsPhase
    <3> QED BY <2>1, <3>1 DEF Backed
  <2>3. CASE Resting(c)
    <3>1. manifests' = manifests /\ (lease' = lease \/ (lease' = NoLease /\ lease.built = co[c].built))
      BY <2>3 DEF RunEffect, ManifestsMove, LeaseMoves
    <3>2. Claimed(e) => co[e].built # NoFamily
      BY TypedParts DEF Safe, Claimed, FitsPhase
    <3>3. co[e].built # NoFamily => co[c].built # co[e].built
      BY <1>3 DEF Safe, WritersExclude, BuildsDistinct
    <3> QED BY <1>1, <2>1, <3>1, <3>2, <3>3 DEF Backed, HasPublished
  <2> QED BY <2>2, <2>3
<1> QED BY <1>2, <1>3

\* The families a sweep of a deploy's has seen stay seen, and what is published
\* or may be, in a step of a coordinator's, is one of them.
LEMMA EffectInformed ==
    ASSUME Safe, NEW c \in Coordinators, RunEffect(c), NEW d \in Deploys
    PROVE  SawEveryone(d)'
<1>1. /\ OthersKept(c) /\ Moves(c) /\ ManifestsMove(c) /\ SawEveryone(d)
      /\ UNCHANGED <<prep, astray, pointer, fence>>
  BY DEF RunEffect, OthersKept, Safe, WritersExclude, SweepsInformed
<1> SUFFICES ASSUME prep[d].pc \in {"lease", "drop"} PROVE SawEveryone(d)'
  BY <1>1 DEF SawEveryone
<1>2. \A f : SawFamily(d, f)' <=> SawFamily(d, f)
  BY <1>1 DEF SawFamily
<1>3. \A f \in LiveFamilies(manifests') : SawFamily(d, f)
  <2>1. CASE manifests' = manifests
    BY <1>1, <2>1 DEF SawEveryone
  <2>2. CASE manifests' # manifests
    <3>1. ~Resting(c)
      BY <1>1, <2>2 DEF ManifestsMove
    <3>2. co[c].phase = "manifest" => SawFamily(d, co[c].built)
      BY <1>1, <3>1 DEF SawEveryone, MayGoOn
    <3> QED BY <1>1, <2>2, <3>2 DEF ManifestsMove, SawEveryone
  <2> QED BY <2>1, <2>2
<1>4. ASSUME NEW e \in Coordinators, MayGoOn(e)', co'[e].phase \in {"publish", "manifest"}
      PROVE  \/ SawFamily(d, co'[e].built)
             \/ co'[e].phase = "publish" /\ Resting(e)' /\ d \in waits'[e]
  <2>1. CASE e # c
    <3>1. /\ co'[e] = co[e] /\ (Resting(e)' <=> Resting(e)) /\ MayGoOn(e)
          /\ d \in waits[e] => d \in waits'[e]
      BY <1>1, <1>4, <2>1, Apart DEF OthersKept, Resting, MayGoOn, Superseded
    <3> QED BY <1>1, <1>4, <3>1 DEF SawEveryone
  <2>2. CASE e = c
    <3>1. RunGoesOn(c)
      BY <1>1, <1>4, <2>2 DEF Moves, RunStarts, RunStamped, RunEnds, Ended
    <3>2. MayGoOn(c) /\ co'[c].built = co[c].built
      BY <3>1 DEF RunGoesOn, MayBegin, MayGoOn, SameBuild
    <3>3. CASE co[c].phase = "routing"
      <4>1. co'[c].phase = "publish" /\ waits'[c] = MidSequence \ {c} /\ Resting(c)'
        BY <1>4, <2>2, <3>1, <3>3 DEF RunGoesOn
      <4>2. d \in MidSequence \ {c}
        BY Apart DEF MidSequence, PrepSteps
      <4> QED BY <2>2, <4>1, <4>2
    <3>4. CASE co[c].phase \in {"publish", "manifest"}
      <4>1. SawFamily(d, co[c].built) \/ (co[c].phase = "publish" /\ Resting(c) /\ d \in waits[c])
        BY <1>1, <3>2, <3>4 DEF SawEveryone
      <4>2. ~(co[c].phase = "publish" /\ Resting(c) /\ d \in waits[c])
        BY <3>1 DEF RunGoesOn, MayBegin
      <4> QED BY <2>2, <3>2, <4>1, <4>2
    <3> QED BY <3>1, <3>3, <3>4 DEF RunGoesOn
  <2> QED BY <2>1, <2>2
<1> QED BY <1>1, <1>2, <1>3, <1>4 DEF SawEveryone, SawFamily

LEMMA RunSafe ==
    ASSUME Prompt, ~FenceReadsFail, Safe, Typed', NEW c \in Coordinators, Run(c)
    PROVE  Safe'
<1>1. RunEffect(c)
  BY RunHasEffect DEF Safe, WritersExclude, RunsReady
<1>2. OneDeploy' /\ PreparedFirst'
  BY <1>1 DEF RunEffect, OthersKept, Safe, WritersExclude, OneDeploy, PreparedFirst, UnderWay,
     Active, Preparing
<1>3. DeployExcludes' /\ DeploysReady' /\ SweepsInformed'
  BY <1>1, EffectExcluded, EffectDeployReady, EffectInformed
  DEF DeployExcludes, DeploysReady, SweepsInformed
<1>4. SlicesFitPhases' /\ FormatChosen' /\ CopyChosen'
  BY DEF Typed
<1> QED BY <1>1, <1>2, <1>3, <1>4, EffectBuilds, EffectRuns, EffectReady, EffectComplete, EffectBacked
       DEF Safe, WritersExclude

-----------------------------------------------------------------------------
(***************************************************************************)
(* What a step of deploy d is to the others.                               *)
(***************************************************************************)
JobKvMoves ==
    \/ \A f \in Families : kv[f] \subseteq kv'[f]
    \/ /\ \A c \in Coordinators : Resting(c) \/ co[c].phase = "routing"
       /\ manifests' = manifests
       /\ \A f \in Families \cap (LiveFamilies(manifests) \ astray) : kv'[f] = kv[f]

JobManifestsMove ==
    \/ manifests' = manifests
    \/ /\ kv' = kv
       /\ StaysLive
       /\ \A c \in Coordinators : Resting(c)
       /\ \A f \in LiveFamilies(manifests') \ LiveFamilies(manifests) : Complete(kv, f)

JobFrame(d) ==
    /\ UNCHANGED <<pointer, co, slice, prep, astray>>
    /\ \A e \in Deploys \ {d} : dep'[e] = dep[e]
    /\ \A c, e \in Coordinators : e \in waits[c] => e \in waits'[c]

JobEffect(d) ==
    /\ JobFrame(d)
    /\ fence' = fence \/ fence' = fence + 1
    /\ \/ builds' = builds /\ dep'[d].built = dep[d].built
       \/ builds' = builds + 1 /\ dep'[d].built = builds + 1
    /\ JobKvMoves /\ JobManifestsMove
    /\ Excluded(d)' /\ DeployReady(d)'

\* A step of a deploy that changes its record alone.
LEMMA JobFacts ==
    ASSUME Typed, NEW d \in Deploys, NEW j \in Jobs, dep' = [dep EXCEPT ![d] = j]
    PROVE  dep'[d] = j /\ \A e \in Deploys \ {d} : dep'[e] = dep[e]
BY TypedParts

LEMMA RunsKept ==
    ASSUME UNCHANGED <<co, slice>>, NEW d \in Deploys, dep'[d].at = dep[d].at, NEW c \in Coordinators
    PROVE  /\ (Resting(c)' <=> Resting(c)) /\ (Ended(c)' <=> Ended(c))
           /\ (Unfenced(c, d)' <=> Unfenced(c, d))
BY DEF Resting, Ended, Unfenced

LEMMA StepOf ==
    ASSUME Typed, NEW d \in Deploys, NEW pc \in DeployPcs, Job(d, pc)
    PROVE  /\ dep'[d].pc = pc /\ dep'[d].fmt = dep[d].fmt /\ dep'[d].built = dep[d].built
           /\ dep'[d].at = dep[d].at /\ dep'[d].done = dep[d].done /\ dep'[d].seen = dep[d].seen
           /\ \A e \in Deploys \ {d} : dep'[e] = dep[e]
<1> DEFINE j == [dep[d] EXCEPT !.pc = pc]
<1>1. /\ j \in Jobs /\ j.pc = pc /\ j.fmt = dep[d].fmt /\ j.built = dep[d].built
      /\ j.at = dep[d].at /\ j.done = dep[d].done /\ j.seen = dep[d].seen
  BY TypedParts DEF Jobs
<1>2. dep' = [dep EXCEPT ![d] = j]
  BY DEF Job
<1> HIDE DEF j
<1> QED BY <1>1, <1>2, JobFacts

LEMMA UploadBegins ==
    ASSUME Typed, NEW d \in Deploys, BeginDeployUpload(d)
    PROVE  /\ dep'[d].pc = "upload" /\ dep'[d].fmt = dep[d].fmt /\ dep'[d].built = dep[d].built
           /\ dep'[d].at = dep[d].at /\ dep'[d].done = dep[d].done
           /\ \A e \in Deploys \ {d} : dep'[e] = dep[e]
           /\ \A c, e \in Coordinators : e \in waits[c] => e \in waits'[c]
<1> DEFINE j == [dep[d] EXCEPT !.pc = "upload", !.seen = NothingPublished]
<1>1. /\ j \in Jobs /\ j.pc = "upload" /\ j.fmt = dep[d].fmt /\ j.built = dep[d].built
      /\ j.at = dep[d].at /\ j.done = dep[d].done
  BY DepTyped, PcsOfDeploys, NothingPublishedType DEF Jobs
<1>2. dep' = [dep EXCEPT ![d] = j]
  BY DEF BeginDeployUpload
<1> HIDE DEF j
<1>3. \A c, e \in Coordinators : e \in waits[c] => e \in waits'[c]
  BY TypedParts, Apart DEF BeginDeployUpload, Over
<1> QED BY <1>1, <1>2, <1>3, JobFacts

LEMMA DeployOver ==
    ASSUME Typed, NEW d \in Deploys, SequenceOver(d) \/ UNCHANGED waits
    PROVE  \A c, e \in Coordinators : e \in waits[c] => e \in waits'[c]
BY TypedParts, Apart DEF SequenceOver, Over

\* A job that is over excludes nobody and promises nothing.
LEMMA OverIsQuiet ==
    ASSUME NEW d \in Deploys, dep'[d].pc \in {"done", "dead"}
    PROVE  Excluded(d)' /\ DeployReady(d)'
BY DEF Excluded, DeployReady, Active, Holding

\* While a deploy holds the lease, or moves on from one step of it to another.
LEMMA HoldingKept ==
    ASSUME Safe, NEW d \in Deploys, dep[d].pc \in Holding, dep'[d].pc \in Holding,
           dep'[d].pc \in {"sweep", "drop"} => dep[d].pc \in {"sweep", "drop"},
           UNCHANGED <<co, slice, fence, lease>>,
           dep'[d].built = dep[d].built, dep'[d].at = dep[d].at,
           dep'[d].pc \in {"sweep", "drop"} => waits' = waits
    PROVE  Excluded(d)'
<1>1. Excluded(d) /\ Active(d) /\ (dep[d].at = fence)
  BY DEF Safe, WritersExclude, DeployExcludes, Active, Holding, Excluded
<1>2. dep'[d].pc \notin {"settle", "roles", "lease", "purge", "switch"}
  BY DEF Holding
<1>3. \A c \in Coordinators : Resting(c)'
  BY <1>1, RunsKept DEF Excluded
<1>4. dep'[d].built # NoFamily /\ lease'.built = dep'[d].built /\ lease'.owner = "deploy"
  BY <1>1 DEF Excluded
<1>5. dep'[d].pc \in {"settle", "sweep", "drop"} =>
        \A c \in Coordinators :
           Unfenced(c, d)' => Ended(c)' \/ (co'[c].phase = "build" /\ d \in waits'[c])
  BY <1>1, <1>2, RunsKept DEF Excluded
<1>6. \A c \in Coordinators :
         Unfenced(c, d)' => \/ Ended(c)' \/ co'[c].phase = "build"
                            \/ co'[c].phase = "routing" /\ ~co'[c].held
  <2>1. CASE dep[d].pc \in {"sweep", "drop"}
    BY <1>1, <2>1, RunsKept DEF Excluded
  <2>2. CASE dep[d].pc \notin {"sweep", "drop"}
    BY <1>1, <2>2, RunsKept DEF Excluded, Holding
  <2> QED BY <2>1, <2>2
<1>7. dep'[d].at = fence'
  BY <1>1
<1> QED BY <1>2, <1>3, <1>4, <1>5, <1>6, <1>7 DEF Excluded

\* The fence, and the lease.
LEMMA FenceEffect ==
    ASSUME Prompt, Safe, NEW d \in Deploys, WriteDeployFence(d),
           UNCHANGED <<prep, astray>>
    PROVE  JobEffect(d)
<1> DEFINE n == fence + 1
           f == prep[d].fmt
<1>1. f \in Formats /\ dep' = [dep EXCEPT ![d].pc = "settle", ![d].fmt = f, ![d].at = n]
  BY TypedParts DEF WriteDeployFence, Safe, CopyChosen
<1> HIDE DEF f
<1> DEFINE j == [dep[d] EXCEPT !.pc = "settle", !.fmt = f, !.at = n]
<1>j. dep' = [dep EXCEPT ![d] = j]
  BY <1>1
<1>2. fence \in Nat /\ n \in Nat /\ n > fence /\ fence' = n /\ dep[d].pc = "off" /\ dep[d].done = 0
      /\ UNCHANGED <<kvVars, pointer, builds, co, slice>>
  BY TypedParts DEF WriteDeployFence, Safe, WritersExclude, DeploysReady, DeployReady
<1> HIDE DEF n
<1>3. /\ j \in Jobs /\ j.pc = "settle" /\ j.at = n
      /\ j.built = dep[d].built /\ j.done = dep[d].done
  <2>1. f \in Formats \cup {0} /\ n \in Nat
    BY <1>1, <1>2
  <2> QED BY <2>1, SafeDepTyped, PcsOfDeploys DEF Jobs
<1> HIDE DEF j
<1>4. dep'[d] = j /\ \A e \in Deploys \ {d} : dep'[e] = dep[e]
  BY <1>j, <1>3, JobFacts DEF Safe
<1>5. waits'[d] = MidSequence \ {d} /\ \A a \in Actors \ {d} : waits'[a] = waits[a]
  BY TypedParts, Apart DEF WriteDeployFence, LongBegins, Safe
<1>6. JobFrame(d)
  BY <1>2, <1>4, <1>5, Apart DEF JobFrame
<1>7. Excluded(d)'
  <2>1. \A c \in Coordinators : ~Resting(c)' => c \in waits'[d]
    BY <1>2, <1>5, Apart DEF Resting, MidSequence
  <2>2. \A c \in Coordinators : ~Unfenced(c, d)'
    <3>1. \A c \in Coordinators : co[c].started \in Nat /\ co[c].started <= fence
      BY TypedParts DEF Safe, WritersExclude, BuildsDistinct, Runs
    <3> QED BY <1>2, <1>3, <1>4, <3>1 DEF Unfenced
  <2> QED BY <1>2, <1>3, <1>4, <2>1, <2>2 DEF Excluded, Holding
<1>8. DeployReady(d)'
  BY <1>2, <1>3, <1>4 DEF DeployReady
<1>9. JobKvMoves /\ JobManifestsMove
  BY <1>2 DEF JobKvMoves, JobManifestsMove, kvVars
<1> QED BY <1>2, <1>3, <1>4, <1>6, <1>7, <1>8, <1>9 DEF JobEffect, n

LEMMA TakeEffect ==
    ASSUME Safe, NEW d \in Deploys, TakeLease(d),
           UNCHANGED <<prep, astray>>
    PROVE  JobEffect(d)
<1> DEFINE b == builds + 1
           j == [dep[d] EXCEPT !.pc = "sweep", !.built = b]
<1>b. b \in 0..MaxBuilds /\ b # NoFamily
  BY TypedParts, MaxBuildsAssumption DEF TakeLease, Safe, NoFamily
<1>1. /\ dep[d].pc = "settle" /\ waits[d] = {} /\ builds' = b /\ Active(d)
      /\ lease' = [built |-> b, owner |-> "deploy", epoch |-> dep[d].at]
      /\ dep' = [dep EXCEPT ![d] = j]
      /\ UNCHANGED <<kv, manifests, pointer, fence, co, slice, waits>>
  BY DEF TakeLease, LongMayEnd, Active
<1> HIDE DEF b
<1>2. j \in Jobs /\ j.pc = "sweep" /\ j.built = b /\ j.at = dep[d].at /\ j.done = dep[d].done
  BY <1>b, SafeDepTyped, PcsOfDeploys DEF Jobs
<1> HIDE DEF j
<1>3. dep'[d] = j /\ \A e \in Deploys \ {d} : dep'[e] = dep[e]
  BY <1>1, <1>2, JobFacts DEF Safe
<1>4. Excluded(d) /\ DeployReady(d)
  BY DEF Safe, WritersExclude, DeployExcludes, DeploysReady
<1>5. Excluded(d)'
  <2>1. \A c \in Coordinators : Resting(c)'
    BY <1>1, <1>4 DEF Excluded, Resting
  <2>2. \A c \in Coordinators :
           Unfenced(c, d)' => Ended(c)' \/ (co'[c].phase = "build" /\ d \in waits'[c])
    BY <1>1, <1>2, <1>3, <1>4 DEF Excluded, Ended, Unfenced
  <2>3. dep'[d].at = fence'
    BY <1>1, <1>2, <1>3, <1>4 DEF Excluded
  <2> QED BY <1>1, <1>2, <1>3, <1>b, <2>1, <2>2, <2>3 DEF Excluded, Holding
<1>6. DeployReady(d)'
  BY <1>1, <1>2, <1>3, <1>4 DEF DeployReady
<1>7. JobFrame(d) /\ JobKvMoves /\ JobManifestsMove
  BY <1>1, <1>3 DEF JobFrame, JobKvMoves, JobManifestsMove
<1> QED BY <1>1, <1>2, <1>3, <1>5, <1>6, <1>7 DEF JobEffect, b

\* Making room for the deploy's family.
LEMMA RoomEffect ==
    ASSUME Safe, NEW d \in Deploys, DeployReadRoles(d) \/ DeployMakeRoom(d),
           UNCHANGED <<prep, astray>>
    PROVE  JobEffect(d)
<1>1. /\ dep[d].pc \in {"sweep", "drop"} /\ dep[d].pc \in Holding /\ Active(d)
      /\ UNCHANGED <<manifests, pointer, fence, builds, co, slice>>
      /\ DeployReady(d) /\ Excluded(d)
  BY DEF DeployReadRoles, DeployMakeRoom, Holding, Active, kvVars, Safe, WritersExclude,
         DeployExcludes, DeploysReady
<1>2. dep[d].done = 0 /\ \A c \in Coordinators : Resting(c)
  BY <1>1 DEF DeployReady, Excluded
<1>3. JobManifestsMove
  BY <1>1 DEF JobManifestsMove
<1>4. CASE DeployReadRoles(d)
  <2>1. JobKvMoves /\ UNCHANGED lease
    BY <1>4 DEF DeployReadRoles, JobKvMoves, kvVars
  <2>2. CASE dep' = [dep EXCEPT ![d].pc = "drop", ![d].seen = manifests] /\ UNCHANGED waits
    <3> DEFINE j == [dep[d] EXCEPT !.pc = "drop", !.seen = manifests]
    <3>1. /\ j \in Jobs /\ j.pc = "drop" /\ j.seen = manifests /\ j.built = dep[d].built
          /\ j.at = dep[d].at /\ j.done = dep[d].done
      <4>1. manifests \in Published
        BY TypedParts DEF Safe
      <4> QED BY <4>1, SafeDepTyped, PcsOfDeploys DEF Jobs
    <3>2. dep' = [dep EXCEPT ![d] = j]
      BY <2>2
    <3> HIDE DEF j
    <3>3. dep'[d] = j /\ \A e \in Deploys \ {d} : dep'[e] = dep[e]
      BY <3>1, <3>2, JobFacts DEF Safe
    <3>4. Excluded(d)'
      BY <1>1, <2>1, <2>2, <3>1, <3>3, HoldingKept DEF Holding
    <3>5. DeployReady(d)'
      BY <1>1, <1>2, <3>1, <3>3 DEF DeployReady, Covered
    <3>6. JobFrame(d)
      BY <1>1, <2>2, <3>3 DEF JobFrame
    <3> QED BY <1>1, <1>3, <2>1, <3>1, <3>3, <3>4, <3>5, <3>6 DEF JobEffect
  <2>3. CASE BeginDeployUpload(d)
    <3>1. Excluded(d)'
      BY <1>1, <2>1, <2>3, UploadBegins, HoldingKept DEF Safe, Holding
    <3>2. DeployReady(d)' /\ JobFrame(d)
      BY <1>1, <1>2, <2>3, UploadBegins DEF Safe, DeployReady, JobFrame
    <3> QED BY <1>1, <1>3, <2>1, <2>3, <3>1, <3>2, UploadBegins DEF JobEffect, Safe
  <2> QED BY <1>4, <2>2, <2>3 DEF DeployReadRoles
<1>5. CASE DeployMakeRoom(d)
  <2>1. JobKvMoves
    <3>1. dep[d].seen \in Published /\ Covered(dep[d].seen)
      BY <1>1, <1>5, TypedParts DEF DeployMakeRoom, DeployReady, Safe, Jobs
    <3>2. CASE kv' = WithoutFamilies(kv, DeployPlan(d).retire)
      BY <1>1, <1>2, <3>1, <3>2, TypedParts, SweepSpares DEF JobKvMoves, DeployPlan, Safe
    <3>3. CASE UNCHANGED kv
      BY <3>3 DEF JobKvMoves
    <3> QED BY <1>5, <3>2, <3>3 DEF DeployMakeRoom
  <2>2. CASE /\ dep' = [dep EXCEPT ![d].pc = "dead", ![d].seen = NothingPublished]
             /\ SequenceOver(d)
    <3> DEFINE j == [dep[d] EXCEPT !.pc = "dead", !.seen = NothingPublished]
    <3>1. j \in Jobs /\ j.pc = "dead" /\ j.built = dep[d].built
      BY SafeDepTyped, PcsOfDeploys, NothingPublishedType DEF Jobs
    <3>2. dep' = [dep EXCEPT ![d] = j]
      BY <2>2
    <3> HIDE DEF j
    <3>3. dep'[d] = j /\ \A e \in Deploys \ {d} : dep'[e] = dep[e]
      BY <3>1, <3>2, JobFacts DEF Safe
    <3>4. JobFrame(d)
      BY <1>1, <2>2, <3>3, DeployOver DEF JobFrame, Safe
    <3> QED BY <1>1, <1>3, <2>1, <3>1, <3>3, <3>4, OverIsQuiet DEF JobEffect
  <2>3. CASE BeginDeployUpload(d) /\ UNCHANGED lease
    <3>1. Excluded(d)'
      BY <1>1, <2>3, UploadBegins, HoldingKept DEF Safe, Holding
    <3>2. DeployReady(d)' /\ JobFrame(d)
      BY <1>1, <1>2, <2>3, UploadBegins DEF Safe, DeployReady, JobFrame
    <3> QED BY <1>1, <1>3, <2>1, <2>3, <3>1, <3>2, UploadBegins DEF JobEffect, Safe
  <2> QED BY <1>5, <2>2, <2>3 DEF DeployMakeRoom
<1> QED BY <1>4, <1>5

\* The upload, up to the last look at the lease.
LEMMA PutEffect ==
    ASSUME Safe, NEW d \in Deploys,
           DeployPutKey(d) \/ DeployReadReplaced(d) \/ DeployCheckLease(d),
           UNCHANGED <<prep, astray>>
    PROVE  JobEffect(d)
<1>1. /\ dep[d].pc \in {"upload", "carry", "check"} /\ dep[d].pc \in Holding /\ Active(d)
      /\ UNCHANGED <<manifests, lease, pointer, fence, builds, co, slice>>
      /\ DeployReady(d) /\ Excluded(d)
  BY DEF DeployPutKey, DeployReadReplaced, DeployCheckLease, Holding, Active, kvVars, Safe,
         WritersExclude, DeployExcludes, DeploysReady
<1>2. dep[d].built \in Families
  BY <1>1, TypedParts DEF Excluded, Safe, Jobs, Families, NoFamily
<1>3. JobManifestsMove
  BY <1>1 DEF JobManifestsMove
<1>4. CASE DeployPutKey(d)
  <2> DEFINE n == dep[d].done + 1
             key == IF n <= Chunks THEN n ELSE Filter
  <2>1. /\ dep[d].done \in 0..Chunks /\ 1..dep[d].done \subseteq kv[dep[d].built]
        /\ kv' = [kv EXCEPT ![dep[d].built] = @ \cup {key}] /\ UNCHANGED waits
    BY <1>1, <1>4, TypedParts DEF DeployPutKey, DeployReady, Safe, Jobs
  <2>2. JobKvMoves /\ kv'[dep[d].built] = kv[dep[d].built] \cup {key}
    BY <1>2, <2>1, TypedParts DEF JobKvMoves, Safe, Store
  <2>3. CASE n <= Chunks /\ dep' = [dep EXCEPT ![d].done = n]
    <3> DEFINE j == [dep[d] EXCEPT !.done = n]
    <3>1. n \in 0..Chunks /\ 1..n = (1..dep[d].done) \cup {n}
      BY <2>1, <2>3, ChunksAssumption
    <3>2. dep' = [dep EXCEPT ![d] = j]
      BY <2>3
    <3>3. 1..n \subseteq kv'[dep[d].built]
      BY <2>1, <2>2, <2>3, <3>1
    <3> HIDE DEF n
    <3>4. /\ j \in Jobs /\ j.pc = dep[d].pc /\ j.done = n /\ j.built = dep[d].built
          /\ j.at = dep[d].at
      BY <3>1, TypedParts DEF Safe, Jobs
    <3> HIDE DEF j
    <3>5. dep'[d] = j /\ \A e \in Deploys \ {d} : dep'[e] = dep[e]
      BY <3>2, <3>4, JobFacts DEF Safe
    <3>6. Excluded(d)'
      BY <1>1, <2>1, <3>4, <3>5, HoldingKept
    <3>7. DeployReady(d)'
      BY <1>4, <3>3, <3>4, <3>5 DEF DeployReady, DeployPutKey
    <3>8. JobFrame(d)
      BY <1>1, <2>1, <3>5 DEF JobFrame
    <3> QED BY <1>1, <1>3, <2>2, <3>4, <3>5, <3>6, <3>7, <3>8 DEF JobEffect
  <2>4. CASE ~(n <= Chunks) /\ dep' = [dep EXCEPT ![d].pc = "carry"]
    <3>1. Job(d, "carry")
      BY <2>4 DEF Job
    <3>2. Complete(kv', dep[d].built)
      <4>1. dep[d].done = Chunks
        BY <2>1, <2>4, ChunksAssumption
      <4> QED BY <2>1, <2>2, <4>1 DEF Complete
    <3>3. Excluded(d)'
      BY <1>1, <2>1, <3>1, StepOf, HoldingKept DEF Safe, Holding, DeployPcs
    <3>4. DeployReady(d)' /\ JobFrame(d)
      BY <1>1, <2>1, <3>1, <3>2, StepOf DEF Safe, DeployPcs, DeployReady, Whole, JobFrame
    <3> QED BY <1>1, <1>3, <2>2, <3>1, <3>3, <3>4, StepOf DEF JobEffect, Safe, DeployPcs
  <2> QED BY <1>4, <2>3, <2>4 DEF DeployPutKey
<1>5. CASE DeployReadReplaced(d)
  <2>1. UNCHANGED <<kv, waits>> /\ Complete(kv, dep[d].built)
    BY <1>1, <1>5 DEF DeployReadReplaced, DeployReady, Whole, kvVars
  <2>2. PICK j \in Jobs :
           /\ dep' = [dep EXCEPT ![d] = j] /\ j.pc = "check"
           /\ j.built = dep[d].built /\ j.at = dep[d].at
    <3> DEFINE m == ReplacedManifest(manifests, dep[d].fmt)
               y == LegacyFollows(manifests, dep[d].fmt)
               full == [dep[d] EXCEPT !.pc = "check", !.replaced = m, !.mirror = y]
               bare == [dep[d] EXCEPT !.pc = "check"]
    <3>1. m \in Manifest /\ y \in BOOLEAN
      BY <1>1, TypedParts, ReplacedManifestType DEF LegacyFollows, Safe, FormatChosen, Active
    <3>2. dep' = [dep EXCEPT ![d] = full] \/ dep' = [dep EXCEPT ![d] = bare]
      BY <1>5 DEF DeployReadReplaced, Job
    <3> HIDE DEF m, y
    <3>3. full \in Jobs /\ full.pc = "check" /\ full.built = dep[d].built /\ full.at = dep[d].at
      BY <3>1, SafeDepTyped, PcsOfDeploys DEF Jobs
    <3>4. bare \in Jobs /\ bare.pc = "check" /\ bare.built = dep[d].built /\ bare.at = dep[d].at
      BY SafeDepTyped, PcsOfDeploys DEF Jobs
    <3> HIDE DEF full, bare
    <3> QED BY <3>2, <3>3, <3>4
  <2>3. dep'[d] = j /\ \A e \in Deploys \ {d} : dep'[e] = dep[e]
    BY <2>2, JobFacts DEF Safe
  <2>4. Excluded(d)'
    BY <1>1, <2>1, <2>2, <2>3, HoldingKept DEF Holding
  <2>5. DeployReady(d)' /\ JobFrame(d) /\ JobKvMoves
    BY <1>1, <2>1, <2>2, <2>3 DEF DeployReady, Whole, JobFrame, JobKvMoves
  <2> QED BY <1>1, <1>3, <2>2, <2>3, <2>4, <2>5 DEF JobEffect
<1>6. CASE DeployCheckLease(d)
  <2>1. UNCHANGED kv /\ Complete(kv, dep[d].built) /\ JobKvMoves
    BY <1>1, <1>6 DEF DeployCheckLease, DeployReady, Whole, kvVars, JobKvMoves
  <2>2. CASE Job(d, "commit") /\ UNCHANGED waits
    <3>1. Excluded(d)'
      BY <1>1, <2>2, StepOf, HoldingKept DEF Safe, Holding, DeployPcs
    <3>2. DeployReady(d)' /\ JobFrame(d)
      BY <1>1, <2>1, <2>2, StepOf DEF Safe, DeployPcs, DeployReady, Whole, JobFrame
    <3> QED BY <1>1, <1>3, <2>1, <2>2, <3>1, <3>2, StepOf DEF JobEffect, Safe, DeployPcs
  <2>3. CASE Job(d, "dead") /\ SequenceOver(d)
    <3>1. JobFrame(d)
      BY <1>1, <2>3, StepOf, DeployOver DEF Safe, DeployPcs, JobFrame
    <3> QED BY <1>1, <1>3, <2>1, <2>3, <3>1, StepOf, OverIsQuiet DEF JobEffect, Safe, DeployPcs
  <2> QED BY <1>6, <2>2, <2>3 DEF DeployCheckLease
<1> QED BY <1>4, <1>5, <1>6

\* The publish, and giving the lease back.
LEMMA DeployPublishEffect ==
    ASSUME Safe, NEW d \in Deploys,
           DeployWriteManifest(d) \/ DeployWriteMirror(d) \/ DeployReleaseLease(d),
           UNCHANGED <<prep, astray>>
    PROVE  JobEffect(d)
<1>1. /\ dep[d].pc \in {"commit", "mirror", "release"} /\ dep[d].pc \in Holding /\ Active(d)
      /\ UNCHANGED <<kv, pointer, fence, builds, co, slice, waits>>
      /\ DeployReady(d) /\ Excluded(d)
  BY DEF DeployWriteManifest, DeployWriteMirror, DeployReleaseLease, Holding, Active, Safe,
         WritersExclude, DeployExcludes, DeploysReady
<1>2. /\ dep[d].fmt \in Formats /\ dep[d].fmt \in ManifestKeys /\ dep[d].fmt # Legacy
      /\ Legacy \in ManifestKeys
  <2>1. dep[d].fmt \in Formats
    BY <1>1, TypedParts DEF Safe, FormatChosen, Active
  <2> QED BY <2>1 DEF ManifestKeys, Formats, Legacy
<1>3. DeployManifest(d) \in Manifest /\ DeployManifest(d).built = dep[d].built
  BY <1>2, TypedParts, NextManifestType DEF DeployManifest, Safe, Jobs
<1>4. JobKvMoves /\ \A c \in Coordinators : Resting(c)
  BY <1>1 DEF JobKvMoves, Excluded
<1>5. CASE DeployWriteManifest(d) \/ DeployWriteMirror(d)
  <2>1. Complete(kv, dep[d].built) /\ UNCHANGED lease
    BY <1>1, <1>5 DEF DeployReady, Whole, DeployWriteManifest, DeployWriteMirror
  <2>2. PICK pc \in {"mirror", "release"} : Job(d, pc)
    BY <1>5 DEF DeployWriteManifest, DeployWriteMirror
  <2>3. PICK k \in {dep[d].fmt, Legacy} : manifests' = [manifests EXCEPT ![k] = DeployManifest(d)]
    BY <1>5 DEF DeployWriteManifest, DeployWriteMirror
  <2>4. manifests'[dep[d].fmt].built \in {dep[d].built, NoFamily}
    <3>1. CASE DeployWriteManifest(d)
      BY <1>2, <1>3, <3>1, TypedParts DEF DeployWriteManifest, Safe, Published
    <3>2. CASE DeployWriteMirror(d)
      BY <1>1, <1>2, <3>2, TypedParts DEF DeployWriteMirror, DeployReady, Safe, Published
    <3> QED BY <1>5, <3>1, <3>2
  <2>5. JobManifestsMove
    <3> DEFINE m == DeployManifest(d)
    <3>m. m \in Manifest /\ m.built = dep[d].built /\ manifests' = [manifests EXCEPT ![k] = m]
      BY <1>3, <2>3
    <3> HIDE DEF m
    <3>k. k \in ManifestKeys /\ manifests \in Published
      BY <1>2, <2>3, TypedParts DEF Safe
    <3>1. LiveFamilies(manifests') \subseteq LiveFamilies(manifests) \cup {dep[d].built}
      BY <3>m, <3>k, PublishedLive
    <3>2. dep[d].built # NoFamily
      BY <1>1 DEF Excluded
    <3>3. StaysLive
      BY <3>m, <3>k, <3>2, PublishedStays DEF StaysLive
    <3> QED BY <1>1, <1>4, <2>1, <3>1, <3>3 DEF JobManifestsMove
  <2>6. Excluded(d)'
    BY <1>1, <2>1, <2>2, StepOf, HoldingKept DEF Safe, Holding, DeployPcs
  <2>7. DeployReady(d)' /\ JobFrame(d)
    BY <1>1, <2>1, <2>2, <2>4, StepOf DEF Safe, DeployPcs, DeployReady, Whole, JobFrame
  <2> QED BY <1>1, <1>4, <2>2, <2>5, <2>6, <2>7, StepOf DEF JobEffect, Safe, DeployPcs
<1>6. CASE DeployReleaseLease(d)
  <2>1. Job(d, "roles") /\ dep[d].pc = "release" /\ UNCHANGED manifests
    BY <1>6 DEF DeployReleaseLease
  <2>2. /\ dep'[d].pc = "roles" /\ dep'[d].at = dep[d].at /\ dep'[d].built = dep[d].built
        /\ dep'[d].fmt = dep[d].fmt /\ \A e \in Deploys \ {d} : dep'[e] = dep[e]
    BY <2>1, StepOf DEF Safe, DeployPcs
  <2>3. Excluded(d)'
    <3>1. \A c \in Coordinators :
             /\ Resting(c)'
             /\ Unfenced(c, d)' => Ended(c)' \/ co'[c].phase \in {"build", "routing"}
      BY <1>1, <1>4, <2>1, <2>2, RunsKept DEF Excluded, Holding
    <3>2. dep'[d].at = fence'
      BY <1>1, <2>2 DEF Excluded
    <3> QED BY <2>2, <3>1, <3>2 DEF Excluded, Holding
  <2>4. DeployReady(d)' /\ JobFrame(d) /\ JobManifestsMove
    BY <1>1, <2>1, <2>2 DEF DeployReady, JobFrame, JobManifestsMove
  <2> QED BY <1>1, <1>4, <2>2, <2>3, <2>4 DEF JobEffect
<1> QED BY <1>5, <1>6

\* A deploy past its lease keeps apart from the runs as it did before.
LEMMA TailKept ==
    ASSUME Safe, NEW d \in Deploys, dep[d].pc \in {"roles", "lease", "purge"},
           dep'[d].pc \in {"lease", "purge", "switch"},
           UNCHANGED <<co, slice, fence, waits>>, dep'[d].at = dep[d].at
    PROVE  Excluded(d)'
<1>1. Excluded(d) /\ Active(d)
  BY DEF Safe, WritersExclude, DeployExcludes, Active
<1>2. \A c \in Coordinators :
         /\ Resting(c)' \/ co'[c].phase = "routing"
         /\ Unfenced(c, d)' => \/ Ended(c)' \/ co'[c].phase \in {"build", "routing"}
                               \/ co'[c].phase = "publish" /\ d \in waits'[c]
  BY <1>1, RunsKept DEF Excluded
<1>3. dep'[d].at = fence'
  BY <1>1 DEF Excluded
<1> QED BY <1>2, <1>3 DEF Excluded, Holding

\* The sweep by role, the switch, and the end of the job.
LEMMA TailEffect ==
    ASSUME Safe, NEW d \in Deploys,
           \/ DeploySweepRead(d) \/ DeploySweepReadLease(d) \/ DeploySweepDrop(d)
           \/ SwitchCode(d) \/ DeployDies(d),
           UNCHANGED <<prep, astray>>
    PROVE  JobEffect(d)
<1>1. /\ Active(d) /\ DeployReady(d) /\ Excluded(d)
      /\ UNCHANGED <<manifests, pointer, fence, builds, co, slice>>
  BY DEF DeploySweepRead, DeploySweepReadLease, DeploySweepDrop, SwitchCode, DeployDies, Active, kvVars, Safe,
         WritersExclude, DeployExcludes, DeploysReady
<1>2. JobManifestsMove
  BY <1>1 DEF JobManifestsMove
<1>3. CASE DeploySweepRead(d)
  <2> DEFINE own == [manifests EXCEPT ![dep[d].fmt] = DeployManifest(d)]
             j == [dep[d] EXCEPT !.pc = "lease", !.seen = own]
  <2>1. /\ dep[d].pc = "roles" /\ dep[d].fmt \in Formats /\ dep[d].fmt \in ManifestKeys
        /\ manifests[dep[d].fmt].built \in {dep[d].built, NoFamily} /\ UNCHANGED <<kv, waits>>
    BY <1>1, <1>3, TypedParts
    DEF DeploySweepRead, DeployReady, Safe, FormatChosen, kvVars, ManifestKeys
  <2>2. DeployManifest(d) \in Manifest /\ DeployManifest(d).built = dep[d].built
    BY <2>1, TypedParts, NextManifestType DEF DeployManifest, Safe, Jobs
  <2>3. own \in Published /\ Covered(own)
    BY <2>1, <2>2, TypedParts DEF Safe, Published, Covered, LiveFamilies
  <2>5. dep' = [dep EXCEPT ![d] = j]
    BY <1>3 DEF DeploySweepRead
  <2> HIDE DEF own
  <2>6. /\ j \in Jobs /\ j.pc = "lease" /\ j.seen = own /\ j.built = dep[d].built
        /\ j.at = dep[d].at
    BY <2>3, SafeDepTyped, PcsOfDeploys DEF Jobs
  <2> HIDE DEF j
  <2>7. dep'[d] = j /\ \A e \in Deploys \ {d} : dep'[e] = dep[e]
    BY <2>5, <2>6, JobFacts DEF Safe
  <2>8. Excluded(d)'
    BY <1>1, <2>1, <2>6, <2>7, TailKept
  <2>9. DeployReady(d)' /\ JobFrame(d) /\ JobKvMoves
    BY <1>1, <2>1, <2>3, <2>6, <2>7 DEF DeployReady, Covered, JobFrame, JobKvMoves
  <2> QED BY <1>1, <1>2, <2>6, <2>7, <2>8, <2>9 DEF JobEffect
<1>7. CASE DeploySweepReadLease(d)
  <2> DEFINE n == InFlight(lease.built, dep[d].seen)
             j == [dep[d] EXCEPT !.pc = "purge", !.inFlight = n]
  <2>1. dep[d].pc = "lease" /\ Covered(dep[d].seen) /\ UNCHANGED <<kv, waits>>
    BY <1>1, <1>7 DEF DeploySweepReadLease, DeployReady, kvVars
  <2>2. n \in 0..MaxBuilds
    BY TypedParts, MaxBuildsAssumption DEF InFlight, Safe, Lease, NoFamily
  <2>3. dep' = [dep EXCEPT ![d] = j]
    BY <1>7 DEF DeploySweepReadLease
  <2> HIDE DEF n
  <2>4. /\ j \in Jobs /\ j.pc = "purge" /\ j.seen = dep[d].seen /\ j.built = dep[d].built
        /\ j.at = dep[d].at
    BY <2>2, SafeDepTyped, PcsOfDeploys DEF Jobs
  <2> HIDE DEF j
  <2>5. dep'[d] = j /\ \A e \in Deploys \ {d} : dep'[e] = dep[e]
    BY <2>3, <2>4, JobFacts DEF Safe
  <2>6. Excluded(d)'
    BY <1>1, <2>1, <2>4, <2>5, TailKept
  <2>7. DeployReady(d)' /\ JobFrame(d) /\ JobKvMoves
    BY <1>1, <2>1, <2>4, <2>5 DEF DeployReady, Covered, JobFrame, JobKvMoves
  <2> QED BY <1>1, <1>2, <2>4, <2>5, <2>6, <2>7 DEF JobEffect
<1>4. CASE DeploySweepDrop(d)
  <2>1. dep[d].pc = "purge" /\ Covered(dep[d].seen) /\ dep[d].seen \in Published /\ UNCHANGED waits
    BY <1>1, <1>4, TypedParts DEF DeploySweepDrop, DeployReady, Safe, Jobs
  <2>2. JobKvMoves
    <3>1. CASE kv' = WithoutFamilies(kv, PlanRetention(kv, dep[d].seen, dep[d].inFlight, NoGuard).retire)
      <4>1. \A c \in Coordinators : Resting(c) \/ co[c].phase = "routing"
        BY <1>1, <2>1 DEF Excluded
      <4> QED BY <1>1, <2>1, <3>1, <4>1, TypedParts, SweepSpares DEF JobKvMoves, Safe
    <3>2. CASE UNCHANGED kv
      BY <3>2 DEF JobKvMoves
    <3> QED BY <1>4, <3>1, <3>2 DEF DeploySweepDrop
  <2> DEFINE j == [dep[d] EXCEPT !.pc = "switch", !.seen = NothingPublished, !.inFlight = 0]
  <2>3. /\ j \in Jobs /\ j.pc = "switch" /\ j.built = dep[d].built /\ j.at = dep[d].at
    <3>1. 0 \in 0..MaxBuilds
      BY MaxBuildsAssumption
    <3> QED BY <3>1, SafeDepTyped, PcsOfDeploys, NothingPublishedType DEF Jobs
  <2>4. dep' = [dep EXCEPT ![d] = j]
    BY <1>4 DEF DeploySweepDrop
  <2> HIDE DEF j
  <2>5. dep'[d] = j /\ \A e \in Deploys \ {d} : dep'[e] = dep[e]
    BY <2>3, <2>4, JobFacts DEF Safe
  <2>6. Excluded(d)'
    BY <1>1, <2>1, <2>3, <2>5, TailKept
  <2>7. DeployReady(d)' /\ JobFrame(d)
    BY <1>1, <2>1, <2>3, <2>5 DEF DeployReady, JobFrame
  <2> QED BY <1>1, <1>2, <2>2, <2>3, <2>5, <2>6, <2>7 DEF JobEffect
<1>5. CASE SwitchCode(d)
  <2>1. Job(d, "done") /\ SequenceOver(d) /\ UNCHANGED kv
    BY <1>5 DEF SwitchCode, kvVars
  <2>2. JobFrame(d) /\ JobKvMoves
    BY <1>1, <2>1, StepOf, DeployOver DEF Safe, DeployPcs, JobFrame, JobKvMoves
  <2> QED BY <1>1, <1>2, <2>1, <2>2, StepOf, OverIsQuiet DEF JobEffect, Safe, DeployPcs
<1>6. CASE DeployDies(d)
  <2> DEFINE j == [dep[d] EXCEPT !.pc = "dead", !.seen = NothingPublished, !.inFlight = 0]
  <2>1. j \in Jobs /\ j.pc = "dead" /\ j.built = dep[d].built
    <3>1. 0 \in 0..MaxBuilds
      BY MaxBuildsAssumption
    <3> QED BY <3>1, SafeDepTyped, PcsOfDeploys, NothingPublishedType DEF Jobs
  <2>2. dep' = [dep EXCEPT ![d] = j] /\ SequenceOver(d) /\ UNCHANGED kv
    BY <1>6 DEF DeployDies, kvVars
  <2> HIDE DEF j
  <2>3. dep'[d] = j /\ \A e \in Deploys \ {d} : dep'[e] = dep[e]
    BY <2>1, <2>2, JobFacts DEF Safe
  <2>4. JobFrame(d) /\ JobKvMoves
    BY <1>1, <2>2, <2>3, DeployOver DEF Safe, JobFrame, JobKvMoves
  <2> QED BY <1>1, <1>2, <2>1, <2>3, <2>4, OverIsQuiet DEF JobEffect
<1> QED BY <1>3, <1>4, <1>5, <1>6, <1>7

LEMMA DeployHasEffect ==
    ASSUME Prompt, Safe, NEW d \in Deploys, Deploy(d)
    PROVE  JobEffect(d)
<1>1. UNCHANGED <<prep, astray>>
  BY DeployKeepsPreparations
<1> QED BY <1>1, FenceEffect, TakeEffect, RoomEffect, PutEffect, DeployPublishEffect, TailEffect
           DEF Deploy

\* Such a step is of the one deploy under way, its preparations made.
LEMMA DeployUnderWay ==
    ASSUME PreparedFirst, NEW d \in Deploys, Deploy(d)
    PROVE  UnderWay(d) /\ prep[d].pc = "ready"
<1>1. CASE WriteDeployFence(d)
  BY <1>1 DEF WriteDeployFence, UnderWay, Preparing
<1>2. CASE ~WriteDeployFence(d)
  <2>1. Active(d)
    BY <1>2 DEF Deploy, TakeLease, DeployReadRoles, DeployMakeRoom, DeployPutKey,
       DeployReadReplaced, DeployCheckLease, DeployWriteManifest, DeployWriteMirror,
       DeployReleaseLease, DeploySweepRead, DeploySweepReadLease, DeploySweepDrop, SwitchCode,
       DeployDies, Active
  <2> QED BY <2>1 DEF UnderWay, Active, PreparedFirst
<1> QED BY <1>1, <1>2

-----------------------------------------------------------------------------
(***************************************************************************)
(* A step with that effect leaves the writers apart and the store whole.   *)
(***************************************************************************)
LEMMA DeploySafe ==
    ASSUME Prompt, Safe, Typed', NEW d \in Deploys, Deploy(d)
    PROVE  Safe'
<1>1. JobEffect(d) /\ UnderWay(d) /\ prep[d].pc = "ready"
  BY DeployHasEffect, DeployUnderWay DEF Safe, WritersExclude
<1>2. /\ UNCHANGED <<pointer, co, slice, prep, astray>> /\ \A e \in Deploys \ {d} : dep'[e] = dep[e]
      /\ \A c, e \in Coordinators : e \in waits[c] => e \in waits'[c]
      /\ Excluded(d)' /\ DeployReady(d)'
  BY <1>1 DEF JobEffect, JobFrame
<1>3. \A e \in Deploys \ {d} : ~UnderWay(e) /\ ~UnderWay(e)' /\ ~Active(e) /\ ~Active(e)'
  BY <1>1, <1>2 DEF Safe, WritersExclude, OneDeploy, UnderWay, Preparing, Active
<1>4. \A c \in Coordinators : (Resting(c)' <=> Resting(c)) /\ (Ended(c)' <=> Ended(c))
  BY <1>2 DEF Resting, Ended
<1>5. OneDeploy' /\ PreparedFirst'
  BY <1>1, <1>2, <1>3 DEF OneDeploy, PreparedFirst, Safe, WritersExclude
<1>6. BuildsDistinct'
  <2>1. /\ BuildsDistinct /\ builds \in Nat /\ fence \in Nat
        /\ \A e \in Coordinators : co[e].built \in Nat /\ co[e].started \in Nat
        /\ \A e \in Deploys : dep[e].built \in Nat
    BY TypedParts, MaxBuildsAssumption DEF Safe, WritersExclude, Runs, Jobs
  <2>2. fence' \in {fence, fence + 1} /\ co' = co
        /\ \/ builds' = builds /\ dep'[d].built = dep[d].built
           \/ builds' = builds + 1 /\ dep'[d].built = builds + 1
    BY <1>1, <1>2 DEF JobEffect
  <2>3. CASE builds' = builds /\ dep'[d].built = dep[d].built
    BY <1>2, <2>1, <2>2, <2>3 DEF BuildsDistinct
  <2>4. CASE builds' = builds + 1 /\ dep'[d].built = builds + 1
    <3>1. \A c \in Coordinators : co'[c].built <= builds' /\ co'[c].started <= fence'
      BY <2>1, <2>2, <2>4 DEF BuildsDistinct
    <3>2. \A e \in Deploys : dep'[e].built <= builds'
      <4> TAKE e \in Deploys
      <4>1. dep[e].built \in Nat /\ dep[e].built <= builds /\ builds \in Nat
        BY <2>1 DEF BuildsDistinct
      <4>2. dep'[e].built = dep[e].built \/ dep'[e].built = builds + 1
        BY <1>2, <2>4
      <4> QED BY ONLY <4>1, <4>2, <2>4
    <3>3. \A c \in Coordinators : co[c].built # builds + 1
      BY <2>1 DEF BuildsDistinct
    <3>4. \A c \in Coordinators, e \in Deploys :
             co'[c].built # NoFamily => co'[c].built # dep'[e].built
      BY <1>2, <2>1, <2>2, <2>4, <3>3 DEF BuildsDistinct
    <3> QED BY <2>1, <2>2, <3>1, <3>2, <3>4 DEF BuildsDistinct
  <2> QED BY <2>2, <2>3, <2>4
<1>7. RunsExclude'
  BY <1>2, <1>4 DEF RunsExclude, Safe, WritersExclude
<1>8. DeployExcludes'
  <2>1. \A e \in Deploys \ {d} : Excluded(e)'
    BY <1>3 DEF Excluded, Active, Holding
  <2> QED BY <1>2, <2>1 DEF DeployExcludes
<1>9. DeploysReady'
  <2>1. ASSUME NEW e \in Deploys \ {d} PROVE DeployReady(e)'
    <3>1. dep'[e].pc \in {"off", "done", "dead"} /\ dep'[e] = dep[e] /\ DeployReady(e)
      BY <1>2, <1>3 DEF Active, Safe, WritersExclude, DeploysReady
    <3> QED BY <3>1 DEF DeployReady
  <2> QED BY <1>2, <2>1 DEF DeploysReady
<1>10. RunsReady'
  <2> SUFFICES ASSUME NEW c \in Coordinators, ~Resting(c) PROVE RunReady(c)'
    BY <1>4, RestIsReady DEF RunsReady
  <2>1. /\ RunReady(c) /\ FitsPhase(c) /\ co[c] \in Runs /\ kv \in Store
        /\ JobKvMoves /\ JobManifestsMove
    BY <1>1, TypedParts DEF Safe, WritersExclude, RunsReady, JobEffect
  <2>2. ASSUME slice[c].pc \in {"fence", "commit", "mirror"}
        PROVE  co[c].built \in astray \/ Complete(kv', co[c].built)
    <3>1. co[c].phase = "manifest" /\ co[c].built \in Families
      BY <2>1, <2>2 DEF FitsPhase, Runs, Families, NoFamily
    <3>2. kv[co[c].built] \subseteq kv'[co[c].built]
      BY <2>1, <3>1 DEF JobKvMoves
    <3> QED BY <2>1, <2>2, <3>2 DEF RunReady, Complete, Whole
  <2>3. manifests' = manifests
    BY <2>1 DEF JobManifestsMove
  <2> QED BY <1>2, <2>1, <2>2, <2>3 DEF RunReady, Covered, OwnKeyKept, Whole
<1>11. ManifestComplete'
  <2>1. \A f \in LiveFamilies(manifests) : (f \in astray \/ Complete(kv, f)) /\ f \in Families
    BY TypedParts, CompleteAsLive, LiveAreFamilies DEF Safe
  <2>2. JobKvMoves /\ JobManifestsMove
    BY <1>1 DEF JobEffect
  <2> SUFFICES \A f \in LiveFamilies(manifests') : f \in astray' \/ Complete(kv', f)
    BY DEF ManifestComplete, LiveFamilies, Whole
  <2>3. CASE manifests' = manifests
    <3>1. \A f \in LiveFamilies(manifests) \ astray : kv[f] \subseteq kv'[f]
      BY <2>1, <2>2 DEF JobKvMoves
    <3> QED BY <1>2, <2>1, <2>3, <3>1 DEF Complete
  <2>4. CASE manifests' # manifests
    BY <1>2, <2>1, <2>2, <2>4 DEF JobManifestsMove
  <2> QED BY <2>3, <2>4
<1>12. SweepsInformed'
  <2> SUFFICES ASSUME NEW e \in Deploys, prep'[e].pc \in {"lease", "drop"} PROVE FALSE
    BY DEF SweepsInformed, SawEveryone
  <2>1. UnderWay(e)
    BY <1>2 DEF Safe, WritersExclude, PreparedFirst, UnderWay, Preparing
  <2> QED BY <1>1, <1>2, <1>3, <2>1
<1>13. RunsBacked'
  <2> SUFFICES ASSUME NEW c \in Coordinators PROVE Backed(c)'
    BY DEF RunsBacked
  <2>1. Backed(c) /\ Excluded(d)
    BY DEF Safe, WritersExclude, RunsBacked, DeployExcludes
  <2>2. /\ MayGoOn(c)' => MayGoOn(c)
        /\ (Claimed(c)' <=> Claimed(c)) /\ co' = co /\ astray' = astray
    <3>1. fence' \in {fence, fence + 1} /\ fence \in Nat /\ co[c].started \in Nat
      BY <1>1, TypedParts DEF JobEffect, Safe, Runs
    <3> QED BY <1>2, <3>1 DEF MayGoOn, Claimed, Resting, Superseded
  <2>3. CASE dep[d].pc \in Holding
    <3>1. Active(d) /\ dep[d].at = fence /\ Resting(c)
      BY <2>1, <2>3 DEF Excluded, Active, Holding
    <3>2. MayGoOn(c) => Unfenced(c, d)
      BY <3>1, TypedParts DEF MayGoOn, Superseded, Unfenced, Safe, Runs
    <3>3. Unfenced(c, d) => \/ Ended(c) \/ co[c].phase = "build"
                            \/ co[c].phase = "routing" /\ ~co[c].held
      BY <2>1, <2>3 DEF Excluded
    <3> QED BY <2>2, <3>1, <3>2, <3>3 DEF Backed, Claimed, Resting, Ended
  <2>4. CASE TakeLease(d)
    <3>1. Active(d) /\ dep[d].at = fence /\ Resting(c)
      BY <2>1, <2>4 DEF TakeLease, LongMayEnd, Excluded, Active
    <3>2. MayGoOn(c) => Unfenced(c, d)
      BY <3>1, TypedParts DEF MayGoOn, Superseded, Unfenced, Safe, Runs
    <3>3. Unfenced(c, d) => Ended(c) \/ co[c].phase = "build"
      BY <2>1, <2>4 DEF Excluded, TakeLease
    <3> QED BY <2>2, <3>1, <3>2, <3>3 DEF Backed, Claimed, Resting, Ended
  <2>5. CASE dep[d].pc \notin Holding /\ ~TakeLease(d)
    <3>1. UNCHANGED <<lease, manifests>>
      BY <2>5 DEF Deploy, WriteDeployFence, DeployReadRoles, DeployMakeRoom, DeployPutKey,
         DeployReadReplaced, DeployCheckLease, DeployWriteManifest, DeployWriteMirror,
         DeployReleaseLease, DeploySweepRead, DeploySweepReadLease, DeploySweepDrop, SwitchCode,
         DeployDies, Holding, kvVars
    <3> QED BY <2>1, <2>2, <3>1 DEF Backed, HasPublished
  <2> QED BY <2>3, <2>4, <2>5
<1> QED BY <1>5, <1>6, <1>7, <1>8, <1>9, <1>10, <1>11, <1>12, <1>13 DEF Safe, WritersExclude, Typed

-----------------------------------------------------------------------------
(***************************************************************************)
(* What a deploy does before its fence, beside the runs.                   *)
(***************************************************************************)
\* A copy moves one key: over a key that held nothing it publishes what the
\* mirror does, and what a late one moves is astray.
LEMMA CopyMoves ==
    ASSUME Safe, NEW d \in Deploys, EnsureCopy(d), manifests' # manifests
    PROVE  /\ kv' = kv /\ prep[d].fmt \in Formats /\ prep[d].fmt \in ManifestKeys
           /\ prep[d].copied \in Manifest /\ prep[d].copied.built # NoFamily
           /\ manifests' = [manifests EXCEPT ![prep[d].fmt] = prep[d].copied]
           /\ astray' = IF Late(d) THEN astray \cup PutBack(d) ELSE astray
           /\ LiveFamilies(manifests') \subseteq LiveFamilies(manifests) \cup astray'
           /\ LiveFamilies(manifests) \subseteq LiveFamilies(manifests') \cup astray'
           /\ \A f \in ManifestKeys :
                 \/ manifests'[f] = manifests[f] \/ manifests[f].built = NoFamily
                 \/ {manifests[f].built, manifests'[f].built} \subseteq astray'
<1> DEFINE k == prep[d].fmt
           m == prep[d].copied
<1>1. /\ prep[d].pc = "copy" /\ kv' = kv /\ manifests' = [manifests EXCEPT ![k] = m]
      /\ astray' = IF Late(d) THEN astray \cup PutBack(d) ELSE astray
  BY DEF EnsureCopy
<1>2. m.built # NoFamily /\ k \in Formats /\ m \in Manifest /\ manifests \in Published
  BY <1>1, TypedParts DEF Safe, CopyChosen, Preparations
<1>3. k \in ManifestKeys /\ Legacy \in ManifestKeys /\ k # Legacy
  BY <1>2 DEF ManifestKeys, Formats, Legacy
<1> HIDE DEF k, m
<1>4. manifests'[k] = m /\ \A f \in ManifestKeys \ {k} : manifests'[f] = manifests[f]
  BY <1>1, <1>2, <1>3 DEF Published
<1>5. CASE Late(d)
  <2>1. {manifests[k].built, m.built} \ {NoFamily} \subseteq astray'
    BY <1>1, <1>5 DEF PutBack, k, m
  <2>2. LiveFamilies(manifests') \subseteq LiveFamilies(manifests) \cup astray'
    BY <1>2, <1>3, <1>4, <2>1 DEF LiveFamilies
  <2>3. LiveFamilies(manifests) \subseteq LiveFamilies(manifests') \cup astray'
    BY <1>2, <1>3, <1>4, <2>1 DEF LiveFamilies
  <2> QED BY <1>1, <1>2, <1>3, <1>4, <2>1, <2>2, <2>3 DEF k, m
<1>6. CASE ~Late(d)
  <2>1. manifests[k].built = NoFamily /\ manifests[Legacy] = m
    BY <1>6 DEF Late, k, m
  <2>2. LiveFamilies(manifests') \subseteq LiveFamilies(manifests) \cup astray'
    BY <1>2, <1>3, <1>4, <2>1 DEF LiveFamilies
  <2>3. LiveFamilies(manifests) \subseteq LiveFamilies(manifests') \cup astray'
    BY <1>2, <1>3, <1>4, <2>1 DEF LiveFamilies
  <2> QED BY <1>1, <1>2, <1>3, <1>4, <2>1, <2>2, <2>3 DEF k, m
<1> QED BY <1>5, <1>6

\* The sweep spares what it has seen.
LEMMA PruneSpares ==
    ASSUME Safe, NEW d \in Deploys, PruneDrop(d), NEW f \in Families, SawFamily(d, f)
    PROVE  f \in astray \/ kv'[f] = kv[f]
<1>1. kv \in Store /\ prep[d].seen \in Published
  BY TypedParts DEF Safe, Preparations
<1>2. CASE kv' = WithoutFamilies(kv, PrunePlan(d).retire)
  <2>1. /\ PrunePlan(d).retire \cap LiveFamilies(prep[d].seen) = {}
        /\ InFlight(prep[d].holder, prep[d].seen) # NoFamily =>
             InFlight(prep[d].holder, prep[d].seen) \notin PrunePlan(d).retire
    BY <1>1, PlanSparesRoles DEF PrunePlan
  <2>2. f \in LiveFamilies(prep[d].seen) \cup {prep[d].holder} => f \notin PrunePlan(d).retire
    BY <2>1 DEF InFlight, Families, NoFamily
  <2> QED BY <1>1, <1>2, <2>2 DEF SawFamily, WithoutFamilies
<1>3. CASE UNCHANGED kv
  BY <1>3
<1> QED BY <1>2, <1>3 DEF PruneDrop

\* What these steps do to KV: whatever is live or about to be, and not astray,
\* stays; a key keeps its family or what it moved between is astray.
LEMMA PrepareSpares ==
    ASSUME Safe, NEW d \in Deploys, Prepare(d)
    PROVE  /\ astray \subseteq astray'
           /\ \A f \in Families \cap LiveFamilies(manifests) : f \in astray \/ kv'[f] = kv[f]
           /\ \A c \in Coordinators :
                 slice[c].pc \in {"fence", "commit", "mirror"} =>
                    co[c].built \in astray \/ kv'[co[c].built] = kv[co[c].built]
           /\ LiveFamilies(manifests') \subseteq LiveFamilies(manifests) \cup astray'
           /\ LiveFamilies(manifests) \subseteq LiveFamilies(manifests') \cup astray'
           /\ \A f \in ManifestKeys :
                 \/ manifests'[f] = manifests[f] \/ manifests[f].built = NoFamily
                 \/ {manifests[f].built, manifests'[f].built} \subseteq astray'
<1>1. astray \subseteq astray'
  BY PrepareKeeps DEF PruneReadLease, EnsureCopy
<1>2. CASE PruneDrop(d)
  <2>1. manifests' = manifests /\ SawEveryone(d) /\ prep[d].pc = "drop"
    BY <1>2 DEF PruneDrop, Safe, WritersExclude, SweepsInformed
  <2>2. \A f \in Families \cap LiveFamilies(manifests) : f \in astray \/ kv'[f] = kv[f]
    BY <1>2, <2>1, PruneSpares DEF SawEveryone
  <2>3. ASSUME NEW c \in Coordinators, slice[c].pc \in {"fence", "commit", "mirror"}
        PROVE  co[c].built \in astray \/ kv'[co[c].built] = kv[co[c].built]
    <3>1. ~Resting(c) /\ co[c].phase = "manifest" /\ co[c].built \in Families
      BY <2>3, TypedParts DEF Safe, FitsPhase, Resting, Runs, Families, NoFamily
    <3>2. SawFamily(d, co[c].built)
      BY <2>1, <3>1 DEF SawEveryone, MayGoOn
    <3> QED BY <1>2, <3>1, <3>2, PruneSpares
  <2> QED BY <1>1, <2>1, <2>2, <2>3
<1>3. CASE ~PruneDrop(d)
  <2>1. kv' = kv
    BY <1>3, PrepareKeeps
  <2>2. CASE manifests' = manifests
    BY <1>1, <2>1, <2>2
  <2>3. CASE manifests' # manifests
    BY <1>1, <2>1, <2>3, CopyMoves, PrepareKeeps
  <2> QED BY <2>2, <2>3
<1> QED BY <1>2, <1>3

\* A preparation under way belongs to the deploy that takes the step.
LEMMA PrepareUnderWay ==
    ASSUME SerialDeploys, Safe, NEW d \in Deploys, Prepare(d)
    PROVE  /\ dep[d].pc = "off" /\ \A e \in Deploys \ {d} : ~UnderWay(e)
           /\ \A e \in Deploys \ {d} : prep'[e] = prep[e]
<1>1. PreparedFirst /\ OneDeploy /\ prep \in [Deploys -> Preparations]
  BY TypedParts DEF Safe, WritersExclude
<1>2. \A e \in Deploys \ {d} : prep'[e] = prep[e]
  BY <1>1 DEF Prepare, BeginDeploy, PruneReadManifests, PruneReadLease, PruneDrop, PruneOver,
     EnsureReadOwn, EnsureReadLegacy, EnsureCopy, Prepared, SkipImport, PreparationDies
<1>3. CASE BeginDeploy(d)
  BY <1>2, <1>3 DEF BeginDeploy
<1>4. CASE ~BeginDeploy(d)
  <2>1. prep[d].pc \in PrepSteps \/ Preparing(d)
    BY <1>4 DEF Prepare, PruneReadManifests, PruneReadLease, PruneDrop, EnsureReadOwn,
       EnsureReadLegacy, EnsureCopy, SkipImport, PreparationDies, PrepSteps
  <2>2. Preparing(d)
    BY <1>1, <2>1 DEF Preparing, PreparedFirst, PrepSteps
  <2> QED BY <1>1, <1>2, <2>2 DEF OneDeploy, UnderWay, Preparing
<1> QED BY <1>3, <1>4

\* Its two reads are the only steps that leave the sweep in the middle.
LEMMA PruneReads ==
    ASSUME Typed, NEW d \in Deploys, Prepare(d), prep'[d].pc \in {"lease", "drop"}
    PROVE  PruneReadManifests(d) \/ PruneReadLease(d)
<1>t. prep[d] \in Preparations /\ prep \in [Deploys -> Preparations]
  BY TypedParts
<1>1. ~BeginDeploy(d)
  <2> SUFFICES ASSUME BeginDeploy(d) PROVE FALSE
    OBVIOUS
  <2>1. PICK f \in Formats, skips \in BOOLEAN :
           prep' = [prep EXCEPT ![d].pc = "roles", ![d].fmt = f, ![d].skips = skips]
    BY DEF BeginDeploy
  <2>2. prep'[d] = [prep[d] EXCEPT !.pc = "roles", !.fmt = f, !.skips = skips]
    BY <1>t, <2>1
  <2>3. prep'[d].pc = "roles"
    BY <1>t, <2>2 DEF Preparations
  <2> QED BY <2>3
<1>2. ~PruneDrop(d) /\ ~PreparationDies(d) /\ ~SkipImport(d)
  BY <1>t DEF PruneDrop, PruneOver, PreparationDies, SkipImport, Preparations
<1>3. ~EnsureReadOwn(d)
  BY <1>t DEF EnsureReadOwn, Prepared, Preparations
<1>4. ~EnsureReadLegacy(d)
  <2> DEFINE m == manifests[Legacy]
  <2>1. prep' \in {[prep EXCEPT ![d].pc = "copy", ![d].copied = m],
                  [prep EXCEPT ![d].pc = "ready", ![d].copied = NoManifest]}
        \/ ~EnsureReadLegacy(d)
    BY DEF EnsureReadLegacy, Prepared
  <2> HIDE DEF m
  <2> QED BY <1>t, <2>1 DEF Preparations
<1>5. ~EnsureCopy(d)
  BY <1>t DEF EnsureCopy, Prepared, Preparations
<1> QED BY <1>1, <1>2, <1>3, <1>4, <1>5 DEF Prepare

\* What the sweep has seen, once it has read the manifests and once it has read
\* the lease: a run that may publish is backed by one or the other.
LEMMA PrepareInformed ==
    ASSUME SerialDeploys, Safe, NEW d \in Deploys, Prepare(d)
    PROVE  SweepsInformed'
<1> SUFFICES ASSUME NEW e \in Deploys, prep'[e].pc \in {"lease", "drop"} PROVE SawEveryone(e)'
  BY DEF SweepsInformed, SawEveryone
<1>1. /\ dep' = dep /\ lease' = lease /\ co' = co /\ PreparedFirst
      /\ \A c \in Coordinators : (MayGoOn(c)' <=> MayGoOn(c)) /\ Backed(c)
  BY PrepareKeeps DEF MayGoOn, Resting, Superseded, Safe, WritersExclude, RunsBacked
<1>2. e = d
  BY <1>1, PrepareUnderWay DEF UnderWay, Preparing, PreparedFirst
<1>3. prep[d] \in Preparations /\ prep \in [Deploys -> Preparations]
  BY TypedParts DEF Safe
<1>4. PruneReadManifests(d) \/ PruneReadLease(d)
  BY <1>2, PruneReads DEF Safe
<1>5. manifests' = manifests /\ astray \subseteq astray'
  BY <1>4 DEF PruneReadManifests, PruneReadLease, kvVars
<1>6. ASSUME NEW c \in Coordinators, MayGoOn(c), co[c].phase \in {"publish", "manifest"}
      PROVE  co[c].built = lease.built \/ co[c].built \in LiveFamilies(manifests) \cup astray
  BY <1>1, <1>6 DEF Backed, Claimed, HasPublished
<1>7. CASE PruneReadManifests(d)
  <2>1. prep'[d].seen = manifests /\ prep'[d].holder = lease.built
    BY <1>2, <1>3, <1>7 DEF PruneReadManifests, PruneOver, Preparations
  <2> QED BY <1>1, <1>2, <1>5, <1>6, <2>1 DEF SawEveryone, SawFamily
<1>8. CASE PruneReadLease(d)
  <2>1. /\ prep'[d].seen = prep[d].seen /\ prep'[d].holder = lease.built
        /\ astray' = astray \cup Overlooked(d)
    BY <1>2, <1>3, <1>8 DEF PruneReadLease, PruneOver, Preparations
  <2>2. \A f \in LiveFamilies(manifests) : f \in LiveFamilies(prep[d].seen) \cup {lease.built} \cup astray'
    BY <2>1 DEF Overlooked, LiveFamilies
  <2> QED BY <1>1, <1>2, <1>5, <1>6, <2>1, <2>2 DEF SawEveryone, SawFamily
<1> QED BY <1>4, <1>7, <1>8

LEMMA PrepareSafe ==
    ASSUME SerialDeploys, Safe, Typed', NEW d \in Deploys, Prepare(d)
    PROVE  Safe'
<1>1. /\ UNCHANGED <<lease, pointer, fence, builds, co, slice, dep>>
      /\ \A c, e \in Coordinators : e \in waits[c] => e \in waits'[c]
  BY PrepareKeeps, TypedParts, Apart DEF Over, Safe
<1>2. /\ dep[d].pc = "off" /\ \A e \in Deploys \ {d} : ~UnderWay(e)
      /\ \A e \in Deploys \ {d} : prep'[e] = prep[e]
  BY PrepareUnderWay
<1>3. \A e \in Deploys : dep[e].pc \in {"off", "done", "dead"}
  BY <1>2 DEF UnderWay, Active
<1>4. \A c \in Coordinators : (Resting(c)' <=> Resting(c)) /\ (Ended(c)' <=> Ended(c))
  BY <1>1 DEF Resting, Ended
<1>5. BuildsDistinct' /\ RunsExclude'
  BY <1>1, <1>4 DEF BuildsDistinct, RunsExclude, Safe, WritersExclude
<1>6. OneDeploy' /\ PreparedFirst'
  BY <1>1, <1>2 DEF OneDeploy, UnderWay, Active, Preparing, PreparedFirst, Safe, WritersExclude
<1>7. DeployExcludes' /\ DeploysReady'
  BY <1>1, <1>3 DEF DeployExcludes, Excluded, Active, Holding, DeploysReady, DeployReady, Safe,
     WritersExclude
<1>8. RunsBacked'
  <2> SUFFICES ASSUME NEW c \in Coordinators PROVE Backed(c)'
    BY DEF RunsBacked
  <2>1. Backed(c) /\ (MayGoOn(c)' <=> MayGoOn(c)) /\ (Claimed(c)' <=> Claimed(c))
    BY <1>1 DEF Safe, WritersExclude, RunsBacked, MayGoOn, Claimed, Resting, Superseded
  <2>2. HasPublished(c) => HasPublished(c)'
    BY <1>1, PrepareSpares DEF HasPublished
  <2> QED BY <1>1, <2>1, <2>2 DEF Backed
<1>9. RunsReady'
  <2> SUFFICES ASSUME NEW c \in Coordinators, ~Resting(c) PROVE RunReady(c)'
    BY <1>4, RestIsReady DEF RunsReady
  <2>1. RunReady(c) /\ FitsPhase(c) /\ astray \subseteq astray' /\ astray \subseteq Families
    BY PrepareSpares, TypedParts DEF Safe, WritersExclude, RunsReady
  <2>2. slice[c].pc \in {"fence", "commit", "mirror"} =>
          co[c].built \in astray' \/ Complete(kv', co[c].built)
    BY <2>1, PrepareSpares DEF RunReady, Whole, Complete
  <2>3. slice[c].pc \in {"mirror", "release", "roles"} => OwnKeyKept(c)'
    <3> SUFFICES ASSUME slice[c].pc \in {"mirror", "release", "roles"} PROVE OwnKeyKept(c)'
      OBVIOUS
    <3>1. OwnKeyKept(c) /\ co[c].fmt \in ManifestKeys /\ co[c].built # NoFamily
      BY <2>1 DEF RunReady, FitsPhase, ManifestKeys
    <3>2. manifests[co[c].fmt].built # NoFamily
      BY <2>1, <3>1 DEF OwnKeyKept, Families, NoFamily
    <3>3. \/ manifests'[co[c].fmt] = manifests[co[c].fmt]
          \/ {manifests[co[c].fmt].built, manifests'[co[c].fmt].built} \subseteq astray'
      BY <3>1, <3>2, PrepareSpares
    <3> QED BY <1>1, <2>1, <3>1, <3>3 DEF OwnKeyKept
  <2>4. \A seen : Covered(seen) => Covered(seen)'
    BY PrepareSpares DEF Covered
  <2> QED BY <1>1, <2>1, <2>2, <2>3, <2>4 DEF RunReady, Whole
<1>10. ManifestComplete'
  <2>1. \A f \in LiveFamilies(manifests) : (f \in astray \/ Complete(kv, f)) /\ f \in Families
    BY TypedParts, CompleteAsLive, LiveAreFamilies DEF Safe
  <2> SUFFICES \A f \in LiveFamilies(manifests') : f \in astray' \/ Complete(kv', f)
    BY DEF ManifestComplete, LiveFamilies, Whole
  <2> QED BY <2>1, PrepareSpares DEF Complete
<1> QED BY <1>5, <1>6, <1>7, <1>8, <1>9, <1>10, PrepareInformed DEF Safe, WritersExclude, Typed

\* A pointer that moves on, and a lease that expires.
LEMMA ElsewhereSafe ==
    ASSUME Safe, Typed', Failover \/ LeaseExpires
    PROVE  Safe'
<1>1. /\ UNCHANGED <<kv, manifests, fence, builds, co, slice, dep, waits, prep, astray>>
      /\ pointer' = pointer \/ pointer' = pointer + 1
  BY DEF Failover, LeaseExpires, kvVars, prepVars
<1>2. RunsExclude'
  <2>1. \A e \in Coordinators : e > pointer' => e > pointer
    BY <1>1, TypedParts, Apart DEF Safe
  <2> QED BY <1>1, <2>1 DEF RunsExclude, Resting, Ended, Safe, WritersExclude
<1>3. DeployExcludes'
  <2> SUFFICES ASSUME NEW d \in Deploys PROVE Excluded(d)'
    BY DEF DeployExcludes
  <2>1. Excluded(d)
    BY DEF Safe, WritersExclude, DeployExcludes
  <2>2. dep[d].pc \in Holding => lease' = lease
    <3>1. CASE Failover
      BY <3>1 DEF Failover, kvVars
    <3>2. CASE LeaseExpires
      BY <2>1, <3>2 DEF LeaseExpires, Excluded, Active, Holding
    <3> QED BY <3>1, <3>2
  <2> QED BY <1>1, <2>1, <2>2 DEF Excluded, Resting, Ended, Unfenced, Active
<1>4. BuildsDistinct' /\ OneDeploy' /\ PreparedFirst' /\ RunsReady' /\ DeploysReady' /\ ManifestComplete'
  BY <1>1 DEF Safe, WritersExclude, BuildsDistinct, OneDeploy, UnderWay, Preparing, Active,
     PreparedFirst, RunsReady, RunReady, OwnKeyKept, DeploysReady, DeployReady, Covered, Whole,
     ManifestComplete
<1>5. \A c \in Coordinators : (MayGoOn(c)' => MayGoOn(c)) /\ (Resting(c)' <=> Resting(c))
  BY <1>1, TypedParts, Apart DEF Safe, MayGoOn, Resting, Superseded
<1>6. SweepsInformed'
  BY <1>1, <1>5 DEF Safe, WritersExclude, SweepsInformed, SawEveryone, SawFamily
<1>7. RunsBacked'
  <2> SUFFICES ASSUME NEW c \in Coordinators PROVE Backed(c)'
    BY DEF RunsBacked
  <2>1. Backed(c) /\ (HasPublished(c)' <=> HasPublished(c)) /\ (Claimed(c)' <=> Claimed(c))
    BY <1>1 DEF Safe, WritersExclude, RunsBacked, HasPublished, Claimed
  <2>2. Claimed(c) => lease'.built = lease.built \/ lease.built # co[c].built
    <3>1. CASE Failover
      BY <3>1 DEF Failover, kvVars
    <3>2. CASE LeaseExpires
      <4>1. Claimed(c) => co[c].phase \in Working
        BY TypedParts DEF Claimed, FitsPhase, Working, Safe
      <4> QED BY <3>2, <4>1 DEF LeaseExpires, Holds
    <3> QED BY <3>1, <3>2
  <2> QED BY <1>1, <1>5, <2>1, <2>2 DEF Backed
<1> QED BY <1>2, <1>3, <1>4, <1>6, <1>7 DEF Safe, WritersExclude, Typed

LEMMA SafeStep ==
    ASSUME Prompt, SerialDeploys, ~FenceReadsFail
    PROVE  Safe /\ [Next]_vars => Safe'
<1> SUFFICES ASSUME Safe, [Next]_vars PROVE Safe'
  OBVIOUS
<1>1. Typed'
  BY TypedStep DEF Safe
<1>2. CASE UNCHANGED vars
  BY <1>1, <1>2 DEF vars, Safe, WritersExclude, Typed, BuildsDistinct, RunsExclude, Resting, Ended,
     Unfenced, OneDeploy, UnderWay, Preparing, PreparedFirst, Active, DeployExcludes, Excluded,
     RunsBacked, Backed, MayGoOn, Superseded, Claimed, HasPublished, SweepsInformed, SawEveryone,
     SawFamily, RunsReady, RunReady, OwnKeyKept, DeploysReady, DeployReady, Covered, Whole,
     ManifestComplete
<1> QED BY <1>1, <1>2, RunSafe, DeploySafe, PrepareSafe, ElsewhereSafe DEF Next

LEMMA SafeInit == Init => Safe
<1> SUFFICES ASSUME Init PROVE Safe
  OBVIOUS
<1>1. Typed
  BY TypedInit
<1>2. /\ co = [c \in Coordinators |-> IdleRun] /\ slice = [c \in Coordinators |-> AtRest]
      /\ dep = [d \in Deploys |-> NotStarted] /\ prep = [d \in Deploys |-> Unprepared]
      /\ pointer = 0 /\ fence = 0
  BY DEF Init
<1>3. BuildsDistinct /\ RunsExclude
  BY <1>1, <1>2, TypedParts DEF BuildsDistinct, RunsExclude, IdleRun, AtRest, NotStarted, Resting,
     NoFamily
<1>4. OneDeploy /\ PreparedFirst /\ DeployExcludes /\ RunsReady /\ DeploysReady
  BY <1>2 DEF OneDeploy, UnderWay, Preparing, PreparedFirst, Active, DeployExcludes, Excluded,
     Holding, RunsReady, RunReady, DeploysReady, DeployReady, NotStarted, Unprepared, AtRest
<1>6. RunsBacked /\ SweepsInformed
  BY <1>2 DEF RunsBacked, Backed, Claimed, IdleRun, AtRest, SweepsInformed, SawEveryone, Unprepared
<1>5. ManifestComplete
  <2>1. ASSUME NEW k \in ManifestKeys, manifests[k].built # NoFamily
        PROVE  ~EmptyStart /\ manifests[k].built = 2 /\ builds = 2
    BY <2>1 DEF Init, NoManifest
  <2>2. ASSUME ~EmptyStart PROVE Complete(kv, 2)
    <3>1. 2 \in Families /\ 2 \in 1..builds
      BY <2>2, MaxBuildsAssumption, CasesAssumption DEF Init, Families
    <3>2. kv[2] = FamilyKeys
      BY <3>1 DEF Init
    <3> QED BY <3>2 DEF Complete, FamilyKeys
  <2> QED BY <2>1, <2>2 DEF ManifestComplete, Whole
<1> QED BY <1>1, <1>3, <1>4, <1>5, <1>6 DEF Safe, WritersExclude, Typed

\* The writers exclude each other: whoever deletes a family or publishes one is
\* alone at it, its family is whole, and its sweep has seen every live family.
THEOREM WritersApart ==
    ASSUME Prompt, SerialDeploys, ~FenceReadsFail
    PROVE  Spec => []WritersExclude
<1>1. Safe => WritersExclude
  BY DEF Safe
<1> QED BY <1>1, SafeInit, SafeStep, PTL DEF Spec

\* No history of uploads, sweeps, failovers, kills, deploys and best-effort
\* failures leaves a live manifest naming a chunk that is not in KV.
THEOREM NoAbsentChunk ==
    ASSUME Prompt, SerialDeploys, ~FenceReadsFail
    PROVE  Spec => []ManifestComplete
<1>1. Safe => ManifestComplete
  BY DEF Safe
<1> QED BY <1>1, SafeInit, SafeStep, PTL DEF Spec

\* A deploy that took the lease keeps it until it gives it back, whatever the
\* runs it fenced out were doing.
THEOREM LeaseStaysWithDeploy ==
    ASSUME Prompt, SerialDeploys, ~FenceReadsFail
    PROVE  Spec => []DeployKeepsLease
<1>1. Safe => DeployKeepsLease
  BY DEF Safe, WritersExclude, DeployExcludes, Excluded, DeployKeepsLease
<1> QED BY <1>1, SafeInit, SafeStep, PTL DEF Spec

-----------------------------------------------------------------------------
(***************************************************************************)
(* The publish protocol implements the contract of the store's readers.    *)
(***************************************************************************)
\* No step but a deploy's before its fence touches a manifest and a generation
\* key at once, takes the last manifest away, or lets a family go astray.
LEMMA OneThingAtATime ==
    ASSUME Prompt, ~FenceReadsFail, Safe, [Next]_vars,
           \A d \in Deploys : ~Prepare(d)
    PROVE  /\ UNCHANGED <<prep, astray>>
           /\ manifests' = manifests \/ (kv' = kv /\ StaysLive)
<1>1. ASSUME NEW c \in Coordinators, Run(c) PROVE manifests' = manifests \/ (kv' = kv /\ StaysLive)
  BY <1>1, RunHasEffect DEF Safe, WritersExclude, RunsReady, RunEffect, ManifestsMove
<1>2. ASSUME NEW d \in Deploys, Deploy(d) PROVE manifests' = manifests \/ (kv' = kv /\ StaysLive)
  BY <1>2, DeployHasEffect DEF JobEffect, JobManifestsMove
<1>3. CASE Failover \/ LeaseExpires \/ UNCHANGED vars
  BY <1>3 DEF Failover, LeaseExpires, vars, kvVars, prepVars
<1> QED BY <1>1, <1>2, <1>3, RunKeepsPreparations, DeployKeepsPreparations DEF Next

\* A family that is whole has every part there is, and a part is not the filter.
LEMMA WholeParts ==
    ASSUME NEW s \in Store, NEW f \in Families
    PROVE  /\ s[f] \ {Filter} \in SUBSET (1..Chunks)
           /\ Complete(s, f) <=> s[f] \ {Filter} = 1..Chunks
<1>1. Filter \notin 1..Chunks
  BY ChunksAssumption DEF Filter
<1> QED BY <1>1 DEF Store, FamilyKeys, Complete

\* The names under which the contract's state is read off the protocol's.
parts == [f \in Families |-> kv[f] \ {Filter}]
named == [k \in ManifestKeys |-> manifests[k].built]

View ==
    /\ parts \in [Families -> SUBSET (1..Chunks)]
    /\ named \in [ManifestKeys -> Families \cup {NoFamily}]
    /\ Contract!LiveNow = LiveFamilies(manifests)
    /\ \A f \in Contract!LiveNow : f \in Families /\ (f \in astray \/ parts[f] = 1..Chunks)

LEMMA ReadersView == Safe => View
<1> SUFFICES ASSUME Safe PROVE View
  OBVIOUS
<1>1. kv \in Store /\ manifests \in Published /\ astray \subseteq Families
  BY TypedParts DEF Safe
<1>2. parts \in [Families -> SUBSET (1..Chunks)]
  BY <1>1, WholeParts DEF parts
<1>3. \A k \in ManifestKeys : manifests[k].built \in Families \cup {NoFamily}
  BY <1>1, MaxBuildsAssumption DEF Published, Manifest, Families, NoFamily
<1>4. Contract!LiveNow = LiveFamilies(manifests)
  BY DEF Contract!LiveNow, LiveFamilies
<1>5. \A f \in LiveFamilies(manifests) : f \in Families /\ (f \in astray \/ Complete(kv, f))
  BY <1>1, CompleteAsLive, LiveAreFamilies DEF Safe
<1> QED BY <1>1, <1>2, <1>3, <1>4, <1>5, WholeParts DEF View, parts, named

LEMMA ContractInit == Init => Contract!Init
<1> SUFFICES ASSUME Init PROVE Contract!Init
  OBVIOUS
<1>1. View /\ astray = {}
  BY SafeInit, ReadersView DEF Init
<1> QED BY <1>1 DEF View, Contract!Init, Contract!Whole, parts, named

\* A write of a manifest, as the contract's readers see it.
LEMMA ContractPublish ==
    ASSUME View, View', kv' = kv, astray' = astray, StaysLive
    PROVE  Contract!Publish
<1>1. parts' = parts
  BY DEF parts
<1>2. \A k \in ManifestKeys :
         named'[k] \in {named[k], NoFamily} \cup {f \in Families : f \in astray \/ 1..Chunks \subseteq parts[f]}
  <2> TAKE k \in ManifestKeys
  <2>1. named'[k] = manifests'[k].built
    BY DEF named
  <2>2. CASE manifests'[k].built = NoFamily
    BY <2>1, <2>2
  <2>3. CASE manifests'[k].built # NoFamily
    <3>1. manifests'[k].built \in LiveFamilies(manifests')
      BY <2>3 DEF LiveFamilies
    <3> QED BY <1>1, <2>1, <3>1 DEF View
  <2> QED BY <2>2, <2>3
<1>3. Contract!LiveNow # {} => \E k \in ManifestKeys : named'[k] # NoFamily
  BY DEF View, StaysLive, LiveFamilies, named
<1>4. named' \in [ManifestKeys -> Families \cup {NoFamily}]
  BY DEF View
<1> QED BY <1>1, <1>2, <1>3, <1>4 DEF Contract!Publish, Contract!Whole, parts, named

\* Writes and deletions of chunks, as the contract's readers see them.
LEMMA ContractStore ==
    ASSUME View, View', manifests' = manifests, astray' = astray,
           \A f \in LiveFamilies(manifests) \ astray : parts'[f] = parts[f]
    PROVE  Contract!Store
<1>1. named' = named
  BY DEF named
<1> QED BY <1>1 DEF View, Contract!Store, parts, named

\* The steps before the fence go one way, so no slip comes back.
LEMMA PreparationsGoOn ==
    ASSUME Typed, NEW d \in Deploys, Prepare(d)
    PROVE  /\ \A e \in Deploys \ {d} : prep'[e] = prep[e]
           /\ prep'[d].pc # "off"
           /\ prep'[d].pc \in PrepSteps => prep[d].pc \in PrepSteps \cup {"off"}
           /\ prep'[d].pc \in {"roles", "lease"} => prep[d].pc \in {"off", "roles"}
<1>1. prep[d] \in Preparations /\ prep \in [Deploys -> Preparations]
  BY TypedParts
<1>2. \A e \in Deploys \ {d} : prep'[e] = prep[e]
  BY <1>1 DEF Prepare, BeginDeploy, PruneReadManifests, PruneReadLease, PruneDrop, PruneOver,
     EnsureReadOwn, EnsureReadLegacy, EnsureCopy, Prepared, SkipImport, PreparationDies
<1>3. CASE BeginDeploy(d)
  <2>1. PICK f \in Formats, skips \in BOOLEAN :
           prep' = [prep EXCEPT ![d].pc = "roles", ![d].fmt = f, ![d].skips = skips]
    BY <1>3 DEF BeginDeploy
  <2>2. prep'[d] = [prep[d] EXCEPT !.pc = "roles", !.fmt = f, !.skips = skips]
    BY <1>1, <2>1
  <2>3. prep'[d].pc = "roles" /\ prep[d].pc = "off"
    BY <1>1, <1>3, <2>2 DEF Preparations, BeginDeploy
  <2> QED BY <1>2, <2>3
<1>4. CASE PruneReadManifests(d) \/ PruneReadLease(d) \/ PruneDrop(d)
  <2>1. prep[d].pc \in {"roles", "lease", "drop"} /\ prep'[d].pc \in {"lease", "drop", "own"}
        /\ (prep'[d].pc = "lease" => prep[d].pc = "roles")
    BY <1>1, <1>4 DEF PruneReadManifests, PruneReadLease, PruneDrop, PruneOver, Preparations
  <2> QED BY <1>2, <2>1 DEF PrepSteps
<1>5. CASE EnsureReadOwn(d) \/ EnsureReadLegacy(d) \/ EnsureCopy(d)
  <2>1. prep[d].pc \in {"own", "legacy", "copy"}
    BY <1>5 DEF EnsureReadOwn, EnsureReadLegacy, EnsureCopy
  <2>2. prep'[d].pc \in {"legacy", "copy", "ready"}
    <3>1. CASE EnsureReadOwn(d) \/ EnsureCopy(d)
      BY <1>1, <3>1 DEF EnsureReadOwn, EnsureCopy, Prepared, Preparations
    <3>2. CASE EnsureReadLegacy(d)
      <4> DEFINE m == manifests[Legacy]
      <4>1. prep' \in {[prep EXCEPT ![d].pc = "copy", ![d].copied = m],
                      [prep EXCEPT ![d].pc = "ready", ![d].copied = NoManifest]}
        BY <3>2 DEF EnsureReadLegacy, Prepared
      <4> HIDE DEF m
      <4> QED BY <1>1, <4>1 DEF Preparations
    <3> QED BY <1>5, <3>1, <3>2
  <2> QED BY <1>2, <2>1, <2>2 DEF PrepSteps
<1>6. CASE SkipImport(d) \/ PreparationDies(d)
  <2>1. prep'[d].pc = "over"
    BY <1>1, <1>6 DEF SkipImport, PreparationDies, Preparations
  <2> QED BY <1>2, <2>1 DEF PrepSteps
<1> QED BY <1>3, <1>4, <1>5, <1>6 DEF Prepare

LEMMA SlipsGoOn ==
    ASSUME Typed, NEW d \in Deploys, Prepare(d)
    PROVE  /\ SlipsToCome' \subseteq SlipsToCome
           /\ prep[d].pc = "lease" /\ prep'[d].pc = "drop" => <<d, "sweep">> \in SlipsToCome \ SlipsToCome'
           /\ prep[d].pc = "copy" /\ prep'[d].pc = "ready" => <<d, "copy">> \in SlipsToCome \ SlipsToCome'
<1>1. \A s \in Slips : s[1] \in Deploys /\ s[2] \in {"sweep", "copy"}
  BY DEF Slips
<1>2. ASSUME NEW s \in Slips, s \in SlipsToCome' PROVE s \in SlipsToCome
  <2>1. CASE s[1] # d
    BY <1>1, <1>2, <2>1, PreparationsGoOn DEF SlipsToCome
  <2>2. CASE s[1] = d
    BY <1>1, <1>2, <2>2, PreparationsGoOn DEF SlipsToCome, PrepSteps
  <2> QED BY <2>1, <2>2
<1>3. SlipsToCome' \subseteq Slips
  BY DEF SlipsToCome
<1>4. <<d, "sweep">> \in Slips /\ <<d, "copy">> \in Slips
  BY DEF Slips
<1> QED BY <1>2, <1>3, <1>4 DEF SlipsToCome, PrepSteps

\* A sweep between whose reads a family was published loses sight of it: it is
\* the one whose run held the lease when the manifests were read.
LEMMA OverlooksOne ==
    ASSUME Safe, NEW d \in Deploys, prep[d].pc = "lease"
    PROVE  Overlooked(d) \ astray \subseteq {prep[d].holder, Rollback(manifests)}
<1>1. SawEveryone(d)
  BY DEF Safe, WritersExclude, SweepsInformed
<1> QED BY <1>1 DEF SawEveryone, SawFamily, Overlooked

LEMMA ContractOverlook ==
    ASSUME Safe, View, Safe', NEW d \in Deploys, PruneReadLease(d), astray' # astray
    PROVE  Contract!Next
<1>1. /\ prep[d].pc = "lease" /\ astray' = astray \cup Overlooked(d)
      /\ UNCHANGED <<kv, manifests>> /\ Prepare(d)
      /\ prep' = [prep EXCEPT ![d].pc = "drop", ![d].holder = lease.built]
  BY DEF PruneReadLease, kvVars, Prepare
<1>2. prep'[d].pc = "drop"
  BY <1>1, TypedParts DEF Safe, Preparations
<1>3. SlipsToCome' \subseteq SlipsToCome /\ SlipsToCome' # SlipsToCome
  BY <1>1, <1>2, SlipsGoOn DEF Safe
<1>4. Overlooked(d) \ astray \subseteq {prep[d].holder, Rollback(manifests)} /\ astray' \subseteq Families
  <2>1. Overlooked(d) \ astray \subseteq {prep[d].holder, Rollback(manifests)}
    BY <1>1, OverlooksOne
  <2>2. astray' \subseteq Families
    BY DEF Safe, Typed, TypeOK
  <2> QED BY <2>1, <2>2
<1>5. PICK f \in Families, g \in Families : astray' = astray \cup {f, g}
  <2>1. PICK f : f \in astray' \ astray
    BY <1>1
  <2>2. CASE astray' \ astray = {f}
    BY <1>1, <1>4, <2>1, <2>2
  <2>3. CASE astray' \ astray # {f}
    <3>1. PICK g : g \in (astray' \ astray) \ {f}
      BY <2>1, <2>3
    <3>2. f \in {prep[d].holder, Rollback(manifests)} /\ g \in {prep[d].holder, Rollback(manifests)}
      BY <1>1, <1>4, <2>1, <3>1
    <3>3. astray' = astray \cup {f, g}
      BY <1>1, <1>4, <2>1, <3>1, <3>2
    <3> QED BY <1>4, <2>1, <3>1, <3>3
  <2> QED BY <2>2, <2>3
<1>6. Contract!Overlook(f, g)
  BY <1>1, <1>5 DEF Contract!Overlook
<1> QED BY <1>3, <1>6 DEF Contract!Next, Contract!Slip

LEMMA ContractCopy ==
    ASSUME Safe, View, View', NEW d \in Deploys, EnsureCopy(d),
           manifests' # manifests \/ astray' # astray
    PROVE  Contract!Next
<1> DEFINE k == prep[d].fmt
           m == prep[d].copied
<1>1. /\ prep[d].pc = "copy" /\ kv' = kv /\ manifests' = [manifests EXCEPT ![k] = m]
      /\ astray' = IF Late(d) THEN astray \cup PutBack(d) ELSE astray
      /\ prep' = [prep EXCEPT ![d].pc = "ready", ![d].copied = NoManifest] /\ Prepare(d)
  BY DEF EnsureCopy, Prepared, Prepare
<1>2. m.built # NoFamily /\ k \in Formats /\ m \in Manifest /\ manifests \in Published
  BY <1>1, TypedParts DEF Safe, CopyChosen, Preparations
<1>3. k \in ManifestKeys /\ Legacy \in ManifestKeys
  BY <1>2 DEF ManifestKeys, Formats, Legacy
<1>4. prep'[d].pc = "ready"
  BY <1>1, TypedParts DEF Safe, Preparations
<1>5. SlipsToCome' \subseteq SlipsToCome /\ SlipsToCome' # SlipsToCome
  BY <1>1, <1>4, SlipsGoOn DEF Safe
<1> HIDE DEF k, m
<1>6. manifests'[k] = m /\ \A x \in ManifestKeys \ {k} : manifests'[x] = manifests[x]
  BY <1>1, <1>2, <1>3 DEF Published
<1>7. CASE Late(d)
  <2>1. m.built \in Families /\ m.prev \in Families \cup {NoFamily}
    BY <1>2, MaxBuildsAssumption DEF Manifest, Families, NoFamily
  <2>2. astray' = astray \cup ({manifests[k].built, m.built, m.prev} \ {NoFamily})
    BY <1>1, <1>7 DEF PutBack, k, m
  <2>3. parts' = parts
    BY <1>1 DEF parts
  <2>4. named' = [named EXCEPT ![k] = m.built] /\ named[k] = manifests[k].built
    <3>1. \A x \in ManifestKeys : named[x] = manifests[x].built /\ named'[x] = manifests'[x].built
      BY DEF named
    <3>2. named'[k] = m.built /\ \A x \in ManifestKeys \ {k} : named'[x] = named[x]
      BY <1>3, <1>6, <3>1
    <3>3. named \in [ManifestKeys -> Families \cup {NoFamily}] /\ named' \in [ManifestKeys -> Families \cup {NoFamily}]
      BY DEF View
    <3> QED BY <1>3, <3>1, <3>2, <3>3
  <2>5. PICK x \in ManifestKeys, f \in Families, g \in Families \cup {NoFamily} :
           x = k /\ f = m.built /\ g = m.prev
    BY <1>3, <2>1
  <2>6. Contract!PutBack(x, f, g)
    BY <2>2, <2>3, <2>4, <2>5 DEF Contract!PutBack, parts, named
  <2> QED BY <1>5, <2>6 DEF Contract!Next, Contract!Slip
<1>8. CASE ~Late(d)
  <2>1. StaysLive
    BY <1>2, <1>3, <1>6 DEF StaysLive, LiveFamilies
  <2>2. Contract!Publish
    BY <1>1, <1>8, <2>1, ContractPublish
  <2> QED BY <1>5, <2>2 DEF Contract!Next
<1> QED BY <1>7, <1>8

LEMMA ContractStep ==
    ASSUME Prompt, SerialDeploys, ~FenceReadsFail, Safe, Safe', [Next]_vars
    PROVE  [Contract!Next]_(Contract!contractVars)
<1>v. View /\ View'
  BY ReadersView, PTL
<1>1. CASE \A d \in Deploys : ~Prepare(d)
  <2>1. UNCHANGED <<prep, astray>> /\ (manifests' = manifests \/ (kv' = kv /\ StaysLive))
    BY <1>1, OneThingAtATime
  <2>2. SlipsToCome' = SlipsToCome
    BY <2>1 DEF SlipsToCome
  <2>3. CASE manifests' = manifests
    <3>1. \A f \in LiveFamilies(manifests) \ astray : parts'[f] = parts[f]
      BY <1>v, <2>1, <2>3 DEF View
    <3> QED BY <1>v, <2>1, <2>2, <2>3, <3>1, ContractStore DEF Contract!Next
  <2>4. CASE kv' = kv /\ StaysLive
    BY <1>v, <2>1, <2>2, <2>4, ContractPublish DEF Contract!Next
  <2> QED BY <2>1, <2>3, <2>4
<1>2. ASSUME NEW d \in Deploys, Prepare(d) PROVE Contract!Next
  <2>1. CASE PruneReadLease(d) /\ astray' # astray
    BY <1>v, <2>1, ContractOverlook
  <2>2. CASE EnsureCopy(d) /\ (manifests' # manifests \/ astray' # astray)
    BY <1>v, <2>2, ContractCopy
  <2>3. CASE manifests' = manifests /\ astray' = astray
    <3>1. \A f \in LiveFamilies(manifests) \ astray : parts'[f] = parts[f]
      BY <1>v, <2>3 DEF View
    <3>2. SlipsToCome' \subseteq SlipsToCome
      BY <1>2, SlipsGoOn DEF Safe
    <3> QED BY <1>v, <2>3, <3>1, <3>2, ContractStore DEF Contract!Next
  <2> QED BY <1>2, <2>1, <2>2, <2>3, PrepareKeeps
<1> QED BY <1>1, <1>2

\* Whatever the writers do, every Worker sees a store that keeps StoreContract:
\* its manifest names a whole family, whose chunks do not change while it is
\* published, and from the first publish on some manifest can be loaded; but for
\* one slip of each deploy's unleased sweep and one of its copy.
THEOREM PublishImplementsContract ==
    ASSUME Prompt, SerialDeploys, ~FenceReadsFail
    PROVE  Spec => ImplementsContract
<1>1. Safe /\ Safe' /\ [Next]_vars => [Contract!Next]_(Contract!contractVars)
  BY ContractStep
<1> QED BY <1>1, ContractInit, SafeInit, SafeStep, PTL DEF Spec, ImplementsContract, Contract!Spec
=============================================================================
