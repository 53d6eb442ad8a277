----------------------- MODULE StorePublish_rollback -----------------------
(***************************************************************************)
(* The rollback stays whole, with one archive format, while no family is   *)
(* astray.  The primary is then the format's own manifest, or the mirror   *)
(* before there is one; what a publisher read is still what it replaces    *)
(* when it writes; a sweep that holds the lease has seen the roles as they *)
(* are, with room to keep all of them; and one before a deploy's fence has *)
(* seen every family that is the rollback or may become it.                *)
(***************************************************************************)
EXTENDS StorePublish_promises

Only == LatestFormat
Own == manifests[Only]
Restorable(m) == m.prev # NoFamily => Complete(kv, m.prev)
SameRoles(pub, seen) == Primary(seen) = Primary(pub) /\ LiveFamilies(seen) = LiveFamilies(pub)
SameView(seen) == SameRoles(manifests, seen)
RolesKept == SameRoles(manifests, manifests')
Named(pub) == \A k \in ManifestKeys : pub[k].built # NoFamily => pub[k].fmt \in Formats

\* RollbackKept while no family is astray.
Keeps(store, pub) ==
    OtherLive(pub) = {} /\ Primary(pub).prev # NoFamily => Complete(store, Primary(pub).prev)

\* A run whose manifest is the primary already, killed before its alarm was over.
Republishes(c) == MayGoOn(c) /\ co[c].phase = "manifest" /\ Primary(manifests).built = co[c].built

RunRestores(c) ==
    LET pc == slice[c].pc
        b  == co[c].built
    IN  /\ pc \in {"check", "fence", "commit"} => slice[c].replaced \in {NoManifest, Primary(manifests)}
        /\ pc \in {"check", "fence", "commit", "mirror"} => Restorable(MyManifest(c))
        /\ pc \in {"mirror", "release", "roles"} => Own = MyManifest(c)
        /\ pc = "sweep" => SameView(slice[c].seen) \/ slice[c].seen = NothingPublished
        /\ pc = "drop" => SameView(slice[c].seen)
        /\ Republishes(c) => Restorable(Primary(manifests))
        /\ co[c].phase \in {"routing", "publish"} => b \notin LiveFamilies(manifests)
        /\ co[c].phase = "routing" /\ ~co[c].held => kv[b] = {}

\* A run that has published gives its lease up, and nobody has taken it since.
GivesUp(c) == MayGoOn(c) /\ HasPublished(c) => lease.built \in {co[c].built, NoFamily}

JobRestores(d) ==
    LET pc == dep[d].pc
        b  == dep[d].built
    IN  /\ pc \in Early \cup {"off"} => dep[d].replaced = NoManifest
        /\ pc \in {"sweep", "drop", "upload", "carry"} => b \notin LiveFamilies(manifests)
        /\ pc \in {"sweep", "drop"} => kv[b] = {}
        /\ pc \in {"check", "commit", "mirror"} => Restorable(DeployManifest(d))
        /\ pc \in {"mirror", "release", "roles"} => Own = DeployManifest(d)
        /\ pc \in {"drop", "lease", "purge"} => SameView(dep[d].seen)

\* What the sweep before the fence will keep, whatever comes into KV meanwhile:
\* the rollback it has seen named counts while it is no fourth family.
HolderSeen(d) == InFlight(prep[d].holder, prep[d].seen)
NamedSeen(d) == ({Primary(prep[d].seen).built, HolderSeen(d)} \cup OtherLive(prep[d].seen)) \ {NoFamily}
RoleSeen(d) ==
    LET prev == Primary(prep[d].seen).prev
    IN  IF Cardinality(NamedSeen(d) \cup {prev}) > 3 THEN NoFamily ELSE prev
Kept(d) == LiveFamilies(prep[d].seen) \cup {prep[d].holder, RoleSeen(d), NoFamily}

\* A run that may publish before that sweep is over.
InItsWay(c, d) ==
    /\ MayGoOn(c) /\ co[c].phase \in {"publish", "manifest"}
    /\ ~(co[c].phase = "publish" /\ Resting(c) /\ d \in waits[c])

PruneRestores(d) ==
    LET seen == prep[d].seen
    IN  /\ prep[d].pc \in {"lease", "drop"} =>
             \A c \in Coordinators :
                InItsWay(c, d) => LiveFamilies(manifests) \subseteq LiveFamilies(seen) \cup {co[c].built}
        /\ prep[d].pc = "lease" =>
             /\ Rollback(manifests) \in LiveFamilies(seen) \cup {Primary(seen).prev, NoFamily}
             /\ \A c \in Coordinators : Republishes(c) =>
                  \/ Primary(manifests).prev \in LiveFamilies(seen) \cup {NoFamily}
                  \/ Primary(manifests).prev = Primary(seen).prev /\ co[c].built \in LiveFamilies(seen)
        /\ prep[d].pc = "drop" =>
             /\ Rollback(manifests) \in Kept(d)
             /\ \A c \in Coordinators : Republishes(c) => Primary(manifests).prev \in Kept(d)

\* A family not yet stamped is neither live nor in KV.
Stamped ==
    /\ \A f \in LiveFamilies(manifests) : f <= builds
    /\ \A f \in Families : f > builds => kv[f] = {}

Restores ==
    /\ astray = {}
    /\ Keeps(kv, manifests) /\ Stamped /\ Named(manifests)
    /\ \A c \in Coordinators : RunRestores(c) /\ GivesUp(c)
    /\ \A d \in Deploys : JobRestores(d) /\ PruneRestores(d)

\* With one format there are two keys, and its own comes first.
LEMMA OneFormat ==
    ASSUME LatestFormat = 1
    PROVE  Formats = {Only} /\ ManifestKeys = {Only, Legacy} /\ Only # Legacy /\ Only \in Nat
BY DEF Only, Formats, ManifestKeys, Legacy

LEMMA OnePrimary ==
    ASSUME LatestFormat = 1, NEW pub \in Published, Named(pub)
    PROVE  /\ pub[Only].built # NoFamily => Primary(pub) = pub[Only]
           /\ pub[Only].built = NoFamily /\ pub[Legacy].built # NoFamily => Primary(pub) = pub[Legacy]
           /\ pub[Only].built = NoFamily /\ pub[Legacy].built = NoFamily => Primary(pub) = NoManifest
           /\ LiveFamilies(pub) = {pub[Only].built, pub[Legacy].built} \ {NoFamily}
<1> DEFINE usable == {k \in ManifestKeys : pub[k].built # NoFamily}
           first == CHOOSE j \in usable : \A k \in usable : ~SortsBefore(pub, k, j)
<1>1. Primary(pub) = IF usable = {} THEN NoManifest ELSE pub[first]
  BY DEF Primary
<1>2. LiveFamilies(pub) = {pub[Only].built, pub[Legacy].built} \ {NoFamily}
  BY OneFormat DEF LiveFamilies
<1>3. CASE pub[Only].built # NoFamily
  <2>1. Only \in usable /\ usable \subseteq {Only, Legacy} /\ pub[Only].fmt = Only
    BY <1>3, OneFormat DEF Named
  <2>2. ASSUME Legacy \in usable PROVE SortsBefore(pub, Only, Legacy) /\ ~SortsBefore(pub, Legacy, Only)
    <3>1. pub[Legacy].fmt = Only /\ Only \in Nat /\ Only # Legacy
      BY <2>2, OneFormat DEF Named
    <3> QED BY <2>1, <3>1 DEF SortsBefore
  <2>3. ~SortsBefore(pub, Only, Only)
    <3>1. pub[Only].built \in Nat /\ Only \in Nat
      BY OneFormat, MaxBuildsAssumption DEF Published, Manifest
    <3> QED BY <2>1, <3>1, OneFormat DEF SortsBefore
  <2>4. \A k \in usable : ~SortsBefore(pub, k, Only)
    BY <2>1, <2>2, <2>3
  <2>5. \A j \in usable : (\A k \in usable : ~SortsBefore(pub, k, j)) => j = Only
    BY <2>1, <2>2
  <2> HIDE DEF usable
  <2>6. first = Only
    BY <2>1, <2>4, <2>5
  <2> QED BY <1>1, <1>2, <1>3, <2>1, <2>6
<1>4. CASE pub[Only].built = NoFamily /\ pub[Legacy].built # NoFamily
  <2>1. LiveFamilies(pub) # {}
    BY <1>2, <1>4
  <2> QED BY <1>2, <1>4, <2>1, PrimaryExists, OneFormat
<1>5. CASE pub[Only].built = NoFamily /\ pub[Legacy].built = NoFamily
  BY <1>1, <1>2, <1>5, OneFormat
<1> QED BY <1>3, <1>4, <1>5

\* A retirement then copies the format's manifest to an absent mirror at most.
LEMMA RetirementRoles ==
    ASSUME LatestFormat = 1, NEW pub \in Published, Named(pub), NEW r \in Retirements(pub, Only)
    PROVE  /\ r[1] \in Published /\ Named(r[1]) /\ SameRoles(pub, r[1])
           /\ r[1][Only] = pub[Only]
           /\ r[2] \in Published /\ SameRoles(pub, r[2])
<1> DEFINE after == RetireOlderFormats(pub, Only)
           half == [pub EXCEPT ![Legacy] = after[Legacy]]
<1>1. r[1] \in Published /\ r[2] \in Published
  BY RetirementsType, OneFormat
<1>2. r[1] \in {after, pub, half} /\ r[2] \in {after, pub}
  BY DEF Retirements
<1>3. after[Only] = pub[Only] /\ after[Legacy] \in {pub[Legacy], pub[Only]}
  BY RetirementLemma, OneFormat
<1>4. after[Legacy] = pub[Only] =>
        (pub[Only].built # NoFamily /\ pub[Legacy].built = NoFamily) \/ after[Legacy] = pub[Legacy]
  <2>1. CASE pub[Only].built = NoFamily
    BY <2>1, RetirementLemma, OneFormat
  <2>2. CASE pub[Only].built # NoFamily /\ pub[Legacy].built # NoFamily
    <3>1. pub[Legacy].fmt = Only /\ Only \in Nat
      BY <2>2, OneFormat DEF Named
    <3>2. after[Legacy] = pub[Legacy]
      BY <2>2, <3>1, OneFormat DEF RetireOlderFormats
    <3> QED BY <3>2
  <2> QED BY <2>1, <2>2
<1>5. half[Only] = pub[Only] /\ half[Legacy] = after[Legacy]
  BY OneFormat DEF Published
<1> HIDE DEF after, half
<1>6. ASSUME NEW p \in {after, pub, half}, p \in Published
      PROVE  Named(p) /\ SameRoles(pub, p) /\ p[Only] = pub[Only]
  <2>1. p[Only] = pub[Only]
    BY <1>3, <1>5, <1>6
  <2>2. p[Legacy] = pub[Legacy] \/ (p[Legacy] = pub[Only] /\ pub[Only].built # NoFamily /\ pub[Legacy].built = NoFamily)
    BY <1>3, <1>4, <1>5, <1>6
  <2>3. Named(p)
    BY <2>1, <2>2, OneFormat DEF Named
  <2>4. Primary(p) = Primary(pub) /\ LiveFamilies(p) = LiveFamilies(pub)
    BY <1>6, <2>1, <2>2, <2>3, OnePrimary
  <2> QED BY <2>1, <2>3, <2>4 DEF SameRoles
<1> QED BY <1>1, <1>2, <1>6

LEMMA OneMore ==
    ASSUME NEW S, NEW x, IsFiniteSet(S), NEW n \in Nat, Cardinality(S) <= n
    PROVE  IsFiniteSet(S \cup {x}) /\ Cardinality(S \cup {x}) <= n + 1
<1>1. IsFiniteSet(S \cup {x}) /\ Cardinality(S \cup {x}) = IF x \in S THEN Cardinality(S) ELSE Cardinality(S) + 1
  BY FS_AddElement
<1>2. Cardinality(S) \in Nat
  BY FS_CardinalityType
<1> QED BY <1>1, <1>2

LEMMA AtMostThree ==
    ASSUME NEW x, NEW y, NEW z
    PROVE  IsFiniteSet({x, y, z}) /\ Cardinality({x, y, z}) <= 3
<1>1. IsFiniteSet({x}) /\ Cardinality({x}) <= 1
  <2>1. IsFiniteSet({x}) /\ Cardinality({x}) = 1
    BY FS_Singleton
  <2> QED BY <2>1
<1>2. IsFiniteSet({x, y}) /\ Cardinality({x, y}) <= 2
  <2>1. IsFiniteSet({x} \cup {y}) /\ Cardinality({x} \cup {y}) <= 1 + 1
    BY <1>1, OneMore
  <2>2. {x} \cup {y} = {x, y}
    OBVIOUS
  <2> QED BY <2>1, <2>2
<1>3. IsFiniteSet({x, y} \cup {z}) /\ Cardinality({x, y} \cup {z}) <= 2 + 1
  BY <1>2, OneMore
<1>4. {x, y} \cup {z} = {x, y, z}
  OBVIOUS
<1> QED BY <1>3, <1>4

\* What a plan is asked for: nothing, or a family that fits beside two others
\* and has no key yet.
Tight == 2 * (Chunks + 1) + (Chunks * 11 + 9) \div 10 <= KvLimit
Asks(b, incoming) ==
    \/ incoming = NoGuard
    \/ incoming \in Nat /\ incoming <= (Chunks * 11 + 9) \div 10 /\ b \in Families /\ kv[b] = {}

\* A plan made of the roles as they are spares the primary's rollback.
LEMMA PlanSparesRollback ==
    ASSUME Tight, kv \in Store, manifests \in Published, NEW seen, SameView(seen),
           OtherLive(manifests) = {}, NEW b \in 0..MaxBuilds, NEW incoming, Asks(b, incoming)
    PROVE  LET prev == Primary(manifests).prev
           IN  prev # NoFamily => prev \notin PlanRetention(kv, seen, b, incoming).retire
<1> DEFINE live == Primary(manifests)
           prev == live.prev
           first == RollbackFor(live, Present(kv), b, {})
           rb == RollbackRole(kv, seen, b)
           kept == LiveFamilies(seen) \cup {rb, b}
           orphan == IF live.built = NoFamily THEN {} ELSE Present(kv) \ kept
           stays == Present(kv) \ orphan
           used == Bytes(kv, stays)
           rolled == Bytes(kv, {rb} \cap Families)
           guard == DecideByteGuard(used, rolled, incoming)
           retire == PlanRetention(kv, seen, b, incoming).retire
<1> SUFFICES ASSUME prev # NoFamily PROVE prev \notin retire
  OBVIOUS
<1>1. Primary(seen) = live /\ OtherLive(seen) = {} /\ LiveFamilies(seen) = LiveFamilies(manifests)
  BY DEF SameView, SameRoles, OtherLive
<1>2. live.built # NoFamily /\ LiveFamilies(seen) = {live.built} /\ prev \in Families /\ live.built \in Families
  <2>1. live.built # NoFamily
    <3>1. live.built = NoFamily => LiveFamilies(manifests) = {}
      BY NoneLive
    <3>2. LiveFamilies(manifests) = {} => live = NoManifest
      BY DEF LiveFamilies, Primary
    <3> QED BY <3>1, <3>2 DEF NoManifest
  <2>2. live \in Manifest
    BY PrimaryType
  <2>3. live.built \in LiveFamilies(manifests)
    BY <2>1, PrimaryExists, NoneLive DEF LiveFamilies
  <2> QED BY <1>1, <2>1, <2>2, <2>3 DEF OtherLive, Manifest, Families, NoFamily
<1>3. CASE prev \in {live.built, b}
  <2>1. retire \cap LiveFamilies(seen) = {} /\ (b # NoFamily => b \notin retire)
    BY PlanSparesRoles
  <2> HIDE DEF retire
  <2> QED BY <1>2, <1>3, <2>1
<1>4. CASE prev \notin {live.built, b}
  <2>1. first = prev
    BY <1>2, <1>4 DEF RollbackFor
  <2>2. rb = prev
    <3> DEFINE others == {live.built, b} \ {NoFamily}
    <3>1. rb = IF first \in others \/ Cardinality(others \cup {first}) > 3 THEN NoFamily ELSE first
      BY <1>1 DEF RollbackRole
    <3>2. IsFiniteSet({live.built, b, prev}) /\ Cardinality({live.built, b, prev}) <= 3
      BY AtMostThree
    <3>3. others \cup {first} \subseteq {live.built, b, prev}
      BY <2>1
    <3>4. Cardinality(others \cup {first}) \in Nat /\ Cardinality(others \cup {first}) <= 3
      BY <3>2, <3>3, FS_Subset, FS_CardinalityType
    <3>5. first \notin others
      BY <1>4, <2>1
    <3> QED BY <2>1, <3>1, <3>4, <3>5
  <2>3. prev \notin orphan
    BY <2>2
  <2>4. CASE incoming = NoGuard
    <3>1. retire = orphan
      BY <1>1, <2>4 DEF PlanRetention
    <3> QED BY <2>3, <3>1
  <2>5. CASE incoming # NoGuard
    <3>1. incoming \in Nat /\ incoming <= (Chunks * 11 + 9) \div 10 /\ b \in Families /\ kv[b] = {}
      BY <2>5 DEF Asks
    <3>2. stays \subseteq {live.built, prev} /\ stays \subseteq Families
      BY <1>2, <2>2, <3>1 DEF Present
    <3>3. used \in Nat /\ used <= 2 * (Chunks + 1)
      <4> DEFINE two == {live.built, prev}
      <4>1. two \in SUBSET Families /\ live.built \in two /\ two \ {live.built} = {prev}
        BY <1>2, <1>4
      <4>2. Bytes(kv, two) = Bytes(kv, {prev}) + Bytes(kv, {live.built})
        BY <4>1, BytesSplit
      <4>3. used <= Bytes(kv, two)
        BY <3>2, <4>1, BytesShrink
      <4>4. /\ Bytes(kv, {prev}) \in Nat /\ Bytes(kv, {prev}) <= Chunks + 1
            /\ Bytes(kv, {live.built}) \in Nat /\ Bytes(kv, {live.built}) <= Chunks + 1
        BY <1>2, KeysFinite, FamilyBytes
      <4>5. used \in Nat
        BY <3>2, KeysFinite
      <4> HIDE DEF used, two
      <4> QED BY <4>2, <4>3, <4>4, <4>5, ChunksAssumption
    <3>4. guard = "drop-rollback" => used + incoming > KvLimit
      BY Zenon DEF DecideByteGuard
    <3>6. retire = IF guard = "drop-rollback" THEN orphan \cup {rb} ELSE orphan
      BY <1>1, <2>5 DEF PlanRetention
    <3> HIDE DEF used, guard
    <3>7. used + incoming <= KvLimit
      BY <3>1, <3>3, ChunksAssumption, KvLimitAssumption DEF Tight
    <3>5. guard # "drop-rollback"
      BY <3>1, <3>3, <3>4, <3>7, KvLimitAssumption
    <3> QED BY <2>3, <3>5, <3>6
  <2> QED BY <2>4, <2>5
<1> QED BY <1>3, <1>4

\* A publisher's write to either key, the format's own first.
LEMMA PutRoles ==
    ASSUME LatestFormat = 1, manifests \in Published, Named(manifests), NEW m \in Manifest,
           m.built # NoFamily, m.fmt = Only, NEW k \in {Only, Legacy}, k = Legacy => Own = m,
           manifests' = [manifests EXCEPT ![k] = m]
    PROVE  /\ Named(manifests') /\ manifests'[Only] = m /\ Primary(manifests') = m
           /\ LiveFamilies(manifests') \subseteq LiveFamilies(manifests) \cup {m.built}
<1>1. manifests' \in Published
  BY OneFormat DEF Published
<1>2. manifests'[Only] = m
  BY OneFormat DEF Published, Own
<1>3. Named(manifests')
  BY OneFormat DEF Named, Published
<1>4. Primary(manifests') = m
  BY <1>1, <1>2, <1>3, OnePrimary
<1>5. LiveFamilies(manifests') \subseteq LiveFamilies(manifests) \cup {m.built}
  BY PublishedLive, OneFormat
<1> QED BY <1>2, <1>3, <1>4, <1>5

\* What a publisher is about to write.
LEMMA ManifestIs ==
    ASSUME NEW b \in Families, NEW f \in Formats, NEW m \in Manifest
    PROVE  /\ NextManifest(b, f, m) \in Manifest
           /\ NextManifest(b, f, m).built = b /\ NextManifest(b, f, m).fmt = f
           /\ b # NoFamily
<1>1. b \in 0..MaxBuilds /\ f \in Formats \cup {0}
  BY MaxBuildsAssumption DEF Families
<1> QED BY <1>1, NextManifestType DEF NextManifest, Families, NoFamily

\* A run's steps leave the roles as they were, until it writes its manifest.
RunRoles(c) ==
    \/ manifests' = manifests
    \/ /\ ~Resting(c) /\ kv' = kv /\ Named(manifests')
       /\ \/ RolesKept /\ Own' = Own
          \/ /\ slice[c].pc \in {"commit", "mirror"}
             /\ Own' = MyManifest(c) /\ Primary(manifests') = MyManifest(c)
             /\ LiveFamilies(manifests') \subseteq LiveFamilies(manifests) \cup {co[c].built}

LEMMA RunHasRoles ==
    ASSUME LatestFormat = 1, Safe, Restores, NEW c \in Coordinators, Run(c)
    PROVE  RunRoles(c)
<1>1. /\ Typed /\ FitsPhase(c) /\ RunReady(c) /\ RunRestores(c) /\ Named(manifests)
      /\ co[c] \in Runs /\ slice[c] \in Slices /\ manifests \in Published
  BY TypedParts DEF Safe, WritersExclude, RunsReady, Restores
<1>2. ASSUME co[c].phase \in {"routing", "manifest"} PROVE co[c].fmt = Only /\ co[c].built \in Families /\ co[c].fmt \in Formats
  BY <1>1, <1>2, OneFormat DEF FitsPhase, Runs, Families, NoFamily
<1>3. ASSUME co[c].phase \in {"routing", "manifest"}
      PROVE  /\ MyManifest(c) \in Manifest /\ MyManifest(c).built = co[c].built /\ MyManifest(c).built # NoFamily
             /\ MyManifest(c).fmt = Only
  BY <1>1, <1>2, <1>3, ManifestIs DEF MyManifest, Slices
<1>4. CASE WriteManifest(c)
  <2>1. co[c].phase = "manifest" /\ slice[c].pc = "commit" /\ kv' = kv
    BY <1>1, <1>4 DEF WriteManifest, FitsPhase
  <2>2. manifests' = [manifests EXCEPT ![Only] = MyManifest(c)]
    BY <1>2, <1>4, <2>1 DEF WriteManifest
  <2> QED BY <1>1, <1>3, <2>1, <2>2, PutRoles, OneFormat DEF RunRoles, Resting, Own
<1>5. CASE WriteMirror(c)
  <2>1. co[c].phase = "manifest" /\ slice[c].pc = "mirror" /\ kv' = kv /\ Own = MyManifest(c)
    BY <1>1, <1>5 DEF WriteMirror, FitsPhase, RunRestores
  <2>2. manifests' = [manifests EXCEPT ![Legacy] = MyManifest(c)]
    BY <1>5 DEF WriteMirror
  <2> QED BY <1>1, <1>3, <2>1, <2>2, PutRoles, OneFormat DEF RunRoles, Resting, Own
<1>6. CASE ReadRoles(c)
  <2>1. ~Resting(c) /\ co[c].fmt = Only /\ kv' = kv
    BY <1>1, <1>2, <1>6 DEF ReadRoles, Resting, FitsPhase
  <2>2. manifests' = manifests \/ \E r \in Retirements(manifests, Only) : manifests' = r[1]
    BY <1>6, <2>1 DEF ReadRoles
  <2> QED BY <1>1, <2>1, <2>2, RetirementRoles DEF RunRoles, RolesKept, Own
<1>7. CASE SweepRead(c)
  <2>1. /\ slice[c].pc = "roles" /\ co[c].fmt = Only /\ kv' = kv /\ Own = MyManifest(c)
    BY <1>1, <1>2, <1>7 DEF SweepRead, FitsPhase, RunRestores
  <2>2. [manifests EXCEPT ![Only] = MyManifest(c)] = manifests
    BY <1>1, <2>1, OneFormat DEF Own, Published
  <2>3. PICK r \in Retirements(manifests, Only) : manifests' = [r[1] EXCEPT ![Only] = manifests[Only]]
    BY <1>7, <2>1, <2>2 DEF SweepRead
  <2>4. manifests' = r[1]
    BY <1>1, <2>3, RetirementRoles, OneFormat DEF Published
  <2> QED BY <1>1, <2>1, <2>4, RetirementRoles DEF RunRoles, RolesKept, Own, Resting
<1> QED BY <1>4, <1>5, <1>6, <1>7, RunsWrite DEF RunRoles

\* So do a deploy's.
JobRoles(d) ==
    \/ manifests' = manifests
    \/ /\ kv' = kv /\ Named(manifests')
       /\ dep[d].pc \in {"commit", "mirror"}
       /\ Own' = DeployManifest(d) /\ Primary(manifests') = DeployManifest(d)
       /\ LiveFamilies(manifests') \subseteq LiveFamilies(manifests) \cup {dep[d].built}

LEMMA JobHasRoles ==
    ASSUME LatestFormat = 1, Safe, Restores, NEW d \in Deploys, Deploy(d)
    PROVE  JobRoles(d)
<1>1. /\ Typed /\ dep[d] \in Jobs /\ manifests \in Published /\ Excluded(d) /\ JobRestores(d) /\ Named(manifests)
  BY TypedParts, DepTyped DEF Safe, WritersExclude, DeployExcludes, Restores
<1>2. ASSUME dep[d].pc # "off" PROVE dep[d].fmt = Only /\ dep[d].fmt \in Formats
  BY <1>1, <1>2, TypedParts, OneFormat DEF FormatChosen
<1>3. ASSUME dep[d].pc \in {"commit", "mirror"}
      PROVE  /\ DeployManifest(d) \in Manifest /\ DeployManifest(d).built = dep[d].built
             /\ DeployManifest(d).built # NoFamily /\ DeployManifest(d).fmt = Only
  <2>1. dep[d].built \in Families
    BY <1>1, <1>3 DEF Excluded, Jobs, Families, NoFamily, Holding
  <2> QED BY <1>1, <1>2, <1>3, <2>1, ManifestIs DEF DeployManifest, Jobs
<1>5. CASE DeployWriteManifest(d)
  <2>1. dep[d].pc = "commit" /\ kv' = kv /\ manifests' = [manifests EXCEPT ![Only] = DeployManifest(d)]
    BY <1>2, <1>5 DEF DeployWriteManifest
  <2> QED BY <1>1, <1>3, <2>1, PutRoles, OneFormat DEF JobRoles, Own
<1>6. CASE DeployWriteMirror(d)
  <2>1. /\ dep[d].pc = "mirror" /\ kv' = kv /\ Own = DeployManifest(d)
        /\ manifests' = [manifests EXCEPT ![Legacy] = DeployManifest(d)]
    BY <1>1, <1>6 DEF DeployWriteMirror, JobRestores
  <2> QED BY <1>1, <1>3, <2>1, PutRoles, OneFormat DEF JobRoles, Own
<1> QED BY <1>5, <1>6, JobsWrite DEF JobRoles

\* A rollback outlives a step that takes away no more than a plan made of the
\* roles as they are.
LEMMA SweepKeepsRollback ==
    ASSUME Tight, Typed, Keeps(kv, manifests), NEW seen, SameView(seen), NEW b \in 0..MaxBuilds, NEW incoming,
           Asks(b, incoming), manifests' = manifests,
           kv' = WithoutFamilies(kv, PlanRetention(kv, seen, b, incoming).retire)
    PROVE  Keeps(kv', manifests')
<1> DEFINE prev == Primary(manifests).prev
           retire == PlanRetention(kv, seen, b, incoming).retire
<1> SUFFICES ASSUME prev # NoFamily, OtherLive(manifests) = {} PROVE Complete(kv', prev)
  BY DEF Keeps
<1>1. kv \in Store /\ manifests \in Published
  BY TypedParts
<1>2. Complete(kv, prev)
  BY DEF Keeps
<1>3. prev \in Families
  BY <1>1, PrimaryType DEF Manifest, Families, NoFamily
<1>4. prev \notin retire
  BY <1>1, PlanSparesRollback
<1> HIDE DEF prev, retire
<1>5. kv'[prev] = kv[prev]
  BY <1>3, <1>4 DEF WithoutFamilies, retire
<1> QED BY <1>2, <1>5 DEF Complete

LEMMA PutKeepsRollback ==
    ASSUME Typed, Keeps(kv, manifests), manifests' = manifests, \A f \in Families : kv[f] \subseteq kv'[f]
    PROVE  Keeps(kv', manifests')
<1>1. Primary(manifests).prev # NoFamily => Primary(manifests).prev \in Families
  BY TypedParts, PrimaryType DEF Manifest, Families, NoFamily
<1> QED BY <1>1 DEF Keeps, Complete

\* A publish has the rollback it names.
LEMMA PublishKeepsRollback ==
    ASSUME Keeps(kv, manifests), kv' = kv, NEW m, Restorable(m), RolesKept \/ Primary(manifests') = m
    PROVE  Keeps(kv', manifests')
<1>1. CASE RolesKept
  <2>1. Primary(manifests') = Primary(manifests) /\ OtherLive(manifests') = OtherLive(manifests)
    BY <1>1 DEF RolesKept, SameRoles, OtherLive
  <2> QED BY <2>1 DEF Keeps
<1>2. CASE Primary(manifests') = m
  BY <1>2 DEF Keeps, Restorable
<1> QED BY <1>1, <1>2

\* What a claim asks for.
LEMMA ClaimAsks ==
    ASSUME NEW seen, NEW f, NEW b \in Families, kv[b] = {}
    PROVE  Asks(b, RunIncoming(seen, f)) /\ Asks(b, Cardinality(FamilyKeys))
<1>1. (Chunks * 11 + 9) \div 10 \in Nat /\ Chunks + 1 \in Nat /\ Chunks + 1 <= (Chunks * 11 + 9) \div 10
  BY ChunksAssumption
<1>2. Cardinality(FamilyKeys) = Chunks + 1
  BY FamilySize
<1>3. RunIncoming(seen, f) \in {NoGuard, (Chunks * 11 + 9) \div 10}
  BY DEF RunIncoming
<1> QED BY <1>1, <1>2, <1>3 DEF Asks

LEMMA RunKeepsRollback ==
    ASSUME Tight, LatestFormat = 1, Safe, Restores, NEW c \in Coordinators, Run(c)
    PROVE  Keeps(kv', manifests')
<1>1. /\ Typed /\ FitsPhase(c) /\ RunRestores(c) /\ Keeps(kv, manifests) /\ kv \in Store
      /\ co[c] \in Runs /\ slice[c] \in Slices /\ lease \in Lease
  BY TypedParts DEF Safe, Restores
<1>2. CASE manifests' = manifests
  <2>1. CASE \A f \in Families : kv[f] \subseteq kv'[f]
    BY <1>1, <1>2, <2>1, PutKeepsRollback
  <2>2. CASE MakeRoom(c)
    <3>1. /\ slice[c].pc = "sweep" /\ co[c].phase = "routing" /\ ~co[c].held /\ co[c].fmt \in Formats
          /\ co[c].built \in Families /\ co[c].built \in 0..MaxBuilds
      BY <1>1, <2>2 DEF MakeRoom, FitsPhase, Runs, Families, NoFamily
    <3>2. kv' = WithoutFamilies(kv, ClaimPlan(c).retire)
      BY <2>2 DEF MakeRoom
    <3>3. CASE slice[c].seen = NothingPublished
      <4>1. kv' = kv
        BY <1>1, <3>1, <3>2, <3>3, BlindClaimSpares
      <4> QED BY <1>1, <1>2, <4>1, PutKeepsRollback
    <3>4. CASE SameView(slice[c].seen)
      <4>1. Asks(co[c].built, RunIncoming(slice[c].seen, co[c].fmt))
        BY <1>1, <3>1, ClaimAsks DEF RunRestores
      <4> QED BY <1>1, <1>2, <3>1, <3>2, <3>4, <4>1, SweepKeepsRollback DEF ClaimPlan
    <3> QED BY <1>1, <3>1, <3>3, <3>4 DEF RunRestores
  <2>3. CASE SweepDrop(c)
    <3>1. slice[c].pc = "drop" /\ SameView(slice[c].seen)
      BY <1>1, <2>3 DEF SweepDrop, RunRestores
    <3>2. InFlight(lease.built, slice[c].seen) \in 0..MaxBuilds
      BY <1>1, MaxBuildsAssumption DEF InFlight, Lease, NoFamily
    <3>3. CASE kv' = kv
      BY <1>1, <1>2, <3>3, PutKeepsRollback
    <3>4. CASE kv' = WithoutFamilies(kv, PlanRetention(kv, slice[c].seen, InFlight(lease.built, slice[c].seen), NoGuard).retire)
      BY <1>1, <1>2, <3>1, <3>2, <3>4, SweepKeepsRollback DEF Asks
    <3> QED BY <2>3, <3>3, <3>4 DEF SweepDrop
  <2> QED BY <1>1, <2>1, <2>2, <2>3, RunsDrop
<1>3. CASE manifests' # manifests
  <2>1. /\ kv' = kv
        /\ RolesKept \/ (slice[c].pc \in {"commit", "mirror"} /\ Primary(manifests') = MyManifest(c))
    BY <1>3, RunHasRoles DEF RunRoles
  <2>2. Restorable(NoManifest)
    BY DEF Restorable, NoManifest
  <2> QED BY <1>1, <2>1, <2>2, PublishKeepsRollback DEF RunRestores
<1> QED BY <1>2, <1>3

LEMMA JobKeepsRollback ==
    ASSUME Tight, LatestFormat = 1, Safe, Restores, NEW d \in Deploys, Deploy(d)
    PROVE  Keeps(kv', manifests')
<1>1. /\ Typed /\ Excluded(d) /\ JobRestores(d) /\ Keeps(kv, manifests) /\ kv \in Store /\ dep[d] \in Jobs
  BY TypedParts, DepTyped DEF Safe, Restores, WritersExclude, DeployExcludes
<1>2. CASE manifests' = manifests
  <2>1. CASE \A f \in Families : kv[f] \subseteq kv'[f]
    BY <1>1, <1>2, <2>1, PutKeepsRollback
  <2>2. CASE kv' = kv
    BY <1>1, <1>2, <2>2, PutKeepsRollback
  <2>3. CASE DeployMakeRoom(d)
    <3>1. dep[d].pc = "drop" /\ dep[d].built \in Families /\ dep[d].built \in 0..MaxBuilds
      BY <1>1, <2>3 DEF DeployMakeRoom, Excluded, Holding, Jobs, Families, NoFamily
    <3>2. SameView(dep[d].seen) /\ Asks(dep[d].built, Cardinality(FamilyKeys))
      BY <1>1, <3>1, ClaimAsks DEF JobRestores
    <3>3. CASE kv' = WithoutFamilies(kv, DeployPlan(d).retire)
      BY <1>1, <1>2, <3>1, <3>2, <3>3, SweepKeepsRollback DEF DeployPlan
    <3> QED BY <2>2, <2>3, <3>3 DEF DeployMakeRoom
  <2>4. CASE DeploySweepDrop(d)
    <3>1. SameView(dep[d].seen) /\ dep[d].inFlight \in 0..MaxBuilds
      BY <1>1, <2>4 DEF DeploySweepDrop, JobRestores, Jobs
    <3>2. CASE kv' = WithoutFamilies(kv, PlanRetention(kv, dep[d].seen, dep[d].inFlight, NoGuard).retire)
      BY <1>1, <1>2, <3>1, <3>2, SweepKeepsRollback DEF Asks
    <3> QED BY <2>2, <2>4, <3>2 DEF DeploySweepDrop
  <2> QED BY <1>1, <2>1, <2>3, <2>4, JobsDrop
<1>3. CASE manifests' # manifests
  <2>1. /\ kv' = kv
        /\ RolesKept \/ (dep[d].pc \in {"commit", "mirror"} /\ Primary(manifests') = DeployManifest(d))
    BY <1>3, JobHasRoles DEF JobRoles
  <2>2. Restorable(NoManifest)
    BY DEF Restorable, NoManifest
  <2> QED BY <1>1, <2>1, <2>2, PublishKeepsRollback DEF JobRestores
<1> QED BY <1>2, <1>3

\* The families a step makes live or adds keys to are stamped.
LEMMA StampedKept ==
    ASSUME Typed, Stamped, NEW b \in Nat, b <= builds, builds' = builds \/ builds' = builds + 1,
           LiveFamilies(manifests') \subseteq LiveFamilies(manifests) \cup {b},
           \A f \in Families : f # b => kv'[f] \subseteq kv[f]
    PROVE  Stamped'
<1>1. builds \in Nat /\ manifests \in Published /\ Families \subseteq Nat
  BY TypedParts, MaxBuildsAssumption DEF Families
<1>2. LiveFamilies(manifests) \subseteq Nat
  BY <1>1, LiveAreFamilies
<1>3. \A f \in LiveFamilies(manifests') : f <= builds'
  BY <1>1, <1>2 DEF Stamped
<1>4. \A f \in Families : f > builds' => kv'[f] = {}
  BY <1>1 DEF Stamped
<1> QED BY <1>3, <1>4 DEF Stamped

LEMMA RunStamps ==
    ASSUME Prompt, ~FenceReadsFail, LatestFormat = 1, Safe, Restores, NEW c \in Coordinators, Run(c)
    PROVE  Stamped' /\ Named(manifests')
<1>1. /\ Typed /\ RunEffect(c) /\ RunRoles(c) /\ Stamped /\ Named(manifests)
      /\ co[c].built \in Nat /\ co[c].built <= builds
  BY RunHasEffect, RunHasRoles, TypedParts, MaxBuildsAssumption
     DEF Safe, WritersExclude, RunsReady, BuildsDistinct, Restores, Runs
<1>2. builds' = builds \/ builds' = builds + 1
  BY <1>1 DEF RunEffect, Moves, RunStarts, RunStamped, RunEnds, RunGoesOn, SameBuild
<1>3. LiveFamilies(manifests') \subseteq LiveFamilies(manifests) \cup {co[c].built}
  BY <1>1 DEF RunRoles, RolesKept, SameRoles
<1>4. \A f \in Families : f # co[c].built => kv'[f] \subseteq kv[f]
  BY <1>1, RunsPut
<1> QED BY <1>1, <1>2, <1>3, <1>4, StampedKept DEF RunRoles

LEMMA JobStamps ==
    ASSUME Prompt, SerialDeploys, LatestFormat = 1, Safe, Restores, NEW d \in Deploys, Deploy(d)
    PROVE  Stamped' /\ Named(manifests')
<1>1. /\ Typed /\ JobEffect(d) /\ JobRoles(d) /\ Stamped /\ Named(manifests)
      /\ dep[d].built \in Nat /\ dep[d].built <= builds
  BY DeployHasEffect, JobHasRoles, DepTyped, MaxBuildsAssumption
     DEF Safe, WritersExclude, BuildsDistinct, Restores, Jobs
<1>2. builds' = builds \/ builds' = builds + 1
  BY <1>1 DEF JobEffect
<1>3. LiveFamilies(manifests') \subseteq LiveFamilies(manifests) \cup {dep[d].built}
  BY <1>1 DEF JobRoles, RolesKept, SameRoles
<1>4. \A f \in Families : f # dep[d].built => kv'[f] \subseteq kv[f]
  BY <1>1, JobsPut
<1> QED BY <1>1, <1>2, <1>3, <1>4, StampedKept DEF JobRoles

\* While a run is in the middle of its alarm, no other that may go on has come
\* to its manifest.
LEMMA ManifestAlone ==
    ASSUME Safe, NEW c \in Coordinators, ~Resting(c), NEW e \in Coordinators \ {c}, co[e].phase = "manifest"
    PROVE  Resting(e) /\ Superseded(e)
<1>1. c \in Nat /\ e \in Nat /\ pointer \in Nat /\ FitsPhase(c)
  BY Apart, TypedParts DEF Safe
<1>2. Resting(e)
  BY OneMidAlarm
<1>3. ~(c < e)
  BY DEF Safe, WritersExclude, RunsExclude, Ended
<1>4. co[c].phase # "idle"
  BY <1>1, TypedParts DEF Safe, FitsPhase, Resting, Slices, SlicePcs
<1>5. ~(c > pointer)
  BY <1>4 DEF Safe, WritersExclude, RunsExclude
<1> QED BY <1>1, <1>2, <1>3, <1>5 DEF Superseded

\* What one run may count on survives a step of another.
LEMMA OtherRestores ==
    ASSUME Prompt, ~FenceReadsFail, LatestFormat = 1, Safe, Restores, NEW c \in Coordinators, Run(c),
           NEW e \in Coordinators \ {c}
    PROVE  RunRestores(e)'
<1>1. /\ Typed /\ RunEffect(c) /\ RunRoles(c) /\ RunRestores(e) /\ FitsPhase(e) /\ kv \in Store
      /\ co[e] \in Runs /\ co[c] \in Runs
  BY RunHasEffect, RunHasRoles, TypedParts DEF Safe, WritersExclude, RunsReady, Restores
<1>2. co'[e] = co[e] /\ slice'[e] = slice[e] /\ (Superseded(e)' <=> Superseded(e)) /\ (Resting(e)' <=> Resting(e))
  BY <1>1 DEF RunEffect, OthersKept, Superseded, Resting
<1>3. MyManifest(e)' = MyManifest(e)
  BY <1>2 DEF MyManifest
<1>4. ASSUME co[e].phase \in {"routing", "publish"} PROVE co[e].built \notin LiveFamilies(manifests')
  <2>1. co[e].built # NoFamily /\ co[e].built # co[c].built
    BY <1>1, <1>4 DEF FitsPhase, Safe, WritersExclude, BuildsDistinct
  <2> QED BY <1>1, <1>4, <2>1 DEF RunRoles, RolesKept, SameRoles, RunRestores
<1>5. ASSUME co[e].phase = "routing", ~co[e].held PROVE kv'[co[e].built] = {}
  <2>1. co[e].built \in Families /\ co[e].built # co[c].built /\ kv[co[e].built] = {}
    BY <1>1, <1>5 DEF FitsPhase, Safe, WritersExclude, BuildsDistinct, RunRestores, Runs, Families, NoFamily
  <2>2. kv'[co[e].built] \subseteq kv[co[e].built]
    BY <1>1, <2>1, RunsPut
  <2> QED BY <2>1, <2>2
<1>6. CASE Resting(c)
  <2>1. manifests' = manifests /\ \A f \in Families : kv[f] \subseteq kv'[f]
    BY <1>1, <1>6 DEF RunRoles, RunEffect, KvMoves
  <2>2. ASSUME NEW m \in Manifest, Restorable(m) PROVE Restorable(m)'
    BY <2>1, <2>2 DEF Restorable, Complete, Manifest, Families, NoFamily
  <2>3. MyManifest(e) \in Manifest \/ slice[e].pc \notin {"check", "fence", "commit", "mirror"}
    <3> SUFFICES ASSUME slice[e].pc \in {"check", "fence", "commit", "mirror"} PROVE MyManifest(e) \in Manifest
      OBVIOUS
    <3>1. co[e].built \in Families /\ co[e].fmt \in Formats
      BY <1>1 DEF FitsPhase, Runs, Families, NoFamily
    <3> QED BY <1>1, <3>1, ManifestIs, TypedParts DEF MyManifest, Slices
  <2>4. Primary(manifests) \in Manifest
    BY <1>1, TypedParts, PrimaryType
  <2>5. slice[e].pc \in {"check", "fence", "commit", "mirror"} => Restorable(MyManifest(e))'
    <3> SUFFICES ASSUME slice[e].pc \in {"check", "fence", "commit", "mirror"} PROVE Restorable(MyManifest(e))'
      OBVIOUS
    <3>1. Restorable(MyManifest(e)) /\ MyManifest(e) \in Manifest
      BY <1>1, <2>3 DEF RunRestores
    <3> QED BY <1>3, <2>2, <3>1 DEF Restorable
  <2>6. Restorable(Primary(manifests)) => Restorable(Primary(manifests))'
    BY <2>1, <2>2, <2>4 DEF Restorable
  <2> QED BY <1>1, <1>2, <1>3, <1>4, <1>5, <2>1, <2>5, <2>6 DEF RunRestores, Republishes, MayGoOn, SameView, SameRoles, Own
<1>7. CASE ~Resting(c)
  <2>1. Resting(e) /\ (co[e].phase = "manifest" => Superseded(e))
    BY <1>7, OneMidAlarm, ManifestAlone
  <2> QED BY <1>2, <1>4, <1>5, <2>1 DEF RunRestores, Republishes, MayGoOn, Resting
<1> QED BY <1>6, <1>7

\* A step that leaves its run at rest has ended it, is its stamp or one of its
\* puts, or is a kill.
LEMMA RestFrom ==
    ASSUME Typed, NEW c \in Coordinators, Run(c), Resting(c)'
    PROVE  \/ co'[c].phase \in {"idle", "retire", "build", "post"}
           \/ StampBuild(c) \/ PutFilter(c) \/ PutChunk(c) \/ KillSlice(c)
<1>t. co \in [Coordinators -> Runs] /\ slice \in [Coordinators -> Slices]
  BY TypedParts
<1>1. ASSUME NEW p, co' = [co EXCEPT ![c].phase = p] PROVE co'[c].phase = p
  BY <1>t, <1>1 DEF Runs
<1>2. BeginRetire(c) => co'[c].phase = "retire"
  BY <1>1 DEF BeginRetire
<1>3. EndFailed(c) => co'[c].phase = "idle"
  BY <1>1 DEF EndFailed
<1>4. ASSUME NEW pc \in SlicePcs \ {"rest"}, Goto(c, pc) PROVE FALSE
  BY <1>4, GotoKeeps DEF Resting
<1>5. StartImport(c) => co'[c].phase = "build"
  BY <1>t DEF StartImport, IdleRun
<1>6. RetirePurged(c) \/ FinishRun(c) => co'[c].phase = "idle"
  BY <1>1 DEF RetirePurged, FinishRun
<1>7. SweepDrop(c) => co'[c].phase = "post"
  BY <1>1 DEF SweepDrop
<1>8. ~ReadRoles(c)
  <2> SUFFICES ASSUME ReadRoles(c) PROVE FALSE
    OBVIOUS
  <2>1. ASSUME NEW r, slice' = [slice EXCEPT ![c].pc = "sweep", ![c].seen = r] PROVE FALSE
    BY <1>t, <2>1 DEF Slices, Resting
  <2> QED BY <1>4, <2>1 DEF ReadRoles, SlicePcs
<1>9. ~SweepRead(c)
  <2> SUFFICES ASSUME SweepRead(c) PROVE FALSE
    OBVIOUS
  <2>1. ASSUME NEW r, slice' = [slice EXCEPT ![c].pc = "drop", ![c].seen = r] PROVE FALSE
    BY <1>t, <2>1 DEF Slices, Resting
  <2> QED BY <2>1 DEF SweepRead
<1>10. MakeRoom(c) => EndFailed(c)
  <2> SUFFICES ASSUME MakeRoom(c), slice' = [Rest(c) EXCEPT ![c].pc = "filter"] PROVE FALSE
    BY DEF MakeRoom
  <2>1. Rest(c) \in [Coordinators -> Slices]
    BY <1>t, RestType
  <2> QED BY <2>1 DEF Slices, Resting
<1>11. ReadReplaced(c) => BeginRetire(c)
  <2>1. ASSUME NEW m, slice' = [slice EXCEPT ![c].pc = "check", ![c].replaced = m] PROVE FALSE
    BY <1>t, <2>1 DEF Slices, Resting
  <2> QED BY <2>1 DEF ReadReplaced
<1>12. ~(PutLease(c) \/ RenewLease(c) \/ WriteManifest(c) \/ WriteMirror(c) \/ ReleaseLease(c))
  BY <1>4 DEF PutLease, RenewLease, WriteManifest, WriteMirror, ReleaseLease, SlicePcs
<1>13. /\ ClaimLease(c) \/ RenewFence(c) \/ ChunkFence(c) \/ CommitFence(c) => BeginRetire(c)
       /\ CheckChunks(c) => EndFailed(c)
  BY <1>4 DEF ClaimLease, RenewFence, ChunkFence, CommitFence, CheckChunks, SlicePcs
<1> QED BY <1>2, <1>3, <1>5, <1>6, <1>7, <1>8, <1>9, <1>10, <1>11, <1>12, <1>13 DEF Run, Slice, Retire, FailRun

LEMMA RestRestores ==
    ASSUME Prompt, ~FenceReadsFail, LatestFormat = 1, Safe, Restores, NEW c \in Coordinators, Run(c), Resting(c)'
    PROVE  RunRestores(c)'
<1>1. /\ Typed /\ FitsPhase(c) /\ RunRestores(c) /\ Stamped /\ kv \in Store /\ manifests \in Published
      /\ co \in [Coordinators -> Runs] /\ co[c] \in Runs /\ builds \in Nat
  BY TypedParts DEF Safe, Restores
<1>2. SUFFICES /\ Republishes(c)' => Restorable(Primary(manifests))'
               /\ co'[c].phase \in {"routing", "publish"} => co'[c].built \notin LiveFamilies(manifests')
               /\ co'[c].phase = "routing" /\ ~co'[c].held => kv'[co'[c].built] = {}
  BY DEF RunRestores, Republishes, MayGoOn, Resting
<1>3. CASE co'[c].phase \in {"idle", "retire", "build", "post"}
  BY <1>3 DEF Republishes
<1>4. CASE StampBuild(c)
  <2>1. co'[c].phase = "routing" /\ co'[c].built = builds + 1 /\ kv' = kv /\ manifests' = manifests /\ builds < MaxBuilds
    BY <1>1, <1>4 DEF StampBuild, Runs, kvVars
  <2>2. builds + 1 \in Families /\ builds + 1 > builds
    BY <1>1, <2>1, MaxBuildsAssumption DEF Families
  <2> QED BY <1>1, <2>1, <2>2 DEF Stamped, Republishes
<1>5. CASE PutFilter(c)
  <2>1. /\ co'[c].phase = "publish" /\ co'[c].built = co[c].built /\ co[c].phase = "routing" /\ manifests' = manifests
    BY <1>1, <1>5 DEF PutFilter, FitsPhase, Runs
  <2> QED BY <1>1, <2>1 DEF RunRestores, Republishes
<1>6. CASE PutChunk(c)
  <2>1. /\ co'[c].phase \in {"publish", "manifest"} /\ co'[c].built = co[c].built
        /\ co[c].phase = "publish" /\ manifests' = manifests
    BY <1>1, <1>6 DEF PutChunk, FitsPhase, Runs
  <2>2. co[c].built # NoFamily /\ co[c].built \notin LiveFamilies(manifests)
    BY <1>1, <2>1 DEF FitsPhase, RunRestores
  <2>3. Primary(manifests).built # co[c].built
    BY <1>1, <2>2, PrimaryExists, NoneLive DEF LiveFamilies
  <2> QED BY <2>1, <2>2, <2>3 DEF Republishes
<1>7. CASE KillSlice(c)
  <2>1. UNCHANGED <<co, kv, manifests>> /\ ~Resting(c)
    BY <1>7 DEF KillSlice, kvVars, Resting
  <2>2. Republishes(c)' => Republishes(c)
    BY <2>1 DEF Republishes, MayGoOn
  <2> QED BY <1>1, <2>1, <2>2 DEF RunRestores, Restorable
<1> QED BY <1>1, <1>3, <1>4, <1>5, <1>6, <1>7, RestFrom

\* Within an alarm, up to the last chunk, the roles stay as they are.
LEMMA UploadRestores ==
    ASSUME Safe, LatestFormat = 1, Restores, NEW c \in Coordinators, Run(c),
           \/ ClaimLease(c) /\ Goto(c, "claim") /\ UNCHANGED <<co, waits>>
           \/ PutLease(c) \/ ReadRoles(c) \/ MakeRoom(c)
           \/ RenewFence(c) /\ Goto(c, "renew") /\ UNCHANGED <<co, waits>>
           \/ RenewLease(c)
           \/ ChunkFence(c) /\ Goto(c, "put") /\ UNCHANGED <<co, waits>>,
           ~Resting(c)'
    PROVE  RunRestores(c)'
<1>1. /\ Typed /\ FitsPhase(c) /\ RunRestores(c) /\ Named(manifests) /\ manifests \in Published
      /\ co \in [Coordinators -> Runs] /\ slice \in [Coordinators -> Slices]
  BY TypedParts DEF Safe, Restores
<1>2. co[c].phase \in {"routing", "publish"}
  BY <1>1 DEF FitsPhase, ClaimLease, PutLease, ReadRoles, MakeRoom, RenewFence, RenewLease, ChunkFence, AtAlarm
<1>3. ASSUME UNCHANGED <<co, kv>>, LiveFamilies(manifests') = LiveFamilies(manifests),
             slice'[c].pc \in {"claim", "claimed", "filter", "renew", "write", "put"}
      PROVE  RunRestores(c)'
  BY <1>1, <1>2, <1>3 DEF RunRestores, Republishes, MayGoOn
<1>4. ASSUME NEW pc \in {"claim", "claimed", "filter", "renew", "write", "put"}, Goto(c, pc),
             UNCHANGED <<co, kv, manifests>>
      PROVE  RunRestores(c)'
  <2>1. slice'[c].pc = pc
    BY <1>1, <1>4, GotoKeeps DEF SlicePcs
  <2> QED BY <1>3, <1>4, <2>1
<1>5. CASE \/ ClaimLease(c) /\ Goto(c, "claim") /\ UNCHANGED <<co, waits>>
           \/ RenewFence(c) /\ Goto(c, "renew") /\ UNCHANGED <<co, waits>>
           \/ ChunkFence(c) /\ Goto(c, "put") /\ UNCHANGED <<co, waits>>
  BY <1>4, <1>5 DEF ClaimLease, RenewFence, ChunkFence, kvVars
<1>6. CASE PutLease(c) \/ RenewLease(c)
  BY <1>4, <1>6 DEF PutLease, RenewLease
<1>7. CASE ReadRoles(c)
  <2>1. UNCHANGED <<co, kv>> /\ slice[c].pc = "claimed" /\ co[c].phase = "routing" /\ co[c].fmt = Only
    BY <1>1, <1>7, OneFormat DEF ReadRoles, FitsPhase
  <2>2. slice'[c].pc = "sweep" /\ (SameRoles(manifests', slice'[c].seen) \/ slice'[c].seen = NothingPublished)
    <3>1. CASE Goto(c, "sweep") /\ manifests' = manifests
      <4>1. slice'[c].pc = "sweep" /\ slice'[c].seen = slice[c].seen
        BY <1>1, <3>1, GotoKeeps DEF SlicePcs
      <4> QED BY <1>1, <2>1, <4>1 DEF FitsPhase
    <3>2. ASSUME NEW r \in Retirements(manifests, Only), manifests' = r[1],
                 slice' = [slice EXCEPT ![c].pc = "sweep", ![c].seen = r[2]]
          PROVE  slice'[c].pc = "sweep" /\ SameRoles(manifests', slice'[c].seen)
      <4>1. slice'[c].pc = "sweep" /\ slice'[c].seen = r[2]
        BY <1>1, <3>2 DEF Slices
      <4>2. SameRoles(manifests, r[1]) /\ SameRoles(manifests, r[2])
        BY <1>1, <3>2, RetirementRoles
      <4> QED BY <3>2, <4>1, <4>2 DEF SameRoles
    <3> QED BY <1>7, <2>1, <3>1, <3>2 DEF ReadRoles
  <2>3. LiveFamilies(manifests') = LiveFamilies(manifests)
    <3>1. RunRoles(c)
      BY RunHasRoles
    <3> QED BY <2>1, <3>1 DEF RunRoles, RolesKept, SameRoles
  <2> QED BY <1>1, <2>1, <2>2, <2>3 DEF RunRestores, Republishes, MayGoOn, SameView
<1>8. CASE MakeRoom(c)
  <2>1. ~EndFailed(c)
    BY <1>1, RestGoes DEF EndFailed, Resting
  <2>2. /\ co' = [co EXCEPT ![c].held = TRUE] /\ slice' = [Rest(c) EXCEPT ![c].pc = "filter"]
        /\ manifests' = manifests
    BY <1>8, <2>1 DEF MakeRoom
  <2>3. co'[c].held /\ co'[c].phase = co[c].phase /\ co'[c].built = co[c].built
    BY <1>1, <2>2 DEF Runs
  <2>4. slice'[c].pc = "filter"
    BY <1>1, <2>2, RestType DEF Slices
  <2> QED BY <1>1, <1>2, <2>2, <2>3, <2>4 DEF RunRestores, Republishes, MayGoOn
<1> QED BY <1>5, <1>6, <1>7, <1>8

\* The alarm of the manifest: what it read is restorable, and is what it writes.
LEMMA ManifestRestores ==
    ASSUME ~FenceReadsFail, LatestFormat = 1, Safe, Restores, NEW c \in Coordinators, Run(c),
           \/ ReadReplaced(c) /\ WritePasses(c) /\ UNCHANGED <<co, waits>>
           \/ CheckChunks(c) /\ Goto(c, "fence") /\ UNCHANGED <<co, waits>>
           \/ CommitFence(c) /\ Goto(c, "commit") /\ UNCHANGED <<co, waits>>
           \/ WriteManifest(c) \/ WriteMirror(c) \/ ReleaseLease(c) \/ SweepRead(c),
           ~Resting(c)'
    PROVE  RunRestores(c)'
<1>1. /\ Typed /\ FitsPhase(c) /\ RunRestores(c) /\ RunReady(c) /\ Named(manifests) /\ manifests \in Published
      /\ co[c] \in Runs /\ slice[c] \in Slices /\ slice \in [Coordinators -> Slices]
      /\ RunRoles(c) /\ ManifestComplete /\ astray = {}
  BY TypedParts, RunHasRoles DEF Safe, Restores, WritersExclude, RunsReady
<1>2. co[c].phase = "manifest" /\ co[c].fmt = Only /\ co[c].fmt \in Formats /\ co[c].built \in Families /\ co' = co /\ kv' = kv
  BY <1>1, OneFormat DEF FitsPhase, ReadReplaced, CheckChunks, CommitFence, WriteManifest, WriteMirror, ReleaseLease,
     SweepRead, AtAlarm, Runs, Families, NoFamily, kvVars
<1>3. ASSUME slice'[c].replaced = slice[c].replaced PROVE MyManifest(c)' = MyManifest(c)
  BY <1>2, <1>3 DEF MyManifest
<1>4. ASSUME NEW pc \in SlicePcs, Goto(c, pc)
      PROVE  slice'[c].pc = pc /\ slice'[c].replaced = slice[c].replaced /\ slice'[c].seen = slice[c].seen
  BY <1>1, <1>4, GotoKeeps
<1>5. CASE (CheckChunks(c) /\ Goto(c, "fence")) \/ (CommitFence(c) /\ Goto(c, "commit"))
  <2>1. /\ slice'[c].pc \in {"fence", "commit"} /\ slice[c].pc \in {"check", "fence"}
        /\ MyManifest(c)' = MyManifest(c) /\ slice'[c].replaced = slice[c].replaced
    BY <1>3, <1>4, <1>5 DEF SlicePcs, CheckChunks, CommitFence
  <2>2. manifests' = manifests /\ ~Resting(c)
    BY <1>5, <2>1 DEF CheckChunks, CommitFence, kvVars, Resting
  <2> QED BY <1>1, <1>2, <2>1, <2>2 DEF RunRestores, Republishes, MayGoOn, Restorable
<1>6. CASE ReadReplaced(c) /\ WritePasses(c)
  <2>1. manifests' = manifests /\ ~Superseded(c)
    BY <1>6 DEF ReadReplaced, WritePasses, WriteStops, kvVars
  <2>2. PICK m \in ReplacedRead(Only) : slice' = [slice EXCEPT ![c].pc = "check", ![c].replaced = m]
    <3>1. ~BeginRetire(c)
      BY <1>1, RestGoes DEF BeginRetire, Resting
    <3> QED BY <1>2, <1>6, <3>1 DEF ReadReplaced
  <2>3. slice'[c].pc = "check" /\ slice'[c].replaced = m
    BY <1>1, <2>2 DEF Slices
  <2>4. m = Primary(manifests) \/ m = NoManifest
    BY <1>1, OnePrimary DEF ReplacedRead, ReplacedManifest
  <2>5. MyManifest(c)' = NextManifest(co[c].built, co[c].fmt, m)
    BY <1>2, <2>3 DEF MyManifest
  <2>6. Restorable(NextManifest(co[c].built, co[c].fmt, m))
    <3>1. CASE m.built = NoFamily
      BY <1>2, <3>1 DEF NextManifest, Restorable, Families, NoFamily
    <3>2. CASE m = Primary(manifests) /\ m.built = co[c].built
      BY <1>1, <1>2, <2>1, <3>2 DEF NextManifest, Restorable, RunRestores, Republishes, MayGoOn
    <3>3. CASE m = Primary(manifests) /\ m.built # co[c].built /\ m.built # NoFamily
      <4>1. \E k \in ManifestKeys : manifests[k].built # NoFamily /\ m = manifests[k]
        BY <1>1, <3>3, PrimaryExists, NoneLive
      <4>2. Complete(kv, m.built)
        BY <1>1, <4>1 DEF ManifestComplete, Whole
      <4> QED BY <3>3, <4>2 DEF NextManifest, Restorable
    <3> QED BY <2>4, <3>1, <3>2, <3>3 DEF NoManifest
  <2>7. Restorable(MyManifest(c))'
    BY <1>2, <2>5, <2>6 DEF Restorable
  <2> QED BY <1>1, <1>2, <2>1, <2>3, <2>4, <2>7 DEF RunRestores, Republishes, MayGoOn, Restorable
<1>7. CASE WriteManifest(c) \/ WriteMirror(c)
  <2>1. /\ slice'[c].pc \in {"mirror", "release"} /\ slice[c].pc \in {"commit", "mirror"}
        /\ slice'[c].replaced = slice[c].replaced
    BY <1>4, <1>7 DEF WriteManifest, WriteMirror, SlicePcs
  <2>2. MyManifest(c)' = MyManifest(c) /\ Restorable(MyManifest(c)) /\ Restorable(MyManifest(c))'
    <3>1. MyManifest(c)' = MyManifest(c) /\ Restorable(MyManifest(c))
      BY <1>1, <1>3, <2>1 DEF RunRestores
    <3> QED BY <1>2, <3>1 DEF Restorable
  <2>3. Own' = MyManifest(c) /\ Primary(manifests') = MyManifest(c)
    <3>1. /\ MyManifest(c) \in Manifest /\ MyManifest(c).built # NoFamily /\ MyManifest(c).fmt = Only
      BY <1>1, <1>2, ManifestIs DEF MyManifest, Slices
    <3>2. CASE WriteManifest(c)
      <4>1. manifests' = [manifests EXCEPT ![Only] = MyManifest(c)]
        BY <1>2, <3>2 DEF WriteManifest
      <4> QED BY <1>1, <3>1, <4>1, PutRoles, OneFormat DEF Own
    <3>3. CASE WriteMirror(c)
      <4>1. manifests' = [manifests EXCEPT ![Legacy] = MyManifest(c)] /\ Own = MyManifest(c)
        BY <1>1, <3>3 DEF WriteMirror, RunRestores
      <4> QED BY <1>1, <3>1, <4>1, PutRoles, OneFormat DEF Own
    <3> QED BY <1>7, <3>2, <3>3
  <2>4. Restorable(Primary(manifests))'
    BY <2>2, <2>3 DEF Restorable
  <2> QED BY <1>2, <2>1, <2>2, <2>3, <2>4 DEF RunRestores, Republishes, MayGoOn
<1>8. CASE ReleaseLease(c)
  <2>1. /\ slice'[c].pc = "roles" /\ slice[c].pc = "release" /\ manifests' = manifests /\ ~Resting(c)
        /\ MyManifest(c)' = MyManifest(c)
    BY <1>3, <1>4, <1>8 DEF ReleaseLease, SlicePcs, Resting
  <2> QED BY <1>1, <1>2, <2>1 DEF RunRestores, Republishes, MayGoOn, Restorable, Own
<1>9. CASE SweepRead(c)
  <2>1. slice[c].pc = "roles" /\ ~Resting(c) /\ Own = MyManifest(c)
    BY <1>1, <1>9 DEF SweepRead, Resting, RunRestores
  <2>2. [manifests EXCEPT ![Only] = MyManifest(c)] = manifests
    BY <1>1, <2>1, OneFormat DEF Own, Published
  <2>3. PICK r \in Retirements(manifests, Only) :
          /\ manifests' = [r[1] EXCEPT ![Only] = manifests[Only]]
          /\ slice' = [slice EXCEPT ![c].pc = "drop", ![c].seen = r[2]]
    BY <1>2, <1>9, <2>2 DEF SweepRead
  <2>4. manifests' = r[1] /\ SameRoles(manifests, r[1]) /\ SameRoles(manifests, r[2])
    BY <1>1, <2>3, RetirementRoles, OneFormat DEF Published
  <2>5. slice'[c].pc = "drop" /\ slice'[c].seen = r[2]
    BY <1>1, <2>3 DEF Slices
  <2>6. SameRoles(manifests', slice'[c].seen) /\ Primary(manifests') = Primary(manifests)
    BY <2>4, <2>5 DEF SameRoles
  <2>7. Primary(manifests).built = co[c].built => Restorable(Primary(manifests))
    BY <1>1, <1>2, <2>1 DEF RunRestores, Republishes, MayGoOn
  <2>8. Primary(manifests').built = co'[c].built => Restorable(Primary(manifests))'
    BY <1>2, <2>6, <2>7 DEF Restorable
  <2> QED BY <1>2, <2>5, <2>6, <2>8 DEF RunRestores, Republishes, MayGoOn, SameView
<1>10. \/ (CheckChunks(c) /\ Goto(c, "fence")) \/ (CommitFence(c) /\ Goto(c, "commit"))
       \/ ReadReplaced(c) /\ WritePasses(c)
       \/ WriteManifest(c) \/ WriteMirror(c) \/ ReleaseLease(c) \/ SweepRead(c)
  OBVIOUS
<1> QED BY <1>5, <1>6, <1>7, <1>8, <1>9, <1>10

LEMMA OwnRestores ==
    ASSUME Prompt, ~FenceReadsFail, LatestFormat = 1, Safe, Restores, NEW c \in Coordinators, Run(c)
    PROVE  RunRestores(c)'
<1>1. Typed
  BY DEF Safe
<1> QED BY <1>1, AlarmGoes, RestRestores, UploadRestores, ManifestRestores DEF Resting

\* What a job may count on survives a step of a run.
LEMMA RunSparesJobs ==
    ASSUME Prompt, ~FenceReadsFail, LatestFormat = 1, Safe, Restores, NEW c \in Coordinators, Run(c),
           NEW d \in Deploys
    PROVE  JobRestores(d)'
<1>1. /\ Typed /\ RunEffect(c) /\ RunRoles(c) /\ JobRestores(d) /\ Excluded(d) /\ FitsPhase(c) /\ kv \in Store
      /\ dep' = dep /\ dep[d] \in Jobs
  BY RunHasEffect, RunHasRoles, RunApart, TypedParts, DepTyped
     DEF Safe, WritersExclude, RunsReady, Restores, DeployExcludes
<1>2. ASSUME dep[d].pc \in Holding
      PROVE  manifests' = manifests /\ \A f \in Families : kv'[f] = kv[f]
  <2>1. Resting(c)
    BY <1>1, <1>2 DEF Excluded
  <2> QED BY <1>1, <2>1, RunsPut DEF RunRoles, RunEffect, KvMoves
<1>3. ASSUME dep[d].pc \in {"roles", "lease", "purge"}
      PROVE  Own' = Own /\ RolesKept
  <2>1. Resting(c) \/ slice[c].pc \notin {"commit", "mirror"}
    BY <1>1, <1>3 DEF Excluded, FitsPhase
  <2> QED BY <1>1, <2>1 DEF RunRoles, Own, RolesKept, SameRoles, Resting
<1>4. dep[d].pc \in {"sweep", "drop"} => dep[d].built \in Families
  BY <1>1 DEF Excluded, Holding, Jobs, Families, NoFamily
<1>5. dep[d].pc \in {"check", "commit", "mirror"} => Restorable(DeployManifest(d))'
  <2> SUFFICES ASSUME dep[d].pc \in {"check", "commit", "mirror"} PROVE Restorable(DeployManifest(d))'
    OBVIOUS
  <2>1. dep[d].built \in Families /\ dep[d].fmt \in Formats
    BY <1>1, TypedParts DEF Excluded, Holding, Jobs, Families, NoFamily, FormatChosen
  <2>2. DeployManifest(d).prev # NoFamily => DeployManifest(d).prev \in Families
    BY <1>1, <2>1, ManifestIs DEF DeployManifest, Jobs, Manifest, Families, NoFamily
  <2>3. DeployManifest(d)' = DeployManifest(d) /\ Restorable(DeployManifest(d))
    BY <1>1 DEF DeployManifest, JobRestores
  <2> QED BY <1>2, <2>2, <2>3 DEF Restorable, Complete, Holding
<1>6. DeployManifest(d)' = DeployManifest(d)
  BY <1>1 DEF DeployManifest
<1> QED BY <1>1, <1>2, <1>3, <1>4, <1>5, <1>6 DEF JobRestores, Holding, Own, SameView, SameRoles, RolesKept

\* While a deploy takes keys away, adds them or publishes, no run is in the
\* middle of its manifest's alarm, nor may come to it again.
LEMMA DeployAlone ==
    ASSUME Safe, NEW d \in Deploys, dep[d].pc \in {"drop", "upload", "commit", "mirror", "purge"},
           NEW c \in Coordinators
    PROVE  /\ Resting(c) \/ co[c].phase = "routing"
           /\ co[c].phase = "manifest" => Superseded(c)
<1>1. Excluded(d) /\ Active(d) /\ fence \in Nat /\ co[c].started \in Nat
  BY TypedParts DEF Safe, WritersExclude, DeployExcludes, Active, Runs
<1>2. Resting(c) \/ co[c].phase = "routing"
  BY <1>1 DEF Excluded, Holding
<1>3. Unfenced(c, d) => co[c].phase # "manifest"
  BY <1>1 DEF Excluded, Holding, Ended
<1>4. ~Unfenced(c, d) => Superseded(c)
  BY <1>1 DEF Excluded, Unfenced, Superseded
<1> QED BY <1>2, <1>3, <1>4

LEMMA JobsKeys ==
    ASSUME NEW d \in Deploys, Deploy(d)
    PROVE  kv' = kv \/ (dep[d].pc \in {"drop", "upload", "purge"})
BY DEF Deploy, WriteDeployFence, TakeLease, DeployReadRoles, DeployMakeRoom, DeployPutKey,
   DeployReadReplaced, DeployCheckLease, DeployWriteManifest, DeployWriteMirror, DeployReleaseLease,
   DeploySweepRead, DeploySweepReadLease, DeploySweepDrop, SwitchCode, DeployDies, kvVars

LEMMA JobSparesRuns ==
    ASSUME Prompt, SerialDeploys, LatestFormat = 1, Safe, Restores, NEW d \in Deploys, Deploy(d),
           NEW c \in Coordinators
    PROVE  RunRestores(c)'
<1>1. /\ Typed /\ JobEffect(d) /\ JobRoles(d) /\ RunRestores(c) /\ FitsPhase(c) /\ RunReady(c)
      /\ kv \in Store /\ co[c] \in Runs /\ dep[d] \in Jobs
  BY DeployHasEffect, JobHasRoles, TypedParts, DepTyped DEF Safe, WritersExclude, RunsReady, Restores
<1>2. co' = co /\ slice' = slice /\ (Resting(c)' <=> Resting(c)) /\ MyManifest(c)' = MyManifest(c)
  BY <1>1 DEF JobEffect, JobFrame, Resting, MyManifest
<1>3. Superseded(c) => Superseded(c)'
  BY <1>1, <1>2, StaysReplaced DEF JobEffect, JobFrame
<1>4. ASSUME co[c].phase \in {"routing", "publish"} PROVE co[c].built \notin LiveFamilies(manifests')
  <2>1. co[c].built # NoFamily /\ co[c].built # dep[d].built
    BY <1>1, <1>4 DEF FitsPhase, Safe, WritersExclude, BuildsDistinct
  <2> QED BY <1>1, <1>4, <2>1 DEF JobRoles, RolesKept, SameRoles, RunRestores
<1>5. ASSUME co[c].phase = "routing", ~co[c].held PROVE kv'[co[c].built] = {}
  <2>1. co[c].built \in Families /\ co[c].built # dep[d].built /\ kv[co[c].built] = {}
    BY <1>1, <1>5 DEF FitsPhase, Safe, WritersExclude, BuildsDistinct, RunRestores, Runs, Families, NoFamily
  <2>2. kv'[co[c].built] \subseteq kv[co[c].built]
    BY <1>1, <2>1, JobsPut
  <2> QED BY <2>1, <2>2
<1>6. CASE manifests' = manifests /\ kv' = kv
  BY <1>1, <1>2, <1>3, <1>6 DEF RunRestores, Republishes, MayGoOn, SameView, SameRoles, Own, Restorable
<1>7. CASE dep[d].pc \in {"drop", "upload", "commit", "mirror", "purge"} /\ (kv' = kv \/ manifests' = manifests)
  <2>1. /\ Resting(c) \/ co[c].phase = "routing"
        /\ co[c].phase = "manifest" => Resting(c)' /\ Superseded(c)'
    BY <1>2, <1>3, <1>7, DeployAlone
  <2>2. slice[c].pc \notin {"check", "fence", "commit", "mirror", "release", "roles", "drop"}
    BY <1>1, <2>1 DEF FitsPhase, Resting
  <2>3. slice[c].pc = "sweep" => manifests' = manifests
    <3>1. dep[d].pc \in {"commit", "mirror"} => Resting(c)
      BY DEF Safe, WritersExclude, DeployExcludes, Excluded, Holding
    <3> QED BY <1>1, <1>7, <3>1 DEF JobRoles, FitsPhase, Resting
  <2> QED BY <1>1, <1>2, <1>4, <1>5, <2>1, <2>2, <2>3 DEF RunRestores, Republishes, MayGoOn, SameView, SameRoles
<1> QED BY <1>1, <1>6, <1>7, JobsKeys DEF JobRoles

\* A job up to its last key: its family is not live, and has no key until its
\* upload begins.
LEMMA JobRecord ==
    ASSUME Typed, NEW d \in Deploys, NEW pc \in DeployPcs, Job(d, pc)
    PROVE  /\ dep'[d].pc = pc /\ dep'[d].built = dep[d].built /\ dep'[d].fmt = dep[d].fmt
           /\ dep'[d].seen = dep[d].seen /\ dep'[d].replaced = dep[d].replaced
           /\ DeployManifest(d)' = DeployManifest(d)
<1>1. /\ dep'[d].pc = pc /\ dep'[d].built = dep[d].built /\ dep'[d].fmt = dep[d].fmt
      /\ dep'[d].seen = dep[d].seen /\ dep'[d].replaced = dep[d].replaced
  BY TypedParts DEF Job, Jobs
<1> QED BY <1>1 DEF DeployManifest

LEMMA BeginRestores ==
    ASSUME Typed, NEW d \in Deploys, BeginDeployUpload(d), JobRestores(d), dep[d].pc \in Early,
           manifests' = manifests, dep[d].built \notin LiveFamilies(manifests)
    PROVE  JobRestores(d)'
<1>1. dep'[d].pc = "upload" /\ dep'[d].built = dep[d].built /\ dep'[d].replaced = dep[d].replaced
  BY TypedParts DEF BeginDeployUpload, Jobs
<1> QED BY <1>1 DEF JobRestores

LEMMA UploadingRestores ==
    ASSUME Safe, Restores, NEW d \in Deploys,
           \/ WriteDeployFence(d) \/ TakeLease(d)
           \/ DeployReadRoles(d) \/ DeployMakeRoom(d) \/ DeployPutKey(d)
    PROVE  JobRestores(d)'
<1>1. /\ Typed /\ JobRestores(d) /\ dep \in [Deploys -> Jobs] /\ dep[d] \in Jobs /\ builds \in Nat
      /\ manifests \in Published /\ Stamped
  BY TypedParts, DepTyped, MaxBuildsAssumption DEF Safe, Restores
<1>2. CASE WriteDeployFence(d)
  <2>1. dep' = [dep EXCEPT ![d].pc = "settle", ![d].fmt = prep[d].fmt, ![d].at = fence + 1]
    BY <1>2 DEF WriteDeployFence
  <2>2. dep'[d].pc = "settle" /\ dep'[d].replaced = dep[d].replaced
    BY <1>1, <2>1 DEF Jobs
  <2>3. dep[d].replaced = NoManifest
    BY <1>1, <1>2 DEF WriteDeployFence, JobRestores
  <2> QED BY <2>2, <2>3 DEF JobRestores
<1>4. CASE TakeLease(d)
  <2>1. dep' = [dep EXCEPT ![d].pc = "sweep", ![d].built = builds + 1] /\ builds < MaxBuilds
        /\ UNCHANGED <<kv, manifests>> /\ dep[d].pc = "settle"
    BY <1>4 DEF TakeLease
  <2>2. dep'[d].pc = "sweep" /\ dep'[d].built = builds + 1 /\ dep'[d].replaced = dep[d].replaced
    BY <1>1, <2>1 DEF Jobs
  <2>3. builds + 1 \in Families /\ builds + 1 > builds
    BY <1>1, <2>1, MaxBuildsAssumption DEF Families
  <2>4. builds + 1 \notin LiveFamilies(manifests) /\ kv[builds + 1] = {}
    BY <1>1, <2>3 DEF Stamped
  <2>5. dep[d].replaced = NoManifest
    BY <1>1, <2>1 DEF JobRestores, Early
  <2> QED BY <2>1, <2>2, <2>4, <2>5 DEF JobRestores
<1>5. ASSUME dep[d].pc \in {"sweep", "drop"}
      PROVE  dep[d].built \notin LiveFamilies(manifests) /\ kv[dep[d].built] = {} /\ dep[d].replaced = NoManifest
  BY <1>1, <1>5 DEF JobRestores, Early
<1>6. CASE DeployReadRoles(d)
  <2>1. dep[d].pc = "sweep" /\ UNCHANGED <<kv, manifests>>
    BY <1>6 DEF DeployReadRoles, kvVars
  <2>2. CASE BeginDeployUpload(d)
    BY <1>1, <1>5, <2>1, <2>2, BeginRestores DEF Early
  <2>3. CASE dep' = [dep EXCEPT ![d].pc = "drop", ![d].seen = manifests]
    <3>1. /\ dep'[d].pc = "drop" /\ dep'[d].built = dep[d].built /\ dep'[d].replaced = dep[d].replaced
          /\ dep'[d].seen = manifests
      BY <1>1, <2>3 DEF Jobs
    <3> QED BY <1>5, <2>1, <3>1 DEF JobRestores, SameView, SameRoles
  <2> QED BY <1>6, <2>2, <2>3 DEF DeployReadRoles
<1>7. CASE DeployMakeRoom(d)
  <2>1. dep[d].pc = "drop" /\ manifests' = manifests
    BY <1>7 DEF DeployMakeRoom
  <2>2. CASE BeginDeployUpload(d)
    BY <1>1, <1>5, <2>1, <2>2, BeginRestores DEF Early
  <2>3. CASE dep' = [dep EXCEPT ![d].pc = "dead", ![d].seen = NothingPublished]
    <3>1. dep'[d].pc = "dead"
      BY <1>1, <2>3 DEF Jobs
    <3> QED BY <3>1 DEF JobRestores, Early
  <2> QED BY <1>7, <2>2, <2>3 DEF DeployMakeRoom
<1>8. CASE DeployPutKey(d)
  <2>1. /\ dep[d].pc = "upload" /\ manifests' = manifests
        /\ dep[d].built \notin LiveFamilies(manifests) /\ dep[d].replaced = NoManifest
    BY <1>1, <1>8 DEF DeployPutKey, JobRestores, Early
  <2>2. dep'[d].pc \in {"upload", "carry"} /\ dep'[d].built = dep[d].built /\ dep'[d].replaced = dep[d].replaced
    <3>1. CASE Job(d, "carry")
      BY <1>1, <3>1, JobRecord DEF DeployPcs
    <3>2. CASE dep' = [dep EXCEPT ![d].done = dep[d].done + 1]
      BY <1>1, <2>1, <3>2 DEF Jobs
    <3> QED BY <1>8, <3>1, <3>2 DEF DeployPutKey, Job
  <2> QED BY <2>1, <2>2 DEF JobRestores
<1> QED BY <1>2, <1>4, <1>6, <1>7, <1>8

\* A job that publishes: what it read is restorable, and is what it writes.
LEMMA PublishingRestores ==
    ASSUME LatestFormat = 1, Safe, Restores, NEW d \in Deploys,
           \/ DeployReadReplaced(d) \/ DeployCheckLease(d) \/ DeployWriteManifest(d)
           \/ DeployWriteMirror(d) \/ DeployReleaseLease(d)
    PROVE  JobRestores(d)'
<1>1. /\ Typed /\ JobRestores(d) /\ dep \in [Deploys -> Jobs] /\ dep[d] \in Jobs /\ Excluded(d)
      /\ manifests \in Published /\ Named(manifests) /\ ManifestComplete /\ astray = {} /\ FormatChosen
  BY TypedParts, DepTyped DEF Safe, Restores, WritersExclude, DeployExcludes
<1>2. dep[d].built \in Families /\ dep[d].fmt = Only /\ dep[d].fmt \in Formats /\ kv' = kv
  <2>1. dep[d].pc \in Holding /\ dep[d].pc # "off" /\ kv' = kv
    BY DEF DeployReadReplaced, DeployCheckLease, DeployWriteManifest, DeployWriteMirror, DeployReleaseLease,
       Holding, kvVars
  <2> QED BY <1>1, <2>1, OneFormat DEF Excluded, FormatChosen, Jobs, Families, NoFamily
<1>3. /\ DeployManifest(d) \in Manifest /\ DeployManifest(d).built # NoFamily /\ DeployManifest(d).fmt = Only
  BY <1>1, <1>2, ManifestIs DEF DeployManifest, Jobs
<1>4. ASSUME NEW pc \in DeployPcs, Job(d, pc)
      PROVE  /\ dep'[d].pc = pc /\ dep'[d].built = dep[d].built
             /\ dep'[d].replaced = dep[d].replaced /\ DeployManifest(d)' = DeployManifest(d)
  BY <1>1, <1>4, JobRecord
<1>5. CASE DeployReadReplaced(d)
  <2>1. dep[d].pc = "carry" /\ manifests' = manifests /\ dep[d].replaced = NoManifest
        /\ dep[d].built \notin LiveFamilies(manifests)
    BY <1>1, <1>5 DEF DeployReadReplaced, kvVars, JobRestores, Early
  <2>2. \E m \in {NoManifest, Primary(manifests)} :
          dep'[d].pc = "check" /\ dep'[d].built = dep[d].built /\ dep'[d].fmt = dep[d].fmt /\ dep'[d].replaced = m
    <3>1. CASE Job(d, "check")
      BY <1>1, <2>1, <3>1, JobRecord DEF DeployPcs
    <3>2. CASE dep' = [dep EXCEPT ![d].pc = "check", ![d].replaced = ReplacedManifest(manifests, dep[d].fmt),
                                  ![d].mirror = LegacyFollows(manifests, dep[d].fmt)]
      <4> DEFINE m == ReplacedManifest(manifests, dep[d].fmt)
                 y == LegacyFollows(manifests, dep[d].fmt)
      <4>1. m = Primary(manifests)
        BY <1>1, <1>2, OnePrimary DEF ReplacedManifest
      <4> HIDE DEF m, y
      <4>2. dep' = [dep EXCEPT ![d].pc = "check", ![d].replaced = m, ![d].mirror = y]
        BY <3>2 DEF m, y
      <4>3. dep'[d].pc = "check" /\ dep'[d].built = dep[d].built /\ dep'[d].fmt = dep[d].fmt
        BY <1>1, <4>2 DEF Jobs
      <4>4. dep'[d].replaced = m
        BY <1>1, <4>2 DEF Jobs
      <4> QED BY <4>1, <4>3, <4>4
    <3> QED BY <1>5, <3>1, <3>2 DEF DeployReadReplaced
  <2>3. PICK m \in {NoManifest, Primary(manifests)} :
          dep'[d].pc = "check" /\ dep'[d].built = dep[d].built /\ dep'[d].fmt = dep[d].fmt /\ dep'[d].replaced = m
    BY <2>2
  <2>4. DeployManifest(d)' = NextManifest(dep[d].built, dep[d].fmt, m)
    BY <2>3 DEF DeployManifest
  <2>5. Restorable(NextManifest(dep[d].built, dep[d].fmt, m))
    <3>1. CASE m.built = NoFamily
      BY <1>2, <3>1 DEF NextManifest, Restorable, Families, NoFamily
    <3>2. CASE m = Primary(manifests) /\ m.built # NoFamily
      <4>1. PICK k \in ManifestKeys : manifests[k].built # NoFamily /\ m = manifests[k]
        BY <1>1, <3>2, PrimaryExists, NoneLive
      <4>2. Complete(kv, m.built) /\ m.built # dep[d].built
        BY <1>1, <2>1, <4>1 DEF ManifestComplete, Whole, LiveFamilies
      <4> QED BY <4>2 DEF NextManifest, Restorable
    <3> QED BY <3>1, <3>2 DEF NoManifest
  <2>6. Restorable(DeployManifest(d))'
    BY <1>2, <2>4, <2>5 DEF Restorable
  <2> QED BY <2>3, <2>6 DEF JobRestores, Early
<1>6. CASE DeployCheckLease(d)
  <2>1. dep[d].pc = "check" /\ dep'[d].pc \in {"commit", "dead"} /\ DeployManifest(d)' = DeployManifest(d)
    BY <1>4, <1>6 DEF DeployCheckLease, DeployPcs
  <2>2. Restorable(DeployManifest(d))'
    BY <1>1, <1>2, <2>1 DEF JobRestores, Restorable
  <2> QED BY <2>1, <2>2 DEF JobRestores, Early
<1>7. CASE DeployWriteManifest(d)
  <2>1. dep[d].pc = "commit" /\ dep'[d].pc \in {"mirror", "release"} /\ DeployManifest(d)' = DeployManifest(d)
    BY <1>4, <1>7 DEF DeployWriteManifest, DeployPcs
  <2>2. manifests' = [manifests EXCEPT ![Only] = DeployManifest(d)]
    BY <1>2, <1>7 DEF DeployWriteManifest
  <2>3. Own' = DeployManifest(d)
    BY <1>1, <1>3, <2>2, PutRoles, OneFormat DEF Own
  <2>4. Restorable(DeployManifest(d))'
    BY <1>1, <1>2, <2>1 DEF JobRestores, Restorable
  <2> QED BY <2>1, <2>3, <2>4 DEF JobRestores, Early
<1>8. CASE DeployWriteMirror(d)
  <2>1. dep[d].pc = "mirror" /\ dep'[d].pc = "release" /\ DeployManifest(d)' = DeployManifest(d)
    BY <1>4, <1>8 DEF DeployWriteMirror, DeployPcs
  <2>2. manifests' = [manifests EXCEPT ![Legacy] = DeployManifest(d)] /\ Own = DeployManifest(d)
    BY <1>1, <1>8, <2>1 DEF DeployWriteMirror, JobRestores
  <2>3. Own' = DeployManifest(d)
    BY <1>1, <1>3, <2>2, PutRoles, OneFormat DEF Own
  <2> QED BY <2>1, <2>3 DEF JobRestores, Early
<1>9. CASE DeployReleaseLease(d)
  <2>1. /\ dep[d].pc = "release" /\ dep'[d].pc = "roles" /\ DeployManifest(d)' = DeployManifest(d)
        /\ manifests' = manifests
    BY <1>4, <1>9 DEF DeployReleaseLease, DeployPcs
  <2> QED BY <1>1, <2>1 DEF JobRestores, Early, Own
<1> QED BY <1>5, <1>6, <1>7, <1>8, <1>9

LEMMA OwnJob ==
    ASSUME LatestFormat = 1, Safe, Restores, NEW d \in Deploys, Deploy(d)
    PROVE  JobRestores(d)'
<1>1. /\ Typed /\ JobRestores(d) /\ dep \in [Deploys -> Jobs] /\ dep[d] \in Jobs
      /\ manifests \in Published /\ FormatChosen
  BY TypedParts, DepTyped DEF Safe, Restores
<1>2. CASE DeploySweepRead(d)
  <2>1. dep[d].pc = "roles" /\ manifests' = manifests /\ dep[d].fmt = Only /\ Own = DeployManifest(d)
    BY <1>1, <1>2, OneFormat DEF DeploySweepRead, kvVars, FormatChosen, JobRestores
  <2>2. [manifests EXCEPT ![Only] = DeployManifest(d)] = manifests
    BY <1>1, <2>1, OneFormat DEF Own, Published
  <2>3. dep' = [dep EXCEPT ![d].pc = "lease", ![d].seen = manifests]
    BY <1>2, <2>1, <2>2 DEF DeploySweepRead
  <2>4. dep'[d].pc = "lease" /\ dep'[d].seen = manifests
    BY <1>1, <2>3 DEF Jobs
  <2> QED BY <2>1, <2>4 DEF JobRestores, Early, SameView, SameRoles
<1>4. CASE DeploySweepReadLease(d)
  <2> DEFINE held == InFlight(lease.built, dep[d].seen)
  <2>1. dep' = [dep EXCEPT ![d].pc = "purge", ![d].inFlight = held] /\ dep[d].pc = "lease" /\ manifests' = manifests
    BY <1>4 DEF DeploySweepReadLease, kvVars
  <2> HIDE DEF held
  <2>2. dep'[d].pc = "purge" /\ dep'[d].seen = dep[d].seen
    BY <1>1, <2>1 DEF Jobs
  <2> QED BY <1>1, <2>1, <2>2 DEF JobRestores, Early, SameView, SameRoles
<1>3. CASE DeploySweepDrop(d) \/ SwitchCode(d) \/ DeployDies(d)
  <2>1. dep'[d].pc \in {"switch", "done", "dead"}
    <3>1. DeploySweepDrop(d) => dep'[d].pc = "switch"
      BY <1>1 DEF DeploySweepDrop, Jobs
    <3>2. SwitchCode(d) => dep'[d].pc = "done"
      BY <1>1, JobRecord DEF SwitchCode, DeployPcs
    <3>3. DeployDies(d) => dep'[d].pc = "dead"
      BY <1>1 DEF DeployDies, Jobs
    <3> QED BY <1>3, <3>1, <3>2, <3>3
  <2> QED BY <2>1 DEF JobRestores, Early
<1> QED BY <1>2, <1>3, <1>4, UploadingRestores, PublishingRestores DEF Deploy

\* A job that is not under way counts on nothing but its own record.
LEMMA OtherJobs ==
    ASSUME Prompt, SerialDeploys, Safe, Restores, NEW d \in Deploys, Deploy(d), NEW e \in Deploys \ {d}
    PROVE  JobRestores(e)'
<1>1. dep'[e] = dep[e] /\ dep[e].pc \in {"off", "done", "dead"} /\ JobRestores(e)
  BY JobAlone DEF Active, Restores
<1> QED BY <1>1 DEF JobRestores, Early

-----------------------------------------------------------------------------
(***************************************************************************)
(* The run that has published, and its lease.                              *)
(***************************************************************************)
\* A run that may go on to publish, or has published, was doing so before.
LEMMA GoesOnFrom ==
    ASSUME Safe, NEW c \in Coordinators, RunEffect(c), MayGoOn(c)', co'[c].phase \in {"publish", "manifest"}
    PROVE  /\ RunGoesOn(c) /\ MayGoOn(c) /\ co'[c].built = co[c].built
           /\ co[c].phase \in {"routing", "publish", "manifest"}
           /\ co[c].phase = "routing" => co'[c].phase = "publish" /\ waits'[c] = MidSequence \ {c} /\ Resting(c)'
<1>1. RunGoesOn(c)
  BY DEF RunEffect, Moves, RunStarts, RunStamped, RunEnds, Ended
<1> QED BY <1>1 DEF RunGoesOn, MayBegin, MayGoOn, SameBuild

LEMMA SameGoesOn ==
    ASSUME NEW c \in Coordinators, RunEffect(c), NEW e \in Coordinators \ {c}
    PROVE  /\ co'[e] = co[e] /\ slice'[e] = slice[e] /\ (Resting(e)' <=> Resting(e))
           /\ (MayGoOn(e)' <=> MayGoOn(e))
BY DEF RunEffect, OthersKept, Resting, MayGoOn, Superseded

LEMMA RunGivesUp ==
    ASSUME Prompt, ~FenceReadsFail, LatestFormat = 1, Safe, Restores, NEW c \in Coordinators, Run(c),
           NEW e \in Coordinators
    PROVE  GivesUp(e)'
<1>1. /\ Typed /\ RunEffect(c) /\ RunRoles(c) /\ GivesUp(e) /\ Backed(e) /\ RunRestores(e) /\ UNCHANGED astray
  BY RunHasEffect, RunHasRoles DEF Safe, WritersExclude, RunsReady, RunsBacked, Restores, RunEffect, OthersKept
<1> SUFFICES ASSUME MayGoOn(e)', HasPublished(e)' PROVE lease'.built \in {co'[e].built, NoFamily}
  BY DEF GivesUp
<1>2. co'[e].phase = "manifest" /\ co'[e].built \in LiveFamilies(manifests')
  BY <1>1 DEF HasPublished, Restores
<1>3. CASE e = c
  <2>1. RunGoesOn(c) /\ MayGoOn(c) /\ co'[c].built = co[c].built /\ co[c].phase \in {"publish", "manifest"}
    BY <1>1, <1>2, <1>3, GoesOnFrom
  <2>2. CASE co[c].phase = "publish"
    <3>1. co[c].built \notin LiveFamilies(manifests)
      BY <1>1, <1>3, <2>2 DEF RunRestores
    <3>2. slice[c].pc \notin {"commit", "mirror"}
      BY <1>1, <2>2, TypedParts DEF FitsPhase
    <3>3. LiveFamilies(manifests') = LiveFamilies(manifests)
      BY <1>1, <3>2 DEF RunRoles, RolesKept, SameRoles
    <3> QED BY <1>2, <1>3, <2>1, <3>1, <3>3
  <2>3. CASE co[c].phase = "manifest"
    <3>1. lease.built \in {co[c].built, NoFamily}
      BY <1>1, <1>3, <2>1, <2>3 DEF GivesUp, Backed, Claimed
    <3>2. lease' = lease \/ lease'.built = NoFamily
      <4>1. ASSUME Release(co[c].built) PROVE lease' = lease \/ lease'.built = NoFamily
        BY <4>1 DEF Release, Released, NoLease
      <4>2. CASE FailRun(c) \/ CheckChunks(c) \/ ReleaseLease(c)
        BY <4>1, <4>2 DEF FailRun, CheckChunks, ReleaseLease, EndFailed
      <4>3. ~(PutLease(c) \/ RenewLease(c) \/ MakeRoom(c))
        BY <1>1, <2>3, TypedParts DEF PutLease, RenewLease, MakeRoom, FitsPhase
      <4>4. ~(FailRun(c) \/ CheckChunks(c) \/ ReleaseLease(c) \/ PutLease(c) \/ RenewLease(c) \/ MakeRoom(c))
              => lease' = lease
        BY DEF Run, Slice, StartImport, Retire, RetirePurged, KillSlice, StampBuild, ClaimLease, ReadRoles,
           PutFilter, RenewFence, ChunkFence, PutChunk, ReadReplaced, CommitFence, WriteManifest, WriteMirror,
           SweepRead, SweepDrop, FinishRun, kvVars
      <4> QED BY <4>2, <4>3, <4>4
    <3> QED BY <1>3, <2>1, <3>1, <3>2
  <2> QED BY <2>1, <2>2, <2>3
<1>4. CASE e # c
  <2>1. co'[e] = co[e] /\ MayGoOn(e)
    BY <1>1, <1>4, SameGoesOn
  <2>2. Resting(c)
    BY <1>2, <1>4, <2>1, OthersStopped
  <2>3. manifests' = manifests /\ (lease' = lease \/ lease' = NoLease)
    BY <1>1, <2>2 DEF RunRoles, RunEffect, LeaseMoves
  <2> QED BY <1>1, <1>2, <2>1, <2>3 DEF GivesUp, HasPublished, NoLease, Restores
<1> QED BY <1>3, <1>4

LEMMA JobGivesUp ==
    ASSUME Prompt, SerialDeploys, LatestFormat = 1, Safe, Restores, NEW d \in Deploys, Deploy(d),
           NEW c \in Coordinators
    PROVE  GivesUp(c)'
<1>1. /\ Typed /\ JobEffect(d) /\ JobRoles(d) /\ GivesUp(c) /\ Excluded(d) /\ UNCHANGED <<co, slice, astray>>
  BY DeployHasEffect, JobHasRoles DEF Safe, WritersExclude, DeployExcludes, Restores, JobEffect, JobFrame
<1> SUFFICES ASSUME MayGoOn(c)', HasPublished(c)' PROVE lease'.built \in {co[c].built, NoFamily}
  BY <1>1 DEF GivesUp
<1>2. MayGoOn(c)
  BY <1>1, StaysReplaced DEF MayGoOn, Resting, JobEffect, JobFrame
<1>3. co[c].phase = "manifest"
  BY <1>1 DEF HasPublished
<1>4. manifests' = manifests
  <2>1. dep[d].pc \in {"commit", "mirror"} => Resting(c) /\ Superseded(c)
    BY <1>3, DeployAlone
  <2> QED BY <1>1, <1>2, <2>1 DEF JobRoles, MayGoOn
<1>5. lease.built \in {co[c].built, NoFamily}
  BY <1>1, <1>2, <1>4 DEF GivesUp, HasPublished
<1>6. CASE TakeLease(d)
  <2>1. dep[d].pc = "settle" /\ waits[d] = {} /\ Active(d)
    BY <1>6 DEF TakeLease, LongMayEnd, Active
  <2>2. Resting(c) /\ ~Superseded(c)
    BY <1>1, <1>2, <2>1 DEF Excluded, MayGoOn
  <2>3. Unfenced(c, d)
    BY <1>1, <2>1, <2>2, TypedParts DEF Excluded, Unfenced, Superseded, Runs
  <2> QED BY <1>1, <1>3, <2>1, <2>3 DEF Excluded, Ended
<1>7. CASE ~TakeLease(d)
  <2>1. lease' = lease \/ lease'.built = NoFamily
    BY <1>7 DEF Deploy, WriteDeployFence, DeployReadRoles, DeployMakeRoom, DeployPutKey,
       DeployReadReplaced, DeployCheckLease, DeployWriteManifest, DeployWriteMirror, DeployReleaseLease,
       DeploySweepRead, DeploySweepReadLease, DeploySweepDrop, SwitchCode, DeployDies, kvVars,
       Release, Released, NoLease
  <2> QED BY <1>5, <2>1
<1> QED BY <1>6, <1>7

-----------------------------------------------------------------------------
(***************************************************************************)
(* The sweep before a deploy's fence, beside the runs.                     *)
(***************************************************************************)
\* What a run is about to write, while that sweep is under way, rolls back to a
\* family the sweep has seen live, or is the primary again.
LEMMA WritesSeen ==
    ASSUME LatestFormat = 1, Safe, Restores, NEW c \in Coordinators, NEW d \in Deploys,
           slice[c].pc \in {"check", "fence", "commit", "mirror"}, prep[d].pc \in {"lease", "drop"}
    PROVE  \/ MyManifest(c).prev \in LiveFamilies(prep[d].seen) \cup {NoFamily}
           \/ Republishes(c) /\ MyManifest(c).prev = Primary(manifests).prev
<1>1. /\ FitsPhase(c) /\ RunRestores(c) /\ PruneRestores(d) /\ Named(manifests) /\ manifests \in Published
      /\ co[c] \in Runs /\ slice[c] \in Slices
  BY TypedParts DEF Safe, Restores
<1>2. /\ ~Resting(c) /\ MayGoOn(c) /\ co[c].phase = "manifest"
      /\ co[c].built \in Families /\ co[c].built # NoFamily /\ co[c].fmt \in Formats
  BY <1>1 DEF FitsPhase, Resting, MayGoOn, Runs, Families, NoFamily
<1>3. LiveFamilies(manifests) \subseteq LiveFamilies(prep[d].seen) \cup {co[c].built}
  BY <1>1, <1>2 DEF PruneRestores, InItsWay
<1>4. CASE slice[c].pc = "mirror"
  <2>1. Own = MyManifest(c) /\ MyManifest(c).built = co[c].built
    BY <1>1, <1>4 DEF RunRestores, MyManifest, NextManifest
  <2>2. Primary(manifests) = MyManifest(c)
    BY <1>1, <1>2, <2>1, OnePrimary DEF Own
  <2> QED BY <1>2, <2>1, <2>2 DEF Republishes
<1>5. CASE slice[c].pc # "mirror"
  <2> DEFINE m == slice[c].replaced
  <2>1. m = NoManifest \/ m = Primary(manifests)
    BY <1>1, <1>5 DEF RunRestores
  <2>2. MyManifest(c).prev = IF m.built = co[c].built THEN m.prev ELSE m.built
    BY DEF MyManifest, NextManifest
  <2>3. CASE m = NoManifest
    BY <1>2, <2>2, <2>3 DEF NoManifest
  <2>4. CASE m = Primary(manifests) /\ m.built = co[c].built
    BY <1>2, <2>2, <2>4 DEF Republishes
  <2>5. CASE m = Primary(manifests) /\ m.built # co[c].built
    <3>1. m.built \in LiveFamilies(manifests) \cup {NoFamily}
      BY <1>1, <2>5, PrimaryExists, NoneLive DEF LiveFamilies
    <3> QED BY <1>3, <2>2, <2>5, <3>1
  <2> QED BY <2>1, <2>3, <2>4, <2>5
<1> QED BY <1>4, <1>5

\* A run that finds its manifest the primary after a step found it so before,
\* unless the step is its own publish.
LEMMA RepublishesFrom ==
    ASSUME Prompt, ~FenceReadsFail, LatestFormat = 1, Safe, Restores, NEW c \in Coordinators, Run(c),
           manifests' = manifests \/ RolesKept, NEW e \in Coordinators, Republishes(e)'
    PROVE  Republishes(e) /\ co'[e].built = co[e].built /\ Primary(manifests') = Primary(manifests)
<1>1. /\ RunEffect(c) /\ RunRestores(c) /\ FitsPhase(c) /\ manifests \in Published
  BY RunHasEffect, TypedParts DEF Safe, WritersExclude, RunsReady, Restores
<1>2. Primary(manifests') = Primary(manifests)
  BY DEF RolesKept, SameRoles
<1>3. CASE e # c
  BY <1>1, <1>2, <1>3, SameGoesOn DEF Republishes
<1>4. CASE e = c
  <2>1. MayGoOn(c) /\ co'[c].built = co[c].built /\ co[c].phase \in {"publish", "manifest"}
    BY <1>1, <1>4, GoesOnFrom DEF Republishes
  <2>2. Primary(manifests).built = co[c].built
    BY <1>2, <1>4, <2>1 DEF Republishes
  <2>3. co[c].phase # "publish"
    <3> SUFFICES ASSUME co[c].phase = "publish" PROVE FALSE
      OBVIOUS
    <3>1. co[c].built # NoFamily /\ co[c].built \notin LiveFamilies(manifests)
      BY <1>1 DEF FitsPhase, RunRestores
    <3> QED BY <1>1, <2>2, <3>1, PrimaryExists, NoneLive DEF LiveFamilies
  <2> QED BY <1>2, <1>4, <2>1, <2>2, <2>3 DEF Republishes
<1> QED BY <1>3, <1>4

LEMMA RollbackOf ==
    ASSUME NEW pub
    PROVE  Rollback(pub) \in {Primary(pub).prev, NoFamily}
BY DEF Rollback

\* What the sweep knows survives a step of a run: who publishes meanwhile rolls
\* back to what it has seen.
LEMMA RunSparesSweeps ==
    ASSUME Prompt, ~FenceReadsFail, LatestFormat = 1, Safe, Restores, NEW c \in Coordinators, Run(c),
           NEW d \in Deploys
    PROVE  PruneRestores(d)'
<1> DEFINE seen == prep[d].seen
<1>1. /\ RunEffect(c) /\ RunRoles(c) /\ PruneRestores(d) /\ FitsPhase(c) /\ manifests \in Published
      /\ prep' = prep /\ \A x \in Coordinators : co[x] \in Runs
  BY RunHasEffect, RunHasRoles, TypedParts DEF Safe, WritersExclude, RunsReady, Restores, RunEffect, OthersKept
<1> SUFFICES ASSUME prep[d].pc \in {"lease", "drop"} PROVE PruneRestores(d)'
  BY <1>1 DEF PruneRestores
<1>2. Kept(d)' = Kept(d)
  BY <1>1 DEF Kept, RoleSeen, NamedSeen, HolderSeen
<1>3. ASSUME NEW e \in Coordinators, InItsWay(e, d)'
      PROVE  LiveFamilies(manifests') \subseteq LiveFamilies(seen) \cup {co'[e].built}
  <2>1. CASE e # c
    <3>1. co'[e] = co[e] /\ (Resting(e)' <=> Resting(e)) /\ MayGoOn(e) /\ (d \in waits[e] => d \in waits'[e])
      BY <1>1, <1>3, <2>1, SameGoesOn, Apart DEF RunEffect, OthersKept, InItsWay
    <3>2. InItsWay(e, d)
      BY <1>3, <3>1 DEF InItsWay
    <3>3. Resting(c)
      BY <2>1, <3>2, OthersStopped DEF InItsWay
    <3>4. manifests' = manifests
      BY <1>1, <3>3 DEF RunRoles
    <3> QED BY <1>1, <3>1, <3>2, <3>4 DEF PruneRestores
  <2>2. CASE e = c
    <3>1. /\ RunGoesOn(c) /\ MayGoOn(c) /\ co'[c].built = co[c].built
          /\ co[c].phase \in {"routing", "publish", "manifest"}
          /\ co[c].phase = "routing" => co'[c].phase = "publish" /\ waits'[c] = MidSequence \ {c} /\ Resting(c)'
      BY <1>1, <1>3, <2>2, GoesOnFrom DEF InItsWay
    <3>2. co[c].phase # "routing"
      <4>1. d \in MidSequence \ {c}
        BY Apart DEF MidSequence, PrepSteps
      <4> QED BY <1>3, <2>2, <3>1, <4>1 DEF InItsWay
    <3>3. InItsWay(c, d)
      BY <3>1, <3>2 DEF InItsWay, RunGoesOn, MayBegin
    <3>4. LiveFamilies(manifests') \subseteq LiveFamilies(manifests) \cup {co[c].built}
      BY <1>1 DEF RunRoles, RolesKept, SameRoles
    <3> QED BY <1>1, <2>2, <3>1, <3>3, <3>4 DEF PruneRestores
  <2> QED BY <2>1, <2>2
<1>4. CASE manifests' = manifests \/ RolesKept
  <2>1. Rollback(manifests') = Rollback(manifests)
    BY <1>4 DEF RolesKept, SameRoles, Rollback, OtherLive
  <2>2. \A e \in Coordinators : Republishes(e)' =>
           Republishes(e) /\ co'[e].built = co[e].built /\ Primary(manifests') = Primary(manifests)
    BY <1>4, RepublishesFrom
  <2> QED BY <1>1, <1>2, <1>3, <2>1, <2>2 DEF PruneRestores
<1>5. CASE manifests' # manifests /\ ~RolesKept
  <2>1. /\ slice[c].pc \in {"commit", "mirror"} /\ Primary(manifests') = MyManifest(c)
    BY <1>1, <1>5 DEF RunRoles
  <2>2. MyManifest(c).built = co[c].built /\ co[c].built # NoFamily /\ co[c].phase = "manifest"
    BY <1>1, <2>1 DEF MyManifest, NextManifest, FitsPhase
  <2>3. \/ MyManifest(c).prev \in LiveFamilies(seen) \cup {NoFamily}
        \/ Republishes(c) /\ MyManifest(c).prev = Primary(manifests).prev
    BY <2>1, WritesSeen
  <2>4. ASSUME NEW e \in Coordinators, Republishes(e)' PROVE e = c /\ co'[e].built = co[c].built
    <3>1. co'[e].built = co[c].built
      BY <2>1, <2>2, <2>4 DEF Republishes
    <3>2. ASSUME e # c PROVE FALSE
      <4>1. co'[e] = co[e]
        BY <1>1, <3>2, SameGoesOn
      <4> QED BY <2>2, <3>1, <3>2, <4>1 DEF Safe, WritersExclude, BuildsDistinct
    <3> QED BY <3>1, <3>2
  <2>5. Rollback(manifests') \in {MyManifest(c).prev, NoFamily}
    BY <2>1, RollbackOf
  <2>6. CASE prep[d].pc = "lease"
    <3>1. \/ MyManifest(c).prev \in LiveFamilies(seen) \cup {NoFamily}
          \/ MyManifest(c).prev = Primary(seen).prev /\ co[c].built \in LiveFamilies(seen)
      BY <1>1, <2>3, <2>6 DEF PruneRestores
    <3> QED BY <1>1, <1>3, <2>1, <2>4, <2>5, <2>6, <3>1 DEF PruneRestores
  <2>7. CASE prep[d].pc = "drop"
    <3>1. MyManifest(c).prev \in Kept(d) /\ NoFamily \in Kept(d)
      BY <1>1, <2>3, <2>7 DEF PruneRestores, Kept
    <3> QED BY <1>1, <1>2, <1>3, <2>1, <2>5, <2>7, <3>1 DEF PruneRestores
  <2> QED BY <2>6, <2>7
<1> QED BY <1>4, <1>5

\* The sweep takes no family it is to keep.
LEMMA PruneSparesKept ==
    ASSUME NEW d \in Deploys, prep[d].seen \in Published, NEW f \in Families, f \in Kept(d),
           kv' = WithoutFamilies(kv, PrunePlan(d).retire)
    PROVE  kv'[f] = kv[f]
<1> DEFINE seen == prep[d].seen
           live == Primary(seen)
           rb == RollbackFor(live, Present(kv), HolderSeen(d), OtherLive(seen))
           role == RollbackRole(kv, seen, HolderSeen(d))
           kept == LiveFamilies(seen) \cup {role, HolderSeen(d)}
           retire == PrunePlan(d).retire
<1>1. retire = IF live.built = NoFamily THEN {} ELSE Present(kv) \ kept
  BY DEF PrunePlan, PlanRetention, HolderSeen
<1>2. role = IF rb \in NamedSeen(d) \/ Cardinality(NamedSeen(d) \cup {rb}) > 3 THEN NoFamily ELSE rb
  BY DEF RollbackRole, NamedSeen
<1>3. f # NoFamily
  BY DEF Families, NoFamily
<1>4. f \in kept \/ live.built = NoFamily
  <2>1. CASE f \in LiveFamilies(seen)
    BY <2>1
  <2>2. CASE f = prep[d].holder
    BY <2>2 DEF HolderSeen, InFlight
  <2>3. CASE f = RoleSeen(d) /\ live.built # NoFamily
    <3>1. f = live.prev /\ ~(Cardinality(NamedSeen(d) \cup {f}) > 3)
      BY <1>3, <2>3 DEF RoleSeen
    <3>2. NamedSeen(d) \subseteq LiveFamilies(seen) \cup {live.built, HolderSeen(d)}
      BY DEF NamedSeen, OtherLive
    <3>3. CASE f = live.built
      <4>1. live.built \in LiveFamilies(seen)
        BY <2>3, PrimaryExists, NoneLive DEF LiveFamilies
      <4> QED BY <3>3, <4>1
    <3>4. CASE f # live.built
      <4>1. rb = f
        BY <1>3, <2>3, <3>1, <3>4 DEF RollbackFor
      <4>2. CASE f \in NamedSeen(d)
        BY <3>2, <3>4, <4>2
      <4>3. CASE f \notin NamedSeen(d)
        BY <1>2, <3>1, <4>1, <4>3
      <4> QED BY <4>2, <4>3
    <3> QED BY <3>3, <3>4
  <2> QED BY <1>3, <2>1, <2>2, <2>3 DEF Kept
<1> HIDE DEF retire, kept
<1>5. f \notin retire
  BY <1>1, <1>4
<1> QED BY <1>5 DEF WithoutFamilies, retire

\* Nothing goes astray with a deploy's copy only when it is a copy of the
\* primary itself.
LEMMA CopyKeepsRoles ==
    ASSUME LatestFormat = 1, Safe, Restores, NEW d \in Deploys, Prepare(d), astray' = {}, manifests' # manifests
    PROVE  RolesKept /\ Named(manifests') /\ kv' = kv /\ Own.built = NoFamily
<1>1. EnsureCopy(d)
  BY PrepareQuiet
<1>2. /\ prep[d].pc = "copy" /\ kv' = kv /\ prep[d].fmt = Only /\ manifests \in Published /\ Named(manifests)
      /\ prep[d].copied.built # NoFamily /\ prep[d].copied.fmt = prep[d].fmt
      /\ prep[d].copied \in Manifest
  BY <1>1, OneFormat, TypedParts DEF EnsureCopy, CopyChosen, Safe, Restores, Preparations
<1>3. manifests' = [manifests EXCEPT ![Only] = prep[d].copied] /\ astray' = IF Late(d) THEN astray \cup PutBack(d) ELSE astray
  BY <1>1, <1>2 DEF EnsureCopy
<1>4. ~Late(d)
  BY <1>2, <1>3 DEF PutBack
<1>5. manifests[Only].built = NoFamily /\ manifests[Legacy] = prep[d].copied
  BY <1>2, <1>4 DEF Late
<1>6. /\ manifests' \in Published /\ manifests'[Only] = manifests[Legacy] /\ manifests'[Legacy] = manifests[Legacy]
      /\ Named(manifests')
  BY <1>2, <1>3, <1>5, OneFormat DEF Published, Named
<1>7. /\ Primary(manifests) = manifests[Legacy] /\ Primary(manifests') = manifests[Legacy]
      /\ LiveFamilies(manifests) = {manifests[Only].built, manifests[Legacy].built} \ {NoFamily}
      /\ LiveFamilies(manifests') = {manifests[Legacy].built} \ {NoFamily}
  BY <1>2, <1>5, <1>6, OnePrimary
<1> QED BY <1>2, <1>5, <1>6, <1>7 DEF RolesKept, SameRoles, Own

\* What a sweep before the fence takes is neither the rollback, nor what a
\* publisher is about to roll back to.
LEMMA PruneKeepsRollback ==
    ASSUME LatestFormat = 1, Safe, Restores, NEW d \in Deploys, PruneDrop(d)
    PROVE  /\ Keeps(kv', manifests')
           /\ \A f \in Families : kv'[f] \subseteq kv[f]
           /\ \A c \in Coordinators : RunRestores(c)'
<1>1. /\ prep[d].pc = "drop" /\ UNCHANGED <<manifests, co, slice, pointer, fence>>
      /\ PruneRestores(d) /\ prep[d].seen \in Published
      /\ kv \in Store /\ manifests \in Published /\ Keeps(kv, manifests)
  BY TypedParts DEF PruneDrop, Safe, Restores, Preparations
<1>2. ASSUME NEW f \in Families PROVE kv'[f] \subseteq kv[f] /\ (f \in Kept(d) => kv'[f] = kv[f])
  <2>1. CASE kv' = WithoutFamilies(kv, PrunePlan(d).retire)
    <3>1. kv'[f] \subseteq kv[f]
      BY <2>1 DEF WithoutFamilies
    <3> QED BY <1>1, <2>1, <3>1, PruneSparesKept
  <2> QED BY <2>1 DEF PruneDrop
<1>3. Keeps(kv', manifests')
  <2> SUFFICES ASSUME OtherLive(manifests) = {}, Primary(manifests).prev # NoFamily
               PROVE  Complete(kv', Primary(manifests).prev)
    BY <1>1 DEF Keeps
  <2>1. Primary(manifests).prev \in Families /\ Primary(manifests).prev \in Kept(d)
    BY <1>1, PrimaryType DEF PruneRestores, Rollback, Manifest, Families, NoFamily
  <2> QED BY <1>1, <1>2, <2>1 DEF Keeps, Complete
<1>4. ASSUME NEW c \in Coordinators PROVE RunRestores(c)'
  <2>1. /\ RunRestores(c) /\ FitsPhase(c) /\ co[c] \in Runs /\ slice[c] \in Slices
    BY TypedParts DEF Safe, Restores
  <2>2. Republishes(c)' => Republishes(c)
    BY <1>1 DEF Republishes, MayGoOn, Resting, Superseded
  <2>3. ASSUME NEW m \in Manifest, Restorable(m), m.prev \in Kept(d) PROVE Restorable(m)'
    <3>1. m.prev # NoFamily => m.prev \in Families
      BY <2>3 DEF Manifest, Families, NoFamily
    <3> QED BY <1>2, <2>3, <3>1 DEF Restorable, Complete
  <2>4. Republishes(c) => Restorable(Primary(manifests))'
    BY <1>1, <2>1, <2>3, PrimaryType DEF RunRestores, PruneRestores
  <2>5. slice[c].pc \in {"check", "fence", "commit", "mirror"} => Restorable(MyManifest(c))'
    <3> SUFFICES ASSUME slice[c].pc \in {"check", "fence", "commit", "mirror"} PROVE Restorable(MyManifest(c))'
      OBVIOUS
    <3>1. co[c].built \in Families /\ co[c].fmt \in Formats
      BY <2>1 DEF FitsPhase, Runs, Families, NoFamily
    <3>2. MyManifest(c) \in Manifest /\ Restorable(MyManifest(c))
      BY <2>1, <3>1, ManifestIs DEF MyManifest, Slices, RunRestores
    <3>3. MyManifest(c).prev \in Kept(d)
      BY <1>1, WritesSeen DEF Kept, PruneRestores
    <3>4. MyManifest(c)' = MyManifest(c)
      BY <1>1 DEF MyManifest
    <3> QED BY <2>3, <3>2, <3>3, <3>4 DEF Restorable
  <2>6. co[c].phase = "routing" /\ ~co[c].held => kv'[co[c].built] = {}
    <3>1. co[c].phase = "routing" => co[c].built \in Families
      BY <2>1 DEF FitsPhase, Runs, Families, NoFamily
    <3> QED BY <1>2, <2>1, <3>1 DEF RunRestores
  <2>7. Primary(manifests)' = Primary(manifests) /\ MyManifest(c)' = MyManifest(c)
    BY <1>1 DEF MyManifest
  <2> QED BY <1>1, <2>1, <2>2, <2>4, <2>5, <2>6, <2>7 DEF RunRestores, SameView, SameRoles, Own
<1> QED BY <1>2, <1>3, <1>4

\* What the sweep knows once it has read the manifests.
LEMMA ReadsRoles ==
    ASSUME LatestFormat = 1, Safe, Restores, NEW d \in Deploys, PruneReadManifests(d), prep'[d].pc \in {"lease", "drop"}
    PROVE  PruneRestores(d)'
<1>1. prep \in [Deploys -> Preparations] /\ UNCHANGED <<manifests, co, slice, pointer, fence, waits>>
      /\ manifests \in Published /\ \A c \in Coordinators : co[c] \in Runs
  BY TypedParts DEF PruneReadManifests, Safe, kvVars
<1>2. prep' = [prep EXCEPT ![d].pc = "lease", ![d].seen = manifests, ![d].holder = lease.built]
  <2>1. ~PruneOver(d)
    BY <1>1 DEF PruneOver, Preparations
  <2> QED BY <2>1 DEF PruneReadManifests
<1>3. prep'[d].pc = "lease" /\ prep'[d].seen = manifests
  BY <1>1, <1>2 DEF Preparations
<1>4. Rollback(manifests) \in {Primary(manifests).prev, NoFamily}
  BY RollbackOf
<1>5. ASSUME NEW c \in Coordinators, Republishes(c)' PROVE co[c].built \in LiveFamilies(manifests)
  <2>1. co[c].phase = "manifest" /\ Primary(manifests).built = co[c].built /\ FitsPhase(c)
    BY <1>1, <1>5, TypedParts DEF Republishes, Safe
  <2>2. co[c].built # NoFamily
    BY <2>1 DEF FitsPhase
  <2> QED BY <1>1, <2>1, <2>2, PrimaryExists, NoneLive DEF LiveFamilies
<1> QED BY <1>1, <1>3, <1>4, <1>5 DEF PruneRestores

\* And the lease: with nothing overlooked, it keeps the rollback.
LEMMA ReadsLease ==
    ASSUME LatestFormat = 1, Safe, Restores, NEW d \in Deploys, PruneReadLease(d), astray' = {},
           prep'[d].pc \in {"lease", "drop"}
    PROVE  PruneRestores(d)'
<1> DEFINE seen == prep[d].seen
           p == Primary(seen).prev
           flight == InFlight(lease.built, seen)
           counted == ({Primary(seen).built, flight} \cup OtherLive(seen)) \ {NoFamily}
<1>1. /\ prep \in [Deploys -> Preparations] /\ UNCHANGED <<manifests, co, slice, pointer, fence, waits>>
      /\ manifests \in Published /\ seen \in Published /\ prep[d].pc = "lease" /\ PruneRestores(d)
      /\ \A c \in Coordinators : co[c] \in Runs /\ FitsPhase(c) /\ GivesUp(c)
  BY TypedParts DEF PruneReadLease, Safe, Restores, kvVars, Preparations
<1>2. prep' = [prep EXCEPT ![d].pc = "drop", ![d].holder = lease.built] /\ Overlooked(d) = {}
  <2>1. ~PruneOver(d)
    BY <1>1 DEF PruneOver, Preparations
  <2> QED BY <2>1 DEF PruneReadLease
<1>3. prep'[d].pc = "drop" /\ prep'[d].seen = seen /\ prep'[d].holder = lease.built
  BY <1>1, <1>2 DEF Preparations
<1>f. Cardinality(counted \cup {p}) \in Nat
  <2> DEFINE T == counted \cup {p}
             built == Primary(seen).built
  <2>1. T \in SUBSET (LiveFamilies(seen) \cup {built, flight, p})
    BY DEF OtherLive
  <2> HIDE DEF T, built, flight, p
  <2>2. IsFiniteSet(T)
    BY <1>1, <2>1, RolesFinite
  <2>3. Cardinality(T) \in Nat
    BY <2>2, FS_CardinalityType
  <2> QED BY <2>3 DEF T
<1>4. /\ LiveFamilies(seen) \cup {lease.built, NoFamily} \subseteq Kept(d)'
      /\ Cardinality(counted \cup {p}) <= 3 => p \in Kept(d)'
  <2>1. Kept(d)' = LiveFamilies(seen) \cup {lease.built, RoleSeen(d)', NoFamily}
    BY <1>3 DEF Kept
  <2>2. RoleSeen(d)' = IF Cardinality(counted \cup {p}) > 3 THEN NoFamily ELSE p
    BY <1>3 DEF RoleSeen, NamedSeen, HolderSeen
  <2>3. Cardinality(counted \cup {p}) \in Nat
    BY <1>f
  <2> DEFINE few == Cardinality(counted \cup {p})
  <2>4. RoleSeen(d)' = IF few > 3 THEN NoFamily ELSE p
    BY <2>2
  <2>5. few \in Nat
    BY <2>3
  <2> HIDE DEF few
  <2>6. few <= 3 => RoleSeen(d)' = p
    BY <2>4, <2>5
  <2> QED BY <2>1, <2>6 DEF few
<1>5. Rollback(manifests) \in Kept(d)'
  <2> DEFINE rb == RollbackFor(Primary(seen), Present(kv), flight, OtherLive(seen))
             role == RollbackRole(kv, seen, flight)
  <2>1. Rollback(manifests) \in LiveFamilies(seen) \cup {lease.built, NoFamily} \/ Rollback(manifests) = role
    BY <1>2 DEF Overlooked
  <2>2. CASE /\ Rollback(manifests) = role
             /\ Rollback(manifests) \notin LiveFamilies(seen) \cup {lease.built, NoFamily}
    <3>1. Rollback(manifests) = p
      BY <1>1, <2>2 DEF PruneRestores
    <3>2. role = IF rb \in counted \/ Cardinality(counted \cup {rb}) > 3 THEN NoFamily ELSE rb
      BY DEF RollbackRole
    <3>3. rb = p /\ ~(Cardinality(counted \cup {p}) > 3)
      <4> HIDE DEF rb, role, counted, p
      <4>1. role = rb /\ ~(Cardinality(counted \cup {rb}) > 3)
        BY <2>2, <3>2
      <4> QED BY <2>2, <3>1, <4>1
    <3>4. Cardinality(counted \cup {p}) <= 3
      BY <1>f, <3>3
    <3> QED BY <1>4, <3>1, <3>4
  <2> QED BY <1>4, <2>1, <2>2
<1>6. ASSUME NEW c \in Coordinators, Republishes(c)' PROVE Primary(manifests).prev \in Kept(d)'
  <2>1. Republishes(c) /\ co[c].phase = "manifest" /\ co[c].built # NoFamily /\ Primary(manifests).built = co[c].built
    BY <1>1, <1>6 DEF Republishes, MayGoOn, Resting, Superseded, FitsPhase
  <2>2. lease.built \in {co[c].built, NoFamily}
    <3>1. co[c].built \in LiveFamilies(manifests)
      BY <1>1, <2>1, PrimaryExists, NoneLive DEF LiveFamilies
    <3> QED BY <1>1, <2>1, <3>1 DEF GivesUp, HasPublished, Republishes
  <2>3. CASE Primary(manifests).prev \in LiveFamilies(seen) \cup {NoFamily}
    BY <1>4, <2>3
  <2>4. CASE Primary(manifests).prev = p /\ co[c].built \in LiveFamilies(seen)
    <3>1. flight = NoFamily
      BY <2>2, <2>4 DEF InFlight
    <3>2. Primary(seen).built \in LiveFamilies(seen)
      BY <1>1, <2>4, PrimaryExists, NoneLive DEF LiveFamilies
    <3>3. LiveFamilies(seen) \subseteq {seen[Only].built, seen[Legacy].built}
      BY OneFormat DEF LiveFamilies
    <3>4. counted \cup {p} \subseteq {seen[Only].built, seen[Legacy].built, p}
      BY <3>1, <3>2, <3>3 DEF OtherLive
    <3>5. Cardinality(counted \cup {p}) <= 3
      <4>1. /\ IsFiniteSet({seen[Only].built, seen[Legacy].built, p})
            /\ Cardinality({seen[Only].built, seen[Legacy].built, p}) <= 3
        BY AtMostThree
      <4>2. /\ IsFiniteSet(counted \cup {p})
            /\ Cardinality(counted \cup {p}) <= Cardinality({seen[Only].built, seen[Legacy].built, p})
        BY <3>4, <4>1, FS_Subset
      <4>3. Cardinality(counted \cup {p}) \in Nat /\ Cardinality({seen[Only].built, seen[Legacy].built, p}) \in Nat
        BY <4>1, <4>2, FS_CardinalityType
      <4> QED BY <4>1, <4>2, <4>3
    <3> QED BY <1>4, <2>4, <3>5
  <2> QED BY <1>1, <2>1, <2>3, <2>4 DEF PruneRestores
<1>7. ASSUME NEW c \in Coordinators, InItsWay(c, d)'
      PROVE  LiveFamilies(manifests) \subseteq LiveFamilies(seen) \cup {co[c].built}
  <2>1. InItsWay(c, d)
    BY <1>1, <1>7 DEF InItsWay, MayGoOn, Resting, Superseded
  <2> QED BY <1>1, <2>1 DEF PruneRestores
<1> QED BY <1>1, <1>3, <1>5, <1>6, <1>7 DEF PruneRestores

\* A deploy's step before its fence, when nothing goes astray with it.
LEMMA PrepareRestores ==
    ASSUME SerialDeploys, LatestFormat = 1, Safe, Restores, NEW d \in Deploys, Prepare(d), astray' = {}
    PROVE  Restores'
<1>1. /\ UNCHANGED <<lease, pointer, fence, builds, co, slice, dep>> /\ Typed /\ PreparedFirst
      /\ manifests' = manifests \/ EnsureCopy(d)
      /\ kv' = kv \/ PruneDrop(d)
  BY PrepareQuiet DEF Safe, WritersExclude
<1>2. /\ dep[d].pc = "off" /\ \A e \in Deploys \ {d} : ~UnderWay(e) /\ prep'[e] = prep[e]
  BY PrepareUnderWay
<1>3. /\ astray = {} /\ Keeps(kv, manifests) /\ Stamped /\ Named(manifests)
      /\ \A c \in Coordinators : RunRestores(c) /\ GivesUp(c) /\ FitsPhase(c)
      /\ \A e \in Deploys : JobRestores(e) /\ PruneRestores(e)
  BY TypedParts DEF Safe, Restores
<1>4. manifests' = manifests \/ (RolesKept /\ Named(manifests') /\ kv' = kv /\ Own.built = NoFamily)
  BY CopyKeepsRoles
<1>5. LiveFamilies(manifests') = LiveFamilies(manifests) /\ Primary(manifests') = Primary(manifests)
  BY <1>4 DEF RolesKept, SameRoles
<1>6. \A f \in Families : kv'[f] \subseteq kv[f]
  BY <1>1, PruneKeepsRollback
<1>7. Keeps(kv', manifests') /\ \A c \in Coordinators : RunRestores(c)'
  <2>1. CASE kv' = kv
    <3>1. Keeps(kv', manifests')
      BY <1>3, <1>5, <2>1 DEF Keeps, OtherLive
    <3>2. ASSUME NEW c \in Coordinators PROVE RunRestores(c)'
      <4>1. RunRestores(c) /\ FitsPhase(c) /\ MyManifest(c).built = co[c].built
        BY <1>3 DEF MyManifest, NextManifest
      <4>2. manifests' # manifests => slice[c].pc \notin {"mirror", "release", "roles"}
        <5>1. slice[c].pc \in {"mirror", "release", "roles"} => co[c].built # NoFamily
          BY <4>1 DEF FitsPhase
        <5> QED BY <1>4, <4>1, <5>1 DEF RunRestores
      <4>3. MyManifest(c)' = MyManifest(c) /\ (Republishes(c)' <=> Republishes(c))
        BY <1>1, <1>5 DEF MyManifest, Republishes, MayGoOn, Resting, Superseded
      <4>4. (SameView(slice[c].seen) => SameView(slice[c].seen)')
        BY <1>1, <1>5 DEF SameView, SameRoles
      <4>5. /\ Restorable(MyManifest(c))' <=> Restorable(MyManifest(c))
            /\ Restorable(Primary(manifests))' <=> Restorable(Primary(manifests))
        BY <1>5, <2>1, <4>3 DEF Restorable
      <4>6. Own' = Own \/ manifests' # manifests
        BY DEF Own
      <4> QED BY <1>1, <1>5, <2>1, <4>1, <4>2, <4>3, <4>4, <4>5, <4>6 DEF RunRestores
    <3> QED BY <3>1, <3>2
  <2> QED BY <1>1, <2>1, PruneKeepsRollback
<1>8. Stamped' /\ Named(manifests)'
  <2>1. ASSUME NEW f \in Families, f > builds PROVE kv'[f] = {}
    BY <1>3, <1>6, <2>1 DEF Stamped
  <2> QED BY <1>1, <1>3, <1>4, <1>5, <2>1 DEF Stamped, Named
<1>9. ASSUME NEW e \in Deploys PROVE JobRestores(e)'
  <2>1. dep[e].pc \in {"off", "done", "dead"}
    BY <1>2 DEF UnderWay, Active
  <2> QED BY <1>1, <1>3, <2>1 DEF JobRestores, Early
<1>10. ASSUME NEW e \in Deploys PROVE PruneRestores(e)'
  <2>1. CASE e # d
    <3>1. prep'[e] = prep[e] /\ prep[e].pc \notin {"lease", "drop"}
      BY <1>1, <1>2, <2>1 DEF UnderWay, Active, Preparing, PreparedFirst
    <3> QED BY <3>1 DEF PruneRestores
  <2>2. CASE e = d /\ prep'[d].pc \in {"lease", "drop"}
    BY <1>1, <2>2, PruneReads, ReadsRoles, ReadsLease
  <2>3. CASE e = d /\ prep'[d].pc \notin {"lease", "drop"}
    BY <2>3 DEF PruneRestores
  <2> QED BY <2>1, <2>2, <2>3
<1>11. ASSUME NEW c \in Coordinators PROVE GivesUp(c)'
  BY <1>1, <1>3, <1>5 DEF GivesUp, HasPublished, MayGoOn, Resting, Superseded
<1> QED BY <1>7, <1>8, <1>9, <1>10, <1>11 DEF Restores

\* The deploy behind its fence has its own preparation over, and is alone.
LEMMA JobSparesSweeps ==
    ASSUME Safe, NEW d \in Deploys, Deploy(d), NEW e \in Deploys
    PROVE  PruneRestores(e)'
<1>1. prep' = prep /\ PreparedFirst /\ OneDeploy /\ UnderWay(d) /\ prep[d].pc = "ready"
  BY DeployKeepsPreparations, DeployUnderWay DEF Safe, WritersExclude
<1>2. prep[e].pc \notin {"lease", "drop"}
  BY <1>1 DEF PreparedFirst, OneDeploy, UnderWay, Active, Preparing
<1> QED BY <1>1, <1>2 DEF PruneRestores

LEMMA ElsewhereRestores ==
    ASSUME Safe, Restores, Failover \/ LeaseExpires \/ UNCHANGED vars
    PROVE  Restores'
<1>1. Typed /\ UNCHANGED <<kv, manifests, code, fence, builds, co, slice, dep, prep, astray, waits>>
  BY ElsewhereQuiet DEF Safe, Failover, LeaseExpires, vars
<1>2. Keeps(kv', manifests') /\ Stamped' /\ Named(manifests)'
  BY <1>1 DEF Restores, Stamped, Named
<1>3. ASSUME NEW d \in Deploys PROVE JobRestores(d)'
  <2>1. JobRestores(d)
    BY DEF Restores
  <2> QED BY <1>1, <2>1 DEF JobRestores, DeployManifest, Restorable, SameView, SameRoles, Own
<1>4. ASSUME NEW c \in Coordinators PROVE (MayGoOn(c)' => MayGoOn(c)) /\ (Resting(c)' <=> Resting(c))
  <2>1. Superseded(c) => Superseded(c)'
    <3>1. pointer' = pointer \/ pointer' = pointer + 1
      BY DEF Failover, LeaseExpires, vars
    <3> QED BY <1>1, <3>1, StaysReplaced
  <2> QED BY <1>1, <2>1 DEF MayGoOn, Resting
<1>5. ASSUME NEW c \in Coordinators PROVE RunRestores(c)' /\ GivesUp(c)'
  <2>1. RunRestores(c) /\ GivesUp(c)
    BY DEF Restores
  <2>2. RunRestores(c)'
    BY <1>1, <1>4, <2>1 DEF RunRestores, Republishes, MyManifest, Restorable, SameView, SameRoles, Own
  <2>3. lease' = lease \/ lease' = NoLease
    BY DEF Failover, LeaseExpires, vars, kvVars
  <2> QED BY <1>1, <1>4, <2>1, <2>2, <2>3 DEF GivesUp, HasPublished, NoLease
<1>6. ASSUME NEW d \in Deploys PROVE PruneRestores(d)'
  <2>1. PruneRestores(d)
    BY DEF Restores
  <2>2. ASSUME NEW c \in Coordinators
        PROVE (InItsWay(c, d)' => InItsWay(c, d)) /\ (Republishes(c)' => Republishes(c))
    BY <1>1, <1>4 DEF InItsWay, Republishes
  <2>3. Kept(d)' = Kept(d)
    BY <1>1 DEF Kept, RoleSeen, NamedSeen, HolderSeen
  <2> QED BY <1>1, <2>1, <2>2, <2>3 DEF PruneRestores
<1>7. astray' = {}
  BY <1>1 DEF Restores
<1> QED BY <1>2, <1>3, <1>5, <1>6, <1>7 DEF Restores

\* What is astray stays so, and while nothing is every step restores.
LEMMA RestoresStep ==
    ASSUME Prompt, SerialDeploys, ~FenceReadsFail, LatestFormat = 1, Tight
    PROVE  Safe /\ (astray = {} => Restores) /\ [Next]_vars => (astray = {} => Restores)'
<1> SUFFICES ASSUME Safe, astray = {} => Restores, [Next]_vars, astray' = {} PROVE Restores'
  OBVIOUS
<1>1. ASSUME NEW c \in Coordinators, Run(c) PROVE Restores'
  <2>1. Restores
    BY <1>1, RunKeepsPreparations
  <2>2. Keeps(kv', manifests') /\ Stamped' /\ Named(manifests')
    BY <1>1, <2>1, RunKeepsRollback, RunStamps
  <2>3. \A e \in Coordinators : RunRestores(e)' /\ GivesUp(e)'
    BY <1>1, <2>1, OwnRestores, OtherRestores, RunGivesUp
  <2>4. \A d \in Deploys : JobRestores(d)' /\ PruneRestores(d)'
    BY <1>1, <2>1, RunSparesJobs, RunSparesSweeps
  <2> QED BY <2>2, <2>3, <2>4 DEF Restores, Named
<1>2. ASSUME NEW d \in Deploys, Deploy(d) PROVE Restores'
  <2>1. Restores
    BY <1>2, DeployKeepsPreparations
  <2>2. Keeps(kv', manifests') /\ Stamped' /\ Named(manifests')
    BY <1>2, <2>1, JobKeepsRollback, JobStamps
  <2>3. \A c \in Coordinators : RunRestores(c)' /\ GivesUp(c)'
    BY <1>2, <2>1, JobSparesRuns, JobGivesUp
  <2>4. \A e \in Deploys : JobRestores(e)' /\ PruneRestores(e)'
    BY <1>2, <2>1, OwnJob, OtherJobs, JobSparesSweeps
  <2> QED BY <2>2, <2>3, <2>4 DEF Restores, Named
<1>3. ASSUME NEW d \in Deploys, Prepare(d) PROVE Restores'
  <2>1. astray \subseteq astray'
    BY <1>3, PrepareSpares
  <2> QED BY <1>3, <2>1, PrepareRestores
<1>4. CASE Failover \/ LeaseExpires \/ UNCHANGED vars
  <2>1. Restores
    BY <1>4, ElsewhereQuiet
  <2> QED BY <1>4, <2>1, ElsewhereRestores
<1> QED BY <1>1, <1>2, <1>3, <1>4 DEF Next

LEMMA RestoresInit ==
    ASSUME LatestFormat = 1
    PROVE  Init => Restores
<1> SUFFICES ASSUME Init PROVE Restores
  OBVIOUS
<1> DEFINE live == [built |-> 2, fmt |-> code, prev |-> 1]
<1>1. PICK keys \in {{Legacy}, {Legacy, code}} :
        manifests = [k \in ManifestKeys |-> IF k \in keys /\ ~EmptyStart THEN live ELSE NoManifest]
  BY DEF Init
<1>2. code \in Formats /\ Typed /\ manifests \in Published
  BY TypedInit, TypedParts DEF Init
<1>3. ASSUME NEW k \in ManifestKeys
      PROVE  manifests[k] = NoManifest \/ (manifests[k] = live /\ ~EmptyStart)
  BY <1>1
<1>4. NoManifest.built = NoFamily /\ NoManifest.prev = NoFamily /\ NoFamily = 0
  BY DEF NoManifest, NoFamily
<1>5. Named(manifests)
  BY <1>2, <1>3, <1>4 DEF Named
<1>6. Primary(manifests) \in {NoManifest, live}
  BY <1>2, <1>3, <1>5, OnePrimary, OneFormat
<1>7. Keeps(kv, manifests)
  <2>1. ASSUME Primary(manifests).prev # NoFamily PROVE Complete(kv, Primary(manifests).prev)
    <3>1. Primary(manifests) = live /\ ~EmptyStart
      <4>1. Primary(manifests) = live
        BY <1>4, <1>6, <2>1
      <4>2. \E k \in ManifestKeys : manifests[k].built # NoFamily
        BY <1>2, <1>4, <4>1, <1>5, OnePrimary, OneFormat
      <4> QED BY <1>3, <1>4, <4>1, <4>2
    <3>2. 1 \in Families /\ 1 \in 1..builds
      BY <3>1, MaxBuildsAssumption, CasesAssumption DEF Init, Families
    <3>3. kv[1] = FamilyKeys
      BY <3>2 DEF Init
    <3> QED BY <3>1, <3>3 DEF Complete, FamilyKeys
  <2> QED BY <2>1 DEF Keeps
<1>8. Stamped
  <2>1. ASSUME NEW f \in LiveFamilies(manifests) PROVE f <= builds
    <3>1. PICK k \in ManifestKeys : f = manifests[k].built /\ f # NoFamily
      BY DEF LiveFamilies
    <3>2. f = 2 /\ builds = 2
      BY <1>3, <1>4, <3>1 DEF Init
    <3> QED BY <3>2
  <2>2. ASSUME NEW f \in Families, f > builds PROVE kv[f] = {}
    <3>1. f \notin 1..builds
      BY <2>2, MaxBuildsAssumption DEF Families, Init
    <3> QED BY <3>1 DEF Init
  <2> QED BY <2>1, <2>2 DEF Stamped
<1>9. ASSUME NEW c \in Coordinators PROVE RunRestores(c) /\ GivesUp(c)
  <2>1. slice[c].pc = "rest" /\ co[c].phase = "idle"
    BY DEF Init, IdleRun, AtRest
  <2> QED BY <2>1 DEF RunRestores, Republishes, MayGoOn, GivesUp, HasPublished
<1>10. ASSUME NEW d \in Deploys PROVE JobRestores(d) /\ PruneRestores(d)
  <2>1. dep[d].pc = "off" /\ dep[d].replaced = NoManifest /\ prep[d].pc = "off"
    BY DEF Init, NotStarted, Unprepared
  <2> QED BY <2>1 DEF JobRestores, PruneRestores, Early
<1>11. astray = {}
  BY DEF Init
<1> QED BY <1>5, <1>7, <1>8, <1>9, <1>10, <1>11 DEF Restores

\* While one store is live and no family went astray, the store it replaced is
\* still whole, so a publish can be rolled back (planRetention's rollback role):
\* with one archive format, through uploads, failovers, kills, deploys, their
\* unleased sweeps and failing cleanups, as long as two whole families and the
\* run's estimate of a third fit under the byte guard.
THEOREM RollbackStays ==
    ASSUME Prompt, SerialDeploys, ~FenceReadsFail, LatestFormat = 1,
           2 * (Chunks + 1) + (Chunks * 11 + 9) \div 10 <= KvLimit
    PROVE  Spec => [](astray = {} => RollbackKept)
<1>1. (astray = {} => Restores) => (astray = {} => RollbackKept)
  BY DEF Restores, RollbackKept, Rollback, Keeps, Whole
<1>2. Safe /\ (astray = {} => Restores) /\ [Next]_vars => (astray = {} => Restores)'
  BY RestoresStep DEF Tight
<1>3. Init => (astray = {} => Restores)
  BY RestoresInit
<1> QED BY <1>1, <1>2, <1>3, SafeInit, SafeStep, PTL DEF Spec
=============================================================================
