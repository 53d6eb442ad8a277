------------------------ MODULE StorePublish_proofs ------------------------
(***************************************************************************)
(* The retention decisions and the types of StorePublish, for every number *)
(* of builds, formats, chunks, coordinators and deploys, and whatever may  *)
(* fail.                                                                   *)
(***************************************************************************)
EXTENDS StorePublish, FiniteSetTheorems, WellFoundedInduction, TLAPS

-----------------------------------------------------------------------------
(***************************************************************************)
(* The retention decisions: what a plan keeps and makes room for, and what *)
(* retiring an archive format leaves published.                            *)
(***************************************************************************)
\* A nonempty set of naturals with an upper bound has a greatest element.
LEMMA GreatestExists ==
    ASSUME NEW n \in Nat, NEW T, T \subseteq 0..n, T # {}
    PROVE  \E m \in T : \A x \in T : x <= m
<1> DEFINE D == {n - x : x \in T}
<1>1. D \subseteq Nat /\ D # {}
  <2>1. \A x \in T : n - x \in Nat
    OBVIOUS
  <2> QED BY <2>1
<1>2. \E e \in D : \A y \in D : ~ (<<y, e>> \in OpToRel(<, Nat))
  BY <1>1, WFMin, NatLessThanWellFounded
<1>3. PICK e \in D : \A y \in D : ~ (y < e)
  BY <1>1, <1>2 DEF OpToRel
<1>4. PICK m \in T : e = n - m
  BY <1>3
<1>5. ASSUME NEW x \in T PROVE x <= m
  <2>1. n - x \in D
    OBVIOUS
  <2>2. ~(n - x < n - m)
    BY <2>1, <1>3, <1>4
  <2>3. x \in Int /\ m \in Int
    OBVIOUS
  <2> QED BY ONLY <2>2, <2>3, n \in Nat
<1> QED BY <1>5

\* liveManifestRoles has an answer: some usable manifest sorts before every other.
LEMMA PrimaryExists ==
    ASSUME NEW pub \in Published, LiveFamilies(pub) # {}
    PROVE  \E k \in ManifestKeys : pub[k].built # NoFamily /\ Primary(pub) = pub[k]
<1> USE FormatsAssumption, MaxBuildsAssumption
<1> DEFINE usable == {k \in ManifestKeys : pub[k].built # NoFamily}
<1>1. usable # {}
  BY DEF LiveFamilies
<1>2. \A k \in ManifestKeys : pub[k].fmt \in 0..LatestFormat /\ pub[k].built \in 0..MaxBuilds
  BY DEF Published, Manifest, Formats
<1>3. PICK a \in usable : \A k \in usable : pub[k].fmt <= pub[a].fmt
  <2> DEFINE T == {pub[k].fmt : k \in usable}
  <2>1. T \subseteq 0..LatestFormat /\ T # {}
    BY <1>1, <1>2
  <2> HIDE DEF T
  <2>2. PICK m \in T : \A x \in T : x <= m
    BY <2>1, GreatestExists
  <2> QED BY <2>2 DEF T
<1> DEFINE newest == {k \in usable : pub[k].fmt = pub[a].fmt}
           best == IF newest = {Legacy} THEN newest ELSE newest \ {Legacy}
<1>4. best # {} /\ best \subseteq usable
  BY <1>3
<1>5. PICK b \in best : \A k \in best : pub[k].built <= pub[b].built
  <2> DEFINE T == {pub[k].built : k \in best}
  <2>1. T \subseteq 0..MaxBuilds /\ T # {}
    BY <1>4, <1>2
  <2> HIDE DEF T
  <2>2. PICK m \in T : \A x \in T : x <= m
    BY <2>1, GreatestExists
  <2> QED BY <2>2 DEF T
<1>6. \A k \in usable : ~SortsBefore(pub, k, b)
  <2> TAKE k \in usable
  <2>1. pub[b].fmt = pub[a].fmt /\ pub[k].fmt <= pub[b].fmt
    BY <1>3, <1>5
  <2>2. CASE k \notin newest
    BY <2>1, <2>2, <1>2, <1>4, <1>5 DEF SortsBefore
  <2>3. CASE k \in newest /\ k \notin best
    BY <2>1, <2>3, <1>2, <1>4, <1>5 DEF SortsBefore
  <2>4. CASE k \in best
    BY <2>1, <2>4, <1>2, <1>4, <1>5 DEF SortsBefore
  <2> QED BY <2>2, <2>3, <2>4
<1>7. b \in usable
  BY <1>4, <1>5
<1> DEFINE j == CHOOSE i \in usable : \A k \in usable : ~SortsBefore(pub, k, i)
<1>8. j \in usable
  BY <1>6, <1>7
<1>9. Primary(pub) = pub[j]
  BY <1>1 DEF Primary
<1> QED BY <1>8, <1>9

LEMMA NoneLive ==
    ASSUME NEW pub \in Published
    PROVE  (Primary(pub).built = NoFamily) <=> (LiveFamilies(pub) = {})
<1>1. CASE LiveFamilies(pub) = {}
  <2>1. {k \in ManifestKeys : pub[k].built # NoFamily} = {}
    BY <1>1 DEF LiveFamilies
  <2>2. Primary(pub) = NoManifest
    BY <2>1 DEF Primary
  <2> QED BY <1>1, <2>2 DEF NoManifest
<1>2. CASE LiveFamilies(pub) # {}
  BY <1>2, PrimaryExists
<1> QED BY <1>1, <1>2

LEMMA NoManifestType == NoManifest \in Manifest
  BY MaxBuildsAssumption DEF NoManifest, Manifest, NoFamily

LEMMA PrimaryType ==
    ASSUME NEW pub \in Published
    PROVE  Primary(pub) \in Manifest
<1>1. CASE LiveFamilies(pub) = {}
  <2>1. {k \in ManifestKeys : pub[k].built # NoFamily} = {}
    BY <1>1 DEF LiveFamilies
  <2>2. Primary(pub) = NoManifest
    BY <2>1 DEF Primary
  <2> QED BY <2>2, NoManifestType
<1>2. CASE LiveFamilies(pub) # {}
  BY <1>2, PrimaryExists DEF Published
<1> QED BY <1>1, <1>2

LEMMA ReplacedManifestType ==
    ASSUME NEW pub \in Published, NEW f \in Formats
    PROVE  ReplacedManifest(pub, f) \in Manifest
BY PrimaryType DEF ReplacedManifest, Published, ManifestKeys

LEMMA NextManifestType ==
    ASSUME NEW b \in 0..MaxBuilds, NEW f \in Formats \cup {0}, NEW m \in Manifest
    PROVE  NextManifest(b, f, m) \in Manifest /\ NextManifest(b, f, m).built = b
BY DEF NextManifest, Manifest

\* Retiring older formats: the manifests stay well formed, the retiring format's
\* own is untouched, no family becomes live, and something stays published.
LEMMA RetirementLemma ==
    ASSUME NEW pub \in Published, NEW f \in Formats
    PROVE  /\ RetireOlderFormats(pub, f) \in Published
           /\ RetireOlderFormats(pub, f)[f] = pub[f]
           /\ \A k \in ManifestKeys :
                 RetireOlderFormats(pub, f)[k] \in {pub[k], NoManifest, pub[f]}
           /\ RetireOlderFormats(pub, f)[Legacy] \in {pub[Legacy], pub[f]}
           /\ LiveFamilies(RetireOlderFormats(pub, f)) \subseteq LiveFamilies(pub)
           /\ pub[f].built = NoFamily => RetireOlderFormats(pub, f) = pub
<1> DEFINE after == RetireOlderFormats(pub, f)
<1>1. CASE pub[f].built = NoFamily
  BY <1>1 DEF RetireOlderFormats, LiveFamilies, Published
<1>2. CASE pub[f].built # NoFamily
  <2>1. f \in ManifestKeys /\ f # Legacy /\ f \in Nat
    BY FormatsAssumption DEF ManifestKeys, Formats, Legacy
  <2>2. after = [k \in ManifestKeys |->
            CASE k = Legacy -> IF pub[k].fmt < f THEN pub[f] ELSE pub[k]
              [] OTHER      -> IF k < f THEN NoManifest ELSE pub[k]]
    BY <1>2 DEF RetireOlderFormats
  <2> HIDE DEF after
  <2>3. \A k \in ManifestKeys : pub[k] \in Manifest
    BY DEF Published
  <2>4. after \in Published
    BY <2>1, <2>2, <2>3, NoManifestType DEF Published
  <2>5. after[f] = pub[f]
    BY <2>1, <2>2
  <2>6. \A k \in ManifestKeys : after[k] \in {pub[k], NoManifest, pub[f]}
    BY <2>2
  <2>7. after[Legacy] \in {pub[Legacy], pub[f]}
    BY <2>2 DEF ManifestKeys
  <2>8. LiveFamilies(after) \subseteq LiveFamilies(pub)
    BY <2>1, <2>6 DEF LiveFamilies, NoManifest
  <2> QED BY <1>2, <2>4, <2>5, <2>6, <2>7, <2>8 DEF after
<1> QED BY <1>1, <1>2

\* Every live family but the primary's is among the others the plan keeps.
LEMMA LiveSplit ==
    ASSUME NEW pub
    PROVE  LiveFamilies(pub) \subseteq {Primary(pub).built} \cup OtherLive(pub)
BY DEF OtherLive

\* The rollback role is nobody else's: dropping it never costs a live family.
LEMMA RollbackIsNotLive ==
    ASSUME NEW store, NEW pub, NEW inFlight
    PROVE  /\ RollbackRole(store, pub, inFlight) \notin LiveFamilies(pub)
           /\ RollbackRole(store, pub, inFlight) \in {inFlight} => inFlight = NoFamily
<1> DEFINE live == Primary(pub)
           others == OtherLive(pub)
           rb == RollbackFor(live, Present(store), inFlight, others)
           named == ({live.built, inFlight} \cup others) \ {NoFamily}
<1>1. RollbackRole(store, pub, inFlight) =
         IF rb \in named \/ Cardinality(named \cup {rb}) > 3 THEN NoFamily ELSE rb
  BY DEF RollbackRole
<1>2. NoFamily \notin LiveFamilies(pub)
  BY DEF LiveFamilies
<1>3. LiveFamilies(pub) \subseteq named
  BY <1>2, LiveSplit
<1>4. RollbackRole(store, pub, inFlight) = NoFamily \/ RollbackRole(store, pub, inFlight) \notin named
  BY <1>1
<1> HIDE DEF rb, named
<1> QED
  <2>1. inFlight # NoFamily => inFlight \in named
    BY DEF named
  <2> QED BY <1>2, <1>3, <1>4, <2>1

\* The heart of retention by role: no plan, with or without the byte guard,
\* retires a family that a live manifest names or that is in flight.
THEOREM PlanSparesRoles ==
    ASSUME NEW store, NEW pub, NEW inFlight, NEW incoming
    PROVE  LET retire == PlanRetention(store, pub, inFlight, incoming).retire
           IN  /\ retire \cap LiveFamilies(pub) = {}
               /\ inFlight # NoFamily => inFlight \notin retire
<1> DEFINE rb == RollbackRole(store, pub, inFlight)
           kept == LiveFamilies(pub) \cup {rb, inFlight}
           orphan == IF Primary(pub).built = NoFamily THEN {} ELSE Present(store) \ kept
           retire == PlanRetention(store, pub, inFlight, incoming).retire
<1>1. retire = orphan \/ retire = orphan \cup {rb}
  BY DEF PlanRetention
<1>2. orphan \cap LiveFamilies(pub) = {} /\ inFlight \notin orphan
  OBVIOUS
<1>3. rb \notin LiveFamilies(pub) /\ (rb = inFlight => inFlight = NoFamily)
  BY RollbackIsNotLive
<1> HIDE DEF retire, orphan, rb
<1>4. retire \cap LiveFamilies(pub) = {} /\ (inFlight # NoFamily => inFlight \notin retire)
  BY <1>1, <1>2, <1>3
<1> QED BY <1>4 DEF retire

\* With nothing known to be live, and no size to ask about, a plan retires nothing.
LEMMA PlanBlind ==
    ASSUME NEW store, NEW pub \in Published, LiveFamilies(pub) = {}, NEW inFlight
    PROVE  PlanRetention(store, pub, inFlight, NoGuard).retire = {}
<1>1. Primary(pub).built = NoFamily
  BY NoneLive
<1> QED BY <1>1 DEF PlanRetention

\* The live families and three more are finitely many.
LEMMA RolesFinite ==
    ASSUME NEW pub \in Published, NEW a, NEW b, NEW c,
           NEW T \in SUBSET (LiveFamilies(pub) \cup {a, b, c})
    PROVE  IsFiniteSet(T)
<1>1. LiveFamilies(pub) \subseteq 0..MaxBuilds
  <2>1. \A k \in ManifestKeys : pub[k].built \in 0..MaxBuilds
    BY DEF Published, Manifest
  <2> QED BY <2>1 DEF LiveFamilies
<1>2. IsFiniteSet(0..MaxBuilds)
  BY FS_Interval, MaxBuildsAssumption
<1>3. IsFiniteSet(LiveFamilies(pub))
  BY <1>1, <1>2, FS_Subset
<1>4. IsFiniteSet({a} \cup {b} \cup {c})
  BY FS_Singleton, FS_Union
<1>5. {a} \cup {b} \cup {c} = {a, b, c}
  OBVIOUS
<1>6. IsFiniteSet(LiveFamilies(pub) \cup {a, b, c})
  BY <1>3, <1>4, <1>5, FS_Union
<1> QED BY <1>6, FS_Subset

\* Retention by role bounds the namespace: what a plan that knows what is live
\* leaves, with the upload it is made for, is three families at most, unless the
\* live ones and the upload alone are more (several archive formats at once),
\* and then nothing else.
THEOREM PlanCapsFamilies ==
    ASSUME NEW store \in Store, NEW pub \in Published, LiveFamilies(pub) # {},
           NEW inFlight \in 0..MaxBuilds, NEW incoming
    PROVE  LET left == Present(store) \ PlanRetention(store, pub, inFlight, incoming).retire
           IN  left \subseteq LiveFamilies(pub) \cup {inFlight} \/ Cardinality(left \cup ({inFlight} \ {NoFamily})) <= 3
<1> DEFINE rb == RollbackRole(store, pub, inFlight)
           first == RollbackFor(Primary(pub), Present(store), inFlight, OtherLive(pub))
           named == ({Primary(pub).built, inFlight} \cup OtherLive(pub)) \ {NoFamily}
           kept == LiveFamilies(pub) \cup {rb, inFlight}
           left == Present(store) \ PlanRetention(store, pub, inFlight, incoming).retire
           all == left \cup ({inFlight} \ {NoFamily})
<1>1. Primary(pub).built # NoFamily
  BY NoneLive
<1>2. left \subseteq kept
  BY <1>1 DEF PlanRetention
<1>3. NoFamily \notin left /\ LiveFamilies(pub) \subseteq named
  <2>1. NoFamily \notin LiveFamilies(pub)
    BY DEF LiveFamilies
  <2>2. LiveFamilies(pub) \subseteq named
    BY <2>1, LiveSplit
  <2> QED BY <2>2, MaxBuildsAssumption DEF Present, Families, NoFamily
<1>4. rb = NoFamily \/ (rb = first /\ Cardinality(named \cup {rb}) <= 3)
  <2>1. first \in named \/ Cardinality(named \cup {first}) > 3 => rb = NoFamily
    BY DEF RollbackRole
  <2>2. ~(first \in named \/ Cardinality(named \cup {first}) > 3) => rb = first
    BY DEF RollbackRole
  <2>3. IsFiniteSet(named \cup {first})
    <3>1. named \cup {first} \subseteq LiveFamilies(pub) \cup {Primary(pub).built, inFlight, first}
      BY DEF OtherLive
    <3> HIDE DEF named, first
    <3> QED BY <3>1, RolesFinite
  <2>4. Cardinality(named \cup {first}) \in Nat
    BY <2>3, FS_CardinalityType
  <2> HIDE DEF named, first, rb
  <2> QED BY <2>1, <2>2, <2>4
<1>5. CASE rb = NoFamily
  BY <1>2, <1>3, <1>5
<1>6. CASE rb # NoFamily
  <2>1. Cardinality(named \cup {rb}) <= 3
    BY <1>4, <1>6
  <2>2. all \subseteq named \cup {rb}
    <3>1. inFlight # NoFamily => inFlight \in named
      OBVIOUS
    <3> HIDE DEF left, named, rb
    <3> QED BY <1>2, <1>3, <3>1
  <2>3. IsFiniteSet(named \cup {rb})
    <3>1. named \cup {rb} \subseteq LiveFamilies(pub) \cup {Primary(pub).built, inFlight, rb}
      BY DEF OtherLive
    <3> HIDE DEF named, rb
    <3> QED BY <3>1, RolesFinite
  <2>4. Cardinality(all) <= Cardinality(named \cup {rb}) /\ Cardinality(all) \in Nat
        /\ Cardinality(named \cup {rb}) \in Nat
    <3> HIDE DEF all, named, rb
    <3> QED BY <2>2, <2>3, FS_Subset, FS_CardinalityType
  <2> HIDE DEF all, named, rb
  <2>5. Cardinality(all) <= 3
    BY <2>1, <2>4
  <2> QED BY <2>5 DEF all
<1> QED BY <1>5, <1>6

\* Each manifest key has one family.
LEMMA LiveAtMost ==
    ASSUME NEW pub \in Published
    PROVE  IsFiniteSet(LiveFamilies(pub)) /\ Cardinality(LiveFamilies(pub)) <= LatestFormat + 1
<1> DEFINE named == [k \in ManifestKeys |-> pub[k].built]
           all == {pub[k].built : k \in ManifestKeys}
<1>1. IsFiniteSet(Formats) /\ Cardinality(Formats) = LatestFormat
  BY FormatsAssumption, FS_Interval DEF Formats
<1>2. Legacy \notin Formats
  BY DEF Formats, Legacy
<1>3. IsFiniteSet(ManifestKeys) /\ Cardinality(ManifestKeys) = LatestFormat + 1
  BY <1>1, <1>2, FS_AddElement DEF ManifestKeys
<1>4. named \in Surjection(ManifestKeys, all)
  BY DEF Surjection
<1> HIDE DEF named
<1>5. IsFiniteSet(all) /\ Cardinality(all) <= LatestFormat + 1
  BY <1>3, <1>4, FS_Surjection
<1>6. LiveFamilies(pub) \subseteq all
  BY DEF LiveFamilies
<1> HIDE DEF all
<1>7. IsFiniteSet(LiveFamilies(pub)) /\ Cardinality(LiveFamilies(pub)) <= Cardinality(all)
  BY <1>5, <1>6, FS_Subset
<1> QED BY <1>5, <1>7, FS_CardinalityType, FormatsAssumption

\* Next to a new family, a plan leaves no more others than there are manifest keys.
LEMMA PlanLeavesFew ==
    ASSUME NEW store \in Store, NEW pub \in Published, LiveFamilies(pub) # {}, NEW b \in Families, NEW incoming
    PROVE  LET left == Present(store) \ PlanRetention(store, pub, b, incoming).retire
           IN  IsFiniteSet(left \ {b}) /\ Cardinality(left \ {b}) <= LatestFormat + 1
<1> DEFINE left == Present(store) \ PlanRetention(store, pub, b, incoming).retire
           all == left \cup ({b} \ {NoFamily})
<1>1. left \subseteq LiveFamilies(pub) \cup {b} \/ Cardinality(all) <= 3
  BY PlanCapsFamilies DEF Families
<1>2. b # NoFamily /\ left \subseteq Families
  BY DEF Families, NoFamily, Present
<1>3. IsFiniteSet(left)
  <2>1. IsFiniteSet(Families)
    BY MaxBuildsAssumption, FS_Interval DEF Families
  <2> HIDE DEF left
  <2> QED BY <1>2, <2>1, FS_Subset
<1> HIDE DEF left
<1>4. IsFiniteSet(left \ {b}) /\ Cardinality(left \ {b}) \in Nat
  BY <1>3, FS_RemoveElement, FS_CardinalityType
<1>5. CASE left \subseteq LiveFamilies(pub) \cup {b}
  <2>1. left \ {b} \subseteq LiveFamilies(pub)
    BY <1>5
  <2>2. Cardinality(left \ {b}) <= Cardinality(LiveFamilies(pub))
    BY <2>1, LiveAtMost, FS_Subset
  <2>3. Cardinality(LiveFamilies(pub)) \in Nat
    BY LiveAtMost, FS_CardinalityType
  <2> QED BY <1>4, <2>2, <2>3, LiveAtMost, FormatsAssumption DEF left
<1>6. CASE Cardinality(all) <= 3
  <2>1. all = (left \ {b}) \cup {b} /\ b \notin left \ {b}
    BY <1>2
  <2>2. Cardinality(all) = Cardinality(left \ {b}) + 1
    BY <1>4, <2>1, FS_AddElement
  <2> QED BY <1>4, <1>6, <2>2, FormatsAssumption DEF left
<1> QED BY <1>1, <1>5, <1>6

LEMMA StoreLemma ==
    ASSUME NEW store \in Store, NEW fams, NEW f \in Families, NEW keys \in SUBSET FamilyKeys
    PROVE  /\ WithoutFamilies(store, fams) \in Store
           /\ [store EXCEPT ![f] = @ \cup keys] \in Store
           /\ \A g \in Families \ fams : WithoutFamilies(store, fams)[g] = store[g]
BY DEF Store, WithoutFamilies

-----------------------------------------------------------------------------
(***************************************************************************)
(* The byte guard's arithmetic.                                            *)
(***************************************************************************)
KeysOf(store, fams) == {k \in fams \X FamilyKeys : k[2] \in store[k[1]]}

LEMMA KeysFinite ==
    ASSUME NEW store \in Store, NEW fams \in SUBSET Families
    PROVE  IsFiniteSet(KeysOf(store, fams)) /\ Bytes(store, fams) = Cardinality(KeysOf(store, fams)) /\ Bytes(store, fams) \in Nat
<1>1. IsFiniteSet(Families) /\ IsFiniteSet(FamilyKeys)
  <2>1. IsFiniteSet(1..MaxBuilds) /\ IsFiniteSet(1..Chunks)
    BY MaxBuildsAssumption, ChunksAssumption, FS_Interval
  <2> QED BY <2>1, FS_AddElement DEF Families, FamilyKeys
<1>2. IsFiniteSet(fams)
  BY <1>1, FS_Subset
<1>3. IsFiniteSet(fams \X FamilyKeys)
  BY <1>1, <1>2, FS_Product
<1>4. IsFiniteSet(KeysOf(store, fams))
  BY <1>3, FS_Subset DEF KeysOf
<1> QED BY <1>4, FS_CardinalityType DEF Bytes, KeysOf

\* A family has at most its chunks and its filter.
LEMMA FamilySize == IsFiniteSet(FamilyKeys) /\ Cardinality(FamilyKeys) = Chunks + 1
<1>1. IsFiniteSet(1..Chunks) /\ Cardinality(1..Chunks) = Chunks
  BY ChunksAssumption, FS_Interval
<1>2. Filter \notin 1..Chunks
  BY ChunksAssumption DEF Filter
<1> QED BY <1>1, <1>2, FS_AddElement DEF FamilyKeys

\* Fewer keys, fewer bytes.
LEMMA BytesShrink ==
    ASSUME NEW store \in Store, NEW less \in Store, NEW fams \in SUBSET Families, NEW few \in SUBSET fams,
           \A f \in few : less[f] \subseteq store[f]
    PROVE  Bytes(less, few) <= Bytes(store, fams)
<1>1. KeysOf(less, few) \subseteq KeysOf(store, fams)
  BY DEF KeysOf
<1> QED BY <1>1, KeysFinite, FS_Subset

\* One family apart from the others.
LEMMA BytesSplit ==
    ASSUME NEW store \in Store, NEW fams \in SUBSET Families, NEW f \in fams
    PROVE  Bytes(store, fams) = Bytes(store, fams \ {f}) + Bytes(store, {f})
<1>1. KeysOf(store, fams) = KeysOf(store, fams \ {f}) \cup KeysOf(store, {f})
  BY DEF KeysOf
<1>2. KeysOf(store, fams \ {f}) \cap KeysOf(store, {f}) = {}
  BY DEF KeysOf
<1>3. fams \ {f} \in SUBSET Families /\ {f} \in SUBSET Families
  OBVIOUS
<1> DEFINE rest == KeysOf(store, fams \ {f})
           own == KeysOf(store, {f})
<1>4. IsFiniteSet(rest) /\ IsFiniteSet(own) /\ Bytes(store, fams \ {f}) = Cardinality(rest)
      /\ Bytes(store, {f}) = Cardinality(own) /\ Bytes(store, fams) = Cardinality(rest \cup own)
  BY <1>1, <1>3, KeysFinite
<1>5. Cardinality(rest \cap own) = 0
  BY <1>2, FS_EmptySet
<1>6. Cardinality(rest) \in Nat /\ Cardinality(own) \in Nat
  BY <1>4, FS_CardinalityType
<1> HIDE DEF rest, own
<1>7. Cardinality(rest \cup own) = Cardinality(rest) + Cardinality(own) - Cardinality(rest \cap own)
  BY <1>4, FS_Union
<1> QED BY <1>4, <1>5, <1>6, <1>7

LEMMA FamilyBytes ==
    ASSUME NEW store \in Store, NEW f \in Families
    PROVE  Bytes(store, {f}) <= Chunks + 1
<1>1. IsFiniteSet({f}) /\ Cardinality({f}) = 1
  BY FS_Singleton
<1>2. IsFiniteSet({f} \X FamilyKeys) /\ Cardinality({f} \X FamilyKeys) = 1 * (Chunks + 1)
  BY <1>1, FamilySize, FS_Product
<1>3. KeysOf(store, {f}) \subseteq {f} \X FamilyKeys
  BY DEF KeysOf
<1>4. Cardinality(KeysOf(store, {f})) <= Cardinality({f} \X FamilyKeys)
  BY <1>2, <1>3, FS_Subset
<1> QED BY <1>2, <1>4, KeysFinite, ChunksAssumption

\* A plan that asks the guard and is not refused leaves room for what comes in,
\* on top of every key that stays (planRetention with decideByteGuard).
THEOREM PlanLeavesRoom ==
    ASSUME NEW store \in Store, NEW pub \in Published, NEW inFlight \in 0..MaxBuilds, NEW incoming \in Nat,
           PlanRetention(store, pub, inFlight, incoming).decision # "refuse"
    PROVE  LET left == WithoutFamilies(store, PlanRetention(store, pub, inFlight, incoming).retire)
           IN  left \in Store /\ Bytes(left, Families) + incoming <= KvLimit
<1> DEFINE rb == RollbackRole(store, pub, inFlight)
           kept == LiveFamilies(pub) \cup {rb, inFlight}
           orphan == IF Primary(pub).built = NoFamily THEN {} ELSE Present(store) \ kept
           stays == Present(store) \ orphan
           used == Bytes(store, stays)
           rolled == Bytes(store, {rb} \cap Families)
           guard == DecideByteGuard(used, rolled, incoming)
           retire == PlanRetention(store, pub, inFlight, incoming).retire
           left == WithoutFamilies(store, retire)
<1>1. incoming # NoGuard
  BY DEF NoGuard
<1>2. /\ retire = IF guard = "drop-rollback" THEN orphan \cup {rb} ELSE orphan
      /\ guard # "refuse"
  BY <1>1 DEF PlanRetention
<1>3. left \in Store /\ \A f \in Families : left[f] = IF f \in retire THEN {} ELSE store[f]
  BY DEF WithoutFamilies, Store
<1>4. stays \in SUBSET Families /\ \A f \in Families \ Present(store) : store[f] = {}
  BY DEF Present
<1>5. rb \in stays \/ rb \notin Present(store)
  BY DEF orphan
<1>g. /\ guard = "go" => used + incoming <= KvLimit
      /\ guard = "drop-rollback" => rolled > 0 /\ used + incoming - rolled <= KvLimit
      /\ guard \in {"go", "drop-rollback", "refuse"}
  BY Zenon DEF DecideByteGuard
<1>n. used \in Nat /\ rolled \in Nat
  BY <1>4, KeysFinite
<1> HIDE DEF rb, orphan, used, rolled, guard, left, retire
<1>6. CASE guard = "go"
  <2>1. KeysOf(left, Families) = KeysOf(store, stays)
    BY <1>2, <1>3, <1>4, <1>6 DEF KeysOf
  <2>2. Bytes(left, Families) = used
    BY <1>3, <1>4, <2>1, KeysFinite DEF used
  <2> QED BY <1>3, <1>g, <1>6, <2>2 DEF left, retire
<1>7. CASE guard = "drop-rollback"
  <2>1. rb \in Families /\ rolled = Bytes(store, {rb})
    <3>1. {} \in SUBSET Families /\ KeysOf(store, {}) = {}
      BY DEF KeysOf
    <3>2. Bytes(store, {}) = 0
      BY <3>1, KeysFinite, FS_EmptySet
    <3>3. {rb} \cap Families # {}
      BY <1>g, <1>7, <3>2 DEF rolled
    <3>4. {rb} \cap Families = {rb}
      BY <3>3
    <3> QED BY <3>4 DEF rolled
  <2>2. rb \in stays
    <3>1. SUFFICES ASSUME rb \notin Present(store) PROVE FALSE
      BY <1>5
    <3>2. KeysOf(store, {rb}) = {}
      BY <1>4, <2>1, <3>1 DEF KeysOf
    <3>3. rolled = 0
      BY <2>1, <3>2, KeysFinite, FS_EmptySet
    <3> QED BY <1>g, <1>7, <3>3
  <2>3. KeysOf(left, Families) = KeysOf(store, stays \ {rb})
    BY <1>2, <1>3, <1>4, <1>7 DEF KeysOf
  <2>4. Bytes(left, Families) = Bytes(store, stays \ {rb})
    BY <1>3, <1>4, <2>3, KeysFinite
  <2>5. used = Bytes(store, stays \ {rb}) + rolled
    BY <1>4, <2>1, <2>2, BytesSplit DEF used
  <2>6. Bytes(store, stays \ {rb}) \in Nat
    BY <1>4, KeysFinite
  <2> QED BY <1>3, <1>n, <1>g, <1>7, <2>4, <2>5, <2>6, KvLimitAssumption DEF left, retire
<1> QED BY <1>2, <1>6, <1>7, <1>g

-----------------------------------------------------------------------------
(***************************************************************************)
(* Type correctness.  A record's shape depends on the step its run is at   *)
(* (a chunk can only be put while one is left, a manifest written once the *)
(* run's format is known), so the induction carries FitsPhase, FormatChosen *)
(* and CopyChosen along.                                                   *)
(***************************************************************************)
Typed == TypeOK /\ SlicesFitPhases /\ FormatChosen /\ CopyChosen

\* What a step of a run, or of a deploy from its fence on, may change of it.
RunsTyped ==
    /\ kv \in Store /\ manifests \in Published /\ lease \in Lease
    /\ pointer \in Coordinators /\ fence \in Nat /\ code \in Formats /\ builds \in 0..MaxBuilds
    /\ co \in [Coordinators -> Runs] /\ slice \in [Coordinators -> Slices]
    /\ dep \in [Deploys -> Jobs] /\ waits \in [Actors -> SUBSET Actors]
    /\ SlicesFitPhases /\ FormatChosen

\* Whose family a sweep takes to be in flight.
LEMMA InFlightType ==
    ASSUME NEW b \in 0..MaxBuilds, NEW pub
    PROVE  InFlight(b, pub) \in 0..MaxBuilds
BY MaxBuildsAssumption DEF InFlight, NoFamily

LEMMA NothingPublishedType == NothingPublished \in Published
BY NoManifestType DEF NothingPublished, Published

LEMMA RetirementsType ==
    ASSUME NEW pub \in Published, NEW f \in Formats, NEW r \in Retirements(pub, f)
    PROVE  r[1] \in Published /\ r[2] \in Published
<1> DEFINE after == RetireOlderFormats(pub, f)
<1>1. after \in Published
  BY RetirementLemma
<1> HIDE DEF after
<1>2. [pub EXCEPT ![Legacy] = after[Legacy]] \in Published
  BY <1>1 DEF Published, ManifestKeys
<1>3. r \in {<<after, after>>, <<pub, pub>>, <<[pub EXCEPT ![Legacy] = after[Legacy]], pub>>}
  BY DEF Retirements, after
<1> QED BY <1>1, <1>2, <1>3

LEMMA RestType ==
    ASSUME slice \in [Coordinators -> Slices], NEW c \in Coordinators
    PROVE  Rest(c) \in [Coordinators -> Slices]
<1>1. AtRest \in Slices
  BY NothingPublishedType, NoManifestType DEF AtRest, Slices, SlicePcs
<1> QED BY <1>1 DEF Rest

LEMMA GotoType ==
    ASSUME slice \in [Coordinators -> Slices], NEW c \in Coordinators, NEW pc \in SlicePcs,
           Goto(c, pc)
    PROVE  /\ slice' \in [Coordinators -> Slices]
           /\ slice'[c].pc = pc /\ slice'[c].seen = slice[c].seen
           /\ \A e \in Coordinators \ {c} : slice'[e] = slice[e]
<1>1. [slice[c] EXCEPT !.pc = pc] \in Slices
  BY DEF Slices
<1>2. slice' = [slice EXCEPT ![c] = [slice[c] EXCEPT !.pc = pc]]
  BY DEF Goto
<1>3. [slice[c] EXCEPT !.pc = pc].pc = pc /\ [slice[c] EXCEPT !.pc = pc].seen = slice[c].seen
  BY DEF Slices
<1> QED BY <1>1, <1>2, <1>3

LEMMA JobType ==
    ASSUME dep \in [Deploys -> Jobs], FormatChosen, NEW d \in Deploys, dep[d].pc # "off",
           NEW pc \in DeployPcs \ {"off"}, Job(d, pc)
    PROVE  dep' \in [Deploys -> Jobs] /\ FormatChosen'
<1>1. [dep[d] EXCEPT !.pc = pc] \in Jobs
  BY DEF Jobs
<1>2. dep' = [dep EXCEPT ![d] = [dep[d] EXCEPT !.pc = pc]]
  BY DEF Job
<1>3. dep' \in [Deploys -> Jobs]
  BY <1>1, <1>2
<1>4. \A e \in Deploys : dep'[e].fmt = dep[e].fmt /\ (dep'[e].pc = dep[e].pc \/ e = d)
  BY <1>2 DEF Jobs
<1> QED BY <1>3, <1>4 DEF FormatChosen

LEMMA Sequences == MidSequence \subseteq Actors /\ Settling \subseteq Actors
BY DEF MidSequence, Settling, Actors

LEMMA OverType ==
    ASSUME waits \in [Actors -> SUBSET Actors], NEW x \in Actors, NEW busy \in SUBSET Actors
    PROVE  /\ Over(x) \in [Actors -> SUBSET Actors]
           /\ [waits EXCEPT ![x] = busy] \in [Actors -> SUBSET Actors]
           /\ [Over(x) EXCEPT ![x] = busy] \in [Actors -> SUBSET Actors]
BY DEF Over

LEMMA LongBeginsType ==
    ASSUME waits \in [Actors -> SUBSET Actors], NEW x \in Actors, NEW busy \in SUBSET Actors,
           LongBegins(x, busy)
    PROVE  waits' \in [Actors -> SUBSET Actors]
<1>1. busy \ {x} \in SUBSET Actors
  OBVIOUS
<1> QED BY <1>1, OverType DEF LongBegins

LEMMA ReleaseType ==
    ASSUME lease \in Lease, NEW b, Release(b)
    PROVE  lease' \in Lease
BY MaxBuildsAssumption DEF Release, Released, Lease, NoLease, NoFamily

LEMMA MyLeaseType ==
    ASSUME co \in [Coordinators -> Runs], NEW c \in Coordinators
    PROVE  MyLease(c) \in Lease
BY MaxEpochAssumption DEF MyLease, Lease, Runs, Coordinators

LEMMA IdleRunType == IdleRun \in Runs
BY ChunksAssumption, MaxBuildsAssumption DEF IdleRun, Runs, RunPhases

\* However a run ends, it leaves its coordinator at rest with nothing in flight.
LEMMA RunOver ==
    ASSUME Typed, NEW c \in Coordinators,
           \/ co' = [co EXCEPT ![c].phase = "retire"]
           \/ co' = [co EXCEPT ![c].phase = "idle"]
           \/ co' = [co EXCEPT ![c].phase = "post"],
           slice' = Rest(c) \/ (Resting(c) /\ slice' = slice)
    PROVE  /\ co' \in [Coordinators -> Runs]
           /\ slice' \in [Coordinators -> Slices]
           /\ SlicesFitPhases'
<1>1. co \in [Coordinators -> Runs] /\ slice \in [Coordinators -> Slices]
  BY DEF Typed, TypeOK
<1>2. PICK r \in Runs : co' = [co EXCEPT ![c] = r] /\ r.phase \in {"retire", "idle", "post"}
  <2>1. CASE co' = [co EXCEPT ![c].phase = "retire"]
    <3> DEFINE r == [co[c] EXCEPT !.phase = "retire"]
    <3>1. r \in Runs /\ r.phase = "retire"
      BY <1>1 DEF Runs, RunPhases
    <3> QED BY <2>1, <3>1
  <2>2. CASE co' = [co EXCEPT ![c].phase = "idle"]
    <3> DEFINE r == [co[c] EXCEPT !.phase = "idle"]
    <3>1. r \in Runs /\ r.phase = "idle"
      BY <1>1 DEF Runs, RunPhases
    <3> QED BY <2>2, <3>1
  <2>3. CASE co' = [co EXCEPT ![c].phase = "post"]
    <3> DEFINE r == [co[c] EXCEPT !.phase = "post"]
    <3>1. r \in Runs /\ r.phase = "post"
      BY <1>1 DEF Runs, RunPhases
    <3> QED BY <2>3, <3>1
  <2> QED BY <2>1, <2>2, <2>3
<1>3. co' \in [Coordinators -> Runs] /\ slice' \in [Coordinators -> Slices]
  BY <1>1, <1>2, RestType
<1>4. \A e \in Coordinators \ {c} : co'[e] = co[e] /\ slice'[e] = slice[e]
  BY <1>1, <1>2 DEF Rest
<1>5. co'[c] = r /\ slice'[c].pc = "rest" /\ slice'[c].seen = NothingPublished
  BY <1>1, <1>2 DEF Rest, Resting, AtRest, Typed, SlicesFitPhases, FitsPhase
<1>6. FitsPhase(c)'
  BY <1>2, <1>5 DEF FitsPhase
<1>7. \A e \in Coordinators \ {c} : FitsPhase(e)'
  BY <1>4 DEF FitsPhase, SlicesFitPhases, Typed
<1> QED BY <1>3, <1>6, <1>7 DEF SlicesFitPhases

\* A step of an alarm that leaves its run alone.
LEMMA SliceMoves ==
    ASSUME Typed, NEW c \in Coordinators, UNCHANGED co, NEW s \in Slices,
           slice' = [slice EXCEPT ![c] = s], FitsPhase(c)'
    PROVE  slice' \in [Coordinators -> Slices] /\ SlicesFitPhases'
<1>1. slice \in [Coordinators -> Slices]
  BY DEF Typed, TypeOK
<1>2. slice' \in [Coordinators -> Slices] /\ \A e \in Coordinators \ {c} : slice'[e] = slice[e]
  BY <1>1
<1>3. \A e \in Coordinators \ {c} : FitsPhase(e)'
  BY <1>2 DEF FitsPhase, SlicesFitPhases, Typed
<1> QED BY <1>2, <1>3 DEF SlicesFitPhases

LEMMA GotoFits ==
    ASSUME Typed, NEW c \in Coordinators, UNCHANGED co, NEW pc \in SlicePcs, Goto(c, pc),
           FitsPhase(c)'
    PROVE  slice' \in [Coordinators -> Slices] /\ SlicesFitPhases'
<1>1. slice \in [Coordinators -> Slices]
  BY DEF Typed, TypeOK
<1>2. [slice[c] EXCEPT !.pc = pc] \in Slices
  BY <1>1 DEF Slices
<1> QED BY <1>2, SliceMoves DEF Goto

LEMMA RetireTyped ==
    ASSUME Typed, NEW c \in Coordinators, BeginRetire(c)
    PROVE  /\ co' \in [Coordinators -> Runs]
           /\ slice' \in [Coordinators -> Slices]
           /\ SlicesFitPhases'
           /\ waits' \in [Actors -> SUBSET Actors]
<1>1. waits' \in [Actors -> SUBSET Actors]
  BY OverType DEF BeginRetire, SequenceOver, Actors, Typed, TypeOK
<1>2. co' = [co EXCEPT ![c].phase = "retire"] /\ slice' = Rest(c)
  BY DEF BeginRetire
<1> QED BY <1>1, <1>2, RunOver

LEMMA FailTyped ==
    ASSUME Typed, NEW c \in Coordinators, EndFailed(c)
    PROVE  /\ co' \in [Coordinators -> Runs]
           /\ slice' \in [Coordinators -> Slices]
           /\ SlicesFitPhases'
           /\ waits' \in [Actors -> SUBSET Actors]
           /\ lease' \in Lease
<1>1. waits' \in [Actors -> SUBSET Actors]
  BY OverType DEF EndFailed, SequenceOver, Actors, Typed, TypeOK
<1>2. lease' \in Lease
  BY ReleaseType DEF EndFailed, Typed, TypeOK
<1>3. co' = [co EXCEPT ![c].phase = "idle"] /\ slice' = Rest(c)
  BY DEF EndFailed
<1> QED BY <1>1, <1>2, <1>3, RunOver

\* A run that goes on: its record changes, and its alarm may be over.
LEMMA RunMoves ==
    ASSUME Typed, NEW c \in Coordinators, NEW r \in Runs, co' = [co EXCEPT ![c] = r],
           slice' \in [Coordinators -> Slices],
           \A e \in Coordinators \ {c} : slice'[e] = slice[e],
           FitsPhase(c)'
    PROVE  co' \in [Coordinators -> Runs] /\ SlicesFitPhases'
<1>1. co \in [Coordinators -> Runs]
  BY DEF Typed, TypeOK
<1>2. co' \in [Coordinators -> Runs] /\ \A e \in Coordinators \ {c} : co'[e] = co[e]
  BY <1>1
<1>3. \A e \in Coordinators \ {c} : FitsPhase(e)'
  BY <1>2 DEF FitsPhase, SlicesFitPhases, Typed
<1> QED BY <1>2, <1>3 DEF SlicesFitPhases

LEMMA RunTyped ==
    ASSUME Typed, NEW c \in Coordinators, Run(c)
    PROVE  RunsTyped'
<1>t. /\ kv \in Store /\ manifests \in Published /\ lease \in Lease
      /\ pointer \in Coordinators /\ fence \in Nat /\ code \in Formats /\ builds \in 0..MaxBuilds
      /\ co \in [Coordinators -> Runs] /\ slice \in [Coordinators -> Slices]
      /\ dep \in [Deploys -> Jobs] /\ waits \in [Actors -> SUBSET Actors]
  BY DEF Typed, TypeOK
<1>f. FitsPhase(c) /\ SlicesFitPhases /\ FormatChosen
  BY DEF SlicesFitPhases, Typed
<1>r. co[c] \in Runs /\ slice[c] \in Slices /\ c \in Actors
  BY <1>t DEF Actors
<1>1. ASSUME StartImport(c) PROVE RunsTyped'
  <2> DEFINE r == [IdleRun EXCEPT !.phase = "build", !.started = fence]
  <2>1. r \in Runs /\ r.phase = "build" /\ r.done = 0 /\ ~r.held
    BY <1>t, IdleRunType DEF Runs, RunPhases, IdleRun
  <2> HIDE DEF r
  <2>2. co' = [co EXCEPT ![c] = r] /\ slice' = slice /\ slice[c].pc = "rest"
    BY <1>1 DEF StartImport, r, AtAlarm
  <2>3. co'[c] = r
    BY <1>t, <2>2
  <2>4. FitsPhase(c)'
    BY <2>1, <2>2, <2>3, <1>f DEF FitsPhase
  <2>5. co' \in [Coordinators -> Runs] /\ SlicesFitPhases'
    BY <2>1, <2>2, <2>4, <1>t, RunMoves
  <2>6. waits' \in [Actors -> SUBSET Actors]
    BY <1>1, <1>t, <1>r, Sequences, LongBeginsType DEF StartImport
  <2> QED BY <1>1, <1>t, <1>f, <2>2, <2>5, <2>6 DEF StartImport, RunsTyped, kvVars, FormatChosen
<1>2. ASSUME Retire(c) PROVE RunsTyped'
  BY <1>2, <1>t, <1>f, RetireTyped DEF Retire, RunsTyped, kvVars, FormatChosen
<1>3. ASSUME RetirePurged(c) PROVE RunsTyped'
  <2>1. co' \in [Coordinators -> Runs] /\ SlicesFitPhases'
    BY <1>3, RunOver DEF RetirePurged, AtAlarm, Resting
  <2> QED BY <1>3, <1>t, <1>f, <2>1 DEF RetirePurged, RunsTyped, kvVars, FormatChosen
<1>4. ASSUME FailRun(c) PROVE RunsTyped'
  BY <1>4, <1>t, <1>f, FailTyped DEF FailRun, RunsTyped, kvVars, FormatChosen
<1>5. ASSUME KillSlice(c) PROVE RunsTyped'
  <2>1. AtRest \in Slices /\ slice' = [slice EXCEPT ![c] = AtRest]
    BY <1>5, NothingPublishedType, NoManifestType DEF KillSlice, Rest, AtRest, Slices, SlicePcs
  <2>2. slice'[c] = AtRest /\ co' = co
    BY <2>1, <1>5, <1>t DEF KillSlice
  <2>3. FitsPhase(c)'
    BY <2>2, <1>f DEF FitsPhase, AtRest
  <2>4. slice' \in [Coordinators -> Slices] /\ SlicesFitPhases'
    BY <2>1, <2>2, <2>3, SliceMoves
  <2>5. waits' \in [Actors -> SUBSET Actors]
    BY <1>5, <1>t, <1>r, OverType DEF KillSlice, SequenceOver
  <2> QED BY <1>5, <1>t, <1>f, <2>4, <2>5 DEF KillSlice, RunsTyped, kvVars, FormatChosen
<1>6. ASSUME StampBuild(c) PROVE RunsTyped'
  <2> DEFINE r == [co[c] EXCEPT !.phase = "routing", !.built = builds + 1, !.fmt = code]
  <2>1. builds + 1 \in 1..MaxBuilds
    BY <1>6, <1>t, MaxBuildsAssumption DEF StampBuild
  <2>2. r \in Runs /\ r.phase = "routing" /\ r.done = co[c].done /\ r.built # NoFamily /\ r.fmt \in Formats
    <3> DEFINE b == builds + 1
    <3>1. b # NoFamily /\ b \in 0..MaxBuilds
      BY <1>t, <2>1 DEF NoFamily
    <3> HIDE DEF b
    <3>2. LET x == [co[c] EXCEPT !.phase = "routing", !.built = b, !.fmt = code]
          IN  x \in Runs /\ x.phase = "routing" /\ x.done = co[c].done /\ x.built = b /\ x.fmt = code
      BY <1>t, <1>r, <3>1 DEF Runs, RunPhases
    <3> QED BY <1>t, <3>1, <3>2 DEF b
  <2>3. co' = [co EXCEPT ![c] = r] /\ slice' = slice /\ builds' = builds + 1
    BY <1>6 DEF StampBuild
  <2> HIDE DEF r
  <2>4. co'[c] = r
    BY <1>t, <2>3
  <2>5. slice[c].pc = "rest" /\ co[c].phase = "build"
    BY <1>6 DEF StampBuild, AtAlarm
  <2>6. FitsPhase(c)'
    BY <2>2, <2>3, <2>4, <2>5, <1>f DEF FitsPhase
  <2>7. co' \in [Coordinators -> Runs] /\ SlicesFitPhases'
    BY <2>2, <2>3, <2>6, <1>t, RunMoves
  <2> QED BY <1>6, <1>t, <1>f, <2>1, <2>3, <2>7 DEF StampBuild, RunsTyped, kvVars, FormatChosen
<1>7. ASSUME ClaimLease(c) PROVE RunsTyped'
  <2>1. CASE Goto(c, "claim") /\ UNCHANGED <<co, waits>>
    <3>1. slice'[c].pc = "claim" /\ slice'[c].seen = slice[c].seen
      BY <2>1, <1>t, GotoType DEF SlicePcs
    <3>2. FitsPhase(c)'
      BY <3>1, <2>1, <1>7, <1>f DEF ClaimLease, AtAlarm, FitsPhase
    <3>3. slice' \in [Coordinators -> Slices] /\ SlicesFitPhases'
      BY <2>1, <3>2, GotoFits DEF SlicePcs
    <3> QED BY <1>7, <2>1, <1>t, <1>f, <3>3 DEF ClaimLease, RunsTyped, kvVars, FormatChosen
  <2>2. CASE BeginRetire(c)
    BY <1>7, <2>2, <1>t, <1>f, RetireTyped DEF ClaimLease, RunsTyped, kvVars, FormatChosen
  <2> QED BY <1>7, <2>1, <2>2 DEF ClaimLease
<1>8. ASSUME PutLease(c) PROVE RunsTyped'
  <2>1. slice'[c].pc = "claimed" /\ slice'[c].seen = slice[c].seen
    BY <1>8, <1>t, GotoType DEF SlicePcs, PutLease
  <2>2. FitsPhase(c)'
    BY <2>1, <1>8, <1>f DEF PutLease, FitsPhase
  <2>3. slice' \in [Coordinators -> Slices] /\ SlicesFitPhases'
    BY <1>8, <2>2, GotoFits DEF PutLease, SlicePcs
  <2> QED BY <1>8, <1>t, <1>f, <2>3, MyLeaseType DEF PutLease, RunsTyped, kvVars, FormatChosen
<1>9. ASSUME ReadRoles(c) PROVE RunsTyped'
  <2>1. CASE \E x \in Retirements(manifests, co[c].fmt) :
             /\ manifests' = x[1]
             /\ slice' = [slice EXCEPT ![c].pc = "sweep", ![c].seen = x[2]]
    <3>1. PICK x \in Retirements(manifests, co[c].fmt) :
             /\ manifests' = x[1]
             /\ slice' = [slice EXCEPT ![c].pc = "sweep", ![c].seen = x[2]]
      BY <2>1
    <3>2. co[c].fmt \in Formats /\ co[c].phase = "routing" /\ ~co[c].held
      BY <1>9, <1>f DEF ReadRoles, FitsPhase
    <3>3. x[1] \in Published /\ x[2] \in Published
      BY <3>1, <3>2, <1>t, RetirementsType
    <3> DEFINE s == [slice[c] EXCEPT !.pc = "sweep", !.seen = x[2]]
    <3>4. s \in Slices /\ s.pc = "sweep"
      BY <1>r, <3>3 DEF Slices, SlicePcs
    <3>5. slice' = [slice EXCEPT ![c] = s] /\ UNCHANGED co
      BY <3>1, <1>9 DEF ReadRoles
    <3> HIDE DEF s
    <3>6. slice'[c] = s
      BY <3>5, <1>t
    <3>7. FitsPhase(c)'
      BY <3>2, <3>4, <3>5, <3>6, <1>f DEF FitsPhase
    <3>8. slice' \in [Coordinators -> Slices] /\ SlicesFitPhases'
      BY <3>4, <3>5, <3>7, SliceMoves
    <3> QED BY <1>9, <1>t, <1>f, <3>1, <3>3, <3>8
        DEF ReadRoles, RunsTyped, kvVars, FormatChosen
  <2>2. CASE Goto(c, "sweep") /\ UNCHANGED manifests
    <3>1. slice'[c].pc = "sweep" /\ slice'[c].seen = slice[c].seen
      BY <2>2, <1>t, GotoType DEF SlicePcs
    <3>2. FitsPhase(c)'
      BY <3>1, <1>9, <1>f DEF ReadRoles, FitsPhase
    <3>3. slice' \in [Coordinators -> Slices] /\ SlicesFitPhases'
      BY <1>9, <2>2, <3>2, GotoFits DEF SlicePcs, ReadRoles
    <3> QED BY <1>9, <2>2, <1>t, <1>f, <3>3 DEF ReadRoles, RunsTyped, kvVars, FormatChosen
  <2> QED BY <1>9, <2>1, <2>2 DEF ReadRoles
<1>10. ASSUME MakeRoom(c) PROVE RunsTyped'
  <2>1. kv' \in Store
    BY <1>10, <1>t DEF MakeRoom, Store, WithoutFamilies
  <2>2. CASE EndFailed(c)
    BY <1>10, <2>1, <2>2, <1>t, <1>f, FailTyped DEF MakeRoom, RunsTyped, kvVars, FormatChosen
  <2>3. CASE /\ co' = [co EXCEPT ![c].held = TRUE]
             /\ slice' = [Rest(c) EXCEPT ![c].pc = "filter"]
             /\ UNCHANGED <<lease, waits>>
    <3> DEFINE r == [co[c] EXCEPT !.held = TRUE]
               s == [AtRest EXCEPT !.pc = "filter"]
    <3>1. co[c].phase = "routing" /\ co[c].built # NoFamily /\ co[c].fmt \in Formats /\ co[c].done = 0
      BY <1>10, <1>f DEF MakeRoom, FitsPhase
    <3>2. /\ r \in Runs /\ r.phase = "routing" /\ r.held = TRUE /\ r.done = 0
          /\ r.built # NoFamily /\ r.fmt \in Formats
      BY <3>1, <1>r DEF Runs
    <3>3. s \in Slices /\ s.pc = "filter"
      BY NothingPublishedType, NoManifestType DEF AtRest, Slices, SlicePcs
    <3>4. co' = [co EXCEPT ![c] = r] /\ slice' = [slice EXCEPT ![c] = s]
      BY <2>3, <1>t DEF Rest
    <3> HIDE DEF r, s
    <3>5. /\ co'[c] = r /\ slice'[c] = s /\ slice' \in [Coordinators -> Slices]
          /\ \A e \in Coordinators \ {c} : slice'[e] = slice[e]
      BY <3>3, <3>4, <1>t
    <3>6. FitsPhase(c)'
      BY <3>2, <3>3, <3>5 DEF FitsPhase
    <3>7. co' \in [Coordinators -> Runs] /\ SlicesFitPhases'
      BY <3>2, <3>4, <3>5, <3>6, RunMoves
    <3> QED BY <1>10, <2>1, <2>3, <1>t, <1>f, <3>5, <3>7
        DEF MakeRoom, RunsTyped, kvVars, FormatChosen
  <2>4. EndFailed(c) \/ (/\ co' = [co EXCEPT ![c].held = TRUE]
                          /\ slice' = [Rest(c) EXCEPT ![c].pc = "filter"]
                          /\ UNCHANGED <<lease, waits>>)
    BY <1>10, Zenon DEF MakeRoom
  <2> QED BY <2>2, <2>3, <2>4
<1>11. ASSUME PutFilter(c) PROVE RunsTyped'
  <2>1. kv' \in Store
    BY <1>11, <1>t DEF PutFilter, Store, FamilyKeys
  <2> DEFINE r == [co[c] EXCEPT !.phase = "publish"]
  <2>2. co[c].phase = "routing" /\ slice[c].pc = "filter"
    BY <1>11, <1>f DEF PutFilter, FitsPhase
  <2>3. /\ r \in Runs /\ r.phase = "publish" /\ r.done = co[c].done
        /\ r.built = co[c].built /\ r.fmt = co[c].fmt
    BY <1>r DEF Runs, RunPhases
  <2>4. co' = [co EXCEPT ![c] = r] /\ slice' = Rest(c)
    BY <1>11 DEF PutFilter
  <2> HIDE DEF r
  <2>5. /\ slice' \in [Coordinators -> Slices] /\ slice'[c] = AtRest /\ co'[c] = r
        /\ \A e \in Coordinators \ {c} : slice'[e] = slice[e]
    BY <2>4, <1>t, RestType DEF Rest
  <2>6. FitsPhase(c)'
    BY <2>2, <2>3, <2>5, <1>f, ChunksAssumption DEF FitsPhase, AtRest
  <2>7. co' \in [Coordinators -> Runs] /\ SlicesFitPhases'
    BY <2>3, <2>4, <2>5, <2>6, RunMoves
  <2>8. waits' \in [Actors -> SUBSET Actors]
    <3> DEFINE busy == IF Prompt THEN MidSequence \ {c} ELSE {}
    <3>1. busy \in SUBSET Actors
      BY Sequences
    <3>2. waits' = [Over(c) EXCEPT ![c] = busy]
      BY <1>11 DEF PutFilter
    <3> QED BY <3>1, <3>2, <1>t, <1>r, OverType
  <2> QED BY <1>11, <1>t, <1>f, <2>1, <2>5, <2>7, <2>8 DEF PutFilter, RunsTyped, FormatChosen
<1>12. ASSUME RenewFence(c) PROVE RunsTyped'
  <2>1. CASE Goto(c, "renew") /\ UNCHANGED <<co, waits>>
    <3>1. slice'[c].pc = "renew"
      BY <2>1, <1>t, GotoType DEF SlicePcs
    <3>2. FitsPhase(c)'
      BY <3>1, <2>1, <1>12, <1>f DEF RenewFence, AtAlarm, FitsPhase
    <3>3. slice' \in [Coordinators -> Slices] /\ SlicesFitPhases'
      BY <2>1, <3>2, GotoFits DEF SlicePcs
    <3> QED BY <1>12, <2>1, <1>t, <1>f, <3>3 DEF RenewFence, RunsTyped, kvVars, FormatChosen
  <2>2. CASE BeginRetire(c)
    BY <1>12, <2>2, <1>t, <1>f, RetireTyped DEF RenewFence, RunsTyped, kvVars, FormatChosen
  <2> QED BY <1>12, <2>1, <2>2 DEF RenewFence
<1>13. ASSUME RenewLease(c) PROVE RunsTyped'
  <2> DEFINE pc == IF co[c].phase = "routing" THEN "filter" ELSE "write"
  <2>1. Goto(c, pc) /\ pc \in SlicePcs /\ UNCHANGED co
    BY <1>13 DEF RenewLease, SlicePcs
  <2>2. slice'[c].pc = pc
    BY <2>1, <1>t, GotoType
  <2>3. FitsPhase(c)'
    BY <2>1, <2>2, <1>13, <1>f DEF RenewLease, FitsPhase
  <2>4. slice' \in [Coordinators -> Slices] /\ SlicesFitPhases'
    BY <2>1, <2>3, GotoFits
  <2> QED BY <1>13, <1>t, <1>f, <2>4, MyLeaseType DEF RenewLease, RunsTyped, FormatChosen
<1>14. ASSUME ChunkFence(c) PROVE RunsTyped'
  <2>1. CASE Goto(c, "put") /\ UNCHANGED <<co, waits>>
    <3>1. slice'[c].pc = "put"
      BY <2>1, <1>t, GotoType DEF SlicePcs
    <3>2. FitsPhase(c)'
      BY <3>1, <2>1, <1>14, <1>f DEF ChunkFence, AtAlarm, FitsPhase
    <3>3. slice' \in [Coordinators -> Slices] /\ SlicesFitPhases'
      BY <2>1, <3>2, GotoFits DEF SlicePcs
    <3> QED BY <1>14, <2>1, <1>t, <1>f, <3>3 DEF ChunkFence, RunsTyped, kvVars, FormatChosen
  <2>2. CASE BeginRetire(c)
    BY <1>14, <2>2, <1>t, <1>f, RetireTyped DEF ChunkFence, RunsTyped, kvVars, FormatChosen
  <2> QED BY <1>14, <2>1, <2>2 DEF ChunkFence
<1>15. ASSUME PutChunk(c) PROVE RunsTyped'
  <2>1. /\ co[c].phase = "publish" /\ slice[c].pc = "put" /\ co[c].done \in 0..(Chunks - 1)
        /\ co[c].built # NoFamily /\ co[c].fmt \in Formats
    BY <1>15, <1>f, <1>r, ChunksAssumption DEF PutChunk, FitsPhase, Runs
  <2>2. NextChunk(c) \in 1..Chunks /\ NextChunk(c) = co[c].done + 1
    BY <2>1, ChunksAssumption DEF NextChunk
  <2>3. kv' \in Store
    <3>1. NextChunk(c) \in FamilyKeys
      BY <2>2 DEF FamilyKeys
    <3> QED BY <3>1, <1>15, <1>t DEF PutChunk, Store
  <2>4. slice' = Rest(c)
    BY <1>15 DEF PutChunk
  <2>5. /\ slice' \in [Coordinators -> Slices] /\ slice'[c] = AtRest
        /\ \A e \in Coordinators \ {c} : slice'[e] = slice[e]
    BY <2>4, <1>t, RestType DEF Rest
  <2>6. co' \in [Coordinators -> Runs] /\ SlicesFitPhases'
    <3>1. CASE co' = [co EXCEPT ![c].done = @ + 1,
                      ![c].phase = IF NextChunk(c) = Chunks THEN "manifest" ELSE @]
      <4> DEFINE n == NextChunk(c)
                 r == [co[c] EXCEPT !.done = n,
                                    !.phase = IF n = Chunks THEN "manifest" ELSE co[c].phase]
      <4>1. co' = [co EXCEPT ![c] = r]
        BY <3>1, <2>2, <1>t, <1>r DEF Runs
      <4>2. n \in 0..Chunks /\ (n = Chunks \/ n < Chunks)
        BY <2>2, ChunksAssumption
      <4> HIDE DEF n
      <4>3. /\ r \in Runs /\ r.built = co[c].built /\ r.fmt = co[c].fmt /\ r.done = n
            /\ r.phase = IF n = Chunks THEN "manifest" ELSE co[c].phase
        BY <1>r, <4>2 DEF Runs, RunPhases
      <4> HIDE DEF r
      <4>4. co'[c] = r
        BY <4>1, <1>t
      <4>5. FitsPhase(c)'
        BY <2>1, <2>5, <4>2, <4>3, <4>4 DEF FitsPhase, AtRest
      <4> QED BY <4>1, <4>3, <4>5, <2>5, RunMoves
    <3>2. CASE UNCHANGED co
      <4>1. FitsPhase(c)'
        BY <3>2, <2>1, <2>5, <1>f DEF FitsPhase, AtRest
      <4>2. \A e \in Coordinators \ {c} : FitsPhase(e)'
        BY <3>2, <2>5, <1>f DEF FitsPhase, SlicesFitPhases
      <4> QED BY <4>1, <4>2, <3>2, <1>t DEF SlicesFitPhases
    <3> QED BY <1>15, <3>1, <3>2 DEF PutChunk
  <2>7. waits' \in [Actors -> SUBSET Actors]
    BY <1>15, <1>t, <1>r, OverType DEF PutChunk, SequenceOver
  <2> QED BY <1>15, <1>t, <1>f, <2>3, <2>5, <2>6, <2>7 DEF PutChunk, RunsTyped, FormatChosen
<1>16. ASSUME ReadReplaced(c) PROVE RunsTyped'
  <2>1. CASE /\ \E m \in ReplacedRead(co[c].fmt) :
                  slice' = [slice EXCEPT ![c].pc = "check", ![c].replaced = m]
             /\ UNCHANGED <<co, waits>>
    <3>1. PICK m \in ReplacedRead(co[c].fmt) :
                  slice' = [slice EXCEPT ![c].pc = "check", ![c].replaced = m]
      BY <2>1
    <3>2. co[c].fmt \in Formats /\ co[c].phase = "manifest"
      BY <1>16, <1>f DEF ReadReplaced, AtAlarm, FitsPhase
    <3>3. m \in Manifest
      BY <3>1, <3>2, <1>t, ReplacedManifestType, NoManifestType DEF ReplacedRead
    <3> DEFINE s == [slice[c] EXCEPT !.pc = "check", !.replaced = m]
    <3>4. s \in Slices /\ s.pc = "check"
      BY <1>r, <3>3 DEF Slices, SlicePcs
    <3>5. slice' = [slice EXCEPT ![c] = s] /\ UNCHANGED co
      BY <3>1, <2>1
    <3> HIDE DEF s
    <3>6. slice'[c] = s
      BY <3>5, <1>t
    <3>7. FitsPhase(c)'
      BY <3>2, <3>4, <3>5, <3>6, <1>f DEF FitsPhase
    <3>8. slice' \in [Coordinators -> Slices] /\ SlicesFitPhases'
      BY <3>4, <3>5, <3>7, SliceMoves
    <3> QED BY <1>16, <2>1, <1>t, <1>f, <3>8 DEF ReadReplaced, RunsTyped, kvVars, FormatChosen
  <2>2. CASE BeginRetire(c)
    BY <1>16, <2>2, <1>t, <1>f, RetireTyped DEF ReadReplaced, RunsTyped, kvVars, FormatChosen
  <2> QED BY <1>16, <2>1, <2>2 DEF ReadReplaced
<1>17. ASSUME CheckChunks(c) PROVE RunsTyped'
  <2>1. CASE Goto(c, "fence") /\ UNCHANGED <<lease, co, waits>>
    <3>1. slice'[c].pc = "fence"
      BY <2>1, <1>t, GotoType DEF SlicePcs
    <3>2. FitsPhase(c)'
      BY <3>1, <2>1, <1>17, <1>f DEF CheckChunks, FitsPhase
    <3>3. slice' \in [Coordinators -> Slices] /\ SlicesFitPhases'
      BY <2>1, <3>2, GotoFits DEF SlicePcs
    <3> QED BY <1>17, <2>1, <1>t, <1>f, <3>3 DEF CheckChunks, RunsTyped, kvVars, FormatChosen
  <2>2. CASE EndFailed(c)
    BY <1>17, <2>2, <1>t, <1>f, FailTyped DEF CheckChunks, RunsTyped, kvVars, FormatChosen
  <2> QED BY <1>17, <2>1, <2>2 DEF CheckChunks
<1>18. ASSUME CommitFence(c) PROVE RunsTyped'
  <2>1. CASE Goto(c, "commit") /\ UNCHANGED <<co, waits>>
    <3>1. slice'[c].pc = "commit"
      BY <2>1, <1>t, GotoType DEF SlicePcs
    <3>2. FitsPhase(c)'
      BY <3>1, <2>1, <1>18, <1>f DEF CommitFence, FitsPhase
    <3>3. slice' \in [Coordinators -> Slices] /\ SlicesFitPhases'
      BY <2>1, <3>2, GotoFits DEF SlicePcs
    <3> QED BY <1>18, <2>1, <1>t, <1>f, <3>3 DEF CommitFence, RunsTyped, kvVars, FormatChosen
  <2>2. CASE BeginRetire(c)
    BY <1>18, <2>2, <1>t, <1>f, RetireTyped DEF CommitFence, RunsTyped, kvVars, FormatChosen
  <2> QED BY <1>18, <2>1, <2>2 DEF CommitFence
<1>19. ASSUME WriteManifest(c) PROVE RunsTyped'
  <2>1. co[c].phase = "manifest" /\ co[c].fmt \in Formats
    BY <1>19, <1>f DEF WriteManifest, FitsPhase
  <2>2. manifests' \in Published
    <3>1. MyManifest(c) \in Manifest
      BY <1>r, <2>1, NextManifestType DEF MyManifest, Runs, Slices
    <3> QED BY <1>19, <1>t, <3>1 DEF WriteManifest, Published
  <2>3. PICK pc \in {"mirror", "release"} : Goto(c, pc)
    BY <1>19 DEF WriteManifest
  <2>4. slice'[c].pc = pc /\ UNCHANGED co
    BY <2>3, <1>19, <1>t, GotoType DEF SlicePcs, WriteManifest
  <2>5. FitsPhase(c)'
    BY <2>1, <2>4, <1>19, <1>f DEF FitsPhase, WriteManifest
  <2>6. slice' \in [Coordinators -> Slices] /\ SlicesFitPhases'
    BY <2>3, <2>4, <2>5, GotoFits DEF SlicePcs
  <2> QED BY <1>19, <1>t, <1>f, <2>2, <2>6 DEF WriteManifest, RunsTyped, FormatChosen
<1>20. ASSUME WriteMirror(c) PROVE RunsTyped'
  <2>1. co[c].phase = "manifest" /\ co[c].fmt \in Formats
    BY <1>20, <1>f DEF WriteMirror, FitsPhase
  <2>2. manifests' \in Published
    <3>1. MyManifest(c) \in Manifest
      BY <1>r, <2>1, NextManifestType DEF MyManifest, Runs, Slices
    <3> QED BY <1>20, <1>t, <3>1 DEF WriteMirror, Published
  <2>3. slice'[c].pc = "release" /\ UNCHANGED co
    BY <1>20, <1>t, GotoType DEF SlicePcs, WriteMirror
  <2>4. FitsPhase(c)'
    BY <2>1, <2>3, <1>20, <1>f DEF FitsPhase, WriteMirror
  <2>5. slice' \in [Coordinators -> Slices] /\ SlicesFitPhases'
    BY <1>20, <2>3, <2>4, GotoFits DEF SlicePcs, WriteMirror
  <2> QED BY <1>20, <1>t, <1>f, <2>2, <2>5 DEF WriteMirror, RunsTyped, FormatChosen
<1>21. ASSUME ReleaseLease(c) PROVE RunsTyped'
  <2>1. slice'[c].pc = "roles" /\ UNCHANGED co
    BY <1>21, <1>t, GotoType DEF SlicePcs, ReleaseLease
  <2>2. FitsPhase(c)'
    BY <2>1, <1>21, <1>f DEF FitsPhase, ReleaseLease
  <2>3. slice' \in [Coordinators -> Slices] /\ SlicesFitPhases'
    BY <1>21, <2>1, <2>2, GotoFits DEF SlicePcs, ReleaseLease
  <2>4. lease' \in Lease
    BY <1>21, <1>t, ReleaseType DEF ReleaseLease
  <2> QED BY <1>21, <1>t, <1>f, <2>3, <2>4 DEF ReleaseLease, RunsTyped, FormatChosen
<1>22. ASSUME SweepRead(c) PROVE RunsTyped'
  <2> DEFINE own == [manifests EXCEPT ![co[c].fmt] = MyManifest(c)]
  <2>1. co[c].phase = "manifest" /\ co[c].fmt \in Formats
    BY <1>22, <1>f DEF SweepRead, FitsPhase
  <2>2. own \in Published
    <3>1. MyManifest(c) \in Manifest
      BY <1>r, <2>1, NextManifestType DEF MyManifest, Runs, Slices
    <3> QED BY <1>t, <3>1 DEF Published
  <2>3. PICK x \in Retirements(own, co[c].fmt) :
              /\ manifests' = [x[1] EXCEPT ![co[c].fmt] = manifests[co[c].fmt]]
              /\ slice' = [slice EXCEPT ![c].pc = "drop", ![c].seen = x[2]]
    BY <1>22 DEF SweepRead
  <2> HIDE DEF own
  <2>4. x[1] \in Published /\ x[2] \in Published
    BY <2>1, <2>2, <2>3, RetirementsType
  <2>5. manifests' \in Published
    BY <2>1, <2>3, <2>4, <1>t DEF Published, ManifestKeys
  <2> DEFINE s == [slice[c] EXCEPT !.pc = "drop", !.seen = x[2]]
  <2>6. s \in Slices /\ s.pc = "drop"
    BY <1>r, <2>4 DEF Slices, SlicePcs
  <2>7. slice' = [slice EXCEPT ![c] = s] /\ UNCHANGED co
    <3>1. slice' = [slice EXCEPT ![c] = s]
      BY <2>3
    <3>2. UNCHANGED co
      BY <1>22 DEF SweepRead
    <3> QED BY <3>1, <3>2
  <2> HIDE DEF s
  <2>8. slice'[c] = s
    BY <2>7, <1>t
  <2>9. FitsPhase(c)'
    BY <2>1, <2>6, <2>7, <2>8, <1>f DEF FitsPhase
  <2>10. slice' \in [Coordinators -> Slices] /\ SlicesFitPhases'
    BY <2>6, <2>7, <2>9, SliceMoves
  <2> QED BY <1>22, <1>t, <1>f, <2>5, <2>10 DEF SweepRead, RunsTyped, FormatChosen
<1>23. ASSUME SweepDrop(c) PROVE RunsTyped'
  <2>1. kv' \in Store
    BY <1>23, <1>t DEF SweepDrop, Store, WithoutFamilies
  <2>2. co' = [co EXCEPT ![c].phase = "post"] /\ slice' = Rest(c)
    BY <1>23 DEF SweepDrop
  <2>3. co' \in [Coordinators -> Runs] /\ slice' \in [Coordinators -> Slices] /\ SlicesFitPhases'
    BY <2>2, RunOver
  <2>4. waits' \in [Actors -> SUBSET Actors]
    BY <1>23, <1>t, <1>r, OverType DEF SweepDrop, SequenceOver
  <2> QED BY <1>23, <1>t, <1>f, <2>1, <2>3, <2>4 DEF SweepDrop, RunsTyped, FormatChosen
<1>24. ASSUME FinishRun(c) PROVE RunsTyped'
  <2>1. co' = [co EXCEPT ![c].phase = "idle"] /\ slice' = slice /\ Resting(c)
    BY <1>24 DEF FinishRun, AtAlarm, Resting
  <2>2. co' \in [Coordinators -> Runs] /\ SlicesFitPhases'
    BY <2>1, RunOver
  <2> QED BY <1>24, <1>t, <1>f, <2>2 DEF FinishRun, RunsTyped, kvVars, FormatChosen
<1> QED
  BY <1>1, <1>2, <1>3, <1>4, <1>5, <1>6, <1>7, <1>8, <1>9, <1>10, <1>11, <1>12, <1>13, <1>14,
     <1>15, <1>16, <1>17, <1>18, <1>19, <1>20, <1>21, <1>22, <1>23, <1>24
  DEF Run, Slice

\* A job's record changes; a deploy under way keeps a format it has chosen.
LEMMA JobMoves ==
    ASSUME Typed, NEW d \in Deploys, NEW j \in Jobs, dep' = [dep EXCEPT ![d] = j],
           j.pc = "off" \/ j.fmt \in Formats
    PROVE  dep' \in [Deploys -> Jobs] /\ FormatChosen'
<1>1. dep \in [Deploys -> Jobs] /\ FormatChosen
  BY DEF Typed, TypeOK
<1>2. dep'[d] = j /\ \A e \in Deploys \ {d} : dep'[e] = dep[e]
  BY <1>1
<1> QED BY <1>1, <1>2 DEF FormatChosen

\* No step of a deploy touches a run.
LEMMA RunsUntouched ==
    ASSUME Typed, UNCHANGED <<co, slice>>
    PROVE  SlicesFitPhases'
BY DEF Typed, SlicesFitPhases, FitsPhase

LEMMA BeginDeployUploadTyped ==
    ASSUME Typed, NEW d \in Deploys, dep[d].pc # "off", BeginDeployUpload(d)
    PROVE  dep' \in [Deploys -> Jobs] /\ FormatChosen' /\ waits' \in [Actors -> SUBSET Actors]
<1>1. dep[d] \in Jobs /\ dep[d].fmt \in Formats /\ d \in Actors /\ waits \in [Actors -> SUBSET Actors]
  BY DEF Typed, TypeOK, FormatChosen, Actors
<1> DEFINE j == [dep[d] EXCEPT !.pc = "upload", !.seen = NothingPublished]
           busy == IF Prompt THEN MidSequence \ {d} ELSE {}
<1>2. j \in Jobs /\ j.fmt \in Formats
  BY <1>1, NothingPublishedType DEF Jobs, DeployPcs
<1>3. dep' = [dep EXCEPT ![d] = j] /\ waits' = [Over(d) EXCEPT ![d] = busy]
  BY DEF BeginDeployUpload
<1>4. busy \in SUBSET Actors
  BY Sequences
<1> HIDE DEF j, busy
<1> QED BY <1>1, <1>2, <1>3, <1>4, JobMoves, OverType

LEMMA DeployTyped ==
    ASSUME Typed, NEW d \in Deploys, Deploy(d)
    PROVE  RunsTyped'
<1>t. /\ kv \in Store /\ manifests \in Published /\ lease \in Lease
      /\ pointer \in Coordinators /\ fence \in Nat /\ code \in Formats /\ builds \in 0..MaxBuilds
      /\ co \in [Coordinators -> Runs] /\ slice \in [Coordinators -> Slices]
      /\ dep \in [Deploys -> Jobs] /\ waits \in [Actors -> SUBSET Actors]
  BY DEF Typed, TypeOK
<1>j. dep[d] \in Jobs /\ d \in Actors /\ (dep[d].pc = "off" \/ dep[d].fmt \in Formats)
  BY <1>t DEF Actors, FormatChosen, Typed
<1>f. FormatChosen
  BY DEF Typed
<1>1. ASSUME WriteDeployFence(d) PROVE RunsTyped'
  <2> DEFINE f == prep[d].fmt
             at == fence + 1
             j == [dep[d] EXCEPT !.pc = "settle", !.fmt = f, !.at = at]
  <2>1. f \in Formats /\ at \in Nat
    BY <1>1, <1>t DEF WriteDeployFence, CopyChosen, Typed
  <2>2. dep' = [dep EXCEPT ![d] = j]
    BY <1>1 DEF WriteDeployFence
  <2>3. fence' = at
    BY <1>1 DEF WriteDeployFence
  <2> HIDE DEF f, at
  <2>4. j \in Jobs /\ j.fmt = f
    BY <1>j, <2>1 DEF Jobs, DeployPcs
  <2> HIDE DEF j
  <2>5. dep' \in [Deploys -> Jobs] /\ FormatChosen'
    BY <2>1, <2>2, <2>4, JobMoves
  <2>6. waits' \in [Actors -> SUBSET Actors] /\ SlicesFitPhases'
    BY <1>1, <1>t, <1>j, Sequences, LongBeginsType, RunsUntouched DEF WriteDeployFence
  <2> QED BY <1>1, <1>t, <2>1, <2>3, <2>5, <2>6 DEF WriteDeployFence, RunsTyped, kvVars
<1>3. ASSUME TakeLease(d) PROVE RunsTyped'
  <2> DEFINE b == builds + 1
             j == [dep[d] EXCEPT !.pc = "sweep", !.built = b]
  <2>1. b \in 0..MaxBuilds
    BY <1>3, <1>t, MaxBuildsAssumption DEF TakeLease
  <2>2. builds' = b /\ lease' = [built |-> b, owner |-> "deploy", epoch |-> dep[d].at]
        /\ dep' = [dep EXCEPT ![d] = j]
    BY <1>3 DEF TakeLease
  <2> HIDE DEF b
  <2>3. lease' \in Lease
    BY <2>1, <2>2, <1>j DEF Lease, Jobs
  <2>4. j \in Jobs /\ j.fmt \in Formats
    BY <1>3, <1>j, <2>1 DEF Jobs, DeployPcs, TakeLease
  <2> HIDE DEF j
  <2>5. dep' \in [Deploys -> Jobs] /\ FormatChosen'
    BY <2>2, <2>4, JobMoves
  <2>6. SlicesFitPhases'
    BY <1>3, RunsUntouched DEF TakeLease
  <2> QED BY <1>3, <1>t, <2>1, <2>2, <2>3, <2>5, <2>6 DEF TakeLease, RunsTyped
<1>4. ASSUME DeployReadRoles(d) PROVE RunsTyped'
  <2>1. SlicesFitPhases'
    BY <1>4, RunsUntouched DEF DeployReadRoles
  <2>2. CASE dep' = [dep EXCEPT ![d].pc = "drop", ![d].seen = manifests] /\ UNCHANGED waits
    <3> DEFINE j == [dep[d] EXCEPT !.pc = "drop", !.seen = manifests]
    <3>1. j \in Jobs /\ j.fmt \in Formats
      BY <1>4, <1>t, <1>j DEF DeployReadRoles, Jobs, DeployPcs
    <3>2. dep' = [dep EXCEPT ![d] = j]
      BY <2>2
    <3> HIDE DEF j
    <3>3. dep' \in [Deploys -> Jobs] /\ FormatChosen'
      BY <3>1, <3>2, JobMoves
    <3> QED BY <1>4, <1>t, <2>1, <2>2, <3>3 DEF DeployReadRoles, RunsTyped, kvVars
  <2>3. CASE BeginDeployUpload(d)
    <3>1. dep[d].pc # "off"
      BY <1>4 DEF DeployReadRoles
    <3> QED BY <1>4, <1>t, <2>1, <2>3, <3>1, BeginDeployUploadTyped
        DEF DeployReadRoles, RunsTyped, kvVars
  <2> QED BY <1>4, <2>2, <2>3 DEF DeployReadRoles
<1>5. ASSUME DeployMakeRoom(d) PROVE RunsTyped'
  <2>1. SlicesFitPhases'
    BY <1>5, RunsUntouched DEF DeployMakeRoom
  <2>2. kv' \in Store
    BY <1>5, <1>t DEF DeployMakeRoom, Store, WithoutFamilies
  <2>3. CASE /\ Release(dep[d].built)
             /\ dep' = [dep EXCEPT ![d].pc = "dead", ![d].seen = NothingPublished]
             /\ SequenceOver(d)
    <3> DEFINE j == [dep[d] EXCEPT !.pc = "dead", !.seen = NothingPublished]
    <3>1. j \in Jobs /\ j.fmt \in Formats
      BY <1>5, <1>j, NothingPublishedType DEF DeployMakeRoom, Jobs, DeployPcs
    <3>2. dep' = [dep EXCEPT ![d] = j]
      BY <2>3
    <3> HIDE DEF j
    <3>3. dep' \in [Deploys -> Jobs] /\ FormatChosen'
      BY <3>1, <3>2, JobMoves
    <3>4. waits' \in [Actors -> SUBSET Actors] /\ lease' \in Lease
      BY <2>3, <1>t, <1>j, OverType, ReleaseType DEF SequenceOver
    <3> QED BY <1>5, <1>t, <2>1, <2>2, <3>3, <3>4 DEF DeployMakeRoom, RunsTyped, kvVars
  <2>4. CASE BeginDeployUpload(d) /\ UNCHANGED lease
    <3>1. dep[d].pc # "off"
      BY <1>5 DEF DeployMakeRoom
    <3> QED BY <1>5, <1>t, <2>1, <2>2, <2>4, <3>1, BeginDeployUploadTyped
        DEF DeployMakeRoom, RunsTyped, kvVars
  <2> QED BY <1>5, <2>3, <2>4 DEF DeployMakeRoom
<1>6. ASSUME DeployPutKey(d) PROVE RunsTyped'
  <2> DEFINE n == dep[d].done + 1
  <2>1. dep[d].done \in 0..Chunks /\ dep[d].pc # "off" /\ dep[d].fmt \in Formats
    BY <1>6, <1>j DEF DeployPutKey, Jobs
  <2>2. kv' \in Store
    <3>1. (IF n <= Chunks THEN n ELSE Filter) \in FamilyKeys
      BY <2>1, ChunksAssumption DEF FamilyKeys
    <3> HIDE DEF n
    <3>2. kv' = [kv EXCEPT ![dep[d].built] = @ \cup {IF n <= Chunks THEN n ELSE Filter}]
      BY <1>6 DEF DeployPutKey, n
    <3> QED BY <3>1, <3>2, <1>t DEF Store
  <2>3. dep' \in [Deploys -> Jobs] /\ FormatChosen'
    <3>1. CASE n <= Chunks /\ dep' = [dep EXCEPT ![d].done = n]
      <4> DEFINE j == [dep[d] EXCEPT !.done = n]
      <4>1. n \in 0..Chunks
        BY <3>1, <2>1, ChunksAssumption
      <4>2. dep' = [dep EXCEPT ![d] = j]
        BY <3>1
      <4> HIDE DEF n
      <4>3. j \in Jobs /\ j.fmt \in Formats
        BY <4>1, <2>1, <1>j DEF Jobs
      <4> HIDE DEF j
      <4> QED BY <4>2, <4>3, JobMoves
    <3>2. CASE dep' = [dep EXCEPT ![d].pc = "carry"]
      <4>1. Job(d, "carry")
        BY <3>2 DEF Job
      <4> QED BY <4>1, <2>1, <1>t, <1>f, JobType DEF DeployPcs
    <3> QED BY <1>6, <3>1, <3>2 DEF DeployPutKey
  <2>4. SlicesFitPhases'
    BY <1>6, RunsUntouched DEF DeployPutKey
  <2> QED BY <1>6, <1>t, <2>2, <2>3, <2>4 DEF DeployPutKey, RunsTyped
<1>7. ASSUME DeployReadReplaced(d) PROVE RunsTyped'
  <2>1. SlicesFitPhases'
    BY <1>7, RunsUntouched DEF DeployReadReplaced
  <2>2. dep[d].pc # "off" /\ dep[d].fmt \in Formats
    BY <1>7, <1>j DEF DeployReadReplaced
  <2>3. dep' \in [Deploys -> Jobs] /\ FormatChosen'
    <3>1. CASE dep' = [dep EXCEPT ![d].pc = "check",
                                  ![d].replaced = ReplacedManifest(manifests, dep[d].fmt),
                                  ![d].mirror = LegacyFollows(manifests, dep[d].fmt)]
      <4> DEFINE m == ReplacedManifest(manifests, dep[d].fmt)
                 y == LegacyFollows(manifests, dep[d].fmt)
                 j == [dep[d] EXCEPT !.pc = "check", !.replaced = m, !.mirror = y]
      <4>1. m \in Manifest /\ y \in BOOLEAN
        BY <2>2, <1>t, ReplacedManifestType DEF LegacyFollows
      <4>2. dep' = [dep EXCEPT ![d] = j]
        BY <3>1
      <4> HIDE DEF m, y
      <4>3. j \in Jobs /\ j.fmt \in Formats
        BY <4>1, <2>2, <1>j DEF Jobs, DeployPcs
      <4> HIDE DEF j
      <4> QED BY <4>2, <4>3, JobMoves
    <3>2. CASE Job(d, "check")
      BY <3>2, <2>2, <1>t, <1>f, JobType DEF DeployPcs
    <3> QED BY <1>7, <3>1, <3>2 DEF DeployReadReplaced
  <2> QED BY <1>7, <1>t, <2>1, <2>3 DEF DeployReadReplaced, RunsTyped, kvVars
<1>8. ASSUME DeployCheckLease(d) PROVE RunsTyped'
  <2>1. dep' \in [Deploys -> Jobs] /\ FormatChosen'
    BY <1>8, <1>t, <1>f, JobType DEF DeployCheckLease, DeployPcs
  <2>2. waits' \in [Actors -> SUBSET Actors] /\ SlicesFitPhases'
    BY <1>8, <1>t, <1>j, OverType, RunsUntouched DEF DeployCheckLease, SequenceOver
  <2> QED BY <1>8, <1>t, <2>1, <2>2 DEF DeployCheckLease, RunsTyped, kvVars
<1>9. ASSUME DeployWriteManifest(d) PROVE RunsTyped'
  <2>1. dep[d].pc # "off" /\ dep[d].fmt \in Formats
    BY <1>9, <1>j DEF DeployWriteManifest
  <2>2. manifests' \in Published
    <3>1. DeployManifest(d) \in Manifest
      BY <1>j, <2>1, NextManifestType DEF DeployManifest, Jobs
    <3> QED BY <1>9, <1>t, <3>1 DEF DeployWriteManifest, Published
  <2>3. dep' \in [Deploys -> Jobs] /\ FormatChosen' /\ SlicesFitPhases'
    BY <1>9, <2>1, <1>t, <1>f, JobType, RunsUntouched DEF DeployWriteManifest, DeployPcs
  <2> QED BY <1>9, <1>t, <2>2, <2>3 DEF DeployWriteManifest, RunsTyped
<1>10. ASSUME DeployWriteMirror(d) PROVE RunsTyped'
  <2>1. dep[d].pc # "off" /\ dep[d].fmt \in Formats
    BY <1>10, <1>j DEF DeployWriteMirror
  <2>2. manifests' \in Published
    <3>1. DeployManifest(d) \in Manifest
      BY <1>j, <2>1, NextManifestType DEF DeployManifest, Jobs
    <3> QED BY <1>10, <1>t, <3>1 DEF DeployWriteMirror, Published
  <2>3. dep' \in [Deploys -> Jobs] /\ FormatChosen' /\ SlicesFitPhases'
    BY <1>10, <2>1, <1>t, <1>f, JobType, RunsUntouched DEF DeployWriteMirror, DeployPcs
  <2> QED BY <1>10, <1>t, <2>2, <2>3 DEF DeployWriteMirror, RunsTyped
<1>11. ASSUME DeployReleaseLease(d) PROVE RunsTyped'
  <2>1. dep' \in [Deploys -> Jobs] /\ FormatChosen' /\ SlicesFitPhases'
    BY <1>11, <1>t, <1>f, JobType, RunsUntouched DEF DeployReleaseLease, DeployPcs
  <2>2. lease' \in Lease
    BY <1>11, <1>t, ReleaseType DEF DeployReleaseLease
  <2> QED BY <1>11, <1>t, <2>1, <2>2 DEF DeployReleaseLease, RunsTyped
<1>12. ASSUME DeploySweepRead(d) PROVE RunsTyped'
  <2> DEFINE own == [manifests EXCEPT ![dep[d].fmt] = DeployManifest(d)]
             j == [dep[d] EXCEPT !.pc = "lease", !.seen = own]
  <2>1. dep[d].fmt \in Formats
    BY <1>12, <1>j DEF DeploySweepRead
  <2>2. own \in Published
    <3>1. DeployManifest(d) \in Manifest
      BY <1>j, <2>1, NextManifestType DEF DeployManifest, Jobs
    <3> QED BY <1>t, <3>1 DEF Published
  <2>4. dep' = [dep EXCEPT ![d] = j]
    BY <1>12 DEF DeploySweepRead
  <2> HIDE DEF own
  <2>5. j \in Jobs /\ j.fmt \in Formats
    BY <1>j, <2>1, <2>2 DEF Jobs, DeployPcs
  <2> HIDE DEF j
  <2>6. dep' \in [Deploys -> Jobs] /\ FormatChosen' /\ SlicesFitPhases'
    BY <1>12, <2>4, <2>5, JobMoves, RunsUntouched DEF DeploySweepRead
  <2> QED BY <1>12, <1>t, <2>6 DEF DeploySweepRead, RunsTyped, kvVars
<1>16. ASSUME DeploySweepReadLease(d) PROVE RunsTyped'
  <2> DEFINE n == InFlight(lease.built, dep[d].seen)
             j == [dep[d] EXCEPT !.pc = "purge", !.inFlight = n]
  <2>1. dep[d].fmt \in Formats
    BY <1>16, <1>j DEF DeploySweepReadLease
  <2>2. n \in 0..MaxBuilds
    BY <1>t, InFlightType DEF Lease
  <2>3. dep' = [dep EXCEPT ![d] = j]
    BY <1>16 DEF DeploySweepReadLease
  <2> HIDE DEF n
  <2>4. j \in Jobs /\ j.fmt \in Formats
    BY <1>j, <2>1, <2>2 DEF Jobs, DeployPcs
  <2> HIDE DEF j
  <2>5. dep' \in [Deploys -> Jobs] /\ FormatChosen' /\ SlicesFitPhases'
    BY <1>16, <2>3, <2>4, JobMoves, RunsUntouched DEF DeploySweepReadLease
  <2> QED BY <1>16, <1>t, <2>5 DEF DeploySweepReadLease, RunsTyped, kvVars
<1>13. ASSUME DeploySweepDrop(d) PROVE RunsTyped'
  <2> DEFINE j == [dep[d] EXCEPT !.pc = "switch", !.seen = NothingPublished, !.inFlight = 0]
  <2>1. kv' \in Store
    BY <1>13, <1>t DEF DeploySweepDrop, Store, WithoutFamilies
  <2>2. j \in Jobs /\ j.fmt \in Formats
    <3>1. 0 \in 0..MaxBuilds /\ dep[d].fmt \in Formats
      BY <1>13, <1>j, MaxBuildsAssumption DEF DeploySweepDrop
    <3>2. [dep[d] EXCEPT !.pc = "switch", !.seen = NothingPublished, !.inFlight = 0] \in Jobs
      BY <1>j, <3>1, NothingPublishedType DEF Jobs, DeployPcs
    <3>3. j.fmt = dep[d].fmt
      BY <1>j DEF Jobs
    <3> QED BY <3>1, <3>2, <3>3
  <2>3. dep' = [dep EXCEPT ![d] = j]
    BY <1>13 DEF DeploySweepDrop
  <2> HIDE DEF j
  <2>4. dep' \in [Deploys -> Jobs] /\ FormatChosen' /\ SlicesFitPhases'
    BY <1>13, <2>2, <2>3, JobMoves, RunsUntouched DEF DeploySweepDrop
  <2> QED BY <1>13, <1>t, <2>1, <2>4 DEF DeploySweepDrop, RunsTyped
<1>14. ASSUME SwitchCode(d) PROVE RunsTyped'
  <2>1. code' \in Formats
    BY <1>14, <1>j DEF SwitchCode
  <2>2. dep' \in [Deploys -> Jobs] /\ FormatChosen' /\ SlicesFitPhases'
    BY <1>14, <1>t, <1>f, JobType, RunsUntouched DEF SwitchCode, DeployPcs
  <2>3. waits' \in [Actors -> SUBSET Actors]
    BY <1>14, <1>t, <1>j, OverType DEF SwitchCode, SequenceOver
  <2> QED BY <1>14, <1>t, <2>1, <2>2, <2>3 DEF SwitchCode, RunsTyped, kvVars
<1>15. ASSUME DeployDies(d) PROVE RunsTyped'
  <2> DEFINE j == [dep[d] EXCEPT !.pc = "dead", !.seen = NothingPublished, !.inFlight = 0]
  <2>1. j \in Jobs /\ j.fmt \in Formats
    <3>1. 0 \in 0..MaxBuilds /\ dep[d].fmt \in Formats
      BY <1>15, <1>j, MaxBuildsAssumption DEF DeployDies, Active
    <3>2. [dep[d] EXCEPT !.pc = "dead", !.seen = NothingPublished, !.inFlight = 0] \in Jobs
      BY <1>j, <3>1, NothingPublishedType DEF Jobs, DeployPcs
    <3>3. j.fmt = dep[d].fmt
      BY <1>j DEF Jobs
    <3> QED BY <3>1, <3>2, <3>3
  <2>2. dep' = [dep EXCEPT ![d] = j]
    BY <1>15 DEF DeployDies
  <2> HIDE DEF j
  <2>3. dep' \in [Deploys -> Jobs] /\ FormatChosen' /\ SlicesFitPhases'
    BY <1>15, <2>1, <2>2, JobMoves, RunsUntouched DEF DeployDies
  <2>4. waits' \in [Actors -> SUBSET Actors]
    BY <1>15, <1>t, <1>j, OverType DEF DeployDies, SequenceOver
  <2> QED BY <1>15, <1>t, <2>3, <2>4 DEF DeployDies, RunsTyped, kvVars
<1> QED
  BY <1>1, <1>3, <1>4, <1>5, <1>6, <1>7, <1>8, <1>9, <1>10, <1>11, <1>12, <1>13, <1>14, <1>15, <1>16
  DEF Deploy

(***************************************************************************)
(* A deploy before its fence: the sweep and the copy that take no lease.   *)
(***************************************************************************)
LEMMA RunKeepsPreparations ==
    ASSUME NEW c \in Coordinators, Run(c)
    PROVE  UNCHANGED <<prep, astray>>
<1>1. CASE StartImport(c) \/ Retire(c) \/ RetirePurged(c) \/ FailRun(c) \/ KillSlice(c)
  BY <1>1 DEF StartImport, Retire, RetirePurged, FailRun, KillSlice, prepVars
<1>2. CASE StampBuild(c) \/ ClaimLease(c) \/ PutLease(c) \/ ReadRoles(c) \/ MakeRoom(c)
  BY <1>2 DEF StampBuild, ClaimLease, PutLease, ReadRoles, MakeRoom, prepVars
<1>3. CASE PutFilter(c) \/ RenewFence(c) \/ RenewLease(c) \/ ChunkFence(c) \/ PutChunk(c)
  BY <1>3 DEF PutFilter, RenewFence, RenewLease, ChunkFence, PutChunk, prepVars
<1>4. CASE ReadReplaced(c) \/ CheckChunks(c) \/ CommitFence(c) \/ WriteManifest(c) \/ WriteMirror(c)
  BY <1>4 DEF ReadReplaced, CheckChunks, CommitFence, WriteManifest, WriteMirror, prepVars
<1>5. CASE ReleaseLease(c) \/ SweepRead(c) \/ SweepDrop(c) \/ FinishRun(c)
  BY <1>5 DEF ReleaseLease, SweepRead, SweepDrop, FinishRun, prepVars
<1> QED BY <1>1, <1>2, <1>3, <1>4, <1>5 DEF Run, Slice

LEMMA DeployKeepsPreparations ==
    ASSUME NEW d \in Deploys, Deploy(d)
    PROVE  UNCHANGED <<prep, astray>>
<1>1. CASE WriteDeployFence(d) \/ TakeLease(d) \/ DeployReadRoles(d) \/ DeployMakeRoom(d) \/ DeployPutKey(d)
  BY <1>1 DEF WriteDeployFence, TakeLease, DeployReadRoles, DeployMakeRoom, DeployPutKey, prepVars
<1>2. CASE \/ DeployReadReplaced(d) \/ DeployCheckLease(d) \/ DeployWriteManifest(d) \/ DeployWriteMirror(d)
           \/ DeployReleaseLease(d)
  BY <1>2 DEF DeployReadReplaced, DeployCheckLease, DeployWriteManifest, DeployWriteMirror,
              DeployReleaseLease, prepVars
<1>3. CASE \/ DeploySweepRead(d) \/ DeploySweepReadLease(d) \/ DeploySweepDrop(d) \/ SwitchCode(d)
           \/ DeployDies(d)
  BY <1>3 DEF DeploySweepRead, DeploySweepReadLease, DeploySweepDrop, SwitchCode, DeployDies, prepVars
<1> QED BY <1>1, <1>2, <1>3 DEF Deploy

\* What the steps before the fence leave alone.
LEMMA PrepareKeeps ==
    ASSUME NEW d \in Deploys, Prepare(d)
    PROVE  /\ UNCHANGED <<lease, pointer, fence, builds, co, slice, dep>>
           /\ UNCHANGED waits \/ waits' = Over(d)
           /\ UNCHANGED code \/ SkipImport(d)
           /\ UNCHANGED kv \/ PruneDrop(d)
           /\ UNCHANGED manifests \/ EnsureCopy(d)
           /\ UNCHANGED astray \/ PruneReadLease(d) \/ EnsureCopy(d)
<1>1. CASE BeginDeploy(d) \/ PruneReadManifests(d) \/ PruneReadLease(d) \/ PruneDrop(d)
  BY <1>1 DEF BeginDeploy, PruneReadManifests, PruneReadLease, PruneDrop, kvVars
<1>2. CASE EnsureReadOwn(d) \/ EnsureReadLegacy(d) \/ EnsureCopy(d)
  BY <1>2 DEF EnsureReadOwn, EnsureReadLegacy, EnsureCopy, Prepared, SequenceOver, kvVars
<1>3. CASE SkipImport(d) \/ PreparationDies(d)
  BY <1>3 DEF SkipImport, PreparationDies, SequenceOver, kvVars
<1> QED BY <1>1, <1>2, <1>3 DEF Prepare

\* A job's record before its fence changes.
LEMMA PreparationMoves ==
    ASSUME Typed, NEW d \in Deploys, NEW j \in Preparations, prep' = [prep EXCEPT ![d] = j],
           j.pc = "off" \/ j.fmt \in Formats,
           j.pc = "copy" => j.copied.built # NoFamily /\ j.copied.fmt = j.fmt
    PROVE  prep' \in [Deploys -> Preparations] /\ CopyChosen'
<1>1. prep \in [Deploys -> Preparations] /\ CopyChosen
  BY DEF Typed, TypeOK
<1>2. prep'[d] = j /\ \A e \in Deploys \ {d} : prep'[e] = prep[e]
  BY <1>1
<1> QED BY <1>1, <1>2 DEF CopyChosen

\* The sweep before the fence is over, or the whole job is.
LEMMA PruneOverTyped ==
    ASSUME Typed, NEW d \in Deploys, prep[d].pc # "off", NEW pc \in {"own", "over"},
           NEW m \in {prep[d].copied, NoManifest},
           prep' = [prep EXCEPT ![d].pc = pc, ![d].seen = NothingPublished,
                                ![d].holder = NoFamily, ![d].copied = m]
    PROVE  prep' \in [Deploys -> Preparations] /\ CopyChosen'
<1>1. prep[d] \in Preparations /\ prep[d].fmt \in Formats
  BY DEF Typed, TypeOK, CopyChosen
<1> DEFINE j == [prep[d] EXCEPT !.pc = pc, !.seen = NothingPublished, !.holder = NoFamily, !.copied = m]
<1>2. NoFamily \in 0..MaxBuilds /\ m \in Manifest
  BY <1>1, NoManifestType, MaxBuildsAssumption DEF NoFamily, Preparations
<1>3. j \in Preparations /\ j.fmt \in Formats /\ j.pc = pc
  BY <1>1, <1>2, NothingPublishedType DEF Preparations, PrepPcs, PrepSteps
<1>4. prep' = [prep EXCEPT ![d] = j]
  OBVIOUS
<1> HIDE DEF j
<1> QED BY <1>3, <1>4, PreparationMoves

\* A family the sweep overlooks is one that was stamped.
LEMMA OverlookedType ==
    ASSUME Typed, NEW d \in Deploys
    PROVE  Overlooked(d) \subseteq Families
<1>1. manifests \in Published
  BY DEF Typed, TypeOK
<1>2. LiveFamilies(manifests) \subseteq Families
  BY <1>1, MaxBuildsAssumption DEF LiveFamilies, Published, Manifest, Families, NoFamily
<1>3. Rollback(manifests) \in Families \cup {NoFamily}
  BY <1>1, PrimaryType, MaxBuildsAssumption DEF Rollback, Manifest, Families, NoFamily
<1> QED BY <1>2, <1>3 DEF Overlooked

LEMMA PrepareTyped ==
    ASSUME Typed, NEW d \in Deploys, Prepare(d)
    PROVE  Typed'
<1>t. /\ kv \in Store /\ manifests \in Published /\ lease \in Lease
      /\ pointer \in Coordinators /\ fence \in Nat /\ code \in Formats /\ builds \in 0..MaxBuilds
      /\ co \in [Coordinators -> Runs] /\ slice \in [Coordinators -> Slices]
      /\ dep \in [Deploys -> Jobs] /\ waits \in [Actors -> SUBSET Actors]
      /\ prep \in [Deploys -> Preparations] /\ astray \subseteq Families
  BY DEF Typed, TypeOK
<1>p. prep[d] \in Preparations /\ d \in Actors /\ (prep[d].pc = "off" \/ prep[d].fmt \in Formats)
  BY <1>t DEF Actors, CopyChosen, Typed
<1>f. FormatChosen /\ CopyChosen
  BY DEF Typed
<1>1. SlicesFitPhases' /\ FormatChosen'
  BY <1>f, RunsUntouched, PrepareKeeps DEF FormatChosen
<1>2. waits' \in [Actors -> SUBSET Actors]
  BY <1>t, <1>p, OverType, PrepareKeeps
<1>3. kv' \in Store
  BY <1>t, PrepareKeeps DEF PruneDrop, Store, WithoutFamilies
<1>4. manifests' \in Published
  <2>1. ASSUME EnsureCopy(d) PROVE manifests' \in Published
    <3>1. prep[d].fmt \in Formats /\ prep[d].copied \in Manifest
      BY <2>1, <1>p DEF EnsureCopy, Preparations
    <3> QED BY <2>1, <3>1, <1>t DEF EnsureCopy, Published
  <2> QED BY <2>1, <1>t, PrepareKeeps
<1>5. code' \in Formats
  <2>1. ASSUME SkipImport(d) PROVE code' \in Formats
    BY <2>1, <1>p DEF SkipImport, Preparing
  <2> QED BY <2>1, <1>t, PrepareKeeps
<1>6. astray' \subseteq Families
  <2>1. ASSUME PruneReadLease(d) PROVE astray' \subseteq Families
    BY <2>1, <1>t, OverlookedType DEF PruneReadLease
  <2>2. ASSUME EnsureCopy(d) PROVE astray' \subseteq Families
    <3>1. prep[d].fmt \in Formats /\ prep[d].copied \in Manifest
      BY <2>2, <1>p DEF EnsureCopy, Preparations
    <3>2. PutBack(d) \subseteq Families
      BY <3>1, <1>t, MaxBuildsAssumption DEF PutBack, Published, ManifestKeys, Manifest, Families, NoFamily
    <3> QED BY <2>2, <3>2, <1>t DEF EnsureCopy
  <2> QED BY <2>1, <2>2, <1>t, PrepareKeeps
<1>7. prep' \in [Deploys -> Preparations] /\ CopyChosen'
  <2>1. ASSUME BeginDeploy(d) PROVE prep' \in [Deploys -> Preparations] /\ CopyChosen'
    <3>1. PICK f \in Formats, skips \in BOOLEAN :
                prep' = [prep EXCEPT ![d].pc = "roles", ![d].fmt = f, ![d].skips = skips]
      BY <2>1 DEF BeginDeploy
    <3> DEFINE j == [prep[d] EXCEPT !.pc = "roles", !.fmt = f, !.skips = skips]
    <3>2. j \in Preparations /\ j.fmt \in Formats /\ j.pc = "roles"
      BY <1>p DEF Preparations, PrepPcs, PrepSteps
    <3>3. prep' = [prep EXCEPT ![d] = j]
      BY <3>1
    <3> HIDE DEF j
    <3> QED BY <3>2, <3>3, PreparationMoves
  <2>2. ASSUME PruneOver(d), prep[d].pc # "off" PROVE prep' \in [Deploys -> Preparations] /\ CopyChosen'
    <3>1. prep' = [prep EXCEPT ![d].pc = "own", ![d].seen = NothingPublished,
                               ![d].holder = NoFamily, ![d].copied = prep[d].copied]
      BY <2>2, <1>t DEF PruneOver, Preparations
    <3> QED BY <2>2, <3>1, PruneOverTyped
  <2>3. ASSUME PruneReadManifests(d) PROVE prep' \in [Deploys -> Preparations] /\ CopyChosen'
    <3> DEFINE b == lease.built
               j == [prep[d] EXCEPT !.pc = "lease", !.seen = manifests, !.holder = b]
    <3>1. CASE prep' = [prep EXCEPT ![d].pc = "lease", ![d].seen = manifests, ![d].holder = b]
      <4>1. b \in 0..MaxBuilds /\ prep[d].fmt \in Formats
        BY <2>3, <1>t, <1>p DEF Lease, PruneReadManifests
      <4> HIDE DEF b
      <4>2. j \in Preparations /\ j.fmt \in Formats /\ j.pc = "lease"
        BY <4>1, <1>t, <1>p DEF Preparations, PrepPcs, PrepSteps
      <4>3. prep' = [prep EXCEPT ![d] = j]
        BY <3>1
      <4> HIDE DEF j
      <4> QED BY <4>2, <4>3, PreparationMoves
    <3> QED BY <3>1, <2>2, <2>3 DEF PruneReadManifests
  <2>4. ASSUME PruneReadLease(d) PROVE prep' \in [Deploys -> Preparations] /\ CopyChosen'
    <3> DEFINE b == lease.built
               j == [prep[d] EXCEPT !.pc = "drop", !.holder = b]
    <3>1. CASE prep' = [prep EXCEPT ![d].pc = "drop", ![d].holder = b]
      <4>1. b \in 0..MaxBuilds /\ prep[d].fmt \in Formats
        BY <2>4, <1>t, <1>p DEF Lease, PruneReadLease
      <4> HIDE DEF b
      <4>2. j \in Preparations /\ j.fmt \in Formats /\ j.pc = "drop"
        BY <4>1, <1>p DEF Preparations, PrepPcs, PrepSteps
      <4>3. prep' = [prep EXCEPT ![d] = j]
        BY <3>1
      <4> HIDE DEF j
      <4> QED BY <4>2, <4>3, PreparationMoves
    <3> QED BY <3>1, <2>2, <2>4 DEF PruneReadLease
  <2>5. ASSUME PruneDrop(d) PROVE prep' \in [Deploys -> Preparations] /\ CopyChosen'
    BY <2>5, <2>2 DEF PruneDrop
  <2>6. ASSUME Prepared(d), prep[d].pc # "off" PROVE prep' \in [Deploys -> Preparations] /\ CopyChosen'
    <3> DEFINE j == [prep[d] EXCEPT !.pc = "ready", !.copied = NoManifest]
    <3>1. j \in Preparations /\ j.fmt \in Formats /\ j.pc = "ready"
      BY <2>6, <1>p, NoManifestType DEF Preparations, PrepPcs
    <3>2. prep' = [prep EXCEPT ![d] = j]
      BY <2>6 DEF Prepared
    <3> HIDE DEF j
    <3> QED BY <3>1, <3>2, PreparationMoves
  <2>7. ASSUME EnsureReadOwn(d) PROVE prep' \in [Deploys -> Preparations] /\ CopyChosen'
    <3> DEFINE j == [prep[d] EXCEPT !.pc = "legacy"]
    <3>1. CASE prep' = [prep EXCEPT ![d].pc = "legacy"]
      <4>1. j \in Preparations /\ j.fmt \in Formats /\ j.pc = "legacy"
        BY <2>7, <1>p DEF EnsureReadOwn, Preparations, PrepPcs, PrepSteps
      <4>2. prep' = [prep EXCEPT ![d] = j]
        BY <3>1
      <4> HIDE DEF j
      <4> QED BY <4>1, <4>2, PreparationMoves
    <3> QED BY <3>1, <2>6, <2>7 DEF EnsureReadOwn
  <2>8. ASSUME EnsureReadLegacy(d) PROVE prep' \in [Deploys -> Preparations] /\ CopyChosen'
    <3> DEFINE m == manifests[Legacy]
               j == [prep[d] EXCEPT !.pc = "copy", !.copied = m]
    <3>1. CASE /\ m.built # NoFamily /\ m.fmt = prep[d].fmt
               /\ prep' = [prep EXCEPT ![d].pc = "copy", ![d].copied = m]
      <4>1. m \in Manifest /\ prep[d].fmt \in Formats
        BY <2>8, <1>t, <1>p DEF EnsureReadLegacy, Published, ManifestKeys
      <4>2. prep' = [prep EXCEPT ![d] = j]
        BY <3>1
      <4>3. m.built # NoFamily /\ m.fmt = prep[d].fmt
        BY <3>1
      <4> HIDE DEF m
      <4>4. j \in Preparations /\ j.fmt = prep[d].fmt /\ j.copied = m
        BY <4>1, <1>p DEF Preparations, PrepPcs, PrepSteps
      <4> HIDE DEF j
      <4> QED BY <4>1, <4>2, <4>3, <4>4, PreparationMoves
    <3> QED BY <3>1, <2>6, <2>8 DEF EnsureReadLegacy
  <2>9. ASSUME EnsureCopy(d) PROVE prep' \in [Deploys -> Preparations] /\ CopyChosen'
    BY <2>9, <2>6 DEF EnsureCopy
  <2>10. ASSUME SkipImport(d) PROVE prep' \in [Deploys -> Preparations] /\ CopyChosen'
    <3> DEFINE j == [prep[d] EXCEPT !.pc = "over"]
    <3>1. j \in Preparations /\ j.fmt \in Formats /\ j.pc = "over"
      BY <2>10, <1>p DEF SkipImport, Preparing, Preparations, PrepPcs
    <3>2. prep' = [prep EXCEPT ![d] = j]
      BY <2>10 DEF SkipImport
    <3> HIDE DEF j
    <3> QED BY <3>1, <3>2, PreparationMoves
  <2>11. ASSUME PreparationDies(d) PROVE prep' \in [Deploys -> Preparations] /\ CopyChosen'
    BY <2>11, PruneOverTyped DEF PreparationDies, Preparing
  <2> QED BY <2>1, <2>3, <2>4, <2>5, <2>7, <2>8, <2>9, <2>10, <2>11 DEF Prepare
<1>8. UNCHANGED <<lease, pointer, fence, builds, co, slice, dep>>
  BY PrepareKeeps
<1> QED BY <1>t, <1>1, <1>2, <1>3, <1>4, <1>5, <1>6, <1>7, <1>8 DEF Typed, TypeOK

LEMMA TypedInit == Init => Typed
<1> SUFFICES ASSUME Init PROVE Typed
  OBVIOUS
<1>1. kv \in Store
  BY DEF Init, Store
<1>2. manifests \in Published
  <2>1. PICK keys : manifests = [k \in ManifestKeys |->
              IF k \in keys /\ ~EmptyStart THEN [built |-> 2, fmt |-> code, prev |-> 1]
              ELSE NoManifest]
    BY DEF Init
  <2>2. ~EmptyStart => [built |-> 2, fmt |-> code, prev |-> 1] \in Manifest
    BY MaxBuildsAssumption, CasesAssumption DEF Init, Manifest
  <2> QED BY <2>1, <2>2, NoManifestType DEF Published
<1>3. builds \in 0..MaxBuilds
  BY MaxBuildsAssumption, CasesAssumption DEF Init
<1>4. lease \in Lease /\ pointer \in Coordinators /\ fence \in Nat /\ code \in Formats
  BY MaxBuildsAssumption, MaxEpochAssumption DEF Init, NoLease, NoFamily, Lease, Coordinators
<1>5. co \in [Coordinators -> Runs]
  BY IdleRunType DEF Init
<1>6. slice \in [Coordinators -> Slices]
  BY NothingPublishedType, NoManifestType DEF Init, AtRest, Slices, SlicePcs
<1>7. dep \in [Deploys -> Jobs]
  BY NothingPublishedType, NoManifestType, MaxBuildsAssumption, ChunksAssumption
  DEF Init, NotStarted, Jobs, DeployPcs
<1>8. waits \in [Actors -> SUBSET Actors]
  BY DEF Init
<1>9. SlicesFitPhases /\ FormatChosen
  BY DEF Init, SlicesFitPhases, FitsPhase, IdleRun, AtRest, FormatChosen, NotStarted
<1>10. prep \in [Deploys -> Preparations] /\ astray \subseteq Families /\ CopyChosen
  BY NothingPublishedType, NoManifestType, MaxBuildsAssumption
  DEF Init, Unprepared, Preparations, PrepPcs, NoFamily, CopyChosen
<1> QED BY <1>1, <1>2, <1>3, <1>4, <1>5, <1>6, <1>7, <1>8, <1>9, <1>10 DEF Typed, TypeOK

\* A step that leaves the jobs before their fence alone keeps them typed.
LEMMA RestTyped ==
    ASSUME Typed, RunsTyped', UNCHANGED <<prep, astray>>
    PROVE  Typed'
BY DEF Typed, TypeOK, RunsTyped, CopyChosen

LEMMA TypedStep == Typed /\ [Next]_vars => Typed'
<1> SUFFICES ASSUME Typed, [Next]_vars PROVE Typed'
  OBVIOUS
<1>1. CASE Failover
  <2>1. pointer' \in Coordinators
    BY <1>1, MaxEpochAssumption DEF Failover, Typed, TypeOK, Coordinators
  <2>2. SlicesFitPhases'
    BY <1>1, RunsUntouched DEF Failover
  <2> QED BY <1>1, <2>1, <2>2 DEF Failover, Typed, TypeOK, kvVars, prepVars, FormatChosen, CopyChosen
<1>2. CASE LeaseExpires
  <2>1. lease' \in Lease
    BY <1>2, MaxBuildsAssumption DEF LeaseExpires, Lease, NoLease, NoFamily
  <2>2. SlicesFitPhases'
    BY <1>2, RunsUntouched DEF LeaseExpires
  <2> QED BY <1>2, <2>1, <2>2 DEF LeaseExpires, Typed, TypeOK, prepVars, FormatChosen, CopyChosen
<1>3. CASE UNCHANGED vars
  BY <1>3 DEF vars, Typed, TypeOK, FormatChosen, CopyChosen, SlicesFitPhases, FitsPhase
<1>4. ASSUME NEW c \in Coordinators, Run(c) PROVE Typed'
  BY <1>4, RunTyped, RunKeepsPreparations, RestTyped
<1>5. ASSUME NEW d \in Deploys, Deploy(d) PROVE Typed'
  BY <1>5, DeployTyped, DeployKeepsPreparations, RestTyped
<1> QED BY <1>1, <1>2, <1>3, <1>4, <1>5, PrepareTyped DEF Next

\* No history of writes, sweeps, failovers, kills and deploys leaves a record of
\* the wrong shape: a cursor past the family's last chunk, a lease or manifest
\* naming a build nobody stamped, a deploy of no format.
THEOREM TypeCorrect == Spec => []TypeOK
<1>1. Typed => TypeOK
  BY DEF Typed
<1> QED BY <1>1, TypedInit, TypedStep, PTL DEF Spec
=============================================================================
