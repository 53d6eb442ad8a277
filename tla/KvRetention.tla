---------------------------- MODULE KvRetention ----------------------------
(***************************************************************************)
(* The pure decisions of src/engine/kv-retention.ts: which families of     *)
(* generation keys stay in KV, who may hold the upload lease, which        *)
(* manifests an archive-format switch retires, and the byte guard.  The    *)
(* coordinator and the deploy scripts both decide through these, so they   *)
(* are operators here and every writer of StorePublish uses them.          *)
(*                                                                         *)
(* A family is named by its built_at.  Timestamps are abstracted to their  *)
(* order: family n is the n-th build stamped, 0 stands for "no family".    *)
(* A family's keys are the chunks of its partitions, 1..Chunks in upload   *)
(* order, and its routing filter; a key weighs one unit of the byte guard. *)
(***************************************************************************)
EXTENDS Integers, FiniteSets

CONSTANTS
    MaxBuilds,   \* Bound: builds stamped in one behaviour.
    LatestFormat, \* The newest archive format a build of the code can speak.
    Chunks,      \* Chunks in one family.
    KvLimit      \* KV_GUARD_BYTES, in keys, less what the stable keys take.

ASSUME MaxBuildsAssumption == MaxBuilds \in Nat \ {0}
ASSUME FormatsAssumption == LatestFormat \in Nat \ {0}
ASSUME ChunksAssumption == Chunks \in Nat \ {0}
ASSUME KvLimitAssumption == KvLimit \in Nat

Families == 1..MaxBuilds
NoFamily == 0

(***************************************************************************)
(* A manifest names the family it publishes, that family's archive format  *)
(* and the family it replaced (previous_built_at).  Each format has a key  *)
(* of its own; Legacy is the mirror `store:manifest`.  A key holding       *)
(* NoManifest is absent.                                                   *)
(***************************************************************************)
Formats == 1..LatestFormat
Legacy == 0
ManifestKeys == Formats \cup {Legacy}
Manifest == [built : 0..MaxBuilds, fmt : Formats \cup {0}, prev : 0..MaxBuilds]
NoManifest == [built |-> NoFamily, fmt |-> 0, prev |-> NoFamily]

\* readPublishedManifests: what every writer reads before it decides anything.
Published == [ManifestKeys -> Manifest]

\* liveManifestRoles' sort: newest format, then not the mirror, then newest build.
SortsBefore(pub, j, k) ==
    \/ pub[j].fmt > pub[k].fmt
    \/ pub[j].fmt = pub[k].fmt /\ j # Legacy /\ k = Legacy
    \/ /\ pub[j].fmt = pub[k].fmt
       /\ (j = Legacy) <=> (k = Legacy)
       /\ pub[j].built > pub[k].built

Primary(pub) ==
    LET usable == {k \in ManifestKeys : pub[k].built # NoFamily}
    IN  IF usable = {} THEN NoManifest
        ELSE pub[CHOOSE j \in usable : \A k \in usable : ~SortsBefore(pub, k, j)]

\* Mutations: only the primary's family is live; only the mirror's is.
LiveFamilies_PrimaryOnly(pub) == {Primary(pub).built} \ {NoFamily}
LiveFamilies_MirrorOnly(pub) == {pub[Legacy].built} \ {NoFamily}

LiveFamilies(pub) == {pub[k].built : k \in ManifestKeys} \ {NoFamily}
OtherLive(pub) == LiveFamilies(pub) \ {Primary(pub).built}

\* Mutation: the replaced manifest is the mirror's.
ReplacedManifest_Mirror(pub, f) == pub[Legacy]

\* The manifest a publish of format f replaces: its own format's, else the primary.
ReplacedManifest(pub, f) ==
    IF pub[f].built # NoFamily THEN pub[f] ELSE Primary(pub)

\* The record a publisher of family b writes, given the manifest it replaces.
NextManifest(b, f, replaced) ==
    [built |-> b, fmt |-> f,
     prev  |-> IF replaced.built = b THEN replaced.prev ELSE replaced.built]

\* Mutation: every publish overwrites the mirror.
LegacyFollows_Always(pub, f) == TRUE

\* The mirror is written only while it is absent or already holds this format.
LegacyFollows(pub, f) == pub[Legacy].built = NoFamily \/ pub[Legacy].fmt = f

(***************************************************************************)
(* planFormatRetirement and retireOlderFormats: once format f has its own  *)
(* manifest, the manifests of lower formats go and a mirror that is absent *)
(* or lower moves forward to f's.                                          *)
(***************************************************************************)
RetireOlderFormats(pub, f) ==
    IF pub[f].built = NoFamily THEN pub
    ELSE [k \in ManifestKeys |->
            CASE k = Legacy -> IF pub[k].fmt < f THEN pub[f] ELSE pub[k]
              [] OTHER      -> IF k < f THEN NoManifest ELSE pub[k]]

(***************************************************************************)
(* The upload lease: one record, the family allowed to be in flight.  A    *)
(* coordinator's name is a function of its epoch, so "same owner" is       *)
(* "both are runs of the same epoch".                                      *)
(***************************************************************************)
NoLease == [built |-> NoFamily, owner |-> "none", epoch |-> 0]

\* What the claimant hears: "take", "wait" (a deploy holds it) or "yield".
DecideUploadLease(held, claim) ==
    IF \/ held.built \in {NoFamily, claim.built}
       \/ claim.owner = "deploy"
       \/ /\ held.owner = "run"
          /\ claim.epoch >= held.epoch
    THEN "take"
    ELSE IF held.owner = "deploy" THEN "wait" ELSE "yield"

(***************************************************************************)
(* The KV namespace's generation keys: the ones present, per family.       *)
(***************************************************************************)
Filter == 0
FamilyKeys == (1..Chunks) \cup {Filter}
Store == [Families -> SUBSET FamilyKeys]
Present(kv) == {f \in Families : kv[f] # {}}
Bytes(kv, fams) == Cardinality({k \in fams \X FamilyKeys : k[2] \in kv[k[1]]})

\* missingManifestChunks finds none: what a reader needs to load the store.
Complete(kv, f) == 1..Chunks \subseteq kv[f]
WithoutFamilies(kv, fams) == [f \in Families |-> IF f \in fams THEN {} ELSE kv[f]]

\* The family to roll back to; a manifest that names none falls back to the
\* newest family present that is older than it and plays no other role.
RollbackFor(live, present, inFlight, others) ==
    LET older == {f \in present \ (others \cup {inFlight}) : f < live.built}
    IN  IF live.built = NoFamily \/ live.prev = live.built THEN NoFamily
        ELSE IF live.prev # NoFamily THEN live.prev
        ELSE IF older # {} THEN CHOOSE f \in older : \A g \in older : g <= f
        ELSE NoFamily

\* Mutation: two families at most, so an upload always costs the rollback.
RollbackRole_CapTwo(kv, pub, inFlight) ==
    LET live   == Primary(pub)
        others == OtherLive(pub)
        rb     == RollbackFor(live, Present(kv), inFlight, others)
        named  == ({live.built, inFlight} \cup others) \ {NoFamily}
    IN  IF rb \in named \/ Cardinality(named \cup {rb}) >= 3 THEN NoFamily ELSE rb

\* The rollback role, given up when another role has the family already or
\* when it would be a fourth.
RollbackRole(kv, pub, inFlight) ==
    LET live   == Primary(pub)
        others == OtherLive(pub)
        rb     == RollbackFor(live, Present(kv), inFlight, others)
        named  == ({live.built, inFlight} \cup others) \ {NoFamily}
    IN  IF rb \in named \/ Cardinality(named \cup {rb}) > 3 THEN NoFamily ELSE rb

DecideByteGuard(used, rollbackBytes, incoming) ==
    CASE used + incoming <= KvLimit                 -> "go"
      [] /\ rollbackBytes > 0
         /\ used + incoming > KvLimit
         /\ used + incoming - rollbackBytes <= KvLimit -> "drop-rollback"
      [] OTHER                                      -> "refuse"

NoGuard == -1  \* incomingBytes is undefined: sweep, and ask nothing

\* Mutation: retention by age, which spares whatever is newer than the live build.
PlanRetention_ByAge(kv, pub, inFlight, incoming) ==
    LET live == Primary(pub).built
        rb   == RollbackRole(kv, pub, inFlight)
    IN  [retire   |-> {f \in Present(kv) : f < live /\ f \notin LiveFamilies(pub) \cup {rb, inFlight}},
         decision |-> "go"]

(***************************************************************************)
(* planRetention: families without a role are retired (only if a live      *)
(* manifest is known), then the byte guard is asked about the new family.  *)
(***************************************************************************)
PlanRetention(kv, pub, inFlight, incoming) ==
    LET rb     == RollbackRole(kv, pub, inFlight)
        kept   == LiveFamilies(pub) \cup {rb, inFlight}
        orphan == IF Primary(pub).built = NoFamily THEN {} ELSE Present(kv) \ kept
        used   == Bytes(kv, Present(kv) \ orphan)
        guard  == DecideByteGuard(used, Bytes(kv, {rb} \cap Families), incoming)
    IN  IF incoming = NoGuard
        THEN [retire |-> orphan, decision |-> "sweep"]
        ELSE [retire   |-> IF guard = "drop-rollback" THEN orphan \cup {rb} ELSE orphan,
              decision |-> guard]

\* Mutation: the projection forgets NEW_FAMILY_ALLOWANCE.
RunIncoming_NoAllowance(pub, f) ==
    IF ReplacedManifest(pub, f).built = NoFamily THEN NoGuard ELSE Chunks

\* A run does not know its size yet: the replaced store's, and a tenth (NEW_FAMILY_ALLOWANCE).
RunIncoming(pub, f) ==
    IF ReplacedManifest(pub, f).built = NoFamily THEN NoGuard ELSE (Chunks * 11 + 9) \div 10
=============================================================================
