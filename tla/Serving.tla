------------------------------ MODULE Serving ------------------------------
(***************************************************************************)
(* The serving machines that are proved about: the calls of a gather       *)
(* (SiblingCalls), the page it puts together (Gather), the width the       *)
(* isolates of a region agree on (ShardController), the region users are   *)
(* sent to (Placement) and a lookup of cards in the partitions             *)
(* (PartitionLookup).  They share no state; "which" says of which machine  *)
(* a behaviour is.                                                         *)
(***************************************************************************)
EXTENDS Integers, Sequences

CONSTANTS
    SiblingCount, SIBLING_CALLS_AT_ONCE, Neighbour, Cooling,
    Isolates, MaxShards,
    RegionHints, Continent, UNSERVED_SEED, Answers, Watched,
    SICK_NIGHTS, MOVE_COOLDOWN, MAX_AUTO_MOVES, MAX_ENGINE_EPOCH, MaxGeneration, Nowhere,
    Partitions, Own, DEEP_OFFSET_PROBE, Layouts, Asks, Worlds

VARIABLES
    which,      \* The machine.
    c,          \* SiblingCalls
    g,          \* Gather
    w,          \* ShardController
    n,          \* Placement
    l           \* PartitionLookup

Calls == INSTANCE SiblingCalls
Page == INSTANCE Gather
Region == INSTANCE ShardController
Nights == INSTANCE Placement WITH Hints <- RegionHints, None <- Nowhere
Lookup == INSTANCE PartitionLookup

(* Partitions beside the coordinator's own, and slots for the calls.       *)
CallsAssumption == SiblingCount \in Nat /\ SIBLING_CALLS_AT_ONCE \in Nat \ {0} /\ Neighbour \in BOOLEAN

(* Partitions are numbered; the coordinator has one of them.  A build has  *)
(* a partition count and rows in those partitions.                         *)
LayoutsAssumption ==
    /\ Partitions \subseteq Nat /\ Own \in Partitions
    /\ \A layout \in Layouts:
         /\ Len(layout.width) \in Nat \ {0}
         /\ \A b \in 1..Len(layout.width):
              /\ layout.width[b] \in Nat /\ 0..(layout.width[b] - 1) \subseteq Partitions
              /\ \A r \in layout.store[b]: r.part \in 0..(layout.width[b] - 1)
    /\ \A ask \in Asks: ask.list \in Nat /\ ask.names \in Nat

(* What the cap is: at least the one shard every region has.               *)
CapAssumption == MaxShards \in Nat \ {0}

(* The regions are listed once each or more, Watched among them, and the   *)
(* seed sends users to regions that are served.                            *)
RegionsAssumption ==
    /\ RegionHints \in Seq(Nights!HintSet) /\ Watched \in Nights!HintSet /\ Nowhere \notin Nights!HintSet
    /\ UNSERVED_SEED \in [Nights!HintSet -> Nights!HintSet \cup {Nowhere}]
    /\ \A h \in Nights!HintSet: UNSERVED_SEED[h] # Nowhere =>
         UNSERVED_SEED[h] # h /\ UNSERVED_SEED[UNSERVED_SEED[h]] = Nowhere
    /\ SICK_NIGHTS \in Nat /\ MOVE_COOLDOWN \in Nat /\ MAX_AUTO_MOVES \in Nat /\ MAX_ENGINE_EPOCH \in Nat

(* A build's partitions are numbered from zero, and its cards are in them. *)
(* An oracle id is where it hashes to.  At one partition count a key that  *)
(* both builds have stays where it is.  A lookup of one key is of an id,   *)
(* and "sole" promises that it is held once.                               *)
WorldsAssumption ==
    /\ Partitions \subseteq Nat
    /\ \A world \in Worlds:
         /\ world.rule \in {"lowest", "sole", "batch", "pinned", "named"} /\ 1 \in DOMAIN world.keys
         /\ \A b \in Lookup!Builds: world.width[b] \in Nat \ {0} /\ 0..(world.width[b] - 1) \subseteq Partitions
         /\ \A i \in DOMAIN world.keys:
              LET key == world.keys[i]
              IN  /\ \A b \in Lookup!Builds: key.holders[b] \subseteq 0..(world.width[b] - 1)
                  /\ world.width[1] = world.width[2] =>
                       key.holders[1] = {} \/ key.holders[2] = {} \/ key.holders[1] = key.holders[2]
                  /\ key.kind = "oracle" => \A b \in Lookup!Builds:
                       /\ key.home[world.width[b]] \in 0..(world.width[b] - 1)
                       /\ key.holders[b] \subseteq {key.home[world.width[b]]}
         /\ world.rule \in {"lowest", "sole"} => world.keys[1].kind = "id"
         /\ world.rule = "sole" => \A b \in Lookup!Builds: \A x, y \in world.keys[1].holders[b]: x = y

ASSUME ServingAssumption == CallsAssumption /\ LayoutsAssumption /\ CapAssumption /\ RegionsAssumption /\ WorldsAssumption

-----------------------------------------------------------------------------
(* What each machine promises, stated in full where the machine is.        *)

(* The count of sibling-limit.ts is the number of calls that hold a slot.  *)
SlotsExact == which = "calls" => Calls!SlotsExact

(* A page gather.ts puts together is of one build and of all of it.        *)
PageOfOneBuild == which = "page" => Page!PageOfOneBuild

(* It is the page of that whole build.                                     *)
PageIsReference == which = "page" => Page!PageIsReference

(* shard-controller.ts routes to no shard that was never warmed, it says.  *)
ReadyAreWarm == which = "shards" => Region!ReadyAreWarm

(* It is never wider than some warm-up has reached.                        *)
WidthWasWarmed == which = "shards" => Region!WidthWasWarmed

(* placement-policy.ts sends every region's users to one that is served.   *)
RoutesServed == which = "nights" => Nights!RoutesServed

(* engine-moves.ts and placement-policy.ts reuse no name they gave up.     *)
LeftStaysLeft == which = "nights" => Nights!LeftStaysLeft

(* A lookup of partitioned-engine.ts answers what asking everywhere would. *)
LookupIsFanOut == which = "lookup" => Lookup!LookupIsFanOut
=============================================================================
