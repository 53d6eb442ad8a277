--------------------------- MODULE PartitionLookup ---------------------------
(***************************************************************************)
(* A Worker's lookup of cards in the partitions of a store:                *)
(* src/engine/partitioned-engine.ts.                                       *)
(*                                                                         *)
(* The isolate holds a manifest, which may be a minute old, and perhaps    *)
(* the routing filter of that build.  Every partition object serves a      *)
(* build of its own and may swap it while it is asked.  A lookup is of one *)
(* key by id ("lowest", "sole"), of a batch of keys ("batch"), or a search *)
(* pinned to one card ("pinned", "named").  A card is known by the         *)
(* partition it came from.                                                 *)
(***************************************************************************)
EXTENDS Integers, Sequences, FiniteSets, FiniteSetsExt

CONSTANTS
    Partitions,      \* 0..k
    Worlds           \* [rule, width, keys]: the partition count by build; of every key its kind,
                     \* "id" or "oracle", the partitions that hold it by build, and, for an oracle
                     \* id, the one it hashes to by partition count.

VARIABLE l

Builds == {1, 2}
None == -1
Failed == -2
Idle == [p \in Partitions |-> "idle"]

Width == l.world.width[l.man]
Keys == DOMAIN l.world.keys
Holds(p, b, i) == p \in l.world.keys[i].holders[b]
Parts == 0..(Width - 1)

(* A key the filter was built with is found where it is first held; for    *)
(* another it says anything.                                               *)
lookup(world, man, filter, i) ==
    LET held == world.keys[i].holders[man]
    IN  IF ~filter THEN {None} ELSE IF held # {} THEN {Min(held)} ELSE Partitions \cup {None}

Hints(world, man, filter) ==
    {h \in [DOMAIN world.keys -> Partitions \cup {None}]: \A i \in DOMAIN world.keys: h[i] \in lookup(world, man, filter, i)}

Init ==
    \E world \in Worlds, man \in Builds, filter \in BOOLEAN, serves \in [Partitions -> Builds]:
      \E hint \in Hints(world, man, filter):
        /\ world.width[1] # world.width[2] => \A p \in Partitions: serves[p] = IF p < world.width[2] THEN 2 ELSE 1
        /\ l = [world |-> world, man |-> man, hint |-> hint, serves |-> serves, moved |-> FALSE, behind |-> FALSE,
                pc |-> "start", slots |-> Idle, found |-> [i \in DOMAIN world.keys |-> None],
                asked |-> {}, round |-> 0, everywhere |-> FALSE, result |-> None]

(* An object swaps its store.                                              *)
Swap(p) ==
    /\ l.pc \notin {"start", "done"} /\ l.serves[p] = 1 /\ p < l.world.width[2]
    /\ l' = [l EXCEPT !.serves[p] = 2, !.moved = TRUE]

Out(parts) == [p \in Partitions |-> IF p \in parts THEN "out" ELSE "idle"]
Done(s, result) == [s EXCEPT !.pc = "done", !.result = result]
Hint(i) == IF l.hint[i] # None /\ l.hint[i] < Width THEN l.hint[i] ELSE None
FirstPending(slots) == {p \in Partitions: slots[p] = "out"}

-----------------------------------------------------------------------------
(* One key.                                                                *)

(* Mutant: the first card to arrive is taken.                              *)
firstDecided_Any(slots, rule) ==
    LET cards == {p \in Partitions: slots[p] = "card"}
    IN  IF cards # {} THEN {Min(cards)}
        ELSE IF FirstPending(slots) # {} THEN {}
        ELSE IF \E p \in Partitions: slots[p] = "error" THEN {Failed} ELSE {None}

(* What the answers so far decide, if they do.                             *)
firstDecided(slots, rule) ==
    LET cards == {p \in Partitions: slots[p] = "card"}
        Before(p) == {q \in Partitions: q < p /\ slots[q] \in {"out", "error"}}
        first == IF rule = "sole" THEN cards ELSE {p \in cards: Before(p) = {}}
        fails == rule = "lowest" /\ \E p \in Partitions: slots[p] = "error" /\ Before(p) = {}
    IN  IF first # {} THEN {Min(first)}
        ELSE IF fails THEN {Failed}
        ELSE IF FirstPending(slots) # {} THEN {}
        ELSE IF \E p \in Partitions: slots[p] = "error" THEN {Failed} ELSE {None}

(* The hint's partition is asked alone, the others once it knows nothing.  *)
hinted ==
    /\ l.pc = "start" /\ l.world.rule \in {"lowest", "sole"}
    /\ l' = IF Hint(1) = None THEN [l EXCEPT !.pc = "fan", !.slots = Out(Parts)]
            ELSE [l EXCEPT !.pc = "hint", !.slots = Out({Hint(1)})]

Reply(p) ==
    \E how \in {IF Holds(p, l.serves[p], 1) THEN "card" ELSE "null", "error"}:
      LET slots == [l.slots EXCEPT ![p] = how]
          decided == firstDecided(slots, l.world.rule)
      IN  /\ l.slots[p] = "out"
          /\ \/ l.pc = "hint" /\ how = "card" /\ l' = Done(l, p)
             \/ l.pc = "hint" /\ how = "error" /\ l' = Done(l, Failed)
             \/ /\ l.pc = "hint" /\ how = "null"
                /\ l' = IF Parts = {p} THEN Done(l, None) ELSE [l EXCEPT !.pc = "fan", !.slots = Out(Parts \ {p})]
             \/ l.pc = "fan" /\ l' = IF decided = {} THEN [l EXCEPT !.slots = slots] ELSE Done(l, Min(decided))

-----------------------------------------------------------------------------
(* A batch.  Every partition called is asked for every key.                *)

targetOf(i, width) ==
    IF l.world.keys[i].kind = "oracle" THEN l.world.keys[i].home[width] ELSE Hint(i)

Missed(kind) == {i \in Keys: l.world.keys[i].kind = kind /\ l.found[i] = None}

AskRound(s, round, parts) ==
    [s EXCEPT !.pc = "round", !.round = round, !.slots = Out(parts), !.asked = @ \cup parts]

scryfallCollectionBatch ==
    LET targets == {targetOf(i, Width) : i \in Keys}
        everywhere == None \in targets
    IN  /\ l.pc = "start" /\ l.world.rule = "batch"
        /\ l' = AskRound([l EXCEPT !.everywhere = everywhere], 1, IF everywhere THEN Parts ELSE targets)

(* One answer for the keys it was asked for; a call that fails fails the   *)
(* batch.  Answers are merged in partition order.                          *)
BatchReply(p) ==
    /\ l.pc = "round" /\ l.slots[p] = "out"
    /\ \/ l' = Done(l, Failed)
       \/ l' = [l EXCEPT !.slots[p] = "null",
                         !.found = [i \in Keys |->
                           IF Holds(p, l.serves[p], i) /\ (@[i] = None \/ (@[i] > p /\ l.slots[@[i]] # "idle")) THEN p ELSE @[i]]]

RoundOver == l.pc = "round" /\ FirstPending(l.slots) = {}

(* An oracle id nobody had: the manifest is read again, and its owner at   *)
(* another partition count is asked, unless it was.                        *)
repairOracle ==
    /\ RoundOver /\ l.round = 1
    /\ \E fresh \in IF Missed("oracle") = {} THEN {l.man} ELSE {2, l.man}:
         LET width == l.world.width[fresh]
             owners == {p \in {targetOf(i, width) : i \in Missed("oracle")}: p >= Width \/ p \notin l.asked}
             s == [l EXCEPT !.behind = (fresh = 1)]
         IN  l' = IF width = Width \/ owners = {} THEN [s EXCEPT !.round = 2] ELSE AskRound(s, 2, owners)

(* What is missing yet is asked of the partitions nobody asked.            *)
repairKeys ==
    LET parts == Parts \ l.asked
    IN  /\ RoundOver /\ l.round = 2
        /\ l' = IF l.everywhere \/ Missed("id") = {} \/ parts = {} THEN Done(l, None) ELSE AskRound(l, 3, parts)

batchOver == RoundOver /\ l.round = 3 /\ l' = Done(l, None)

-----------------------------------------------------------------------------
(* A search for one card.                                                  *)

(* The partition answers only if its store was cut at the same count.      *)
assertPinnedModulus(p) == l.world.width[l.serves[p]] = Width

(* The owner by hash, or the hint's partition for a printing's id, whose   *)
(* empty answer proves nothing; without either, and where the owner is     *)
(* stuck or cut otherwise, every partition is searched (Gather).           *)
pinnedOrGathered ==
    /\ l.pc = "start" /\ l.world.rule \in {"pinned", "named"}
    /\ LET p == IF l.world.rule = "pinned" THEN targetOf(1, Width) ELSE Hint(1)
           holds == p # None /\ Holds(p, l.serves[p], 1)
           answers == p # None /\ assertPinnedModulus(p) /\ (l.world.rule = "pinned" \/ holds)
       IN  \/ answers /\ l' = Done(l, IF holds THEN p ELSE None)
           \/ l' = [l EXCEPT !.pc = "gather"]
           \/ p # None /\ l' = Done(l, Failed)

(* One build's answer, at the first coordinator or at the next.            *)
gathered ==
    /\ l.pc = "gather"
    /\ \/ l' = Done(l, Failed)
       \/ \E b \in {l.serves[p] : p \in 0..(l.world.width[2] - 1)}:
            LET holders == l.world.keys[1].holders[b] IN l' = Done(l, IF holders = {} THEN None ELSE Min(holders))

Next ==
    \/ hinted \/ scryfallCollectionBatch \/ repairOracle \/ repairKeys \/ batchOver \/ pinnedOrGathered \/ gathered
    \/ \E p \in Partitions: Swap(p) \/ Reply(p) \/ BatchReply(p)
-----------------------------------------------------------------------------
(* A key that every build has is never reported missing, and one that none *)
(* has is never answered, whatever order the partitions answer and swap    *)
(* in, fail in, and however old the manifest is; where a key is held twice *)
(* its answer is the lower partition's.  When the partition count changed  *)
(* this is claimed only of oracle ids and of searches, and of the former   *)
(* only while no object swaps and the manifest read again is the new one.  *)
Fixed == l.world.width[1] = l.world.width[2]
Claimed(i) == Fixed \/ l.world.rule \in {"pinned", "named"} \/ (l.world.keys[i].kind = "oracle" /\ ~l.moved /\ ~l.behind)
Answered(i, from) ==
    LET holders == l.world.keys[i].holders
    IN  /\ (\A b \in Builds: holders[b] # {}) => from # None
        /\ (\A b \in Builds: holders[b] = {}) => from = None
        /\ Fixed /\ holders[1] = holders[2] /\ from # None => from = Min(holders[1])

LookupIsFanOut ==
    l.pc = "done" /\ l.result # Failed =>
      IF l.world.rule = "batch" THEN \A i \in Keys: Claimed(i) => Answered(i, l.found[i])
      ELSE Claimed(1) => Answered(1, l.result)
=============================================================================
