----------------------------- MODULE Placement -----------------------------
(***************************************************************************)
(* Where a night puts the engines: placement-policy.ts (which regions are  *)
(* served, and where the others' users go), engine-moves.ts (when one      *)
(* object is given up for a new name) and their caller, placementGate of   *)
(* import-coordinator.ts.                                                  *)
(*                                                                         *)
(* The block a publish writes is what the next night starts from.  One     *)
(* object stands for the rest: one partition's of region Watched, whose    *)
(* name is its region's generation and its own epoch.                      *)
(* Nights are a whole number of days apart.                                *)
(***************************************************************************)
EXTENDS Integers, Sequences, FiniteSets, SequencesExt

CONSTANTS
    Hints,               \* The regions, in the order they are decided in.
    Continent,           \* Of a region and of a probe's colo.
    UNSERVED_SEED,       \* The region each region's users go to before any probe, or None.
    Answers,             \* What a night's probes of a region may be: sequences of colos.
    Watched,
    SICK_NIGHTS, MOVE_COOLDOWN, MAX_AUTO_MOVES, MAX_ENGINE_EPOCH,
    MaxGeneration,       \* Bound: no region is served again more often than this.
    None

VARIABLE n

HintSet == ToSet(Hints)
NoRecord == [e |-> 0, moves |-> 0, strikes |-> 0, seen |-> 2, since |-> MOVE_COOLDOWN, stop |-> "no"]
SeedBlock ==
    [alias |-> UNSERVED_SEED, gens |-> [h \in HintSet |-> 0], obs |-> [h \in HintSet |-> <<>>],
     checked |-> FALSE, rec |-> NoRecord]

Init == n = [block |-> SeedBlock, left |-> {}, excused |-> FALSE]

-----------------------------------------------------------------------------
(* Which regions are served.                                               *)

effectiveRegion(h, block) ==
    LET to == block.alias[h] IN IF to = None \/ to = h \/ block.alias[to] # None THEN h ELSE to

(* A night's probes of a region: all on its continent, all off it, or not  *)
(* to be told.                                                             *)
verdict(h, colos) ==
    IF colos # <<>> /\ \A i \in DOMAIN colos: Continent[colos[i]] = Continent[h] THEN "on"
    ELSE IF colos # <<>> /\ \A i \in DOMAIN colos: Continent[colos[i]] # Continent[h] THEN "off" ELSE "unknown"

Newest(h, obs) == IF obs[h] = <<>> THEN "unknown" ELSE verdict(h, obs[h][1])
Twice(h, obs, probes, v) == probes[h] # <<>> /\ Len(obs[h]) = 2 /\ \A i \in 1..2: verdict(h, obs[h][i]) = v

(* The two last nights that were answered, newest first.                   *)
NextObs(h, prev, probes) ==
    IF probes[h] = <<>> THEN prev.obs[h] ELSE SubSeq(<<probes[h]>> \o prev.obs[h], 1, 1 + Cardinality({1} \cap DOMAIN prev.obs[h]))

(* Mutant: a region is served again under the names it was left under.     *)
NextGens_Kept(prev, obs, probes, mayBump) == prev.gens

(* A region whose probes were at home twice is served again, under new     *)
(* names, if they fit the pool; one that was away twice is not.            *)
ServedAgain(prev, obs, probes, mayBump) ==
    {h \in HintSet: prev.alias[h] # None /\ mayBump /\ Twice(h, obs, probes, "on")}
NextGens(prev, obs, probes, mayBump) ==
    [h \in HintSet |-> prev.gens[h] + IF h \in ServedAgain(prev, obs, probes, mayBump) THEN 1 ELSE 0]
Leaving(prev, obs, probes) == {h \in HintSet: prev.alias[h] = None /\ Twice(h, obs, probes, "off")}

(* Mutant: a region is a target although it was left tonight.              *)
ServedNow_Before(prev, obs, probes, mayBump) == {h \in HintSet: prev.alias[h] = None}

ServedNow(prev, obs, probes, mayBump) ==
    {h \in HintSet: /\ prev.alias[h] = None \/ h \in ServedAgain(prev, obs, probes, mayBump)
                    /\ h \notin Leaving(prev, obs, probes) /\ Newest(h, obs) # "off"}

coloSet(h, obs) == UNION {ToSet(obs[h][i]) : i \in DOMAIN obs[h]}

(* The continent most of them are on, the newest night's among equals.     *)
Landed(h, obs) ==
    LET own == FlattenSeq(obs[h])
        Count(k) == Cardinality({c \in coloSet(h, obs): Continent[c] = k})
        best == CHOOSE i \in DOMAIN own:
                  /\ \A j \in DOMAIN own: Count(Continent[own[j]]) <= Count(Continent[own[i]])
                  /\ \A j \in 1..(i - 1): Count(Continent[own[j]]) < Count(Continent[own[i]])
    IN  IF own = <<>> THEN None ELSE Continent[own[best]]

(* The colos two regions' probes share, against all of them.               *)
Shared(a, b, obs) == Cardinality(coloSet(a, obs) \cap coloSet(b, obs))
Beats(c, best, h, obs) ==
    Shared(h, c, obs) * Cardinality(coloSet(h, obs) \cup coloSet(best, obs))
      > Shared(h, best, obs) * Cardinality(coloSet(h, obs) \cup coloSet(c, obs))

(* Where a region's users go: where they went, unless that region is not   *)
(* served, or its probes were away again and another fits better; else the *)
(* best match, the first in order among equals, the seed, or nowhere else. *)
Target(h, to, served, obs, probes) ==
    LET valid == to # h /\ to \in served
        fits == {c \in served: Shared(h, c, obs) > 0 /\ (Landed(h, obs) = None \/ Continent[c] = Landed(h, obs))}
        best == {c \in fits: \A x \in fits: ~Beats(x, c, h, obs)}
        first == CHOOSE i \in DOMAIN Hints: Hints[i] \in best /\ \A j \in 1..(i - 1): Hints[j] \notin best
    IN  IF valid /\ (probes[h] = <<>> \/ Newest(h, obs) # "off" \/ best = {} \/ to \in best) THEN to
        ELSE IF best # {} THEN Hints[first]
        ELSE IF UNSERVED_SEED[h] \in served THEN UNSERVED_SEED[h] ELSE None

(* With no answer nothing changes, nor while the probes of a region that   *)
(* is served have not once all been at home.                               *)
nextPlacement(prev, probes, mayBump) ==
    LET obs == [h \in HintSet |-> NextObs(h, prev, probes)]
        strays == {h \in HintSet: prev.alias[h] = None /\ \E i \in DOMAIN probes[h]: Continent[probes[h][i]] # Continent[h]}
        served == ServedNow(prev, obs, probes, mayBump)
        leaving == Leaving(prev, obs, probes)
        again == ServedAgain(prev, obs, probes, mayBump)
        Goes(h) == IF h \in leaving THEN h ELSE IF h \in again THEN None ELSE prev.alias[h]
    IN  IF (\A h \in HintSet: probes[h] = <<>>) \/ (~prev.checked /\ strays # {}) THEN prev
        ELSE [prev EXCEPT !.obs = obs, !.checked = TRUE, !.gens = NextGens(prev, obs, probes, mayBump),
                          !.alias = [h \in HintSet |-> IF Goes(h) = None THEN None ELSE Target(h, Goes(h), served, obs, probes)]]

-----------------------------------------------------------------------------
(* When an object is given up.                                             *)

generationOf(block) == block.gens[Watched]
Name(block) == <<generationOf(block), block.rec.e>>

(* Served, and under the names it had.                                     *)
served(block, before, wide) ==
    wide /\ effectiveRegion(Watched, block) = Watched /\ generationOf(block) = generationOf(before)

Aged(rec, days) ==
    [rec EXCEPT !.seen = IF @ + days > 2 THEN 2 ELSE @ + days,
                !.since = IF @ + days > MOVE_COOLDOWN THEN MOVE_COOLDOWN ELSE @ + days]

Auto == -1
NoPin == -2

(* What the operator's key says of the name: an epoch to hold it at, to    *)
(* judge it again, or nothing.                                             *)
parsePins(rec, pin) ==
    IF pin = Auto THEN [rec EXCEPT !.stop = "no", !.moves = 0]
    ELSE IF pin = NoPin THEN [rec EXCEPT !.stop = IF @ = "pinned" THEN "no" ELSE @]
    ELSE [rec EXCEPT !.e = pin, !.stop = "pinned", !.strikes = 0, !.seen = 2]

(* Nights it was sick in a row, counted up to SICK_NIGHTS.                 *)
Struck(rec, health) ==
    IF health \in {"sick", "both"} /\ rec.stop # "pinned"
    THEN [rec EXCEPT !.strikes = IF rec.seen > 1 THEN 1 ELSE IF @ < SICK_NIGHTS THEN @ + 1 ELSE @, !.seen = 0]
    ELSE IF health # "silent" THEN [rec EXCEPT !.strikes = 0, !.seen = 2] ELSE rec

Moved(rec) == [rec EXCEPT !.e = @ + 1, !.since = 0, !.moves = @ + 1, !.strikes = 0, !.seen = 2]

isEmptyRecord(rec) == rec.e = 0 /\ rec.stop = "no" /\ rec.strikes = 0 /\ rec.moves = 0

(* The object's report against its replica's: well, misplaced, sick, both, *)
(* or none of this night.  A move may wait for another of its replica or   *)
(* of the night.                                                           *)
judgeEngines(rec0, pin, health, turn) ==
    LET rec == Struck(parsePins(rec0, pin), health)
        flagged == health \in {"misplaced", "sick", "both"} /\ rec.stop # "pinned"
        next == IF ~flagged THEN rec
                ELSE IF rec.stop = "gave-up" \/ rec.moves >= MAX_AUTO_MOVES \/ rec.e + 1 > MAX_ENGINE_EPOCH
                THEN [rec EXCEPT !.stop = "gave-up"]
                ELSE IF \/ health = "sick" /\ rec.strikes < SICK_NIGHTS
                        \/ rec.since < MOVE_COOLDOWN
                        \/ ~turn
                THEN rec ELSE Moved(rec)
    IN  IF isEmptyRecord(next) THEN NoRecord ELSE next

(* The object's record after the night, and what the night knew of it.     *)
Judgements(rec) ==
    {[rec |-> judgeEngines(Aged(rec, x[1]), x[2], x[3], x[4]), pinned |-> x[2] >= 0] :
       x \in {1, 2} \X {NoPin, Auto, 0} \X {"well", "misplaced", "sick", "both", "silent"} \X BOOLEAN}

(* The block of a night, and whether its probes brought Watched back.      *)
Decided(before, probes, mayBump) ==
    LET placement == nextPlacement(before, probes, mayBump)
    IN  [block |-> placement, welcome |-> Watched \in ServedAgain(before, placement.obs, probes, mayBump)]

Dropped == [rec |-> NoRecord, pinned |-> FALSE]
Probes == {f \in [HintSet -> UNION {Answers[h] : h \in HintSet}]: \A h \in HintSet: f[h] \in Answers[h]}
Tonight(before) == {Decided(before, probes, mayBump) : probes \in Probes, mayBump \in BOOLEAN}

(* A night that publishes.  The manifest it replaces may not be readable,  *)
(* and then it starts from the seed; the store may have fewer partitions   *)
(* than the object's, and then its record goes with it.                    *)
placementGate(readable) ==
    LET before == IF readable THEN n.block ELSE SeedBlock
    IN  \E night \in Tonight(before): \E wide \in BOOLEAN:
        LET placement == night.block
            orphaned == ~night.welcome /\ before.alias[Watched] # None /\ placement.alias[Watched] = None
        IN  /\ \A h \in HintSet: placement.gens[h] <= MaxGeneration
            /\ \E judged \in IF served(placement, before, wide) THEN Judgements(before.rec) ELSE {Dropped}:
                 LET excused == n.excused \/ ~readable \/ ~wide \/ orphaned \/ judged.pinned
                     leaves == placement.alias[Watched] # None \/ judged.rec.e # before.rec.e
                 IN  n' = [block |-> [placement EXCEPT !.rec = judged.rec], excused |-> excused,
                           left |-> IF excused THEN {}
                                    ELSE IF before.alias[Watched] = None /\ leaves THEN n.left \cup {Name(before)} ELSE n.left]

Next == \E readable \in BOOLEAN: placementGate(readable)
-----------------------------------------------------------------------------
(* Every region's users go to a region that is served: none is sent to one *)
(* that sends its own users on, and a region nobody can be hosted in is    *)
(* not routed to, whatever order regions leave and come back in.           *)
RoutesServed ==
    \A h \in HintSet: n.block.alias[h] # None =>
      /\ effectiveRegion(h, n.block) # h
      /\ n.block.alias[effectiveRegion(h, n.block)] = None

(* A name that was given up is not used again: neither a move nor a region *)
(* that comes back returns to an object that was left behind, unless the   *)
(* operator said so, the old manifest could not be read, the partition     *)
(* itself was gone in between, or no other region could take its users.    *)
LeftStaysLeft == n.excused \/ effectiveRegion(Watched, n.block) # Watched \/ Name(n.block) \notin n.left
=============================================================================
