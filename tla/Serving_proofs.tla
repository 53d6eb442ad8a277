--------------------------- MODULE Serving_proofs ---------------------------
(***************************************************************************)
(* What the serving machines promise for every size: ShardController's     *)
(* widths are backed by warm-ups, Placement routes users to regions that   *)
(* are served and uses no name twice, SiblingCalls counts its slots as     *)
(* they are held, PartitionLookup answers what asking every partition      *)
(* would, and Gather serves pages of one build.  MCServing checks the same *)
(* properties on its instances of these modules.                           *)
(***************************************************************************)
EXTENDS Serving, FiniteSets, FiniteSetTheorems, WellFoundedInduction, TLAPS

-----------------------------------------------------------------------------
(* ShardController                                                         *)

Widths == 1..MaxShards
IsolateStates ==
    [target : Widths, ready : Widths, own : Widths, pendingWarm : 0..(MaxShards - 1),
     pings : SUBSET Region!Shards, clock : {"unset", "running", "expired"}, reply : 0..MaxShards]
ShardsTyped ==
    w \in [iso : [Isolates -> IsolateStates], ann : [Region!Shards -> [shards : Widths, fresh : BOOLEAN]],
           warmed : SUBSET Region!Shards, quiet : BOOLEAN]

(* A width some warm-up has vouched for.                                   *)
Backed(x, warmed) == \E s \in warmed: s >= x - 1

(* Every width an isolate routes to, an object announces or a reply brings *)
(* was vouched for; an isolate's own may be of a shard still warming.      *)
ShardsInv ==
    /\ ShardsTyped
    /\ 0 \in w.warmed
    /\ \A i \in Isolates: Backed(w.iso[i].ready, w.warmed) /\ Backed(w.iso[i].reply, w.warmed)
    /\ \A s \in Region!Shards: Backed(w.ann[s].shards, w.warmed)

LEMMA Extremes ==
    ASSUME NEW a \in Int, NEW b \in Int
    PROVE  /\ Region!Min({a, b}) = IF a <= b THEN a ELSE b
           /\ Region!Max({a, b}) = IF a >= b THEN a ELSE b
<1>1. \E x \in {a, b}: \A y \in {a, b}: x <= y
  BY SMT
<1>2. \E x \in {a, b}: \A y \in {a, b}: x >= y
  BY SMT
<1>3. /\ Region!Min({a, b}) \in {a, b} /\ \A y \in {a, b}: Region!Min({a, b}) <= y
  BY <1>1 DEF Region!Min
<1>4. /\ Region!Max({a, b}) \in {a, b} /\ \A y \in {a, b}: Region!Max({a, b}) >= y
  BY <1>2 DEF Region!Max
<1> QED BY <1>3, <1>4, SMT

LEMMA BackedMonotone ==
    ASSUME NEW x \in Int, NEW y \in Int, y <= x, NEW S \in SUBSET Region!Shards, NEW T, S \subseteq T, MaxShards \in Nat,
           Backed(x, S)
    PROVE  Backed(y, T)
<1>1. PICK s \in S: s >= x - 1
  BY DEF Backed
<1>2. s \in Int
  BY DEF Region!Shards
<1> QED BY <1>1, <1>2 DEF Backed

(* What an isolate makes of its widths: it stays within the cap, and       *)
(* whatever it routes to afterwards is no wider than what it had or heard. *)
LEMMA Adopts ==
    ASSUME CapAssumption, NEW iso \in IsolateStates, NEW announced \in Widths
    PROVE  /\ Region!adoptShardWidth(iso, announced) \in IsolateStates
           /\ \/ Region!adoptShardWidth(iso, announced).ready <= iso.ready
              \/ Region!adoptShardWidth(iso, announced).ready <= announced
<1> DEFINE capped == IF announced <= MaxShards THEN announced ELSE MaxShards
           own == IF iso.own <= iso.ready THEN iso.own ELSE iso.ready
           lowered == IF capped >= own THEN capped ELSE own
           target == IF iso.target >= capped THEN iso.target ELSE capped
           adopted == Region!adoptShardWidth(iso, announced)
<1>1. /\ announced \in Int /\ MaxShards \in Int /\ iso.own \in Int /\ iso.ready \in Int /\ iso.target \in Int
      /\ capped \in Widths /\ own \in Widths /\ lowered \in Widths /\ target \in Widths /\ capped <= announced
  BY DEF CapAssumption, IsolateStates, Widths
<1>2. /\ Region!Min({announced, MaxShards}) = capped /\ Region!Min({iso.own, iso.ready}) = own
  BY <1>1, Extremes
<1>3. /\ Region!Max({capped, own}) = lowered /\ Region!Max({iso.target, capped}) = target
  BY <1>1, Extremes DEF Widths
<1>4. adopted = IF capped > iso.ready THEN [iso EXCEPT !.ready = capped, !.target = target]
                ELSE IF iso.target = iso.ready /\ lowered < iso.ready
                THEN [iso EXCEPT !.ready = lowered, !.target = lowered] ELSE iso
  BY <1>2, <1>3 DEF Region!adoptShardWidth
<1> HIDE DEF capped, own, lowered, target, adopted
<1> SUFFICES adopted \in IsolateStates /\ (adopted.ready <= iso.ready \/ adopted.ready <= announced)
  BY DEF adopted
<1>5. iso.ready <= iso.ready
  BY <1>1
<1>6. CASE capped > iso.ready
  <2>1. adopted = [iso EXCEPT !.ready = capped, !.target = target]
    BY <1>4, <1>6
  <2> QED BY <2>1, <1>1 DEF IsolateStates
<1>7. CASE ~(capped > iso.ready) /\ iso.target = iso.ready /\ lowered < iso.ready
  <2>1. adopted = [iso EXCEPT !.ready = lowered, !.target = lowered]
    BY <1>4, <1>7
  <2>2. adopted \in IsolateStates /\ adopted.ready = lowered
    BY <2>1, <1>1 DEF IsolateStates
  <2>3. lowered <= iso.ready
    BY <1>1, <1>7 DEF Widths
  <2> QED BY <2>2, <2>3
<1> QED BY <1>4, <1>5, <1>6, <1>7

LEMMA Picks ==
    ASSUME CapAssumption, NEW iso \in IsolateStates
    PROVE  /\ Region!pickShard(iso) \in IsolateStates
           /\ Region!pickShard(iso).ready <= iso.ready
           /\ Region!pickShard(iso).reply = iso.reply
<1> DEFINE contracts == iso.target > 1 /\ iso.clock = "expired"
           target == IF contracts THEN iso.target - 1 ELSE iso.target
           ready == IF iso.ready <= target THEN iso.ready ELSE target
           own == IF iso.own <= target THEN iso.own ELSE target
           folded == IF ~contracts THEN iso
                     ELSE [iso EXCEPT !.target = target, !.ready = ready, !.own = own, !.clock = "running"]
           picked == Region!pickShard(iso)
<1>1. /\ MaxShards \in Int /\ iso.own \in Int /\ iso.ready \in Int /\ iso.target \in Int
      /\ target \in Widths /\ ready \in Widths /\ own \in Widths /\ ready <= iso.ready
  BY DEF CapAssumption, IsolateStates, Widths
<1>2. Region!Min({iso.ready, target}) = ready /\ Region!Min({iso.own, target}) = own
  BY <1>1, Extremes DEF Widths
<1>3. /\ folded \in IsolateStates /\ folded.ready <= iso.ready /\ folded.reply = iso.reply
  <2>1. CASE ~contracts
    BY <2>1, <1>1
  <2>2. CASE contracts
    <3> HIDE DEF target, ready, own
    <3>1. folded = [iso EXCEPT !.target = target, !.ready = ready, !.own = own, !.clock = "running"]
      BY <2>2
    <3> QED BY <3>1, <1>1 DEF IsolateStates
  <2> QED BY <2>1, <2>2
<1>4. folded.target \in Widths /\ folded.ready \in Widths /\ folded.target \in Int /\ folded.ready \in Int
  <2> HIDE DEF folded
  <2> QED BY <1>3 DEF IsolateStates, Widths
<1>5. picked = [folded EXCEPT !.target = Region!Min({folded.target, MaxShards}), !.ready = Region!Min({folded.ready, MaxShards})]
  <2>1. [iso EXCEPT !.target = target, !.ready = Region!Min({@, target}), !.own = Region!Min({@, target}), !.clock = "running"]
        = [iso EXCEPT !.target = target, !.ready = ready, !.own = own, !.clock = "running"]
    <3> HIDE DEF target, ready, own
    <3> QED BY <1>2
  <2> QED BY <2>1, Zenon DEF Region!pickShard
<1>6. /\ Region!Min({folded.target, MaxShards}) = folded.target /\ Region!Min({folded.ready, MaxShards}) = folded.ready
  BY <1>1, <1>4, Extremes DEF Widths
<1> HIDE DEF folded
<1> QED BY <1>3, <1>5, <1>6 DEF IsolateStates

LEMMA Readies ==
    ASSUME CapAssumption, NEW iso \in IsolateStates, NEW s \in Region!Shards
    PROVE  /\ Region!markShardReady(iso, s) \in IsolateStates
           /\ \/ Region!markShardReady(iso, s).ready <= iso.ready
              \/ Region!markShardReady(iso, s).ready <= s + 1
           /\ Region!markShardReady(iso, s).reply = iso.reply
<1> DEFINE most == IF iso.ready >= s + 1 THEN iso.ready ELSE s + 1
           ready == IF most <= iso.target THEN most ELSE iso.target
<1>1. /\ iso.ready \in Int /\ iso.target \in Int /\ s + 1 \in Int /\ most \in Widths /\ ready \in Widths /\ most \in Int
      /\ ready <= iso.ready \/ ready <= s + 1
  BY DEF CapAssumption, IsolateStates, Widths, Region!Shards
<1>2. Region!Max({iso.ready, s + 1}) = most /\ Region!Min({most, iso.target}) = ready
  BY <1>1, Extremes
<1>3. Region!markShardReady(iso, s) = [iso EXCEPT !.ready = ready]
  BY <1>2 DEF Region!markShardReady
<1> HIDE DEF ready
<1> QED BY <1>1, <1>3 DEF IsolateStates

LEMMA Unmarks ==
    ASSUME CapAssumption, NEW iso \in IsolateStates
    PROVE  /\ Region!unmarkPending(iso) \in IsolateStates
           /\ Region!unmarkPending(iso).ready = iso.ready /\ Region!unmarkPending(iso).reply = iso.reply
<1> DEFINE own == IF iso.own <= iso.ready THEN iso.own ELSE iso.ready
<1>1. iso.ready \in Int /\ iso.own \in Int /\ own \in Widths /\ iso.ready \in Widths
  BY DEF CapAssumption, IsolateStates, Widths
<1>2. Region!Min({iso.own, iso.ready}) = own
  BY <1>1, Extremes
<1>3. Region!unmarkPending(iso) = IF iso.target <= iso.ready THEN iso ELSE [iso EXCEPT !.target = iso.ready, !.own = own]
  BY <1>2 DEF Region!unmarkPending
<1> HIDE DEF own
<1> QED BY <1>1, <1>3 DEF IsolateStates

(* One isolate takes new widths that are backed.                           *)
LEMMA IsolateStep ==
    ASSUME CapAssumption, ShardsInv, NEW i \in Isolates, NEW iso \in IsolateStates,
           NEW warmed \in SUBSET Region!Shards, w.warmed \subseteq warmed,
           Backed(iso.ready, warmed), Backed(iso.reply, warmed),
           w' = [w EXCEPT !.iso[i] = iso, !.warmed = warmed]
    PROVE  ShardsInv'
<1>1. /\ w'.iso = [w.iso EXCEPT ![i] = iso] /\ w'.ann = w.ann /\ w'.warmed = warmed /\ w'.quiet = w.quiet
  BY DEF ShardsInv, ShardsTyped
<1>2. w' \in [iso : [Isolates -> IsolateStates], ann : [Region!Shards -> [shards : Widths, fresh : BOOLEAN]],
              warmed : SUBSET Region!Shards, quiet : BOOLEAN]
  BY DEF ShardsInv, ShardsTyped
<1>3. /\ \A x \in Isolates: w.iso[x] \in IsolateStates /\ w.iso[x].ready \in Int /\ w.iso[x].reply \in Int
      /\ \A s \in Region!Shards: w.ann[s].shards \in Int
  BY DEF ShardsInv, ShardsTyped, IsolateStates, Widths, CapAssumption
<1>4. /\ \A x \in Isolates: Backed(w.iso[x].ready, warmed) /\ Backed(w.iso[x].reply, warmed)
      /\ \A s \in Region!Shards: Backed(w.ann[s].shards, warmed)
  BY DEF ShardsInv, Backed
<1>5. \A x \in Isolates: w'.iso[x] = IF x = i THEN iso ELSE w.iso[x]
  BY <1>1 DEF ShardsInv, ShardsTyped
<1>6. \A x \in Isolates: Backed(w'.iso[x].ready, warmed) /\ Backed(w'.iso[x].reply, warmed)
  BY <1>4, <1>5
<1> QED BY <1>1, <1>2, <1>4, <1>6 DEF ShardsInv, ShardsTyped

(* Every step of a region leaves each width backed by a warm-up            *)
(* (shard-controller.ts).                                                  *)
THEOREM WarmInductive ==
    ASSUME CapAssumption, ShardsInv, [Region!Next]_w
    PROVE  ShardsInv'
<1>1. /\ \A i \in Isolates: /\ w.iso[i] \in IsolateStates
                            /\ Backed(w.iso[i].ready, w.warmed) /\ Backed(w.iso[i].reply, w.warmed)
      /\ \A s \in Region!Shards: /\ w.ann[s] \in [shards : Widths, fresh : BOOLEAN]
                                 /\ Backed(w.ann[s].shards, w.warmed)
      /\ w.warmed \in SUBSET Region!Shards
      /\ DOMAIN w = {"iso", "ann", "warmed", "quiet"}
  BY DEF ShardsInv, ShardsTyped
<1>2. /\ MaxShards \in Nat \ {0} /\ Widths \subseteq Int /\ 1 \in Widths
      /\ \A iso \in IsolateStates: /\ iso.ready \in Int /\ iso.ready \in Widths /\ iso.reply \in 0..MaxShards /\ iso.reply \in Int
                                   /\ iso.target \in Widths
  BY DEF CapAssumption, IsolateStates, Widths
<1>3. \A x \in {0, 1}: Backed(x, w.warmed)
  BY DEF ShardsInv, Backed
\* A step of one isolate's record is one in which warmed is what it was.
<1>4. \A i \in Isolates: \A iso: [w EXCEPT !.iso[i] = iso] = [w EXCEPT !.iso[i] = iso, !.warmed = w.warmed]
  BY <1>1
<1>5. ASSUME NEW i \in Isolates, NEW iso \in IsolateStates, Backed(iso.ready, w.warmed), Backed(iso.reply, w.warmed),
             w' = [w EXCEPT !.iso[i] = iso]
      PROVE  ShardsInv'
  <2>1. w' = [w EXCEPT !.iso[i] = iso, !.warmed = w.warmed]
    BY <1>4, <1>5
  <2> QED BY <2>1, <1>1, <1>5, IsolateStep
<1>6. CASE UNCHANGED w
  BY <1>6 DEF ShardsInv, ShardsTyped
<1>7. CASE Region!Quieten
  BY <1>7 DEF Region!Quieten, ShardsInv, ShardsTyped
<1>8. ASSUME NEW i \in Isolates, Region!feedAutoscaler(i)
      PROVE  ShardsInv'
  <2> DEFINE heard == [w.iso[i] EXCEPT !.reply = 0]
             iso == Region!adoptShardWidth(heard, w.iso[i].reply)
             saturated == [iso EXCEPT !.clock = "running"]
             wider == Region!expand(saturated)
  <2>1. heard \in IsolateStates /\ heard.ready = w.iso[i].ready /\ w.iso[i].reply \in Widths
    BY <1>1, <1>2, <1>8 DEF Region!feedAutoscaler, IsolateStates, Widths
  <2>2. iso \in IsolateStates /\ (iso.ready <= w.iso[i].ready \/ iso.ready <= w.iso[i].reply)
    <3> HIDE DEF heard
    <3> QED BY <2>1, Adopts
  <2>3. iso.reply = 0
    BY <2>1 DEF Region!adoptShardWidth, IsolateStates
  <2> HIDE DEF iso
  <2>4. Backed(iso.ready, w.warmed) /\ Backed(iso.reply, w.warmed)
    BY <1>1, <1>2, <1>3, <2>2, <2>3, BackedMonotone
  <2>5. saturated \in IsolateStates /\ saturated.ready = iso.ready /\ saturated.reply = iso.reply
    BY <2>2 DEF IsolateStates
  <2>6. Region!canExpand(iso) => wider \in IsolateStates /\ wider.ready = iso.ready /\ wider.reply = iso.reply
    <3>1. SUFFICES ASSUME iso.target < MaxShards
                   PROVE  wider \in IsolateStates /\ wider.ready = iso.ready /\ wider.reply = iso.reply
      BY DEF Region!canExpand
    <3>2. iso.target + 1 \in Widths /\ iso.target \in 0..(MaxShards - 1)
      BY <1>2, <2>2, <3>1 DEF Widths
    <3>3. wider = [saturated EXCEPT !.target = iso.target + 1, !.own = iso.target + 1, !.pendingWarm = iso.target]
      BY <2>2 DEF Region!expand, IsolateStates
    <3> HIDE DEF saturated
    <3> QED BY <2>5, <3>2, <3>3 DEF IsolateStates
  <2>7. \/ w' = [w EXCEPT !.iso[i] = iso]
        \/ w' = [w EXCEPT !.iso[i] = saturated]
        \/ Region!canExpand(iso) /\ w' = [w EXCEPT !.iso[i] = wider]
    BY <1>8 DEF Region!feedAutoscaler, iso
  <2> HIDE DEF saturated, wider
  <2> QED BY <2>2, <2>4, <2>5, <2>6, <2>7, <1>5
<1>9. ASSUME NEW i \in Isolates, Region!CallFails(i)
      PROVE  ShardsInv'
  <2> DEFINE iso == [w.iso[i] EXCEPT !.reply = 0]
  <2>1. iso \in IsolateStates /\ iso.ready = w.iso[i].ready /\ iso.reply = 0
    BY <1>1, <1>2 DEF IsolateStates
  <2>2. w' = [w EXCEPT !.iso[i] = iso]
    BY <1>9 DEF Region!CallFails
  <2> HIDE DEF iso
  <2> QED BY <1>1, <1>3, <1>5, <2>1, <2>2
<1>10. ASSUME NEW i \in Isolates, Region!Tick(i)
       PROVE  ShardsInv'
  <2> DEFINE iso == [w.iso[i] EXCEPT !.clock = "expired"]
  <2>1. iso \in IsolateStates /\ iso.ready = w.iso[i].ready /\ iso.reply = w.iso[i].reply
    BY <1>1 DEF IsolateStates
  <2>2. w' = [w EXCEPT !.iso[i] = iso]
    BY <1>10 DEF Region!Tick
  <2> HIDE DEF iso
  <2> QED BY <1>1, <1>5, <2>1, <2>2
<1>11. ASSUME NEW i \in Isolates, Region!NewIsolate(i)
       PROVE  ShardsInv'
  <2>1. /\ Region!stateFor \in IsolateStates /\ Region!stateFor.ready = 1 /\ Region!stateFor.reply = 0
    BY <1>2 DEF Region!stateFor, IsolateStates, Region!Shards
  <2>2. w' = [w EXCEPT !.iso[i] = Region!stateFor]
    BY <1>11 DEF Region!NewIsolate
  <2> QED BY <1>3, <1>5, <2>1, <2>2
<1>12. ASSUME NEW s \in Region!Shards, Region!Age(s)
       PROVE  ShardsInv'
  <2>1. w' = [w EXCEPT !.ann[s].fresh = FALSE]
    BY <1>12 DEF Region!Age
  <2>2. /\ w'.iso = w.iso /\ w'.warmed = w.warmed /\ w'.quiet = w.quiet
        /\ w'.ann = [w.ann EXCEPT ![s].fresh = FALSE] /\ DOMAIN w' = DOMAIN w
    BY <2>1, <1>1
  <2>3. \A x \in Region!Shards: w'.ann[x].shards = w.ann[x].shards
    BY <2>2, <1>1 DEF ShardsInv, ShardsTyped
  <2>4. ShardsTyped'
    BY <2>1 DEF ShardsInv, ShardsTyped
  <2> QED BY <2>2, <2>3, <2>4 DEF ShardsInv
<1>13. ASSUME NEW s \in Region!Shards, Region!ObjectReset(s)
       PROVE  ShardsInv'
  <2>1. w' = [w EXCEPT !.ann[s] = Region!NoAnnouncement]
    BY <1>13 DEF Region!ObjectReset
  <2>2. /\ w'.iso = w.iso /\ w'.warmed = w.warmed
        /\ w'.ann = [w.ann EXCEPT ![s] = Region!NoAnnouncement]
        /\ Region!NoAnnouncement \in [shards : Widths, fresh : BOOLEAN] /\ Region!NoAnnouncement.shards = 1
    BY <2>1, <1>1, <1>2 DEF Region!NoAnnouncement
  <2>3. \A x \in Region!Shards: w'.ann[x] = IF x = s THEN Region!NoAnnouncement ELSE w.ann[x]
    BY <2>2 DEF ShardsInv, ShardsTyped
  <2>4. ShardsTyped'
    BY <2>1, <2>2 DEF ShardsInv, ShardsTyped
  <2>5. \A x \in Region!Shards: Backed(w'.ann[x].shards, w.warmed)
    BY <1>1, <1>3, <2>2, <2>3
  <2> QED BY <2>2, <2>4, <2>5 DEF ShardsInv
<1>14. ASSUME NEW i \in Isolates, NEW s \in Region!Shards, Region!resolveEngine(i, s)
       PROVE  ShardsInv'
  <2> DEFINE iso == Region!pickShard(w.iso[i])
             reported == Region!currentShardWidth(iso)
             ann == Region!foldWidthAnnouncement(w.ann[s], reported)
             asked == [iso EXCEPT !.pendingWarm = 0, !.reply = ann.shards,
                                  !.pings = IF iso.pendingWarm = 0 THEN @ ELSE @ \cup {iso.pendingWarm}]
  <2>1. iso \in IsolateStates /\ iso.ready <= w.iso[i].ready
    BY <1>1, Picks
  <2>2. reported \in Widths /\ reported <= w.iso[i].ready
    <3> HIDE DEF iso
    <3>1. iso.own \in Int /\ iso.own \in Widths
      BY <2>1, <1>2 DEF IsolateStates
    <3>2. reported = IF iso.own <= iso.ready THEN iso.own ELSE iso.ready
      BY <1>2, <2>1, <3>1, Extremes DEF Region!currentShardWidth
    <3> QED BY <1>1, <1>2, <2>1, <3>1, <3>2
  <2> HIDE DEF reported
  <2>3. /\ ann \in [shards : Widths, fresh : BOOLEAN]
        /\ ann.shards = reported \/ ann.shards = w.ann[s].shards
    BY <1>1, <2>2 DEF Region!foldWidthAnnouncement
  <2> HIDE DEF ann
  <2>4. Backed(reported, w.warmed) /\ Backed(ann.shards, w.warmed) /\ Backed(iso.ready, w.warmed)
    <3> DEFINE had == w.iso[i].ready
    <3>1. /\ had \in Int /\ Backed(had, w.warmed) /\ w.warmed \in SUBSET Region!Shards /\ MaxShards \in Nat
          /\ Backed(w.ann[s].shards, w.warmed)
      BY <1>1, <1>2
    <3>2. reported \in Int /\ reported <= had /\ iso.ready \in Int /\ iso.ready <= had
      BY <1>2, <2>1, <2>2 DEF IsolateStates
    <3> HIDE DEF had, iso
    <3>3. Backed(reported, w.warmed) /\ Backed(iso.ready, w.warmed)
      BY <3>1, <3>2, BackedMonotone
    <3> QED BY <2>3, <3>1, <3>3
  <2>5. asked \in IsolateStates /\ asked.ready = iso.ready /\ asked.reply = ann.shards
    <3> HIDE DEF iso
    <3>1. ann.shards \in 0..MaxShards /\ 0 \in 0..(MaxShards - 1)
      BY <1>2, <2>3 DEF Widths
    <3> DEFINE pings == IF iso.pendingWarm = 0 THEN iso.pings ELSE iso.pings \cup {iso.pendingWarm}
    <3>2. pings \in SUBSET Region!Shards
      BY <2>1 DEF IsolateStates, Region!Shards
    <3>3. asked = [iso EXCEPT !.pendingWarm = 0, !.reply = ann.shards, !.pings = pings]
      OBVIOUS
    <3> HIDE DEF pings
    <3> QED BY <2>1, <3>1, <3>2, <3>3 DEF IsolateStates
  <2>6. w' = [w EXCEPT !.iso[i] = asked, !.ann[s] = ann]
    BY <1>14 DEF Region!resolveEngine, ann, reported
  <2> HIDE DEF iso, asked
  <2>7. /\ w'.iso = [w.iso EXCEPT ![i] = asked] /\ w'.ann = [w.ann EXCEPT ![s] = ann] /\ w'.warmed = w.warmed
        /\ w'.quiet = w.quiet
    BY <2>6, <1>1
  <2>8. ShardsTyped'
    BY <2>3, <2>5, <2>6 DEF ShardsInv, ShardsTyped
  <2>9. /\ \A x \in Isolates: w'.iso[x] = IF x = i THEN asked ELSE w.iso[x]
        /\ \A x \in Region!Shards: w'.ann[x] = IF x = s THEN ann ELSE w.ann[x]
    BY <2>7 DEF ShardsInv, ShardsTyped
  <2>10. \A x \in Isolates: Backed(w'.iso[x].ready, w.warmed) /\ Backed(w'.iso[x].reply, w.warmed)
    BY <1>1, <2>4, <2>5, <2>9
  <2>11. \A x \in Region!Shards: Backed(w'.ann[x].shards, w.warmed)
    BY <1>1, <2>4, <2>9
  <2> QED BY <2>7, <2>8, <2>10, <2>11 DEF ShardsInv
<1>15. ASSUME NEW i \in Isolates, NEW s \in Region!Shards, Region!WarmUp(i, s)
       PROVE  ShardsInv'
  <2> DEFINE iso == [w.iso[i] EXCEPT !.pings = @ \ {s}]
             marked == Region!markShardReady(iso, s)
             unmarked == Region!unmarkPending(iso)
             warmed == w.warmed \cup {s}
  <2>1. iso \in IsolateStates /\ iso.ready = w.iso[i].ready /\ iso.reply = w.iso[i].reply
    BY <1>1 DEF IsolateStates
  <2>2. \/ w' = [w EXCEPT !.iso[i] = marked, !.warmed = warmed]
        \/ w' = [w EXCEPT !.iso[i] = unmarked]
        \/ w' = [w EXCEPT !.iso[i] = iso]
    BY <1>1, <1>15 DEF Region!WarmUp
  <2> HIDE DEF iso
  <2>3. marked \in IsolateStates /\ (marked.ready <= iso.ready \/ marked.ready <= s + 1) /\ marked.reply = iso.reply
    BY <2>1, Readies
  <2>4. unmarked \in IsolateStates /\ unmarked.ready = iso.ready /\ unmarked.reply = iso.reply
    BY <2>1, Unmarks
  <2> HIDE DEF marked, unmarked
  <2>5. warmed \in SUBSET Region!Shards /\ w.warmed \subseteq warmed
    BY <1>1
  <2>6. s + 1 \in Int /\ Backed(s + 1, warmed)
    BY DEF Backed, Region!Shards
  <2>7. Backed(iso.ready, warmed) /\ Backed(iso.reply, warmed)
    BY <1>1, <2>1 DEF Backed
  <2>8. Backed(marked.ready, warmed) /\ Backed(marked.reply, warmed)
    <3> HIDE DEF warmed
    <3> QED BY <1>2, <2>1, <2>3, <2>5, <2>6, <2>7, BackedMonotone
  <2>9. CASE w' = [w EXCEPT !.iso[i] = marked, !.warmed = warmed]
    BY <2>3, <2>5, <2>8, <2>9, IsolateStep
  <2> QED BY <1>1, <1>5, <2>1, <2>2, <2>4, <2>9
<1> QED
  BY <1>6, <1>7, <1>8, <1>9, <1>10, <1>11, <1>12, <1>13, <1>14, <1>15 DEF Region!Next

(* However warm-ups, contractions, adoptions and announcements interleave, *)
(* in a region of any width with any number of isolates: the last shard an *)
(* isolate routes to, or a later one, has been warmed by some isolate, so  *)
(* no width comes of announcements alone (shard-controller.ts).  A shard   *)
(* below may be cold: see ReadyAreWarm.                                    *)
THEOREM WidthComesOfWarmUps ==
    Region!Spec => []WidthWasWarmed
<1> USE ServingAssumption
<1>1. Region!Init => ShardsInv
  <2> SUFFICES ASSUME Region!Init PROVE ShardsInv
    OBVIOUS
  <2>1. 0 \in Region!Shards /\ 1 \in Widths
    BY DEF CapAssumption, Region!Shards, Widths
  <2>2. w \in [iso : [Isolates -> IsolateStates], ann : [Region!Shards -> [shards : Widths, fresh : BOOLEAN]],
                warmed : SUBSET Region!Shards, quiet : BOOLEAN]
    <3>1. Region!stateFor \in IsolateStates
      BY <2>1, CapAssumption DEF Region!stateFor, IsolateStates, CapAssumption
    <3>2. Region!NoAnnouncement \in [shards : Widths, fresh : BOOLEAN]
      BY <2>1 DEF Region!NoAnnouncement
    <3> QED BY <2>1, <3>1, <3>2 DEF Region!Init
  <2> QED BY <2>1, <2>2 DEF ShardsInv, ShardsTyped, Backed, Region!Init, Region!stateFor, Region!NoAnnouncement
<1>2. ShardsInv /\ [Region!Next]_w => ShardsInv'
  BY WarmInductive
<1>3. ShardsInv => WidthWasWarmed
  BY DEF ShardsInv, Backed, WidthWasWarmed, Region!WidthWasWarmed
<1> QED BY <1>1, <1>2, <1>3, PTL DEF Region!Spec

-----------------------------------------------------------------------------
(* Placement                                                               *)

Records ==
    [e : Int, moves : Int, strikes : Int, seen : Int, since : Int, stop : {"no", "pinned", "gave-up"}]
BlockFields == {"alias", "gens", "obs", "checked", "rec"}
BlockTyped(block) ==
    /\ block = [x \in BlockFields |-> block[x]]
    /\ block.alias \in [Nights!HintSet -> Nights!HintSet \cup {Nowhere}]
    /\ block.gens \in [Nights!HintSet -> Int]
    /\ block.rec \in Records

(* Aliases are never chained, nor do they lead back.                       *)
Routed(alias) ==
    \A h \in Nights!HintSet: alias[h] # Nowhere => alias[h] \in Nights!HintSet /\ alias[h] # h /\ alias[alias[h]] = Nowhere

(* Names given up are of earlier generations, or of earlier epochs of this *)
(* one, or of this one while its region is not served.                     *)
Outlived(block, name) ==
    \/ name[1] < block.gens[Watched]
    \/ name[1] = block.gens[Watched] /\ (block.alias[Watched] # Nowhere \/ name[2] < block.rec.e)

NightsInv ==
    /\ n = [x \in {"block", "left", "excused"} |-> n[x]]
    /\ BlockTyped(n.block) /\ Routed(n.block.alias)
    /\ ~n.excused => \A name \in n.left: name \in Int \X Int /\ Outlived(n.block, name)

LEMMA FirstIndex ==
    ASSUME NEW S \in Seq(Nights!HintSet), NEW T, T \subseteq Nights!ToSet(S), T # {}
    PROVE  \E i \in DOMAIN S: S[i] \in T /\ \A j \in 1..(i - 1): S[j] \notin T
<1> DEFINE I == {i \in DOMAIN S: S[i] \in T}
<1>1. I \subseteq Nat /\ I # {} /\ DOMAIN S = 1..Len(S) /\ Len(S) \in Nat
  BY DEF Nights!ToSet
<1>2. \E i \in I: \A j \in I: ~ (<<j, i>> \in OpToRel(<, Nat))
  BY <1>1, WFMin, NatLessThanWellFounded
<1>3. PICK i \in I: \A j \in I: ~(j < i)
  BY <1>1, <1>2 DEF OpToRel
<1>4. \A j \in 1..(i - 1): j < i /\ j \in DOMAIN S
  BY <1>1
<1> QED BY <1>3, <1>4

(* Users are sent to a region that is served, or nowhere.                  *)
LEMMA TargetServed ==
    ASSUME RegionsAssumption, NEW h \in Nights!HintSet, NEW to, NEW served \in SUBSET Nights!HintSet, NEW obs, NEW probes
    PROVE  Nights!Target(h, to, served, obs, probes) \in served \cup {Nowhere}
<1> DEFINE fits == {k \in served: Nights!Shared(h, k, obs) > 0 /\ (Nights!Landed(h, obs) = Nowhere \/ Continent[k] = Nights!Landed(h, obs))}
           best == {k \in fits: \A x \in fits: ~Nights!Beats(x, k, h, obs)}
           first == CHOOSE i \in DOMAIN RegionHints: RegionHints[i] \in best /\ \A j \in 1..(i - 1): RegionHints[j] \notin best
<1>1. best \subseteq served /\ RegionHints \in Seq(Nights!HintSet) /\ best \subseteq Nights!ToSet(RegionHints)
  BY DEF RegionsAssumption, Nights!HintSet
<1> HIDE DEF fits
<1>2. best # {} => RegionHints[first] \in best
  <2> HIDE DEF best
  <2> QED BY <1>1, FirstIndex
<1> HIDE DEF best
<1>3. LET valid == to # h /\ to \in served
      IN  Nights!Target(h, to, served, obs, probes) =
            IF valid /\ (probes[h] = <<>> \/ Nights!Newest(h, obs) # "off" \/ best = {} \/ to \in best) THEN to
            ELSE IF best # {} THEN RegionHints[first]
            ELSE IF UNSERVED_SEED[h] \in served THEN UNSERVED_SEED[h] ELSE Nowhere
  BY DEF Nights!Target, best, fits
<1> HIDE DEF first
<1> QED BY <1>1, <1>2, <1>3

(* A night keeps the routes sound, and the region's generation grows when  *)
(* and only when its probes bring it back.                                 *)
LEMMA NightRoutes ==
    ASSUME RegionsAssumption, NEW prev, BlockTyped(prev), Routed(prev.alias), NEW probes, NEW mayBump,
           NEW next, next = Nights!nextPlacement(prev, probes, mayBump)
    PROVE  /\ BlockTyped(next) /\ Routed(next.alias) /\ next.rec = prev.rec
           /\ \A h \in Nights!HintSet:
                \/ next.gens[h] = prev.gens[h]
                \/ next.gens[h] = prev.gens[h] + 1 /\ prev.alias[h] # Nowhere /\ next.alias[h] = Nowhere
           /\ \A h \in Nights!HintSet:
                h \in Nights!ServedAgain(prev, next.obs, probes, mayBump) /\ next.alias # prev.alias =>
                  next.gens[h] = prev.gens[h] + 1
<1> DEFINE obs == [h \in Nights!HintSet |-> Nights!NextObs(h, prev, probes)]
           again == Nights!ServedAgain(prev, obs, probes, mayBump)
           leaving == Nights!Leaving(prev, obs, probes)
           served == Nights!ServedNow(prev, obs, probes, mayBump)
           Goes(h) == IF h \in leaving THEN h ELSE IF h \in again THEN Nowhere ELSE prev.alias[h]
           alias == [h \in Nights!HintSet |-> IF Goes(h) = Nowhere THEN Nowhere ELSE Nights!Target(h, Goes(h), served, obs, probes)]
           gens == Nights!NextGens(prev, obs, probes, mayBump)
<1>1. next = prev \/ next = [prev EXCEPT !.obs = obs, !.checked = TRUE, !.gens = gens, !.alias = alias]
  BY Zenon DEF Nights!nextPlacement
<1>2. CASE next = prev
  BY <1>2 DEF BlockTyped
<1>3. /\ served \in SUBSET Nights!HintSet
      /\ \A h \in Nights!HintSet: h \in served => Goes(h) = Nowhere
      /\ \A h \in Nights!HintSet: h \in again => prev.alias[h] # Nowhere
  BY Zenon DEF Nights!ServedNow, Nights!ServedAgain
<1>4. \A h \in Nights!HintSet: h \in again => h \notin leaving
  BY Zenon DEF Nights!Leaving, Nights!ServedAgain
<1>5. \A h \in Nights!HintSet: gens[h] = prev.gens[h] + IF h \in again THEN 1 ELSE 0
  BY DEF Nights!NextGens
<1>6. gens \in [Nights!HintSet -> Int]
  BY DEF Nights!NextGens, BlockTyped
<1>7. \A h \in Nights!HintSet: alias[h] \in served \cup {Nowhere} /\ (Goes(h) = Nowhere => alias[h] = Nowhere)
  <2> HIDE DEF obs, served, leaving, again
  <2> QED BY <1>3, TargetServed
<1> HIDE DEF obs, again, leaving, served, gens
<1>8. \A h \in Nights!HintSet: h \in again => Goes(h) = Nowhere
  BY <1>4
<1>9. alias \in [Nights!HintSet -> Nights!HintSet \cup {Nowhere}]
  BY <1>3, <1>7
<1> HIDE DEF Goes, alias
<1>10. Routed(alias)
  <2> SUFFICES ASSUME NEW h \in Nights!HintSet, alias[h] # Nowhere
               PROVE  alias[h] \in Nights!HintSet /\ alias[h] # h /\ alias[alias[h]] = Nowhere
    BY DEF Routed
  <2>1. alias[h] \in served /\ h \notin served
    BY <1>3, <1>7
  <2> QED BY <1>3, <1>7, <2>1
<1>11. CASE next = [prev EXCEPT !.obs = obs, !.checked = TRUE, !.gens = gens, !.alias = alias]
  <2>1. /\ next.obs = obs /\ next.gens = gens /\ next.alias = alias /\ next.rec = prev.rec
        /\ next = [x \in BlockFields |-> next[x]]
    BY <1>11 DEF BlockTyped, BlockFields
  <2>2. BlockTyped(next)
    BY <2>1, <1>6, <1>9 DEF BlockTyped
  <2>3. \A h \in Nights!HintSet: prev.gens[h] \in Int /\ (h \in again => next.gens[h] = prev.gens[h] + 1 /\ next.alias[h] = Nowhere)
    BY <2>1, <1>5, <1>7, <1>8 DEF BlockTyped
  <2>4. \A h \in Nights!HintSet: h \notin again => next.gens[h] = prev.gens[h]
    BY <2>1, <2>3, <1>5
  <2>5. \A h \in Nights!HintSet: h \in Nights!ServedAgain(prev, next.obs, probes, mayBump) <=> h \in again
    BY <2>1 DEF again
  <2> QED BY <2>1, <2>2, <2>3, <2>4, <2>5, <1>3, <1>10
<1> QED BY <1>1, <1>2, <1>11

(* Only a pin lowers an epoch.                                             *)
LEMMA Judged ==
    ASSUME RegionsAssumption, NEW rec \in Records, NEW judged \in Nights!Judgements(rec)
    PROVE  judged.rec \in Records /\ judged.pinned \in BOOLEAN /\ (~judged.pinned => judged.rec.e >= rec.e)
<1>1. PICK days \in {1, 2}, pin \in {Nights!NoPin, Nights!Auto, 0}: \E health, turn:
        judged = [rec |-> Nights!judgeEngines(Nights!Aged(rec, days), pin, health, turn), pinned |-> pin >= 0]
  <2>1. PICK x \in {1, 2} \X {Nights!NoPin, Nights!Auto, 0} \X {"well", "misplaced", "sick", "both", "silent"} \X BOOLEAN:
          judged = [rec |-> Nights!judgeEngines(Nights!Aged(rec, x[1]), x[2], x[3], x[4]), pinned |-> x[2] >= 0]
    BY DEF Nights!Judgements
  <2>2. x[1] \in {1, 2} /\ x[2] \in {Nights!NoPin, Nights!Auto, 0}
    OBVIOUS
  <2> QED BY <2>1, <2>2
<1>0. PICK health, turn: judged = [rec |-> Nights!judgeEngines(Nights!Aged(rec, days), pin, health, turn), pinned |-> pin >= 0]
  BY <1>1
<1> DEFINE aged == Nights!Aged(rec, days)
           told == Nights!parsePins(aged, pin)
           struck == Nights!Struck(told, health)
           moved == Nights!Moved(struck)
           ruled == Nights!judgeEngines(aged, pin, health, turn)
<1>2. /\ days \in Int /\ pin \in Int /\ pin \in {Nights!NoPin, Nights!Auto, 0}
      /\ Nights!NoPin = -2 /\ Nights!Auto = -1 /\ SICK_NIGHTS \in Int /\ MOVE_COOLDOWN \in Int
  BY DEF RegionsAssumption, Nights!NoPin, Nights!Auto
<1>3. aged \in Records /\ aged.e = rec.e
  <2> DEFINE seen == IF rec.seen + days > 2 THEN 2 ELSE rec.seen + days
             since == IF rec.since + days > MOVE_COOLDOWN THEN MOVE_COOLDOWN ELSE rec.since + days
  <2>1. seen \in Int /\ since \in Int
    BY <1>2 DEF Records
  <2>2. aged = [rec EXCEPT !.seen = seen, !.since = since]
    BY DEF Nights!Aged, Records
  <2> HIDE DEF seen, since, aged
  <2> QED BY <2>1, <2>2 DEF Records
<1> HIDE DEF aged
<1>4. told \in Records /\ (pin < 0 => told.e = rec.e)
  <2>1. CASE pin = Nights!Auto
    <3>1. told = [aged EXCEPT !.stop = "no", !.moves = 0]
      BY <2>1 DEF Nights!parsePins
    <3> HIDE DEF told
    <3> DEFINE a == [aged EXCEPT !.stop = "no"]
    <3>2. told = [a EXCEPT !.moves = 0]
      BY <3>1, Zenon
    <3>3. a \in Records /\ a.e = aged.e
      BY <1>3 DEF Records
    <3> HIDE DEF told, a
    <3> QED BY <3>2, <3>3, <1>3 DEF Records
  <2>2. CASE pin = Nights!NoPin
    <3> DEFINE stop == IF aged.stop = "pinned" THEN "no" ELSE aged.stop
    <3>1. told = [aged EXCEPT !.stop = stop]
      BY <1>2, <1>3, <2>2 DEF Nights!parsePins, Records
    <3>2. stop \in {"no", "pinned", "gave-up"}
      BY <1>3 DEF Records
    <3> HIDE DEF told, stop
    <3> QED BY <3>1, <3>2, <1>3 DEF Records
  <2>3. CASE pin = 0
    <3>1. told = [aged EXCEPT !.e = 0, !.stop = "pinned", !.strikes = 0, !.seen = 2]
      BY <1>2, <2>3 DEF Nights!parsePins
    <3> DEFINE a == [aged EXCEPT !.e = 0]
               b == [a EXCEPT !.stop = "pinned"]
               cleared == [b EXCEPT !.strikes = 0]
    <3>2. told = [cleared EXCEPT !.seen = 2]
      BY <3>1, Zenon
    <3>3. a \in Records
      BY <1>3 DEF Records
    <3> HIDE DEF told, a
    <3>4. b \in Records
      BY <3>3 DEF Records
    <3> HIDE DEF b
    <3>5. cleared \in Records
      BY <3>4 DEF Records
    <3> HIDE DEF cleared
    <3>6. told \in Records
      BY <3>2, <3>5 DEF Records
    <3> QED BY <2>3, <3>6
  <2> QED BY <1>2, <2>1, <2>2, <2>3
<1> HIDE DEF told
<1>5. struck \in Records /\ struck.e = told.e
  <2> DEFINE strikes == IF told.seen > 1 THEN 1 ELSE IF told.strikes < SICK_NIGHTS THEN told.strikes + 1 ELSE told.strikes
  <2>1. strikes \in Int
    BY <1>4 DEF Records
  <2>2. \/ struck = [told EXCEPT !.strikes = strikes, !.seen = 0]
        \/ struck = [told EXCEPT !.strikes = 0, !.seen = 2]
        \/ struck = told
    BY <1>4 DEF Nights!Struck, Records
  <2> HIDE DEF strikes, struck
  <2>3. CASE struck = [told EXCEPT !.strikes = strikes, !.seen = 0]
    <3> DEFINE a == [told EXCEPT !.strikes = strikes]
    <3>1. struck = [a EXCEPT !.seen = 0]
      BY <2>3, Zenon
    <3>2. a \in Records /\ a.e = told.e
      BY <1>4, <2>1 DEF Records
    <3> HIDE DEF a
    <3> QED BY <3>1, <3>2 DEF Records
  <2>4. CASE struck = [told EXCEPT !.strikes = 0, !.seen = 2]
    <3> DEFINE a == [told EXCEPT !.strikes = 0]
    <3>1. struck = [a EXCEPT !.seen = 2]
      BY <2>4, Zenon
    <3>2. a \in Records /\ a.e = told.e
      BY <1>4 DEF Records
    <3> HIDE DEF a
    <3> QED BY <3>1, <3>2 DEF Records
  <2> QED BY <1>4, <2>2, <2>3, <2>4
<1> HIDE DEF struck
<1>6. moved \in Records /\ moved.e = struck.e + 1
  <2> DEFINE a == [struck EXCEPT !.e = struck.e + 1]
             b == [a EXCEPT !.since = 0]
             counted == [b EXCEPT !.moves = struck.moves + 1]
             d == [counted EXCEPT !.strikes = 0]
  <2>1. moved = [d EXCEPT !.seen = 2]
    BY <1>5 DEF Nights!Moved, Records
  <2>2. struck.e + 1 \in Int /\ struck.moves + 1 \in Int
    BY <1>5 DEF Records
  <2>3. a \in Records /\ a.e = struck.e + 1
    BY <1>5, <2>2 DEF Records
  <2> HIDE DEF moved, a
  <2>4. b \in Records /\ b.e = a.e
    BY <2>3 DEF Records
  <2> HIDE DEF b
  <2>5. counted \in Records /\ counted.e = b.e
    BY <2>2, <2>4 DEF Records
  <2> HIDE DEF counted
  <2>6. d \in Records /\ d.e = counted.e
    BY <2>5 DEF Records
  <2> HIDE DEF d
  <2> QED BY <2>1, <2>3, <2>4, <2>5, <2>6 DEF Records
<1> HIDE DEF moved
<1>7. \E next \in {struck, [struck EXCEPT !.stop = "gave-up"], moved}:
        ruled = IF Nights!isEmptyRecord(next) THEN Nights!NoRecord ELSE next
  BY Zenon DEF Nights!judgeEngines, told, struck, moved
<1>8. PICK next \in {struck, [struck EXCEPT !.stop = "gave-up"], moved}:
        ruled = IF Nights!isEmptyRecord(next) THEN Nights!NoRecord ELSE next
  BY <1>7
<1>9. next \in Records /\ next.e >= struck.e
  BY <1>5, <1>6 DEF Records
<1>10. /\ Nights!NoRecord \in Records /\ Nights!NoRecord.e = 0
       /\ Nights!isEmptyRecord(next) => next.e = 0
  BY <1>2 DEF Nights!NoRecord, Nights!isEmptyRecord, Records
<1>11. ruled \in Records /\ ruled.e >= struck.e
  BY <1>8, <1>9, <1>10
<1>12. judged.rec = ruled /\ judged.pinned \in BOOLEAN /\ (judged.pinned <=> pin >= 0)
  <2> DEFINE low == pin >= 0
  <2>1. judged = [rec |-> ruled, pinned |-> low]
    BY <1>0, Zenon DEF aged
  <2>3. low \in BOOLEAN
    OBVIOUS
  <2> HIDE DEF low
  <2>2. judged.rec = ruled /\ judged.pinned = low
    BY <2>1
  <2> QED BY <2>2, <2>3, Zenon DEF low
<1> HIDE DEF ruled
<1>13. struck.e \in Int /\ told.e \in Int /\ rec.e \in Int
  BY <1>4, <1>5 DEF Records
<1> QED BY <1>2, <1>4, <1>5, <1>11, <1>12, <1>13

LEMMA SeedSound ==
    ASSUME RegionsAssumption
    PROVE  BlockTyped(Nights!SeedBlock) /\ Routed(Nights!SeedBlock.alias)
<1>1. Nights!NoRecord \in Records
  BY DEF RegionsAssumption, Nights!NoRecord, Records
<1>2. /\ Nights!SeedBlock.alias = UNSERVED_SEED /\ Nights!SeedBlock.gens = [h \in Nights!HintSet |-> 0]
      /\ Nights!SeedBlock.rec = Nights!NoRecord
      /\ Nights!SeedBlock = [x \in BlockFields |-> Nights!SeedBlock[x]]
  BY DEF Nights!SeedBlock, BlockFields
<1> QED BY <1>1, <1>2 DEF BlockTyped, Routed, RegionsAssumption

(* A region that is not aliased is its own, and one that is is not.        *)
LEMMA OwnRegion ==
    ASSUME NEW block, Routed(block.alias), NEW h \in Nights!HintSet, Nowhere \notin Nights!HintSet
    PROVE  /\ Nights!effectiveRegion(h, block) = h <=> block.alias[h] = Nowhere
           /\ block.alias[h] # Nowhere => Nights!effectiveRegion(h, block) = block.alias[h]
BY DEF Routed, Nights!effectiveRegion

LEMMA NightStep ==
    ASSUME RegionsAssumption, NightsInv, NEW readable \in BOOLEAN, Nights!placementGate(readable)
    PROVE  NightsInv'
<1> DEFINE before == IF readable THEN n.block ELSE Nights!SeedBlock
<1> DEFINE Outcome(night, wide) ==
        LET placement == night.block
            orphaned == ~night.welcome /\ before.alias[Watched] # Nowhere /\ placement.alias[Watched] = Nowhere
        IN  \E judged \in IF Nights!served(placement, before, wide) THEN Nights!Judgements(before.rec) ELSE {Nights!Dropped}:
              LET excused == n.excused \/ ~readable \/ ~wide \/ orphaned \/ judged.pinned
                  leaves == placement.alias[Watched] # Nowhere \/ judged.rec.e # before.rec.e
              IN  n' = [block |-> [placement EXCEPT !.rec = judged.rec], excused |-> excused,
                        left |-> IF excused THEN {}
                                 ELSE IF before.alias[Watched] = Nowhere /\ leaves THEN n.left \cup {Nights!Name(before)} ELSE n.left]
<1> DEFINE SomeOutcome(night) == \E wide \in BOOLEAN: Outcome(night, wide)
<1>1. PICK probes \in Nights!Probes, mayBump \in BOOLEAN, wide \in BOOLEAN:
        Outcome(Nights!Decided(before, probes, mayBump), wide)
  <2>1. \E night \in Nights!Tonight(before): SomeOutcome(night)
    BY Zenon DEF Nights!placementGate
  <2> HIDE DEF Outcome, SomeOutcome, before
  <2>2. PICK night \in Nights!Tonight(before): SomeOutcome(night)
    BY <2>1
  <2>3. PICK probes \in Nights!Probes, mayBump \in BOOLEAN: SomeOutcome(Nights!Decided(before, probes, mayBump))
    BY <2>2 DEF Nights!Tonight
  <2> QED BY <2>3 DEF SomeOutcome
<1> DEFINE placement == Nights!nextPlacement(before, probes, mayBump)
           welcome == Watched \in Nights!ServedAgain(before, placement.obs, probes, mayBump)
           orphaned == ~welcome /\ before.alias[Watched] # Nowhere /\ placement.alias[Watched] = Nowhere
           Excused(judged) == n.excused \/ ~readable \/ ~wide \/ orphaned \/ judged.pinned
           Leaves(judged) == placement.alias[Watched] # Nowhere \/ judged.rec.e # before.rec.e
<1>2. LET night == Nights!Decided(before, probes, mayBump) IN night.block = placement /\ night.welcome = welcome
  BY DEF Nights!Decided
<1>3. PICK judged \in IF Nights!served(placement, before, wide) THEN Nights!Judgements(before.rec) ELSE {Nights!Dropped}:
        n' = [block |-> [placement EXCEPT !.rec = judged.rec], excused |-> Excused(judged),
              left |-> IF Excused(judged) THEN {}
                       ELSE IF before.alias[Watched] = Nowhere /\ Leaves(judged) THEN n.left \cup {Nights!Name(before)} ELSE n.left]
  BY <1>1, <1>2, Zenon
<1>4. BlockTyped(before) /\ Routed(before.alias)
  BY SeedSound DEF NightsInv
<1> HIDE DEF before
<1>5. /\ BlockTyped(placement) /\ Routed(placement.alias) /\ placement.rec = before.rec
      /\ \A h \in Nights!HintSet:
           \/ placement.gens[h] = before.gens[h]
           \/ placement.gens[h] = before.gens[h] + 1 /\ before.alias[h] # Nowhere /\ placement.alias[h] = Nowhere
      /\ welcome /\ placement.alias # before.alias => placement.gens[Watched] = before.gens[Watched] + 1
  BY <1>4, NightRoutes DEF RegionsAssumption
<1> HIDE DEF placement, welcome
<1>6. /\ judged.rec \in Records
      /\ ~judged.pinned /\ Nights!served(placement, before, wide) => judged.rec.e >= before.rec.e
  <2>1. CASE Nights!served(placement, before, wide)
    BY <1>3, <1>4, <2>1, Judged DEF BlockTyped
  <2>2. CASE ~Nights!served(placement, before, wide)
    BY <1>3, <2>2 DEF Nights!Dropped, Nights!NoRecord, Records, RegionsAssumption
  <2> QED BY <2>1, <2>2
<1> DEFINE block == [placement EXCEPT !.rec = judged.rec]
           excused == Excused(judged)
           left == IF excused THEN {}
                   ELSE IF before.alias[Watched] = Nowhere /\ Leaves(judged) THEN n.left \cup {Nights!Name(before)} ELSE n.left
<1>7. /\ block.alias = placement.alias /\ block.gens = placement.gens /\ block.rec = judged.rec
      /\ block = [x \in BlockFields |-> block[x]]
  BY <1>5 DEF BlockTyped, BlockFields
<1>8. BlockTyped(block) /\ Routed(block.alias)
  <2> HIDE DEF block
  <2> QED BY <1>5, <1>6, <1>7 DEF BlockTyped
<1>9. n' = [block |-> block, excused |-> excused, left |-> left]
  BY <1>3
<1> HIDE DEF block
<1>10. ASSUME ~excused, NEW name \in left
       PROVE  name \in Int \X Int /\ Outlived(block, name)
  <2>1. /\ ~n.excused /\ readable /\ wide /\ ~orphaned /\ ~judged.pinned /\ before = n.block
    BY <1>10 DEF before
  <2>2. /\ before.gens[Watched] \in Int /\ before.rec.e \in Int /\ judged.rec.e \in Int /\ placement.gens[Watched] \in Int
        /\ Watched \in Nights!HintSet /\ Nowhere \notin Nights!HintSet
    BY <1>4, <1>5, <1>6 DEF BlockTyped, Records, RegionsAssumption
  <2>3. /\ placement.gens[Watched] >= before.gens[Watched]
        /\ before.alias[Watched] # Nowhere /\ placement.alias[Watched] = Nowhere => placement.gens[Watched] = before.gens[Watched] + 1
        /\ before.alias[Watched] = Nowhere => placement.gens[Watched] = before.gens[Watched]
    BY <1>5, <2>1, <2>2 DEF orphaned
  <2>4. before.alias[Watched] = Nowhere /\ placement.alias[Watched] = Nowhere => judged.rec.e >= before.rec.e
    BY <1>5, <1>6, <2>1, <2>2, <2>3, OwnRegion DEF Nights!served, Nights!generationOf
  <2>5. Nights!Name(before) = <<before.gens[Watched], before.rec.e>>
    BY DEF Nights!Name, Nights!generationOf
  <2>6. CASE name \in n.left
    <3>1. name \in Int \X Int /\ Outlived(before, name) /\ name[1] \in Int /\ name[2] \in Int
      BY <2>1, <2>6 DEF NightsInv
    <3> QED BY <1>7, <2>2, <2>3, <2>4, <3>1 DEF Outlived
  <2>7. CASE name = Nights!Name(before) /\ before.alias[Watched] = Nowhere /\ Leaves(judged)
    <3>1. name \in Int \X Int /\ name[1] = before.gens[Watched] /\ name[2] = before.rec.e
      BY <2>2, <2>5, <2>7
    <3> QED BY <1>7, <2>2, <2>3, <2>4, <2>7, <3>1 DEF Outlived
  <2> QED BY <1>10, <2>6, <2>7
<1> HIDE DEF excused, left
<1>11. /\ n'.block = block /\ n'.excused = excused /\ n'.left = left
       /\ n' = [x \in {"block", "left", "excused"} |-> n'[x]]
  BY <1>9
<1> QED BY <1>8, <1>10, <1>11 DEF NightsInv

LEMMA NightsStart ==
    ASSUME RegionsAssumption, Nights!Init
    PROVE  NightsInv
<1>1. n.block = Nights!SeedBlock /\ n.left = {} /\ n = [x \in {"block", "left", "excused"} |-> n[x]]
  BY DEF Nights!Init
<1> QED BY <1>1, SeedSound DEF NightsInv

(* Whatever a night's probes say, in whatever order regions leave, come    *)
(* back and change their targets, for any set of regions: every region's   *)
(* users go to a region that is served (placement-policy.ts).              *)
THEOREM RoutesAreServed ==
    Nights!Init /\ [][Nights!Next]_n => []RoutesServed
<1> USE ServingAssumption
<1>1. NightsInv /\ [Nights!Next]_n => NightsInv'
  <2>1. NightsInv /\ UNCHANGED n => NightsInv'
    BY DEF NightsInv
  <2> QED BY <2>1, NightStep DEF Nights!Next
<1>2. NightsInv => RoutesServed
  <2> SUFFICES ASSUME NightsInv PROVE Nights!RoutesServed
    BY DEF RoutesServed
  <2> QED BY OwnRegion DEF NightsInv, Routed, Nights!RoutesServed, RegionsAssumption
<1> QED BY <1>1, <1>2, NightsStart, PTL

(* For any number of nights, moves and returns: a name that was given up   *)
(* is not used again, but for the four excuses (engine-moves.ts,           *)
(* placement-policy.ts).                                                   *)
THEOREM NamesNotReused ==
    Nights!Init /\ [][Nights!Next]_n => []LeftStaysLeft
<1> USE ServingAssumption
<1>1. NightsInv /\ [Nights!Next]_n => NightsInv'
  <2>1. NightsInv /\ UNCHANGED n => NightsInv'
    BY DEF NightsInv
  <2> QED BY <2>1, NightStep DEF Nights!Next
<1>2. NightsInv => LeftStaysLeft
  <2> SUFFICES ASSUME NightsInv, ~n.excused, Nights!effectiveRegion(Watched, n.block) = Watched, Nights!Name(n.block) \in n.left
               PROVE  FALSE
    BY DEF LeftStaysLeft, Nights!LeftStaysLeft
  <2>1. n.block.alias[Watched] = Nowhere
    BY OwnRegion DEF NightsInv, RegionsAssumption
  <2>2. n.block.gens[Watched] \in Int /\ n.block.rec.e \in Int
    BY DEF NightsInv, BlockTyped, Records, RegionsAssumption
  <2>3. Nights!Name(n.block) = <<n.block.gens[Watched], n.block.rec.e>>
    BY DEF Nights!Name, Nights!generationOf
  <2> QED BY <2>1, <2>2, <2>3 DEF NightsInv, Outlived
<1> QED BY <1>1, <1>2, NightsStart, PTL

-----------------------------------------------------------------------------
(* SiblingCalls                                                            *)

Counts == [Calls!Methods -> Int]
Slots == Calls!Methods \X Calls!Siblings \X Calls!Legs
CallStates ==
    [leg : [Calls!Legs -> {"none", "queued", "granted", "out", "ok", "bad", "over"}],
     timer : BOOLEAN, crossTimer : BOOLEAN, asked : BOOLEAN, landed : BOOLEAN, hedged : BOOLEAN, failed : BOOLEAN,
     out : Int, settled : {"no", "answered", "failed"}]
Books ==
    [open : Int, waiting : Seq(Slots), method : Calls!Methods,
     answers : Counts, unhedged : Counts,
     calls : [Calls!Methods -> [Calls!Siblings -> CallStates]]]

HoldsSlot(leg) == leg \in {"granted", "out"}
LegAt(s, x) == s.calls[x[1]][x[2]].leg[x[3]]
Held(s) == {x \in Slots : HoldsSlot(LegAt(s, x))}

(* A leg not sent yet is of a call none of whose clocks runs, and a clock  *)
(* runs for a leg that was never asked for.                                *)
Sound(call) ==
    /\ call.leg["original"] \in {"none", "queued", "granted"} =>
         call.leg["same"] = "none" /\ call.leg["cross"] = "none" /\ ~call.timer /\ ~call.crossTimer
    /\ call.leg["same"] \in {"queued", "granted"} => call.leg["cross"] = "none" /\ ~call.timer /\ ~call.crossTimer
    /\ call.leg["cross"] \in {"queued", "granted"} => ~call.timer /\ ~call.crossTimer
    /\ call.timer => call.leg["same"] = "none" /\ call.leg["cross"] = "none" /\ ~call.crossTimer
    /\ call.crossTimer => call.leg["cross"] = "none"

(* Those in line are the legs that are queued, each once.                  *)
InLine(s) ==
    /\ \A i, j \in DOMAIN s.waiting : s.waiting[i] = s.waiting[j] => i = j
    /\ \A x \in Slots : LegAt(s, x) = "queued" <=> \E i \in DOMAIN s.waiting : s.waiting[i] = x

(* No row is asked for while keys are.                                     *)
KeysFirst(s) ==
    s.method = "searchKeys" => \A p \in Calls!Siblings : s.calls["fetchRows"][p].leg["original"] = "none"

(* The limiter's books, with so many slots counted and not held.           *)
Account(s, spare) ==
    /\ s \in Books /\ InLine(s) /\ KeysFirst(s)
    /\ \A m \in Calls!Methods, p \in Calls!Siblings : Sound(s.calls[m][p])
    /\ s.open = Cardinality(Held(s)) + spare /\ s.open <= SIBLING_CALLS_AT_ONCE
    /\ s.waiting # <<>> => s.open = SIBLING_CALLS_AT_ONCE

Granted(call, leg) == [call EXCEPT !.leg[leg] = "granted"]

LEMMA CountedUpTo ==
    ASSUME NEW k \in Nat
    PROVE  IsFiniteSet(1..k) /\ Cardinality(1..k) = k
<1>1. 1 \in Int /\ k \in Int
  OBVIOUS
<1>2. IsFiniteSet(1..k) /\ Cardinality(1..k) = IF 1 > k THEN 0 ELSE k - 1 + 1
  BY <1>1, FS_Interval, Zenon
<1> QED BY <1>2

LEMMA SlotsFinite ==
    ASSUME CallsAssumption, NEW s
    PROVE  IsFiniteSet(Slots) /\ IsFiniteSet(Held(s)) /\ Cardinality(Held(s)) \in Nat
<1>1. IsFiniteSet(Calls!Siblings)
  BY FS_Interval DEF Calls!Siblings, CallsAssumption
<1>2. IsFiniteSet({"searchKeys", "fetchRows"})
  <2>1. IsFiniteSet({} \cup {"searchKeys"})
    BY FS_EmptySet, FS_AddElement
  <2>2. IsFiniteSet(({} \cup {"searchKeys"}) \cup {"fetchRows"})
    BY <2>1, FS_AddElement
  <2> QED BY <2>2
<1>3. IsFiniteSet({"original", "same", "cross"})
  <2>1. IsFiniteSet({} \cup {"original"})
    BY FS_EmptySet, FS_AddElement
  <2>2. IsFiniteSet(({} \cup {"original"}) \cup {"same"})
    BY <2>1, FS_AddElement
  <2>3. IsFiniteSet((({} \cup {"original"}) \cup {"same"}) \cup {"cross"})
    BY <2>2, FS_AddElement
  <2> QED BY <2>3
<1>4. IsFiniteSet(Calls!Siblings \X Calls!Legs)
  BY <1>1, <1>3, FS_Product DEF Calls!Legs
<1>5. IsFiniteSet(Calls!Methods \X (Calls!Siblings \X Calls!Legs))
  BY <1>2, <1>4, FS_Product DEF Calls!Methods
<1>6. IsFiniteSet(Slots)
  <2> DEFINE Pairs == Calls!Methods \X (Calls!Siblings \X Calls!Legs)
             Triple == [y \in Pairs |-> <<y[1], y[2][1], y[2][2]>>]
  <2>1. ASSUME NEW x \in Slots
        PROVE  \E y \in Pairs : Triple[y] = x
    <3>1. <<x[1], <<x[2], x[3]>>>> \in Pairs /\ Triple[<<x[1], <<x[2], x[3]>>>>] = x
      BY DEF Slots
    <3> QED BY <3>1
  <2>2. \A y \in Pairs : Triple[y] \in Slots
    BY DEF Slots
  <2>3. Triple \in Surjection(Pairs, Slots)
    BY <2>1, <2>2 DEF Surjection
  <2> QED BY <2>3, <1>5, FS_Surjection
<1>7. Held(s) \in SUBSET Slots
  BY DEF Held
<1> QED BY <1>6, <1>7, FS_Subset, FS_CardinalityType

(* What the fields of the books are.                                       *)
LEMMA BooksFields ==
    ASSUME NEW s \in Books
    PROVE  /\ s.open \in Int /\ s.waiting \in Seq(Slots) /\ s.method \in Calls!Methods
           /\ s.calls \in [Calls!Methods -> [Calls!Siblings -> CallStates]]
           /\ s.answers \in Counts /\ s.unhedged \in Counts
           /\ \A m \in Calls!Methods, p \in Calls!Siblings : s.calls[m][p] \in CallStates
  BY DEF Books

LEMMA CallFields ==
    ASSUME NEW call \in CallStates
    PROVE  /\ call.leg \in [Calls!Legs -> {"none", "queued", "granted", "out", "ok", "bad", "over"}]
           /\ call.timer \in BOOLEAN /\ call.crossTimer \in BOOLEAN /\ call.asked \in BOOLEAN /\ call.landed \in BOOLEAN
           /\ call.hedged \in BOOLEAN /\ call.failed \in BOOLEAN /\ call.out \in Int
           /\ call.settled \in {"no", "answered", "failed"}
  BY DEF CallStates

(* The books after a step of one call, which may count answers and calls.  *)
Rewritten(s, m, p, call, answers, unhedged) ==
    [s EXCEPT !.calls = [s.calls EXCEPT ![m][p] = call], !.answers = answers, !.unhedged = unhedged]

LEMMA Rewrites ==
    ASSUME NEW s \in Books, NEW m \in Calls!Methods, NEW p \in Calls!Siblings, NEW call \in CallStates,
           NEW answers \in Counts, NEW unhedged \in Counts
    PROVE  LET t == Rewritten(s, m, p, call, answers, unhedged)
           IN  /\ t \in Books /\ t.calls = [s.calls EXCEPT ![m][p] = call]
               /\ t.open = s.open /\ t.waiting = s.waiting /\ t.method = s.method
<1>1. /\ s.calls \in [Calls!Methods -> [Calls!Siblings -> CallStates]]
      /\ [s.calls EXCEPT ![m][p] = call] \in [Calls!Methods -> [Calls!Siblings -> CallStates]]
      /\ [s.calls EXCEPT ![m][p] = call][m][p] = call
  BY BooksFields
<1> DEFINE t == Rewritten(s, m, p, call, answers, unhedged)
           calls == [s.calls EXCEPT ![m][p] = call]
<1>2. t = [s EXCEPT !.calls = calls, !.answers = answers, !.unhedged = unhedged]
  BY DEF Rewritten
<1> HIDE DEF calls, t
<1>3. t \in Books
  BY <1>1, <1>2 DEF Books, calls
<1>4. t.calls = calls /\ t.open = s.open /\ t.waiting = s.waiting /\ t.method = s.method
  BY <1>2 DEF Books
<1> QED BY <1>1, <1>3, <1>4 DEF calls, t

LEMMA RewrittenCall ==
    ASSUME NEW s \in Books, NEW m \in Calls!Methods, NEW p \in Calls!Siblings, NEW call, NEW answers, NEW unhedged
    PROVE  Rewritten(s, m, p, call, answers, unhedged).calls[m][p] = call
<1>1. s.calls \in [Calls!Methods -> [Calls!Siblings -> CallStates]]
  BY BooksFields
<1>2. Rewritten(s, m, p, call, answers, unhedged).calls = [s.calls EXCEPT ![m][p] = call]
  BY DEF Rewritten, Books
<1> QED BY <1>1, <1>2

(* One leg of one call changes, not into or out of the line: the count     *)
(* goes with whether it held a slot and whether it holds one.              *)
LegTurns(s, spare, m, p, leg, call, more) ==
    LET old == s.calls[m][p]
    IN  /\ Sound(call) /\ old.leg["original"] # "none"
        /\ \A k \in Calls!Legs \ {leg} : call.leg[k] = old.leg[k]
        /\ call.leg[leg] = "queued" <=> old.leg[leg] = "queued"
        /\ spare + (IF HoldsSlot(old.leg[leg]) THEN 1 ELSE 0) = more + (IF HoldsSlot(call.leg[leg]) THEN 1 ELSE 0)

LEMMA Turn ==
    ASSUME CallsAssumption, NEW s, NEW spare \in Int, Account(s, spare),
           NEW m \in Calls!Methods, NEW p \in Calls!Siblings, NEW leg \in Calls!Legs, NEW call \in CallStates, NEW more \in Int,
           LegTurns(s, spare, m, p, leg, call, more),
           NEW answers \in Counts, NEW unhedged \in Counts
    PROVE  Account(Rewritten(s, m, p, call, answers, unhedged), more)
<1> DEFINE t == Rewritten(s, m, p, call, answers, unhedged)
<1>0. /\ s \in Books /\ t \in Books /\ t.calls = [s.calls EXCEPT ![m][p] = call]
      /\ t.open = s.open /\ t.waiting = s.waiting /\ t.method = s.method
  BY Rewrites DEF Account
<1> HIDE DEF t
<1> USE DEF LegTurns
<1> SUFFICES Account(t, more)
  BY DEF t
<1> DEFINE x == <<m, p, leg>>
           old == s.calls[m][p]
<1>1. s \in Books /\ x \in Slots /\ LegAt(s, x) = old.leg[leg] /\ s.calls \in [Calls!Methods -> [Calls!Siblings -> CallStates]]
  BY BooksFields DEF Account, Slots, LegAt
<1>2. \A i \in Calls!Methods, j \in Calls!Siblings : t.calls[i][j] = IF i = m /\ j = p THEN call ELSE s.calls[i][j]
  BY <1>0, <1>1
<1>3. \A y \in Slots : LegAt(t, y) = IF y = x THEN call.leg[leg] ELSE LegAt(s, y)
  <2> SUFFICES ASSUME NEW i \in Calls!Methods, NEW j \in Calls!Siblings, NEW k \in Calls!Legs
               PROVE  t.calls[i][j].leg[k] = IF <<i, j, k>> = x THEN call.leg[leg] ELSE s.calls[i][j].leg[k]
    BY DEF Slots, LegAt
  <2>1. CASE i = m /\ j = p
    BY <1>2, <2>1
  <2>2. CASE ~(i = m /\ j = p)
    BY <1>2, <2>2
  <2> QED BY <2>1, <2>2
<1>4. InLine(t)
  BY <1>0, <1>1, <1>3 DEF InLine, Account
<1>5. KeysFirst(t) /\ \A i \in Calls!Methods, j \in Calls!Siblings : Sound(t.calls[i][j])
  <2>1. s.method = "searchKeys" => m # "fetchRows"
    BY DEF Account, KeysFirst
  <2> QED BY <1>0, <1>2, <2>1 DEF Account, KeysFirst, Calls!Methods
<1>6. t.open = Cardinality(Held(t)) + more
  <2>1. Cardinality(Held(s)) \in Nat /\ IsFiniteSet(Held(s)) /\ s.open = Cardinality(Held(s)) + spare
    BY SlotsFinite DEF Account
  <2>2. x \in Held(s) <=> HoldsSlot(old.leg[leg])
    BY <1>1 DEF Held
  <2>3. Held(t) = IF HoldsSlot(call.leg[leg]) THEN Held(s) \cup {x} ELSE Held(s) \ {x}
    <3>1. \A y \in Slots : y \in Held(t) <=> IF y = x THEN HoldsSlot(call.leg[leg]) ELSE y \in Held(s)
      BY <1>3 DEF Held
    <3>2. Held(s) \subseteq Slots /\ Held(t) \subseteq Slots
      BY DEF Held
    <3> QED BY <1>1, <3>1, <3>2
  <2>4. /\ Cardinality(Held(s) \cup {x}) = IF x \in Held(s) THEN Cardinality(Held(s)) ELSE Cardinality(Held(s)) + 1
        /\ Cardinality(Held(s) \ {x}) = IF x \in Held(s) THEN Cardinality(Held(s)) - 1 ELSE Cardinality(Held(s))
    BY <2>1, FS_AddElement, FS_RemoveElement
  <2>5. Cardinality(Held(t)) = Cardinality(Held(s)) + (IF HoldsSlot(call.leg[leg]) THEN 1 ELSE 0)
                                                    - (IF HoldsSlot(old.leg[leg]) THEN 1 ELSE 0)
    BY <2>1, <2>2, <2>3, <2>4
  <2> QED BY <1>0, <2>1, <2>5
<1> QED BY <1>0, <1>4, <1>5, <1>6 DEF Account

(* A slot given up goes to the next in line, or back.                      *)
LEMMA Releases ==
    ASSUME CallsAssumption, NEW s, Account(s, 1)
    PROVE  Account(Calls!release(s), 0)
<1>1. s \in Books /\ s.open \in Int /\ s.waiting \in Seq(Slots) /\ s.calls \in [Calls!Methods -> [Calls!Siblings -> CallStates]]
  BY BooksFields DEF Account
<1>2. Cardinality(Held(s)) \in Nat /\ IsFiniteSet(Held(s)) /\ s.open = Cardinality(Held(s)) + 1
  BY SlotsFinite DEF Account
<1>3. CASE s.waiting = <<>>
  <2> DEFINE t == [s EXCEPT !.open = s.open - 1]
  <2>1. Calls!release(s) = t
    BY <1>3 DEF Calls!release
  <2>2. t \in Books /\ t.open = s.open - 1 /\ t.waiting = s.waiting /\ t.calls = s.calls /\ t.method = s.method
    <3> DEFINE fewer == s.open - 1
    <3>1. fewer \in Int /\ t = [s EXCEPT !.open = fewer]
      BY <1>1
    <3> HIDE DEF fewer, t
    <3>2. t \in Books
      BY <1>1, <3>1 DEF Books
    <3>3. t.open = fewer /\ t.waiting = s.waiting /\ t.calls = s.calls /\ t.method = s.method
      BY <1>1, <3>1 DEF Books
    <3> QED BY <3>2, <3>3 DEF fewer
  <2>3. Held(t) = Held(s)
    BY <2>2 DEF Held, LegAt
  <2> HIDE DEF t
  <2>4. t.open = Cardinality(Held(t)) + 0 /\ t.open <= SIBLING_CALLS_AT_ONCE
    BY <1>1, <1>2, <2>2, <2>3 DEF Account, CallsAssumption
  <2> QED BY <1>3, <2>1, <2>2, <2>4 DEF Account, InLine, KeysFirst, LegAt
<1>4. CASE s.waiting # <<>>
  <2> DEFINE x == Head(s.waiting)
             call == [s.calls[x[1]][x[2]] EXCEPT !.leg[x[3]] = "granted"]
             t == [s EXCEPT !.waiting = Tail(s.waiting), !.calls = [s.calls EXCEPT ![x[1]][x[2]] = call]]
  <2>1. /\ x \in Slots /\ x = s.waiting[1] /\ 1 \in DOMAIN s.waiting
        /\ Tail(s.waiting) \in Seq(Slots) /\ DOMAIN s.waiting = 1..Len(s.waiting) /\ DOMAIN Tail(s.waiting) = 1..(Len(s.waiting) - 1)
        /\ \A i \in DOMAIN Tail(s.waiting) : Tail(s.waiting)[i] = s.waiting[i + 1]
        /\ Len(s.waiting) \in Nat
    BY <1>1, <1>4
  <2>2. /\ x[1] \in Calls!Methods /\ x[2] \in Calls!Siblings /\ x[3] \in Calls!Legs /\ x = <<x[1], x[2], x[3]>>
    BY <2>1 DEF Slots
  <2> HIDE DEF x
  <2>3. LegAt(s, x) = "queued"
    BY <2>1 DEF Account, InLine
  <2>4. s.calls[x[1]][x[2]] \in CallStates /\ Sound(s.calls[x[1]][x[2]])
    BY <1>1, <2>2, BooksFields DEF Account
  <2>5. /\ call \in CallStates /\ call.leg = [s.calls[x[1]][x[2]].leg EXCEPT ![x[3]] = "granted"]
        /\ call.timer = s.calls[x[1]][x[2]].timer /\ call.crossTimer = s.calls[x[1]][x[2]].crossTimer
    BY <2>2, <2>4 DEF CallStates
  <2>6. Calls!release(s) = t
    <3>1. Calls!release(s) = [s EXCEPT !.waiting = Tail(s.waiting), !.calls[x[1]][x[2]].leg[x[3]] = "granted"]
      BY <1>4 DEF Calls!release, x
    <3>2. [s EXCEPT !.calls[x[1]][x[2]].leg[x[3]] = "granted"].calls = [s.calls EXCEPT ![x[1]][x[2]] = call]
      BY <1>1, <2>2, <2>4 DEF Books
    <3> QED BY <3>1, <1>1, <2>2, <2>4 DEF Books
  <2> HIDE DEF call
  <2>7. t \in Books /\ t.open = s.open /\ t.waiting = Tail(s.waiting) /\ t.method = s.method
        /\ t.calls = [s.calls EXCEPT ![x[1]][x[2]] = call]
    BY <1>1, <2>1, <2>2, <2>5 DEF Books
  <2> HIDE DEF t
  <2>8. \A i \in Calls!Methods, j \in Calls!Siblings : t.calls[i][j] = IF i = x[1] /\ j = x[2] THEN call ELSE s.calls[i][j]
    BY <1>1, <2>7
  <2>9. \A y \in Slots : LegAt(t, y) = IF y = x THEN "granted" ELSE LegAt(s, y)
    <3> SUFFICES ASSUME NEW i \in Calls!Methods, NEW j \in Calls!Siblings, NEW k \in Calls!Legs
                 PROVE  t.calls[i][j].leg[k] = IF <<i, j, k>> = x THEN "granted" ELSE s.calls[i][j].leg[k]
      BY DEF Slots, LegAt
    <3>1. CASE i = x[1] /\ j = x[2]
      <4>1. s.calls[i][j].leg \in [Calls!Legs -> {"none", "queued", "granted", "out", "ok", "bad", "over"}]
        BY <2>4, <3>1, CallFields
      <4> QED BY <2>2, <2>5, <2>8, <3>1, <4>1
    <3>2. CASE ~(i = x[1] /\ j = x[2])
      BY <2>2, <2>8, <3>2
    <3> QED BY <3>1, <3>2
  <2>10. InLine(t)
    <3>1. ASSUME NEW i \in DOMAIN t.waiting, NEW j \in DOMAIN t.waiting, t.waiting[i] = t.waiting[j]
          PROVE  i = j
      <4>1. i + 1 \in DOMAIN s.waiting /\ j + 1 \in DOMAIN s.waiting /\ s.waiting[i + 1] = s.waiting[j + 1]
        BY <2>1, <2>7, <3>1
      <4>2. i + 1 = j + 1
        BY <4>1 DEF Account, InLine
      <4> QED BY <2>1, <2>7, <4>2
    <3>2. ASSUME NEW y \in Slots
          PROVE  LegAt(t, y) = "queued" <=> \E i \in DOMAIN t.waiting : t.waiting[i] = y
      <4>1. LegAt(s, y) = "queued" <=> \E i \in DOMAIN s.waiting : s.waiting[i] = y
        BY DEF Account, InLine
      <4>2. CASE y = x
        <5>1. ASSUME NEW i \in DOMAIN t.waiting, t.waiting[i] = x PROVE FALSE
          <6>1. i + 1 \in DOMAIN s.waiting /\ s.waiting[i + 1] = s.waiting[1] /\ i + 1 # 1
            BY <2>1, <2>7, <5>1
          <6> QED BY <2>1, <6>1 DEF Account, InLine
        <5> QED BY <2>9, <4>2, <5>1
      <4>3. CASE y # x
        <5>1. ASSUME NEW i \in DOMAIN s.waiting, s.waiting[i] = y
              PROVE  \E j \in DOMAIN t.waiting : t.waiting[j] = y
          <6>1. i - 1 \in DOMAIN t.waiting /\ t.waiting[i - 1] = s.waiting[(i - 1) + 1] /\ (i - 1) + 1 = i
            BY <2>1, <2>7, <4>3, <5>1
          <6> QED BY <5>1, <6>1
        <5>2. ASSUME NEW j \in DOMAIN t.waiting, t.waiting[j] = y
              PROVE  \E i \in DOMAIN s.waiting : s.waiting[i] = y
          <6>1. j + 1 \in DOMAIN s.waiting /\ s.waiting[j + 1] = y
            BY <2>1, <2>7, <5>2
          <6> QED BY <6>1
        <5> QED BY <2>9, <4>1, <4>3, <5>1, <5>2
      <4> QED BY <4>2, <4>3
    <3> QED BY <3>1, <3>2 DEF InLine
  <2>11. s.calls[x[1]][x[2]].leg["original"] # "none"
    BY <2>2, <2>3, <2>4 DEF LegAt, Sound, Calls!Legs
  <2>12. Sound(call)
    <3>1. s.calls[x[1]][x[2]].leg \in [Calls!Legs -> {"none", "queued", "granted", "out", "ok", "bad", "over"}]
      BY <2>4, CallFields
    <3>2. s.calls[x[1]][x[2]].leg[x[3]] = "queued"
      BY <2>3 DEF LegAt
    <3>3. \A k \in Calls!Legs : call.leg[k] = IF k = x[3] THEN "granted" ELSE s.calls[x[1]][x[2]].leg[k]
      BY <2>2, <2>5, <3>1
    <3> QED BY <2>2, <2>4, <2>5, <3>2, <3>3 DEF Sound, Calls!Legs
  <2>13. KeysFirst(t) /\ \A i \in Calls!Methods, j \in Calls!Siblings : Sound(t.calls[i][j])
    <3>1. s.method = "searchKeys" => x[1] # "fetchRows"
      BY <2>2, <2>11 DEF Account, KeysFirst
    <3> QED BY <2>7, <2>8, <2>12, <3>1 DEF Account, KeysFirst, Calls!Methods
  <2>14. t.open = Cardinality(Held(t)) + 0
    <3>1. Held(t) = Held(s) \cup {x}
      <4>1. \A y \in Slots : y \in Held(t) <=> y = x \/ y \in Held(s)
        BY <2>9 DEF Held, HoldsSlot
      <4>2. Held(s) \subseteq Slots /\ Held(t) \subseteq Slots
        BY DEF Held
      <4> QED BY <2>1, <4>1, <4>2
    <3>2. x \notin Held(s)
      BY <2>3 DEF Held, HoldsSlot
    <3>3. Cardinality(Held(t)) = Cardinality(Held(s)) + 1
      BY <1>2, <3>1, <3>2, FS_AddElement
    <3> QED BY <1>2, <2>7, <3>3
  <2> QED BY <1>4, <2>6, <2>7, <2>10, <2>13, <2>14 DEF Account
<1> QED BY <1>3, <1>4

(* A leg whose turn it is, with a slot of its own or one just counted.     *)
LEMMA Sends ==
    ASSUME CallsAssumption, NEW spare \in Int, NEW s, Account(s, spare),
           NEW m \in Calls!Methods, NEW p \in Calls!Siblings, NEW leg \in Calls!Legs,
           s.calls[m][p].leg[leg] \in {"none", "granted"},
           spare = IF s.calls[m][p].leg[leg] = "granted" THEN 0 ELSE 1,
           s.calls[m][p].leg["original"] # "none",
           Sound(Granted(s.calls[m][p], leg))
    PROVE  Account(Calls!Sent(s, m, p, leg), 0)
<1> DEFINE old == s.calls[m][p]
           held == Granted(old, leg)
           t == Calls!Send(s, m, p, leg)
<1>1. /\ s \in Books /\ old \in CallStates /\ s.answers \in Counts /\ s.unhedged \in Counts
      /\ s.calls \in [Calls!Methods -> [Calls!Siblings -> CallStates]]
  BY BooksFields DEF Account
<1>2. /\ old.leg \in [Calls!Legs -> {"none", "queued", "granted", "out", "ok", "bad", "over"}]
      /\ old.timer \in BOOLEAN /\ old.crossTimer \in BOOLEAN
  BY <1>1, CallFields
<1>3. /\ held.leg = [old.leg EXCEPT ![leg] = "granted"] /\ held.timer = old.timer /\ held.crossTimer = old.crossTimer
      /\ \A k \in Calls!Legs : held.leg[k] = IF k = leg THEN "granted" ELSE old.leg[k]
  BY <1>1, <1>2 DEF CallStates, Granted
<1> HIDE DEF held
<1>4. Sound(held)
  BY DEF held
<1>5. CASE leg = "original"
  <2> DEFINE call == [old EXCEPT !.leg[leg] = "out", !.timer = TRUE]
             counted == [s.unhedged EXCEPT ![m] = @ + 1]
  <2>1. t = Rewritten(s, m, p, call, s.answers, counted)
    <3>1. t = [s EXCEPT !.unhedged[m] = @ + 1, !.calls[m][p] = call]
      BY <1>5 DEF Calls!Send
    <3> HIDE DEF call
    <3> QED BY <3>1, <1>1 DEF Books, Rewritten
  <2>2. /\ call \in CallStates /\ call.timer /\ call.crossTimer = old.crossTimer
        /\ \A k \in Calls!Legs : call.leg[k] = IF k = leg THEN "out" ELSE old.leg[k]
    BY <1>1, <1>2 DEF CallStates
  <2>3. counted \in Counts
    BY <1>1 DEF Counts
  <2> HIDE DEF call, counted, t
  <2>4. t.calls[m][p] = call
    BY <1>1, <2>1, RewrittenCall
  <2>5. Sound(call)
    BY <1>3, <1>4, <1>5, <2>2 DEF Sound, Calls!Legs
  <2>6. LegTurns(s, spare, m, p, leg, call, 0)
    BY <2>2, <2>5 DEF HoldsSlot, LegTurns
  <2>9. Account(t, 0)
    BY <1>1, <2>1, <2>2, <2>3, <2>6, Turn
  <2>7. t.calls[m][p].leg[leg] # "bad"
    BY <2>2, <2>4
  <2> QED BY <2>7, <2>9 DEF Calls!Sent, t
<1>6. CASE leg # "original" /\ (old.landed \/ old.settled # "no")
  <2> DEFINE call == [old EXCEPT !.leg[leg] = "bad"]
  <2>1. t = Rewritten(s, m, p, call, s.answers, s.unhedged)
    <3>1. t = [s EXCEPT !.calls[m][p].leg[leg] = "bad"]
      BY <1>6 DEF Calls!Send
    <3>2. [s EXCEPT !.calls[m][p].leg[leg] = "bad"].calls = [s.calls EXCEPT ![m][p] = call]
      BY <1>1 DEF Books
    <3> HIDE DEF call
    <3> QED BY <3>1, <3>2, <1>1 DEF Books, Rewritten
  <2>2. /\ call \in CallStates /\ call.timer = old.timer /\ call.crossTimer = old.crossTimer
        /\ \A k \in Calls!Legs : call.leg[k] = IF k = leg THEN "bad" ELSE old.leg[k]
    BY <1>1, <1>2 DEF CallStates
  <2> HIDE DEF call, t
  <2>4. t.calls[m][p] = call
    BY <1>1, <2>1, RewrittenCall
  <2>5. Sound(call)
    BY <1>3, <1>4, <1>6, <2>2 DEF Sound, Calls!Legs
  <2>6. LegTurns(s, spare, m, p, leg, call, 1)
    BY <2>2, <2>5 DEF HoldsSlot, LegTurns
  <2>9. Account(t, 1)
    BY <1>1, <2>1, <2>2, <2>6, Turn
  <2>7. t.calls[m][p].leg[leg] = "bad"
    BY <2>2, <2>4
  <2>8. Calls!Sent(s, m, p, leg) = Calls!release(t)
    BY <2>7 DEF Calls!Sent, t
  <2> QED BY <2>8, <2>9, Releases
<1>7. CASE leg # "original" /\ ~(old.landed \/ old.settled # "no")
  <2> DEFINE later == old.crossTimer \/ (leg = "same" /\ Neighbour)
             call == [old EXCEPT !.leg[leg] = "out", !.hedged = TRUE, !.crossTimer = later]
  <2>1. t = Rewritten(s, m, p, call, s.answers, s.unhedged)
    <3>1. t = [s EXCEPT !.calls[m][p] = call]
      BY <1>7 DEF Calls!Send
    <3> HIDE DEF call
    <3> QED BY <3>1, <1>1 DEF Books, Rewritten
  <2>2. later \in BOOLEAN
    BY <1>2 DEF CallsAssumption
  <2> HIDE DEF later
  <2>3. /\ call \in CallStates /\ call.timer = old.timer /\ call.crossTimer = later
        /\ \A k \in Calls!Legs : call.leg[k] = IF k = leg THEN "out" ELSE old.leg[k]
    BY <1>1, <1>2, <2>2 DEF CallStates
  <2> HIDE DEF call, t
  <2>4. t.calls[m][p] = call
    BY <1>1, <2>1, RewrittenCall
  <2>5. Sound(call)
    <3>1. later => old.crossTimer \/ leg = "same"
      BY DEF later
    <3> QED BY <1>3, <1>4, <1>7, <2>3, <3>1 DEF Sound, Calls!Legs
  <2>6. LegTurns(s, spare, m, p, leg, call, 0)
    BY <2>3, <2>5 DEF HoldsSlot, LegTurns
  <2>9. Account(t, 0)
    BY <1>1, <2>1, <2>3, <2>6, Turn
  <2>7. t.calls[m][p].leg[leg] # "bad"
    BY <2>3, <2>4
  <2> QED BY <2>7, <2>9 DEF Calls!Sent, t
<1> QED BY <1>5, <1>6, <1>7

(* One more slot is counted, nobody being in line.                         *)
LEMMA Counted ==
    ASSUME CallsAssumption, NEW s, Account(s, 0), s.open < SIBLING_CALLS_AT_ONCE,
           NEW t, t = [s EXCEPT !.open = s.open + 1]
    PROVE  Account(t, 1) /\ t.calls = s.calls
<1>1. s \in Books /\ s.open \in Int /\ s.open + 1 \in Int /\ Cardinality(Held(s)) \in Nat
  BY BooksFields, SlotsFinite DEF Account
<1> DEFINE more == s.open + 1
<1>2. more \in Int /\ t = [s EXCEPT !.open = more] /\ more <= SIBLING_CALLS_AT_ONCE
  BY <1>1 DEF CallsAssumption
<1> HIDE DEF more
<1>3. t \in Books
  BY <1>1, <1>2 DEF Books
<1>4. t.open = more /\ t.waiting = s.waiting /\ t.calls = s.calls /\ t.method = s.method
  BY <1>1, <1>2 DEF Books
<1>5. Held(t) = Held(s)
  BY <1>4 DEF Held, LegAt
<1>6. t.open = Cardinality(Held(t)) + 1
  BY <1>1, <1>4, <1>5 DEF Account, more
<1>7. s.waiting = <<>>
  BY <1>1 DEF Account, CallsAssumption
<1> QED BY <1>2, <1>3, <1>4, <1>6, <1>7 DEF Account, InLine, KeysFirst, LegAt

(* A hedge without a slot goes before those in line.                       *)
LEMMA QueuesFirst ==
    ASSUME CallsAssumption, NEW s, Account(s, 0), s.open = SIBLING_CALLS_AT_ONCE,
           NEW m \in Calls!Methods, NEW p \in Calls!Siblings, NEW leg \in Calls!Legs,
           s.calls[m][p].leg[leg] = "none", s.calls[m][p].leg["original"] # "none",
           Sound(Granted(s.calls[m][p], leg))
    PROVE  Account([s EXCEPT !.waiting = <<<<m, p, leg>>>> \o s.waiting, !.calls[m][p].leg[leg] = "queued"], 0)
<1> DEFINE t == [s EXCEPT !.waiting = <<<<m, p, leg>>>> \o s.waiting, !.calls[m][p].leg[leg] = "queued"]
           old == s.calls[m][p]
           x == <<m, p, leg>>
           line == <<x>> \o s.waiting
           call == [old EXCEPT !.leg[leg] = "queued"]
           held == Granted(old, leg)
<1>1. /\ s \in Books /\ old \in CallStates /\ s.waiting \in Seq(Slots) /\ x \in Slots
      /\ s.calls \in [Calls!Methods -> [Calls!Siblings -> CallStates]]
  BY BooksFields DEF Account, Slots
<1>2. old.leg \in [Calls!Legs -> {"none", "queued", "granted", "out", "ok", "bad", "over"}]
  BY <1>1, CallFields
<1>3. /\ line \in Seq(Slots) /\ Len(s.waiting) \in Nat /\ line # <<>>
      /\ DOMAIN s.waiting = 1..Len(s.waiting) /\ DOMAIN line = 1..(Len(s.waiting) + 1)
      /\ line[1] = x /\ \A i \in DOMAIN s.waiting : line[i + 1] = s.waiting[i]
      /\ \A i \in DOMAIN line : i # 1 => i - 1 \in DOMAIN s.waiting /\ line[i] = s.waiting[i - 1]
  <2> HIDE DEF x
  <2> QED BY <1>1
<1>4. /\ call \in CallStates /\ call.timer = old.timer /\ call.crossTimer = old.crossTimer
      /\ \A k \in Calls!Legs : call.leg[k] = IF k = leg THEN "queued" ELSE old.leg[k]
      /\ held.timer = old.timer /\ held.crossTimer = old.crossTimer
      /\ \A k \in Calls!Legs : held.leg[k] = IF k = leg THEN "granted" ELSE old.leg[k]
  BY <1>1, <1>2 DEF CallStates, Granted
<1>5. t = [s EXCEPT !.waiting = line, !.calls = [s.calls EXCEPT ![m][p] = call]]
  <2>1. [s EXCEPT !.calls[m][p].leg[leg] = "queued"].calls = [s.calls EXCEPT ![m][p] = call]
    BY <1>1 DEF Books
  <2> HIDE DEF call, line
  <2>2. t = [s EXCEPT !.waiting = line, !.calls[m][p].leg[leg] = "queued"]
    BY DEF line
  <2> QED BY <2>1, <2>2, <1>1 DEF Books
<1>6. Sound(held)
  OBVIOUS
<1>7. Sound(call)
  <2> HIDE DEF call, held
  <2> QED BY <1>4, <1>6 DEF Sound, Calls!Legs
<1> HIDE DEF call, held, line, x, t
<1>8. t \in Books /\ t.open = s.open /\ t.waiting = line /\ t.method = s.method /\ t.calls = [s.calls EXCEPT ![m][p] = call]
  <2> DEFINE calls == [s.calls EXCEPT ![m][p] = call]
  <2>1. calls \in [Calls!Methods -> [Calls!Siblings -> CallStates]] /\ t = [s EXCEPT !.waiting = line, !.calls = calls]
    BY <1>1, <1>4, <1>5
  <2> HIDE DEF calls
  <2>2. t \in Books
    BY <1>1, <1>3, <2>1 DEF Books
  <2>3. t.open = s.open /\ t.waiting = line /\ t.method = s.method /\ t.calls = calls
    BY <1>1, <2>1 DEF Books
  <2> QED BY <2>2, <2>3 DEF calls
<1>9. \A i \in Calls!Methods, j \in Calls!Siblings : t.calls[i][j] = IF i = m /\ j = p THEN call ELSE s.calls[i][j]
  BY <1>1, <1>8
<1>10. \A y \in Slots : LegAt(t, y) = IF y = x THEN "queued" ELSE LegAt(s, y)
  <2> SUFFICES ASSUME NEW i \in Calls!Methods, NEW j \in Calls!Siblings, NEW k \in Calls!Legs
               PROVE  t.calls[i][j].leg[k] = IF <<i, j, k>> = x THEN "queued" ELSE s.calls[i][j].leg[k]
    BY DEF Slots, LegAt
  <2>1. CASE i = m /\ j = p
    BY <1>4, <1>9, <2>1 DEF x
  <2>2. CASE ~(i = m /\ j = p)
    BY <1>9, <2>2 DEF x
  <2> QED BY <2>1, <2>2
<1>11. LegAt(s, x) = "none"
  BY DEF LegAt, x
<1>12. InLine(t)
  <2>1. \A i \in DOMAIN s.waiting : s.waiting[i] # x
    BY <1>1, <1>11 DEF Account, InLine
  <2>2. \A i, j \in DOMAIN line : line[i] = line[j] => i = j
    <3> SUFFICES ASSUME NEW i \in DOMAIN line, NEW j \in DOMAIN line, line[i] = line[j] PROVE i = j
      OBVIOUS
    <3>1. CASE i = 1 \/ j = 1
      BY <1>3, <2>1, <3>1
    <3>2. CASE i # 1 /\ j # 1
      <4>1. i - 1 = j - 1
        BY <1>3, <3>2 DEF Account, InLine
      <4> QED BY <1>3, <4>1
    <3> QED BY <3>1, <3>2
  <2>3. ASSUME NEW y \in Slots
        PROVE  LegAt(t, y) = "queued" <=> \E i \in DOMAIN line : line[i] = y
    <3>1. CASE y = x
      <4>1. 1 \in DOMAIN line
        BY <1>3
      <4> QED BY <1>3, <1>10, <3>1, <4>1
    <3>2. CASE y # x
      <4>1. LegAt(s, y) = "queued" <=> \E i \in DOMAIN s.waiting : s.waiting[i] = y
        BY DEF Account, InLine
      <4>2. ASSUME NEW i \in DOMAIN line, line[i] = y PROVE \E j \in DOMAIN s.waiting : s.waiting[j] = y
        BY <1>3, <3>2, <4>2
      <4>3. ASSUME NEW j \in DOMAIN s.waiting, s.waiting[j] = y PROVE \E i \in DOMAIN line : line[i] = y
        <5>1. j + 1 \in DOMAIN line /\ line[j + 1] = y
          BY <1>3, <4>3
        <5> QED BY <5>1
      <4> QED BY <1>10, <3>2, <4>1, <4>2, <4>3
    <3> QED BY <3>1, <3>2
  <2> QED BY <1>8, <2>2, <2>3 DEF InLine
<1>13. KeysFirst(t) /\ \A i \in Calls!Methods, j \in Calls!Siblings : Sound(t.calls[i][j])
  <2>1. s.method = "searchKeys" => m # "fetchRows"
    BY DEF Account, KeysFirst
  <2> QED BY <1>7, <1>8, <1>9, <2>1 DEF Account, KeysFirst, Calls!Methods
<1>14. Held(t) = Held(s)
  <2>1. \A y \in Slots : y \in Held(t) <=> y \in Held(s)
    BY <1>10, <1>11 DEF Held, HoldsSlot
  <2> QED BY <2>1 DEF Held
<1>15. Account(t, 0)
  BY <1>8, <1>12, <1>13, <1>14 DEF Account
<1> QED BY <1>15 DEF t

LEMMA Hedges ==
    ASSUME CallsAssumption, NEW s, Account(s, 0), NEW m \in Calls!Methods, NEW p \in Calls!Siblings,
           NEW leg \in {"same", "cross"}, s.calls[m][p].leg[leg] = "none", s.calls[m][p].leg["original"] # "none",
           Sound(Granted(s.calls[m][p], leg))
    PROVE  Account(Calls!hedge(s, m, p, leg), 0)
<1> DEFINE old == s.calls[m][p]
           call == [old EXCEPT !.out = old.out + 1]
           t == [s EXCEPT !.calls[m][p].out = @ + 1]
<1>1. /\ s \in Books /\ old \in CallStates /\ s.answers \in Counts /\ s.unhedged \in Counts /\ leg \in Calls!Legs
      /\ s.calls \in [Calls!Methods -> [Calls!Siblings -> CallStates]] /\ Sound(old)
  BY BooksFields DEF Account, Calls!Legs
<1>2. /\ call \in CallStates /\ call.leg = old.leg /\ call.timer = old.timer /\ call.crossTimer = old.crossTimer
  <2>1. old.out + 1 \in Int
    BY <1>1, CallFields
  <2> DEFINE more == old.out + 1
  <2> HIDE DEF more
  <2>2. [old EXCEPT !.out = more] \in CallStates
    BY <1>1, <2>1 DEF CallStates, more
  <2>3. LET k == [old EXCEPT !.out = more] IN k.leg = old.leg /\ k.timer = old.timer /\ k.crossTimer = old.crossTimer
    BY <1>1 DEF CallStates
  <2> QED BY <2>2, <2>3 DEF more
<1>3. t = Rewritten(s, m, p, call, s.answers, s.unhedged)
  <2>1. t.calls = [s.calls EXCEPT ![m][p] = call]
    BY <1>1 DEF Books
  <2> HIDE DEF call
  <2> QED BY <2>1, <1>1 DEF Books, Rewritten
<1>4. Sound(Granted(call, leg))
  <2> DEFINE a == Granted(old, leg)
             b == Granted(call, leg)
  <2>1. a.leg = [old.leg EXCEPT ![leg] = "granted"] /\ a.timer = old.timer /\ a.crossTimer = old.crossTimer
    BY <1>1 DEF CallStates, Granted
  <2>2. b.leg = [call.leg EXCEPT ![leg] = "granted"] /\ b.timer = call.timer /\ b.crossTimer = call.crossTimer
    <3> HIDE DEF call
    <3> QED BY <1>2 DEF CallStates, Granted
  <2>3. Sound(a)
    OBVIOUS
  <2> HIDE DEF a, b, call
  <2>4. Sound(b)
    BY <1>2, <2>1, <2>2, <2>3 DEF Sound
  <2> QED BY <2>4 DEF b
<1> HIDE DEF call, t
<1>5. t.calls[m][p] = call
  BY <1>1, <1>3, RewrittenCall
<1>6. LegTurns(s, 0, m, p, leg, call, 0)
  BY <1>1, <1>2 DEF LegTurns, Sound
<1>7. Account(t, 0)
  BY <1>1, <1>2, <1>3, <1>6, Turn
<1>8. Calls!hedge(s, m, p, leg) = Calls!run(t, m, p, leg)
  BY DEF Calls!hedge, t
<1>9. t.open \in Int /\ t.open <= SIBLING_CALLS_AT_ONCE
  BY <1>7, BooksFields DEF Account
<1>10. CASE t.open < SIBLING_CALLS_AT_ONCE
  <2> DEFINE u == [t EXCEPT !.open = t.open + 1]
  <2>1. Account(u, 1) /\ u.calls = t.calls
    BY <1>7, <1>10, Counted
  <2>2. Calls!run(t, m, p, leg) = Calls!Sent(u, m, p, leg)
    BY <1>10 DEF Calls!run
  <2> HIDE DEF u
  <2>3. u.calls[m][p] = call
    BY <1>5, <2>1
  <2>4. Account(Calls!Sent(u, m, p, leg), 0)
    BY <1>1, <1>2, <1>4, <2>1, <2>3, Sends
  <2> QED BY <1>8, <2>2, <2>4
<1>11. CASE ~(t.open < SIBLING_CALLS_AT_ONCE)
  <2> DEFINE u == [t EXCEPT !.waiting = <<<<m, p, leg>>>> \o t.waiting, !.calls[m][p].leg[leg] = "queued"]
  <2>1. Calls!run(t, m, p, leg) = u
    BY <1>11 DEF Calls!run
  <2>2. t.open = SIBLING_CALLS_AT_ONCE
    BY <1>9, <1>11 DEF CallsAssumption
  <2>3. Account(u, 0)
    BY <1>1, <1>2, <1>4, <1>5, <1>7, <2>2, QueuesFirst
  <2> QED BY <1>8, <2>1, <2>3
<1> QED BY <1>10, <1>11

(* What a leg that becomes granted leaves of its call.                     *)
LEMMA GrantedFields ==
    ASSUME NEW call \in CallStates, NEW leg \in Calls!Legs
    PROVE  /\ Granted(call, leg).timer = call.timer /\ Granted(call, leg).crossTimer = call.crossTimer
           /\ \A k \in Calls!Legs : Granted(call, leg).leg[k] = IF k = leg THEN "granted" ELSE call.leg[k]
<1>1. call.leg \in [Calls!Legs -> {"none", "queued", "granted", "out", "ok", "bad", "over"}]
  BY CallFields
<1> QED BY <1>1 DEF CallStates, Granted

LEMMA LegNames == Calls!Legs = {"original", "same", "cross"}
  BY DEF Calls!Legs

(* A call found late, and what its timer makes of it.                      *)
LEMMA Considers ==
    ASSUME CallsAssumption, Account(c, 0), NEW m \in Calls!Methods, NEW p \in Calls!Siblings, Calls!consider(m, p)
    PROVE  Account(c', 0)
<1> DEFINE old == c.calls[m][p]
           call == [old EXCEPT !.timer = FALSE, !.asked = TRUE]
           counted == [c.unhedged EXCEPT ![m] = c.unhedged[m] - 1]
           t == [c EXCEPT !.calls[m][p].timer = FALSE, !.calls[m][p].asked = TRUE, !.unhedged[m] = @ - 1]
<1>1. /\ c \in Books /\ old \in CallStates /\ c.answers \in Counts /\ c.unhedged \in Counts
      /\ c.calls \in [Calls!Methods -> [Calls!Siblings -> CallStates]] /\ Sound(old)
  BY BooksFields DEF Account
<1>2. /\ call \in CallStates /\ call.leg = old.leg /\ ~call.timer /\ call.crossTimer = old.crossTimer
  BY <1>1 DEF CallStates
<1>3. t = Rewritten(c, m, p, call, c.answers, counted)
  <2>1. [c EXCEPT !.calls[m][p].timer = FALSE, !.calls[m][p].asked = TRUE].calls = [c.calls EXCEPT ![m][p] = call]
    BY <1>1 DEF Books
  <2> HIDE DEF call
  <2> QED BY <2>1, <1>1 DEF Books, Rewritten
<1>4. counted \in Counts
  BY <1>1 DEF Counts
<1>5. old.timer
  BY DEF Calls!consider
<1>6. old.leg["original"] # "none" /\ old.leg["same"] = "none" /\ old.leg["cross"] = "none"
  BY <1>1, <1>5 DEF Sound
<1>7. c' = Calls!hedge(t, m, p, "cross") \/ c' = Calls!hedge(t, m, p, "same") \/ c' = t
  BY DEF Calls!consider
<1> HIDE DEF call, counted, t
<1>8. t.calls[m][p] = call
  BY <1>1, <1>3, RewrittenCall
<1>9. Account(t, 0)
  <2>1. LegTurns(c, 0, m, p, "same", call, 0)
    BY <1>1, <1>2, <1>6 DEF LegTurns, Sound
  <2> QED BY <1>1, <1>2, <1>3, <1>4, <2>1, LegNames, Turn
<1>10. ASSUME NEW leg \in {"same", "cross"}
       PROVE  Account(Calls!hedge(t, m, p, leg), 0)
  <2>1. Sound(Granted(call, leg))
    <3>1. leg \in Calls!Legs
      BY LegNames
    <3>2. /\ Granted(call, leg).timer = call.timer /\ Granted(call, leg).crossTimer = call.crossTimer
          /\ \A k \in {"original", "same", "cross"} : Granted(call, leg).leg[k] = IF k = leg THEN "granted" ELSE call.leg[k]
      BY <1>2, <3>1, GrantedFields DEF Calls!Legs
    <3> QED BY <1>1, <1>2, <1>5, <1>6, <3>2 DEF Sound
  <2>2. t.calls[m][p].leg[leg] = "none" /\ t.calls[m][p].leg["original"] # "none"
    BY <1>2, <1>6, <1>8
  <2> QED BY <1>8, <1>9, <2>1, <2>2, Hedges
<1> QED BY <1>7, <1>9, <1>10

(* The neighbour is asked when the second call is late too.                *)
LEMMA Crosses ==
    ASSUME CallsAssumption, Account(c, 0), NEW m \in Calls!Methods, NEW p \in Calls!Siblings, Calls!CrossAfter(m, p)
    PROVE  Account(c', 0)
<1> DEFINE old == c.calls[m][p]
           call == [old EXCEPT !.crossTimer = FALSE]
           t == [c EXCEPT !.calls[m][p].crossTimer = FALSE]
<1>1. /\ c \in Books /\ old \in CallStates /\ c.answers \in Counts /\ c.unhedged \in Counts
      /\ c.calls \in [Calls!Methods -> [Calls!Siblings -> CallStates]] /\ Sound(old)
  BY BooksFields DEF Account
<1>2. /\ call \in CallStates /\ call.leg = old.leg /\ ~call.crossTimer /\ call.timer = old.timer
  BY <1>1 DEF CallStates
<1>3. t = Rewritten(c, m, p, call, c.answers, c.unhedged)
  <2>1. t.calls = [c.calls EXCEPT ![m][p] = call]
    BY <1>1 DEF Books
  <2> HIDE DEF call
  <2> QED BY <2>1, <1>1 DEF Books, Rewritten
<1>4. old.crossTimer /\ c' = Calls!hedge(t, m, p, "cross")
  BY DEF Calls!CrossAfter
<1>5. /\ old.leg["original"] \notin {"none", "queued", "granted"} /\ old.leg["cross"] = "none" /\ ~old.timer
      /\ old.leg["same"] \notin {"queued", "granted"}
  BY <1>1, <1>4 DEF Sound
<1> HIDE DEF call, t
<1>6. t.calls[m][p] = call
  BY <1>1, <1>3, RewrittenCall
<1>7. Account(t, 0)
  <2>1. LegTurns(c, 0, m, p, "cross", call, 0)
    BY <1>1, <1>2, <1>5 DEF LegTurns, Sound
  <2> QED BY <1>1, <1>2, <1>3, <2>1, LegNames, Turn
<1>8. Sound(Granted(call, "cross"))
  <2>1. /\ Granted(call, "cross").timer = call.timer /\ Granted(call, "cross").crossTimer = call.crossTimer
        /\ \A k \in {"original", "same", "cross"} : Granted(call, "cross").leg[k] = IF k = "cross" THEN "granted" ELSE call.leg[k]
    BY <1>2, LegNames, GrantedFields DEF Calls!Legs
  <2> QED BY <1>2, <1>5, <2>1 DEF Sound
<1>9. t.calls[m][p].leg["cross"] = "none" /\ t.calls[m][p].leg["original"] # "none"
  BY <1>2, <1>5, <1>6
<1> QED BY <1>4, <1>6, <1>7, <1>8, <1>9, Hedges

(* A slot handed over is taken.                                            *)
LEMMA Starts ==
    ASSUME CallsAssumption, Account(c, 0), NEW m \in Calls!Methods, NEW p \in Calls!Siblings, NEW leg \in Calls!Legs,
           Calls!Start(m, p, leg)
    PROVE  Account(c', 0)
<1> DEFINE old == c.calls[m][p]
<1>1. old \in CallStates /\ Sound(old) /\ old.leg[leg] = "granted" /\ c' = Calls!Sent(c, m, p, leg)
  BY BooksFields DEF Account, Calls!Start
<1>2. old.leg \in [Calls!Legs -> {"none", "queued", "granted", "out", "ok", "bad", "over"}]
  BY <1>1, CallFields
<1>3. old.leg["original"] # "none"
  BY <1>1, LegNames DEF Sound
<1>4. /\ Granted(old, leg).timer = old.timer /\ Granted(old, leg).crossTimer = old.crossTimer
      /\ \A k \in {"original", "same", "cross"} : Granted(old, leg).leg[k] = old.leg[k]
  BY <1>1, GrantedFields DEF Calls!Legs
<1>5. Sound(Granted(old, leg))
  BY <1>1, <1>4 DEF Sound
<1> QED BY <1>1, <1>3, <1>5, Sends

(* A leg settles and its slot goes on.                                     *)
LEMMA Settles ==
    ASSUME CallsAssumption, Account(c, 0), NEW m \in Calls!Methods, NEW p \in Calls!Siblings, NEW leg \in Calls!Legs,
           Calls!settle(m, p, leg)
    PROVE  Account(c', 0)
<1> DEFINE old == c.calls[m][p]
<1>1. /\ c \in Books /\ old \in CallStates /\ c.answers \in Counts /\ c.unhedged \in Counts
      /\ c.calls \in [Calls!Methods -> [Calls!Siblings -> CallStates]] /\ Sound(old)
  BY BooksFields DEF Account
<1>2. old.leg \in [Calls!Legs -> {"none", "queued", "granted", "out", "ok", "bad", "over"}]
  BY <1>1, CallFields
<1>3. old.leg[leg] = "out"
  BY DEF Calls!settle
<1>4. CASE leg # "original"
  <2>1. PICK outcome \in {"ok", "bad"} : c' = Calls!release([c EXCEPT !.calls[m][p].leg[leg] = outcome])
    BY <1>4 DEF Calls!settle
  <2> DEFINE call == [old EXCEPT !.leg[leg] = outcome]
             t == [c EXCEPT !.calls[m][p].leg[leg] = outcome]
  <2>2. t = Rewritten(c, m, p, call, c.answers, c.unhedged)
    <3>1. t.calls = [c.calls EXCEPT ![m][p] = call]
      BY <1>1 DEF Books
    <3> HIDE DEF call
    <3> QED BY <3>1, <1>1 DEF Books, Rewritten
  <2>3. /\ call \in CallStates /\ call.timer = old.timer /\ call.crossTimer = old.crossTimer
        /\ \A k \in Calls!Legs : call.leg[k] = IF k = leg THEN outcome ELSE old.leg[k]
    BY <1>1, <1>2 DEF CallStates
  <2> HIDE DEF call, t
  <2>4. Sound(call)
    BY <1>1, <1>3, <1>4, <2>3 DEF Sound, Calls!Legs
  <2>5. LegTurns(c, 0, m, p, leg, call, 1)
    BY <1>1, <1>3, <1>4, <2>3, <2>4, LegNames DEF LegTurns, Sound, HoldsSlot
  <2>6. Account(t, 1)
    BY <1>1, <2>2, <2>3, <2>5, Turn
  <2> QED BY <2>1, <2>6, Releases DEF t
<1>5. CASE leg = "original"
  <2> DEFINE ended == [old EXCEPT !.landed = TRUE, !.timer = FALSE, !.crossTimer = FALSE]
             counted == [c.unhedged EXCEPT ![m] = IF old.asked THEN @ ELSE @ - 1]
             u == [c EXCEPT !.calls[m][p] = [@ EXCEPT !.landed = TRUE, !.timer = FALSE, !.crossTimer = FALSE],
                            !.unhedged[m] = IF old.asked THEN @ ELSE @ - 1]
  <2>1. PICK outcome \in {"ok", "bad"} : c' = Calls!release([u EXCEPT !.calls[m][p].leg[leg] = outcome])
    BY <1>5 DEF Calls!settle
  <2> DEFINE call == [ended EXCEPT !.leg[leg] = outcome]
             t == [u EXCEPT !.calls[m][p].leg[leg] = outcome]
  <2>2. counted \in Counts
    BY <1>1 DEF Counts
  <2>3. u = Rewritten(c, m, p, ended, c.answers, counted)
    <3>1. u = [c EXCEPT !.calls[m][p] = ended, !.unhedged = counted]
      BY <1>1 DEF Books
    <3> HIDE DEF ended, counted, u
    <3> QED BY <3>1, <1>1 DEF Books, Rewritten
  <2>4. ended \in CallStates /\ ended.leg = old.leg /\ ~ended.timer /\ ~ended.crossTimer
    BY <1>1 DEF CallStates
  <2>5. /\ call \in CallStates /\ ~call.timer /\ ~call.crossTimer
        /\ \A k \in Calls!Legs : call.leg[k] = IF k = leg THEN outcome ELSE old.leg[k]
    <3> HIDE DEF ended
    <3> QED BY <1>2, <2>4 DEF CallStates
  <2>6. t = Rewritten(c, m, p, call, c.answers, counted)
    <3> HIDE DEF ended, counted, u
    <3>1. u \in Books /\ u.calls = [c.calls EXCEPT ![m][p] = ended]
      BY <1>1, <2>2, <2>3, <2>4, Rewrites
    <3>2. t.calls = [c.calls EXCEPT ![m][p] = call]
      <4>1. u.calls \in [Calls!Methods -> [Calls!Siblings -> CallStates]] /\ u.calls[m][p] = ended
        BY <1>1, <2>3, <3>1, BooksFields, RewrittenCall
      <4>2. t.calls = [u.calls EXCEPT ![m][p] = call]
        BY <3>1, <4>1 DEF Books
      <4> HIDE DEF call, t
      <4>3. [u.calls EXCEPT ![m][p] = call] = [c.calls EXCEPT ![m][p] = call]
        BY <1>1, <3>1
      <4> QED BY <4>2, <4>3
    <3> HIDE DEF call
    <3>3. t = [u EXCEPT !.calls = [c.calls EXCEPT ![m][p] = call]]
      BY <3>1, <3>2 DEF Books
    <3>4. /\ u = [c EXCEPT !.calls = [c.calls EXCEPT ![m][p] = ended], !.answers = c.answers, !.unhedged = counted]
          /\ Rewritten(c, m, p, call, c.answers, counted)
             = [c EXCEPT !.calls = [c.calls EXCEPT ![m][p] = call], !.answers = c.answers, !.unhedged = counted]
      BY <2>3 DEF Rewritten
    <3> DEFINE before == [c.calls EXCEPT ![m][p] = ended]
               after == [c.calls EXCEPT ![m][p] = call]
    <3> HIDE DEF before, after
    <3>5. [[c EXCEPT !.calls = before, !.answers = c.answers, !.unhedged = counted] EXCEPT !.calls = after]
          = [c EXCEPT !.calls = after, !.answers = c.answers, !.unhedged = counted]
      BY <1>1 DEF Books
    <3> QED BY <3>3, <3>4, <3>5 DEF before, after
  <2> HIDE DEF ended, counted, u, call, t
  <2>7. Sound(call)
    BY <1>1, <1>3, <1>5, <2>5 DEF Sound, Calls!Legs
  <2>8. LegTurns(c, 0, m, p, leg, call, 1)
    BY <1>3, <1>5, <2>5, <2>7 DEF LegTurns, HoldsSlot
  <2>9. Account(t, 1)
    BY <1>1, <2>2, <2>5, <2>6, <2>8, Turn
  <2> QED BY <2>1, <2>9, Releases DEF t
<1> QED BY <1>4, <1>5

Put(s, m, p, call) == [s EXCEPT !.calls[m][p] = call]

(* What the call makes of a leg that settled.                              *)
LEMMA Hears ==
    ASSUME CallsAssumption, Account(c, 0), NEW m \in Calls!Methods, NEW p \in Calls!Siblings, NEW leg \in Calls!Legs,
           Calls!Hear(m, p, leg)
    PROVE  Account(c', 0)
<1> DEFINE old == c.calls[m][p]
           t == [c EXCEPT !.calls[m][p].leg[leg] = "over"]
           heard == [old EXCEPT !.leg[leg] = "over"]
           AsBefore(call) == call \in CallStates /\ call.leg = heard.leg
                             /\ (call.timer => old.timer) /\ (call.crossTimer => old.crossTimer)
<1>1. /\ c \in Books /\ old \in CallStates /\ c.answers \in Counts /\ c.unhedged \in Counts
      /\ c.calls \in [Calls!Methods -> [Calls!Siblings -> CallStates]] /\ Sound(old)
  BY BooksFields DEF Account
<1>2. old.leg \in [Calls!Legs -> {"none", "queued", "granted", "out", "ok", "bad", "over"}] /\ old.out \in Int
  BY <1>1, CallFields
<1>3. old.leg[leg] \in {"ok", "bad"}
  BY DEF Calls!Hear
<1>4. AsBefore(heard) /\ heard.leg = [old.leg EXCEPT ![leg] = "over"] /\ heard.out = old.out
  BY <1>1, <1>2 DEF CallStates
<1>5. \A k \in Calls!Legs : heard.leg[k] = IF k = leg THEN "over" ELSE old.leg[k]
  BY <1>2, <1>4
<1>6. t = Rewritten(c, m, p, heard, c.answers, c.unhedged)
  <2>1. t.calls = [c.calls EXCEPT ![m][p] = heard]
    BY <1>1 DEF Books
  <2> HIDE DEF heard
  <2> QED BY <2>1, <1>1 DEF Books, Rewritten
<1> HIDE DEF heard, t
<1>7. t.calls[m][p] = heard /\ t \in Books /\ t.calls = [c.calls EXCEPT ![m][p] = heard]
      /\ t.answers = c.answers /\ t.unhedged = c.unhedged
  <2>1. t.calls[m][p] = heard
    BY <1>1, <1>6, RewrittenCall
  <2>2. t \in Books /\ t.calls = [c.calls EXCEPT ![m][p] = heard]
    BY <1>1, <1>4, <1>6, Rewrites
  <2>3. t.answers = c.answers /\ t.unhedged = c.unhedged
    BY <1>1, <1>6 DEF Rewritten, Books
  <2> QED BY <2>1, <2>2, <2>3
\* The slots do not depend on what the call has been told.
<1>8. ASSUME NEW call, AsBefore(call), NEW answers \in Counts
      PROVE  Account(Rewritten(c, m, p, call, answers, c.unhedged), 0)
  <2>1. Sound(call)
    BY <1>1, <1>3, <1>5, <1>8, LegNames DEF Sound
  <2>2. LegTurns(c, 0, m, p, leg, call, 0)
    BY <1>1, <1>3, <1>5, <1>8, <2>1, LegNames DEF LegTurns, HoldsSlot, Sound
  <2> QED BY <1>1, <1>8, <2>2, Turn
\* Steps on the books after the leg was marked are steps on the books.
<1>9. ASSUME NEW call, AsBefore(call), NEW answers \in Counts
      PROVE  Account(Put(t, m, p, call), 0) /\ Account(Put([t EXCEPT !.answers = answers], m, p, call), 0)
  <2>1. [t.calls EXCEPT ![m][p] = call] = [c.calls EXCEPT ![m][p] = call]
    BY <1>1, <1>7
  <2>2. /\ Put(t, m, p, call) = Rewritten(c, m, p, call, c.answers, c.unhedged)
        /\ Put([t EXCEPT !.answers = answers], m, p, call) = Rewritten(c, m, p, call, answers, c.unhedged)
    BY <1>1, <1>6, <1>7, <2>1 DEF Books, Rewritten, Put
  <2> HIDE DEF AsBefore
  <2> QED BY <1>1, <1>8, <1>9, <2>2
<1>10. ASSUME NEW outcome \in {"answered", "failed"}, NEW call, AsBefore(call)
       PROVE  AsBefore([call EXCEPT !.settled = outcome, !.timer = FALSE, !.crossTimer = FALSE])
  BY <1>10 DEF CallStates
<1>11. Account(t, 0)
  BY <1>1, <1>4, <1>6, <1>8
<1>12. ASSUME NEW outcome \in {"answered", "failed"}
       PROVE  Account(Calls!finish(t, m, p, outcome), 0)
  <2> DEFINE ended == [heard EXCEPT !.settled = outcome, !.timer = FALSE, !.crossTimer = FALSE]
  <2>1. Calls!finish(t, m, p, outcome) = Put(t, m, p, ended)
    BY <1>7 DEF Calls!finish, Put
  <2>2. AsBefore(ended)
    <3> HIDE DEF AsBefore
    <3> QED BY <1>4, <1>10
  <2> HIDE DEF ended, AsBefore
  <2> QED BY <1>1, <1>9, <2>1, <2>2
<1>13. ASSUME NEW answers \in Counts
       PROVE  Account(Calls!finish([t EXCEPT !.answers = answers], m, p, "answered"), 0)
  <2> DEFINE ended == [heard EXCEPT !.settled = "answered", !.timer = FALSE, !.crossTimer = FALSE]
             u == [t EXCEPT !.answers = answers]
  <2>1. u.calls[m][p] = heard
    BY <1>7 DEF Books
  <2>2. Calls!finish(u, m, p, "answered") = Put(u, m, p, ended)
    <3> HIDE DEF u
    <3> QED BY <2>1 DEF Calls!finish, Put
  <2>3. AsBefore(ended)
    <3> HIDE DEF AsBefore
    <3> QED BY <1>4, <1>10
  <2> HIDE DEF ended, AsBefore
  <2> QED BY <1>1, <1>9, <2>2, <2>3
<1>14. Account([t EXCEPT !.calls[m][p].failed = TRUE], 0)
  <2> DEFINE call == [heard EXCEPT !.failed = TRUE]
  <2>1. [t EXCEPT !.calls[m][p].failed = TRUE] = Put(t, m, p, call)
    BY <1>7 DEF Books, Put
  <2>2. AsBefore(call)
    BY <1>4 DEF CallStates
  <2> HIDE DEF call, AsBefore
  <2> QED BY <1>1, <1>9, <2>1, <2>2
<1>15. Account(Calls!hedgeOver(t, m, p), 0)
  <2> DEFINE call == [heard EXCEPT !.out = heard.out - 1]
             u == [t EXCEPT !.calls[m][p].out = @ - 1]
             ended == [call EXCEPT !.settled = "failed", !.timer = FALSE, !.crossTimer = FALSE]
  <2>1. u = Put(t, m, p, call)
    BY <1>7 DEF Books, Put
  <2>2. AsBefore(call)
    <3>1. heard.out - 1 \in Int
      BY <1>2, <1>4
    <3> DEFINE fewer == heard.out - 1
    <3> HIDE DEF fewer
    <3>2. AsBefore([heard EXCEPT !.out = fewer])
      BY <1>4, <3>1 DEF CallStates, fewer
    <3> QED BY <3>2 DEF fewer
  <2>3. u.calls[m][p] = call /\ u.calls = [c.calls EXCEPT ![m][p] = call]
    <3> HIDE DEF call, u
    <3> QED BY <1>1, <1>7, <2>1 DEF Books, Put
  <2>4. Account(u, 0)
    <3> HIDE DEF call, u, AsBefore
    <3> QED BY <1>1, <1>9, <2>1, <2>2
  <2>5. Account(Calls!finish(u, m, p, "failed"), 0)
    <3>1. Calls!finish(u, m, p, "failed") = Put(u, m, p, ended)
      <4> HIDE DEF u, call
      <4> QED BY <2>3 DEF Calls!finish, Put
    <3>2. AsBefore(ended)
      <4> HIDE DEF AsBefore, call
      <4> QED BY <1>10, <2>2
    <3>3. Put(u, m, p, ended) = Put(t, m, p, ended)
      <4> HIDE DEF ended, call, u
      <4>1. [t.calls EXCEPT ![m][p] = ended] = [u.calls EXCEPT ![m][p] = ended]
        <5>1. [t.calls EXCEPT ![m][p] = ended] = [c.calls EXCEPT ![m][p] = ended]
          BY <1>1, <1>7
        <5>2. [u.calls EXCEPT ![m][p] = ended] = [c.calls EXCEPT ![m][p] = ended]
          BY <1>1, <2>3
        <5> QED BY <5>1, <5>2
      <4>2. u = [t EXCEPT !.calls = u.calls]
        BY <1>7, <2>1 DEF Books, Put
      <4> QED BY <1>7, <4>1, <4>2 DEF Put, Books
    <3> HIDE DEF ended, AsBefore, u
    <3> QED BY <1>1, <1>9, <3>1, <3>2, <3>3
  <2> QED BY <2>4, <2>5 DEF Calls!hedgeOver
<1>16. [c.answers EXCEPT ![m] = IF old.hedged THEN @ ELSE @ + 1] \in Counts
  BY <1>1 DEF Counts
<1>17. [t EXCEPT !.answers[m] = IF old.hedged THEN @ ELSE @ + 1]
       = [t EXCEPT !.answers = [c.answers EXCEPT ![m] = IF old.hedged THEN @ ELSE @ + 1]]
  BY <1>7 DEF Books
<1>18. \/ c' = t \/ \E outcome \in {"answered", "failed"} : c' = Calls!finish(t, m, p, outcome)
       \/ c' = Calls!finish([t EXCEPT !.answers[m] = IF old.hedged THEN @ ELSE @ + 1], m, p, "answered")
       \/ c' = [t EXCEPT !.calls[m][p].failed = TRUE] \/ c' = Calls!hedgeOver(t, m, p)
  BY DEF Calls!Hear, t
<1> DEFINE answered == [t EXCEPT !.answers[m] = IF old.hedged THEN @ ELSE @ + 1]
<1>19. Account(Calls!finish(answered, m, p, "answered"), 0)
  <2> DEFINE answers == [c.answers EXCEPT ![m] = IF old.hedged THEN @ ELSE @ + 1]
  <2>1. answers \in Counts /\ answered = [t EXCEPT !.answers = answers]
    BY <1>16, <1>17
  <2> HIDE DEF answers, answered, t
  <2>2. Account(Calls!finish([t EXCEPT !.answers = answers], m, p, "answered"), 0)
    BY <1>13, <2>1
  <2> QED BY <2>1, <2>2
<1>20. \/ c' = t
       \/ \E outcome \in {"answered", "failed"} : c' = Calls!finish(t, m, p, outcome)
       \/ c' = Calls!finish(answered, m, p, "answered")
       \/ c' = [t EXCEPT !.calls[m][p].failed = TRUE]
       \/ c' = Calls!hedgeOver(t, m, p)
  BY <1>18
<1> HIDE DEF t, answered
<1> QED BY <1>11, <1>12, <1>14, <1>15, <1>19, <1>20

(* A phase begins: so many originals take the free slots, the others get   *)
(* in line after whoever is there.                                         *)
LEMMA Issues ==
    ASSUME CallsAssumption, NEW s, Account(s, 0), NEW m \in Calls!Methods, s.method = m,
           \A p \in Calls!Siblings : s.calls[m][p].leg["original"] = "none"
    PROVE  Account(Calls!Issue(s, m), 0)
<1> DEFINE free == SIBLING_CALLS_AT_ONCE - s.open
           now == IF free < SiblingCount THEN free ELSE SiblingCount
           Original(p) == <<m, p, "original">>
           late == [i \in 1..(SiblingCount - now) |-> Original(now + i)]
           line == s.waiting \o late
           Issued(p) == [s.calls[m][p] EXCEPT !.leg["original"] = IF p <= now THEN "out" ELSE "queued", !.timer = (p <= now)]
           issued == [p \in Calls!Siblings |-> Issued(p)]
           counted == [s.unhedged EXCEPT ![m] = s.unhedged[m] + now]
           open == s.open + now
           calls == [s.calls EXCEPT ![m] = issued]
           t == Calls!Issue(s, m)
<1>1. /\ s \in Books /\ s.open \in Int /\ s.waiting \in Seq(Slots) /\ s.unhedged \in Counts
      /\ s.calls \in [Calls!Methods -> [Calls!Siblings -> CallStates]]
      /\ \A p \in Calls!Siblings : s.calls[m][p] \in CallStates /\ Sound(s.calls[m][p])
  BY BooksFields DEF Account
<1>2. /\ Cardinality(Held(s)) \in Nat /\ IsFiniteSet(Held(s)) /\ s.open = Cardinality(Held(s)) /\ s.open <= SIBLING_CALLS_AT_ONCE
      /\ SiblingCount \in Nat /\ SIBLING_CALLS_AT_ONCE \in Nat
  BY <1>1, SlotsFinite DEF Account, CallsAssumption
<1>3. /\ now \in Nat /\ now <= SiblingCount /\ open \in Int /\ open <= SIBLING_CALLS_AT_ONCE
      /\ (now < SiblingCount => open = SIBLING_CALLS_AT_ONCE)
      /\ (s.open = SIBLING_CALLS_AT_ONCE => now = 0)
  BY <1>2
<1>4. Calls!Siblings = 1..SiblingCount
  BY DEF Calls!Siblings
<1>5. t = [s EXCEPT !.open = open, !.unhedged = counted, !.waiting = line, !.calls = calls]
  <2>1. t = [s EXCEPT !.open = @ + now, !.unhedged[m] = @ + now,
                      !.waiting = @ \o late, !.calls[m] = [p \in Calls!Siblings |->
                        [@[p] EXCEPT !.leg["original"] = IF p <= now THEN "out" ELSE "queued", !.timer = (p <= now)]]]
    BY DEF Calls!Issue
  <2> HIDE DEF now, late, t
  <2> QED BY <2>1, <1>1 DEF Books
<1> HIDE DEF free, now
<1>6. ASSUME NEW p \in Calls!Siblings
      PROVE  /\ Issued(p) \in CallStates /\ Issued(p).timer = (p <= now) /\ ~Issued(p).crossTimer
             /\ Issued(p).leg["original"] = IF p <= now THEN "out" ELSE "queued"
             /\ Issued(p).leg["same"] = "none" /\ Issued(p).leg["cross"] = "none"
             /\ s.calls[m][p].leg["same"] = "none" /\ s.calls[m][p].leg["cross"] = "none"
  <2> DEFINE old == s.calls[m][p]
             state == IF p <= now THEN "out" ELSE "queued"
             late0 == p <= now
  <2>1. /\ old \in CallStates /\ old.leg["same"] = "none" /\ old.leg["cross"] = "none" /\ ~old.crossTimer
        /\ old.leg \in [Calls!Legs -> {"none", "queued", "granted", "out", "ok", "bad", "over"}]
    BY <1>1, CallFields DEF Sound
  <2>2. state \in {"out", "queued"} /\ late0 \in BOOLEAN
    BY <1>3, <1>4
  <2>3. Issued(p) = [old EXCEPT !.leg = [old.leg EXCEPT !["original"] = state], !.timer = late0]
    BY <2>1 DEF CallStates
  <2> HIDE DEF old, state, late0, Issued
  <2>4. [old.leg EXCEPT !["original"] = state] \in [Calls!Legs -> {"none", "queued", "granted", "out", "ok", "bad", "over"}]
    BY <2>1, <2>2
  <2>5. Issued(p) \in CallStates
    BY <2>1, <2>2, <2>3, <2>4 DEF CallStates
  <2>6. Issued(p).timer = late0 /\ Issued(p).crossTimer = old.crossTimer /\ Issued(p).leg = [old.leg EXCEPT !["original"] = state]
    BY <2>1, <2>3 DEF CallStates
  <2>7. Issued(p).leg["original"] = state /\ Issued(p).leg["same"] = old.leg["same"] /\ Issued(p).leg["cross"] = old.leg["cross"]
    BY <2>1, <2>6, LegNames
  <2> QED BY <2>1, <2>5, <2>6, <2>7 DEF old, state, late0
<1> HIDE DEF Issued
<1>7. /\ DOMAIN late = 1..(SiblingCount - now) /\ Len(late) = SiblingCount - now /\ late \in Seq(Slots)
      /\ \A i \in DOMAIN late : late[i] = Original(now + i) /\ now + i \in Calls!Siblings /\ now + i > now
  <2>1. \A i \in 1..(SiblingCount - now) : now + i \in Calls!Siblings /\ now + i > now
    BY <1>2, <1>3, <1>4
  <2>2. \A p \in Calls!Siblings : Original(p) \in Slots
    BY LegNames DEF Slots
  <2> DEFINE many == SiblingCount - now
  <2>3. many \in Nat
    BY <1>2, <1>3
  <2>4. late = [i \in 1..many |-> Original(now + i)]
    OBVIOUS
  <2> HIDE DEF Original, many, late
  <2>5. \A i \in 1..many : Original(now + i) \in Slots /\ now + i \in Calls!Siblings /\ now + i > now
    BY <2>1, <2>2 DEF many
  <2>6. late \in Seq(Slots) /\ DOMAIN late = 1..many /\ \A i \in 1..many : late[i] = Original(now + i)
    BY <2>3, <2>4, <2>5
  <2>7. Len(late) = many
    BY <2>3, <2>6
  <2> QED BY <2>5, <2>6, <2>7 DEF many
<1>8. /\ line \in Seq(Slots) /\ Len(s.waiting) \in Nat /\ DOMAIN s.waiting = 1..Len(s.waiting)
      /\ DOMAIN line = 1..(Len(s.waiting) + (SiblingCount - now))
      /\ \A i \in DOMAIN s.waiting : line[i] = s.waiting[i]
      /\ \A i \in DOMAIN line : i > Len(s.waiting) => i - Len(s.waiting) \in DOMAIN late /\ line[i] = late[i - Len(s.waiting)]
      /\ \A i \in DOMAIN late : i + Len(s.waiting) \in DOMAIN line /\ line[i + Len(s.waiting)] = late[i]
      /\ (line # <<>> => s.waiting # <<>> \/ now < SiblingCount)
  <2> DEFINE many == SiblingCount - now
  <2>1. many \in Nat /\ late \in Seq(Slots) /\ Len(late) = many /\ DOMAIN late = 1..many /\ s.waiting \in Seq(Slots)
    BY <1>1, <1>2, <1>3, <1>7
  <2> HIDE DEF late, many
  <2>2. /\ line \in Seq(Slots) /\ Len(s.waiting) \in Nat /\ DOMAIN s.waiting = 1..Len(s.waiting)
        /\ DOMAIN line = 1..(Len(s.waiting) + many)
    BY <2>1
  <2>3. /\ \A i \in DOMAIN s.waiting : line[i] = s.waiting[i]
        /\ \A i \in DOMAIN line : i > Len(s.waiting) => i - Len(s.waiting) \in DOMAIN late /\ line[i] = late[i - Len(s.waiting)]
    BY <2>1, <2>2
  <2>4. \A i \in DOMAIN late : i + Len(s.waiting) \in DOMAIN line /\ line[i + Len(s.waiting)] = late[i]
    <3> SUFFICES ASSUME NEW i \in DOMAIN late PROVE i + Len(s.waiting) \in DOMAIN line /\ line[i + Len(s.waiting)] = late[i]
      OBVIOUS
    <3>1. i + Len(s.waiting) \in DOMAIN line /\ i + Len(s.waiting) > Len(s.waiting) /\ (i + Len(s.waiting)) - Len(s.waiting) = i
      BY <2>1, <2>2
    <3> QED BY <2>3, <3>1
  <2>5. line # <<>> => s.waiting # <<>> \/ now < SiblingCount
    <3>1. Len(s.waiting) = 0 /\ many = 0 => line = <<>>
      BY <2>1
    <3>2. s.waiting = <<>> => Len(s.waiting) = 0
      OBVIOUS
    <3>3. many # 0 => now < SiblingCount
      BY <1>2, <1>3 DEF many
    <3> QED BY <3>1, <3>2, <3>3
  <2> QED BY <2>2, <2>3, <2>4, <2>5 DEF many
<1>9. counted \in Counts
  BY <1>1, <1>3 DEF Counts
<1>10. /\ calls \in [Calls!Methods -> [Calls!Siblings -> CallStates]]
       /\ \A i \in Calls!Methods, j \in Calls!Siblings : calls[i][j] = IF i = m THEN Issued(j) ELSE s.calls[i][j]
  BY <1>1, <1>6
<1> HIDE DEF late, line, counted, calls, issued, open
<1>11. t \in Books
  <2> HIDE DEF t
  <2> QED BY <1>1, <1>3, <1>5, <1>8, <1>9, <1>10 DEF Books
<1>12. t.open = open /\ t.waiting = line /\ t.calls = calls /\ t.method = s.method
  <2> HIDE DEF t
  <2> QED BY <1>1, <1>5 DEF Books
<1> HIDE DEF t
<1>13. \A y \in Slots : LegAt(t, y) = IF y[1] = m /\ y[3] = "original" THEN (IF y[2] <= now THEN "out" ELSE "queued") ELSE LegAt(s, y)
  <2> SUFFICES ASSUME NEW i \in Calls!Methods, NEW j \in Calls!Siblings, NEW k \in Calls!Legs
               PROVE  calls[i][j].leg[k] = IF i = m /\ k = "original" THEN (IF j <= now THEN "out" ELSE "queued")
                                           ELSE s.calls[i][j].leg[k]
    BY <1>12 DEF Slots, LegAt
  <2> QED BY <1>6, <1>10, LegNames
<1>14. \A y \in Slots : y[1] = m => LegAt(s, y) = "none"
  <2> SUFFICES ASSUME NEW j \in Calls!Siblings, NEW k \in Calls!Legs
               PROVE  s.calls[m][j].leg[k] = "none"
    BY DEF Slots, LegAt
  <2> QED BY <1>6, LegNames
<1>15. InLine(t)
  <2>1. \A i \in DOMAIN s.waiting : s.waiting[i] \in Slots /\ s.waiting[i][1] # m
    <3> SUFFICES ASSUME NEW i \in DOMAIN s.waiting PROVE s.waiting[i] \in Slots /\ s.waiting[i][1] # m
      OBVIOUS
    <3>1. s.waiting[i] \in Slots
      BY <1>1
    <3>2. LegAt(s, s.waiting[i]) = "queued"
      BY <3>1 DEF Account, InLine
    <3> QED BY <1>14, <3>1, <3>2
  <2>2. \A i \in DOMAIN late : late[i][1] = m /\ late[i][2] = now + i /\ late[i] \in Slots
    BY <1>7, LegNames DEF Slots
  <2>3. \A i, j \in DOMAIN line : line[i] = line[j] => i = j
    <3> SUFFICES ASSUME NEW i \in DOMAIN line, NEW j \in DOMAIN line, line[i] = line[j] PROVE i = j
      OBVIOUS
    <3>0. i \in Int /\ j \in Int
      BY <1>8
    <3>1. CASE i <= Len(s.waiting) /\ j <= Len(s.waiting)
      <4>1. i \in DOMAIN s.waiting /\ j \in DOMAIN s.waiting
        BY <1>8, <3>1
      <4>2. s.waiting[i] = s.waiting[j]
        BY <1>8, <4>1
      <4> QED BY <4>1, <4>2 DEF Account, InLine
    <3>2. CASE i > Len(s.waiting) /\ j > Len(s.waiting)
      <4>1. i - Len(s.waiting) \in DOMAIN late /\ j - Len(s.waiting) \in DOMAIN late
        BY <1>8, <3>2
      <4>2. now + (i - Len(s.waiting)) = now + (j - Len(s.waiting))
        BY <1>8, <2>2, <3>2, <4>1
      <4> QED BY <1>3, <1>8, <3>0, <4>2
    <3>3. CASE i <= Len(s.waiting) /\ j > Len(s.waiting)
      <4>1. i \in DOMAIN s.waiting /\ j - Len(s.waiting) \in DOMAIN late
        BY <1>8, <3>3
      <4>2. line[i] = s.waiting[i] /\ line[j] = late[j - Len(s.waiting)]
        BY <1>8, <3>3, <4>1
      <4> QED BY <2>1, <2>2, <4>1, <4>2
    <3>4. CASE i > Len(s.waiting) /\ j <= Len(s.waiting)
      <4>1. j \in DOMAIN s.waiting /\ i - Len(s.waiting) \in DOMAIN late
        BY <1>8, <3>4
      <4>2. line[j] = s.waiting[j] /\ line[i] = late[i - Len(s.waiting)]
        BY <1>8, <3>4, <4>1
      <4> QED BY <2>1, <2>2, <4>1, <4>2
    <3> QED BY <1>8, <3>0, <3>1, <3>2, <3>3, <3>4
  <2>4. ASSUME NEW y \in Slots
        PROVE  LegAt(t, y) = "queued" <=> \E i \in DOMAIN line : line[i] = y
    <3>1. y[1] \in Calls!Methods /\ y[2] \in Calls!Siblings /\ y[3] \in Calls!Legs /\ y = <<y[1], y[2], y[3]>>
      BY DEF Slots
    <3>2. LegAt(s, y) = "queued" <=> \E i \in DOMAIN s.waiting : s.waiting[i] = y
      BY DEF Account, InLine
    <3>3. CASE y[1] # m
      <4>1. ASSUME NEW i \in DOMAIN line, line[i] = y PROVE \E j \in DOMAIN s.waiting : s.waiting[j] = y
        <5>1. i <= Len(s.waiting)
          BY <1>8, <2>2, <3>3, <4>1
        <5>2. i \in DOMAIN s.waiting
          BY <1>8, <5>1
        <5> QED BY <1>8, <4>1, <5>2
      <4>2. ASSUME NEW i \in DOMAIN s.waiting, s.waiting[i] = y PROVE \E j \in DOMAIN line : line[j] = y
        <5>1. i \in DOMAIN line
          BY <1>2, <1>3, <1>8
        <5> QED BY <1>8, <4>2, <5>1
      <4> QED BY <1>13, <3>2, <3>3, <4>1, <4>2
    <3>4. CASE y[1] = m /\ y[3] = "original" /\ ~(y[2] <= now)
      <4>1. y[2] - now \in DOMAIN late /\ now + (y[2] - now) = y[2]
        BY <1>2, <1>3, <1>4, <1>7, <3>1, <3>4
      <4>2. late[y[2] - now] = y
        BY <1>7, <3>1, <3>4, <4>1
      <4> QED BY <1>8, <1>13, <3>4, <4>1, <4>2
    <3>5. CASE y[1] = m /\ ~(y[3] = "original" /\ ~(y[2] <= now))
      <4>1. LegAt(t, y) # "queued"
        BY <1>13, <1>14, <3>5
      <4>2. ASSUME NEW i \in DOMAIN line, line[i] = y PROVE FALSE
        <5>1. ~(i \in DOMAIN s.waiting)
          BY <1>8, <2>1, <3>5, <4>2
        <5>2. i - Len(s.waiting) \in DOMAIN late /\ line[i] = late[i - Len(s.waiting)]
          BY <1>8, <5>1
        <5>3. y = Original(now + (i - Len(s.waiting))) /\ now + (i - Len(s.waiting)) > now
          BY <1>7, <4>2, <5>2
        <5>4. y[3] = "original" /\ y[2] > now
          BY <5>3
        <5> QED BY <1>3, <1>4, <3>1, <3>5, <5>4
      <4> QED BY <4>1, <4>2
    <3> QED BY <3>3, <3>4, <3>5
  <2> QED BY <1>12, <2>3, <2>4 DEF InLine
<1>16. KeysFirst(t)
  BY <1>10, <1>12, LegNames DEF KeysFirst, Account, Calls!Methods
<1>17. \A i \in Calls!Methods, j \in Calls!Siblings : Sound(t.calls[i][j])
  <2>1. \A j \in Calls!Siblings : Sound(Issued(j))
    BY <1>6 DEF Sound
  <2> QED BY <1>10, <1>12, <2>1 DEF Account
<1>18. t.open = Cardinality(Held(t))
  <2> DEFINE new == {Original(i) : i \in 1..now}
  <2>1. Held(t) = Held(s) \cup new
    <3>1. new \subseteq Slots
      BY <1>2, <1>3, <1>4, LegNames DEF Slots
    <3>2. ASSUME NEW y \in Slots PROVE y \in Held(t) <=> y \in Held(s) \/ y \in new
      <4>1. y[1] \in Calls!Methods /\ y[2] \in Calls!Siblings /\ y[3] \in Calls!Legs /\ y = <<y[1], y[2], y[3]>>
        BY DEF Slots
      <4>2. y \in new <=> y[1] = m /\ y[3] = "original" /\ y[2] <= now
        BY <1>3, <1>4, <4>1
      <4> QED BY <1>13, <1>14, <4>2 DEF Held, HoldsSlot
    <3> QED BY <3>1, <3>2 DEF Held
  <2>2. Held(s) \cap new = {}
    <3> SUFFICES ASSUME NEW y \in Held(s), y \in new PROVE FALSE
      OBVIOUS
    <3>1. y \in Slots /\ y[1] = m /\ HoldsSlot(LegAt(s, y))
      BY DEF Held
    <3> QED BY <1>14, <3>1 DEF HoldsSlot
  <2>3. IsFiniteSet(new) /\ Cardinality(new) = now
    <3> DEFINE f == [i \in 1..now |-> Original(i)]
    <3>1. f \in Bijection(1..now, new)
      <4>1. f \in Injection(1..now, new)
        BY DEF Injection, IsInjective
      <4>2. f \in Surjection(1..now, new)
        BY DEF Surjection
      <4> QED BY <4>1, <4>2 DEF Bijection
    <3>2. IsFiniteSet(1..now) /\ Cardinality(1..now) = now
      BY <1>3, CountedUpTo
    <3> QED BY <3>1, <3>2, FS_Bijection DEF ExistsBijection
  <2>4. Cardinality(Held(s) \cup new) = Cardinality(Held(s)) + now
    <3> HIDE DEF new
    <3>1. Cardinality(Held(s) \cup new) = Cardinality(Held(s)) + Cardinality(new) - Cardinality(Held(s) \cap new)
      BY <1>2, <2>3, FS_Union
    <3>2. Cardinality(Held(s) \cap new) = 0
      BY <2>2, FS_EmptySet
    <3> QED BY <1>2, <1>3, <2>3, <3>1, <3>2
  <2> QED BY <1>2, <1>12, <2>1, <2>4 DEF open
<1>19. t.open <= SIBLING_CALLS_AT_ONCE /\ (t.waiting # <<>> => t.open = SIBLING_CALLS_AT_ONCE)
  BY <1>2, <1>3, <1>8, <1>12 DEF Account, open
<1>20. t.open = Cardinality(Held(t)) + 0
  BY <1>3, <1>12, <1>18
<1> QED BY <1>11, <1>15, <1>16, <1>17, <1>19, <1>20 DEF Account, t

LEMMA RowsIssued ==
    ASSUME CallsAssumption, Account(c, 0), Calls!Rows
    PROVE  Account(c', 0)
<1> DEFINE s == [c EXCEPT !.method = "fetchRows"]
<1>1. c \in Books /\ c.method = "searchKeys" /\ c' = Calls!Issue(s, "fetchRows")
  BY DEF Calls!Rows, Account
<1>2. s \in Books /\ s.open = c.open /\ s.waiting = c.waiting /\ s.calls = c.calls /\ s.method = "fetchRows"
  BY <1>1 DEF Books, Calls!Methods
<1> HIDE DEF s
<1>3. Held(s) = Held(c)
  BY <1>2 DEF Held, LegAt
<1>4. Account(s, 0)
  BY <1>2, <1>3 DEF Account, InLine, KeysFirst, LegAt
<1>5. \A p \in Calls!Siblings : s.calls["fetchRows"][p].leg["original"] = "none"
  BY <1>1, <1>2 DEF Account, KeysFirst
<1> QED BY <1>1, <1>2, <1>4, <1>5, Issues DEF Calls!Methods

LEMMA KeysIssued ==
    ASSUME CallsAssumption, Calls!Init
    PROVE  Account(c, 0)
<1> DEFINE s == [open |-> 0, waiting |-> <<>>, method |-> "searchKeys",
                 answers |-> [m \in Calls!Methods |-> 0], unhedged |-> [m \in Calls!Methods |-> 0],
                 calls |-> [m \in Calls!Methods |-> [p \in Calls!Siblings |-> Calls!NoCall]]]
<1>1. /\ Calls!NoCall \in CallStates /\ \A leg \in Calls!Legs : Calls!NoCall.leg[leg] = "none"
      /\ ~Calls!NoCall.timer /\ ~Calls!NoCall.crossTimer
  BY DEF Calls!NoCall, CallStates
<1>2. s \in Books
  <2> HIDE DEF Calls!NoCall
  <2>1. [m \in Calls!Methods |-> [p \in Calls!Siblings |-> Calls!NoCall]] \in [Calls!Methods -> [Calls!Siblings -> CallStates]]
    BY <1>1
  <2>2. [m \in Calls!Methods |-> 0] \in Counts /\ <<>> \in Seq(Slots)
    BY DEF Counts
  <2> QED BY <2>1, <2>2 DEF Books, Calls!Methods
<1>3. /\ s.open = 0 /\ s.waiting = <<>> /\ s.method = "searchKeys"
      /\ \A m \in Calls!Methods, p \in Calls!Siblings : s.calls[m][p] = Calls!NoCall
  OBVIOUS
<1>4. c = Calls!Issue(s, "searchKeys")
  BY DEF Calls!Init
<1> HIDE DEF s
<1>5. \A x \in Slots : LegAt(s, x) = "none"
  BY <1>1, <1>3 DEF Slots, LegAt
<1>6. Held(s) = {}
  BY <1>5 DEF Held, HoldsSlot
<1>7. Sound(Calls!NoCall)
  BY <1>1, LegNames DEF Sound
<1>8. InLine(s) /\ KeysFirst(s)
  BY <1>1, <1>3, <1>5, LegNames DEF InLine, KeysFirst, Calls!Methods
<1>9. Account(s, 0)
  BY <1>2, <1>3, <1>6, <1>7, <1>8, FS_EmptySet DEF Account, CallsAssumption
<1>10. \A p \in Calls!Siblings : s.calls["searchKeys"][p].leg["original"] = "none"
  BY <1>1, <1>3, LegNames DEF Calls!Methods
<1> QED BY <1>3, <1>4, <1>9, <1>10, Issues DEF Calls!Methods

(* Every step of a gather's calls leaves the limiter's books in order, with *)
(* no slot counted that nobody holds (sibling-limit.ts, sibling-hedge.ts).  *)
THEOREM SlotsInductive ==
    ASSUME CallsAssumption, Account(c, 0), [Calls!Next]_c
    PROVE  Account(c', 0)
<1>1. CASE UNCHANGED c
  BY <1>1
<1>2. ASSUME NEW m \in Calls!Methods, NEW p \in Calls!Siblings, NEW leg \in Calls!Legs,
             Calls!Start(m, p, leg) \/ Calls!settle(m, p, leg) \/ Calls!Hear(m, p, leg)
      PROVE  Account(c', 0)
  BY <1>2, Starts, Settles, Hears
<1>3. ASSUME NEW m \in Calls!Methods, NEW p \in Calls!Siblings, Calls!consider(m, p) \/ Calls!CrossAfter(m, p)
      PROVE  Account(c', 0)
  BY <1>3, Considers, Crosses
<1> QED BY <1>1, <1>2, <1>3, RowsIssued DEF Calls!Next, Calls!Leg

(* With any number of siblings and any number of slots, however answers,   *)
(* failures, hedges, timers and slots handed over interleave: the          *)
(* limiter's count is the number of calls that hold a slot, it stays       *)
(* within the limit, and nobody is in line while a slot is free            *)
(* (sibling-limit.ts, sibling-hedge.ts).                                   *)
THEOREM SlotsAreExact ==
    Calls!Spec => []SlotsExact
<1> USE ServingAssumption
<1>1. Account(c, 0) => SlotsExact
  <2> SUFFICES ASSUME Account(c, 0) PROVE Calls!SlotsExact
    BY DEF SlotsExact
  <2>1. Calls!SlotsOf(c) = Cardinality(Held(c))
    <3>1. {x \in Calls!Methods \X Calls!Siblings \X Calls!Legs: c.calls[x[1]][x[2]].leg[x[3]] \in {"granted", "out"}} = Held(c)
      BY DEF Held, HoldsSlot, LegAt, Slots
    <3>2. Calls!Cardinality(Held(c)) = Cardinality(Held(c))
      BY DEF Calls!Cardinality, Cardinality
    <3> QED BY <3>1, <3>2 DEF Calls!SlotsOf
  <2>2. Cardinality(Held(c)) \in Nat
    BY SlotsFinite
  <2>3. c.open = Calls!SlotsOf(c) /\ c.open <= SIBLING_CALLS_AT_ONCE /\ (c.waiting # <<>> => c.open = SIBLING_CALLS_AT_ONCE)
    BY <2>1, <2>2 DEF Account
  <2>4. ASSUME NEW m \in Calls!Methods, NEW p \in Calls!Siblings, NEW leg \in Calls!Legs
        PROVE  c.calls[m][p].leg[leg] = "queued" <=> \E i \in DOMAIN c.waiting: c.waiting[i] = <<m, p, leg>>
    <3>1. <<m, p, leg>> \in Slots /\ LegAt(c, <<m, p, leg>>) = c.calls[m][p].leg[leg]
      BY DEF Slots, LegAt
    <3> QED BY <3>1 DEF Account, InLine
  <2> QED BY <2>3, <2>4 DEF Calls!SlotsExact
<1>2. Account(c, 0) /\ [Calls!Next]_c => Account(c, 0)'
  BY SlotsInductive
<1>3. Calls!Init => Account(c, 0)
  BY KeysIssued
<1> QED BY <1>1, <1>2, <1>3, PTL DEF Calls!Spec

-----------------------------------------------------------------------------
(* PartitionLookup                                                         *)

SlotStates == {"idle", "out", "card", "null", "error"}
LookupStates(world) ==
    [world : {world}, man : Lookup!Builds, hint : [DOMAIN world.keys -> Partitions \cup {Lookup!None}],
     serves : [Partitions -> Lookup!Builds], moved : BOOLEAN, behind : BOOLEAN,
     pc : {"start", "hint", "fan", "round", "gather", "done"}, slots : [Partitions -> SlotStates],
     found : [DOMAIN world.keys -> Partitions \cup {Lookup!None}], asked : SUBSET Partitions, round : 0..3,
     everywhere : BOOLEAN, result : Partitions \cup {Lookup!None, Lookup!Failed}]

SameWidth(world) == world.width[1] = world.width[2]
InBoth(world, i) == \A b \in Lookup!Builds: world.keys[i].holders[b] # {}
InNeither(world, i) == \A b \in Lookup!Builds: world.keys[i].holders[b] = {}
Home(world, i, b) == world.keys[i].home[world.width[b]]

(* Where a key may be found that some build has.                           *)
Somewhere(world, i, p) == \E b \in Lookup!Builds: p \in world.keys[i].holders[b]

(* What the answer for a key must be.                                      *)
KeyRight(world, i, from) ==
    /\ InBoth(world, i) => from # Lookup!None
    /\ InNeither(world, i) => from = Lookup!None
    /\ SameWidth(world) /\ InBoth(world, i) /\ from # Lookup!None => from = Lookup!Min(world.keys[i].holders[1])

(* A hint is where the build of the manifest first has the key.            *)
HintsRight(s) ==
    \A i \in DOMAIN s.world.keys:
      \/ s.hint[i] = Lookup!None
      \/ s.world.keys[i].holders[s.man] = {}
      \/ s.hint[i] = Lookup!Min(s.world.keys[i].holders[s.man])

(* Across a change of the partition count no object swaps.                 *)
Settled(s) ==
    ~SameWidth(s.world) => \A p \in Partitions: s.serves[p] = IF p < s.world.width[2] THEN 2 ELSE 1

(* One key: who has answered, and that a partition that was not asked or   *)
(* knew nothing does not hold it in every build.                           *)
Polled(s) ==
    \A p \in Partitions:
      /\ s.slots[p] # "idle" => p < s.world.width[s.man]
      /\ s.slots[p] = "card" => Somewhere(s.world, 1, p)
      /\ s.pc = "fan" /\ p < s.world.width[s.man] /\ s.slots[p] \in {"idle", "null"} =>
           \E b \in Lookup!Builds: p \notin s.world.keys[1].holders[b]
      /\ s.pc = "hint" => s.slots[p] = IF p = s.hint[1] THEN "out" ELSE "idle"

(* A batch at one partition count: a key both builds have is asked of its  *)
(* first holder in the first round, and found there by its end.            *)
FoundFirst(s, i) ==
    LET first == Lookup!Min(s.world.keys[i].holders[1])
    IN  /\ s.round = 1 =>
             /\ s.slots[first] # "idle"
             /\ s.found[i] # Lookup!None => s.slots[s.found[i]] # "idle"
             /\ \A p \in Partitions: s.slots[p] = "null" /\ p \in s.world.keys[i].holders[1] =>
                  s.found[i] # Lookup!None /\ s.found[i] <= p
        /\ s.round \in {2, 3} => s.found[i] = first

(* Across a change of it: an oracle id's owner by either count is asked in *)
(* the first two rounds, if the manifest read again is the new one.        *)
FoundMoved(s, i) ==
    LET missing == s.found[i] = Lookup!None /\ ~s.behind
    IN  /\ \A p \in Partitions: s.slots[p] = "null" /\ p \in s.world.keys[i].holders[s.serves[p]] => s.found[i] # Lookup!None
        /\ s.round = 1 => s.slots[Home(s.world, i, s.man)] # "idle" /\ \A p \in s.asked: s.slots[p] # "idle"
        /\ s.round = 2 /\ missing => s.slots[Home(s.world, i, 2)] # "idle"
        /\ s.round = 3 => ~missing

Merged(s) ==
    /\ s.round \in 1..3 /\ \A p \in Partitions: s.slots[p] \in {"idle", "out", "null"}
    /\ \A i \in DOMAIN s.world.keys:
         /\ s.found[i] # Lookup!None => Somewhere(s.world, i, s.found[i])
         /\ SameWidth(s.world) /\ InBoth(s.world, i) => FoundFirst(s, i)
         /\ ~SameWidth(s.world) /\ InBoth(s.world, i) /\ s.world.keys[i].kind = "oracle" => FoundMoved(s, i)

(* What is claimed of the result.                                          *)
Right(s) ==
    s.result # Lookup!Failed =>
      IF s.world.rule = "batch"
      THEN \A i \in DOMAIN s.world.keys:
             SameWidth(s.world) \/ (s.world.keys[i].kind = "oracle" /\ ~s.behind) => KeyRight(s.world, i, s.found[i])
      ELSE SameWidth(s.world) \/ s.world.rule \in {"pinned", "named"} => KeyRight(s.world, 1, s.result)

LookupInv(s) ==
    /\ s.world \in Worlds /\ s \in LookupStates(s.world) /\ HintsRight(s) /\ Settled(s)
    /\ s.pc = "start" => s.asked = {} /\ \A i \in DOMAIN s.world.keys: s.found[i] = Lookup!None
    /\ s.pc \in {"hint", "fan"} => s.world.rule \in {"lowest", "sole"} /\ Polled(s)
    /\ s.pc = "gather" => s.world.rule \in {"pinned", "named"}
    /\ s.pc = "round" => s.world.rule = "batch" /\ Merged(s)
    /\ s.pc = "done" => Right(s)

LEMMA Least ==
    ASSUME NEW S \in SUBSET Nat, S # {}
    PROVE  Lookup!Min(S) \in S /\ \A x \in S: Lookup!Min(S) <= x
<1>1. \E x \in S: \A y \in S: ~(<<y, x>> \in OpToRel(<, Nat))
  BY WFMin, NatLessThanWellFounded
<1>2. PICK x \in S: \A y \in S: ~(y < x)
  BY <1>1 DEF OpToRel
<1>3. \A y \in S: x <= y
  BY <1>2
<1> QED BY <1>3 DEF Lookup!Min

(* What a world is, for the provers.                                       *)
LEMMA WorldFields ==
    ASSUME WorldsAssumption, NEW world \in Worlds
    PROVE  /\ world.rule \in {"lowest", "sole", "batch", "pinned", "named"} /\ 1 \in DOMAIN world.keys
           /\ \A b \in {1, 2}: world.width[b] \in Nat \ {0} /\ \A p \in Nat: p < world.width[b] => p \in Partitions
           /\ \A i \in DOMAIN world.keys, b \in {1, 2}:
                /\ world.keys[i].holders[b] \subseteq Nat
                /\ \A p \in world.keys[i].holders[b]: p \in Partitions /\ p < world.width[b]
                /\ world.keys[i].holders[b] # {} =>
                     /\ Lookup!Min(world.keys[i].holders[b]) \in world.keys[i].holders[b]
                     /\ \A p \in world.keys[i].holders[b]: Lookup!Min(world.keys[i].holders[b]) <= p
           /\ \A i \in DOMAIN world.keys:
                SameWidth(world) /\ InBoth(world, i) => world.keys[i].holders[1] = world.keys[i].holders[2]
           /\ \A i \in DOMAIN world.keys, b \in {1, 2}: world.keys[i].kind = "oracle" =>
                /\ Home(world, i, b) \in Partitions /\ Home(world, i, b) < world.width[b]
                /\ \A p \in world.keys[i].holders[b]: p = Home(world, i, b)
           /\ Partitions \subseteq Nat
<1>1. \A b \in {1, 2}: world.width[b] \in Nat \ {0} /\ 0..(world.width[b] - 1) \subseteq Partitions
  BY DEF WorldsAssumption, Lookup!Builds
<1>2. ASSUME NEW b \in {1, 2}, NEW p \in Nat, p < world.width[b] PROVE p \in Partitions
  BY <1>1, <1>2
<1>3. ASSUME NEW i \in DOMAIN world.keys, NEW b \in {1, 2}
      PROVE  /\ world.keys[i].holders[b] \subseteq Nat
             /\ \A p \in world.keys[i].holders[b]: p \in Partitions /\ p < world.width[b]
  <2>1. world.keys[i].holders[b] \subseteq 0..(world.width[b] - 1)
    BY DEF WorldsAssumption, Lookup!Builds
  <2> QED BY <1>1, <2>1
<1>4. \A i \in DOMAIN world.keys:
        SameWidth(world) /\ InBoth(world, i) => world.keys[i].holders[1] = world.keys[i].holders[2]
  BY DEF WorldsAssumption, SameWidth, InBoth, Lookup!Builds
<1>5. ASSUME NEW i \in DOMAIN world.keys, NEW b \in {1, 2}, world.keys[i].kind = "oracle"
      PROVE  /\ Home(world, i, b) \in Partitions /\ Home(world, i, b) < world.width[b]
             /\ \A p \in world.keys[i].holders[b]: p = Home(world, i, b)
  <2>1. Home(world, i, b) \in 0..(world.width[b] - 1) /\ world.keys[i].holders[b] \subseteq {Home(world, i, b)}
    BY <1>5 DEF WorldsAssumption, Lookup!Builds, Home
  <2> QED BY <1>1, <2>1
<1>6. \A i \in DOMAIN world.keys, b \in {1, 2}: world.keys[i].holders[b] # {} =>
        /\ Lookup!Min(world.keys[i].holders[b]) \in world.keys[i].holders[b]
        /\ \A p \in world.keys[i].holders[b]: Lookup!Min(world.keys[i].holders[b]) <= p
  BY <1>3, Least
<1>7. world.rule \in {"lowest", "sole", "batch", "pinned", "named"} /\ 1 \in DOMAIN world.keys /\ Partitions \subseteq Nat
  BY DEF WorldsAssumption
<1> QED BY <1>1, <1>2, <1>3, <1>4, <1>5, <1>6, <1>7

LEMMA LookupFields ==
    ASSUME NEW s, s \in LookupStates(s.world)
    PROVE  /\ s.man \in {1, 2} /\ s.hint \in [DOMAIN s.world.keys -> Partitions \cup {Lookup!None}]
           /\ s.serves \in [Partitions -> {1, 2}] /\ s.moved \in BOOLEAN /\ s.behind \in BOOLEAN
           /\ s.pc \in {"start", "hint", "fan", "round", "gather", "done"} /\ s.slots \in [Partitions -> SlotStates]
           /\ s.found \in [DOMAIN s.world.keys -> Partitions \cup {Lookup!None}] /\ s.asked \subseteq Partitions
           /\ s.round \in 0..3 /\ s.everywhere \in BOOLEAN
  BY DEF LookupStates, Lookup!Builds

(* A lookup that is over has the right answer.                             *)
LEMMA LookupOver ==
    ASSUME LookupInv(l), NEW r \in Partitions \cup {Lookup!None, Lookup!Failed}, l' = Lookup!Done(l, r),
           r # Lookup!Failed =>
             IF l.world.rule = "batch"
             THEN \A i \in DOMAIN l.world.keys:
                    SameWidth(l.world) \/ (l.world.keys[i].kind = "oracle" /\ ~l.behind) => KeyRight(l.world, i, l.found[i])
             ELSE SameWidth(l.world) \/ l.world.rule \in {"pinned", "named"} => KeyRight(l.world, 1, r)
    PROVE  LookupInv(l')
<1>1. l' = [l EXCEPT !.pc = "done", !.result = r] /\ l \in LookupStates(l.world) /\ l.world \in Worlds
  BY DEF Lookup!Done, LookupInv
<1>2. l' \in LookupStates(l.world)
  BY <1>1 DEF LookupStates
<1>3. /\ l'.pc = "done" /\ l'.result = r /\ l'.world = l.world /\ l'.man = l.man /\ l'.hint = l.hint
      /\ l'.serves = l.serves /\ l'.behind = l.behind /\ l'.found = l.found
  BY <1>1 DEF LookupStates
<1>4. Right(l')
  BY <1>3 DEF Right
<1>5. HintsRight(l') /\ Settled(l')
  BY <1>3 DEF LookupInv, HintsRight, Settled
<1> QED BY <1>1, <1>2, <1>3, <1>4, <1>5 DEF LookupInv

LEMMA LookupStarts ==
    ASSUME WorldsAssumption, Lookup!Init
    PROVE  LookupInv(l)
<1>1. PICK world \in Worlds, man \in Lookup!Builds, filter \in BOOLEAN, serves \in [Partitions -> Lookup!Builds]:
        \E hint \in Lookup!Hints(world, man, filter):
          /\ world.width[1] # world.width[2] => \A p \in Partitions: serves[p] = IF p < world.width[2] THEN 2 ELSE 1
          /\ l = [world |-> world, man |-> man, hint |-> hint, serves |-> serves, moved |-> FALSE, behind |-> FALSE,
                  pc |-> "start", slots |-> Lookup!Idle, found |-> [i \in DOMAIN world.keys |-> Lookup!None],
                  asked |-> {}, round |-> 0, everywhere |-> FALSE, result |-> Lookup!None]
  BY DEF Lookup!Init
<1>2. PICK hint \in Lookup!Hints(world, man, filter):
        l = [world |-> world, man |-> man, hint |-> hint, serves |-> serves, moved |-> FALSE, behind |-> FALSE,
             pc |-> "start", slots |-> Lookup!Idle, found |-> [i \in DOMAIN world.keys |-> Lookup!None],
             asked |-> {}, round |-> 0, everywhere |-> FALSE, result |-> Lookup!None]
  BY <1>1
<1>3. hint \in [DOMAIN world.keys -> Partitions \cup {Lookup!None}]
  BY DEF Lookup!Hints
<1>4. l \in LookupStates(world)
  <2>1. Lookup!Idle \in [Partitions -> SlotStates]
    BY DEF Lookup!Idle, SlotStates
  <2>2. [i \in DOMAIN world.keys |-> Lookup!None] \in [DOMAIN world.keys -> Partitions \cup {Lookup!None}]
    OBVIOUS
  <2> QED BY <1>2, <1>3, <2>1, <2>2 DEF LookupStates
<1>5. /\ l.world = world /\ l.man = man /\ l.hint = hint /\ l.serves = serves /\ l.pc = "start" /\ l.asked = {}
      /\ l.found = [i \in DOMAIN world.keys |-> Lookup!None]
  BY <1>2
<1>6. HintsRight(l)
  <2> SUFFICES ASSUME NEW i \in DOMAIN world.keys
               PROVE  \/ hint[i] = Lookup!None \/ world.keys[i].holders[man] = {}
                      \/ hint[i] = Lookup!Min(world.keys[i].holders[man])
    BY <1>5 DEF HintsRight
  <2>1. hint[i] \in Lookup!lookup(world, man, filter, i)
    BY DEF Lookup!Hints
  <2> QED BY <2>1 DEF Lookup!lookup
<1>7. Settled(l)
  BY <1>1, <1>5 DEF Settled, SameWidth
<1> QED BY <1>4, <1>5, <1>6, <1>7 DEF LookupInv

(* An object swaps its store while it is asked.                            *)
LEMMA LookupSwaps ==
    ASSUME WorldsAssumption, LookupInv(l), NEW p \in Partitions, Lookup!Swap(p)
    PROVE  LookupInv(l')
<1>1. /\ l' = [l EXCEPT !.serves[p] = 2, !.moved = TRUE] /\ l \in LookupStates(l.world) /\ l.world \in Worlds
      /\ l.serves[p] = 1 /\ p < l.world.width[2] /\ l.pc \notin {"start", "done"}
  BY DEF Lookup!Swap, LookupInv
<1>2. /\ l.serves \in [Partitions -> {1, 2}]
  BY <1>1, LookupFields
<1>3. l' \in LookupStates(l.world)
  <2> DEFINE serves == [l.serves EXCEPT ![p] = 2]
  <2>1. serves \in [Partitions -> Lookup!Builds] /\ l' = [l EXCEPT !.serves = serves, !.moved = TRUE]
    BY <1>1, <1>2 DEF Lookup!Builds, LookupStates
  <2> HIDE DEF serves
  <2> QED BY <1>1, <2>1 DEF LookupStates
<1>4. /\ l'.pc = l.pc /\ l'.world = l.world /\ l'.man = l.man /\ l'.hint = l.hint /\ l'.slots = l.slots
      /\ l'.behind = l.behind /\ l'.found = l.found /\ l'.asked = l.asked /\ l'.round = l.round
  BY <1>1 DEF LookupStates
<1>5. SameWidth(l.world)
  BY <1>1 DEF LookupInv, Settled
<1>6. HintsRight(l') /\ Settled(l')
  BY <1>4, <1>5 DEF LookupInv, HintsRight, Settled
<1>7. l.pc \in {"hint", "fan"} => Polled(l')
  BY <1>4 DEF LookupInv, Polled
<1>8. l.pc = "round" => Merged(l')
  <2> SUFFICES ASSUME Merged(l) PROVE Merged(l')
    BY DEF LookupInv
  <2>1. \A i: FoundFirst(l, i) => FoundFirst(l', i)
    BY <1>4 DEF FoundFirst
  <2> QED BY <1>4, <1>5, <2>1 DEF Merged
<1> QED BY <1>1, <1>3, <1>4, <1>6, <1>7, <1>8 DEF LookupInv

(* The hint's partition is asked alone, or all of them are.                *)
LEMMA LookupHinted ==
    ASSUME WorldsAssumption, LookupInv(l), Lookup!hinted
    PROVE  LookupInv(l')
<1> DEFINE parts == IF Lookup!Hint(1) = Lookup!None THEN Lookup!Parts ELSE {Lookup!Hint(1)}
           pc == IF Lookup!Hint(1) = Lookup!None THEN "fan" ELSE "hint"
           slots == Lookup!Out(parts)
<1>1. /\ l' = [l EXCEPT !.pc = pc, !.slots = slots] /\ l \in LookupStates(l.world) /\ l.world \in Worlds
      /\ l.world.rule \in {"lowest", "sole"}
  BY DEF Lookup!hinted, LookupInv
<1>2. slots \in [Partitions -> SlotStates] /\ \A p \in Partitions: slots[p] = IF p \in parts THEN "out" ELSE "idle"
  BY DEF Lookup!Out, SlotStates
<1>3. pc \in {"fan", "hint"}
  OBVIOUS
<1>4. l.man \in {1, 2} /\ l.world.width[l.man] \in Nat \ {0} /\ Partitions \subseteq Nat
  BY <1>1, LookupFields, WorldFields
<1>5. \A p \in Partitions: p \in Lookup!Parts <=> p < l.world.width[l.man]
  BY <1>4 DEF Lookup!Parts, Lookup!Width
<1>6. pc = "hint" => Lookup!Hint(1) = l.hint[1] /\ l.hint[1] < l.world.width[l.man]
  BY DEF Lookup!Hint, Lookup!Width
<1>7. /\ pc = "fan" => parts = Lookup!Parts
      /\ pc = "hint" => parts = {l.hint[1]}
  BY <1>6
<1> HIDE DEF parts, pc, slots
<1>8. l' \in LookupStates(l.world)
  BY <1>1, <1>2, <1>3 DEF LookupStates
<1>9. /\ l'.pc = pc /\ l'.world = l.world /\ l'.man = l.man /\ l'.hint = l.hint /\ l'.slots = slots /\ l'.serves = l.serves
  BY <1>1 DEF LookupStates
<1>10. HintsRight(l') /\ Settled(l')
  BY <1>9 DEF LookupInv, HintsRight, Settled
<1>11. Polled(l')
  <2> SUFFICES ASSUME NEW p \in Partitions
               PROVE  /\ slots[p] # "idle" => p < l.world.width[l.man]
                      /\ slots[p] # "card" /\ slots[p] # "null"
                      /\ pc = "fan" /\ p < l.world.width[l.man] => slots[p] # "idle"
                      /\ pc = "hint" => slots[p] = IF p = l.hint[1] THEN "out" ELSE "idle"
    BY <1>9 DEF Polled
  <2> QED BY <1>2, <1>3, <1>5, <1>6, <1>7
<1> QED BY <1>1, <1>3, <1>8, <1>9, <1>10, <1>11 DEF LookupInv

LEMMA MinOne ==
    ASSUME NEW x \in Int
    PROVE  Lookup!Min({x}) = x
<1>1. \E y \in {x}: \A z \in {x}: y <= z
  OBVIOUS
<1> QED BY <1>1 DEF Lookup!Min

(* What the partitions that answered decide is right, once they do.        *)
LEMMA Decides ==
    ASSUME WorldsAssumption, NEW s, s.world \in Worlds, s \in LookupStates(s.world), s.pc = "fan", Polled(s),
           s.world.rule \in {"lowest", "sole"}, Lookup!firstDecided(s.slots, s.world.rule) # {},
           NEW r, r = Lookup!Min(Lookup!firstDecided(s.slots, s.world.rule))
    PROVE  /\ r \in Partitions \cup {Lookup!None, Lookup!Failed}
           /\ r # Lookup!Failed /\ SameWidth(s.world) => KeyRight(s.world, 1, r)
<1> DEFINE cards == {p \in Partitions: s.slots[p] = "card"}
           Before(p) == {x \in Partitions: x < p /\ s.slots[x] \in {"out", "error"}}
           first == IF s.world.rule = "sole" THEN cards ELSE {p \in cards: Before(p) = {}}
           fails == s.world.rule = "lowest" /\ \E p \in Partitions: s.slots[p] = "error" /\ Before(p) = {}
           failed == \E p \in Partitions: s.slots[p] = "error"
           out == Lookup!FirstPending(s.slots)
           decided == Lookup!firstDecided(s.slots, s.world.rule)
           H == s.world.keys[1].holders[1]
<1>1. decided = IF first # {} THEN {Lookup!Min(first)}
                ELSE IF fails THEN {Lookup!Failed}
                ELSE IF out # {} THEN {}
                ELSE IF failed THEN {Lookup!Failed} ELSE {Lookup!None}
  BY DEF Lookup!firstDecided
<1>2. /\ Partitions \subseteq Nat /\ s.man \in {1, 2} /\ 1 \in DOMAIN s.world.keys
      /\ s.slots \in [Partitions -> SlotStates]
      /\ \A b \in {1, 2}: s.world.width[b] \in Nat \ {0}
      /\ \A b \in {1, 2}: \A p \in s.world.keys[1].holders[b]: p \in Partitions /\ p < s.world.width[b]
      /\ SameWidth(s.world) /\ InBoth(s.world, 1) => H = s.world.keys[1].holders[2]
      /\ H # {} => Lookup!Min(H) \in H /\ \A p \in H: Lookup!Min(H) <= p
  BY LookupFields, WorldFields
<1>3. \A p \in cards: Somewhere(s.world, 1, p) /\ p \in Nat
  BY <1>2 DEF Polled
<1> HIDE DEF decided, fails
<1>4. CASE first # {}
  <2>1. first \subseteq cards /\ first \subseteq Nat
    BY <1>3
  <2>2. Lookup!Min(first) \in first /\ \A p \in first: Lookup!Min(first) <= p
    <3> HIDE DEF first
    <3> QED BY <1>4, <2>1, Least
  <2>3. r = Lookup!Min(first)
    <3> HIDE DEF first, cards
    <3>1. Lookup!Min(first) \in Int
      <4>1. \A x \in first: x \in Int
        BY <2>1
      <4>2. Lookup!Min(first) \in first
        BY <2>2
      <4> QED BY <4>1, <4>2
    <3>2. decided = {Lookup!Min(first)}
      BY <1>1, <1>4
    <3>3. Lookup!Min({Lookup!Min(first)}) = Lookup!Min(first)
      BY <3>1, MinOne
    <3> QED BY <3>2, <3>3 DEF decided
  <2>4. r \in first /\ r \in cards /\ r \in Partitions /\ r \in Nat
    BY <1>2, <2>1, <2>2, <2>3
  <2>5. r # Lookup!None /\ ~InNeither(s.world, 1)
    BY <1>3, <2>4 DEF Somewhere, InNeither, Lookup!None
  <2>6. ASSUME SameWidth(s.world), InBoth(s.world, 1)
        PROVE  r = Lookup!Min(H)
    <3> DEFINE h == Lookup!Min(H)
    <3>1. H # {} /\ \A b \in Lookup!Builds: s.world.keys[1].holders[b] = H
      BY <1>2, <2>6 DEF InBoth, Lookup!Builds
    <3>2. r \in H /\ h \in H /\ h <= r /\ h \in Nat /\ h \in Partitions
      BY <1>2, <1>3, <2>4, <3>1 DEF Somewhere
    <3> HIDE DEF h, H
    <3>3. CASE s.world.rule = "sole"
      <4>1. \A x, y \in H: x = y
        BY <3>3 DEF WorldsAssumption, Lookup!Builds, H
      <4> QED BY <3>2, <4>1 DEF h
    <3>4. CASE s.world.rule = "lowest"
      <4>1. Before(r) = {}
        BY <2>4, <3>4
      <4>2. h < r => h \in first
        <5> SUFFICES ASSUME h < r PROVE h \in first
          OBVIOUS
        <5>1. s.slots[h] \notin {"out", "error"}
          BY <3>2, <4>1
        <5>2. h < s.world.width[s.man]
          BY <1>2, <2>6, <3>2 DEF SameWidth, H
        <5>3. s.slots[h] \notin {"idle", "null"}
          BY <3>1, <3>2, <5>2 DEF Polled
        <5>4. h \in cards
          BY <1>2, <3>2, <5>1, <5>3 DEF SlotStates
        <5>5. Before(h) = {}
          <6> SUFFICES ASSUME NEW x \in Partitions, x < h, s.slots[x] \in {"out", "error"} PROVE FALSE
            OBVIOUS
          <6>1. x < r
            BY <1>2, <2>4, <3>2
          <6> QED BY <4>1, <6>1
        <5> QED BY <3>4, <5>4, <5>5
      <4>3. ~(h < r)
        <5>1. h \in first => r <= h
          <6> HIDE DEF first, cards
          <6> QED BY <2>2, <2>3
        <5>2. h \in Nat /\ r \in Nat
          BY <2>4, <3>2
        <5> HIDE DEF first, cards
        <5> QED BY <4>2, <5>1, <5>2
      <4> QED BY <2>4, <3>2, <4>3 DEF h
    <3> QED BY <3>3, <3>4 DEF h, H
  <2> QED BY <2>4, <2>5, <2>6 DEF KeyRight
<1>5. CASE first = {} /\ (fails \/ (out = {} /\ failed))
  <2>1. decided = {Lookup!Failed}
    <3>1. fails => decided = {Lookup!Failed}
      BY <1>1, <1>5
    <3>2. ~fails => decided = {Lookup!Failed}
      BY <1>1, <1>5
    <3> QED BY <3>1, <3>2
  <2>2. Lookup!Failed \in Int
    BY DEF Lookup!Failed
  <2>3. r = Lookup!Failed
    BY <2>1, <2>2, MinOne DEF decided
  <2> QED BY <2>3
<1>6. CASE first = {} /\ ~fails /\ out = {} /\ ~failed
  <2>1. decided = {Lookup!None}
    BY <1>1, <1>6
  <2>2. Lookup!None \in Int
    BY DEF Lookup!None
  <2>3. r = Lookup!None
    BY <2>1, <2>2, MinOne DEF decided
  <2>4. \A p \in Partitions: s.slots[p] \notin {"out", "error"}
    BY <1>6 DEF Lookup!FirstPending
  <2>5. cards = {}
    BY <1>6, <2>4
  <2>6. SameWidth(s.world) => ~InBoth(s.world, 1)
    <3> SUFFICES ASSUME SameWidth(s.world), InBoth(s.world, 1) PROVE FALSE
      OBVIOUS
    <3>1. H # {} /\ \A b \in Lookup!Builds: s.world.keys[1].holders[b] = H
      BY <1>2 DEF InBoth, Lookup!Builds
    <3>2. PICK h \in H: TRUE
      BY <3>1
    <3>3. h \in Partitions /\ h < s.world.width[s.man]
      BY <1>2, <3>2 DEF SameWidth
    <3>4. s.slots[h] \in {"idle", "null"}
      BY <1>2, <2>4, <2>5, <3>3 DEF SlotStates
    <3> QED BY <3>1, <3>2, <3>3, <3>4 DEF Polled
  <2> QED BY <2>3, <2>6 DEF KeyRight
<1>7. CASE first = {} /\ ~fails /\ out # {}
  BY <1>1, <1>7 DEF decided
<1> HIDE DEF first, out, failed
<1> QED BY <1>4, <1>5, <1>6, <1>7

(* One key's partition answers.                                            *)
LEMMA LookupReplies ==
    ASSUME WorldsAssumption, LookupInv(l), NEW p \in Partitions, Lookup!Reply(p)
    PROVE  LookupInv(l')
<1>1. PICK how \in {IF Lookup!Holds(p, l.serves[p], 1) THEN "card" ELSE "null", "error"}:
        LET slots == [l.slots EXCEPT ![p] = how]
            decided == Lookup!firstDecided(slots, l.world.rule)
        IN  /\ l.slots[p] = "out"
            /\ \/ l.pc = "hint" /\ how = "card" /\ l' = Lookup!Done(l, p)
               \/ l.pc = "hint" /\ how = "error" /\ l' = Lookup!Done(l, Lookup!Failed)
               \/ /\ l.pc = "hint" /\ how = "null"
                  /\ l' = IF Lookup!Parts = {p} THEN Lookup!Done(l, Lookup!None)
                          ELSE [l EXCEPT !.pc = "fan", !.slots = Lookup!Out(Lookup!Parts \ {p})]
               \/ l.pc = "fan" /\ l' = IF decided = {} THEN [l EXCEPT !.slots = slots] ELSE Lookup!Done(l, Lookup!Min(decided))
  BY DEF Lookup!Reply
<1>2. /\ l.world \in Worlds /\ l \in LookupStates(l.world) /\ l.pc \in {"hint", "fan"}
      /\ l.world.rule \in {"lowest", "sole"} /\ Polled(l) /\ HintsRight(l) /\ Settled(l)
  BY <1>1 DEF LookupInv
<1>3. /\ Partitions \subseteq Nat /\ l.man \in {1, 2} /\ 1 \in DOMAIN l.world.keys /\ l.slots \in [Partitions -> SlotStates]
      /\ \A b \in {1, 2}: l.world.width[b] \in Nat \ {0} /\ l.serves[p] \in {1, 2}
      /\ \A b \in {1, 2}: \A x \in l.world.keys[1].holders[b]: x \in Partitions /\ x < l.world.width[b]
      /\ SameWidth(l.world) /\ InBoth(l.world, 1) => l.world.keys[1].holders[1] = l.world.keys[1].holders[2]
  BY <1>2, LookupFields, WorldFields
<1>4. /\ how = "card" => p \in l.world.keys[1].holders[l.serves[p]]
      /\ how = "null" => p \notin l.world.keys[1].holders[l.serves[p]]
  BY DEF Lookup!Holds
<1>5. \A x \in Partitions: x \in Lookup!Parts <=> x < l.world.width[l.man]
  BY <1>3 DEF Lookup!Parts, Lookup!Width
<1>6. p # Lookup!None /\ p # Lookup!Failed /\ Lookup!None # Lookup!Failed
  BY <1>3 DEF Lookup!None, Lookup!Failed
<1>7. CASE l.pc = "hint" /\ how = "card" /\ l' = Lookup!Done(l, p)
  <2>1. p = l.hint[1]
    BY <1>1, <1>7, <1>2 DEF Polled
  <2>2. ~InNeither(l.world, 1)
    BY <1>3, <1>4, <1>7 DEF InNeither, Lookup!Builds
  <2>3. ASSUME SameWidth(l.world), InBoth(l.world, 1) PROVE p = Lookup!Min(l.world.keys[1].holders[1])
    <3>1. l.world.keys[1].holders[l.man] # {} /\ l.world.keys[1].holders[l.man] = l.world.keys[1].holders[1]
      BY <1>3, <2>3 DEF InBoth, Lookup!Builds
    <3> QED BY <1>2, <1>3, <1>6, <2>1, <3>1 DEF HintsRight
  <2>4. SameWidth(l.world) => KeyRight(l.world, 1, p)
    BY <1>6, <2>2, <2>3 DEF KeyRight
  <2> QED BY <1>2, <1>7, <2>4, LookupOver
<1>8. CASE l.pc = "hint" /\ how = "error" /\ l' = Lookup!Done(l, Lookup!Failed)
  BY <1>8, LookupOver
<1>9. CASE l.pc = "hint" /\ how = "null" /\ Lookup!Parts = {p} /\ l' = Lookup!Done(l, Lookup!None)
  <2>1. SameWidth(l.world) => ~InBoth(l.world, 1)
    <3> SUFFICES ASSUME SameWidth(l.world), InBoth(l.world, 1) PROVE FALSE
      OBVIOUS
    <3>1. PICK x \in l.world.keys[1].holders[l.serves[p]]: TRUE
      BY <1>3 DEF InBoth, Lookup!Builds
    <3>2. x \in Partitions /\ x < l.world.width[l.man]
      BY <1>3, <3>1 DEF SameWidth
    <3> QED BY <1>4, <1>5, <1>9, <3>1, <3>2
  <2>2. SameWidth(l.world) => KeyRight(l.world, 1, Lookup!None)
    BY <2>1 DEF KeyRight
  <2> QED BY <1>2, <1>9, <2>2, LookupOver
<1>10. CASE l.pc = "hint" /\ how = "null" /\ l' = [l EXCEPT !.pc = "fan", !.slots = Lookup!Out(Lookup!Parts \ {p})]
  <2> DEFINE slots == Lookup!Out(Lookup!Parts \ {p})
  <2>1. slots \in [Partitions -> SlotStates] /\ \A x \in Partitions: slots[x] = IF x \in Lookup!Parts \ {p} THEN "out" ELSE "idle"
    BY DEF Lookup!Out, SlotStates
  <2> HIDE DEF slots
  <2>2. l' \in LookupStates(l.world)
    BY <1>2, <1>10, <2>1 DEF LookupStates, slots
  <2>3. /\ l'.pc = "fan" /\ l'.world = l.world /\ l'.man = l.man /\ l'.hint = l.hint /\ l'.slots = slots /\ l'.serves = l.serves
    BY <1>2, <1>10 DEF LookupStates, slots
  <2>4. HintsRight(l') /\ Settled(l')
    BY <1>2, <2>3 DEF HintsRight, Settled
  <2>5. Polled(l')
    <3> SUFFICES ASSUME NEW x \in Partitions
                 PROVE  /\ slots[x] # "idle" => x < l.world.width[l.man]
                        /\ slots[x] # "card"
                        /\ x < l.world.width[l.man] /\ slots[x] \in {"idle", "null"} =>
                             \E b \in Lookup!Builds: x \notin l.world.keys[1].holders[b]
      BY <2>3 DEF Polled
    <3> QED BY <1>3, <1>4, <1>5, <1>10, <2>1 DEF Lookup!Builds
  <2> QED BY <1>2, <2>2, <2>3, <2>4, <2>5 DEF LookupInv
<1>11. CASE l.pc = "fan"
  <2> DEFINE slots == [l.slots EXCEPT ![p] = how]
             decided == Lookup!firstDecided(slots, l.world.rule)
             s == [l EXCEPT !.slots = slots]
  <2>1. slots \in [Partitions -> SlotStates] /\ \A x \in Partitions: slots[x] = IF x = p THEN how ELSE l.slots[x]
    BY <1>3 DEF SlotStates
  <2>2. l' = IF decided = {} THEN s ELSE Lookup!Done(l, Lookup!Min(decided))
    BY <1>1, <1>11
  <2> HIDE DEF slots
  <2>3. s \in LookupStates(l.world)
    BY <1>2, <2>1 DEF LookupStates
  <2>4. /\ s.pc = "fan" /\ s.world = l.world /\ s.man = l.man /\ s.hint = l.hint /\ s.slots = slots /\ s.serves = l.serves
    BY <1>2, <1>11 DEF LookupStates
  <2> HIDE DEF s
  <2>5. Polled(s)
    <3> SUFFICES ASSUME NEW x \in Partitions
                 PROVE  /\ slots[x] # "idle" => x < l.world.width[l.man]
                        /\ slots[x] = "card" => Somewhere(l.world, 1, x)
                        /\ x < l.world.width[l.man] /\ slots[x] \in {"idle", "null"} =>
                             \E b \in Lookup!Builds: x \notin l.world.keys[1].holders[b]
      BY <2>4 DEF Polled
    <3>1. CASE x = p
      BY <1>1, <1>2, <1>3, <1>4, <2>1, <3>1 DEF Polled, Somewhere, Lookup!Builds
    <3>2. CASE x # p
      BY <1>2, <1>11, <2>1, <3>2 DEF Polled
    <3> QED BY <3>1, <3>2
  <2>6. HintsRight(s) /\ Settled(s)
    BY <1>2, <2>4 DEF HintsRight, Settled
  <2>7. LookupInv(s)
    BY <1>2, <2>3, <2>4, <2>5, <2>6 DEF LookupInv
  <2>8. CASE decided = {}
    BY <2>2, <2>7, <2>8
  <2>9. CASE decided # {}
    <3>1. /\ Lookup!Min(decided) \in Partitions \cup {Lookup!None, Lookup!Failed}
          /\ Lookup!Min(decided) # Lookup!Failed /\ SameWidth(l.world) => KeyRight(l.world, 1, Lookup!Min(decided))
      BY <1>2, <2>3, <2>4, <2>5, <2>9, Decides
    <3> HIDE DEF decided
    <3> QED BY <1>2, <2>2, <2>9, <3>1, LookupOver
  <2> QED BY <2>8, <2>9
<1> QED BY <1>1, <1>7, <1>8, <1>9, <1>10, <1>11

(* A round begun leaves a state of a lookup.                               *)
LEMMA RoundBegun ==
    ASSUME NEW world, NEW s \in LookupStates(world), NEW slots \in [Partitions -> SlotStates],
           NEW asked \in SUBSET Partitions, NEW round \in 0..3
    PROVE  [s EXCEPT !.pc = "round", !.round = round, !.slots = slots, !.asked = asked] \in LookupStates(world)
<1>1. [s EXCEPT !.pc = "round", !.round = round] \in LookupStates(world)
  BY DEF LookupStates
<1> DEFINE begun == [s EXCEPT !.pc = "round", !.round = round]
<1> HIDE DEF begun
<1>2. [begun EXCEPT !.slots = slots, !.asked = asked] \in LookupStates(world)
  BY <1>1 DEF LookupStates, begun
<1>3. [begun EXCEPT !.slots = slots, !.asked = asked]
      = [s EXCEPT !.pc = "round", !.round = round, !.slots = slots, !.asked = asked]
  BY DEF begun, LookupStates
<1> QED BY <1>2, <1>3

(* Partitions are called for a batch.                                      *)
LEMMA Asked ==
    ASSUME NEW s, s.world \in Worlds, s \in LookupStates(s.world), s.world.rule = "batch", HintsRight(s), Settled(s),
           NEW round \in 1..3, NEW parts \in SUBSET Partitions, l' = Lookup!AskRound(s, round, parts)
    PROVE  /\ l'.world = s.world /\ l'.man = s.man /\ l'.serves = s.serves /\ l'.behind = s.behind /\ l'.found = s.found
           /\ l'.round = round /\ l'.asked = s.asked \cup parts
           /\ \A p \in Partitions: l'.slots[p] = IF p \in parts THEN "out" ELSE "idle"
           /\ Merged(l') => LookupInv(l')
<1> DEFINE slots == Lookup!Out(parts)
<1>1. l' = [s EXCEPT !.pc = "round", !.round = round, !.slots = slots, !.asked = s.asked \cup parts]
  BY DEF Lookup!AskRound
<1>2. slots \in [Partitions -> SlotStates] /\ \A p \in Partitions: slots[p] = IF p \in parts THEN "out" ELSE "idle"
  BY DEF Lookup!Out, SlotStates
<1>3. s.asked \cup parts \in SUBSET Partitions /\ round \in 0..3
  BY LookupFields
<1> HIDE DEF slots
<1> DEFINE asked == s.asked \cup parts
<1>4. l' \in LookupStates(s.world)
  <2> HIDE DEF asked
  <2>1. l' = [s EXCEPT !.pc = "round", !.round = round, !.slots = slots, !.asked = asked]
    BY <1>1 DEF asked
  <2>2. asked \in SUBSET Partitions
    BY <1>3 DEF asked
  <2>3. slots \in [Partitions -> SlotStates] /\ round \in 0..3
    BY <1>2, <1>3
  <2>4. [s EXCEPT !.pc = "round", !.round = round, !.slots = slots, !.asked = asked] \in LookupStates(s.world)
    BY ONLY <2>2, <2>3, s \in LookupStates(s.world), RoundBegun
  <2> QED BY <2>1, <2>4
<1>5. /\ l'.world = s.world /\ l'.man = s.man /\ l'.serves = s.serves /\ l'.behind = s.behind /\ l'.found = s.found
      /\ l'.round = round /\ l'.asked = s.asked \cup parts /\ l'.slots = slots /\ l'.pc = "round" /\ l'.hint = s.hint
  BY <1>1 DEF LookupStates
<1>6. HintsRight(l') /\ Settled(l')
  BY <1>5 DEF HintsRight, Settled
<1> QED BY <1>2, <1>4, <1>5, <1>6 DEF LookupInv

(* The first calls of a batch reach whoever is known to hold a key.        *)
LEMMA BatchStarts ==
    ASSUME WorldsAssumption, LookupInv(l), Lookup!scryfallCollectionBatch
    PROVE  LookupInv(l')
<1> DEFINE targets == {Lookup!targetOf(i, Lookup!Width) : i \in Lookup!Keys}
           everywhere == Lookup!None \in targets
           parts == IF everywhere THEN Lookup!Parts ELSE targets
           s == [l EXCEPT !.everywhere = everywhere]
<1>1. l.pc = "start" /\ l.world.rule = "batch" /\ l' = Lookup!AskRound(s, 1, parts)
  BY DEF Lookup!scryfallCollectionBatch
<1>2. /\ l.world \in Worlds /\ l \in LookupStates(l.world) /\ HintsRight(l) /\ Settled(l)
      /\ l.asked = {} /\ \A i \in DOMAIN l.world.keys: l.found[i] = Lookup!None
  BY <1>1 DEF LookupInv
<1>3. /\ Partitions \subseteq Nat /\ l.man \in {1, 2} /\ Lookup!Width = l.world.width[l.man]
      /\ l.hint \in [DOMAIN l.world.keys -> Partitions \cup {Lookup!None}]
      /\ \A b \in {1, 2}: l.world.width[b] \in Nat \ {0} /\ \A p \in Nat: p < l.world.width[b] => p \in Partitions
  BY <1>2, LookupFields, WorldFields DEF Lookup!Width
<1>4. \A p \in Nat: p \in Lookup!Parts <=> p < l.world.width[l.man]
  BY <1>3 DEF Lookup!Parts
<1>5. ASSUME NEW i \in DOMAIN l.world.keys
      PROVE  /\ Lookup!targetOf(i, Lookup!Width) \in Partitions \cup {Lookup!None}
             /\ l.world.keys[i].kind = "oracle" => Lookup!targetOf(i, Lookup!Width) = Home(l.world, i, l.man)
             /\ l.world.keys[i].kind # "oracle" /\ Lookup!targetOf(i, Lookup!Width) # Lookup!None =>
                  Lookup!targetOf(i, Lookup!Width) = l.hint[i]
  <2>1. CASE l.world.keys[i].kind = "oracle"
    BY <1>2, <1>3, <2>1, WorldFields DEF Lookup!targetOf, Home
  <2>2. CASE l.world.keys[i].kind # "oracle"
    BY <1>3, <2>2 DEF Lookup!targetOf, Lookup!Hint
  <2> QED BY <2>1, <2>2
<1>6. parts \subseteq Partitions
  <2>1. Lookup!Parts \subseteq Partitions
    BY <1>3 DEF Lookup!Parts
  <2>2. ~everywhere => targets \subseteq Partitions
    BY <1>5 DEF Lookup!Keys
  <2> QED BY <2>1, <2>2
<1>7. everywhere => parts = Lookup!Parts
  OBVIOUS
<1>8. \A i \in DOMAIN l.world.keys: ~everywhere =>
        Lookup!targetOf(i, Lookup!Width) \in parts /\ Lookup!targetOf(i, Lookup!Width) # Lookup!None
  BY DEF Lookup!Keys
<1>9. everywhere \in BOOLEAN
  OBVIOUS
<1> HIDE DEF everywhere, parts, targets
<1>10. /\ s.world = l.world /\ s.man = l.man /\ s.serves = l.serves /\ s.found = l.found /\ s.hint = l.hint
       /\ s.asked = l.asked /\ s.behind = l.behind
  BY <1>2 DEF LookupStates
<1>11. s \in LookupStates(s.world)
  BY <1>2, <1>9 DEF LookupStates
<1> HIDE DEF s
<1>12. HintsRight(s) /\ Settled(s)
  BY <1>2, <1>10 DEF HintsRight, Settled
<1>13. /\ l'.world = l.world /\ l'.man = l.man /\ l'.serves = l.serves /\ l'.behind = l.behind /\ l'.found = l.found
       /\ l'.round = 1 /\ l'.asked = parts
       /\ \A p \in Partitions: l'.slots[p] = IF p \in parts THEN "out" ELSE "idle"
       /\ Merged(l') => LookupInv(l')
  <2>1. s.world \in Worlds /\ s.world.rule = "batch" /\ 1 \in 1..3 /\ s.asked \cup parts = parts
    BY <1>1, <1>2, <1>10
  <2>2. parts \in SUBSET Partitions
    BY <1>6
  <2>3. /\ l'.world = s.world /\ l'.man = s.man /\ l'.serves = s.serves /\ l'.behind = s.behind /\ l'.found = s.found
        /\ l'.round = 1 /\ l'.asked = s.asked \cup parts
        /\ \A p \in Partitions: l'.slots[p] = IF p \in parts THEN "out" ELSE "idle"
        /\ Merged(l') => LookupInv(l')
    BY <1>1, <1>11, <1>12, <2>1, <2>2, Asked
  <2> QED BY <1>10, <2>1, <2>3
<1>14. ASSUME NEW i \in DOMAIN l.world.keys, SameWidth(l.world), InBoth(l.world, i) PROVE FoundFirst(l', i)
  <2> DEFINE first == Lookup!Min(l.world.keys[i].holders[1])
  <2>1. first \in l.world.keys[i].holders[1] /\ first \in Partitions /\ first \in Nat /\ first < l.world.width[1]
    BY <1>2, <1>3, <1>14, WorldFields DEF InBoth, Lookup!Builds
  <2>2. l.world.width[l.man] = l.world.width[1] /\ l.world.keys[i].holders[l.man] = l.world.keys[i].holders[1]
    BY <1>2, <1>3, <1>14, WorldFields DEF SameWidth
  <2>3. first \in parts
    <3>1. CASE everywhere
      BY <1>4, <1>7, <2>1, <2>2, <3>1
    <3>2. CASE ~everywhere /\ l.world.keys[i].kind = "oracle"
      <4>1. first = Home(l.world, i, 1) /\ Home(l.world, i, 1) = Home(l.world, i, l.man)
        BY <1>2, <2>1, <2>2, <3>2, WorldFields DEF Home
      <4> QED BY <1>5, <1>8, <3>2, <4>1
    <3>3. CASE ~everywhere /\ l.world.keys[i].kind # "oracle"
      <4>1. l.hint[i] = first
        BY <1>2, <1>5, <1>8, <2>1, <2>2, <3>3 DEF HintsRight
      <4> QED BY <1>5, <1>8, <3>3, <4>1
    <3> QED BY <3>1, <3>2, <3>3
  <2>4. l'.slots[first] # "idle" /\ \A p \in Partitions: l'.slots[p] # "null"
    BY <1>13, <2>1, <2>3
  <2> QED BY <1>2, <1>13, <2>4 DEF FoundFirst
<1>15. ASSUME NEW i \in DOMAIN l.world.keys, l.world.keys[i].kind = "oracle" PROVE FoundMoved(l', i)
  <2>1. Home(l.world, i, l.man) \in Partitions /\ Home(l.world, i, l.man) < l.world.width[l.man]
    BY <1>2, <1>3, <1>15, WorldFields
  <2>2. Home(l.world, i, l.man) \in parts
    BY <1>3, <1>4, <1>5, <1>7, <1>8, <1>15, <2>1
  <2>3. l'.slots[Home(l.world, i, l.man)] # "idle" /\ \A p \in Partitions: l'.slots[p] # "null"
    BY <1>13, <2>1, <2>2
  <2>4. \A p \in l'.asked: l'.slots[p] # "idle"
    BY <1>6, <1>13
  <2> QED BY <1>13, <2>3, <2>4 DEF FoundMoved
<1>16. \A p \in Partitions: l'.slots[p] \in {"idle", "out", "null"}
  BY <1>13
<1>17. Merged(l')
  BY <1>2, <1>13, <1>14, <1>15, <1>16 DEF Merged
<1> QED BY <1>13, <1>17

(* A partition answers a batch.                                            *)
LEMMA BatchReplies ==
    ASSUME WorldsAssumption, LookupInv(l), NEW p \in Partitions, Lookup!BatchReply(p)
    PROVE  LookupInv(l')
<1> DEFINE slots == [l.slots EXCEPT ![p] = "null"]
           Better(i) == /\ Lookup!Holds(p, l.serves[p], i)
                        /\ l.found[i] = Lookup!None \/ (l.found[i] > p /\ l.slots[l.found[i]] # "idle")
           found == [i \in Lookup!Keys |-> IF Better(i) THEN p ELSE l.found[i]]
<1>1. /\ l.pc = "round" /\ l.slots[p] = "out"
      /\ l' = Lookup!Done(l, Lookup!Failed) \/ l' = [l EXCEPT !.slots = slots, !.found = found]
  <2>1. l \in LookupStates(l.world)
    BY DEF LookupInv
  <2> QED BY <2>1 DEF Lookup!BatchReply, LookupStates
<1>2. CASE l' = Lookup!Done(l, Lookup!Failed)
  BY <1>2, LookupOver
<1>3. CASE l' = [l EXCEPT !.slots = slots, !.found = found]
  <2>1. /\ l.world \in Worlds /\ l \in LookupStates(l.world) /\ HintsRight(l) /\ Settled(l)
        /\ l.world.rule = "batch" /\ Merged(l)
    BY <1>1 DEF LookupInv
  <2>2. /\ Partitions \subseteq Nat /\ l.man \in {1, 2} /\ l.serves[p] \in {1, 2} /\ l.slots \in [Partitions -> SlotStates]
        /\ l.found \in [DOMAIN l.world.keys -> Partitions \cup {Lookup!None}] /\ p # Lookup!None /\ p \in Nat
    BY <2>1, LookupFields, WorldFields DEF Lookup!None
  <2>3. slots \in [Partitions -> SlotStates] /\ \A x \in Partitions: slots[x] = IF x = p THEN "null" ELSE l.slots[x]
    BY <2>2 DEF SlotStates
  <2>4. /\ found \in [DOMAIN l.world.keys -> Partitions \cup {Lookup!None}]
        /\ \A i \in DOMAIN l.world.keys: found[i] = IF Better(i) THEN p ELSE l.found[i]
    <3> HIDE DEF Better
    <3> QED BY <2>2 DEF Lookup!Keys
  <2>5. \A i: Lookup!Holds(p, l.serves[p], i) <=> p \in l.world.keys[i].holders[l.serves[p]]
    BY DEF Lookup!Holds
  <2> HIDE DEF slots, found
  <2>6. l' \in LookupStates(l.world)
    BY <1>3, <2>1, <2>3, <2>4 DEF LookupStates
  <2>7. /\ l'.world = l.world /\ l'.man = l.man /\ l'.hint = l.hint /\ l'.serves = l.serves /\ l'.behind = l.behind
        /\ l'.round = l.round /\ l'.asked = l.asked /\ l'.pc = "round" /\ l'.slots = slots /\ l'.found = found
    BY <1>1, <1>3, <2>1 DEF LookupStates
  <2>8. HintsRight(l') /\ Settled(l')
    BY <2>1, <2>7 DEF HintsRight, Settled
  <2>9. ASSUME NEW i \in DOMAIN l.world.keys, found[i] # Lookup!None PROVE Somewhere(l.world, i, found[i])
    <3>1. CASE Better(i)
      BY <2>2, <2>4, <2>5, <3>1 DEF Somewhere, Lookup!Builds
    <3>2. CASE ~Better(i)
      <4> HIDE DEF Better
      <4> QED BY <2>1, <2>4, <2>9, <3>2 DEF Merged
    <3> QED BY <3>1, <3>2
  <2>10. ASSUME NEW i \in DOMAIN l.world.keys, SameWidth(l.world), InBoth(l.world, i) PROVE FoundFirst(l', i)
    <3> DEFINE H == l.world.keys[i].holders[1]
               first == Lookup!Min(H)
    <3>1. /\ first \in H /\ first \in Partitions /\ first \in Nat /\ H \subseteq Nat /\ \A x \in H: first <= x
          /\ l.world.keys[i].holders[l.serves[p]] = H
      BY <2>1, <2>2, <2>10, WorldFields DEF InBoth, Lookup!Builds
    <3>2. FoundFirst(l, i)
      BY <2>1, <2>10 DEF Merged
    <3>3. Lookup!Holds(p, l.serves[p], i) <=> p \in H
      BY <2>5, <3>1
    <3>4. first # Lookup!None /\ (l.found[i] = Lookup!None \/ l.found[i] \in Nat)
      <4>1. \A x \in Nat: x # Lookup!None
        BY DEF Lookup!None
      <4> HIDE DEF first
      <4> QED BY <2>2, <3>1, <4>1
    <3> HIDE DEF H
    <3>5. ASSUME l.round = 1
          PROVE  /\ slots[first] # "idle"
                 /\ found[i] # Lookup!None => slots[found[i]] # "idle"
                 /\ \A x \in Partitions: slots[x] = "null" /\ x \in H => found[i] # Lookup!None /\ found[i] <= x
      <4>1. /\ l.slots[first] # "idle"
            /\ l.found[i] # Lookup!None => l.slots[l.found[i]] # "idle"
            /\ \A x \in Partitions: l.slots[x] = "null" /\ x \in H => l.found[i] # Lookup!None /\ l.found[i] <= x
        BY <3>2, <3>5 DEF FoundFirst, H
      <4> HIDE DEF first
      <4>2. slots[first] # "idle"
        BY <2>3, <3>1, <4>1
      <4>3. found[i] # Lookup!None => slots[found[i]] # "idle"
        BY <2>2, <2>3, <2>4, <4>1
      <4>4. ASSUME NEW x \in Partitions, slots[x] = "null", x \in H PROVE found[i] # Lookup!None /\ found[i] <= x
        <5>1. CASE Better(i)
          <6>1. found[i] = p
            BY <2>4, <5>1
          <6>2. x # p => p <= x
            BY <2>2, <2>3, <3>4, <4>1, <4>4, <5>1
          <6> QED BY <2>2, <6>1, <6>2
        <5>2. CASE ~Better(i)
          <6>1. found[i] = l.found[i]
            BY <2>4, <5>2
          <6>2. CASE x = p
            <7>1. l.found[i] # Lookup!None /\ ~(l.found[i] > p)
              BY <3>3, <4>1, <4>4, <5>2, <6>2
            <7> QED BY <2>2, <3>4, <6>1, <6>2, <7>1
          <6>3. CASE x # p
            BY <2>3, <4>1, <4>4, <6>1, <6>3
          <6> QED BY <6>2, <6>3
        <5> QED BY <5>1, <5>2
      <4> QED BY <4>2, <4>3, <4>4
    <3>6. ASSUME l.round \in {2, 3} PROVE found[i] = first
      <4>1. l.found[i] = first
        BY <3>2, <3>6 DEF FoundFirst, H
      <4>2. ~Better(i)
        <5>1. p \in H => first <= p
          BY <3>1
        <5> HIDE DEF first
        <5> QED BY <2>2, <3>1, <3>3, <3>4, <4>1, <5>1
      <4> HIDE DEF first
      <4> QED BY <2>4, <4>1, <4>2
    <3> QED BY <2>7, <3>5, <3>6 DEF FoundFirst, H
  <2>11. ASSUME NEW i \in DOMAIN l.world.keys, FoundMoved(l, i), Home(l.world, i, l.man) \in Partitions,
                Home(l.world, i, 2) \in Partitions
         PROVE  FoundMoved(l', i)
    <3>1. l.found[i] # Lookup!None => found[i] # Lookup!None
      BY <2>2, <2>4
    <3>2. p \in l.world.keys[i].holders[l.serves[p]] => found[i] # Lookup!None
      BY <2>2, <2>4, <2>5
    <3> HIDE DEF Better
    <3>3. \A x \in Partitions: slots[x] = "null" /\ x \in l.world.keys[i].holders[l.serves[x]] => found[i] # Lookup!None
      BY <2>3, <2>11, <3>1, <3>2 DEF FoundMoved
    <3>4. \A x \in Partitions: l.slots[x] # "idle" => slots[x] # "idle"
      BY <2>3
    <3>5. l.asked \subseteq Partitions
      BY <2>1, LookupFields
    <3> QED BY <2>7, <2>11, <3>1, <3>3, <3>4, <3>5 DEF FoundMoved
  <2>12. Merged(l')
    <3>1. \A x \in Partitions: slots[x] \in {"idle", "out", "null"}
      BY <2>1, <2>3 DEF Merged
    <3>2. ASSUME NEW i \in DOMAIN l.world.keys, ~SameWidth(l.world), InBoth(l.world, i), l.world.keys[i].kind = "oracle"
          PROVE  FoundMoved(l', i)
      <4>1. FoundMoved(l, i)
        BY <2>1, <3>2 DEF Merged
      <4>2. Home(l.world, i, l.man) \in Partitions /\ Home(l.world, i, 2) \in Partitions
        BY <2>1, <2>2, <3>2, WorldFields
      <4> QED BY <2>11, <4>1, <4>2
    <3>3. l.round \in 1..3
      BY <2>1 DEF Merged
    <3> QED BY <2>7, <2>9, <2>10, <3>1, <3>2, <3>3 DEF Merged
  <2> QED BY <2>1, <2>6, <2>7, <2>8, <2>12 DEF LookupInv
<1> QED BY <1>1, <1>2, <1>3

(* A batch of which every call came back, for the provers.                 *)
LEMMA BatchFields ==
    ASSUME WorldsAssumption, LookupInv(l), Lookup!RoundOver
    PROVE  /\ l.world \in Worlds /\ l \in LookupStates(l.world) /\ HintsRight(l) /\ Settled(l)
           /\ l.world.rule = "batch" /\ Merged(l) /\ l.pc = "round"
           /\ Partitions \subseteq Nat /\ l.man \in {1, 2} /\ l.asked \subseteq Partitions /\ l.round \in 1..3
           /\ Lookup!Width = l.world.width[l.man] /\ Lookup!Parts \subseteq Partitions
           /\ \A p \in Partitions: l.slots[p] \in {"idle", "null"}
           /\ \A i \in DOMAIN l.world.keys: l.found[i] = Lookup!None \/ l.found[i] \in Partitions
           /\ \A p \in Partitions: p # Lookup!None
<1>1. /\ l.world \in Worlds /\ l \in LookupStates(l.world) /\ HintsRight(l) /\ Settled(l)
      /\ l.world.rule = "batch" /\ Merged(l) /\ l.pc = "round"
  BY DEF LookupInv, Lookup!RoundOver
<1>2. /\ Partitions \subseteq Nat /\ l.man \in {1, 2} /\ l.asked \subseteq Partitions /\ Lookup!Width = l.world.width[l.man]
      /\ l.found \in [DOMAIN l.world.keys -> Partitions \cup {Lookup!None}]
      /\ \A b \in {1, 2}: l.world.width[b] \in Nat \ {0} /\ \A p \in Nat: p < l.world.width[b] => p \in Partitions
  BY <1>1, LookupFields, WorldFields DEF Lookup!Width
<1>3. Lookup!Parts \subseteq Partitions
  BY <1>2 DEF Lookup!Parts
<1>4. l.round \in 1..3 /\ \A p \in Partitions: l.slots[p] \in {"idle", "null"}
  BY <1>1 DEF Merged, Lookup!RoundOver, Lookup!FirstPending
<1>5. \A p \in Partitions: p # Lookup!None
  BY <1>2 DEF Lookup!None
<1> QED BY <1>1, <1>2, <1>3, <1>4, <1>5

(* An oracle id that both builds have is found by whoever owns it in the   *)
(* build served, if that partition was asked.                              *)
LEMMA OwnerFinds ==
    ASSUME WorldsAssumption, LookupInv(l), Lookup!RoundOver, NEW i \in DOMAIN l.world.keys, ~SameWidth(l.world),
           InBoth(l.world, i), l.world.keys[i].kind = "oracle", l.slots[Home(l.world, i, 2)] # "idle"
    PROVE  l.found[i] # Lookup!None
<1> DEFINE o == Home(l.world, i, 2)
<1>1. /\ l.world \in Worlds /\ Settled(l) /\ Merged(l) /\ \A p \in Partitions: l.slots[p] \in {"idle", "null"}
  BY BatchFields
<1>2. o \in Partitions /\ o < l.world.width[2] /\ \A p \in l.world.keys[i].holders[2]: p = o
  BY <1>1, WorldFields
<1>3. l.world.keys[i].holders[2] # {}
  BY DEF InBoth, Lookup!Builds
<1> HIDE DEF o
<1>4. o \in l.world.keys[i].holders[2] /\ l.serves[o] = 2
  BY <1>1, <1>2, <1>3 DEF Settled
<1>5. l.slots[o] = "null"
  BY <1>1, <1>2 DEF o
<1>6. FoundMoved(l, i)
  BY <1>1 DEF Merged
<1> QED BY <1>2, <1>4, <1>5, <1>6 DEF FoundMoved

(* An oracle id nobody had is asked of its owner in the new build.         *)
LEMMA RepairsOracle ==
    ASSUME WorldsAssumption, LookupInv(l), Lookup!repairOracle
    PROVE  LookupInv(l')
<1>1. Lookup!RoundOver /\ l.round = 1
  BY DEF Lookup!repairOracle
<1>2. PICK fresh \in IF Lookup!Missed("oracle") = {} THEN {l.man} ELSE {2, l.man}:
        LET width == l.world.width[fresh]
            owners == {p \in {Lookup!targetOf(i, width) : i \in Lookup!Missed("oracle")}: p >= Lookup!Width \/ p \notin l.asked}
            s == [l EXCEPT !.behind = (fresh = 1)]
        IN  l' = IF width = Lookup!Width \/ owners = {} THEN [s EXCEPT !.round = 2] ELSE Lookup!AskRound(s, 2, owners)
  BY DEF Lookup!repairOracle
<1> DEFINE width == l.world.width[fresh]
           owners == {p \in {Lookup!targetOf(i, width) : i \in Lookup!Missed("oracle")}: p >= Lookup!Width \/ p \notin l.asked}
           s == [l EXCEPT !.behind = (fresh = 1)]
           stays == width = Lookup!Width \/ owners = {}
<1>3. /\ l.world \in Worlds /\ l \in LookupStates(l.world) /\ HintsRight(l) /\ Settled(l)
      /\ l.world.rule = "batch" /\ Merged(l) /\ l.pc = "round"
      /\ Partitions \subseteq Nat /\ l.man \in {1, 2} /\ l.asked \subseteq Partitions
      /\ Lookup!Width = l.world.width[l.man]
      /\ \A p \in Partitions: l.slots[p] \in {"idle", "null"}
      /\ \A i \in DOMAIN l.world.keys: l.found[i] = Lookup!None \/ l.found[i] \in Partitions
  BY <1>1, BatchFields
<1>4. fresh \in {1, 2}
  BY <1>2, <1>3
<1>5. /\ s.world = l.world /\ s.man = l.man /\ s.hint = l.hint /\ s.serves = l.serves /\ s.slots = l.slots
      /\ s.found = l.found /\ s.asked = l.asked /\ s.behind = (fresh = 1) /\ s \in LookupStates(s.world)
  <2>1. (fresh = 1) \in BOOLEAN
    OBVIOUS
  <2> QED BY <1>3, <2>1 DEF LookupStates
<1>6. ASSUME NEW i \in Lookup!Missed("oracle")
      PROVE  /\ i \in DOMAIN l.world.keys /\ l.world.keys[i].kind = "oracle" /\ l.found[i] = Lookup!None
             /\ Lookup!targetOf(i, width) = Home(l.world, i, fresh) /\ Lookup!targetOf(i, width) \in Partitions
  <2>1. i \in DOMAIN l.world.keys /\ l.world.keys[i].kind = "oracle" /\ l.found[i] = Lookup!None
    BY DEF Lookup!Missed, Lookup!Keys
  <2>2. Lookup!targetOf(i, width) = Home(l.world, i, fresh)
    BY <2>1 DEF Lookup!targetOf, Home
  <2> QED BY <1>3, <1>4, <2>1, <2>2, WorldFields
<1>7. owners \in SUBSET Partitions
  BY <1>6
<1>8. l' = IF stays THEN [s EXCEPT !.round = 2] ELSE Lookup!AskRound(s, 2, owners)
  BY <1>2
<1>9. ASSUME NEW i \in DOMAIN l.world.keys, l.world.keys[i].kind = "oracle", l.found[i] = Lookup!None
      PROVE  i \in Lookup!Missed("oracle")
  BY <1>9 DEF Lookup!Missed, Lookup!Keys
<1>10. ASSUME NEW i \in Lookup!Missed("oracle"), ~stays, Home(l.world, i, fresh) \notin owners
       PROVE  Home(l.world, i, fresh) \in l.asked
  BY <1>6, <1>10
<1>11. ASSUME NEW i \in Lookup!Missed("oracle"), owners = {}
       PROVE  Home(l.world, i, fresh) \in l.asked
  BY <1>6, <1>11
<1> HIDE DEF s, owners
<1>12. HintsRight(s) /\ Settled(s)
  BY <1>3, <1>5 DEF HintsRight, Settled
<1>13. /\ l'.world = l.world /\ l'.man = l.man /\ l'.serves = l.serves /\ l'.behind = (fresh = 1) /\ l'.found = l.found
       /\ l'.round = 2
       /\ stays => l'.slots = l.slots
       /\ ~stays => \A p \in Partitions: l'.slots[p] = IF p \in owners THEN "out" ELSE "idle"
       /\ Merged(l') => LookupInv(l')
  <2>1. CASE stays
    <3>1. /\ l' = [s EXCEPT !.round = 2]
      BY <1>8, <2>1
    <3>2. /\ l'.world = l.world /\ l'.man = l.man /\ l'.serves = l.serves /\ l'.behind = (fresh = 1) /\ l'.found = l.found
          /\ l'.round = 2 /\ l'.slots = l.slots /\ l'.hint = l.hint /\ l'.pc = "round" /\ l' \in LookupStates(l.world)
      <4>1. s.pc = "round"
        BY <1>3 DEF s, LookupStates
      <4> QED BY <1>5, <3>1, <4>1 DEF LookupStates
    <3>3. HintsRight(l') /\ Settled(l')
      BY <1>3, <3>2 DEF HintsRight, Settled
    <3> QED BY <1>3, <2>1, <3>2, <3>3 DEF LookupInv
  <2>2. CASE ~stays
    <3>1. s.world \in Worlds /\ s.world.rule = "batch" /\ 2 \in 1..3 /\ l' = Lookup!AskRound(s, 2, owners)
      BY <1>3, <1>5, <1>8, <2>2
    <3>2. s \in LookupStates(s.world)
      BY <1>5
    <3> HIDE DEF stays
    <3>3. /\ l'.world = s.world /\ l'.man = s.man /\ l'.serves = s.serves /\ l'.behind = s.behind /\ l'.found = s.found
          /\ l'.round = 2 /\ l'.asked = s.asked \cup owners
          /\ \A p \in Partitions: l'.slots[p] = IF p \in owners THEN "out" ELSE "idle"
          /\ Merged(l') => LookupInv(l')
      BY <1>7, <1>12, <3>1, <3>2, Asked
    <3> QED BY <1>5, <2>2, <3>3
  <2> QED BY <2>1, <2>2
<1> HIDE DEF stays
<1>14. ASSUME NEW i \in DOMAIN l.world.keys, SameWidth(l.world), InBoth(l.world, i) PROVE FoundFirst(l', i)
  <2> DEFINE H == l.world.keys[i].holders[1]
             first == Lookup!Min(H)
  <2>1. /\ first \in H /\ first \in Partitions /\ first \in Nat /\ H \subseteq Nat /\ \A x \in H: first <= x
        /\ l.world.keys[i].holders[2] = H
    BY <1>3, <1>14, WorldFields DEF InBoth, Lookup!Builds
  <2>2. FoundFirst(l, i) /\ (l.found[i] # Lookup!None => l.found[i] \in H)
    BY <1>3, <1>14, <2>1 DEF Merged, Somewhere, Lookup!Builds
  <2>3. l.slots[first] = "null"
    BY <1>1, <1>3, <2>1, <2>2 DEF FoundFirst
  <2>4. l.found[i] # Lookup!None /\ l.found[i] <= first
    BY <1>1, <2>1, <2>2, <2>3 DEF FoundFirst
  <2>5. l.found[i] = first
    <3>1. l.found[i] \in Nat /\ first <= l.found[i]
      BY <2>1, <2>2, <2>4
    <3> HIDE DEF first, H
    <3> QED BY <2>1, <2>4, <3>1
  <2> QED BY <1>13, <2>5 DEF FoundFirst
<1>15. ASSUME NEW i \in DOMAIN l.world.keys, ~SameWidth(l.world), InBoth(l.world, i), l.world.keys[i].kind = "oracle"
       PROVE  FoundMoved(l', i)
  <2>1. FoundMoved(l, i)
    BY <1>3, <1>15 DEF Merged
  <2>2. \A p \in Partitions: l'.slots[p] = "null" /\ p \in l.world.keys[i].holders[l.serves[p]] => l.found[i] # Lookup!None
    BY <1>13, <2>1 DEF FoundMoved
  <2>3. ASSUME l.found[i] = Lookup!None, fresh # 1 PROVE l'.slots[Home(l.world, i, 2)] # "idle"
    <3>1. fresh = 2 /\ i \in Lookup!Missed("oracle") /\ Home(l.world, i, 2) \in Partitions
      BY <1>3, <1>4, <1>9, <1>15, <2>3, WorldFields
    <3>2. l.slots[Home(l.world, i, 2)] = "idle"
      BY <1>1, <1>3, <1>15, <2>3, <3>1, OwnerFinds
    <3>3. Home(l.world, i, 2) \notin l.asked
      BY <1>1, <2>1, <3>2 DEF FoundMoved
    <3>4. l.man # 2
      BY <1>1, <2>1, <3>2 DEF FoundMoved
    <3>5. width # Lookup!Width
      BY <1>3, <1>15, <3>1, <3>4 DEF SameWidth
    <3>6. owners # {}
      BY <1>11, <3>1, <3>3
    <3>7. ~stays
      BY <3>5, <3>6 DEF stays
    <3>8. Home(l.world, i, 2) \in owners
      BY <1>10, <3>1, <3>3, <3>7
    <3> QED BY <1>13, <3>1, <3>7, <3>8
  <2>4. ~l'.behind => fresh # 1
    BY <1>13
  <2>5. l'.world = l.world /\ l'.serves = l.serves /\ l'.found = l.found /\ l'.round = 2
    BY <1>13
  <2> QED BY <2>2, <2>3, <2>4, <2>5 DEF FoundMoved
<1>16. \A p \in Partitions: l'.slots[p] \in {"idle", "out", "null"}
  BY <1>3, <1>13
<1>17. Merged(l')
  BY <1>3, <1>13, <1>14, <1>15, <1>16 DEF Merged
<1> QED BY <1>13, <1>17

(* A key that a batch claims is answered right after its second round.     *)
LEMMA BatchRight ==
    ASSUME WorldsAssumption, LookupInv(l), Lookup!RoundOver, l.round \in {2, 3}, NEW i \in DOMAIN l.world.keys,
           SameWidth(l.world) \/ (l.world.keys[i].kind = "oracle" /\ ~l.behind)
    PROVE  KeyRight(l.world, i, l.found[i])
<1>1. l.world \in Worlds /\ Merged(l) /\ Partitions \subseteq Nat /\ \A p \in Partitions: p # Lookup!None
  BY BatchFields
<1>2. InNeither(l.world, i) => l.found[i] = Lookup!None
  BY <1>1 DEF Merged, Somewhere, InNeither
<1>3. CASE SameWidth(l.world)
  <2>1. ASSUME InBoth(l.world, i)
        PROVE  l.found[i] = Lookup!Min(l.world.keys[i].holders[1]) /\ l.found[i] # Lookup!None
    <3>1. l.found[i] = Lookup!Min(l.world.keys[i].holders[1])
      BY <1>1, <1>3, <2>1 DEF Merged, FoundFirst
    <3>2. Lookup!Min(l.world.keys[i].holders[1]) \in Partitions
      BY <1>1, <2>1, WorldFields DEF InBoth, Lookup!Builds
    <3> QED BY <1>1, <3>1, <3>2
  <2> QED BY <1>2, <2>1 DEF KeyRight
<1>4. CASE ~SameWidth(l.world)
  <2>1. ASSUME InBoth(l.world, i) PROVE l.found[i] # Lookup!None
    <3>1. FoundMoved(l, i)
      BY <1>1, <1>4, <2>1 DEF Merged
    <3>2. CASE l.round = 2
      BY <1>4, <2>1, <3>1, <3>2, OwnerFinds DEF FoundMoved
    <3>3. CASE l.round = 3
      BY <1>4, <3>1, <3>3 DEF FoundMoved
    <3> QED BY <3>2, <3>3
  <2> QED BY <1>2, <1>4, <2>1 DEF KeyRight
<1> QED BY <1>3, <1>4

(* What is missing yet is asked of the partitions nobody asked.            *)
LEMMA RepairsKeys ==
    ASSUME WorldsAssumption, LookupInv(l), Lookup!repairKeys
    PROVE  LookupInv(l')
<1> DEFINE parts == Lookup!Parts \ l.asked
<1>1. Lookup!RoundOver /\ l.round = 2 /\ (l' = Lookup!Done(l, Lookup!None) \/ l' = Lookup!AskRound(l, 3, parts))
  BY DEF Lookup!repairKeys
<1>2. /\ l.world \in Worlds /\ l \in LookupStates(l.world) /\ HintsRight(l) /\ Settled(l)
      /\ l.world.rule = "batch" /\ Merged(l) /\ Lookup!Parts \subseteq Partitions
  BY <1>1, BatchFields
<1>3. \A i \in DOMAIN l.world.keys:
        SameWidth(l.world) \/ (l.world.keys[i].kind = "oracle" /\ ~l.behind) => KeyRight(l.world, i, l.found[i])
  BY <1>1, BatchRight
<1>4. CASE l' = Lookup!Done(l, Lookup!None)
  BY <1>2, <1>3, <1>4, LookupOver
<1>5. CASE l' = Lookup!AskRound(l, 3, parts)
  <2>1. parts \in SUBSET Partitions /\ 3 \in 1..3
    BY <1>2
  <2> HIDE DEF parts
  <2>2. /\ l'.world = l.world /\ l'.man = l.man /\ l'.serves = l.serves /\ l'.behind = l.behind /\ l'.found = l.found
        /\ l'.round = 3 /\ \A p \in Partitions: l'.slots[p] = IF p \in parts THEN "out" ELSE "idle"
        /\ Merged(l') => LookupInv(l')
    BY <1>2, <1>5, <2>1, Asked
  <2>3. ASSUME NEW i \in DOMAIN l.world.keys, SameWidth(l.world), InBoth(l.world, i) PROVE FoundFirst(l', i)
    BY <1>1, <1>2, <2>2, <2>3 DEF Merged, FoundFirst
  <2>4. ASSUME NEW i \in DOMAIN l.world.keys, ~SameWidth(l.world), InBoth(l.world, i), l.world.keys[i].kind = "oracle"
        PROVE  FoundMoved(l', i)
    <3>1. ~l.behind => l.found[i] # Lookup!None
      BY <1>3, <2>4 DEF KeyRight
    <3> QED BY <2>2, <3>1 DEF FoundMoved
  <2>5. Merged(l')
    BY <1>2, <2>2, <2>3, <2>4 DEF Merged
  <2> QED BY <2>2, <2>5
<1> QED BY <1>1, <1>4, <1>5

LEMMA BatchEnds ==
    ASSUME WorldsAssumption, LookupInv(l), Lookup!batchOver
    PROVE  LookupInv(l')
<1>1. Lookup!RoundOver /\ l.round = 3 /\ l' = Lookup!Done(l, Lookup!None)
  BY DEF Lookup!batchOver
<1>2. l.world.rule = "batch"
  BY <1>1, BatchFields
<1>3. \A i \in DOMAIN l.world.keys:
        SameWidth(l.world) \/ (l.world.keys[i].kind = "oracle" /\ ~l.behind) => KeyRight(l.world, i, l.found[i])
  BY <1>1, BatchRight
<1> QED BY <1>1, <1>2, <1>3, LookupOver

(* The card's owner, or its hint's partition, answers or is passed over.   *)
LEMMA Pins ==
    ASSUME WorldsAssumption, LookupInv(l), Lookup!pinnedOrGathered
    PROVE  LookupInv(l')
<1> DEFINE p == IF l.world.rule = "pinned" THEN Lookup!targetOf(1, Lookup!Width) ELSE Lookup!Hint(1)
           holds == p # Lookup!None /\ Lookup!Holds(p, l.serves[p], 1)
           answers == p # Lookup!None /\ Lookup!assertPinnedModulus(p) /\ (l.world.rule = "pinned" \/ holds)
           H == l.world.keys[1].holders[1]
<1>1. /\ l.pc = "start" /\ l.world.rule \in {"pinned", "named"}
      /\ \/ answers /\ l' = Lookup!Done(l, IF holds THEN p ELSE Lookup!None)
         \/ l' = [l EXCEPT !.pc = "gather"]
         \/ l' = Lookup!Done(l, Lookup!Failed)
  BY DEF Lookup!pinnedOrGathered
<1>2. /\ l.world \in Worlds /\ l \in LookupStates(l.world) /\ HintsRight(l) /\ Settled(l)
  BY DEF LookupInv
<1>3. /\ Partitions \subseteq Nat /\ l.man \in {1, 2} /\ Lookup!Width = l.world.width[l.man] /\ 1 \in DOMAIN l.world.keys
      /\ l.hint \in [DOMAIN l.world.keys -> Partitions \cup {Lookup!None}] /\ l.serves \in [Partitions -> {1, 2}]
  BY <1>2, LookupFields, WorldFields DEF Lookup!Width
<1>4. CASE answers /\ l' = Lookup!Done(l, IF holds THEN p ELSE Lookup!None)
  <2>1. p # Lookup!None /\ l.world.width[l.serves[p]] = l.world.width[l.man] /\ (l.world.rule = "pinned" \/ holds)
    BY <1>3, <1>4 DEF Lookup!assertPinnedModulus
  <2>2. \/ l.world.keys[1].kind = "oracle" /\ p = Home(l.world, 1, l.man)
        \/ p = l.hint[1]
    <3>1. \/ p = Lookup!Hint(1)
          \/ l.world.keys[1].kind = "oracle" /\ p = Home(l.world, 1, l.man)
      BY <1>3 DEF Lookup!targetOf, Home
    <3>2. p = Lookup!Hint(1) => p = l.hint[1]
      BY <2>1 DEF Lookup!Hint
    <3> QED BY <3>1, <3>2
  <2>3. p \in Partitions
    <3> HIDE DEF p
    <3>1. CASE l.world.keys[1].kind = "oracle" /\ p = Home(l.world, 1, l.man)
      <4>1. Home(l.world, 1, l.man) \in Partitions
        BY <1>2, <1>3, <3>1, WorldFields
      <4> QED BY <3>1, <4>1
    <3>2. CASE p = l.hint[1]
      BY <1>3, <2>1, <3>2
    <3> QED BY <2>2, <3>1, <3>2
  <2>4. holds <=> p \in l.world.keys[1].holders[l.serves[p]]
    BY <2>1 DEF Lookup!Holds
  <2> HIDE DEF p, holds
  <2>5. l.serves[p] \in {1, 2}
    BY <1>3, <2>3
  <2>6. ASSUME SameWidth(l.world), InBoth(l.world, 1)
        PROVE  p = Lookup!Min(H) /\ Lookup!Min(H) \in l.world.keys[1].holders[l.serves[p]]
    <3>1. Lookup!Min(H) \in H /\ \A b \in {1, 2}: l.world.keys[1].holders[b] = H
      BY <1>2, <1>3, <2>6, WorldFields DEF InBoth, Lookup!Builds
    <3>2. CASE p = l.hint[1]
      BY <1>2, <1>3, <2>1, <3>1, <3>2 DEF HintsRight
    <3>3. CASE l.world.keys[1].kind = "oracle" /\ p = Home(l.world, 1, l.man)
      BY <1>2, <1>3, <3>1, <3>3, WorldFields
    <3> QED BY <2>2, <2>5, <3>1, <3>2, <3>3
  <2>7. CASE holds
    <3>1. ~InNeither(l.world, 1)
      BY <2>4, <2>5, <2>7 DEF InNeither, Lookup!Builds
    <3>2. KeyRight(l.world, 1, p)
      BY <2>1, <2>6, <3>1 DEF KeyRight
    <3> QED BY <1>1, <1>4, <2>3, <2>7, <3>2, LookupOver
  <2>8. CASE ~holds
    <3>1. ~InBoth(l.world, 1)
      <4> SUFFICES ASSUME InBoth(l.world, 1) PROVE FALSE
        OBVIOUS
      <4>1. l.world.keys[1].holders[l.serves[p]] # {} /\ l.world.keys[1].holders[l.man] # {}
        BY <1>3, <2>5 DEF InBoth, Lookup!Builds
      <4>2. CASE SameWidth(l.world)
        BY <2>4, <2>6, <2>8, <4>2
      <4>3. CASE ~SameWidth(l.world)
        <5>1. l.serves[p] = l.man
          BY <1>3, <2>1, <2>5, <4>3 DEF SameWidth
        <5>2. CASE p = l.hint[1]
          BY <1>2, <1>3, <2>1, <2>4, <2>8, <4>1, <5>1, <5>2, WorldFields DEF HintsRight
        <5>3. CASE l.world.keys[1].kind = "oracle" /\ p = Home(l.world, 1, l.man)
          BY <1>2, <1>3, <2>4, <2>8, <4>1, <5>1, <5>3, WorldFields
        <5> QED BY <2>2, <5>2, <5>3
      <4> QED BY <4>2, <4>3
    <3>2. KeyRight(l.world, 1, Lookup!None)
      BY <3>1 DEF KeyRight
    <3> QED BY <1>1, <1>4, <2>8, <3>2, LookupOver
  <2> QED BY <2>7, <2>8
<1>5. CASE l' = [l EXCEPT !.pc = "gather"]
  <2>1. l' \in LookupStates(l.world)
    BY <1>2, <1>5 DEF LookupStates
  <2>2. /\ l'.world = l.world /\ l'.man = l.man /\ l'.hint = l.hint /\ l'.serves = l.serves /\ l'.pc = "gather"
    BY <1>2, <1>5 DEF LookupStates
  <2>3. HintsRight(l') /\ Settled(l')
    BY <1>2, <2>2 DEF HintsRight, Settled
  <2> QED BY <1>1, <1>2, <2>1, <2>2, <2>3 DEF LookupInv
<1>6. CASE l' = Lookup!Done(l, Lookup!Failed)
  BY <1>6, LookupOver
<1> QED BY <1>1, <1>4, <1>5, <1>6

(* Every partition is searched, in one build.                              *)
LEMMA Gathers ==
    ASSUME WorldsAssumption, LookupInv(l), Lookup!gathered
    PROVE  LookupInv(l')
<1>1. /\ l.pc = "gather"
      /\ \/ l' = Lookup!Done(l, Lookup!Failed)
         \/ \E b \in {l.serves[p] : p \in 0..(l.world.width[2] - 1)}:
              l' = Lookup!Done(l, IF l.world.keys[1].holders[b] = {} THEN Lookup!None ELSE Lookup!Min(l.world.keys[1].holders[b]))
  BY DEF Lookup!gathered
<1>2. l.world \in Worlds /\ l \in LookupStates(l.world) /\ l.world.rule \in {"pinned", "named"}
  BY <1>1 DEF LookupInv
<1>3. CASE l' = Lookup!Done(l, Lookup!Failed)
  BY <1>3, LookupOver
<1>4. ASSUME NEW b \in {l.serves[p] : p \in 0..(l.world.width[2] - 1)},
             l' = Lookup!Done(l, IF l.world.keys[1].holders[b] = {} THEN Lookup!None ELSE Lookup!Min(l.world.keys[1].holders[b]))
      PROVE  LookupInv(l')
  <2> DEFINE H == l.world.keys[1].holders[b]
             r == IF H = {} THEN Lookup!None ELSE Lookup!Min(H)
  <2>1. b \in {1, 2}
    <3>1. \A p \in 0..(l.world.width[2] - 1): p \in Partitions
      BY <1>2, WorldFields
    <3> QED BY <1>2, <3>1, LookupFields
  <2>2. /\ 1 \in DOMAIN l.world.keys /\ Partitions \subseteq Nat
        /\ H # {} => Lookup!Min(H) \in H /\ Lookup!Min(H) \in Partitions
        /\ SameWidth(l.world) /\ InBoth(l.world, 1) => l.world.keys[1].holders[1] = l.world.keys[1].holders[2]
    BY <1>2, <2>1, WorldFields
  <2>3. \A p \in Partitions: p # Lookup!None
    BY <2>2 DEF Lookup!None
  <2>4. SameWidth(l.world) /\ InBoth(l.world, 1) => H = l.world.keys[1].holders[1]
    BY <2>1, <2>2
  <2>5. InBoth(l.world, 1) => H # {}
    BY <2>1 DEF InBoth, Lookup!Builds
  <2>6. InNeither(l.world, 1) => H = {}
    BY <2>1 DEF InNeither, Lookup!Builds
  <2>7. KeyRight(l.world, 1, r)
    <3> HIDE DEF H
    <3> QED BY <2>2, <2>3, <2>4, <2>5, <2>6 DEF KeyRight
  <2>8. r \in Partitions \cup {Lookup!None, Lookup!Failed} /\ l' = Lookup!Done(l, r)
    BY <1>4, <2>2
  <2> HIDE DEF r
  <2> QED BY <1>2, <2>7, <2>8, LookupOver
<1> QED BY <1>1, <1>3, <1>4

LEMMA LookupStep ==
    ASSUME WorldsAssumption, LookupInv(l), [Lookup!Next]_l
    PROVE  LookupInv(l')
<1>1. CASE Lookup!hinted
  BY <1>1, LookupHinted
<1>2. CASE Lookup!scryfallCollectionBatch
  BY <1>2, BatchStarts
<1>3. CASE Lookup!repairOracle
  BY <1>3, RepairsOracle
<1>4. CASE Lookup!repairKeys
  BY <1>4, RepairsKeys
<1>5. CASE Lookup!batchOver
  BY <1>5, BatchEnds
<1>6. CASE Lookup!pinnedOrGathered
  BY <1>6, Pins
<1>7. CASE Lookup!gathered
  BY <1>7, Gathers
<1>8. CASE \E p \in Partitions: Lookup!Swap(p) \/ Lookup!Reply(p) \/ Lookup!BatchReply(p)
  BY <1>8, LookupSwaps, LookupReplies, BatchReplies
<1>9. CASE l' = l
  BY <1>9
<1> QED BY <1>1, <1>2, <1>3, <1>4, <1>5, <1>6, <1>7, <1>8, <1>9 DEF Lookup!Next

(* What is claimed of every key is what is right of the result.            *)
LEMMA LookupAnswers ==
    ASSUME WorldsAssumption, LookupInv(l)
    PROVE  Lookup!LookupIsFanOut
<1> SUFFICES ASSUME l.pc = "done", l.result # Lookup!Failed
             PROVE  IF l.world.rule = "batch"
                    THEN \A i \in Lookup!Keys: Lookup!Claimed(i) => Lookup!Answered(i, l.found[i])
                    ELSE Lookup!Claimed(1) => Lookup!Answered(1, l.result)
  BY DEF Lookup!LookupIsFanOut
<1>1. l.world \in Worlds /\ Right(l)
  BY DEF LookupInv
<1>2. ASSUME NEW i \in DOMAIN l.world.keys, NEW from, KeyRight(l.world, i, from)
      PROVE  Lookup!Answered(i, from)
  <2>1. (\A b \in Lookup!Builds: l.world.keys[i].holders[b] # {}) => from # Lookup!None
    BY <1>2 DEF KeyRight, InBoth
  <2>2. (\A b \in Lookup!Builds: l.world.keys[i].holders[b] = {}) => from = Lookup!None
    BY <1>2 DEF KeyRight, InNeither
  <2>3. ASSUME Lookup!Fixed, l.world.keys[i].holders[1] = l.world.keys[i].holders[2], from # Lookup!None
        PROVE  from = Lookup!Min(l.world.keys[i].holders[1])
    <3>1. SameWidth(l.world)
      BY <2>3 DEF Lookup!Fixed, SameWidth
    <3>2. InBoth(l.world, i)
      BY <2>2, <2>3 DEF InBoth, Lookup!Builds
    <3> QED BY <1>2, <2>3, <3>1, <3>2 DEF KeyRight
  <2> QED BY <2>1, <2>2, <2>3 DEF Lookup!Answered
<1>3. CASE l.world.rule = "batch"
  <2> SUFFICES ASSUME NEW i \in DOMAIN l.world.keys, Lookup!Claimed(i) PROVE KeyRight(l.world, i, l.found[i])
    BY <1>2, <1>3 DEF Lookup!Keys
  <2>1. SameWidth(l.world) \/ (l.world.keys[i].kind = "oracle" /\ ~l.behind)
    BY <1>3 DEF Lookup!Claimed, Lookup!Fixed, SameWidth
  <2> QED BY <1>1, <1>3, <2>1 DEF Right
<1>4. CASE l.world.rule # "batch"
  <2> SUFFICES ASSUME Lookup!Claimed(1) PROVE KeyRight(l.world, 1, l.result)
    BY <1>1, <1>2, <1>4, WorldFields
  <2>1. l.world.rule \in {"lowest", "sole"} => l.world.keys[1].kind = "id"
    BY <1>1 DEF WorldsAssumption
  <2>2. l.world.rule \in {"lowest", "sole", "pinned", "named"}
    BY <1>1, <1>4, WorldFields
  <2>3. SameWidth(l.world) \/ l.world.rule \in {"pinned", "named"}
    BY <2>1, <2>2 DEF Lookup!Claimed, Lookup!Fixed, SameWidth
  <2> QED BY <1>1, <1>4, <2>3 DEF Right
<1> QED BY <1>3, <1>4

(* partitioned-engine.ts answers what asking every partition would, for    *)
(* any number of partitions and any keys that lie as WorldsAssumption says *)
(* they do: however old the manifest, in whatever order the partitions     *)
(* answer, fail and swap builds.                                           *)
THEOREM LookupsAreFanOut == Lookup!Init /\ [][Lookup!Next]_l => []LookupIsFanOut
<1>1. WorldsAssumption
  BY ServingAssumption
<1>2. Lookup!Init => LookupInv(l)
  BY <1>1, LookupStarts
<1>3. LookupInv(l) /\ [Lookup!Next]_l => LookupInv(l)'
  BY <1>1, LookupStep
<1>4. LookupInv(l) => LookupIsFanOut
  BY <1>1, LookupAnswers DEF LookupIsFanOut
<1> QED BY <1>2, <1>3, <1>4, PTL

-----------------------------------------------------------------------------
(* Gather                                                                  *)

(* A gather's fields.                                                      *)
IsGather(s) ==
    s \in [store : {s.store}, width : {s.width}, ask : {s.ask}, man : {s.man}, pushed : {s.pushed}, home : {s.home},
           away : {s.away}, pass : {s.pass}, pc : {s.pc}, parts : {s.parts}, out : {s.out}, reply : {s.reply},
           heard : {s.heard}, late : {s.late}, round : {s.round}, probing : {s.probing}, got : {s.got}, page : {s.page}]

(* The builds named are published ones, and whatever the coordinator       *)
(* serves has its partition.                                               *)
GatherTyped(s) ==
    /\ \E layout \in Layouts: s.store = layout.store /\ s.width = layout.width
    /\ s.ask \in Asks /\ s.man \in 1..Len(s.width) /\ s.pushed \in {0, 1} /\ s.parts \subseteq Partitions
    /\ s.home \in [Partitions -> 0..s.man] /\ s.away \in [Partitions -> 0..s.man]
    /\ s.reply \in [Partitions -> 0..s.man] /\ s.got \in [Partitions -> 0..s.man]
    /\ s.home[Own] # 0 => Own < s.width[s.home[Own]]

HoldersOf(s, b) == {r.part : r \in s.store[b]}
AllParts(width) == 0..(width - 1)

(* Every partition is asked: those of the first build, or those of the     *)
(* next, and then the coordinator does not come to serve the first.        *)
FullAsked(s) ==
    \/ s.parts = AllParts(s.width[1])
    \/ /\ s.parts = AllParts(s.width[2]) /\ s.man = 2 /\ s.home[Own] # 1 /\ s.reply[Own] # 1
       /\ s.home[Own] = 0 /\ s.pushed = 1 => ~(Own < s.width[1])

(* The partitions asked are those the pass is about; what the coordinator  *)
(* answered it serves, or a later build.                                   *)
PassAsked(s) ==
    /\ s.parts # {} /\ s.reply[Own] <= s.home[Own]
    /\ s.pass \in {"listed", "named", "full", "again"}
    /\ s.pass = "listed" => s.parts = HoldersOf(s, s.ask.list)
    /\ s.pass = "named" => s.parts = HoldersOf(s, s.ask.names)
    /\ s.pass \in {"full", "again"} => Own \in s.parts
    /\ s.pass = "full" /\ s.man <= 2 => FullAsked(s)
    /\ s.pass = "again" /\ s.man <= 2 =>
         s.parts = AllParts(s.width[2]) /\ s.man = 2 /\ s.home[Own] = 2 /\ s.reply[Own] # 1

(* One build has answered, and its rows are there or on their way.         *)
PageMade(s) ==
    /\ s.page = Page!PageOf(s) /\ s.page.build # 0 /\ \A p \in s.parts: s.reply[p] = s.page.build
    /\ \A p \in s.parts \cap Page!Needed(s.page): s.got[p] = s.page.build \/ (s.pc = "rows" /\ p \in s.out)

GatherInv(s) ==
    /\ IsGather(s) /\ GatherTyped(s)
    /\ s.pc = "keys" => PassAsked(s) /\ \A p \in s.parts: p \in s.out \/ s.reply[p] # 0
    /\ s.pc = "rows" => PassAsked(s) /\ PageMade(s)
    /\ s.pc = "done" =>
         \/ HoldersOf(s, s.page.build) = {} /\ s.page = [Page!NoPage EXCEPT !.build = s.page.build]
         \/ PageMade(s) /\ (s.man <= 2 => HoldersOf(s, s.page.build) \subseteq s.parts)

LEMMA GatherFacts ==
    ASSUME LayoutsAssumption, NEW s, GatherTyped(s)
    PROVE  /\ Len(s.width) \in Nat /\ Own \in Partitions /\ Partitions \subseteq Nat
           /\ s.ask.list \in Nat /\ s.ask.names \in Nat
           /\ s.man \in Nat /\ s.man >= 1 /\ s.man <= Len(s.width) /\ s.pushed \in {0, 1}
           /\ \A b \in 1..s.man:
                /\ s.width[b] \in Nat /\ \A p \in Nat: p < s.width[b] => p \in Partitions
                /\ HoldersOf(s, b) \subseteq AllParts(s.width[b]) /\ HoldersOf(s, b) \subseteq Partitions
                /\ AllParts(s.width[b]) \subseteq Partitions /\ \A p \in Nat: p \in AllParts(s.width[b]) <=> p < s.width[b]
           /\ \A p \in Partitions: s.home[p] \in 0..s.man /\ s.away[p] \in 0..s.man /\ s.reply[p] \in 0..s.man
<1>1. PICK layout \in Layouts: s.store = layout.store /\ s.width = layout.width
  BY DEF GatherTyped
<1>2. /\ Len(s.width) \in Nat \ {0} /\ Partitions \subseteq Nat /\ Own \in Partitions
      /\ \A b \in 1..Len(s.width):
           /\ s.width[b] \in Nat /\ 0..(s.width[b] - 1) \subseteq Partitions
           /\ \A r \in s.store[b]: r.part \in 0..(s.width[b] - 1)
      /\ s.ask.list \in Nat /\ s.ask.names \in Nat
  BY <1>1 DEF LayoutsAssumption, GatherTyped
<1>3. s.man \in Nat /\ s.man >= 1 /\ s.man <= Len(s.width) /\ s.pushed \in {0, 1}
  BY <1>2 DEF GatherTyped
<1>4. ASSUME NEW b \in 1..s.man
      PROVE  /\ s.width[b] \in Nat /\ \A p \in Nat: p < s.width[b] => p \in Partitions
             /\ HoldersOf(s, b) \subseteq AllParts(s.width[b]) /\ HoldersOf(s, b) \subseteq Partitions
             /\ AllParts(s.width[b]) \subseteq Partitions /\ \A p \in Nat: p \in AllParts(s.width[b]) <=> p < s.width[b]
  <2>1. b \in 1..Len(s.width)
    BY <1>2, <1>3
  <2>2. s.width[b] \in Nat /\ AllParts(s.width[b]) \subseteq Partitions /\ \A r \in s.store[b]: r.part \in AllParts(s.width[b])
    BY <1>2, <2>1 DEF AllParts
  <2>3. HoldersOf(s, b) \subseteq AllParts(s.width[b])
    BY <2>2 DEF HoldersOf
  <2>4. \A p \in Nat: p \in AllParts(s.width[b]) <=> p < s.width[b]
    BY <2>2 DEF AllParts
  <2> QED BY <2>2, <2>3, <2>4
<1>5. \A p \in Partitions: s.home[p] \in 0..s.man /\ s.away[p] \in 0..s.man /\ s.reply[p] \in 0..s.man
  BY DEF GatherTyped
<1> QED BY <1>2, <1>3, <1>4, <1>5

(* The page depends on what was asked, of whom, and on the answers.        *)
LEMMA SamePage ==
    ASSUME NEW s, NEW t, t.store = s.store, t.ask = s.ask, t.parts = s.parts, t.reply = s.reply, t.probing = s.probing
    PROVE  Page!PageOf(t) = Page!PageOf(s)
  BY DEF Page!PageOf, Page!Packets, Page!PinnedBuild, Page!RowsOf

LEMMA GatherStarts ==
    ASSUME LayoutsAssumption, Page!Init
    PROVE  GatherInv(g)
<1>1. PICK layout \in Layouts, ask \in Asks, loaded \in {0, 1}, pushed \in {0, 1}:
        /\ loaded = 1 \/ pushed = 1 => Own < layout.width[1]
        /\ g = [store |-> layout.store, width |-> layout.width, ask |-> ask, man |-> 1, pushed |-> pushed,
                home |-> [p \in Partitions |-> IF p >= layout.width[1] THEN 0 ELSE IF p = Own THEN loaded ELSE 1],
                away |-> [p \in Partitions |-> IF p >= layout.width[1] THEN 0 ELSE 1],
                pass |-> "listed", pc |-> "start", parts |-> {}, out |-> {}, reply |-> Page!NoAnswer,
                heard |-> {}, late |-> {}, round |-> 0, probing |-> FALSE, got |-> Page!NoAnswer, page |-> Page!NoPage]
  BY DEF Page!Init
<1> DEFINE home == [p \in Partitions |-> IF p >= layout.width[1] THEN 0 ELSE IF p = Own THEN loaded ELSE 1]
           away == [p \in Partitions |-> IF p >= layout.width[1] THEN 0 ELSE 1]
<1>2. home \in [Partitions -> 0..1] /\ away \in [Partitions -> 0..1] /\ Page!NoAnswer \in [Partitions -> 0..1]
  BY DEF Page!NoAnswer
<1>3. Own \in Partitions /\ layout.width[1] \in Nat /\ Len(layout.width) \in Nat \ {0} /\ Own \in Nat
  BY DEF LayoutsAssumption
<1>4. home[Own] # 0 => Own < layout.width[1] /\ home[Own] = 1
  BY <1>1, <1>3
<1>5. 1 \in 1..Len(layout.width)
  BY <1>3
<1> HIDE DEF home, away
<1>6. /\ g.store = layout.store /\ g.width = layout.width /\ g.ask = ask /\ g.man = 1 /\ g.pushed = pushed /\ g.home = home
      /\ g.away = away /\ g.pc = "start" /\ g.parts = {} /\ g.reply = Page!NoAnswer /\ g.got = Page!NoAnswer
  BY <1>1 DEF home, away
<1>7. IsGather(g)
  BY <1>1 DEF IsGather
<1>8. GatherTyped(g)
  BY <1>2, <1>4, <1>5, <1>6 DEF GatherTyped
<1> QED BY <1>6, <1>7, <1>8 DEF GatherInv

(* Publications, swaps and late answers touch no pass under way.           *)
LEMMA ObjectsMove ==
    ASSUME LayoutsAssumption, GatherInv(g), IsGather(g'), GatherTyped(g'),
           g'.store = g.store, g'.width = g.width, g'.ask = g.ask, g'.pushed = g.pushed, g'.pass = g.pass, g'.pc = g.pc,
           g'.parts = g.parts, g'.out = g.out, g'.reply = g.reply, g'.got = g.got, g'.page = g.page, g'.probing = g.probing,
           g'.man >= g.man, g'.home[Own] = g.home[Own] \/ (g'.man = g.man /\ g'.home[Own] = g.man)
    PROVE  GatherInv(g')
<1>1. /\ g.man \in Nat /\ g'.man \in Nat /\ Own \in Partitions /\ g.home[Own] \in 0..g.man /\ g.reply[Own] \in 0..g.man
  BY GatherFacts DEF GatherInv
<1>2. \A b: HoldersOf(g', b) = HoldersOf(g, b)
  BY DEF HoldersOf
<1>3. FullAsked(g) /\ g'.man <= 2 => FullAsked(g')
  BY <1>1 DEF FullAsked
<1>4. PassAsked(g) => PassAsked(g')
  BY <1>1, <1>2, <1>3 DEF PassAsked
<1>5. PageMade(g) => PageMade(g')
  BY SamePage DEF PageMade
<1>6. g'.man <= 2 => g.man <= 2
  BY <1>1
<1> QED BY <1>2, <1>4, <1>5, <1>6 DEF GatherInv

LEMMA Publishes ==
    ASSUME LayoutsAssumption, GatherInv(g), Page!Publish
    PROVE  GatherInv(g')
<1>1. g.man < Len(g.width) /\ g' = [g EXCEPT !.man = g.man + 1] /\ IsGather(g) /\ GatherTyped(g)
  BY DEF Page!Publish, GatherInv
<1>2. /\ g'.store = g.store /\ g'.width = g.width /\ g'.ask = g.ask /\ g'.pushed = g.pushed /\ g'.pass = g.pass /\ g'.pc = g.pc
      /\ g'.parts = g.parts /\ g'.out = g.out /\ g'.reply = g.reply /\ g'.got = g.got /\ g'.page = g.page
      /\ g'.probing = g.probing /\ g'.man = g.man + 1 /\ g'.home = g.home /\ g'.away = g.away /\ IsGather(g')
  BY <1>1 DEF IsGather
<1>3. g.man \in Nat /\ Len(g.width) \in Nat /\ g.man + 1 \in 1..Len(g.width) /\ g.man + 1 >= g.man
  BY <1>1, GatherFacts
<1>4. \A f \in [Partitions -> 0..g.man]: f \in [Partitions -> 0..(g.man + 1)]
  <2>1. 0..g.man \subseteq 0..(g.man + 1)
    BY <1>3
  <2> QED BY <2>1
<1>5. GatherTyped(g')
  BY <1>1, <1>2, <1>3, <1>4 DEF GatherTyped
<1> QED BY <1>2, <1>3, <1>5, ObjectsMove

LEMMA Swaps ==
    ASSUME LayoutsAssumption, GatherInv(g), NEW p \in Partitions, Page!Swap(p) \/ Page!SwapAway(p) \/ Page!Late(p)
    PROVE  GatherInv(g')
<1>1. IsGather(g) /\ GatherTyped(g)
  BY DEF GatherInv
<1>2. /\ g.man \in Nat /\ g.man \in 0..g.man
  BY <1>1, GatherFacts
<1>3. CASE Page!Swap(p)
  <2> DEFINE home == [g.home EXCEPT ![p] = g.man]
  <2>1. Page!ServableBy(p, g.man) /\ g' = [g EXCEPT !.home = home]
    BY <1>1, <1>3 DEF Page!Swap, IsGather
  <2>2. home \in [Partitions -> 0..g.man] /\ \A x \in Partitions: home[x] = IF x = p THEN g.man ELSE g.home[x]
    BY <1>1, <1>2 DEF GatherTyped
  <2> HIDE DEF home
  <2>3. /\ g'.store = g.store /\ g'.width = g.width /\ g'.ask = g.ask /\ g'.pushed = g.pushed /\ g'.pass = g.pass /\ g'.pc = g.pc
        /\ g'.parts = g.parts /\ g'.out = g.out /\ g'.reply = g.reply /\ g'.got = g.got /\ g'.page = g.page
        /\ g'.probing = g.probing /\ g'.man = g.man /\ g'.home = home /\ g'.away = g.away /\ IsGather(g')
    BY <1>1, <2>1 DEF IsGather
  <2>4. home[Own] = g.home[Own] \/ (home[Own] = g.man /\ Own < g.width[g.man])
    BY <1>1, <2>1, <2>2, GatherFacts DEF Page!ServableBy
  <2>5. GatherTyped(g')
    BY <1>1, <2>2, <2>3, <2>4 DEF GatherTyped
  <2> QED BY <1>2, <2>3, <2>4, <2>5, ObjectsMove
<1>4. CASE Page!SwapAway(p)
  <2> DEFINE away == [g.away EXCEPT ![p] = g.man]
  <2>1. g' = [g EXCEPT !.away = away]
    BY <1>1, <1>4 DEF Page!SwapAway, IsGather
  <2>2. away \in [Partitions -> 0..g.man]
    BY <1>1, <1>2 DEF GatherTyped
  <2> HIDE DEF away
  <2>3. /\ g'.store = g.store /\ g'.width = g.width /\ g'.ask = g.ask /\ g'.pushed = g.pushed /\ g'.pass = g.pass /\ g'.pc = g.pc
        /\ g'.parts = g.parts /\ g'.out = g.out /\ g'.reply = g.reply /\ g'.got = g.got /\ g'.page = g.page
        /\ g'.probing = g.probing /\ g'.man = g.man /\ g'.home = g.home /\ g'.away = away /\ IsGather(g')
    BY <1>1, <2>1 DEF IsGather
  <2>4. GatherTyped(g')
    BY <1>1, <2>2, <2>3 DEF GatherTyped
  <2> QED BY <1>2, <2>3, <2>4, ObjectsMove
<1>5. CASE Page!Late(p)
  <2>1. g' = [g EXCEPT !.late = g.late \ {p}, !.heard = g.heard \cup {g.home[p]}]
    BY <1>1, <1>5 DEF Page!Late, IsGather
  <2>2. /\ g'.store = g.store /\ g'.width = g.width /\ g'.ask = g.ask /\ g'.pushed = g.pushed /\ g'.pass = g.pass /\ g'.pc = g.pc
        /\ g'.parts = g.parts /\ g'.out = g.out /\ g'.reply = g.reply /\ g'.got = g.got /\ g'.page = g.page
        /\ g'.probing = g.probing /\ g'.man = g.man /\ g'.home = g.home /\ g'.away = g.away /\ IsGather(g')
    BY <1>1, <2>1 DEF IsGather
  <2>3. GatherTyped(g')
    BY <1>1, <2>2 DEF GatherTyped
  <2> QED BY <1>2, <2>2, <2>3, ObjectsMove
<1> QED BY <1>3, <1>4, <1>5

LEMMA Failing ==
    ASSUME GatherInv(g), NEW s, IsGather(s), GatherTyped(s), g' = Page!Fail(s)
    PROVE  GatherInv(g')
<1>1. g' = [s EXCEPT !.pc = "failed", !.page = Page!NoPage]
  BY DEF Page!Fail
<1>2. /\ g'.store = s.store /\ g'.width = s.width /\ g'.ask = s.ask /\ g'.pushed = s.pushed /\ g'.parts = s.parts
      /\ g'.reply = s.reply /\ g'.got = s.got /\ g'.man = s.man /\ g'.home = s.home /\ g'.away = s.away
      /\ g'.pc = "failed" /\ IsGather(g')
  BY <1>1 DEF IsGather
<1>3. GatherTyped(g')
  BY <1>2 DEF GatherTyped
<1> QED BY <1>2, <1>3 DEF GatherInv

(* Partitions are asked, on a pass of a width or of an index.              *)
LEMMA Asking ==
    ASSUME LayoutsAssumption, NEW s, IsGather(s), GatherTyped(s),
           NEW parts \in SUBSET Partitions, parts # {}, NEW pass \in {"listed", "named", "full", "again"},
           g' = Page!Ask(s, pass, parts),
           pass = "listed" => parts = HoldersOf(s, s.ask.list),
           pass = "named" => parts = HoldersOf(s, s.ask.names),
           pass \in {"full", "again"} => Own \in parts,
           pass = "full" /\ s.man <= 2 =>
             \/ parts = AllParts(s.width[1])
             \/ /\ parts = AllParts(s.width[2]) /\ s.man = 2 /\ s.home[Own] # 1
                /\ s.home[Own] = 0 /\ s.pushed = 1 => ~(Own < s.width[1]),
           pass = "again" /\ s.man <= 2 => parts = AllParts(s.width[2]) /\ s.man = 2 /\ s.home[Own] = 2
    PROVE  GatherInv(g')
<1> DEFINE probing == s.ask.offset >= DEEP_OFFSET_PROBE
<1>1. g' = [s EXCEPT !.pass = pass, !.pc = "keys", !.parts = parts, !.out = parts, !.reply = Page!NoAnswer,
                     !.heard = {}, !.late = {}, !.round = 0, !.got = Page!NoAnswer, !.page = Page!NoPage, !.probing = probing]
  BY DEF Page!Ask
<1> HIDE DEF probing
<1>2. /\ g'.store = s.store /\ g'.width = s.width /\ g'.ask = s.ask /\ g'.pushed = s.pushed /\ g'.parts = parts /\ g'.out = parts
      /\ g'.reply = Page!NoAnswer /\ g'.got = Page!NoAnswer /\ g'.man = s.man /\ g'.home = s.home /\ g'.away = s.away
      /\ g'.pc = "keys" /\ g'.pass = pass /\ IsGather(g')
  <2>1. IsGather(g')
    BY <1>1 DEF IsGather
  <2>2. g'.store = s.store /\ g'.width = s.width /\ g'.ask = s.ask /\ g'.pushed = s.pushed /\ g'.man = s.man
    BY <1>1 DEF IsGather
  <2>3. g'.home = s.home /\ g'.away = s.away /\ g'.parts = parts /\ g'.out = parts
    BY <1>1 DEF IsGather
  <2>4. g'.reply = Page!NoAnswer /\ g'.got = Page!NoAnswer /\ g'.pc = "keys" /\ g'.pass = pass
    BY <1>1 DEF IsGather
  <2> QED BY <2>1, <2>2, <2>3, <2>4
<1>3. s.man \in Nat /\ Own \in Partitions /\ s.home[Own] \in 0..s.man
  BY GatherFacts
<1>4. Page!NoAnswer \in [Partitions -> 0..s.man] /\ Page!NoAnswer[Own] = 0
  BY <1>3 DEF Page!NoAnswer
<1>5. GatherTyped(g')
  BY <1>2, <1>4 DEF GatherTyped
<1>6. \A b: HoldersOf(g', b) = HoldersOf(s, b)
  BY <1>2 DEF HoldersOf
<1>7. pass = "full" /\ s.man <= 2 => FullAsked(g')
  BY <1>2, <1>4 DEF FullAsked
<1>8. PassAsked(g')
  BY <1>2, <1>3, <1>4, <1>6, <1>7 DEF PassAsked
<1> QED BY <1>2, <1>5, <1>8 DEF GatherInv

(* At the width of the store loaded, else of the manifest it would load.   *)
LEMMA AskingAll ==
    ASSUME LayoutsAssumption, GatherInv(g), NEW s, IsGather(s), GatherTyped(s), s.width = g.width, g' = Page!Full(s)
    PROVE  GatherInv(g')
<1> DEFINE W == Page!gatherWidth(s)
<1>1. /\ s.man \in Nat /\ s.man >= 1 /\ Own \in Partitions /\ Own \in Nat /\ s.home[Own] \in 0..s.man /\ s.pushed \in {0, 1}
      /\ \A b \in 1..s.man:
           /\ s.width[b] \in Nat /\ AllParts(s.width[b]) \subseteq Partitions
           /\ \A p \in Nat: p \in AllParts(s.width[b]) <=> p < s.width[b]
      /\ s.home[Own] # 0 => Own < s.width[s.home[Own]]
  BY GatherFacts DEF GatherTyped
<1>2. CASE W = 0
  BY <1>2, Failing DEF Page!Full
<1>3. CASE W # 0
  <2>1. g' = Page!Ask(s, "full", AllParts(W))
    BY <1>3 DEF Page!Full, AllParts
  <2>2. \A b: Page!ServableBy(Own, b) <=> b # 0 /\ Own < s.width[b]
    BY DEF Page!ServableBy
  <2>3. \/ s.home[Own] # 0 /\ W = s.width[s.home[Own]]
        \/ s.home[Own] = 0 /\ s.pushed = 1 /\ Own < s.width[1] /\ W = s.width[1]
        \/ /\ s.home[Own] = 0 /\ (s.pushed = 1 => ~(Own < s.width[1]))
           /\ W = s.width[s.man] /\ Own < s.width[s.man]
    BY <1>1, <1>3, <2>2 DEF Page!gatherWidth
  <2> HIDE DEF W
  <2>4. \E b \in 1..s.man: W = s.width[b] /\ Own < s.width[b]
    BY <1>1, <2>3
  <2>5. Own \in AllParts(W) /\ AllParts(W) \in SUBSET Partitions
    BY <1>1, <2>4
  <2>6. s.man <= 2 =>
          \/ W = s.width[1]
          \/ W = s.width[2] /\ s.man = 2 /\ s.home[Own] # 1 /\ (s.home[Own] = 0 /\ s.pushed = 1 => ~(Own < s.width[1]))
    BY <1>1, <2>3
  <2> QED BY <2>1, <2>5, <2>6, Asking
<1> QED BY <1>2, <1>3

LEMMA GathersListed ==
    ASSUME LayoutsAssumption, GatherInv(g), Page!gatherListed
    PROVE  GatherInv(g')
<1> DEFINE b == IF g.ask.list <= g.man THEN g.ask.list ELSE 0
<1>1. /\ g.pc = "start" /\ IsGather(g) /\ GatherTyped(g)
      /\ \/ b # 0 /\ HoldersOf(g, b) # {} /\ g' = Page!Ask(g, "listed", HoldersOf(g, b))
         \/ g' = [g EXCEPT !.pass = "named"]
  BY DEF Page!gatherListed, Page!Holders, HoldersOf, GatherInv
<1>2. CASE b # 0 /\ HoldersOf(g, b) # {} /\ g' = Page!Ask(g, "listed", HoldersOf(g, b))
  <2>1. b = g.ask.list /\ b \in 1..g.man
    BY <1>1, <1>2, GatherFacts
  <2>2. HoldersOf(g, b) \in SUBSET Partitions
    BY <1>1, <2>1, GatherFacts
  <2> HIDE DEF b
  <2> QED BY <1>1, <1>2, <2>1, <2>2, Asking
<1>3. CASE g' = [g EXCEPT !.pass = "named"]
  <2>1. /\ g'.store = g.store /\ g'.width = g.width /\ g'.ask = g.ask /\ g'.pushed = g.pushed /\ g'.parts = g.parts
        /\ g'.reply = g.reply /\ g'.got = g.got /\ g'.man = g.man /\ g'.home = g.home /\ g'.away = g.away
        /\ g'.pc = "start" /\ IsGather(g')
    BY <1>1, <1>3 DEF IsGather
  <2>2. GatherTyped(g')
    BY <1>1, <2>1 DEF GatherTyped
  <2> QED BY <2>1, <2>2 DEF GatherInv
<1> QED BY <1>1, <1>2, <1>3

LEMMA GathersNamed ==
    ASSUME LayoutsAssumption, GatherInv(g), Page!gatherNamed
    PROVE  GatherInv(g')
<1> DEFINE b == IF g.ask.names <= g.man THEN g.ask.names ELSE 0
           loads == IF g.home[Own] # 0 THEN {g.home[Own]} ELSE {x \in {0, g.man, g.pushed}: x = 0 \/ Page!ServableBy(Own, x)}
<1>1. /\ g.pc = "start" /\ IsGather(g) /\ GatherTyped(g)
      /\ \E loaded \in IF b = 0 THEN {g.home[Own]} ELSE loads:
           LET s == [g EXCEPT !.home[Own] = loaded]
           IN  \/ g' = Page!Full(s)
               \/ b # 0 /\ HoldersOf(g, b) = {} /\ g' = [s EXCEPT !.pc = "done", !.page = [Page!NoPage EXCEPT !.build = b]]
               \/ b # 0 /\ HoldersOf(g, b) # {} /\ g' = Page!Ask(s, "named", HoldersOf(g, b))
  BY DEF Page!gatherNamed, Page!Holders, HoldersOf, GatherInv
<1>2. PICK loaded \in IF b = 0 THEN {g.home[Own]} ELSE loads:
        LET s == [g EXCEPT !.home[Own] = loaded]
        IN  \/ g' = Page!Full(s)
            \/ b # 0 /\ HoldersOf(g, b) = {} /\ g' = [s EXCEPT !.pc = "done", !.page = [Page!NoPage EXCEPT !.build = b]]
            \/ b # 0 /\ HoldersOf(g, b) # {} /\ g' = Page!Ask(s, "named", HoldersOf(g, b))
  BY <1>1
<1> DEFINE home == [g.home EXCEPT ![Own] = loaded]
           s == [g EXCEPT !.home = home]
<1>3. /\ g.man \in Nat /\ g.man >= 1 /\ g.pushed \in {0, 1} /\ Own \in Partitions /\ g.home[Own] \in 0..g.man
      /\ g.home \in [Partitions -> 0..g.man] /\ g.ask.names \in Nat
  BY <1>1, GatherFacts DEF GatherTyped
<1>4. loaded \in 0..g.man /\ (loaded # 0 => Own < g.width[loaded])
  <2>1. g.home[Own] # 0 => Own < g.width[g.home[Own]]
    BY <1>1 DEF GatherTyped
  <2>2. loaded = g.home[Own] \/ (loaded \in {0, g.man, g.pushed} /\ (loaded = 0 \/ Page!ServableBy(Own, loaded)))
    BY <1>2
  <2> QED BY <1>3, <2>1, <2>2 DEF Page!ServableBy
<1>5. [g EXCEPT !.home[Own] = loaded] = s
  BY <1>1 DEF IsGather
<1>6. b # 0 => b = g.ask.names /\ b \in 1..g.man
  BY <1>3
<1>7. \/ g' = Page!Full(s)
      \/ b # 0 /\ HoldersOf(g, b) = {} /\ g' = [s EXCEPT !.pc = "done", !.page = [Page!NoPage EXCEPT !.build = b]]
      \/ b # 0 /\ HoldersOf(g, b) # {} /\ g' = Page!Ask(s, "named", HoldersOf(g, b))
  BY <1>2, <1>5
<1>8. home \in [Partitions -> 0..g.man] /\ home[Own] = loaded
  BY <1>3, <1>4
<1> HIDE DEF b, loads, home
<1>9. /\ s.store = g.store /\ s.width = g.width /\ s.ask = g.ask /\ s.pushed = g.pushed /\ s.parts = g.parts
      /\ s.reply = g.reply /\ s.got = g.got /\ s.man = g.man /\ s.home = home /\ s.away = g.away /\ IsGather(s)
  BY <1>1 DEF IsGather
<1> HIDE DEF s
<1>10. GatherTyped(s)
  BY <1>1, <1>4, <1>8, <1>9 DEF GatherTyped
<1>11. CASE g' = Page!Full(s)
  BY <1>9, <1>10, <1>11, AskingAll
<1>12. CASE b # 0 /\ HoldersOf(g, b) = {} /\ g' = [s EXCEPT !.pc = "done", !.page = [Page!NoPage EXCEPT !.build = b]]
  <2> DEFINE page == [Page!NoPage EXCEPT !.build = b]
  <2>1. page.build = b
    BY DEF Page!NoPage
  <2>2. g' = [s EXCEPT !.pc = "done", !.page = page]
    BY <1>12
  <2> HIDE DEF page
  <2>3. /\ g'.store = s.store /\ g'.width = s.width /\ g'.ask = s.ask /\ g'.pushed = s.pushed /\ g'.parts = s.parts
        /\ g'.reply = s.reply /\ g'.got = s.got /\ g'.man = s.man /\ g'.home = s.home /\ g'.away = s.away
        /\ g'.pc = "done" /\ g'.page = page /\ IsGather(g')
    BY <1>9, <2>2 DEF IsGather
  <2>4. GatherTyped(g')
    BY <1>10, <2>3 DEF GatherTyped
  <2>5. HoldersOf(g', g'.page.build) = {} /\ g'.page = [Page!NoPage EXCEPT !.build = g'.page.build]
    BY <1>9, <1>12, <2>1, <2>3 DEF HoldersOf, page
  <2> QED BY <2>3, <2>4, <2>5 DEF GatherInv
<1>13. CASE b # 0 /\ HoldersOf(g, b) # {} /\ g' = Page!Ask(s, "named", HoldersOf(g, b))
  <2>1. HoldersOf(g, b) \in SUBSET Partitions
    BY <1>1, <1>6, <1>13, GatherFacts
  <2>2. HoldersOf(g, b) = HoldersOf(s, s.ask.names)
    BY <1>6, <1>9, <1>13 DEF HoldersOf
  <2> QED BY <1>9, <1>10, <1>13, <2>1, <2>2, Asking
<1> QED BY <1>7, <1>11, <1>12, <1>13

(* An answer, of the object itself or of the neighbour's.                  *)
LEMMA AnswerTaken ==
    ASSUME LayoutsAssumption, GatherInv(g), g.pc = "keys", NEW p \in Partitions, NEW b \in 1..g.man,
           NEW home, home = [g.home EXCEPT ![p] = b] \/ (home = g.home /\ p # Own),
           NEW reply, reply = [g.reply EXCEPT ![p] = b], NEW heard, NEW late,
           g' = [g EXCEPT !.home = home, !.reply = reply, !.out = g.out \ {p}, !.heard = heard, !.late = late],
           p # Own \/ b = g.home[p] \/ (g.home[p] = 0 /\ Page!ServableBy(p, b) /\ (b = g.man \/ b = g.pushed))
    PROVE  GatherInv(g')
<1>1. IsGather(g) /\ GatherTyped(g) /\ PassAsked(g) /\ \A x \in g.parts: x \in g.out \/ g.reply[x] # 0
  BY DEF GatherInv
<1>2. /\ g.man \in Nat /\ g.man >= 1 /\ g.pushed \in {0, 1} /\ Own \in Partitions
      /\ g.home[p] \in 0..g.man /\ g.away[p] \in 0..g.man /\ g.home[Own] \in 0..g.man /\ g.reply[Own] \in 0..g.man
      /\ g.home \in [Partitions -> 0..g.man] /\ g.reply \in [Partitions -> 0..g.man] /\ g.parts \subseteq Partitions
  BY <1>1, GatherFacts DEF GatherTyped
<1>3. b \in 0..g.man /\ b # 0
  BY <1>2
<1>4. reply \in [Partitions -> 0..g.man] /\ \A x \in Partitions: reply[x] = IF x = p THEN b ELSE g.reply[x]
  BY <1>2, <1>3
<1>5. /\ home \in [Partitions -> 0..g.man] /\ (p = Own => home[Own] = b) /\ (p # Own => home[Own] = g.home[Own])
  BY <1>2, <1>3
<1>6. /\ g'.store = g.store /\ g'.width = g.width /\ g'.ask = g.ask /\ g'.pushed = g.pushed /\ g'.parts = g.parts
      /\ g'.reply = reply /\ g'.got = g.got /\ g'.man = g.man /\ g'.home = home /\ g'.away = g.away
      /\ g'.pc = "keys" /\ g'.pass = g.pass /\ g'.out = g.out \ {p} /\ IsGather(g')
  BY <1>1 DEF IsGather
<1>7. p = Own => b = g.home[Own] \/ (g.home[Own] = 0 /\ Own < g.width[b] /\ (b = g.man \/ b = g.pushed))
  BY DEF Page!ServableBy
<1>8. GatherTyped(g')
  <2>1. home[Own] # 0 => Own < g.width[home[Own]]
    BY <1>1, <1>5, <1>7 DEF GatherTyped
  <2> QED BY <1>1, <1>4, <1>5, <1>6, <2>1 DEF GatherTyped
<1>9. \A x: HoldersOf(g', x) = HoldersOf(g, x)
  BY <1>6 DEF HoldersOf
<1>10. g'.reply[Own] <= g'.home[Own]
  BY <1>1, <1>2, <1>4, <1>5, <1>6 DEF PassAsked
<1>11. FullAsked(g) => FullAsked(g')
  BY <1>2, <1>4, <1>5, <1>6, <1>7 DEF FullAsked
<1>12. g.pass = "again" /\ g.man <= 2 => g'.home[Own] = 2 /\ g'.reply[Own] # 1
  BY <1>1, <1>2, <1>4, <1>5, <1>6, <1>7 DEF PassAsked
<1>13. PassAsked(g')
  BY <1>1, <1>6, <1>9, <1>10, <1>11, <1>12 DEF PassAsked
<1>14. \A x \in g'.parts: x \in g'.out \/ g'.reply[x] # 0
  BY <1>1, <1>2, <1>3, <1>4, <1>6
<1> QED BY <1>6, <1>8, <1>13, <1>14 DEF GatherInv

LEMMA Answering ==
    ASSUME LayoutsAssumption, GatherInv(g), NEW p \in Partitions, Page!Answer(p) \/ Page!AnswerAway(p)
    PROVE  GatherInv(g')
<1>1. g.pc = "keys" /\ IsGather(g) /\ GatherTyped(g)
  BY DEF Page!Answer, Page!AnswerAway, GatherInv
<1>2. g.man \in Nat /\ g.man >= 1 /\ g.pushed \in {0, 1} /\ g.home[p] \in 0..g.man /\ g.away[p] \in 0..g.man
  BY <1>1, GatherFacts
<1>3. CASE Page!Answer(p)
  <2>1. PICK b \in IF g.home[p] # 0 THEN {g.home[p]} ELSE {g.man, IF p = Own THEN g.pushed ELSE 0}:
          /\ Page!ServableBy(p, b) \/ g.home[p] = b
          /\ b # 0
          /\ g' = [g EXCEPT !.home[p] = b, !.reply[p] = b, !.out = g.out \ {p},
                            !.heard = IF p = Own THEN g.heard ELSE g.heard \cup {b}]
    BY <1>1, <1>3 DEF Page!Answer, IsGather
  <2> DEFINE home == [g.home EXCEPT ![p] = b]
             reply == [g.reply EXCEPT ![p] = b]
             heard == IF p = Own THEN g.heard ELSE g.heard \cup {b}
  <2>2. b \in 1..g.man
    BY <1>2, <2>1
  <2>3. p # Own \/ b = g.home[p] \/ (g.home[p] = 0 /\ Page!ServableBy(p, b) /\ (b = g.man \/ b = g.pushed))
    BY <2>1, <2>2
  <2>4. g' = [g EXCEPT !.home = home, !.reply = reply, !.out = g.out \ {p}, !.heard = heard, !.late = g.late]
    BY <1>1, <2>1 DEF IsGather
  <2>5. home = [g.home EXCEPT ![p] = b] /\ reply = [g.reply EXCEPT ![p] = b]
    OBVIOUS
  <2> HIDE DEF home, reply, heard
  <2> QED BY <1>1, <2>2, <2>3, <2>4, <2>5, AnswerTaken
<1>4. CASE Page!AnswerAway(p)
  <2> DEFINE b == g.away[p]
             reply == [g.reply EXCEPT ![p] = b]
  <2>1. p # Own /\ b # 0 /\ g' = [g EXCEPT !.reply[p] = g.away[p], !.out = g.out \ {p}, !.late = g.late \cup {p}]
    BY <1>1, <1>4 DEF Page!AnswerAway, IsGather
  <2>2. b \in 1..g.man
    BY <1>2, <2>1
  <2>3. g' = [g EXCEPT !.home = g.home, !.reply = reply, !.out = g.out \ {p}, !.heard = g.heard, !.late = g.late \cup {p}]
    BY <1>1, <2>1 DEF IsGather
  <2>4. reply = [g.reply EXCEPT ![p] = b] /\ p # Own
    BY <2>1
  <2> HIDE DEF b, reply
  <2> QED BY <1>1, <2>2, <2>3, <2>4, AnswerTaken
<1> QED BY <1>3, <1>4

(* Stragglers are asked again, having been told to refresh or not.         *)
LEMMA AsksAgain ==
    ASSUME LayoutsAssumption, GatherInv(g), Page!askKeys
    PROVE  GatherInv(g')
<1> DEFINE stragglers == Page!pinGeneration(g)
           Moved(moved) == [p \in Partitions |-> IF p \in moved THEN g.man ELSE g.home[p]]
<1>1. /\ g.pc = "keys" /\ g.out = {} /\ IsGather(g) /\ GatherTyped(g) /\ PassAsked(g)
      /\ \A p \in g.parts: g.reply[p] # 0
  BY DEF Page!askKeys, GatherInv
<1>2. /\ g.man \in Nat /\ g.man >= 1 /\ Own \in Partitions /\ g.home \in [Partitions -> 0..g.man]
      /\ g.home[Own] \in 0..g.man /\ g.reply[Own] \in 0..g.man
  BY <1>1, GatherFacts DEF GatherTyped
<1>3. \/ g' = Page!Fail(g)
      \/ \E moved \in SUBSET {p \in Partitions: Page!ServableBy(p, g.man)}:
           g' = [g EXCEPT !.round = g.round + 1, !.out = stragglers, !.home = Moved(moved)]
  <2>1. CASE g' = [g EXCEPT !.round = @ + 1, !.out = stragglers]
    <3>1. Moved({}) = g.home
      BY <1>2
    <3>2. g' = [g EXCEPT !.round = g.round + 1, !.out = stragglers, !.home = Moved({})]
      <4> HIDE DEF Moved, stragglers
      <4> QED BY <1>1, <2>1, <3>1 DEF IsGather
    <3> HIDE DEF Moved, stragglers
    <3> QED BY <3>2
  <2>2. ASSUME NEW moved \in SUBSET {p \in stragglers: Page!ServableBy(p, g.man)},
               g' = [[g EXCEPT !.round = @ + 1, !.out = stragglers]
                       EXCEPT !.home = [p \in Partitions |-> IF p \in moved THEN g.man ELSE @[p]]]
        PROVE  \E x \in SUBSET {p \in Partitions: Page!ServableBy(p, g.man)}:
                 g' = [g EXCEPT !.round = g.round + 1, !.out = stragglers, !.home = Moved(x)]
    <3>1. g' = [g EXCEPT !.round = g.round + 1, !.out = stragglers, !.home = Moved(moved)]
      BY <1>1, <2>2 DEF IsGather
    <3>2. moved \in SUBSET {p \in Partitions: Page!ServableBy(p, g.man)}
      BY <1>1 DEF Page!pinGeneration, GatherTyped
    <3> HIDE DEF Moved, stragglers
    <3> QED BY <3>1, <3>2
  <2> HIDE DEF Moved
  <2> QED BY <2>1, <2>2 DEF Page!askKeys
<1>4. ASSUME NEW moved \in SUBSET {p \in Partitions: Page!ServableBy(p, g.man)},
             g' = [g EXCEPT !.round = g.round + 1, !.out = stragglers, !.home = Moved(moved)]
      PROVE  GatherInv(g')
  <2> DEFINE home == Moved(moved)
  <2>1. /\ home \in [Partitions -> 0..g.man]
        /\ home[Own] = g.home[Own] \/ (home[Own] = g.man /\ Page!ServableBy(Own, g.man))
    BY <1>2
  <2>2. home[Own] = g.home[Own] \/ (home[Own] = g.man /\ Own < g.width[g.man])
    BY <2>1 DEF Page!ServableBy
  <2>3. g' = [g EXCEPT !.round = g.round + 1, !.out = stragglers, !.home = home]
    BY <1>4
  <2> HIDE DEF stragglers, home, Moved
  <2>4. /\ g'.store = g.store /\ g'.width = g.width /\ g'.ask = g.ask /\ g'.pushed = g.pushed /\ g'.parts = g.parts
        /\ g'.reply = g.reply /\ g'.got = g.got /\ g'.man = g.man /\ g'.home = home /\ g'.away = g.away
        /\ g'.pc = "keys" /\ g'.pass = g.pass /\ IsGather(g')
    BY <1>1, <2>3 DEF IsGather
  <2>5. GatherTyped(g')
    BY <1>1, <2>1, <2>2, <2>4 DEF GatherTyped
  <2>6. \A x: HoldersOf(g', x) = HoldersOf(g, x)
    BY <2>4 DEF HoldersOf
  <2>7. FullAsked(g) => FullAsked(g')
    BY <1>2, <2>2, <2>4 DEF FullAsked
  <2>8. g'.reply[Own] <= g'.home[Own]
    BY <1>1, <1>2, <2>2, <2>4 DEF PassAsked
  <2>9. g.pass = "again" /\ g.man <= 2 => g'.home[Own] = 2
    BY <1>1, <2>2, <2>4 DEF PassAsked
  <2>10. PassAsked(g')
    BY <1>1, <2>4, <2>6, <2>7, <2>8, <2>9 DEF PassAsked
  <2> QED BY <1>1, <2>4, <2>5, <2>10 DEF GatherInv
<1>5. CASE g' = Page!Fail(g)
  BY <1>1, <1>5, Failing
<1> HIDE DEF stragglers, Moved
<1> QED BY <1>3, <1>4, <1>5

(* The keys are in, of one build.                                          *)
LEMMA Merges ==
    ASSUME LayoutsAssumption, GatherInv(g), Page!runTwoPhase
    PROVE  GatherInv(g')
<1> DEFINE page == Page!PageOf(g)
<1>1. /\ g.pc = "keys" /\ g.out = {} /\ Page!pinGeneration(g) = {} /\ IsGather(g) /\ GatherTyped(g) /\ PassAsked(g)
      /\ \A p \in g.parts: g.reply[p] # 0
  BY DEF Page!runTwoPhase, GatherInv
<1>2. \/ g' = [g EXCEPT !.probing = FALSE, !.out = g.parts, !.round = 0]
      \/ g' = [g EXCEPT !.pc = "rows", !.out = Page!Needed(page), !.page = page]
  BY DEF Page!runTwoPhase
<1>3. \A p \in g.parts: g.reply[p] = page.build
  <2>1. Page!Min(g.parts) \in g.parts
    <3>1. g.parts \in SUBSET Nat /\ g.parts # {}
      BY <1>1, GatherFacts DEF GatherTyped, PassAsked
    <3>2. Lookup!Min(g.parts) \in g.parts
      BY <3>1, Least
    <3> QED BY <3>2 DEF Page!Min, Lookup!Min
  <2>2. \A p \in g.parts: g.reply[p] = Page!Max({g.reply[x] : x \in g.parts})
    BY <1>1 DEF Page!pinGeneration
  <2>3. page.build = g.reply[Page!Min(g.parts)]
    BY DEF Page!PageOf, Page!PinnedBuild
  <2> HIDE DEF page
  <2> QED BY <2>1, <2>2, <2>3
<1> HIDE DEF page
<1>4. /\ g'.store = g.store /\ g'.width = g.width /\ g'.ask = g.ask /\ g'.pushed = g.pushed /\ g'.parts = g.parts
      /\ g'.reply = g.reply /\ g'.got = g.got /\ g'.man = g.man /\ g'.home = g.home /\ g'.away = g.away
      /\ g'.pass = g.pass /\ IsGather(g')
      /\ \/ g'.pc = "keys" /\ g'.out = g.parts
         \/ g'.pc = "rows" /\ g'.out = Page!Needed(page) /\ g'.page = page /\ g'.probing = g.probing
  <2>1. CASE g' = [g EXCEPT !.probing = FALSE, !.out = g.parts, !.round = 0]
    BY <1>1, <2>1 DEF IsGather
  <2> DEFINE needed == Page!Needed(page)
  <2> HIDE DEF needed
  <2>2. CASE g' = [g EXCEPT !.pc = "rows", !.out = needed, !.page = page]
    BY <1>1, <2>2 DEF IsGather, needed
  <2> QED BY <1>2, <2>1, <2>2 DEF needed
<1>5. GatherTyped(g')
  BY <1>1, <1>4 DEF GatherTyped
<1>6. PassAsked(g')
  BY <1>1, <1>4 DEF PassAsked, FullAsked, HoldersOf
<1>7. g'.pc = "rows" => PageMade(g')
  <2>1. page.build # 0
    BY <1>1, <1>3 DEF PassAsked
  <2> SUFFICES ASSUME g'.pc = "rows" PROVE PageMade(g')
    OBVIOUS
  <2>2. g'.out = Page!Needed(page) /\ g'.page = page /\ Page!PageOf(g') = page
    BY <1>4, SamePage DEF page
  <2> QED BY <1>3, <1>4, <2>1, <2>2 DEF PageMade
<1> QED BY <1>4, <1>5, <1>6, <1>7 DEF GatherInv

(* A partition's rows, of the build its keys were of.                      *)
LEMMA Fetches ==
    ASSUME LayoutsAssumption, GatherInv(g), NEW p \in Partitions, Page!fetchRows(p)
    PROVE  GatherInv(g')
<1>1. g.pc = "rows" /\ IsGather(g) /\ GatherTyped(g) /\ PassAsked(g) /\ PageMade(g)
  BY DEF Page!fetchRows, GatherInv
<1> DEFINE got == [g.got EXCEPT ![p] = g.reply[p]]
<1>2. g' = [g EXCEPT !.got = got, !.out = g.out \ {p}] \/ g' = Page!Fail(g)
  BY <1>1 DEF Page!fetchRows, Page!SameGeneration, IsGather
<1>3. got \in [Partitions -> 0..g.man] /\ \A x \in Partitions: got[x] = IF x = p THEN g.reply[p] ELSE g.got[x]
  BY <1>1 DEF GatherTyped
<1> HIDE DEF got
<1>4. CASE g' = [g EXCEPT !.got = got, !.out = g.out \ {p}]
  <2>1. /\ g'.store = g.store /\ g'.width = g.width /\ g'.ask = g.ask /\ g'.pushed = g.pushed /\ g'.parts = g.parts
        /\ g'.reply = g.reply /\ g'.got = got /\ g'.man = g.man /\ g'.home = g.home /\ g'.away = g.away
        /\ g'.pass = g.pass /\ g'.pc = "rows" /\ g'.out = g.out \ {p} /\ g'.page = g.page /\ g'.probing = g.probing
        /\ IsGather(g')
    BY <1>1, <1>4 DEF IsGather
  <2>2. GatherTyped(g')
    BY <1>1, <1>3, <2>1 DEF GatherTyped
  <2>3. PassAsked(g')
    BY <1>1, <2>1 DEF PassAsked, FullAsked, HoldersOf
  <2>4. Page!PageOf(g') = Page!PageOf(g)
    BY <2>1, SamePage
  <2>5. \A x \in g.parts \cap Page!Needed(g.page): got[x] = g.page.build \/ x \in g.out \ {p}
    <3>1. g.parts \subseteq Partitions
      BY <1>1 DEF GatherTyped
    <3> QED BY <1>1, <1>3, <3>1 DEF PageMade
  <2>6. PageMade(g')
    BY <1>1, <2>1, <2>4, <2>5 DEF PageMade
  <2> QED BY <2>1, <2>2, <2>3, <2>6 DEF GatherInv
<1>5. CASE g' = Page!Fail(g)
  BY <1>1, <1>5, Failing
<1> QED BY <1>2, <1>4, <1>5

(* The coordinator's width is the width of the page's build, or every      *)
(* partition is asked once more.                                           *)
LEMMA Passes ==
    ASSUME LayoutsAssumption, GatherInv(g), Page!gatherPasses
    PROVE  GatherInv(g')
<1> DEFINE b == g.page.build
           h == g.home[Own]
<1>1. /\ g.pc = "rows" /\ g.out = {} /\ IsGather(g) /\ GatherTyped(g) /\ PassAsked(g) /\ PageMade(g)
      /\ \/ g.pass = "listed" /\ b # g.ask.list /\ g' = [g EXCEPT !.pass = "named", !.pc = "start"]
         \/ g.pass = "named" /\ b # g.ask.names /\ g' = Page!Full(g)
         \/ /\ g.pass = "full" /\ g.width[h] # Cardinality(g.parts)
            /\ g' = Page!Ask(g, "again", AllParts(g.width[h]))
         \/ /\ g.pass = "listed" => b = g.ask.list
            /\ g.pass = "named" => b = g.ask.names
            /\ g.pass = "full" => g.width[h] = Cardinality(g.parts)
            /\ g' = [g EXCEPT !.pc = "done"]
  <2>1. Page!Cardinality(g.parts) = Cardinality(g.parts)
    BY DEF Page!Cardinality, Cardinality
  <2> QED BY <2>1 DEF Page!gatherPasses, GatherInv, AllParts
<1>2. /\ g.man \in Nat /\ g.man >= 1 /\ Own \in Partitions /\ Own \in Nat /\ h \in 0..g.man /\ g.reply[Own] \in 0..g.man
      /\ h # 0 => Own < g.width[h]
      /\ \A x \in 1..g.man:
           /\ g.width[x] \in Nat /\ HoldersOf(g, x) \subseteq AllParts(g.width[x]) /\ AllParts(g.width[x]) \subseteq Partitions
           /\ \A p \in Nat: p \in AllParts(g.width[x]) <=> p < g.width[x]
  BY <1>1, GatherFacts DEF GatherTyped
<1>3. \A x \in 1..g.man: Cardinality(AllParts(g.width[x])) = g.width[x]
  <2> SUFFICES ASSUME NEW x \in 1..g.man PROVE Cardinality(AllParts(g.width[x])) = g.width[x]
    OBVIOUS
  <2>1. g.width[x] \in Nat
    BY <1>2
  <2> DEFINE last == g.width[x] - 1
  <2>2. last \in Int /\ 0 \in Int
    BY <2>1
  <2> HIDE DEF last
  <2>3. Cardinality(0..last) = IF 0 > last THEN 0 ELSE last - 0 + 1
    BY <2>2, FS_Interval, Zenon
  <2>4. Cardinality(0..(g.width[x] - 1)) = IF 0 > g.width[x] - 1 THEN 0 ELSE (g.width[x] - 1) - 0 + 1
    BY <2>3 DEF last
  <2> QED BY <2>1, <2>4 DEF AllParts
<1>4. b # 0 /\ (g.pass \in {"full", "again"} => b = g.reply[Own] /\ b <= h /\ b \in 1..g.man /\ h \in 1..g.man)
  <2>1. b # 0 /\ (g.pass \in {"full", "again"} => b = g.reply[Own] /\ b <= h)
    BY <1>1 DEF PassAsked, PageMade
  <2> HIDE DEF b, h
  <2> QED BY <1>2, <2>1
<1>5. \A p \in g.parts: g.reply[p] = b
  BY <1>1 DEF PageMade
<1> HIDE DEF h, b
<1>6. ASSUME g.pass = "full", g.man <= 2
      PROVE  /\ g.width[h] = Cardinality(g.parts) => g.parts = AllParts(g.width[b])
             /\ g.width[h] # Cardinality(g.parts) => h = 2
  <2>1. FullAsked(g) /\ b \in 1..g.man /\ h \in 1..g.man
    BY <1>1, <1>2, <1>4, <1>6 DEF PassAsked
  <2>2. CASE g.parts = AllParts(g.width[1])
    <3>1. Cardinality(g.parts) = g.width[1]
      BY <1>2, <1>3, <2>2
    <3>2. g.man \in {1, 2} /\ b \in {1, 2} /\ h \in {1, 2} /\ b <= h
      BY <1>2, <1>4, <1>6, <2>1
    <3> QED BY <2>2, <3>1, <3>2
  <2>3. CASE g.parts = AllParts(g.width[2]) /\ g.man = 2 /\ h # 1 /\ g.reply[Own] # 1
    <3>1. b = 2 /\ h = 2
      BY <1>2, <1>4, <1>6, <2>1, <2>3
    <3> QED BY <1>3, <2>3, <3>1
  <2> QED BY <2>1, <2>2, <2>3 DEF FullAsked, h
<1>7. CASE g.pass = "listed" /\ b # g.ask.list /\ g' = [g EXCEPT !.pass = "named", !.pc = "start"]
  <2>1. /\ g'.store = g.store /\ g'.width = g.width /\ g'.ask = g.ask /\ g'.pushed = g.pushed /\ g'.parts = g.parts
        /\ g'.reply = g.reply /\ g'.got = g.got /\ g'.man = g.man /\ g'.home = g.home /\ g'.away = g.away
        /\ g'.pc = "start" /\ IsGather(g')
    BY <1>1, <1>7 DEF IsGather
  <2>2. GatherTyped(g')
    BY <1>1, <2>1 DEF GatherTyped
  <2> QED BY <2>1, <2>2 DEF GatherInv
<1>8. CASE g.pass = "named" /\ b # g.ask.names /\ g' = Page!Full(g)
  BY <1>1, <1>8, AskingAll
<1>9. CASE g.pass = "full" /\ g.width[h] # Cardinality(g.parts) /\ g' = Page!Ask(g, "again", AllParts(g.width[h]))
  <2> DEFINE parts == AllParts(g.width[h])
  <2>1. parts \in SUBSET Partitions /\ Own \in parts
    BY <1>2, <1>4, <1>9
  <2>2. g.man <= 2 => parts = AllParts(g.width[2]) /\ g.man = 2 /\ g.home[Own] = 2
    <3> SUFFICES ASSUME g.man <= 2 PROVE h = 2 /\ g.man = 2
      BY DEF h
    <3>1. h = 2
      BY <1>6, <1>9
    <3> QED BY <1>2, <3>1
  <2>3. g' = Page!Ask(g, "again", parts)
    BY <1>9
  <2> HIDE DEF parts
  <2> QED BY <1>1, <2>1, <2>2, <2>3, Asking
<1>10. CASE /\ g.pass = "listed" => b = g.ask.list
            /\ g.pass = "named" => b = g.ask.names
            /\ g.pass = "full" => g.width[h] = Cardinality(g.parts)
            /\ g' = [g EXCEPT !.pc = "done"]
  <2>1. /\ g'.store = g.store /\ g'.width = g.width /\ g'.ask = g.ask /\ g'.pushed = g.pushed /\ g'.parts = g.parts
        /\ g'.reply = g.reply /\ g'.got = g.got /\ g'.man = g.man /\ g'.home = g.home /\ g'.away = g.away
        /\ g'.pc = "done" /\ g'.page = g.page /\ g'.probing = g.probing /\ IsGather(g')
    BY <1>1, <1>10 DEF IsGather
  <2>2. GatherTyped(g')
    BY <1>1, <2>1 DEF GatherTyped
  <2>3. PageMade(g')
    <3>1. Page!PageOf(g') = Page!PageOf(g)
      BY <2>1, SamePage
    <3>2. \A p \in g.parts \cap Page!Needed(g.page): g.got[p] = g.page.build
      BY <1>1 DEF PageMade
    <3> QED BY <1>1, <2>1, <3>1, <3>2 DEF PageMade
  <2>4. g.man <= 2 => HoldersOf(g, b) \subseteq g.parts
    <3> SUFFICES ASSUME g.man <= 2 PROVE HoldersOf(g, b) \subseteq g.parts
      OBVIOUS
    <3>1. CASE g.pass \in {"listed", "named"}
      BY <1>1, <1>10, <3>1 DEF PassAsked
    <3>2. CASE g.pass = "full"
      BY <1>2, <1>4, <1>6, <1>10, <3>2
    <3>3. CASE g.pass = "again"
      <4>1. g.parts = AllParts(g.width[2]) /\ g.man = 2 /\ g.home[Own] = 2 /\ g.reply[Own] # 1
        BY <1>1, <3>3 DEF PassAsked
      <4>2. b = 2
        BY <1>2, <1>4, <3>3, <4>1 DEF h
      <4> QED BY <1>2, <4>1, <4>2
    <3> QED BY <1>1, <3>1, <3>2, <3>3 DEF PassAsked
  <2>5. g'.man <= 2 => HoldersOf(g', g'.page.build) \subseteq g'.parts
    BY <2>1, <2>4 DEF HoldersOf, b
  <2> QED BY <2>1, <2>2, <2>3, <2>5 DEF GatherInv
<1> QED BY <1>1, <1>7, <1>8, <1>9, <1>10

LEMMA GatherSteps ==
    ASSUME LayoutsAssumption, GatherInv(g), [Page!Next]_g
    PROVE  GatherInv(g')
<1>1. CASE Page!CallFails
  BY <1>1, Failing DEF Page!CallFails, GatherInv
<1>2. ASSUME NEW p \in Partitions,
             \/ Page!Swap(p) \/ Page!SwapAway(p) \/ Page!Answer(p)
             \/ Page!AnswerAway(p) \/ Page!Late(p) \/ Page!fetchRows(p)
      PROVE  GatherInv(g')
  BY <1>2, Swaps, Answering, Fetches
<1>3. CASE UNCHANGED g
  BY <1>3
<1> QED BY <1>1, <1>2, <1>3, Publishes, GathersListed, GathersNamed, AsksAgain, Merges, Passes DEF Page!Next

LEMMA GatherHolds ==
    ASSUME GatherInv(g)
    PROVE  Page!PageOfOneBuild
<1>1. ASSUME PageMade(g), g.pc = "done", g.man <= 2 => HoldersOf(g, g.page.build) \subseteq g.parts
      PROVE  Page!PageOfOneBuild
  <2>1. \A p \in g.parts \cap Page!Needed(g.page): g.got[p] = g.page.build
    BY <1>1 DEF PageMade
  <2> QED BY <1>1, <2>1 DEF PageMade, HoldersOf, Page!Holders, Page!PageOfOneBuild
<1>2. ASSUME HoldersOf(g, g.page.build) = {}, g.page = [Page!NoPage EXCEPT !.build = g.page.build]
      PROVE  Page!PageOfOneBuild
  BY <1>2 DEF HoldersOf, Page!Holders, Page!PageOfOneBuild
<1>3. g.pc # "done" => Page!PageOfOneBuild
  BY DEF Page!PageOfOneBuild
<1> QED BY <1>1, <1>2, <1>3 DEF GatherInv

(* A page that is served was put together from answers of one build and    *)
(* that build's rows, whatever was published and swapped while it was      *)
(* gathered; and if at most one build was, no partition with a match was   *)
(* left out of it (search-engine-do.ts gatherRun and gatherPasses).        *)
THEOREM PagesAreOfOneBuild == Page!Init /\ [][Page!Next]_g => []PageOfOneBuild
<1>1. LayoutsAssumption
  BY ServingAssumption
<1>2. Page!Init => GatherInv(g)
  BY <1>1, GatherStarts
<1>3. GatherInv(g) /\ [Page!Next]_g => GatherInv(g)'
  BY <1>1, GatherSteps
<1>4. GatherInv(g) => PageOfOneBuild
  BY GatherHolds DEF PageOfOneBuild
<1> QED BY <1>2, <1>3, <1>4, PTL
=============================================================================
