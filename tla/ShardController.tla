--------------------------- MODULE ShardController ---------------------------
(***************************************************************************)
(* How many shards a region's isolates route to:                           *)
(* src/engine/shard-controller.ts, its callers in src/index.ts and         *)
(* remote-engine.ts, and the rendezvous of search-engine-do.ts.            *)
(*                                                                         *)
(* An isolate raises its target when the engines look saturated, warms the *)
(* new shard, and routes to it once it answers.  Every request carries the *)
(* width the isolate holds on its own evidence to the object it asks, and  *)
(* brings back the widest one reported there lately.  Rates and times are  *)
(* left out: whether a reply shows saturation is a choice while the region *)
(* is busy, and every clock runs out some time after it was last reset.    *)
(* An isolate has one request out at a time.                               *)
(***************************************************************************)
EXTENDS Integers, FiniteSets, FiniteSetsExt

CONSTANTS
    Isolates,
    MaxShards       \* The widest a region may be: effectiveShardCap.

VARIABLE w

Shards == 0..(MaxShards - 1)

(* An isolate's state for the region.  "reply" is the announcement on its  *)
(* way back (0: none), "pings" the shards being warmed.                    *)
stateFor ==
    [target |-> 1, ready |-> 1, own |-> 1, pendingWarm |-> 0, pings |-> {}, clock |-> "unset", reply |-> 0]

NoAnnouncement == [shards |-> 1, fresh |-> TRUE]

Init ==
    w = [iso |-> [i \in Isolates |-> stateFor], ann |-> [s \in Shards |-> NoAnnouncement],
         warmed |-> {0}, quiet |-> FALSE]

(* Mutant: the width routed to, adopted or not, is the one reported.       *)
currentShardWidth_Adopted(iso) == iso.ready
(* Mutant: a shard that is still warming is reported.                      *)
currentShardWidth_Target(iso) == iso.own
(* What an isolate reports: its own width, of shards that are warm.        *)
currentShardWidth(iso) == Min({iso.own, iso.ready})

foldWidthAnnouncement(ann, reported) ==
    IF reported >= ann.shards \/ ~ann.fresh THEN [shards |-> reported, fresh |-> TRUE] ELSE ann

canExpand(iso) == iso.target < MaxShards

expand(iso) == [iso EXCEPT !.target = @ + 1, !.own = iso.target + 1, !.pendingWarm = iso.target]

(* Up to the announcement, or down to it over what was only adopted, and   *)
(* not while a shard of its own is being warmed.                           *)
adoptShardWidth(iso, announced) ==
    LET capped == Min({announced, MaxShards})
        lowered == Max({capped, Min({iso.own, iso.ready})})
    IN  IF capped > iso.ready THEN [iso EXCEPT !.ready = capped, !.target = Max({@, capped})]
        ELSE IF iso.target = iso.ready /\ lowered < iso.ready
        THEN [iso EXCEPT !.ready = lowered, !.target = lowered] ELSE iso

(* After an idle stretch one shard is given up; the cap holds from here on.*)
pickShard(iso) ==
    LET contracts == iso.target > 1 /\ iso.clock = "expired"
        target == IF contracts THEN iso.target - 1 ELSE iso.target
        folded == IF ~contracts THEN iso
                  ELSE [iso EXCEPT !.target = target, !.ready = Min({@, target}), !.own = Min({@, target}),
                                   !.clock = "running"]
    IN  [folded EXCEPT !.target = Min({@, MaxShards}), !.ready = Min({@, MaxShards})]

(* A request: the shard it goes to, the warm-up of a shard that was opened,*)
(* and the object's announcement, which answers it.                        *)
resolveEngine(i, s) ==
    LET iso == pickShard(w.iso[i])
        ann == foldWidthAnnouncement(w.ann[s], currentShardWidth(iso))
    IN  /\ w.iso[i].reply = 0 /\ s < iso.ready
        /\ w' = [w EXCEPT
             !.iso[i] = [iso EXCEPT !.pendingWarm = 0, !.reply = ann.shards,
                                    !.pings = IF iso.pendingWarm = 0 THEN @ ELSE @ \cup {iso.pendingWarm}],
             !.ann[s] = ann]

(* Its reply.  While the region is busy it may show saturation, by rate,   *)
(* by queue depth or by latency, and that may be enough to expand.         *)
feedAutoscaler(i) ==
    LET iso == adoptShardWidth([w.iso[i] EXCEPT !.reply = 0], w.iso[i].reply)
        saturated == [iso EXCEPT !.clock = "running"]
    IN  /\ w.iso[i].reply # 0
        /\ \/ w' = [w EXCEPT !.iso[i] = iso]
           \/ ~w.quiet /\ w' = [w EXCEPT !.iso[i] = saturated]
           \/ ~w.quiet /\ canExpand(iso) /\ w' = [w EXCEPT !.iso[i] = expand(saturated)]

(* The request, or its reply, is lost.                                     *)
CallFails(i) == ~w.quiet /\ w.iso[i].reply # 0 /\ w' = [w EXCEPT !.iso[i].reply = 0]

(* A warm-up ends: every partition of the shard has answered, or one has   *)
(* not, or the platform ended the task and nobody is told.                 *)
markShardReady(iso, shard) == [iso EXCEPT !.ready = Min({Max({@, shard + 1}), iso.target})]
unmarkPending(iso) ==
    IF iso.target <= iso.ready THEN iso
    ELSE [iso EXCEPT !.target = iso.ready, !.own = Min({@, iso.ready})]

WarmUp(i, s) ==
    LET iso == [w.iso[i] EXCEPT !.pings = @ \ {s}]
    IN  /\ s \in w.iso[i].pings
        /\ \/ w' = [w EXCEPT !.iso[i] = markShardReady(iso, s), !.warmed = @ \cup {s}]
           \/ w' = [w EXCEPT !.iso[i] = unmarkPending(iso)]
           \/ w' = [w EXCEPT !.iso[i] = iso]

-----------------------------------------------------------------------------
(* What happens around them.                                               *)
Tick(i) == w.iso[i].clock = "running" /\ w' = [w EXCEPT !.iso[i].clock = "expired"]
(* An announcement of one shard yields to any, old or not.                 *)
Age(s) == w.ann[s].fresh /\ w.ann[s].shards > 1 /\ w' = [w EXCEPT !.ann[s].fresh = FALSE]
Quieten == ~w.quiet /\ w' = [w EXCEPT !.quiet = TRUE]
NewIsolate(i) == ~w.quiet /\ w.iso[i] # stateFor /\ w' = [w EXCEPT !.iso[i] = stateFor]
ObjectReset(s) == ~w.quiet /\ w.ann[s].shards # 1 /\ w' = [w EXCEPT !.ann[s] = NoAnnouncement]

Next ==
    \/ Quieten
    \/ \E i \in Isolates: feedAutoscaler(i) \/ CallFails(i) \/ Tick(i) \/ NewIsolate(i)
    \/ \E s \in Shards: Age(s) \/ ObjectReset(s)
    \/ \E i \in Isolates, s \in Shards: resolveEngine(i, s) \/ WarmUp(i, s)

(* Traffic keeps coming, to whichever shards, warm-ups have deadlines, and *)
(* time passes.                                                            *)
Fairness ==
    /\ \A i \in Isolates: WF_w(feedAutoscaler(i)) /\ WF_w(Tick(i))
                            /\ WF_w(\E s \in Shards: resolveEngine(i, s)) /\ WF_w(\E s \in Shards: WarmUp(i, s))
    /\ \A s \in Shards: WF_w(Age(s))

Spec == Init /\ [][Next]_w /\ Fairness
-----------------------------------------------------------------------------
(* "A newly opened shard joins the draw only once its warm ping has        *)
(* resolved": no isolate routes to a shard that was never warmed.  The     *)
(* code breaks this: a warm-up that ends admits every shard below its own. *)
ReadyAreWarm == \A i \in Isolates: 0..(w.iso[i].ready - 1) \subseteq w.warmed

(* What it keeps is weaker: an isolate is never as wide as an announcement *)
(* alone, or a shard that is still warming, would make it; the last shard  *)
(* it routes to, or a later one, has been warmed by some isolate.          *)
WidthWasWarmed == \A i \in Isolates: \E s \in w.warmed: s >= w.iso[i].ready - 1

Folded == \A i \in Isolates: w.iso[i].ready = 1

(* A region that has grown quiet folds back to one shard: no announcement  *)
(* is kept alive by the isolates that adopted it.                          *)
QuietFolds == w.quiet ~> Folded
=============================================================================
