----------------------------- MODULE MCServing -----------------------------
(***************************************************************************)
(* The six machines a page is served by, side by side.  They share no      *)
(* state: Init picks one and its steps are the steps, so that one run      *)
(* explores each of them whole.                                            *)
(***************************************************************************)
EXTENDS Serving, TLC

VARIABLE q      \* WorkerCall

vars == <<which, c, g, w, n, l, q>>
Unused == "unused"

-----------------------------------------------------------------------------
(* Gathers over builds that keep their partition count, gain a partition   *)
(* or lose one, and over every way three rows of one build can lie.        *)
Row(k, p, a, r) == [key |-> k, part |-> p, art |-> a, rank |-> r]
Narrow1 == {Row(1, 0, 0, 0), Row(2, 1, 0, 0), Row(3, 1, -1, 2), Row(4, 0, -1, 1), Row(5, 1, 0, 0)}
Narrow2 == {Row(1, 1, 0, 0), Row(2, 1, 7, 2), Row(3, 0, 7, 1), Row(4, 1, 0, 0)}
Wide == {Row(1, 1, 0, 0), Row(2, 2, 7, 2), Row(3, 0, 7, 1), Row(4, 2, 0, 0), Row(5, 0, 0, 0)}
Layout(stores, widths) == [store |-> stores, width |-> widths]
MCLayouts ==
    {Layout(<<Narrow1, Wide>>, <<2, 3>>), Layout(<<Narrow1, Narrow2>>, <<2, 2>>),
     Layout(<<Wide, Narrow1>>, <<3, 2>>), Layout(<<{}, {Row(1, 1, 0, 0)}>>, <<2, 2>>)}
    \cup {Layout(<<{Row(k, a[k][1], a[k][2], (3 * k) % 5) : k \in 1..3}>>, <<2>>) :
            a \in [1..3 -> {0, 1} \X {0, -1, 7}]}

Query(offset, limit, list, names) == [offset |-> offset, limit |-> limit, list |-> list, names |-> names]
MCAsks == {Query(0, 2, 0, 0), Query(2, 2, 1, 0), Query(1, 2, 0, 1), Query(0, 3, 2, 2)}

-----------------------------------------------------------------------------
(* Two isolates of a region that may open a second shard, and three        *)
(* regions, the last of which starts unserved.                             *)
MCContinent ==
    [x \in {"enam", "EWR"} |-> "NA"] @@ [x \in {"weur", "FRA"} |-> "EU"] @@ [x \in {"sam", "GRU"} |-> "SA"]
MCSeed == [h \in {"enam", "weur", "sam"} |-> IF h = "sam" THEN "enam" ELSE "none"]
MCAnswers == [enam |-> {<<>>, <<"EWR">>, <<"FRA">>}, weur |-> {<<"FRA">>}, sam |-> {<<"GRU">>, <<"EWR">>}]
MCHints == <<"enam", "weur", "sam">>

-----------------------------------------------------------------------------
(* Lookups of keys in no, one or two of three partitions, in either build  *)
(* or both, and of oracle ids across a change of the partition count.      *)
Id(h1, h2) == [kind |-> "id", holders |-> <<h1, h2>>, home |-> [x \in 2..3 |-> 0]]
Oracle(home, widths, in) ==
    [kind |-> "oracle", holders |-> [b \in {1, 2} |-> IF in[b] THEN {home[widths[b]]} ELSE {}], home |-> home]
Ids(held) == UNION {{Id(h, h), Id(h, {}), Id({}, h), Id({}, {})} : h \in held}
Homes == {[x \in 2..3 |-> IF x = 2 THEN a ELSE b] : a \in {0, 1}, b \in {0, 2}}
World(rule, widths, keys) == [rule |-> rule, width |-> widths, keys |-> keys]
MCWorlds ==
    {World("lowest", <<3, 3>>, <<k>>) : k \in Ids({{0}, {2}, {0, 1}, {1, 2}})}
    \cup {World("sole", <<3, 3>>, <<k>>) : k \in Ids({{0}, {2}})}
    \cup {World("batch", <<3, 3>>, <<k, Id({1, 2}, {1, 2})>>) : k \in Ids({{0}, {1, 2}})}
    \cup {World("batch", x, <<Id({1}, {1}), Oracle(home, x, in)>>) :
            x \in {<<2, 3>>, <<3, 2>>}, home \in Homes, in \in [{1, 2} -> BOOLEAN]}
    \cup {World(rule, x, <<Oracle(home, x, in)>>) :
            rule \in {"pinned", "named"}, x \in {2, 3} \X {2, 3}, home \in Homes, in \in [{1, 2} -> BOOLEAN]}

-----------------------------------------------------------------------------
(* Two requests of an isolate.                                             *)
Kinds(a, b) == [r \in {"r1", "r2"} |-> IF r = "r1" THEN a ELSE b]
Worker == INSTANCE WorkerCall WITH
    Requests <- {"r1", "r2"}, Wanted <- {Kinds("catalog", "catalog"), Kinds("catalog", "page"), Kinds("page", "page")},
    ENGINE_CALL_ATTEMPTS <- 2, ENGINE_COOLING_STRIKES <- 2, Nobody <- "nobody"

-----------------------------------------------------------------------------
Init ==
    \/ which = "calls" /\ Calls!Init /\ g = Unused /\ w = Unused /\ n = Unused /\ l = Unused /\ q = Unused
    \/ which = "page" /\ Page!Init /\ c = Unused /\ w = Unused /\ n = Unused /\ l = Unused /\ q = Unused
    \/ which = "shards" /\ Region!Init /\ c = Unused /\ g = Unused /\ n = Unused /\ l = Unused /\ q = Unused
    \/ which = "nights" /\ Nights!Init /\ c = Unused /\ g = Unused /\ w = Unused /\ l = Unused /\ q = Unused
    \/ which = "lookup" /\ Lookup!Init /\ c = Unused /\ g = Unused /\ w = Unused /\ n = Unused /\ q = Unused
    \/ which = "worker" /\ Worker!Init /\ c = Unused /\ g = Unused /\ w = Unused /\ n = Unused /\ l = Unused

Next ==
    \/ which = "calls" /\ Calls!Next /\ UNCHANGED <<which, g, w, n, l, q>>
    \/ which = "page" /\ Page!Next /\ UNCHANGED <<which, c, w, n, l, q>>
    \/ which = "shards" /\ Region!Next /\ UNCHANGED <<which, c, g, n, l, q>>
    \/ which = "nights" /\ Nights!Next /\ UNCHANGED <<which, c, g, w, l, q>>
    \/ which = "lookup" /\ Lookup!Next /\ UNCHANGED <<which, c, g, w, n, q>>
    \/ which = "worker" /\ Worker!Next /\ UNCHANGED <<which, c, g, w, n, l>>

(* Each machine's own fairness.                                            *)
Spec ==
    /\ Init /\ [][Next]_vars
    /\ WF_c(which = "calls" /\ Calls!Leg) /\ WF_c(which = "calls" /\ Calls!Rows)
    /\ \A i \in Isolates:
         /\ WF_w(which = "shards" /\ Region!feedAutoscaler(i))
         /\ WF_w(which = "shards" /\ Region!Tick(i))
         /\ WF_w(which = "shards" /\ \E s \in Region!Shards: Region!resolveEngine(i, s))
         /\ WF_w(which = "shards" /\ \E s \in Region!Shards: Region!WarmUp(i, s))
    /\ \A s \in Region!Shards: WF_w(which = "shards" /\ Region!Age(s))
    /\ \A r \in {"r1", "r2"}: WF_q(which = "worker" /\ Worker!Step(r))

-----------------------------------------------------------------------------
(* What must happen, stated in full where the machine is.                  *)

(* The calls of a gather, hedged by sibling-hedge.ts, come to an end.      *)
GatherEnds == <>(which = "calls" => Calls!Over)

(* shard-controller.ts folds a region that has grown quiet.                *)
QuietFolds == (which = "shards" /\ w.quiet) ~> (which = "shards" => Region!Folded)

(* A request ends although the one whose read it shares (shared-load.ts)   *)
(* was cancelled, or its own call (remote-engine.ts) fails.                *)
RequestEnds == <>(which = "worker" => Worker!Answered)
=============================================================================
