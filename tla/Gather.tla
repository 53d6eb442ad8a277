------------------------------- MODULE Gather -------------------------------
(***************************************************************************)
(* One gather of a search page from the partitions of the store:           *)
(* src/engine/gather.ts and the gather* methods of search-engine-do.ts.    *)
(*                                                                         *)
(* Every partition object of the region and its neighbour's copy serve a   *)
(* build each and move to the published one when they like.  The           *)
(* coordinator, itself the object of partition Own, asks for keys, pins    *)
(* the newest build any answer names, asks the stragglers again, merges    *)
(* the keys and asks for the rows of the page it has cut.  A row is its    *)
(* sort key, which also stands for its printing id.                        *)
(***************************************************************************)
EXTENDS Integers, Sequences, FiniteSets, FiniteSetsExt, SequencesExt

CONSTANTS
    Partitions,          \* 0..n
    Own,                 \* The coordinator's partition.
    DEEP_OFFSET_PROBE,
    Layouts,             \* [store, width]: what the query matches and the partition count, by
                         \* build.  A row is [key, part, art, rank]; art 0 is a row of its own,
                         \* -1 an art-less one, another an artwork that two cards share.
    Asks                 \* Requests [offset, limit, list, names]: the builds of the two indexes, or 0.

VARIABLE g

-----------------------------------------------------------------------------
(* What one partition answers, and what is made of the answers.            *)

BestRank(rows) == CHOOSE r \in rows: \A o \in rows: r.rank <= o.rank
ByKey(rows) == SetToSortSeq(rows, LAMBDA a, b: a.key < b.key)
TakeFirst(seq, n) == SubSeq(seq, 1, Min({n, Len(seq)}))

(* Its best rows in order, its candidate for the art-less row and those    *)
(* for the artworks two cards share, which the others leave out.           *)
queryKeys(rows, limit, inlineRows) ==
    LET own == ByKey({r \in rows: r.art = 0})
    IN  [total |-> Len(own),
         entries |-> TakeFirst(own, limit),
         inline |-> Min({inlineRows, limit, Len(own)}),
         artless |-> {BestRank({r \in rows: r.art = -1}) : x \in {r \in rows: r.art = -1}},
         shared |-> {BestRank({r \in rows: r.art = a}) : a \in {r.art : r \in rows} \ {0, -1}}]

(* The head with the smallest key goes first, the earlier stream on a tie. *)
mergeKeyStreams(streams) ==
    LET merge[heads \in [DOMAIN streams -> Nat \ {0}]] ==
          LET left == {s \in DOMAIN streams: heads[s] <= Len(streams[s])}
              at(s) == streams[s][heads[s]]
          IN  IF left = {} THEN <<>>
              ELSE LET best == CHOOSE s \in left: \A o \in left:
                                 at(s).key < at(o).key \/ (at(s).key = at(o).key /\ s <= o)
                   IN  <<[row |-> at(best), index |-> heads[best], stream |-> best]>>
                       \o merge[[heads EXCEPT ![best] = @ + 1]]
    IN  merge[[s \in DOMAIN streams |-> 1]]

(* Mutant: every partition's art-less candidate becomes a row.             *)
pickArtless_All(packets) == UNION {packets[i].artless : i \in DOMAIN packets}

pickArtless(packets) ==
    LET all == UNION {packets[i].artless : i \in DOMAIN packets} IN {BestRank(all) : x \in all}

pickShared(packets) ==
    LET all == UNION {packets[i].shared : i \in DOMAIN packets}
    IN  {BestRank({c \in all: c.art = a}) : a \in {c.art : c \in all}}

Apart(packets) == pickArtless(packets) \cup pickShared(packets)

mergeApart(packets) ==
    mergeKeyStreams([i \in DOMAIN packets |-> packets[i].entries] \o <<ByKey(Apart(packets))>>)

TotalOf(packets) == FoldFunction(LAMBDA x, y: x.total + y, 0, packets) + Cardinality(Apart(packets))

(* The page, and of each of its rows whether it came with the keys.        *)
selectPage(packets, offset, limit) ==
    LET merged == mergeApart(packets)
        page == SubSeq(merged, offset + 1, Min({offset + limit, Len(merged)}))
        Carried(ref) == ref.stream \in DOMAIN packets /\ ref.index <= packets[ref.stream].inline
    IN  [i \in DOMAIN page |-> [row |-> page[i].row, inline |-> Carried(page[i])]]

(* Four standard deviations above a partition's share, on a first page.    *)
inlineSlack(limit, count) == CHOOSE k \in 0..(4 * limit): /\ (k * count) * (k * count) >= 16 * limit * (count - 1)
                                                          /\ \A j \in 0..(k - 1): (j * count) * (j * count) < 16 * limit * (count - 1)
inlineRowBudget(offset, limit, count) ==
    IF offset > 0 THEN 0 ELSE Min({limit, (limit + count - 1) \div count + inlineSlack(limit, count)})

-----------------------------------------------------------------------------
(* The gather.                                                             *)

ServableBy(p, b) == b # 0 /\ p < g.width[b]
RowsOf(s, p) == {r \in s.store[s.reply[p]]: r.part = p}
Holders(b) == {r.part : r \in g.store[b]}

NoAnswer == [p \in Partitions |-> 0]
NoPage == [build |-> 0, total |-> 0, slots |-> <<>>]

Init ==
    \E layout \in Layouts, ask \in Asks, loaded, pushed \in {0, 1}:
      /\ loaded = 1 \/ pushed = 1 => Own < layout.width[1]
      /\ g = [store |-> layout.store, width |-> layout.width, ask |-> ask, man |-> 1, pushed |-> pushed,
              home |-> [p \in Partitions |-> IF p >= layout.width[1] THEN 0 ELSE IF p = Own THEN loaded ELSE 1],
              away |-> [p \in Partitions |-> IF p >= layout.width[1] THEN 0 ELSE 1],
              pass |-> "listed", pc |-> "start", parts |-> {}, out |-> {}, reply |-> NoAnswer,
              heard |-> {}, late |-> {}, round |-> 0, probing |-> FALSE, got |-> NoAnswer, page |-> NoPage]

(* A new publication, and an object that moves to it.                      *)
Publish == g.man < Len(g.width) /\ g' = [g EXCEPT !.man = @ + 1]
Swap(p) == g.home[p] # 0 /\ g.home[p] # g.man /\ ServableBy(p, g.man) /\ g' = [g EXCEPT !.home[p] = g.man]
SwapAway(p) == g.away[p] # g.man /\ ServableBy(p, g.man) /\ g' = [g EXCEPT !.away[p] = g.man]

(* The gather ends without a page: a call that failed, or one of its       *)
(* refusals.  The page of an earlier pass is not the answer.               *)
Fail(s) == [s EXCEPT !.pc = "failed", !.page = NoPage]

Ask(s, pass, parts) ==
    [s EXCEPT !.pass = pass, !.pc = "keys", !.parts = parts, !.out = parts, !.reply = NoAnswer,
              !.heard = {}, !.late = {}, !.round = 0, !.got = NoAnswer, !.page = NoPage,
              !.probing = s.ask.offset >= DEEP_OFFSET_PROBE]

(* The width to gather at: of the store loaded, else of a manifest this    *)
(* object can serve of, the one pushed before the published one.           *)
gatherWidth(s) ==
    IF s.home[Own] # 0 THEN s.width[s.home[Own]]
    ELSE IF ServableBy(Own, s.pushed) THEN s.width[s.pushed]
    ELSE IF ServableBy(Own, s.man) THEN s.width[s.man] ELSE 0

Full(s) == IF gatherWidth(s) = 0 THEN Fail(s) ELSE Ask(s, "full", 0..(gatherWidth(s) - 1))

(* The routing index names the partitions of its build that can match.     *)
gatherListed ==
    /\ g.pc = "start" /\ g.pass = "listed"
    /\ LET b == IF g.ask.list <= g.man THEN g.ask.list ELSE 0
       IN  g' = IF /\ b # 0 /\ Holders(b) # {} /\ g.home[Own] \in {0, b}
                   /\ \A p \in Holders(b): p < gatherWidth(g)
                THEN Ask(g, "listed", Holders(b)) ELSE [g EXCEPT !.pass = "named"]

(* The names index does, for a query by name; this object loads its store  *)
(* first, and with no partition there is no row.                           *)
gatherNamed ==
    /\ g.pc = "start" /\ g.pass = "named"
    /\ LET b == IF g.ask.names <= g.man THEN g.ask.names ELSE 0
           loads == IF g.home[Own] # 0 THEN {g.home[Own]} ELSE {x \in {0, g.man, g.pushed}: x = 0 \/ ServableBy(Own, x)}
       IN  \E loaded \in IF b = 0 THEN {g.home[Own]} ELSE loads:
             LET s == [g EXCEPT !.home[Own] = loaded]
             IN  g' = IF b = 0 \/ loaded = 0 \/ \E p \in Holders(b): p >= g.width[loaded] THEN Full(s)
                      ELSE IF Holders(b) = {} THEN [s EXCEPT !.pc = "done", !.page = [NoPage EXCEPT !.build = b]]
                      ELSE Ask(s, "named", Holders(b))

(* An answer from the object itself, which loads its store if it has none. *)
Answer(p) ==
    /\ g.pc = "keys" /\ p \in g.out
    /\ \E b \in IF g.home[p] # 0 THEN {g.home[p]} ELSE {g.man, IF p = Own THEN g.pushed ELSE 0}:
         /\ ServableBy(p, b) \/ g.home[p] = b
         /\ b # 0
         /\ g' = [g EXCEPT !.home[p] = b, !.reply[p] = b, !.out = @ \ {p},
                           !.heard = IF p = Own THEN @ ELSE @ \cup {b}]

(* The neighbour's answer is taken only of the one build the region's own  *)
(* answers name, which must be this object's too.                          *)
refuse(b) == ~(g.heard = {b} /\ g.home[Own] \in {0, b})

AnswerAway(p) ==
    /\ g.pc = "keys" /\ p \in g.out \ {Own} /\ g.away[p] # 0 /\ ~refuse(g.away[p])
    /\ g' = [g EXCEPT !.reply[p] = g.away[p], !.out = @ \ {p}, !.late = @ \cup {p}]

(* The call the neighbour was faster than is answered after all.           *)
Late(p) == p \in g.late /\ g' = [g EXCEPT !.late = @ \ {p}, !.heard = @ \cup {g.home[p]}]

CallFails == g.pc \in {"keys", "rows"} /\ g' = Fail(g)

pinGeneration(s) ==
    LET pinned == Max({s.reply[p] : p \in s.parts}) IN {p \in s.parts: s.reply[p] # pinned}

(* Stragglers are asked again, and once more after they were told to       *)
(* refresh, which an object may not manage.                                *)
askKeys ==
    LET stragglers == pinGeneration(g)
        again == [g EXCEPT !.round = @ + 1, !.out = stragglers]
    IN  /\ g.pc = "keys" /\ g.out = {} /\ stragglers # {}
        /\ \/ g.round = 0 /\ g' = again
           \/ /\ g.round = 1
              /\ \E moved \in SUBSET {p \in stragglers: ServableBy(p, g.man)}:
                   g' = [again EXCEPT !.home = [p \in Partitions |-> IF p \in moved THEN g.man ELSE @[p]]]
           \/ g.round = 2 /\ g' = Fail(g)

(* The packets of the answers, in the order of the partitions asked.       *)
InOrder(parts) == SetToSortSeq(parts, <)
Packets(s) ==
    LET order == InOrder(s.parts)
        limit == IF s.probing THEN 1 ELSE s.ask.offset + s.ask.limit
        budget == IF s.probing THEN 0 ELSE inlineRowBudget(s.ask.offset, s.ask.limit, Len(order))
    IN  [i \in DOMAIN order |-> queryKeys(RowsOf(s, order[i]), limit, IF order[i] = Own THEN 0 ELSE budget)]

PinnedBuild(s) == s.reply[Min(s.parts)]

(* What the answers make: the total and, but of a deep page's probe, the   *)
(* slots: the partition, its row and whether that came with the keys.      *)
PageOf(s) ==
    LET packets == Packets(s)
        page == selectPage(packets, s.ask.offset, s.ask.limit)
    IN  [build |-> PinnedBuild(s), total |-> TotalOf(packets),
         slots |-> IF s.probing THEN <<>>
                   ELSE [i \in DOMAIN page |-> <<page[i].row.part, page[i].row.key, page[i].inline>>]]
Needed(page) == {page.slots[i][1] : i \in {k \in DOMAIN page.slots: ~page.slots[k][3]}}

(* The keys are in, of one build.  A deep page is looked for first.        *)
runTwoPhase ==
    LET page == PageOf(g)
    IN  /\ g.pc = "keys" /\ g.out = {} /\ pinGeneration(g) = {}
        /\ g' = IF g.probing /\ g.ask.offset < page.total
                THEN [g EXCEPT !.probing = FALSE, !.out = g.parts, !.round = 0]
                ELSE [g EXCEPT !.pc = "rows", !.out = Needed(page), !.page = page]

(* Rows are of the store the keys were of, or there are none.              *)
SameGeneration(b, pinned) == b = pinned

(* The rows of a partition, from the object that gave its keys first.      *)
fetchRows(p) ==
    /\ g.pc = "rows" /\ p \in g.out
    /\ \/ \E b \in {g.home[p]} \cup (IF p = Own THEN {} ELSE {g.away[p]}):
            /\ SameGeneration(b, g.reply[p])
            /\ g' = [g EXCEPT !.got[p] = b, !.out = @ \ {p}]
       \/ ~SameGeneration(g.home[p], g.reply[p]) /\ g' = Fail(g)

(* The pass is over.  An index of another build than the page's is not     *)
(* used, and a page gathered at another width than the loaded store's is   *)
(* gathered again.                                                         *)
gatherPasses ==
    /\ g.pc = "rows" /\ g.out = {}
    /\ g' = IF g.pass = "listed" /\ g.page.build # g.ask.list THEN [g EXCEPT !.pass = "named", !.pc = "start"]
            ELSE IF g.pass = "named" /\ g.page.build # g.ask.names THEN Full(g)
            ELSE IF g.pass = "full" /\ g.width[g.home[Own]] # Cardinality(g.parts)
            THEN Ask(g, "again", 0..(g.width[g.home[Own]] - 1))
            ELSE [g EXCEPT !.pc = "done"]

Next ==
    \/ Publish \/ gatherListed \/ gatherNamed \/ CallFails \/ askKeys \/ runTwoPhase \/ gatherPasses
    \/ \E p \in Partitions:
         Swap(p) \/ SwapAway(p) \/ Answer(p) \/ AnswerAway(p) \/ Late(p) \/ fetchRows(p)

-----------------------------------------------------------------------------
(* What the query answers over a whole build: a row for every printing of  *)
(* its own, one for all art-less printings and one for an artwork, by key. *)
Reference(b) ==
    LET rows == g.store[b]
        arts == {r.art : r \in rows} \ {0}
    IN  ByKey({r \in rows: r.art = 0} \cup {BestRank({r \in rows: r.art = a}) : a \in arts})

(* A page that is served is put together from the answers of partitions    *)
(* that all gave them of one build, with the rows of that build, whatever  *)
(* was published and swapped, in either region, while it was gathered; and *)
(* no partition with a match was left out, if no more than one build was   *)
(* published meanwhile.                                                    *)
PageOfOneBuild ==
    g.pc = "done" =>
      LET b == g.page.build
      IN  \/ Holders(b) = {} /\ g.page = [NoPage EXCEPT !.build = b]
          \/ /\ g.page = PageOf(g) /\ \A p \in g.parts: g.reply[p] = b
             /\ \A p \in g.parts \cap Needed(g.page): g.got[p] = b
             /\ g.man <= 2 => Holders(b) \subseteq g.parts

(* It is then the page of the whole build: every row in its place, each    *)
(* from a partition that was asked, and that build's total.                *)
PageIsReference ==
    /\ PageOfOneBuild
    /\ g.pc = "done" /\ g.man <= 2 =>
         LET whole == Reference(g.page.build)
         IN  /\ g.page.total = Len(whole)
             /\ Len(g.page.slots) = Max({0, Min({g.ask.limit, Len(whole) - g.ask.offset})})
             /\ \A i \in DOMAIN g.page.slots:
                  g.page.slots[i][1] \in g.parts /\ g.page.slots[i][2] = whole[g.ask.offset + i].key
=============================================================================
