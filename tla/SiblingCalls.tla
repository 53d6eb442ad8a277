---------------------------- MODULE SiblingCalls ----------------------------
(***************************************************************************)
(* The sibling calls of one gather: src/engine/sibling-limit.ts (at most   *)
(* SIBLING_CALLS_AT_ONCE outstanding) and sibling-hedge.ts (a late call is *)
(* asked a second time, of the same object or of the neighbour region's    *)
(* copy of it).                                                            *)
(*                                                                         *)
(* A gather asks every sibling twice, first for keys and then for rows,    *)
(* through one limiter.  A call is up to three legs: the original, a       *)
(* second one to the same object, one to the neighbour.  A leg waits for a *)
(* slot ("queued"), is handed one ("granted"), is sent ("out"), settles    *)
(* ("ok", "bad") and is heard ("over").  Time is left out: a timer that is *)
(* set may fire at any moment.                                             *)
(***************************************************************************)
EXTENDS Integers, Sequences, FiniteSets

CONSTANTS
    SiblingCount,            \* The partitions beside the coordinator's own.
    SIBLING_CALLS_AT_ONCE,
    Neighbour,               \* Whether a neighbour region is served.
    Cooling                  \* Siblings whose answers the neighbour has had to give lately.

VARIABLE c

Siblings == 1..SiblingCount  \* In partition order.
Methods == {"searchKeys", "fetchRows"}
Legs == {"original", "same", "cross"}

NoCall ==
    [leg |-> [l \in Legs |-> "none"], timer |-> FALSE, crossTimer |-> FALSE, asked |-> FALSE,
     landed |-> FALSE, hedged |-> FALSE, failed |-> FALSE, out |-> 0, settled |-> "no"]

SlotsOf(s) == Cardinality({x \in Methods \X Siblings \X Legs : s.calls[x[1]][x[2]].leg[x[3]] \in {"granted", "out"}})
Quorum == (SiblingCount + 1) \div 2

-----------------------------------------------------------------------------
(* The limiter.                                                            *)

(* Mutant: a slot handed to the next in line is given back as well.        *)
release_Dips(s) ==
    IF s.waiting = <<>> THEN [s EXCEPT !.open = @ - 1]
    ELSE LET x == Head(s.waiting)
         IN  [s EXCEPT !.waiting = Tail(@), !.open = @ - 1, !.calls[x[1]][x[2]].leg[x[3]] = "granted"]

(* A slot goes to the next in line still counted.                          *)
release(s) ==
    IF s.waiting = <<>> THEN [s EXCEPT !.open = @ - 1]
    ELSE LET x == Head(s.waiting)
         IN  [s EXCEPT !.waiting = Tail(@), !.calls[x[1]][x[2]].leg[x[3]] = "granted"]

(* A leg that comes to its turn.  A hedge of a call that has landed or has *)
(* been answered is not sent, and the neighbour's clock starts with the    *)
(* second call to the same object.                                         *)
Send(s, m, p, l) ==
    LET call == s.calls[m][p]
    IN  IF l = "original"
        THEN [s EXCEPT !.unhedged[m] = @ + 1, !.calls[m][p] = [call EXCEPT !.leg[l] = "out", !.timer = TRUE]]
        ELSE IF call.landed \/ call.settled # "no" THEN [s EXCEPT !.calls[m][p].leg[l] = "bad"]
        ELSE [s EXCEPT !.calls[m][p] = [call EXCEPT !.leg[l] = "out", !.hedged = TRUE,
                                                    !.crossTimer = @ \/ (l = "same" /\ Neighbour)]]

(* A leg that was not sent gives its slot back at once.                    *)
Sent(s, m, p, l) ==
    LET t == Send(s, m, p, l) IN IF t.calls[m][p].leg[l] = "bad" THEN release(t) ELSE t

run(s, m, p, l) ==
    IF s.open < SIBLING_CALLS_AT_ONCE THEN Sent([s EXCEPT !.open = @ + 1], m, p, l)
    ELSE [s EXCEPT !.waiting = IF l = "original" THEN Append(@, <<m, p, l>>) ELSE <<<<m, p, l>>>> \o @,
                   !.calls[m][p].leg[l] = "queued"]

-----------------------------------------------------------------------------
(* A call and its hedges.                                                  *)

hedge(s, m, p, l) == run([s EXCEPT !.calls[m][p].out = @ + 1], m, p, l)

finish(s, m, p, outcome) ==
    [s EXCEPT !.calls[m][p] = [@ EXCEPT !.settled = outcome, !.timer = FALSE, !.crossTimer = FALSE]]

(* Mutant: the last hedge's failure is not the call's.                     *)
hedgeOver_Forgets(s, m, p) == [s EXCEPT !.calls[m][p].out = @ - 1]

(* A hedge that brought nothing: the call fails with the last of them, if  *)
(* the original has failed before.                                         *)
hedgeOver(s, m, p) ==
    LET t == [s EXCEPT !.calls[m][p].out = @ - 1]
        call == t.calls[m][p]
    IN  IF call.settled = "no" /\ call.failed /\ call.out = 0 THEN finish(t, m, p, "failed") ELSE t

(* The calls of a phase go out together, in partition order: as many as    *)
(* there are slots, and the others get in line.                            *)
Issue(s, m) ==
    LET free == SIBLING_CALLS_AT_ONCE - s.open
        now  == IF free < SiblingCount THEN free ELSE SiblingCount
    IN  [s EXCEPT !.open = @ + now, !.unhedged[m] = @ + now,
                  !.waiting = @ \o [i \in 1..(SiblingCount - now) |-> <<m, now + i, "original">>],
                  !.calls[m] = [p \in Siblings |->
                    [@[p] EXCEPT !.leg["original"] = IF p <= now THEN "out" ELSE "queued", !.timer = (p <= now)]]]

Init ==
    c = Issue([open |-> 0, waiting |-> <<>>, method |-> "searchKeys",
               answers |-> [m \in Methods |-> 0], unhedged |-> [m \in Methods |-> 0],
               calls |-> [m \in Methods |-> [p \in Siblings |-> NoCall]]], "searchKeys")

(* A timer finds the call late.  Too few answers, or too little time out,  *)
(* and it is set again.  A sibling that has been cooling is asked of the   *)
(* neighbour; one that may be waking too; a busy coordinator asks no       *)
(* object twice; and the neighbour alone is asked when slots are short.    *)
consider(m, p) ==
    LET call == c.calls[m][p]
        t == [c EXCEPT !.calls[m][p].timer = FALSE, !.calls[m][p].asked = TRUE, !.unhedged[m] = @ - 1]
    IN  /\ call.timer
        /\ \/ /\ p \in Cooling /\ Neighbour /\ c.answers[m] >= 1
              /\ c' = hedge(t, m, p, "cross")
           \/ /\ p \notin Cooling \/ ~Neighbour
              /\ c.answers[m] >= Quorum
              /\ \E waking, away \in BOOLEAN:
                   LET same == ~away /\ (~waking \/ ~Neighbour)
                   IN  c' = IF Neighbour /\ (~same \/ SIBLING_CALLS_AT_ONCE - c.open < 2 * (t.unhedged[m] + 1))
                            THEN hedge(t, m, p, "cross")
                            ELSE IF same THEN hedge(t, m, p, "same") ELSE t

CrossAfter(m, p) ==
    /\ c.calls[m][p].crossTimer
    /\ c' = hedge([c EXCEPT !.calls[m][p].crossTimer = FALSE], m, p, "cross")

(* A slot handed over is taken.                                            *)
Start(m, p, l) == c.calls[m][p].leg[l] = "granted" /\ c' = Sent(c, m, p, l)

(* A leg settles, by its answer, an error or its deadline, and its slot    *)
(* goes to the next.                                                       *)
settle(m, p, l) ==
    LET call == c.calls[m][p]
        t == IF l # "original" THEN c
             ELSE [c EXCEPT !.calls[m][p] = [@ EXCEPT !.landed = TRUE, !.timer = FALSE, !.crossTimer = FALSE],
                            !.unhedged[m] = IF call.asked THEN @ ELSE @ - 1]
    IN  /\ call.leg[l] = "out"
        /\ \E outcome \in {"ok", "bad"}: c' = release([t EXCEPT !.calls[m][p].leg[l] = outcome])

(* What the call makes of it.  The neighbour's answer may be refused.      *)
Hear(m, p, l) ==
    LET call == c.calls[m][p]
        t == [c EXCEPT !.calls[m][p].leg[l] = "over"]
    IN  /\ call.leg[l] \in {"ok", "bad"}
        /\ IF l = "original"
           THEN c' = IF call.settled # "no" THEN t
                     ELSE IF call.leg[l] = "ok"
                     THEN finish([t EXCEPT !.answers[m] = IF call.hedged THEN @ ELSE @ + 1], m, p, "answered")
                     ELSE IF call.out > 0 THEN [t EXCEPT !.calls[m][p].failed = TRUE]
                     ELSE finish(t, m, p, "failed")
           ELSE \/ /\ call.leg[l] = "bad" \/ l = "cross"
                   /\ c' = hedgeOver(t, m, p)
                \/ /\ call.leg[l] = "ok"
                   /\ c' = IF call.settled # "no" THEN t ELSE finish(t, m, p, "answered")

Answered(m) == \A p \in Siblings: c.calls[m][p].settled = "answered"

(* Every sibling has answered for its keys: their rows are asked, while    *)
(* legs nobody waits for still hold their slots.                           *)
Rows ==
    /\ c.method = "searchKeys" /\ Answered("searchKeys")
    /\ c' = Issue([c EXCEPT !.method = "fetchRows"], "fetchRows")

Over == Answered("fetchRows") \/ \E m \in Methods, p \in Siblings: c.calls[m][p].settled = "failed"

Leg == \E m \in Methods, p \in Siblings, l \in Legs: Start(m, p, l) \/ settle(m, p, l) \/ Hear(m, p, l)
Next ==
    \/ Leg \/ Rows
    \/ \E m \in Methods, p \in Siblings: consider(m, p) \/ CrossAfter(m, p)

Spec == Init /\ [][Next]_c /\ WF_c(Leg) /\ WF_c(Rows)
-----------------------------------------------------------------------------
(* The limiter's count is the number of calls that hold a slot, never more *)
(* than the limit, and nothing waits while a slot is free, however answers,*)
(* failures, hedges and slots handed over interleave.                      *)
SlotsExact ==
    /\ c.open = SlotsOf(c) /\ c.open <= SIBLING_CALLS_AT_ONCE
    /\ c.waiting # <<>> => c.open = SIBLING_CALLS_AT_ONCE
    /\ \A m \in Methods, p \in Siblings, l \in Legs:
         c.calls[m][p].leg[l] = "queued" <=> \E i \in DOMAIN c.waiting: c.waiting[i] = <<m, p, l>>

(* A gather ends: no call is left unanswered by hedges that wait for each  *)
(* other's slots, or by one that was lost after the original had failed.   *)
GatherEnds == <>Over
=============================================================================
