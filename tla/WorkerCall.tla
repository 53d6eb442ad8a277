----------------------------- MODULE WorkerCall -----------------------------
(***************************************************************************)
(* What a Worker request waits for: a read that requests of the isolate    *)
(* share (src/engine/shared-load.ts, catalogTables of                      *)
(* partitioned-engine.ts) and a call to an engine object, retried, and     *)
(* raced against the neighbour region's (remote-engine.ts).                *)
(*                                                                         *)
(* A request asks for the catalog, which one of them reads for all, or for *)
(* a page.  It may be cancelled at any moment, and nothing it had in       *)
(* flight settles then.  A timer that is set may fire at any moment, and a *)
(* call that is out has a deadline.                                        *)
(***************************************************************************)
EXTENDS Integers, FiniteSets

CONSTANTS
    Requests,
    Wanted,                  \* What they may ask for, each "catalog" or "page".
    ENGINE_CALL_ATTEMPTS,
    ENGINE_COOLING_STRIKES,
    Nobody

VARIABLE q

Legs == {"home", "away"}
Errors == {"query", "stale", "transient", "other", "shed"}
NoCall == [lead |-> "home", leg |-> [x \in Legs |-> "idle"], tries |-> 0, error |-> [x \in Legs |-> "none"],
           timer |-> FALSE, asked |-> FALSE, hedged |-> FALSE, shed |-> FALSE, over |-> "no"]
NewRequest(kind) == [pc |-> "start", kind |-> kind, on |-> Nobody, call |-> NoCall]

Init ==
    \E kinds \in Wanted, neighbour \in BOOLEAN:
      q = [req |-> [r \in Requests |-> NewRequest(kinds[r])], entry |-> Nobody, settled |-> FALSE,
           strikes |-> 0, cooling |-> FALSE, neighbour |-> neighbour]

Other(x) == IF x = "home" THEN "away" ELSE "home"

(* What is left of a request: why it failed.                               *)
Final(req, pc) == [req EXCEPT !.pc = pc, !.call = IF pc = "failed" THEN @ ELSE NoCall]

Live(r) == q.req[r].pc \notin {"done", "failed", "cancelled"}

-----------------------------------------------------------------------------
(* The read that is shared.                                                *)

(* A call begins with the object of the region, or, while that one is      *)
(* cooling, with the neighbour.                                            *)
hedgedCall(s, r) ==
    LET lead == IF s.neighbour /\ s.cooling THEN "away" ELSE "home"
    IN  [s EXCEPT !.req[r].pc = "call",
                  !.req[r].call = [NoCall EXCEPT !.lead = lead, !.leg[lead] = "out", !.timer = s.neighbour]]

catalogTables(s, r) ==
    IF s.entry = Nobody THEN hedgedCall([s EXCEPT !.entry = r, !.settled = FALSE], r)
    ELSE IF s.settled THEN [s EXCEPT !.req[r] = Final(@, "done")]
    ELSE [s EXCEPT !.req[r].pc = "join", !.req[r].on = s.entry]

Begin(r) ==
    /\ q.req[r].pc = "start"
    /\ q' = IF q.req[r].kind = "catalog" THEN catalogTables(q, r) ELSE hedgedCall(q, r)

(* Mutant: the wait is not bounded.                                        *)
settledWithin_Forever(r) == FALSE /\ q' = q

(* The wait for another's read is over: it is read again, unless somebody  *)
(* has begun to.                                                           *)
settledWithin(r) ==
    /\ q.req[r].pc = "join"
    /\ q' = IF q.entry = q.req[r].on THEN hedgedCall([q EXCEPT !.entry = r, !.settled = FALSE], r) ELSE catalogTables(q, r)

(* The request is over, its read settles, and so do those that joined it.  *)
Ended(s, r, pc) ==
    LET mine == s.entry = r
        joined == {o \in Requests: s.req[o].pc = "join" /\ s.req[o].on = r}
    IN  [s EXCEPT !.req = [o \in Requests |-> IF o = r \/ o \in joined THEN Final(s.req[o], pc) ELSE s.req[o]],
                  !.entry = IF mine /\ pc = "failed" THEN Nobody ELSE @,
                  !.settled = IF mine THEN pc = "done" ELSE @]

-----------------------------------------------------------------------------
(* The call.                                                               *)

(* How the neighbour had to be asked counts against the object, and a      *)
(* prompt answer of its own for it; a failover says nothing.               *)
noteHedgeOutcome(s, r) ==
    LET call == s.req[r].call
        strikes == IF s.strikes < ENGINE_COOLING_STRIKES THEN s.strikes + 1 ELSE s.strikes
    IN  IF call.lead = "away" \/ ~s.neighbour THEN {s}
        ELSE IF call.hedged THEN {[s EXCEPT !.strikes = strikes, !.cooling = @ \/ strikes >= ENGINE_COOLING_STRIKES]}
        ELSE IF call.asked \/ call.over = "lost" THEN {s}
        ELSE {s, [s EXCEPT !.strikes = 0, !.cooling = FALSE]}

(* The call is decided.  A page that was shed, and that nobody else could  *)
(* answer, is asked once more without leave to shed it.                    *)
Over(s, r, over) ==
    {IF over = "won" THEN Ended(t, r, "done")
     ELSE IF t.req[r].call.shed THEN [t EXCEPT !.req[r].pc = "last"] ELSE Ended(t, r, "failed") :
       t \in noteHedgeOutcome([s EXCEPT !.req[r].call = [@ EXCEPT !.over = over, !.timer = FALSE]], r)}

askNeighbour(s, r, hedged) ==
    LET other == Other(s.req[r].call.lead)
    IN  [s EXCEPT !.req[r].call = [@ EXCEPT !.timer = FALSE, !.leg[other] = "out", !.asked = TRUE, !.hedged = hedged]]

HedgeTimer(r) ==
    LET call == q.req[r].call
    IN  /\ q.req[r].pc = "call" /\ call.timer /\ call.leg[Other(call.lead)] = "idle"
        /\ q' = askNeighbour(q, r, TRUE)

(* What a leg that has failed for good means for the call.                 *)
raceNeighbour(s, r, x) ==
    LET call == s.req[r].call
        other == call.leg[Other(x)]
    IN  IF x # call.lead THEN IF other = "bad" THEN Over(s, r, "lost") ELSE {s}
        ELSE IF call.error[x] = "query" \/ ~s.neighbour THEN Over(s, r, "lost")
        ELSE IF other = "out" \/ other = "pause" THEN {s}
        ELSE IF other = "idle" /\ call.error[x] # "stale" THEN {askNeighbour(s, r, FALSE)}
        ELSE Over(s, r, "lost")

(* A leg answers, or fails: once more after a pause where that may help,   *)
(* and only of the region's own object.                                    *)
withRetry(r, x) ==
    LET call == q.req[r].call
    IN  /\ q.req[r].pc = "call" /\ call.leg[x] = "out"
        /\ \/ q' \in Over([q EXCEPT !.req[r].call.leg[x] = "ok"], r, "won")
           \/ \E error \in IF q.req[r].kind = "page" /\ x = "home" THEN Errors ELSE Errors \ {"shed"}:
                LET s == [q EXCEPT !.req[r].call.error[x] = error,
                                   !.req[r].call.shed = @ \/ error = "shed"]
                IN  IF error = "transient" /\ x = "home" /\ call.tries < ENGINE_CALL_ATTEMPTS - 1
                    THEN q' = [s EXCEPT !.req[r].call.leg[x] = "pause"]
                    ELSE q' \in raceNeighbour([s EXCEPT !.req[r].call.leg[x] = "bad"], r, x)

retryPause(r) ==
    /\ q.req[r].pc = "call" /\ q.req[r].call.leg["home"] = "pause"
    /\ q' = [q EXCEPT !.req[r].call.leg["home"] = "out", !.req[r].call.tries = @ + 1]

LastAttempt(r) == q.req[r].pc = "last" /\ \E pc \in {"done", "failed"}: q' = Ended(q, r, pc)

-----------------------------------------------------------------------------
CoolingEnds == q.cooling /\ q' = [q EXCEPT !.cooling = FALSE]
Cancel(r) == Live(r) /\ q' = [q EXCEPT !.req[r] = Final(@, "cancelled")]

Step(r) == Begin(r) \/ settledWithin(r) \/ retryPause(r) \/ LastAttempt(r) \/ \E x \in Legs: withRetry(r, x)
Next == CoolingEnds \/ \E r \in Requests: Step(r) \/ HedgeTimer(r) \/ Cancel(r)

Spec == Init /\ [][Next]_q /\ \A r \in Requests: WF_q(Step(r))
-----------------------------------------------------------------------------
(* A call may fail for the query itself, for a partition count that has    *)
(* changed, or because both regions' objects failed.                       *)
Cause(r) ==
    LET call == q.req[r].call
    IN  \/ call.error[call.lead] \in {"query", "stale"}
        \/ \A x \in Legs: call.leg[x] = "bad"
        \/ ~q.neighbour /\ call.leg["home"] = "bad"

Answered ==
    \A r \in Requests:
      \/ q.req[r].pc \in {"done", "cancelled"}
      \/ q.req[r].pc = "failed" /\ (Cause(r) \/ q.req[r].on # Nobody)

(* Every request that is not cancelled is answered, or fails for a cause:  *)
(* whoever began the read it waits for, and whatever became of them.       *)
RequestEnds == <>Answered
=============================================================================
