--------------------------- MODULE ImportWatchdog ---------------------------
(***************************************************************************)
(* The import watchdog (src/import-watchdog.ts) and the coordinators it    *)
(* watches (the request handlers and the end states of                     *)
(* src/import-coordinator.ts): a pointer in KV names the coordinator that  *)
(* may import, a cron tick asks it how it is, kicks it or replaces it, and *)
(* asks the ones it replaced to give their storage back.                   *)
(*                                                                         *)
(* A coordinator is named by the epoch it was designated at (the legacy    *)
(* one is 0).  A behaviour covers less than the 24 hours of the failover   *)
(* ledger, the 12 of the duplicate-cron window and the 6 of the lost-start *)
(* window, so none of them ends.  Time is an age in units of five minutes; *)
(* a tick lasts less than one.                                             *)
(***************************************************************************)
EXTENDS Integers, FiniteSets

CONSTANTS
    MAX_FAILOVERS_PER_DAY,
    STALL,            \* Ages, in units: a run this silent has stopped,
    KICK_GRACE,       \* a kick this old has not helped,
    SUSPECT_CONFIRM,  \* a suspect this old is replaced when it misses again,
    STALE_IDLE,       \* and a run this silent may be started over.
    Slices,           \* Alarms an import takes, and a retired run's purge.
    MaxCrons,         \* Bound: deliveries of the nightly cron.
    MaxFaults         \* Bound: wedges, lost alarms, errors, deaths.

ASSUME AgesAssumption ==
    /\ {SUSPECT_CONFIRM, KICK_GRACE, STALL, STALE_IDLE} \subseteq Nat \ {0}
    /\ SUSPECT_CONFIRM <= STALE_IDLE /\ KICK_GRACE <= STALE_IDLE /\ STALL <= STALE_IDLE
ASSUME BoundsAssumption ==
    MAX_FAILOVERS_PER_DAY \in Nat /\ Slices \in Nat \ {0} /\ MaxCrons \in Nat /\ MaxFaults \in Nat

Coordinators == 0..MAX_FAILOVERS_PER_DAY
None == -1
Age == None..STALE_IDLE
Older(age, cap) == IF age \in {None, cap} THEN age ELSE age + 1

VARIABLES
    pointer, \* import:coordinator, the designation every actor reads.
    seen,    \* The epoch a colo that has not had the last put still reads.
    co,      \* Coordinator -> its durable run and its alarm.
    wedged,  \* The objects that answer nothing and run nothing.
    tick,    \* The watchdog tick in flight.
    mail,    \* Requests sent to coordinators and not delivered yet.
    crons, faults,
    misses,  \* History: unanswered checks since the last answered one,
    died     \* and whether a tick died since one last judged the mark.

history == <<misses, died>>
vars == <<pointer, seen, co, wedged, tick, mail, crons, faults, misses, died>>

Pointers == [epoch : Coordinators, failovers : 0..MAX_FAILOVERS_PER_DAY,
             suspectSince : Age, retiring : SUBSET Coordinators]
States == {"idle", "running", "done", "failed", "superseded"}
Runs == [stored : BOOLEAN, state : States, retire : BOOLEAN, left : 0..Slices,
         silent : 0..STALE_IDLE, kicked : Age, alarm : Age]
Requests == [kind : {"release", "status", "kick", "start"}, to : Coordinators,
             reason : {"cron", "watchdog"}]
Actions == {"none", "kick", "suspect", "failover"}
Answers == {"none", "status", "unresponsive", "error", "ok"}
Pcs == {"off", "release", "status", "kick", "act", "start"}
Ticks == [pc : Pcs, pointer : Pointers, ask : SUBSET Coordinators, remaining : SUBSET Coordinators,
          status : [state : States, silent : {0, STALL}, kicked : Age],
          answer : Answers, action : Actions]

LEGACY_POINTER == [epoch |-> 0, failovers |-> 0, suspectSince |-> None, retiring |-> {}]
NoRun == [stored |-> FALSE, state |-> "idle", retire |-> FALSE, left |-> 0,
          silent |-> 0, kicked |-> None, alarm |-> None]
(* What a status answer says of a run.                                     *)
Asked(r) == [state |-> r.state, silent |-> IF r.silent >= STALL THEN STALL ELSE 0,
             kicked |-> r.kicked]
NoTick == [pc |-> "off", pointer |-> LEGACY_POINTER, ask |-> {}, remaining |-> {},
           status |-> Asked(NoRun), answer |-> "none", action |-> "none"]

Init ==
    /\ pointer = LEGACY_POINTER /\ seen = 0
    /\ co = [c \in Coordinators |-> NoRun]
    /\ wedged = {} /\ tick = NoTick /\ mail = {}
    /\ crons = 0 /\ faults = 0 /\ misses = 0 /\ died = FALSE

Fault == faults < MaxFaults /\ faults' = faults + 1

-----------------------------------------------------------------------------
(* The coordinator's handlers, as functions of its run.                    *)

InFlight(r) == r.state = "running"

(* A start begins a fresh run, unless it is a second delivery of the cron  *)
(* that already ran, or the run in flight is alive: then it only makes     *)
(* sure that an alarm is armed.                                            *)
startImport(r, reason) ==
    LET overdue == r.alarm = STALE_IDLE
        alive == (r.alarm # None /\ ~overdue) \/ r.silent < STALE_IDLE
    IN  CASE reason = "cron" /\ r.state = "done" -> r
          [] InFlight(r) /\ alive -> IF r.alarm = None THEN [r EXCEPT !.alarm = 0] ELSE r
          [] OTHER -> [NoRun EXCEPT !.stored = TRUE, !.state = "running",
                                    !.left = Slices, !.alarm = 0]

(* Status and kick create the tables of an object that has none.           *)
status(r) == [r EXCEPT !.stored = TRUE]

kick(r) == IF InFlight(r) THEN [r EXCEPT !.kicked = 0, !.alarm = 0]
           ELSE [r EXCEPT !.stored = TRUE]

Releasable(c, r, designated) == (~r.stored /\ r.state = "idle") \/ (designated > c /\ ~InFlight(r))

(* Mutant: a run in flight is left to an alarm it may have lost.           *)
release_NoAlarm(c, r, designated) == IF Releasable(c, r, designated) THEN NoRun ELSE r

release(c, r, designated) ==
    CASE Releasable(c, r, designated) -> NoRun
      [] designated > c /\ InFlight(r) /\ r.alarm = None -> [r EXCEPT !.alarm = 0]
      [] OTHER -> r

-----------------------------------------------------------------------------
(* The coordinator's alarm.                                                *)

(* Mutant: compares names, so an older pointer retires its successor.      *)
supersededBy_Name(c, epoch) == epoch # c

(* A newer epoch than its own has replaced this coordinator.  The read may *)
(* be one put behind.                                                      *)
supersededBy(c, epoch) == epoch > c

Banked(r) == [r EXCEPT !.silent = 0, !.kicked = None]

(* What one slice makes of a run: the next slice's alarm, the end of the   *)
(* import, or its failure.  A purge only goes on or ends, and then the     *)
(* object deletes its storage, unless it dies before that.                 *)
AfterSlice(r) ==
    LET next == [Banked(r) EXCEPT !.left = @ - 1, !.alarm = 0]
        end(state) == [Banked(r) EXCEPT !.left = 0, !.state = state, !.alarm = None]
    IN  IF r.left > 1 THEN {next} \cup (IF r.retire THEN {} ELSE {end("failed")})
        ELSE IF ~r.retire THEN {end("done"), end("failed")}
        ELSE {NoRun} \cup (IF faults < MaxFaults THEN {end("superseded")} ELSE {})

alarm(c) ==
    /\ co[c].alarm # None /\ c \notin wedged
    /\ \E epoch \in {pointer.epoch, seen}:
         LET r == [co[c] EXCEPT !.alarm = None]
             begun == IF ~r.retire /\ supersededBy(c, epoch)
                      THEN [r EXCEPT !.retire = TRUE, !.left = Slices] ELSE r
         IN  IF ~InFlight(r) THEN co' = [co EXCEPT ![c] = r]
             ELSE \E next \in AfterSlice(begun): co' = [co EXCEPT ![c] = next]
    /\ IF InFlight(co[c]) /\ co'[c].state = "superseded" THEN Fault ELSE UNCHANGED faults
    /\ UNCHANGED <<pointer, seen, wedged, tick, mail, crons, history>>

-----------------------------------------------------------------------------
(* The platform: time, wedged objects, lost alarms, lagging reads.         *)

Elapse ==
    /\ tick.pc = "off"
    /\ pointer' = [pointer EXCEPT !.suspectSince = Older(@, SUSPECT_CONFIRM)]
    /\ co' = [c \in Coordinators |->
                IF ~InFlight(co[c]) THEN co[c]
                ELSE [co[c] EXCEPT !.alarm = Older(@, STALE_IDLE), !.silent = Older(@, STALE_IDLE),
                                   !.kicked = Older(@, KICK_GRACE)]]
    /\ UNCHANGED <<seen, wedged, tick, mail, crons, faults, history>>

Propagate ==
    /\ seen # pointer.epoch /\ seen' = pointer.epoch
    /\ UNCHANGED <<pointer, co, wedged, tick, mail, crons, faults, history>>

Wedge(c) ==
    /\ Fault /\ c \notin wedged /\ co[c].stored /\ wedged' = wedged \cup {c}
    /\ \E lost \in {None, co[c].alarm}: co' = [co EXCEPT ![c].alarm = lost]
    /\ UNCHANGED <<pointer, seen, tick, mail, crons, history>>

Unwedge(c) ==
    /\ c \in wedged /\ wedged' = wedged \ {c}
    /\ UNCHANGED <<pointer, seen, co, tick, mail, crons, faults, history>>

LoseAlarm(c) ==
    /\ Fault /\ co[c].alarm # None /\ co' = [co EXCEPT ![c].alarm = None]
    /\ UNCHANGED <<pointer, seen, wedged, tick, mail, crons, history>>

-----------------------------------------------------------------------------
(* The nightly cron, and the delivery of requests.                         *)

Request(kind, c, reason) == [kind |-> kind, to |-> c, reason |-> reason]

startNightlyImport ==
    /\ crons < MaxCrons /\ crons' = crons + 1
    /\ mail' = mail \cup {Request("start", pointer.epoch, "cron")}
    /\ UNCHANGED <<pointer, seen, co, wedged, tick, faults, history>>

Awaited(m) ==
    /\ m.reason = "watchdog"
    /\ \/ m.kind = "release" /\ tick.pc = "release" /\ m.to \in tick.ask
       \/ m.kind \in {"status", "kick", "start"} /\ tick.pc = m.kind /\ tick.answer = "none"

Answered(m) ==
    IF ~Awaited(m) THEN UNCHANGED tick
    ELSE CASE m.kind = "release" ->
                tick' = [tick EXCEPT !.ask = @ \ {m.to},
                                     !.remaining = IF Releasable(m.to, co[m.to], tick.pointer.epoch)
                                                   THEN @ ELSE @ \cup {m.to}]
           [] m.kind = "status" -> tick' = [tick EXCEPT !.answer = "status", !.status = Asked(co[m.to])]
           [] OTHER -> tick' = [tick EXCEPT !.answer = "ok"]

fetch(m) ==
    /\ m \in mail /\ m.to \notin wedged /\ mail' = mail \ {m}
    /\ co' = [co EXCEPT ![m.to] =
                CASE m.kind = "start" -> startImport(@, m.reason)
                  [] m.kind = "status" -> status(@)
                  [] m.kind = "kick" -> kick(@)
                  [] OTHER -> release(m.to, @, tick.pointer.epoch)]
    /\ Answered(m)
    /\ UNCHANGED <<pointer, seen, wedged, crons, faults, history>>

(* The nightly's request waits for a wedged object, or dies with its own   *)
(* invocation.                                                             *)
LoseCron(m) ==
    /\ m \in mail /\ m.reason = "cron" /\ mail' = mail \ {m}
    /\ \/ m.to \in wedged /\ UNCHANGED faults
       \/ Fault
    /\ UNCHANGED <<pointer, seen, co, wedged, tick, crons, history>>

-----------------------------------------------------------------------------
(* A tick of the watchdog.                                                 *)

(* within(): a request not answered by its deadline, because the object is *)
(* wedged or slow, or one that came back an error.                         *)
Unanswered(c) == IF c \in wedged THEN UNCHANGED faults ELSE Fault

(* Ticks, duplicate and late deliveries too, are minutes apart: KV has     *)
(* propagated the last one's put.                                          *)
readPointer ==
    /\ tick.pc = "off" /\ seen = pointer.epoch
    /\ tick' = [NoTick EXCEPT !.pc = "release", !.pointer = pointer,
                              !.ask = pointer.retiring \ {pointer.epoch}]
    /\ mail' = mail \cup {Request("release", c, "watchdog") : c \in tick'.ask}
    /\ UNCHANGED <<pointer, seen, co, wedged, crons, faults, history>>

(* Mutant: a release that was not answered counts as done.                 *)
ReleaseTimeout_Forgets(c) ==
    /\ tick.pc = "release" /\ c \in tick.ask /\ Unanswered(c)
    /\ tick' = [tick EXCEPT !.ask = @ \ {c}]
    /\ UNCHANGED <<pointer, seen, co, wedged, mail, crons, history>>

ReleaseTimeout(c) ==
    /\ tick.pc = "release" /\ c \in tick.ask /\ Unanswered(c)
    /\ tick' = [tick EXCEPT !.ask = @ \ {c}, !.remaining = @ \cup {c}]
    /\ UNCHANGED <<pointer, seen, co, wedged, mail, crons, history>>

(* KV's put of the pointer: the whole value the tick read, changed.        *)
put(p) == pointer' = p /\ seen' = pointer.epoch

(* releaseRetired's end: the names that gave their storage back leave the  *)
(* list, written back only if one did.  Then the status request.           *)
releaseRetired ==
    /\ tick.pc = "release" /\ tick.ask = {}
    /\ LET next == [tick.pointer EXCEPT !.retiring = tick.remaining]
       IN  /\ IF next = tick.pointer THEN UNCHANGED <<pointer, seen>> ELSE put(next)
           /\ tick' = [tick EXCEPT !.pc = "status", !.pointer = next]
           /\ mail' = mail \cup {Request("status", next.epoch, "watchdog")}
    /\ UNCHANGED <<co, wedged, crons, faults, history>>

(* No answer in time, or an error: the two mean different things.          *)
StatusTimeout ==
    /\ tick.pc = "status" /\ tick.answer = "none"
    /\ \/ Unanswered(tick.pointer.epoch) /\ tick' = [tick EXCEPT !.answer = "unresponsive"]
       \/ Fault /\ tick' = [tick EXCEPT !.answer = "error"]
    /\ UNCHANGED <<pointer, seen, co, wedged, mail, crons, history>>

OnSilence(suspectSince) ==
    IF suspectSince = None THEN "suspect"
    ELSE IF suspectSince >= SUSPECT_CONFIRM THEN "failover" ELSE "none"

decideWatchdog(answer, r, suspectSince) ==
    IF answer = "unresponsive" THEN OnSilence(suspectSince)
    ELSE IF answer = "error" \/ ~InFlight(r) \/ r.silent < STALL THEN "none"
    ELSE IF r.kicked = None THEN "kick"
    ELSE IF r.kicked >= KICK_GRACE THEN "failover" ELSE "none"

Missed == IF misses < 2 THEN misses + 1 ELSE misses

Decide ==
    /\ tick.pc = "status" /\ tick.answer # "none"
    /\ LET act == decideWatchdog(tick.answer, tick.status, tick.pointer.suspectSince)
       IN  IF act = "kick"
           THEN /\ tick' = [tick EXCEPT !.pc = "kick", !.action = act, !.answer = "none"]
                /\ mail' = mail \cup {Request("kick", tick.pointer.epoch, "watchdog")}
           ELSE tick' = [tick EXCEPT !.pc = "act", !.action = act] /\ UNCHANGED mail
    /\ misses' = CASE tick.answer = "status" /\ tick'.pc = "act" -> 0
                   [] tick.answer = "unresponsive" -> Missed
                   [] OTHER -> misses
    /\ UNCHANGED <<pointer, seen, co, wedged, crons, faults, died>>

(* The end of a tick takes its unanswered requests with it.                *)
EndTick == tick' = NoTick /\ mail' = {m \in mail : m.reason = "cron"}

(* A kick that is not answered counts as an object that does not answer;   *)
(* one that comes back an error ends the tick.                             *)
KickEnds ==
    /\ tick.pc = "kick"
    /\ \/ /\ tick.answer = "ok" /\ misses' = 0
          /\ tick' = [tick EXCEPT !.pc = "act", !.answer = "status"]
          /\ UNCHANGED <<mail, faults, died>>
       \/ /\ tick.answer = "none" /\ Unanswered(tick.pointer.epoch) /\ misses' = Missed
          /\ tick' = [tick EXCEPT !.pc = "act", !.answer = "unresponsive",
                                  !.action = OnSilence(tick.pointer.suspectSince)]
          /\ UNCHANGED <<mail, died>>
       \/ /\ tick.answer = "none" /\ Fault /\ EndTick /\ misses' = 0 /\ died' = TRUE
    /\ UNCHANGED <<pointer, seen, co, wedged, crons>>

(* Mutant: the ledger of failovers is dropped with the suspect mark.       *)
nextPointer_NoLedger(p) ==
    [epoch |-> p.epoch + 1, failovers |-> p.failovers, suspectSince |-> None,
     retiring |-> p.retiring \cup {p.epoch}]

nextPointer(p) ==
    [epoch |-> p.epoch + 1, failovers |-> p.failovers + 1, suspectSince |-> None,
     retiring |-> p.retiring \cup {p.epoch}]

(* Mutant: an answer leaves the suspect mark in the pointer.               *)
Marked_NotCleared(p) == IF tick.action = "suspect" THEN [p EXCEPT !.suspectSince = 0] ELSE p

(* The suspect mark: set by a first silence, cleared by any answer.        *)
Marked(p) == IF tick.answer = "status" THEN [p EXCEPT !.suspectSince = None]
             ELSE IF tick.action = "suspect" THEN [p EXCEPT !.suspectSince = 0] ELSE p

(* Mutant: an idle designated coordinator is taken for a finished day.     *)
LostStart_Finished(p) == FALSE

LostStart(p) == tick.answer = "status" /\ tick.status.state = "idle" /\ p.epoch > 0

(* Mutant: the start is sent first, and the put that should follow fails.  *)
Act_StartFirst ==
    /\ tick.pc = "act"
    /\ LET next == nextPointer(tick.pointer)
       IN  IF tick.action # "failover" \/ next.epoch \notin Coordinators THEN EndTick
           ELSE /\ mail' = mail \cup {Request("start", next.epoch, "watchdog")}
                /\ tick' = [tick EXCEPT !.pc = "start", !.pointer = next, !.answer = "none"]
    /\ UNCHANGED <<pointer, seen, co, wedged, crons, faults, history>>

(* What the tick writes and sends: the mark; for a failover under the cap, *)
(* the pointer first and then the start; for a designated coordinator that *)
(* never started, the start again.                                         *)
Act ==
    /\ tick.pc = "act" /\ died' = (died /\ tick.answer = "error")
    /\ LET p == tick.pointer
           failover == tick.action = "failover" /\ p.failovers < MAX_FAILOVERS_PER_DAY
           next == IF failover THEN nextPointer(p) ELSE Marked(p)
       IN  /\ IF next = p THEN UNCHANGED <<pointer, seen>> ELSE put(next)
           /\ misses' = IF failover THEN 0 ELSE misses
           /\ IF failover \/ (tick.action = "none" /\ LostStart(p))
              THEN /\ tick' = [tick EXCEPT !.pc = "start", !.pointer = next, !.answer = "none"]
                   /\ mail' = mail \cup {Request("start", next.epoch, "watchdog")}
              ELSE EndTick
    /\ UNCHANGED <<co, wedged, crons, faults>>

StartEnds ==
    /\ tick.pc = "start" /\ EndTick
    /\ IF tick.answer = "ok" THEN UNCHANGED faults ELSE Unanswered(tick.pointer.epoch)
    /\ UNCHANGED <<pointer, seen, co, wedged, crons, history>>

(* The Worker that runs the tick dies, or one of its puts throws.          *)
KillTick ==
    /\ tick.pc # "off" /\ Fault /\ EndTick /\ died' = TRUE
    /\ UNCHANGED <<pointer, seen, co, wedged, crons, misses>>

TickStep ==
    \/ readPointer \/ releaseRetired \/ StatusTimeout \/ Decide
    \/ KickEnds \/ Act \/ StartEnds
    \/ \E c \in Coordinators: ReleaseTimeout(c)

Next ==
    \/ TickStep \/ KillTick \/ startNightlyImport \/ Elapse \/ Propagate
    \/ \E c \in Coordinators: alarm(c) \/ Wedge(c) \/ Unwedge(c) \/ LoseAlarm(c)
    \/ \E m \in mail: fetch(m) \/ LoseCron(m)

(* Crons and ticks recur, a tick and a coordinator that is not wedged      *)
(* answer or time out, an armed alarm is delivered, KV propagates, and     *)
(* time passes between ticks however often they come.  Nothing is assumed  *)
(* of a wedged object: it may never wake.                                  *)
Fairness ==
    /\ WF_vars(TickStep) /\ WF_vars(\E m \in mail: fetch(m))
    /\ \A c \in Coordinators: WF_vars(alarm(c))
    /\ WF_vars(Propagate) /\ SF_vars(Elapse)

Spec == Init /\ [][Next]_vars /\ Fairness

-----------------------------------------------------------------------------
(* The types of the watchdog's and the coordinators' state.                *)
TypeOK ==
    /\ pointer \in Pointers /\ seen \in Coordinators
    /\ co \in [Coordinators -> Runs] /\ wedged \subseteq Coordinators
    /\ tick \in Ticks
    /\ mail \subseteq Requests /\ crons \in 0..MaxCrons /\ faults \in 0..MaxFaults /\ misses \in 0..2 /\ died \in BOOLEAN

(* No coordinator runs before the pointer designates it, whichever request *)
(* is lost or late: every run but the pointer's own is one the fence ends  *)
(* (runImportWatchdog puts the pointer first, then sends the start).       *)
NoUndesignatedRun == \A c \in Coordinators: InFlight(co[c]) => c <= pointer.epoch

(* The designated coordinator never takes itself for a replaced one, even  *)
(* when its reads still show the pointer that named its predecessor        *)
(* (supersededBy compares epochs, not names).                              *)
CurrentNeverRetires == ~co[pointer.epoch].retire

(* A name leaves the retiring list only when its object holds nothing, or  *)
(* holds a run that a late nightly began since and that the fence ends: a  *)
(* request that timed out is not an answer (releaseRetired).               *)
ListedUntilReleased ==
    [][\A c \in pointer.retiring \ pointer'.retiring:
         ~co[c].stored \/ InFlight(co[c]) \/ co[c].state = "superseded"]_vars

(* A coordinator is replaced only after two checks in a row went           *)
(* unanswered, or after it answered, silent, a whole grace after a kick    *)
(* (decideWatchdog, and the suspect mark in the pointer).  A tick that     *)
(* dies after an answer leaves the old mark behind.                        *)
ReplacedForCause ==
    [][pointer'.epoch > pointer.epoch =>
         \/ misses >= 2 \/ died
         \/ tick.answer = "status" /\ tick.status.kicked >= KICK_GRACE
                                   /\ tick.status.silent >= STALL]_vars

(* An import that was started ends, whatever wedges, is lost or is killed  *)
(* on the way: on the coordinator it began on, or on a replacement, unless *)
(* the daily cap leaves in place a coordinator that is wedged or that a    *)
(* kick did not help.                                                      *)
Designated == co[pointer.epoch]
Abandoned ==
    /\ pointer.failovers = MAX_FAILOVERS_PER_DAY
    /\ pointer.epoch \in wedged \/ Designated.kicked >= KICK_GRACE
ImportEnds ==
    (InFlight(Designated) \/ pointer.epoch > 0)
        ~> (Designated.state \in {"done", "failed"} \/ Abandoned)

(* A replaced coordinator that is not wedged for ever is asked until its   *)
(* storage is released (releaseRetired, release, and the run's own purge). *)
RetiredReleased ==
    \A c \in Coordinators:
        <>[](c \notin wedged) => [](c \in pointer.retiring => <>(c \notin pointer.retiring))
=============================================================================
