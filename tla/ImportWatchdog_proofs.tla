----------------------- MODULE ImportWatchdog_proofs -----------------------
(***************************************************************************)
(* Why the watchdog's safety properties hold, for every daily cap, every   *)
(* grace and any number of faults: the inductive invariant, in parts.      *)
(***************************************************************************)
EXTENDS ImportWatchdog, TLAPS

\* What a coordinator's run r is when the pointer's epoch is e: one the pointer
\* has designated, that retires only for a newer epoch.
Sound(c, r, e) ==
    /\ r.kicked <= KICK_GRACE
    /\ r.retire => c < e
    /\ ~r.stored => r.state = "idle"
    /\ InFlight(r) => c <= e
RunsSound == \A c \in Coordinators: Sound(c, co[c], pointer.epoch)

\* The pointer counts its failovers, and lists only coordinators it replaced.
PointerSound ==
    /\ pointer.epoch = pointer.failovers /\ seen <= pointer.epoch
    /\ pointer.suspectSince <= SUSPECT_CONFIRM
    /\ \A c \in pointer.retiring: c < pointer.epoch

\* Only a tick writes the pointer, so a tick in flight has it right.
OnePointer == tick.pc # "off" => tick.pointer = pointer

\* Requests go to designated coordinators; a tick's die with it, and while it
\* releases none but releases are under way.
MailSound ==
    \A m \in mail:
        /\ m.to <= pointer.epoch
        /\ m.reason = "cron" => m.kind = "start"
        /\ m.reason = "watchdog" =>
             tick.pc # "off" /\ (tick.pc = "release" => m.kind = "release")

\* A coordinator that has given its storage back, or that the fence will end.
Gone(r) == ~r.stored \/ InFlight(r) \/ r.state = "superseded"

\* While a tick releases, a name it neither awaits nor keeps is gone.
Releasing ==
    tick.pc = "release" =>
        /\ seen = pointer.epoch
        /\ tick.ask \subseteq pointer.retiring /\ tick.remaining \subseteq pointer.retiring
        /\ \A c \in pointer.retiring \ (tick.ask \cup tick.remaining): Gone(co[c])

AnswersSound ==
    /\ tick.pc = "release" => tick.answer = "none"
    /\ tick.pc = "status" => tick.answer # "ok"
    /\ tick.pc = "kick" => tick.answer \in {"none", "ok"} /\ tick.action = "kick"
    /\ tick.pc = "act" => tick.answer \in {"status", "unresponsive", "error"}

\* A suspect mark stands for a missed check, unless a tick died over it.
MarkEarned == pointer.suspectSince # None => misses >= 1 \/ died
SuspectEarned ==
    /\ tick.pc # "act" => MarkEarned
    /\ tick.pc = "act" /\ tick.answer = "unresponsive" => misses >= 1
    /\ tick.pc = "act" /\ tick.answer = "error" => MarkEarned /\ tick.action = "none"
    /\ tick.pc = "act" /\ tick.answer = "status" => tick.action # "suspect"

Cause ==
    \/ misses >= 2 \/ died
    \/ tick.answer = "status" /\ tick.status.kicked >= KICK_GRACE /\ tick.status.silent >= STALL
FailoverEarned == tick.pc = "act" /\ tick.action = "failover" => Cause

IInv ==
    /\ TypeOK /\ RunsSound /\ PointerSound /\ OnePointer /\ MailSound /\ Releasing
    /\ AnswersSound /\ SuspectEarned /\ FailoverEarned

-----------------------------------------------------------------------------
(***************************************************************************)
(* The handlers keep a run sound, and one that is gone stays so unless it  *)
(* is asked for its status.                                                *)
(***************************************************************************)
LEMMA Constants ==
    /\ SUSPECT_CONFIRM \in Nat \ {0} /\ KICK_GRACE \in Nat \ {0} /\ STALL \in Nat \ {0}
    /\ STALE_IDLE \in Nat \ {0} /\ SUSPECT_CONFIRM <= STALE_IDLE /\ KICK_GRACE <= STALE_IDLE
    /\ STALL <= STALE_IDLE
    /\ MAX_FAILOVERS_PER_DAY \in Nat /\ Slices \in Nat \ {0} /\ MaxCrons \in Nat /\ MaxFaults \in Nat
BY AgesAssumption, BoundsAssumption

LEMMA InRange ==
    /\ None \in Age /\ 0 \in Age /\ 0 \in 0..Slices /\ Slices \in 0..Slices /\ 0 \in 0..STALE_IDLE
    /\ None <= KICK_GRACE /\ 0 <= KICK_GRACE /\ None <= SUSPECT_CONFIRM /\ 0 <= SUSPECT_CONFIRM
BY Constants DEF Age, None

LEMMA OlderInRange ==
    ASSUME NEW cap \in Nat \ {0}, cap <= STALE_IDLE, NEW age \in Age, age <= cap
    PROVE  /\ Older(age, cap) \in Age /\ Older(age, cap) <= cap
           /\ age \in Nat => Older(age, cap) \in 0..STALE_IDLE
           /\ age = None <=> Older(age, cap) = None
BY Constants DEF Older, Age, None

LEMMA NoRunSound ==
    ASSUME NEW c, NEW e
    PROVE  NoRun \in Runs /\ Sound(c, NoRun, e) /\ Gone(NoRun)
BY InRange DEF NoRun, Runs, States, Sound, InFlight, Gone

LEMMA StartSound ==
    ASSUME NEW c \in Coordinators, NEW e \in Coordinators, c <= e,
           NEW r \in Runs, Sound(c, r, e), NEW reason
    PROVE  /\ startImport(r, reason) \in Runs /\ Sound(c, startImport(r, reason), e)
           /\ Gone(r) => Gone(startImport(r, reason))
<1> DEFINE fresh == [NoRun EXCEPT !.stored = TRUE, !.state = "running", !.left = Slices, !.alarm = 0]
           armed == IF r.alarm = None THEN [r EXCEPT !.alarm = 0] ELSE r
<1>1. startImport(r, reason) \in {r, armed, fresh}
  BY DEF startImport
<1>2. fresh \in Runs /\ Sound(c, fresh, e) /\ Gone(fresh)
  <2>1. NoRun \in Runs /\ NoRun.retire = FALSE /\ NoRun.kicked = None
    BY NoRunSound DEF NoRun
  <2>2. fresh \in Runs /\ fresh.stored /\ fresh.state = "running" /\ ~fresh.retire /\ fresh.kicked = None
    BY <2>1, InRange DEF Runs, States
  <2> QED BY <2>2, InRange DEF Sound, InFlight, Gone
<1>3. armed \in Runs /\ Sound(c, armed, e) /\ (Gone(r) => Gone(armed))
  BY InRange DEF Runs, Sound, InFlight, Gone
<1> QED BY <1>1, <1>2, <1>3

LEMMA StatusSound ==
    ASSUME NEW c \in Coordinators, NEW e \in Coordinators, NEW r \in Runs, Sound(c, r, e)
    PROVE  status(r) \in Runs /\ Sound(c, status(r), e)
BY DEF status, Runs, Sound, InFlight

LEMMA KickSound ==
    ASSUME NEW c \in Coordinators, NEW e \in Coordinators, NEW r \in Runs, Sound(c, r, e)
    PROVE  kick(r) \in Runs /\ Sound(c, kick(r), e)
BY InRange DEF kick, Runs, Sound, InFlight

LEMMA ReleaseSound ==
    ASSUME NEW c \in Coordinators, NEW e \in Coordinators, NEW f \in Coordinators,
           NEW r \in Runs, Sound(c, r, e)
    PROVE  /\ release(c, r, f) \in Runs /\ Sound(c, release(c, r, f), e)
           /\ Gone(r) \/ Releasable(c, r, f) => Gone(release(c, r, f))
<1>1. ASSUME Releasable(c, r, f) PROVE release(c, r, f) = NoRun
  <2>1. r.state = "running" => ~Releasable(c, r, f)
    BY DEF Releasable, InFlight
  <2> QED BY <1>1, <2>1, Zenon DEF release, InFlight
<1>2. ASSUME ~Releasable(c, r, f), f > c, InFlight(r), r.alarm = None
      PROVE  release(c, r, f) = [r EXCEPT !.alarm = 0]
  BY <1>2, Zenon DEF release
<1>3. ASSUME ~Releasable(c, r, f), ~(f > c /\ InFlight(r) /\ r.alarm = None)
      PROVE  release(c, r, f) = r
  BY <1>3, Zenon DEF release
<1>4. CASE ~Releasable(c, r, f) /\ f > c /\ InFlight(r) /\ r.alarm = None
  BY <1>2, <1>4, InRange DEF Runs, Sound, InFlight, Gone
<1> QED BY <1>1, <1>3, <1>4, NoRunSound

\* A slice of a run that retires leaves it retiring or gone.
LEMMA SliceSound ==
    ASSUME NEW c \in Coordinators, NEW e \in Coordinators, NEW r \in Runs, Sound(c, r, e), InFlight(r),
           NEW next \in AfterSlice(r)
    PROVE  next \in Runs /\ Sound(c, next, e) /\ (r.retire => Gone(next))
<1> DEFINE banked == Banked(r)
           on == [banked EXCEPT !.left = @ - 1, !.alarm = 0]
           end(state) == [banked EXCEPT !.left = 0, !.state = state, !.alarm = None]
<1>1. /\ banked \in Runs /\ Sound(c, banked, e) /\ InFlight(banked)
      /\ banked.left = r.left /\ banked.retire = r.retire /\ banked.stored
  BY InRange DEF Banked, Runs, Sound, InFlight
<1>2. ASSUME r.left > 1 PROVE on \in Runs /\ Sound(c, on, e) /\ Gone(on)
  <2>1. banked.left - 1 \in 0..Slices
    BY <1>1, <1>2, Constants DEF Runs
  <2> QED BY <1>1, <2>1, InRange DEF Runs, Sound, InFlight, Gone
<1>3. ASSUME NEW state \in {"done", "failed", "superseded"}
      PROVE  end(state) \in Runs /\ Sound(c, end(state), e) /\ end(state).state = state
  BY <1>1, <1>3, InRange DEF Runs, States, Sound, InFlight
<1>4. \/ r.left > 1 /\ next = on
      \/ next \in {end("done"), end("failed")} /\ ~r.retire
      \/ next \in {NoRun, end("superseded")} /\ r.retire
  BY DEF AfterSlice
<1> HIDE DEF banked, on, end
<1>5. CASE r.left > 1 /\ next = on
  BY <1>2, <1>5
<1>6. CASE next \in {end("done"), end("failed")} /\ ~r.retire
  BY <1>3, <1>6
<1>7. CASE next \in {NoRun, end("superseded")} /\ r.retire
  BY <1>3, <1>7, NoRunSound DEF Gone
<1> QED BY <1>4, <1>5, <1>6, <1>7

-----------------------------------------------------------------------------
(***************************************************************************)
(* Steps of the coordinators and of the world around the tick.             *)
(***************************************************************************)
LEMMA Typed ==
    ASSUME TypeOK
    PROVE  /\ pointer \in Pointers /\ pointer.epoch \in Coordinators /\ seen \in Coordinators
           /\ co \in [Coordinators -> Runs] /\ wedged \subseteq Coordinators /\ tick \in Ticks
           /\ mail \subseteq Requests /\ crons \in 0..MaxCrons /\ faults \in 0..MaxFaults
           /\ misses \in 0..2 /\ died \in BOOLEAN
BY DEF TypeOK, Pointers

LEMMA FaultTyped ==
    ASSUME TypeOK, Fault \/ UNCHANGED faults
    PROVE  faults' \in 0..MaxFaults
BY Constants DEF TypeOK, Fault

LEMMA RunChanged ==
    ASSUME IInv, NEW c \in Coordinators, NEW r \in Runs, Sound(c, r, pointer.epoch),
           co' = [co EXCEPT ![c] = r], pointer' = pointer
    PROVE  co' \in [Coordinators -> Runs] /\ RunsSound'
<1>1. co \in [Coordinators -> Runs]
  BY Typed DEF IInv
<1>2. \A d \in Coordinators : co'[d] = IF d = c THEN r ELSE co[d]
  BY <1>1
<1> QED BY <1>1, <1>2 DEF IInv, RunsSound

\* A step that leaves the tick and the pointer alone.
LEMMA AsideKeeps ==
    ASSUME IInv, UNCHANGED <<pointer, tick, misses, died>>, seen' \in {seen, pointer.epoch},
           co' \in [Coordinators -> Runs], RunsSound', MailSound',
           wedged' \subseteq Coordinators, mail' \subseteq Requests, crons' \in 0..MaxCrons,
           faults' \in 0..MaxFaults,
           \A c \in Coordinators :
              tick.pc = "release" /\ c < pointer.epoch /\ Gone(co[c]) => Gone(co'[c])
    PROVE  IInv'
<1>1. TypeOK'
  BY Typed DEF IInv, TypeOK
<1>2. PointerSound' /\ OnePointer'
  BY Typed, Constants DEF IInv, PointerSound, OnePointer, Coordinators
<1>3. Releasing'
  <2>1. \A c \in pointer.retiring : c \in Coordinators /\ c < pointer.epoch
    BY Typed DEF IInv, PointerSound, Pointers
  <2> QED BY <2>1 DEF IInv, Releasing
<1>4. AnswersSound' /\ SuspectEarned' /\ FailoverEarned'
  BY DEF IInv, AnswersSound, SuspectEarned, MarkEarned, FailoverEarned, Cause
<1> QED BY <1>1, <1>2, <1>3, <1>4 DEF IInv

LEMMA MailKept ==
    ASSUME IInv, UNCHANGED <<pointer, tick>>, mail' \subseteq mail
    PROVE  MailSound' /\ mail' \subseteq Requests
BY Typed DEF IInv, MailSound

LEMMA AlarmKeeps ==
    ASSUME IInv, NEW c \in Coordinators, alarm(c)
    PROVE  IInv'
<1> DEFINE r == [co[c] EXCEPT !.alarm = None]
           e == pointer.epoch
<1>1. /\ co[c] \in Runs /\ Sound(c, co[c], e) /\ e \in Coordinators /\ seen \in Coordinators
      /\ seen <= e
  BY Typed DEF IInv, RunsSound, PointerSound
<1>2. r \in Runs /\ Sound(c, r, e) /\ (InFlight(r) <=> InFlight(co[c])) /\ (Gone(co[c]) => Gone(r))
  BY <1>1, InRange DEF Runs, Sound, InFlight, Gone
<1>3. UNCHANGED <<pointer, seen, wedged, tick, mail, crons, misses, died>>
  BY DEF alarm, history
<1>4. faults' \in 0..MaxFaults
  BY FaultTyped DEF IInv, alarm
<1>5. PICK epoch \in {e, seen} :
         LET begun == IF ~r.retire /\ supersededBy(c, epoch)
                      THEN [r EXCEPT !.retire = TRUE, !.left = Slices] ELSE r
         IN  IF ~InFlight(r) THEN co' = [co EXCEPT ![c] = r]
             ELSE \E next \in AfterSlice(begun): co' = [co EXCEPT ![c] = next]
  BY DEF alarm
<1> DEFINE begun == IF ~r.retire /\ supersededBy(c, epoch)
                    THEN [r EXCEPT !.retire = TRUE, !.left = Slices] ELSE r
<1>6. /\ begun \in Runs /\ Sound(c, begun, e) /\ (InFlight(r) => InFlight(begun))
      /\ tick.pc = "release" /\ c < e => begun.retire
  <2> HIDE DEF r
  <2>1. epoch \in Coordinators /\ epoch <= e
    BY <1>1 DEF Coordinators
  <2>2. CASE ~r.retire /\ epoch > c
    <3>1. c < e
      BY <1>1, <2>1, <2>2 DEF Coordinators
    <3>2. begun = [r EXCEPT !.retire = TRUE, !.left = Slices]
      BY <2>2 DEF supersededBy
    <3>3. /\ begun \in Runs /\ begun.retire /\ begun.kicked = r.kicked
          /\ begun.state = r.state /\ begun.stored = r.stored
      BY <1>2, <3>2, InRange DEF Runs
    <3> QED BY <1>2, <3>1, <3>3 DEF Sound, InFlight
  <2>3. CASE ~(~r.retire /\ epoch > c)
    <3>1. tick.pc = "release" => epoch = e
      BY DEF IInv, Releasing
    <3> QED BY <1>2, <2>1, <2>3, <1>1, <3>1 DEF supersededBy, Runs, Coordinators
  <2> QED BY <2>2, <2>3
<1>7. PICK next \in Runs :
         /\ co' = [co EXCEPT ![c] = next] /\ Sound(c, next, e)
         /\ tick.pc = "release" /\ c < e /\ Gone(co[c]) => Gone(next)
  <2>1. CASE ~InFlight(r)
    BY <1>2, <1>5, <2>1
  <2>2. CASE InFlight(r)
    <3>1. PICK next \in AfterSlice(begun) : co' = [co EXCEPT ![c] = next]
      BY <1>5, <2>2
    <3>2. next \in Runs /\ Sound(c, next, e) /\ (begun.retire => Gone(next))
      BY <1>1, <1>6, <2>2, <3>1, SliceSound
    <3> QED BY <1>6, <3>1, <3>2
  <2> QED BY <2>1, <2>2
<1>8. \A d \in Coordinators :
         tick.pc = "release" /\ d < e /\ Gone(co[d]) => Gone(co'[d])
  BY <1>7, Typed DEF IInv
<1> QED BY <1>3, <1>4, <1>7, <1>8, RunChanged, MailKept, AsideKeeps, Typed DEF IInv

\* A coordinator that only loses its alarm is as it was.
LEMMA AlarmLost ==
    ASSUME IInv, NEW c \in Coordinators, NEW a \in Age, co' = [co EXCEPT ![c].alarm = a],
           pointer' = pointer
    PROVE  /\ co' \in [Coordinators -> Runs] /\ RunsSound'
           /\ \A d \in Coordinators : Gone(co[d]) => Gone(co'[d])
<1> DEFINE r == [co[c] EXCEPT !.alarm = a]
<1>1. co \in [Coordinators -> Runs] /\ Sound(c, co[c], pointer.epoch)
  BY Typed DEF IInv, RunsSound
<1>2. r \in Runs /\ Sound(c, r, pointer.epoch) /\ (Gone(co[c]) => Gone(r))
  BY <1>1 DEF Runs, Sound, InFlight, Gone
<1>3. co' = [co EXCEPT ![c] = r]
  OBVIOUS
<1> HIDE DEF r
<1> QED BY <1>1, <1>2, <1>3, RunChanged

LEMMA WorldKeeps ==
    ASSUME IInv,
           Propagate \/ startNightlyImport \/ (\E c \in Coordinators: Wedge(c) \/ Unwedge(c) \/ LoseAlarm(c))
             \/ \E m \in mail: LoseCron(m)
    PROVE  IInv'
<1>t. /\ TypeOK /\ co \in [Coordinators -> Runs] /\ RunsSound /\ MailSound /\ PointerSound
      /\ \A c \in Coordinators : co[c].alarm \in Age
  BY Typed DEF IInv, Runs
<1>1. CASE Propagate
  BY <1>1, <1>t, Typed, MailKept, AsideKeeps DEF Propagate, history, RunsSound
<1>2. CASE startNightlyImport
  <2> DEFINE m == Request("start", pointer.epoch, "cron")
  <2>1. m \in Requests /\ m.to = pointer.epoch /\ m.reason = "cron" /\ m.kind = "start"
    BY <1>t, Typed DEF Request, Requests
  <2>2. mail' = mail \cup {m} /\ UNCHANGED <<pointer, seen, co, wedged, tick, faults, misses, died>>
    BY <1>2 DEF startNightlyImport, history
  <2> HIDE DEF m
  <2>3. MailSound' /\ mail' \subseteq Requests
    BY <1>t, <2>1, <2>2, Typed DEF MailSound, Coordinators
  <2>4. crons' \in 0..MaxCrons
    BY <1>2, <1>t, Typed, Constants DEF startNightlyImport
  <2> QED BY <1>t, <2>2, <2>3, <2>4, Typed, AsideKeeps DEF RunsSound
<1>3. ASSUME NEW c \in Coordinators, Wedge(c) \/ LoseAlarm(c) PROVE IInv'
  <2>1. /\ UNCHANGED <<pointer, seen, tick, mail, crons, misses, died>> /\ Fault
        /\ wedged' \subseteq Coordinators
    BY <1>3, <1>t, Typed DEF Wedge, LoseAlarm, history
  <2>2. PICK a \in Age : co' = [co EXCEPT ![c].alarm = a]
    BY <1>3, <1>t, InRange DEF Wedge, LoseAlarm
  <2> QED BY <1>t, <2>1, <2>2, AlarmLost, FaultTyped, MailKept, AsideKeeps, Typed
<1>4. ASSUME NEW c \in Coordinators, Unwedge(c) PROVE IInv'
  <2>1. UNCHANGED <<pointer, seen, co, tick, mail, crons, faults, misses, died>> /\ wedged' \subseteq Coordinators
    BY <1>4, <1>t, Typed DEF Unwedge, history
  <2> QED BY <2>1, <1>t, MailKept, AsideKeeps, Typed DEF RunsSound
<1>5. ASSUME NEW m \in mail, LoseCron(m) PROVE IInv'
  <2>1. /\ UNCHANGED <<pointer, seen, co, wedged, tick, crons, misses, died>> /\ mail' \subseteq mail
        /\ Fault \/ UNCHANGED faults
    BY <1>5 DEF LoseCron, history
  <2> QED BY <2>1, <1>t, FaultTyped, MailKept, AsideKeeps, Typed DEF RunsSound
<1> QED BY <1>1, <1>2, <1>3, <1>4, <1>5

\* Time passes between ticks: marks and kicks grow no older than they count for.
LEMMA ElapseKeeps ==
    ASSUME IInv, Elapse
    PROVE  IInv'
<1>1. /\ TypeOK /\ co \in [Coordinators -> Runs] /\ RunsSound /\ PointerSound /\ pointer \in Pointers
      /\ pointer.suspectSince \in Age
  BY Typed DEF IInv, Pointers
<1>2. UNCHANGED <<seen, wedged, tick, mail, crons, faults, misses, died>> /\ tick.pc = "off"
  BY DEF Elapse, history
<1>3. /\ pointer' \in Pointers /\ pointer'.epoch = pointer.epoch /\ pointer'.failovers = pointer.failovers
      /\ pointer'.retiring = pointer.retiring /\ pointer'.suspectSince <= SUSPECT_CONFIRM
      /\ pointer'.suspectSince = None <=> pointer.suspectSince = None
  <2> DEFINE s == Older(pointer.suspectSince, SUSPECT_CONFIRM)
  <2>1. s \in Age /\ s <= SUSPECT_CONFIRM /\ (s = None <=> pointer.suspectSince = None)
    BY <1>1, Constants, OlderInRange DEF PointerSound
  <2>2. pointer' = [pointer EXCEPT !.suspectSince = s]
    BY DEF Elapse
  <2> HIDE DEF s
  <2> QED BY <1>1, <2>1, <2>2 DEF Pointers
<1>4. ASSUME NEW c \in Coordinators
      PROVE  co'[c] \in Runs /\ Sound(c, co'[c], pointer.epoch)
  <2> DEFINE r == co[c]
             a == Older(r.alarm, STALE_IDLE)
             l == Older(r.silent, STALE_IDLE)
             k == Older(r.kicked, KICK_GRACE)
  <2>1. r \in Runs /\ Sound(c, r, pointer.epoch)
    BY <1>1 DEF RunsSound
  <2>2. a \in Age /\ l \in 0..STALE_IDLE /\ k \in Age /\ k <= KICK_GRACE
    <3>1. r.alarm \in Age /\ r.silent \in Age /\ r.silent \in Nat /\ r.kicked \in Age /\ r.kicked <= KICK_GRACE
      BY <2>1, Constants DEF Runs, Age, None, Sound
    <3>2. r.alarm <= STALE_IDLE /\ r.silent <= STALE_IDLE
      BY <3>1, Constants DEF Age, None
    <3> QED BY <3>1, <3>2, Constants, OlderInRange
  <2>3. co'[c] = IF ~InFlight(r) THEN r ELSE [r EXCEPT !.alarm = a, !.silent = l, !.kicked = k]
    BY DEF Elapse
  <2> HIDE DEF r, a, l, k
  <2>4. CASE InFlight(r)
    <3>1. co'[c] = [r EXCEPT !.alarm = a, !.silent = l, !.kicked = k]
      BY <2>3, <2>4
    <3>2. /\ co'[c] \in Runs /\ co'[c].kicked = k /\ co'[c].retire = r.retire
          /\ co'[c].stored = r.stored /\ co'[c].state = r.state
      BY <2>1, <2>2, <3>1 DEF Runs
    <3> QED BY <2>1, <2>2, <3>2 DEF Sound, InFlight
  <2> QED BY <2>1, <2>3, <2>4
<1>5. co' \in [Coordinators -> Runs]
  BY <1>4 DEF Elapse
<1>6. TypeOK'
  BY <1>1, <1>2, <1>3, <1>5, Typed DEF TypeOK
<1>7. RunsSound' /\ PointerSound'
  BY <1>1, <1>2, <1>3, <1>4 DEF RunsSound, PointerSound
<1>8. OnePointer' /\ MailSound' /\ Releasing'
  BY <1>2, <1>3 DEF IInv, OnePointer, MailSound, Releasing
<1>9. AnswersSound' /\ SuspectEarned' /\ FailoverEarned'
  BY <1>2, <1>3 DEF IInv, AnswersSound, SuspectEarned, MarkEarned, FailoverEarned
<1> QED BY <1>6, <1>7, <1>8, <1>9 DEF IInv

-----------------------------------------------------------------------------
(***************************************************************************)
(* Steps of the tick.                                                      *)
(***************************************************************************)
\* A step of a tick in flight that writes neither the pointer nor the history
\* and judges nothing.
LEMMA WaitingKeeps ==
    ASSUME IInv, UNCHANGED <<pointer, seen, wedged, crons, misses, died>>,
           tick.pc \in {"release", "status", "kick", "start"},
           tick' \in Ticks, tick'.pc = tick.pc, tick'.pointer = tick.pointer,
           tick'.action = tick.action,
           co' \in [Coordinators -> Runs], RunsSound', Releasing', AnswersSound',
           mail' \subseteq mail, faults' \in 0..MaxFaults
    PROVE  IInv'
<1>1. TypeOK' /\ MailSound'
  BY Typed DEF IInv, TypeOK, MailSound
<1>2. PointerSound' /\ OnePointer' /\ SuspectEarned' /\ FailoverEarned'
  BY DEF IInv, PointerSound, OnePointer, SuspectEarned, MarkEarned, FailoverEarned
<1> QED BY <1>1, <1>2 DEF IInv

\* What a request makes of the coordinator it reaches.
Handled(m) ==
    CASE m.kind = "start" -> startImport(co[m.to], m.reason)
      [] m.kind = "status" -> status(co[m.to])
      [] m.kind = "kick" -> kick(co[m.to])
      [] OTHER -> release(m.to, co[m.to], tick.pointer.epoch)

LEMMA HandledSound ==
    ASSUME IInv, NEW m \in mail
    PROVE  /\ m \in Requests /\ m.to \in Coordinators
           /\ Handled(m) \in Runs /\ Sound(m.to, Handled(m), pointer.epoch)
           /\ tick.pc = "release" /\ Gone(co[m.to]) => Gone(Handled(m))
           /\ m.kind = "release" /\ Releasable(m.to, co[m.to], tick.pointer.epoch) => Gone(Handled(m))
<1> DEFINE c == m.to
           r == co[m.to]
           e == pointer.epoch
<1>1. /\ m \in Requests /\ c \in Coordinators /\ c <= e /\ e \in Coordinators /\ r \in Runs
      /\ Sound(c, r, e) /\ tick.pointer.epoch \in Coordinators
  BY Typed DEF IInv, Requests, MailSound, RunsSound, Ticks, Pointers
<1>2. ASSUME tick.pc = "release" PROVE m.kind \notin {"status", "kick"}
  BY <1>1, <1>2 DEF IInv, MailSound, Requests
<1>3. m.kind = "start" => Handled(m) = startImport(r, m.reason)
  BY Zenon DEF Handled
<1>4. m.kind = "status" => Handled(m) = status(r)
  BY Zenon DEF Handled
<1>5. m.kind = "kick" => Handled(m) = kick(r)
  BY Zenon DEF Handled
<1>6. m.kind \notin {"start", "status", "kick"} => Handled(m) = release(c, r, tick.pointer.epoch)
  BY Zenon DEF Handled
<1>7. m.kind = "release" => m.kind \notin {"start", "status", "kick"}
  OBVIOUS
<1> HIDE DEF c, r, e
<1>8. /\ Handled(m) \in Runs /\ Sound(c, Handled(m), e)
      /\ tick.pc = "release" /\ Gone(r) => Gone(Handled(m))
      /\ m.kind = "release" /\ Releasable(c, r, tick.pointer.epoch) => Gone(Handled(m))
  BY <1>1, <1>2, <1>3, <1>4, <1>5, <1>6, <1>7, StartSound, StatusSound, KickSound, ReleaseSound
<1> QED BY <1>1, <1>8 DEF c, r, e

LEMMA AskedTyped ==
    ASSUME NEW r \in Runs
    PROVE  Asked(r) \in [state : States, silent : {0, STALL}, kicked : Age]
BY DEF Asked, Runs

LEMMA FetchKeeps ==
    ASSUME IInv, NEW m \in mail, fetch(m)
    PROVE  IInv'
<1>1. /\ TypeOK /\ tick \in Ticks /\ co \in [Coordinators -> Runs] /\ OnePointer /\ Releasing
      /\ AnswersSound /\ pointer \in Pointers /\ faults \in 0..MaxFaults /\ MailSound
  BY Typed DEF IInv
<1>2. /\ m \in Requests /\ m.to \in Coordinators
      /\ Handled(m) \in Runs /\ Sound(m.to, Handled(m), pointer.epoch)
      /\ tick.pc = "release" /\ Gone(co[m.to]) => Gone(Handled(m))
      /\ m.kind = "release" /\ Releasable(m.to, co[m.to], tick.pointer.epoch) => Gone(Handled(m))
  BY HandledSound
<1>3. /\ UNCHANGED <<pointer, seen, wedged, crons, faults, misses, died>> /\ mail' = mail \ {m}
      /\ co' = [co EXCEPT ![m.to] = Handled(m)] /\ Answered(m)
  BY Zenon DEF fetch, history, Handled
<1>4. /\ co' \in [Coordinators -> Runs] /\ RunsSound' /\ mail' \subseteq mail
      /\ \A d \in Coordinators : co'[d] = IF d = m.to THEN Handled(m) ELSE co[d]
  BY <1>1, <1>2, <1>3, RunChanged
<1>5. \A d \in Coordinators : tick.pc = "release" /\ Gone(co[d]) => Gone(co'[d])
  BY <1>2, <1>4
<1>6. CASE ~Awaited(m)
  <2>1. tick' = tick
    BY <1>3, <1>6 DEF Answered
  <2> QED BY <1>1, <1>3, <1>4, <1>5, <2>1, MailKept, AsideKeeps, Typed
<1>7. CASE Awaited(m) /\ m.kind = "release"
  <2> DEFINE left == IF Releasable(m.to, co[m.to], tick.pointer.epoch)
                     THEN tick.remaining ELSE tick.remaining \cup {m.to}
  <2>1. tick' = [tick EXCEPT !.ask = @ \ {m.to}, !.remaining = left]
    BY <1>3, <1>7, Zenon DEF Answered
  <2>2. tick.pc = "release" /\ m.to \in tick.ask
    BY <1>7 DEF Awaited
  <2>3. left \subseteq pointer.retiring /\ tick.remaining \subseteq left /\ left \subseteq Coordinators
    BY <1>1, <1>2, <2>2 DEF Releasing, Ticks, Pointers
  <2>4. m.to \in left \/ Gone(Handled(m))
    BY <1>2, <1>7
  <2> HIDE DEF left
  <2>5. /\ tick' \in Ticks /\ tick'.pc = tick.pc /\ tick'.pointer = tick.pointer
        /\ tick'.action = tick.action /\ tick'.answer = tick.answer
        /\ tick'.ask = tick.ask \ {m.to} /\ tick'.remaining = left
    BY <1>1, <2>1, <2>3 DEF Ticks
  <2>6. Releasing'
    BY <1>1, <1>3, <1>4, <1>5, <2>2, <2>3, <2>4, <2>5 DEF Releasing, Pointers
  <2>7. AnswersSound'
    BY <1>1, <2>5 DEF AnswersSound
  <2> QED BY <1>1, <1>3, <1>4, <2>2, <2>5, <2>6, <2>7, WaitingKeeps
<1>8. CASE Awaited(m) /\ m.kind # "release"
  <2>1. tick.pc = m.kind /\ tick.pc \in {"status", "kick", "start"}
    BY <1>8 DEF Awaited
  <2>2. PICK a \in {"status", "ok"}, st \in [state : States, silent : {0, STALL}, kicked : Age] :
           /\ tick' = [tick EXCEPT !.answer = a, !.status = st]
           /\ a = "ok" <=> m.kind # "status"
    <3>1. CASE m.kind = "status"
      <4>1. tick' = [tick EXCEPT !.answer = "status", !.status = Asked(co[m.to])]
        BY <1>3, <1>8, <3>1, Zenon DEF Answered
      <4> QED BY <1>1, <1>2, <3>1, <4>1, AskedTyped
    <3>2. CASE m.kind # "status"
      <4>1. tick' = [tick EXCEPT !.answer = "ok"]
        BY <1>3, <1>8, <3>2, Zenon DEF Answered
      <4>2. tick.status \in [state : States, silent : {0, STALL}, kicked : Age]
        BY <1>1 DEF Ticks
      <4>3. tick' = [tick EXCEPT !.answer = "ok", !.status = tick.status]
        BY <1>1, <4>1 DEF Ticks
      <4> QED BY <3>2, <4>2, <4>3
    <3> QED BY <3>1, <3>2
  <2>3. /\ tick' \in Ticks /\ tick'.pc = tick.pc /\ tick'.pointer = tick.pointer
        /\ tick'.action = tick.action /\ tick'.answer = a
    BY <1>1, <2>2 DEF Ticks, Answers
  <2>4. Releasing' /\ AnswersSound'
    BY <1>1, <2>1, <2>2, <2>3 DEF Releasing, AnswersSound
  <2> QED BY <1>1, <1>3, <1>4, <2>1, <2>3, <2>4, WaitingKeeps
<1> QED BY <1>6, <1>7, <1>8

LEMMA NoTickTyped ==
    /\ NoTick \in Ticks /\ NoTick.pc = "off" /\ NoTick.answer = "none" /\ NoTick.action = "none"
    /\ NoTick.remaining = {}
<1>1. LEGACY_POINTER \in Pointers
  BY InRange, Constants DEF LEGACY_POINTER, Pointers, Coordinators
<1>2. Asked(NoRun) \in [state : States, silent : {0, STALL}, kicked : Age]
  BY NoRunSound, AskedTyped
<1> QED BY <1>1, <1>2 DEF NoTick, Ticks, Pcs, Answers, Actions

LEMMA EndKeeps ==
    ASSUME IInv, EndTick, UNCHANGED <<pointer, seen, co, wedged, crons>>,
           faults' \in 0..MaxFaults, misses' \in 0..2, died' \in BOOLEAN, MarkEarned'
    PROVE  IInv'
<1>1. /\ tick' \in Ticks /\ tick'.pc = "off" /\ mail' \subseteq mail
      /\ \A m \in mail' : m.reason = "cron"
  BY NoTickTyped DEF EndTick
<1>2. TypeOK'
  BY <1>1, Typed DEF IInv, TypeOK
<1>3. RunsSound' /\ PointerSound' /\ OnePointer' /\ Releasing' /\ AnswersSound'
  BY <1>1 DEF IInv, RunsSound, PointerSound, OnePointer, Releasing, AnswersSound
<1>4. MailSound'
  <2>1. \A m \in mail' : m.to <= pointer.epoch /\ m.kind = "start" /\ m.reason # "watchdog"
    BY <1>1 DEF IInv, MailSound
  <2> QED BY <1>1, <2>1 DEF MailSound
<1>5. SuspectEarned' /\ FailoverEarned'
  BY <1>1 DEF SuspectEarned, FailoverEarned
<1> QED BY <1>2, <1>3, <1>4, <1>5 DEF IInv

LEMMA MissedRises ==
    ASSUME TypeOK
    PROVE  Missed \in 1..2 /\ (misses >= 1 => Missed = 2)
BY DEF TypeOK, Missed

LEMMA ReadPointerKeeps ==
    ASSUME IInv, readPointer
    PROVE  IInv'
<1>1. /\ TypeOK /\ pointer \in Pointers /\ mail \subseteq Requests /\ PointerSound /\ MailSound /\ SuspectEarned
      /\ pointer.retiring \subseteq Coordinators
  BY Typed DEF IInv, Pointers
<1>2. UNCHANGED <<pointer, seen, co, wedged, crons, faults, misses, died>> /\ tick.pc = "off" /\ seen = pointer.epoch
  BY DEF readPointer, history
<1> DEFINE ask == pointer.retiring \ {pointer.epoch}
<1>3. ask = pointer.retiring
  BY <1>1 DEF PointerSound, Pointers, Coordinators
<1>4. /\ tick' \in Ticks /\ tick'.pc = "release" /\ tick'.pointer = pointer /\ tick'.ask = ask
      /\ tick'.remaining = {} /\ tick'.answer = "none"
  <2>1. tick' = [NoTick EXCEPT !.pc = "release", !.pointer = pointer, !.ask = ask]
    BY DEF readPointer
  <2>2. ask \subseteq Coordinators
    BY <1>1
  <2> HIDE DEF ask
  <2> QED BY <1>1, <2>1, <2>2, NoTickTyped DEF Ticks, Pcs
<1>5. mail' = mail \cup {Request("release", c, "watchdog") : c \in ask}
  BY <1>4 DEF readPointer
<1>6. \A m \in mail' :
         m \in Requests /\ (m \in mail \/ (m.kind = "release" /\ m.reason = "watchdog" /\ m.to \in pointer.retiring))
  BY <1>1, <1>3, <1>5 DEF Request, Requests
<1>7. MailSound'
  <2>1. \A m \in mail : m.reason # "watchdog"
    BY <1>1, <1>2 DEF MailSound
  <2>2. \A c \in pointer.retiring : c <= pointer.epoch
    BY <1>1 DEF PointerSound, Pointers, Coordinators
  <2> QED BY <1>1, <1>2, <1>4, <1>6, <2>1, <2>2 DEF MailSound
<1>8. TypeOK'
  BY <1>1, <1>2, <1>4, <1>6, Typed DEF TypeOK
<1>9. RunsSound' /\ PointerSound' /\ OnePointer' /\ Releasing' /\ AnswersSound'
  BY <1>2, <1>3, <1>4 DEF IInv, RunsSound, PointerSound, OnePointer, Releasing, AnswersSound
<1>10. SuspectEarned' /\ FailoverEarned'
  BY <1>1, <1>2, <1>4 DEF SuspectEarned, MarkEarned, FailoverEarned
<1> QED BY <1>7, <1>8, <1>9, <1>10 DEF IInv

LEMMA UnansweredFaults ==
    ASSUME TypeOK, NEW c, Unanswered(c)
    PROVE  faults' \in 0..MaxFaults
BY FaultTyped DEF Unanswered

LEMMA TimeoutKeeps ==
    ASSUME IInv, (\E c \in Coordinators: ReleaseTimeout(c)) \/ StatusTimeout
    PROVE  IInv'
<1>1. /\ TypeOK /\ tick \in Ticks /\ co \in [Coordinators -> Runs] /\ RunsSound /\ Releasing /\ AnswersSound
  BY Typed DEF IInv
<1>2. ASSUME NEW c \in Coordinators, ReleaseTimeout(c) PROVE IInv'
  <2>1. /\ UNCHANGED <<pointer, seen, co, wedged, mail, crons, misses, died>> /\ faults' \in 0..MaxFaults
        /\ tick.pc = "release" /\ c \in tick.ask
        /\ tick' = [tick EXCEPT !.ask = @ \ {c}, !.remaining = @ \cup {c}]
    BY <1>1, <1>2, UnansweredFaults DEF ReleaseTimeout, history
  <2>2. /\ tick' \in Ticks /\ tick'.pc = tick.pc /\ tick'.pointer = tick.pointer
        /\ tick'.action = tick.action /\ tick'.answer = tick.answer
        /\ tick'.ask = tick.ask \ {c} /\ tick'.remaining = tick.remaining \cup {c}
    BY <1>1, <2>1 DEF Ticks
  <2>3. Releasing' /\ AnswersSound' /\ RunsSound'
    BY <1>1, <2>1, <2>2 DEF Releasing, AnswersSound, RunsSound
  <2> QED BY <1>1, <2>1, <2>2, <2>3, WaitingKeeps
<1>3. ASSUME StatusTimeout PROVE IInv'
  <2>1. PICK a \in {"unresponsive", "error"} : tick' = [tick EXCEPT !.answer = a]
    BY <1>3 DEF StatusTimeout
  <2>2. /\ UNCHANGED <<pointer, seen, co, wedged, mail, crons, misses, died>> /\ tick.pc = "status"
        /\ faults' \in 0..MaxFaults
    BY <1>1, <1>3, UnansweredFaults, FaultTyped DEF StatusTimeout, history
  <2>3. /\ tick' \in Ticks /\ tick'.pc = tick.pc /\ tick'.pointer = tick.pointer
        /\ tick'.action = tick.action /\ tick'.answer = a
    BY <1>1, <2>1 DEF Ticks, Answers
  <2>4. Releasing' /\ AnswersSound' /\ RunsSound'
    BY <1>1, <2>2, <2>3 DEF Releasing, AnswersSound, RunsSound
  <2> QED BY <1>1, <2>2, <2>3, <2>4, WaitingKeeps
<1> QED BY <1>2, <1>3

\* The list of retired names is put back without those that are gone.
LEMMA ReleaseRetiredKeeps ==
    ASSUME IInv, releaseRetired
    PROVE  IInv'
<1> DEFINE next == [tick.pointer EXCEPT !.retiring = tick.remaining]
           request == Request("status", next.epoch, "watchdog")
<1>1. /\ TypeOK /\ tick \in Ticks /\ pointer \in Pointers /\ mail \subseteq Requests /\ PointerSound
      /\ MailSound /\ SuspectEarned /\ AnswersSound /\ Releasing /\ OnePointer /\ RunsSound
      /\ seen \in Coordinators
  BY Typed DEF IInv
<1>2. UNCHANGED <<co, wedged, crons, faults, misses, died>> /\ tick.pc = "release" /\ tick.pointer = pointer
  BY <1>1 DEF releaseRetired, history, OnePointer
<1>3. /\ next \in Pointers /\ next.epoch = pointer.epoch /\ next.failovers = pointer.failovers
      /\ next.suspectSince = pointer.suspectSince /\ next.retiring = tick.remaining
  BY <1>1, <1>2 DEF Ticks, Pointers
<1>4. /\ tick' = [tick EXCEPT !.pc = "status", !.pointer = next]
      /\ mail' = mail \cup {request} /\ pointer' = next /\ seen' \in {seen, pointer.epoch}
  BY <1>2 DEF releaseRetired, put
<1>5. request \in Requests /\ request.to = pointer.epoch /\ request.kind = "status" /\ request.reason = "watchdog"
  BY <1>3 DEF Request, Requests, Pointers
<1> HIDE DEF next, request
<1>6. /\ tick' \in Ticks /\ tick'.pc = "status" /\ tick'.pointer = pointer' /\ tick'.answer = tick.answer
  BY <1>1, <1>3, <1>4 DEF Ticks, Pcs
<1>7. TypeOK'
  BY <1>1, <1>2, <1>3, <1>4, <1>5, <1>6, Typed DEF TypeOK, Pointers
<1>8. RunsSound' /\ OnePointer' /\ Releasing'
  BY <1>1, <1>2, <1>3, <1>4, <1>6 DEF RunsSound, OnePointer, Releasing
<1>9. PointerSound'
  BY <1>1, <1>2, <1>3, <1>4 DEF PointerSound, Releasing, Pointers, Coordinators
<1>10. MailSound'
  BY <1>1, <1>2, <1>3, <1>4, <1>5, <1>6 DEF MailSound, Pointers, Coordinators
<1>11. AnswersSound' /\ SuspectEarned' /\ FailoverEarned'
  BY <1>1, <1>2, <1>3, <1>4, <1>6 DEF AnswersSound, SuspectEarned, MarkEarned, FailoverEarned
<1> QED BY <1>7, <1>8, <1>9, <1>10, <1>11 DEF IInv

\* A silent coordinator is replaced on a mark made before.
LEMMA SilenceEarned ==
    ASSUME IInv, tick.pc # "act", OnePointer, tick.pc # "off"
    PROVE  /\ OnSilence(tick.pointer.suspectSince) \in Actions
           /\ OnSilence(tick.pointer.suspectSince) = "failover" => Missed >= 2 \/ died
           /\ OnSilence(tick.pointer.suspectSince) # "kick"
<1>1. TypeOK /\ MarkEarned /\ tick.pointer = pointer
  BY DEF IInv, SuspectEarned, OnePointer
<1> QED BY <1>1, MissedRises DEF OnSilence, MarkEarned, Actions

\* A judgement the tick goes on to act on.
LEMMA JudgedKeeps ==
    ASSUME IInv, UNCHANGED <<pointer, seen, co, wedged, mail, crons>>, died' = died,
           faults' \in 0..MaxFaults, misses' \in 0..2,
           tick.pc \in {"status", "kick"},
           tick' \in Ticks, tick'.pc = "act", tick'.pointer = tick.pointer,
           tick'.answer \in {"status", "unresponsive", "error"},
           tick'.answer = "unresponsive" => misses' >= 1,
           tick'.answer = "error" => misses' = misses /\ tick'.action = "none",
           tick'.answer = "status" => tick'.action # "suspect",
           FailoverEarned'
    PROVE  IInv'
<1>1. TypeOK'
  BY Typed DEF IInv, TypeOK
<1>2. RunsSound' /\ PointerSound' /\ OnePointer' /\ MailSound' /\ Releasing' /\ AnswersSound'
  BY DEF IInv, RunsSound, PointerSound, OnePointer, MailSound, Releasing, AnswersSound
<1>3. SuspectEarned'
  BY DEF IInv, SuspectEarned, MarkEarned
<1> QED BY <1>1, <1>2, <1>3 DEF IInv

LEMMA DecideKeeps ==
    ASSUME IInv, Decide
    PROVE  IInv'
<1> DEFINE act == decideWatchdog(tick.answer, tick.status, tick.pointer.suspectSince)
<1>1. /\ TypeOK /\ tick \in Ticks /\ OnePointer /\ AnswersSound /\ SuspectEarned /\ MailSound
      /\ pointer \in Pointers /\ mail \subseteq Requests /\ misses \in 0..2 /\ PointerSound
  BY Typed DEF IInv
<1>2. /\ UNCHANGED <<pointer, seen, co, wedged, crons, faults, died>>
      /\ tick.pc = "status" /\ tick.answer \in {"status", "unresponsive", "error"}
      /\ tick.pointer = pointer
  BY <1>1 DEF Decide, AnswersSound, OnePointer, Ticks, Answers
<1>3. /\ tick.answer = "unresponsive" => act = OnSilence(tick.pointer.suspectSince)
      /\ tick.answer = "error" => act = "none"
      /\ tick.answer = "status" =>
           /\ act \in {"none", "kick", "failover"}
           /\ act = "failover" => tick.status.kicked >= KICK_GRACE /\ tick.status.silent >= STALL
  <2>1. tick.answer = "status" => tick.status.silent \in {0, STALL}
    BY <1>1 DEF Ticks
  <2> QED BY <2>1, Constants DEF decideWatchdog
<1>4. act \in Actions /\ (act = "kick" => tick.answer = "status")
  BY <1>1, <1>2, <1>3, SilenceEarned DEF Actions, IInv
<1>5. /\ tick.answer = "status" /\ tick'.pc = "act" => misses' = 0
      /\ tick.answer = "unresponsive" => misses' = Missed
      /\ tick.answer = "error" \/ (tick.answer = "status" /\ tick'.pc # "act") => misses' = misses
  <2> DEFINE new == CASE tick.answer = "status" /\ tick'.pc = "act" -> 0
                      [] tick.answer = "unresponsive" -> Missed
                      [] OTHER -> misses
  <2>1. misses' = new
    BY DEF Decide
  <2>2. tick.answer = "status" /\ tick'.pc = "act" => new = 0
    BY Zenon
  <2>3. tick.answer = "unresponsive" => new = Missed
    BY Zenon
  <2>4. tick.answer # "unresponsive" /\ ~(tick.answer = "status" /\ tick'.pc = "act") => new = misses
    BY Zenon
  <2> HIDE DEF new
  <2> QED BY <2>1, <2>2, <2>3, <2>4
<1> HIDE DEF act
<1>6. CASE act = "kick"
  <2> DEFINE request == Request("kick", tick.pointer.epoch, "watchdog")
  <2>1. /\ tick' = [tick EXCEPT !.pc = "kick", !.action = act, !.answer = "none"]
        /\ mail' = mail \cup {request}
    BY <1>6 DEF Decide, act
  <2>2. request \in Requests /\ request.to = pointer.epoch /\ request.kind = "kick" /\ request.reason = "watchdog"
    BY <1>1, <1>2 DEF Request, Requests, Pointers
  <2> HIDE DEF request
  <2>3. /\ tick' \in Ticks /\ tick'.pc = "kick" /\ tick'.pointer = tick.pointer
        /\ tick'.answer = "none" /\ tick'.action = "kick"
    BY <1>1, <1>4, <1>6, <2>1 DEF Ticks, Pcs, Answers
  <2>4. misses' = misses
    BY <1>4, <1>5, <1>6, <2>3
  <2>5. TypeOK'
    BY <1>1, <1>2, <2>1, <2>2, <2>3, <2>4, Typed DEF TypeOK
  <2>6. MailSound'
    BY <1>1, <1>2, <2>1, <2>2, <2>3 DEF MailSound, Pointers, Coordinators
  <2>7. RunsSound' /\ PointerSound' /\ OnePointer' /\ Releasing' /\ AnswersSound'
    BY <1>2, <2>3 DEF IInv, RunsSound, PointerSound, OnePointer, Releasing, AnswersSound
  <2>8. SuspectEarned' /\ FailoverEarned'
    BY <1>1, <1>2, <2>3, <2>4 DEF SuspectEarned, MarkEarned, FailoverEarned
  <2> QED BY <2>5, <2>6, <2>7, <2>8 DEF IInv
<1>7. CASE act # "kick"
  <2>1. tick' = [tick EXCEPT !.pc = "act", !.action = act] /\ mail' = mail
    BY <1>7 DEF Decide, act
  <2>2. /\ tick' \in Ticks /\ tick'.pc = "act" /\ tick'.pointer = tick.pointer
        /\ tick'.answer = tick.answer /\ tick'.action = act /\ tick'.status = tick.status
    BY <1>1, <1>4, <2>1 DEF Ticks, Pcs
  <2>3. Missed \in 1..2 /\ (act = "failover" /\ tick.answer = "unresponsive" => Missed >= 2 \/ died)
    BY <1>1, <1>2, <1>3, MissedRises, SilenceEarned DEF IInv
  <2>4. misses' \in 0..2 /\ (tick.answer = "unresponsive" => misses' >= 1)
    BY <1>1, <1>2, <1>5, <2>2, <2>3
  <2>5. FailoverEarned'
    BY <1>2, <1>3, <1>5, <2>2, <2>3 DEF FailoverEarned, Cause
  <2>6. tick'.answer = "status" => tick'.action # "suspect"
    BY <1>3, <2>2
  <2>7. faults' \in 0..MaxFaults
    BY <1>2, Typed DEF IInv
  <2> QED BY <1>1, <1>2, <1>3, <1>5, <2>1, <2>2, <2>4, <2>5, <2>6, <2>7, JudgedKeeps
<1> QED BY <1>6, <1>7

LEMMA KickEndsKeeps ==
    ASSUME IInv, KickEnds
    PROVE  IInv'
<1>1. /\ TypeOK /\ tick \in Ticks /\ OnePointer /\ misses \in 0..2 /\ died \in BOOLEAN
      /\ faults \in 0..MaxFaults /\ (tick.action = "kick" \/ tick.pc # "kick")
  BY Typed DEF IInv, AnswersSound
<1>2. UNCHANGED <<pointer, seen, co, wedged, crons>> /\ tick.pc = "kick"
  BY DEF KickEnds
<1>3. Missed \in 1..2
  BY <1>1, MissedRises
<1>4. CASE tick.answer = "ok" /\ misses' = 0 /\ tick' = [tick EXCEPT !.pc = "act", !.answer = "status"]
           /\ UNCHANGED <<mail, faults, died>>
  <2>1. /\ tick' \in Ticks /\ tick'.pc = "act" /\ tick'.pointer = tick.pointer
        /\ tick'.answer = "status" /\ tick'.action = "kick"
    BY <1>1, <1>2, <1>4 DEF Ticks, Pcs, Answers
  <2> QED BY <1>1, <1>2, <1>4, <2>1, JudgedKeeps DEF FailoverEarned
<1>5. CASE /\ Unanswered(tick.pointer.epoch) /\ misses' = Missed
           /\ tick' = [tick EXCEPT !.pc = "act", !.answer = "unresponsive",
                                   !.action = OnSilence(tick.pointer.suspectSince)]
           /\ UNCHANGED <<mail, died>>
  <2> DEFINE act == OnSilence(tick.pointer.suspectSince)
  <2>1. act \in Actions /\ (act = "failover" => Missed >= 2 \/ died)
    BY <1>1, <1>2, SilenceEarned
  <2>2. tick' = [tick EXCEPT !.pc = "act", !.answer = "unresponsive", !.action = act]
    BY <1>5
  <2> HIDE DEF act
  <2>3. /\ tick' \in Ticks /\ tick'.pc = "act" /\ tick'.pointer = tick.pointer
        /\ tick'.answer = "unresponsive" /\ tick'.action = act
    BY <1>1, <2>1, <2>2 DEF Ticks, Pcs, Answers
  <2>4. FailoverEarned'
    BY <1>5, <2>1, <2>3 DEF FailoverEarned, Cause
  <2>5. faults' \in 0..MaxFaults
    BY <1>1, <1>5, UnansweredFaults
  <2> QED BY <1>1, <1>2, <1>3, <1>5, <2>3, <2>4, <2>5, JudgedKeeps
<1>6. CASE Fault /\ EndTick /\ misses' = 0 /\ died' = TRUE
  <2>1. faults' \in 0..MaxFaults
    BY <1>1, <1>6, FaultTyped
  <2> QED BY <1>2, <1>6, <2>1, EndKeeps DEF MarkEarned
<1> QED BY <1>4, <1>5, <1>6 DEF KickEnds

\* The pointer goes up by one with its ledger, or stays with its mark.
LEMMA ActKeeps ==
    ASSUME IInv, Act
    PROVE  IInv'
<1> DEFINE p == tick.pointer
           failover == tick.action = "failover" /\ p.failovers < MAX_FAILOVERS_PER_DAY
           next == IF failover THEN nextPointer(p) ELSE Marked(p)
           request == Request("start", next.epoch, "watchdog")
           starts == failover \/ (tick.action = "none" /\ LostStart(p))
<1>1. /\ TypeOK /\ tick \in Ticks /\ pointer \in Pointers /\ mail \subseteq Requests /\ PointerSound
      /\ MailSound /\ SuspectEarned /\ AnswersSound /\ OnePointer /\ RunsSound
      /\ seen \in Coordinators /\ misses \in 0..2 /\ died \in BOOLEAN
      /\ co \in [Coordinators -> Runs]
  BY Typed DEF IInv
<1>2. /\ UNCHANGED <<co, wedged, crons, faults>> /\ tick.pc = "act" /\ p = pointer
      /\ tick.answer \in {"status", "unresponsive", "error"}
      /\ died' = (died /\ tick.answer = "error") /\ misses' = (IF failover THEN 0 ELSE misses)
  BY <1>1 DEF Act, OnePointer, AnswersSound
<1>3. /\ pointer' = next /\ seen' \in {seen, pointer.epoch}
  BY <1>2 DEF Act, put
<1>4. /\ next \in Pointers /\ next.epoch = next.failovers /\ pointer.epoch <= next.epoch
      /\ next.suspectSince <= SUSPECT_CONFIRM
      /\ \A c \in next.retiring : c < next.epoch
  <2>1. CASE failover
    <3>1. next = [epoch |-> p.epoch + 1, failovers |-> p.failovers + 1, suspectSince |-> None,
                  retiring |-> p.retiring \cup {p.epoch}]
      BY <2>1 DEF nextPointer
    <3> HIDE DEF next
    <3> QED BY <1>1, <1>2, <2>1, <3>1, InRange, Constants DEF PointerSound, Pointers, Coordinators
  <2>2. CASE ~failover
    <3>1. next = p \/ \E a \in {None, 0} : next = [p EXCEPT !.suspectSince = a]
      BY <2>2 DEF Marked
    <3> HIDE DEF next
    <3> QED BY <1>1, <1>2, <3>1, InRange DEF PointerSound, Pointers, Coordinators
  <2> QED BY <2>1, <2>2
<1>5. MarkEarned'
  <2>1. next.suspectSince # None => misses' >= 1 \/ died'
    <3>1. CASE failover
      BY <3>1 DEF nextPointer
    <3>2. CASE ~failover /\ tick.answer = "status"
      <4>1. next = [p EXCEPT !.suspectSince = None]
        BY <3>2 DEF Marked
      <4> HIDE DEF next
      <4> QED BY <1>1, <1>2, <4>1 DEF Pointers
    <3>3. CASE ~failover /\ tick.answer = "unresponsive"
      BY <1>1, <1>2, <3>3 DEF SuspectEarned
    <3>4. CASE ~failover /\ tick.answer = "error"
      <4>1. MarkEarned /\ tick.action = "none" /\ died' = died /\ misses' = misses
        BY <1>1, <1>2, <3>4 DEF SuspectEarned
      <4>2. next = pointer
        BY <1>2, <3>4, <4>1 DEF Marked
      <4> QED BY <4>1, <4>2 DEF MarkEarned
    <3> QED BY <1>2, <3>1, <3>2, <3>3, <3>4
  <2> QED BY <1>3, <2>1 DEF MarkEarned
<1>6. RunsSound'
  <2>1. \A c \in Coordinators : Sound(c, co[c], pointer.epoch) => Sound(c, co[c], next.epoch)
    BY <1>1, <1>4 DEF Sound, Pointers, Coordinators
  <2> QED BY <1>1, <1>2, <1>3, <2>1 DEF RunsSound
<1>7. PointerSound' /\ seen' \in Coordinators
  BY <1>1, <1>3, <1>4 DEF PointerSound, Pointers, Coordinators
<1>8. IF starts
      THEN /\ tick' = [tick EXCEPT !.pc = "start", !.pointer = next, !.answer = "none"]
           /\ mail' = mail \cup {request}
      ELSE EndTick
  BY DEF Act
<1>9. request \in Requests /\ request.to = next.epoch /\ request.kind = "start" /\ request.reason = "watchdog"
  BY <1>4 DEF Request, Requests, Pointers
<1> HIDE DEF next, request
<1>10. misses' \in 0..2 /\ died' \in BOOLEAN
  BY <1>1, <1>2
<1>11. CASE starts
  <2>1. tick' \in Ticks /\ tick'.pc = "start" /\ tick'.pointer = next /\ tick'.answer = "none"
    BY <1>1, <1>4, <1>8, <1>11 DEF Ticks, Pcs, Answers
  <2>2. TypeOK'
    BY <1>1, <1>2, <1>3, <1>4, <1>7, <1>8, <1>9, <1>10, <1>11, <2>1, Typed DEF TypeOK
  <2>3. MailSound'
    <3>1. \A m \in mail' : m = request \/ (m \in mail /\ m.to <= pointer.epoch)
      BY <1>1, <1>8, <1>11 DEF MailSound
    <3>2. \A m \in mail : m.to \in Int
      BY <1>1 DEF Requests, Coordinators
    <3> QED BY <1>1, <1>3, <1>4, <1>9, <2>1, <3>1, <3>2 DEF MailSound, Pointers, Coordinators
  <2>4. OnePointer' /\ Releasing' /\ AnswersSound' /\ SuspectEarned' /\ FailoverEarned'
    BY <1>3, <1>5, <2>1 DEF OnePointer, Releasing, AnswersSound, SuspectEarned, FailoverEarned
  <2> QED BY <1>6, <1>7, <2>2, <2>3, <2>4 DEF IInv
<1>12. CASE ~starts
  <2>1. /\ tick' \in Ticks /\ tick'.pc = "off" /\ mail' \subseteq mail
        /\ \A m \in mail' : m.reason = "cron"
    BY <1>8, <1>12, NoTickTyped DEF EndTick
  <2>2. TypeOK'
    BY <1>1, <1>2, <1>3, <1>4, <1>7, <1>10, <2>1, Typed DEF TypeOK
  <2>3. MailSound'
    <3>1. \A m \in mail' : m.to \in Int /\ m.to <= pointer.epoch /\ m.kind = "start" /\ m.reason # "watchdog"
      BY <1>1, <2>1 DEF MailSound, Requests, Coordinators
    <3> QED BY <1>1, <1>3, <1>4, <3>1 DEF MailSound, Pointers, Coordinators
  <2>4. OnePointer' /\ Releasing' /\ AnswersSound' /\ SuspectEarned' /\ FailoverEarned'
    BY <1>5, <2>1 DEF OnePointer, Releasing, AnswersSound, SuspectEarned, FailoverEarned
  <2> QED BY <1>6, <1>7, <2>2, <2>3, <2>4 DEF IInv
<1> QED BY <1>11, <1>12

LEMMA TickOverKeeps ==
    ASSUME IInv, StartEnds \/ KillTick
    PROVE  IInv'
<1>1. TypeOK /\ misses \in 0..2 /\ died \in BOOLEAN /\ faults \in 0..MaxFaults /\ SuspectEarned
  BY Typed DEF IInv
<1>2. CASE StartEnds
  <2>1. UNCHANGED <<pointer, seen, co, wedged, crons, misses, died>> /\ EndTick /\ tick.pc = "start"
        /\ faults' \in 0..MaxFaults
    BY <1>1, <1>2, UnansweredFaults DEF StartEnds, history
  <2>2. MarkEarned'
    BY <1>1, <2>1 DEF SuspectEarned, MarkEarned
  <2> QED BY <1>1, <2>1, <2>2, EndKeeps
<1>3. CASE KillTick
  <2>1. /\ UNCHANGED <<pointer, seen, co, wedged, crons, misses>> /\ EndTick /\ died' = TRUE
        /\ faults' \in 0..MaxFaults
    BY <1>1, <1>3, FaultTyped DEF KillTick
  <2> QED BY <1>1, <2>1, EndKeeps DEF MarkEarned
<1> QED BY <1>2, <1>3

-----------------------------------------------------------------------------
LEMMA IInvInit == Init => IInv
<1> SUFFICES ASSUME Init PROVE IInv
  OBVIOUS
<1>1. /\ LEGACY_POINTER \in Pointers /\ LEGACY_POINTER.epoch = 0 /\ LEGACY_POINTER.failovers = 0
      /\ LEGACY_POINTER.suspectSince = None /\ LEGACY_POINTER.retiring = {}
  BY InRange, Constants DEF LEGACY_POINTER, Pointers, Coordinators
<1>2. /\ pointer = LEGACY_POINTER /\ seen = 0 /\ co = [c \in Coordinators |-> NoRun] /\ wedged = {}
      /\ tick = NoTick /\ mail = {} /\ crons = 0 /\ faults = 0 /\ misses = 0 /\ died = FALSE
  BY DEF Init
<1>3. TypeOK
  <2>1. NoRun \in Runs /\ NoTick \in Ticks /\ 0 \in Coordinators
    BY NoTickTyped, NoRunSound, Constants DEF Coordinators
  <2>2. 0 \in 0..MaxCrons /\ 0 \in 0..MaxFaults /\ 0 \in 0..2
    BY Constants
  <2> QED BY <1>1, <1>2, <2>1, <2>2 DEF TypeOK
<1>4. RunsSound /\ PointerSound
  BY <1>1, <1>2, NoRunSound, InRange DEF RunsSound, PointerSound
<1>5. OnePointer /\ MailSound /\ Releasing /\ AnswersSound /\ SuspectEarned /\ FailoverEarned
  BY <1>1, <1>2, NoTickTyped DEF OnePointer, MailSound, Releasing, AnswersSound, SuspectEarned,
     MarkEarned, FailoverEarned
<1> QED BY <1>3, <1>4, <1>5 DEF IInv

LEMMA IInvStep == IInv /\ [Next]_vars => IInv'
<1> SUFFICES ASSUME IInv, [Next]_vars PROVE IInv'
  OBVIOUS
<1>1. CASE UNCHANGED vars
  BY <1>1 DEF vars, IInv, TypeOK, RunsSound, PointerSound, OnePointer, MailSound, Releasing,
     AnswersSound, SuspectEarned, MarkEarned, FailoverEarned, Cause
<1> QED BY <1>1, AlarmKeeps, WorldKeeps, ElapseKeeps, FetchKeeps, ReadPointerKeeps, TimeoutKeeps,
           ReleaseRetiredKeeps, DecideKeeps, KickEndsKeeps, ActKeeps, TickOverKeeps
        DEF Next, TickStep

-----------------------------------------------------------------------------
\* Every variable of the watchdog keeps its type, ages at their caps included.
THEOREM TypeCorrect == Spec => []TypeOK
<1>1. IInv => TypeOK
  BY DEF IInv
<1> QED BY <1>1, IInvInit, IInvStep, PTL DEF Spec

\* Whichever requests are lost, late or delivered twice, no coordinator runs an
\* import before the pointer names it.
THEOREM OnlyDesignatedRun == Spec => []NoUndesignatedRun
<1>1. IInv => NoUndesignatedRun
  BY DEF IInv, RunsSound, Sound, NoUndesignatedRun
<1> QED BY <1>1, IInvInit, IInvStep, PTL DEF Spec

\* However far behind its reads are, the designated coordinator never retires.
THEOREM DesignatedGoesOn == Spec => []CurrentNeverRetires
<1>1. IInv => CurrentNeverRetires
  BY Typed DEF IInv, RunsSound, Sound, CurrentNeverRetires, Coordinators
<1> QED BY <1>1, IInvInit, IInvStep, PTL DEF Spec

\* A retired coordinator is crossed off only when its storage is gone, or the
\* fence is about to end what a late start began on it.
THEOREM RetiredStayListed == Spec => ListedUntilReleased
<1>1. ASSUME IInv, [Next]_vars
      PROVE  [\A c \in pointer.retiring \ pointer'.retiring:
                ~co[c].stored \/ InFlight(co[c]) \/ co[c].state = "superseded"]_vars
  <2> SUFFICES ASSUME NEW c \in pointer.retiring, c \notin pointer'.retiring
               PROVE  Gone(co[c])
    BY DEF Gone
  <2>1. /\ TypeOK /\ tick \in Ticks /\ pointer \in Pointers /\ OnePointer /\ Releasing
    BY <1>1, Typed DEF IInv
  <2>2. CASE releaseRetired
    <3>1. tick.pc = "release" /\ tick.ask = {} /\ tick.pointer = pointer
      BY <2>1, <2>2 DEF releaseRetired, OnePointer
    <3>2. pointer' = pointer \/ pointer' = [pointer EXCEPT !.retiring = tick.remaining]
      BY <2>2, <3>1 DEF releaseRetired, put
    <3>3. pointer'.retiring \in {pointer.retiring, tick.remaining}
      BY <2>1, <3>2 DEF Pointers
    <3> QED BY <2>1, <3>1, <3>3 DEF Releasing
  <2>3. CASE Act
    <3>1. tick.pointer = pointer
      BY <2>1, <2>3 DEF OnePointer, Act
    <3>2. pointer' \in {pointer, nextPointer(pointer), Marked(pointer)}
      BY <2>3, <3>1 DEF Act, put
    <3>3. Marked(pointer).retiring = pointer.retiring
      BY <2>1 DEF Marked, Pointers
    <3> QED BY <3>2, <3>3 DEF nextPointer
  <2>4. CASE pointer' = pointer
    BY <2>4
  <2>5. CASE Elapse
    <3>1. pointer'.retiring = pointer.retiring
      BY <2>1, <2>5 DEF Elapse, Pointers
    <3> QED BY <3>1
  <2> QED BY <1>1, <2>2, <2>3, <2>4, <2>5
        DEF Next, TickStep, readPointer, StatusTimeout, Decide, KickEnds, StartEnds, ReleaseTimeout,
            KillTick, startNightlyImport, Propagate, alarm, Wedge, Unwedge, LoseAlarm, fetch, LoseCron,
            vars
<1> QED BY <1>1, IInvInit, IInvStep, PTL DEF Spec, ListedUntilReleased

\* No coordinator is replaced for one slow answer: it missed two checks, or a
\* kick did not help it, or a tick died over its mark.
THEOREM OnlyReplacedForCause == Spec => ReplacedForCause
<1>1. ASSUME IInv, [Next]_vars
      PROVE  [pointer'.epoch > pointer.epoch => Cause]_vars
  <2> SUFFICES ASSUME pointer'.epoch > pointer.epoch
               PROVE  Cause
    OBVIOUS
  <2>1. /\ TypeOK /\ tick \in Ticks /\ pointer \in Pointers /\ OnePointer /\ FailoverEarned
        /\ pointer.epoch \in Int
    BY <1>1, Typed DEF IInv, Coordinators
  <2>2. CASE Act
    <3>1. tick.pointer = pointer /\ tick.pc = "act"
      BY <2>1, <2>2 DEF OnePointer, Act
    <3>2. tick.action = "failover" \/ pointer' \in {pointer, Marked(pointer)}
      BY <2>2, <3>1 DEF Act, put
    <3>3. Marked(pointer).epoch = pointer.epoch
      BY <2>1 DEF Marked, Pointers
    <3> QED BY <2>1, <3>1, <3>2, <3>3 DEF FailoverEarned
  <2>3. CASE releaseRetired
    <3>1. tick.pointer = pointer
      BY <2>1, <2>3 DEF OnePointer, releaseRetired
    <3>2. pointer' = pointer \/ pointer' = [pointer EXCEPT !.retiring = tick.remaining]
      BY <2>3, <3>1 DEF releaseRetired, put
    <3>3. pointer'.epoch = pointer.epoch
      BY <2>1, <3>2 DEF Pointers
    <3> QED BY <2>1, <3>3
  <2>4. CASE Elapse
    <3>1. pointer'.epoch = pointer.epoch
      BY <2>1, <2>4 DEF Elapse, Pointers
    <3> QED BY <2>1, <3>1
  <2>5. CASE pointer' = pointer
    BY <2>1, <2>5
  <2> QED BY <1>1, <2>2, <2>3, <2>4, <2>5
        DEF Next, TickStep, readPointer, StatusTimeout, Decide, KickEnds, StartEnds, ReleaseTimeout,
            KillTick, startNightlyImport, Propagate, alarm, Wedge, Unwedge, LoseAlarm, fetch, LoseCron,
            vars
<1> QED BY <1>1, IInvInit, IInvStep, PTL DEF Spec, ReplacedForCause, Cause
=============================================================================
