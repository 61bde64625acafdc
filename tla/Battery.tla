------------------------------ MODULE Battery ------------------------------
(***************************************************************************)
(* The battery monitor's calibration: one task integrates the samples of a *)
(* discharge and keeps the session in an append-only journal, one record   *)
(* per call of work().  The next start scans the journal: the newest       *)
(* complete session of the configured pack is the learned profile.         *)
(*                                                                         *)
(* The power may fail at any point (Boot); the journal survives, nothing   *)
(* else does.  An append may fail before, in or after its write.  Time and *)
(* the values of the samples are abstract: a sample is of one of six kinds *)
(* and the dwells, the interval and the session's bound elapse at will.    *)
(***************************************************************************)
EXTENDS Integers, Sequences, FiniteSets

CONSTANTS
    Pack,            \* configurations (configHash) that share the journal
    MaxIntervals,    \* config.maximumIntervalRecords()
    PointCount,      \* profilePointCount
    MaxRecords,      \* config.maximumJournalRecords
    RecordsPerWork,  \* config.curveBuildRecordsPerWork
    MaxSession,      \* the largest session id, 2^32 - 1 in the code
    MaxFaults        \* bound: appends that fail

\* maximumSessionRecords()
SessionRecords == 1 + MaxIntervals + PointCount + 1

ASSUME BatteryAssumption ==
    /\ {MaxIntervals, PointCount, RecordsPerWork, MaxSession} \subseteq Nat \ {0}
    /\ MaxRecords \in Nat /\ MaxRecords >= SessionRecords
    /\ MaxFaults \in Nat

VARIABLES
    journal, torn,  \* the file: its whole records, a partial one at its end
    pack,           \* the configuration of this boot
    at,             \* "loop", or "persist" between the two halves of work()
    request,        \* the mailbox
    health,         \* _storageHealth
    cal,            \* Calibration
    seen,           \* kind of the latest measurement, "none" once stale
    total,          \* whether any charge and energy was counted
    sequence, checksum,  \* of the session's records; the XOR as a set
    reading,        \* records read by the curve builder
    built,          \* "none", "active" or "done": _curveBuilder
    point,          \* _nextProfilePoint
    highest, profile, dangling,  \* _journalStatus
    rebootFooter,   \* _rebootFooterPending
    completed,      \* newest session completed in the journal (history)
    faults          \* bound

file == <<journal, torn>>
sensor == <<seen, total>>
writer == <<sequence, checksum>>
curve == <<reading, built, point>>
catalog == <<highest, profile, dangling>>
vars == <<file, pack, at, request, health, cal, sensor, writer, curve, catalog,
          rebootFooter, completed, faults>>

\* Kinds of samples: a full pack under load, any other pack under load, no
\* load, a charger, a voltage beyond the absolute limits, no pack.
Kind == {"full", "load", "idle", "charging", "limit", "absent"}
Usable == {"full", "load", "idle", "charging"}
Drawing == {"full", "load"}
\* what later steps tell apart of the latest sample
Remembered(m) == IF m = "charging" THEN "idle" ELSE IF m = "limit" THEN "absent" ELSE m

Header(s, q, p) == [type |-> "header", session |-> s, sequence |-> q, pack |-> p]
Interval(s, q) == [type |-> "interval", session |-> s, sequence |-> q]
Point(s, q, i) == [type |-> "point", session |-> s, sequence |-> q, point |-> i]
\* complete: state Complete with positive totals
Footer(s, q, ok, sum) ==
    [type |-> "footer", session |-> s, sequence |-> q, complete |-> ok, checksum |-> sum]

NoSession == [session |-> 0, sequence |-> 0, checksum |-> {}]
\* resetRuntime(); owed is history: a reboot footer was pending when armed
NoCalibration ==
    [state |-> "Idle", session |-> 0, headerPending |-> FALSE, headerWritten |-> FALSE,
     footerPending |-> FALSE, interval |-> FALSE, samples |-> FALSE, persisted |-> 0,
     owed |-> FALSE]
Active(c) == c.state \in {"ArmedFull", "Discharging", "Finalizing"}
Terminal(c) == c.state \in {"Invalid", "Aborted"}
CanFitButFooter == Len(journal) + SessionRecords - 1 <= MaxRecords  \* a mutant of CanFitSession
CanFitSession == Len(journal) + SessionRecords <= MaxRecords

-----------------------------------------------------------------------------
(* scanJournalRecords: one record at a time, with a candidate session.     *)

NoCandidate == [session |-> 0, next |-> 0, checksum |-> {}, points |-> {}, ours |-> FALSE]
Continues(c, r) == c.session # 0 /\ r.session = c.session /\ r.sequence = c.next

Completes(c, r) ==
    /\ r.type = "footer" /\ r.complete
    /\ r.checksum = c.checksum /\ Cardinality(c.points) = PointCount

ScanRecord(s, r, p) ==
    LET c == s.candidate
        t == [s EXCEPT !.highest = IF r.session > @ THEN r.session ELSE @]
        more == [c EXCEPT !.next = @ + 1, !.checksum = @ \cup {r.sequence},
                          !.points = IF r.type = "point" THEN @ \cup {r.point} ELSE @]
    IN  IF r.type = "header"
        THEN [t EXCEPT !.candidate = [session |-> r.session, next |-> r.sequence + 1,
                                      checksum |-> {r.sequence}, points |-> {},
                                      ours |-> r.pack = p]]
        ELSE IF ~Continues(c, r)
        THEN [t EXCEPT !.corrupt = TRUE, !.candidate = NoCandidate]
        ELSE IF r.type # "footer" THEN [t EXCEPT !.candidate = more]
        ELSE [t EXCEPT !.candidate = NoCandidate,
                       !.profile = IF Completes(c, r) /\ c.ours THEN c.session ELSE @]

Unscanned == [candidate |-> NoCandidate, corrupt |-> FALSE, highest |-> 0, profile |-> 0]

\* the records from the first on
Scan(records, p) ==
    LET scan[n \in 0 .. Len(records)] ==
          IF n = 0 THEN Unscanned ELSE ScanRecord(scan[n - 1], records[n], p)
    IN  scan[Len(records)]

Scanned(p) == Scan(journal, p)

Dangling(c) ==
    IF c.ours THEN [session |-> c.session, sequence |-> c.next, checksum |-> c.checksum]
              ELSE NoSession

-----------------------------------------------------------------------------
(* Calibration.                                                            *)

Invalidate(c) == [c EXCEPT !.state = "Invalid", !.footerPending = c.headerWritten]

\* A mutant of QueueInterval: without the bound.
QueueIntervalUnbounded(c) ==
    IF c.interval THEN Invalidate(c) ELSE [c EXCEPT !.interval = TRUE, !.samples = FALSE]

QueueInterval(c) ==
    IF c.persisted >= MaxIntervals \/ c.interval THEN Invalidate(c)
    ELSE [c EXCEPT !.interval = TRUE, !.samples = FALSE]

QueuePartialInterval(c) == IF c.samples THEN QueueInterval(c) ELSE c

Abort(c) ==
    IF ~Active(c) THEN c
    ELSE [(IF c.state = "Discharging" THEN QueuePartialInterval(c) ELSE c)
            EXCEPT !.state = "Aborted", !.footerPending = c.headerWritten]

RejectStart(c) == IF Active(c) THEN c ELSE [c EXCEPT !.state = "Invalid"]

CheckSensorTimeout(c, late) ==
    IF late /\ c.state = "Discharging" THEN Invalidate(QueuePartialInterval(c)) ELSE c

RequestFooterIfTerminal(c) ==
    IF Terminal(c) /\ c.headerWritten THEN [c EXCEPT !.footerPending = TRUE] ELSE c

MarkHeaderWritten(c) == [c EXCEPT !.headerPending = FALSE, !.headerWritten = TRUE]
MarkIntervalWritten(c) == [c EXCEPT !.interval = FALSE, !.persisted = @ + 1]
MarkComplete(c) == [c EXCEPT !.state = "Complete", !.footerPending = FALSE]
MarkFooterWritten(c) == [c EXCEPT !.footerPending = FALSE]
\* A mutant of StorageFailed: the footer is still asked for.
StorageFailedKeepsHeader(c) ==
    [c EXCEPT !.state = "Invalid", !.headerPending = FALSE, !.footerPending = FALSE,
              !.interval = FALSE]
StorageFailed(c) ==
    [c EXCEPT !.state = "Invalid", !.headerPending = FALSE, !.footerPending = FALSE,
              !.interval = FALSE, !.headerWritten = FALSE]

-----------------------------------------------------------------------------
(* _onBegin: after a power failure, perhaps with another configuration.    *)

Boot(p) ==
    LET s == Scanned(p)
        corrupt == s.corrupt \/ torn
    IN  /\ pack' = p /\ at' = "loop" /\ request' = "none"
        /\ cal' = NoCalibration /\ seen' = "none" /\ total' = FALSE
        /\ sequence' = 0 /\ checksum' = {}
        /\ reading' = 0 /\ built' = "none" /\ point' = 0
        /\ highest' = s.highest /\ profile' = s.profile /\ dangling' = Dangling(s.candidate)
        /\ health' = IF corrupt THEN "Corrupt" ELSE IF CanFitSession THEN "Healthy" ELSE "Full"
        /\ rebootFooter' = (~corrupt /\ CanFitSession /\ dangling'.session # 0)
        /\ UNCHANGED <<file, completed, faults>>

-----------------------------------------------------------------------------
(* The shell's commands.  Their preflight reads a published snapshot, which *)
(* may be older than the state when the request reaches the mailbox: only  *)
(* the storage, which is never healthy again in one boot, is sure to have  *)
(* been healthy.  A full mailbox refuses the request.                      *)

RequestCalibrationStart ==
    /\ request = "none" /\ health = "Healthy"
    /\ request' = "start"
    /\ UNCHANGED <<file, pack, at, health, cal, sensor, writer, curve, catalog,
                   rebootFooter, completed, faults>>

AbortCalibration ==
    /\ request = "none" /\ Active(cal)
    /\ request' = "abort"
    /\ UNCHANGED <<file, pack, at, health, cal, sensor, writer, curve, catalog,
                   rebootFooter, completed, faults>>

-----------------------------------------------------------------------------
(* observe(): the estimator first, then the calibration.                   *)

\* A pack that comes back, or a gap, begins a new count.
Estimate(m, gap, counts) ==
    /\ gap => seen \in Usable
    /\ counts => m \in Drawing /\ seen \in Drawing /\ ~gap
    /\ seen' = Remembered(m)
    /\ total' = IF m \in Usable /\ (seen \notin Usable \/ gap) THEN FALSE ELSE total \/ counts

Observation(m, gap, counts) ==
    /\ at = "loop" /\ Estimate(m, gap, counts)
    /\ UNCHANGED <<file, pack, at, request, health, writer, curve, catalog,
                   rebootFooter, completed, faults>>

\* Outside a session the count is of no use: the next one begins at zero.
ObserveOutside ==
    /\ cal.state \notin {"ArmedFull", "Discharging"}
    /\ \E m \in Kind, gap, counts \in BOOLEAN :
          /\ counts => cal.state = "Finalizing"
          /\ Observation(m, gap, counts)
    /\ UNCHANGED cal

\* resetFromFull() follows the estimate
ObserveStart ==
    /\ cal.state = "ArmedFull" /\ at = "loop"
    /\ seen' = "full" /\ total' = FALSE
    /\ cal' = [cal EXCEPT !.state = "Discharging", !.headerPending = TRUE, !.samples = TRUE]
    /\ UNCHANGED <<file, pack, at, request, health, writer, curve, catalog,
                   rebootFooter, completed, faults>>

ObserveNotFull ==
    /\ cal.state = "ArmedFull"
    /\ \E m \in Kind \ {"full"}, gap, counts \in BOOLEAN : Observation(m, gap, counts)
    /\ cal' = Invalidate(cal)

\* the session's bound, a gap, a charger, an absolute limit
ObserveInvalid ==
    /\ cal.state = "Discharging"
    /\ \E m \in Kind, gap, counts, over \in BOOLEAN :
          /\ over \/ gap \/ m \in {"charging", "limit"}
          /\ Observation(m, gap, counts)
    /\ cal' = Invalidate(QueuePartialInterval(cal))

ObserveCutoff ==
    /\ cal.state = "Discharging"
    /\ Observation("absent", FALSE, FALSE)
    /\ \/ UNCHANGED cal
       \/ /\ seen = "absent"  \* for cutoffDwellMs
          /\ cal' = [QueuePartialInterval(cal) EXCEPT !.state = "Finalizing"]

ObserveNoLoad ==
    /\ cal.state = "Discharging"
    /\ Observation("idle", FALSE, FALSE)
    /\ \/ UNCHANGED cal
       \/ /\ seen = "idle"  \* for loadRemovedDwellMs
          /\ cal' = Invalidate(QueuePartialInterval(cal))

ObserveLoad ==
    /\ cal.state = "Discharging"
    /\ \E m \in Drawing, counts, due \in BOOLEAN :
          LET c == [cal EXCEPT !.samples = TRUE]
          IN  /\ Observation(m, FALSE, counts)
              /\ cal' = IF due THEN QueueInterval(c) ELSE c

-----------------------------------------------------------------------------
(* work(), first half: freshness, one request, the sensor's timeout, the   *)
(* footer.                                                                 *)

Control(late) ==
    /\ at = "loop" /\ at' = "persist"
    /\ late => seen # "none"
    /\ seen' = IF late THEN "none" ELSE seen
    /\ request' = "none"
    /\ UNCHANGED <<file, pack, total, rebootFooter, completed, faults,
                   profile, dangling>>

ControlNothing(late) ==
    /\ request = "none" /\ Control(late)
    /\ cal' = RequestFooterIfTerminal(CheckSensorTimeout(cal, late))
    /\ UNCHANGED <<health, writer, curve, highest>>

AbortCalibrationOwned(late) ==
    /\ request = "abort" /\ Control(late)
    /\ cal' = RequestFooterIfTerminal(CheckSensorTimeout(Abort(cal), late))
    /\ IF Active(cal) THEN reading' = 0 /\ built' = "none" /\ point' = 0
                      ELSE UNCHANGED curve
    /\ UNCHANGED <<health, writer, highest>>

\* seen' is the freshness of this call
Admissible == health = "Healthy" /\ seen' # "none" /\ CanFitSession /\ highest < MaxSession

RejectStartOwned(late) ==
    /\ request = "start" /\ Control(late)
    /\ ~Admissible
    /\ health' = IF health = "Healthy" /\ seen' # "none" /\ ~CanFitSession THEN "Full" ELSE health
    /\ cal' = RequestFooterIfTerminal(CheckSensorTimeout(RejectStart(cal), late))
    /\ UNCHANGED <<writer, curve, highest>>

\* arm() refuses
RefuseToArm(late) ==
    /\ request = "start" /\ Control(late)
    /\ Admissible /\ (Active(cal) \/ seen # "full")
    /\ cal' = RequestFooterIfTerminal(CheckSensorTimeout(RejectStart(cal), late))
    /\ UNCHANGED <<health, writer, curve, highest>>

StartCalibrationOwned(late) ==
    /\ request = "start" /\ Control(late)
    /\ Admissible /\ ~Active(cal) /\ seen = "full"
    /\ cal' = [NoCalibration EXCEPT !.state = "ArmedFull", !.session = highest + 1,
                                    !.owed = rebootFooter]
    /\ highest' = highest + 1
    /\ sequence' = 0 /\ checksum' = {}
    /\ reading' = 0 /\ built' = "none" /\ point' = 0
    /\ UNCHANGED health

-----------------------------------------------------------------------------
(* work(), second half: at most one step of the journal.                   *)

\* "unwritten", "partial" and "unconfirmed" are an append that fails before
\* its write, in it, and in the flush or the close after it.
Outcomes ==
    IF torn THEN {"misaligned"}
    ELSE IF Len(journal) >= MaxRecords THEN {"overflow"}
    ELSE {"ok"} \cup IF faults < MaxFaults THEN {"unwritten", "partial", "unconfirmed"} ELSE {}

AppendRecord(r, outcome) ==
    /\ outcome \in Outcomes
    /\ journal' = IF outcome \in {"ok", "unconfirmed"} THEN Append(journal, r) ELSE journal
    /\ torn' = (torn \/ outcome = "partial")
    /\ faults' = IF outcome \in {"unwritten", "partial", "unconfirmed"} THEN faults + 1 ELSE faults

HandleStorageFailure(error) ==
    /\ rebootFooter' = FALSE
    /\ reading' = 0 /\ built' = "none" /\ UNCHANGED point
    /\ cal' = StorageFailed(cal)
    /\ health' = CASE error = "overflow" -> "Full"
                   [] error \in {"misaligned", "data"} -> "Corrupt"
                   [] OTHER -> "WriteFailed"

\* the step workOnePersistenceStep takes
Due ==
    IF rebootFooter THEN "rebootFooter"
    ELSE IF cal.headerPending THEN "header"
    ELSE IF cal.interval THEN "interval"
    ELSE IF cal.state = "Finalizing" THEN "finalize"
    ELSE IF cal.footerPending THEN "footer"
    ELSE "nothing"

Persist(step) ==
    /\ at = "persist" /\ at' = "loop"
    /\ Due = step
    /\ UNCHANGED <<pack, request, sensor, highest>>

PersistNothing ==
    /\ Persist("nothing")
    /\ UNCHANGED <<file, health, cal, writer, curve, profile, dangling, rebootFooter,
                   completed, faults>>

WriteRebootFooter ==
    /\ Persist("rebootFooter")
    /\ \E o \in Outcomes :
          /\ AppendRecord(Footer(dangling.session, dangling.sequence, FALSE,
                                 dangling.checksum), o)
          /\ IF o = "ok"
             THEN /\ rebootFooter' = FALSE /\ dangling' = NoSession
                  /\ UNCHANGED <<health, cal, curve>>
             ELSE HandleStorageFailure(o) /\ UNCHANGED dangling
    /\ UNCHANGED <<writer, profile, completed>>

\* a record of the running session: what it does once it is written
WriteRecord(r, calOnSuccess, nextPoint) ==
    /\ \E o \in Outcomes :
          /\ AppendRecord(r, o)
          /\ IF o = "ok"
             THEN /\ sequence' = sequence + 1 /\ checksum' = checksum \cup {sequence}
                  /\ cal' = calOnSuccess /\ point' = nextPoint
                  /\ UNCHANGED <<health, reading, built, rebootFooter>>
             ELSE HandleStorageFailure(o) /\ UNCHANGED writer
    /\ UNCHANGED <<profile, dangling, completed>>

WriteHeader ==
    /\ Persist("header")
    /\ WriteRecord(Header(cal.session, sequence, pack), MarkHeaderWritten(cal), point)

WriteInterval ==
    /\ Persist("interval")
    /\ WriteRecord(Interval(cal.session, sequence), MarkIntervalWritten(cal), point)

WritePoint ==
    /\ Persist("finalize") /\ built = "done" /\ point < PointCount
    /\ WriteRecord(Point(cal.session, sequence, point), cal, point + 1)

BeginCurveBuild ==
    /\ Persist("finalize") /\ built = "none"
    /\ IF total THEN /\ built' = "active" /\ reading' = 0
                     /\ UNCHANGED <<health, cal, point, rebootFooter>>
                ELSE HandleStorageFailure("state")
    /\ UNCHANGED <<file, writer, profile, dangling, completed, faults>>

HasInterval == \E i \in DOMAIN journal : journal[i].type = "interval"
                                         /\ journal[i].session = cal.session

\* The reader meets the end within RecordsPerWork reads.
WorkCurveBuild ==
    /\ Persist("finalize") /\ built = "active"
    /\ IF Len(journal) - reading >= RecordsPerWork
       THEN /\ reading' = reading + RecordsPerWork
            /\ UNCHANGED <<health, cal, built, point, rebootFooter>>
       ELSE IF HasInterval
       THEN /\ reading' = 0 /\ built' = "done" /\ point' = 0
            /\ UNCHANGED <<health, cal, rebootFooter>>
       ELSE HandleStorageFailure("data")
    /\ UNCHANGED <<file, writer, profile, dangling, completed, faults>>

WriteCompleteFooter ==
    /\ Persist("finalize") /\ built = "done" /\ point = PointCount
    /\ \E o \in Outcomes :
          /\ AppendRecord(Footer(cal.session, sequence, total, checksum), o)
          /\ completed' = IF o \in {"ok", "unconfirmed"} /\ total
                          THEN [completed EXCEPT ![pack] = cal.session] ELSE completed
          /\ IF o = "ok"
             THEN /\ profile' = cal.session /\ cal' = MarkComplete(cal)
                  /\ UNCHANGED <<health, curve, rebootFooter>>
             ELSE HandleStorageFailure(o) /\ UNCHANGED profile
    /\ UNCHANGED <<writer, dangling>>

WriteTerminalFooter ==
    /\ Persist("footer")
    /\ \E o \in Outcomes :
          /\ AppendRecord(Footer(cal.session, sequence, FALSE, checksum), o)
          /\ IF o = "ok"
             THEN /\ cal' = MarkFooterWritten(cal)
                  /\ UNCHANGED <<health, curve, rebootFooter>>
             ELSE HandleStorageFailure(o)
    /\ UNCHANGED <<writer, profile, dangling, completed>>

-----------------------------------------------------------------------------
Init ==
    /\ journal = <<>> /\ torn = FALSE /\ pack \in Pack
    /\ at = "loop" /\ request = "none"
    /\ health = "Healthy" /\ cal = NoCalibration /\ seen = "none" /\ total = FALSE
    /\ sequence = 0 /\ checksum = {} /\ reading = 0 /\ built = "none" /\ point = 0
    /\ highest = 0 /\ profile = 0 /\ dangling = NoSession /\ rebootFooter = FALSE
    /\ completed = [p \in Pack |-> 0] /\ faults = 0

Work ==
    \/ \E late \in BOOLEAN :
          \/ ControlNothing(late) \/ AbortCalibrationOwned(late)
          \/ RejectStartOwned(late) \/ RefuseToArm(late) \/ StartCalibrationOwned(late)
    \/ PersistNothing \/ WriteRebootFooter \/ WriteHeader \/ WriteInterval
    \/ BeginCurveBuild \/ WorkCurveBuild \/ WritePoint
    \/ WriteCompleteFooter \/ WriteTerminalFooter

Observe ==
    \/ ObserveOutside \/ ObserveStart \/ ObserveNotFull \/ ObserveInvalid
    \/ ObserveCutoff \/ ObserveNoLoad \/ ObserveLoad

Command == RequestCalibrationStart \/ AbortCalibration

Next == (\E p \in Pack : Boot(p)) \/ Command \/ Observe \/ Work

Spec == Init /\ [][Next]_vars

-----------------------------------------------------------------------------
Session == 0 .. MaxSession
Sequence == 0 .. MaxRecords
Record ==
    [type : {"header"}, session : Session, sequence : Sequence, pack : Pack]
        \cup [type : {"interval"}, session : Session, sequence : Sequence]
        \cup [type : {"point"}, session : Session, sequence : Sequence,
              point : 0 .. PointCount - 1]
        \cup [type : {"footer"}, session : Session, sequence : Sequence,
              complete : BOOLEAN, checksum : SUBSET Sequence]

CalibrationType ==
    [state : {"Idle", "ArmedFull", "Discharging", "Finalizing", "Complete", "Aborted",
              "Invalid"},
     session : Session, headerPending : BOOLEAN, headerWritten : BOOLEAN,
     footerPending : BOOLEAN, interval : BOOLEAN, samples : BOOLEAN,
     persisted : 0 .. MaxIntervals, owed : BOOLEAN]

TypeOK ==
    /\ journal \in Seq(Record) /\ Len(journal) <= MaxRecords /\ torn \in BOOLEAN
    /\ pack \in Pack /\ at \in {"loop", "persist"}
    /\ request \in {"none", "start", "abort"}
    /\ health \in {"Healthy", "Corrupt", "WriteFailed", "Full"}
    /\ cal \in CalibrationType
    /\ seen \in {"none", "full", "load", "idle", "absent"} /\ total \in BOOLEAN
    /\ sequence \in Sequence /\ checksum \subseteq Sequence
    /\ reading \in 0 .. MaxRecords /\ built \in {"none", "active", "done"}
    /\ point \in 0 .. PointCount
    /\ {highest, profile} \subseteq Session
    /\ dangling \in [session : Session, sequence : Sequence, checksum : SUBSET Sequence]
    /\ rebootFooter \in BOOLEAN
    /\ completed \in [Pack -> Session] /\ faults \in 0 .. MaxFaults

\* the journal has two footers of one session
Repeated ==
    \E i, j \in DOMAIN journal :
        /\ i < j /\ journal[i].type = "footer" /\ journal[j].type = "footer"
        /\ journal[i].session = journal[j].session

\* Whenever the power fails, the scan finds as a pack's profile the newest
\* session that was completed in the journal, whatever was aborted, interrupted
\* or half written before and after it, and for whichever packs; and the whole
\* records raise no issue (which would disable calibration and the profile),
\* unless a session's footer was repeated.
ScanFaithful ==
    \A p \in Pack : LET s == Scanned(p)
                    IN  s.profile = completed[p] /\ (s.corrupt => Repeated)

\* records the running session may still append
Remaining ==
    IF cal.state = "Finalizing"
    THEN (IF cal.headerWritten THEN 0 ELSE 1) + (IF cal.interval THEN 1 ELSE 0)
         + (IF built = "done" THEN PointCount - point ELSE PointCount) + 1
    ELSE (IF cal.headerWritten THEN 0 ELSE 1) + (MaxIntervals - cal.persisted) + PointCount + 1

\* A session that was admitted finds room for all its records: the check made
\* once, when it was armed, covers whatever it meets.  One session may be a
\* record short: the check does not count a reboot footer that is still to be
\* appended.
SessionFits ==
    Active(cal) =>
        Len(journal) + Remaining + (IF rebootFooter THEN 1 ELSE 0)
            <= MaxRecords + (IF cal.owed THEN 1 ELSE 0)

\* docs/ina2xx-battery-monitor-contract-alignment-plan.md:218: each footer
\* event causes at most one write attempt, and there is no implicit retry
\* loop (223).
FooterOnce == ~Repeated
=============================================================================
