----------------------------- MODULE DiskWrite -----------------------------
(***************************************************************************)
(* The disk-write watch of the resident (sessionpressure/disk_write.go,    *)
(* disk_write_store.go): it samples the device's counter of written bytes, *)
(* judges them against a learned baseline and an absolute burst limit,     *)
(* keeps hourly history on disk and raises at most a few alerts a day.     *)
(*                                                                         *)
(* A sample is cut where the process can die between two durable effects:  *)
(* the history row, the removal of the checkpoint, the alert state, the    *)
(* notification.  Time is counted in sample intervals.  Histograms are     *)
(* left out: how the window compares with the baseline is an input, a      *)
(* band.  Which process wrote the bytes is left out too.  A scene chosen   *)
(* initially decides whether the counters, the alerts or the bands vary.   *)
(***************************************************************************)
EXTENDS Integers, Sequences, FiniteSets, SequencesExt

CONSTANTS
    Scenes,         \* subset of {"bytes", "alerts", "incidents"}
    HourLength,     \* by scene
    DayLength,
    Window,         \* diskWriteWindow
    Cover,          \* diskWriteMinimumWindow
    BurstWindow,    \* diskWriteBurstWindow
    BurstBytes,     \* diskWriteBurstBytes
    MaxInterval,    \* the longest interval that is scored
    UnusualTime, HighTime, RecoveryTime,   \* how long a verdict must last
    AlertLimit,     \* diskWriteAlertLimitPerDay
    Deltas,         \* what may be written in one interval, by scene
    MaxTime, MaxStops, MaxFaults, MaxResets   \* bounds, by scene

ASSUME DiskAssumption ==
    /\ Scenes \subseteq {"bytes", "alerts", "incidents"}
    /\ HourLength \in [Scenes -> Nat \ {0}]
    /\ {DayLength, Window, BurstWindow, BurstBytes, MaxInterval, AlertLimit} \subseteq Nat \ {0}
    /\ {Cover, UnusualTime, HighTime, RecoveryTime} \subseteq Nat
    /\ Deltas \in [Scenes -> SUBSET Nat]
    /\ {MaxTime, MaxStops, MaxFaults, MaxResets} \subseteq [Scenes -> Nat]

VARIABLES
    scene, now,
    written,     \* bytes written to the device since the beginning: byte n is the n-th
    counter,     \* the device's counter: [base, id], the byte it started after and its identity
    records,     \* disk-writes-*.jsonl
    checkpoint,  \* disk-write-current.json
    alertFile,   \* disk-write-alert-state.json
    pc,          \* where the resident's sampling is
    obs,         \* the observer
    reading,     \* the sample in progress
    reader,      \* a command that reads the history
    stops, faults, resets,   \* used up bounds
    ghost        \* history for the properties

vars == <<scene, now, written, counter, records, checkpoint, alertFile, pc, obs, reading, reader,
          stops, faults, resets, ghost>>
device == <<scene, written, counter, resets>>
store  == <<records, checkpoint, alertFile>>

Never == -100
Hour(t) == t \div HourLength[scene]
Day(t)  == t \div DayLength
Newly(t, since) == IF since = Never THEN t ELSE since
Lasted(since, time) == since # Never /\ now - since >= time

(***************************************************************************)
(* The history.  of is the set of bytes a row counts; the row itself only  *)
(* has their number, split into scored bytes and those of gaps.            *)
(***************************************************************************)
NoRecord == [hour |-> -1, bytes |-> 0, gap |-> 0, at |-> Never, count |-> 0, id |-> 0, pos |-> 0, of |-> {}]

\* Mutant: the checkpoint is only compared by its hour when the row is newer.
SupersededLater(rows, c) == \E i \in DOMAIN rows : rows[i].hour = c.hour /\ rows[i].at > c.at
\* The row that took over from a checkpoint which was not removed.
Superseded(rows, c) ==
    \E i \in DOMAIN rows : /\ rows[i].hour = c.hour /\ rows[i].at >= c.at
                           /\ rows[i].id = c.id /\ rows[i].count >= c.count
WithCheckpoint(rows, c) == IF c = NoRecord \/ Superseded(rows, c) THEN rows ELSE Append(rows, c)

\* The first of the rows with the latest sample: where the counter is taken up again.
Newest(rows) ==
    IF rows = <<>> THEN NoRecord
    ELSE LET i == CHOOSE i \in DOMAIN rows :
                    /\ \A j \in DOMAIN rows : rows[j].at <= rows[i].at
                    /\ \A j \in 1..(i - 1) : rows[j].at < rows[i].at
         IN  rows[i]

Bytes(rows) == UNION {rows[i].of : i \in DOMAIN rows}

(***************************************************************************)
(* The observer.                                                           *)
(***************************************************************************)
NoObserver ==
    [prev |-> NoRecord, points |-> <<>>, hour |-> NoRecord, adaptive |-> "none",
     until |-> Never, unusual |-> Never, high |-> Never, recovery |-> Never,
     open |-> FALSE, day |-> -1, alerts |-> 0, invalid |-> FALSE]

\* Restored traffic counts for the day's total and never for a window.
RestoredPoint(r) == [at |-> r.at, length |-> 0, bytes |-> r.bytes + r.gap, scored |-> FALSE]

RestoreAlerts(o) ==
    IF alertFile.day < 0 THEN o
    ELSE [o EXCEPT !.day = alertFile.day, !.alerts = alertFile.alerts, !.open = alertFile.open]
\* Mutant: the hour of the checkpoint is not continued.
RestoreNewHour(o) ==
    LET rows == WithCheckpoint(records, checkpoint)
    IN  [o EXCEPT !.prev = Newest(rows), !.points = [i \in DOMAIN rows |-> RestoredPoint(rows[i])]]
RestoreHistory(o) ==
    LET rows == WithCheckpoint(records, checkpoint)
        hour == IF Superseded(records, checkpoint) THEN NoRecord ELSE checkpoint
    IN  [o EXCEPT !.prev = Newest(rows), !.points = [i \in DOMAIN rows |-> RestoredPoint(rows[i])],
                  !.hour = hour]

\* prunePointsLocked drops points up to the first that is not older than a day.
Pruned(points) ==
    LET young == {i \in DOMAIN points : points[i].at >= now - DayLength}
    IN  IF young = {} THEN <<>> ELSE SubSeq(points, Min(young), Len(points))

\* The window, the burst minute, and whether the window is long enough to judge.
Scored(points) == SelectSeq(points, LAMBDA p : p.scored)
Covered(points) == Scored(points) # <<>> /\ now - Scored(points)[1].at >= Cover
BurstWindowBytes(points) ==
    FoldLeft(LAMBDA sum, p : IF p.scored /\ p.at - p.length >= now - BurstWindow THEN sum + p.bytes ELSE sum,
             0, points)

\* What a new reading adds: nothing is known across a reset or a change of the device.
Measure(o, r) ==
    LET known   == o.prev.at # Never /\ r.id = o.prev.id /\ r.count >= o.prev.count
        elapsed == now - o.prev.at
    IN  [known  |-> known, elapsed |-> elapsed,
         scored |-> known /\ elapsed > 0 /\ elapsed <= MaxInterval,
         bytes  |-> IF known THEN r.count - o.prev.count ELSE 0]

Point(m) == [at |-> now, length |-> m.elapsed, bytes |-> m.bytes, scored |-> m.scored]

(***************************************************************************)
(* classifyLocked: the adaptive verdict with its hysteresis, and whether   *)
(* the window may train the baseline.  band is the ratio of the window to  *)
(* the baseline: "learning" if there is none, "quiet" below 2, "plateau"   *)
(* below 6, "unusual" below 12, "high".  sure: the baseline is confident;  *)
(* a provisional one finds only a lasting, dominant writer high.           *)
(***************************************************************************)
Anomalous == {"high", "unusual"}
Timers(o, band) ==
    [o EXCEPT !.high     = IF band = "high" THEN Newly(now, @) ELSE Never,
              !.unusual  = IF band \in Anomalous THEN Newly(now, @) ELSE Never,
              !.recovery = IF o.adaptive \notin Anomalous THEN @
                           ELSE IF band = "quiet" THEN Newly(now, @) ELSE Never]
Judged(t, sure) ==
    IF t.adaptive \in Anomalous /\ ~Lasted(t.recovery, RecoveryTime) THEN t.adaptive
    ELSE IF Lasted(t.high, HighTime) /\ sure # "no" THEN "high"
    ELSE IF Lasted(t.unusual, UnusualTime) /\ sure = "yes" THEN "unusual" ELSE "normal"

\* Mutant: an incident that is recovering is learned from.
ClassifyEager(o, band, sure) ==
    LET t == Timers(o, band)
    IN  [obs |-> [t EXCEPT !.adaptive = Judged(t, sure)], state |-> Judged(t, sure),
         accepted |-> band \in {"quiet", "plateau"}]
Classify(o, band, sure) ==
    IF band = "learning"
    THEN [obs |-> [o EXCEPT !.unusual = Never, !.high = Never, !.recovery = Never, !.adaptive = "learning"],
          state |-> "learning", accepted |-> TRUE]
    ELSE LET t == Timers(o, band)
             s == Judged(t, sure)
         IN  [obs |-> [t EXCEPT !.adaptive = s], state |-> s,
              accepted |-> band \in {"quiet", "plateau"} /\ s \notin Anomalous /\ o.adaptive \notin Anomalous]

\* The verdict of a sample: too short a window only learns, a burst is high at once and
\* keeps the baseline closed until it has left the window.
Verdict(o, r, m) ==
    LET points == Pruned(IF m.known THEN Append(o.points, Point(m)) ELSE o.points)
        c      == Classify(o, r.band, r.sure)
        burst  == m.scored /\ BurstWindowBytes(points) >= BurstBytes
        until  == IF burst THEN now + Window ELSE o.until
        state  == IF burst THEN "high" ELSE IF Covered(points) THEN c.state ELSE "learning"
    IN  [obs |-> [c.obs EXCEPT !.points = points, !.until = until], state |-> state,
         burst |-> burst, accepted |-> c.accepted /\ Covered(points) /\ now >= until]

(***************************************************************************)
(* recordHourLocked: the hour in progress, and the row begun when the hour *)
(* has changed.                                                            *)
(***************************************************************************)
RecordHour(hour, r, m) ==
    LET h == IF hour.hour = Hour(now) THEN hour ELSE [NoRecord EXCEPT !.hour = Hour(now)]
    IN  [h EXCEPT !.bytes = IF m.scored THEN @ + m.bytes ELSE @,
                  !.gap = IF m.known /\ ~m.scored THEN @ + m.bytes ELSE @,
                  !.at = now, !.count = r.count, !.id = r.id, !.pos = written,
                  !.of = @ \cup ((written - m.bytes + 1) .. written)]

NoReading == [count |-> 0, id |-> 0, state |-> "learning", scored |-> FALSE, known |-> FALSE, bytes |-> 0]

Fault(lossy) ==
    /\ faults < MaxFaults[scene]
    /\ faults' = faults + 1
    /\ ghost' = [ghost EXCEPT !.lossy = @ \/ lossy]
Fine == UNCHANGED <<faults, ghost>>
\* The alert state fails in the scene that is about it.
AlertFault == scene = "alerts" /\ Fault(FALSE)

\* The incident behind the adaptive verdict, and how the observer has lost sight of it.
NoIncident == [open |-> FALSE, lost |-> {}]

NoGhost == [lossy |-> FALSE, first |-> Never, skipped |-> {}, resetHours |-> {},
            sent |-> [d \in 0..Day(MaxTime[scene]) |-> 0], armed |-> TRUE, twice |-> FALSE,
            incident |-> NoIncident, quiet |-> Never, bursts |-> {}, trained |-> FALSE]

Init ==
    /\ scene \in Scenes /\ now = 0 /\ written = 0 /\ counter = [base |-> 0, id |-> 0]
    /\ records = <<>> /\ checkpoint = NoRecord
    /\ alertFile = [day |-> -1, alerts |-> 0, open |-> FALSE]
    /\ pc = "down" /\ obs = NoObserver /\ reading = NoReading
    /\ reader = [at |-> "off", rows |-> <<>>]
    /\ stops = 0 /\ faults = 0 /\ resets = 0 /\ ghost = NoGhost

(***************************************************************************)
(* The device and the clock.  An interval passes; if the resident does not *)
(* sample before the next one it has missed it.                            *)
(***************************************************************************)
Tick ==
    /\ pc \in {"down", "idle"} /\ now < MaxTime[scene]
    /\ now' = now + 1
    /\ \E d \in Deltas[scene] : written' = written + d
    /\ UNCHANGED <<scene, counter, store, pc, obs, reading, reader, stops, faults, resets, ghost>>

\* The counter starts again, after a reboot or with another set of devices.
ResetCounter ==
    /\ pc \in {"down", "idle"} /\ resets < MaxResets[scene]
    /\ \E id \in {counter.id, counter.id + 1} : counter' = [base |-> written, id |-> id]
    /\ resets' = resets + 1
    /\ ghost' = [ghost EXCEPT !.resetHours = @ \cup {Hour(now)}]
    /\ UNCHANGED <<scene, now, written, store, pc, obs, reading, reader, stops, faults>>

(***************************************************************************)
(* The resident.                                                           *)
(***************************************************************************)
\* An incident outlives the resident; the verdict in progress does not.
Forgotten ==
    [ghost EXCEPT !.incident.lost = IF ghost.incident.open THEN @ \cup {"restart"} ELSE @,
                  !.quiet = Never, !.trained = FALSE]

\* restore: an alert state that cannot be read silences the alerts, a history that cannot
\* be read is done without.
Restored == RestoreHistory(RestoreAlerts(NoObserver))
Start ==
    /\ pc = "down" /\ pc' = "fresh"
    /\ \/ obs' = Restored /\ Fine
       \/ obs' = RestoreHistory([NoObserver EXCEPT !.invalid = TRUE]) /\ AlertFault
       \/ obs' = RestoreAlerts(NoObserver) /\ Fault(TRUE)
    /\ UNCHANGED <<now, device, store, reading, reader, stops>>

\* An incident lasts from its verdict until it has been quiet for RecoveryTime, whatever the
\* observer makes of it meanwhile.  One that began while the recovery timer of the one before
\* still ran is lost as "stale": classifyLocked does not clear that timer when an incident
\* ends, so that it may end this one at once.
Incident(adaptive, recovery, over) ==
    IF adaptive \in Anomalous
    THEN [open |-> TRUE,
          lost |-> IF recovery # Never /\ (obs.adaptive \notin Anomalous \/ "stale" \in ghost.incident.lost)
                   THEN {"stale"} ELSE {}]
    ELSE IF over \/ ~ghost.incident.open THEN NoIncident
    ELSE [ghost.incident EXCEPT !.lost = IF adaptive = "learning" THEN @ \cup {"learning"} ELSE @]
\* The verdict m, v of a reading r, in progress and to the history.
Sampled(r, m, v) ==
    LET quiet  == IF r.band = "quiet" THEN Newly(now, ghost.quiet) ELSE Never
        over   == quiet # Never /\ now - quiet >= RecoveryTime
        bursts == IF v.burst THEN ghost.bursts \cup {now} ELSE ghost.bursts \ {now}
    IN  /\ obs' = [v.obs EXCEPT !.prev = [NoRecord EXCEPT !.at = now, !.count = r.count, !.id = r.id, !.pos = written]]
        /\ reading' = [count |-> r.count, id |-> r.id, state |-> v.state, scored |-> m.scored, known |-> m.known, bytes |-> m.bytes]
        /\ ghost' = [ghost EXCEPT
              !.first = IF WithCheckpoint(records, checkpoint) = <<>> /\ pc = "fresh" THEN written ELSE @,
              !.skipped = IF resets > 0 /\ counter.base >= obs.prev.pos
                          THEN @ \cup ((obs.prev.pos + 1) .. (written - m.bytes)) ELSE @,
              !.quiet = quiet,
              !.incident = Incident(v.obs.adaptive, v.obs.recovery, over),
              !.bursts = {b \in bursts : b >= now - Window},
              !.armed = @ \/ v.state # "high",
              !.trained = v.accepted]
\* Sample up to recordHourLocked.
Sample(band, sure) ==
    /\ pc = "fresh" \/ (pc = "idle" /\ now > obs.prev.at)
    /\ pc' = IF obs.hour # NoRecord /\ obs.hour.hour # Hour(now) THEN "flush" ELSE "hour"
    /\ \E r \in {[count |-> written - counter.base, id |-> counter.id, band |-> band, sure |-> sure]} :
          \E m \in {Measure(obs, r)} : \E v \in {Verdict(obs, r, m)} : Sampled(r, m, v)
    /\ UNCHANGED <<now, device, store, reader, stops, faults>>

\* flushHourLocked: the row is appended; if it cannot be, it is kept as the checkpoint.
FlushAppend ==
    /\ pc = "flush"
    /\ \/ /\ records' = Append(records, obs.hour) /\ pc' = "remove" /\ Fine
          /\ UNCHANGED <<checkpoint, obs>>
       \/ /\ Fault(TRUE) /\ pc' = "hour" /\ obs' = [obs EXCEPT !.hour = NoRecord]
          /\ checkpoint' \in {checkpoint, obs.hour} /\ UNCHANGED records
    /\ UNCHANGED <<now, device, alertFile, reading, reader, stops>>
RemoveCheckpoint ==
    /\ pc = "remove" /\ pc' = "hour"
    /\ obs' = [obs EXCEPT !.hour = NoRecord]
    /\ \/ checkpoint' = NoRecord /\ Fine
       \/ checkpoint # NoRecord /\ Fault(FALSE) /\ UNCHANGED checkpoint
    /\ UNCHANGED <<now, device, records, alertFile, reading, reader, stops>>

Done == pc' = "idle" /\ reading' = NoReading

RecordSample ==
    /\ pc = "hour"
    /\ obs' = [obs EXCEPT !.hour = RecordHour(@, reading, reading)]
    /\ IF obs.invalid THEN Done ELSE pc' = "alert" /\ UNCHANGED reading
    /\ UNCHANGED <<now, device, store, reader, stops, faults, ghost>>

(***************************************************************************)
(* alertLocked.  The state is saved before anything is sent; if it cannot  *)
(* be, nothing is.                                                         *)
(***************************************************************************)
Closes(r) == r.state = "normal" \/ (r.state = "learning" /\ r.scored)
MayAlert(o) == ~o.open /\ o.alerts < AlertLimit

AlertDay ==
    /\ pc = "alert" /\ obs.day # Day(now)
    /\ \/ /\ alertFile' = [day |-> Day(now), alerts |-> 0, open |-> obs.open]
          /\ obs' = [obs EXCEPT !.day = Day(now), !.alerts = 0]
          /\ Fine /\ UNCHANGED <<pc, reading>>
       \/ AlertFault /\ Done /\ UNCHANGED <<alertFile, obs>>
    /\ UNCHANGED <<now, device, records, checkpoint, reader, stops>>
SaveAlert(alerts, open) ==
    /\ \/ /\ alertFile' = [day |-> obs.day, alerts |-> alerts, open |-> open]
          /\ obs' = [obs EXCEPT !.alerts = alerts, !.open = open]
          /\ IF open THEN pc' = "notify" /\ UNCHANGED reading ELSE Done
          /\ Fine
       \/ AlertFault /\ Done /\ UNCHANGED <<alertFile, obs>>
    /\ UNCHANGED <<now, device, records, checkpoint, reader, stops>>
AlertNone ==
    /\ pc = "alert" /\ obs.day = Day(now)
    /\ IF reading.state = "high" THEN ~MayAlert(obs) ELSE ~(Closes(reading) /\ obs.open)
    /\ Done
    /\ UNCHANGED <<now, device, store, obs, reader, stops, faults, ghost>>
AlertClose ==
    /\ pc = "alert" /\ obs.day = Day(now)
    /\ reading.state # "high" /\ Closes(reading) /\ obs.open
    /\ SaveAlert(obs.alerts, FALSE)
\* Mutant: the state is not saved with the alert.
AlertUnsaved ==
    /\ pc = "alert" /\ obs.day = Day(now)
    /\ reading.state = "high" /\ MayAlert(obs)
    /\ obs' = [obs EXCEPT !.alerts = @ + 1, !.open = TRUE] /\ pc' = "notify"
    /\ UNCHANGED <<now, device, store, reading, reader, stops, faults, ghost>>
AlertOpen ==
    /\ pc = "alert" /\ obs.day = Day(now)
    /\ reading.state = "high" /\ MayAlert(obs)
    /\ SaveAlert(obs.alerts + 1, TRUE)
Notify ==
    /\ pc = "notify" /\ Done
    /\ ghost' = [ghost EXCEPT !.sent[Day(now)] = @ + 1, !.armed = FALSE, !.twice = @ \/ ~ghost.armed]
    /\ UNCHANGED <<now, device, store, obs, reader, stops, faults>>

\* The mix of leased work has changed: the verdict in progress starts again.
SetContext ==
    /\ pc = "idle" /\ scene # "bytes"
    /\ obs' = [obs EXCEPT !.unusual = Never, !.high = Never, !.recovery = Never]
    /\ ghost' = [ghost EXCEPT !.incident.lost = IF obs.adaptive \in Anomalous THEN {} ELSE @]
    /\ UNCHANGED <<now, device, store, pc, reading, reader, stops, faults>>

\* The resident ends: checkpointHourLocked.
Stop ==
    /\ pc = "idle" /\ stops < MaxStops[scene]
    /\ \/ /\ checkpoint' = (IF obs.hour = NoRecord THEN checkpoint ELSE obs.hour)
          /\ ghost' = Forgotten /\ UNCHANGED faults
       \/ /\ faults < MaxFaults[scene] /\ faults' = faults + 1
          /\ ghost' = [Forgotten EXCEPT !.lossy = TRUE] /\ UNCHANGED checkpoint
    /\ pc' = "down" /\ obs' = NoObserver /\ reading' = NoReading /\ stops' = stops + 1
    /\ UNCHANGED <<now, device, records, alertFile, reader>>
Crash ==
    /\ pc # "down" /\ stops < MaxStops[scene]
    /\ pc' = "down" /\ obs' = NoObserver /\ reading' = NoReading /\ stops' = stops + 1
    /\ ghost' = Forgotten
    /\ UNCHANGED <<now, device, store, reader, faults>>

(***************************************************************************)
(* readHistory in another process: the rows, then the checkpoint.          *)
(***************************************************************************)
ReadRecords ==
    /\ scene = "bytes" /\ reader.at = "off"
    /\ reader' = [at |-> "rows", rows |-> records]
    /\ UNCHANGED <<now, device, store, pc, obs, reading, stops, faults, ghost>>
\* What it shows is WithCheckpoint(reader.rows, checkpoint).
ReadCheckpoint ==
    /\ reader.at = "rows"
    /\ reader' = [at |-> "off", rows |-> <<>>]
    /\ UNCHANGED <<now, device, store, pc, obs, reading, stops, faults, ghost>>

\* How the window compares, and the confidence where the verdict depends on it.
Comparisons ==
    {<<"learning", "no">>} \cup
    IF scene = "bytes" THEN {}
    ELSE {<<"quiet", "yes">>, <<"plateau", "yes">>, <<"unusual", "no">>, <<"unusual", "yes">>,
          <<"high", "no">>, <<"high", "dominant">>, <<"high", "yes">>}

Next ==
    \/ Tick \/ ResetCounter
    \/ Start \/ (\E c \in Comparisons : Sample(c[1], c[2]))
    \/ FlushAppend \/ RemoveCheckpoint \/ RecordSample
    \/ AlertDay \/ AlertNone \/ AlertClose \/ AlertOpen \/ Notify
    \/ SetContext \/ Stop \/ Crash
    \/ ReadRecords \/ ReadCheckpoint

Spec == Init /\ [][Next]_vars
------------------------------------------------------------------------------
\* Rows of hours in which the counter did not start again: each counts every byte it is
\* about, and no two are about the same byte.
Plain(rows) == {i \in DOMAIN rows : rows[i].hour \notin ghost.resetHours}
CountedOnce(rows) ==
    \A i \in Plain(rows) : /\ rows[i].bytes + rows[i].gap = Cardinality(rows[i].of)
                           /\ \A j \in Plain(rows) \ {i} : rows[i].of \cap rows[j].of = {}

\* No written byte is counted twice, neither in what the resident would restore nor in what
\* a reader of the history sees, whenever the resident dies between appending an hour and
\* removing the checkpoint it was continued from (diskWriteCheckpointSuperseded).  Hours in
\* which the device's counter started again are excepted: there the checkpoint may survive.
NoByteTwice ==
    /\ CountedOnce(WithCheckpoint(records, checkpoint))
    /\ reader.at = "rows" => CountedOnce(WithCheckpoint(reader.rows, checkpoint))

\* While no write fails, every byte between the first sample and the newest row is in the
\* history, whatever the resident was doing when it died: an hour it did not save is made
\* up from the counter as a gap.  Only what was written across a new start of the counter
\* cannot be known.
NoByteLost ==
    LET rows == WithCheckpoint(records, checkpoint)
    IN  ~ghost.lossy => \A n \in 1..Newest(rows).pos :
            n > ghost.first /\ n \notin ghost.skipped => n \in Bytes(rows)

\* At most AlertLimit notifications a day, however often the resident is restarted and
\* whichever save fails, and never two without a sample that was not high between them.
AlertsBounded ==
    /\ \A d \in DOMAIN ghost.sent : ghost.sent[d] <= AlertLimit
    /\ ~ghost.twice

\* The rolling window of the last sample still counts what a burst wrote.  (The code counts
\* a burst that is exactly Window old, to the nanosecond, and trains on it.)
BurstInWindow ==
    \E i \in DOMAIN obs.points : /\ obs.points[i].scored /\ obs.points[i].at \in ghost.bursts
                                /\ obs.points[i].at > obs.prev.at - Window

\* The baseline is trained neither on a window that still counts a burst, nor during an
\* incident that has not been quiet for RecoveryTime, whatever the context changed to.  The
\* code does train during an incident it has lost sight of, in three ways: the resident was
\* restarted (Sample replaces the restored state by lastAdaptiveState, which is not), a
\* context without a baseline gave the verdict "learning", or it began while the recovery
\* timer of the one before still ran.
QuietBaseline ==
    ghost.trained => ~BurstInWindow /\ (ghost.incident.open => ghost.incident.lost # {})
============================================================================
