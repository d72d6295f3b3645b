--------------------------- MODULE DiskWriteProofs ---------------------------
(***************************************************************************)
(* Theorems about the disk-write watch: for any scenes, lengths, limits    *)
(* and bounds.                                                             *)
(***************************************************************************)
EXTENDS DiskWrite, FiniteSetTheorems, WellFoundedInduction, TLAPS

ObsFields   == DOMAIN NoObserver
GhostFields == {"lossy", "first", "skipped", "resetHours", "sent", "armed", "twice",
                "incident", "quiet", "bursts", "trained"}

Placed ==
    /\ scene \in Scenes /\ now \in 0..MaxTime[scene]
    /\ DOMAIN obs = ObsFields /\ DOMAIN ghost = GhostFields
    /\ DOMAIN alertFile = {"day", "alerts", "open"}
    /\ pc \in {"down", "fresh", "idle", "flush", "remove", "hour", "alert", "notify"}
    /\ pc = "down" => obs = NoObserver

(***************************************************************************)
(* What the steps are made of.                                             *)
(***************************************************************************)
LEMMA Constant ==
    /\ DayLength \in Nat \ {0} /\ AlertLimit \in Nat \ {0}
    /\ Window \in Nat \ {0} /\ RecoveryTime \in Nat
    /\ scene \in Scenes => MaxTime[scene] \in Nat
BY DiskAssumption

LEMMA DayMonotone ==
    ASSUME NEW s \in Nat, NEW t \in Nat, s <= t
    PROVE  Day(s) \in Nat /\ Day(t) \in Nat /\ Day(s) <= Day(t)
<1>1. DayLength \in Nat \ {0} BY Constant
<1>2. ASSUME NEW k \in Nat \ {0} PROVE s \div k \in Nat /\ t \div k \in Nat /\ s \div k <= t \div k
  OBVIOUS
<1>. QED BY <1>1, <1>2 DEF Day

\* A verdict leaves what it is not about.
LEMMA VerdictKeeps ==
    ASSUME NEW o, DOMAIN o = ObsFields, NEW r, NEW m, NEW v, v = Verdict(o, r, m)
    PROVE  /\ DOMAIN v.obs = ObsFields
           /\ v.obs.day = o.day /\ v.obs.alerts = o.alerts
           /\ v.obs.open = o.open /\ v.obs.invalid = o.invalid
           /\ v.obs.hour = o.hour
<1>1. ASSUME NEW c, c = Classify(o, r.band, r.sure)
      PROVE /\ DOMAIN c.obs = ObsFields
            /\ c.obs.day = o.day /\ c.obs.alerts = o.alerts
            /\ c.obs.open = o.open /\ c.obs.invalid = o.invalid
            /\ c.obs.hour = o.hour
  BY <1>1 DEF Classify, Timers, ObsFields, NoObserver
<1>2. \E points, until : v.obs = [Classify(o, r.band, r.sure).obs EXCEPT !.points = points, !.until = until]
  BY DEF Verdict
<1>. QED BY <1>1, <1>2 DEF ObsFields, NoObserver

\* What a resident that starts has restored.
LEMMA StartRestores ==
    ASSUME Start
    PROVE  /\ DOMAIN obs' = ObsFields
           /\ obs'.adaptive = "none" /\ obs'.until = Never /\ obs'.recovery = Never
           /\ obs'.invalid \in BOOLEAN
           /\ obs'.invalid \/ alertFile.day < 0
              => obs'.day = -1 /\ obs'.alerts = 0 /\ obs'.open = FALSE
           /\ ~obs'.invalid /\ ~(alertFile.day < 0)
              => /\ obs'.day = alertFile.day /\ obs'.alerts = alertFile.alerts
                 /\ obs'.open = alertFile.open
<1>. DEFINE Bare(o) == /\ DOMAIN o = ObsFields
                       /\ o.adaptive = "none" /\ o.until = Never /\ o.recovery = Never
                       /\ o.invalid \in BOOLEAN
            Same(o, u) == /\ u.day = o.day /\ u.alerts = o.alerts /\ u.open = o.open
                          /\ u.invalid = o.invalid
<1>1. ASSUME NEW o, Bare(o) PROVE Bare(RestoreHistory(o)) /\ Same(o, RestoreHistory(o))
  <2>1. \E a, b, c : RestoreHistory(o) = [o EXCEPT !.prev = a, !.points = b, !.hour = c]
    BY DEF RestoreHistory
  <2>. QED BY <1>1, <2>1 DEF ObsFields, NoObserver
<1>2. Bare(NoObserver) /\ Bare([NoObserver EXCEPT !.invalid = TRUE]) /\ Bare(RestoreAlerts(NoObserver))
  BY DEF NoObserver, ObsFields, RestoreAlerts
<1>3. /\ NoObserver.day = -1 /\ NoObserver.alerts = 0 /\ NoObserver.open = FALSE /\ NoObserver.invalid = FALSE
      /\ alertFile.day < 0 => RestoreAlerts(NoObserver) = NoObserver
      /\ ~(alertFile.day < 0) => /\ RestoreAlerts(NoObserver).day = alertFile.day
                                 /\ RestoreAlerts(NoObserver).alerts = alertFile.alerts
                                 /\ RestoreAlerts(NoObserver).open = alertFile.open
                                 /\ RestoreAlerts(NoObserver).invalid = FALSE
  BY DEF NoObserver, RestoreAlerts
<1>4. /\ [NoObserver EXCEPT !.invalid = TRUE].day = -1
      /\ [NoObserver EXCEPT !.invalid = TRUE].alerts = 0
      /\ [NoObserver EXCEPT !.invalid = TRUE].open = FALSE
      /\ [NoObserver EXCEPT !.invalid = TRUE].invalid = TRUE
  BY DEF NoObserver
<1>. DEFINE R(o) == RestoreHistory(o)
            A == RestoreAlerts(NoObserver)
            V == [NoObserver EXCEPT !.invalid = TRUE]
<1>5. obs' \in {R(A), R(V), A}
  BY DEF Start, Restored
<1>. HIDE DEF R, A, V
<1>6. CASE obs' = R(A)
  <2>1. Bare(obs') /\ Same(A, obs') BY <1>1, <1>2, <1>6 DEF A, R
  <2>. QED BY <2>1, <1>3 DEF A
<1>7. CASE obs' = R(V)
  <2>1. Bare(obs') /\ Same(V, obs') BY <1>1, <1>2, <1>7 DEF V, R
  <2>. QED BY <2>1, <1>4 DEF V
<1>8. CASE obs' = A
  <2>1. Bare(obs') BY <1>2, <1>8 DEF A
  <2>. QED BY <2>1, <1>3, <1>8 DEF A
<1>. QED BY <1>5, <1>6, <1>7, <1>8

\* A verdict on one sample: what Sample does to the observer and the history.
LEMMA SampleMakes ==
    ASSUME NEW b, NEW s, Sample(b, s)
    PROVE  \E r, m, v : /\ r.band = b /\ r.sure = s /\ v = Verdict(obs, r, m) /\ Sampled(r, m, v)
<1>1. PICK r \in {[count |-> written - counter.base, id |-> counter.id, band |-> b, sure |-> s]} :
         \E m \in {Measure(obs, r)} : \E v \in {Verdict(obs, r, m)} : Sampled(r, m, v)
  BY DEF Sample
<1>2. r.band = b /\ r.sure = s
  OBVIOUS
<1>. QED BY <1>1, <1>2

(***************************************************************************)
(* Where the resident is.                                                  *)
(***************************************************************************)
LEMMA PlacedInit == Init => Placed
<1>. SUFFICES ASSUME Init PROVE Placed OBVIOUS
<1>1. DOMAIN ghost = GhostFields /\ DOMAIN alertFile = {"day", "alerts", "open"}
  BY DEF Init, NoGhost, GhostFields
<1>2. now \in 0..MaxTime[scene] /\ scene \in Scenes
  BY Constant DEF Init
<1>. QED BY <1>1, <1>2 DEF Init, Placed, ObsFields

\* A failed write leaves its trace in the history and nothing else.
LEMMA FaultKeeps ==
    ASSUME NEW lossy, DOMAIN ghost = GhostFields, Fault(lossy) \/ AlertFault \/ Fine
    PROVE  /\ DOMAIN ghost' = GhostFields
           /\ \A f \in GhostFields \ {"lossy"} : ghost'[f] = ghost[f]
<1>1. CASE Fine BY <1>1 DEF Fine
<1>2. CASE \E x : ghost' = [ghost EXCEPT !.lossy = x] BY <1>2
<1>. QED BY <1>1, <1>2 DEF AlertFault, Fault

LEMMA PlacedStep == Placed /\ [Next]_vars => Placed'
<1>. SUFFICES ASSUME Placed, [Next]_vars PROVE Placed' OBVIOUS
<1>. USE DEF Placed
<1>1. CASE Tick
  <2>1. now' \in 0..MaxTime[scene] /\ scene' = scene
    BY <1>1, Constant DEF Tick
  <2>. QED BY <1>1, <2>1 DEF Tick, store
<1>2. CASE ResetCounter
  BY <1>2 DEF ResetCounter, store, GhostFields
<1>3. CASE Start
  <2>1. DOMAIN obs' = ObsFields BY <1>3, StartRestores
  <2>2. DOMAIN ghost' = GhostFields BY <1>3 DEF Start, Fine, Fault, AlertFault, GhostFields
  <2>. QED BY <1>3, <2>1, <2>2 DEF Start, device, store
<1>4. ASSUME NEW c \in Comparisons, Sample(c[1], c[2]) PROVE Placed'
  <2>1. PICK r, m, v : v = Verdict(obs, r, m) /\ Sampled(r, m, v)
    BY <1>4, SampleMakes
  <2>2. DOMAIN v.obs = ObsFields BY <2>1, VerdictKeeps
  <2>3. DOMAIN obs' = ObsFields BY <2>1, <2>2 DEF Sampled
  <2>4. DOMAIN ghost' = GhostFields BY <2>1 DEF Sampled, GhostFields
  <2>5. pc' \in {"flush", "hour"} BY <1>4 DEF Sample
  <2>. QED BY <1>4, <2>3, <2>4, <2>5 DEF Sample, device, store
<1>5. CASE FlushAppend
  BY <1>5 DEF FlushAppend, device, Fine, Fault, GhostFields, ObsFields
<1>6. CASE RemoveCheckpoint
  BY <1>6 DEF RemoveCheckpoint, device, Fine, Fault, GhostFields, ObsFields
<1>7. CASE RecordSample
  BY <1>7 DEF RecordSample, device, store, Done, ObsFields
<1>8. CASE AlertDay
  BY <1>8 DEF AlertDay, device, Done, Fine, AlertFault, Fault, GhostFields, ObsFields
<1>9. CASE AlertNone
  BY <1>9 DEF AlertNone, device, store, Done
<1>10. ASSUME NEW n, NEW o, pc = "alert", SaveAlert(n, o) PROVE Placed'
  BY <1>10 DEF SaveAlert, device, Done, Fine, AlertFault, Fault, GhostFields, ObsFields
<1>11. CASE Notify
  BY <1>11 DEF Notify, device, store, Done, GhostFields
<1>12. CASE SetContext
  BY <1>12 DEF SetContext, device, store, GhostFields, ObsFields
<1>13. CASE Stop
  BY <1>13 DEF Stop, device, Forgotten, GhostFields, ObsFields
<1>14. CASE Crash
  BY <1>14 DEF Crash, device, store, Forgotten, GhostFields, ObsFields
<1>15. CASE ReadRecords \/ ReadCheckpoint
  BY <1>15 DEF ReadRecords, ReadCheckpoint, device, store
<1>16. CASE UNCHANGED vars
  BY <1>16 DEF vars
<1>. QED BY <1>1, <1>2, <1>3, <1>4, <1>5, <1>6, <1>7, <1>8, <1>9, <1>10, <1>11, <1>12, <1>13,
            <1>14, <1>15, <1>16 DEF Next, AlertClose, AlertOpen

\* The resident is somewhere in its sampling loop and nowhere with an observer of its own
\* once it is down.
THEOREM PlacedAlways == Spec => []Placed
<1>. QED BY PlacedInit, PlacedStep, PTL DEF Spec

(***************************************************************************)
(* The alerts: what was sent today is on disk before it is sent, and an    *)
(* alert that could be sent again was closed by a sample that was not high.*)
(***************************************************************************)
Sampling == {"flush", "remove", "hour", "alert", "notify"}
Deciding == {"alert", "notify"}

AlertsOnDisk ==
    /\ alertFile.day \in Int /\ -1 <= alertFile.day /\ alertFile.day <= Day(now)
    /\ alertFile.alerts \in 0..AlertLimit /\ alertFile.open \in BOOLEAN
    /\ alertFile.day = -1 => alertFile.alerts = 0 /\ alertFile.open = FALSE
    /\ obs.invalid \in BOOLEAN
    /\ pc # "down" /\ obs.invalid = FALSE
       => obs.day = alertFile.day /\ obs.alerts = alertFile.alerts /\ obs.open = alertFile.open

SentCounted ==
    /\ ghost.sent \in [0..Day(MaxTime[scene]) -> 0..AlertLimit]
    /\ \A d \in DOMAIN ghost.sent :
          /\ d > alertFile.day => ghost.sent[d] = 0
          /\ d = alertFile.day => ghost.sent[d] <= alertFile.alerts

Armed ==
    /\ ghost.armed \in BOOLEAN /\ ghost.twice = FALSE
    /\ alertFile.open = FALSE => ghost.armed = TRUE
    /\ pc \in Sampling /\ reading.state # "high" => ghost.armed = TRUE
    /\ pc \in Deciding => obs.invalid = FALSE
    /\ pc = "notify" => /\ obs.day = Day(now) /\ obs.open = TRUE /\ ghost.armed = TRUE
                        /\ ghost.sent[Day(now)] < alertFile.alerts

AlertInv == Placed /\ AlertsOnDisk /\ SentCounted /\ Armed

LEMMA AlertInit == Init => AlertInv
<1>. SUFFICES ASSUME Init PROVE AlertInv OBVIOUS
<1>1. Placed BY PlacedInit
<1>2. MaxTime[scene] \in Nat BY <1>1, Constant DEF Placed
<1>3. Day(now) \in Nat /\ Day(MaxTime[scene]) \in Nat BY <1>2, DayMonotone DEF Init
<1>4. AlertsOnDisk
  <2>1. obs.invalid = FALSE /\ pc = "down" BY DEF Init, NoObserver
  <2>2. alertFile.day = -1 /\ alertFile.alerts = 0 /\ alertFile.open = FALSE BY DEF Init
  <2>3. alertFile.open \in BOOLEAN /\ obs.invalid \in BOOLEAN BY <2>1, <2>2
  <2>4. /\ alertFile.day \in Int /\ -1 <= alertFile.day /\ alertFile.day <= Day(now)
        /\ alertFile.alerts \in 0..AlertLimit
    BY <1>3, <2>2, Constant
  <2>. QED BY <2>1, <2>2, <2>3, <2>4, Zenon DEF AlertsOnDisk
<1>5. ghost.sent = [d \in 0..Day(MaxTime[scene]) |-> 0] /\ ghost.armed = TRUE /\ ghost.twice = FALSE
  BY DEF Init, NoGhost
<1>6. SentCounted
  <2>1. alertFile.day = -1 /\ alertFile.alerts = 0 BY DEF Init
  <2>. QED BY <1>3, <1>5, <2>1, Constant DEF SentCounted
<1>7. Armed BY <1>5 DEF Init, Armed, Sampling, Deciding
<1>. QED BY <1>1, <1>4, <1>6, <1>7 DEF AlertInv

\* A step that is not about the alerts.
AlertsKept ==
    /\ scene' = scene /\ alertFile' = alertFile /\ now' \in Nat /\ now <= now'
    /\ ghost'.sent = ghost.sent /\ ghost'.armed = ghost.armed /\ ghost'.twice = ghost.twice
    /\ obs'.invalid \in BOOLEAN
    /\ pc' # "down" => /\ pc # "down" /\ obs'.invalid = obs.invalid /\ obs'.day = obs.day
                       /\ obs'.alerts = obs.alerts /\ obs'.open = obs.open
    /\ pc' \in Sampling => pc \in Sampling /\ reading'.state = reading.state
    /\ pc' = "alert" => obs.invalid = FALSE
    /\ pc' = "notify" => pc = "notify" /\ now' = now

LEMMA AlertFrame ==
    ASSUME AlertInv, Placed', AlertsKept
    PROVE  AlertInv'
<1>1. Day(now) \in Nat /\ Day(now') \in Nat /\ Day(now) <= Day(now')
  BY Constant, DayMonotone DEF AlertsKept, AlertInv, Placed
<1>2. AlertsOnDisk'
  BY <1>1 DEF AlertInv, AlertsOnDisk, AlertsKept, Day
<1>3. SentCounted'
  BY DEF AlertInv, SentCounted, AlertsKept, Day
<1>4. Armed'
  BY DEF AlertInv, Armed, AlertsKept, Sampling, Deciding, Day
<1>. QED BY <1>2, <1>3, <1>4 DEF AlertInv

\* Steps that have their own alert to decide on, or leave the alerts alone.
LEMMA AlertFrameSteps ==
    ASSUME AlertInv, Placed',
           \/ Tick \/ ResetCounter \/ FlushAppend \/ RemoveCheckpoint \/ RecordSample \/ AlertNone
           \/ SetContext \/ Stop \/ Crash \/ ReadRecords \/ ReadCheckpoint \/ UNCHANGED vars
    PROVE  AlertInv'
<1>. DEFINE GhostSame == /\ ghost'.sent = ghost.sent /\ ghost'.armed = ghost.armed
                         /\ ghost'.twice = ghost.twice
            ObsSame == /\ obs'.invalid = obs.invalid /\ obs'.day = obs.day
                       /\ obs'.alerts = obs.alerts /\ obs'.open = obs.open
            Moves == /\ scene' = scene /\ alertFile' = alertFile /\ now' \in Nat /\ now <= now'
                     /\ pc' # "down" => pc # "down"
                     /\ pc' \in Sampling => pc \in Sampling /\ reading'.state = reading.state
                     /\ pc' = "alert" => obs.invalid = FALSE
                     /\ pc' = "notify" => pc = "notify" /\ now' = now
<1>0. /\ now \in Nat /\ obs.invalid \in BOOLEAN
      /\ DOMAIN obs = ObsFields /\ DOMAIN ghost = GhostFields
      /\ pc = "alert" => obs.invalid = FALSE
  BY DEF AlertInv, AlertsOnDisk, Armed, Deciding, Placed
<1>1. ASSUME GhostSame, ObsSame, Moves PROVE AlertInv'
  <2>1. obs'.invalid \in BOOLEAN BY <1>0, <1>1
  <2>. QED BY <1>1, <2>1, AlertFrame DEF AlertsKept
<1>2. ASSUME GhostSame, obs' = NoObserver, pc' = "down", Moves PROVE AlertInv'
  <2>1. obs'.invalid \in BOOLEAN BY <1>2 DEF NoObserver
  <2>. QED BY <1>2, <2>1, AlertFrame DEF AlertsKept, Sampling
<1>3. CASE Tick
  <2>1. GhostSame /\ ObsSame BY <1>3 DEF Tick
  <2>2. Moves BY <1>0, <1>3 DEF Tick, store, Sampling
  <2>. QED BY <1>1, <2>1, <2>2
<1>4. CASE ResetCounter
  <2>1. GhostSame /\ ObsSame BY <1>0, <1>4 DEF ResetCounter, GhostFields
  <2>2. Moves BY <1>0, <1>4 DEF ResetCounter, store, Sampling
  <2>. QED BY <1>1, <2>1, <2>2
<1>5. CASE FlushAppend
  <2>1. GhostSame BY <1>0, <1>5, FaultKeeps DEF FlushAppend, GhostFields
  <2>2. ObsSame
    <3>1. obs' = obs \/ obs' = [obs EXCEPT !.hour = NoRecord] BY <1>5 DEF FlushAppend
    <3>. QED BY <1>0, <3>1 DEF ObsFields, NoObserver
  <2>3. /\ pc = "flush" /\ pc' \in {"remove", "hour"} /\ now' = now /\ scene' = scene
        /\ alertFile' = alertFile /\ reading' = reading
    BY <1>5 DEF FlushAppend, device
  <2>4. Moves BY <1>0, <2>3 DEF Sampling
  <2>. QED BY <1>1, <2>1, <2>2, <2>4
<1>6. CASE RemoveCheckpoint
  <2>1. GhostSame BY <1>0, <1>6, FaultKeeps DEF RemoveCheckpoint, GhostFields
  <2>2. ObsSame BY <1>0, <1>6 DEF RemoveCheckpoint, ObsFields, NoObserver
  <2>3. Moves BY <1>0, <1>6 DEF RemoveCheckpoint, device, Sampling
  <2>. QED BY <1>1, <2>1, <2>2, <2>3
<1>7. CASE RecordSample
  <2>1. GhostSame BY <1>7 DEF RecordSample
  <2>2. ObsSame BY <1>0, <1>7 DEF RecordSample, ObsFields, NoObserver
  <2>3. CASE obs.invalid = TRUE
    <3>1. pc' = "idle" BY <1>7, <2>3 DEF RecordSample, Done
    <3>2. Moves BY <1>0, <1>7, <3>1 DEF RecordSample, device, store, Sampling
    <3>. QED BY <1>1, <2>1, <2>2, <3>2
  <2>4. CASE obs.invalid = FALSE
    <3>1. pc' = "alert" /\ reading' = reading BY <1>7, <2>4 DEF RecordSample
    <3>2. Moves BY <1>0, <1>7, <2>4, <3>1 DEF RecordSample, device, store, Sampling
    <3>. QED BY <1>1, <2>1, <2>2, <3>2
  <2>. QED BY <1>0, <2>3, <2>4
<1>8. CASE AlertNone
  <2>1. GhostSame /\ ObsSame BY <1>8 DEF AlertNone
  <2>2. Moves BY <1>0, <1>8 DEF AlertNone, Done, device, store, Sampling
  <2>. QED BY <1>1, <2>1, <2>2
<1>9. CASE SetContext
  <2>1. GhostSame BY <1>0, <1>9 DEF SetContext, GhostFields
  <2>2. ObsSame BY <1>0, <1>9 DEF SetContext, ObsFields, NoObserver
  <2>3. Moves BY <1>0, <1>9 DEF SetContext, device, store, Sampling
  <2>. QED BY <1>1, <2>1, <2>2, <2>3
<1>10. CASE Stop \/ Crash
  <2>1. obs' = NoObserver /\ pc' = "down" BY <1>10 DEF Stop, Crash
  <2>2. GhostSame BY <1>0, <1>10 DEF Stop, Crash, Forgotten, GhostFields
  <2>3. Moves BY <1>0, <1>10, <2>1 DEF Stop, Crash, device, store, Sampling
  <2>. QED BY <1>2, <2>1, <2>2, <2>3
<1>11. CASE ReadRecords \/ ReadCheckpoint \/ UNCHANGED vars
  <2>1. GhostSame /\ ObsSame BY <1>11 DEF ReadRecords, ReadCheckpoint, vars
  <2>2. Moves BY <1>0, <1>11 DEF ReadRecords, ReadCheckpoint, vars, device, store
  <2>. QED BY <1>1, <2>1, <2>2
<1>. QED BY <1>3, <1>4, <1>5, <1>6, <1>7, <1>8, <1>9, <1>10, <1>11

\* A resident takes up the alerts where the file has them, or is silent.
LEMMA AlertStart == ASSUME AlertInv, Placed', Start PROVE AlertInv'
<1>1. /\ scene' = scene /\ now' = now /\ alertFile' = alertFile /\ pc' = "fresh"
  BY DEF Start, device, store
<1>2. ghost'.sent = ghost.sent /\ ghost'.armed = ghost.armed /\ ghost'.twice = ghost.twice
  BY FaultKeeps DEF Start, GhostFields, AlertInv, Placed
<1>3. obs'.invalid \in BOOLEAN /\ (obs'.invalid = FALSE =>
        obs'.day = alertFile.day /\ obs'.alerts = alertFile.alerts /\ obs'.open = alertFile.open)
  <2>1. alertFile.day \in Int /\ (alertFile.day < 0 => alertFile.day = -1)
    BY DEF AlertInv, AlertsOnDisk
  <2>2. CASE alertFile.day < 0
    BY <2>1, <2>2, StartRestores DEF AlertInv, AlertsOnDisk
  <2>3. CASE ~(alertFile.day < 0)
    BY <2>3, StartRestores
  <2>. QED BY <2>2, <2>3
<1>4. AlertsOnDisk' BY <1>1, <1>3 DEF AlertsOnDisk, AlertInv, Day
<1>5. SentCounted' BY <1>1, <1>2 DEF AlertInv, SentCounted, Day
<1>6. Armed' BY <1>1, <1>2 DEF AlertInv, Armed, Sampling, Deciding
<1>. QED BY <1>4, <1>5, <1>6 DEF AlertInv

\* A sample that is not high arms the alert again.
LEMMA AlertSample ==
    ASSUME AlertInv, Placed', NEW b, NEW s, Sample(b, s)
    PROVE  AlertInv'
<1>0. DOMAIN obs = ObsFields /\ DOMAIN ghost = GhostFields BY DEF AlertInv, Placed
<1>1. PICK r, m, v : v = Verdict(obs, r, m) /\ Sampled(r, m, v)
  BY SampleMakes
<1>2. /\ obs'.invalid = obs.invalid /\ obs'.day = obs.day /\ obs'.alerts = obs.alerts
      /\ obs'.open = obs.open
  <2>1. \E p : obs' = [v.obs EXCEPT !.prev = p] BY <1>1 DEF Sampled
  <2>2. /\ DOMAIN v.obs = ObsFields /\ v.obs.day = obs.day /\ v.obs.alerts = obs.alerts
        /\ v.obs.open = obs.open /\ v.obs.invalid = obs.invalid
    BY <1>0, <1>1, VerdictKeeps
  <2>. QED BY <2>1, <2>2 DEF ObsFields, NoObserver
<1>3. /\ ghost'.sent = ghost.sent /\ ghost'.twice = ghost.twice
      /\ ghost'.armed = (ghost.armed \/ v.state # "high") /\ reading'.state = v.state
  BY <1>0, <1>1 DEF Sampled, GhostFields
<1>4. /\ scene' = scene /\ now' = now /\ alertFile' = alertFile
      /\ pc # "down" /\ pc' \in {"flush", "hour"}
  BY DEF Sample, device, store
<1>5. AlertsOnDisk'
  <2>1. obs'.invalid \in BOOLEAN BY <1>2 DEF AlertInv, AlertsOnDisk
  <2>. QED BY <1>2, <1>4, <2>1 DEF AlertInv, AlertsOnDisk, Day
<1>6. SentCounted' BY <1>3, <1>4 DEF AlertInv, SentCounted, Day
<1>7. Armed'
  <2>1. ghost.armed \in BOOLEAN /\ (alertFile.open = FALSE => ghost.armed = TRUE) /\ ghost.twice = FALSE
    BY DEF AlertInv, Armed
  <2>2. /\ ghost'.armed \in BOOLEAN /\ (alertFile.open = FALSE => ghost'.armed = TRUE)
        /\ (v.state # "high" => ghost'.armed = TRUE)
    BY <1>3, <2>1
  <2>. QED BY <1>3, <1>4, <2>1, <2>2 DEF Armed, Deciding
<1>. QED BY <1>5, <1>6, <1>7 DEF AlertInv

LEMMA SentDays ==
    ASSUME AlertInv
    PROVE  /\ Day(now) \in DOMAIN ghost.sent /\ Day(now) \in Nat /\ alertFile.day \in Int
           /\ \A d \in DOMAIN ghost.sent : d \in Nat /\ ghost.sent[d] \in 0..AlertLimit
<1>1. now \in Nat /\ MaxTime[scene] \in Nat /\ now <= MaxTime[scene]
  BY Constant DEF AlertInv, Placed
<1>2. DOMAIN ghost.sent = 0..Day(MaxTime[scene]) /\ Day(MaxTime[scene]) \in Nat
      /\ Day(now) \in Nat /\ Day(now) <= Day(MaxTime[scene])
  BY <1>1, DayMonotone DEF AlertInv, SentCounted
<1>3. \A d \in DOMAIN ghost.sent : ghost.sent[d] \in 0..AlertLimit
  BY DEF AlertInv, SentCounted
<1>. QED BY <1>2, <1>3 DEF AlertInv, AlertsOnDisk

\* An alert state that could not be saved ends the sample.
LEMMA AlertUnsavedEnds ==
    ASSUME AlertInv, Placed', AlertFault, Done, UNCHANGED <<alertFile, obs>>,
           UNCHANGED <<now, device, records, checkpoint, reader, stops>>, pc # "down"
    PROVE  AlertInv'
<1>1. ghost'.sent = ghost.sent /\ ghost'.armed = ghost.armed /\ ghost'.twice = ghost.twice
  BY FaultKeeps DEF GhostFields, AlertInv, Placed
<1>2. obs'.invalid \in BOOLEAN BY DEF AlertInv, AlertsOnDisk
<1>3. AlertsKept BY <1>1, <1>2 DEF AlertsKept, Done, device, Sampling, AlertInv, Placed
<1>. QED BY <1>3, AlertFrame

LEMMA AlertDayKept == ASSUME AlertInv, Placed', AlertDay PROVE AlertInv'
<1>1. CASE AlertFault /\ Done /\ UNCHANGED <<alertFile, obs>>
  BY <1>1, AlertUnsavedEnds DEF AlertDay
<1>2. CASE /\ alertFile' = [day |-> Day(now), alerts |-> 0, open |-> obs.open]
           /\ obs' = [obs EXCEPT !.day = Day(now), !.alerts = 0]
           /\ Fine /\ UNCHANGED <<pc, reading>>
  <2>0. /\ DOMAIN obs = ObsFields /\ now \in Nat /\ Day(now) \in Nat
        /\ obs.invalid = FALSE /\ pc = "alert" /\ pc' = "alert"
        /\ now' = now /\ scene' = scene /\ ghost' = ghost /\ reading' = reading
    BY <1>2, DayMonotone DEF AlertInv, Placed, Armed, Deciding, AlertDay, Fine, device
  <2>1. alertFile.day = obs.day /\ alertFile.open = obs.open /\ alertFile.day < Day(now)
    BY <2>0 DEF AlertInv, AlertsOnDisk, AlertDay
  <2>2. alertFile'.day = Day(now) /\ alertFile'.alerts = 0 /\ alertFile'.open = alertFile.open
    BY <1>2, <2>1
  <2>3. /\ obs'.day = Day(now) /\ obs'.alerts = 0 /\ obs'.open = obs.open
        /\ obs'.invalid = obs.invalid
    BY <1>2, <2>0 DEF ObsFields, NoObserver
  <2>4. AlertsOnDisk'
    <3>1. alertFile'.open \in BOOLEAN /\ obs'.invalid \in BOOLEAN
      BY <2>2, <2>3 DEF AlertInv, AlertsOnDisk
    <3>2. alertFile'.alerts \in 0..AlertLimit BY <2>2, Constant
    <3>. QED BY <2>0, <2>1, <2>2, <2>3, <3>1, <3>2 DEF AlertsOnDisk, Day
  <2>5. SentCounted'
    <3>1. \A d \in DOMAIN ghost.sent : d \in Int BY SentDays
    <3>2. alertFile.day \in Int BY SentDays
    <3>3. \A d \in DOMAIN ghost.sent : d >= Day(now) => ghost.sent[d] = 0
      BY <2>0, <2>1, <3>1, <3>2 DEF AlertInv, SentCounted
    <3>. QED BY <2>0, <2>2, <3>1, <3>3 DEF AlertInv, SentCounted, Day
  <2>6. Armed' BY <2>0, <2>2, <2>3 DEF AlertInv, Armed, Sampling, Deciding
  <2>. QED BY <2>4, <2>5, <2>6 DEF AlertInv
<1>. QED BY <1>1, <1>2 DEF AlertDay

LEMMA AlertSave ==
    ASSUME AlertInv, Placed', AlertClose \/ AlertOpen
    PROVE  AlertInv'
<1>0. /\ pc = "alert" /\ obs.day = Day(now) /\ obs.invalid = FALSE /\ DOMAIN obs = ObsFields
      /\ alertFile.day = Day(now) /\ obs.alerts = alertFile.alerts /\ obs.open = alertFile.open
      /\ Day(now) \in Int
  BY DEF AlertInv, Placed, AlertsOnDisk, Armed, Deciding, AlertClose, AlertOpen
<1>. DEFINE Saved(n, o) == /\ alertFile' = [day |-> obs.day, alerts |-> n, open |-> o]
                           /\ obs' = [obs EXCEPT !.alerts = n, !.open = o]
                           /\ IF o THEN pc' = "notify" /\ UNCHANGED reading ELSE Done
                           /\ Fine
<1>1. ASSUME NEW n \in alertFile.alerts..AlertLimit, NEW o \in BOOLEAN, Saved(n, o),
             o = FALSE => ghost.armed = TRUE /\ n = alertFile.alerts,
             o = TRUE => ghost.armed = TRUE /\ n = alertFile.alerts + 1,
             UNCHANGED <<now, device, records, checkpoint, reader, stops>>
      PROVE AlertInv'
  <2>1. now' = now /\ scene' = scene /\ ghost' = ghost
    BY <1>1 DEF device, Fine
  <2>2. alertFile'.day = Day(now) /\ alertFile'.alerts = n /\ alertFile'.open = o
    BY <1>0, <1>1
  <2>3. /\ obs'.day = Day(now) /\ obs'.alerts = n /\ obs'.open = o /\ obs'.invalid = FALSE
    BY <1>0, <1>1 DEF ObsFields, NoObserver
  <2>4. alertFile.alerts \in 0..AlertLimit /\ -1 <= Day(now)
    BY <1>0 DEF AlertInv, AlertsOnDisk
  <2>5. n \in 0..AlertLimit BY <2>4, Constant
  <2>6. AlertsOnDisk'
    <3>1. alertFile'.open \in BOOLEAN /\ obs'.invalid \in BOOLEAN
      BY <2>2, <2>3
    <3>2. ~(Day(now) = -1)
      <4>1. now \in Nat BY DEF AlertInv, Placed
      <4>. QED BY <4>1, DayMonotone
    <3>. QED BY <1>0, <2>1, <2>2, <2>3, <2>4, <2>5, <3>1, <3>2 DEF AlertsOnDisk, Day
  <2>7. SentCounted'
    <3>1. \A d \in DOMAIN ghost.sent : d \in Int /\ ghost.sent[d] \in Int
      BY SentDays, Constant
    <3>. QED BY <1>0, <2>1, <2>2, <2>4, <2>5, <3>1 DEF AlertInv, SentCounted, Day
  <2>8. ASSUME o = TRUE PROVE Armed'
    <3>1. pc' = "notify" /\ ghost.armed = TRUE /\ n = alertFile.alerts + 1
      BY <1>1, <2>8
    <3>3. ghost.sent[Day(now)] <= alertFile.alerts /\ ghost.sent[Day(now)] \in Int
      BY <1>0, SentDays, Constant DEF AlertInv, SentCounted
    <3>4. ghost'.sent[Day(now)'] < alertFile'.alerts
      BY <2>1, <2>2, <2>4, <3>1, <3>3 DEF Day
    <3>5. ghost'.armed \in BOOLEAN /\ ghost'.twice = FALSE /\ ghost'.armed = TRUE
      BY <2>1, <3>1 DEF AlertInv, Armed
    <3>6. obs'.day = Day(now)' /\ obs'.open = TRUE BY <2>1, <2>3, <2>8 DEF Day
    <3>. QED BY <2>3, <3>4, <3>5, <3>6 DEF Armed
  <2>9. ASSUME o = FALSE PROVE Armed'
    <3>1. pc' = "idle" /\ ghost.armed = TRUE BY <1>1, <2>9 DEF Done
    <3>2. ghost'.armed \in BOOLEAN /\ ghost'.twice = FALSE /\ ghost'.armed = TRUE
      BY <2>1, <3>1 DEF AlertInv, Armed
    <3>3. ~(pc' \in Deciding) /\ pc' # "notify" BY <3>1 DEF Deciding
    <3>. QED BY <3>2, <3>3 DEF Armed
  <2>. QED BY <2>6, <2>7, <2>8, <2>9 DEF AlertInv
<1>2. CASE AlertFault /\ Done /\ UNCHANGED <<alertFile, obs>>
  BY <1>0, <1>2, AlertUnsavedEnds DEF AlertClose, AlertOpen, SaveAlert
<1>3. CASE AlertClose /\ ~(AlertFault /\ Done /\ UNCHANGED <<alertFile, obs>>)
  <2>1. Saved(alertFile.alerts, FALSE) /\ UNCHANGED <<now, device, records, checkpoint, reader, stops>>
    BY <1>0, <1>3 DEF AlertClose, SaveAlert
  <2>2. ghost.armed = TRUE
    BY <1>0, <1>3 DEF AlertClose, AlertInv, Armed, Sampling
  <2>3. alertFile.alerts \in alertFile.alerts..AlertLimit
    BY Constant DEF AlertInv, AlertsOnDisk
  <2>. QED BY <1>1, <2>1, <2>2, <2>3
<1>4. CASE AlertOpen /\ ~(AlertFault /\ Done /\ UNCHANGED <<alertFile, obs>>)
  <2>1. Saved(alertFile.alerts + 1, TRUE) /\ UNCHANGED <<now, device, records, checkpoint, reader, stops>>
    BY <1>0, <1>4 DEF AlertOpen, SaveAlert
  <2>2. alertFile.open = FALSE /\ alertFile.alerts < AlertLimit
    BY <1>0, <1>4 DEF AlertOpen, MayAlert, AlertInv, AlertsOnDisk
  <2>3. ghost.armed = TRUE BY <2>2 DEF AlertInv, Armed
  <2>4. alertFile.alerts + 1 \in alertFile.alerts..AlertLimit
    BY <2>2, Constant DEF AlertInv, AlertsOnDisk
  <2>. QED BY <1>1, <2>1, <2>3, <2>4
<1>. QED BY <1>2, <1>3, <1>4

LEMMA AlertNotify == ASSUME AlertInv, Placed', Notify PROVE AlertInv'
<1>0. /\ pc = "notify" /\ pc' = "idle" /\ now' = now /\ scene' = scene
      /\ alertFile' = alertFile /\ obs' = obs /\ DOMAIN ghost = GhostFields
      /\ ghost.armed = TRUE /\ ghost.twice = FALSE /\ obs.open = TRUE /\ obs.day = Day(now)
      /\ obs.invalid = FALSE /\ ghost.sent[Day(now)] < alertFile.alerts
  BY DEF Notify, Done, device, store, AlertInv, Armed, Placed, Deciding
<1>1. alertFile.day = Day(now) /\ alertFile.open = TRUE
  BY <1>0 DEF AlertInv, AlertsOnDisk
<1>2. /\ ghost'.sent = [ghost.sent EXCEPT ![Day(now)] = @ + 1] /\ ghost'.armed = FALSE
      /\ ghost'.twice = FALSE
  <2>1. ghost' = [ghost EXCEPT !.sent[Day(now)] = @ + 1, !.armed = FALSE, !.twice = @ \/ ~ghost.armed]
    BY DEF Notify
  <2>2. (ghost.twice \/ ~ghost.armed) = FALSE BY <1>0
  <2>. QED BY <1>0, <2>1, <2>2 DEF GhostFields
<1>3. AlertsOnDisk' BY <1>0 DEF AlertInv, AlertsOnDisk, Day
<1>4. SentCounted'
  <2>1. alertFile.alerts \in 0..AlertLimit /\ AlertLimit \in Nat
    BY Constant DEF AlertInv, AlertsOnDisk
  <2>2. ghost.sent[Day(now)] + 1 \in 0..AlertLimit /\ ghost.sent[Day(now)] + 1 <= alertFile.alerts
    BY <1>0, <2>1, SentDays
  <2>3. DOMAIN ghost'.sent = DOMAIN ghost.sent /\ Day(now) \in DOMAIN ghost.sent
        /\ ghost.sent \in [DOMAIN ghost.sent -> 0..AlertLimit]
        /\ DOMAIN ghost.sent = 0..Day(MaxTime[scene])
    BY <1>2, SentDays DEF AlertInv, SentCounted
  <2>4. ghost'.sent \in [0..Day(MaxTime[scene]) -> 0..AlertLimit]
    BY <1>2, <2>2, <2>3
  <2>5. ASSUME NEW d \in DOMAIN ghost'.sent
        PROVE /\ d > alertFile.day => ghost'.sent[d] = 0
              /\ d = alertFile.day => ghost'.sent[d] <= alertFile.alerts
    <3>1. d \in DOMAIN ghost.sent /\ d \in Nat BY <2>3, SentDays
    <3>2. CASE d = Day(now) BY <1>1, <1>2, <2>2, <2>3, <3>1, <3>2
    <3>3. CASE d # Day(now)
      <4>1. ghost'.sent[d] = ghost.sent[d] BY <1>2, <2>3, <3>1, <3>3
      <4>. QED BY <1>1, <3>1, <3>3, <4>1 DEF AlertInv, SentCounted
    <3>. QED BY <3>2, <3>3
  <2>. QED BY <1>0, <2>4, <2>5 DEF SentCounted, Day
<1>5. Armed'
  <2>1. alertFile'.open = TRUE /\ ghost'.armed \in BOOLEAN BY <1>0, <1>1, <1>2
  <2>2. ~(pc' \in Sampling) /\ ~(pc' \in Deciding) /\ pc' # "notify"
    BY <1>0 DEF Sampling, Deciding
  <2>. QED BY <1>2, <2>1, <2>2 DEF Armed
<1>. QED BY <1>3, <1>4, <1>5 DEF AlertInv

\* At most AlertLimit notifications a day, however often the resident is restarted and
\* whichever save fails, and never two without a sample that was not high between them: what
\* the file says was sent is counted before it is sent.
THEOREM AlertsKeptBounded == Spec => []AlertsBounded
<1>1. AlertInv /\ [Next]_vars => AlertInv'
  <2>. SUFFICES ASSUME AlertInv, [Next]_vars PROVE AlertInv' OBVIOUS
  <2>1. Placed' BY PlacedStep DEF AlertInv
  <2>2. ASSUME NEW c \in Comparisons, Sample(c[1], c[2]) PROVE AlertInv'
    BY <2>1, <2>2, AlertSample
  <2>. QED BY <2>1, <2>2, AlertFrameSteps, AlertStart, AlertDayKept, AlertSave, AlertNotify DEF Next
<1>2. AlertInv => AlertsBounded
  <2>. SUFFICES ASSUME AlertInv PROVE AlertsBounded OBVIOUS
  <2>1. ghost.twice = FALSE BY DEF AlertInv, Armed
  <2>2. \A d \in DOMAIN ghost.sent : ghost.sent[d] <= AlertLimit
    BY SentDays, Constant
  <2>. QED BY <2>1, <2>2 DEF AlertsBounded
<1>. QED BY AlertInit, <1>1, <1>2, PTL DEF Spec

(***************************************************************************)
(* The baseline.  An incident the observer has in sight has a verdict that *)
(* says so, and was quiet at least as long as its recovery timer has been  *)
(* running; a burst in the window keeps the baseline closed.               *)
(***************************************************************************)
\* A list of whatever its elements are.
Listed(s) == \E S : s \in Seq(S)

BurstsClosed ==
    /\ Listed(records) /\ Listed(obs.points)
    /\ obs.until \in Int /\ ghost.bursts \subseteq Nat
    /\ \A b \in ghost.bursts : b <= now
    /\ \A i \in DOMAIN obs.points :
          obs.points[i].scored /\ obs.points[i].at \in ghost.bursts
          => obs.points[i].at + Window <= obs.until

InSight(i) == i.open = TRUE /\ i.lost = {}

IncidentSeen ==
    /\ obs.recovery \in Int /\ ghost.quiet \in Int /\ ghost.quiet <= now
    /\ DOMAIN ghost.incident = {"open", "lost"} /\ ghost.incident.open \in BOOLEAN
    /\ obs.adaptive \in Anomalous => ghost.incident.open = TRUE /\ ghost.incident.lost \in {{}, {"stale"}}
    /\ InSight(ghost.incident) => obs.adaptive \in Anomalous
    /\ InSight(ghost.incident) /\ obs.recovery # Never
       => ghost.quiet # Never /\ ghost.quiet <= obs.recovery

TrainedQuiet ==
    /\ ghost.trained \in BOOLEAN
    /\ ghost.trained = TRUE => obs.adaptive \notin Anomalous /\ ~BurstInWindow

BaselineInv == Placed /\ BurstsClosed /\ IncidentSeen /\ TrainedQuiet

LEMMA NeverBefore == Never \in Int /\ \A t \in Nat : Never < t /\ Never <= t
BY DEF Never

LEMMA Unjudged == "none" \notin Anomalous
BY DEF Anomalous

\* Of a set of numbers one is the least.
LessRel == {p \in Nat \X Nat : p[1] < p[2]}
LEMMA LeastOf ==
    ASSUME NEW S \in SUBSET Nat, S # {}
    PROVE  \E x \in S : \A y \in S : x <= y
<1>1. OpToRel(<, Nat) = LessRel BY DEF OpToRel, LessRel
<1>2. IsWellFoundedOn(LessRel, Nat) BY <1>1, NatLessThanWellFounded
<1>3. PICK x \in S : \A y \in S : ~(<<y, x>> \in LessRel) BY <1>2, WFMin
<1>4. ASSUME NEW y \in S PROVE x <= y
  <2>1. <<y, x>> \in Nat \X Nat /\ <<y, x>>[1] = y /\ <<y, x>>[2] = x OBVIOUS
  <2>2. ~(y < x) BY <1>3, <2>1 DEF LessRel
  <2>. QED BY <2>2
<1>. QED BY <1>4

\* Pruning keeps points and makes none.
LEMMA PrunedFrom ==
    ASSUME NEW s, Listed(s), NEW q, q = Pruned(s)
    PROVE  Listed(q) /\ \A i \in DOMAIN q : \E j \in DOMAIN s : q[i] = s[j]
<1>. DEFINE young == {i \in DOMAIN s : s[i].at >= now - DayLength}
<1>1. q = IF young = {} THEN <<>> ELSE SubSeq(s, Min(young), Len(s))
  BY DEF Pruned
<1>2. PICK S : s \in Seq(S) BY DEF Listed
<1>3. Len(s) \in Nat /\ DOMAIN s = 1..Len(s) BY <1>2
<1>4. young \subseteq 1..Len(s) BY <1>3
<1>. HIDE DEF young
<1>5. CASE young = {}
  <2>1. q = <<>> /\ q \in Seq(S) BY <1>1, <1>5
  <2>. QED BY <2>1 DEF Listed
<1>6. CASE young # {}
  <2>1. PICK x \in young : \A y \in young : x <= y
    BY <1>3, <1>4, <1>6, LeastOf
  <2>2. Min(young) \in young BY <2>1 DEF Min
  <2>3. PICK k \in 1..Len(s) : q = SubSeq(s, k, Len(s))
    BY <1>1, <1>4, <1>6, <2>2
  <2>4. q \in Seq(S) /\ DOMAIN q = 1..(Len(s) - k + 1)
    BY <1>2, <1>3, <2>3
  <2>5. ASSUME NEW i \in DOMAIN q PROVE q[i] = s[k + i - 1] /\ k + i - 1 \in DOMAIN s
    BY <1>2, <1>3, <2>3, <2>4, <2>5
  <2>. QED BY <2>4, <2>5 DEF Listed
<1>. QED BY <1>5, <1>6

LEMMA BaselineInit == Init => BaselineInv
<1>. SUFFICES ASSUME Init PROVE BaselineInv OBVIOUS
<1>1. Placed BY PlacedInit
<1>2. obs.until = Never /\ obs.recovery = Never /\ obs.adaptive = "none" /\ obs.points = <<>>
  BY DEF Init, NoObserver
<1>3. ghost.bursts = {} /\ ghost.quiet = Never /\ ghost.incident = NoIncident /\ ghost.trained = FALSE
  BY DEF Init, NoGhost
<1>4. BurstsClosed
  <2>1. records = <<>> /\ <<>> \in Seq({}) BY DEF Init
  <2>2. Listed(records) /\ Listed(obs.points) BY <1>2, <2>1 DEF Listed
  <2>. QED BY <1>2, <1>3, <2>2, NeverBefore DEF BurstsClosed
<1>5. IncidentSeen
  <2>1. now \in Nat BY <1>1 DEF Placed
  <2>2. Never <= now BY <2>1, NeverBefore
  <2>3. obs.adaptive \notin Anomalous BY <1>2, Unjudged
  <2>4. DOMAIN ghost.incident = {"open", "lost"} /\ ghost.incident.open = FALSE
    BY <1>3 DEF NoIncident
  <2>. QED BY <1>2, <1>3, <2>1, <2>2, <2>3, <2>4, NeverBefore DEF IncidentSeen, InSight
<1>6. TrainedQuiet BY <1>3 DEF TrainedQuiet
<1>. QED BY <1>1, <1>4, <1>5, <1>6 DEF BaselineInv

\* A step that neither judges nor changes the context.
LEMMA BaselineFrame ==
    ASSUME BaselineInv, Placed', now' \in Nat, now <= now', Listed(records'),
           ghost'.incident = ghost.incident, ghost'.quiet = ghost.quiet,
           ghost'.bursts = ghost.bursts, ghost'.trained = ghost.trained,
           obs'.until = obs.until, obs'.recovery = obs.recovery, obs'.adaptive = obs.adaptive,
           obs'.points = obs.points, obs'.prev = obs.prev
    PROVE  BaselineInv'
<1>0. now \in Nat BY DEF BaselineInv, Placed
<1>1. BurstsClosed' BY <1>0 DEF BaselineInv, BurstsClosed
<1>2. IncidentSeen' BY <1>0 DEF BaselineInv, IncidentSeen
<1>3. TrainedQuiet' BY DEF BaselineInv, TrainedQuiet, BurstInWindow
<1>. QED BY <1>1, <1>2, <1>3 DEF BaselineInv

\* Appending to the history keeps it a list.
LEMMA ListedAppend == ASSUME NEW s, Listed(s), NEW e PROVE Listed(Append(s, e))
<1>1. PICK S : s \in Seq(S) BY DEF Listed
<1>2. s \in Seq(S \cup {e}) BY <1>1
<1>3. Append(s, e) \in Seq(S \cup {e}) BY <1>2
<1>. QED BY <1>3 DEF Listed

\* What a resident restores of the history is not scored.
LEMMA RestoredUnscored ==
    ASSUME Listed(records), Start
    PROVE  Listed(obs'.points) /\ \A i \in DOMAIN obs'.points : ~obs'.points[i].scored
<1>. DEFINE rows == WithCheckpoint(records, checkpoint)
            P == [i \in DOMAIN rows |-> RestoredPoint(rows[i])]
            A == RestoreAlerts(NoObserver)
            V == [NoObserver EXCEPT !.invalid = TRUE]
<1>1. Listed(P) /\ \A i \in DOMAIN P : ~P[i].scored
  <2>1. Listed(rows)
    <3>1. rows \in {records, Append(records, checkpoint)} BY DEF WithCheckpoint
    <3>. QED BY <3>1, ListedAppend
  <2>2. PICK S : rows \in Seq(S) BY <2>1 DEF Listed
  <2>3. Len(rows) \in Nat /\ DOMAIN rows = 1..Len(rows) BY <2>2
  <2>. HIDE DEF rows
  <2>4. P \in Seq({RestoredPoint(rows[i]) : i \in DOMAIN rows}) BY <2>3
  <2>5. \A i \in DOMAIN P : ~P[i].scored BY DEF RestoredPoint
  <2>. QED BY <2>4, <2>5 DEF Listed
<1>2. ASSUME NEW o, DOMAIN o = ObsFields PROVE RestoreHistory(o).points = P
  <2>. HIDE DEF rows, P
  <2>1. \E a, c : RestoreHistory(o) = [o EXCEPT !.prev = a, !.points = P, !.hour = c]
    BY DEF RestoreHistory, P, rows
  <2>. QED BY <1>2, <2>1 DEF ObsFields, NoObserver
<1>3. /\ DOMAIN A = ObsFields /\ A.points = <<>> /\ DOMAIN V = ObsFields
  BY DEF RestoreAlerts, NoObserver, ObsFields
<1>4. obs' \in {RestoreHistory(A), RestoreHistory(V), A}
  BY DEF Start, Restored
<1>. HIDE DEF P, A, V
<1>5. obs'.points \in {P, <<>>} BY <1>2, <1>3, <1>4
<1>6. <<>> \in Seq({}) /\ DOMAIN <<>> = {} OBVIOUS
<1>. QED BY <1>1, <1>5, <1>6 DEF Listed

\* A resident that starts has none of the window a burst was in.
LEMMA BaselineStart == ASSUME BaselineInv, Placed', Start PROVE BaselineInv'
<1>1. /\ pc = "down" /\ obs = NoObserver /\ now' = now /\ records' = records /\ now \in Nat
      /\ DOMAIN ghost = GhostFields
  BY DEF Start, store, BaselineInv, Placed
<1>2. /\ ghost'.incident = ghost.incident /\ ghost'.quiet = ghost.quiet
      /\ ghost'.bursts = ghost.bursts /\ ghost'.trained = ghost.trained
  BY <1>1, FaultKeeps DEF Start, GhostFields
<1>3. obs'.until = Never /\ obs'.recovery = Never /\ obs'.adaptive = "none" BY StartRestores
<1>4. obs.until = Never /\ obs.recovery = Never /\ obs.adaptive = "none" BY <1>1 DEF NoObserver
<1>5. Listed(obs'.points) /\ \A i \in DOMAIN obs'.points : ~obs'.points[i].scored
  BY RestoredUnscored DEF BaselineInv, BurstsClosed
<1>6. BurstsClosed' BY <1>1, <1>2, <1>3, <1>5, NeverBefore DEF BaselineInv, BurstsClosed
<1>7. IncidentSeen' BY <1>1, <1>2, <1>3, <1>4 DEF BaselineInv, IncidentSeen
<1>8. ~BurstInWindow' BY <1>5 DEF BurstInWindow
<1>9. TrainedQuiet' BY <1>2, <1>3, <1>8, Unjudged DEF BaselineInv, TrainedQuiet
<1>. QED BY <1>6, <1>7, <1>9 DEF BaselineInv

\* A resident that ends takes its verdict with it; an incident it saw is lost.
LEMMA BaselineEnds == ASSUME BaselineInv, Placed', Stop \/ Crash PROVE BaselineInv'
<1>0. DOMAIN ghost = GhostFields /\ now \in Nat BY DEF BaselineInv, Placed
<1>1. obs' = NoObserver /\ now' = now /\ records' = records BY DEF Stop, Crash, store
<1>2. /\ obs'.until = Never /\ obs'.recovery = Never /\ obs'.adaptive = "none" /\ obs'.points = <<>>
  BY <1>1 DEF NoObserver
<1>. DEFINE lost == IF ghost.incident.open THEN ghost.incident.lost \cup {"restart"} ELSE ghost.incident.lost
<1>3. /\ ghost'.incident = [ghost.incident EXCEPT !.lost = lost]
      /\ ghost'.quiet = Never /\ ghost'.bursts = ghost.bursts /\ ghost'.trained = FALSE
  <2>1. ghost' = Forgotten \/ ghost' = [Forgotten EXCEPT !.lossy = TRUE]
    BY DEF Stop, Crash
  <2>2. /\ Forgotten.incident = [ghost.incident EXCEPT !.lost = lost]
        /\ Forgotten.quiet = Never /\ Forgotten.bursts = ghost.bursts /\ Forgotten.trained = FALSE
        /\ DOMAIN Forgotten = GhostFields
    BY <1>0 DEF Forgotten, GhostFields
  <2>. HIDE DEF lost
  <2>. QED BY <2>1, <2>2 DEF GhostFields
<1>4. BurstsClosed'
  <2>1. <<>> \in Seq({}) /\ DOMAIN <<>> = {} OBVIOUS
  <2>2. Listed(obs'.points) /\ Listed(records') BY <1>1, <1>2, <2>1 DEF Listed, BaselineInv, BurstsClosed
  <2>3. Never \in Int BY NeverBefore
  <2>. QED BY <1>0, <1>1, <1>2, <1>3, <2>1, <2>2, <2>3 DEF BaselineInv, BurstsClosed
<1>5. IncidentSeen'
  <2>1. IncidentSeen BY DEF BaselineInv
  <2>2. /\ DOMAIN ghost'.incident = {"open", "lost"} /\ ghost'.incident.open = ghost.incident.open
        /\ ghost'.incident.lost = lost
    BY <1>3, <2>1 DEF IncidentSeen
  <2>3. ~InSight(ghost'.incident)
    BY <2>2 DEF InSight
  <2>4. Never \in Int /\ Never <= now BY <1>0, NeverBefore
  <2>5. obs'.adaptive \notin Anomalous BY <1>2, Unjudged
  <2>. QED BY <1>1, <1>2, <1>3, <2>1, <2>2, <2>3, <2>4, <2>5 DEF IncidentSeen
<1>6. TrainedQuiet' BY <1>3 DEF TrainedQuiet
<1>. QED BY <1>4, <1>5, <1>6 DEF BaselineInv

(***************************************************************************)
(* The verdict on a sample, as far as it concerns the baseline.            *)
(***************************************************************************)
Judges(o, r, m, v) ==
    /\ v.obs.until = (IF v.burst THEN now + Window ELSE o.until)
    /\ v.burst \in BOOLEAN /\ v.accepted \in BOOLEAN
    /\ v.accepted = TRUE => now >= v.obs.until /\ v.obs.adaptive \notin Anomalous
    /\ r.band = "learning" => v.obs.adaptive = "learning" /\ v.obs.recovery = Never
    /\ r.band # "learning" =>
         /\ v.obs.recovery = Timers(o, r.band).recovery
         /\ o.adaptive \in Anomalous /\ v.obs.adaptive \notin Anomalous
            => Lasted(v.obs.recovery, RecoveryTime)
    /\ Listed(v.obs.points)
    /\ \A i \in DOMAIN v.obs.points :
          v.obs.points[i] = Point(m) \/ \E j \in DOMAIN o.points : v.obs.points[i] = o.points[j]

\* The points after a sample are those before it and its own.
LEMMA PointsFrom ==
    ASSUME NEW o, Listed(o.points), NEW m,
           NEW q, q = Pruned(IF m.known THEN Append(o.points, Point(m)) ELSE o.points)
    PROVE  /\ Listed(q)
           /\ \A i \in DOMAIN q : q[i] = Point(m) \/ \E j \in DOMAIN o.points : q[i] = o.points[j]
<1>. DEFINE e == Point(m)
            s == o.points
            u == IF m.known THEN Append(s, e) ELSE s
<1>1. PICK S : s \in Seq(S) BY DEF Listed
<1>. HIDE DEF e, s
<1>2. s \in Seq(S \cup {e}) BY <1>1
<1>3. /\ Append(s, e) \in Seq(S \cup {e})
      /\ \A j \in DOMAIN Append(s, e) : Append(s, e)[j] = e \/ (j \in DOMAIN s /\ Append(s, e)[j] = s[j])
  BY <1>2
<1>4. Listed(u) /\ \A j \in DOMAIN u : u[j] = e \/ \E k \in DOMAIN s : u[j] = s[k]
  BY <1>2, <1>3 DEF Listed
<1>5. q = Pruned(u) BY DEF e, s
<1>. HIDE DEF u
<1>6. Listed(q) /\ \A i \in DOMAIN q : \E j \in DOMAIN u : q[i] = u[j]
  BY <1>4, <1>5, PrunedFrom
<1>7. \A i \in DOMAIN q : q[i] = e \/ \E k \in DOMAIN s : q[i] = s[k]
  BY <1>4, <1>6
<1>. QED BY <1>6, <1>7 DEF e, s

LEMMA VerdictJudges ==
    ASSUME NEW o, DOMAIN o = ObsFields, Listed(o.points), NEW r, NEW m, NEW v, v = Verdict(o, r, m)
    PROVE  Judges(o, r, m, v)
<1>. DEFINE c == Classify(o, r.band, r.sure)
<1>1. /\ DOMAIN c.obs = ObsFields /\ c.obs.until = o.until
      /\ c.accepted \in BOOLEAN
      /\ c.accepted = TRUE => c.obs.adaptive \notin Anomalous
      /\ r.band = "learning" => c.obs.adaptive = "learning" /\ c.obs.recovery = Never
      /\ r.band # "learning" =>
           /\ c.obs.recovery = Timers(o, r.band).recovery
           /\ o.adaptive \in Anomalous /\ c.obs.adaptive \notin Anomalous
              => Lasted(c.obs.recovery, RecoveryTime)
  <2>1. CASE r.band = "learning"
    BY <2>1 DEF Classify, Anomalous, ObsFields, NoObserver
  <2>2. CASE r.band # "learning"
    <3>. DEFINE t == Timers(o, r.band)
                s == Judged(t, r.sure)
    <3>1. /\ c.obs = [t EXCEPT !.adaptive = s]
          /\ c.accepted = (r.band \in {"quiet", "plateau"} /\ s \notin Anomalous /\ o.adaptive \notin Anomalous)
      BY <2>2 DEF Classify
    <3>2. DOMAIN t = ObsFields /\ t.until = o.until /\ t.adaptive = o.adaptive
      BY DEF Timers, ObsFields, NoObserver
    <3>3. o.adaptive \in Anomalous /\ s \notin Anomalous => Lasted(t.recovery, RecoveryTime)
      BY <3>2 DEF Judged
    <3>. HIDE DEF t, s
    <3>4. DOMAIN c.obs = ObsFields /\ c.obs.until = o.until /\ c.obs.adaptive = s /\ c.obs.recovery = t.recovery
      BY <3>1, <3>2 DEF ObsFields, NoObserver
    <3>. QED BY <2>2, <3>1, <3>3, <3>4 DEF t
  <2>. QED BY <2>1, <2>2
<1>2. PICK points, until, burst, covered :
        /\ v.obs = [c.obs EXCEPT !.points = points, !.until = until]
        /\ points = Pruned(IF m.known THEN Append(o.points, Point(m)) ELSE o.points)
        /\ v.burst = burst /\ burst \in BOOLEAN
        /\ until = IF burst THEN now + Window ELSE o.until
        /\ v.accepted = (c.accepted /\ covered /\ now >= until) /\ covered \in BOOLEAN
  <2>. DEFINE P == Pruned(IF m.known THEN Append(o.points, Point(m)) ELSE o.points)
              B == m.scored /\ BurstWindowBytes(P) >= BurstBytes
              U == IF B THEN now + Window ELSE o.until
  <2>1. /\ v.obs = [c.obs EXCEPT !.points = P, !.until = U]
        /\ v.burst = B /\ v.accepted = (c.accepted /\ Covered(P) /\ now >= U)
    BY DEF Verdict
  <2>2. B \in BOOLEAN /\ Covered(P) \in BOOLEAN
    BY DEF Covered
  <2>3. P = Pruned(IF m.known THEN Append(o.points, Point(m)) ELSE o.points) OBVIOUS
  <2>. HIDE DEF P, B
  <2>. QED BY <2>1, <2>2, <2>3
<1>. HIDE DEF c
<1>3. /\ v.obs.until = until /\ v.obs.adaptive = c.obs.adaptive /\ v.obs.recovery = c.obs.recovery
      /\ v.obs.points = points
  BY <1>1, <1>2 DEF ObsFields, NoObserver
<1>4. v.accepted \in BOOLEAN /\ (v.accepted = TRUE => c.accepted = TRUE /\ now >= until)
  BY <1>1, <1>2
<1>5. /\ Listed(points)
      /\ \A i \in DOMAIN points : points[i] = Point(m) \/ \E j \in DOMAIN o.points : points[i] = o.points[j]
  BY <1>2, PointsFrom
<1>. QED BY <1>1, <1>2, <1>3, <1>4, <1>5 DEF Judges

\* Samples: a recovery that may end an incident is one that was quiet throughout.
LEMMA BaselineSample ==
    ASSUME BaselineInv, Placed', NEW b, NEW s, Sample(b, s)
    PROVE  BaselineInv'
<1>0. /\ DOMAIN obs = ObsFields /\ DOMAIN ghost = GhostFields
      /\ now \in Nat /\ Window \in Nat \ {0} /\ RecoveryTime \in Nat
  BY Constant DEF BaselineInv, Placed
<1>1. PICK r, m, v : v = Verdict(obs, r, m) /\ Sampled(r, m, v)
  BY SampleMakes
<1>. DEFINE quiet  == IF r.band = "quiet" THEN Newly(now, ghost.quiet) ELSE Never
            over   == quiet # Never /\ now - quiet >= RecoveryTime
            bursts == IF v.burst THEN ghost.bursts \cup {now} ELSE ghost.bursts \ {now}
            A == v.obs.adaptive
            R == v.obs.recovery
            I == ghost.incident
            Q == v.obs.points
<1>2. now' = now /\ scene' = scene /\ records' = records
  BY DEF Sample, device, store
<1>3. /\ ghost'.quiet = quiet /\ ghost'.incident = Incident(A, R, over)
      /\ ghost'.bursts = {x \in bursts : x >= now - Window} /\ ghost'.trained = v.accepted
  BY <1>0, <1>1 DEF Sampled, GhostFields
<1>4. obs'.until = v.obs.until /\ obs'.adaptive = A /\ obs'.recovery = R /\ obs'.points = Q /\ obs'.prev.at = now
  <2>. DEFINE p == [NoRecord EXCEPT !.at = now, !.count = r.count, !.id = r.id, !.pos = written]
  <2>1. obs' = [v.obs EXCEPT !.prev = p] BY <1>1 DEF Sampled
  <2>2. DOMAIN v.obs = ObsFields BY <1>0, <1>1, VerdictKeeps
  <2>3. p.at = now BY DEF NoRecord
  <2>. HIDE DEF p
  <2>. QED BY <2>1, <2>2, <2>3 DEF ObsFields, NoObserver
<1>5. /\ v.obs.until = IF v.burst THEN now + Window ELSE obs.until
      /\ v.burst \in BOOLEAN /\ v.accepted \in BOOLEAN
      /\ v.accepted = TRUE => now >= v.obs.until /\ A \notin Anomalous
      /\ r.band = "learning" => A = "learning" /\ R = Never
      /\ r.band # "learning" =>
           /\ R = Timers(obs, r.band).recovery
           /\ obs.adaptive \in Anomalous /\ A \notin Anomalous => Lasted(R, RecoveryTime)
      /\ Listed(Q)
      /\ \A i \in DOMAIN Q : Q[i] = Point(m) \/ \E j \in DOMAIN obs.points : Q[i] = obs.points[j]
  <2>. HIDE DEF quiet, over, bursts
  <2>1. DOMAIN obs = ObsFields /\ v = Verdict(obs, r, m) BY <1>0, <1>1
  <2>2. Judges(obs, r, m, v) BY <2>1, VerdictJudges DEF BaselineInv, BurstsClosed
  <2>. QED BY <2>2 DEF Judges
<1>6. Timers(obs, r.band).recovery = IF obs.adaptive \notin Anomalous THEN obs.recovery
                                     ELSE IF r.band = "quiet" THEN Newly(now, obs.recovery) ELSE Never
  BY <1>0 DEF Timers, ObsFields, NoObserver
<1>7. IncidentSeen /\ BurstsClosed BY DEF BaselineInv
<1>. HIDE DEF quiet, A, R, Q
<1>8. quiet \in Int /\ R \in Int /\ quiet <= now
  <2>1. Never \in Int /\ Never <= now BY <1>0, NeverBefore
  <2>2. quiet \in Int /\ quiet <= now
    <3>1. quiet \in {Never, now, ghost.quiet} BY DEF quiet, Newly
    <3>2. ghost.quiet \in Int /\ ghost.quiet <= now BY <1>7 DEF IncidentSeen
    <3>. QED BY <1>0, <2>1, <3>1, <3>2
  <2>3. R \in Int
    BY <1>0, <1>5, <1>6, <1>7, <2>1 DEF Newly, IncidentSeen
  <2>. QED BY <2>2, <2>3
\* While an incident is in sight it was quiet for as long as the timer runs.
<1>9. ASSUME InSight(I), r.band # "learning", R # Never
      PROVE quiet # Never /\ quiet <= R
  <2>1. obs.adaptive \in Anomalous /\ R = IF r.band = "quiet" THEN Newly(now, obs.recovery) ELSE Never
    BY <1>5, <1>6, <1>7, <1>9 DEF IncidentSeen
  <2>2. r.band = "quiet" /\ R = Newly(now, obs.recovery) /\ quiet = Newly(now, ghost.quiet)
    BY <1>9, <2>1 DEF quiet
  <2>3. now # Never BY <1>0, NeverBefore
  <2>4. CASE obs.recovery = Never
    <3>1. R = now /\ quiet \in {now, ghost.quiet} /\ quiet # Never
      BY <2>2, <2>3, <2>4 DEF Newly
    <3>. QED BY <1>8, <3>1
  <2>5. CASE obs.recovery # Never
    <3>1. ghost.quiet # Never /\ ghost.quiet <= obs.recovery
      BY <1>7, <1>9, <2>5 DEF IncidentSeen
    <3>. QED BY <2>2, <2>5, <3>1 DEF Newly
  <2>. QED BY <2>4, <2>5
<1>10. BurstsClosed'
  <2>1. v.obs.until \in Int BY <1>0, <1>5, <1>7 DEF BurstsClosed
  <2>2. bursts \subseteq Nat /\ \A x \in bursts : x <= now
    BY <1>0, <1>7 DEF BurstsClosed
  <2>3. ASSUME NEW i \in DOMAIN Q, Q[i].scored, Q[i].at \in bursts
        PROVE Q[i].at + Window <= v.obs.until
    <3>1. Q[i].at \in Nat /\ Q[i].at <= now BY <2>2, <2>3
    <3>2. CASE v.burst = TRUE BY <1>0, <1>5, <3>1, <3>2
    <3>3. CASE v.burst = FALSE
      <4>1. Q[i].at \in ghost.bursts /\ Q[i].at # now BY <2>3, <3>3
      <4>2. Q[i] # Point(m) BY <4>1 DEF Point
      <4>3. PICK j \in DOMAIN obs.points : Q[i] = obs.points[j] BY <1>5, <4>2
      <4>4. Q[i].at + Window <= obs.until BY <1>7, <2>3, <4>1, <4>3 DEF BurstsClosed
      <4>. QED BY <1>5, <3>3, <4>4
    <3>. QED BY <1>5, <3>2, <3>3
  <2>4. Listed(records) BY <1>7 DEF BurstsClosed
  <2>. HIDE DEF bursts
  <2>. QED BY <1>2, <1>3, <1>4, <1>5, <2>1, <2>2, <2>3, <2>4 DEF BurstsClosed
<1>11. IncidentSeen'
  <2>1. CASE A \in Anomalous
    <3>. DEFINE lost == IF R # Never /\ (obs.adaptive \notin Anomalous \/ "stale" \in I.lost)
                        THEN {"stale"} ELSE {}
    <3>1. ghost'.incident = [open |-> TRUE, lost |-> lost]
      BY <1>3, <2>1 DEF Incident
    <3>2. r.band # "learning" BY <1>5, <2>1 DEF Anomalous
    <3>3. ASSUME lost = {}, R # Never PROVE quiet # Never /\ quiet <= R
      <4>1. obs.adaptive \in Anomalous /\ "stale" \notin I.lost BY <3>3
      <4>2. InSight(I) BY <1>7, <4>1 DEF IncidentSeen, InSight
      <4>. QED BY <1>9, <3>2, <3>3, <4>2
    <3>4. lost \in {{}, {"stale"}} OBVIOUS
    <3>. HIDE DEF lost
    <3>5. ghost'.incident.open = TRUE /\ ghost'.incident.lost = lost /\ DOMAIN ghost'.incident = {"open", "lost"}
      BY <3>1
    <3>6. InSight(ghost'.incident) => lost = {} BY <3>5 DEF InSight
    <3>. QED BY <1>2, <1>3, <1>4, <1>8, <2>1, <3>3, <3>4, <3>5, <3>6 DEF IncidentSeen
  <2>2. CASE A \notin Anomalous
    <3>1. ASSUME InSight(I), r.band # "learning" PROVE over
      <4>1. obs.adaptive \in Anomalous BY <1>7, <3>1 DEF IncidentSeen
      <4>2. Lasted(R, RecoveryTime) BY <1>5, <2>2, <3>1, <4>1
      <4>3. R # Never /\ now - R >= RecoveryTime BY <4>2 DEF Lasted
      <4>4. quiet # Never /\ quiet <= R BY <1>9, <3>1, <4>3
      <4>. QED BY <1>0, <1>8, <4>3, <4>4
    <3>. HIDE DEF over
    <3>2. \/ ghost'.incident = NoIncident
          \/ /\ I.open /\ ~over
             /\ ghost'.incident = [I EXCEPT !.lost = IF A = "learning" THEN @ \cup {"learning"} ELSE @]
      BY <1>3, <2>2 DEF Incident
    <3>3. /\ DOMAIN ghost'.incident = {"open", "lost"} /\ ghost'.incident.open \in BOOLEAN
          /\ ~InSight(ghost'.incident)
      <4>1. CASE ghost'.incident = NoIncident BY <4>1 DEF NoIncident, InSight
      <4>2. ASSUME I.open, ~over, ghost'.incident = [I EXCEPT !.lost = IF A = "learning" THEN @ \cup {"learning"} ELSE @]
            PROVE /\ DOMAIN ghost'.incident = {"open", "lost"} /\ ghost'.incident.open \in BOOLEAN
                  /\ ~InSight(ghost'.incident)
        <5>1. DOMAIN I = {"open", "lost"} /\ I.open \in BOOLEAN BY <1>7 DEF IncidentSeen
        <5>. HIDE DEF I
        <5>2. /\ DOMAIN ghost'.incident = {"open", "lost"} /\ ghost'.incident.open = I.open
              /\ ghost'.incident.lost = IF A = "learning" THEN I.lost \cup {"learning"} ELSE I.lost
          BY <4>2, <5>1
        <5>3. CASE A = "learning" BY <5>1, <5>2, <5>3 DEF InSight
        <5>4. CASE A # "learning"
          <6>1. ~InSight(I) BY <1>5, <3>1, <4>2, <5>4 DEF I
          <6>. QED BY <4>2, <5>1, <5>2, <5>4, <6>1 DEF InSight
        <5>. QED BY <5>3, <5>4
      <4>. QED BY <3>2, <4>1, <4>2
    <3>. QED BY <1>2, <1>3, <1>4, <1>8, <2>2, <3>3 DEF IncidentSeen
  <2>. QED BY <2>1, <2>2
<1>12. TrainedQuiet'
  <2>1. ASSUME v.accepted = TRUE, BurstInWindow' PROVE FALSE
    <3>1. PICK i \in DOMAIN Q : Q[i].scored /\ Q[i].at \in ghost'.bursts /\ Q[i].at > now - Window
      BY <1>4, <2>1 DEF BurstInWindow
    <3>2. Q[i].at \in Nat /\ Q[i].at + Window <= v.obs.until /\ v.obs.until \in Int
      BY <1>4, <1>10, <3>1 DEF BurstsClosed
    <3>. QED BY <1>0, <1>5, <2>1, <3>1, <3>2
  <2>. QED BY <1>3, <1>4, <1>5, <2>1 DEF TrainedQuiet
<1>. QED BY <1>10, <1>11, <1>12 DEF BaselineInv

\* Every other step leaves the verdict and the baseline alone, forgets them with the
\* process, or starts the verdict again.
LEMMA BaselineOther ==
    ASSUME BaselineInv, Placed', [Next]_vars, \A c \in Comparisons : ~Sample(c[1], c[2])
    PROVE  BaselineInv'
<1>. DEFINE GhostSame == /\ ghost'.incident = ghost.incident /\ ghost'.quiet = ghost.quiet
                         /\ ghost'.bursts = ghost.bursts /\ ghost'.trained = ghost.trained
            ObsSame == /\ obs'.until = obs.until /\ obs'.recovery = obs.recovery
                       /\ obs'.adaptive = obs.adaptive
                       /\ obs'.points = obs.points /\ obs'.prev = obs.prev
            Later == now' \in Nat /\ now <= now' /\ Listed(records')
<1>0. /\ now \in Nat /\ DOMAIN obs = ObsFields /\ DOMAIN ghost = GhostFields /\ Listed(records)
  BY DEF BaselineInv, Placed, BurstsClosed
<1>1. ASSUME GhostSame, ObsSame, Later PROVE BaselineInv'
  BY <1>1, BaselineFrame
<1>2. CASE Tick
  <2>1. GhostSame /\ ObsSame /\ Later BY <1>0, <1>2 DEF Tick, store
  <2>. QED BY <1>1, <2>1
<1>3. CASE ResetCounter
  <2>1. GhostSame /\ ObsSame /\ Later BY <1>0, <1>3 DEF ResetCounter, store, GhostFields
  <2>. QED BY <1>1, <2>1
<1>4. CASE Start BY <1>4, BaselineStart
<1>5. CASE FlushAppend \/ RemoveCheckpoint
  <2>1. GhostSame BY <1>0, <1>5, FaultKeeps DEF FlushAppend, RemoveCheckpoint, GhostFields
  <2>2. ObsSame
    <3>1. obs' = obs \/ obs' = [obs EXCEPT !.hour = NoRecord]
      BY <1>5 DEF FlushAppend, RemoveCheckpoint
    <3>. QED BY <1>0, <3>1 DEF ObsFields, NoObserver
  <2>3. now' = now BY <1>5 DEF FlushAppend, RemoveCheckpoint
  <2>4. Listed(records')
    <3>1. records' \in {records, Append(records, obs.hour)}
      BY <1>5 DEF FlushAppend, RemoveCheckpoint
    <3>. QED BY <1>0, <3>1, ListedAppend
  <2>. QED BY <1>0, <1>1, <2>1, <2>2, <2>3, <2>4
<1>6. CASE RecordSample
  <2>1. GhostSame /\ Later BY <1>0, <1>6 DEF RecordSample, store
  <2>2. ObsSame BY <1>0, <1>6 DEF RecordSample, ObsFields, NoObserver
  <2>. QED BY <1>1, <2>1, <2>2
<1>7. CASE AlertDay
  <2>1. GhostSame BY <1>0, <1>7, FaultKeeps DEF AlertDay, GhostFields
  <2>2. ObsSame BY <1>0, <1>7 DEF AlertDay, ObsFields, NoObserver
  <2>. QED BY <1>0, <1>1, <1>7, <2>1, <2>2 DEF AlertDay
<1>8. CASE AlertNone
  <2>1. GhostSame /\ ObsSame /\ Later BY <1>0, <1>8 DEF AlertNone, store
  <2>. QED BY <1>1, <2>1
<1>9. ASSUME NEW n, NEW o, SaveAlert(n, o) PROVE BaselineInv'
  <2>1. GhostSame BY <1>0, <1>9, FaultKeeps DEF SaveAlert, GhostFields
  <2>2. ObsSame BY <1>0, <1>9 DEF SaveAlert, ObsFields, NoObserver
  <2>. QED BY <1>0, <1>1, <1>9, <2>1, <2>2 DEF SaveAlert
<1>10. CASE Notify
  <2>1. GhostSame /\ ObsSame /\ Later BY <1>0, <1>10 DEF Notify, store, GhostFields
  <2>. QED BY <1>1, <2>1
<1>11. CASE SetContext
  <2>1. /\ obs'.until = obs.until /\ obs'.adaptive = obs.adaptive /\ obs'.recovery = Never
        /\ obs'.points = obs.points /\ obs'.prev = obs.prev
        /\ now' = now /\ records' = records
    BY <1>0, <1>11 DEF SetContext, ObsFields, NoObserver, store
  <2>2. /\ ghost'.bursts = ghost.bursts /\ ghost'.quiet = ghost.quiet
        /\ ghost'.trained = ghost.trained
        /\ ghost'.incident = [ghost.incident EXCEPT !.lost = IF obs.adaptive \in Anomalous THEN {} ELSE @]
    BY <1>0, <1>11 DEF SetContext, GhostFields
  <2>3. BurstsClosed' BY <2>1, <2>2 DEF BaselineInv, BurstsClosed
  <2>4. IncidentSeen'
    <3>1. IncidentSeen BY DEF BaselineInv
    <3>2. /\ DOMAIN ghost'.incident = {"open", "lost"} /\ ghost'.incident.open = ghost.incident.open
          /\ ghost'.incident.lost = IF obs.adaptive \in Anomalous THEN {} ELSE ghost.incident.lost
      BY <2>2, <3>1 DEF IncidentSeen
    <3>3. InSight(ghost'.incident) => obs.adaptive \in Anomalous
      BY <3>1, <3>2 DEF IncidentSeen, InSight
    <3>. QED BY <2>1, <2>2, <3>1, <3>2, <3>3, NeverBefore DEF IncidentSeen
  <2>5. TrainedQuiet' BY <2>1, <2>2 DEF BaselineInv, TrainedQuiet, BurstInWindow
  <2>. QED BY <2>3, <2>4, <2>5 DEF BaselineInv
<1>12. CASE Stop \/ Crash BY <1>12, BaselineEnds
<1>13. CASE ReadRecords \/ ReadCheckpoint \/ UNCHANGED vars
  <2>1. GhostSame /\ ObsSame /\ Later BY <1>0, <1>13 DEF ReadRecords, ReadCheckpoint, vars, store
  <2>. QED BY <1>1, <2>1
<1>. QED BY <1>2, <1>3, <1>4, <1>5, <1>6, <1>7, <1>8, <1>9, <1>10, <1>11, <1>12, <1>13
         DEF Next, AlertClose, AlertOpen

\* The baseline is trained neither on a window that still counts a burst, nor during an
\* incident that has not been quiet for RecoveryTime, whatever the context changed to, but
\* for one the observer lost sight of: by a restart, by a verdict "learning", or because the
\* recovery timer of the one before ended it.
THEOREM BaselineKeptQuiet == Spec => []QuietBaseline
<1>1. BaselineInv /\ [Next]_vars => BaselineInv'
  <2>. SUFFICES ASSUME BaselineInv, [Next]_vars PROVE BaselineInv' OBVIOUS
  <2>1. Placed' BY PlacedStep DEF BaselineInv
  <2>2. ASSUME NEW c \in Comparisons, Sample(c[1], c[2]) PROVE BaselineInv'
    BY <2>1, <2>2, BaselineSample
  <2>. QED BY <2>1, <2>2, BaselineOther
<1>2. BaselineInv => QuietBaseline
  <2>. SUFFICES ASSUME BaselineInv PROVE QuietBaseline OBVIOUS
  <2>1. ghost.trained = TRUE => ~BurstInWindow /\ ~InSight(ghost.incident)
    BY DEF BaselineInv, IncidentSeen, TrainedQuiet
  <2>2. ghost.trained \in BOOLEAN BY DEF BaselineInv, TrainedQuiet
  <2>3. ghost.incident.open \in BOOLEAN BY DEF BaselineInv, IncidentSeen
  <2>. QED BY <2>1, <2>2, <2>3 DEF QuietBaseline, InSight
<1>. QED BY BaselineInit, <1>1, <1>2, PTL DEF Spec

(***************************************************************************)
(* The history.  What a row may be: its bytes are its own and were written *)
(* before it, and the counter is where it left it or has started again.    *)
(***************************************************************************)
Row == [hour : Int, bytes : Nat, gap : Nat, at : Int, count : Nat, id : Nat, pos : Nat, of : SUBSET Nat]

Followed(x) ==
    \/ x.id = counter.id /\ counter.base <= x.pos /\ x.count = x.pos - counter.base
    \/ counter.base >= x.pos /\ resets > 0 /\ \E h \in ghost.resetHours : h >= x.hour

RowSound(x) ==
    /\ x \in Row
    /\ x.of \subseteq 1..x.pos /\ Cardinality(x.of) = x.bytes + x.gap
    /\ x.pos <= written /\ x.at <= now /\ x.hour <= Hour(now)
    /\ x.at = now => x.pos = written
    /\ x.at >= 0 \/ x = NoRecord
    /\ Followed(x)

Kept == {records[i] : i \in DOMAIN records} \cup {checkpoint, obs.hour}
Known == Kept \cup {obs.prev, NoRecord}
Taking == {"flush", "remove", "hour"}
Waiting == {"idle", "alert", "notify"}

DeviceTyped ==
    /\ written \in Nat /\ resets \in Nat
    /\ counter \in [base : 0..written, id : Nat]
    /\ ghost.resetHours \subseteq Int /\ \A h \in ghost.resetHours : h <= Hour(now)
    /\ records \in Seq(Row) /\ ghost.lossy \in BOOLEAN

\* A reader has the rows of an earlier state.
Mirrored ==
    reader.at = "rows" => /\ reader.rows \in Seq(Row) /\ DOMAIN reader.rows \subseteq DOMAIN records
                          /\ \A i \in DOMAIN reader.rows : reader.rows[i] = records[i]

RowsSound == \A x \in Known : RowSound(x)

\* A later row knows a later reading.
InOrder == \A x, y \in Known : x.at <= y.at => x.pos <= y.pos

\* The reading before is ahead of everything kept, and a sample in progress adds what follows.
Ahead ==
    /\ pc \in {"fresh"} \cup Waiting => obs.prev.at = Never \/ \A x \in Kept : x.pos <= obs.prev.pos
    /\ pc \in Taking =>
         /\ obs.prev.at = now
         /\ reading.bytes \in 0..written /\ reading.known \in BOOLEAN /\ reading.scored \in BOOLEAN
         /\ reading.scored = TRUE => reading.known = TRUE
         /\ reading.known = FALSE => reading.bytes = 0
         /\ reading.count = written - counter.base /\ reading.id = counter.id
         /\ \A x \in Kept : x.pos <= written - reading.bytes

\* The hours of the rows are over.
HoursOver ==
    /\ \A i \in DOMAIN records : records[i].hour < Hour(now) /\ records[i].at >= 0
    /\ pc = "flush" => obs.hour # NoRecord /\ obs.hour.hour # Hour(now)
    /\ pc = "hour" => obs.hour = NoRecord \/ obs.hour.hour = Hour(now)
    /\ pc \in Waiting => \A i \in DOMAIN records : records[i].hour < obs.hour.hour

Apart(x, y) == x.of \cap y.of = {} \/ x.hour \in ghost.resetHours \/ y.hour \in ghost.resetHours
Continues(x, y) ==
    /\ x.hour = y.hour /\ x.at <= y.at /\ x.of \subseteq y.of
    /\ x.hour \in ghost.resetHours \/ (x.id = y.id /\ x.count <= y.count)

\* No two rows are about the same byte, except a checkpoint and what continues it.
OnceEach ==
    /\ \A i, j \in DOMAIN records : i # j => Apart(records[i], records[j])
    /\ \A i \in DOMAIN records : Apart(checkpoint, records[i]) \/ Continues(checkpoint, records[i])
    /\ pc # "remove" => \A i \in DOMAIN records : Apart(obs.hour, records[i])
    /\ Apart(checkpoint, obs.hour) \/ Continues(checkpoint, obs.hour)

Claimed(n) == n > ghost.first /\ n \notin ghost.skipped

Held == Bytes(records) \cup obs.hour.of

\* What the reading before covers is in the rows or in the hour in progress.
Complete ==
    /\ Superseded(records, checkpoint) => checkpoint.of \subseteq Bytes(records)
    /\ pc # "down" => checkpoint.of \subseteq Held
    /\ pc = "remove" => obs.hour.of \subseteq Bytes(records)
    /\ pc = "fresh" /\ obs.prev.at = Never => WithCheckpoint(records, checkpoint) = <<>>
    /\ pc \in Waiting => obs.prev.at # Never
    /\ pc \in {"fresh"} \cup Waiting => \A n \in 1..obs.prev.pos : Claimed(n) => n \in Held
    /\ pc \in Taking => \A n \in 1..(written - reading.bytes) : Claimed(n) => n \in Held
\* Whoever reads the history now misses nothing.
Readable ==
    LET rows == WithCheckpoint(records, checkpoint)
    IN  \A n \in 1..Newest(rows).pos : Claimed(n) => n \in Bytes(rows)

AllThere == ghost.lossy = FALSE => Complete

RowsInv == Placed /\ DeviceTyped /\ RowsSound /\ InOrder
HistoryInv == RowsInv /\ Ahead /\ HoursOver /\ OnceEach /\ Mirrored
LostInv == HistoryInv /\ NoByteLost /\ AllThere

LEMMA NoRow ==
    /\ NoRecord \in Row /\ NoRecord.at = Never /\ NoRecord.pos = 0 /\ NoRecord.hour = -1
    /\ NoRecord.of = {} /\ NoRecord.bytes = 0 /\ NoRecord.gap = 0 /\ NoRecord.count = 0 /\ NoRecord.id = 0
BY DEF NoRecord, Row, Never

LEMMA HourMonotone ==
    ASSUME Placed, NEW s \in Nat, NEW t \in Nat, s <= t
    PROVE  Hour(s) \in Nat /\ Hour(t) \in Nat /\ Hour(s) <= Hour(t)
<1>1. HourLength[scene] \in Nat \ {0} BY DiskAssumption DEF Placed
<1>2. ASSUME NEW k \in Nat \ {0} PROVE s \div k \in Nat /\ t \div k \in Nat /\ s \div k <= t \div k
  OBVIOUS
<1>. QED BY <1>1, <1>2 DEF Hour

LEMMA NowTyped == Placed => now \in Nat /\ Hour(now) \in Nat
<1>. SUFFICES ASSUME Placed PROVE now \in Nat /\ Hour(now) \in Nat OBVIOUS
<1>1. now \in Nat BY Constant DEF Placed
<1>. QED BY <1>1, HourMonotone

\* The newest row is one of the rows, and none is newer.
LEMMA NewestIs ==
    ASSUME NEW rows \in Seq(Row), NEW t \in Int, \A i \in DOMAIN rows : rows[i].at <= t
    PROVE  /\ rows = <<>> => Newest(rows) = NoRecord
           /\ rows # <<>> => \E i \in DOMAIN rows : /\ Newest(rows) = rows[i]
                                                    /\ \A j \in DOMAIN rows : rows[j].at <= rows[i].at
<1>1. rows = <<>> => Newest(rows) = NoRecord BY DEF Newest
<1>2. SUFFICES ASSUME rows # <<>>
               PROVE \E i \in DOMAIN rows : /\ Newest(rows) = rows[i]
                                            /\ \A j \in DOMAIN rows : rows[j].at <= rows[i].at
  BY <1>1
<1>3. DOMAIN rows = 1..Len(rows) /\ Len(rows) \in Nat /\ 1 \in DOMAIN rows
  BY <1>2
<1>4. ASSUME NEW i \in DOMAIN rows PROVE rows[i].at \in Int /\ t - rows[i].at \in Nat
  <2>1. rows[i] \in Row OBVIOUS
  <2>2. rows[i].at \in Int BY <2>1 DEF Row
  <2>. QED BY <2>2
<1>. DEFINE Ages == {t - rows[i].at : i \in DOMAIN rows}
            First(i) == /\ \A j \in DOMAIN rows : rows[j].at <= rows[i].at
                        /\ \A j \in 1..(i - 1) : rows[j].at < rows[i].at
<1>5. PICK k \in DOMAIN rows : \A j \in DOMAIN rows : rows[j].at <= rows[k].at
  <2>1. Ages \in SUBSET Nat /\ Ages # {} BY <1>3, <1>4
  <2>2. PICK a \in Ages : \A b \in Ages : a <= b BY <2>1, LeastOf
  <2>3. PICK k \in DOMAIN rows : a = t - rows[k].at BY <2>2
  <2>4. ASSUME NEW j \in DOMAIN rows PROVE rows[j].at <= rows[k].at
    <3>1. t - rows[k].at <= t - rows[j].at BY <2>2, <2>3
    <3>. QED BY <3>1, <1>4
  <2>. QED BY <2>4
<1>6. \E i \in DOMAIN rows : First(i)
  <2>. DEFINE Tops == {i \in DOMAIN rows : rows[i].at = rows[k].at}
  <2>1. Tops \in SUBSET Nat /\ Tops # {} BY <1>3
  <2>2. PICK i \in Tops : \A j \in Tops : i <= j BY <2>1, LeastOf
  <2>3. ASSUME NEW j \in 1..(i - 1) PROVE rows[j].at < rows[i].at
    <3>1. j \in DOMAIN rows /\ j < i BY <1>3
    <3>2. j \notin Tops BY <2>2, <3>1, <1>3
    <3>. QED BY <3>1, <3>2, <1>4, <1>5
  <2>. QED BY <2>3, <1>5
<1>7. Newest(rows) = rows[CHOOSE i \in DOMAIN rows : First(i)]
  BY <1>2 DEF Newest
<1>8. (CHOOSE i \in DOMAIN rows : First(i)) \in DOMAIN rows /\ First(CHOOSE i \in DOMAIN rows : First(i))
  <2>. HIDE DEF First
  <2>. QED BY <1>6
<1>. QED BY <1>7, <1>8

\* The rows a reader sees: those of the file, and the checkpoint none of them took over from.
LEMMA WithCheckpointIs ==
    ASSUME NEW rows \in Seq(Row), NEW c \in Row
    PROVE  /\ WithCheckpoint(rows, c) \in Seq(Row)
           /\ c = NoRecord \/ Superseded(rows, c) => WithCheckpoint(rows, c) = rows
           /\ ~(c = NoRecord \/ Superseded(rows, c)) =>
                 /\ WithCheckpoint(rows, c) # <<>>
                 /\ DOMAIN WithCheckpoint(rows, c) = DOMAIN rows \cup {Len(rows) + 1}
                 /\ Len(rows) + 1 \notin DOMAIN rows
                 /\ \A i \in DOMAIN rows : WithCheckpoint(rows, c)[i] = rows[i]
                 /\ WithCheckpoint(rows, c)[Len(rows) + 1] = c
<1>1. CASE c = NoRecord \/ Superseded(rows, c)
  BY <1>1 DEF WithCheckpoint
<1>2. CASE ~(c = NoRecord \/ Superseded(rows, c))
  <2>1. WithCheckpoint(rows, c) = Append(rows, c) BY <1>2 DEF WithCheckpoint
  <2>2. Append(rows, c) \in Seq(Row) /\ Len(rows) \in Nat /\ DOMAIN rows = 1..Len(rows)
        /\ Len(Append(rows, c)) = Len(rows) + 1
    OBVIOUS
  <2>3. DOMAIN Append(rows, c) = 1..(Len(rows) + 1) BY <2>2
  <2>4. \A i \in DOMAIN rows : Append(rows, c)[i] = rows[i] BY <2>2
  <2>5. Append(rows, c)[Len(rows) + 1] = c OBVIOUS
  <2>6. DOMAIN Append(rows, c) = DOMAIN rows \cup {Len(rows) + 1} /\ Len(rows) + 1 \notin DOMAIN rows
    BY <2>2, <2>3
  <2>7. Append(rows, c) # <<>> BY <2>5
  <2>. QED BY <1>2, <2>1, <2>2, <2>4, <2>5, <2>6, <2>7, Zenon
<1>. QED BY <1>1, <1>2

(***************************************************************************)
(* Steps at which the device stands still, or only moves on.               *)
(***************************************************************************)
Onward ==
    /\ scene' = scene /\ counter' = counter /\ resets' = resets
    /\ ghost'.resetHours = ghost.resetHours
    /\ now' \in Nat /\ written' \in Nat /\ now <= now' /\ written <= written'
    /\ now' = now => written' = written
Still ==
    /\ scene' = scene /\ counter' = counter /\ resets' = resets
    /\ ghost'.resetHours = ghost.resetHours
    /\ now' = now /\ written' = written

LEMMA StillOnward == Placed /\ DeviceTyped /\ Still => Onward
<1>. SUFFICES ASSUME Placed, DeviceTyped, Still PROVE Onward OBVIOUS
<1>1. now \in Nat /\ written \in Nat BY NowTyped DEF DeviceTyped
<1>. QED BY <1>1 DEF Still, Onward

LEMMA SoundLater ==
    ASSUME Placed, DeviceTyped, Onward, NEW x, RowSound(x)
    PROVE  RowSound(x)'
<1>1. Hour(now) <= Hour(now)' /\ Hour(now) \in Nat /\ Hour(now)' \in Nat
  <2>1. now \in Nat /\ now' \in Nat /\ now <= now' BY NowTyped DEF Onward
  <2>2. Hour(now)' = Hour(now') BY DEF Hour, Onward
  <2>. QED BY <2>1, <2>2, HourMonotone
<1>2. x \in Row /\ x.at \in Int /\ x.pos \in Nat /\ x.hour \in Int
  BY DEF RowSound, Row
<1>3. now \in Nat /\ written \in Nat BY NowTyped DEF DeviceTyped
<1>4. Followed(x)' BY DEF RowSound, Followed, Onward
<1>5. x.pos <= written' /\ x.at <= now' /\ x.hour <= Hour(now)'
  BY <1>1, <1>2, <1>3 DEF RowSound, Onward
<1>6. x.at = now' => x.pos = written'
  BY <1>2, <1>3 DEF RowSound, Onward
<1>. QED BY <1>4, <1>5, <1>6 DEF RowSound

LEMMA FewerRows ==
    ASSUME RowsInv, Onward, Placed', records' \in Seq(Row), ghost'.lossy \in BOOLEAN,
           Known' \subseteq Known
    PROVE  RowsInv'
<1>1. RowsSound'
  <2>. SUFFICES ASSUME NEW x \in Known' PROVE RowSound(x)' BY DEF RowsSound
  <2>1. RowSound(x) BY DEF RowsInv, RowsSound
  <2>. QED BY <2>1, SoundLater DEF RowsInv
<1>2. InOrder' BY DEF RowsInv, InOrder
<1>3. DeviceTyped'
  <2>1. Hour(now) <= Hour(now)' /\ Hour(now) \in Nat /\ Hour(now)' \in Nat
    <3>1. now \in Nat /\ now' \in Nat /\ now <= now' BY NowTyped DEF Onward, RowsInv
    <3>2. Hour(now)' = Hour(now') BY DEF Hour, Onward
    <3>. QED BY <3>1, <3>2, HourMonotone DEF RowsInv
  <2>2. DeviceTyped BY DEF RowsInv
  <2>3. \A h \in ghost'.resetHours : h <= Hour(now)'
    BY <2>1, <2>2 DEF DeviceTyped, Onward
  <2>4. counter' \in [base : 0..written', id : Nat]
    BY <2>2 DEF DeviceTyped, Onward
  <2>. QED BY <2>2, <2>3, <2>4 DEF DeviceTyped, Onward
<1>. QED BY <1>1, <1>2, <1>3 DEF RowsInv

\* Nothing the history is about changes.
Beside ==
    /\ Still /\ records' = records /\ checkpoint' = checkpoint
    /\ obs'.prev = obs.prev /\ obs'.hour = obs.hour
    /\ \A f \in {"lossy", "first", "skipped", "resetHours"} : ghost'[f] = ghost[f]
    /\ (pc' = pc /\ reading' = reading) \/ (pc \in Waiting /\ pc' \in Waiting)

LEMMA AlertsBeside ==
    ASSUME Placed, ghost.lossy \in BOOLEAN,
           \/ AlertDay \/ AlertNone \/ AlertClose \/ AlertOpen \/ Notify \/ SetContext
           \/ ReadRecords \/ ReadCheckpoint \/ UNCHANGED vars
    PROVE  Beside
<1>. USE DEF Waiting, Placed
<1>0. AlertFault \/ Fine => \A f \in {"lossy", "first", "skipped", "resetHours"} : ghost'[f] = ghost[f]
  BY DEF AlertFault, Fault, Fine, GhostFields
<1>1. CASE AlertDay
  <2>1. AlertFault \/ Fine BY <1>1 DEF AlertDay
  <2>2. scene' = scene /\ written' = written /\ counter' = counter /\ resets' = resets /\ now' = now
    BY <1>1 DEF AlertDay, device
  <2>3. records' = records /\ checkpoint' = checkpoint BY <1>1 DEF AlertDay
  <2>4. obs'.prev = obs.prev /\ obs'.hour = obs.hour BY <1>1 DEF AlertDay, ObsFields, NoObserver
  <2>5. pc \in Waiting /\ pc' \in Waiting BY <1>1 DEF AlertDay, Done
  <2>6. \A f \in {"lossy", "first", "skipped", "resetHours"} : ghost'[f] = ghost[f] BY <1>0, <2>1
  <2>7. ghost'.resetHours = ghost.resetHours BY <2>6
  <2>. QED BY <2>2, <2>3, <2>4, <2>5, <2>6, <2>7 DEF Beside, Still
<1>2. CASE AlertNone
  BY <1>2 DEF Beside, Still, AlertNone, device, store, Done
<1>3. ASSUME NEW n, NEW o, pc = "alert", SaveAlert(n, o) PROVE Beside
  <2>1. AlertFault \/ Fine BY <1>3 DEF SaveAlert
  <2>2. scene' = scene /\ written' = written /\ counter' = counter /\ resets' = resets /\ now' = now
    BY <1>3 DEF SaveAlert, device
  <2>3. records' = records /\ checkpoint' = checkpoint BY <1>3 DEF SaveAlert
  <2>4. obs'.prev = obs.prev /\ obs'.hour = obs.hour BY <1>3 DEF SaveAlert, ObsFields, NoObserver
  <2>5. pc \in Waiting /\ pc' \in Waiting BY <1>3 DEF SaveAlert, Done
  <2>6. \A f \in {"lossy", "first", "skipped", "resetHours"} : ghost'[f] = ghost[f] BY <1>0, <2>1
  <2>7. ghost'.resetHours = ghost.resetHours BY <2>6
  <2>. QED BY <2>2, <2>3, <2>4, <2>5, <2>6, <2>7 DEF Beside, Still
<1>4. CASE Notify
  BY <1>4 DEF Beside, Still, Notify, device, store, Done, GhostFields
<1>5. CASE SetContext
  BY <1>5 DEF Beside, Still, SetContext, device, store, GhostFields, ObsFields
<1>6. CASE ReadRecords \/ ReadCheckpoint \/ UNCHANGED vars
  BY <1>6 DEF Beside, Still, ReadRecords, ReadCheckpoint, device, store, vars
<1>. QED BY <1>1, <1>2, <1>3, <1>4, <1>5, <1>6 DEF AlertClose, AlertOpen

\* A resident takes up the newest row and goes on with the checkpoint, or with nothing
\* if the history cannot be read.
LEMMA StartTakesUp ==
    ASSUME Placed, ghost.lossy \in BOOLEAN, Start
    PROVE  /\ Still /\ records' = records /\ checkpoint' = checkpoint /\ pc' = "fresh" /\ pc = "down"
           /\ ghost'.first = ghost.first /\ ghost'.skipped = ghost.skipped
           /\ \/ /\ obs'.prev = Newest(WithCheckpoint(records, checkpoint))
                 /\ obs'.hour = IF Superseded(records, checkpoint) THEN NoRecord ELSE checkpoint
                 /\ ghost'.lossy = ghost.lossy
              \/ obs'.prev = NoRecord /\ obs'.hour = NoRecord /\ ghost'.lossy = TRUE
<1>1. /\ scene' = scene /\ now' = now /\ written' = written /\ counter' = counter /\ resets' = resets
      /\ records' = records /\ checkpoint' = checkpoint /\ pc' = "fresh" /\ pc = "down"
  BY DEF Start, device, store
<1>2. /\ \A f \in GhostFields \ {"lossy"} : ghost'[f] = ghost[f]
      /\ AlertFault \/ Fine => ghost'.lossy = ghost.lossy
      /\ Fault(TRUE) => ghost'.lossy = TRUE
  BY DEF Start, Fine, AlertFault, Fault, Placed, GhostFields
<1>3. ghost'.first = ghost.first /\ ghost'.skipped = ghost.skipped /\ ghost'.resetHours = ghost.resetHours
  BY <1>2 DEF GhostFields
<1>. DEFINE H == IF Superseded(records, checkpoint) THEN NoRecord ELSE checkpoint
            W == WithCheckpoint(records, checkpoint)
<1>4. ASSUME NEW o, DOMAIN o = ObsFields
      PROVE RestoreHistory(o).prev = Newest(W) /\ RestoreHistory(o).hour = H
  BY <1>4 DEF RestoreHistory, ObsFields, NoObserver
<1>5. /\ DOMAIN RestoreAlerts(NoObserver) = ObsFields
      /\ RestoreAlerts(NoObserver).prev = NoRecord /\ RestoreAlerts(NoObserver).hour = NoRecord
      /\ DOMAIN [NoObserver EXCEPT !.invalid = TRUE] = ObsFields
  BY DEF RestoreAlerts, NoObserver, ObsFields
<1>6. \/ obs' = RestoreHistory(RestoreAlerts(NoObserver)) /\ Fine
      \/ obs' = RestoreHistory([NoObserver EXCEPT !.invalid = TRUE]) /\ AlertFault
      \/ obs' = RestoreAlerts(NoObserver) /\ Fault(TRUE)
  BY DEF Start, Restored
<1>7. CASE obs' = RestoreHistory(RestoreAlerts(NoObserver)) /\ Fine
  BY <1>1, <1>2, <1>3, <1>4, <1>5, <1>7 DEF Still
<1>8. CASE obs' = RestoreHistory([NoObserver EXCEPT !.invalid = TRUE]) /\ AlertFault
  BY <1>1, <1>2, <1>3, <1>4, <1>5, <1>8 DEF Still
<1>9. CASE obs' = RestoreAlerts(NoObserver) /\ Fault(TRUE)
  BY <1>1, <1>2, <1>3, <1>5, <1>9 DEF Still
<1>. QED BY <1>6, <1>7, <1>8, <1>9

\* What is known of a reading: all that was written since the one before, unless the
\* counter has started again.
LEMMA MeasureIs ==
    ASSUME Placed, DeviceTyped, RowSound(obs.prev), NEW r,
           r.count = written - counter.base, r.id = counter.id, NEW m, m = Measure(obs, r)
    PROVE  /\ m.bytes \in 0..(written - obs.prev.pos)
           /\ m.known \in BOOLEAN /\ m.scored \in BOOLEAN
           /\ m.scored = TRUE => m.known = TRUE
           /\ m.known = FALSE => m.bytes = 0
           /\ obs.prev.at = Never => m.bytes = 0
           /\ obs.prev.at # Never =>
                \/ m.bytes = written - obs.prev.pos
                \/ resets > 0 /\ counter.base >= obs.prev.pos
<1>. DEFINE p == obs.prev
            known == p.at # Never /\ r.id = p.id /\ r.count >= p.count
<1>1. /\ m.known = known
      /\ m.scored = (known /\ now - p.at > 0 /\ now - p.at <= MaxInterval)
      /\ m.bytes = IF known THEN r.count - p.count ELSE 0
  BY DEF Measure
<1>2. /\ p.at \in Int /\ p.pos \in Nat /\ p.count \in Nat /\ p.id \in Nat /\ p.pos <= written
      /\ written \in Nat /\ counter.base \in 0..written /\ counter.id \in Nat /\ resets \in Nat
  BY DEF RowSound, Row, DeviceTyped
<1>3. \/ p.id = counter.id /\ counter.base <= p.pos /\ p.count = p.pos - counter.base
      \/ counter.base >= p.pos /\ resets > 0
  BY DEF RowSound, Followed
<1>. HIDE DEF p
<1>4. known \in BOOLEAN /\ (known => r.count - p.count \in 0..(written - p.pos))
  BY <1>2, <1>3
<1>5. p.at # Never => \/ known /\ r.count - p.count = written - p.pos
                      \/ resets > 0 /\ counter.base >= p.pos
  BY <1>2, <1>3
<1>6. written - p.pos \in Nat BY <1>2
<1>. HIDE DEF known
<1>7. m.bytes \in 0..(written - p.pos) BY <1>1, <1>4, <1>6
<1>8. m.known \in BOOLEAN /\ m.scored \in BOOLEAN /\ (m.scored = TRUE => m.known = TRUE)
  BY <1>1, <1>4
<1>9. (m.known = FALSE => m.bytes = 0) /\ (p.at = Never => m.bytes = 0)
  BY <1>1 DEF known
<1>10. p.at # Never => \/ m.bytes = written - p.pos
                       \/ resets > 0 /\ counter.base >= p.pos
  BY <1>1, <1>5
<1>. QED BY <1>7, <1>8, <1>9, <1>10 DEF p

LEMMA SampleIs ==
    ASSUME Placed, DeviceTyped, RowSound(obs.prev), NEW b, NEW s, Sample(b, s)
    PROVE  /\ Still /\ records' = records /\ checkpoint' = checkpoint
           /\ pc \in {"fresh", "idle"}
           /\ pc' = IF obs.hour # NoRecord /\ obs.hour.hour # Hour(now) THEN "flush" ELSE "hour"
           /\ obs'.hour = obs.hour
           /\ obs'.prev = [NoRecord EXCEPT !.at = now, !.count = written - counter.base,
                                           !.id = counter.id, !.pos = written]
           /\ reading'.count = written - counter.base /\ reading'.id = counter.id
           /\ reading'.bytes \in 0..(written - obs.prev.pos)
           /\ reading'.known \in BOOLEAN /\ reading'.scored \in BOOLEAN
           /\ reading'.scored = TRUE => reading'.known = TRUE
           /\ reading'.known = FALSE => reading'.bytes = 0
           /\ obs.prev.at = Never => reading'.bytes = 0
           /\ ghost'.lossy = ghost.lossy
           /\ ghost'.first = IF WithCheckpoint(records, checkpoint) = <<>> /\ pc = "fresh" THEN written ELSE ghost.first
           /\ ghost'.skipped = IF resets > 0 /\ counter.base >= obs.prev.pos
                               THEN ghost.skipped \cup ((obs.prev.pos + 1) .. (written - reading'.bytes))
                               ELSE ghost.skipped
           /\ obs.prev.at # Never =>
                \/ reading'.bytes = written - obs.prev.pos
                \/ resets > 0 /\ counter.base >= obs.prev.pos
<1>1. PICK r \in {[count |-> written - counter.base, id |-> counter.id, band |-> b, sure |-> s]} :
         \E m \in {Measure(obs, r)} : \E v \in {Verdict(obs, r, m)} : Sampled(r, m, v)
  BY DEF Sample
<1>2. r.count = written - counter.base /\ r.id = counter.id OBVIOUS
<1>3. PICK m, v : m = Measure(obs, r) /\ v = Verdict(obs, r, m) /\ Sampled(r, m, v) BY <1>1
<1>4. /\ scene' = scene /\ now' = now /\ written' = written /\ counter' = counter /\ resets' = resets
      /\ records' = records /\ checkpoint' = checkpoint /\ pc \in {"fresh", "idle"}
      /\ pc' = IF obs.hour # NoRecord /\ obs.hour.hour # Hour(now) THEN "flush" ELSE "hour"
  BY DEF Sample, device, store
<1>5. DOMAIN v.obs = ObsFields /\ v.obs.hour = obs.hour BY <1>3, VerdictKeeps DEF Placed
<1>6. /\ obs'.hour = obs.hour
      /\ obs'.prev = [NoRecord EXCEPT !.at = now, !.count = r.count, !.id = r.id, !.pos = written]
  BY <1>3, <1>5 DEF Sampled, ObsFields, NoObserver
<1>7. /\ reading'.count = r.count /\ reading'.id = r.id /\ reading'.bytes = m.bytes
      /\ reading'.known = m.known /\ reading'.scored = m.scored
  BY <1>3 DEF Sampled
<1>8. /\ ghost'.lossy = ghost.lossy /\ ghost'.resetHours = ghost.resetHours
      /\ ghost'.first = IF WithCheckpoint(records, checkpoint) = <<>> /\ pc = "fresh" THEN written ELSE ghost.first
      /\ ghost'.skipped = IF resets > 0 /\ counter.base >= obs.prev.pos
                          THEN ghost.skipped \cup ((obs.prev.pos + 1) .. (written - m.bytes))
                          ELSE ghost.skipped
  BY <1>3 DEF Sampled, Placed, GhostFields
<1>9. /\ m.bytes \in 0..(written - obs.prev.pos)
      /\ m.known \in BOOLEAN /\ m.scored \in BOOLEAN
      /\ m.scored = TRUE => m.known = TRUE
      /\ m.known = FALSE => m.bytes = 0
      /\ obs.prev.at = Never => m.bytes = 0
      /\ obs.prev.at # Never => \/ m.bytes = written - obs.prev.pos
                                \/ resets > 0 /\ counter.base >= obs.prev.pos
  BY <1>2, <1>3, MeasureIs
<1>10. Still BY <1>4, <1>8 DEF Still
<1>. QED BY <1>2, <1>4, <1>6, <1>7, <1>8, <1>9, <1>10, Zenon

\* The hour in progress counts what the sample adds, and nothing else.
LEMMA HourIs ==
    ASSUME Placed, DeviceTyped, RowsSound, Ahead, pc = "hour",
           NEW h, h = RecordHour(obs.hour, reading, reading)
    PROVE  /\ h.at = now /\ h.pos = written /\ h.count = reading.count /\ h.id = reading.id
           /\ h.hour = Hour(now)
           /\ h.of = (IF obs.hour.hour = Hour(now) THEN obs.hour.of ELSE {})
                     \cup ((written - reading.bytes + 1) .. written)
           /\ RowSound(h)
<1>. DEFINE b == reading.bytes
            o == IF obs.hour.hour = Hour(now) THEN obs.hour ELSE [NoRecord EXCEPT !.hour = Hour(now)]
            new == (written - b + 1) .. written
<1>1. /\ written \in Nat /\ now \in Nat /\ Hour(now) \in Nat
      /\ counter.base \in 0..written /\ counter.id \in Nat
  BY NowTyped DEF DeviceTyped
<1>2. /\ b \in 0..written /\ reading.known \in BOOLEAN /\ reading.scored \in BOOLEAN
      /\ reading.scored = TRUE => reading.known = TRUE
      /\ reading.known = FALSE => b = 0
      /\ reading.count = written - counter.base /\ reading.id = counter.id
      /\ obs.hour.pos <= written - b
  BY DEF Ahead, Taking, Kept
<1>3. /\ o \in Row /\ o.of \subseteq 1..o.pos /\ Cardinality(o.of) = o.bytes + o.gap
      /\ o.pos <= written - b /\ o.hour = Hour(now)
  <2>1. CASE obs.hour.hour = Hour(now)
    <3>1. RowSound(obs.hour) BY DEF RowsSound, Known, Kept
    <3>. QED BY <2>1, <3>1, <1>2 DEF RowSound
  <2>2. CASE obs.hour.hour # Hour(now)
    <3>1. o = [NoRecord EXCEPT !.hour = Hour(now)] BY <2>2
    <3>2. /\ o \in Row /\ o.of = {} /\ o.pos = 0 /\ o.bytes = 0 /\ o.gap = 0 /\ o.hour = Hour(now)
      BY <3>1, <1>1, NoRow DEF NoRecord, Row, Never
    <3>. HIDE DEF o
    <3>3. Cardinality(o.of) = 0 BY <3>2, FS_EmptySet
    <3>4. 0 <= written - b BY <1>1, <1>2
    <3>. QED BY <3>2, <3>3, <3>4
  <2>. QED BY <2>1, <2>2
<1>. HIDE DEF o
<1>4. h = [o EXCEPT !.bytes = IF reading.scored THEN @ + b ELSE @,
                    !.gap = IF reading.known /\ ~reading.scored THEN @ + b ELSE @,
                    !.at = now, !.count = reading.count, !.id = reading.id, !.pos = written,
                    !.of = @ \cup new]
  BY DEF RecordHour, o
<1>5. /\ h.at = now /\ h.pos = written /\ h.count = reading.count /\ h.id = reading.id
      /\ h.hour = Hour(now) /\ h.of = o.of \cup new
      /\ h.bytes = (IF reading.scored THEN o.bytes + b ELSE o.bytes)
      /\ h.gap = (IF reading.known /\ ~reading.scored THEN o.gap + b ELSE o.gap)
      /\ DOMAIN h = DOMAIN o
  BY <1>3, <1>4 DEF Row
<1>6. h.of = (IF obs.hour.hour = Hour(now) THEN obs.hour.of ELSE {}) \cup new
  <2>1. o.of = IF obs.hour.hour = Hour(now) THEN obs.hour.of ELSE {}
    BY NoRow DEF o, NoRecord
  <2>. QED BY <1>5, <2>1
<1>7. /\ o.bytes \in Nat /\ o.gap \in Nat /\ o.of \subseteq Nat /\ o.pos \in Nat
  BY <1>3 DEF Row
<1>8. /\ IsFiniteSet(o.of) /\ IsFiniteSet(new) /\ Cardinality(new) = b /\ o.of \cap new = {}
  <2>1. IsFiniteSet(1..o.pos) BY <1>7, FS_Interval
  <2>2. IsFiniteSet(o.of) BY <2>1, <1>3, FS_Subset
  <2>3. written - b + 1 \in Int /\ written \in Int BY <1>1, <1>2
  <2>4. IsFiniteSet(new) /\ Cardinality(new) = IF written - b + 1 > written THEN 0 ELSE written - (written - b + 1) + 1
    BY <2>3, FS_Interval
  <2>5. Cardinality(new) = b BY <2>4, <1>1, <1>2
  <2>6. ASSUME NEW n \in o.of, n \in new PROVE FALSE
    <3>1. n <= o.pos /\ n \in Nat BY <1>3, <1>7
    <3>2. n >= written - b + 1 BY <2>6
    <3>. QED BY <3>1, <3>2, <1>1, <1>2, <1>3, <1>7
  <2>. QED BY <2>2, <2>4, <2>5, <2>6
<1>9. Cardinality(h.of) = h.bytes + h.gap
  <2>1. Cardinality(o.of \cup new) = Cardinality(o.of) + Cardinality(new) - Cardinality(o.of \cap new)
    BY <1>8, FS_Union
  <2>2. Cardinality(o.of \cap new) = 0 BY <1>8, FS_EmptySet
  <2>3. Cardinality(o.of \cup new) = o.bytes + o.gap + b
    BY <2>1, <2>2, <1>3, <1>7, <1>8, <1>2
  <2>4. h.bytes + h.gap = o.bytes + o.gap + b
    <3>1. CASE reading.scored = TRUE BY <3>1, <1>2, <1>5, <1>7
    <3>2. CASE reading.scored = FALSE /\ reading.known = TRUE BY <3>2, <1>2, <1>5, <1>7
    <3>3. CASE reading.scored = FALSE /\ reading.known = FALSE BY <3>3, <1>2, <1>5, <1>7
    <3>. QED BY <3>1, <3>2, <3>3, <1>2
  <2>. QED BY <2>3, <2>4, <1>5
<1>10. h.of \subseteq 1..h.pos
  <2>1. ASSUME NEW n \in o.of PROVE n \in 1..written
    <3>1. n \in 1..o.pos BY <1>3
    <3>. QED BY <3>1, <1>1, <1>2, <1>3, <1>7
  <2>2. ASSUME NEW n \in new PROVE n \in 1..written BY <1>1, <1>2
  <2>. QED BY <2>1, <2>2, <1>5
<1>11. h \in Row
  <2>1. h.bytes \in Nat /\ h.gap \in Nat BY <1>2, <1>5, <1>7
  <2>2. h.of \subseteq Nat BY <1>10, <1>5, <1>1
  <2>3. h.count \in Nat /\ h.id \in Nat BY <1>1, <1>2, <1>5
  <2>4. h = [f \in DOMAIN o |-> h[f]] BY <1>4, <1>5
  <2>5. DOMAIN o = {"hour", "bytes", "gap", "at", "count", "id", "pos", "of"} BY <1>3 DEF Row
  <2>. QED BY <2>1, <2>2, <2>3, <2>4, <2>5, <1>1, <1>5 DEF Row
<1>12. Followed(h)
  BY <1>1, <1>2, <1>5 DEF Followed
<1>13. RowSound(h)
  BY <1>1, <1>5, <1>9, <1>10, <1>11, <1>12 DEF RowSound
<1>. QED BY <1>5, <1>6, <1>13

LEMMA RowsInit == Init => RowsInv
<1>. SUFFICES ASSUME Init PROVE RowsInv OBVIOUS
<1>1. Placed BY PlacedInit
<1>2. now = 0 /\ Hour(now) \in Nat BY <1>1, NowTyped DEF Init
<1>3. Known = {NoRecord}
  <2>1. obs.hour = NoRecord /\ obs.prev = NoRecord /\ checkpoint = NoRecord BY DEF Init, NoObserver
  <2>2. {records[i] : i \in DOMAIN records} = {} BY DEF Init
  <2>. QED BY <2>1, <2>2 DEF Known, Kept
<1>4. RowSound(NoRecord)
  <2>1. Followed(NoRecord) BY NoRow DEF Init, Followed
  <2>2. Cardinality({}) = 0 BY FS_EmptySet
  <2>3. NoRecord.at # now /\ NoRecord.at <= now /\ NoRecord.hour <= Hour(now) /\ NoRecord.pos <= written
    BY <1>2, NoRow DEF Never, Init
  <2>. QED BY <2>1, <2>2, <2>3, NoRow DEF RowSound
<1>5. InOrder BY <1>3, NoRow DEF InOrder
<1>6. DeviceTyped BY DEF Init, DeviceTyped, NoGhost
<1>. QED BY <1>1, <1>3, <1>4, <1>5, <1>6 DEF RowsInv, RowsSound

\* What an appended row and a checkpoint that is replaced leave known.
LEMMA FlushIs ==
    ASSUME Placed, DeviceTyped, FlushAppend
    PROVE  /\ Still /\ pc = "flush" /\ obs'.prev = obs.prev /\ reading' = reading /\ reader' = reader
           /\ ghost'.first = ghost.first /\ ghost'.skipped = ghost.skipped
           /\ ghost'.lossy \in BOOLEAN
           /\ \/ /\ records' = Append(records, obs.hour) /\ pc' = "remove"
                 /\ checkpoint' = checkpoint /\ obs'.hour = obs.hour /\ ghost'.lossy = ghost.lossy
              \/ /\ records' = records /\ pc' = "hour"
                 /\ checkpoint' \in {checkpoint, obs.hour} /\ obs'.hour = NoRecord
                 /\ ghost'.lossy = TRUE
<1>1. /\ scene' = scene /\ now' = now /\ written' = written /\ counter' = counter /\ resets' = resets
      /\ pc = "flush" /\ reading' = reading /\ reader' = reader
  BY DEF FlushAppend, device
<1>2. CASE /\ records' = Append(records, obs.hour) /\ pc' = "remove" /\ Fine
           /\ UNCHANGED <<checkpoint, obs>>
  BY <1>1, <1>2 DEF Fine, Still, DeviceTyped
<1>3. CASE /\ Fault(TRUE) /\ pc' = "hour" /\ obs' = [obs EXCEPT !.hour = NoRecord]
           /\ checkpoint' \in {checkpoint, obs.hour} /\ UNCHANGED records
  <2>1. obs'.prev = obs.prev /\ obs'.hour = NoRecord
    BY <1>3 DEF Placed, ObsFields, NoObserver
  <2>2. ghost'.lossy = TRUE /\ ghost'.first = ghost.first /\ ghost'.skipped = ghost.skipped
        /\ ghost'.resetHours = ghost.resetHours
    BY <1>3 DEF Fault, Placed, GhostFields
  <2>. QED BY <1>1, <1>3, <2>1, <2>2 DEF Still
<1>. QED BY <1>2, <1>3 DEF FlushAppend

LEMMA RemoveIs ==
    ASSUME Placed, DeviceTyped, RemoveCheckpoint
    PROVE  /\ Still /\ pc = "remove" /\ pc' = "hour" /\ records' = records
           /\ obs'.prev = obs.prev /\ obs'.hour = NoRecord /\ reading' = reading /\ reader' = reader
           /\ checkpoint' \in {checkpoint, NoRecord}
           /\ ghost'.first = ghost.first /\ ghost'.skipped = ghost.skipped /\ ghost'.lossy = ghost.lossy
<1>1. /\ scene' = scene /\ now' = now /\ written' = written /\ counter' = counter /\ resets' = resets
      /\ pc = "remove" /\ pc' = "hour" /\ records' = records /\ reading' = reading /\ reader' = reader
      /\ checkpoint' \in {checkpoint, NoRecord}
  BY DEF RemoveCheckpoint, device
<1>2. obs'.prev = obs.prev /\ obs'.hour = NoRecord
  BY DEF RemoveCheckpoint, Placed, ObsFields, NoObserver
<1>3. Fault(FALSE) \/ Fine BY DEF RemoveCheckpoint
<1>4. \A f \in {"lossy", "first", "skipped", "resetHours"} : ghost'[f] = ghost[f]
  BY <1>3 DEF Fault, Fine, Placed, DeviceTyped, GhostFields
<1>. QED BY <1>1, <1>2, <1>4 DEF Still

LEMMA RecordIs ==
    ASSUME Placed, RecordSample
    PROVE  /\ Still /\ pc = "hour" /\ pc' \in Waiting /\ records' = records /\ checkpoint' = checkpoint
           /\ obs'.prev = obs.prev /\ obs'.hour = RecordHour(obs.hour, reading, reading)
           /\ ghost' = ghost /\ reader' = reader
BY DEF RecordSample, Still, Done, Waiting, device, store, Placed, ObsFields, NoObserver

\* A resident that ends, with or without a last checkpoint.
LEMMA EndIs ==
    ASSUME Placed, DeviceTyped, Stop \/ Crash
    PROVE  /\ Still /\ pc' = "down" /\ records' = records
           /\ obs'.prev = NoRecord /\ obs'.hour = NoRecord /\ reader' = reader
           /\ ghost'.first = ghost.first /\ ghost'.skipped = ghost.skipped
           /\ ghost'.lossy \in BOOLEAN /\ (ghost'.lossy = FALSE => ghost.lossy = FALSE)
           /\ \/ checkpoint' = checkpoint
              \/ pc = "idle" /\ checkpoint' = obs.hour /\ obs.hour # NoRecord
           /\ checkpoint' = checkpoint
              => \/ ghost'.lossy = TRUE \/ Crash \/ obs.hour = NoRecord \/ obs.hour = checkpoint
<1>1. /\ scene' = scene /\ now' = now /\ written' = written /\ counter' = counter /\ resets' = resets
      /\ pc' = "down" /\ records' = records /\ reader' = reader
  <2>1. CASE Stop BY <2>1 DEF Stop, device
  <2>2. CASE Crash BY <2>2 DEF Crash, device, store
  <2>. QED BY <2>1, <2>2
<1>2. obs'.prev = NoRecord /\ obs'.hour = NoRecord
  <2>1. obs' = NoObserver BY DEF Stop, Crash
  <2>. QED BY <2>1 DEF NoObserver
<1>3. \/ ghost' = Forgotten \/ ghost' = [Forgotten EXCEPT !.lossy = TRUE]
  BY DEF Stop, Crash
<1>4. /\ ghost'.first = ghost.first /\ ghost'.skipped = ghost.skipped
      /\ ghost'.resetHours = ghost.resetHours
      /\ ghost'.lossy \in BOOLEAN /\ (ghost'.lossy = FALSE => ghost.lossy = FALSE)
  BY <1>3 DEF Forgotten, Placed, GhostFields, DeviceTyped
<1>5. /\ \/ checkpoint' = checkpoint
         \/ pc = "idle" /\ checkpoint' = obs.hour /\ obs.hour # NoRecord
      /\ checkpoint' = checkpoint
              => \/ ghost'.lossy = TRUE \/ Crash \/ obs.hour = NoRecord \/ obs.hour = checkpoint
  <2>1. CASE Crash BY <2>1 DEF Crash, store
  <2>2. CASE pc = "idle" /\ checkpoint' = (IF obs.hour = NoRecord THEN checkpoint ELSE obs.hour)
    BY <2>2
  <2>3. CASE ghost' = [Forgotten EXCEPT !.lossy = TRUE] /\ checkpoint' = checkpoint
    BY <2>3 DEF Forgotten, Placed, GhostFields
  <2>. QED BY <2>1, <2>2, <2>3 DEF Stop
<1>. QED BY <1>1, <1>2, <1>4, <1>5 DEF Still

\* What is kept is known and sound.
LEMMA KeptSound ==
    ASSUME RowsInv
    PROVE  /\ checkpoint \in Row /\ obs.hour \in Row /\ obs.prev \in Row
           /\ RowSound(checkpoint) /\ RowSound(obs.hour) /\ RowSound(obs.prev)
           /\ \A i \in DOMAIN records : records[i] \in Row /\ RowSound(records[i])
<1>1. \A x \in Known : RowSound(x) /\ x \in Row BY DEF RowsInv, RowsSound, RowSound
<1>2. checkpoint \in Known /\ obs.hour \in Known /\ obs.prev \in Known BY DEF Known, Kept
<1>3. \A i \in DOMAIN records : records[i] \in Known BY DEF Known, Kept
<1>. QED BY <1>1, <1>2, <1>3

LEMMA NewestKnown ==
    ASSUME RowsInv
    PROVE  LET rows == WithCheckpoint(records, checkpoint)
           IN  /\ Newest(rows) \in Kept \cup {NoRecord}
               /\ rows = <<>> => Newest(rows) = NoRecord
               /\ rows # <<>> => \E i \in DOMAIN rows : Newest(rows) = rows[i]
               /\ \A i \in DOMAIN rows : rows[i].at <= Newest(rows).at
               /\ \A i \in DOMAIN rows : rows[i] \in Kept
<1>. DEFINE rows == WithCheckpoint(records, checkpoint)
<1>1. records \in Seq(Row) /\ checkpoint \in Row /\ now \in Int
  BY KeptSound, NowTyped DEF RowsInv, DeviceTyped
<1>2. rows \in Seq(Row) BY <1>1, WithCheckpointIs
<1>3. \A i \in DOMAIN rows : rows[i] \in Kept
  <2>1. CASE checkpoint = NoRecord \/ Superseded(records, checkpoint)
    <3>1. rows = records BY <1>1, <2>1, WithCheckpointIs
    <3>. QED BY <3>1 DEF Kept
  <2>2. CASE ~(checkpoint = NoRecord \/ Superseded(records, checkpoint))
    <3>1. /\ DOMAIN rows = DOMAIN records \cup {Len(records) + 1}
          /\ \A i \in DOMAIN records : rows[i] = records[i]
          /\ rows[Len(records) + 1] = checkpoint
      BY <1>1, <2>2, WithCheckpointIs
    <3>. QED BY <3>1 DEF Kept
  <2>. QED BY <2>1, <2>2
<1>4. \A i \in DOMAIN rows : rows[i].at <= now
  <2>. TAKE i \in DOMAIN rows
  <2>1. rows[i] \in Known BY <1>3 DEF Known
  <2>. QED BY <2>1 DEF RowsInv, RowsSound, RowSound
<1>. HIDE DEF rows
<1>5. /\ rows = <<>> => Newest(rows) = NoRecord
      /\ rows # <<>> => \E i \in DOMAIN rows : /\ Newest(rows) = rows[i]
                                               /\ \A j \in DOMAIN rows : rows[j].at <= rows[i].at
  BY <1>1, <1>2, <1>4, NewestIs
<1>6. CASE rows = <<>>
  <2>1. DOMAIN rows = {} BY <1>6
  <2>. QED BY <1>5, <1>6, <2>1 DEF rows
<1>7. CASE rows # <<>>
  <2>1. PICK i \in DOMAIN rows : Newest(rows) = rows[i] /\ \A j \in DOMAIN rows : rows[j].at <= rows[i].at
    BY <1>5, <1>7
  <2>. QED BY <1>3, <1>7, <2>1 DEF rows
<1>. QED BY <1>6, <1>7

LEMMA RowsStep == RowsInv /\ Ahead /\ HoursOver /\ [Next]_vars => RowsInv'
<1>. SUFFICES ASSUME RowsInv, Ahead, HoursOver, [Next]_vars PROVE RowsInv' OBVIOUS
<1>1. Placed /\ DeviceTyped /\ Placed' BY PlacedStep DEF RowsInv
<1>2. ghost.lossy \in BOOLEAN /\ records \in Seq(Row) BY <1>1 DEF DeviceTyped
<1>3. ASSUME Onward, records' \in Seq(Row), ghost'.lossy \in BOOLEAN, Known' \subseteq Known
      PROVE RowsInv'
  BY <1>1, <1>3, FewerRows
<1>4. ASSUME Still, records' \in Seq(Row), ghost'.lossy \in BOOLEAN, Known' \subseteq Known
      PROVE RowsInv'
  BY <1>1, <1>3, <1>4, StillOnward
<1>5. ASSUME Beside PROVE RowsInv'
  BY <1>2, <1>4, <1>5 DEF Beside, Known, Kept
<1>6. CASE Tick
  <2>1. /\ scene' = scene /\ counter' = counter /\ resets' = resets /\ ghost' = ghost /\ now' = now + 1
        /\ records' = records /\ checkpoint' = checkpoint /\ obs' = obs
    BY <1>6 DEF Tick, store
  <2>2. PICK d \in Deltas[scene] : written' = written + d BY <1>6 DEF Tick
  <2>3. d \in Nat BY <1>1, DiskAssumption DEF Placed
  <2>4. Onward BY <1>1, <2>1, <2>2, <2>3, NowTyped DEF Onward, DeviceTyped
  <2>. QED BY <1>2, <1>3, <2>1, <2>4 DEF Known, Kept
<1>7. CASE ResetCounter
  <2>1. /\ scene' = scene /\ now' = now /\ written' = written /\ resets' = resets + 1
        /\ records' = records /\ checkpoint' = checkpoint /\ obs' = obs
    BY <1>7 DEF ResetCounter, store
  <2>2. PICK id \in {counter.id, counter.id + 1} : counter' = [base |-> written, id |-> id]
    BY <1>7 DEF ResetCounter
  <2>3. ghost'.resetHours = ghost.resetHours \cup {Hour(now)} /\ ghost'.lossy = ghost.lossy
    BY <1>1, <1>7 DEF ResetCounter, Placed, GhostFields
  <2>4. Known' = Known /\ Hour(now)' = Hour(now) BY <2>1 DEF Known, Kept, Hour
  <2>5. written \in Nat /\ resets \in Nat /\ now \in Nat /\ Hour(now) \in Nat
    BY <1>1, NowTyped DEF DeviceTyped
  <2>6. RowsSound'
    <3>. SUFFICES ASSUME NEW x \in Known PROVE RowSound(x)' BY <2>4 DEF RowsSound
    <3>1. RowSound(x) BY DEF RowsInv, RowsSound
    <3>2. Followed(x)'
      <4>1. x.pos <= written /\ x.hour <= Hour(now) BY <3>1 DEF RowSound
      <4>2. counter'.base = written BY <2>2
      <4>3. counter'.base >= x.pos BY <4>1, <4>2, <2>5, <3>1 DEF RowSound, Row
      <4>4. Hour(now) \in ghost'.resetHours /\ Hour(now) >= x.hour
        BY <2>3, <2>5, <3>1, <4>1 DEF RowSound, Row
      <4>5. resets' > 0 BY <2>1, <2>5
      <4>. QED BY <4>3, <4>4, <4>5 DEF Followed
    <3>. QED BY <2>1, <2>4, <3>1, <3>2 DEF RowSound
  <2>7. InOrder' BY <2>4 DEF RowsInv, InOrder
  <2>8. DeviceTyped'
    <3>1. counter' \in [base : 0..written', id : Nat] BY <1>1, <2>1, <2>2, <2>5 DEF DeviceTyped
    <3>2. ghost'.resetHours \subseteq Int /\ \A h \in ghost'.resetHours : h <= Hour(now)'
      BY <1>1, <2>3, <2>4, <2>5 DEF DeviceTyped
    <3>. QED BY <1>1, <2>1, <2>3, <2>5, <3>1, <3>2 DEF DeviceTyped
  <2>. QED BY <1>1, <2>6, <2>7, <2>8 DEF RowsInv
<1>8. CASE Start
  <2>1. /\ Still /\ records' = records /\ checkpoint' = checkpoint
        /\ obs'.prev \in Kept \cup {NoRecord} /\ obs'.hour \in {NoRecord, checkpoint}
        /\ ghost'.lossy \in BOOLEAN
    BY <1>1, <1>2, <1>8, StartTakesUp, NewestKnown
  <2>2. Known' \subseteq Known BY <2>1 DEF Known, Kept
  <2>. QED BY <1>2, <1>4, <2>1, <2>2
<1>9. ASSUME NEW c \in Comparisons, Sample(c[1], c[2]) PROVE RowsInv'
  <2>1. RowSound(obs.prev) BY KeptSound
  <2>2. /\ Still /\ records' = records /\ checkpoint' = checkpoint /\ obs'.hour = obs.hour
        /\ obs'.prev = [NoRecord EXCEPT !.at = now, !.count = written - counter.base,
                                        !.id = counter.id, !.pos = written]
        /\ ghost'.lossy = ghost.lossy
    BY <1>1, <1>9, <2>1, SampleIs
  <2>. DEFINE p == obs'.prev
  <2>3. /\ written \in Nat /\ now \in Nat /\ Hour(now) \in Nat /\ counter.base \in 0..written /\ counter.id \in Nat
    BY <1>1, NowTyped DEF DeviceTyped
  <2>4. /\ p.at = now /\ p.pos = written /\ p.count = written - counter.base /\ p.id = counter.id
        /\ p.of = {} /\ p.bytes = 0 /\ p.gap = 0 /\ p.hour = -1 /\ p \in Row
    <3>1. p = [hour |-> -1, bytes |-> 0, gap |-> 0, at |-> now, count |-> written - counter.base,
               id |-> counter.id, pos |-> written, of |-> {}]
      BY <2>2 DEF NoRecord
    <3>2. written - counter.base \in Nat BY <2>3
    <3>. HIDE DEF p
    <3>. QED BY <2>3, <3>1, <3>2 DEF Row
  <2>. HIDE DEF p
  <2>5. RowSound(p)
    <3>1. Followed(p) BY <2>3, <2>4 DEF Followed
    <3>2. Cardinality(p.of) = 0 BY <2>4, FS_EmptySet
    <3>. QED BY <2>3, <2>4, <3>1, <3>2 DEF RowSound
  <2>6. Known' \subseteq Known \cup {p} BY <2>2 DEF Known, Kept, p
  <2>7. RowsSound'
    <3>. SUFFICES ASSUME NEW x \in Known \cup {p} PROVE RowSound(x)' BY <2>6 DEF RowsSound
    <3>1. RowSound(x) BY <2>5 DEF RowsInv, RowsSound
    <3>2. Hour(now)' = Hour(now) BY <2>2 DEF Still, Hour
    <3>. QED BY <2>2, <3>1, <3>2 DEF RowSound, Followed, Still
  <2>8. InOrder'
    <3>. SUFFICES ASSUME NEW x \in Known \cup {p}, NEW y \in Known \cup {p}, x.at <= y.at
                  PROVE x.pos <= y.pos
      BY <2>6 DEF InOrder
    <3>1. /\ x.at \in Int /\ y.at \in Int /\ x.pos \in Nat /\ y.pos \in Nat
          /\ x.pos <= written /\ y.at <= now /\ (y.at = now => y.pos = written)
      BY <2>5 DEF RowsInv, RowsSound, RowSound, Row
    <3>2. CASE x \in Known /\ y \in Known BY <3>2 DEF RowsInv, InOrder
    <3>3. CASE x = p BY <3>1, <3>3, <2>3, <2>4
    <3>4. CASE y = p BY <3>1, <3>4, <2>4
    <3>. QED BY <3>2, <3>3, <3>4
  <2>9. DeviceTyped'
    <3>1. Hour(now)' = Hour(now) BY <2>2 DEF Still, Hour
    <3>. QED BY <1>1, <2>2, <3>1 DEF DeviceTyped, Still
  <2>. QED BY <1>1, <2>7, <2>8, <2>9 DEF RowsInv
<1>10. CASE FlushAppend
  <2>1. /\ Still /\ obs'.prev = obs.prev /\ ghost'.lossy \in BOOLEAN
        /\ \/ records' = Append(records, obs.hour) /\ checkpoint' = checkpoint /\ obs'.hour = obs.hour
           \/ records' = records /\ checkpoint' \in {checkpoint, obs.hour} /\ obs'.hour = NoRecord
    BY <1>1, <1>10, <1>2, FlushIs
  <2>2. obs.hour \in Row BY KeptSound
  <2>3. CASE records' = Append(records, obs.hour) /\ checkpoint' = checkpoint /\ obs'.hour = obs.hour
    <3>1. records' \in Seq(Row) BY <1>2, <2>2, <2>3
    <3>2. \A i \in DOMAIN records' : records'[i] \in Kept
      <4>1. DOMAIN records' = 1..(Len(records) + 1) /\ DOMAIN records = 1..Len(records) /\ Len(records) \in Nat
        BY <1>2, <2>2, <2>3
      <4>2. \A i \in 1..Len(records) : records'[i] = records[i] BY <1>2, <2>2, <2>3
      <4>3. records'[Len(records) + 1] = obs.hour BY <1>2, <2>2, <2>3
      <4>. QED BY <4>1, <4>2, <4>3 DEF Kept
    <3>3. Known' \subseteq Known BY <2>1, <2>3, <3>2 DEF Known, Kept
    <3>. QED BY <1>4, <2>1, <3>1, <3>3
  <2>4. CASE records' = records /\ checkpoint' \in {checkpoint, obs.hour} /\ obs'.hour = NoRecord
    <3>1. Known' \subseteq Known BY <2>1, <2>4 DEF Known, Kept
    <3>. QED BY <1>2, <1>4, <2>1, <2>4, <3>1
  <2>. QED BY <2>1, <2>3, <2>4
<1>11. CASE RemoveCheckpoint
  <2>1. /\ Still /\ records' = records /\ obs'.prev = obs.prev /\ obs'.hour = NoRecord
        /\ checkpoint' \in {checkpoint, NoRecord} /\ ghost'.lossy = ghost.lossy
    BY <1>1, <1>11, RemoveIs
  <2>2. Known' \subseteq Known BY <2>1 DEF Known, Kept
  <2>. QED BY <1>2, <1>4, <2>1, <2>2
<1>12. CASE RecordSample
  <2>1. /\ Still /\ pc = "hour" /\ records' = records /\ checkpoint' = checkpoint
        /\ obs'.prev = obs.prev /\ obs'.hour = RecordHour(obs.hour, reading, reading) /\ ghost' = ghost
    BY <1>1, <1>12, RecordIs
  <2>. DEFINE h == obs'.hour
  <2>2. h.at = now /\ h.pos = written /\ RowSound(h)
    BY <1>1, <2>1, HourIs DEF RowsInv
  <2>. HIDE DEF h
  <2>3. Known' \subseteq Known \cup {h} BY <2>1 DEF Known, Kept, h
  <2>4. Hour(now)' = Hour(now) BY <2>1 DEF Still, Hour
  <2>5. RowsSound'
    <3>. SUFFICES ASSUME NEW x \in Known \cup {h} PROVE RowSound(x)' BY <2>3 DEF RowsSound
    <3>1. RowSound(x) BY <2>2 DEF RowsInv, RowsSound
    <3>. QED BY <2>1, <2>4, <3>1 DEF RowSound, Followed, Still
  <2>6. InOrder'
    <3>. SUFFICES ASSUME NEW x \in Known \cup {h}, NEW y \in Known \cup {h}, x.at <= y.at
                  PROVE x.pos <= y.pos
      BY <2>3 DEF InOrder
    <3>1. /\ x.at \in Int /\ y.at \in Int /\ x.pos \in Nat /\ y.pos \in Nat
          /\ x.pos <= written /\ y.at <= now /\ (y.at = now => y.pos = written)
      BY <2>2 DEF RowsInv, RowsSound, RowSound, Row
    <3>2. CASE x \in Known /\ y \in Known BY <3>2 DEF RowsInv, InOrder
    <3>3. CASE x = h
      <4>1. now \in Nat /\ written \in Nat BY <1>1, NowTyped DEF DeviceTyped
      <4>. QED BY <3>1, <3>3, <2>2, <4>1
    <3>4. CASE y = h BY <3>1, <3>4, <2>2
    <3>. QED BY <3>2, <3>3, <3>4
  <2>7. DeviceTyped' BY <1>1, <2>1, <2>4 DEF DeviceTyped, Still
  <2>. QED BY <1>1, <2>5, <2>6, <2>7 DEF RowsInv
<1>13. CASE Stop \/ Crash
  <2>1. /\ Still /\ records' = records /\ obs'.prev = NoRecord /\ obs'.hour = NoRecord
        /\ checkpoint' \in {checkpoint, obs.hour} /\ ghost'.lossy \in BOOLEAN
    BY <1>1, <1>13, EndIs
  <2>2. Known' \subseteq Known BY <2>1 DEF Known, Kept
  <2>. QED BY <1>2, <1>4, <2>1, <2>2
<1>14. CASE \/ AlertDay \/ AlertNone \/ AlertClose \/ AlertOpen \/ Notify \/ SetContext
            \/ ReadRecords \/ ReadCheckpoint \/ UNCHANGED vars
  BY <1>1, <1>2, <1>5, <1>14, AlertsBeside
<1>. QED BY <1>6, <1>7, <1>8, <1>9, <1>10, <1>11, <1>12, <1>13, <1>14 DEF Next

LEMMA RowsAppended ==
    ASSUME NEW rows \in Seq(Row), NEW c \in Row
    PROVE  /\ Append(rows, c) \in Seq(Row)
           /\ DOMAIN Append(rows, c) = DOMAIN rows \cup {Len(rows) + 1}
           /\ Len(rows) + 1 \notin DOMAIN rows
           /\ \A i \in DOMAIN rows : Append(rows, c)[i] = rows[i]
           /\ Append(rows, c)[Len(rows) + 1] = c
           /\ Bytes(Append(rows, c)) = Bytes(rows) \cup c.of
<1>1. /\ Append(rows, c) \in Seq(Row) /\ Len(rows) \in Nat /\ DOMAIN rows = 1..Len(rows)
      /\ Len(Append(rows, c)) = Len(rows) + 1
  OBVIOUS
<1>2. DOMAIN Append(rows, c) = 1..(Len(rows) + 1) BY <1>1
<1>3. \A i \in DOMAIN rows : Append(rows, c)[i] = rows[i] BY <1>1
<1>4. Append(rows, c)[Len(rows) + 1] = c OBVIOUS
<1>5. DOMAIN Append(rows, c) = DOMAIN rows \cup {Len(rows) + 1} /\ Len(rows) + 1 \notin DOMAIN rows
  BY <1>1, <1>2
<1>6. Bytes(Append(rows, c)) = Bytes(rows) \cup c.of
  <2>. DEFINE a == Append(rows, c)
              l == Len(rows) + 1
  <2>1. DOMAIN a = DOMAIN rows \cup {l} /\ a[l] = c /\ \A i \in DOMAIN rows : a[i] = rows[i]
    BY <1>3, <1>4, <1>5
  <2>. HIDE DEF a, l
  <2>2. Bytes(a) = Bytes(rows) \cup c.of BY <2>1 DEF Bytes
  <2>. QED BY <2>2 DEF a
<1>. QED BY <1>1, <1>3, <1>4, <1>5, <1>6

\* Nothing kept in the files is newer than the row a resident takes up.
LEMMA TakenUpAhead ==
    ASSUME RowsInv, NEW x, x \in {records[i] : i \in DOMAIN records} \cup {checkpoint}
    PROVE  x.pos <= Newest(WithCheckpoint(records, checkpoint)).pos
<1>. DEFINE rows == WithCheckpoint(records, checkpoint)
            n == Newest(rows)
<1>1. records \in Seq(Row) /\ checkpoint \in Row /\ \A i \in DOMAIN records : records[i] \in Row
  BY KeptSound DEF RowsInv, DeviceTyped
<1>2. x \in Known /\ n \in Known
  <2>1. n \in Kept \cup {NoRecord} BY NewestKnown
  <2>. QED BY <2>1 DEF Known, Kept
<1>3. \A i \in DOMAIN rows : rows[i].at <= n.at BY NewestKnown
<1>4. n.at \in Int /\ n.pos \in Nat /\ x.at \in Int
  BY <1>2 DEF RowsInv, RowsSound, RowSound, Row
<1>. HIDE DEF n
<1>5. x = NoRecord \/ x.at <= n.at
  <2>1. CASE checkpoint = NoRecord \/ Superseded(records, checkpoint)
    <3>1. rows = records BY <1>1, <2>1, WithCheckpointIs
    <3>2. \A i \in DOMAIN records : records[i].at <= n.at /\ records[i].at \in Int
      BY <1>1, <1>3, <3>1 DEF Row
    <3>3. CASE x \in {records[i] : i \in DOMAIN records} BY <3>2, <3>3
    <3>4. CASE x = checkpoint /\ Superseded(records, checkpoint)
      <4>1. PICK i \in DOMAIN records : records[i].at >= checkpoint.at BY <3>4 DEF Superseded
      <4>. QED BY <3>2, <3>4, <4>1, <1>4
    <3>. QED BY <2>1, <3>3, <3>4
  <2>2. CASE ~(checkpoint = NoRecord \/ Superseded(records, checkpoint))
    <3>1. /\ DOMAIN rows = DOMAIN records \cup {Len(records) + 1}
          /\ \A i \in DOMAIN records : rows[i] = records[i]
          /\ rows[Len(records) + 1] = checkpoint
      BY <1>1, <2>2, WithCheckpointIs
    <3>. HIDE DEF rows
    <3>. QED BY <1>3, <3>1
  <2>. QED BY <2>1, <2>2
<1>6. x.pos <= n.pos
  <2>1. CASE x = NoRecord BY <2>1, <1>4, NoRow
  <2>2. CASE x.at <= n.at BY <2>2, <1>2 DEF RowsInv, InOrder
  <2>. QED BY <1>5, <2>1, <2>2
<1>. QED BY <1>6 DEF n

LEMMA AheadStep == RowsInv /\ Ahead /\ HoursOver /\ [Next]_vars => Ahead'
<1>. SUFFICES ASSUME RowsInv, Ahead, HoursOver, [Next]_vars PROVE Ahead' OBVIOUS
<1>1. Placed /\ DeviceTyped /\ RowsInv' BY RowsStep DEF RowsInv
<1>2. ghost.lossy \in BOOLEAN /\ records \in Seq(Row) /\ written \in Nat /\ now \in Nat
  BY <1>1, NowTyped DEF DeviceTyped
<1>3. ASSUME Beside PROVE Ahead'
  <2>1. Kept' = Kept BY <1>3 DEF Beside, Kept
  <2>. QED BY <1>3, <2>1 DEF Beside, Still, Ahead, Waiting, Taking
<1>4. CASE Tick \/ ResetCounter
  <2>1. /\ records' = records /\ checkpoint' = checkpoint /\ obs' = obs /\ pc' = pc /\ pc \in {"down", "idle"}
    <3>1. CASE Tick BY <3>1 DEF Tick, store
    <3>2. CASE ResetCounter BY <3>2 DEF ResetCounter, store
    <3>. QED BY <1>4, <3>1, <3>2
  <2>2. Kept' = Kept BY <2>1 DEF Kept
  <2>. QED BY <2>1, <2>2 DEF Ahead, Taking, Waiting
<1>5. CASE Start
  <2>1. /\ records' = records /\ checkpoint' = checkpoint /\ pc' = "fresh"
        /\ \/ obs'.prev = Newest(WithCheckpoint(records, checkpoint)) /\ obs'.hour \in {NoRecord, checkpoint}
           \/ obs'.prev = NoRecord
    BY <1>1, <1>2, <1>5, StartTakesUp
  <2>2. CASE obs'.prev = NoRecord BY <2>1, <2>2, NoRow DEF Ahead, Taking
  <2>3. CASE obs'.prev = Newest(WithCheckpoint(records, checkpoint)) /\ obs'.hour \in {NoRecord, checkpoint}
    <3>. SUFFICES ASSUME NEW x \in Kept' PROVE x.pos <= obs'.prev.pos
      BY <2>1 DEF Ahead, Taking
    <3>1. CASE x = NoRecord
      <4>1. RowSound(obs.prev)' BY <1>1, KeptSound, PTL
      <4>. QED BY <3>1, <4>1, NoRow DEF RowSound, Row
    <3>2. CASE x # NoRecord
      <4>1. x \in {records[i] : i \in DOMAIN records} \cup {checkpoint}
        BY <2>1, <2>3, <3>2 DEF Kept
      <4>. QED BY <2>3, <4>1, TakenUpAhead
    <3>. QED BY <3>1, <3>2
  <2>. QED BY <2>1, <2>2, <2>3
<1>6. ASSUME NEW c \in Comparisons, Sample(c[1], c[2]) PROVE Ahead'
  <2>1. RowSound(obs.prev) BY KeptSound
  <2>2. /\ Still /\ records' = records /\ checkpoint' = checkpoint /\ obs'.hour = obs.hour
        /\ obs'.prev.at = now /\ pc \in {"fresh", "idle"} /\ pc' \in {"flush", "hour"}
        /\ reading'.count = written - counter.base /\ reading'.id = counter.id
        /\ reading'.bytes \in 0..(written - obs.prev.pos)
        /\ reading'.known \in BOOLEAN /\ reading'.scored \in BOOLEAN
        /\ reading'.scored = TRUE => reading'.known = TRUE
        /\ reading'.known = FALSE => reading'.bytes = 0
        /\ obs.prev.at = Never => reading'.bytes = 0
    <3>1. [NoRecord EXCEPT !.at = now, !.count = written - counter.base,
                           !.id = counter.id, !.pos = written].at = now BY DEF NoRecord
    <3>. QED BY <1>1, <1>6, <2>1, <3>1, SampleIs
  <2>3. obs.prev.pos \in Nat /\ obs.prev.pos <= written BY <2>1 DEF RowSound, Row
  <2>4. Kept' = Kept BY <2>2 DEF Kept
  <2>5. ASSUME NEW x \in Kept PROVE x.pos <= written - reading'.bytes
    <3>1. x.pos \in Nat /\ x.pos <= written BY DEF RowsInv, RowsSound, RowSound, Row, Known
    <3>2. obs.prev.at = Never \/ x.pos <= obs.prev.pos BY <2>2 DEF Ahead, Waiting
    <3>. QED BY <1>2, <2>2, <2>3, <3>1, <3>2
  <2>6. reading'.bytes \in 0..written BY <1>2, <2>2, <2>3
  <2>7. /\ now' = now /\ written' = written /\ counter' = counter BY <2>2 DEF Still
  <2>. QED BY <2>2, <2>4, <2>5, <2>6, <2>7 DEF Ahead, Taking, Waiting
<1>7. ASSUME pc \in Taking, pc' \in Taking, Still, obs'.prev = obs.prev, reading' = reading,
             Kept' \subseteq Kept \cup {NoRecord}
      PROVE Ahead'
  <2>1. \A x \in Kept' : x.pos <= written - reading.bytes
    BY <1>2, <1>7, NoRow DEF Ahead
  <2>. QED BY <1>7, <2>1 DEF Ahead, Still, Taking, Waiting
<1>8. CASE FlushAppend
  <2>1. /\ Still /\ obs'.prev = obs.prev /\ reading' = reading /\ pc = "flush" /\ pc' \in {"remove", "hour"}
        /\ \/ records' = Append(records, obs.hour) /\ checkpoint' = checkpoint /\ obs'.hour = obs.hour
           \/ records' = records /\ checkpoint' \in {checkpoint, obs.hour} /\ obs'.hour = NoRecord
    BY <1>1, <1>2, <1>8, FlushIs
  <2>2. Kept' \subseteq Kept \cup {NoRecord}
    <3>1. CASE records' = Append(records, obs.hour) /\ checkpoint' = checkpoint /\ obs'.hour = obs.hour
      <4>1. obs.hour \in Row BY KeptSound
      <4>2. \A i \in DOMAIN records' : records'[i] \in Kept
        BY <1>2, <3>1, <4>1, RowsAppended DEF Kept
      <4>. QED BY <3>1, <4>2 DEF Kept
    <3>2. CASE records' = records /\ checkpoint' \in {checkpoint, obs.hour} /\ obs'.hour = NoRecord
      BY <3>2 DEF Kept
    <3>. QED BY <2>1, <3>1, <3>2
  <2>. QED BY <1>7, <2>1, <2>2 DEF Taking
<1>9. CASE RemoveCheckpoint
  <2>1. /\ Still /\ pc = "remove" /\ pc' = "hour" /\ records' = records /\ reading' = reading
        /\ obs'.prev = obs.prev /\ obs'.hour = NoRecord /\ checkpoint' \in {checkpoint, NoRecord}
    BY <1>1, <1>9, RemoveIs
  <2>2. Kept' \subseteq Kept \cup {NoRecord} BY <2>1 DEF Kept
  <2>. QED BY <1>7, <2>1, <2>2 DEF Taking
<1>10. CASE RecordSample
  <2>1. /\ Still /\ pc = "hour" /\ pc' \in Waiting /\ obs'.prev = obs.prev
    BY <1>1, <1>10, RecordIs
  <2>2. obs.prev.pos = written
    <3>1. obs.prev.at = now BY <2>1 DEF Ahead, Taking
    <3>. QED BY <3>1, KeptSound DEF RowSound
  <2>3. \A x \in Kept' : x.pos <= written'
    BY <1>1 DEF RowsInv, RowsSound, RowSound, Known
  <2>. QED BY <2>1, <2>2, <2>3 DEF Ahead, Still, Taking, Waiting
<1>11. CASE Stop \/ Crash
  <2>1. pc' = "down" BY <1>1, <1>11, EndIs
  <2>. QED BY <2>1 DEF Ahead, Taking, Waiting
<1>12. CASE \/ AlertDay \/ AlertNone \/ AlertClose \/ AlertOpen \/ Notify \/ SetContext
            \/ ReadRecords \/ ReadCheckpoint \/ UNCHANGED vars
  BY <1>1, <1>2, <1>3, <1>12, AlertsBeside
<1>. QED BY <1>4, <1>5, <1>6, <1>8, <1>9, <1>10, <1>11, <1>12 DEF Next

LEMMA HoursStep == RowsInv /\ Ahead /\ HoursOver /\ [Next]_vars => HoursOver'
<1>. SUFFICES ASSUME RowsInv, Ahead, HoursOver, [Next]_vars PROVE HoursOver' OBVIOUS
<1>1. Placed /\ DeviceTyped /\ RowsInv' BY RowsStep DEF RowsInv
<1>2. ghost.lossy \in BOOLEAN /\ records \in Seq(Row) /\ now \in Nat /\ Hour(now) \in Nat
  BY <1>1, NowTyped DEF DeviceTyped
<1>3. \A i \in DOMAIN records : records[i].hour \in Int /\ records[i].hour < Hour(now) /\ records[i].at >= 0
  BY KeptSound DEF HoursOver, Row
<1>4. Still => Hour(now)' = Hour(now) BY DEF Still, Hour
<1>5. ASSUME Beside PROVE HoursOver'
  BY <1>4, <1>5 DEF Beside, HoursOver, Waiting
<1>6. CASE Tick
  <2>1. /\ records' = records /\ obs' = obs /\ pc' = pc /\ pc \in {"down", "idle"} /\ now' = now + 1
        /\ scene' = scene
    BY <1>6 DEF Tick, store
  <2>2. Hour(now)' = Hour(now') BY <2>1 DEF Hour
  <2>3. Hour(now) <= Hour(now') /\ Hour(now') \in Nat BY <1>1, <1>2, <2>1, HourMonotone
  <2>. QED BY <1>2, <1>3, <2>1, <2>2, <2>3 DEF HoursOver, Waiting
<1>7. CASE ResetCounter
  <2>1. /\ records' = records /\ obs' = obs /\ pc' = pc /\ now' = now /\ scene' = scene
    BY <1>7 DEF ResetCounter, store
  <2>. QED BY <2>1 DEF HoursOver, Hour
<1>8. CASE Start
  <2>1. Still /\ records' = records /\ pc' = "fresh" BY <1>1, <1>2, <1>8, StartTakesUp
  <2>. QED BY <1>3, <1>4, <2>1 DEF HoursOver, Waiting
<1>9. ASSUME NEW c \in Comparisons, Sample(c[1], c[2]) PROVE HoursOver'
  <2>1. RowSound(obs.prev) BY KeptSound
  <2>2. /\ Still /\ records' = records /\ obs'.hour = obs.hour
        /\ pc' = IF obs.hour # NoRecord /\ obs.hour.hour # Hour(now) THEN "flush" ELSE "hour"
    BY <1>1, <1>9, <2>1, SampleIs
  <2>. QED BY <1>3, <1>4, <2>2 DEF HoursOver, Waiting
<1>10. CASE FlushAppend
  <2>1. /\ Still /\ pc = "flush"
        /\ \/ records' = Append(records, obs.hour) /\ pc' = "remove"
           \/ records' = records /\ pc' = "hour" /\ obs'.hour = NoRecord
    BY <1>1, <1>10, FlushIs
  <2>2. CASE records' = Append(records, obs.hour) /\ pc' = "remove"
    <3>1. obs.hour \in Row /\ RowSound(obs.hour) BY KeptSound
    <3>2. obs.hour.hour < Hour(now) /\ obs.hour.at >= 0
      BY <1>2, <2>1, <3>1 DEF HoursOver, RowSound, Row
    <3>3. \A i \in DOMAIN records' : records'[i].hour < Hour(now) /\ records'[i].at >= 0
      BY <1>2, <1>3, <2>2, <3>1, <3>2, RowsAppended
    <3>. QED BY <1>4, <2>1, <2>2, <3>3 DEF HoursOver, Waiting
  <2>3. CASE records' = records /\ pc' = "hour" /\ obs'.hour = NoRecord
    BY <1>3, <1>4, <2>1, <2>3 DEF HoursOver, Waiting
  <2>. QED BY <2>1, <2>2, <2>3
<1>11. CASE RemoveCheckpoint
  <2>1. Still /\ pc' = "hour" /\ records' = records /\ obs'.hour = NoRecord BY <1>1, <1>11, RemoveIs
  <2>. QED BY <1>3, <1>4, <2>1 DEF HoursOver, Waiting
<1>12. CASE RecordSample
  <2>1. /\ Still /\ pc = "hour" /\ pc' \in Waiting /\ records' = records
        /\ obs'.hour = RecordHour(obs.hour, reading, reading)
    BY <1>1, <1>12, RecordIs
  <2>2. obs'.hour.hour = Hour(now) BY <1>1, <2>1, HourIs DEF RowsInv
  <2>. QED BY <1>3, <1>4, <2>1, <2>2 DEF HoursOver, Waiting
<1>13. CASE Stop \/ Crash
  <2>1. Still /\ pc' = "down" /\ records' = records BY <1>1, <1>13, EndIs
  <2>. QED BY <1>3, <1>4, <2>1 DEF HoursOver, Waiting
<1>14. CASE \/ AlertDay \/ AlertNone \/ AlertClose \/ AlertOpen \/ Notify \/ SetContext
            \/ ReadRecords \/ ReadCheckpoint \/ UNCHANGED vars
  BY <1>1, <1>2, <1>5, <1>14, AlertsBeside
<1>. QED BY <1>6, <1>7, <1>8, <1>9, <1>10, <1>11, <1>12, <1>13, <1>14 DEF Next

LEMMA NothingApart ==
    ASSUME NEW x \in Row PROVE Apart(NoRecord, x) /\ Apart(x, NoRecord)
BY NoRow DEF Apart

\* What a sample adds is after everything kept.
LEMMA AddedApart ==
    ASSUME RowsInv, Ahead, pc \in Taking, NEW x \in Kept
    PROVE  x.of \cap ((written - reading.bytes + 1) .. written) = {}
<1>1. RowSound(x) /\ x.pos <= written - reading.bytes
  BY DEF RowsInv, RowsSound, Known, Ahead
<1>2. written \in Nat /\ reading.bytes \in 0..written BY DEF RowsInv, DeviceTyped, Ahead
<1>3. ASSUME NEW n \in x.of, n \in (written - reading.bytes + 1) .. written PROVE FALSE
  <2>1. n \in 1..x.pos /\ x.pos \in Nat BY <1>1 DEF RowSound, Row
  <2>. QED BY <1>1, <1>2, <1>3, <2>1
<1>. QED BY <1>3

\* The hour in progress goes on being apart from the rows, and continuing the checkpoint.
LEMMA HourApart ==
    ASSUME RowsInv, Ahead, pc = "hour", NEW h, h = RecordHour(obs.hour, reading, reading),
           NEW x, x \in {records[i] : i \in DOMAIN records} \cup {checkpoint}
    PROVE  /\ Apart(obs.hour, x) => Apart(h, x)
           /\ Continues(x, obs.hour) => Apart(x, h) \/ Continues(x, h)
<1>. DEFINE new == (written - reading.bytes + 1) .. written
<1>1. /\ h.at = now /\ h.pos = written /\ h.count = reading.count /\ h.id = reading.id
      /\ h.hour = Hour(now)
      /\ h.of = (IF obs.hour.hour = Hour(now) THEN obs.hour.of ELSE {}) \cup new
      /\ RowSound(h)
  BY HourIs DEF RowsInv
<1>2. x \in Kept /\ RowSound(x) BY DEF RowsInv, RowsSound, Known, Kept
<1>3. x.of \cap new = {} BY <1>2, AddedApart DEF Taking
<1>. HIDE DEF new
<1>4. Apart(obs.hour, x) => Apart(h, x)
  BY <1>1, <1>3 DEF Apart
<1>5. ASSUME Continues(x, obs.hour) PROVE Apart(x, h) \/ Continues(x, h)
  <2>1. CASE obs.hour.hour # Hour(now) BY <1>1, <1>3, <2>1 DEF Apart
  <2>2. CASE obs.hour.hour = Hour(now)
    <3>1. x.hour = h.hour /\ x.of \subseteq h.of BY <1>1, <1>5, <2>2 DEF Continues
    <3>2. x.at <= h.at BY <1>1, <1>2 DEF RowSound
    <3>3. x.hour \in ghost.resetHours \/ (x.id = h.id /\ x.count <= h.count)
      <4>1. Followed(obs.hour) /\ obs.hour \in Row /\ obs.hour.pos <= written
        BY KeptSound DEF RowSound
      <4>2. /\ reading.count = written - counter.base /\ reading.id = counter.id
            /\ written \in Nat /\ counter.base \in 0..written /\ Hour(now) \in Nat
            /\ ghost.resetHours \subseteq Int /\ \A k \in ghost.resetHours : k <= Hour(now)
        BY NowTyped DEF RowsInv, DeviceTyped, Ahead, Taking
      <4>3. CASE obs.hour.id = counter.id /\ counter.base <= obs.hour.pos
                 /\ obs.hour.count = obs.hour.pos - counter.base
        <5>1. obs.hour.id = h.id /\ obs.hour.count <= h.count
          BY <1>1, <4>1, <4>2, <4>3 DEF Row
        <5>2. x.count \in Nat /\ h.count \in Nat /\ obs.hour.count \in Nat
          BY <1>1, <1>2, <4>1 DEF RowSound, Row
        <5>. QED BY <1>5, <5>1, <5>2 DEF Continues
      <4>4. CASE \E k \in ghost.resetHours : k >= obs.hour.hour
        <5>1. PICK k \in ghost.resetHours : k >= obs.hour.hour BY <4>4
        <5>2. k = Hour(now) BY <2>2, <4>2, <5>1
        <5>. QED BY <1>1, <3>1, <5>2
      <4>. QED BY <4>1, <4>3, <4>4 DEF Followed
    <3>. QED BY <3>1, <3>2, <3>3 DEF Continues
  <2>. QED BY <2>1, <2>2
<1>. QED BY <1>4, <1>5

LEMMA OnceStep == RowsInv /\ Ahead /\ HoursOver /\ OnceEach /\ [Next]_vars => OnceEach'
<1>. SUFFICES ASSUME RowsInv, Ahead, HoursOver, OnceEach, [Next]_vars PROVE OnceEach' OBVIOUS
<1>1. Placed /\ DeviceTyped BY DEF RowsInv
<1>2. ghost.lossy \in BOOLEAN /\ records \in Seq(Row) BY <1>1 DEF DeviceTyped
<1>3. /\ checkpoint \in Row /\ obs.hour \in Row /\ \A i \in DOMAIN records : records[i] \in Row
  BY KeptSound
<1>4. ASSUME records' = records, checkpoint' = checkpoint, obs'.hour = obs.hour,
             ghost.resetHours \subseteq ghost'.resetHours, pc = "remove" => pc' = "remove"
      PROVE OnceEach'
  BY <1>4 DEF OnceEach, Apart, Continues
<1>5. ASSUME Beside PROVE OnceEach'
  BY <1>4, <1>5 DEF Beside, Still, Waiting
<1>6. CASE Tick
  BY <1>4, <1>6 DEF Tick, store
<1>7. CASE ResetCounter
  <2>1. records' = records /\ checkpoint' = checkpoint /\ obs' = obs /\ pc' = pc
    BY <1>7 DEF ResetCounter, store
  <2>2. ghost.resetHours \subseteq ghost'.resetHours BY <1>1, <1>7 DEF ResetCounter, Placed, GhostFields
  <2>. QED BY <1>4, <2>1, <2>2
<1>8. CASE Start
  <2>1. /\ records' = records /\ checkpoint' = checkpoint /\ ghost'.resetHours = ghost.resetHours
        /\ obs'.hour = NoRecord \/ (obs'.hour = checkpoint /\ ~Superseded(records, checkpoint))
    BY <1>1, <1>2, <1>8, StartTakesUp DEF Still
  <2>2. ASSUME NEW x, NEW y PROVE Apart(x, y)' = Apart(x, y) /\ Continues(x, y)' = Continues(x, y)
    BY <2>1 DEF Apart, Continues
  <2>3. Apart(checkpoint, obs'.hour) \/ Continues(checkpoint, obs'.hour)
    <3>1. CASE obs'.hour = NoRecord BY <1>3, <3>1, NothingApart
    <3>2. CASE obs'.hour = checkpoint BY <1>3, <3>2 DEF Continues, Row
    <3>. QED BY <2>1, <3>1, <3>2
  <2>4. ASSUME NEW i \in DOMAIN records PROVE Apart(obs'.hour, records[i])
    <3>1. CASE obs'.hour = NoRecord BY <1>3, <3>1, NothingApart
    <3>2. CASE obs'.hour = checkpoint /\ ~Superseded(records, checkpoint)
      <4>1. Apart(checkpoint, records[i]) \/ Continues(checkpoint, records[i]) BY DEF OnceEach
      <4>2. checkpoint \in Row /\ records[i] \in Row BY <1>3
      <4>3. Continues(checkpoint, records[i]) => checkpoint.hour \in ghost.resetHours
        BY <3>2, <4>2 DEF Continues, Superseded, Row
      <4>. QED BY <3>2, <4>1, <4>3 DEF Apart
    <3>. QED BY <2>1, <3>1, <3>2
  <2>. QED BY <2>1, <2>2, <2>3, <2>4 DEF OnceEach
<1>9. ASSUME NEW c \in Comparisons, Sample(c[1], c[2]) PROVE OnceEach'
  <2>1. RowSound(obs.prev) BY KeptSound
  <2>2. /\ Still /\ records' = records /\ checkpoint' = checkpoint /\ obs'.hour = obs.hour
        /\ pc \in {"fresh", "idle"}
    BY <1>1, <1>9, <2>1, SampleIs
  <2>. QED BY <1>4, <2>2 DEF Still
<1>10. CASE FlushAppend
  <2>1. /\ ghost'.resetHours = ghost.resetHours /\ pc = "flush"
        /\ \/ /\ records' = Append(records, obs.hour) /\ pc' = "remove"
              /\ checkpoint' = checkpoint /\ obs'.hour = obs.hour
           \/ records' = records /\ checkpoint' \in {checkpoint, obs.hour} /\ obs'.hour = NoRecord
    BY <1>1, <1>10, FlushIs DEF Still
  <2>2. ASSUME NEW x, NEW y PROVE Apart(x, y)' = Apart(x, y) /\ Continues(x, y)' = Continues(x, y)
    BY <2>1 DEF Apart, Continues
  <2>3. CASE /\ records' = Append(records, obs.hour) /\ pc' = "remove"
             /\ checkpoint' = checkpoint /\ obs'.hour = obs.hour
    <3>. DEFINE l == Len(records) + 1
    <3>1. /\ DOMAIN records' = DOMAIN records \cup {l} /\ l \notin DOMAIN records
          /\ \A i \in DOMAIN records : records'[i] = records[i]
          /\ records'[l] = obs.hour
      BY <1>2, <1>3, <2>3, RowsAppended
    <3>. HIDE DEF l
    <3>2. \A i \in DOMAIN records : Apart(obs.hour, records[i]) /\ Apart(records[i], obs.hour)
      BY <2>1 DEF OnceEach, Apart
    <3>3. ASSUME NEW i \in DOMAIN records', NEW j \in DOMAIN records', i # j
          PROVE Apart(records'[i], records'[j])
      BY <3>1, <3>2, <3>3 DEF OnceEach
    <3>4. ASSUME NEW i \in DOMAIN records'
          PROVE Apart(checkpoint, records'[i]) \/ Continues(checkpoint, records'[i])
      BY <3>1 DEF OnceEach
    <3>. QED BY <2>2, <2>3, <3>3, <3>4 DEF OnceEach
  <2>4. CASE records' = records /\ checkpoint' \in {checkpoint, obs.hour} /\ obs'.hour = NoRecord
    <3>1. \A x \in Row : Apart(NoRecord, x) /\ Apart(x, NoRecord) BY NothingApart
    <3>2. checkpoint' \in Row BY <1>3, <2>4
    <3>3. \A i \in DOMAIN records : Apart(checkpoint', records[i]) \/ Continues(checkpoint', records[i])
      BY <2>1, <2>4 DEF OnceEach
    <3>. QED BY <1>3, <2>2, <2>4, <3>1, <3>2, <3>3 DEF OnceEach
  <2>. QED BY <2>1, <2>3, <2>4
<1>11. ASSUME records' = records, ghost'.resetHours = ghost.resetHours, obs'.hour = NoRecord,
              \/ checkpoint' = checkpoint \/ checkpoint' = NoRecord
              \/ pc # "remove" /\ checkpoint' = obs.hour
       PROVE OnceEach'
  <2>1. ASSUME NEW x, NEW y PROVE Apart(x, y)' = Apart(x, y) /\ Continues(x, y)' = Continues(x, y)
    BY <1>11 DEF Apart, Continues
  <2>2. \A x \in Row : Apart(NoRecord, x) /\ Apart(x, NoRecord) BY NothingApart
  <2>3. checkpoint' \in Row BY <1>3, <1>11, NoRow
  <2>4. \A i \in DOMAIN records : Apart(checkpoint', records[i]) \/ Continues(checkpoint', records[i])
    BY <1>3, <1>11, <2>2 DEF OnceEach
  <2>. QED BY <1>3, <1>11, <2>1, <2>2, <2>3, <2>4 DEF OnceEach
<1>12. CASE RemoveCheckpoint
  BY <1>1, <1>11, <1>12, RemoveIs DEF Still
<1>13. CASE RecordSample
  <2>1. /\ ghost' = ghost /\ pc = "hour" /\ records' = records /\ checkpoint' = checkpoint
        /\ obs'.hour = RecordHour(obs.hour, reading, reading)
    BY <1>1, <1>13, RecordIs
  <2>2. ASSUME NEW x, NEW y PROVE Apart(x, y)' = Apart(x, y) /\ Continues(x, y)' = Continues(x, y)
    BY <2>1 DEF Apart, Continues
  <2>3. ASSUME NEW i \in DOMAIN records PROVE Apart(obs'.hour, records[i])
    <3>1. Apart(obs.hour, records[i]) BY <2>1 DEF OnceEach
    <3>. QED BY <2>1, <3>1, HourApart
  <2>4. Apart(checkpoint, obs'.hour) \/ Continues(checkpoint, obs'.hour)
    <3>1. Apart(obs.hour, checkpoint) \/ Continues(checkpoint, obs.hour) BY DEF OnceEach, Apart
    <3>2. Apart(obs'.hour, checkpoint) => Apart(checkpoint, obs'.hour) BY DEF Apart
    <3>. QED BY <2>1, <3>1, <3>2, HourApart
  <2>. QED BY <2>1, <2>2, <2>3, <2>4 DEF OnceEach
<1>14. CASE Stop \/ Crash
  <2>1. /\ records' = records /\ obs'.hour = NoRecord /\ ghost'.resetHours = ghost.resetHours
        /\ checkpoint' = checkpoint \/ (pc = "idle" /\ checkpoint' = obs.hour)
    BY <1>1, <1>14, EndIs DEF Still
  <2>. QED BY <1>11, <2>1
<1>15. CASE \/ AlertDay \/ AlertNone \/ AlertClose \/ AlertOpen \/ Notify \/ SetContext
            \/ ReadRecords \/ ReadCheckpoint \/ UNCHANGED vars
  BY <1>1, <1>2, <1>5, <1>15, AlertsBeside
<1>. QED BY <1>6, <1>7, <1>8, <1>9, <1>10, <1>12, <1>13, <1>14, <1>15 DEF Next

LEMMA MirroredStep == RowsInv /\ Ahead /\ HoursOver /\ Mirrored /\ [Next]_vars => Mirrored'
<1>. SUFFICES ASSUME RowsInv, Ahead, HoursOver, Mirrored, [Next]_vars PROVE Mirrored' OBVIOUS
<1>1. Placed /\ DeviceTyped /\ ghost.lossy \in BOOLEAN /\ records \in Seq(Row)
  BY DEF RowsInv, DeviceTyped
<1>2. ASSUME records' = records, reader' = reader PROVE Mirrored'
  BY <1>2 DEF Mirrored
<1>3. CASE FlushAppend
  <2>1. /\ reader' = reader /\ (records' = Append(records, obs.hour) \/ records' = records)
    BY <1>1, <1>3, FlushIs
  <2>2. obs.hour \in Row BY KeptSound
  <2>3. CASE records' = Append(records, obs.hour)
    <3>1. DOMAIN records \subseteq DOMAIN records' /\ \A i \in DOMAIN records : records'[i] = records[i]
      BY <1>1, <2>2, <2>3, RowsAppended
    <3>2. reader' = reader BY <1>3 DEF FlushAppend
    <3>. QED BY <3>1, <3>2 DEF Mirrored
  <2>. QED BY <1>2, <1>3, <2>1, <2>3 DEF FlushAppend
<1>4. CASE ReadRecords
  BY <1>1, <1>4 DEF ReadRecords, store, Mirrored
<1>5. CASE ReadCheckpoint
  BY <1>5 DEF ReadCheckpoint, Mirrored
<1>6. CASE Tick \/ ResetCounter \/ Start \/ (\E c \in Comparisons : Sample(c[1], c[2]))
  <2>1. CASE Tick BY <1>2, <2>1 DEF Tick, store
  <2>2. CASE ResetCounter BY <1>2, <2>2 DEF ResetCounter, store
  <2>3. CASE Start BY <1>2, <2>3 DEF Start, store
  <2>4. CASE \E c \in Comparisons : Sample(c[1], c[2]) BY <1>2, <2>4 DEF Sample, store
  <2>. QED BY <1>6, <2>1, <2>2, <2>3, <2>4
<1>7. CASE RemoveCheckpoint \/ RecordSample \/ Stop \/ Crash
  <2>1. CASE RemoveCheckpoint BY <1>2, <2>1 DEF RemoveCheckpoint
  <2>2. CASE RecordSample BY <1>2, <2>2 DEF RecordSample, store
  <2>3. CASE Stop BY <1>2, <2>3 DEF Stop
  <2>4. CASE Crash BY <1>2, <2>4 DEF Crash, store
  <2>. QED BY <1>7, <2>1, <2>2, <2>3, <2>4
<1>8. CASE AlertDay \/ AlertNone \/ AlertClose \/ AlertOpen \/ Notify \/ SetContext \/ UNCHANGED vars
  <2>1. reader' = reader
    BY <1>8 DEF AlertDay, AlertNone, AlertClose, AlertOpen, SaveAlert, Notify, SetContext, vars
  <2>2. records' = records BY <1>1, <1>8, AlertsBeside DEF Beside
  <2>. QED BY <1>2, <2>1, <2>2
<1>. QED BY <1>3, <1>4, <1>5, <1>6, <1>7, <1>8 DEF Next

LEMMA HistoryInit == Init => HistoryInv
<1>. SUFFICES ASSUME Init PROVE HistoryInv OBVIOUS
<1>1. RowsInv BY RowsInit
<1>2. records = <<>> /\ checkpoint = NoRecord /\ obs.hour = NoRecord /\ pc = "down" /\ reader.at = "off"
  BY DEF Init, NoObserver
<1>3. Ahead /\ HoursOver /\ Mirrored BY <1>2 DEF Ahead, HoursOver, Mirrored, Taking, Waiting
<1>4. OnceEach
  <2>1. DOMAIN records = {} BY <1>2
  <2>. QED BY <1>2, <2>1, NoRow, NothingApart DEF OnceEach
<1>. QED BY <1>1, <1>3, <1>4 DEF HistoryInv

LEMMA HistoryStep == HistoryInv /\ [Next]_vars => HistoryInv'
BY RowsStep, AheadStep, HoursStep, OnceStep, MirroredStep DEF HistoryInv

\* Rows that are apart, with a checkpoint that is apart from those it was not taken over by.
LEMMA CountedApart ==
    ASSUME HistoryInv, NEW rows \in Seq(Row), DOMAIN rows \subseteq DOMAIN records,
           \A i \in DOMAIN rows : rows[i] = records[i]
    PROVE  CountedOnce(WithCheckpoint(rows, checkpoint))
<1>1. checkpoint \in Row /\ RowSound(checkpoint) /\ RowsInv /\ OnceEach
  BY KeptSound DEF HistoryInv
<1>2. \A i \in DOMAIN rows : RowSound(rows[i]) /\ rows[i] \in Row BY <1>1, KeptSound
<1>3. \A i, j \in DOMAIN rows : i # j => Apart(rows[i], rows[j])
  BY <1>1 DEF OnceEach
<1>4. CASE checkpoint = NoRecord \/ Superseded(rows, checkpoint)
  <2>1. WithCheckpoint(rows, checkpoint) = rows BY <1>1, <1>4, WithCheckpointIs
  <2>. QED BY <1>2, <1>3, <2>1 DEF CountedOnce, Plain, Apart, RowSound
<1>5. CASE ~(checkpoint = NoRecord \/ Superseded(rows, checkpoint))
  <2>. DEFINE w == WithCheckpoint(rows, checkpoint)
              l == Len(rows) + 1
  <2>1. /\ DOMAIN w = DOMAIN rows \cup {l} /\ l \notin DOMAIN rows
        /\ \A i \in DOMAIN rows : w[i] = rows[i]
        /\ w[l] = checkpoint
    BY <1>1, <1>5, WithCheckpointIs
  <2>2. ASSUME NEW i \in DOMAIN rows PROVE Apart(checkpoint, rows[i]) /\ Apart(rows[i], checkpoint)
    <3>1. Apart(checkpoint, rows[i]) \/ Continues(checkpoint, rows[i]) BY <1>1 DEF OnceEach
    <3>2. Continues(checkpoint, rows[i]) => checkpoint.hour \in ghost.resetHours
      BY <1>1, <1>2, <1>5 DEF Continues, Superseded, Row
    <3>. QED BY <3>1, <3>2 DEF Apart
  <2>. HIDE DEF w, l
  <2>3. \A i, j \in DOMAIN w : i # j => Apart(w[i], w[j]) BY <1>3, <2>1, <2>2
  <2>4. \A i \in DOMAIN w : RowSound(w[i]) BY <1>1, <1>2, <2>1
  <2>5. CountedOnce(w) BY <2>3, <2>4 DEF CountedOnce, Plain, Apart, RowSound
  <2>. QED BY <2>5 DEF w
<1>. QED BY <1>4, <1>5

\* No byte is counted twice by a restart or by a reader, whenever the resident dies between
\* an appended hour and its checkpoint, except in hours in which the counter started again.
THEOREM BytesCountedOnce == Spec => []NoByteTwice
<1>1. HistoryInv => NoByteTwice
  <2>. SUFFICES ASSUME HistoryInv PROVE NoByteTwice OBVIOUS
  <2>1. records \in Seq(Row) BY DEF HistoryInv, RowsInv, DeviceTyped
  <2>2. CountedOnce(WithCheckpoint(records, checkpoint)) BY <2>1, CountedApart
  <2>3. reader.at = "rows" => CountedOnce(WithCheckpoint(reader.rows, checkpoint))
    BY CountedApart DEF HistoryInv, Mirrored
  <2>. QED BY <2>2, <2>3 DEF NoByteTwice
<1>. QED BY HistoryInit, HistoryStep, <1>1, PTL DEF Spec

(***************************************************************************)
(* No byte is lost.                                                        *)
(***************************************************************************)
LEMMA BytesSeen ==
    ASSUME NEW rows \in Seq(Row), NEW c \in Row, Superseded(rows, c) => c.of \subseteq Bytes(rows)
    PROVE  Bytes(WithCheckpoint(rows, c)) = Bytes(rows) \cup c.of
<1>1. CASE c = NoRecord \/ Superseded(rows, c)
  <2>1. WithCheckpoint(rows, c) = rows BY <1>1, WithCheckpointIs
  <2>. QED BY <1>1, <2>1, NoRow
<1>2. CASE ~(c = NoRecord \/ Superseded(rows, c))
  <2>1. WithCheckpoint(rows, c) = Append(rows, c) BY <1>2 DEF WithCheckpoint
  <2>. QED BY <2>1, RowsAppended
<1>. QED BY <1>1, <1>2

\* If the rows and the checkpoint hold what is claimed up to m and nothing of them is past m,
\* then whoever reads them misses nothing.
LEMMA NothingMissed ==
    ASSUME NEW rows \in Seq(Row), NEW c \in Row, Superseded(rows, c) => c.of \subseteq Bytes(rows),
           NEW t \in Int, c.at <= t, \A i \in DOMAIN rows : rows[i].at <= t,
           NEW m \in Nat, c.pos <= m, \A i \in DOMAIN rows : rows[i].pos <= m,
           NEW S, \A n \in 1..m : n \in S => n \in Bytes(rows) \cup c.of
    PROVE  \A n \in 1..Newest(WithCheckpoint(rows, c)).pos : n \in S => n \in Bytes(WithCheckpoint(rows, c))
<1>. DEFINE w == WithCheckpoint(rows, c)
<1>1. w \in Seq(Row) BY WithCheckpointIs
<1>2. Bytes(w) = Bytes(rows) \cup c.of BY BytesSeen
<1>3. \A i \in DOMAIN w : w[i] = c \/ \E j \in DOMAIN rows : w[i] = rows[j]
  <2>1. CASE c = NoRecord \/ Superseded(rows, c)
    <3>1. w = rows BY <2>1, WithCheckpointIs
    <3>. QED BY <3>1
  <2>2. CASE ~(c = NoRecord \/ Superseded(rows, c))
    <3>1. /\ DOMAIN w = DOMAIN rows \cup {Len(rows) + 1}
          /\ \A i \in DOMAIN rows : w[i] = rows[i]
          /\ w[Len(rows) + 1] = c
      BY <2>2, WithCheckpointIs
    <3>. HIDE DEF w
    <3>. QED BY <3>1
  <2>. QED BY <2>1, <2>2
<1>. HIDE DEF w
<1>4. \A i \in DOMAIN w : w[i].at <= t /\ w[i].pos <= m BY <1>3
<1>5. Newest(w) = NoRecord \/ \E i \in DOMAIN w : Newest(w) = w[i]
  BY <1>1, <1>4, NewestIs
<1>6. Newest(w).pos <= m /\ Newest(w).pos \in Nat
  <2>1. CASE Newest(w) = NoRecord BY <2>1, NoRow
  <2>2. CASE \E i \in DOMAIN w : Newest(w) = w[i]
    <3>1. PICK i \in DOMAIN w : Newest(w) = w[i] BY <2>2
    <3>2. w[i] \in Row BY <1>1
    <3>. QED BY <1>4, <3>1, <3>2 DEF Row
  <2>. QED BY <1>5, <2>1, <2>2
<1>7. \A n \in 1..Newest(w).pos : n \in 1..m BY <1>6
<1>. QED BY <1>2, <1>7 DEF w

LEMMA CompleteIs ==
    ghost.lossy \in BOOLEAN
    => (NoByteLost /\ AllThere <=> (ghost.lossy = FALSE => Complete /\ Readable))
<1>1. (ghost.lossy = FALSE => Complete) <=> AllThere BY DEF AllThere
<1>2. ghost.lossy \in BOOLEAN => ((ghost.lossy = FALSE => Readable) <=> NoByteLost)
  BY DEF NoByteLost, Readable, Claimed
<1>. QED BY <1>1, <1>2

LEMMA LossyStays ==
    ASSUME Placed, DeviceTyped, RowSound(obs.prev), [Next]_vars
    PROVE  ghost'.lossy \in BOOLEAN /\ (ghost'.lossy = FALSE => ghost.lossy = FALSE)
<1>1. ghost.lossy \in BOOLEAN BY DEF DeviceTyped
<1>2. CASE Tick \/ ResetCounter
  <2>1. CASE Tick BY <1>1, <2>1 DEF Tick
  <2>2. CASE ResetCounter BY <1>1, <2>2 DEF ResetCounter, Placed, GhostFields
  <2>. QED BY <1>2, <2>1, <2>2
<1>3. CASE Start BY <1>1, <1>3, StartTakesUp
<1>4. ASSUME NEW c \in Comparisons, Sample(c[1], c[2])
      PROVE ghost'.lossy \in BOOLEAN /\ (ghost'.lossy = FALSE => ghost.lossy = FALSE)
  BY <1>1, <1>4, SampleIs
<1>5. CASE FlushAppend BY <1>1, <1>5, FlushIs
<1>6. CASE RemoveCheckpoint BY <1>1, <1>6, RemoveIs
<1>7. CASE RecordSample BY <1>1, <1>7, RecordIs
<1>8. CASE Stop \/ Crash BY <1>1, <1>8, EndIs
<1>9. CASE \/ AlertDay \/ AlertNone \/ AlertClose \/ AlertOpen \/ Notify \/ SetContext
           \/ ReadRecords \/ ReadCheckpoint \/ UNCHANGED vars
  BY <1>1, <1>9, AlertsBeside DEF Beside
<1>. QED BY <1>2, <1>3, <1>4, <1>5, <1>6, <1>7, <1>8, <1>9 DEF Next

\* Steps that change neither the files nor what is claimed.
LEMMA ReadableKept ==
    ASSUME Readable, records' = records, checkpoint' = checkpoint,
           \A n : Claimed(n)' => Claimed(n)
    PROVE  Readable'
<1>1. WithCheckpoint(records, checkpoint)' = WithCheckpoint(records, checkpoint)
  BY DEF WithCheckpoint, Superseded
<1>2. /\ Newest(WithCheckpoint(records, checkpoint))' = Newest(WithCheckpoint(records, checkpoint))
      /\ Bytes(WithCheckpoint(records, checkpoint))' = Bytes(WithCheckpoint(records, checkpoint))
  BY <1>1 DEF Newest, Bytes
<1>. QED BY <1>2 DEF Readable

\* Steps that change the files leave the rows complete up to m, and nothing is past m.
LEMMA ReadableFrom ==
    ASSUME RowsInv', NEW m \in Nat, checkpoint'.pos <= m, \A i \in DOMAIN records' : records'[i].pos <= m,
           (Superseded(records, checkpoint) => checkpoint.of \subseteq Bytes(records))',
           \A n \in 1..m : Claimed(n)' => n \in Bytes(records)' \cup checkpoint'.of
    PROVE  Readable'
<1>. DEFINE S == {n \in Nat : Claimed(n)'}
<1>1. records' \in Seq(Row) /\ now' \in Int
  <2>1. Placed' /\ records' \in Seq(Row) BY DEF RowsInv, DeviceTyped
  <2>2. (now \in Nat)' BY <2>1, NowTyped, PTL
  <2>. QED BY <2>1, <2>2
<1>2. \A x \in Known' : x \in Row /\ x.at <= now' BY DEF RowsInv, RowsSound, RowSound
<1>3. checkpoint' \in Known' /\ \A i \in DOMAIN records' : records'[i] \in Known' BY DEF Known, Kept
<1>4. Superseded(records', checkpoint') => checkpoint'.of \subseteq Bytes(records')
  BY DEF Superseded, Bytes
<1>5. \A n \in 1..m : n \in S => n \in Bytes(records') \cup checkpoint'.of BY DEF Bytes
<1>. HIDE DEF S
<1>6. \A n \in 1..Newest(WithCheckpoint(records', checkpoint')).pos :
         n \in S => n \in Bytes(WithCheckpoint(records', checkpoint'))
  <2>1. checkpoint' \in Row /\ checkpoint'.at <= now' /\ \A i \in DOMAIN records' : records'[i].at <= now'
    BY <1>2, <1>3
  <2>. QED BY <1>1, <1>4, <1>5, <2>1, NothingMissed
<1>7. WithCheckpoint(records, checkpoint)' = WithCheckpoint(records', checkpoint')
  BY DEF WithCheckpoint, Superseded
<1>8. /\ Newest(WithCheckpoint(records, checkpoint))' = Newest(WithCheckpoint(records', checkpoint'))
      /\ Bytes(WithCheckpoint(records, checkpoint))' = Bytes(WithCheckpoint(records', checkpoint'))
  BY <1>7 DEF Newest, Bytes
<1>. QED BY <1>6, <1>8 DEF Readable, S

LEMMA CompleteStep ==
    ASSUME HistoryInv, HistoryInv', Complete, Readable, ghost.lossy = FALSE, ghost'.lossy = FALSE, [Next]_vars
    PROVE  Complete' /\ Readable'
<1>1. /\ Placed /\ DeviceTyped /\ RowsInv /\ Ahead /\ HoursOver
      /\ RowsInv' /\ Ahead' /\ HoursOver'
  BY DEF HistoryInv, RowsInv
<1>2. /\ records \in Seq(Row) /\ written \in Nat /\ now \in Nat /\ ghost.lossy \in BOOLEAN
      /\ checkpoint \in Row /\ obs.hour \in Row /\ obs.prev \in Row /\ RowSound(obs.prev)
      /\ \A i \in DOMAIN records : records[i] \in Row
  BY <1>1, NowTyped, KeptSound DEF DeviceTyped
<1>3. ASSUME records' = records, checkpoint' = checkpoint,
             ghost'.first = ghost.first, ghost'.skipped = ghost.skipped
      PROVE  /\ Readable'
             /\ Superseded(records, checkpoint)' => checkpoint'.of \subseteq Bytes(records)'
             /\ Bytes(records)' = Bytes(records)
             /\ \A n : Claimed(n)' = Claimed(n)
  <2>1. \A n : Claimed(n)' = Claimed(n) BY <1>3 DEF Claimed
  <2>2. Readable' BY <1>3, <2>1, ReadableKept
  <2>3. Superseded(records, checkpoint)' => checkpoint'.of \subseteq Bytes(records)'
    BY <1>3 DEF Complete, Superseded, Bytes
  <2>4. Bytes(records)' = Bytes(records) BY <1>3 DEF Bytes
  <2>. QED BY <2>1, <2>2, <2>3, <2>4
<1>4. ASSUME records' = records, checkpoint' = checkpoint, ghost'.first = ghost.first,
             ghost'.skipped = ghost.skipped, obs'.hour = obs.hour, obs'.prev = obs.prev,
             \/ pc' = pc /\ reading' = reading /\ written' = written
             \/ pc \in {"down", "idle"} /\ pc' = pc
             \/ pc \in Waiting /\ pc' \in Waiting
      PROVE  Complete' /\ Readable'
  <2>1. Held' = Held BY <1>4 DEF Held, Bytes
  <2>2. WithCheckpoint(records, checkpoint)' = WithCheckpoint(records, checkpoint)
    BY <1>4 DEF WithCheckpoint, Superseded
  <2>. QED BY <1>3, <1>4, <2>1, <2>2 DEF Complete, Waiting, Taking
<1>5. ASSUME Beside PROVE Complete' /\ Readable'
  <2>1. ghost'.first = ghost.first /\ ghost'.skipped = ghost.skipped BY <1>5 DEF Beside
  <2>. QED BY <1>4, <1>5, <2>1 DEF Beside, Still
<1>6. CASE Tick
  BY <1>4, <1>6 DEF Tick, store
<1>7. CASE ResetCounter
  <2>1. /\ records' = records /\ checkpoint' = checkpoint /\ obs' = obs /\ pc' = pc
        /\ pc \in {"down", "idle"}
    BY <1>7 DEF ResetCounter, store
  <2>2. ghost'.first = ghost.first /\ ghost'.skipped = ghost.skipped
    BY <1>1, <1>7 DEF ResetCounter, Placed, GhostFields
  <2>. QED BY <1>4, <2>1, <2>2
<1>8. CASE Start
  <2>1. /\ records' = records /\ checkpoint' = checkpoint /\ pc' = "fresh"
        /\ ghost'.first = ghost.first /\ ghost'.skipped = ghost.skipped
        /\ obs'.prev = Newest(WithCheckpoint(records, checkpoint))
        /\ obs'.hour = IF Superseded(records, checkpoint) THEN NoRecord ELSE checkpoint
    BY <1>1, <1>2, <1>8, StartTakesUp
  <2>2. checkpoint.of \subseteq Bytes(records) \cup obs'.hour.of
    BY <2>1 DEF Complete
  <2>3. Held' = Bytes(records) \cup obs'.hour.of BY <2>1 DEF Held, Bytes
  <2>. DEFINE rows == WithCheckpoint(records, checkpoint)
  <2>4. Bytes(rows) = Bytes(records) \cup checkpoint.of
    BY <1>2, BytesSeen DEF Complete
  <2>5. Newest(rows).at = Never => rows = <<>>
    <3>. SUFFICES ASSUME rows # <<>> PROVE Newest(rows).at # Never OBVIOUS
    <3>1. PICK i \in DOMAIN rows : Newest(rows) = rows[i] BY <1>1, NewestKnown
    <3>2. rows[i].at >= 0
      <4>1. CASE checkpoint = NoRecord \/ Superseded(records, checkpoint)
        <5>1. rows = records BY <1>2, <4>1, WithCheckpointIs
        <5>. QED BY <1>1, <5>1 DEF HoursOver
      <4>2. CASE ~(checkpoint = NoRecord \/ Superseded(records, checkpoint))
        <5>1. /\ DOMAIN rows = DOMAIN records \cup {Len(records) + 1}
              /\ \A j \in DOMAIN records : rows[j] = records[j]
              /\ rows[Len(records) + 1] = checkpoint
          BY <1>2, <4>2, WithCheckpointIs
        <5>2. checkpoint.at >= 0 BY <1>1, <4>2, KeptSound DEF RowSound
        <5>. HIDE DEF rows
        <5>. QED BY <1>1, <5>1, <5>2 DEF HoursOver
      <4>. QED BY <4>1, <4>2
    <3>3. Newest(rows).at >= 0 BY <3>1, <3>2
    <3>. HIDE DEF rows
    <3>. QED BY <3>3 DEF Never
  <2>6. \A n \in 1..Newest(rows).pos : Claimed(n) => n \in Bytes(rows) BY DEF Readable
  <2>7. WithCheckpoint(records, checkpoint)' = rows BY <2>1 DEF WithCheckpoint, Superseded
  <2>. HIDE DEF rows
  <2>8. obs'.prev = Newest(rows) BY <2>1 DEF rows
  <2>9. \A n \in 1..obs'.prev.pos : Claimed(n)' => n \in Held'
    BY <1>3, <2>1, <2>2, <2>3, <2>4, <2>6, <2>8
  <2>10. obs'.prev.at = Never => WithCheckpoint(records, checkpoint)' = <<>> BY <2>5, <2>7, <2>8
  <2>11. checkpoint'.of \subseteq Held' BY <2>1, <2>2, <2>3
  <2>. QED BY <1>3, <2>1, <2>9, <2>10, <2>11 DEF Complete, Waiting, Taking
<1>9. ASSUME NEW c \in Comparisons, Sample(c[1], c[2]) PROVE Complete' /\ Readable'
  <2>1. /\ records' = records /\ checkpoint' = checkpoint /\ obs'.hour = obs.hour
        /\ written' = written /\ pc \in {"fresh", "idle"} /\ pc' \in {"flush", "hour"}
        /\ reading'.bytes \in 0..(written - obs.prev.pos)
        /\ ghost'.first = IF WithCheckpoint(records, checkpoint) = <<>> /\ pc = "fresh" THEN written ELSE ghost.first
        /\ ghost'.skipped = IF resets > 0 /\ counter.base >= obs.prev.pos
                            THEN ghost.skipped \cup ((obs.prev.pos + 1) .. (written - reading'.bytes))
                            ELSE ghost.skipped
        /\ obs.prev.at # Never => \/ reading'.bytes = written - obs.prev.pos
                                  \/ resets > 0 /\ counter.base >= obs.prev.pos
    BY <1>1, <1>2, <1>9, SampleIs DEF Still
  <2>2. Held' = Held /\ Bytes(records)' = Bytes(records) BY <2>1 DEF Held, Bytes
  <2>3. /\ Superseded(records, checkpoint)' => checkpoint'.of \subseteq Bytes(records)'
        /\ WithCheckpoint(records, checkpoint)' = WithCheckpoint(records, checkpoint)
    BY <2>1 DEF Complete, WithCheckpoint, Superseded, Bytes
  <2>4. checkpoint'.of \subseteq Held' BY <2>1, <2>2 DEF Complete
  <2>5. obs.prev.pos \in Nat /\ obs.prev.pos <= written BY <1>2 DEF RowSound, Row
  <2>6. CASE WithCheckpoint(records, checkpoint) = <<>> /\ pc = "fresh"
    <3>1. ghost'.first = written BY <2>1, <2>6
    <3>2. \A n \in 1..(written - reading'.bytes) : ~Claimed(n)'
      BY <1>2, <2>1, <2>5, <3>1 DEF Claimed
    <3>3. Newest(WithCheckpoint(records, checkpoint))' = NoRecord
      BY <2>3, <2>6 DEF Newest
    <3>4. Readable' BY <3>3, NoRow DEF Readable
    <3>. QED BY <2>1, <2>3, <2>4, <3>2, <3>4 DEF Complete, Taking, Waiting
  <2>7. CASE ~(WithCheckpoint(records, checkpoint) = <<>> /\ pc = "fresh")
    <3>1. ghost'.first = ghost.first /\ ghost.skipped \subseteq ghost'.skipped BY <2>1, <2>7
    <3>2. \A n : Claimed(n)' => Claimed(n) BY <3>1 DEF Claimed
    <3>3. Readable' BY <2>1, <3>2, ReadableKept
    <3>4. obs.prev.at # Never BY <2>1, <2>7 DEF Complete, Waiting
    <3>5. ASSUME NEW n \in 1..(written - reading'.bytes), Claimed(n)' PROVE n \in Held
      <4>1. CASE n <= obs.prev.pos
        <5>1. n \in 1..obs.prev.pos BY <2>5, <4>1
        <5>2. \A k \in 1..obs.prev.pos : Claimed(k) => k \in Held BY <2>1 DEF Complete, Waiting
        <5>. QED BY <3>2, <3>5, <5>1, <5>2
      <4>2. CASE ~(n <= obs.prev.pos)
        <5>1. n \in (obs.prev.pos + 1) .. (written - reading'.bytes)
          BY <1>2, <2>1, <2>5, <4>2
        <5>2. reading'.bytes # written - obs.prev.pos BY <1>2, <2>1, <2>5, <5>1
        <5>3. n \in ghost'.skipped BY <2>1, <3>4, <5>1, <5>2
        <5>. QED BY <3>5, <5>3 DEF Claimed
      <4>. QED BY <4>1, <4>2
    <3>. QED BY <2>1, <2>2, <2>3, <2>4, <3>3, <3>5 DEF Complete, Taking, Waiting
  <2>. QED BY <2>6, <2>7
<1>10. CASE FlushAppend
  <2>1. /\ pc = "flush" /\ pc' = "remove" /\ reading' = reading /\ written' = written
        /\ records' = Append(records, obs.hour) /\ checkpoint' = checkpoint /\ obs'.hour = obs.hour
        /\ ghost'.first = ghost.first /\ ghost'.skipped = ghost.skipped
    BY <1>1, <1>10, FlushIs DEF Still
  <2>2. Bytes(records)' = Held
    <3>1. Bytes(Append(records, obs.hour)) = Bytes(records) \cup obs.hour.of BY <1>2, RowsAppended
    <3>2. Bytes(records)' = Bytes(records') BY DEF Bytes
    <3>. QED BY <2>1, <3>1, <3>2 DEF Held
  <2>3. Held' = Held BY <2>1, <2>2 DEF Held
  <2>4. checkpoint.of \subseteq Held /\ obs.hour.of \subseteq Held BY <2>1 DEF Complete, Held
  <2>5. \A n : Claimed(n)' = Claimed(n) BY <2>1 DEF Claimed
  <2>6. \A n \in 1..(written - reading.bytes) : Claimed(n) => n \in Held
    BY <2>1 DEF Complete, Taking
  <2>7. Readable'
    <3>1. written - reading.bytes \in Nat BY <1>1, <1>2, <2>1 DEF Ahead, Taking
    <3>2. \A x \in Kept' : x.pos <= written - reading.bytes BY <1>1, <2>1 DEF Ahead, Taking
    <3>3. checkpoint'.pos <= written - reading.bytes
          /\ \A i \in DOMAIN records' : records'[i].pos <= written - reading.bytes
      BY <3>2 DEF Kept
    <3>4. (Superseded(records, checkpoint) => checkpoint.of \subseteq Bytes(records))'
      BY <2>1, <2>2, <2>4
    <3>5. \A n \in 1..(written - reading.bytes) : Claimed(n)' => n \in Bytes(records)' \cup checkpoint'.of
      BY <2>2, <2>5, <2>6
    <3>. QED BY <1>1, <3>1, <3>3, <3>4, <3>5, ReadableFrom
  <2>. QED BY <2>1, <2>2, <2>3, <2>4, <2>5, <2>6, <2>7 DEF Complete, Taking, Waiting
<1>11. CASE RemoveCheckpoint
  <2>1. /\ pc = "remove" /\ pc' = "hour" /\ reading' = reading /\ written' = written
        /\ records' = records /\ checkpoint' \in {checkpoint, NoRecord} /\ obs'.hour = NoRecord
        /\ ghost'.first = ghost.first /\ ghost'.skipped = ghost.skipped
    BY <1>1, <1>11, RemoveIs DEF Still
  <2>2. Bytes(records)' = Bytes(records) BY <2>1 DEF Bytes
  <2>3. Held = Bytes(records) BY <2>1 DEF Complete, Held
  <2>4. Held' = Held BY <2>1, <2>2, <2>3, NoRow DEF Held
  <2>5. checkpoint'.of \subseteq Held BY <2>1, NoRow DEF Complete
  <2>6. \A n : Claimed(n)' = Claimed(n) BY <2>1 DEF Claimed
  <2>7. \A n \in 1..(written - reading.bytes) : Claimed(n) => n \in Held
    BY <2>1 DEF Complete, Taking
  <2>8. Readable'
    <3>1. written - reading.bytes \in Nat BY <1>1, <1>2, <2>1 DEF Ahead, Taking
    <3>2. \A x \in Kept' : x.pos <= written - reading.bytes BY <1>1, <2>1 DEF Ahead, Taking
    <3>3. checkpoint'.pos <= written - reading.bytes
          /\ \A i \in DOMAIN records' : records'[i].pos <= written - reading.bytes
      BY <3>2 DEF Kept
    <3>4. (Superseded(records, checkpoint) => checkpoint.of \subseteq Bytes(records))'
      BY <2>2, <2>3, <2>5
    <3>5. \A n \in 1..(written - reading.bytes) : Claimed(n)' => n \in Bytes(records)' \cup checkpoint'.of
      BY <2>2, <2>3, <2>6, <2>7
    <3>. QED BY <1>1, <3>1, <3>3, <3>4, <3>5, ReadableFrom
  <2>. QED BY <2>1, <2>2, <2>3, <2>4, <2>5, <2>6, <2>7, <2>8 DEF Complete, Taking, Waiting
<1>12. CASE RecordSample
  <2>1. /\ Still /\ pc = "hour" /\ pc' \in Waiting /\ records' = records /\ checkpoint' = checkpoint
        /\ obs'.prev = obs.prev /\ obs'.hour = RecordHour(obs.hour, reading, reading) /\ ghost' = ghost
    BY <1>1, <1>12, RecordIs
  <2>. DEFINE new == (written - reading.bytes + 1) .. written
  <2>2. obs'.hour.of = obs.hour.of \cup new
    <3>1. obs'.hour.of = (IF obs.hour.hour = Hour(now) THEN obs.hour.of ELSE {}) \cup new
      BY <1>1, <2>1, HourIs DEF RowsInv
    <3>2. obs.hour = NoRecord \/ obs.hour.hour = Hour(now) BY <1>1, <2>1 DEF HoursOver
    <3>. QED BY <3>1, <3>2, NoRow
  <2>3. Held' = Held \cup new BY <2>1, <2>2 DEF Held, Bytes
  <2>4. obs.prev.pos = written /\ obs.prev.at # Never
    <3>1. obs.prev.at = now BY <1>1, <2>1 DEF Ahead, Taking
    <3>. QED BY <1>2, <3>1, NeverBefore DEF RowSound
  <2>5. checkpoint.of \subseteq Held BY <2>1 DEF Complete
  <2>6. ASSUME NEW n \in 1..written, Claimed(n) PROVE n \in Held'
    <3>1. reading.bytes \in 0..written BY <1>1, <2>1 DEF Ahead, Taking
    <3>2. CASE n \in new BY <2>3, <3>2
    <3>3. CASE n \notin new
      <4>1. n \in 1..(written - reading.bytes) BY <1>2, <3>1, <3>3
      <4>2. n \in Held BY <2>1, <2>6, <4>1 DEF Complete, Taking
      <4>. QED BY <2>3, <4>2
    <3>. QED BY <3>2, <3>3
  <2>. HIDE DEF new
  <2>7. ghost'.first = ghost.first /\ ghost'.skipped = ghost.skipped BY <2>1
  <2>. QED BY <1>3, <2>1, <2>3, <2>4, <2>5, <2>6, <2>7 DEF Complete, Taking, Waiting
<1>13. CASE Stop \/ Crash
  <2>1. /\ pc' = "down" /\ records' = records /\ obs'.prev = NoRecord /\ obs'.hour = NoRecord
        /\ ghost'.first = ghost.first /\ ghost'.skipped = ghost.skipped
        /\ checkpoint' = checkpoint \/ (pc = "idle" /\ checkpoint' = obs.hour)
    BY <1>1, <1>13, EndIs
  <2>2. CASE checkpoint' = checkpoint
    BY <1>3, <2>1, <2>2 DEF Complete, Taking, Waiting
  <2>3. CASE pc = "idle" /\ checkpoint' = obs.hour
    <3>1. ~Superseded(records, checkpoint)'
      <4>1. \A i \in DOMAIN records : records[i].hour < obs.hour.hour
        BY <1>1, <2>3 DEF HoursOver, Waiting
      <4>2. \A i \in DOMAIN records : records[i].hour # obs.hour.hour
        BY <1>2, <4>1 DEF Row
      <4>. QED BY <2>1, <2>3, <4>2 DEF Superseded
    <3>2. obs.prev.at # Never /\ \A n \in 1..obs.prev.pos : Claimed(n) => n \in Held
      BY <2>3 DEF Complete, Waiting
    <3>3. \A x \in Kept : x.pos <= obs.prev.pos BY <1>1, <2>3, <3>2 DEF Ahead, Waiting
    <3>4. checkpoint'.pos <= obs.prev.pos /\ \A i \in DOMAIN records' : records'[i].pos <= obs.prev.pos
      BY <2>1, <2>3, <3>3 DEF Kept
    <3>5. \A n \in 1..obs.prev.pos : Claimed(n)' => n \in Bytes(records)' \cup checkpoint'.of
      BY <2>1, <2>3, <3>2 DEF Claimed, Held, Bytes
    <3>6. obs.prev.pos \in Nat BY <1>2 DEF Row
    <3>7. Readable' BY <1>1, <3>1, <3>4, <3>5, <3>6, ReadableFrom
    <3>. QED BY <2>1, <3>1, <3>7 DEF Complete, Taking, Waiting
  <2>. QED BY <2>1, <2>2, <2>3
<1>14. CASE \/ AlertDay \/ AlertNone \/ AlertClose \/ AlertOpen \/ Notify \/ SetContext
            \/ ReadRecords \/ ReadCheckpoint \/ UNCHANGED vars
  BY <1>1, <1>2, <1>5, <1>14, AlertsBeside
<1>. QED BY <1>6, <1>7, <1>8, <1>9, <1>10, <1>11, <1>12, <1>13, <1>14 DEF Next

\* While no write fails, nothing written since the first sample is missing from the history,
\* wherever the resident dies; what was written across a new start of the counter is excepted.
THEOREM NothingWrittenLost == Spec => []NoByteLost
<1>1. Init => LostInv
  <2>. SUFFICES ASSUME Init PROVE LostInv OBVIOUS
  <2>1. HistoryInv BY HistoryInit
  <2>2. records = <<>> /\ checkpoint = NoRecord /\ pc = "down" BY DEF Init
  <2>3. WithCheckpoint(records, checkpoint) = <<>> BY <2>2 DEF WithCheckpoint
  <2>4. Newest(<<>>) = NoRecord BY DEF Newest
  <2>5. Readable BY <2>3, <2>4, NoRow DEF Readable
  <2>6. Complete BY <2>2, NoRow DEF Complete, Waiting, Taking
  <2>7. ghost.lossy \in BOOLEAN BY <2>1 DEF HistoryInv, RowsInv, DeviceTyped
  <2>. QED BY <2>1, <2>5, <2>6, <2>7, CompleteIs DEF LostInv
<1>2. LostInv /\ [Next]_vars => LostInv'
  <2>. SUFFICES ASSUME LostInv, [Next]_vars PROVE LostInv' OBVIOUS
  <2>1. HistoryInv /\ HistoryInv' BY HistoryStep DEF LostInv
  <2>2. ghost.lossy \in BOOLEAN BY <2>1 DEF HistoryInv, RowsInv, DeviceTyped
  <2>3. ghost'.lossy \in BOOLEAN /\ (ghost'.lossy = FALSE => ghost.lossy = FALSE)
    BY <2>1, LossyStays, KeptSound DEF HistoryInv, RowsInv
  <2>4. ghost.lossy = FALSE => Complete /\ Readable BY <2>2, CompleteIs DEF LostInv
  <2>5. ghost'.lossy = FALSE => Complete' /\ Readable'
    BY <2>1, <2>3, <2>4, CompleteStep
  <2>6. (ghost.lossy \in BOOLEAN
         => (NoByteLost /\ AllThere <=> (ghost.lossy = FALSE => Complete /\ Readable)))'
    BY CompleteIs, PTL
  <2>. QED BY <2>1, <2>3, <2>5, <2>6 DEF LostInv
<1>3. LostInv => NoByteLost BY DEF LostInv
<1>. QED BY <1>1, <1>2, <1>3, PTL DEF Spec
=============================================================================
