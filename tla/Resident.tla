------------------------------ MODULE Resident ------------------------------
(***************************************************************************)
(* The resident helper (cmd/session-pressure-helper, sessionpressure/      *)
(* monitor.go, lifecycle.go, telemetry.go, swap_io.go, workswapderate.go): *)
(* one process at a time holds the resident authority, samples the host,   *)
(* and in each round latches swap storms, may terminate one quiet agent    *)
(* tree, runs the cleanup extension and publishes latest.json.             *)
(*                                                                         *)
(* A round is cut where the process can die between two durable effects:   *)
(* the telemetry row, the signals, the action row, latest.json.  Time is   *)
(* counted in sample intervals.  One scene of the environment is chosen    *)
(* initially: agent trees under pressure, a swap storm, or a cleanup       *)
(* extension that fails now and then; the other inputs then stay calm.     *)
(***************************************************************************)
EXTENDS Integers, Sequences, FiniteSets

CONSTANTS
    Scenes,          \* the scenes to choose from: {"relief", "storm", "cleanup"}
    Roots,           \* root PIDs of agent trees, ordered by descending memory
    CooldownTime,    \* ActionCooldownSeconds
    RetryTime,       \* reliefRevalidationRetryInterval
    Sustain,         \* CriticalSustainSamples: rounds a verdict must last
    Baseline,        \* SustainSamples: normal samples that prove the baseline
    MinAge,          \* CandidateMinAgeSeconds
    Window,          \* SwapThrashExternalReleaseSeconds
    ResumeAge,       \* swapThrashResumeMaxAge
    EventGap,        \* resourceCleanupTelemetryMinInterval
    MaxTime,         \* bound: the clock, by scene
    MaxChanges,      \* bound: changes of the trees and of the policy file
    MaxStops         \* bound: times the resident ends, by signal, error or crash, by scene

ASSUME ResidentAssumption ==
    /\ Scenes \subseteq {"relief", "storm", "cleanup"}
    /\ Roots \subseteq Nat /\ IsFiniteSet(Roots)
    /\ {CooldownTime, RetryTime, Sustain, Baseline, Window, ResumeAge, EventGap} \subseteq Nat \ {0}
    /\ MinAge \in Nat
    /\ MaxTime \in [Scenes -> Nat] /\ MaxStops \in [Scenes -> Nat]
    /\ MaxChanges \in Nat

VARIABLES
    scene,      \* which inputs vary
    now,        \* the clock
    tree,       \* the agent tree of each root PID
    policyFile, \* policy.json: "shed", "observe" or "unreadable"
    runtime,    \* runtime.json: "none", "unclean" or "clean"
    hint,       \* recovery-hint.json exists
    latest,     \* latest.json
    rows,       \* telemetry: starts, stops and swap transitions
    notes,      \* telemetry: cleanup errors and recoveries
    actions,    \* the action ledger
    torn,       \* the action ledger ends in half a row
    pc,         \* where the resident is
    mem,        \* the memory of the resident's monitor
    pending,    \* the relief in progress
    changes, stops,  \* used up bounds
    ghost       \* history for the properties

vars == <<scene, now, tree, policyFile, runtime, hint, latest, rows, notes, actions, torn,
          pc, mem, pending, changes, stops, ghost>>
disk == <<runtime, hint, latest, rows, notes, actions, torn>>
host == <<scene, tree, policyFile, changes>>

Max2(a, b) == IF a > b THEN a ELSE b
Min2(a, b) == IF a < b THEN a ELSE b
Never == -100   \* a zero time.Time

(***************************************************************************)
(* Agent trees.  A tree is the session its root process belongs to, when   *)
(* it began, its CPU, the semantic state, and how many descendants it has  *)
(* gained; a PID that is reused is a new, young session.                   *)
(***************************************************************************)
Tree == [session: Nat, born: Int, cpu: {"idle", "active", "unknown"},
         state: {"ready", "busy", "unknown"}, kids: Nat, gone: BOOLEAN]

NewTree(s) == [session |-> s, born |-> now, cpu |-> "idle", state |-> "unknown", kids |-> 0, gone |-> FALSE]
SettledTree == [NewTree(0) EXCEPT !.born = -MinAge]

\* What annotateQuiescence and the final revalidation ask of one sample.
Quiet(t) == ~t.gone /\ now - t.born >= MinAge /\ t.cpu = "idle"

\* The streaks of quiet samples are kept by root PID.
AnnotateQuiescence(streak, seen) ==
    [r \in Roots |-> IF Quiet(seen[r]) THEN Min2(streak[r] + 1, Sustain) ELSE 0]

Key(r, t) == <<r, t.session>>

Eligible(m, seen) ==
    {r \in Roots : /\ Quiet(seen[r]) /\ m.streak[r] >= Sustain
                   /\ seen[r].state # "busy" /\ Key(r, seen[r]) \notin m.rejected}

\* Ready trees first, then the heaviest: the lower root.
SelectReliefCandidate(m, seen) ==
    LET e     == Eligible(m, seen)
        ready == {r \in e : seen[r].state = "ready"}
        best  == IF ready # {} THEN ready ELSE e
    IN  {r \in best : \A s \in best : r <= s}

(***************************************************************************)
(* The swap-thrash latch.                                                  *)
(***************************************************************************)
NoLatch == [latched |-> FALSE, hot |-> 0, calm |-> 0, since |-> Never, quiet |-> Never,
            proven |-> FALSE, external |-> FALSE, extSince |-> Never, extTotal |-> 0,
            cause |-> "none", lastRelease |-> Never, resumed |-> FALSE]

\* swap-out at or above the thrash rate, at or below the release rate,
\* between the two, or not known
Rates == {"hot", "calm", "mid", "none"}

Observe(l, rate) ==
    LET hot  == IF rate = "hot" THEN Min2(l.hot + 1, 2) ELSE 0
        calm == IF rate = "calm" THEN Min2(l.calm + 1, 2) ELSE 0
    IN  IF rate = "none" THEN NoLatch
        ELSE [l EXCEPT !.hot = hot, !.calm = calm,
                       !.latched = (l.latched \/ hot >= 2) /\ ~(calm >= 2)]

SetExternal(l, ext) ==
    IF ext = l.external THEN l
    ELSE IF ext THEN [l EXCEPT !.external = TRUE, !.extSince = now]
    ELSE [l EXCEPT !.external = FALSE, !.extSince = Never, !.extTotal = @ + (now - l.extSince)]

\* Whose storm it is: leased work is a large part of the memory demand, or it
\* has been small for the window, now or earlier in this episode.
Attribute(l, large) ==
    LET quiet  == IF l.quiet = Never THEN now ELSE l.quiet
        proven == l.proven \/ now - quiet >= Window
    IN  IF large
        THEN [SetExternal(l, FALSE) EXCEPT !.quiet = Never, !.cause = "agents"]
        ELSE [SetExternal(l, proven) EXCEPT !.quiet = quiet, !.proven = proven,
                                            !.cause = IF proven THEN "external" ELSE "unattributed"]

Transition(state, l) ==
    [event |-> state, at |-> now, since |-> l.since, cause |-> l.cause, resumed |-> FALSE, ext |-> 0]

\* advance: the new latch and the transition rows of one sample.
Advance(l, rate, large) ==
    LET o == Observe(l, rate)
    IN  CASE ~l.latched /\ o.latched ->
              LET fresh == [NoLatch EXCEPT !.latched = TRUE, !.hot = o.hot, !.calm = o.calm, !.since = now,
                                           !.lastRelease = l.lastRelease,
                                           !.proven = l.lastRelease # Never /\ now - l.lastRelease < Window]
                  a     == Attribute(fresh, large)
              IN  [latch |-> a, out |-> <<Transition("entered", a)>>]
          [] l.latched /\ ~o.latched ->
              LET total == l.extTotal + (IF l.external THEN now - l.extSince ELSE 0)
              IN  [latch |-> [NoLatch EXCEPT !.hot = o.hot, !.calm = o.calm,
                                             !.lastRelease = IF l.proven THEN now ELSE Never],
                   out   |-> <<[Transition("released", l) EXCEPT
                                  !.cause = IF l.proven THEN "external" ELSE l.cause, !.ext = total]>>]
          [] l.latched /\ o.latched ->
              LET a == [Attribute(o, large) EXCEPT !.resumed = FALSE]
              IN  [latch |-> a,
                   out   |-> IF l.resumed THEN <<[Transition("entered", a) EXCEPT !.resumed = TRUE]>>
                             ELSE IF a.external = l.external THEN <<>>
                             ELSE <<Transition(IF a.external THEN "derate_released" ELSE "derate_resumed", a)>>]
          [] OTHER -> [latch |-> o, out |-> <<>>]

\* A restarted resident continues the episode of a recent latest.json.
Resume ==
    IF latest.latched /\ now - latest.at <= ResumeAge
    THEN LET ext == latest.cause = "external"
         IN  [NoLatch EXCEPT !.latched = TRUE, !.hot = 2, !.since = latest.since, !.cause = latest.cause,
                             !.resumed = TRUE, !.proven = ext, !.external = ext,
                             !.extSince = IF ext THEN latest.at ELSE Never]
    ELSE NoLatch

(***************************************************************************)
(* ReadSwapThrashEpisodes: what the rows say of the episodes.              *)
(***************************************************************************)
NoEpisodes == [count |-> 0, seconds |-> 0, external |-> 0, longest |-> 0, interrupted |-> 0,
               open |-> FALSE, suspended |-> FALSE, start |-> Never, cut |-> Never,
               extSince |-> Never, ext |-> 0]

ExternalUntil(s, end) == s.ext + (IF s.extSince = Never THEN 0 ELSE Max2(0, end - s.extSince))

CloseEpisode(s, end, ext) ==
    LET length == Max2(0, end - s.start)
    IN  [s EXCEPT !.seconds = @ + length, !.external = @ + Min2(length, Max2(0, ext)),
                  !.longest = Max2(@, length), !.open = FALSE, !.suspended = FALSE,
                  !.extSince = Never, !.ext = 0]

Interrupt(s, end) == [CloseEpisode(s, end, ExternalUntil(s, end)) EXCEPT !.interrupted = @ + 1]
EndSuspended(s) == IF s.open /\ s.suspended THEN Interrupt(s, s.cut) ELSE s
NeverContinues(s, row) == FALSE
Continues(s, row) == s.open /\ s.suspended /\ row.since # Never /\ row.since = s.start

Opened(s, row) ==
    LET done == IF EndSuspended(s).open THEN Interrupt(s, row.at) ELSE EndSuspended(s)
    IN  [done EXCEPT !.count = @ + 1, !.open = TRUE, !.ext = 0,
                     !.start = IF row.resumed /\ row.since # Never THEN Min2(row.since, row.at) ELSE row.at,
                     !.extSince = IF row.cause = "external" THEN row.at ELSE Never]

EpisodeStep(s, row) ==
    CASE row.event \in {"resident_started", "resident_stopped"} ->
            IF s.open /\ ~s.suspended THEN [s EXCEPT !.suspended = TRUE, !.cut = row.at] ELSE s
      [] row.event = "entered" ->
            IF row.resumed /\ Continues(s, row)
            THEN [s EXCEPT !.suspended = FALSE,
                           !.extSince = IF row.cause = "external" /\ @ = Never THEN row.at ELSE @]
            ELSE Opened(s, row)
      [] row.event = "derate_released" ->
            IF s.open /\ ~s.suspended /\ s.extSince = Never THEN [s EXCEPT !.extSince = row.at] ELSE s
      [] row.event = "derate_resumed" ->
            IF s.open /\ ~s.suspended THEN [s EXCEPT !.ext = ExternalUntil(s, row.at), !.extSince = Never] ELSE s
      [] row.event = "released" ->
            LET k == IF Continues(s, row) THEN [s EXCEPT !.suspended = FALSE] ELSE EndSuspended(s)
                e == IF k.open THEN k ELSE [k EXCEPT !.count = @ + 1, !.start = row.since]
            IN  CloseEpisode(e, row.at, IF row.ext > 0 THEN row.ext ELSE ExternalUntil(e, row.at))

EpisodesIn(told) ==
    LET after[n \in 0..Len(told)] ==
            IF n = 0 THEN NoEpisodes ELSE EpisodeStep(after[n - 1], told[n])
    IN  after[Len(told)]

\* The open episode is counted up to the time of the reading.
SummarizeSwapThrashEpisodes ==
    LET s == EndSuspended(EpisodesIn(rows))
    IN  IF s.open THEN [CloseEpisode(s, now, ExternalUntil(s, now)) EXCEPT !.open = TRUE] ELSE s

(***************************************************************************)
(* The start of a resident: run() in cmd/session-pressure-helper.          *)
(***************************************************************************)
NoCleanup == [err |-> "", last |-> Never, pendErr |-> FALSE, pendRec |-> FALSE]

NoMem == [policy |-> "none", level |-> "none", consec |-> 0, normals |-> 0,
          streak |-> [r \in Roots |-> 0], lastAttempt |-> Never, lastReval |-> Never,
          rejected |-> {}, latch |-> NoLatch, cleanup |-> NoCleanup]

Idle == [root |-> -1, at |-> Never, judged |-> SettledTree, result |-> "none", sent |-> FALSE]

Init ==
    /\ scene \in Scenes
    /\ now = 0
    /\ tree = [r \in Roots |-> SettledTree]
    /\ policyFile = "shed"
    /\ runtime = "none" /\ hint = FALSE
    /\ latest = [at |-> Never, latched |-> FALSE, cause |-> "none", since |-> Never]
    /\ rows = <<>> /\ notes = <<>> /\ actions = {} /\ torn = FALSE
    /\ pc = "down" /\ mem = NoMem /\ pending = Idle
    /\ changes = 0 /\ stops = 0
    /\ ghost = [signals |-> {}, lost |-> {}, owed |-> FALSE, overruled |-> FALSE,
                quiet |-> [r \in Roots |-> <<0, 0>>], sampled |-> Never, outage |-> FALSE, truth |-> <<>>, cut |-> Never,
                unpublished |-> FALSE, blind |-> FALSE]

\* The kernel drops the authority of a dead process, so a resident can start
\* whenever there is none, unless it cannot read its policy.
Start ==
    /\ pc = "down" /\ policyFile # "unreadable"
    /\ pc' = "hint"
    /\ mem' = [NoMem EXCEPT !.policy = policyFile]
    /\ pending' = Idle
    /\ UNCHANGED <<now, host, disk, stops, ghost>>

\* StartLifecycle leaves the hint first, and then marks itself running.
RecordHint ==
    /\ pc = "hint"
    /\ pc' = "runtime"
    /\ hint' = (hint \/ runtime = "unclean")
    /\ ghost' = [ghost EXCEPT !.owed = @ /\ ~hint']
    /\ UNCHANGED <<now, host, runtime, latest, rows, notes, actions, torn, mem, pending, stops>>

RecordRuntime ==
    /\ pc = "runtime"
    /\ pc' = "begin"
    /\ runtime' = "unclean"
    /\ UNCHANGED <<now, host, hint, latest, rows, notes, actions, torn, mem, pending, stops, ghost>>

\* An episode that is open in the rows, and when the rows first show that the
\* resident which saw it is gone.
Open == ghost.truth # <<>> /\ ghost.truth[Len(ghost.truth)].end = Never
CutAt(wrote) == IF Open /\ ghost.cut = Never /\ wrote THEN now ELSE ghost.cut
EndLast(at) == [ghost.truth EXCEPT ![Len(ghost.truth)].end = at]
\* Start and stop rows are kept where a storm makes them matter: a resident
\* that cannot read its ledger restarts, and writes them, without end.
WithBoundary(event) == IF scene = "storm" THEN Append(rows, Transition(event, NoLatch)) ELSE rows

Recent == {a \in actions : a.at >= now - Max2(CooldownTime, RetryTime)}
Latest(times) == IF times = {} THEN Never ELSE CHOOSE t \in times : \A u \in times : u <= t

ForgetCooldown(m) == m
\* The action history a restarted monitor takes over from the ledger.
LoadCooldown(m) ==
    LET rej == {a \in Recent : a.result = "rejected"}
    IN  [m EXCEPT !.rejected = {a.key : a \in rej}, !.lastReval = Latest({a.at : a \in rej}),
                  !.lastAttempt = Latest({a.at : a \in Recent \ rej})]

\* The start row, which may be lost, and the head of Monitor.Run: the episode
\* of latest.json, and the ledger, without which nothing is done.
BeginRun ==
    /\ pc = "begin"
    /\ \E wrote \in IF scene = "storm" THEN BOOLEAN ELSE {TRUE} :
        LET cut == CutAt(wrote)
            over == Open /\ ~Resume.latched
        IN  /\ rows' = IF wrote THEN WithBoundary("resident_started") ELSE rows
            /\ ghost' = [ghost EXCEPT !.blind = @ \/ (Open /\ cut = Never),
                                      !.cut = IF over THEN Never ELSE cut,
                                      !.truth = IF over THEN EndLast(cut) ELSE @,
                                      !.quiet = [r \in Roots |-> <<0, 0>>],
                                      !.sampled = Never, !.outage = FALSE]
    /\ IF torn THEN pc' = "stopping" /\ UNCHANGED mem
       ELSE pc' = "sample" /\ mem' = [LoadCooldown(mem) EXCEPT !.latch = Resume]
    /\ UNCHANGED <<now, host, runtime, hint, latest, notes, actions, torn, pending, stops>>

(***************************************************************************)
(* One round of Monitor.Run.                                               *)
(***************************************************************************)
Counted(m, level) ==
    [m EXCEPT !.level = level,
              !.consec = IF level = m.level THEN Min2(@ + 1, Sustain) ELSE 1,
              !.normals = IF level = "normal" THEN Min2(@ + 1, Baseline) ELSE @,
              !.streak = AnnotateQuiescence(@, tree),
              !.rejected = IF level = "critical" THEN @ ELSE {},
              !.lastReval = IF level = "critical" THEN @ ELSE Never]

\* maybeRelieveExcluding: the first reading of the persisted policy included.
MayRelieve(m) ==
    /\ m.policy = "shed" /\ m.level = "critical"
    /\ m.normals >= Baseline /\ m.consec >= Sustain
    /\ now - m.lastAttempt >= CooldownTime
    /\ now - m.lastReval >= RetryTime
    /\ policyFile = m.policy

\* What the samples of this resident showed of each session, for SignalJustified.
QuietSeen ==
    [r \in Roots |-> IF ~Quiet(tree[r]) THEN <<tree[r].session, 0>>
                     ELSE <<tree[r].session,
                            IF ghost.quiet[r][1] = tree[r].session THEN Min2(ghost.quiet[r][2] + 1, Sustain) ELSE 1>>]

\* The samples are so far apart that a session can start and grow old between two of them.
Outage == ghost.outage \/ (ghost.sampled # Never /\ now - ghost.sampled >= MinAge)

\* The episodes that really were, as far as their rows were written.
Episodes(out) ==
    CASE out = <<>> -> ghost
      [] out # <<>> /\ out[1].event = "released" ->
            [ghost EXCEPT !.truth = EndLast(now), !.cut = Never, !.unpublished = TRUE]
      [] out # <<>> /\ out[1].event = "entered" /\ ~out[1].resumed ->
            [ghost EXCEPT !.truth = Append(@, [start |-> now, end |-> Never])]
      [] OTHER -> [ghost EXCEPT !.cut = Never]

\* A sample, what it does to the monitor's memory and to the latch, and the
\* choice of a candidate.  The swap row may fail to be written: Run returns.
SampleRound(level, rate, large) ==
    LET m   == Counted(mem, level)
        adv == Advance(mem.latch, rate, large)
        m2  == [m EXCEPT !.latch = adv.latch]
        c   == SelectReliefCandidate(m2, tree)
    IN  /\ pc = "sample"
        /\ mem' = m2
        /\ \/ /\ adv.out # <<>> /\ stops < MaxStops[scene]
              /\ pc' = "stopping" /\ stops' = stops + 1
              /\ UNCHANGED <<rows, ghost, pending>>
           \/ /\ rows' = rows \o adv.out
              /\ ghost' = [Episodes(adv.out) EXCEPT !.quiet = QuietSeen, !.sampled = now,
                                                      !.outage = Outage, !.overruled = FALSE]
              /\ IF MayRelieve(m2) /\ c # {}
                 THEN \E r \in c : /\ pending' = [Idle EXCEPT !.root = r, !.at = now, !.judged = tree[r]]
                                   /\ pc' = "final"
                 ELSE pending' = Idle /\ pc' = "cleanup"
              /\ UNCHANGED stops
        /\ UNCHANGED <<now, host, runtime, hint, latest, notes, actions, torn>>

Sample ==
    \/ scene = "relief" /\ \E level \in {"normal", "critical"} : SampleRound(level, "calm", FALSE)
    \/ scene = "storm" /\ \E rate \in Rates, large \in BOOLEAN :
            (rate \in {"none", "calm"} => ~large) /\ SampleRound("normal", rate, large)
    \/ scene = "cleanup" /\ SampleRound("normal", "calm", FALSE)

\* The sampler failed: only counters and a telemetry row that is best effort.
SampleFails ==
    /\ pc = "sample" /\ scene = "relief"
    /\ pc' = "wait"
    /\ UNCHANGED <<now, host, disk, mem, pending, stops, ghost>>

(***************************************************************************)
(* Terminate: the final revalidation, the last look at the policy, SIGTERM *)
(***************************************************************************)
\* The tree is still the one that was judged, no busier and no larger.
StillJudged(t, judged) ==
    /\ ~t.gone /\ t.session = judged.session
    /\ t.state # "busy" /\ (judged.state = "ready" => t.state = "ready")
    /\ t.kids <= judged.kids
    /\ Quiet(t)

Rejected == pc' = "append" /\ pending' = [pending EXCEPT !.result = "rejected"]

FinalSample ==
    /\ pc = "final"
    /\ \/ \E level \in {"normal", "critical"} :
            IF level = "critical" /\ StillJudged(tree[pending.root], pending.judged)
            THEN pc' = "policy" /\ UNCHANGED pending
            ELSE Rejected
       \/ pc' = "append" /\ pending' = [pending EXCEPT !.result = "error"]
    /\ UNCHANGED <<now, host, disk, mem, stops, ghost>>

TrustLoadedPolicy ==
    /\ pc = "policy"
    /\ pc' = "send"
    /\ UNCHANGED <<now, host, disk, mem, pending, stops, ghost>>
\* Policy can change while the complete final sample is running.
FinalPolicy ==
    /\ pc = "policy"
    /\ IF policyFile = mem.policy THEN pc' = "send" /\ UNCHANGED pending ELSE Rejected
    /\ UNCHANGED <<now, host, disk, mem, stops, ghost>>

\* SIGTERM to the tree: it exits, it does not in time, or a signal fails.
Send ==
    /\ pc = "send"
    /\ pc' = "append"
    /\ \E out \in {"tree_exit_confirmed", "signal_sent_unconfirmed", "error"} :
        /\ pending' = [pending EXCEPT !.result = out, !.sent = TRUE]
        /\ tree' = IF out = "tree_exit_confirmed" THEN [tree EXCEPT ![pending.root].gone = TRUE] ELSE tree
    /\ ghost' = [ghost EXCEPT !.signals = @ \cup {pending.at}]
    /\ UNCHANGED <<scene, now, policyFile, changes, disk, mem, stops>>

\* The action row and what it leaves in memory.
Acted(m) ==
    IF pending.result = "rejected"
    THEN [m EXCEPT !.rejected = @ \cup {Key(pending.root, pending.judged)}, !.lastReval = pending.at]
    ELSE [m EXCEPT !.lastAttempt = pending.at]

RowLost == [ghost EXCEPT !.lost = IF pc = "append" /\ pending.sent THEN @ \cup {pending.at} ELSE @,
                         !.blind = @ \/ ghost.unpublished]

AppendAction ==
    /\ pc = "append"
    /\ \/ /\ actions' = actions \cup {[at |-> pending.at, key |-> Key(pending.root, pending.judged),
                                       result |-> pending.result]}
          /\ mem' = Acted(mem)
          /\ pc' = "publish"
          /\ UNCHANGED <<stops, ghost>>
       \/ /\ stops < MaxStops[scene] /\ stops' = stops + 1
          /\ pc' = "stopping" /\ ghost' = RowLost
          /\ UNCHANGED <<actions, mem>>
    /\ UNCHANGED <<now, host, runtime, hint, latest, rows, notes, torn, pending>>

(***************************************************************************)
(* The cleanup extension, when no tree was acted on, and its telemetry.    *)
(***************************************************************************)
Due(c) == c.last = Never \/ now - c.last >= EventGap

\* The state after an outcome, before the row that is due is written.
CleanupState(c, err) ==
    IF err # "" THEN [c EXCEPT !.err = err, !.pendErr = @ \/ err # c.err,
                               !.pendRec = @ /\ err = c.err]
    ELSE IF c.err # "" THEN [c EXCEPT !.err = "", !.pendRec = ~c.pendErr, !.pendErr = FALSE]
    ELSE c

RunResourceCleanup ==
    /\ pc = "cleanup"
    /\ pc' = "publish"
    /\ \E err \in IF scene = "cleanup" THEN {"", "a", "b"} ELSE {""}, wrote \in BOOLEAN :
        LET c    == CleanupState(mem.cleanup, err)
            note == IF err # "" THEN "error" ELSE "recovered"
            due  == Due(c) /\ (IF err # "" THEN c.pendErr ELSE c.pendRec)
        IN  /\ wrote => due
            /\ IF wrote
               THEN /\ notes' = Append(notes, note)
                    /\ mem' = [mem EXCEPT !.cleanup = [c EXCEPT !.last = now, !.pendErr = FALSE,
                                            !.pendRec = IF err = "" THEN FALSE ELSE @]]
               ELSE mem' = [mem EXCEPT !.cleanup = c] /\ UNCHANGED notes
    /\ UNCHANGED <<now, host, runtime, hint, latest, rows, actions, torn, pending, stops, ghost>>

\* WriteLatest, an atomic replacement; without it Run returns.
Publish ==
    /\ pc = "publish"
    /\ \/ /\ latest' = [at |-> now, latched |-> mem.latch.latched, cause |-> mem.latch.cause,
                        since |-> mem.latch.since]
          /\ pc' = "wait"
          /\ ghost' = [ghost EXCEPT !.unpublished = FALSE]
          /\ UNCHANGED stops
       \/ /\ stops < MaxStops[scene] /\ stops' = stops + 1
          /\ pc' = "stopping" /\ ghost' = RowLost
          /\ UNCHANGED latest
    /\ UNCHANGED <<now, host, runtime, hint, rows, notes, actions, torn, mem, pending>>

(***************************************************************************)
(* The end of a resident, and time.                                        *)
(***************************************************************************)
StopSignal ==
    /\ pc = "wait" /\ stops < MaxStops[scene]
    /\ pc' = "stopping" /\ stops' = stops + 1
    /\ UNCHANGED <<now, host, disk, mem, pending, ghost>>

\* The deferred calls of run(): the stop row, the clean mark; each best effort.
AppendStopped ==
    /\ pc = "stopping"
    /\ pc' = "marking"
    /\ \E wrote \in IF scene = "storm" THEN BOOLEAN ELSE {TRUE} :
        /\ rows' = IF wrote THEN WithBoundary("resident_stopped") ELSE rows
        /\ ghost' = [ghost EXCEPT !.cut = CutAt(wrote)]
    /\ UNCHANGED <<now, host, runtime, hint, latest, notes, actions, torn, mem, pending, stops>>

MarkClean ==
    /\ pc = "marking"
    /\ pc' = "down"
    /\ runtime' \in IF scene = "relief" THEN {"clean", runtime} ELSE {"clean"}
    /\ UNCHANGED <<now, host, hint, latest, rows, notes, actions, torn, mem, pending, stops, ghost>>

\* The process is killed, or the host goes down with it.
Crash ==
    /\ pc # "down" /\ stops < MaxStops[scene]
    /\ pc' = "down" /\ stops' = stops + 1
    /\ torn' \in IF pc = "append" THEN BOOLEAN ELSE {torn}
    /\ mem' = NoMem /\ pending' = Idle
    /\ ghost' = [RowLost EXCEPT !.owed = runtime = "unclean"]
    /\ UNCHANGED <<now, host, runtime, hint, latest, rows, notes, actions>>

Tick ==
    /\ pc \in {"wait", "down"} /\ now < MaxTime[scene]
    /\ now' = now + 1
    /\ pc' = IF pc = "wait" THEN "sample" ELSE pc
    /\ UNCHANGED <<host, disk, mem, pending, stops, ghost>>

(***************************************************************************)
(* The host and the operator.  A change of a tree or of the policy file is *)
(* made just before the step that would read it: earlier in the round it   *)
(* makes no difference.                                                    *)
(***************************************************************************)
Changed(t) ==
    IF t.gone THEN {NewTree(t.session + 1)}
    ELSE {[t EXCEPT !.gone = TRUE], NewTree(t.session + 1), [t EXCEPT !.kids = @ + 1]}
         \cup {[t EXCEPT !.cpu = c] : c \in {"idle", "active", "unknown"} \ {t.cpu}}
         \cup {[t EXCEPT !.state = c] : c \in {"ready", "busy", "unknown"} \ {t.state}}

TreeChanges ==
    /\ scene = "relief" /\ changes < MaxChanges /\ pc \in {"sample", "final"}
    /\ changes' = changes + 1
    /\ \E r \in Roots : \E t \in Changed(tree[r]) : tree' = [tree EXCEPT ![r] = t]
    /\ UNCHANGED <<scene, now, policyFile, disk, pc, mem, pending, stops, ghost>>

\* policy observe, policy shed, uninstall; also while a relief is under way.
PolicyChanges ==
    /\ scene = "relief" /\ changes < MaxChanges /\ pc \in {"down", "sample", "final", "policy"}
    /\ changes' = changes + 1
    /\ policyFile' \in {"shed", "observe", "unreadable"} \ {policyFile}
    /\ ghost' = [ghost EXCEPT !.overruled = pc \in {"final", "policy"} /\ policyFile' # mem.policy]
    /\ UNCHANGED <<scene, now, tree, disk, pc, mem, pending, stops>>

\* The operator has read the hint.
ClearRecoveryHint ==
    /\ hint /\ pc = "wait"
    /\ hint' = FALSE
    /\ UNCHANGED <<now, host, runtime, latest, rows, notes, actions, torn, pc, mem, pending, stops, ghost>>

Done == now = MaxTime[scene] /\ pc \in {"wait", "down"} /\ UNCHANGED vars

Next ==
    \/ Start \/ RecordHint \/ RecordRuntime \/ BeginRun
    \/ Sample \/ SampleFails \/ FinalSample \/ FinalPolicy \/ Send \/ AppendAction
    \/ RunResourceCleanup \/ Publish
    \/ StopSignal \/ AppendStopped \/ MarkClean \/ Crash \/ Tick
    \/ TreeChanges \/ PolicyChanges \/ ClearRecoveryHint \/ Done

Spec == Init /\ [][Next]_vars

(***************************************************************************)
(* Properties.                                                             *)
(***************************************************************************)
\* The shape of the state: what is on disk, in memory and in progress.
TypeOK ==
    /\ tree \in [Roots -> Tree] /\ policyFile \in {"shed", "observe", "unreadable"}
    /\ runtime \in {"none", "unclean", "clean"} /\ hint \in BOOLEAN /\ torn \in BOOLEAN
    /\ pc \in {"down", "hint", "runtime", "begin", "sample", "final", "policy", "send", "append",
               "cleanup", "publish", "wait", "stopping", "marking"}
    /\ pending.root \in Roots \cup {-1}
    /\ mem.streak \in [Roots -> 0..Sustain] /\ mem.consec \in 0..Sustain /\ mem.normals \in 0..Baseline
    /\ mem.latch.latched => mem.latch.since \in 0..now
    /\ mem.latch.external => mem.latch.proven /\ mem.latch.extSince \in 0..now

\* A tree is about to get SIGTERM only if this resident saw that very session
\* quiet in Sustain consecutive samples, unless they failed for long enough for a
\* successor to grow old, under sustained critical pressure, and no policy the
\* operator stored while the tree was being revalidated says otherwise ("an operator downgrade that lands during revalidation wins").
SignalJustified ==
    /\ TypeOK
    /\ pc = "send" =>
        /\ ghost.outage \/ ghost.quiet[pending.root] = <<pending.judged.session, Sustain>>
        /\ mem.consec >= Sustain /\ mem.level = "critical"
        /\ ~ghost.overruled

\* Two trees are never signalled within one cooldown, however often the
\* resident is restarted in between, unless the row of the first was lost: the
\* resident died, or the write failed, between the signal and AppendAction.
CooldownHonoured ==
    \A s, t \in ghost.signals : s < t /\ t - s < CooldownTime => s \in ghost.lost

\* Once a resident runs, the recovery hint for a predecessor that died has been
\* stored, wherever in its own start an earlier successor died.
UncleanTold == pc \in {"begin", "sample", "cleanup", "publish", "wait"} => ~ghost.owed

\* A row that says the cleanup extension recovered follows a row that says it
\* failed, although failures are reported late, at most one row per interval.
RecoveryTold ==
    \A i \in DOMAIN notes : notes[i] = "recovered" => i > 1 /\ notes[i - 1] = "error"

Length(e, at) == (IF e.end = Never THEN at ELSE e.end) - e.start
LatchedTime(truth, at) ==
    LET upto[n \in 0..Len(truth)] == IF n = 0 THEN 0 ELSE upto[n - 1] + Length(truth[n], at)
    IN  upto[Len(truth)]

\* The episodes the summary reconstructs from the rows are those that were:
\* as many, as long in total, and open only if the last one is.  An episode
\* that a resident carried over a restart counts once.  Excepted are histories
\* in which both boundary rows of a restart were lost, or a resident ended
\* between a release row and latest.json.
EpisodesTold ==
    pc = "wait" /\ ~ghost.blind =>
        LET s == SummarizeSwapThrashEpisodes
        IN  /\ s.count = Len(ghost.truth)
            /\ s.seconds = LatchedTime(ghost.truth, now)
            /\ s.open = mem.latch.latched
            /\ s.external <= s.seconds

\* What the state directory tells of the residents that died and of the episodes they
\* saw is what happened (StartLifecycle, the cleanup notes, SummarizeSwapThrashEpisodes).
RecordsTold == EpisodesTold /\ RecoveryTold /\ UncleanTold

=============================================================================
