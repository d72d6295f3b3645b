---------------------------- MODULE ResidentProofs ----------------------------
(***************************************************************************)
(* Theorems about the resident: for any agent trees, cooldowns and sample  *)
(* counts, any changes of the trees and the policy, and any deaths.        *)
(***************************************************************************)
EXTENDS Resident, TLAPS, WellFoundedInduction, SequenceTheorems

LEMMA Constants ==
    /\ CooldownTime \in Nat \ {0} /\ RetryTime \in Nat \ {0} /\ Sustain \in Nat \ {0}
    /\ Baseline \in Nat \ {0} /\ Window \in Nat /\ ResumeAge \in Nat /\ MinAge \in Nat /\ Roots \subseteq Nat
BY ResidentAssumption

(***************************************************************************)
(* The swap-thrash latch.                                                  *)
(***************************************************************************)
LatchFields == {"latched", "hot", "calm", "since", "quiet", "proven", "external", "extSince", "extTotal",
                "cause", "lastRelease", "resumed"}
IsLatch(l) == DOMAIN l = LatchFields /\ l.latched \in BOOLEAN /\ l.proven \in BOOLEAN /\ l.external \in BOOLEAN
LatchSound(l) ==
    /\ IsLatch(l)
    /\ l.latched => l.since \in 0..now
    /\ l.external => l.proven /\ l.extSince \in 0..now

LEMMA NoLatchSound == LatchSound(NoLatch) /\ ~NoLatch.latched /\ ~NoLatch.external
BY DEF NoLatch, IsLatch, LatchSound, LatchFields

LEMMA ObserveSound ==
    ASSUME NEW l, LatchSound(l), NEW rate \in Rates
    PROVE  /\ IsLatch(Observe(l, rate))
           /\ Observe(l, rate).external => Observe(l, rate).proven /\ Observe(l, rate).extSince \in 0..now
           /\ Observe(l, rate).since = l.since \/ ~Observe(l, rate).latched
<1>1. CASE rate = "none"
  BY <1>1, NoLatchSound DEF Observe, LatchSound
<1>2. CASE rate # "none"
  <2>1. ASSUME NEW hot, NEW calm, NEW b \in BOOLEAN,
               Observe(l, rate) = [l EXCEPT !.hot = hot, !.calm = calm, !.latched = b]
        PROVE  /\ IsLatch(Observe(l, rate))
               /\ Observe(l, rate).external = l.external /\ Observe(l, rate).proven = l.proven
               /\ Observe(l, rate).extSince = l.extSince /\ Observe(l, rate).since = l.since
    BY <2>1 DEF LatchSound, IsLatch, LatchFields
  <2>2. \E hot, calm : \E b \in BOOLEAN : Observe(l, rate) = [l EXCEPT !.hot = hot, !.calm = calm, !.latched = b]
    BY <1>2 DEF Observe
  <2>. QED BY <2>1, <2>2 DEF LatchSound
<1>. QED BY <1>1, <1>2

LEMMA SetExternalSound ==
    ASSUME NEW l, IsLatch(l), NEW ext \in BOOLEAN, now \in Nat, l.external => l.extSince \in 0..now
    PROVE  /\ IsLatch(SetExternal(l, ext))
           /\ SetExternal(l, ext).external = ext
           /\ ext => SetExternal(l, ext).extSince \in 0..now
           /\ SetExternal(l, ext).since = l.since /\ SetExternal(l, ext).latched = l.latched
<1>1. CASE ext = l.external
  BY <1>1 DEF SetExternal
<1>2. CASE ext # l.external /\ ext = TRUE
  <2>1. SetExternal(l, ext) = [l EXCEPT !.external = TRUE, !.extSince = now]
    BY <1>2 DEF SetExternal
  <2>. QED BY <1>2, <2>1 DEF IsLatch, LatchFields
<1>3. CASE ext # l.external /\ ext = FALSE
  <2>1. \E t : SetExternal(l, ext) = [l EXCEPT !.external = FALSE, !.extSince = Never, !.extTotal = t]
    BY <1>3 DEF SetExternal
  <2>. QED BY <1>3, <2>1 DEF IsLatch, LatchFields
<1>. QED BY <1>1, <1>2, <1>3

LEMMA AttributeSound ==
    ASSUME NEW l, IsLatch(l), l.latched => l.since \in 0..now, now \in Nat,
           l.external => l.extSince \in 0..now, NEW large \in BOOLEAN
    PROVE  LatchSound(Attribute(l, large))
<1>1. CASE large
  <2>. DEFINE e == SetExternal(l, FALSE)
  <2>1. IsLatch(e) /\ e.external = FALSE /\ e.since = l.since /\ e.latched = l.latched
    BY SetExternalSound
  <2>2. Attribute(l, large) = [e EXCEPT !.quiet = Never, !.cause = "agents"]
    BY <1>1 DEF Attribute
  <2>. HIDE DEF e
  <2>. QED BY <2>1, <2>2 DEF LatchSound, IsLatch, LatchFields
<1>2. CASE ~large
  <2>1. ASSUME NEW quiet, NEW proven \in BOOLEAN, NEW cause,
               Attribute(l, large) = [SetExternal(l, proven) EXCEPT !.quiet = quiet, !.proven = proven, !.cause = cause]
        PROVE  LatchSound(Attribute(l, large))
    <3>. DEFINE e == SetExternal(l, proven)
    <3>1. /\ IsLatch(e) /\ e.external = proven /\ e.since = l.since /\ e.latched = l.latched
          /\ proven => e.extSince \in 0..now
      BY SetExternalSound
    <3>2. Attribute(l, large) = [e EXCEPT !.quiet = quiet, !.proven = proven, !.cause = cause]
      BY <2>1
    <3>. HIDE DEF e
    <3>. QED BY <3>1, <3>2 DEF LatchSound, IsLatch, LatchFields
  <2>2. \E quiet, cause : \E proven \in BOOLEAN : Attribute(l, large) =
            [SetExternal(l, proven) EXCEPT !.quiet = quiet, !.proven = proven, !.cause = cause]
    <3>. DEFINE quiet  == IF l.quiet = Never THEN now ELSE l.quiet
                proven == l.proven \/ now - quiet >= Window
    <3>1. proven \in BOOLEAN
      OBVIOUS
    <3>2. \E cause : Attribute(l, large) =
            [SetExternal(l, proven) EXCEPT !.quiet = quiet, !.proven = proven, !.cause = cause]
      BY <1>2 DEF Attribute
    <3>. HIDE DEF quiet, proven
    <3>. QED BY <3>1, <3>2
  <2>. QED BY <2>1, <2>2
<1>. QED BY <1>1, <1>2

LEMMA AdvanceSound ==
    ASSUME NEW l, LatchSound(l), NEW rate \in Rates, NEW large \in BOOLEAN, now \in Nat
    PROVE  LatchSound(Advance(l, rate, large).latch)
<1>. DEFINE o == Observe(l, rate)
<1>1. /\ IsLatch(o)
      /\ o.external => o.proven /\ o.extSince \in 0..now
      /\ o.since = l.since \/ ~o.latched
  BY ObserveSound
<1>2. CASE ~l.latched /\ o.latched
  <2>1. ASSUME NEW f, NEW hot, NEW calm, NEW last, NEW proven \in BOOLEAN,
               f = [NoLatch EXCEPT !.latched = TRUE, !.hot = hot, !.calm = calm, !.since = now,
                                   !.lastRelease = last, !.proven = proven]
        PROVE  IsLatch(f) /\ f.since = now /\ f.external = FALSE
    BY <2>1 DEF IsLatch, LatchFields, NoLatch
  <2>2. \E hot, calm, last : \E proven \in BOOLEAN : Advance(l, rate, large).latch =
          Attribute([NoLatch EXCEPT !.latched = TRUE, !.hot = hot, !.calm = calm, !.since = now,
                                   !.lastRelease = last, !.proven = proven], large)
    BY <1>2 DEF Advance
  <2>3. PICK f : IsLatch(f) /\ f.since = now /\ f.external = FALSE /\ Advance(l, rate, large).latch = Attribute(f, large)
    BY <2>1, <2>2
  <2>. QED BY <2>3, AttributeSound
<1>3. CASE l.latched /\ ~o.latched
  <2>1. PICK last : Advance(l, rate, large).latch = [NoLatch EXCEPT !.hot = o.hot, !.calm = o.calm, !.lastRelease = last]
    BY <1>3 DEF Advance
  <2>. HIDE DEF o
  <2>. QED BY <2>1 DEF LatchSound, IsLatch, LatchFields, NoLatch
<1>4. CASE l.latched /\ o.latched
  <2>. DEFINE a == Attribute(o, large)
  <2>1. LatchSound(a)
    BY <1>1, <1>4, AttributeSound DEF LatchSound
  <2>2. Advance(l, rate, large).latch = [a EXCEPT !.resumed = FALSE]
    BY <1>4 DEF Advance
  <2>. HIDE DEF a
  <2>. QED BY <2>1, <2>2 DEF LatchSound, IsLatch, LatchFields
<1>5. CASE ~l.latched /\ ~o.latched
  <2>1. Advance(l, rate, large).latch = o
    BY <1>5 DEF Advance
  <2>. QED BY <1>1, <1>5, <2>1 DEF LatchSound
<1>. QED BY <1>2, <1>3, <1>4, <1>5

LEMMA ResumeSound ==
    ASSUME latest.latched => latest.since \in 0..now /\ latest.at \in 0..now
    PROVE  LatchSound(Resume)
<1>1. CASE Resume = NoLatch
  BY <1>1, NoLatchSound
<1>2. CASE Resume # NoLatch
  <2>1. latest.latched
    BY <1>2 DEF Resume
  <2>2. ASSUME NEW ext \in BOOLEAN, NEW cause,
               Resume = [NoLatch EXCEPT !.latched = TRUE, !.hot = 2, !.since = latest.since, !.cause = cause,
                             !.resumed = TRUE, !.proven = ext, !.external = ext,
                             !.extSince = IF ext THEN latest.at ELSE Never]
        PROVE  LatchSound(Resume)
    BY <2>1, <2>2 DEF LatchSound, IsLatch, LatchFields, NoLatch
  <2>3. \E ext \in BOOLEAN, cause \in {latest.cause} :
            Resume = [NoLatch EXCEPT !.latched = TRUE, !.hot = 2, !.since = latest.since, !.cause = cause,
                             !.resumed = TRUE, !.proven = ext, !.external = ext,
                             !.extSince = IF ext THEN latest.at ELSE Never]
    BY <1>2 DEF Resume
  <2>. QED BY <2>2, <2>3
<1>. QED BY <1>1, <1>2

(***************************************************************************)
(* The invariant.                                                          *)
(***************************************************************************)
Places == {"down", "hint", "runtime", "begin", "sample", "final", "policy", "send", "append",
           "cleanup", "publish", "wait", "stopping", "marking"}
Relief == {"final", "policy", "send", "append"}               \* a candidate is being dealt with
Starting == {"hint", "runtime", "begin"}
Live   == Relief \cup {"sample", "cleanup", "publish", "wait"}  \* the monitor runs

MemFields == {"policy", "level", "consec", "normals", "streak", "lastAttempt", "lastReval", "rejected",
              "latch", "cleanup"}
MemTyped(m) ==
    /\ DOMAIN m = MemFields
    /\ m.consec \in 0..Sustain /\ m.normals \in 0..Baseline /\ m.streak \in [Roots -> 0..Sustain]
    /\ m.lastAttempt \in Int

Typed ==
    /\ now \in Nat /\ tree \in [Roots -> Tree]
    /\ policyFile \in {"shed", "observe", "unreadable"}
    /\ runtime \in {"none", "unclean", "clean"} /\ hint \in BOOLEAN /\ torn \in BOOLEAN
    /\ pc \in Places
    /\ latest.latched => latest.since \in 0..now /\ latest.at \in 0..now
    /\ MemTyped(mem) /\ LatchSound(mem.latch)
    /\ DOMAIN pending = {"root", "at", "judged", "result", "sent"}
    /\ pending.root \in Roots \cup {-1}
    /\ DOMAIN ghost = {"signals", "lost", "owed", "overruled", "quiet", "sampled", "outage", "truth", "cut",
                       "unpublished", "blind"}
    /\ \A a \in actions : a.at \in 0..now

\* The candidate of this round, and what was found out about it.
Justified ==
    /\ pc \in Relief => pending.at = now /\ pending.root \in Roots
    /\ pc \in {"final", "policy", "send"} =>
          /\ ~pending.sent /\ mem.consec >= Sustain /\ mem.level = "critical"
          /\ ghost.outage \/ ghost.quiet[pending.root] = <<pending.judged.session, Sustain>>
    /\ pc \in {"final", "policy"} /\ ghost.overruled => policyFile # mem.policy
    /\ pc = "send" => ~ghost.overruled
    /\ pc = "append" /\ pending.sent => pending.result # "rejected"

\* The streaks are what the samples showed of one session: a successor is younger than the
\* last sample.
Shown(r) ==
    /\ ghost.outage \/ mem.streak[r] = ghost.quiet[r][2]
    /\ ghost.quiet[r][2] \in Nat
    /\ ghost.quiet[r][2] > 0 => /\ ghost.sampled # Never /\ ghost.sampled <= now /\ ghost.sampled \in Nat
                                /\ tree[r].session = ghost.quiet[r][1] \/ tree[r].born >= ghost.sampled
Evidence ==
    /\ pc \in Live => \A r \in Roots : Shown(r)
    /\ pc \in Starting => \A r \in Roots : mem.streak[r] = 0

\* Every signal whose row was not lost is on record, and the monitor remembers the recent ones.
Between(s)  == pc = "append" /\ pending.sent /\ pending.at = s
Kept        == ghost.signals \ ghost.lost
HaveLatest  == \A T \in SUBSET {a.at : a \in actions} : T # {} => \E t \in T : \A u \in T : u <= t
OnRecord    == \A s \in Kept : Between(s) \/ \E a \in actions : a.at = s /\ a.result # "rejected"
Remembered  == pc \in Live => \A s \in Kept :
                  now - s < CooldownTime => Between(s) \/ mem.lastAttempt >= s
Rested      == pc \in {"final", "policy", "send"} => \A s \in Kept : now - s >= CooldownTime
CooldownInv ==
    /\ \A s \in ghost.signals : s \in 0..now
    /\ HaveLatest /\ OnRecord /\ Remembered /\ Rested /\ CooldownHonoured

\* A failure of the cleanup extension that is not waiting to be noted has been noted, and so
\* has one whose recovery is waiting.
NotedOf(c) ==
    /\ DOMAIN c = {"err", "last", "pendErr", "pendRec"} /\ c.pendErr \in BOOLEAN /\ c.pendRec \in BOOLEAN
    /\ c.pendRec => c.err = ""
    /\ c.pendRec => notes # <<>> /\ notes[Len(notes)] = "error"
    /\ c.err # "" => c.pendErr \/ (notes # <<>> /\ notes[Len(notes)] = "error")
Noted == notes \in Seq({"error", "recovered"}) /\ RecoveryTold /\ NotedOf(mem.cleanup)

\* The hint for a predecessor that died is owed only before this resident has stored it.
Owed == ghost.owed => pc \in {"down", "hint"} /\ runtime = "unclean"

ResidentInv == Typed /\ Justified /\ Evidence /\ CooldownInv /\ Noted /\ Owed

(***************************************************************************)
(* Types.                                                                  *)
(***************************************************************************)
LEMMA CountedIs ==
    ASSUME Typed, NEW level
    PROVE  /\ MemTyped(Counted(mem, level)) /\ Counted(mem, level).level = level
           /\ Counted(mem, level).streak = AnnotateQuiescence(mem.streak, tree)
           /\ Counted(mem, level).lastAttempt = mem.lastAttempt /\ Counted(mem, level).latch = mem.latch
           /\ Counted(mem, level).policy = mem.policy /\ Counted(mem, level).cleanup = mem.cleanup
<1>1. AnnotateQuiescence(mem.streak, tree) \in [Roots -> 0..Sustain]
  BY Constants DEF Typed, MemTyped, AnnotateQuiescence, Min2
<1>2. \A c \in 0..Sustain : Min2(c + 1, Sustain) \in 0..Sustain /\ 1 \in 0..Sustain
  BY Constants DEF Min2
<1>3. \A c \in 0..Baseline : Min2(c + 1, Baseline) \in 0..Baseline
  BY Constants DEF Min2
<1>4. PICK c, n, x, y :
          /\ c \in 0..Sustain /\ n \in 0..Baseline
          /\ Counted(mem, level) =
                [mem EXCEPT !.level = level, !.consec = c, !.normals = n,
                            !.streak = AnnotateQuiescence(mem.streak, tree), !.rejected = x, !.lastReval = y]
  BY <1>2, <1>3 DEF Counted, Typed, MemTyped
<1>. DEFINE s == AnnotateQuiescence(mem.streak, tree)
<1>. HIDE DEF s
<1>. QED BY <1>1, <1>4 DEF Typed, MemTyped, MemFields, s

LEMMA SampledIs ==
    ASSUME Typed, NEW level, NEW rate \in Rates, NEW large \in BOOLEAN, SampleRound(level, rate, large)
    PROVE  /\ MemTyped(mem') /\ LatchSound(mem'.latch) /\ mem'.level = level
           /\ mem'.streak = AnnotateQuiescence(mem.streak, tree)
           /\ mem'.lastAttempt = mem.lastAttempt /\ mem'.policy = mem.policy /\ mem'.cleanup = mem.cleanup
<1>. DEFINE m == Counted(mem, level)
            l == Advance(mem.latch, rate, large).latch
<1>1. mem' = [m EXCEPT !.latch = l]
  BY DEF SampleRound
<1>2. LatchSound(l)
  BY AdvanceSound DEF Typed
<1>3. /\ MemTyped(m) /\ m.level = level /\ m.streak = AnnotateQuiescence(mem.streak, tree)
      /\ m.lastAttempt = mem.lastAttempt /\ m.policy = mem.policy /\ m.cleanup = mem.cleanup
  BY CountedIs
<1>. HIDE DEF m, l
<1>. QED BY <1>1, <1>2, <1>3 DEF MemTyped, MemFields

\* What a resident takes over from the ledger: the time of the newest attempt.
LEMMA LoadedIs ==
    ASSUME Typed, HaveLatest
    PROVE  /\ LoadCooldown(mem).lastAttempt \in Int
           /\ \A a \in actions : a.result # "rejected" /\ now - a.at < CooldownTime
                    => LoadCooldown(mem).lastAttempt >= a.at
           /\ DOMAIN LoadCooldown(mem) = MemFields
           /\ LoadCooldown(mem).consec = mem.consec /\ LoadCooldown(mem).normals = mem.normals
           /\ LoadCooldown(mem).streak = mem.streak /\ LoadCooldown(mem).latch = mem.latch
           /\ LoadCooldown(mem).cleanup = mem.cleanup
<1>. DEFINE rej   == {a \in Recent : a.result = "rejected"}
            times == {a.at : a \in Recent \ rej}
<1>1. times \in SUBSET {a.at : a \in actions}
  BY DEF Recent
<1>2. times # {} => Latest(times) \in times /\ \A u \in times : u <= Latest(times)
  <2>. HIDE DEF times
  <2>1. times # {} => \E t \in times : \A u \in times : u <= t
    BY <1>1 DEF HaveLatest
  <2>. QED BY <2>1 DEF Latest
<1>3. Latest(times) \in Int
  <2>1. \A t \in times : t \in Int
    BY DEF Recent, Typed
  <2>. HIDE DEF times
  <2>. QED BY <1>2, <2>1 DEF Latest, Never
<1>4. \A a \in actions : a.result # "rejected" /\ now - a.at < CooldownTime => a.at \in times
  <2>1. Max2(CooldownTime, RetryTime) >= CooldownTime /\ Max2(CooldownTime, RetryTime) \in Nat
    BY Constants DEF Max2
  <2>2. ASSUME NEW a \in actions, a.result # "rejected", now - a.at < CooldownTime PROVE a \in Recent \ rej
    BY <2>1, <2>2, Constants DEF Recent, Typed
  <2>. QED BY <2>2
<1>5. \E x, y : LoadCooldown(mem) = [mem EXCEPT !.rejected = x, !.lastReval = y, !.lastAttempt = Latest(times)]
  BY DEF LoadCooldown
<1>. HIDE DEF times
<1>. QED BY <1>2, <1>3, <1>4, <1>5 DEF Typed, MemTyped, MemFields

LEMMA TreeEdits ==
    ASSUME NEW t \in Tree
    PROVE  /\ [t EXCEPT !.kids = @ + 1] \in Tree
           /\ [t EXCEPT !.gone = TRUE] \in Tree
           /\ \A c \in {"idle", "active", "unknown"} : [t EXCEPT !.cpu = c] \in Tree
           /\ \A c \in {"ready", "busy", "unknown"} : [t EXCEPT !.state = c] \in Tree
<1>1. t.kids + 1 \in Nat
  BY DEF Tree
<1>2. [t EXCEPT !.kids = @ + 1] \in Tree
  BY <1>1 DEF Tree
<1>3. [t EXCEPT !.gone = TRUE] \in Tree
  BY DEF Tree
<1>4. ASSUME NEW c \in {"idle", "active", "unknown"} PROVE [t EXCEPT !.cpu = c] \in Tree
  BY DEF Tree
<1>5. ASSUME NEW c \in {"ready", "busy", "unknown"} PROVE [t EXCEPT !.state = c] \in Tree
  BY DEF Tree
<1>. QED BY <1>2, <1>3, <1>4, <1>5

\* The monitor's memory is left alone, and time may pass.
LEMMA MonitorKept ==
    ASSUME Typed, UNCHANGED mem, now' \in {now, now + 1}
    PROVE  /\ MemTyped(mem') /\ LatchSound(mem.latch)' /\ now' \in Nat
           /\ \A a \in actions : a.at \in 0..now'
           /\ latest.latched => latest.since \in 0..now' /\ latest.at \in 0..now'
<1>1. now \in Nat /\ now' \in Nat /\ now <= now'
  BY DEF Typed
<1>2. \A t \in 0..now : t \in 0..now'
  BY <1>1
<1>. QED BY <1>1, <1>2 DEF Typed, LatchSound, IsLatch

LEMMA TypedStep == Typed /\ Justified /\ CooldownInv /\ [Next]_vars => Typed'
<1>. SUFFICES ASSUME Typed, Justified, CooldownInv, [Next]_vars PROVE Typed'
  OBVIOUS
<1>. USE DEF Typed, disk, host
<1>1. CASE Start
  <2>1. \E p : mem' = [NoMem EXCEPT !.policy = p]
    BY <1>1 DEF Start
  <2>2. MemTyped(mem') /\ mem'.latch = NoLatch
    BY <2>1, Constants DEF NoMem, MemTyped, MemFields, Never
  <2>3. UNCHANGED now /\ pending' = Idle
    BY <1>1 DEF Start
  <2>. QED BY <1>1, <2>2, <2>3, NoLatchSound DEF Start, LatchSound, IsLatch, Idle, Places
<1>2. CASE RecordHint
  BY <1>2 DEF RecordHint, LatchSound, IsLatch, Places
<1>3. CASE RecordRuntime
  BY <1>3 DEF RecordRuntime, LatchSound, IsLatch, Places
<1>4. CASE BeginRun
  <2>1. MemTyped(mem') /\ LatchSound(mem'.latch)
    <3>1. CASE torn
      BY <1>4, <3>1 DEF BeginRun
    <3>2. CASE ~torn
      <4>. DEFINE m == LoadCooldown(mem)
      <4>1. mem' = [m EXCEPT !.latch = Resume] /\ LatchSound(Resume)
        BY <1>4, <3>2, ResumeSound DEF BeginRun
      <4>2. MemTyped(m) /\ DOMAIN m = MemFields
        BY LoadedIs DEF CooldownInv, MemTyped
      <4>. HIDE DEF m
      <4>. QED BY <4>1, <4>2 DEF MemTyped, MemFields
    <3>. QED BY <3>1, <3>2
  <2>2. DOMAIN ghost' = DOMAIN ghost
    BY <1>4 DEF BeginRun
  <2>3. UNCHANGED <<now, tree, policyFile, runtime, hint, torn, latest, pending, actions>> /\ pc' \in Places
    BY <1>4 DEF BeginRun, Places
  <2>. QED BY <2>1, <2>2, <2>3 DEF LatchSound, IsLatch
<1>5. ASSUME NEW level, NEW rate \in Rates, NEW large \in BOOLEAN, SampleRound(level, rate, large)
      PROVE  Typed'
  <2>1. MemTyped(mem') /\ LatchSound(mem'.latch)
    BY <1>5, SampledIs
  <2>2. DOMAIN ghost' = DOMAIN ghost
    BY <1>5 DEF SampleRound, Episodes
  <2>3. DOMAIN pending' = {"root", "at", "judged", "result", "sent"} /\ pending'.root \in Roots \cup {-1}
    <3>1. \A m : SelectReliefCandidate(m, tree) \subseteq Roots
      BY DEF SelectReliefCandidate, Eligible
    <3>2. \/ pending' = Idle \/ UNCHANGED pending
          \/ \E c \in Roots : pending' = [Idle EXCEPT !.root = c, !.at = now, !.judged = tree[c]]
      BY <1>5, <3>1 DEF SampleRound
    <3>3. ASSUME NEW c \in Roots, NEW t, NEW p, p = [Idle EXCEPT !.root = c, !.at = now, !.judged = t]
          PROVE  DOMAIN p = {"root", "at", "judged", "result", "sent"} /\ p.root = c
      BY <3>3 DEF Idle
    <3>4. DOMAIN Idle = {"root", "at", "judged", "result", "sent"} /\ Idle.root = -1
      BY DEF Idle
    <3>. QED BY <3>2, <3>3, <3>4
  <2>4. UNCHANGED <<now, tree, policyFile, runtime, hint, torn, latest, actions>> /\ pc' \in Places
    BY <1>5 DEF SampleRound, Places
  <2>. QED BY <2>1, <2>2, <2>3, <2>4 DEF LatchSound, IsLatch
<1>6. CASE FinalSample \/ FinalPolicy
  <2>1. /\ UNCHANGED <<now, tree, policyFile, runtime, hint, torn, latest, actions, mem, ghost>>
        /\ pc' \in Places /\ DOMAIN pending' = DOMAIN pending /\ pending'.root = pending.root
    BY <1>6 DEF FinalSample, FinalPolicy, Rejected, Places
  <2>. QED BY <2>1, MonitorKept
<1>7. CASE Send
  <2>1. tree' \in [Roots -> Tree]
    <3>1. pending.root \in Roots /\ (UNCHANGED tree \/ tree' = [tree EXCEPT ![pending.root].gone = TRUE])
      BY <1>7 DEF Send, Justified, Relief
    <3>2. [tree[pending.root] EXCEPT !.gone = TRUE] \in Tree
      BY <3>1, TreeEdits
    <3>. QED BY <3>1, <3>2
  <2>2. UNCHANGED <<now, policyFile, runtime, hint, torn, latest, actions, mem>> /\ pc' \in Places
    BY <1>7 DEF Send, Places
  <2>3. /\ DOMAIN pending' = DOMAIN pending /\ pending'.root = pending.root
        /\ DOMAIN ghost' = DOMAIN ghost
    BY <1>7 DEF Send
  <2>. QED BY <2>1, <2>2, <2>3, MonitorKept
<1>8. CASE AppendAction
  <2>1. MemTyped(mem') /\ mem'.latch = mem.latch
    <3>1. pending.at \in Int
      BY <1>8 DEF AppendAction, Justified, Relief
    <3>. QED BY <1>8, <3>1 DEF AppendAction, Acted, MemTyped, MemFields
  <2>2. UNCHANGED <<now, tree, policyFile, runtime, hint, torn, latest, pending>> /\ pc' \in Places
    BY <1>8 DEF AppendAction, Places
  <2>3. DOMAIN ghost' = DOMAIN ghost
    BY <1>8 DEF AppendAction, RowLost
  <2>4. \A a \in actions' : a.at \in 0..now
    BY <1>8 DEF AppendAction, Justified, Relief
  <2>. QED BY <2>1, <2>2, <2>3, <2>4 DEF LatchSound, IsLatch
<1>9. CASE RunResourceCleanup
  <2>1. MemTyped(mem') /\ mem'.latch = mem.latch
    BY <1>9 DEF RunResourceCleanup, MemTyped, MemFields
  <2>2. UNCHANGED <<now, tree, policyFile, runtime, hint, torn, latest, actions, pending, ghost>> /\ pc' \in Places
    BY <1>9 DEF RunResourceCleanup, Places
  <2>. QED BY <2>1, <2>2 DEF LatchSound, IsLatch
<1>10. CASE Publish
  <2>1. UNCHANGED <<now, tree, policyFile, runtime, hint, torn, actions, mem, pending>> /\ pc' \in Places
    BY <1>10 DEF Publish, Places
  <2>2. DOMAIN ghost' = DOMAIN ghost
    BY <1>10 DEF Publish, RowLost
  <2>3. latest'.latched => latest'.since \in 0..now /\ latest'.at \in 0..now
    BY <1>10 DEF Publish, LatchSound
  <2>. QED BY <2>1, <2>2, <2>3, MonitorKept
<1>11. CASE SampleFails \/ StopSignal \/ AppendStopped \/ MarkClean
  <2>1. UNCHANGED <<now, tree, policyFile, hint, torn, latest, actions, mem, pending>> /\ pc' \in Places
    BY <1>11 DEF SampleFails, StopSignal, AppendStopped, MarkClean, Places
  <2>2. DOMAIN ghost' = DOMAIN ghost /\ runtime' \in {runtime, "clean"}
    BY <1>11 DEF SampleFails, StopSignal, AppendStopped, MarkClean
  <2>. QED BY <2>1, <2>2, MonitorKept
<1>12. CASE Crash
  <2>1. MemTyped(mem') /\ mem'.latch = NoLatch
    BY <1>12, Constants DEF Crash, NoMem, MemTyped, MemFields, Never
  <2>2. UNCHANGED <<now, tree, policyFile, runtime, hint, latest, actions>> /\ pc' \in Places
    BY <1>12 DEF Crash, Places
  <2>3. DOMAIN ghost' = DOMAIN ghost /\ torn' \in BOOLEAN /\ pending' = Idle
    BY <1>12 DEF Crash, RowLost
  <2>. QED BY <2>1, <2>2, <2>3, NoLatchSound DEF LatchSound, IsLatch, Idle
<1>13. CASE Tick
  <2>1. /\ UNCHANGED <<tree, policyFile, runtime, hint, torn, latest, actions, mem, pending, ghost>>
        /\ pc' \in Places /\ now' = now + 1
    BY <1>13 DEF Tick, Places
  <2>. QED BY <2>1, MonitorKept
<1>14. CASE TreeChanges
  <2>1. \A t \in Tree : Changed(t) \subseteq Tree
    <3>1. ASSUME NEW t \in Tree PROVE NewTree(t.session + 1) \in Tree
      BY DEF Tree, NewTree
    <3>2. ASSUME NEW t \in Tree, NEW u \in Changed(t) PROVE u \in Tree
      <4>1. \/ u = NewTree(t.session + 1) \/ u = [t EXCEPT !.gone = TRUE] \/ u = [t EXCEPT !.kids = @ + 1]
            \/ \E c \in {"idle", "active", "unknown"} : u = [t EXCEPT !.cpu = c]
            \/ \E c \in {"ready", "busy", "unknown"} : u = [t EXCEPT !.state = c]
        BY DEF Changed
      <4>. QED BY <3>1, <4>1, TreeEdits
    <3>. QED BY <3>2
  <2>2. tree' \in [Roots -> Tree]
    BY <1>14, <2>1 DEF TreeChanges
  <2>. QED BY <1>14, <2>2, MonitorKept DEF TreeChanges
<1>15. CASE PolicyChanges \/ ClearRecoveryHint \/ UNCHANGED vars
  BY <1>15, MonitorKept DEF PolicyChanges, ClearRecoveryHint, vars
<1>. QED BY <1>1, <1>2, <1>3, <1>4, <1>5, <1>6, <1>7, <1>8, <1>9, <1>10, <1>11, <1>12, <1>13, <1>14, <1>15
         DEF Next, Done, Sample, Rates

(***************************************************************************)
(* What the candidate is, and what is known of it.                         *)
(***************************************************************************)
\* A sample keeps the streaks and the evidence in step.
LEMMA EvidenceSampled ==
    ASSUME Typed, Evidence, pc = "sample", NEW r \in Roots
    PROVE  /\ Outage \/ AnnotateQuiescence(mem.streak, tree)[r] = QuietSeen[r][2]
           /\ QuietSeen[r][2] \in Nat /\ QuietSeen[r][1] = tree[r].session
<1>1. /\ ghost.outage \/ mem.streak[r] = ghost.quiet[r][2]
      /\ ghost.quiet[r][2] \in Nat /\ mem.streak[r] \in 0..Sustain
      /\ ghost.quiet[r][2] > 0 => /\ ghost.sampled # Never /\ ghost.sampled <= now /\ ghost.sampled \in Nat
                                  /\ tree[r].session = ghost.quiet[r][1] \/ tree[r].born >= ghost.sampled
  BY DEF Evidence, Shown, Live, Typed, MemTyped
<1>2. now \in Nat /\ tree[r].born \in Int
  BY DEF Typed, Tree
<1>3. CASE ~Quiet(tree[r])
  BY <1>3 DEF AnnotateQuiescence, QuietSeen
<1>4. CASE Quiet(tree[r]) /\ ghost.quiet[r][1] = tree[r].session
  <2>1. /\ AnnotateQuiescence(mem.streak, tree)[r] = Min2(mem.streak[r] + 1, Sustain)
        /\ QuietSeen[r] = <<tree[r].session, Min2(ghost.quiet[r][2] + 1, Sustain)>>
    BY <1>4 DEF AnnotateQuiescence, QuietSeen
  <2>. QED BY <1>1, <2>1, Constants DEF Outage, Min2
<1>5. CASE Quiet(tree[r]) /\ ghost.quiet[r][1] # tree[r].session
  <2>1. /\ AnnotateQuiescence(mem.streak, tree)[r] = Min2(mem.streak[r] + 1, Sustain)
        /\ QuietSeen[r] = <<tree[r].session, 1>>
    BY <1>5 DEF AnnotateQuiescence, QuietSeen
  <2>2. CASE ghost.quiet[r][2] = 0
    BY <1>1, <2>1, <2>2, Constants DEF Outage, Min2
  <2>3. CASE ghost.quiet[r][2] > 0
    <3>1. now - ghost.sampled >= MinAge
      BY <1>1, <1>2, <1>5, <2>3, Constants DEF Quiet
    <3>. QED BY <1>1, <2>1, <2>3, <3>1 DEF Outage
  <2>. QED BY <1>1, <2>2, <2>3
<1>. QED BY <1>3, <1>4, <1>5

\* What a sample leaves of the history.
LEMMA SampledHistory ==
    ASSUME Typed, NEW level, NEW rate \in Rates, NEW large \in BOOLEAN, SampleRound(level, rate, large)
    PROVE  \/ pc' = "stopping" /\ UNCHANGED <<ghost, pending>>
           \/ /\ pc' \in {"final", "cleanup"}
              /\ ghost'.quiet = QuietSeen /\ ghost'.sampled = now /\ ghost'.outage = Outage
              /\ ghost'.overruled = FALSE /\ UNCHANGED <<ghost.signals, ghost.lost, ghost.owed>>
<1>1. DOMAIN ghost = {"signals", "lost", "owed", "overruled", "quiet", "sampled", "outage", "truth", "cut",
                      "unpublished", "blind"}
  BY DEF Typed
<1>2. ASSUME NEW out, NEW g, g = Episodes(out)
      PROVE  DOMAIN g = DOMAIN ghost /\ g.signals = ghost.signals /\ g.lost = ghost.lost /\ g.owed = ghost.owed
  BY <1>1, <1>2 DEF Episodes
<1>3. CASE pc' = "stopping" /\ UNCHANGED <<ghost, pending>>
  BY <1>3
<1>4. CASE ~(pc' = "stopping" /\ UNCHANGED <<ghost, pending>>)
  <2>1. /\ pc' \in {"final", "cleanup"}
        /\ \E out : ghost' = [Episodes(out) EXCEPT !.quiet = QuietSeen, !.sampled = now,
                                                     !.outage = Outage, !.overruled = FALSE]
    BY <1>4 DEF SampleRound
  <2>2. ASSUME NEW g, DOMAIN g = DOMAIN ghost, g.signals = ghost.signals, g.lost = ghost.lost, g.owed = ghost.owed,
               ghost' = [g EXCEPT !.quiet = QuietSeen, !.sampled = now, !.outage = Outage, !.overruled = FALSE]
        PROVE  /\ ghost'.quiet = QuietSeen /\ ghost'.sampled = now /\ ghost'.outage = Outage
               /\ ghost'.overruled = FALSE /\ UNCHANGED <<ghost.signals, ghost.lost, ghost.owed>>
    BY <1>1, <2>2
  <2>. QED BY <1>2, <2>1, <2>2
<1>. QED BY <1>3, <1>4

LEMMA EvidenceFrame ==
    ASSUME Typed, Evidence, mem'.streak = mem.streak, UNCHANGED <<ghost.quiet, ghost.outage, ghost.sampled>>,
           pc' \in Live => pc \in Live, pc' \in Starting => pc \in Starting, now' \in {now, now + 1},
           \A r \in Roots : \/ tree'[r].session = tree[r].session /\ tree'[r].born = tree[r].born
                            \/ tree'[r].born = now
    PROVE  Evidence'
<1>1. now \in Nat /\ \A r \in Roots : tree[r].born \in Int
  BY DEF Typed, Tree
<1>2. ASSUME NEW r \in Roots, Shown(r) PROVE Shown(r)'
  BY <1>1, <1>2 DEF Shown
<1>. QED BY <1>2 DEF Evidence

LEMMA EvidenceStep == Typed /\ Justified /\ CooldownInv /\ Evidence /\ [Next]_vars => Evidence'
<1>. SUFFICES ASSUME Typed, Justified, CooldownInv, Evidence, [Next]_vars PROVE Evidence'
  OBVIOUS
<1>0. /\ DOMAIN mem = MemFields
      /\ DOMAIN ghost = {"signals", "lost", "owed", "overruled", "quiet", "sampled", "outage", "truth", "cut",
                         "unpublished", "blind"}
  BY DEF Typed, MemTyped
<1>. USE DEF Live, Relief, Starting
<1>1. CASE Start
  <2>1. pc' = "hint" /\ \E p : mem' = [NoMem EXCEPT !.policy = p]
    BY <1>1 DEF Start
  <2>. QED BY <2>1 DEF Evidence, NoMem
<1>2. CASE BeginRun
  <2>1. ghost'.quiet = [r \in Roots |-> <<0, 0>>]
    BY <1>0, <1>2 DEF BeginRun
  <2>2. pc' \in Live => \A r \in Roots : mem'.streak[r] = 0
    <3>1. \A r \in Roots : LoadCooldown(mem).streak[r] = 0
      BY <1>2, LoadedIs DEF CooldownInv, Evidence, BeginRun
    <3>2. pc' \in Live => mem' = [LoadCooldown(mem) EXCEPT !.latch = Resume]
      BY <1>2 DEF BeginRun
    <3>3. DOMAIN LoadCooldown(mem) = MemFields
      BY LoadedIs DEF CooldownInv
    <3>. DEFINE m == LoadCooldown(mem)
    <3>. HIDE DEF m
    <3>4. pc' \in Live => mem'.streak = m.streak
      BY <3>2, <3>3 DEF m, MemFields
    <3>. QED BY <3>1, <3>4 DEF m
  <2>3. pc' \notin Starting
    BY <1>2 DEF BeginRun
  <2>. QED BY <2>1, <2>2, <2>3 DEF Evidence, Shown
<1>3. ASSUME NEW level, NEW rate \in Rates, NEW large \in BOOLEAN, SampleRound(level, rate, large)
      PROVE  Evidence'
  <2>1. CASE pc' = "stopping"
    BY <2>1 DEF Evidence
  <2>2. CASE pc' # "stopping"
    <3>1. /\ ghost'.quiet = QuietSeen /\ ghost'.sampled = now /\ ghost'.outage = Outage /\ pc' \in {"final", "cleanup"}
      BY <1>3, <2>2, SampledHistory
    <3>2. mem'.streak = AnnotateQuiescence(mem.streak, tree) /\ UNCHANGED <<tree, now>> /\ pc = "sample"
      BY <1>3, SampledIs DEF SampleRound, host
    <3>3. now \in Nat
      BY DEF Typed
    <3>4. ASSUME NEW r \in Roots PROVE Shown(r)'
      BY <3>1, <3>2, <3>3, EvidenceSampled DEF Shown, Never
    <3>. QED BY <3>1, <3>4 DEF Evidence
  <2>. QED BY <2>1, <2>2
<1>4. CASE Send
  <2>1. \A r \in Roots : tree'[r].session = tree[r].session /\ tree'[r].born = tree[r].born
    BY <1>4 DEF Send, Typed, Tree
  <2>. QED BY <1>0, <1>4, <2>1, EvidenceFrame DEF Send
<1>5. CASE AppendAction
  <2>1. mem'.streak = mem.streak
    BY <1>0, <1>5 DEF AppendAction, Acted, MemFields
  <2>. QED BY <1>0, <1>5, <2>1, EvidenceFrame DEF AppendAction, RowLost, host
<1>6. CASE RunResourceCleanup
  <2>1. mem'.streak = mem.streak
    BY <1>0, <1>6 DEF RunResourceCleanup, MemFields
  <2>. QED BY <1>6, <2>1, EvidenceFrame DEF RunResourceCleanup, host
<1>7. CASE TreeChanges
  <2>1. ASSUME NEW t, NEW u \in Changed(t) , t \in Tree
        PROVE  (u.session = t.session /\ u.born = t.born) \/ u.born = now
    BY <2>1 DEF Changed, NewTree, Tree
  <2>2. \A r \in Roots : \/ tree'[r].session = tree[r].session /\ tree'[r].born = tree[r].born
                         \/ tree'[r].born = now
    BY <1>7, <2>1 DEF TreeChanges, Typed
  <2>. QED BY <1>7, <2>2, EvidenceFrame DEF TreeChanges
<1>8. CASE Crash
  BY <1>8 DEF Crash, Evidence
<1>9. CASE \/ RecordHint \/ RecordRuntime \/ SampleFails \/ FinalSample \/ FinalPolicy \/ Publish
           \/ StopSignal \/ AppendStopped \/ MarkClean
  <2>1. UNCHANGED <<mem, now, tree>> /\ UNCHANGED <<ghost.quiet, ghost.outage, ghost.sampled>>
    BY <1>0, <1>9 DEF RecordHint, RecordRuntime, SampleFails, FinalSample, FinalPolicy, Publish, RowLost,
                      StopSignal, AppendStopped, MarkClean, host
  <2>2. (pc' \in Live => pc \in Live) /\ (pc' \in Starting => pc \in Starting)
    BY <1>9 DEF RecordHint, RecordRuntime, SampleFails, FinalSample, FinalPolicy, Rejected, Publish,
                StopSignal, AppendStopped, MarkClean
  <2>. QED BY <2>1, <2>2, EvidenceFrame
<1>10. CASE Tick
  BY <1>10, EvidenceFrame DEF Tick, host
<1>11. CASE PolicyChanges \/ ClearRecoveryHint \/ UNCHANGED vars
  BY <1>0, <1>11, EvidenceFrame DEF PolicyChanges, ClearRecoveryHint, vars, host
<1>. QED BY <1>1, <1>2, <1>3, <1>4, <1>5, <1>6, <1>7, <1>8, <1>9, <1>10, <1>11 DEF Next, Done, Sample, Rates

\* The candidate is one whose streak is long enough.
LEMMA CandidateIs ==
    ASSUME NEW m, NEW r \in SelectReliefCandidate(m, tree), MemTyped(m), Typed
    PROVE  r \in Roots /\ Quiet(tree[r]) /\ m.streak[r] = Sustain
<1>1. r \in Eligible(m, tree)
  <2>. DEFINE e == Eligible(m, tree)
              ready == {q \in e : tree[q].state = "ready"}
              best == IF ready # {} THEN ready ELSE e
  <2>1. r \in best
    BY DEF SelectReliefCandidate
  <2>. QED BY <2>1
<1>2. r \in Roots /\ Quiet(tree[r]) /\ m.streak[r] >= Sustain
  BY <1>1 DEF Eligible
<1>. QED BY <1>2, Constants DEF MemTyped

LEMMA JustifiedStep == Typed /\ Evidence /\ Justified /\ [Next]_vars => Justified'
<1>. SUFFICES ASSUME Typed, Evidence, Justified, [Next]_vars PROVE Justified'
  OBVIOUS
<1>0. /\ DOMAIN mem = MemFields
      /\ DOMAIN pending = {"root", "at", "judged", "result", "sent"}
      /\ DOMAIN ghost = {"signals", "lost", "owed", "overruled", "quiet", "sampled", "outage", "truth", "cut",
                         "unpublished", "blind"}
  BY DEF Typed, MemTyped
<1>. USE DEF Justified, Relief
<1>1. CASE pc' \notin Relief
  BY <1>1
<1>2. ASSUME NEW level, NEW rate \in Rates, NEW large \in BOOLEAN, SampleRound(level, rate, large), pc' \in Relief
      PROVE  Justified'
  <2>1. PICK m, r : /\ m = mem' /\ MayRelieve(m) /\ r \in SelectReliefCandidate(m, tree) /\ pc' = "final"
                    /\ pending' = [Idle EXCEPT !.root = r, !.at = now, !.judged = tree[r]]
    BY <1>2 DEF SampleRound
  <2>2. MemTyped(mem') /\ mem'.streak = AnnotateQuiescence(mem.streak, tree) /\ mem'.policy = mem.policy
    BY <1>2, SampledIs
  <2>3. r \in Roots /\ mem'.streak[r] = Sustain
    BY <2>1, <2>2, CandidateIs
  <2>4. pending'.root = r /\ pending'.at = now /\ pending'.judged = tree[r] /\ pending'.sent = FALSE
    BY <2>1 DEF Idle
  <2>5. /\ ghost'.quiet = QuietSeen /\ ghost'.outage = Outage /\ ghost'.overruled = FALSE
        /\ UNCHANGED <<now, policyFile>> /\ pc = "sample"
    BY <1>2, <2>1, SampledHistory DEF SampleRound, host
  <2>6. Outage \/ QuietSeen[r] = <<tree[r].session, Sustain>>
    <3>1. QuietSeen[r] = <<QuietSeen[r][1], QuietSeen[r][2]>>
      BY <2>3 DEF QuietSeen
    <3>. QED BY <2>2, <2>3, <2>5, <3>1, EvidenceSampled
  <2>. QED BY <2>1, <2>3, <2>4, <2>5, <2>6 DEF MayRelieve
<1>3. CASE FinalSample
  BY <1>0, <1>3 DEF FinalSample, Rejected, host
<1>4. CASE FinalPolicy
  BY <1>0, <1>4 DEF FinalPolicy, Rejected, host
<1>5. CASE Send
  BY <1>0, <1>5 DEF Send
<1>6. CASE TreeChanges
  BY <1>6 DEF TreeChanges
<1>7. CASE PolicyChanges
  BY <1>0, <1>7 DEF PolicyChanges
<1>8. CASE ClearRecoveryHint \/ UNCHANGED vars
  BY <1>8 DEF ClearRecoveryHint, vars, host
<1>9. CASE \/ Start \/ RecordHint \/ RecordRuntime \/ BeginRun \/ SampleFails \/ AppendAction \/ RunResourceCleanup
           \/ Publish \/ StopSignal \/ AppendStopped \/ MarkClean \/ Crash \/ Tick
  <2>1. pc' \notin Relief
    BY <1>9 DEF Start, RecordHint, RecordRuntime, BeginRun, SampleFails, AppendAction, RunResourceCleanup,
                Publish, StopSignal, AppendStopped, MarkClean, Crash, Tick
  <2>. QED BY <1>1, <2>1
<1>. QED BY <1>1, <1>2, <1>3, <1>4, <1>5, <1>6, <1>7, <1>8, <1>9 DEF Next, Done, Sample, Rates

(***************************************************************************)
(* The cooldown.                                                           *)
(***************************************************************************)
\* A step that signals nothing and writes no action row.
LEMMA CooldownFrame ==
    ASSUME Typed, CooldownInv, UNCHANGED <<actions, ghost.signals, ghost.lost>>, now' \in {now, now + 1},
           pc' \in Live => pc \in Live /\ mem'.lastAttempt = mem.lastAttempt,
           pc' \in {"final", "policy", "send"} => pc \in {"final", "policy", "send"} /\ now' = now,
           pc = "append" /\ pending.sent => pc' = "append" /\ UNCHANGED pending
    PROVE  CooldownInv'
<1>1. now \in Nat /\ CooldownTime \in Nat /\ MemTyped(mem)
  BY Constants DEF Typed
<1>2. \A s \in ghost.signals : s \in 0..now /\ s \in 0..now'
  BY <1>1 DEF CooldownInv
<1>3. \A s : Between(s) => Between(s)'
  BY DEF Between
<1>4. Kept' = Kept /\ \A s \in Kept : s \in Int
  BY <1>2 DEF Kept
<1>5. HaveLatest' /\ OnRecord' /\ CooldownHonoured'
  BY <1>3, <1>4 DEF CooldownInv, HaveLatest, OnRecord, CooldownHonoured
<1>6. Remembered'
  BY <1>1, <1>3, <1>4 DEF CooldownInv, Remembered
<1>7. Rested'
  BY <1>4 DEF CooldownInv, Rested
<1>. QED BY <1>2, <1>5, <1>6, <1>7 DEF CooldownInv

\* The row of a signal is lost with the resident.
LEMMA CooldownLost ==
    ASSUME Typed, CooldownInv, UNCHANGED <<actions, ghost.signals, now>>, pc' \notin Live,
           ghost'.lost = IF pc = "append" /\ pending.sent THEN ghost.lost \cup {pending.at} ELSE ghost.lost
    PROVE  CooldownInv'
<1>1. ghost.lost \subseteq ghost'.lost /\ Kept' \subseteq Kept
  BY DEF Kept
<1>2. \A s \in Kept' : ~Between(s)
  BY DEF Between, Kept
<1>3. OnRecord' /\ CooldownHonoured'
  BY <1>1, <1>2 DEF CooldownInv, OnRecord, CooldownHonoured
<1>. QED BY <1>3 DEF CooldownInv, HaveLatest, Remembered, Rested, Live, Relief

LEMMA CooldownStep == Typed /\ Justified /\ CooldownInv /\ [Next]_vars => CooldownInv'
<1>. SUFFICES ASSUME Typed, Justified, CooldownInv, [Next]_vars PROVE CooldownInv'
  OBVIOUS
<1>0. /\ DOMAIN mem = MemFields /\ mem.lastAttempt \in Int
      /\ now \in Nat /\ CooldownTime \in Nat
      /\ DOMAIN pending = {"root", "at", "judged", "result", "sent"}
      /\ DOMAIN ghost = {"signals", "lost", "owed", "overruled", "quiet", "sampled", "outage", "truth", "cut",
                         "unpublished", "blind"}
      /\ \A s \in ghost.signals : s \in 0..now
  BY Constants DEF Typed, MemTyped, CooldownInv
<1>. USE DEF Live, Relief
<1>1. CASE BeginRun
  <2>1. UNCHANGED <<actions, ghost.signals, ghost.lost, now>> /\ pc = "begin"
    BY <1>0, <1>1 DEF BeginRun
  <2>2. Kept' = Kept /\ \A s \in Kept : \E a \in actions : a.at = s /\ a.result # "rejected"
    BY <2>1 DEF Kept, CooldownInv, OnRecord, Between
  <2>3. OnRecord' /\ HaveLatest' /\ CooldownHonoured'
    BY <2>1, <2>2 DEF CooldownInv, OnRecord, HaveLatest, CooldownHonoured
  <2>4. Rested'
    BY <1>1 DEF BeginRun, Rested
  <2>5. Remembered'
    <3>1. pc' \in Live => mem'.lastAttempt = LoadCooldown(mem).lastAttempt
      <4>. DEFINE m == LoadCooldown(mem)
      <4>1. pc' \in Live => mem' = [m EXCEPT !.latch = Resume]
        BY <1>1 DEF BeginRun
      <4>2. DOMAIN m = MemFields
        BY LoadedIs DEF CooldownInv
      <4>. HIDE DEF m
      <4>3. pc' \in Live => mem'.lastAttempt = m.lastAttempt
        BY <4>1, <4>2 DEF MemFields
      <4>. QED BY <4>3 DEF m
    <3>2. \A a \in actions : a.result # "rejected" /\ now - a.at < CooldownTime
                    => LoadCooldown(mem).lastAttempt >= a.at
      BY LoadedIs DEF CooldownInv
    <3>. QED BY <2>1, <2>2, <3>1, <3>2 DEF Remembered
  <2>. QED BY <1>0, <2>1, <2>3, <2>4, <2>5 DEF CooldownInv
<1>2. ASSUME NEW level, NEW rate \in Rates, NEW large \in BOOLEAN, SampleRound(level, rate, large)
      PROVE  CooldownInv'
  <2>1. /\ UNCHANGED <<actions, now>> /\ pc = "sample" /\ mem'.lastAttempt = mem.lastAttempt
        /\ pc' \in {"final", "cleanup", "stopping"}
    BY <1>2, SampledIs, SampledHistory DEF SampleRound
  <2>2. UNCHANGED <<ghost.signals, ghost.lost>>
    BY <1>2, SampledHistory
  <2>3. CASE pc' # "final"
    BY <2>1, <2>2, <2>3, CooldownFrame
  <2>4. CASE pc' = "final"
    <3>1. MayRelieve(mem')
      BY <1>2, <2>4 DEF SampleRound
    <3>2. now - mem.lastAttempt >= CooldownTime
      BY <2>1, <3>1 DEF MayRelieve
    <3>3. Kept' = Kept /\ \A s \in Kept : s \in Int /\ (now - s < CooldownTime => mem.lastAttempt >= s)
      BY <1>0, <2>1, <2>2 DEF Kept, CooldownInv, Remembered, Between
    <3>4. Rested' /\ Remembered'
      BY <1>0, <2>1, <3>2, <3>3 DEF Rested, Remembered
    <3>5. OnRecord' /\ HaveLatest' /\ CooldownHonoured'
      BY <2>1, <2>2, <3>3 DEF CooldownInv, OnRecord, Between, HaveLatest, CooldownHonoured
    <3>. QED BY <1>0, <2>1, <2>2, <3>4, <3>5 DEF CooldownInv
  <2>. QED BY <2>3, <2>4
<1>3. CASE Send
  <2>1. /\ UNCHANGED <<actions, now, ghost.lost>> /\ pc = "send" /\ pc' = "append"
        /\ pending'.sent = TRUE /\ pending'.at = now
        /\ ghost'.signals = ghost.signals \cup {now}
    BY <1>0, <1>3 DEF Send, disk, Justified
  <2>2. \A s \in Kept : s \in Int /\ now - s >= CooldownTime
    BY <1>0, <2>1 DEF Kept, CooldownInv, Rested
  <2>3. Kept' \subseteq Kept \cup {now} /\ \A s \in Kept : \E a \in actions : a.at = s /\ a.result # "rejected"
    BY <2>1 DEF Kept, CooldownInv, OnRecord, Between
  <2>4. Between(now)'
    BY <2>1 DEF Between
  <2>5. OnRecord' /\ HaveLatest'
    BY <2>1, <2>3, <2>4 DEF OnRecord, CooldownInv, HaveLatest
  <2>6. Remembered' /\ Rested'
    BY <1>0, <2>1, <2>2, <2>3, <2>4 DEF Remembered, Rested
  <2>7. CooldownHonoured'
    <3>1. SUFFICES ASSUME NEW s \in ghost'.signals, NEW t \in ghost'.signals, s < t, t - s < CooldownTime
                   PROVE  s \in ghost.lost
      BY <2>1 DEF CooldownHonoured
    <3>2. s \in ghost.signals
      BY <1>0, <2>1, <3>1
    <3>3. CASE t \in ghost.signals
      BY <3>1, <3>2, <3>3 DEF CooldownInv, CooldownHonoured
    <3>4. CASE t = now
      BY <1>0, <2>2, <3>1, <3>2, <3>4 DEF Kept
    <3>. QED BY <2>1, <3>3, <3>4
  <2>. QED BY <1>0, <2>1, <2>5, <2>6, <2>7 DEF CooldownInv
<1>4. CASE AppendAction
  <2>1. UNCHANGED <<now, ghost.signals, pending>> /\ pc = "append" /\ pending.at = now
    BY <1>0, <1>4 DEF AppendAction, RowLost, Justified
  <2>2. CASE pc' = "stopping"
    <3>1. /\ UNCHANGED actions
          /\ ghost'.lost = IF pc = "append" /\ pending.sent THEN ghost.lost \cup {pending.at} ELSE ghost.lost
      BY <1>0, <1>4, <2>2 DEF AppendAction, RowLost
    <3>. QED BY <2>1, <2>2, <3>1, CooldownLost
  <2>3. CASE pc' # "stopping"
    <3>1. /\ pc' = "publish" /\ UNCHANGED ghost /\ mem' = Acted(mem)
          /\ \E row : row.at = now /\ row.result = pending.result /\ actions' = actions \cup {row}
      BY <1>4, <2>1, <2>3 DEF AppendAction
    <3>2. HaveLatest'
      <4>1. SUFFICES ASSUME NEW T \in SUBSET {a.at : a \in actions'}, T # {}
                     PROVE  \E t \in T : \A u \in T : u <= t
        BY DEF HaveLatest
      <4>2. CASE now \in T
        <5>1. \A u \in T : u <= now
          BY <1>0, <3>1, <4>1 DEF Typed
        <5>. QED BY <4>2, <5>1
      <4>3. CASE now \notin T
        <5>1. T \in SUBSET {a.at : a \in actions}
          BY <3>1, <4>1, <4>3
        <5>. QED BY <4>1, <5>1 DEF CooldownInv, HaveLatest
      <4>. QED BY <4>2, <4>3
    <3>3. OnRecord'
      <4>1. SUFFICES ASSUME NEW s \in Kept PROVE \E a \in actions' : a.at = s /\ a.result # "rejected"
        BY <2>1, <3>1 DEF OnRecord, Kept
      <4>2. CASE Between(s)
        BY <2>1, <3>1, <4>2 DEF Between, Justified
      <4>3. CASE ~Between(s)
        BY <3>1, <4>3 DEF CooldownInv, OnRecord
      <4>. QED BY <4>2, <4>3
    <3>4. Remembered'
      <4>1. SUFFICES ASSUME NEW s \in Kept, now - s < CooldownTime PROVE mem'.lastAttempt >= s
        BY <2>1, <3>1 DEF Remembered, Kept
      <4>2. s \in 0..now
        BY <1>0 DEF Kept
      <4>3. CASE pending.result = "rejected"
        <5>1. ~Between(s)
          BY <2>1, <4>3 DEF Between, Justified
        <5>2. mem'.lastAttempt = mem.lastAttempt
          BY <1>0, <3>1, <4>3 DEF Acted, MemFields
        <5>. QED BY <2>1, <4>1, <5>1, <5>2 DEF CooldownInv, Remembered
      <4>4. CASE pending.result # "rejected"
        <5>1. mem'.lastAttempt = now
          BY <1>0, <2>1, <3>1, <4>4 DEF Acted, MemFields
        <5>. QED BY <1>0, <4>2, <5>1
      <4>. QED BY <4>3, <4>4
    <3>5. Rested' /\ CooldownHonoured'
      BY <3>1 DEF Rested, CooldownInv, CooldownHonoured
    <3>. QED BY <1>0, <2>1, <3>2, <3>3, <3>4, <3>5 DEF CooldownInv
  <2>. QED BY <2>2, <2>3
<1>5. CASE Crash
  <2>1. /\ UNCHANGED <<actions, now, ghost.signals>> /\ pc' = "down"
        /\ ghost'.lost = IF pc = "append" /\ pending.sent THEN ghost.lost \cup {pending.at} ELSE ghost.lost
    BY <1>0, <1>5 DEF Crash, RowLost
  <2>. QED BY <2>1, CooldownLost
<1>6. CASE FinalSample \/ FinalPolicy
  <2>1. /\ UNCHANGED <<actions, now, ghost, mem>> /\ pc \in {"final", "policy"}
        /\ pc' \in {"policy", "send", "append"}
    BY <1>6 DEF FinalSample, FinalPolicy, Rejected, disk
  <2>. QED BY <2>1, CooldownFrame
<1>7. CASE RunResourceCleanup
  <2>1. mem'.lastAttempt = mem.lastAttempt
    BY <1>0, <1>7 DEF RunResourceCleanup, MemFields
  <2>. QED BY <1>7, <2>1, CooldownFrame DEF RunResourceCleanup
<1>8. CASE Publish
  <2>1. UNCHANGED <<actions, now, mem, ghost.signals, ghost.lost>> /\ pc = "publish" /\ pc' \in {"wait", "stopping"}
    BY <1>0, <1>8 DEF Publish, RowLost
  <2>. QED BY <2>1, CooldownFrame
<1>9. CASE Start \/ RecordHint \/ RecordRuntime \/ StopSignal \/ AppendStopped \/ MarkClean
  <2>1. /\ UNCHANGED <<actions, now, ghost.signals, ghost.lost>> /\ pc # "append"
        /\ pc' \in {"hint", "runtime", "begin", "stopping", "marking", "down"}
    BY <1>0, <1>9 DEF Start, RecordHint, RecordRuntime, StopSignal, AppendStopped, MarkClean, disk
  <2>. QED BY <2>1, CooldownFrame
<1>10. CASE SampleFails \/ Tick
  BY <1>10, CooldownFrame DEF SampleFails, Tick, disk
<1>11. CASE TreeChanges \/ PolicyChanges \/ ClearRecoveryHint \/ UNCHANGED vars
  <2>1. UNCHANGED <<actions, now, mem, pc, pending, ghost.signals, ghost.lost>>
    BY <1>0, <1>11 DEF TreeChanges, PolicyChanges, ClearRecoveryHint, vars, disk
  <2>. QED BY <2>1, CooldownFrame
<1>. QED BY <1>1, <1>2, <1>3, <1>4, <1>5, <1>6, <1>7, <1>8, <1>9, <1>10, <1>11 DEF Next, Done, Sample, Rates

(***************************************************************************)
(* The cleanup notes and the recovery hint.                                *)
(***************************************************************************)
LEMMA NotedFrame ==
    ASSUME Noted, UNCHANGED notes, mem'.cleanup \in {mem.cleanup, NoCleanup}
    PROVE  Noted'
<1>1. /\ DOMAIN NoCleanup = {"err", "last", "pendErr", "pendRec"} /\ NoCleanup.err = ""
      /\ NoCleanup.pendErr = FALSE /\ NoCleanup.pendRec = FALSE
  BY DEF NoCleanup
<1>2. NotedOf(NoCleanup)
  BY <1>1 DEF NotedOf
<1>3. NotedOf(mem.cleanup)'
  BY <1>2 DEF Noted, NotedOf
<1>. QED BY <1>3 DEF Noted, RecoveryTold

\* One more note, by what it says.
LEMMA NoteAdded ==
    ASSUME Noted, NEW n \in {"error", "recovered"}, notes' = Append(notes, n),
           n = "recovered" => notes # <<>> /\ notes[Len(notes)] = "error"
    PROVE  /\ notes' \in Seq({"error", "recovered"}) /\ RecoveryTold'
           /\ notes' # <<>> /\ notes'[Len(notes')] = n
<1>0. notes \in Seq({"error", "recovered"})
  BY DEF Noted
<1>1. Len(notes) \in Nat
  BY <1>0
<1>2. /\ notes' \in Seq({"error", "recovered"}) /\ Len(notes') = Len(notes) + 1 /\ notes'[Len(notes) + 1] = n
      /\ \A i \in 1..Len(notes) : notes'[i] = notes[i]
      /\ DOMAIN notes' = 1..(Len(notes) + 1) /\ DOMAIN notes = 1..Len(notes)
  BY <1>0
<1>3. ASSUME NEW i \in DOMAIN notes', notes'[i] = "recovered" PROVE i > 1 /\ notes'[i - 1] = "error"
  <2>1. CASE i = Len(notes) + 1
    <3>1. notes # <<>> /\ notes[Len(notes)] = "error"
      BY <1>2, <1>3, <2>1
    <3>2. Len(notes) > 0 /\ i - 1 = Len(notes)
      BY <1>0, <1>1, <2>1, <3>1
    <3>3. Len(notes) \in 1..Len(notes)
      BY <1>1, <3>2
    <3>4. notes'[Len(notes)] = "error"
      BY <1>2, <3>1, <3>3
    <3>5. notes'[i - 1] = "error"
      BY <3>2, <3>4, Zenon
    <3>. QED BY <1>1, <3>2, <3>5
  <2>2. CASE i # Len(notes) + 1
    <3>1. i \in 1..Len(notes) /\ notes[i] = "recovered"
      BY <1>1, <1>2, <1>3, <2>2
    <3>2. i > 1 /\ notes[i - 1] = "error"
      BY <1>2, <3>1 DEF Noted, RecoveryTold
    <3>. QED BY <1>1, <1>2, <3>1, <3>2
  <2>. QED BY <2>1, <2>2
<1>4. RecoveryTold'
  BY <1>3 DEF RecoveryTold
<1>5. notes' # <<>>
  BY <1>0, <1>2
<1>. QED BY <1>1, <1>2, <1>4, <1>5

LEMMA CleanupNoted == Typed /\ Noted /\ RunResourceCleanup => Noted'
<1>. SUFFICES ASSUME Typed, Noted, RunResourceCleanup PROVE Noted'
  OBVIOUS
<1>1. PICK err \in {"", "a", "b"}, wrote \in BOOLEAN :
        LET c    == CleanupState(mem.cleanup, err)
            note == IF err # "" THEN "error" ELSE "recovered"
            due  == Due(c) /\ (IF err # "" THEN c.pendErr ELSE c.pendRec)
        IN  /\ wrote => due
            /\ IF wrote
               THEN /\ notes' = Append(notes, note)
                    /\ mem' = [mem EXCEPT !.cleanup = [c EXCEPT !.last = now, !.pendErr = FALSE,
                                            !.pendRec = IF err = "" THEN FALSE ELSE @]]
               ELSE mem' = [mem EXCEPT !.cleanup = c] /\ UNCHANGED notes
  BY DEF RunResourceCleanup
<1>. DEFINE c == CleanupState(mem.cleanup, err)
<1>0. "cleanup" \in DOMAIN mem
  BY DEF Typed, MemTyped, MemFields
<1>2. NotedOf(c) /\ c.err = err
  <2>. DEFINE old == mem.cleanup
  <2>0. NotedOf(old)
    BY DEF Noted
  <2>. HIDE DEF old
  <2>1. CASE err # ""
    <3>. DEFINE p == old.pendErr \/ err # old.err
                q == old.pendRec /\ err = old.err
    <3>1. c = [old EXCEPT !.err = err, !.pendErr = p, !.pendRec = q]
      BY <2>1 DEF CleanupState, old
    <3>2. p \in BOOLEAN /\ q = FALSE /\ (~p => ~old.pendErr /\ err = old.err)
      BY <2>0, <2>1 DEF NotedOf
    <3>. HIDE DEF c, p, q
    <3>3. DOMAIN c = DOMAIN old /\ c.err = err /\ c.pendErr = p /\ c.pendRec = q
      BY <2>0, <3>1 DEF NotedOf
    <3>. QED BY <2>0, <2>1, <3>2, <3>3 DEF NotedOf
  <2>2. CASE err = "" /\ old.err # ""
    <3>. DEFINE q == ~old.pendErr
    <3>1. c = [old EXCEPT !.err = "", !.pendRec = q, !.pendErr = FALSE]
      BY <2>2 DEF CleanupState, old
    <3>2. q \in BOOLEAN /\ (q => notes # <<>> /\ notes[Len(notes)] = "error")
      BY <2>0, <2>2 DEF NotedOf
    <3>. HIDE DEF c, q
    <3>3. DOMAIN c = DOMAIN old /\ c.err = err /\ c.pendErr = FALSE /\ c.pendRec = q
      BY <2>0, <2>2, <3>1 DEF NotedOf
    <3>. QED BY <2>0, <2>2, <3>2, <3>3 DEF NotedOf
  <2>3. CASE err = "" /\ old.err = ""
    BY <2>0, <2>3 DEF CleanupState, old
  <2>. QED BY <2>1, <2>2, <2>3
<1>. HIDE DEF c
<1>3. CASE ~wrote
  <2>1. mem'.cleanup = c /\ UNCHANGED notes
    BY <1>0, <1>1, <1>3 DEF c
  <2>2. NotedOf(mem.cleanup)'
    BY <1>2, <2>1 DEF NotedOf
  <2>. QED BY <2>1, <2>2 DEF Noted, RecoveryTold
<1>4. CASE wrote /\ err # ""
  <2>1. mem'.cleanup = [c EXCEPT !.last = now, !.pendErr = FALSE, !.pendRec = c.pendRec]
        /\ notes' = Append(notes, "error")
    BY <1>0, <1>1, <1>4 DEF c
  <2>2. /\ DOMAIN mem'.cleanup = DOMAIN c /\ mem'.cleanup.err = err
        /\ mem'.cleanup.pendErr = FALSE /\ mem'.cleanup.pendRec = c.pendRec
    BY <1>2, <2>1 DEF NotedOf
  <2>3. notes' \in Seq({"error", "recovered"}) /\ RecoveryTold' /\ notes' # <<>> /\ notes'[Len(notes')] = "error"
    BY <2>1, NoteAdded
  <2>4. NotedOf(mem.cleanup)'
    BY <1>2, <1>4, <2>2, <2>3 DEF NotedOf
  <2>. QED BY <2>3, <2>4 DEF Noted
<1>5. CASE wrote /\ err = ""
  <2>1. /\ mem'.cleanup = [c EXCEPT !.last = now, !.pendErr = FALSE, !.pendRec = FALSE]
        /\ notes' = Append(notes, "recovered") /\ c.pendRec
    BY <1>0, <1>1, <1>5 DEF c
  <2>2. /\ DOMAIN mem'.cleanup = DOMAIN c /\ mem'.cleanup.err = ""
        /\ mem'.cleanup.pendErr = FALSE /\ mem'.cleanup.pendRec = FALSE
    BY <1>2, <1>5, <2>1 DEF NotedOf
  <2>3. notes' \in Seq({"error", "recovered"}) /\ RecoveryTold'
    BY <1>2, <2>1, NoteAdded DEF NotedOf
  <2>4. NotedOf(mem.cleanup)'
    BY <1>2, <2>2 DEF NotedOf
  <2>. QED BY <2>3, <2>4 DEF Noted
<1>. QED BY <1>3, <1>4, <1>5

LEMMA NotedStep == Typed /\ CooldownInv /\ Noted /\ [Next]_vars => Noted'
<1>. SUFFICES ASSUME Typed, CooldownInv, Noted, [Next]_vars PROVE Noted'
  OBVIOUS
<1>0. DOMAIN mem = MemFields
  BY DEF Typed, MemTyped
<1>1. CASE Start \/ Crash
  BY <1>1, NotedFrame DEF Start, Crash, NoMem, disk
<1>2. CASE BeginRun
  <2>. DEFINE m == LoadCooldown(mem)
  <2>1. DOMAIN m = MemFields /\ m.cleanup = mem.cleanup
    BY LoadedIs DEF CooldownInv
  <2>2. UNCHANGED mem \/ mem' = [m EXCEPT !.latch = Resume]
    BY <1>2 DEF BeginRun
  <2>. HIDE DEF m
  <2>3. mem'.cleanup = mem.cleanup
    BY <2>1, <2>2 DEF MemFields
  <2>. QED BY <1>2, <2>3, NotedFrame DEF BeginRun
<1>3. ASSUME NEW level, NEW rate \in Rates, NEW large \in BOOLEAN, SampleRound(level, rate, large)
      PROVE  Noted'
  BY <1>3, SampledIs, NotedFrame DEF SampleRound
<1>4. CASE AppendAction
  <2>1. mem'.cleanup = mem.cleanup
    BY <1>0, <1>4 DEF AppendAction, Acted, MemFields
  <2>. QED BY <1>4, <2>1, NotedFrame DEF AppendAction
<1>5. CASE RunResourceCleanup
  BY <1>5, CleanupNoted
<1>6. CASE \/ RecordHint \/ RecordRuntime \/ SampleFails \/ FinalSample \/ FinalPolicy \/ Send \/ Publish \/ StopSignal
           \/ AppendStopped \/ MarkClean \/ Tick \/ TreeChanges \/ PolicyChanges \/ ClearRecoveryHint \/ UNCHANGED vars
  <2>1. UNCHANGED <<mem, notes>>
    BY <1>6 DEF RecordHint, RecordRuntime, SampleFails, FinalSample, FinalPolicy, Send, Publish, StopSignal,
                AppendStopped, MarkClean, Tick, TreeChanges, PolicyChanges, ClearRecoveryHint, vars, disk
  <2>. QED BY <2>1, NotedFrame
<1>. QED BY <1>1, <1>2, <1>3, <1>4, <1>5, <1>6 DEF Next, Done, Sample, Rates

LEMMA OwedStep == Typed /\ Owed /\ [Next]_vars => Owed'
<1>. SUFFICES ASSUME Typed, Owed, [Next]_vars PROVE Owed'
  OBVIOUS
<1>0. DOMAIN ghost = {"signals", "lost", "owed", "overruled", "quiet", "sampled", "outage", "truth", "cut",
                      "unpublished", "blind"}
  BY DEF Typed
<1>. USE DEF Owed, disk
<1>1. CASE RecordHint
  BY <1>0, <1>1 DEF RecordHint
<1>2. CASE Crash
  <2>1. ghost' = [RowLost EXCEPT !.owed = runtime = "unclean"] /\ UNCHANGED runtime /\ pc' = "down"
    BY <1>2 DEF Crash
  <2>2. DOMAIN RowLost = DOMAIN ghost
    BY DEF RowLost
  <2>. DEFINE b == runtime = "unclean"
              g == RowLost
  <2>. HIDE DEF b, g
  <2>3. ghost'.owed = b
    BY <1>0, <2>1, <2>2 DEF b, g
  <2>. QED BY <2>1, <2>3 DEF b
<1>3. ASSUME NEW level, NEW rate \in Rates, NEW large \in BOOLEAN, SampleRound(level, rate, large)
      PROVE  Owed'
  BY <1>3, SampledHistory DEF SampleRound
<1>4. CASE \/ Start \/ RecordRuntime \/ BeginRun \/ SampleFails \/ FinalSample \/ FinalPolicy \/ Send \/ AppendAction
           \/ RunResourceCleanup \/ Publish \/ StopSignal \/ AppendStopped \/ MarkClean \/ Tick
  <2>1. /\ ghost'.owed = ghost.owed
        /\ pc \in {"down", "hint"} => UNCHANGED runtime /\ pc' \in {"down", "hint"}
    BY <1>0, <1>4 DEF Start, RecordRuntime, BeginRun, SampleFails, FinalSample, FinalPolicy, Send, AppendAction, RowLost,
                      RunResourceCleanup, Publish, StopSignal, AppendStopped, MarkClean, Tick
  <2>. QED BY <2>1
<1>5. CASE TreeChanges \/ PolicyChanges \/ ClearRecoveryHint \/ UNCHANGED vars
  BY <1>0, <1>5 DEF TreeChanges, PolicyChanges, ClearRecoveryHint, vars
<1>. QED BY <1>1, <1>2, <1>3, <1>4, <1>5 DEF Next, Done, Sample, Rates

(***************************************************************************)
(* The theorems.                                                           *)
(***************************************************************************)
LEMMA ResidentInit == Init => ResidentInv
<1>. SUFFICES ASSUME Init PROVE ResidentInv
  OBVIOUS
<1>1. SettledTree \in Tree
  <2>1. ASSUME NEW t \in Tree, NEW b \in Int PROVE [t EXCEPT !.born = b] \in Tree
    BY DEF Tree
  <2>2. NewTree(0) \in Tree
    BY DEF Init, NewTree, Tree
  <2>3. -MinAge \in Int
    BY Constants
  <2>. QED BY <2>1, <2>2, <2>3 DEF SettledTree
<1>2. MemTyped(mem) /\ mem.latch = NoLatch /\ mem.cleanup = NoCleanup
  BY Constants DEF Init, NoMem, MemTyped, MemFields, Never
<1>3. /\ pending.root = -1 /\ DOMAIN pending = {"root", "at", "judged", "result", "sent"}
      /\ pc = "down" /\ now = 0 /\ actions = {} /\ notes = <<>>
      /\ ghost.signals = {} /\ ghost.owed = FALSE
  BY DEF Init, Idle
<1>4. Typed
  <2>1. tree \in [Roots -> Tree]
    BY <1>1 DEF Init
  <2>2. /\ policyFile \in {"shed", "observe", "unreadable"} /\ runtime \in {"none", "unclean", "clean"}
        /\ hint \in BOOLEAN /\ torn \in BOOLEAN /\ latest.latched = FALSE
    BY DEF Init
  <2>3. DOMAIN ghost = {"signals", "lost", "owed", "overruled", "quiet", "sampled", "outage", "truth", "cut",
                        "unpublished", "blind"}
    BY DEF Init
  <2>4. LatchSound(mem.latch)
    BY <1>2, NoLatchSound
  <2>. QED BY <1>2, <1>3, <2>1, <2>2, <2>3, <2>4 DEF Typed, Places
<1>5. Justified /\ Evidence /\ Owed
  BY <1>3 DEF Justified, Evidence, Owed, Live, Starting, Relief
<1>6. CooldownInv
  BY <1>3 DEF CooldownInv, HaveLatest, OnRecord, Remembered, Rested, CooldownHonoured, Kept, Live, Relief
<1>7. Noted
  <2>1. NotedOf(NoCleanup)
    <3>1. /\ DOMAIN NoCleanup = {"err", "last", "pendErr", "pendRec"} /\ NoCleanup.err = ""
          /\ NoCleanup.pendErr = FALSE /\ NoCleanup.pendRec = FALSE
      BY DEF NoCleanup
    <3>. QED BY <3>1 DEF NotedOf
  <2>2. notes \in Seq({"error", "recovered"}) /\ RecoveryTold
    BY <1>3 DEF RecoveryTold
  <2>. QED BY <1>2, <2>1, <2>2 DEF Noted
<1>. QED BY <1>4, <1>5, <1>6, <1>7 DEF ResidentInv

LEMMA ResidentSafe == Spec => []ResidentInv
<1>1. ResidentInv /\ [Next]_vars => ResidentInv'
  BY TypedStep, EvidenceStep, JustifiedStep, CooldownStep, NotedStep, OwedStep DEF ResidentInv
<1>. QED BY <1>1, ResidentInit, PTL DEF Spec

\* SIGTERM goes only to a tree whose session this resident itself saw quiet in Sustain
\* consecutive samples, under critical pressure that lasted, and never against a policy stored
\* during the final revalidation (annotateQuiescence, selectReliefCandidateExcluding, the
\* final sample and the last reading of the policy in maybeRelieveExcluding); sampling outages longer than
\* candidate_min_age are excepted, as in the property.
THEOREM SignalsJustified == Spec => []SignalJustified
<1>1. ResidentInv => TypeOK
  BY DEF ResidentInv, Typed, MemTyped, LatchSound, Places, TypeOK
<1>2. ResidentInv => SignalJustified
  BY <1>1 DEF ResidentInv, Justified, Relief, SignalJustified
<1>. QED BY <1>2, ResidentSafe, PTL

\* However often the resident dies or is restarted, two trees are never signalled within one
\* ActionCooldownSeconds, unless the action row of the first was lost with the resident
\* (the ledger read at the head of Monitor.Run, the row AppendAction writes after the signals).
THEOREM CooldownsSurvive == Spec => []CooldownHonoured
<1>1. ResidentInv => CooldownHonoured
  BY DEF ResidentInv, CooldownInv
<1>. QED BY <1>1, ResidentSafe, PTL

(***************************************************************************)
(* What the reader makes of the rows is what it made of the rows before,   *)
(* and the last row; the time of the episodes adds up likewise.            *)
(***************************************************************************)
LEMMA LeastOf ==
    ASSUME NEW S \in SUBSET Nat, S # {}
    PROVE  \E m \in S : \A k \in S : m <= k
<1>1. IsWellFoundedOn(OpToRel(<, Nat), Nat) BY NatLessThanWellFounded
<1>2. PICK m \in S : \A k \in S : ~(<<k, m>> \in OpToRel(<, Nat))
  BY <1>1, WFMin
<1>3. \A k \in S : ~(k < m) BY <1>2 DEF OpToRel
<1>. QED BY <1>3

Read(g, told, n) ==
    g = [k \in 0..n |-> IF k = 0 THEN NoEpisodes ELSE EpisodeStep(g[k - 1], told[k])]

LEMMA ReadOne ==
    ASSUME NEW g, NEW told, NEW n \in Nat, Read(g, told, n)
    PROVE  /\ g[0] = NoEpisodes
           /\ \A k \in 1..n : g[k] = EpisodeStep(g[k - 1], told[k])
           /\ g = [k \in 0..n |-> g[k]]
<1>. DEFINE e(k) == IF k = 0 THEN NoEpisodes ELSE EpisodeStep(g[k - 1], told[k])
<1>1. g = [k \in 0..n |-> e(k)] BY DEF Read
<1>2. \A k \in 0..n : g[k] = e(k) BY <1>1
<1>3. 0 \in 0..n /\ \A k \in 1..n : k \in 0..n /\ k # 0 OBVIOUS
<1>4. g[0] = NoEpisodes BY <1>2, <1>3
<1>5. \A k \in 1..n : g[k] = EpisodeStep(g[k - 1], told[k]) BY <1>2, <1>3
<1>6. [k \in 0..n |-> e(k)] = [k \in 0..n |-> g[k]] BY <1>2
<1>. QED BY <1>1, <1>4, <1>5, <1>6

LEMMA ReadBy ==
    ASSUME NEW g, NEW told, NEW n \in Nat, g = [k \in 0..n |-> g[k]],
           g[0] = NoEpisodes, \A k \in 1..n : g[k] = EpisodeStep(g[k - 1], told[k])
    PROVE  Read(g, told, n)
<1>. DEFINE e(k) == IF k = 0 THEN NoEpisodes ELSE EpisodeStep(g[k - 1], told[k])
<1>1. \A k \in 0..n : k = 0 \/ k \in 1..n OBVIOUS
<1>2. \A k \in 1..n : k # 0 OBVIOUS
<1>3. \A k \in 0..n : g[k] = e(k) BY <1>1, <1>2
<1>4. [k \in 0..n |-> e(k)] = [k \in 0..n |-> g[k]] BY <1>3
<1>. QED BY <1>4 DEF Read

LEMMA ReadExists ==
    ASSUME NEW told, NEW n \in Nat
    PROVE  \E g : Read(g, told, n)
<1>. DEFINE S == {k \in Nat : ~\E g : Read(g, told, k)}
<1>. SUFFICES ASSUME S # {} PROVE FALSE OBVIOUS
<1>1. PICK m \in S : \A k \in S : m <= k BY LeastOf
<1>2. CASE m = 0
  <2>. DEFINE g == [k \in 0..0 |-> NoEpisodes]
  <2>1. g = [k \in 0..0 |-> g[k]] /\ g[0] = NoEpisodes OBVIOUS
  <2>. HIDE DEF g
  <2>2. \A k \in 1..0 : g[k] = EpisodeStep(g[k - 1], told[k]) OBVIOUS
  <2>3. Read(g, told, 0) BY <2>1, <2>2, ReadBy
  <2>. QED BY <1>1, <1>2, <2>3
<1>3. CASE m # 0
  <2>1. m - 1 \in Nat /\ m - 1 < m /\ m \in Nat BY <1>1, <1>3
  <2>2. m - 1 \notin S BY <1>1, <2>1
  <2>3. PICK g : Read(g, told, m - 1) BY <2>1, <2>2
  <2>. DEFINE h == [k \in 0..m |-> IF k = m THEN EpisodeStep(g[m - 1], told[m]) ELSE g[k]]
  <2>4. h = [k \in 0..m |-> h[k]] /\ h[m] = EpisodeStep(g[m - 1], told[m]) BY <2>1
  <2>5. \A k \in 0..(m - 1) : h[k] = g[k] BY <2>1
  <2>. HIDE DEF h
  <2>6. /\ g[0] = NoEpisodes
        /\ \A k \in 1..(m - 1) : g[k] = EpisodeStep(g[k - 1], told[k])
    BY <2>1, <2>3, ReadOne
  <2>7. 0 \in 0..(m - 1) /\ m - 1 \in 0..(m - 1) BY <2>1
  <2>8. \A k \in 1..m : k = m \/ (k \in 1..(m - 1) /\ k \in 0..(m - 1) /\ k - 1 \in 0..(m - 1))
    BY <2>1
  <2>9. \A k \in 1..m : h[k] = EpisodeStep(h[k - 1], told[k])
    BY <2>4, <2>5, <2>6, <2>7, <2>8
  <2>10. Read(h, told, m) BY <2>1, <2>4, <2>5, <2>6, <2>7, <2>9, ReadBy
  <2>. QED BY <1>1, <2>10
<1>. QED BY <1>2, <1>3

LEMMA ReadAlike ==
    ASSUME NEW g, NEW h, NEW told, NEW later, NEW n \in Nat, NEW m \in Nat, n <= m,
           Read(g, told, n), Read(h, later, m), \A k \in 1..n : told[k] = later[k]
    PROVE  \A k \in 0..n : g[k] = h[k]
<1>. DEFINE S == {k \in 0..n : g[k] # h[k]}
<1>. SUFFICES ASSUME S # {} PROVE FALSE OBVIOUS
<1>0. S \in SUBSET Nat OBVIOUS
<1>1. PICK j \in S : \A k \in S : j <= k BY <1>0, LeastOf
<1>2. /\ g[0] = NoEpisodes /\ h[0] = NoEpisodes
      /\ \A k \in 1..n : g[k] = EpisodeStep(g[k - 1], told[k])
      /\ \A k \in 1..m : h[k] = EpisodeStep(h[k - 1], later[k])
  BY ReadOne
<1>3. j # 0 /\ j \in 0..n BY <1>1, <1>2
<1>4. j \in 1..n /\ j \in 1..m /\ j - 1 \in 0..n /\ j - 1 < j BY <1>3
<1>5. j - 1 \notin S BY <1>1, <1>4
<1>6. g[j - 1] = h[j - 1] BY <1>4, <1>5
<1>7. g[j] = h[j] BY <1>2, <1>4, <1>6
<1>. QED BY <1>1, <1>7

LEMMA EpisodesInIs ==
    ASSUME NEW told, Len(told) \in Nat, NEW g, Read(g, told, Len(told))
    PROVE  EpisodesIn(told) = g[Len(told)]
<1>. DEFINE after == CHOOSE h : h = [n \in 0..Len(told) |->
                  IF n = 0 THEN NoEpisodes ELSE EpisodeStep(h[n - 1], told[n])]
<1>1. EpisodesIn(told) = after[Len(told)] BY DEF EpisodesIn
<1>2. Read(after, told, Len(told)) BY ReadExists DEF Read
<1>. HIDE DEF after
<1>3. after[Len(told)] = g[Len(told)] BY <1>2, ReadAlike
<1>. QED BY <1>1, <1>3

LEMMA EpisodesOfNone == EpisodesIn(<<>>) = NoEpisodes
<1>1. PICK g : Read(g, <<>>, 0) BY ReadExists
<1>2. g[0] = NoEpisodes BY <1>1, ReadOne
<1>3. Len(<<>>) = 0 OBVIOUS
<1>. QED BY <1>1, <1>2, <1>3, EpisodesInIs

LEMMA EpisodesAppend ==
    ASSUME NEW T, NEW s \in Seq(T), NEW r \in T
    PROVE  EpisodesIn(Append(s, r)) = EpisodeStep(EpisodesIn(s), r)
<1>. DEFINE t == Append(s, r)
<1>1. /\ Len(s) \in Nat /\ Len(t) = Len(s) + 1 /\ t[Len(s) + 1] = r
      /\ \A k \in 1..Len(s) : s[k] = t[k]
  OBVIOUS
<1>. HIDE DEF t
<1>2. PICK g : Read(g, s, Len(s)) BY <1>1, ReadExists
<1>0. Len(s) + 1 \in Nat BY <1>1
<1>3. PICK h : Read(h, t, Len(s) + 1) BY <1>0, ReadExists
<1>4. g[Len(s)] = h[Len(s)] BY <1>1, <1>2, <1>3, ReadAlike
<1>5. h[Len(s) + 1] = EpisodeStep(h[Len(s)], r)
  <2>1. \A k \in 1..(Len(s) + 1) : h[k] = EpisodeStep(h[k - 1], t[k]) BY <1>1, <1>3, ReadOne
  <2>2. Len(s) + 1 \in 1..(Len(s) + 1) /\ (Len(s) + 1) - 1 = Len(s) BY <1>1
  <2>. QED BY <1>1, <2>1, <2>2
<1>6. EpisodesIn(s) = g[Len(s)] BY <1>1, <1>2, EpisodesInIs
<1>7. EpisodesIn(t) = h[Len(s) + 1] BY <1>1, <1>3, EpisodesInIs
<1>. QED BY <1>4, <1>5, <1>6, <1>7 DEF t

Timed(g, t, at, n) ==
    g = [k \in 0..n |-> IF k = 0 THEN 0 ELSE g[k - 1] + Length(t[k], at)]

LEMMA TimedOne ==
    ASSUME NEW g, NEW t, NEW at, NEW n \in Nat, Timed(g, t, at, n)
    PROVE  /\ g[0] = 0
           /\ \A k \in 1..n : g[k] = g[k - 1] + Length(t[k], at)
           /\ g = [k \in 0..n |-> g[k]]
<1>. DEFINE e(k) == IF k = 0 THEN 0 ELSE g[k - 1] + Length(t[k], at)
<1>1. g = [k \in 0..n |-> e(k)] BY DEF Timed
<1>2. \A k \in 0..n : g[k] = e(k) BY <1>1
<1>3. 0 \in 0..n /\ \A k \in 1..n : k \in 0..n /\ k # 0 OBVIOUS
<1>4. g[0] = 0 BY <1>2, <1>3
<1>5. \A k \in 1..n : g[k] = g[k - 1] + Length(t[k], at) BY <1>2, <1>3
<1>6. [k \in 0..n |-> e(k)] = [k \in 0..n |-> g[k]] BY <1>2
<1>. QED BY <1>1, <1>4, <1>5, <1>6

LEMMA TimedBy ==
    ASSUME NEW g, NEW t, NEW at, NEW n \in Nat, g = [k \in 0..n |-> g[k]],
           g[0] = 0, \A k \in 1..n : g[k] = g[k - 1] + Length(t[k], at)
    PROVE  Timed(g, t, at, n)
<1>. DEFINE e(k) == IF k = 0 THEN 0 ELSE g[k - 1] + Length(t[k], at)
<1>1. \A k \in 0..n : k = 0 \/ k \in 1..n OBVIOUS
<1>2. \A k \in 1..n : k # 0 OBVIOUS
<1>3. \A k \in 0..n : g[k] = e(k) BY <1>1, <1>2
<1>4. [k \in 0..n |-> e(k)] = [k \in 0..n |-> g[k]] BY <1>3
<1>. QED BY <1>4 DEF Timed

LEMMA TimedExists ==
    ASSUME NEW t, NEW at, NEW n \in Nat
    PROVE  \E g : Timed(g, t, at, n)
<1>. DEFINE S == {k \in Nat : ~\E g : Timed(g, t, at, k)}
<1>. SUFFICES ASSUME S # {} PROVE FALSE OBVIOUS
<1>1. PICK m \in S : \A k \in S : m <= k BY LeastOf
<1>2. CASE m = 0
  <2>. DEFINE g == [k \in 0..0 |-> 0]
  <2>1. g = [k \in 0..0 |-> g[k]] /\ g[0] = 0 OBVIOUS
  <2>. HIDE DEF g
  <2>2. \A k \in 1..0 : g[k] = g[k - 1] + Length(t[k], at) OBVIOUS
  <2>3. Timed(g, t, at, 0) BY <2>1, <2>2, TimedBy
  <2>. QED BY <1>1, <1>2, <2>3
<1>3. CASE m # 0
  <2>1. m - 1 \in Nat /\ m - 1 < m /\ m \in Nat BY <1>1, <1>3
  <2>2. m - 1 \notin S BY <1>1, <2>1
  <2>3. PICK g : Timed(g, t, at, m - 1) BY <2>1, <2>2
  <2>. DEFINE h == [k \in 0..m |-> IF k = m THEN g[m - 1] + Length(t[m], at) ELSE g[k]]
  <2>4. h = [k \in 0..m |-> h[k]] /\ h[m] = g[m - 1] + Length(t[m], at) BY <2>1
  <2>5. \A k \in 0..(m - 1) : h[k] = g[k] BY <2>1
  <2>. HIDE DEF h
  <2>6. /\ g[0] = 0
        /\ \A k \in 1..(m - 1) : g[k] = g[k - 1] + Length(t[k], at)
    BY <2>1, <2>3, TimedOne
  <2>7. 0 \in 0..(m - 1) /\ m - 1 \in 0..(m - 1) BY <2>1
  <2>8. \A k \in 1..m : k = m \/ (k \in 1..(m - 1) /\ k \in 0..(m - 1) /\ k - 1 \in 0..(m - 1))
    BY <2>1
  <2>9. \A k \in 1..m : h[k] = h[k - 1] + Length(t[k], at)
    BY <2>4, <2>5, <2>6, <2>7, <2>8
  <2>10. Timed(h, t, at, m) BY <2>1, <2>4, <2>5, <2>6, <2>7, <2>9, TimedBy
  <2>. QED BY <1>1, <2>10
<1>. QED BY <1>2, <1>3

LEMMA TimedAlike ==
    ASSUME NEW g, NEW h, NEW t, NEW u, NEW at, NEW till, NEW n \in Nat, NEW m \in Nat, n <= m,
           Timed(g, t, at, n), Timed(h, u, till, m),
           \A k \in 1..n : Length(t[k], at) = Length(u[k], till)
    PROVE  \A k \in 0..n : g[k] = h[k]
<1>. DEFINE S == {k \in 0..n : g[k] # h[k]}
<1>. SUFFICES ASSUME S # {} PROVE FALSE OBVIOUS
<1>0. S \in SUBSET Nat OBVIOUS
<1>1. PICK j \in S : \A k \in S : j <= k BY <1>0, LeastOf
<1>2. /\ g[0] = 0 /\ h[0] = 0
      /\ \A k \in 1..n : g[k] = g[k - 1] + Length(t[k], at)
      /\ \A k \in 1..m : h[k] = h[k - 1] + Length(u[k], till)
  BY TimedOne
<1>3. j # 0 /\ j \in 0..n BY <1>1, <1>2
<1>4. j \in 1..n /\ j \in 1..m /\ j - 1 \in 0..n /\ j - 1 < j BY <1>3
<1>5. j - 1 \notin S BY <1>1, <1>4
<1>6. g[j - 1] = h[j - 1] BY <1>4, <1>5
<1>7. g[j] = h[j] BY <1>2, <1>4, <1>6
<1>. QED BY <1>1, <1>7

LEMMA LatchedTimeIs ==
    ASSUME NEW t, NEW at, Len(t) \in Nat, NEW g, Timed(g, t, at, Len(t))
    PROVE  LatchedTime(t, at) = g[Len(t)]
<1>. DEFINE after == CHOOSE h : h = [n \in 0..Len(t) |->
                  IF n = 0 THEN 0 ELSE h[n - 1] + Length(t[n], at)]
<1>1. LatchedTime(t, at) = after[Len(t)] BY DEF LatchedTime
<1>2. Timed(after, t, at, Len(t)) BY TimedExists DEF Timed
<1>. HIDE DEF after
<1>3. after[Len(t)] = g[Len(t)] BY <1>2, TimedAlike
<1>. QED BY <1>1, <1>3

LEMMA TimeOfNone == ASSUME NEW t, NEW at, Len(t) = 0 PROVE LatchedTime(t, at) = 0
<1>1. PICK g : Timed(g, t, at, 0) BY TimedExists
<1>2. g[0] = 0 BY <1>1, TimedOne
<1>. QED BY <1>1, <1>2, LatchedTimeIs

LEMMA TimeKept ==
    ASSUME NEW t, NEW at, NEW u, NEW till, Len(t) \in Nat, Len(u) = Len(t),
           \A k \in 1..Len(t) : Length(t[k], at) = Length(u[k], till)
    PROVE  LatchedTime(u, till) = LatchedTime(t, at)
<1>1. PICK g : Timed(g, t, at, Len(t)) BY TimedExists
<1>2. PICK h : Timed(h, u, till, Len(u)) BY TimedExists
<1>. DEFINE n == Len(t)
<1>3. n \in Nat /\ n \in 0..n /\ Len(u) = n OBVIOUS
<1>4. Timed(g, t, at, n) /\ Timed(h, u, till, n) BY <1>1, <1>2
<1>5. \A k \in 1..n : Length(t[k], at) = Length(u[k], till) OBVIOUS
<1>6. LatchedTime(t, at) = g[n] /\ LatchedTime(u, till) = h[n] BY <1>3, <1>4, LatchedTimeIs
<1>. HIDE DEF n
<1>7. g[n] = h[n] BY <1>3, <1>4, <1>5, TimedAlike
<1>. QED BY <1>6, <1>7

LEMMA TimeGrows ==
    ASSUME NEW t, NEW at, NEW u, NEW till, Len(t) \in Nat, Len(u) = Len(t) + 1,
           \A k \in 1..Len(t) : Length(t[k], at) = Length(u[k], till)
    PROVE  LatchedTime(u, till) = LatchedTime(t, at) + Length(u[Len(u)], till)
<1>0. Len(u) \in Nat /\ Len(u) \in 1..Len(u) /\ Len(u) - 1 = Len(t) OBVIOUS
<1>1. PICK g : Timed(g, t, at, Len(t)) BY TimedExists
<1>2. PICK h : Timed(h, u, till, Len(u)) BY <1>0, TimedExists
<1>3. g[Len(t)] = h[Len(t)]
  <2>. DEFINE n == Len(t)
              m == Len(u)
  <2>1. n \in Nat /\ n \in 0..n /\ m \in Nat /\ n <= m BY <1>0
  <2>2. Timed(g, t, at, n) /\ Timed(h, u, till, m) BY <1>1, <1>2
  <2>3. \A k \in 1..n : Length(t[k], at) = Length(u[k], till) OBVIOUS
  <2>. HIDE DEF n, m
  <2>4. g[n] = h[n] BY <2>1, <2>2, <2>3, TimedAlike
  <2>. QED BY <2>4 DEF n
<1>4. h[Len(u)] = h[Len(u) - 1] + Length(u[Len(u)], till) BY <1>0, <1>2, TimedOne
<1>5. LatchedTime(t, at) = g[Len(t)] BY <1>1, LatchedTimeIs
<1>6. LatchedTime(u, till) = h[Len(u)] BY <1>0, <1>2, LatchedTimeIs
<1>. QED BY <1>0, <1>3, <1>4, <1>5, <1>6

(***************************************************************************)
(* What one row does to the episodes read so far.                          *)
(***************************************************************************)
EpisodeFields == {"count", "seconds", "external", "longest", "interrupted", "open", "suspended",
                  "start", "cut", "extSince", "ext"}
IsEpisodes(s) ==
    /\ DOMAIN s = EpisodeFields
    /\ s.count \in Int /\ s.seconds \in Int /\ s.external \in Int /\ s.external <= s.seconds
    /\ s.open \in BOOLEAN /\ s.suspended \in BOOLEAN /\ (s.suspended => s.open)
    /\ s.start \in Int /\ s.cut \in Int /\ s.extSince \in Int /\ s.ext \in Int

RowEvents == {"resident_started", "resident_stopped", "entered", "derate_released",
              "derate_resumed", "released"}
IsRow(r) ==
    /\ r.event \in RowEvents /\ r.at \in Int /\ r.since \in Int /\ r.ext \in Int
    /\ r.resumed \in BOOLEAN

LEMMA MaxMin ==
    ASSUME NEW a \in Int, NEW b \in Int
    PROVE  /\ Max2(a, b) \in Int /\ Max2(a, b) >= a /\ Max2(a, b) >= b
           /\ Min2(a, b) \in Int /\ Min2(a, b) <= a /\ Min2(a, b) <= b
BY DEF Max2, Min2

LEMMA NeverIs == Never \in Int /\ Never < 0
BY DEF Never

LEMMA NoEpisodesIs ==
    /\ IsEpisodes(NoEpisodes) /\ NoEpisodes.count = 0 /\ NoEpisodes.seconds = 0
    /\ NoEpisodes.open = FALSE /\ NoEpisodes.suspended = FALSE
BY NeverIs DEF NoEpisodes, IsEpisodes, EpisodeFields

LEMMA ExternalIs ==
    ASSUME NEW s, IsEpisodes(s), NEW end \in Int
    PROVE  ExternalUntil(s, end) \in Int
<1>0. end - s.extSince \in Int /\ s.ext \in Int BY DEF IsEpisodes
<1>1. Max2(0, end - s.extSince) \in Int BY <1>0 DEF Max2
<1>2. CASE s.extSince = Never
  <2>1. ExternalUntil(s, end) = s.ext + 0 BY <1>2 DEF ExternalUntil
  <2>. QED BY <1>0, <2>1
<1>3. CASE s.extSince # Never
  <2>1. ExternalUntil(s, end) = s.ext + Max2(0, end - s.extSince) BY <1>3 DEF ExternalUntil
  <2>. QED BY <1>0, <1>1, <2>1
<1>. QED BY <1>2, <1>3

\* s with its last episode over at end, and c that s.
OverAt(c, s, end) ==
    /\ IsEpisodes(c) /\ c.count = s.count /\ c.seconds = s.seconds + Max2(0, end - s.start)
    /\ c.open = FALSE /\ c.suspended = FALSE

LEMMA CloseIs ==
    ASSUME NEW s, IsEpisodes(s), NEW end \in Int, NEW ext \in Int
    PROVE  OverAt(CloseEpisode(s, end, ext), s, end)
<1>. DEFINE c      == CloseEpisode(s, end, ext)
            length == Max2(0, end - s.start)
            part   == Min2(length, Max2(0, ext))
            long   == Max2(s.longest, length)
<1>0. end - s.start \in Int BY DEF IsEpisodes
<1>1. length \in Int BY <1>0 DEF Max2
<1>2. Max2(0, ext) \in Int BY MaxMin
<1>3. part \in Int /\ part <= length BY <1>1, <1>2, MaxMin
<1>4. c = [s EXCEPT !.seconds = s.seconds + length, !.external = s.external + part,
                    !.longest = long, !.open = FALSE, !.suspended = FALSE,
                    !.extSince = Never, !.ext = 0]
  BY DEF CloseEpisode, IsEpisodes, EpisodeFields
<1>. HIDE DEF c, length, part, long
<1>5. DOMAIN c = EpisodeFields BY <1>4 DEF IsEpisodes
<1>6. /\ c.count = s.count /\ c.seconds = s.seconds + length /\ c.external = s.external + part
      /\ c.open = FALSE /\ c.suspended = FALSE /\ c.start = s.start /\ c.cut = s.cut
      /\ c.extSince = Never /\ c.ext = 0
  BY <1>4 DEF IsEpisodes, EpisodeFields
<1>7. c.external <= c.seconds /\ c.external \in Int /\ c.seconds \in Int
  BY <1>1, <1>3, <1>6 DEF IsEpisodes
<1>8. /\ c.count \in Int /\ c.start \in Int /\ c.cut \in Int /\ c.extSince \in Int /\ c.ext \in Int
      /\ c.open \in BOOLEAN /\ c.suspended \in BOOLEAN /\ (c.suspended => c.open)
  <2>1. /\ c.count \in Int /\ c.start \in Int /\ c.cut \in Int /\ c.extSince \in Int /\ c.ext \in Int
    BY <1>6, NeverIs DEF IsEpisodes
  <2>2. c.open \in BOOLEAN /\ c.suspended \in BOOLEAN /\ ~c.suspended
    BY <1>6
  <2>. QED BY <2>1, <2>2
<1>9. IsEpisodes(c) BY <1>5, <1>7, <1>8 DEF IsEpisodes
<1>. QED BY <1>6, <1>9 DEF OverAt, length, c

LEMMA InterruptIs ==
    ASSUME NEW s, IsEpisodes(s), NEW end \in Int
    PROVE  OverAt(Interrupt(s, end), s, end)
<1>. DEFINE x == ExternalUntil(s, end)
            d == CloseEpisode(s, end, x)
            c == Interrupt(s, end)
<1>1. x \in Int BY ExternalIs
<1>2. OverAt(d, s, end)
  <2>. HIDE DEF x
  <2>. QED BY <1>1, CloseIs
<1>3. PICK n : c = [d EXCEPT !.interrupted = n] BY DEF Interrupt
<1>. HIDE DEF c, d
<1>4. OverAt(c, s, end) BY <1>2, <1>3 DEF OverAt, IsEpisodes, EpisodeFields
<1>. QED BY <1>4 DEF c

LEMMA EndSuspendedIs ==
    ASSUME NEW s, IsEpisodes(s)
    PROVE  /\ IsEpisodes(EndSuspended(s)) /\ EndSuspended(s).count = s.count
           /\ s.suspended = FALSE => EndSuspended(s) = s
           /\ s.suspended = TRUE  => /\ EndSuspended(s).open = FALSE /\ EndSuspended(s).suspended = FALSE
                                     /\ EndSuspended(s).seconds = s.seconds + Max2(0, s.cut - s.start)
<1>1. CASE s.suspended = FALSE
  BY <1>1 DEF EndSuspended
<1>2. CASE s.suspended = TRUE
  <2>1. EndSuspended(s) = Interrupt(s, s.cut) BY <1>2 DEF EndSuspended, IsEpisodes
  <2>2. s.cut \in Int BY DEF IsEpisodes
  <2>3. OverAt(EndSuspended(s), s, s.cut) BY <2>1, <2>2, InterruptIs
  <2>. QED BY <1>2, <2>3 DEF OverAt
<1>. QED BY <1>1, <1>2 DEF IsEpisodes

LEMMA OpenedIs ==
    ASSUME NEW s, IsEpisodes(s), NEW r, IsRow(r), NEW c, c = Opened(s, r)
    PROVE  /\ IsEpisodes(c) /\ c.count = s.count + 1 /\ c.open = TRUE
           /\ r.resumed = FALSE => c.start = r.at
           /\ (s.open => s.suspended) =>
                 c.seconds = EndSuspended(s).seconds /\ c.suspended = FALSE
<1>. DEFINE e == EndSuspended(s)
            d == IF e.open THEN Interrupt(s, r.at) ELSE e
            st == IF r.resumed /\ r.since # Never THEN Min2(r.since, r.at) ELSE r.at
            ex == IF r.cause = "external" THEN r.at ELSE Never
<1>1. IsEpisodes(e) /\ e.count = s.count BY EndSuspendedIs
<1>2. IsEpisodes(d) /\ d.count = s.count /\ d.suspended = FALSE /\ (e.open = FALSE => d = e)
  <2>1. CASE e.open = TRUE
    <3>. DEFINE i == Interrupt(s, r.at)
    <3>1. IsEpisodes(i) /\ i.count = s.count /\ i.suspended = FALSE
      <4>1. r.at \in Int BY DEF IsRow
      <4>. HIDE DEF e
      <4>2. OverAt(i, s, r.at) BY <4>1, InterruptIs
      <4>. HIDE DEF i
      <4>. QED BY <4>2 DEF OverAt
    <3>2. d = i BY <2>1
    <3>. HIDE DEF d, i, e
    <3>. QED BY <2>1, <3>1, <3>2
  <2>2. CASE e.open = FALSE
    <3>1. d = e BY <2>2
    <3>. HIDE DEF d, e
    <3>. QED BY <1>1, <2>2, <3>1 DEF IsEpisodes
  <2>. QED BY <1>1, <2>1, <2>2 DEF IsEpisodes
<1>3. st \in Int /\ ex \in Int /\ (r.resumed = FALSE => st = r.at) BY MaxMin, NeverIs DEF IsRow
<1>4. c = [d EXCEPT !.count = d.count + 1, !.open = TRUE, !.ext = 0, !.start = st, !.extSince = ex]
  <2>1. c = [d EXCEPT !.count = @ + 1, !.open = TRUE, !.ext = 0, !.start = st, !.extSince = ex]
    BY DEF Opened
  <2>. HIDE DEF d, st, ex
  <2>. QED BY <1>2, <2>1 DEF IsEpisodes, EpisodeFields
<1>5. (s.open => s.suspended) => e.open = FALSE BY EndSuspendedIs DEF IsEpisodes
<1>. HIDE DEF d, e, st, ex
<1>6. /\ DOMAIN c = EpisodeFields /\ c.count = d.count + 1 /\ c.open = TRUE /\ c.ext = 0
      /\ c.start = st /\ c.extSince = ex /\ c.seconds = d.seconds /\ c.external = d.external
      /\ c.suspended = d.suspended /\ c.cut = d.cut
  BY <1>2, <1>4 DEF IsEpisodes, EpisodeFields
<1>7. IsEpisodes(c)
  <2>1. /\ c.count \in Int /\ c.seconds \in Int /\ c.external \in Int /\ c.external <= c.seconds
        /\ c.start \in Int /\ c.cut \in Int /\ c.extSince \in Int /\ c.ext \in Int
    BY <1>2, <1>3, <1>6 DEF IsEpisodes
  <2>2. c.open \in BOOLEAN /\ c.suspended \in BOOLEAN /\ (c.suspended => c.open)
    BY <1>2, <1>6 DEF IsEpisodes
  <2>. QED BY <1>6, <2>1, <2>2 DEF IsEpisodes
<1>8. (s.open => s.suspended) => c.seconds = e.seconds /\ c.suspended = FALSE BY <1>2, <1>5, <1>6
<1>. QED BY <1>2, <1>3, <1>6, <1>7, <1>8 DEF e

(***************************************************************************)
(* What one row does, event by event.                                      *)
(***************************************************************************)
\* c is s with the same episode open, and broken off or going on.
Same(c, s)          == /\ IsEpisodes(c) /\ c.count = s.count /\ c.seconds = s.seconds
                       /\ c.open = TRUE /\ c.start = s.start
BrokenOff(c, s, at) == /\ s.open /\ ~s.suspended => Same(c, s) /\ c.suspended = TRUE /\ c.cut = at
                       /\ ~s.open \/ s.suspended => c = s
GoesOn(c, s)        == Same(c, s) /\ c.suspended = FALSE

LEMMA StepBoundary ==
    ASSUME NEW s, IsEpisodes(s), NEW r, IsRow(r), r.event \in {"resident_started", "resident_stopped"}
    PROVE  BrokenOff(EpisodeStep(s, r), s, r.at)
<1>. DEFINE c == EpisodeStep(s, r)
<1>1. c = IF s.open /\ ~s.suspended THEN [s EXCEPT !.suspended = TRUE, !.cut = r.at] ELSE s
  BY DEF EpisodeStep
<1>2. ASSUME s.open, ~s.suspended
      PROVE  /\ IsEpisodes(c) /\ c.count = s.count /\ c.seconds = s.seconds /\ c.open = TRUE
             /\ c.suspended = TRUE /\ c.start = s.start /\ c.cut = r.at
  <2>1. c = [s EXCEPT !.suspended = TRUE, !.cut = r.at] BY <1>1, <1>2
  <2>2. /\ DOMAIN c = EpisodeFields /\ c.suspended = TRUE /\ c.cut = r.at /\ c.count = s.count
        /\ c.seconds = s.seconds /\ c.external = s.external /\ c.open = s.open /\ c.start = s.start
        /\ c.extSince = s.extSince /\ c.ext = s.ext
    BY <2>1 DEF IsEpisodes, EpisodeFields
  <2>3. s.open = TRUE BY <1>2 DEF IsEpisodes
  <2>4. IsEpisodes(c) BY <2>2, <2>3 DEF IsEpisodes, IsRow
  <2>. QED BY <2>2, <2>3, <2>4
<1>3. ASSUME ~s.open \/ s.suspended PROVE c = s BY <1>1, <1>3
<1>. HIDE DEF c
<1>4. BrokenOff(c, s, r.at) BY <1>2, <1>3 DEF BrokenOff, Same
<1>. QED BY <1>4 DEF c

\* A row that continues the suspended episode.
LEMMA StepResumed ==
    ASSUME NEW s, IsEpisodes(s), NEW r, IsRow(r), r.event = "entered", r.resumed = TRUE, r.since # Never,
           s.open = TRUE, s.suspended = TRUE, r.since = s.start
    PROVE  GoesOn(EpisodeStep(s, r), s)
<1>. DEFINE c == EpisodeStep(s, r)
            x == IF r.cause = "external" /\ s.extSince = Never THEN r.at ELSE s.extSince
<1>1. Continues(s, r) BY DEF Continues
<1>2. c = [s EXCEPT !.suspended = FALSE, !.extSince = IF r.cause = "external" /\ @ = Never THEN r.at ELSE @]
  BY <1>1 DEF EpisodeStep
<1>3. c = [s EXCEPT !.suspended = FALSE, !.extSince = x] BY <1>2 DEF IsEpisodes, EpisodeFields
<1>4. x \in Int BY DEF IsEpisodes, IsRow
<1>. HIDE DEF c, x
<1>5. /\ DOMAIN c = EpisodeFields /\ c.suspended = FALSE /\ c.cut = s.cut /\ c.count = s.count
      /\ c.seconds = s.seconds /\ c.external = s.external /\ c.open = s.open /\ c.start = s.start
      /\ c.extSince = x /\ c.ext = s.ext
  BY <1>3 DEF IsEpisodes, EpisodeFields
<1>6. IsEpisodes(c) BY <1>4, <1>5 DEF IsEpisodes
<1>. QED BY <1>5, <1>6 DEF GoesOn, Same, c

LEMMA StepDerate ==
    ASSUME NEW s, IsEpisodes(s), NEW r, IsRow(r), r.event \in {"derate_released", "derate_resumed"},
           s.open = TRUE, s.suspended = FALSE
    PROVE  GoesOn(EpisodeStep(s, r), s)
<1>. DEFINE c == EpisodeStep(s, r)
<1>. SUFFICES GoesOn(c, s) OBVIOUS
<1>0. r.at \in Int BY DEF IsRow
<1>1. CASE c = s
  <2>. HIDE DEF c
  <2>. QED BY <1>1 DEF GoesOn, Same
<1>2. ASSUME NEW e \in Int, NEW x \in Int, c = [s EXCEPT !.ext = x, !.extSince = e]
      PROVE  GoesOn(c, s)
  <2>. HIDE DEF c
  <2>1. /\ DOMAIN c = EpisodeFields /\ c.suspended = FALSE /\ c.cut = s.cut /\ c.count = s.count
        /\ c.seconds = s.seconds /\ c.external = s.external /\ c.open = s.open /\ c.start = s.start
        /\ c.extSince = e /\ c.ext = x
    BY <1>2 DEF IsEpisodes, EpisodeFields
  <2>2. IsEpisodes(c) BY <1>2, <2>1 DEF IsEpisodes
  <2>. QED BY <2>1, <2>2 DEF GoesOn, Same
<1>3. CASE r.event = "derate_resumed"
  <2>. DEFINE x == ExternalUntil(s, r.at)
  <2>1. c = [s EXCEPT !.ext = x, !.extSince = Never] BY <1>3 DEF EpisodeStep
  <2>2. x \in Int BY <1>0, ExternalIs
  <2>. HIDE DEF x
  <2>. QED BY <1>2, <2>1, <2>2, NeverIs
<1>4. CASE r.event = "derate_released" /\ c # s
  <2>1. c = [s EXCEPT !.extSince = r.at] BY <1>4 DEF EpisodeStep
  <2>2. c = [s EXCEPT !.ext = s.ext, !.extSince = r.at] BY <2>1 DEF IsEpisodes, EpisodeFields
  <2>3. s.ext \in Int BY DEF IsEpisodes
  <2>. QED BY <1>0, <1>2, <2>2, <2>3
<1>. QED BY <1>1, <1>3, <1>4

LEMMA StepReleased ==
    ASSUME NEW s, IsEpisodes(s), NEW r, IsRow(r), r.event = "released", r.since # Never,
           s.open = TRUE, s.suspended = TRUE => r.since = s.start
    PROVE  OverAt(EpisodeStep(s, r), s, r.at)
<1>0. r.at \in Int /\ r.ext \in Int BY DEF IsRow
<1>. DEFINE k == IF Continues(s, r) THEN [s EXCEPT !.suspended = FALSE] ELSE EndSuspended(s)
            e == IF k.open THEN k ELSE [k EXCEPT !.count = @ + 1, !.start = r.since]
            x == IF r.ext > 0 THEN r.ext ELSE ExternalUntil(e, r.at)
<1>1. EpisodeStep(s, r) = CloseEpisode(e, r.at, x) BY DEF EpisodeStep
<1>2. IsEpisodes(k) /\ k.open = TRUE /\ k.count = s.count /\ k.seconds = s.seconds /\ k.start = s.start
  <2>1. CASE s.suspended = TRUE
    <3>1. Continues(s, r) BY <2>1 DEF Continues
    <3>2. k = [s EXCEPT !.suspended = FALSE] BY <3>1
    <3>. HIDE DEF k
    <3>3. /\ DOMAIN k = EpisodeFields /\ k.suspended = FALSE /\ k.cut = s.cut /\ k.count = s.count
          /\ k.seconds = s.seconds /\ k.external = s.external /\ k.open = s.open /\ k.start = s.start
          /\ k.extSince = s.extSince /\ k.ext = s.ext
      BY <3>2 DEF IsEpisodes, EpisodeFields
    <3>4. IsEpisodes(k) BY <3>3 DEF IsEpisodes
    <3>. QED BY <3>3, <3>4
  <2>2. CASE s.suspended = FALSE
    <3>1. k = s BY <2>2 DEF Continues, EndSuspended
    <3>. HIDE DEF k
    <3>. QED BY <3>1
  <2>. QED BY <2>1, <2>2 DEF IsEpisodes
<1>3. e = k BY <1>2
<1>. HIDE DEF k, e
<1>4. IsEpisodes(e) BY <1>2, <1>3
<1>5. x \in Int
  <2>1. ExternalUntil(e, r.at) \in Int BY <1>0, <1>4, ExternalIs
  <2>. QED BY <1>0, <2>1
<1>. HIDE DEF x
<1>6. OverAt(CloseEpisode(e, r.at, x), e, r.at) BY <1>0, <1>4, <1>5, CloseIs
<1>. QED BY <1>1, <1>2, <1>3, <1>6 DEF OverAt

(***************************************************************************)
(* What the rows say of the episodes t that were: s is what they were read *)
(* as, cut when they first show that the resident of the open one is gone. *)
(***************************************************************************)
Episode == [start : Int, end : Int]
OpenIn(t) == t # <<>> /\ t[Len(t)].end = Never
Before(t) == [k \in 1..(Len(t) - 1) |-> t[k]]

OpenTold(s, t, cut, at) ==
    /\ s.open = TRUE /\ s.start = t[Len(t)].start /\ s.start \in 0..at
    /\ s.seconds = LatchedTime(Before(t), at)
    /\ IF cut = Never THEN s.suspended = FALSE
       ELSE s.suspended = TRUE /\ s.cut = cut /\ cut \in s.start..at
OverTold(s, t, at) ==
    /\ s.open = TRUE => s.suspended = TRUE
    /\ EndSuspended(s).seconds = LatchedTime(t, at)
Told(s, t, cut, at) ==
    /\ IsEpisodes(s) /\ t \in Seq(Episode) /\ s.count = Len(t)
    /\ \A k \in 1..(Len(t) - 1) : t[k].end # Never
    /\ IF OpenIn(t) THEN OpenTold(s, t, cut, at) ELSE OverTold(s, t, at)

LEMMA LastOf ==
    ASSUME NEW t \in Seq(Episode)
    PROVE  /\ Len(t) \in Nat
           /\ t # <<>> => Len(t) \in 1..Len(t) /\ t[Len(t)] \in Episode
           /\ \A k \in 1..Len(t) : t[k] \in Episode
           /\ t # <<>> => Len(Before(t)) = Len(t) - 1 /\ \A k \in 1..(Len(t) - 1) : Before(t)[k] = t[k]
<1>1. Len(t) \in Nat /\ (t # <<>> => Len(t) \in 1..Len(t)) /\ \A k \in 1..Len(t) : t[k] \in Episode
  OBVIOUS
<1>2. ASSUME t # <<>>
      PROVE  Len(Before(t)) = Len(t) - 1 /\ \A k \in 1..(Len(t) - 1) : Before(t)[k] = t[k]
  <2>1. Len(t) - 1 \in Nat BY <1>1, <1>2
  <2>2. Before(t) \in Seq(Episode) /\ Len(Before(t)) = Len(t) - 1
    <3>1. \A k \in 1..(Len(t) - 1) : t[k] \in Episode BY <1>1
    <3>2. DOMAIN Before(t) = 1..(Len(t) - 1) BY DEF Before
    <3>3. Before(t) \in [1..(Len(t) - 1) -> Episode] BY <3>1 DEF Before
    <3>4. Before(t) \in Seq(Episode) BY <2>1, <3>3
    <3>. QED BY <2>1, <3>2, <3>4
  <2>. QED BY <2>2 DEF Before
<1>. QED BY <1>1, <1>2

LEMMA LengthOver ==
    ASSUME NEW e, e.end # Never, NEW at, NEW till
    PROVE  Length(e, at) = Length(e, till)
BY DEF Length

\* The episodes before the last do not grow.
LEMMA BeforeKept ==
    ASSUME NEW t \in Seq(Episode), t # <<>>, \A k \in 1..(Len(t) - 1) : t[k].end # Never, NEW at, NEW till
    PROVE  LatchedTime(Before(t), till) = LatchedTime(Before(t), at)
<1>. DEFINE b == Before(t)
<1>1. /\ Len(b) = Len(t) - 1 /\ \A k \in 1..(Len(t) - 1) : b[k] = t[k]
      /\ Len(b) \in Nat
  BY LastOf
<1>. HIDE DEF b
<1>2. \A k \in 1..Len(b) : b[k].end # Never BY <1>1
<1>3. \A k \in 1..Len(b) : Length(b[k], at) = Length(b[k], till) BY <1>2, LengthOver
<1>4. LatchedTime(b, till) = LatchedTime(b, at) BY <1>1, <1>3, TimeKept
<1>. QED BY <1>4 DEF b

LEMMA AllKept ==
    ASSUME NEW t \in Seq(Episode), ~OpenIn(t), \A k \in 1..(Len(t) - 1) : t[k].end # Never, NEW at, NEW till
    PROVE  LatchedTime(t, till) = LatchedTime(t, at)
<1>1. Len(t) \in Nat BY LastOf
<1>2. \A k \in 1..Len(t) : t[k].end # Never
  <2>1. CASE t = <<>> BY <2>1
  <2>2. CASE t # <<>>
    <3>1. \A k \in 1..Len(t) : k = Len(t) \/ k \in 1..(Len(t) - 1) BY <1>1
    <3>. QED BY <2>2, <3>1 DEF OpenIn
  <2>. QED BY <2>1, <2>2
<1>3. \A k \in 1..Len(t) : Length(t[k], at) = Length(t[k], till) BY <1>2, LengthOver
<1>. QED BY <1>1, <1>3, TimeKept

\* The last episode is over at `to`, or is measured at a time.
LEMMA WithLast ==
    ASSUME NEW t \in Seq(Episode), t # <<>>, NEW u, Len(u) = Len(t),
           \A k \in 1..(Len(t) - 1) : t[k].end # Never /\ u[k] = t[k], NEW at
    PROVE  LatchedTime(u, at) = LatchedTime(Before(t), at) + Length(u[Len(u)], at)
<1>. DEFINE b == Before(t)
<1>1. /\ Len(b) = Len(t) - 1 /\ \A k \in 1..(Len(t) - 1) : b[k] = t[k]
      /\ Len(b) \in Nat /\ Len(t) = Len(b) + 1 /\ Len(t) \in Nat
  <2>1. Len(t) \in 1..Len(t) BY LastOf
  <2>2. Len(b) = Len(t) - 1 /\ \A k \in 1..(Len(t) - 1) : b[k] = t[k] BY LastOf
  <2>3. Len(t) \in Nat BY LastOf
  <2>. HIDE DEF b
  <2>. QED BY <2>1, <2>2, <2>3
<1>. HIDE DEF b
<1>2. Len(u) = Len(b) + 1 BY <1>1
<1>3. \A k \in 1..Len(b) : Length(b[k], at) = Length(u[k], at)
  <2>1. \A k \in 1..Len(b) : b[k] = u[k] BY <1>1
  <2>. QED BY <2>1
<1>4. LatchedTime(u, at) = LatchedTime(b, at) + Length(u[Len(u)], at) BY <1>1, <1>2, <1>3, TimeGrows
<1>. QED BY <1>4 DEF b

LEMMA OpenParts ==
    ASSUME NEW s, NEW t, NEW cut, NEW at, Told(s, t, cut, at), OpenIn(t)
    PROVE  OpenTold(s, t, cut, at) /\ t # <<>>
BY DEF Told, OpenIn

LEMMA OverParts ==
    ASSUME NEW s, NEW t, NEW cut, NEW at, Told(s, t, cut, at), ~OpenIn(t)
    PROVE  OverTold(s, t, at)
BY DEF Told

\* Time passes.
LEMMA ToldLater ==
    ASSUME NEW s, NEW t, NEW cut, NEW at \in Nat, NEW till \in Nat, at <= till, Told(s, t, cut, at)
    PROVE  Told(s, t, cut, till)
<1>1. /\ IsEpisodes(s) /\ t \in Seq(Episode) /\ s.count = Len(t)
      /\ \A k \in 1..(Len(t) - 1) : t[k].end # Never
  BY DEF Told
<1>2. CASE OpenIn(t)
  <2>1. OpenTold(s, t, cut, at) /\ t # <<>> BY <1>2, OpenParts
  <2>2. LatchedTime(Before(t), till) = LatchedTime(Before(t), at) BY <1>1, <2>1, BeforeKept
  <2>3. s.start \in Int BY <1>1 DEF IsEpisodes
  <2>4. OpenTold(s, t, cut, till) BY <2>1, <2>2, <2>3 DEF OpenTold
  <2>. QED BY <1>1, <1>2, <2>4 DEF Told
<1>3. CASE ~OpenIn(t)
  <2>1. OverTold(s, t, at) BY <1>3, OverParts
  <2>2. LatchedTime(t, till) = LatchedTime(t, at) BY <1>1, <1>3, AllKept
  <2>3. OverTold(s, t, till) BY <2>1, <2>2 DEF OverTold
  <2>. QED BY <1>1, <1>3, <2>3 DEF Told
<1>. QED BY <1>2, <1>3

\* A start or stop row.
LEMMA ToldBoundary ==
    ASSUME NEW s, NEW t, NEW cut, NEW at \in Nat, Told(s, t, cut, at),
           NEW r, IsRow(r), r.event \in {"resident_started", "resident_stopped"}, r.at = at
    PROVE  Told(EpisodeStep(s, r), t, IF OpenIn(t) /\ cut = Never THEN at ELSE cut, at)
<1>. DEFINE c == EpisodeStep(s, r)
<1>1. /\ IsEpisodes(s) /\ t \in Seq(Episode) /\ s.count = Len(t)
      /\ \A k \in 1..(Len(t) - 1) : t[k].end # Never
  BY DEF Told
<1>2. BrokenOff(c, s, at) BY <1>1, StepBoundary
<1>. HIDE DEF c
<1>3. CASE OpenIn(t)
  <2>1. OpenTold(s, t, cut, at) BY <1>3, OpenParts
  <2>2. CASE cut = Never
    <3>1. s.open = TRUE /\ s.suspended = FALSE BY <2>1, <2>2 DEF OpenTold
    <3>2. /\ IsEpisodes(c) /\ c.count = s.count /\ c.seconds = s.seconds /\ c.open = TRUE
          /\ c.suspended = TRUE /\ c.start = s.start /\ c.cut = at
      BY <1>2, <3>1 DEF BrokenOff, Same
    <3>3. at # Never BY NeverIs
    <3>4. s.start \in 0..at BY <2>1 DEF OpenTold
    <3>5. at \in s.start..at BY <3>4
    <3>6. OpenTold(c, t, at, at) BY <2>1, <3>2, <3>3, <3>5 DEF OpenTold
    <3>. QED BY <1>1, <1>3, <2>2, <3>2, <3>6 DEF Told, c
  <2>3. CASE cut # Never
    <3>1. s.suspended = TRUE BY <2>1, <2>3 DEF OpenTold
    <3>2. c = s BY <1>2, <3>1 DEF BrokenOff
    <3>. QED BY <2>3, <3>2 DEF c
  <2>. QED BY <2>2, <2>3
<1>4. CASE ~OpenIn(t)
  <2>1. s.open = TRUE => s.suspended = TRUE BY <1>4, OverParts DEF OverTold
  <2>2. c = s BY <1>1, <1>2, <2>1 DEF IsEpisodes, BrokenOff
  <2>. QED BY <1>4, <2>2 DEF c
<1>. QED BY <1>3, <1>4

EndedAt(t, to) == [t EXCEPT ![Len(t)].end = to]

LEMMA Ended ==
    ASSUME NEW t \in Seq(Episode), t # <<>>, NEW to \in Int
    PROVE  /\ EndedAt(t, to) \in Seq(Episode) /\ Len(EndedAt(t, to)) = Len(t) /\ EndedAt(t, to) # <<>>
           /\ \A k \in 1..(Len(t) - 1) : EndedAt(t, to)[k] = t[k]
           /\ EndedAt(t, to)[Len(t)].start = t[Len(t)].start /\ EndedAt(t, to)[Len(t)].end = to
<1>. DEFINE e == [t[Len(t)] EXCEPT !.end = to]
            u == EndedAt(t, to)
<1>1. Len(t) \in 1..Len(t) /\ t[Len(t)] \in Episode /\ Len(t) \in Nat BY LastOf
<1>2. e \in Episode /\ e.start = t[Len(t)].start /\ e.end = to BY <1>1 DEF Episode
<1>3. u = [t EXCEPT ![Len(t)] = e] BY DEF EndedAt
<1>. HIDE DEF e, u
<1>4. u \in Seq(Episode) /\ Len(u) = Len(t) /\ u[Len(t)] = e BY <1>1, <1>2, <1>3
<1>5. \A k \in 1..(Len(t) - 1) : u[k] = t[k] BY <1>1, <1>3
<1>6. u # <<>> BY <1>1, <1>4
<1>. QED BY <1>2, <1>4, <1>5, <1>6 DEF u

\* The open episode is over.
LEMMA ToldEnded ==
    ASSUME NEW s, NEW t, NEW cut, NEW at \in Nat, Told(s, t, cut, at), OpenIn(t), NEW to \in Int, to # Never,
           NEW c, IsEpisodes(c), c.count = s.count, c.open = TRUE => c.suspended = TRUE,
           t[Len(t)].start <= to,
           EndSuspended(c).seconds = LatchedTime(Before(t), at) + (to - t[Len(t)].start), NEW cut2
    PROVE  Told(c, EndedAt(t, to), cut2, at)
<1>1. /\ IsEpisodes(s) /\ t \in Seq(Episode) /\ s.count = Len(t) /\ t # <<>>
      /\ \A k \in 1..(Len(t) - 1) : t[k].end # Never
  BY OpenParts DEF Told
<1>. DEFINE u == EndedAt(t, to)
<1>2. /\ u \in Seq(Episode) /\ Len(u) = Len(t) /\ u # <<>>
      /\ \A k \in 1..(Len(t) - 1) : u[k] = t[k]
      /\ u[Len(t)].start = t[Len(t)].start /\ u[Len(t)].end = to
  BY <1>1, Ended
<1>. HIDE DEF u
<1>3. ~OpenIn(u) BY <1>2 DEF OpenIn
<1>4. LatchedTime(u, at) = LatchedTime(Before(t), at) + Length(u[Len(u)], at) BY <1>1, <1>2, WithLast
<1>5. Length(u[Len(u)], at) = to - t[Len(t)].start BY <1>2 DEF Length
<1>6. OverTold(c, u, at) BY <1>4, <1>5 DEF OverTold
<1>7. \A k \in 1..(Len(u) - 1) : u[k].end # Never BY <1>1, <1>2
<1>8. c.count = Len(u) BY <1>1, <1>2
<1>9. Told(c, u, cut2, at) BY <1>2, <1>3, <1>6, <1>7, <1>8 DEF Told
<1>. QED BY <1>9 DEF u

\* A resident that starts leaves the episode where the rows were cut.
LEMMA ToldCut ==
    ASSUME NEW s, NEW t, NEW cut, NEW at \in Nat, Told(s, t, cut, at), OpenIn(t), cut # Never, NEW cut2
    PROVE  Told(s, EndedAt(t, cut), cut2, at)
<1>1. IsEpisodes(s) BY DEF Told
<1>2. OpenTold(s, t, cut, at) BY OpenParts
<1>3. /\ s.suspended = TRUE /\ s.cut = cut /\ cut \in s.start..at /\ s.start = t[Len(t)].start
      /\ s.start \in 0..at /\ s.seconds = LatchedTime(Before(t), at)
  BY <1>2 DEF OpenTold
<1>4. EndSuspended(s).seconds = s.seconds + Max2(0, s.cut - s.start) BY <1>1, <1>3, EndSuspendedIs
<1>5. Max2(0, s.cut - s.start) = cut - s.start BY <1>3 DEF Max2
<1>6. EndSuspended(s).seconds = LatchedTime(Before(t), at) + (cut - t[Len(t)].start) BY <1>3, <1>4, <1>5
<1>7. cut \in Int /\ t[Len(t)].start <= cut BY <1>3
<1>. QED BY <1>1, <1>3, <1>6, <1>7, ToldEnded

\* The storm is over, and the row says so.
LEMMA ToldReleased ==
    ASSUME NEW s, NEW t, NEW cut, NEW at \in Nat, Told(s, t, cut, at), OpenIn(t),
           NEW r, IsRow(r), r.event = "released", r.at = at, r.since = t[Len(t)].start, NEW cut2
    PROVE  Told(EpisodeStep(s, r), EndedAt(t, at), cut2, at)
<1>. DEFINE c == EpisodeStep(s, r)
<1>1. IsEpisodes(s) BY DEF Told
<1>2. OpenTold(s, t, cut, at) BY OpenParts
<1>3. /\ s.open = TRUE /\ s.start = t[Len(t)].start /\ s.start \in 0..at
      /\ s.seconds = LatchedTime(Before(t), at)
  BY <1>2 DEF OpenTold
<1>4. r.since # Never /\ r.since = s.start BY <1>3, NeverIs
<1>5. OverAt(c, s, at) BY <1>1, <1>3, <1>4, StepReleased
<1>. HIDE DEF c
<1>6. /\ IsEpisodes(c) /\ c.count = s.count /\ c.seconds = s.seconds + Max2(0, at - s.start)
      /\ c.open = FALSE /\ c.suspended = FALSE
  BY <1>5 DEF OverAt
<1>7. Max2(0, at - s.start) = at - s.start BY <1>3 DEF Max2
<1>8. EndSuspended(c) = c BY <1>6, EndSuspendedIs
<1>9. EndSuspended(c).seconds = LatchedTime(Before(t), at) + (at - t[Len(t)].start) BY <1>3, <1>6, <1>7, <1>8
<1>10. at \in Int /\ at # Never /\ t[Len(t)].start <= at BY <1>3, NeverIs
<1>11. Told(c, EndedAt(t, at), cut2, at) BY <1>6, <1>9, <1>10, ToldEnded
<1>. QED BY <1>11 DEF c

\* A new storm.
LEMMA ToldEntered ==
    ASSUME NEW s, NEW t, NEW cut, NEW at \in Nat, Told(s, t, cut, at), ~OpenIn(t),
           NEW r, IsRow(r), r.event = "entered", r.resumed = FALSE, r.at = at
    PROVE  Told(EpisodeStep(s, r), Append(t, [start |-> at, end |-> Never]), Never, at)
<1>. DEFINE c == EpisodeStep(s, r)
            e == [start |-> at, end |-> Never]
            u == Append(t, e)
<1>1. /\ IsEpisodes(s) /\ t \in Seq(Episode) /\ s.count = Len(t) /\ Len(t) \in Nat
      /\ \A k \in 1..(Len(t) - 1) : t[k].end # Never
  BY LastOf DEF Told
<1>2. (s.open = TRUE => s.suspended = TRUE) /\ EndSuspended(s).seconds = LatchedTime(t, at)
  <2>1. OverTold(s, t, at) BY OverParts
  <2>. QED BY <2>1 DEF OverTold
<1>3. c = Opened(s, r) BY DEF EpisodeStep
<1>. HIDE DEF c
<1>4. /\ IsEpisodes(c) /\ c.count = s.count + 1 /\ c.open = TRUE
      /\ r.resumed = FALSE => c.start = r.at
      /\ (s.open => s.suspended) => c.seconds = EndSuspended(s).seconds /\ c.suspended = FALSE
  BY <1>1, <1>3, OpenedIs
<1>5. c.start = at /\ c.seconds = LatchedTime(t, at) /\ c.suspended = FALSE
  BY <1>1, <1>2, <1>4 DEF IsEpisodes
<1>6. e \in Episode /\ e.start = at /\ e.end = Never BY NeverIs DEF Episode
<1>. HIDE DEF e
<1>7. u \in Seq(Episode) /\ Len(u) = Len(t) + 1 /\ u[Len(u)] = e /\ \A k \in 1..Len(t) : u[k] = t[k]
  BY <1>1, <1>6
<1>. HIDE DEF u
<1>8. u # <<>> BY <1>1, <1>7
<1>9. OpenIn(u) BY <1>6, <1>7, <1>8 DEF OpenIn
<1>10. \A k \in 1..Len(t) : t[k].end # Never
  <2>1. CASE t = <<>> BY <2>1
  <2>2. CASE t # <<>>
    <3>1. \A k \in 1..Len(t) : k = Len(t) \/ k \in 1..(Len(t) - 1) BY <1>1
    <3>. QED BY <1>1, <2>2, <3>1 DEF OpenIn
  <2>. QED BY <2>1, <2>2
<1>11. \A k \in 1..(Len(u) - 1) : u[k].end # Never BY <1>1, <1>7, <1>10
<1>12. LatchedTime(Before(u), at) = LatchedTime(t, at)
  <2>. DEFINE b == Before(u)
  <2>1. Len(b) = Len(u) - 1 /\ \A k \in 1..(Len(u) - 1) : b[k] = u[k] BY <1>7, <1>8, LastOf
  <2>. HIDE DEF b
  <2>2. Len(b) = Len(t) /\ \A k \in 1..Len(t) : b[k] = t[k] BY <1>1, <1>7, <2>1
  <2>3. \A k \in 1..Len(t) : Length(t[k], at) = Length(b[k], at) BY <2>2
  <2>4. LatchedTime(b, at) = LatchedTime(t, at) BY <1>1, <2>2, <2>3, TimeKept
  <2>. QED BY <2>4 DEF b
<1>13. OpenTold(c, u, Never, at)
  <2>1. c.start \in 0..at BY <1>5
  <2>2. c.start = u[Len(u)].start BY <1>5, <1>6, <1>7
  <2>. QED BY <1>4, <1>5, <1>12, <2>1, <2>2 DEF OpenTold
<1>14. c.count = Len(u) BY <1>1, <1>4, <1>7
<1>15. Told(c, u, Never, at) BY <1>4, <1>7, <1>9, <1>11, <1>13, <1>14 DEF Told
<1>. QED BY <1>15 DEF c, u, e

\* The storm goes on.
LEMMA ToldGoesOn ==
    ASSUME NEW s, NEW t, NEW cut, NEW at \in Nat, Told(s, t, cut, at), OpenIn(t), NEW c, GoesOn(c, s)
    PROVE  Told(c, t, Never, at)
<1>1. OpenTold(s, t, cut, at) BY OpenParts
<1>2. OpenTold(c, t, Never, at) BY <1>1 DEF OpenTold, GoesOn, Same
<1>. QED BY <1>2 DEF Told, GoesOn, Same

LEMMA ToldResumed ==
    ASSUME NEW s, NEW t, NEW cut, NEW at \in Nat, Told(s, t, cut, at), OpenIn(t), cut # Never,
           NEW r, IsRow(r), r.event = "entered", r.resumed = TRUE, r.at = at, r.since = t[Len(t)].start
    PROVE  Told(EpisodeStep(s, r), t, Never, at)
<1>1. IsEpisodes(s) BY DEF Told
<1>2. OpenTold(s, t, cut, at) BY OpenParts
<1>3. s.open = TRUE /\ s.start = t[Len(t)].start /\ s.start \in 0..at /\ s.suspended = TRUE BY <1>2 DEF OpenTold
<1>4. r.since # Never /\ r.since = s.start BY <1>3, NeverIs
<1>5. GoesOn(EpisodeStep(s, r), s) BY <1>1, <1>3, <1>4, StepResumed
<1>. QED BY <1>5, ToldGoesOn

LEMMA ToldDerate ==
    ASSUME NEW s, NEW t, NEW at \in Nat, Told(s, t, Never, at), OpenIn(t),
           NEW r, IsRow(r), r.event \in {"derate_released", "derate_resumed"}, r.at = at
    PROVE  Told(EpisodeStep(s, r), t, Never, at)
<1>1. IsEpisodes(s) BY DEF Told
<1>2. OpenTold(s, t, Never, at) BY OpenParts
<1>3. s.open = TRUE /\ s.suspended = FALSE BY <1>2 DEF OpenTold
<1>4. GoesOn(EpisodeStep(s, r), s) BY <1>1, <1>3, StepDerate
<1>. QED BY <1>4, ToldGoesOn

\* What the summary says while a monitor waits.
LEMMA ToldSummary ==
    ASSUME now \in Nat, Told(EpisodesIn(rows), ghost.truth, ghost.cut, now), OpenIn(ghost.truth) => ghost.cut = Never
    PROVE  LET s == SummarizeSwapThrashEpisodes
           IN  /\ s.count = Len(ghost.truth) /\ s.seconds = LatchedTime(ghost.truth, now)
               /\ s.open = OpenIn(ghost.truth) /\ s.external <= s.seconds
<1>. DEFINE t == ghost.truth
            r == EpisodesIn(rows)
            s == EndSuspended(r)
            e == SummarizeSwapThrashEpisodes
<1>1. IsEpisodes(r) /\ r.count = Len(t) /\ t \in Seq(Episode) /\ \A k \in 1..(Len(t) - 1) : t[k].end # Never
  BY DEF Told
<1>2. IsEpisodes(s) /\ s.count = r.count BY <1>1, EndSuspendedIs
<1>3. CASE OpenIn(t)
  <2>1. OpenTold(r, t, Never, now) /\ t # <<>> BY <1>3, OpenParts
  <2>2. /\ r.open = TRUE /\ r.start = t[Len(t)].start /\ r.start \in 0..now /\ r.suspended = FALSE
        /\ r.seconds = LatchedTime(Before(t), now)
    BY <2>1 DEF OpenTold
  <2>3. s = r BY <1>1, <2>2, EndSuspendedIs
  <2>. DEFINE c == CloseEpisode(s, now, ExternalUntil(s, now))
  <2>4. OverAt(c, s, now)
    <3>1. ExternalUntil(s, now) \in Int BY <1>2, ExternalIs
    <3>. QED BY <1>2, <3>1, CloseIs
  <2>5. e = [c EXCEPT !.open = TRUE] BY <2>2, <2>3 DEF SummarizeSwapThrashEpisodes
  <2>6. LatchedTime(t, now) = LatchedTime(Before(t), now) + Length(t[Len(t)], now) BY <1>1, <2>1, WithLast
  <2>7. Length(t[Len(t)], now) = now - t[Len(t)].start BY <1>3 DEF Length, OpenIn
  <2>. HIDE DEF c, e
  <2>8. IsEpisodes(c) /\ c.count = s.count /\ c.seconds = s.seconds + Max2(0, now - s.start) BY <2>4 DEF OverAt
  <2>9. e.count = c.count /\ e.seconds = c.seconds /\ e.external = c.external /\ e.open = TRUE
    BY <2>5, <2>8 DEF IsEpisodes, EpisodeFields
  <2>10. Max2(0, now - s.start) = now - s.start BY <2>2, <2>3 DEF Max2
  <2>11. e.seconds = LatchedTime(t, now) BY <2>2, <2>3, <2>6, <2>7, <2>8, <2>9, <2>10
  <2>12. e.external <= e.seconds BY <2>8, <2>9 DEF IsEpisodes
  <2>13. e.open = OpenIn(t) BY <1>3, <2>9
  <2>14. e.count = Len(t) BY <1>1, <1>2, <2>8, <2>9
  <2>. QED BY <2>11, <2>12, <2>13, <2>14 DEF e
<1>4. CASE ~OpenIn(t)
  <2>1. OverTold(r, t, now) BY <1>4, OverParts
  <2>2. (r.open = TRUE => r.suspended = TRUE) /\ s.seconds = LatchedTime(t, now) BY <2>1 DEF OverTold
  <2>3. s.open = FALSE BY <1>1, <2>2, EndSuspendedIs DEF IsEpisodes
  <2>4. e = s BY <2>3 DEF SummarizeSwapThrashEpisodes
  <2>. HIDE DEF e, s
  <2>5. e.external <= e.seconds BY <1>2, <2>4 DEF IsEpisodes
  <2>6. e.open = OpenIn(t) BY <1>4, <2>3, <2>4 DEF OpenIn
  <2>. QED BY <1>1, <1>2, <2>2, <2>4, <2>5, <2>6 DEF e
<1>. QED BY <1>3, <1>4

(***************************************************************************)
(* The row a sample adds, and what the latch is then.                      *)
(***************************************************************************)
Measured(l) == l.extTotal \in Int /\ l.resumed \in BOOLEAN

LEMMA ObserveIs ==
    ASSUME NEW l, LatchSound(l), Measured(l), NEW rate
    PROVE  /\ Measured(Observe(l, rate))
           /\ Observe(l, rate).latched = TRUE =>
                 Observe(l, rate).since = l.since /\ Observe(l, rate).resumed = l.resumed
<1>1. CASE rate = "none"
  BY <1>1 DEF Observe, NoLatch, Measured
<1>2. CASE rate # "none"
  <2>. DEFINE o == Observe(l, rate)
  <2>1. PICK hot, calm, b : o = [l EXCEPT !.hot = hot, !.calm = calm, !.latched = b]
    BY <1>2 DEF Observe
  <2>. HIDE DEF o
  <2>2. o.since = l.since /\ o.resumed = l.resumed /\ o.extTotal = l.extTotal
    BY <2>1 DEF LatchSound, IsLatch, LatchFields
  <2>3. Measured(o) BY <2>2 DEF Measured
  <2>. QED BY <2>2, <2>3 DEF o
<1>. QED BY <1>1, <1>2

Keeps(a, l) == /\ IsLatch(a) /\ Measured(a)
               /\ a.resumed = l.resumed /\ a.since = l.since /\ a.latched = l.latched

LEMMA SetExternalIs ==
    ASSUME NEW l, IsLatch(l), Measured(l), NEW ext \in BOOLEAN, now \in Nat, l.external => l.extSince \in 0..now
    PROVE  Keeps(SetExternal(l, ext), l)
<1>. DEFINE e == SetExternal(l, ext)
<1>1. CASE ext = l.external
  BY <1>1 DEF SetExternal, Keeps
<1>2. CASE ext # l.external /\ ext = TRUE
  <2>1. e = [l EXCEPT !.external = TRUE, !.extSince = now]
    BY <1>2 DEF SetExternal
  <2>. HIDE DEF e
  <2>2. Keeps(e, l) BY <2>1 DEF Keeps, IsLatch, LatchFields, Measured
  <2>. QED BY <2>2 DEF e
<1>3. CASE ext # l.external /\ ext = FALSE
  <2>. DEFINE t == l.extTotal + (now - l.extSince)
  <2>0. e = [l EXCEPT !.external = FALSE, !.extSince = Never, !.extTotal = @ + (now - l.extSince)]
    BY <1>3 DEF SetExternal
  <2>1. e = [l EXCEPT !.external = FALSE, !.extSince = Never, !.extTotal = t]
    BY <2>0 DEF IsLatch, LatchFields
  <2>2. l.external = TRUE BY <1>3 DEF IsLatch
  <2>3. t \in Int BY <2>2 DEF Measured
  <2>. HIDE DEF e, t
  <2>4. Keeps(e, l) BY <2>1, <2>3 DEF Keeps, IsLatch, LatchFields, Measured
  <2>. QED BY <2>4 DEF e
<1>. QED BY <1>1, <1>2, <1>3

LEMMA AttributeIs ==
    ASSUME NEW l, IsLatch(l), Measured(l), now \in Nat, l.external => l.extSince \in 0..now, NEW large \in BOOLEAN
    PROVE  Keeps(Attribute(l, large), l)
<1>1. ASSUME NEW x \in BOOLEAN, NEW q, NEW p \in BOOLEAN, NEW cause, NEW a,
             a = [SetExternal(l, x) EXCEPT !.quiet = q, !.proven = p, !.cause = cause]
      PROVE  Keeps(a, l)
  <2>. DEFINE e == SetExternal(l, x)
  <2>1. Keeps(e, l) BY SetExternalIs
  <2>2. a = [e EXCEPT !.quiet = q, !.proven = p, !.cause = cause] BY <1>1
  <2>. HIDE DEF e
  <2>. QED BY <2>1, <2>2 DEF Keeps, IsLatch, LatchFields, Measured
<1>2. CASE large
  <2>. DEFINE e == SetExternal(l, FALSE)
  <2>1. Attribute(l, large) = [e EXCEPT !.quiet = Never, !.cause = "agents"] BY <1>2 DEF Attribute
  <2>2. IsLatch(e)
    <3>1. Keeps(e, l) BY SetExternalIs
    <3>. QED BY <3>1 DEF Keeps
  <2>3. Attribute(l, large) = [e EXCEPT !.quiet = Never, !.proven = e.proven, !.cause = "agents"]
    <3>. HIDE DEF e
    <3>. QED BY <2>1, <2>2 DEF IsLatch, LatchFields
  <2>4. e.proven \in BOOLEAN BY <2>2 DEF IsLatch
  <2>. QED BY <1>1, <2>3, <2>4
<1>3. CASE ~large
  <2>. DEFINE quiet  == IF l.quiet = Never THEN now ELSE l.quiet
              proven == l.proven \/ now - quiet >= Window
  <2>1. proven \in BOOLEAN OBVIOUS
  <2>2. PICK cause : Attribute(l, large) =
            [SetExternal(l, proven) EXCEPT !.quiet = quiet, !.proven = proven, !.cause = cause]
    BY <1>3 DEF Attribute
  <2>. HIDE DEF quiet, proven
  <2>. QED BY <1>1, <2>1, <2>2
<1>. QED BY <1>2, <1>3

Row(r, event) == IsRow(r) /\ r.event = event /\ r.at = now
RowOf(out, event, since, resumed) ==
    \E r : out = <<r>> /\ Row(r, event) /\ r.since = since /\ r.resumed = resumed

\* One sample enters a storm, leaves it, stays in it, or sees none.
Enters(l, adv) ==
    /\ l.latched = FALSE /\ adv.latch.latched = TRUE /\ adv.latch.since = now /\ adv.latch.resumed = FALSE
    /\ RowOf(adv.out, "entered", now, FALSE)
Leaves(l, adv) ==
    /\ l.latched = TRUE /\ adv.latch.latched = FALSE /\ adv.latch.resumed = FALSE
    /\ RowOf(adv.out, "released", l.since, FALSE)
Holds(l, adv) ==
    /\ l.latched = TRUE /\ adv.latch.latched = TRUE /\ adv.latch.since = l.since /\ adv.latch.resumed = FALSE
    /\ IF l.resumed = TRUE THEN RowOf(adv.out, "entered", l.since, TRUE)
       ELSE \/ adv.out = <<>>
            \/ RowOf(adv.out, "derate_released", l.since, FALSE)
            \/ RowOf(adv.out, "derate_resumed", l.since, FALSE)
Rests(l, adv) ==
    /\ l.latched = FALSE /\ adv.latch.latched = FALSE /\ adv.out = <<>>
    /\ adv.latch.resumed = TRUE => l.resumed = TRUE

LEMMA RowBy ==
    ASSUME NEW r, NEW event \in RowEvents, r.event = event, r.at = now, now \in Nat,
           r.since \in Int, r.ext \in Int, r.resumed \in BOOLEAN
    PROVE  Row(r, event)
<1>1. r.at \in Int OBVIOUS
<1>. QED BY <1>1 DEF Row, IsRow

LEMMA TransitionIs ==
    ASSUME NEW l, l.since \in Int, now \in Nat, NEW event \in RowEvents, NEW r, r = Transition(event, l)
    PROVE  Row(r, event) /\ r.since = l.since /\ r.resumed = FALSE
<1>1. /\ r.event = event /\ r.at = now /\ r.since = l.since /\ r.resumed = FALSE /\ r.ext = 0
  BY DEF Transition
<1>2. r.since \in Int /\ r.ext \in Int BY <1>1
<1>3. r.resumed \in BOOLEAN BY <1>1
<1>4. Row(r, event) BY <1>1, <1>2, <1>3, RowBy
<1>. QED BY <1>1, <1>4

LEMMA AdvanceIs ==
    ASSUME NEW l, LatchSound(l), Measured(l), NEW rate \in Rates, NEW large \in BOOLEAN, now \in Nat,
           NEW adv, adv = Advance(l, rate, large)
    PROVE  Enters(l, adv) \/ Leaves(l, adv) \/ Holds(l, adv) \/ Rests(l, adv)
<1>. DEFINE o == Observe(l, rate)
<1>1. /\ IsLatch(o) /\ Measured(o)
      /\ o.external => o.proven /\ o.extSince \in 0..now
      /\ o.latched = TRUE => o.since = l.since /\ o.resumed = l.resumed
  BY ObserveSound, ObserveIs
<1>0. l.latched \in BOOLEAN /\ o.latched \in BOOLEAN BY <1>1 DEF IsLatch, LatchSound
<1>2. CASE l.latched = FALSE /\ o.latched = TRUE
  <2>. DEFINE last == l.lastRelease
              proven == l.lastRelease # Never /\ now - l.lastRelease < Window
              f == [NoLatch EXCEPT !.latched = TRUE, !.hot = o.hot, !.calm = o.calm, !.since = now,
                                   !.lastRelease = last, !.proven = proven]
              a == Attribute(f, large)
              r == Transition("entered", a)
  <2>1. adv = [latch |-> a, out |-> <<r>>] BY <1>2 DEF Advance
  <2>2. proven \in BOOLEAN OBVIOUS
  <2>. HIDE DEF proven, last
  <2>3. /\ IsLatch(f) /\ f.since = now /\ f.external = FALSE /\ f.resumed = FALSE /\ f.extTotal = 0
        /\ f.latched = TRUE
    BY <2>2 DEF IsLatch, LatchFields, NoLatch
  <2>. HIDE DEF f
  <2>4. Keeps(a, f)
    <3>1. Measured(f)
      <4>1. f.resumed \in BOOLEAN BY <2>3
      <4>2. f.extTotal \in Int BY <2>3
      <4>. QED BY <4>1, <4>2 DEF Measured
    <3>. QED BY <2>3, <3>1, AttributeIs
  <2>. HIDE DEF a
  <2>5. a.latched = TRUE /\ a.since = now /\ a.resumed = FALSE BY <2>3, <2>4 DEF Keeps
  <2>6. a.since \in Int /\ "entered" \in RowEvents BY <2>5 DEF RowEvents
  <2>7. Row(r, "entered") /\ r.since = now /\ r.resumed = FALSE BY <2>5, <2>6, TransitionIs
  <2>. HIDE DEF r
  <2>8. adv.latch = a /\ adv.out = <<r>> BY <2>1
  <2>9. RowOf(adv.out, "entered", now, FALSE) BY <2>7, <2>8 DEF RowOf
  <2>. QED BY <1>2, <2>5, <2>8, <2>9 DEF Enters
<1>3. CASE l.latched = TRUE /\ o.latched = FALSE
  <2>. DEFINE total == l.extTotal + (IF l.external THEN now - l.extSince ELSE 0)
              last == IF l.proven THEN now ELSE Never
              a == [NoLatch EXCEPT !.hot = o.hot, !.calm = o.calm, !.lastRelease = last]
              cause == IF l.proven THEN "external" ELSE l.cause
              b == Transition("released", l)
              r == [b EXCEPT !.cause = cause, !.ext = total]
  <2>1. adv = [latch |-> a, out |-> <<r>>] BY <1>3 DEF Advance
  <2>2. a.latched = FALSE /\ a.resumed = FALSE BY DEF NoLatch
  <2>3. l.since \in 0..now BY <1>3 DEF LatchSound
  <2>4. total \in Int
    <3>1. CASE l.external = TRUE
      <4>1. l.extSince \in 0..now BY <3>1 DEF LatchSound
      <4>2. total = l.extTotal + (now - l.extSince) BY <3>1
      <4>. QED BY <4>1, <4>2 DEF Measured
    <3>2. CASE l.external = FALSE
      <4>1. total = l.extTotal + 0 BY <3>2
      <4>. QED BY <4>1 DEF Measured
    <3>. QED BY <3>1, <3>2 DEF LatchSound, IsLatch
  <2>5. b = [event |-> "released", at |-> now, since |-> l.since, cause |-> l.cause, resumed |-> FALSE, ext |-> 0]
    BY DEF Transition
  <2>. HIDE DEF a, b, total, cause
  <2>6. /\ r.event = "released" /\ r.at = now /\ r.since = l.since /\ r.resumed = FALSE /\ r.ext = total
    BY <2>5
  <2>. HIDE DEF r
  <2>7. Row(r, "released")
    <3>1. r.since \in Int /\ r.ext \in Int BY <2>3, <2>4, <2>6
    <3>2. r.resumed \in BOOLEAN BY <2>6
    <3>3. "released" \in RowEvents BY DEF RowEvents
    <3>. QED BY <2>6, <3>1, <3>2, <3>3, RowBy
  <2>8. adv.latch = a /\ adv.out = <<r>> BY <2>1
  <2>9. RowOf(adv.out, "released", l.since, FALSE) BY <2>6, <2>7, <2>8 DEF RowOf
  <2>. QED BY <1>3, <2>2, <2>8, <2>9 DEF Leaves
<1>4. CASE l.latched = TRUE /\ o.latched = TRUE
  <2>. DEFINE b == Attribute(o, large)
              a == [b EXCEPT !.resumed = FALSE]
              r == [Transition("entered", a) EXCEPT !.resumed = TRUE]
              event == IF a.external THEN "derate_released" ELSE "derate_resumed"
              d == Transition(event, a)
  <2>1. adv = [latch |-> a, out |-> IF l.resumed THEN <<r>> ELSE IF a.external = l.external THEN <<>> ELSE <<d>>]
    BY <1>4 DEF Advance
  <2>. HIDE DEF o
  <2>2. Keeps(b, o) BY <1>1, AttributeIs
  <2>. HIDE DEF b
  <2>3. l.since \in 0..now BY <1>4 DEF LatchSound
  <2>4. a.latched = TRUE /\ a.since = l.since /\ a.resumed = FALSE
    BY <1>1, <1>4, <2>2 DEF Keeps, IsLatch, LatchFields
  <2>. HIDE DEF a
  <2>5. a.since \in Int BY <2>3, <2>4
  <2>6. adv.latch = a BY <2>1
  <2>7. CASE l.resumed = TRUE
    <3>. DEFINE e == Transition("entered", a)
    <3>1. e = [event |-> "entered", at |-> now, since |-> a.since, cause |-> a.cause, resumed |-> FALSE, ext |-> 0]
      BY DEF Transition
    <3>2. r = [e EXCEPT !.resumed = TRUE] OBVIOUS
    <3>. HIDE DEF e, r
    <3>3. r.event = "entered" /\ r.at = now /\ r.since = a.since /\ r.resumed = TRUE /\ r.ext = 0 BY <3>1, <3>2
    <3>4. Row(r, "entered")
      <4>1. r.since \in Int /\ r.ext \in Int BY <2>5, <3>3
      <4>2. r.resumed \in BOOLEAN BY <3>3
      <4>3. "entered" \in RowEvents BY DEF RowEvents
      <4>. QED BY <3>3, <4>1, <4>2, <4>3, RowBy
    <3>5. adv.out = <<r>> BY <2>1, <2>7
    <3>6. RowOf(adv.out, "entered", l.since, TRUE) BY <2>4, <3>3, <3>4, <3>5 DEF RowOf
    <3>. QED BY <1>4, <2>4, <2>6, <2>7, <3>6 DEF Holds
  <2>8. CASE l.resumed = FALSE
    <3>1. event \in {"derate_released", "derate_resumed"} /\ event \in RowEvents BY DEF RowEvents
    <3>2. adv.out = <<>> \/ adv.out = <<d>>
      <4>. HIDE DEF d
      <4>. QED BY <2>1, <2>8
    <3>. HIDE DEF event
    <3>3. Row(d, event) /\ d.since = a.since /\ d.resumed = FALSE BY <2>5, <3>1, TransitionIs
    <3>. HIDE DEF d
    <3>4. \/ adv.out = <<>>
          \/ RowOf(adv.out, "derate_released", l.since, FALSE)
          \/ RowOf(adv.out, "derate_resumed", l.since, FALSE)
      BY <2>4, <3>1, <3>2, <3>3 DEF RowOf
    <3>. QED BY <1>4, <2>4, <2>6, <2>8, <3>4 DEF Holds
  <2>. QED BY <2>7, <2>8 DEF Measured
<1>5. CASE l.latched = FALSE /\ o.latched = FALSE
  <2>1. adv = [latch |-> o, out |-> <<>>] BY <1>5 DEF Advance
  <2>2. o.resumed = TRUE => l.resumed = TRUE
    <3>1. CASE rate = "none" BY <3>1 DEF Observe, NoLatch
    <3>2. CASE rate # "none"
      <4>1. PICK hot, calm, c : o = [l EXCEPT !.hot = hot, !.calm = calm, !.latched = c] BY <3>2 DEF Observe
      <4>. HIDE DEF o
      <4>. QED BY <4>1 DEF LatchSound, IsLatch, LatchFields
    <3>. QED BY <3>1, <3>2
  <2>. HIDE DEF o
  <2>3. adv.latch = o /\ adv.out = <<>> BY <2>1
  <2>. QED BY <1>5, <2>2, <2>3 DEF Rests
<1>. QED BY <1>0, <1>2, <1>3, <1>4, <1>5

\* Whatever the row, the latch stays measured.
LEMMA AdvanceMeasured ==
    ASSUME NEW l, LatchSound(l), Measured(l), NEW rate \in Rates, NEW large \in BOOLEAN, now \in Nat
    PROVE  Measured(Advance(l, rate, large).latch)
<1>. DEFINE o == Observe(l, rate)
<1>1. /\ IsLatch(o) /\ Measured(o)
      /\ o.external => o.proven /\ o.extSince \in 0..now
  BY ObserveSound, ObserveIs
<1>2. CASE ~l.latched /\ o.latched
  <2>1. PICK hot, calm, last, proven :
          proven \in BOOLEAN /\ Advance(l, rate, large).latch =
          Attribute([NoLatch EXCEPT !.latched = TRUE, !.hot = hot, !.calm = calm, !.since = now,
                                   !.lastRelease = last, !.proven = proven], large)
    BY <1>2 DEF Advance
  <2>. DEFINE f == [NoLatch EXCEPT !.latched = TRUE, !.hot = hot, !.calm = calm, !.since = now,
                                   !.lastRelease = last, !.proven = proven]
  <2>2. IsLatch(f) /\ f.external = FALSE /\ Measured(f)
    BY <2>1 DEF IsLatch, LatchFields, NoLatch, Measured
  <2>3. Advance(l, rate, large).latch = Attribute(f, large) BY <2>1
  <2>. HIDE DEF f
  <2>4. Keeps(Attribute(f, large), f) BY <2>2, AttributeIs
  <2>. QED BY <2>3, <2>4 DEF Keeps
<1>3. CASE l.latched /\ ~o.latched
  <2>1. PICK last : Advance(l, rate, large).latch = [NoLatch EXCEPT !.hot = o.hot, !.calm = o.calm, !.lastRelease = last]
    BY <1>3 DEF Advance
  <2>. HIDE DEF o
  <2>. QED BY <2>1 DEF NoLatch, Measured
<1>4. CASE l.latched /\ o.latched
  <2>. DEFINE a == Attribute(o, large)
  <2>1. Keeps(a, o)
    <3>. HIDE DEF o
    <3>. QED BY <1>1, AttributeIs
  <2>2. Advance(l, rate, large).latch = [a EXCEPT !.resumed = FALSE]
    BY <1>4 DEF Advance
  <2>. HIDE DEF a
  <2>. QED BY <2>1, <2>2 DEF Keeps, IsLatch, LatchFields, Measured
<1>5. CASE ~l.latched /\ ~o.latched
  <2>1. Advance(l, rate, large).latch = o
    BY <1>5 DEF Advance
  <2>. QED BY <1>1, <2>1
<1>. QED BY <1>2, <1>3, <1>4, <1>5

(***************************************************************************)
(* The rows, the latch and latest.json against the episodes that were.     *)
(* A history in which a resident ended between a release row and           *)
(* latest.json, or both boundary rows of a restart were lost, is blind.    *)
(***************************************************************************)
Rounding == Live \ {"sample", "wait"}
LastTruth == ghost.truth[Len(ghost.truth)]

RowsTold   == (\E T : rows \in Seq(T)) /\ Told(EpisodesIn(rows), ghost.truth, ghost.cut, now)
Recently   == latest.latched /\ now - latest.at <= ResumeAge
LatestTold == Recently /\ ~ghost.unpublished => Open /\ latest.since = LastTruth.start
LatchTold  ==
    /\ mem.latch.latched = Open
    /\ Open => mem.latch.since = LastTruth.start
    /\ mem.latch.resumed = TRUE => Open /\ ghost.cut # Never
    /\ Open /\ ghost.cut # Never => mem.latch.resumed = TRUE
    /\ pc # "sample" => mem.latch.resumed = FALSE
SightedInv ==
    /\ RowsTold
    /\ ~Open => ghost.cut = Never
    /\ ghost.unpublished => pc \in Rounding
    /\ LatestTold
    /\ pc \in Live => LatchTold
StormInv ==
    /\ Measured(mem.latch)
    /\ scene # "storm" => ghost.truth = <<>> /\ mem.latch.latched = FALSE /\ latest.latched = FALSE
    /\ ~ghost.blind => SightedInv

LEMMA NoLatchMeasured == Measured(NoLatch) /\ NoLatch.latched = FALSE /\ NoLatch.resumed = FALSE
BY DEF Measured, NoLatch

LEMMA OpenIs == Open = OpenIn(ghost.truth)
BY DEF Open, OpenIn

LEMMA StormInit == Init => StormInv
<1>. SUFFICES ASSUME Init PROVE StormInv OBVIOUS
<1>1. /\ now = 0 /\ rows = <<>> /\ mem.latch = NoLatch /\ latest.latched = FALSE
      /\ ghost.truth = <<>> /\ ghost.cut = Never /\ ghost.unpublished = FALSE /\ pc = "down"
  BY DEF Init, NoMem
<1>2. ~Open BY <1>1 DEF Open
<1>3. RowsTold
  <2>1. rows \in Seq(Int) BY <1>1
  <2>2. EpisodesIn(rows) = NoEpisodes BY <1>1, EpisodesOfNone
  <2>. DEFINE s == NoEpisodes
  <2>3. /\ IsEpisodes(s) /\ s.count = 0 /\ s.seconds = 0 /\ s.open = FALSE /\ s.suspended = FALSE
    BY NoEpisodesIs
  <2>. HIDE DEF s
  <2>4. EndSuspended(s) = s BY <2>3, EndSuspendedIs
  <2>5. LatchedTime(<<>>, now) = 0 BY TimeOfNone
  <2>6. OverTold(s, <<>>, now) BY <2>3, <2>4, <2>5 DEF OverTold
  <2>7. ~OpenIn(<<>>) BY DEF OpenIn
  <2>8. <<>> \in Seq(Episode) /\ Len(<<>>) = 0 /\ \A k \in 1..(Len(<<>>) - 1) : <<>>[k].end # Never
    OBVIOUS
  <2>9. Told(s, <<>>, Never, now) BY <2>3, <2>6, <2>7, <2>8 DEF Told
  <2>. QED BY <1>1, <2>1, <2>2, <2>9 DEF RowsTold, s
<1>4. LatestTold BY <1>1 DEF LatestTold, Recently
<1>5. pc \notin Live BY <1>1 DEF Live, Relief
<1>. QED BY <1>1, <1>2, <1>3, <1>4, <1>5, NoLatchMeasured DEF StormInv, SightedInv

\* A step that does not touch what the rows, the latch and latest.json say.
LEMMA StormFrame ==
    ASSUME StormInv, now' = now, rows' = rows, latest' = latest, scene' = scene,
           ghost'.truth = ghost.truth, ghost'.cut = ghost.cut, ghost'.unpublished = ghost.unpublished,
           ~ghost'.blind => ~ghost.blind,
           mem'.latch = mem.latch \/ (mem'.latch = NoLatch /\ pc' \notin Live),
           pc' \in Live => pc \in Live,
           pc' \in Live /\ pc = "sample" => pc' = "sample" \/ mem.latch.resumed = FALSE,
           ~ghost'.blind /\ ghost.unpublished /\ pc \in Rounding => pc' \in Rounding
    PROVE  StormInv'
<1>1. Open' = Open /\ LastTruth' = LastTruth BY DEF Open, LastTruth
<1>2. Recently' = Recently BY DEF Recently
<1>3. Measured(mem'.latch) BY NoLatchMeasured DEF StormInv
<1>4. scene # "storm" => mem'.latch.latched = FALSE BY NoLatchMeasured DEF StormInv
<1>5. ASSUME ~ghost'.blind PROVE SightedInv'
  <2>1. SightedInv BY <1>5 DEF StormInv
  <2>2. RowsTold'
    <3>1. RowsTold BY <2>1 DEF SightedInv
    <3>. QED BY <3>1 DEF RowsTold
  <2>3. LatestTold' BY <1>1, <1>2, <2>1 DEF SightedInv, LatestTold
  <2>4. ASSUME pc' \in Live PROVE LatchTold'
    <3>1. LatchTold /\ mem'.latch = mem.latch BY <2>1, <2>4 DEF SightedInv
    <3>2. pc' # "sample" => mem.latch.resumed = FALSE BY <2>4, <3>1 DEF LatchTold
    <3>. QED BY <1>1, <3>1, <3>2 DEF LatchTold
  <2>5. ~Open' => ghost'.cut = Never BY <1>1, <2>1 DEF SightedInv
  <2>6. ghost'.unpublished => pc' \in Rounding BY <1>5, <2>1 DEF SightedInv
  <2>. QED BY <2>2, <2>3, <2>4, <2>5, <2>6 DEF SightedInv
<1>. QED BY <1>3, <1>4, <1>5 DEF StormInv

\* One more row.
LEMMA RowsAppend ==
    ASSUME NEW r, \E T : rows \in Seq(T)
    PROVE  /\ EpisodesIn(Append(rows, r)) = EpisodeStep(EpisodesIn(rows), r)
           /\ \E T : Append(rows, r) \in Seq(T)
           /\ rows \o <<r>> = Append(rows, r) /\ rows \o <<>> = rows
<1>1. PICK T : rows \in Seq(T) OBVIOUS
<1>. DEFINE U == T \cup {r}
<1>2. rows \in Seq(U) /\ r \in U BY <1>1
<1>. HIDE DEF U
<1>3. EpisodesIn(Append(rows, r)) = EpisodeStep(EpisodesIn(rows), r) BY <1>2, EpisodesAppend
<1>4. Append(rows, r) \in Seq(U) BY <1>2
<1>5. rows \o <<r>> = Append(rows, r)
  <2>1. <<r>> \in Seq(U) /\ Len(<<r>>) = 1 /\ <<r>>[1] = r BY <1>2
  <2>. QED BY <1>2, AppendIsConcat
<1>6. rows \o <<>> = rows BY <1>2, ConcatEmptySeq
<1>. QED BY <1>3, <1>4, <1>5, <1>6

\* The rows after a start or a stop row that may have been lost.
LEMMA BoundaryTold ==
    ASSUME now \in Nat, RowsTold, scene # "storm" => ghost.truth = <<>>,
           NEW wrote \in BOOLEAN, NEW event \in {"resident_started", "resident_stopped"},
           NEW next, next = IF wrote THEN WithBoundary(event) ELSE rows
    PROVE  (\E T : next \in Seq(T)) /\ Told(EpisodesIn(next), ghost.truth, CutAt(wrote), now)
<1>1. (\E T : rows \in Seq(T)) /\ Told(EpisodesIn(rows), ghost.truth, ghost.cut, now) BY DEF RowsTold
<1>2. CASE wrote = TRUE /\ scene = "storm"
  <2>. DEFINE r == Transition(event, NoLatch)
  <2>1. next = Append(rows, r) BY <1>2 DEF WithBoundary
  <2>2. Row(r, event)
    <3>1. NoLatch.since \in Int BY NeverIs DEF NoLatch
    <3>2. event \in RowEvents BY DEF RowEvents
    <3>. QED BY <3>1, <3>2, TransitionIs
  <2>. HIDE DEF r
  <2>3. IsRow(r) /\ r.event = event /\ r.at = now BY <2>2 DEF Row
  <2>. DEFINE c == IF OpenIn(ghost.truth) /\ ghost.cut = Never THEN now ELSE ghost.cut
  <2>4. Told(EpisodeStep(EpisodesIn(rows), r), ghost.truth, c, now) BY <1>1, <2>3, ToldBoundary
  <2>5. c = CutAt(wrote) BY <1>2, OpenIs DEF CutAt
  <2>. HIDE DEF c
  <2>6. EpisodesIn(next) = EpisodeStep(EpisodesIn(rows), r) /\ \E T : next \in Seq(T)
    BY <1>1, <2>1, RowsAppend
  <2>. QED BY <2>4, <2>5, <2>6
<1>3. CASE wrote = FALSE \/ scene # "storm"
  <2>1. next = rows BY <1>3 DEF WithBoundary
  <2>2. CutAt(wrote) = ghost.cut
    <3>1. scene # "storm" => ~Open BY DEF Open
    <3>. QED BY <1>3, <3>1 DEF CutAt
  <2>. QED BY <1>1, <2>1, <2>2
<1>. QED BY <1>2, <1>3

LEMMA ResumeIs ==
    /\ Measured(Resume)
    /\ Recently => /\ Resume.latched = TRUE /\ Resume.resumed = TRUE /\ Resume.since = latest.since
    /\ ~Recently => Resume = NoLatch
<1>1. CASE Recently
  <2>1. PICK ext, cause, x : Resume =
          [NoLatch EXCEPT !.latched = TRUE, !.hot = 2, !.since = latest.since, !.cause = cause,
                             !.resumed = TRUE, !.proven = ext, !.external = ext, !.extSince = x]
    BY <1>1 DEF Resume, Recently
  <2>2. Resume.latched = TRUE /\ Resume.resumed = TRUE /\ Resume.since = latest.since /\ Resume.extTotal = 0
    BY <2>1 DEF NoLatch
  <2>3. Resume.resumed \in BOOLEAN BY <2>2
  <2>4. Resume.extTotal \in Int BY <2>2
  <2>. QED BY <1>1, <2>2, <2>3, <2>4 DEF Measured
<1>2. CASE ~Recently
  BY <1>2, NoLatchMeasured DEF Resume, Recently
<1>. QED BY <1>1, <1>2

LEMMA EndLastIs == ASSUME NEW at PROVE EndLast(at) = EndedAt(ghost.truth, at)
BY DEF EndLast, EndedAt

\* The last of t with its episode over.
LEMMA EndedOver ==
    ASSUME NEW t \in Seq(Episode), t # <<>>, NEW to \in Int, to # Never
    PROVE  ~OpenIn(EndedAt(t, to))
<1>1. Len(EndedAt(t, to)) = Len(t) /\ EndedAt(t, to)[Len(t)].end = to BY Ended
<1>. QED BY <1>1 DEF OpenIn

LEMMA StormBegins == Typed /\ HaveLatest /\ StormInv /\ BeginRun => StormInv'
<1>. SUFFICES ASSUME Typed, HaveLatest, StormInv, BeginRun PROVE StormInv' OBVIOUS
<1>0. /\ pc = "begin" /\ UNCHANGED <<now, scene, latest>> /\ now \in Nat
      /\ IF torn THEN pc' = "stopping" /\ mem' = mem
         ELSE pc' = "sample" /\ mem' = [LoadCooldown(mem) EXCEPT !.latch = Resume]
  BY DEF BeginRun, host, Typed
<1>1. PICK wrote \in BOOLEAN :
          /\ rows' = IF wrote THEN WithBoundary("resident_started") ELSE rows
          /\ ghost' = [ghost EXCEPT !.blind = @ \/ (Open /\ CutAt(wrote) = Never),
                                    !.cut = IF Open /\ ~Resume.latched THEN Never ELSE CutAt(wrote),
                                    !.truth = IF Open /\ ~Resume.latched THEN EndLast(CutAt(wrote)) ELSE @,
                                    !.quiet = [r \in Roots |-> <<0, 0>>],
                                    !.sampled = Never, !.outage = FALSE]
  BY DEF BeginRun
<1>. DEFINE cut  == CutAt(wrote)
            over == Open /\ ~Resume.latched
            quiet == [r \in Roots |-> <<0, 0>>]
<1>2. /\ ghost'.cut = IF over THEN Never ELSE cut
      /\ ghost'.truth = IF over THEN EndLast(cut) ELSE ghost.truth
      /\ ghost'.blind = (ghost.blind \/ (Open /\ cut = Never))
      /\ ghost'.unpublished = ghost.unpublished
  <2>. HIDE DEF cut, over, quiet
  <2>1. ghost' = [ghost EXCEPT !.blind = @ \/ (Open /\ cut = Never), !.cut = IF over THEN Never ELSE cut,
                               !.truth = IF over THEN EndLast(cut) ELSE @, !.quiet = quiet,
                               !.sampled = Never, !.outage = FALSE]
    BY <1>1 DEF cut, over, quiet
  <2>. QED BY <2>1 DEF Typed
<1>3. \/ mem'.latch = mem.latch /\ pc' \notin Live
      \/ mem'.latch = Resume /\ pc' = "sample"
  <2>1. CASE torn
    <3>1. pc' = "stopping" /\ mem' = mem BY <1>0, <2>1
    <3>2. pc' \notin Live BY <3>1 DEF Live, Relief
    <3>. QED BY <3>1, <3>2
  <2>2. CASE ~torn
    <3>1. DOMAIN LoadCooldown(mem) = MemFields BY LoadedIs
    <3>2. "latch" \in MemFields BY DEF MemFields
    <3>. DEFINE l == LoadCooldown(mem)
                x == Resume
    <3>3. mem' = [l EXCEPT !.latch = x] BY <1>0, <2>2
    <3>. HIDE DEF l, x
    <3>4. mem'.latch = x BY <3>1, <3>2, <3>3 DEF l
    <3>. QED BY <1>0, <2>2, <3>4 DEF x
  <2>. QED BY <2>1, <2>2
<1>4. Measured(mem'.latch) BY <1>3, ResumeIs DEF StormInv
<1>5. ASSUME scene # "storm" PROVE ghost'.truth = <<>> /\ mem'.latch.latched = FALSE /\ latest'.latched = FALSE
  <2>1. ghost.truth = <<>> /\ mem.latch.latched = FALSE /\ latest.latched = FALSE BY <1>5 DEF StormInv
  <2>2. ~Open BY <2>1 DEF Open
  <2>3. Resume.latched = FALSE BY <2>1, ResumeIs, NoLatchMeasured DEF Recently
  <2>. QED BY <1>0, <1>2, <1>3, <2>1, <2>2, <2>3
<1>6. ASSUME ~ghost'.blind PROVE SightedInv'
  <2>1. SightedInv /\ ~ghost.blind /\ (Open => cut # Never) BY <1>2, <1>6 DEF StormInv
  <2>. HIDE DEF over
  <2>2. RowsTold /\ ~ghost.unpublished /\ (~Open => ghost.cut = Never) /\ LatestTold
    BY <1>0, <2>1 DEF SightedInv, Rounding, Live, Relief
  <2>3. (\E T : rows' \in Seq(T)) /\ Told(EpisodesIn(rows'), ghost.truth, cut, now)
    BY <1>0, <1>1, <2>2, BoundaryTold DEF StormInv
  <2>4. ~Open => cut = Never BY <2>2 DEF CutAt
  <2>5. CASE Recently
    <3>1. Open /\ latest.since = LastTruth.start BY <2>2, <2>5 DEF LatestTold
    <3>2. Resume.latched = TRUE /\ Resume.resumed = TRUE /\ Resume.since = latest.since BY <2>5, ResumeIs
    <3>3. ~over BY <3>2 DEF over
    <3>4. ghost'.truth = ghost.truth /\ ghost'.cut = cut BY <1>2, <3>3
    <3>5. Open' /\ LastTruth' = LastTruth /\ Open = TRUE BY <3>1, <3>4 DEF Open, LastTruth
    <3>6. RowsTold' BY <1>0, <2>3, <3>4 DEF RowsTold
    <3>7. LatestTold' BY <1>0, <3>1, <3>5 DEF LatestTold
    <3>8. pc' \in Live => LatchTold'
      <4>1. Open' = TRUE BY <3>5 DEF Open
      <4>. QED BY <1>0, <1>3, <2>1, <3>1, <3>2, <3>4, <3>5, <4>1 DEF LatchTold
    <3>. QED BY <1>2, <2>2, <3>5, <3>6, <3>7, <3>8 DEF SightedInv
  <2>6. CASE ~Recently
    <3>1. Resume.latched = FALSE /\ Resume.resumed = FALSE BY <2>6, ResumeIs, NoLatchMeasured
    <3>2. ~Open' /\ ghost'.cut = Never /\ Told(EpisodesIn(rows'), ghost'.truth, Never, now)
      <4>1. CASE Open
        <5>1. over BY <3>1, <4>1 DEF over
        <5>2. ghost'.truth = EndedAt(ghost.truth, cut) /\ ghost'.cut = Never BY <1>2, <5>1, EndLastIs
        <5>3. OpenIn(ghost.truth) /\ ghost.truth # <<>> BY <4>1 DEF Open, OpenIn
        <5>. HIDE DEF cut
        <5>4. Told(EpisodesIn(rows'), EndedAt(ghost.truth, cut), Never, now)
          BY <1>0, <2>1, <2>3, <4>1, <5>3, ToldCut
        <5>5. cut \in Int /\ cut # Never /\ ghost.truth \in Seq(Episode)
          <6>. DEFINE s == EpisodesIn(rows')
          <6>1. Told(s, ghost.truth, cut, now) BY <2>3
          <6>. HIDE DEF s
          <6>2. OpenTold(s, ghost.truth, cut, now) BY <5>3, <6>1, OpenParts
          <6>. QED BY <2>1, <4>1, <6>1, <6>2 DEF OpenTold, Told
        <5>6. ~OpenIn(EndedAt(ghost.truth, cut)) BY <5>3, <5>5, EndedOver
        <5>7. ~Open' BY <5>2, <5>6 DEF Open, OpenIn
        <5>. QED BY <5>2, <5>4, <5>7
      <4>2. CASE ~Open
        <5>1. ghost'.truth = ghost.truth /\ ghost'.cut = cut BY <1>2, <4>2 DEF over
        <5>. QED BY <2>3, <2>4, <4>2, <5>1 DEF Open
      <4>. QED BY <4>1, <4>2
    <3>3. RowsTold' BY <1>0, <2>3, <3>2 DEF RowsTold
    <3>4. LatestTold' BY <1>0, <2>6 DEF LatestTold, Recently
    <3>5. pc' \in Live => LatchTold'
      <4>1. Open' = FALSE BY <3>2 DEF Open
      <4>. QED BY <1>0, <1>3, <3>1, <4>1 DEF LatchTold
    <3>. QED BY <1>2, <2>2, <3>2, <3>3, <3>4, <3>5 DEF SightedInv
  <2>. QED BY <2>5, <2>6
<1>. QED BY <1>0, <1>4, <1>5, <1>6 DEF StormInv

History(g, truth, cut, unpublished) ==
    /\ g.truth = truth /\ g.cut = cut /\ g.unpublished = unpublished /\ g.blind = ghost.blind

GoingOn(out, since) ==
    \/ RowOf(out, "entered", since, TRUE)
    \/ RowOf(out, "derate_released", since, FALSE)
    \/ RowOf(out, "derate_resumed", since, FALSE)

\* What the history makes of the row of a sample.
LEMMA EpisodesAre ==
    ASSUME Typed, NEW out
    PROVE  /\ DOMAIN Episodes(out) = DOMAIN ghost
           /\ out = <<>> => History(Episodes(out), ghost.truth, ghost.cut, ghost.unpublished)
           /\ \A since : RowOf(out, "released", since, FALSE) =>
                 History(Episodes(out), EndLast(now), Never, TRUE)
           /\ \A since : RowOf(out, "entered", since, FALSE) =>
                 History(Episodes(out), Append(ghost.truth, [start |-> now, end |-> Never]), ghost.cut, ghost.unpublished)
           /\ \A since : GoingOn(out, since) =>
                 History(Episodes(out), ghost.truth, Never, ghost.unpublished)
<1>0. DOMAIN ghost = {"signals", "lost", "owed", "overruled", "quiet", "sampled", "outage", "truth", "cut",
                      "unpublished", "blind"}
  BY DEF Typed
<1>. DEFINE g == Episodes(out)
            e == [start |-> now, end |-> Never]
<1>1. CASE out = <<>>
  <2>1. g = ghost BY <1>1 DEF Episodes
  <2>2. \A event, since, resumed : ~RowOf(out, event, since, resumed) BY <1>1 DEF RowOf
  <2>3. History(g, ghost.truth, ghost.cut, ghost.unpublished) BY <2>1 DEF History
  <2>. HIDE DEF g
  <2>. QED BY <2>1, <2>2, <2>3 DEF g, GoingOn
<1>2. ASSUME NEW r, NEW event, NEW since, NEW resumed, out = <<r>>, Row(r, event), r.since = since, r.resumed = resumed,
             event \in RowEvents, resumed \in BOOLEAN
      PROVE  /\ event = "released" => g = [ghost EXCEPT !.truth = EndLast(now), !.cut = Never, !.unpublished = TRUE]
             /\ event = "entered" /\ resumed = FALSE => g = [ghost EXCEPT !.truth = Append(@, e)]
             /\ event = "entered" /\ resumed = TRUE => g = [ghost EXCEPT !.cut = Never]
             /\ event \in {"derate_released", "derate_resumed"} => g = [ghost EXCEPT !.cut = Never]
  <2>1. out # <<>> /\ out[1] = r BY <1>2
  <2>2. r.event = event BY <1>2 DEF Row
  <2>. HIDE DEF e
  <2>3. event = "released" => g = [ghost EXCEPT !.truth = EndLast(now), !.cut = Never, !.unpublished = TRUE]
    BY <2>1, <2>2 DEF Episodes
  <2>4. event = "entered" /\ resumed = FALSE => g = [ghost EXCEPT !.truth = Append(@, e)]
    BY <1>2, <2>1, <2>2 DEF Episodes, e
  <2>5. event = "entered" /\ resumed = TRUE => g = [ghost EXCEPT !.cut = Never]
    BY <1>2, <2>1, <2>2 DEF Episodes
  <2>6. event \in {"derate_released", "derate_resumed"} => g = [ghost EXCEPT !.cut = Never]
    BY <1>2, <2>1, <2>2 DEF Episodes
  <2>. QED BY <2>3, <2>4, <2>5, <2>6
<1>3. DOMAIN g = DOMAIN ghost BY DEF Episodes
<1>. HIDE DEF g, e
<1>4. ASSUME NEW since, RowOf(out, "released", since, FALSE) PROVE History(g, EndLast(now), Never, TRUE)
  <2>1. PICK r : out = <<r>> /\ Row(r, "released") /\ r.since = since /\ r.resumed = FALSE BY <1>4 DEF RowOf
  <2>2. g = [ghost EXCEPT !.truth = EndLast(now), !.cut = Never, !.unpublished = TRUE]
    BY <1>2, <2>1 DEF RowEvents
  <2>. QED BY <1>0, <2>2 DEF History
<1>5. ASSUME NEW since, RowOf(out, "entered", since, FALSE)
      PROVE  History(g, Append(ghost.truth, e), ghost.cut, ghost.unpublished)
  <2>1. PICK r : out = <<r>> /\ Row(r, "entered") /\ r.since = since /\ r.resumed = FALSE BY <1>5 DEF RowOf
  <2>2. g = [ghost EXCEPT !.truth = Append(@, e)] BY <1>2, <2>1 DEF RowEvents
  <2>. QED BY <1>0, <2>2 DEF History
<1>6. ASSUME NEW since, GoingOn(out, since)
      PROVE  History(g, ghost.truth, Never, ghost.unpublished)
  <2>1. g = [ghost EXCEPT !.cut = Never]
    <3>1. CASE RowOf(out, "entered", since, TRUE)
      <4>1. PICK r : out = <<r>> /\ Row(r, "entered") /\ r.since = since /\ r.resumed = TRUE BY <3>1 DEF RowOf
      <4>. QED BY <1>2, <4>1 DEF RowEvents
    <3>2. CASE RowOf(out, "derate_released", since, FALSE)
      <4>1. PICK r : out = <<r>> /\ Row(r, "derate_released") /\ r.since = since /\ r.resumed = FALSE
        BY <3>2 DEF RowOf
      <4>. QED BY <1>2, <4>1 DEF RowEvents
    <3>3. CASE RowOf(out, "derate_resumed", since, FALSE)
      <4>1. PICK r : out = <<r>> /\ Row(r, "derate_resumed") /\ r.since = since /\ r.resumed = FALSE
        BY <3>3 DEF RowOf
      <4>. QED BY <1>2, <4>1 DEF RowEvents
    <3>. QED BY <1>6, <3>1, <3>2, <3>3 DEF GoingOn
  <2>. QED BY <1>0, <2>1 DEF History
<1>7. out = <<>> => History(g, ghost.truth, ghost.cut, ghost.unpublished)
  <2>1. out = <<>> => g = ghost BY DEF g, Episodes
  <2>. QED BY <2>1 DEF History
<1>. QED BY <1>3, <1>4, <1>5, <1>6, <1>7 DEF g, e

\* What a sample leaves: nothing but memory if its row could not be written.
LEMMA SampledTold ==
    ASSUME Typed, NEW level, NEW rate \in Rates, NEW large \in BOOLEAN, SampleRound(level, rate, large),
           NEW adv, adv = Advance(mem.latch, rate, large)
    PROVE  /\ UNCHANGED <<now, scene, latest>> /\ pc = "sample" /\ mem'.latch = adv.latch
           /\ \/ pc' = "stopping" /\ UNCHANGED <<rows, ghost>>
              \/ /\ pc' \in {"final", "cleanup"} /\ rows' = rows \o adv.out
                 /\ \A truth, cut, unpublished :
                       History(Episodes(adv.out), truth, cut, unpublished) => History(ghost', truth, cut, unpublished)
<1>. DEFINE m == Counted(mem, level)
            l == Advance(mem.latch, rate, large).latch
<1>1. mem' = [m EXCEPT !.latch = l] /\ UNCHANGED <<now, scene, latest>> /\ pc = "sample"
  BY DEF SampleRound, host
<1>2. MemTyped(m) BY CountedIs
<1>3. l = adv.latch OBVIOUS
<1>. HIDE DEF m, l
<1>4. mem'.latch = adv.latch BY <1>1, <1>2, <1>3 DEF MemTyped, MemFields
<1>5. CASE pc' = "stopping" /\ UNCHANGED <<rows, ghost>> BY <1>1, <1>4, <1>5
<1>6. CASE ~(pc' = "stopping" /\ UNCHANGED <<rows, ghost>>)
  <2>1. /\ pc' \in {"final", "cleanup"} /\ rows' = rows \o adv.out
        /\ ghost' = [Episodes(adv.out) EXCEPT !.quiet = QuietSeen, !.sampled = now,
                                              !.outage = Outage, !.overruled = FALSE]
    BY <1>6 DEF SampleRound
  <2>. DEFINE g == Episodes(adv.out)
  <2>2. DOMAIN g = {"signals", "lost", "owed", "overruled", "quiet", "sampled", "outage", "truth", "cut",
                    "unpublished", "blind"}
    BY EpisodesAre DEF Typed
  <2>. HIDE DEF g
  <2>3. ghost' = [g EXCEPT !.quiet = QuietSeen, !.sampled = now, !.outage = Outage, !.overruled = FALSE]
    BY <2>1 DEF g
  <2>4. /\ ghost'.truth = g.truth /\ ghost'.cut = g.cut /\ ghost'.unpublished = g.unpublished
        /\ ghost'.blind = g.blind
    BY <2>2, <2>3
  <2>5. \A truth, cut, unpublished : History(g, truth, cut, unpublished) => History(ghost', truth, cut, unpublished)
    BY <2>4 DEF History
  <2>. QED BY <1>1, <1>4, <2>1, <2>5 DEF g
<1>. QED BY <1>5, <1>6

\* Outside a storm scene nothing enters.
LEMMA CalmRests ==
    ASSUME NEW l, LatchSound(l), l.latched = FALSE, NEW large
    PROVE  Advance(l, "calm", large).latch.latched = FALSE /\ Advance(l, "calm", large).out = <<>>
<1>. DEFINE o == Observe(l, "calm")
            calm == Min2(l.calm + 1, 2)
<1>1. o = [l EXCEPT !.hot = 0, !.calm = calm, !.latched = (l.latched \/ 0 >= 2) /\ ~(calm >= 2)]
  BY DEF Observe
<1>2. o.latched = FALSE
  <2>. HIDE DEF calm
  <2>1. o.latched = ((l.latched \/ 0 >= 2) /\ ~(calm >= 2)) BY <1>1 DEF LatchSound, IsLatch, LatchFields
  <2>. HIDE DEF o
  <2>2. ~(0 >= 2) OBVIOUS
  <2>. QED BY <2>1, <2>2
<1>3. Advance(l, "calm", large) = [latch |-> o, out |-> <<>>] BY <1>2 DEF Advance
<1>. HIDE DEF o
<1>. QED BY <1>2, <1>3

LEMMA SampledOpen ==
    ASSUME Typed, SightedInv, pc = "sample", NEW adv, Enters(mem.latch, adv),
           rows' = rows \o adv.out, UNCHANGED <<now, scene, latest>>, mem'.latch = adv.latch, pc' \in {"final", "cleanup"},
           History(ghost', Append(ghost.truth, [start |-> now, end |-> Never]), ghost.cut, ghost.unpublished)
    PROVE  SightedInv'
<1>. DEFINE e == [start |-> now, end |-> Never]
            t == Append(ghost.truth, e)
<1>0. now \in Nat BY DEF Typed
<1>1. /\ RowsTold /\ ~ghost.unpublished /\ (~Open => ghost.cut = Never) /\ LatestTold /\ LatchTold
  BY DEF SightedInv, Rounding, Live, Relief
<1>2. /\ mem.latch.latched = FALSE /\ adv.latch.latched = TRUE /\ adv.latch.since = now /\ adv.latch.resumed = FALSE
      /\ RowOf(adv.out, "entered", now, FALSE)
  BY DEF Enters
<1>3. ~Open /\ ghost.cut = Never BY <1>1, <1>2 DEF LatchTold
<1>4. ghost'.truth = t /\ ghost'.cut = Never /\ ~ghost'.unpublished BY <1>1, <1>3 DEF History
<1>5. PICK r : adv.out = <<r>> /\ Row(r, "entered") /\ r.since = now /\ r.resumed = FALSE BY <1>2 DEF RowOf
<1>6. (\E T : rows \in Seq(T)) /\ Told(EpisodesIn(rows), ghost.truth, ghost.cut, now) BY <1>1 DEF RowsTold
<1>7. rows' = Append(rows, r) BY <1>5, <1>6, RowsAppend
<1>8. (\E T : rows' \in Seq(T)) /\ EpisodesIn(rows') = EpisodeStep(EpisodesIn(rows), r)
  BY <1>6, <1>7, RowsAppend
<1>9. ~OpenIn(ghost.truth) BY <1>3, OpenIs
<1>10. IsRow(r) /\ r.event = "entered" /\ r.at = now BY <1>5 DEF Row
<1>11. Told(EpisodeStep(EpisodesIn(rows), r), t, Never, now)
  BY <1>0, <1>5, <1>6, <1>9, <1>10, ToldEntered
<1>12. RowsTold' BY <1>4, <1>8, <1>11 DEF RowsTold
<1>13. t # <<>> /\ t[Len(t)] = e
  <2>1. ghost.truth \in Seq(Episode) BY <1>6 DEF Told
  <2>. HIDE DEF e
  <2>2. Len(t) = Len(ghost.truth) + 1 /\ t[Len(ghost.truth) + 1] = e /\ Len(ghost.truth) \in Nat BY <2>1
  <2>3. t # <<>> BY <2>1
  <2>. QED BY <2>2, <2>3
<1>14. Open' = TRUE /\ LastTruth'.start = now
  <2>1. e.end = Never /\ e.start = now OBVIOUS
  <2>. HIDE DEF e, t
  <2>. QED BY <1>4, <1>13, <2>1 DEF Open, LastTruth
<1>. HIDE DEF t, e
<1>15. LatestTold'
  <2>1. ~(Recently /\ ~ghost.unpublished) BY <1>1, <1>3 DEF LatestTold
  <2>2. ~Recently' BY <1>1, <2>1 DEF Recently
  <2>. QED BY <2>2 DEF LatestTold
<1>16. LatchTold' BY <1>2, <1>4, <1>14 DEF LatchTold
<1>. QED BY <1>4, <1>12, <1>14, <1>15, <1>16 DEF SightedInv

LEMMA SampledOver ==
    ASSUME Typed, SightedInv, pc = "sample", NEW adv, Leaves(mem.latch, adv),
           rows' = rows \o adv.out, UNCHANGED <<now, scene, latest>>, mem'.latch = adv.latch, pc' \in {"final", "cleanup"},
           History(ghost', EndLast(now), Never, TRUE)
    PROVE  SightedInv'
<1>0. now \in Nat BY DEF Typed
<1>1. RowsTold /\ LatchTold BY DEF SightedInv, Live, Relief
<1>2. /\ mem.latch.latched = TRUE /\ adv.latch.latched = FALSE /\ adv.latch.resumed = FALSE
      /\ RowOf(adv.out, "released", mem.latch.since, FALSE)
  BY DEF Leaves
<1>3. Open /\ OpenIn(ghost.truth) /\ mem.latch.since = LastTruth.start /\ ghost.truth # <<>>
  BY <1>1, <1>2, OpenIs DEF LatchTold, Open
<1>4. ghost'.truth = EndedAt(ghost.truth, now) /\ ghost'.cut = Never /\ ghost'.unpublished
  BY EndLastIs DEF History
<1>5. PICK r : adv.out = <<r>> /\ Row(r, "released") /\ r.since = mem.latch.since /\ r.resumed = FALSE
  BY <1>2 DEF RowOf
<1>6. (\E T : rows \in Seq(T)) /\ Told(EpisodesIn(rows), ghost.truth, ghost.cut, now) BY <1>1 DEF RowsTold
<1>7. rows' = Append(rows, r) BY <1>5, <1>6, RowsAppend
<1>8. (\E T : rows' \in Seq(T)) /\ EpisodesIn(rows') = EpisodeStep(EpisodesIn(rows), r)
  BY <1>6, <1>7, RowsAppend
<1>9. IsRow(r) /\ r.event = "released" /\ r.at = now /\ r.since = ghost.truth[Len(ghost.truth)].start
  BY <1>3, <1>5 DEF Row, LastTruth
<1>10. Told(EpisodeStep(EpisodesIn(rows), r), EndedAt(ghost.truth, now), Never, now)
  BY <1>0, <1>3, <1>6, <1>9, ToldReleased
<1>11. RowsTold' BY <1>4, <1>8, <1>10 DEF RowsTold
<1>12. ~OpenIn(EndedAt(ghost.truth, now))
  <2>1. ghost.truth \in Seq(Episode) /\ now \in Int /\ now # Never BY <1>0, <1>6, NeverIs DEF Told
  <2>. QED BY <1>3, <2>1, EndedOver
<1>13. Open' = FALSE BY <1>4, <1>12 DEF Open, OpenIn
<1>14. pc' \in Rounding BY DEF Rounding, Live, Relief
<1>15. LatestTold' BY <1>4 DEF LatestTold
<1>16. LatchTold' BY <1>2, <1>13 DEF LatchTold
<1>. QED BY <1>4, <1>11, <1>13, <1>14, <1>15, <1>16 DEF SightedInv

LEMMA SampledOn ==
    ASSUME Typed, SightedInv, pc = "sample", NEW adv, Holds(mem.latch, adv),
           rows' = rows \o adv.out, UNCHANGED <<now, scene, latest>>, mem'.latch = adv.latch, pc' \in {"final", "cleanup"},
           adv.out = <<>> => History(ghost', ghost.truth, ghost.cut, ghost.unpublished),
           \A since : GoingOn(adv.out, since) => History(ghost', ghost.truth, Never, ghost.unpublished)
    PROVE  SightedInv'
<1>0. now \in Nat BY DEF Typed
<1>1. RowsTold /\ LatchTold /\ ~ghost.unpublished /\ LatestTold BY DEF SightedInv, Rounding, Live, Relief
<1>2. /\ mem.latch.latched = TRUE /\ adv.latch.latched = TRUE /\ adv.latch.since = mem.latch.since
      /\ adv.latch.resumed = FALSE
  BY DEF Holds
<1>3. Open /\ OpenIn(ghost.truth) /\ mem.latch.since = LastTruth.start /\ Open = TRUE
  BY <1>1, <1>2, OpenIs DEF LatchTold, Open
<1>6. (\E T : rows \in Seq(T)) /\ Told(EpisodesIn(rows), ghost.truth, ghost.cut, now) BY <1>1 DEF RowsTold
<1>7. ASSUME NEW r, adv.out = <<r>>
      PROVE  (\E T : rows' \in Seq(T)) /\ EpisodesIn(rows') = EpisodeStep(EpisodesIn(rows), r)
  <2>1. rows' = Append(rows, r) BY <1>6, <1>7, RowsAppend
  <2>. QED BY <1>6, <2>1, RowsAppend
<1>8. ghost'.truth = ghost.truth /\ ghost'.cut = Never /\ ~ghost'.unpublished /\ RowsTold'
  <2>1. CASE mem.latch.resumed = TRUE
    <3>1. RowOf(adv.out, "entered", mem.latch.since, TRUE) BY <2>1 DEF Holds
    <3>2. PICK r : adv.out = <<r>> /\ Row(r, "entered") /\ r.since = mem.latch.since /\ r.resumed = TRUE
      BY <3>1 DEF RowOf
    <3>3. ghost.cut # Never BY <1>1, <2>1 DEF LatchTold
    <3>4. IsRow(r) /\ r.event = "entered" /\ r.at = now /\ r.since = ghost.truth[Len(ghost.truth)].start
      BY <1>3, <3>2 DEF Row, LastTruth
    <3>5. Told(EpisodeStep(EpisodesIn(rows), r), ghost.truth, Never, now)
      BY <1>0, <1>3, <1>6, <3>2, <3>3, <3>4, ToldResumed
    <3>6. History(ghost', ghost.truth, Never, ghost.unpublished) BY <3>1 DEF GoingOn
    <3>. QED BY <1>1, <1>7, <3>2, <3>5, <3>6 DEF History, RowsTold
  <2>2. CASE mem.latch.resumed # TRUE
    <3>1. ghost.cut = Never BY <1>1, <1>3, <2>2 DEF LatchTold
    <3>2. CASE adv.out = <<>>
      <4>1. rows' = rows BY <1>6, <3>2, RowsAppend
      <4>2. History(ghost', ghost.truth, ghost.cut, ghost.unpublished) BY <3>2
      <4>. QED BY <1>1, <1>6, <3>1, <4>1, <4>2 DEF History, RowsTold
    <3>3. ASSUME NEW event \in {"derate_released", "derate_resumed"}, RowOf(adv.out, event, mem.latch.since, FALSE)
          PROVE  ghost'.truth = ghost.truth /\ ghost'.cut = Never /\ ~ghost'.unpublished /\ RowsTold'
      <4>1. PICK r : adv.out = <<r>> /\ Row(r, event) /\ r.since = mem.latch.since /\ r.resumed = FALSE
        BY <3>3 DEF RowOf
      <4>2. IsRow(r) /\ r.event \in {"derate_released", "derate_resumed"} /\ r.at = now BY <4>1 DEF Row
      <4>3. Told(EpisodeStep(EpisodesIn(rows), r), ghost.truth, Never, now)
        BY <1>0, <1>3, <1>6, <3>1, <4>2, ToldDerate
      <4>4. History(ghost', ghost.truth, Never, ghost.unpublished) BY <3>3 DEF GoingOn
      <4>. QED BY <1>1, <1>7, <4>1, <4>3, <4>4 DEF History, RowsTold
    <3>. QED BY <2>2, <3>2, <3>3 DEF Holds
  <2>. QED BY <2>1, <2>2
<1>9. Open' = TRUE /\ LastTruth' = LastTruth BY <1>3, <1>8 DEF Open, LastTruth
<1>10. LatestTold' BY <1>1, <1>3, <1>8, <1>9 DEF LatestTold, Recently
<1>11. LatchTold' BY <1>2, <1>3, <1>8, <1>9 DEF LatchTold
<1>. QED BY <1>8, <1>9, <1>10, <1>11 DEF SightedInv

LEMMA SampledCalm ==
    ASSUME Typed, SightedInv, pc = "sample", NEW adv, Rests(mem.latch, adv),
           rows' = rows \o adv.out, UNCHANGED <<now, scene, latest>>, mem'.latch = adv.latch, pc' \in {"final", "cleanup"},
           History(ghost', ghost.truth, ghost.cut, ghost.unpublished), Measured(adv.latch)
    PROVE  SightedInv'
<1>1. RowsTold /\ LatchTold /\ ~ghost.unpublished /\ LatestTold /\ (~Open => ghost.cut = Never)
  BY DEF SightedInv, Rounding, Live, Relief
<1>2. mem.latch.latched = FALSE /\ adv.latch.latched = FALSE /\ adv.out = <<>>
      /\ (adv.latch.resumed = TRUE => mem.latch.resumed = TRUE)
  BY DEF Rests
<1>3. ~Open BY <1>1, <1>2 DEF LatchTold
<1>4. adv.latch.resumed = FALSE BY <1>1, <1>2, <1>3 DEF LatchTold, Measured
<1>5. rows' = rows BY <1>1, <1>2, RowsAppend DEF RowsTold
<1>6. ghost'.truth = ghost.truth /\ ghost'.cut = ghost.cut /\ ghost'.unpublished = ghost.unpublished BY DEF History
<1>7. RowsTold' BY <1>1, <1>5, <1>6 DEF RowsTold
<1>8. Open' = FALSE BY <1>3, <1>6 DEF Open
<1>9. LatestTold'
  <2>1. ~Recently BY <1>1, <1>3 DEF LatestTold
  <2>. QED BY <2>1 DEF LatestTold, Recently
<1>10. LatchTold' BY <1>2, <1>4, <1>8 DEF LatchTold
<1>. QED BY <1>1, <1>3, <1>6, <1>7, <1>8, <1>9, <1>10 DEF SightedInv

LEMMA StormSampled ==
    ASSUME Typed, StormInv, NEW level, NEW rate \in Rates, NEW large \in BOOLEAN, SampleRound(level, rate, large),
           scene # "storm" => rate = "calm"
    PROVE  StormInv'
<1>. DEFINE adv == Advance(mem.latch, rate, large)
<1>1. /\ UNCHANGED <<now, scene, latest>> /\ pc = "sample" /\ mem'.latch = adv.latch
      /\ \/ pc' = "stopping" /\ UNCHANGED <<rows, ghost>>
         \/ /\ pc' \in {"final", "cleanup"} /\ rows' = rows \o adv.out
            /\ \A truth, cut, unpublished :
                  History(Episodes(adv.out), truth, cut, unpublished) => History(ghost', truth, cut, unpublished)
  BY SampledTold
<1>2. now \in Nat /\ LatchSound(mem.latch) /\ Measured(mem.latch) BY DEF Typed, StormInv
<1>3. Enters(mem.latch, adv) \/ Leaves(mem.latch, adv) \/ Holds(mem.latch, adv) \/ Rests(mem.latch, adv)
  BY <1>2, AdvanceIs
<1>4. Measured(adv.latch) BY <1>2, AdvanceMeasured
<1>5. scene # "storm" => adv.latch.latched = FALSE /\ adv.out = <<>>
  BY <1>2, CalmRests DEF StormInv
<1>. HIDE DEF adv
<1>6. /\ adv.out = <<>> => History(Episodes(adv.out), ghost.truth, ghost.cut, ghost.unpublished)
      /\ \A since : RowOf(adv.out, "released", since, FALSE) =>
            History(Episodes(adv.out), EndLast(now), Never, TRUE)
      /\ \A since : RowOf(adv.out, "entered", since, FALSE) =>
            History(Episodes(adv.out), Append(ghost.truth, [start |-> now, end |-> Never]), ghost.cut, ghost.unpublished)
      /\ \A since : GoingOn(adv.out, since) => History(Episodes(adv.out), ghost.truth, Never, ghost.unpublished)
  BY EpisodesAre
<1>7. CASE pc' = "stopping" /\ UNCHANGED <<rows, ghost>>
  <2>1. Open' = Open /\ LastTruth' = LastTruth /\ Recently' = Recently
    BY <1>1, <1>7 DEF Open, LastTruth, Recently
  <2>2. pc' \notin Live BY <1>7 DEF Live, Relief
  <2>3. ASSUME ~ghost'.blind PROVE SightedInv'
    <3>1. SightedInv /\ ~ghost.unpublished BY <1>1, <1>7, <2>3 DEF StormInv, SightedInv, Rounding, Live, Relief
    <3>2. RowsTold' BY <1>1, <1>7, <3>1 DEF SightedInv, RowsTold
    <3>3. LatestTold' BY <1>1, <1>7, <2>1, <3>1 DEF SightedInv, LatestTold
    <3>. QED BY <1>7, <2>1, <2>2, <3>1, <3>2, <3>3 DEF SightedInv
  <2>4. scene # "storm" => ghost'.truth = <<>> /\ mem'.latch.latched = FALSE /\ latest'.latched = FALSE
    BY <1>1, <1>5, <1>7 DEF StormInv
  <2>. QED BY <1>1, <1>4, <2>3, <2>4 DEF StormInv
<1>8. CASE ~(pc' = "stopping" /\ UNCHANGED <<rows, ghost>>)
  <2>1. /\ pc' \in {"final", "cleanup"} /\ rows' = rows \o adv.out
        /\ \A truth, cut, unpublished :
                  History(Episodes(adv.out), truth, cut, unpublished) => History(ghost', truth, cut, unpublished)
    BY <1>1, <1>8
  <2>2. scene # "storm" => ghost'.truth = <<>> /\ mem'.latch.latched = FALSE /\ latest'.latched = FALSE
    <3>1. adv.out = <<>> => ghost'.truth = ghost.truth BY <1>6, <2>1 DEF History
    <3>. QED BY <1>1, <1>5, <3>1 DEF StormInv
  <2>3. ghost'.blind = ghost.blind
    <3>1. CASE Enters(mem.latch, adv) BY <1>6, <2>1, <3>1 DEF Enters, History
    <3>2. CASE Leaves(mem.latch, adv) BY <1>6, <2>1, <3>2 DEF Leaves, History
    <3>3. CASE Holds(mem.latch, adv) BY <1>6, <2>1, <3>3 DEF Holds, History, GoingOn
    <3>4. CASE Rests(mem.latch, adv) BY <1>6, <2>1, <3>4 DEF Rests, History
    <3>. QED BY <1>3, <3>1, <3>2, <3>3, <3>4
  <2>4. ASSUME ~ghost'.blind PROVE SightedInv'
    <3>0. SightedInv BY <2>3, <2>4 DEF StormInv
    <3>1. CASE Enters(mem.latch, adv)
      <4>1. History(ghost', Append(ghost.truth, [start |-> now, end |-> Never]), ghost.cut, ghost.unpublished)
        BY <1>6, <2>1, <3>1 DEF Enters
      <4>. QED BY <1>1, <2>1, <3>0, <3>1, <4>1, SampledOpen
    <3>2. CASE Leaves(mem.latch, adv)
      <4>1. History(ghost', EndLast(now), Never, TRUE) BY <1>6, <2>1, <3>2 DEF Leaves
      <4>. QED BY <1>1, <2>1, <3>0, <3>2, <4>1, SampledOver
    <3>3. CASE Holds(mem.latch, adv)
      <4>1. adv.out = <<>> => History(ghost', ghost.truth, ghost.cut, ghost.unpublished) BY <1>6, <2>1
      <4>2. \A since : GoingOn(adv.out, since) => History(ghost', ghost.truth, Never, ghost.unpublished)
        BY <1>6, <2>1
      <4>. QED BY <1>1, <2>1, <3>0, <3>3, <4>1, <4>2, SampledOn
    <3>4. CASE Rests(mem.latch, adv)
      <4>1. History(ghost', ghost.truth, ghost.cut, ghost.unpublished) BY <1>6, <2>1, <3>4 DEF Rests
      <4>. QED BY <1>1, <1>4, <2>1, <3>0, <3>4, <4>1, SampledCalm
    <3>. QED BY <1>3, <3>1, <3>2, <3>3, <3>4
  <2>. QED BY <1>1, <1>4, <2>2, <2>4 DEF StormInv
<1>. QED BY <1>7, <1>8

LEMMA StormStopped == Typed /\ StormInv /\ AppendStopped => StormInv'
<1>. SUFFICES ASSUME Typed, StormInv, AppendStopped PROVE StormInv' OBVIOUS
<1>0. pc = "stopping" /\ pc' = "marking" /\ UNCHANGED <<now, scene, latest, mem>> /\ now \in Nat
  BY DEF AppendStopped, host, Typed
<1>1. PICK wrote \in BOOLEAN :
          /\ rows' = IF wrote THEN WithBoundary("resident_stopped") ELSE rows
          /\ ghost' = [ghost EXCEPT !.cut = CutAt(wrote)]
  BY DEF AppendStopped
<1>2. /\ ghost'.truth = ghost.truth /\ ghost'.cut = CutAt(wrote) /\ ghost'.unpublished = ghost.unpublished
      /\ ghost'.blind = ghost.blind
  <2>. DEFINE cut == CutAt(wrote)
  <2>1. ghost' = [ghost EXCEPT !.cut = cut] BY <1>1
  <2>. HIDE DEF cut
  <2>2. ghost'.cut = cut BY <2>1 DEF Typed
  <2>3. ghost'.truth = ghost.truth /\ ghost'.unpublished = ghost.unpublished /\ ghost'.blind = ghost.blind
    BY <2>1 DEF Typed
  <2>. QED BY <2>2, <2>3 DEF cut
<1>3. Open' = Open /\ LastTruth' = LastTruth /\ Recently' = Recently BY <1>0, <1>2 DEF Open, LastTruth, Recently
<1>4. pc' \notin Live /\ pc \notin Rounding BY <1>0 DEF Live, Relief, Rounding
<1>5. ASSUME ~ghost'.blind PROVE SightedInv'
  <2>1. SightedInv BY <1>2, <1>5 DEF StormInv
  <2>2. (\E T : rows' \in Seq(T)) /\ Told(EpisodesIn(rows'), ghost.truth, CutAt(wrote), now)
    BY <1>0, <1>1, <2>1, BoundaryTold DEF StormInv, SightedInv
  <2>3. RowsTold' BY <1>0, <1>2, <2>2 DEF RowsTold
  <2>4. ~Open => CutAt(wrote) = Never BY <2>1 DEF SightedInv, CutAt
  <2>5. LatestTold' BY <1>0, <1>2, <1>3, <2>1 DEF SightedInv, LatestTold
  <2>. QED BY <1>2, <1>3, <1>4, <2>1, <2>3, <2>4, <2>5 DEF SightedInv
<1>. QED BY <1>0, <1>2, <1>5 DEF StormInv

LEMMA StormPublished == Typed /\ StormInv /\ Publish => StormInv'
<1>. SUFFICES ASSUME Typed, StormInv, Publish PROVE StormInv' OBVIOUS
<1>0. pc = "publish" /\ UNCHANGED <<now, scene, rows, mem>> BY DEF Publish, host
<1>1. CASE /\ latest' = [at |-> now, latched |-> mem.latch.latched, cause |-> mem.latch.cause, since |-> mem.latch.since]
           /\ pc' = "wait" /\ ghost' = [ghost EXCEPT !.unpublished = FALSE]
  <2>1. /\ ghost'.truth = ghost.truth /\ ghost'.cut = ghost.cut /\ ghost'.unpublished = FALSE
        /\ ghost'.blind = ghost.blind
    BY <1>1 DEF Typed
  <2>2. Open' = Open /\ LastTruth' = LastTruth BY <2>1 DEF Open, LastTruth
  <2>3. scene # "storm" => latest'.latched = FALSE BY <1>1 DEF StormInv
  <2>4. ASSUME ~ghost'.blind PROVE SightedInv'
    <3>1. SightedInv BY <2>1, <2>4 DEF StormInv
    <3>2. LatchTold BY <1>0, <3>1 DEF SightedInv, Live
    <3>3. RowsTold' BY <1>0, <2>1, <3>1 DEF SightedInv, RowsTold
    <3>4. LatestTold'
      <4>1. latest'.latched = mem.latch.latched /\ latest'.since = mem.latch.since BY <1>1
      <4>. QED BY <2>2, <3>2, <4>1 DEF LatestTold, LatchTold, Recently
    <3>5. LatchTold' BY <1>0, <1>1, <2>1, <2>2, <3>2 DEF LatchTold
    <3>. QED BY <2>1, <2>2, <3>1, <3>3, <3>4, <3>5 DEF SightedInv
  <2>. QED BY <1>0, <2>1, <2>3, <2>4 DEF StormInv
<1>2. CASE pc' = "stopping" /\ ghost' = RowLost /\ latest' = latest
  <2>1. /\ ghost'.truth = ghost.truth /\ ghost'.cut = ghost.cut /\ ghost'.unpublished = ghost.unpublished
        /\ ghost'.blind = (ghost.blind \/ ghost.unpublished)
    BY <1>2 DEF Typed, RowLost
  <2>2. pc' \notin Live BY <1>2 DEF Live, Relief
  <2>. QED BY <1>0, <1>2, <2>1, <2>2, StormFrame
<1>. QED BY <1>1, <1>2 DEF Publish

LEMMA StormTicks == Typed /\ StormInv /\ Tick => StormInv'
<1>. SUFFICES ASSUME Typed, StormInv, Tick PROVE StormInv' OBVIOUS
<1>0. /\ pc \in {"wait", "down"} /\ now' = now + 1 /\ pc' = (IF pc = "wait" THEN "sample" ELSE pc)
      /\ UNCHANGED <<scene, latest, rows, mem, ghost>> /\ now \in Nat
  BY DEF Tick, host, disk, Typed
<1>1. Open' = Open /\ LastTruth' = LastTruth BY <1>0 DEF Open, LastTruth
<1>2. pc \notin Rounding /\ (pc' \in Live => pc = "wait" /\ pc \in Live) BY <1>0 DEF Rounding, Live, Relief
<1>3. ASSUME ~ghost'.blind PROVE SightedInv'
  <2>1. SightedInv BY <1>0, <1>3 DEF StormInv
  <2>2. RowsTold'
    <3>1. (\E T : rows \in Seq(T)) /\ Told(EpisodesIn(rows), ghost.truth, ghost.cut, now)
      BY <2>1 DEF SightedInv, RowsTold
    <3>2. now + 1 \in Nat /\ now <= now + 1 BY <1>0
    <3>3. Told(EpisodesIn(rows), ghost.truth, ghost.cut, now + 1) BY <1>0, <3>1, <3>2, ToldLater
    <3>. QED BY <1>0, <3>1, <3>3 DEF RowsTold
  <2>3. Recently' => Recently
    <3>1. latest.latched => latest.at \in 0..now BY DEF Typed
    <3>2. ResumeAge \in Nat BY Constants
    <3>. QED BY <1>0, <3>1, <3>2 DEF Recently
  <2>4. LatestTold' BY <1>0, <1>1, <2>1, <2>3 DEF SightedInv, LatestTold
  <2>5. pc' \in Live => LatchTold' BY <1>0, <1>1, <1>2, <2>1 DEF SightedInv, LatchTold
  <2>. QED BY <1>0, <1>1, <1>2, <2>1, <2>2, <2>4, <2>5 DEF SightedInv
<1>. QED BY <1>0, <1>3 DEF StormInv

LEMMA StormStep == Typed /\ HaveLatest /\ StormInv /\ [Next]_vars => StormInv'
<1>. SUFFICES ASSUME Typed, HaveLatest, StormInv, [Next]_vars PROVE StormInv' OBVIOUS
<1>. USE DEF disk, host
<1>0. DOMAIN ghost = {"signals", "lost", "owed", "overruled", "quiet", "sampled", "outage", "truth", "cut",
                      "unpublished", "blind"} /\ MemTyped(mem)
  BY DEF Typed
<1>1. CASE Start
  <2>1. mem'.latch = NoLatch /\ pc' = "hint" BY <1>1 DEF Start, NoMem
  <2>2. pc' \notin Live /\ pc \notin Rounding BY <1>1, <2>1 DEF Start, Live, Relief, Rounding
  <2>. QED BY <1>1, <2>1, <2>2, StormFrame DEF Start
<1>2. CASE RecordHint
  <2>1. pc' \notin Live /\ pc \notin Rounding BY <1>2 DEF RecordHint, Live, Relief, Rounding
  <2>2. /\ ghost'.truth = ghost.truth /\ ghost'.cut = ghost.cut /\ ghost'.unpublished = ghost.unpublished
        /\ ghost'.blind = ghost.blind
    BY <1>0, <1>2 DEF RecordHint
  <2>. QED BY <1>2, <2>1, <2>2, StormFrame DEF RecordHint
<1>3. CASE RecordRuntime
  <2>1. pc' \notin Live /\ pc \notin Rounding BY <1>3 DEF RecordRuntime, Live, Relief, Rounding
  <2>. QED BY <1>3, <2>1, StormFrame DEF RecordRuntime
<1>4. CASE BeginRun
  BY <1>4, StormBegins
<1>5. CASE Sample
  <2>1. ASSUME NEW level, NEW rate \in Rates, NEW large \in BOOLEAN, SampleRound(level, rate, large),
               scene # "storm" => rate = "calm"
        PROVE  StormInv'
    BY <2>1, StormSampled
  <2>2. CASE scene = "relief" /\ \E level \in {"normal", "critical"} : SampleRound(level, "calm", FALSE)
    BY <2>1, <2>2 DEF Rates
  <2>3. CASE scene = "storm" /\ \E rate \in Rates, large \in BOOLEAN : SampleRound("normal", rate, large)
    BY <2>1, <2>3
  <2>4. CASE scene = "cleanup" /\ SampleRound("normal", "calm", FALSE)
    BY <2>1, <2>4 DEF Rates
  <2>. QED BY <1>5, <2>2, <2>3, <2>4 DEF Sample
<1>6. CASE SampleFails
  <2>1. pc' = "wait" /\ pc = "sample" /\ scene # "storm" BY <1>6 DEF SampleFails
  <2>2. pc' \in Live /\ pc \in Live /\ pc \notin Rounding BY <2>1 DEF Live, Relief, Rounding
  <2>3. ~ghost.blind => mem.latch.resumed = FALSE
    <3>1. ~Open BY <2>1 DEF StormInv, Open
    <3>2. ~ghost.blind => LatchTold BY <2>2 DEF StormInv, SightedInv
    <3>. QED BY <3>1, <3>2 DEF LatchTold, StormInv, Measured
  <2>4. CASE ghost.blind
    BY <1>6, <2>4 DEF SampleFails, StormInv
  <2>. QED BY <1>6, <2>1, <2>2, <2>3, <2>4, StormFrame DEF SampleFails
<1>7. CASE FinalSample
  <2>1. pc = "final" /\ pc' \in {"policy", "append"} BY <1>7 DEF FinalSample, Rejected
  <2>2. pc \in Live /\ pc' \in Rounding BY <2>1 DEF Live, Relief, Rounding
  <2>. QED BY <1>7, <2>1, <2>2, StormFrame DEF FinalSample
<1>8. CASE FinalPolicy
  <2>1. pc = "policy" /\ pc' \in {"send", "append"} BY <1>8 DEF FinalPolicy, Rejected
  <2>2. pc \in Live /\ pc' \in Rounding BY <2>1 DEF Live, Relief, Rounding
  <2>. QED BY <1>8, <2>1, <2>2, StormFrame DEF FinalPolicy
<1>9. CASE Send
  <2>1. pc = "send" /\ pc' = "append" BY <1>9 DEF Send
  <2>2. pc \in Live /\ pc' \in Rounding BY <2>1 DEF Live, Relief, Rounding
  <2>3. /\ ghost'.truth = ghost.truth /\ ghost'.cut = ghost.cut /\ ghost'.unpublished = ghost.unpublished
        /\ ghost'.blind = ghost.blind
    BY <1>0, <1>9 DEF Send
  <2>. QED BY <1>9, <2>1, <2>2, <2>3, StormFrame DEF Send
<1>10. CASE AppendAction
  <2>0. UNCHANGED <<now, rows, latest, scene>> /\ pc = "append" BY <1>10 DEF AppendAction
  <2>1. CASE mem' = Acted(mem) /\ pc' = "publish" /\ ghost' = ghost
    <3>1. mem'.latch = mem.latch BY <1>0, <2>1 DEF Acted, MemTyped, MemFields
    <3>2. pc \in Live /\ pc' \in Rounding /\ pc # "sample" BY <2>0, <2>1 DEF Live, Relief, Rounding
    <3>. QED BY <2>0, <2>1, <3>1, <3>2, StormFrame
  <2>2. CASE pc' = "stopping" /\ ghost' = RowLost /\ mem' = mem
    <3>1. /\ ghost'.truth = ghost.truth /\ ghost'.cut = ghost.cut /\ ghost'.unpublished = ghost.unpublished
          /\ ghost'.blind = (ghost.blind \/ ghost.unpublished)
      BY <1>0, <2>2 DEF RowLost
    <3>2. pc' \notin Live BY <2>2 DEF Live, Relief
    <3>. QED BY <2>0, <2>2, <3>1, <3>2, StormFrame
  <2>. QED BY <1>10, <2>1, <2>2 DEF AppendAction
<1>11. CASE RunResourceCleanup
  <2>1. pc = "cleanup" /\ pc' = "publish" /\ UNCHANGED <<now, rows, latest, scene, ghost>>
    BY <1>11 DEF RunResourceCleanup
  <2>2. pc \in Live /\ pc' \in Rounding BY <2>1 DEF Live, Relief, Rounding
  <2>3. PICK c : mem' = [mem EXCEPT !.cleanup = c]
    <3>1. PICK c, wrote :
             IF wrote
             THEN mem' = [mem EXCEPT !.cleanup = [c EXCEPT !.last = now, !.pendErr = FALSE, !.pendRec = FALSE]]
                  \/ mem' = [mem EXCEPT !.cleanup = [c EXCEPT !.last = now, !.pendErr = FALSE, !.pendRec = @]]
             ELSE mem' = [mem EXCEPT !.cleanup = c]
      BY <1>11 DEF RunResourceCleanup
    <3>. QED BY <3>1
  <2>4. mem'.latch = mem.latch BY <1>0, <2>3 DEF MemTyped, MemFields
  <2>. QED BY <2>1, <2>2, <2>4, StormFrame
<1>12. CASE Publish
  BY <1>12, StormPublished
<1>13. CASE StopSignal
  <2>1. pc = "wait" /\ pc' = "stopping" BY <1>13 DEF StopSignal
  <2>2. pc' \notin Live /\ pc \notin Rounding BY <2>1 DEF Live, Relief, Rounding
  <2>. QED BY <1>13, <2>1, <2>2, StormFrame DEF StopSignal
<1>14. CASE AppendStopped
  BY <1>14, StormStopped
<1>15. CASE MarkClean
  <2>1. pc' \notin Live /\ pc \notin Rounding BY <1>15 DEF MarkClean, Live, Relief, Rounding
  <2>. QED BY <1>15, <2>1, StormFrame DEF MarkClean
<1>16. CASE Crash
  <2>1. pc' = "down" /\ mem'.latch = NoLatch /\ UNCHANGED <<now, rows, latest, scene>>
    BY <1>16 DEF Crash, NoMem
  <2>2. pc' \notin Live BY <2>1 DEF Live, Relief
  <2>3. /\ ghost'.truth = ghost.truth /\ ghost'.cut = ghost.cut /\ ghost'.unpublished = ghost.unpublished
        /\ ghost'.blind = (ghost.blind \/ ghost.unpublished)
    BY <1>0, <1>16 DEF Crash, RowLost
  <2>. QED BY <2>1, <2>2, <2>3, StormFrame
<1>17. CASE Tick
  BY <1>17, StormTicks
<1>18. CASE TreeChanges
  BY <1>18, StormFrame DEF TreeChanges
<1>19. CASE PolicyChanges
  <2>1. /\ ghost'.truth = ghost.truth /\ ghost'.cut = ghost.cut /\ ghost'.unpublished = ghost.unpublished
        /\ ghost'.blind = ghost.blind
    BY <1>0, <1>19 DEF PolicyChanges
  <2>. QED BY <1>19, <2>1, StormFrame DEF PolicyChanges
<1>20. CASE ClearRecoveryHint
  BY <1>20, StormFrame DEF ClearRecoveryHint
<1>21. CASE UNCHANGED vars
  BY <1>21, StormFrame DEF vars
<1>. QED BY <1>1, <1>2, <1>3, <1>4, <1>5, <1>6, <1>7, <1>8, <1>9, <1>10, <1>11, <1>12, <1>13, <1>14,
            <1>15, <1>16, <1>17, <1>18, <1>19, <1>20, <1>21 DEF Next, Done

LEMMA StormTells ==
    ASSUME Typed, StormInv
    PROVE  EpisodesTold
<1>. SUFFICES ASSUME pc = "wait", ~ghost.blind
              PROVE  LET s == SummarizeSwapThrashEpisodes
                     IN  /\ s.count = Len(ghost.truth) /\ s.seconds = LatchedTime(ghost.truth, now)
                         /\ s.open = mem.latch.latched /\ s.external <= s.seconds
  BY DEF EpisodesTold
<1>1. SightedInv /\ LatchTold BY DEF StormInv, SightedInv, Live
<1>2. Open = OpenIn(ghost.truth) BY OpenIs
<1>3. OpenIn(ghost.truth) => ghost.cut = Never BY <1>1, <1>2 DEF LatchTold
<1>4. now \in Nat /\ Told(EpisodesIn(rows), ghost.truth, ghost.cut, now)
  BY <1>1 DEF Typed, SightedInv, RowsTold
<1>5. mem.latch.latched = OpenIn(ghost.truth) BY <1>1, <1>2 DEF LatchTold
<1>. QED BY <1>3, <1>4, <1>5, ToldSummary

LEMMA StormSafe == Spec => [](Typed /\ StormInv)
<1>1. ResidentInv => Typed /\ HaveLatest
  BY DEF ResidentInv, CooldownInv
<1>2. ResidentInv /\ StormInv /\ [Next]_vars => StormInv'
  BY <1>1, StormStep
<1>. QED BY <1>1, <1>2, StormInit, ResidentSafe, PTL DEF Spec

\* What the state directory tells a reader is what happened: a resident that died before this
\* one started is on record, a recovery of the cleanup extension follows its failure, and the
\* rows add up to the swap storms that were, as many and as long, over restarts, rows that
\* were lost, and crashes at any point of a round but the one between a release row and
\* latest.json (StartLifecycle, runResourceCleanup, SummarizeSwapThrashEpisodes).
THEOREM RecordsAreTold == Spec => []RecordsTold
<1>1. ResidentInv => UncleanTold /\ RecoveryTold
  BY DEF ResidentInv, Owed, UncleanTold, Noted
<1>2. Typed /\ StormInv => EpisodesTold
  BY StormTells
<1>3. Spec => []EpisodesTold
  BY <1>2, StormSafe, PTL
<1>4. Spec => [](UncleanTold /\ RecoveryTold)
  BY <1>1, ResidentSafe, PTL
<1>. QED BY <1>3, <1>4, PTL DEF RecordsTold
=============================================================================
