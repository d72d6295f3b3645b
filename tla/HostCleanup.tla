---------------------------- MODULE HostCleanup ----------------------------
(***************************************************************************)
(* Host cleanup: pressure-triggered reclaim of typed local resources.      *)
(*   internal/hostcleanup/types.go      policy, rollout stages, claims     *)
(*   internal/hostcleanup/store.go      policy file, claim files, ledger   *)
(*   internal/hostcleanup/manager.go    one enforcement pass               *)
(*   internal/hostcleanup/providers.go  candidates and their final check   *)
(*   sessionpressurecmd/session_pressure_cleanup.go   operator verbs       *)
(* An enforcement pass is a process the resident starts and kills at a     *)
(* deadline; operator verbs are processes too.  They share the policy      *)
(* file, the claim files and the action ledger, under three file locks     *)
(* (module FileLock): run, policy and claims state.  A crash frees a lock, *)
(* which is what the lock's stale-owner takeover amounts to.               *)
(***************************************************************************)
EXTENDS Integers, FiniteSets

CONSTANTS Resources,   \* cleanup resources
          Kind,          \* their kind: 1 process, 2 browser, 3 dev session, 4 Docker
          ClaimIds,      \* claim files
          Passes,        \* enforcement passes that may be alive together
          Commands,      \* processes running an operator policy verb
          Window,        \* MinimumObservationWindow, in ticks
          Cooldown,      \* policy.CooldownSeconds, in ticks
          TTL,           \* claim TTL, in ticks
          MaxTime,       \* bound on the clock
          Budgets,       \* bounds: how many claim operations, typed verbs, previews,
                         \* passes, ticks and server deaths a behaviour has, one record for each mix worth a search
          Edits,         \* BOOLEAN: the first policy may be an edited, enforcing one
          Faults         \* BOOLEAN: torn ledger rows and damaged claim files occur

ASSUME CleanupAssumption ==
    /\ Kind \in [Resources -> 1..4]
    /\ {Cooldown, TTL, MaxTime} \subseteq Nat /\ Window \in Nat \ {0}
    /\ Budgets \subseteq [claims : Nat, verbs : Nat, previews : Nat, passes : Nat, ticks : Nat, deaths : Nat]
    /\ {Edits, Faults} \subseteq BOOLEAN

VARIABLES now,         \* wall clock
          policy,        \* cleanup-policy.json
          claims,        \* resource-claims/*.json
          damaged,       \* some claim file does not validate
          ledger,        \* resource-cleanup-actions.jsonl: its last row, and whether one is torn
          lock,          \* holder of each file lock
          gen,           \* generation of each resource: process start identity, session start
          idle,          \* the provider's current activity evidence
          pass,          \* the enforcement passes
          cmd,           \* the operator verbs
          left,          \* what is left of the budget
          reclaimed,     \* history: time of the last provider mutation
          rollout        \* history: what the operator last asked for

vars == <<now, policy, claims, damaged, ledger, lock, gen, idle, pass, cmd, left,
          reclaimed, rollout>>

Never == -1
Free == "free"

\* Whoever holds a lock is told from nobody.
ASSUME NobodyAssumption == Free \notin Passes \cup Commands

NoClaim == [res |-> "none", expires |-> Never, gen |-> 0, reap |-> FALSE]
Verbs == {"init", "enable", "schedule", "observe", "disable"}
Stops == {"init", "observe", "disable"}

----------------------------------------------------------------------------
\* The policy.  The four provider switches are only ever set as a prefix of
\* process, browser, dev session, Docker, so their number stands for them.

Policy == [persisted : BOOLEAN, enabled : BOOLEAN, enforce : BOOLEAN, providers : 1..4,
           autoProcess : BOOLEAN, autoNative : BOOLEAN, obs : Never..MaxTime]

DefaultPolicy == [persisted |-> FALSE, enabled |-> TRUE, enforce |-> FALSE, providers |-> 4,
                  autoProcess |-> FALSE, autoNative |-> FALSE, obs |-> Never]

GraduationAt(p, stage) == p.obs + stage * Window

ObservationRemaining(p) == IF p.obs = Never THEN Window
                           ELSE IF GraduationAt(p, 1) > now THEN GraduationAt(p, 1) - now ELSE 0

AutoGraduationDue(p) ==
    \/ p.autoProcess /\ ~p.enforce /\ p.obs # Never /\ now >= GraduationAt(p, 1)
    \/ ~(p.autoProcess /\ ~p.enforce) /\ p.enforce /\ p.autoNative /\ p.providers < 4
       /\ now >= GraduationAt(p, p.providers + 1)

ValidateEnforcement(p) ==
    p.enforce => /\ p.enabled
                 /\ ObservationRemaining(p) = 0
                 /\ \A stage \in 2..p.providers : now >= GraduationAt(p, stage)

\* Policy.Validate, as far as the verbs can break it.
Validate(p) == /\ p.autoProcess => p.enabled /\ ~p.enforce /\ p.obs # Never
               /\ p.autoNative => p.enabled /\ p.obs # Never

\* One rollout stage; the last one ends the schedule.
Advance(p) == IF ~p.enforce THEN [p EXCEPT !.enforce = TRUE, !.autoProcess = FALSE, !.providers = 1]
              ELSE [p EXCEPT !.providers = @ + 1, !.autoNative = @ /\ p.providers < 3]

EnforcingPolicy(p) == p.persisted /\ p.enabled /\ p.enforce

----------------------------------------------------------------------------
\* Operator verbs.  A verb loads the policy without the lock, edits what it
\* loaded and takes the lock for the write only.

Allowed(verb, p) == CASE verb = "init" -> ~p.persisted
                      [] verb = "enable" -> p.persisted /\ ObservationRemaining(p) = 0
                      [] verb = "schedule" -> p.persisted /\ ~p.enforce
                      [] OTHER -> TRUE

Disabled(p) == [p EXCEPT !.enabled = FALSE, !.enforce = FALSE, !.autoProcess = FALSE,
                         !.autoNative = FALSE, !.obs = Never]

Edit(verb, p) ==
    CASE verb = "init" -> [DefaultPolicy EXCEPT !.obs = now]
      [] verb = "enable" -> [p EXCEPT !.enabled = TRUE, !.enforce = TRUE, !.providers = 1,
                                      !.autoProcess = FALSE, !.autoNative = FALSE]
      [] verb = "schedule" -> [p EXCEPT !.enabled = TRUE, !.autoProcess = TRUE, !.autoNative = TRUE,
                                        !.providers = 4, !.obs = IF @ = Never THEN now ELSE @]
      [] verb = "observe" -> [p EXCEPT !.enabled = TRUE, !.enforce = FALSE, !.autoProcess = FALSE,
                                       !.autoNative = FALSE, !.providers = 4, !.obs = now]
      [] verb = "disable" -> Disabled(p)

NoCommand == [at |-> "idle", verb |-> "none", loaded |-> DefaultPolicy, edited |-> DefaultPolicy, stop |-> 0]

\* `init --force` writes what observe writes and is not kept apart from it.
LoadForEdit(c, verb) ==
    /\ cmd[c].at = "idle" /\ Allowed(verb, policy) /\ Validate(Edit(verb, policy))
    /\ cmd' = [cmd EXCEPT ![c] = [at |-> "save", verb |-> verb, loaded |-> policy,
                                  edited |-> [Edit(verb, policy) EXCEPT !.persisted = TRUE],
                                  stop |-> rollout.stops]]

\* What a saved verb asks for: a stop, or leave to reclaim.  A verb that
\* grants leave on a policy loaded before the last stop has lost that stop.
Asked(c) ==
    IF cmd[c].verb \in Stops
    THEN [rollout EXCEPT !.stops = @ + 1, !.stopped = TRUE,
                         !.since = IF cmd[c].edited.obs = Never THEN now ELSE cmd[c].edited.obs]
    ELSE IF cmd[c].stop = rollout.stops
         THEN [rollout EXCEPT !.stopped = FALSE]
         ELSE [rollout EXCEPT !.lost = TRUE]

\* SavePolicy.  Validate refuses before the lock; the write is atomic.
SavePolicy(c) ==
    /\ cmd[c].at = "save" /\ lock["policy"] = Free
    /\ policy' = cmd[c].edited
    /\ rollout' = Asked(c)
    /\ cmd' = [cmd EXCEPT ![c] = NoCommand]

\* The policy lock stays busy for its five seconds, or the process dies.
AbandonCommand(c) == /\ cmd[c].at = "save"
                     /\ cmd' = [cmd EXCEPT ![c] = NoCommand]

\* A verb run from a terminal.
TypedVerb(c) == /\ left.verbs > 0
                /\ \E verb \in Verbs : LoadForEdit(c, verb)
                /\ left' = [left EXCEPT !.verbs = @ - 1]
                /\ UNCHANGED <<now, policy, claims, damaged, ledger, lock, gen, idle, pass, reclaimed, rollout>>

SaveStep(c) == /\ SavePolicy(c)
               /\ UNCHANGED <<now, claims, damaged, ledger, lock, gen, idle, pass, left, reclaimed>>

AbandonStep(c) == /\ AbandonCommand(c)
                  /\ UNCHANGED <<now, policy, claims, damaged, ledger, lock, gen, idle, pass, left, reclaimed, rollout>>

----------------------------------------------------------------------------
\* Claims.  Every operation holds the claims-state lock.

Active(k) == claims[k] # NoClaim /\ now < claims[k].expires
Claimed(r) == \E k \in ClaimIds : claims[k].res = r /\ Active(k)

\* Mutant: claim operations do not take the claims-state lock.
MayClaimUnlocked == left.claims > 0
MayClaim == left.claims > 0 /\ lock["claims"] = Free

CountClaim == left' = [left EXCEPT !.claims = @ - 1]

Acquire(k, r, reap) ==
    /\ MayClaim /\ claims[k] = NoClaim /\ (reap => Kind[r] = 1)
    /\ claims' = [claims EXCEPT ![k] = [res |-> r, expires |-> now + TTL, gen |-> gen[r], reap |-> reap]]
    /\ CountClaim

Heartbeat(k) == /\ MayClaim /\ claims[k] # NoClaim /\ ~damaged
                /\ claims' = [claims EXCEPT ![k].expires = now + TTL]
                /\ CountClaim

Release(k) == /\ MayClaim /\ claims[k] # NoClaim
              /\ claims' = [claims EXCEPT ![k] = NoClaim]
              /\ CountClaim

\* List and readClaim: one file that does not validate fails the whole read.
ListFails == damaged

ClaimStep == /\ \/ \E k \in ClaimIds, r \in Resources, reap \in BOOLEAN : Acquire(k, r, reap)
                \/ \E k \in ClaimIds : Heartbeat(k) \/ Release(k)
             /\ UNCHANGED <<now, policy, damaged, ledger, lock, gen, idle, pass, cmd, reclaimed, rollout>>

----------------------------------------------------------------------------
\* An enforcement pass: MaybeRelieve of a triggered, healthy resident.

NoPass == [at |-> "idle", policy |-> DefaultPolicy, began |-> 0, checked |-> 0, stamp |-> 0,
           res |-> "none", gen |-> 0, claim |-> "none"]

Ends(p) == /\ pass' = [pass EXCEPT ![p] = NoPass]
           /\ lock' = [l \in DOMAIN lock |-> IF lock[l] = p THEN Free ELSE lock[l]]

\* The bridge and the pass read the policy; a due graduation comes first.
LoadPolicy(p) ==
    /\ pass[p].at = "idle" /\ policy.persisted
    /\ LET due == AutoGraduationDue(policy) IN
       /\ due \/ (EnforcingPolicy(policy) /\ ValidateEnforcement(policy))
       /\ pass' = [pass EXCEPT ![p] = [NoPass EXCEPT !.at = IF due THEN "graduate" ELSE "run",
                                                     !.policy = policy, !.began = now]]
    /\ left.passes > 0 /\ left' = [left EXCEPT !.passes = @ - 1]
    /\ UNCHANGED <<policy, lock, ledger, reclaimed>>

\* ReconcileAutoGraduation: reload, decide and write under the policy lock.
\* A pass that graduates a stage ends there.
Graduate(p) ==
    /\ pass[p].at = "graduate" /\ lock["policy"] = Free
    /\ \/ /\ policy.persisted /\ policy.enabled /\ AutoGraduationDue(policy)
          /\ policy' = IF Validate(Advance(policy)) /\ ValidateEnforcement(Advance(policy)) THEN Advance(policy) ELSE policy
          /\ Ends(p)
       \/ /\ ~(policy.persisted /\ policy.enabled /\ AutoGraduationDue(policy))
          /\ UNCHANGED policy
          /\ IF EnforcingPolicy(policy) /\ ValidateEnforcement(policy)
             THEN pass' = [pass EXCEPT ![p].at = "run", ![p].policy = policy] /\ UNCHANGED lock
             ELSE Ends(p)
    /\ UNCHANGED <<ledger, reclaimed>>

WithinCooldown == ledger.last # Never /\ now - ledger.last <= Cooldown

\* ReadActions fails on any row it cannot read.
ReadActionsFails == ledger.torn

\* appendAction: durable, or failed with part of a row left behind.
AppendAction(stamp) == ledger' = [ledger EXCEPT !.last = stamp]
AppendFails == Faults /\ ledger' = [ledger EXCEPT !.torn = TRUE]

\* The run lock, then the ledger: a torn row or a cooldown ends the pass.
TakeRunLock(p) ==
    /\ pass[p].at = "run" /\ lock["run"] = Free
    /\ IF ReadActionsFails \/ WithinCooldown
       THEN Ends(p)
       ELSE /\ lock' = [lock EXCEPT !["run"] = p]
            /\ pass' = [pass EXCEPT ![p].at = "plan", ![p].checked = now]
    /\ UNCHANGED <<policy, ledger, reclaimed>>

\* A process is a candidate through a stale claim that opted in and whose
\* identity its process still has; the others through their provider.
ProcessCandidate(r, k) == /\ k \in ClaimIds /\ claims[k].res = r /\ claims[k].reap
                          /\ claims[k].gen = gen[r] /\ idle[r]
BrowserCandidate(r) == idle[r]
DevCandidate(r) == idle[r]
DockerCandidate(r) == idle[r]

\* decorateClaims: an active claim on the resource protects it.
Candidate(pol, r, k) ==
    /\ Kind[r] <= pol.providers /\ ~Claimed(r)
    /\ k = "none" <=> Kind[r] # 1
    /\ CASE Kind[r] = 1 -> ProcessCandidate(r, k)
         [] Kind[r] = 2 -> BrowserCandidate(r)
         [] Kind[r] = 3 -> DevCandidate(r)
         [] Kind[r] = 4 -> DockerCandidate(r)

\* plan and firstEligible: largest first, so any eligible resource may be it.
Plan(p) ==
    /\ pass[p].at = "plan" /\ lock["claims"] = Free
    /\ \/ \E r \in Resources, k \in ClaimIds \cup {"none"} :
            /\ ~ListFails /\ Candidate(pass[p].policy, r, k)
            /\ pass' = [pass EXCEPT ![p].at = "boundary", ![p].res = r, ![p].gen = gen[r], ![p].claim = k]
            /\ UNCHANGED lock
       \/ /\ ListFails \/ ~\E r \in Resources, k \in ClaimIds \cup {"none"} : Candidate(pass[p].policy, r, k)
          /\ Ends(p)
    /\ UNCHANGED <<policy, ledger, reclaimed>>

\* Mutant: the policy is not reloaded under its lock.
LoadedIsCurrent(p) == EnforcingPolicy(pass[p].policy) /\ ValidateEnforcement(pass[p].policy)
Unchanged(p) == EnforcingPolicy(policy) /\ policy = pass[p].policy /\ ValidateEnforcement(policy)

\* The policy lock is taken and kept to the end of the pass; the policy must
\* be the one the pass planned with.
FinalBoundary(p) ==
    /\ pass[p].at = "boundary" /\ lock["policy"] = Free
    /\ IF Unchanged(p)
       THEN /\ lock' = [lock EXCEPT !["policy"] = p]
            /\ pass' = [pass EXCEPT ![p].at = "intent"]
       ELSE Ends(p)
    /\ UNCHANGED <<policy, ledger, reclaimed>>

\* Mutant: the intent is not written before the provider is called.
IntentAfterwards(p) ==
    /\ pass[p].at = "intent"
    /\ pass' = [pass EXCEPT ![p].at = "apply", ![p].stamp = now]
    /\ UNCHANGED <<policy, lock, ledger, reclaimed>>
\* The intent is durable before anything is touched.  A failed write ends the
\* pass, and may leave a torn row.
RecordIntent(p) ==
    /\ pass[p].at = "intent"
    /\ \/ /\ AppendAction(pass[p].checked)
          /\ pass' = [pass EXCEPT ![p].at = "apply", ![p].stamp = now]
          /\ UNCHANGED lock
       \/ /\ AppendFails
          /\ Ends(p)
    /\ UNCHANGED <<policy, reclaimed>>

\* applyCandidate: the claims are reloaded and the state lock is kept through
\* the provider call.
Revalidated(p) ==
    /\ ~ListFails /\ ~Claimed(pass[p].res)
    /\ pass[p].claim # "none" =>
         LET claim == claims[pass[p].claim]
         IN  claim.res = pass[p].res /\ claim.reap /\ claim.gen = pass[p].gen

TakeClaimsLock(p) ==
    /\ pass[p].at = "apply" /\ lock["claims"] = Free
    /\ IF Revalidated(p)
       THEN /\ lock' = [lock EXCEPT !["claims"] = p]
            /\ pass' = [pass EXCEPT ![p].at = "reclaim"]
       ELSE /\ pass' = [pass EXCEPT ![p].at = "result"]
            /\ UNCHANGED lock
    /\ UNCHANGED <<policy, ledger, reclaimed>>

\* What each provider asks again before it stops its resource: the start
\* identity, the browser's PID, the session's start, the workspace's name.
ReapProcess(p) == gen[pass[p].res] = pass[p].gen /\ idle[pass[p].res]
ExpireBrowser(p) == gen[pass[p].res] = pass[p].gen /\ idle[pass[p].res]
TeardownDev(p) == gen[pass[p].res] = pass[p].gen /\ idle[pass[p].res]
ApplyDocker(p) == idle[pass[p].res]

Applies(p) == CASE Kind[pass[p].res] = 1 -> ReapProcess(p)
                [] Kind[pass[p].res] = 2 -> ExpireBrowser(p)
                [] Kind[pass[p].res] = 3 -> TeardownDev(p)
                [] Kind[pass[p].res] = 4 -> ApplyDocker(p)

\* A stopped resource may survive its SIGTERM and be a candidate again.
Reclaim(p) ==
    /\ pass[p].at = "reclaim"
    /\ reclaimed' = IF Applies(p)
                    THEN [at |-> now, res |-> pass[p].res, gen |-> gen[pass[p].res], planned |-> pass[p].gen,
                          n |-> 1 - reclaimed.n]
                    ELSE reclaimed
    /\ lock' = [lock EXCEPT !["claims"] = Free]
    /\ pass' = [pass EXCEPT ![p].at = "result"]
    /\ UNCHANGED <<policy, ledger>>

\* The result row carries the time taken before the claims lock.
RecordResult(p) ==
    /\ pass[p].at = "result"
    /\ AppendAction(pass[p].stamp) \/ AppendFails
    /\ Ends(p)
    /\ UNCHANGED <<policy, reclaimed>>

\* A lock that stays busy past its timeout, the bridge's deadline, a crash.
Killed(p) == /\ pass[p].at # "idle"
             /\ Ends(p)
             /\ UNCHANGED <<policy, ledger, reclaimed>>

PassStep(p) ==
    /\ \/ LoadPolicy(p)
       \/ /\ \/ Graduate(p) \/ TakeRunLock(p) \/ Plan(p) \/ FinalBoundary(p) \/ RecordIntent(p)
             \/ TakeClaimsLock(p) \/ Reclaim(p) \/ RecordResult(p) \/ Killed(p)
          /\ UNCHANGED left
    /\ UNCHANGED <<now, claims, damaged, gen, idle, cmd, rollout>>

----------------------------------------------------------------------------
\* The host: resources restart or wake up, a claim file is damaged, time passes.

Planned(r) == \E p \in Passes : pass[p].res = r /\ pass[p].at \in {"boundary", "intent", "apply", "reclaim"}

Restart(r) == /\ Planned(r) /\ gen[r] = 0
              /\ gen' = [gen EXCEPT ![r] = 1]
              /\ UNCHANGED <<now, policy, claims, damaged, ledger, lock, idle, pass, cmd, left, reclaimed, rollout>>

Activity(r) == /\ Planned(r) /\ idle[r]
               /\ idle' = [idle EXCEPT ![r] = FALSE]
               /\ UNCHANGED <<now, policy, claims, damaged, ledger, lock, gen, pass, cmd, left, reclaimed, rollout>>

DamageClaim == /\ Faults /\ ~damaged /\ \E k \in ClaimIds : claims[k] # NoClaim
               /\ lock["claims"] = Free
               /\ damaged' = TRUE
               /\ UNCHANGED <<now, policy, claims, ledger, lock, gen, idle, pass, cmd, left, reclaimed, rollout>>

\* The bridge kills a pass long before one cooldown has passed.
Tick == /\ now < MaxTime /\ left.ticks > 0 /\ left' = [left EXCEPT !.ticks = @ - 1]
        /\ \A p \in Passes : pass[p].at # "idle" => pass[p].began = now
        /\ now' = now + 1
        /\ UNCHANGED <<policy, claims, damaged, ledger, lock, gen, idle, pass, cmd, reclaimed, rollout>>

\* First policies: none, or one an operator or an older release left behind.
EditedPolicy == [DefaultPolicy EXCEPT !.persisted = TRUE, !.enforce = TRUE, !.obs = 0]
ScheduledPolicy == [DefaultPolicy EXCEPT !.persisted = TRUE, !.autoProcess = TRUE, !.autoNative = TRUE, !.obs = 0]

Init ==
    /\ now = 0
    /\ policy \in {DefaultPolicy, ScheduledPolicy} \cup (IF Edits THEN {EditedPolicy} ELSE {})
    /\ claims = [k \in ClaimIds |-> NoClaim] /\ damaged = FALSE
    /\ ledger = [last |-> Never, torn |-> FALSE]
    /\ lock = [l \in {"run", "policy", "claims"} |-> Free]
    /\ gen = [r \in Resources |-> 0] /\ idle = [r \in Resources |-> TRUE]
    /\ pass = [p \in Passes |-> NoPass] /\ cmd = [c \in Commands |-> NoCommand]
    /\ left \in Budgets
    /\ reclaimed = [at |-> Never, res |-> "none", gen |-> 0, planned |-> 0, n |-> 0]
    /\ rollout = [stops |-> 0, stopped |-> ~policy.persisted, since |-> 0, lost |-> FALSE]

----------------------------------------------------------------------------
\* What must hold.

CleanupTypeOK ==
    /\ policy \in Policy /\ Validate(policy)
    /\ \A c \in Commands : cmd[c].at = "save" => cmd[c].edited.persisted
    /\ \A p \in Passes : /\ pass[p].at \in {"plan", "boundary", "intent", "apply", "reclaim", "result"} <=> lock["run"] = p
                         /\ pass[p].at \in {"intent", "apply", "reclaim", "result"} <=> lock["policy"] = p
                         /\ pass[p].at = "reclaim" <=> lock["claims"] = p

Reclaims == reclaimed' # reclaimed

\* A claim that is active when the provider stops its resource wins, and so
\* does an unreadable claim directory; the generation stopped is the planned
\* one, which for Docker only the name stands for (applyCandidate,
\* matchingStaleProcessClaim, List).
ClaimWins == [][Reclaims => /\ ~damaged /\ ~Claimed(reclaimed'.res)
                            /\ Kind[reclaimed'.res] # 4 => reclaimed'.gen = reclaimed'.planned]_vars

\* Two reclaims are a cooldown apart whatever process did the first one and
\* wherever it died (withinCleanupCooldown reads a durable intent).
ReclaimsSpaced == [][Reclaims /\ reclaimed.at # Never => now - reclaimed.at >= Cooldown]_vars

\* Once `observe` or `disable` has returned nothing is reclaimed until an
\* operator enables or schedules again; a verb that loaded the policy before
\* the stop and saved it afterwards is the one exception (SavePolicy locks the
\* write only).  And a resource of stage k is reclaimed only k full observation
\* windows after the operator last started or cleared the observation.
RolloutHonoured ==
    [][Reclaims => \/ ~rollout.stopped /\ now >= rollout.since + Kind[reclaimed'.res] * Window
                   \/ rollout.lost]_vars

============================================================================
