--------------------------- MODULE StorageReclaim ---------------------------
(***************************************************************************)
(* storage apply (sessionpressurecmd/session_pressure_storage*.go): an     *)
(* operator frees disk space through typed providers, each a cache with    *)
(* processes that own it.  Several commands run at once, a lock lets one   *)
(* of them reclaim; what was planned before the lock may be stale behind   *)
(* it.  A cache is moved aside, made anew and then removed, so that its    *)
(* owners always find a directory; every attempt leaves receipts, which    *)
(* are also what the cooldown is read from.                                *)
(*                                                                         *)
(* A directory is a set of files: "old" for what it held, "new" for what   *)
(* an owner wrote while the cache was being replaced.  Sizes, free space   *)
(* and the pressure of the host are inputs.                                *)
(***************************************************************************)
EXTENDS Integers, Sequences, FiniteSets

CONSTANTS
    Providers,   \* identifiers of providers
    Commands,
    Teams,       \* which commands may be issued together
    Request,     \* what a command was asked: [provider, force, wipe], or "auto-safe"
    Cooldown,    \* ReclaimCooldownSeconds
    MaxTime, MaxCrashes, MaxFaults, MaxActivity   \* bounds

AutoSafe    == {"browser-dead-profiles", "pnpm-store"}
ReportOnly  == {"go-module-cache", "cargo-registry", "library-caches", "downloads", "mobile-sync",
                "xcode-developer-data", "xcode-device-support", "ios-simulator-runtime",
                "dev-root-leftovers", "nicos-telemetry-archive", "nicos-voice-models",
                "nicos-wine-proof", "nicos-pw-archive"}
Quarantined == {"go-build-cache", "yarn-cache", "npm-cache", "swiftpm-cache", "playwright-cache",
                "gradle-caches", "xcode-derived-data"}
\* Providers whose owners are looked for; not Docker, the Trash, or brew autoremove.
Watched     == Quarantined \cup {"pnpm-store", "uv-cache", "brew-cache", "app-updater-caches",
                                 "browser-media-caches"}

Unattended(c) == Request[c].provider = "auto-safe"
Selected(c) == IF Unattended(c) THEN <<"browser-dead-profiles", "pnpm-store">> ELSE <<Request[c].provider>>

ASSUME StorageAssumption ==
    /\ Cooldown \in Nat /\ {MaxTime, MaxCrashes, MaxFaults, MaxActivity} \subseteq Nat
    /\ Teams \subseteq SUBSET Commands
    /\ \A c \in Commands : /\ Request[c].provider \in Providers \cup {"auto-safe"}
                           /\ Request[c].force \in BOOLEAN

VARIABLES
    now,
    enforce,      \* policy.Storage.EnforceAdmission
    verb,         \* a storage policy command under way
    dir,          \* the path of each provider: its files, or Absent
    active,       \* providers with a running owner
    quarantines,  \* directories moved aside: [by, of, files]
    receipts,     \* storage-actions-*.jsonl
    holder,       \* who holds the reclaim lock
    at,           \* where a command is
    plan,         \* what a command has inspected
    todo,         \* the providers it has left
    failed,       \* the error of the provider under way
    budget,       \* used up bounds
    ghost         \* history for the properties

vars == <<now, enforce, verb, dir, active, quarantines, receipts, holder, at, plan, todo, failed, budget, ghost>>
host  == <<now, enforce, verb, active>>
files == <<dir, quarantines>>
mine  == <<at, plan, todo, failed>>

Absent == {"absent"}
NoOne  == "nobody"
ASSUME NoOneAssumption == NoOne \notin Commands
NoPlan == [p \in {} |-> 0]

Init ==
    /\ now = 0 /\ enforce \in BOOLEAN /\ verb = "none"
    /\ dir = [p \in Providers |-> {"old"}] /\ active = {} /\ quarantines = {} /\ receipts = <<>>
    /\ holder = NoOne
    /\ \E team \in Teams : at = [c \in Commands |-> IF c \in team THEN "start" ELSE "ended"]
    /\ plan = [c \in Commands |-> NoPlan]
    /\ todo = [c \in Commands |-> <<>>] /\ failed = [c \in Commands |-> FALSE]
    /\ budget = [crashes |-> 0, faults |-> 0, activity |-> 0]
    /\ ghost = [after |-> [p \in Providers |-> {}], hurt |-> FALSE, restored |-> {}, taken |-> {}]

Go(c, pc)  == at' = [at EXCEPT ![c] = pc]
Fault == budget.faults < MaxFaults /\ budget' = [budget EXCEPT !.faults = @ + 1]
Current(c) == Head(todo[c])

\* The command ends; the lease and the lock are given back.
Leave(c, how) ==
    /\ Go(c, how) /\ plan' = [plan EXCEPT ![c] = NoPlan]
    /\ todo' = [todo EXCEPT ![c] = <<>>] /\ failed' = [failed EXCEPT ![c] = FALSE]
    /\ holder' = IF holder = c THEN NoOne ELSE holder
End(c) == Leave(c, "ended")

(***************************************************************************)
(* The owners of the caches, and the clock.                                *)
(***************************************************************************)
Replacing(p) == \E q \in quarantines : q.of = p /\ q.by \in Commands /\ at[q.by] \notin {"ended", "dead"}
Running(p)   == {c \in Commands : todo[c] # <<>> /\ Current(c) = p /\
                                  at[c] \in {"run", "recreate", "remove", "rollback", "unlink", "putback", "result"}}

OwnerStarts(p) ==
    /\ p \in Watched \ active /\ budget.activity < MaxActivity
    /\ active' = active \cup {p}
    /\ budget' = [budget EXCEPT !.activity = @ + 1]
    /\ ghost' = [ghost EXCEPT !.after[p] = Running(p)]
    /\ UNCHANGED <<now, enforce, verb, files, receipts, holder, mine>>
OwnerEnds(p) ==
    /\ p \in active /\ active' = active \ {p}
    /\ UNCHANGED <<now, enforce, verb, files, receipts, holder, mine, budget, ghost>>
OwnerWrites(p) ==
    /\ p \in active
    /\ dir' = [dir EXCEPT ![p] = (@ \ Absent) \cup {IF Replacing(p) THEN "new" ELSE "old"}]
    /\ dir' # dir
    /\ UNCHANGED <<host, quarantines, receipts, holder, mine, budget, ghost>>
Tick ==
    /\ now < MaxTime /\ now' = now + 1
    /\ UNCHANGED <<enforce, verb, files, active, receipts, holder, mine, budget, ghost>>

(***************************************************************************)
(* storage policy enable | observe: the policy is saved, then the monitor  *)
(* is made to run; if it cannot be, enforcement is turned off again.       *)
(* Only an auto-safe command that has not begun reads the policy.          *)
(***************************************************************************)
PolicySave ==
    /\ verb = "none" /\ \E c \in Commands : Unattended(c) /\ at[c] = "start"
    /\ \E on \in BOOLEAN : enforce' = on /\ on # enforce
    /\ verb' = "saved"
    /\ UNCHANGED <<now, active, files, receipts, holder, mine, budget, ghost>>
PolicyEnsureMonitor ==
    /\ verb = "saved" /\ verb' = "done"
    /\ \/ UNCHANGED <<enforce, budget>>
       \/ Fault /\ enforce' = FALSE
    /\ UNCHANGED <<now, active, files, receipts, holder, mine, ghost>>

(***************************************************************************)
(* Inspection.  A provider that cannot be inspected or is owned by a       *)
(* running process cannot be changed; the pnpm store only says that it is  *)
(* owned.                                                                  *)
(***************************************************************************)
Owned(p)   == p \in Watched \cap active
Present(p) == p \in AutoSafe \ {"pnpm-store"} \/ dir[p] # Absent

Inspected(p, unreadable) ==
    LET blocked == p \in Watched /\ (Owned(p) \/ unreadable)
    IN  [owned   |-> Owned(p),
         blocked |-> blocked,
         mutable |-> /\ p \notin ReportOnly /\ Present(p)
                     /\ ~blocked \/ (p = "pnpm-store" /\ ~unreadable)]

Plan(c) ==
    /\ at[c] = "start"
    /\ \/ plan' = [plan EXCEPT ![c] = [p \in Providers |-> Inspected(p, FALSE)]] /\ UNCHANGED budget
       \/ plan' = [plan EXCEPT ![c] = [p \in Providers |-> Inspected(p, TRUE)]] /\ Fault
    /\ IF Unattended(c) THEN enforce ELSE plan'[c][Request[c].provider].mutable
    /\ Go(c, "lock")
    /\ UNCHANGED <<host, files, receipts, holder, todo, failed, ghost>>
PlanRefused(c) ==
    /\ at[c] = "start"
    /\ IF Unattended(c) THEN ~enforce ELSE ~Inspected(Request[c].provider, FALSE).mutable
    /\ End(c)
    /\ UNCHANGED <<host, files, receipts, budget, ghost>>

\* AcquireStorageReclaimLock and then reclaim capacity; either may not come in time.
Lock(c) ==
    /\ at[c] = "lock" /\ holder = NoOne
    /\ holder' = c /\ todo' = [todo EXCEPT ![c] = Selected(c)]
    /\ Go(c, "next")
    /\ UNCHANGED <<host, files, receipts, plan, failed, budget, ghost>>
LockTimeout(c) ==
    /\ at[c] = "lock" /\ holder # NoOne /\ End(c)
    /\ UNCHANGED <<host, files, receipts, budget, ghost>>

(***************************************************************************)
(* The loop over the selected providers.                                   *)
(***************************************************************************)
AutoSafeSkip(r) == r.owned \/ r.blocked \/ ~r.mutable

Row(c, p, mode, outcome) ==
    [by |-> c, of |-> p, mode |-> mode, outcome |-> outcome, time |-> now, force |-> Request[c].force]
Rows == {receipts[i] : i \in DOMAIN receipts}
\* Mutant: the receipt at the very edge of the cooldown is left out.
InsideCooldownShort(p) ==
    \E r \in Rows : r.of = p /\ r.mode = "result" /\ r.outcome = "completed" /\ r.time > now - Cooldown
InsideCooldown(p) ==
    \E r \in Rows : r.of = p /\ r.mode = "result" /\ r.outcome = "completed" /\ r.time >= now - Cooldown
Cooling(c, p) == InsideCooldown(p) /\ ~(Request[c].force /\ ~Unattended(c))

\* Nothing is left, or there is enough space.
Finish(c) ==
    /\ at[c] = "next" /\ End(c)
    /\ UNCHANGED <<host, files, receipts, budget, ghost>>
Skip(c) ==
    /\ at[c] = "next" /\ todo[c] # <<>> /\ Unattended(c)
    /\ AutoSafeSkip(plan[c][Current(c)]) \/ Cooling(c, Current(c))
    /\ todo' = [todo EXCEPT ![c] = Tail(@)]
    /\ UNCHANGED <<host, files, receipts, holder, at, plan, failed, budget, ghost>>
\* A named provider inside its cooldown, one whose hotness cannot be measured, a full wipe
\* that was not asked for, or a history that cannot be read.
Refuse(c) ==
    /\ at[c] = "next" /\ todo[c] # <<>>
    /\ \/ ~Unattended(c) /\ Cooling(c, Current(c)) /\ UNCHANGED budget
       \/ Current(c) = "go-build-cache" /\ ~Request[c].wipe /\ UNCHANGED budget
       \/ Fault
    /\ End(c)
    /\ UNCHANGED <<host, files, receipts, ghost>>
Intent(c) ==
    /\ at[c] = "next" /\ todo[c] # <<>>
    /\ IF Unattended(c) THEN ~AutoSafeSkip(plan[c][Current(c)]) ELSE plan[c][Current(c)].mutable
    /\ ~Cooling(c, Current(c))
    /\ Current(c) = "go-build-cache" => Request[c].wipe
    /\ \/ /\ receipts' = Append(receipts, Row(c, Current(c), "intent", "intent_persisted"))
          /\ Go(c, "check") /\ UNCHANGED <<budget, holder, plan, todo, failed>>
       \/ Fault /\ End(c) /\ UNCHANGED receipts
    /\ UNCHANGED <<host, files, ghost>>

(***************************************************************************)
(* executeStorageProvider.                                                 *)
(***************************************************************************)
Failing(c) == failed' = [failed EXCEPT ![c] = TRUE]

\* Mutant: the owner seen, or not, by the plan is believed.
OwnerOfPlan(c, p) == plan[c][p].owned
OwnerActive(c, p) == p \in Watched /\ p \in active

\* The owner is looked for again; the pnpm store also asks for admission.
Check(c) ==
    /\ at[c] = "check"
    /\ \/ ~OwnerActive(c, Current(c)) /\ Go(c, "run") /\ UNCHANGED <<failed, budget>>
       \/ OwnerActive(c, Current(c)) /\ Failing(c) /\ Go(c, "result") /\ UNCHANGED budget
       \/ Current(c) \in Watched /\ Fault /\ Failing(c) /\ Go(c, "result")
    /\ UNCHANGED <<host, files, receipts, holder, plan, todo, ghost>>

Touched(c, p) ==
    [ghost EXCEPT !.hurt = @ \/ (p \in Watched \cap active /\ c \notin ghost.after[p]),
                  !.taken = @ \cup {<<c, p>>}]

\* What is left of a directory that is emptied entry by entry, or of a store whose tool prunes it.
Emptied(p) == IF dir[p] = Absent THEN Absent ELSE dir[p] \ {"old"}

\* The tools that prune a store themselves, and the directories that are emptied entry by entry;
\* one that fails may have done its work, or none of it.
RunTool(c) ==
    /\ at[c] = "run" /\ Current(c) \notin Quarantined
    /\ dir' \in {[dir EXCEPT ![Current(c)] = Emptied(Current(c))], dir}
    /\ \/ UNCHANGED <<failed, budget>>
       \/ Fault /\ Failing(c)
    /\ ghost' = Touched(c, Current(c))
    /\ Go(c, "result")
    /\ UNCHANGED <<host, quarantines, receipts, holder, plan, todo>>

\* storageQuarantineRemoveDirectory, to the rename.
Quarantine(c) ==
    LET p == Current(c)
    IN  /\ at[c] = "run" /\ p \in Quarantined
        /\ \/ /\ dir[p] = Absent /\ Go(c, "result") /\ UNCHANGED <<files, failed, budget, ghost>>
           \/ /\ dir[p] # Absent
              /\ dir' = [dir EXCEPT ![p] = Absent]
              /\ quarantines' = quarantines \cup {[by |-> c, of |-> p, files |-> dir[p]]}
              /\ ghost' = Touched(c, p)
              /\ Go(c, "recreate") /\ UNCHANGED <<failed, budget>>
           \/ /\ Fault /\ Failing(c) /\ Go(c, "result") /\ UNCHANGED <<files, ghost>>
        /\ UNCHANGED <<host, receipts, holder, plan, todo>>

Aside(c) == CHOOSE q \in quarantines : q.by = c /\ q.of = Current(c)
\* os.Rename refuses a directory that exists, an empty one too.
PutBack(c) ==
    IF dir[Current(c)] = Absent
    THEN /\ dir' = [dir EXCEPT ![Current(c)] = Aside(c).files]
         /\ quarantines' = quarantines \ {Aside(c)}
         /\ ghost' = [ghost EXCEPT !.restored = @ \cup {<<c, Current(c)>>}]
    ELSE UNCHANGED <<files, ghost>>

Recreate(c) ==
    /\ at[c] = "recreate"
    /\ \/ /\ dir' = [dir EXCEPT ![Current(c)] = @ \ Absent]
          /\ Go(c, "remove") /\ UNCHANGED <<quarantines, failed, budget, ghost>>
       \/ Fault /\ PutBack(c) /\ Failing(c) /\ Go(c, "result")
    /\ UNCHANGED <<host, receipts, holder, plan, todo>>

\* Mutant: a cache that was put back counts as a success.
RemoveKeepsGoing(c) ==
    /\ at[c] = "remove"
    /\ \/ quarantines' = quarantines \ {Aside(c)} /\ Go(c, "result") /\ UNCHANGED budget
       \/ Fault /\ Go(c, "rollback") /\ UNCHANGED quarantines
    /\ UNCHANGED <<host, dir, receipts, holder, plan, todo, failed, ghost>>
\* The quarantine is removed, which fails all the same if the context has ended meanwhile; or
\* part of it is and the rest is to be put back.
Remove(c) ==
    /\ at[c] = "remove"
    /\ \/ /\ quarantines' = quarantines \ {Aside(c)} /\ Go(c, "result")
          /\ \/ UNCHANGED <<failed, budget>>
             \/ Fault /\ Failing(c)
       \/ /\ Fault /\ Failing(c) /\ Go(c, "rollback")
          /\ \E left \in SUBSET Aside(c).files :
                quarantines' = (quarantines \ {Aside(c)}) \cup {[Aside(c) EXCEPT !.files = left]}
    /\ UNCHANGED <<host, dir, receipts, holder, plan, todo, ghost>>

\* restoreQuarantinedCache: the replacement must be empty, is removed, and the rest put back.
Rollback(c) ==
    /\ at[c] = "rollback"
    /\ Go(c, IF dir[Current(c)] = {} THEN "unlink" ELSE "result")
    /\ UNCHANGED <<host, files, receipts, holder, plan, todo, failed, budget, ghost>>
\* Mutant: the replacement is removed with what is in it.
UnlinkAll(c) ==
    /\ at[c] = "unlink"
    /\ dir' = [dir EXCEPT ![Current(c)] = Absent] /\ Go(c, "putback")
    /\ UNCHANGED <<host, quarantines, receipts, holder, plan, todo, failed, budget, ghost>>
Unlink(c) ==
    /\ at[c] = "unlink"
    /\ IF dir[Current(c)] = {} THEN dir' = [dir EXCEPT ![Current(c)] = Absent] /\ Go(c, "putback")
       ELSE UNCHANGED dir /\ Go(c, "result")
    /\ UNCHANGED <<host, quarantines, receipts, holder, plan, todo, failed, budget, ghost>>
RollbackRename(c) ==
    /\ at[c] = "putback" /\ PutBack(c) /\ Go(c, "result")
    /\ UNCHANGED <<host, receipts, holder, plan, todo, failed, budget>>

\* The result; the command goes on only after a success that is on record.
Result(c) ==
    LET p == Current(c)
    IN  /\ at[c] = "result"
        /\ \/ /\ receipts' = Append(receipts, Row(c, p, "result", IF failed[c] THEN "failed" ELSE "completed"))
              /\ \/ failed[c] /\ End(c)
                 \/ ~failed[c] /\ Go(c, "next") /\ todo' = [todo EXCEPT ![c] = Tail(@)]
                    /\ UNCHANGED <<holder, plan, failed>>
              /\ UNCHANGED budget
           \/ Fault /\ End(c) /\ UNCHANGED receipts
        /\ UNCHANGED <<host, files, ghost>>

\* The command is killed; its lock is found stale.
Crash(c) ==
    /\ at[c] \notin {"start", "ended", "dead"} /\ budget.crashes < MaxCrashes
    /\ budget' = [budget EXCEPT !.crashes = @ + 1]
    /\ Leave(c, "dead")
    /\ UNCHANGED <<host, files, receipts, ghost>>

Step(c) ==
    \/ Plan(c) \/ PlanRefused(c) \/ Lock(c) \/ LockTimeout(c)
    \/ Finish(c) \/ Skip(c) \/ Refuse(c) \/ Intent(c)
    \/ Check(c) \/ RunTool(c) \/ Quarantine(c) \/ Recreate(c) \/ Remove(c)
    \/ Rollback(c) \/ Unlink(c) \/ RollbackRename(c) \/ Result(c)

Next ==
    \/ \E c \in Commands : Step(c) \/ Crash(c)
    \/ \E p \in Providers : OwnerStarts(p) \/ OwnerEnds(p) \/ OwnerWrites(p)
    \/ Tick \/ PolicySave \/ PolicyEnsureMonitor

Spec == Init /\ [][Next]_vars
------------------------------------------------------------------------------
\* What an owner wrote while its cache was being replaced is never removed: it only leaves
\* the directory when a later reclaim moves the whole directory aside
\* (storageQuarantineRemoveDirectory, restoreQuarantinedCache).
NewWritesKept ==
    [][\A p \in Providers \cap Quarantined :
          "new" \in dir[p] /\ "new" \notin dir'[p] => \E q \in quarantines' \ quarantines : q.of = p]_vars

\* A cache is not reclaimed under an owner that was already running when the provider's
\* execution began: only one that starts between the look for owners and the rename is missed.
OwnersSpared == ~ghost.hurt

\* Between a reclaim on record as completed and the next one of the same provider that was
\* not forced there is a cooldown, however the commands are interleaved.
ReclaimsApart ==
    \A i, j \in DOMAIN receipts :
        LET r == receipts[i]  n == receipts[j]
        IN  i < j /\ n.of = r.of /\ r.outcome = "completed" /\ n.mode = "intent" /\ ~n.force
            => n.time > r.time + Cooldown

\* Receipts tell what happened, also after a crash: nothing is moved aside or pruned without
\* an intent, and a reclaim recorded as completed left nothing aside and put nothing back.
ReceiptsTrue ==
    /\ \A a \in ghost.taken : \E r \in Rows : r.mode = "intent" /\ <<r.by, r.of>> = a
    /\ \A r \in Rows : r.outcome = "completed" =>
          /\ <<r.by, r.of>> \notin ghost.restored
          /\ \A q \in quarantines : <<q.by, q.of>> # <<r.by, r.of>>
=============================================================================
