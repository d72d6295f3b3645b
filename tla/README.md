# A verification project for session-pressure

session-pressure coordinates the heavy work of many coding agents on one
host. Every `session-pressure work run` is a process of its own (a *wrapper*);
there is no server between them. They meet in one ledger file, under one lock
file, and what the tool promises (a weighted capacity, fairness, leases that
survive crashes, a latch against CPU pressure, results that may be reused) has
to come out of what the wrappers do to those files. Beside them run a resident
that samples the host and may shed an idle agent tree, a cleanup that stops
stale resources, a control server in front of its policy, and operators who
cancel, promote, reclaim disk space and edit policies. All of them can die
between any two file operations. This directory models them in TLA+, checks
them with TLC on small hosts, and proves the main safety properties of the
core with TLAPS for every host.

## The system

| Component | State | Operations | Interacts with |
| --- | --- | --- | --- |
| Work lease ledger (`worklease.go`, `workoverride.go`) | leases, waiters, promotion sequence, in one JSON file | register, try-acquire, acquire, cancel, reserve, bind, park, release, drop, override, status; each reconciles first | file lock (every call), wrappers, operator |
| Wrapper (`workrun.go`) | its handle, its child, its gate | sample, wait, queue, recheck, fork gated, bind, open gate, wait, finalize | ledger, event log, host |
| Admission gate (`workrun.go`, `workadmissionhold.go`) | shared latch and holds in the ledger; a private copy in each wrapper | observe, hold, release | sampler, ledger |
| Admission evaluation (`types.go`, `controller.go`, `admission.go`) | none | evaluate a sample, classify, decide | gate, agent launches, displays |
| Operator cancel, idle parking (`workinspect.go`, `workidle.go`) | a detector per wrapper | inspect, signal, drop; park, wake | ledger, process table |
| File lock (`internal/filelock`) | a chain of channels per process, a sidecar file | enqueue, create, probe, reclaim, unlock | every ledger call |
| Event log (`workevent.go`) | append-only day files | append, validate, summarize, stream, prune | wrapper, reconcile, status, cancel |
| Batches, express reuse (`workbatch.go`, `work_express*.go`) | key, receipts, locks | fingerprint, single flight, run, publish, look up, prune | wrapper, sources, outputs |
| Policy limits, classification (`policy.go`, `work_express.go`) | the policy file | load, migrate, normalize, validate; classify a command | ledger, wrapper |
| Resident (`monitor.go`, `lifecycle.go`, `swap_io.go`, `workswapderate.go`) | lifecycle files, action rows, swap latch, `latest.json` | start, sample, judge, signal, record, clean, publish, stop | trees, policy, readers |
| Host cleanup (`internal/hostcleanup`) | policy, claims, ledger of intents | policy verbs, claim, plan, boundary, apply | resident, control server |
| Control server (`sessionpressurecontrol`) | previews, audit | preview, approve | host cleanup |
| Disk-write watch (`disk_write*.go`) | hours, checkpoint, alert state | sample, judge, flush, alert, restore | resident, readers of the history |
| Storage reclaim (`session_pressure_storage*.go`) | receipts, quarantines, policy | plan, apply, roll back | owners of the caches |

What is hard in it: processes are killed at any point and their PIDs reused; a
call on the ledger may wait for the lock, or fail, while what it was told
before (the green window, a sample, a plan, its own clock) grows stale; an
operator acts on a process tree that is still changing; callers time out in a
queue; rows are lost or torn; several parties end one operation; sources change
under a fingerprint; and every capacity rule (derating, overcommit, drain
rides, parking, promotion, immediate acquisition) has been added beside the
others. The list, with the lines, is under `hazards` in `PROJECT.json`.

## Modules

| Module | What it is |
| --- | --- |
| `WorkLease`, `MCWorkLease`, `WorkLeaseProofs` | The ledger, the calls of wrappers and operator on it, the processes behind the records; small hosts; theorems about its states and its steps |
| `WeightedPool` | What the ledger promises: the abstract specification `WorkLease` implements |
| `WorkLimits` | How the weights and the capacity come out of a policy file (pure) |
| `WorkClassify` | How a command is split, tokenized and given its class (pure) |
| `WorkEvents`, `MCWorkEvents`, `LockAndLogProofs` | The event log, its three writers and its readers; theorems |
| `WorkReuse`, `MCWorkReuse`, `ReuseProofs` | Single flight, receipts and their invalidation, for express commands and batches; theorems |
| `FileLock`, `MCFileLock`, `LockAndLogProofs` | The lock, file system call by file system call; theorem (in one module with those about the event log, hence `LockSpec`) |
| `AdmissionGate`, `MCAdmissionGate`, `GateProofs` | The CPU latch, the holds and the wait loop of the wrappers; two wrappers; theorems |
| `HostAdmission` | The decision on one sample (pure), from which the gate's views come |
| `Resident`, `MCResident`, `ResidentProofs` | The resident from start to death and start again; theorems |
| `HostCleanup`, `CleanupProofs` | Policy verbs, claims and enforcement passes; theorems |
| `ControlServer`, `MCControlServer`, `CleanupProofs` | Previews and approvals, composed with `HostCleanup`; theorems |
| `DiskWrite`, `MCDiskWrite`, `DiskWriteProofs` | The disk-write watch and its history; theorems |
| `StorageReclaim`, `MCStorageReclaim`, `StorageProofs` | `storage apply` and the owners of the caches; theorems |

### WorkLease and WeightedPool

A coordinator call is one action: it holds the lock from reading the ledger to
writing it (`withState`). Each action therefore starts from the reconciled
ledger (`KeptWaiter`, `KeptLease`, `AdvanceWorkOverride`), even when the call
then fails, because the error path writes the ledger too. What a wrapper does
between two calls is a step of its own: it reads its clock before it takes the
lock (`Arrive`), forks a gated child (`StartGated`), binds (`BindPID`) and only
then writes the gate token (`OpenGate`). What is read before the lock (the green
window, the ceiling) is chosen nondeterministically in the action that uses it.

* An element of `Ops` is a slot: when nothing is left of an operation another
  one arrives in its slot, so finite instances have endless streams of work.
* Queue times are ranks. `Positions` renumbers them when a new operation
  arrives, so they stay small; only their order is ever read.
* Processes are what a probe of the PID finds: `self`, `gone`, or `other`, an
  unrelated process that was given the PID. Identities enter through `Owns`.
* `Lookahead` holds the operations whose wrapper loaded the bounded-lookahead
  policy; the others select FIFO. A wrapper reads the policy file when it
  starts, so both may be in the queue.
* The load of a set of operations is the number of its weight units
  (`Units`), which makes sums a matter of cardinalities and provable.
* `woken` and `rode` are history: which leases were ever parked, and past
  which protected head a lease was admitted.

`WeightedPool` knows neither queue nor processes: members enter one at a time,
weighed against everything still charged, and leave at will. `Implements`
instantiates it with the lease of each operation (`Share`); every ledger call,
with the reconcile in front of it, has to be one of its steps.

Abstracted: the time since the first bypass of a waiter is `never`, `recent` or
`aged`; classes are their weight and whether they are express.

### WorkEvents

Wrapper, reconcile and operator append to one log without a common lock around
what they do; a row may be lost (the caller goes on) or torn (every reader of
that day refuses the file). `Lifecycle` is the validator row by row, `Summary`
the statistics, `Streamed` the count the resident keeps without holding the
corpus. A row is read with its stamp: the batch reader sorts all rows by stamp and
judges them, the stream reads the day files in their order and a window of each.
A row may lie behind one with a later stamp (it is stamped before its writer waits
for the file): `Shards` has the two pairs of rows for which that matters to a
reader, `Older` every cut that a window and its shard filter can make;
`StreamAgrees` quantifies over both. A torn row, on which both readers
fail, and a row repeated in two day files are outside it. The ledger is reduced to
the place of each operation. Days pass (`Midnight`) and are pruned. `stuck`, `aged` and `drop` record the causes that
`SkippedExplained` allows.

### WorkReuse, WorkClassify, WorkLimits

A request computes its key, takes the single-flight lock (or runs out of
attempts), fingerprints, looks up, runs and publishes; each of these is a step,
between which sources are edited, outputs deleted, receipts pruned and requests
killed. A receipt remembers (as history) what its run really read. The batch
and the express protocol share the actions where their code has the same shape.
`WorkClassify` translates the scanners as folds over characters and arguments. The
two scanners are held against each other, and the scope of a `go build` or `go test` against a
separate definition of how go itself reads its arguments (`GoOperands`,
`GoRefuses`, external), not against the classifier's rules; for cargo, node, swift
and make there is no such reading, only what a script makes of its commands.
`WorkLimits` loads what this release derives and what the one before it did
(`EarlierWorkLimits`), with fields missing that did not exist yet. Both are pure and evaluated once, for
all inputs up to their bounds.

### FileLock

Each call on the file system is a step, so that what `isStale` saw can be wrong
when `removeLock` acts. The chain of channels is kept as `tail` (the map entry)
and `prev` (what each open channel waits for); the goroutine that inherits the
slot of a caller that gave up is the set `abandoned` and the action `HandOff`. A
crash takes a process's threads and channels but leaves the sidecar, as an
`orphan`; the kernel may give its PID away (`reused`), and a writer of the
previous release may leave a malformed sidecar that ages (`young`, `old`).

### AdmissionGate, HostAdmission

Time is counted in ticks. A wrapper samples the host, reads its clock, and
then waits up to `MaxLag` ticks for the lock, so observations arrive late and
out of order (`lag`). `Failing` names, for each call, the wrappers for which
it may time out; such a wrapper goes on with its private copy of the latch, or
with a hold that was not written or not withdrawn. A wrapper is at the gate
before the queue, and again after it got its lease (`recheck`, `reobserve`),
where a denied sample turns the lease into a reservation and is itself taken to
the gate a second time (`reserve`, `regate`). `span` is history: the time the
counted samples cover. `HostAdmission` says which samples are refused, why, and
that no worse sample is admitted where a better one is not.

### Resident

One loop iteration is cut at its durable effects: the sample, the two
revalidations before a signal, the signal, its row, the cleanup and its note,
`latest.json`. It may die between any two and another resident starts from the
files. A scene chosen initially decides what varies: trees and policy
(`relief`), swap and its latch (`storm`), the resource cleanup (`cleanup`).

### HostCleanup, ControlServer

Three locks (`run`, `policy`, `claims`) and the files behind them. A policy verb
loads without the lock and locks only its save; a pass plans, passes the
boundary, writes a durable intent, applies under the claim lock and records the
result; claims come, are renewed and expire beside it. `ControlServer` EXTENDS
it: an approval holds the mutex from the hash check to the verdict while its
child runs one of the verbs. `applied` and `approving` carry the history the
properties need.

### DiskWrite, StorageReclaim

`DiskWrite` counts time in sample intervals; a sample ends in up to four
durable effects, each a step. How a window compares with the baseline is an
input (a band); bytes, hours, checkpoint, restore, incidents and alerts are
modelled. Beside the observer's own verdict runs the incident as it is
(`ghost.incident`): open until it has been quiet for `RecoveryTime`, through
restarts and through contexts that only learn, with the ways in which the observer
has lost sight of it (`lost`). `StorageReclaim` models `storage apply`: what is planned before the
lock is stale behind it; a cache is moved aside, made anew, removed or put
back, while its owners start, write (`new`) and end.

## Runs

Twelve, each a few minutes at most with two workers.

| Run | Properties | What it shows |
| --- | --- | --- |
| `ledger` | `TypeOK`, `LedgerValid`, `CommandCovered`, `CapacityCeiling`, `DrainResidue`, `PinOrderKept`, `Implements` | Kills at every step, PID reuse, pressure, parking, derated callers, a run without `--wait`, promotion, wrappers of both policies, express work that queues, overcommits from the queue and rides past a protected head: reconcile never meets a ledger it refuses, no command runs without a lease, all ways into the ledger respect one ceiling, riders leave a protected head its room, the promotion sequence keeps its order, and every call is a step of the pool |
| `queue_live` | `Served` | No starvation, with wrappers of both policies in one queue, an express operation among them and an operator who cancels it |
| `lock` | `OneTurn`, `TurnComes` | No slot of the chain is lost or granted twice, and every queued caller gets its turn |
| `gate_safety` | `LatchCoherent`, `DeferredVisible` | Holds and copies of the latch stay consistent when calls fail |
| `gate_release` | `SustainedEvidence`, `LatchReleases`, `DecisionsSound` | Observers cannot shorten the sustain requirement, the latch opens when the CPU recovers, whatever else the host is short of; single decisions are monotone and have a cause |
| `event_log` | `SkippedExplained`, `ReceiptCounts`, `StreamAgrees`, `DeadOwnerSettled` | Only four causes make an operation unreadable; the exit the wrapper saw is what counts; the streamed count is the reported one, in file order or stamp order and from any cut but three named cases; dead owners' operations get an outcome |
| `reuse` | `OneLeader`, `ReuseExact`, `HitOutput`, `ClassesSound`, `WeightsSound` | One run at a time; a reused result stands for a run on these very sources with its output in place; a `go build` or `go test` is express only where go runs one package, but for one form; no script is classed lighter than its commands, but for benchmarks on small hosts; old policy files load as valid limits exactly when they are not stranded |
| `resident` | `SignalJustified`, `CooldownHonoured`, `RecordsTold` | A signal is justified at the moment it is sent; cooldowns survive restarts; the files tell of deaths, recoveries and swap episodes as they happened |
| `control` | `ApprovedOnSeen`, `AppliedOnce`, `ClaimWins`, `ReclaimsSpaced`, `RolloutHonoured` | Approval acts on the state that was seen, once; an active claim wins; reclaims are a cooldown apart and wait for stage and stop |
| `disk` | `NoByteTwice`, `NoByteLost`, `AlertsBounded`, `QuietBaseline` | Bytes are neither lost nor counted twice across crashes; alerts are bounded; the baseline is trained neither on bursts nor on incidents the observer still knows of (it loses sight of one in three named ways) |
| `storage` | `OwnersSpared`, `ReclaimsApart`, `ReceiptsTrue`, `NewWritesKept` | Running owners are spared, cooldowns hold between commands unless forced, receipts tell what happened, and what an owner wrote during a reclaim survives |
| `lock_exclusion` | `MutualExclusion`, violated | A contender finds the sidecar missing, a new owner creates one, the contender removes it and enters as well; the quotation is under `findings` |

The type invariants of the modules other than `WorkLease` are conjuncts of
`OneTurn`, `LatchCoherent`, `SkippedExplained`, `OneLeader`, `SignalJustified`
and `ApprovedOnSeen`.

The other modules treat a call under the lock as atomic although
`lock_exclusion` shows that the lock can fail. Their results are results about
the protocols under a lock that works.

### Bounds

* Ledger: three slots on a host of four units with the weights that host derives: a
  build of 3, an express build of 2 and an express test of 1. All three may queue;
  the heavy one does not fit beside the express build, both express ones fit past it,
  and one can ride. Two bypasses reach protection; a full and a halved ceiling and an
  overcommit of one unit occur. Crashes, parking, promotion and the policy are given
  per operation (`Crashable`, ..., `Lookahead`), and between the three all occur.
  Cancelling multiplies the states by almost four and is left to `queue_live`. Two
  riders at a time, or two full operations for the second clause of `CapacityCeiling`,
  need a fourth slot: for these there are only the theorems.
* Lock: three callers in a process and, in `lock_exclusion`, one in each of two.
  Three are the fewest for a caller between two others to give up.
* Gate: two wrappers, two samples to close and two to open, `Interval` and
  `StaleAfter` of one tick (`gate_safety`) or two (`gate_release`), `MaxLag` one.
* Events: two operations with different faults; one gets two leases, so that a
  reservation is reacquired.
* Reuse: three requests, one of them mortal and meeting I/O faults, one edit and
  one deletion or expiry. `Restorable = FALSE`: an edit that restores an earlier
  content cannot be told from none. Classification: statements are a lead (nothing, a word,
  a command before `&&` or `;`), `go` and up to four characters of thirteen; argument lists
  have up to three of nine arguments, scripts up to three of fourteen commands; limits: hosts
  of up to 16 CPUs, with the weights of which also the ranks are compared.
* Resident: two trees, a sustain of two samples, two ends (one in a storm), five
  or six ticks: enough to be signalled, die, start again and signal once more.
  `MinAge` is two ticks, so that a session can grow old within one run.
* Control: `MCBudgets` lists the mixes worth a search: passes against claims, a
  rollout by graduation, a rollout by two typed verbs, approvals against a typed
  verb, approvals against a graduation; symmetry over requests, previews, passes
  and claims, which nothing tells apart. The theorems hold for every budget.
* Disk: in scene `bytes` hours of two samples, two stops, a fault and a reset; in
  scene `alerts` days of three samples, a stop and a fault; scene `incidents` has seven
  samples and neither stop nor fault, enough for an incident, its recovery and another.
* Storage: a wipe, a wipe with `--force`, a command without the flag and an auto-safe
  pass, in teams of two (the last alone); a crash, a fault, an activity of an owner.

`lock`, `control`, `disk` and `storage` do not check for deadlock: nobody has to
call again, and the bounds end their behaviours.

### Fairness

* `WorkLease`: a waiting wrapper polls every two seconds, a wrapper with a
  lease goes on to start its command, commands end (`WF` of those actions).
  Nobody is obliged to arrive, to give up, to park or to crash. A green window
  and a ceiling are never promised; `queue_live` uses the full ceiling.
* `FileLock`: goroutines are scheduled and critical sections end. A caller that
  polls again and again meets its deadline (`SF` of `Timeout`).
* `AdmissionGate`: the wait loop goes on, and time passes (`SF` of `Tick`, whose
  guard only says that nobody waits for the lock for ever).
* `WorkEvents`: wrappers go on, the resident calls `status` (`SF`: it may fail on
  a torn day file and is called again), days pass and are pruned, an operator's
  cancel is carried through (`WF`). That the reconciling call comes is what other
  wrappers and operators do: the resident's own `StatusSnapshot`
  (`worklease.go:1459`) reads the ledger without reconciling, so on a host where
  nobody calls again a dead owner's operation stays open.
* The other modules state no fairness and check safety only.

## Proofs

What TLC checks on small instances is proved here for every value of the
constants that the `ASSUME`s admit: any finite set of operations and any limits
`policy.go` validates (`LimitsAssumption`), any number of wrappers and any
sample counts, interval, staleness and lag (`GateAssumption`), any processes and
threads at the lock, any resources, claims, passes, commands and approvals
(`CleanupAssumption`, whose observation window is not empty, `ControlAssumption`),
any providers, requests and cooldown of `storage apply` (`StorageAssumption`),
any requests, commands and edits for the reuse of results (`ReuseAssumption`), and
any trees, cooldowns, sample counts and ages for the resident (`ResidentAssumption`),
any intervals, hours, days and faults for the disk-write watch (`DiskAssumption`),
and any operations and faults for the event log (`EventsAssumption`).
`NobodyAssumption` and its like only say that a holder is not the value for "nobody".

`WorkLeaseProofs`, about the ledger:

* `TypeCorrect`: the shape of the ledger and of the processes.
* `LedgerSafe`: `LedgerValid`, `HandleBacked` and `CommandCovered`. None of them
  is inductive: reconcile drops a record when the probe of its owner fails, so
  the invariant `Ownership` ties the progress of a wrapper to its PID, its
  child and both records. `ReconciledRecord` says what reconcile keeps,
  `OwnedFrame` what a step of one operation leaves alone for the others,
  `Justified` why every materialized protection can be derived again.
  `RecordsValid` states `LedgerValid` by itself.
* `CeilingHolds`: `CapacityCeiling`. The load of a set is the number of its
  weight units, so that `LoadMonotone` and `LoadAdd` are facts about
  cardinalities; `SelectionFits` shows that every way through the selector
  weighs what it admits, and `CeilingAdmit` that both admissions then stay below
  the ceiling. `CeilingFrame` covers all the other steps.
* `DrainKeepsRoom`: `DrainResidue`, with the inductive `DrainInv`, which adds that
  only express work ever rides. `RideFits` is the selector's arithmetic,
  `DrainFrame` and `DrainKept` the steps that admit nobody.

In the same module, about the steps of the ledger:

* `CoordinatorImplementsPool`: `Implements`. A record is mapped to its share
  (`Sh`). `Leaving` shows that reconcile is a departure of members of the pool,
  `SameLoad` that weighing in the ledger is weighing in the pool, `PoolEnter`,
  `PoolParked` and `PoolLeave` are the three kinds of step, and `PoolStep` goes
  through the actions. An admission needs `Ownership`: an operation that waits
  or has just arrived holds no lease yet.

* `PromotionOrder`: `PinOrderKept`. `PositionsOrder` turns the positions of
  survivors into their order; what `PrioritizeWaiter` appends has just been
  registered, so `Ownership` is needed again to know that it was not in the
  sequence before (`PinStep`).

`GateProofs`, about the admission gate:

* `LatchKept` and `EvidenceKept`: `LatchCoherent` and `SustainedEvidence`, from the
  inductive `GateInv`, which adds that a latch nobody observed has counted
  nothing. `FoldSound` is the step that counts a sample (`Stretch` its
  arithmetic), `SharedLatch` and `PrivateCopy` the two ways to observe.
* `HoldsVisible`: `DeferredVisible`, from `HoldInv`, which relates the place of a
  wrapper, its hold and what it knows of it (`Agree`).

`LockAndLogProofs`, about the in-process queue of the lock:

* `OneCallerInside`: `OneTurn`. That two callers are not both inside is not
  inductive: the chain could have two open heads. `Numbered` numbers the open
  channels of a process in the order they were enqueued, each waiting for the
  one before it and the map entry naming the last; `ChainAppend`, `ChainClose` and
  `ChainKilled` show that the numbering survives an arrival, a close and the
  death of a process, `FirstIsOne` that only number one is past the queue.

In the same module, about the event log:

* What the validator and the streaming count make of a history is what they made of the
  rows before, and the last row (`LifecycleAppend`, `StreamedParts`). A recursive
  function on the rows is reasoned about by its least counterexample (`LeastOf`,
  `Judged`), which the provers can do where they cannot apply an induction theorem.
* `ReceiptsCount`: `ReceiptCounts`, from
  `Remembers`: while the validator accepts a history, `st.seen` is the set of its
  events, `st.terminal` a terminal row that nothing but an expiry may replace, and any two
  terminal rows are an expiry and what settles it (`Settles`). From this alone follow
  what the normalization removes and which row the statistics count.
* `StreamsAgree`: `StreamAgrees`, for every way to cut the rows into shards. The stream
  begins at some shard and so judges a suffix of the rows: what it remembers stays
  like what the validator of all rows remembers (`Alike`), row by row, as long as the latter
  accepts (`AlikeStays`), unless the suffix begins inside a reservation. Of two rows that lie
  against the order of their stamps the stream refuses the second (`OvertakenRefused`), and an accepted history reads as what the validator remembers of
  it (`GoodReads`), which gives the statistics of the rows in the order of the stamps.
* `SkipsExplained`: `SkippedExplained`, from `PartiesInv` and `Readable`. `PartiesInv`
  is about the writers: a row carries a lease the operation has had (`OwnRows`), a
  lease not yet announced is in no row (`Ordered`), only an operation past its run is
  cancelled (`CancelledPast`). `Readable` says that, unless one of the four causes is
  on record, what the validator remembers is in step with the place of the wrapper
  (`Stands`): each row that any writer may append next is one it accepts (`RowAccepted`,
  `EndAccepted`). That the excuses last (`ExcusedStays`) needs the fourth to be stated from
  the end of the run on: before it, the missing `reacquired` row may still be written.

`CleanupProofs`, about host cleanup behind the control server (`ControlSpec`):

* `ClaimsProtect` and `CooldownKept`: `ClaimWins` and `ReclaimsSpaced`, from
  `CleanupInv`. `LocksHeld` ties each place of a pass to the locks it holds,
  `Unclaimed` says that what is about to be stopped is not claimed, and
  `OnRecord` that the time of every reclaim is covered by the ledger of intents,
  which is why a pass that dies after the provider call does not lose it.
* `RolloutKept`: `RolloutHonoured`, from `RolloutInv` beside it: a pass past the
  boundary holds the very policy that is in the file (`PassHolds`), and the file
  and every command between load and save are behind what the operator last
  asked for (`PolicyAsAsked`, `CommandAsAsked`), unless a stop was lost.
  `ReclaimStep` reduces all three theorems to the one step that reclaims.

The approvals, in the same module:

* `ApprovalOnSeen` and `CommandAppliedOnce`: `ApprovedOnSeen`, with its type
  invariant, and `AppliedOnce`, from `ApprovalInv`: whoever is not idle has the
  mutex (`Serial`), a policy that differs from the hashed one was written outside
  (`SeenKept`), and a preview whose command was saved is no longer pending or its
  approval has yet to write the verdict (`Consumed`). `BesideServer` covers every
  step of the processes around the server.

`StorageProofs`, about `storage apply`, from one invariant `StorageInv`:

* `OwnersProtected`: `OwnersSpared`. Inductive with `Spared`: an owner that runs while
  a provider is about to be touched started behind the check.
* `ReclaimCooldown`: `ReclaimsApart`, which is inductive once the reclaim lock is tied
  to the place of a command (`Placed`): the cooldown is asked for again behind it.
* `ReceiptsHold`: `ReceiptsTrue`. `OnReceipt` says that a provider under way has its
  intent, `Settled` that a completed reclaim is not returned to; both need
  `AsideKept`, which leaves at most one directory aside per command and provider.
* `OwnersKeepWrites`: `NewWritesKept`. Of the steps that change a directory, `Recreate`,
  `Unlink` and `PutBack` find it absent or empty, and `Quarantine` moves it aside under a
  name nobody has used, since its command has nothing aside yet (`AsideKept`).
  `StepKinds`, `AsideMoves`, `Recorded` and `HistoryKept` summarise a command's step,
  so that each part of the invariant has a short proof.

`ReuseProofs`, about the reuse of results:

* `SingleFlight`: `OneLeader`, from `SingleInv`: whoever is past the lock holds it under
  the name of its command and sources, and all names are made with the one key that
  was written first (`OneHolder`, `KeyTyped`).
* `ReuseIsExact` and `ReuseLeavesOutput`: `ReuseExact` and `HitOutput`, from `ExactInv`.
  What a command has read lies between the contents at its start and now
  (`ReadSound`), so a receipt, which needs both to be equal, stands for that one
  content (`ReceiptStep`); a hit takes this over from the receipt (`HitStep`). Both
  assume `Restorable = FALSE`: an edit that brings an earlier content back while the
  command runs cannot be told from none by comparing before and after, in the
  code as in the model, and the `reuse` run makes the same choice.

`ResidentProofs`, about the resident, from one invariant `ResidentInv`:

* `SignalsJustified`: `SignalJustified`. `Evidence` keeps the streaks of the monitor equal
  to what its samples showed of one session; what makes it inductive is that a
  session which took over a root PID is younger than the last sample (`Shown`), so
  it cannot be quiet and old enough before an outage of `MinAge`. The proof of this
  step is how the inherited streak under "Behaviour worth knowing" was found.
  `Justified` follows the candidate to its signal.
* `CooldownsSurvive`: `CooldownHonoured`. A signal whose row was not lost is on record or
  about to be (`OnRecord`), a running monitor remembers every recent one
  (`Remembered`), and a candidate is only chosen when all of them have rested
  (`Rested`). `LoadedIs` is what a restart takes over from the ledger.
* `RecordsAreTold`: `RecordsTold`. Two of its parts follow from `Owed` and `Noted`. The third,
  `EpisodesTold`, follows from `StormInv`: what the rows so far were read as agrees with
  the storms that were (`Told`: as many, as long, and the open one suspended exactly from
  where the rows were cut), a recent latest.json names the start of the open storm
  (`LatestTold`), and the latch of a running monitor is the open storm, resumed exactly
  while the rows still say that it was cut (`LatchTold`). `EpisodesIn` and `LatchedTime`
  are recursive functions over the rows and the storms; `EpisodesAppend` and `TimeGrows`
  give what one more row or storm adds, from the existence and uniqueness of such a
  function, which follow from the least number principle (`LeastOf`). Then each event has
  a lemma about the reader (`StepBoundary`, `StepReleased`, ...), one about `Told`
  (`ToldBoundary`, `ToldReleased`, ...), and each action one about `StormInv`.
  The invariant shows why the two excepted histories are the only ones: a release whose
  latest.json is missing leaves `LatestTold` false, and a restart with both boundary rows
  lost leaves nowhere to cut.
* `AdvanceSound` and `ResumeSound` are the facts about the swap latch that the types need.

`DiskWriteProofs`, about the disk-write watch:

* `PlacedAlways`: `Placed`, which ties the place in the loop to the sample being
  worked on; the other invariants contain it.
* `AlertsKeptBounded`: `AlertsBounded`, from `AlertInv`. What was sent on a day is at
  most what the file says was (`SentCounted`), a running observer knows that file
  unless it refuses to alert at all (`AlertsOnDisk`), and the file only says that
  no incident is open after a sample that was not high (`Armed`).
* `BaselineKeptQuiet`: `QuietBaseline`, from `BaselineInv`. `BurstsClosed` is about the
  points of the window themselves: one at which a burst was seen lies a whole `Window`
  before the time up to which training is off (`PrunedFrom` and `PointsFrom` say that pruning and
  sampling make no other points, `RestoredUnscored` that a restart brings none back).
  An incident in sight has an anomalous verdict, and a recovery timer that does not run
  ahead of the last loud sample (`IncidentSeen`), so it is lost in no way but the three
  that the property names. The proof of the step that judges a sample found the stale
  timer, the third.
* `BytesCountedOnce`: `NoByteTwice`, from `HistoryInv`. A row counts exactly the bytes it
  is about, all written before it, and the counter is where the row left it or has
  started again in an hour the ghost knows (`RowSound`); a later row knows a later
  reading (`InOrder`); the reading a sample starts from is ahead of every row
  (`Ahead`); the hours in the file are over (`HoursOver`), so that flushing one cannot
  give it a second row; and two rows are about different bytes, except a checkpoint and
  the hour that continues it (`OnceEach`), which is what the superseding test sorts out.
  A reader between its two reads has the first rows of the present file (`Mirrored`).
* `NothingWrittenLost`: `NoByteLost`, from `LostInv`. While no write of the history has
  failed, everything up to the previous reading is in a row or in the hour in progress,
  and the checkpoint is part of these unless the resident is down (`Complete`); so what a
  restart restores has everything up to its newest row, and the first sample after it
  makes up the rest as a gap. The invariants are stated over bytes as sets, not sums of
  rows, so that neither proof needs an induction over the rows; `NewestIs` takes the
  newest row by a least-number argument instead.

Only model-checked: the liveness properties (`Served`, `TurnComes`, `LatchReleases`,
`DeadOwnerSettled`), which the prover does not handle; what the scanners, the
migration of the policy and the decision on a sample compute for the inputs of the
runs (`ClassesSound`, `WeightsSound`, `DecisionsSound`), which are statements about the
MC modules' tables of inputs.

## Behaviour worth knowing

What the models showed of the code beside the finding; each is excepted by name
in the property it concerns, or described in its module.

* Ledger. The audit (`session_pressure_audit.go:702`) wants the sum of all lease
  weights to be `Used`, but a parked lease is charged nothing, which
  `workidle_test.go:151` expects. Express riders that were parked and wake take
  units reserved for the protected head, against `worklease.go:1116`;
  `DrainResidue` counts riders that were never parked. `CancelWork` notes the tree before it
  signals, so a child that the wrapper starts in between keeps running without a
  lease (`workinspect.go:454`). A failed `ReleaseAdmission` leaves an operation
  in two places, against `workrun.go:449`.
* Events. A torn row blocks every ledger call while a dead record exists
  (`workrun.go:1557`). A reservation that is reacquired without its row makes the
  operation unreadable, and so does an operator's cancel followed by the
  wrapper's receipt. A wait deadline is counted as an interrupt although
  `workrun.go:1655` wants it kept apart.
* Reuse. Sources changed and changed back within a run are not noticed, and an
  output overwritten between the end of the child and its receipt is trusted.
* Admission. With memory at warning one unconfirmed red CPU sample refuses work
  (`types.go:370`).
* Resident. A crash or failed write between SIGTERM and its row loses the
  cooldown; a torn action row stops every start. The streaks of quiet samples are
  kept by root PID and failed samples do not reset them (`monitor.go:879`), so
  after an outage longer than `candidate_min_age_seconds` a session that took
  over the PID inherits the streak; `SignalJustified` excepts such outages.
* Cleanup and control. A verb that loaded the policy before a stop and saves
  after it undoes the stop. The server's mutex is per process. A server that dies between a child's save and the
  verdict leaves a preview that can be approved again; the same would follow
  from a verdict that cannot be written while the server lives, since the error of
  `previews.put` is ignored (`actions.go:431`, `443`, `468`, `475`), which is not modelled.
* Disk. A restart forgets how long a verdict has lasted, and the first valid
  `learning` sample after it closes an alert's incident. The recovery timer
  outlives its incident (`classifyLocked`, `disk_write.go:1012`), so a next incident
  that turns quiet after its first sample ends at once, without five quiet minutes.
  A counter that starts again within an hour defeats
  `diskWriteCheckpointSuperseded`: `NoByteTwice` leaves such hours out, and
  `NoByteLost` the bytes written across the new start.
* Storage. Only `completed` results count for the cooldown, so a crash loses it.
  An owner that starts between the check and the rename, and a policy that is turned
  off after the plan, are missed; `OwnersSpared` excuses the first and says nothing
  about the second.
* Lock. A stale sidecar is always removed in the model. Where the removal fails
  (a directory the process may not write), `AcquireContext` spins without looking at
  its deadline (`filelock.go:231`, `330`), so `TurnComes` would not hold there.

## Where the code and its comments part

Disagreements between the code and its own words that the properties except by
name or whose inputs they leave out. The properties around them say that there are no others of
their kind; only the one under `findings` has a run of its own.

* An incident is forgotten on restart. The comment at `disk_write.go:1024` and the test
  `disk_write_test.go:615` say that a recovery plateau after a restart does not
  train the baseline. The test calls `classifyLocked` directly; `Sample` first
  overwrites the restored `lastState` with `lastAdaptiveState`, which is not
  restored (`disk_write.go:713`), so the plateau is accepted. The same follows from a
  context that has no baseline yet (`disk_write.go:959`). `QuietBaseline` allows
  training during an open incident only in these ways and with the stale timer above.
* `go build -- ./...` is express: `goPackageTargets` (`work_express.go:971`) takes what
  follows `--` for arguments of a test binary, also for a build. `GoScope` excepts builds
  with `--`.
* `go test --race`, with two dashes, is accepted by go and is not among the flags of full
  weight (`work_express.go:491`); options have one dash in the model. Several `-p` of cargo
  are express although the comment at `work_express.go:66` gives multi-package
  work its full weight. A tool right after a newline is not found by
  `indexBareToolToken` (`work_express.go:1029`).
* Policy files of an earlier release from hosts of up to five CPUs (capacity 2, or a
  test weight of 1) are completed, not corrected, and then refused by `Validate`
  (`policy.go:596`-`599`, `735`): every command stops at
  `session_pressure.go:277`. `Stranded` names them exactly.
* On hosts of up to six CPUs a benchmark weighs less than a build or a test, below which
  `strongerWorkClass` does not rank it. `NoHeavier` excepts that pair.
* The comment at `workevent.go:651` says the stream tolerates a bad lifecycle as the
  corpus reader does; the two part in the three cases of `StreamAgrees`.

## Not modelled

* Nested work, profiles and suggestions, momentum, health, replay, evaluation,
  attribution, calibration: decisions or reports without state of their own.
* Sampler, native probes, process tables, agent identity: reads of the operating
  system; what they may return is an input of the models.
* Mixed-version ledgers: one writer's schema is the current one.
* Artifacts, launchd, doctor: installation; the Go cache eviction: one pass in one process.
* Compaction and audit rotation; `EvaluateStorage`; the desktop clients.
