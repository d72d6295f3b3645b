----------------------------- MODULE WorkEvents -----------------------------
(***************************************************************************)
(* The durable event log of leased work: sessionpressure/workevent.go, the *)
(* rows RunWorkCommand (workrun.go) appends for its operation, and the     *)
(* terminal rows the coordinator appends on behalf of others (recordExpired*)
(* and recordCancelled of worklease.go).                                   *)
(*                                                                         *)
(* Three parties write about one operation without a common lock: its      *)
(* wrapper, whoever reconciles the ledger after the wrapper died, and an   *)
(* operator who cancels it.  The readers accept an operation only if the   *)
(* rows make up one lifecycle; what they refuse they leave out of every    *)
(* statistic.                                                              *)
(*                                                                         *)
(* The ledger is reduced to the place of each operation in it; capacity,   *)
(* selection and PID reuse are in WorkLease.  An append that succeeds is   *)
(* one step: the identity lock covers the check and the write.             *)
(***************************************************************************)
EXTENDS Integers, FiniteSets, Sequences

CONSTANTS
    Ops,          \* operations
    NoOp,
    MaxLeases,    \* bound on the leases each operation gets, one per reservation cycle
    Crashable,    \* operations whose wrapper may be killed
    Cancellable,  \* operations an operator may `work cancel`
    Promotable,   \* operations an operator may promote
    Racing,       \* operations whose child may exit between two probes of one reconcile
    Losing,       \* operations for which a call of the wrapper may fail
    Endings,      \* how an operation may end before its child runs
    Exits,        \* how its child may end
    Tearable      \* whether a full disk may cut a row short

ASSUME EventsAssumption ==
    /\ NoOp \notin Ops /\ MaxLeases \in [Ops -> Nat \ {0}] /\ Tearable \in BOOLEAN
    /\ Endings \in [Ops -> SUBSET {"failed", "interrupt", "timeout"}]
    /\ Exits \in [Ops -> SUBSET {"completed", "failed", "interrupt"}]
    /\ Crashable \cup Cancellable \cup Promotable \cup Racing \cup Losing \subseteq Ops

VARIABLES
    log,       \* the rows of each operation in all shards, oldest first
    torn,      \* where an undecodable row lies; at most one in a behaviour
    place,     \* the operation's record in the ledger, by the process it names
    leaseID,   \* how many leases the operation has had; the last is its current one
    at,        \* how far the wrapper has come
    verdict,   \* the terminal row the wrapper means to append
    child,     \* the leased command
    aged,      \* more than maximumLateReconciliationTerminalLag passed since the expired row
    drop,      \* an operator's cancel: [op, stage]
    stuck      \* history: withdrawing the waiter failed

vars == <<log, torn, place, leaseID, at, verdict, child, aged, drop, stuck>>

Terminals == {"completed", "failed", "cancelled", "expired"}
Events    == {"queued", "override_requested", "acquired", "reserved", "reacquired", "started"}
             \cup Terminals
\* outcome: what the closed tokens are compared with.  exit marks a row with an exit code.
Row == [op: Ops, event: Events, lease: Nat,
        outcome: {"none", "wrapper_interrupt", "interrupted", "dead_owner", "operator_cancel"},
        exit: BOOLEAN, late: BOOLEAN]
Plain(o, e, l) == [op |-> o, event |-> e, lease |-> l, outcome |-> "none",
                   exit |-> FALSE, late |-> FALSE]

(***************************************************************************)
(* The store.                                                              *)
(***************************************************************************)
\* Validate, as far as it depends on more than the format of a field.
Validate(r) ==
    /\ r.event \in {"acquired", "reserved", "reacquired", "started", "completed"} => r.lease > 0
    /\ r.event = "queued" => r.lease = 0

\* workEventIdentity: operator requests carry an identity of their own.
SameIdentity(r, s) == r.op = s.op /\ r.event = s.event /\ r.lease = s.lease
WorkEventIDExists(r) ==
    r.event # "override_requested" /\ \E i \in DOMAIN log[r.op] : SameIdentity(log[r.op][i], r)

IsWorkTerminalEvent(e) == e \in Terminals
OperationHasTerminal(o) ==
    \E i \in DOMAIN log[o] : IsWorkTerminalEvent(log[o][i].event)

\* Readers fail as a whole on a row they cannot decode; an append only reads its own shard.
\* Today's shard is scanned for the identity; a row it cannot decode refuses the append.
LogReadable == torn \in {"none", "pruned"}
AppendDurable(r) ==
    /\ torn # "today" /\ Validate(r)
    /\ log' = IF WorkEventIDExists(r) THEN log ELSE [log EXCEPT ![r.op] = Append(@, r)]
    /\ UNCHANGED torn
\* A lock that stays busy, a row that cannot be decoded, or a full disk that leaves half a row.
AppendFails ==
    /\ UNCHANGED log
    /\ \/ UNCHANGED torn
       \/ Tearable /\ torn = "none" /\ torn' = "today"

(***************************************************************************)
(* The lifecycle validator.                                                *)
(***************************************************************************)
WorkEventOrder(e) ==
    CASE e = "queued" -> 0 [] e = "override_requested" -> 1 [] e = "acquired" -> 2
      [] e = "reserved" -> 3 [] e = "reacquired" -> 4 [] e = "started" -> 5
      [] OTHER -> 6

NoRow == [op |-> NoOp, event |-> "none", lease |-> 0, outcome |-> "none",
          exit |-> FALSE, late |-> FALSE]
NewLifecycle == [order |-> -1, seen |-> {}, lease |-> 0, reserved |-> FALSE,
                 terminal |-> NoRow, bad |-> FALSE]

\* Mutants: no receipt is late; a late receipt counts however late it is.
NeverLate(x, r)      == FALSE
\* The wrapper's own receipt of a child that a reconciler found gone shortly before.
IsLateRealTerminalAfterReconciliation(x, r) ==
    /\ x.event = "expired" /\ x.outcome = "dead_owner"
    /\ r.event \in {"completed", "failed", "cancelled"} /\ r.exit
    /\ x.op = r.op /\ x.lease # 0 /\ x.lease = r.lease
    /\ ~r.late

OutOfOrder(st, r) ==
    IF r.event = "override_requested" THEN st.terminal # NoRow
    ELSE /\ WorkEventOrder(r.event) < st.order
         /\ ~(r.event = "reserved" /\ st.order = WorkEventOrder("reacquired") /\ ~st.reserved)

Repeatable == {"override_requested", "reserved", "reacquired"}
BadTerminal(st, r) ==
    /\ IsWorkTerminalEvent(r.event) /\ st.terminal # NoRow
    /\ ~(r.event = "expired" /\ st.terminal.event # "expired" /\ r.outcome = "dead_owner")
    /\ ~IsLateRealTerminalAfterReconciliation(st.terminal, r)
Refused(st, r) ==
    \/ r.event \in st.seen \ Repeatable
    \/ OutOfOrder(st, r)
    \/ r.lease # 0 /\ st.lease # 0 /\ st.lease # r.lease /\ ~(r.event = "reacquired" /\ st.reserved)
    \/ r.event = "reserved" /\ st.reserved
    \/ r.event = "reacquired" /\ ~st.reserved
    \/ BadTerminal(st, r)

\* add: one row for one operation.  A refused operation is not looked at again.
AddEvent(st, r) ==
    IF st.bad THEN st
    ELSE IF Refused(st, r) THEN [st EXCEPT !.bad = TRUE]
    ELSE [order    |-> IF r.event = "override_requested" THEN st.order ELSE WorkEventOrder(r.event),
          seen     |-> st.seen \cup {r.event},
          lease    |-> IF r.lease # 0 THEN r.lease ELSE st.lease,
          reserved |-> (st.reserved \/ r.event = "reserved") /\ r.event # "reacquired",
          terminal |-> IF IsWorkTerminalEvent(r.event) /\ (st.terminal = NoRow \/ r.event # "expired")
                       THEN r ELSE st.terminal,
          bad      |-> FALSE]

Lifecycle(rows) ==
    LET after[n \in 0..Len(rows)] ==
            IF n = 0 THEN NewLifecycle ELSE AddEvent(after[n - 1], rows[n])
    IN  after[Len(rows)]
\* partitionWorkEventLifecycle: operations are judged one by one.
SkippedOperations == {o \in Ops : Lifecycle(log[o]).bad}

\* readAll drops refused operations.
ReadAll(rows) == IF Lifecycle(rows).bad THEN <<>> ELSE rows

(***************************************************************************)
(* SummarizeWorkEvents.                                                    *)
(***************************************************************************)
\* Mutant: the expired row stays.
KeepExpired(rows) == DOMAIN rows
Recovered(rows) ==
    \E i, j \in DOMAIN rows :
        i < j /\ IsLateRealTerminalAfterReconciliation(rows[i], rows[j])
\* The rows that stay.
NormalizeLateReconciliationTerminals(rows) ==
    {i \in DOMAIN rows : ~(rows[i].event = "expired" /\ Recovered(rows))}

WrapperInterruptOutcomes == {"wrapper_interrupt", "interrupted"}
IsWrapperInterruptEvent(r) == r.event = "cancelled" /\ r.outcome \in WrapperInterruptOutcomes

Outcomes(rows) ==
    {i \in NormalizeLateReconciliationTerminals(rows) : IsWorkTerminalEvent(rows[i].event)}
\* What one operation contributes: the outcome its first terminal row gives it, and whether
\* it counts as an interrupt.
Summary(rows) ==
    IF Outcomes(rows) = {} THEN [outcome |-> "open", interrupt |-> FALSE]
    ELSE LET first == CHOOSE i \in Outcomes(rows) : \A j \in Outcomes(rows) : i <= j
         IN  [outcome |-> rows[first].event, interrupt |-> IsWrapperInterruptEvent(rows[first])]

(***************************************************************************)
(* The two counts of interrupted operations.  A row is stamped when its    *)
(* append begins and lies in the shard of its day, where it comes after    *)
(* the rows whose append got the identity lock first.                      *)
(***************************************************************************)
Timed(rows) == [i \in DOMAIN rows |-> [time |-> i, row |-> rows[i]]]
\* The rows that may carry an earlier stamp than the row ahead of them, where that matters to
\* a reader: the receipt of a child whose lease a reconciler expires meanwhile, and the
\* promotion of a waiter whose wrapper gives up meanwhile.
Overtakers(rows) ==
    {i \in 2..Len(rows) :
        \/ rows[i - 1].event = "expired" /\ rows[i].exit /\ ~rows[i].late
        \/ IsWorkTerminalEvent(rows[i - 1].event) /\ rows[i].event = "override_requested"}
\* A receipt from before the expired row does not count as one that followed it.
Overtaken(rows, i) ==
    [Timed(rows) EXCEPT ![i - 1].time = i,
                        ![i] = [time |-> i - 1, row |-> [rows[i] EXCEPT !.late = TRUE]]]
InOrder(shards) == \A i \in DOMAIN shards : shards[i].time = i
InTime(shards)  ==
    IF InOrder(shards) THEN shards
    ELSE [t \in DOMAIN shards |-> shards[CHOOSE i \in DOMAIN shards : shards[i].time = t]]
RowsOf(shards) == [i \in DOMAIN shards |-> shards[i].row]
\* What the shards may hold.  Two rows of different days lie in the order of their stamps.
Shards(rows) ==
    {Timed(rows)} \cup UNION {{Overtaken(rows, i), InTime(Overtaken(rows, i))} : i \in Overtakers(rows)}
\* How many rows may lie in the shards of the days before the window's first.
Older(shards) == {k \in 0..Len(shards) : \A i \in 1..k : shards[i].time <= k}

\* The statistics leave out the first j rows in the order of the stamps: they are older than
\* the window.
SummarizeWorkEvents(rows, j) == Summary(SubSeq(rows, j + 1, Len(rows))).interrupt

\* Mutant: a row counts although it is older than the window.
StreamAllRead(seen, r, within) ==
    LET st == AddEvent(seen.life, r)
    IN  [life |-> st,
         interrupted |-> ~st.bad /\ (seen.interrupted \/ IsWrapperInterruptEvent(r))]
\* The resident's count, row by row, without the corpus.
StreamStep(seen, r, within) ==
    LET st == AddEvent(seen.life, r)
    IN  [life |-> st,
         interrupted |-> ~st.bad /\ (seen.interrupted \/ (within /\ IsWrapperInterruptEvent(r)))]
Streamed(shards, j) ==
    LET after[n \in 0..Len(shards)] ==
            IF n = 0 THEN [life |-> NewLifecycle, interrupted |-> FALSE]
            ELSE StreamStep(after[n - 1], shards[n].row, shards[n].time > j)
    IN  after[Len(shards)].interrupted
\* The shards before the window's first day, with k rows, are not read.
CountWrapperInterruptOperations(shards, k, j) == Streamed(SubSeq(shards, k + 1, Len(shards)), j)

(***************************************************************************)
(* Ledger calls.  Each reconciles first, and reconciling appends an        *)
(* expired row for every record whose owners are gone, so that a call      *)
(* fails for everybody while such a row cannot be appended.                *)
(***************************************************************************)
WrapperAlive(o) == at[o] \notin {"dead", "done"}
Expirable(o) ==
    /\ place[o] # "absent" /\ ~WrapperAlive(o)
    /\ place[o] = "child" => child[o] # "live"
Dead == {o \in Ops : Expirable(o)}

ExpiredRow(o) ==
    [Plain(o, "expired", IF place[o] = "waiter" THEN 0 ELSE leaseID[o])
        EXCEPT !.outcome = "dead_owner"]
\* Mutant: only leases are recorded, not queue entries.
ExpireLeasesOnly(D) ==
    [o \in Ops |-> IF o \in D /\ place[o] # "waiter" /\ ~OperationHasTerminal(o)
                   THEN Append(log[o], ExpiredRow(o)) ELSE log[o]]
\* recordExpired for each: an operation that has a terminal row gets no other.
RecordExpired(D) ==
    [o \in Ops |-> IF o \in D /\ ~OperationHasTerminal(o) THEN Append(log[o], ExpiredRow(o))
                   ELSE log[o]]

Unlocked      == drop.stage # "locked"
Reconciles(D) == Unlocked /\ (D = {} \/ LogReadable)
\* A ledger call that gives o the place p.
Ledger(D, o, p) ==
    /\ Reconciles(D)
    /\ log' = RecordExpired(D)
    /\ place' = [q \in Ops |-> IF q = o THEN p ELSE IF q \in D THEN "absent" ELSE place[q]]
    /\ UNCHANGED torn
\* The lock is busy, the disk is full, or reconciling failed.
LedgerFails(o) == (o \in Losing \/ (Dead # {} /\ ~LogReadable)) /\ UNCHANGED <<log, torn, place>>
MayLose(o)     == o \in Losing \/ torn = "today"

(***************************************************************************)
(* The wrapper: RunWorkCommand.                                            *)
(***************************************************************************)
Goto(o, l) == at' = [at EXCEPT ![o] = l]
\* The terminal row to come: its kind, and the lease of the handle the wrapper has, 0 for none.
Decide(o, l, v, h) ==
    Goto(o, l) /\ verdict' = [verdict EXCEPT ![o] = [kind |-> v, lease |-> h]]
Elsewhere == UNCHANGED <<aged, drop>>
Holding   == UNCHANGED <<leaseID, child>>

\* Appends a row and goes on, or takes the error path to e with the verdict "failed".
Persist(o, r, ok, e, h) ==
    \/ AppendDurable(r) /\ Goto(o, ok) /\ UNCHANGED verdict
    \/ MayLose(o) /\ AppendFails /\ Decide(o, e, "failed", h)

RecordQueued(o) ==
    /\ at[o] = "new"
    /\ \/ AppendDurable(Plain(o, "queued", 0)) /\ Goto(o, "admission")
       \/ MayLose(o) /\ AppendFails /\ Goto(o, "done")
    /\ Holding /\ Elsewhere /\ UNCHANGED <<place, verdict, stuck>>

\* The wait for admission ends with a denial, a signal or the deadline: nothing to give back.
AdmissionEnds(o) ==
    /\ at[o] = "admission"
    /\ \E v \in Endings[o] : Decide(o, "record", v, 0)
    /\ Holding /\ Elsewhere /\ UNCHANGED <<log, torn, place, stuck>>

RegisterWaiter(o) ==
    /\ at[o] = "admission"
    /\ \/ Ledger(Dead, o, "waiter") /\ Goto(o, "waiting") /\ UNCHANGED verdict
       \/ LedgerFails(o) /\ Decide(o, "record", "failed", 0)
    /\ Holding /\ Elsewhere /\ UNCHANGED stuck

\* A lease, at once, from the queue or from a reservation.
Acquire(o) ==
    /\ at[o] \in {"admission", "waiting", "reserved"} /\ leaseID[o] < MaxLeases[o]
    /\ Ledger(Dead, o, "wrapper")
    /\ leaseID' = [leaseID EXCEPT ![o] = @ + 1]
    /\ Goto(o, IF at[o] = "reserved" THEN "reacquired" ELSE "acquired")
    /\ Elsewhere /\ UNCHANGED <<verdict, child, stuck>>

\* WaitAcquire ends: the waiter is withdrawn, or stays behind.
GiveUp(o) ==
    /\ at[o] \in {"waiting", "reserved"}
    /\ \/ Ledger(Dead, o, "absent") /\ UNCHANGED stuck
       \/ LedgerFails(o) /\ stuck' = stuck \cup {o}
    /\ \E v \in Endings[o] : Decide(o, "record", v, 0)
    /\ Holding /\ Elsewhere

RecordAcquired(o) ==
    /\ at[o] \in {"acquired", "reacquired"}
    /\ Persist(o, Plain(o, at[o], leaseID[o]), "owned", "release", leaseID[o])
    /\ Holding /\ Elsewhere /\ UNCHANGED <<place, stuck>>

ReserveForPressure(o) ==
    /\ at[o] = "owned" /\ leaseID[o] < MaxLeases[o]
    /\ \/ Ledger(Dead, o, "waiter") /\ Goto(o, "reserving") /\ UNCHANGED verdict
       \/ LedgerFails(o) /\ Decide(o, "release", "failed", leaseID[o])
    /\ Holding /\ Elsewhere /\ UNCHANGED stuck

RecordReserved(o) ==
    /\ at[o] = "reserving"
    /\ Persist(o, Plain(o, "reserved", leaseID[o]), "reserved", "release", 0)
    /\ Holding /\ Elsewhere /\ UNCHANGED <<place, stuck>>

\* A signal, the deadline or an error before the child exists.
AbandonStart(o) ==
    /\ at[o] = "owned"
    /\ \E v \in Endings[o] : Decide(o, "release", v, leaseID[o])
    /\ Holding /\ Elsewhere /\ UNCHANGED <<log, torn, place, stuck>>

\* Fork and bind; a bind that fails kills the gated child.
BindPID(o) ==
    /\ at[o] = "owned"
    /\ \/ /\ Ledger(Dead, o, "child") /\ Goto(o, "bound")
          /\ child' = [child EXCEPT ![o] = "live"]
          /\ UNCHANGED verdict
       \/ /\ LedgerFails(o) /\ Decide(o, "receipt", "failed", leaseID[o]) /\ UNCHANGED child
    /\ Elsewhere /\ UNCHANGED <<leaseID, stuck>>

RecordStarted(o) ==
    /\ at[o] = "bound"
    /\ \/ /\ AppendDurable(Plain(o, "started", leaseID[o]))
          /\ Goto(o, "running") /\ UNCHANGED <<verdict, child>>
       \/ /\ MayLose(o) /\ AppendFails /\ Decide(o, "receipt", "failed", leaseID[o])
          /\ child' = [child EXCEPT ![o] = "gone"]
    /\ Elsewhere /\ UNCHANGED <<place, leaseID, stuck>>

\* The child ends, by itself or by a signal the wrapper forwarded.
ChildExit(o) ==
    /\ child[o] = "live"
    /\ child' = [child EXCEPT ![o] = "gone"]
    /\ \/ at[o] = "running" /\ \E v \in Exits[o] : Decide(o, "reap", v, leaseID[o])
       \/ at[o] = "dead" /\ UNCHANGED <<at, verdict>>
    /\ Elsewhere /\ UNCHANGED <<log, torn, place, leaseID, stuck>>

TerminalEvent(v) == IF v \in {"interrupt", "timeout"} THEN "cancelled" ELSE v
WorkCancelOutcome(v) ==
    CASE v = "interrupt" -> "wrapper_interrupt" [] v = "timeout" -> "interrupted" [] OTHER -> "none"
TerminalRow(o) ==
    [Plain(o, TerminalEvent(verdict[o].kind), verdict[o].lease)
        EXCEPT !.outcome = WorkCancelOutcome(verdict[o].kind), !.exit = (at[o] = "reap"),
               !.late = aged[o]]

\* recordTerminal: after a release that came first, before one that follows.
RecordTerminal(o) ==
    /\ at[o] \in {"record", "receipt", "reap"}
    /\ \/ AppendDurable(TerminalRow(o))
       \/ MayLose(o) /\ AppendFails
    /\ Goto(o, IF at[o] = "record" THEN "leaving" ELSE "finalize")
    /\ Holding /\ Elsewhere /\ UNCHANGED <<place, verdict, stuck>>

\* release, or cancelPressureWaiter: it may fail, and nothing is tried again.
Release(o) ==
    /\ at[o] \in {"release", "finalize"}
    /\ \/ Ledger(Dead, o, "absent") /\ UNCHANGED stuck
       \/ /\ LedgerFails(o)
          /\ stuck' = IF place[o] = "waiter" THEN stuck \cup {o} ELSE stuck
    /\ Goto(o, IF at[o] = "release" THEN "record" ELSE "leaving")
    /\ Holding /\ Elsewhere /\ UNCHANGED verdict

\* The wrapper process ends some time after its run (a batch goes on with other work).
Exit(o) ==
    /\ at[o] = "leaving" /\ Goto(o, "done")
    /\ Holding /\ Elsewhere /\ UNCHANGED <<log, torn, place, verdict, stuck>>

Crash(o) ==
    /\ o \in Crashable /\ WrapperAlive(o) /\ at[o] # "new" /\ Goto(o, "dead")
    /\ Holding /\ Elsewhere /\ UNCHANGED <<log, torn, place, verdict, stuck>>

(***************************************************************************)
(* Everybody else.                                                         *)
(***************************************************************************)
\* Any call of another process: work status, or the calls of other wrappers.
Status ==
    /\ Dead # {} /\ Reconciles(Dead)
    /\ log' = RecordExpired(Dead)
    \* The events are appended before the ledger is written, and the write may fail.
    /\ \/ place' = [o \in Ops |-> IF o \in Dead THEN "absent" ELSE place[o]]
       \/ Losing # {} /\ UNCHANGED place
    /\ Holding /\ Elsewhere /\ UNCHANGED <<torn, at, verdict, stuck>>

\* A disk that fills up while an expired row is appended.
StatusTears ==
    /\ Dead # {} /\ Unlocked /\ Tearable /\ torn = "none" /\ torn' = "today"
    /\ Holding /\ Elsewhere /\ UNCHANGED <<log, place, at, verdict, stuck>>

\* reconcile finds the child alive, fails to read its identity and finds it gone: the
\* lease expires although its wrapper lives and is about to reap the child.
ProbeRace(o) ==
    /\ o \in Racing /\ at[o] = "running" /\ child[o] = "live" /\ place[o] = "child"
    /\ Ledger(Dead \cup {o}, o, "absent")
    /\ child' = [child EXCEPT ![o] = "gone"]
    /\ \E v \in Exits[o] : Decide(o, "reap", v, leaseID[o])
    /\ Elsewhere /\ UNCHANGED <<leaseID, stuck>>

\* More than maximumLateReconciliationTerminalLag between the expired row and now: the
\* finalizer of an express receipt runs before the terminal row is appended.
Age(o) ==
    /\ ~aged[o] /\ \E i \in DOMAIN log[o] : log[o][i].event = "expired"
    /\ WrapperAlive(o)
    /\ aged' = [aged EXCEPT ![o] = TRUE]
    /\ Holding /\ UNCHANGED <<log, torn, place, at, verdict, drop, stuck>>

\* CancelWork: kill the tree of a running lease, look whether the operation is over,
\* append a cancelled row and drop the lease, the last two under the ledger's lock.
CancelSignal(o) ==
    /\ o \in Cancellable /\ drop.op = NoOp /\ at[o] = "running" /\ child[o] = "live"
    /\ place[o] = "child"
    /\ child' = [child EXCEPT ![o] = "gone"] /\ Decide(o, "reap", "failed", leaseID[o])
    /\ drop' = [op |-> o, stage |-> "signalled"]
    /\ UNCHANGED <<log, torn, place, leaseID, aged, stuck>>

DropLeaseCheck ==
    /\ drop.stage = "signalled" /\ Unlocked
    /\ \/ /\ LogReadable
          /\ log' = RecordExpired(Dead)
          /\ IF place[drop.op] = "absent" \/ drop.op \in Dead \/ OperationHasTerminal(drop.op)
             THEN /\ place' = [o \in Ops |-> IF o \in Dead \cup {drop.op} THEN "absent" ELSE place[o]]
                  /\ drop' = [drop EXCEPT !.stage = "over"]
             ELSE /\ place' = [o \in Ops |-> IF o \in Dead THEN "absent" ELSE place[o]]
                  /\ drop' = [drop EXCEPT !.stage = "locked"]
       \/ ~LogReadable /\ drop' = [drop EXCEPT !.stage = "over"] /\ UNCHANGED <<log, place>>
    /\ Holding /\ UNCHANGED <<torn, at, verdict, aged, stuck>>

CancelledRow(o) == [Plain(o, "cancelled", leaseID[o]) EXCEPT !.outcome = "operator_cancel"]
DropLeaseAppend ==
    /\ drop.stage = "locked"
    /\ \/ /\ AppendDurable(CancelledRow(drop.op))
          /\ place' = [place EXCEPT ![drop.op] = "absent"]
       \/ torn = "today" /\ UNCHANGED <<log, torn, place>>
    /\ drop' = [drop EXCEPT !.stage = "over"]
    /\ Holding /\ UNCHANGED <<at, verdict, aged, stuck>>

\* OverrideWaiter annotates a queued operation; one request each is enough.
OverrideWaiter(o) ==
    /\ o \in Promotable /\ place[o] = "waiter" /\ o \notin Dead /\ Reconciles(Dead) /\ torn # "today"
    /\ \A i \in DOMAIN log[o] : log[o][i].event # "override_requested"
    /\ log' = [RecordExpired(Dead) EXCEPT ![o] = Append(@, Plain(o, "override_requested", 0))]
    /\ place' = [q \in Ops |-> IF q \in Dead THEN "absent" ELSE place[q]]
    /\ Holding /\ Elsewhere /\ UNCHANGED <<torn, at, verdict, stuck>>

\* A new day has a new shard.
Midnight ==
    /\ torn = "today" /\ torn' = "older"
    /\ Holding /\ Elsewhere /\ UNCHANGED <<log, place, at, verdict, stuck>>
\* Every run starts with Prune: the shard goes when its retention is over.  The rows of the
\* operations are younger than that.
Prune ==
    /\ torn = "older" /\ torn' = "pruned"
    /\ Holding /\ Elsewhere /\ UNCHANGED <<log, place, at, verdict, stuck>>

-----------------------------------------------------------------------------
Init ==
    /\ log = [o \in Ops |-> <<>>] /\ torn = "none"
    /\ place   = [o \in Ops |-> "absent"]
    /\ leaseID = [o \in Ops |-> 0]
    /\ at      = [o \in Ops |-> "new"]
    /\ verdict = [o \in Ops |-> [kind |-> "none", lease |-> 0]]
    /\ child   = [o \in Ops |-> "none"]
    /\ aged    = [o \in Ops |-> FALSE]
    /\ drop    = [op |-> NoOp, stage |-> "none"]
    /\ stuck   = {}

Finished == /\ \A o \in Ops : ~WrapperAlive(o) /\ child[o] # "live" /\ place[o] = "absent"
            /\ UNCHANGED vars

Wrapper(o) ==
    \/ RecordQueued(o) \/ AdmissionEnds(o) \/ RegisterWaiter(o) \/ Acquire(o) \/ GiveUp(o)
    \/ RecordAcquired(o) \/ ReserveForPressure(o) \/ RecordReserved(o) \/ AbandonStart(o)
    \/ BindPID(o) \/ RecordStarted(o) \/ ChildExit(o) \/ RecordTerminal(o) \/ Release(o)
    \/ Exit(o)
Next ==
    \/ \E o \in Ops : \/ Wrapper(o) \/ Crash(o) \/ ProbeRace(o) \/ Age(o)
                       \/ CancelSignal(o) \/ OverrideWaiter(o)
    \/ Status \/ StatusTears \/ DropLeaseCheck \/ DropLeaseAppend \/ Midnight \/ Prune
    \/ Finished

\* Wrappers go on, commands end, and somebody looks at the ledger again and again.
Fairness ==
    /\ \A o \in Ops : WF_vars(Wrapper(o))
    /\ SF_vars(Status /\ place' # place)
    /\ WF_vars(DropLeaseCheck) /\ WF_vars(DropLeaseAppend)
    /\ WF_vars(Midnight) /\ WF_vars(Prune)
Spec     == Init /\ [][Next]_vars
FairSpec == Spec /\ Fairness

-----------------------------------------------------------------------------
(***************************************************************************)
(* Properties.                                                             *)
(***************************************************************************)
\* The types of the store's rows and of the parties' states.
TypeOK ==
    /\ \A o \in Ops : \A i \in DOMAIN log[o] : log[o][i] \in Row
    /\ torn \in {"none", "today", "older", "pruned"}
    /\ place \in [Ops -> {"absent", "waiter", "wrapper", "child"}]
    /\ leaseID \in [Ops -> Nat]
    /\ verdict \in [Ops -> [kind: {"none", "completed", "failed", "interrupt", "timeout"},
                            lease: Nat]]
    /\ child \in [Ops -> {"none", "live", "gone"}] /\ aged \in [Ops -> BOOLEAN]
    /\ drop.op \in Ops \cup {NoOp} /\ stuck \subseteq Ops

\* The row of the current lease was lost, or its wrapper died before appending it.
Unannounced(o) ==
    leaseID[o] > 1 /\ \A i \in DOMAIN log[o] :
        log[o][i].event = "reacquired" => log[o][i].lease < leaseID[o]

\* The readers refuse an operation only in four cases: an operator cancelled it, its child
\* was reaped long after a reconciler expired the lease, it was promoted after a withdrawal
\* that failed, or its reservation was reacquired and nobody recorded that.  No other
\* crash, lost row or reservation cycle makes an operation unreadable
\* (workEventLifecycleValidator.add).
SkippedExplained ==
    /\ TypeOK
    /\ \A o \in SkippedOperations : aged[o] \/ drop.op = o \/ o \in stuck \/ Unannounced(o)

\* Whatever others recorded, the exit of the command that the wrapper itself saw is the
\* outcome that the statistics count (normalizeLateReconciliationTerminals).
ReceiptCounts ==
    \A o \in Ops : LET rows == ReadAll(log[o]) IN
        \A i \in DOMAIN rows : rows[i].exit => Summary(rows).outcome = rows[i].event

\* Neither count has an operation without such a row.
Signalled == {o \in Ops : \E i \in DOMAIN log[o] : IsWrapperInterruptEvent(log[o][i])}
\* The resident's count of interrupted operations, streamed over the shards of its window,
\* and the one of the statistics part in three cases only: a row in a shard that the stream
\* does not read is the reason why the statistics refuse the operation; the operation's
\* reservation is in such a shard, so that the stream refuses the lease that follows; or a
\* row lies behind one with a later stamp (CountWrapperInterruptOperations and
\* SummarizeWorkEvents).
StreamAgrees ==
    \A o \in Signalled : \A shards \in Shards(log[o]) :
        LET rows  == RowsOf(InTime(shards))
            whole == ReadAll(rows)
        IN  \A j \in DOMAIN shards \cup {0} :
                LET reports == SummarizeWorkEvents(whole, j)
                IN  \A k \in Older(shards) \cap 0..j :
                        LET streams == CountWrapperInterruptOperations(shards, k, j)
                        IN  /\ streams /\ ~reports => k > 0 /\ Lifecycle(rows).bad
                            /\ reports /\ ~streams =>
                                  ~InOrder(shards) \/ Lifecycle(SubSeq(rows, 1, k)).reserved

\* A record whose owners are gone leaves the ledger, and its operation gets an outcome
\* (reconcile; "a telemetry fault cannot leak capacity", finalizeWorkLease).
DeadOwnerSettled ==
    \A o \in Ops : Expirable(o) ~> (place[o] = "absent" /\ OperationHasTerminal(o))

====
