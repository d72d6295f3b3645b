------------------------------ MODULE WorkLease ------------------------------
(***************************************************************************)
(* The weighted work coordinator: sessionpressure/worklease.go together    *)
(* with the operator promotion sequence of workoverride.go and the parts   *)
(* of workrun.go that decide which process a lease belongs to.             *)
(*                                                                         *)
(* Every `session-pressure work run` is a wrapper process that shares one  *)
(* ledger file with all the others.  Each coordinator call takes the state *)
(* lock, reads the ledger, reconciles it against the live processes,       *)
(* applies one mutation and writes it back (withState), so a call is one   *)
(* atomic action here; what the wrapper does between two calls, and what   *)
(* it read before it took the lock, is a separate step.                    *)
(*                                                                         *)
(* An element of Ops is a slot for an operation: once nothing of the old   *)
(* operation is left the slot is used again for a new one, so that an      *)
(* endless stream of work is a behaviour of a finite instance.             *)
(***************************************************************************)
EXTENDS Integers, FiniteSets, Sequences

CONSTANTS
    Ops,           \* slots for operations
    NoOp,          \* "no operation"
    Weight,        \* WorkLimits.Weight of the operation's class
    Express,       \* operations of an express class (IsExpressClass)
    Parkable,      \* operations idle parking applies to (workIdleParkEligible)
    Pressured,     \* operations the post-lease host recheck may defer
    Crashable,     \* operations whose wrapper may be killed
    Cancellable,   \* operations an operator may `work cancel`
    Priority,      \* operations run with --priority
    Unattended,    \* operations that may run without --wait
    Sequences,     \* promotion sequences an operator may confirm
    Capacity,      \* WorkLimits.Capacity
    Ceilings,      \* effective ceilings a caller may carry
    Overcommit,    \* workGreenExpressOvercommit
    MaxBypasses,   \* workMaximumBypasses
    ScanLimit,     \* workSelectorScanLimit
    Lookahead      \* operations whose wrapper loaded the bounded-lookahead policy, not FIFO

\* WorkLimits as policy.go validates them: no class outweighs the host.
ASSUME LimitsAssumption ==
    /\ IsFiniteSet(Ops) /\ NoOp \notin Ops
    /\ Capacity \in Nat \ {0}
    /\ Weight \in [Ops -> 1..Capacity]
    /\ Express \subseteq Ops /\ Parkable \subseteq Ops
    /\ Ceilings \subseteq 1..Capacity
    /\ Overcommit \in Nat
    /\ MaxBypasses \in Nat \ {0}
    /\ ScanLimit \in Nat \ {0}
    /\ Lookahead \subseteq Ops
    /\ Sequences \subseteq Seq(Ops)

VARIABLES
    lease,     \* state.Leases: the record of each operation, NoLease if none
    waiter,    \* state.Waiters: likewise, NoWaiter if none
    pin,       \* OverrideOperationID and OverrideQueue: 1-based position, 0 if not pinned
    queuedAt,  \* the queue time an operation carries; only its order matters
    handle,    \* where the wrapper is: the handle it got from its last call
    wrapper,   \* what a probe of the wrapper's PID finds
    child,     \* what a probe of the leased child's PID finds
    cancel     \* how far an operator's `work cancel` of the operation has come

ledger    == <<lease, waiter, pin>>
Processes == <<queuedAt, handle, wrapper, child, cancel>>
vars      == <<lease, waiter, pin, queuedAt, handle, wrapper, child, cancel>>

(***************************************************************************)
(* Records.                                                                *)
(*                                                                         *)
(* lease.pid is the process the record names as its owner, the wrapper     *)
(* until BindPID and the child from then on.  woken and rode are history:  *)
(* woken says that the lease was parked and has been charged again, rode   *)
(* is the protected head the lease was admitted past in a green drain.     *)
(***************************************************************************)
LeaseRecord  == [pid: {"none", "wrapper", "child"}, parked: BOOLEAN,
                 woken: BOOLEAN, rode: Ops \cup {NoOp}]
WaiterRecord == [queued: BOOLEAN, bypasses: 0..MaxBypasses,
                 lastBypassed: {"never", "recent", "aged"},
                 protected: BOOLEAN, reserved: BOOLEAN]

NoLease  == [pid |-> "none", parked |-> FALSE, woken |-> FALSE, rode |-> NoOp]
NewLease == [NoLease EXCEPT !.pid = "wrapper"]

NoWaiter  == [queued |-> FALSE, bypasses |-> 0, lastBypassed |-> "never",
              protected |-> FALSE, reserved |-> FALSE]
NewWaiter == [NoWaiter EXCEPT !.queued = TRUE]
\* Mutant: a reservation filed without its kind.
UnkindedPressureWaiter == [NewWaiter EXCEPT !.protected = TRUE]
\* What ReserveForPressure files: protected from the start.
PressureWaiter == [NewWaiter EXCEPT !.protected = TRUE, !.reserved = TRUE]

Leased(l) == {o \in Ops : l[o].pid # "none"}
Queued(w) == {o \in Ops : w[o].queued}

(***************************************************************************)
(* Weighted capacity.  The load of a set of operations is the number of    *)
(* weight units they own; a parked lease is charged nothing.               *)
(***************************************************************************)
Units(S)   == {u \in S \X (1..Capacity) : u[2] <= Weight[u[1]]}
Load(S)    == Cardinality(Units(S))
Charged(l) == {o \in Leased(l) : ~l[o].parked}
\* Mutant: a lease that woke up is not charged again.
UsedSteady(l) == Load({o \in Charged(l) : ~l[o].woken})
Used(l)    == Load(Charged(l))
ExpressLeasedWeight(l) == Load(Charged(l) \cap Express)

\* The 1-based places of the members of S in the order rank gives them.
Positions(rank, S) ==
    [o \in Ops |-> IF o \in S /\ rank[o] > 0
                   THEN Cardinality({p \in S : rank[p] > 0 /\ rank[p] <= rank[o]})
                   ELSE 0]

(***************************************************************************)
(* reconcile: what every call does to the ledger before its own mutation.  *)
(* A record outlives its owner's PID only if the process found under that  *)
(* PID still has the start identity the record carries.                    *)
(***************************************************************************)
Alive(probe)        == probe \notin {"none", "gone"}
SameIdentity(probe) == probe # "other"
Owns(probe)         == Alive(probe) /\ SameIdentity(probe)

OwnerProbe(o) == IF lease[o].pid = "child" THEN child[o] ELSE wrapper[o]

\* The wrapper is the finalization authority: while it lives its lease stays,
\* whatever became of the child; and a live child keeps the lease of a dead wrapper.
\* Mutant: only the wrapper counts.
LeaseKeptByWrapper(o) == Owns(wrapper[o])
LeaseKept(o)  == Owns(wrapper[o]) \/ Owns(OwnerProbe(o))
WaiterKept(o) == Owns(wrapper[o])

KeptWaiter == [o \in Ops |-> IF WaiterKept(o) THEN waiter[o] ELSE NoWaiter]

\* Leases that survive when the waiters left are W.  A rider's history ends
\* with the wait of the head it rode past.
KeptLease(W) ==
    [o \in Ops |-> IF ~LeaseKept(o) THEN NoLease
                   ELSE IF lease[o].rode \in W THEN lease[o]
                   ELSE [lease[o] EXCEPT !.rode = NoOp]]

\* advanceWorkOverride: pinned operations that left the queue are dropped and
\* the others close ranks.
AdvanceWorkOverride(W) == Positions(pin, W)

\* A ledger write that changes no record but those reconcile drops.
ReconcileRecords ==
    /\ waiter' = KeptWaiter
    /\ lease'  = KeptLease(Queued(KeptWaiter))
Reconcile == ReconcileRecords /\ pin' = AdvanceWorkOverride(Queued(KeptWaiter))

(***************************************************************************)
(* Selection.                                                              *)
(***************************************************************************)
\* What greenExpressWindow may have read before the lock was taken.
Closed       == [active |-> FALSE, overcommit |-> 0]
GreenWindows == {Closed, [active |-> TRUE, overcommit |-> 0],
                 [active |-> TRUE, overcommit |-> Overcommit]}

Older(p, o) == queuedAt[p] < queuedAt[o]
Oldest(S)   == {o \in S : \A p \in S \ {o} : Older(o, p)}

\* The reasons workWaiterProtection re-derives, and the one it remembers.
EarnedProtection(w, o, cap) ==
    \/ w[o].reserved
    \/ Weight[o] = cap
    \/ w[o].bypasses >= MaxBypasses
    \/ w[o].lastBypassed = "aged"
WorkWaiterProtection(w, o, cap) == EarnedProtection(w, o, cap) \/ w[o].protected

\* "exclusive_capacity" is the reason given: no ride-through in this drain.
ExclusiveDrain(w, o, cap) == ~w[o].reserved /\ Weight[o] = cap

MaterializeWorkProtections(w) ==
    [o \in Ops |-> IF w[o].queued /\ WorkWaiterProtection(w, o, Capacity)
                   THEN [w[o] EXCEPT !.protected = TRUE] ELSE w[o]]

InScan(w, o) == Cardinality({p \in Queued(w) : Older(p, o)}) < ScanLimit

\* Mutant: express leases do not count against the overcommit.
OvercommitUncounted(o, used, cap, green) ==
    /\ green.active /\ o \in Express
    /\ used - ExpressLeasedWeight(lease) + Weight[o] <= cap + green.overcommit
OvercommitFits(o, used, cap, green) ==
    green.active /\ o \in Express /\ used + Weight[o] <= cap + green.overcommit

\* Mutant: whatever fits goes past the head.
UndrainedSuccessors(w, h, used, cap, green, expressLeased) ==
    {o \in Queued(w) \ {h} : used + Weight[o] <= cap}
\* Express work that may ride through the drain reserved for the head h.
DrainRiders(w, h, used, cap, green, expressLeased) ==
    {o \in Queued(w) \ {h} :
        /\ green.active /\ ~ExclusiveDrain(w, h, cap)
        /\ o \in Express /\ InScan(w, o)
        /\ used + Weight[o] <= cap
        /\ expressLeased + Weight[o] + Weight[h] <= cap}

Feasible(w, used, cap, green) ==
    {o \in Queued(w) : /\ InScan(w, o)
                       /\ \/ used + Weight[o] <= cap
                          \/ OvercommitFits(o, used, cap, green)}

\* selectWorkWaiter: the operation selected, as a set of at most one.
SelectWorkWaiter(w, used, cap, green, expressLeased) ==
    UNION {IF ~WorkWaiterProtection(w, h, cap) THEN Oldest(Feasible(w, used, cap, green))
           ELSE IF used + Weight[h] <= cap THEN {h}
           ELSE Oldest(DrainRiders(w, h, used, cap, green, expressLeased))
           : h \in Oldest(Queued(w))}

\* selectFIFOWorkWaiter: the head or nobody.
SelectFIFOWorkWaiter(w, used, cap, green) ==
    {h \in Oldest(Queued(w)) : \/ used + Weight[h] <= cap
                               \/ OvercommitFits(h, used, cap, green)}

\* selectStateWaiter: a pinned head comes first and reserves the drain; then
\* the policy the caller loaded decides.
SelectStateWaiter(w, pins, l, cap, green, lookahead) ==
    LET used   == Used(l)
        pinned == {o \in Queued(w) : pins[o] = 1}
    IN  IF pinned # {} THEN {o \in pinned : used + Weight[o] <= cap}
        ELSE IF lookahead
        THEN SelectWorkWaiter(w, used, cap, green, ExpressLeasedWeight(l))
        ELSE SelectFIFOWorkWaiter(w, used, cap, green)

\* Mutant: a drain ride counts as a bypass of the protected head.
BypassedByRider(w, pins, o, cap) == {h \in Oldest(Queued(w)) : h # o}
\* The head a selection of o bypasses: an unprotected one, and only when the
\* selection was not the operator's.
Bypassed(w, pins, o, cap) ==
    {h \in Oldest(Queued(w)) : h # o /\ ~WorkWaiterProtection(w, h, cap)
                               /\ \A p \in Queued(w) : pins[p] # 1}

BypassRecord(r) ==
    [r EXCEPT !.bypasses = @ + 1,
              !.lastBypassed = IF @ = "never" THEN "recent" ELSE @,
              !.protected = @ \/ r.bypasses + 1 >= MaxBypasses]

\* The protected head o is admitted past, if this is a drain ride.
RodePast(w, pins, o, cap) ==
    LET heads == {h \in Oldest(Queued(w)) : h # o /\ WorkWaiterProtection(w, h, cap)
                                            /\ \A p \in Queued(w) : pins[p] # 1}
    IN  IF heads = {} THEN NoOp ELSE CHOOSE h \in heads : TRUE

(***************************************************************************)
(* The wrapper's calls.                                                    *)
(***************************************************************************)
Init ==
    /\ lease    = [o \in Ops |-> NoLease]
    /\ waiter   = [o \in Ops |-> NoWaiter]
    /\ pin      = [o \in Ops |-> 0]
    /\ queuedAt = [o \in Ops |-> 0]
    /\ handle   = [o \in Ops |-> "none"]
    /\ wrapper  = [o \in Ops |-> "none"]
    /\ child    = [o \in Ops |-> "none"]
    /\ cancel   = [o \in Ops |-> "no"]

\* Operations whose queue time can still be compared with another's.
Dated == Leased(lease) \cup Queued(waiter) \cup {o \in Ops : handle[o] = "arrived"}

\* A new wrapper starts; RegisterWaiter and newLeaseRecord read the clock
\* before withState takes the lock.
Arrive(o) ==
    /\ o \notin Dated /\ handle[o] = "none" /\ child[o] \notin {"gated", "running"}
    /\ queuedAt' = [Positions(queuedAt, Dated) EXCEPT ![o] = Cardinality(Dated) + 1]
    /\ handle'   = [handle EXCEPT ![o] = "arrived"]
    /\ wrapper'  = [wrapper EXCEPT ![o] = "self"]
    /\ child'    = [child EXCEPT ![o] = "none"]
    /\ cancel'   = [cancel EXCEPT ![o] = "no"]
    /\ UNCHANGED ledger

\* The wrapper gives up and exits.
Exit(o) ==
    /\ handle'  = [handle EXCEPT ![o] = "none"]
    /\ wrapper' = [wrapper EXCEPT ![o] = "none"]
    /\ UNCHANGED <<queuedAt, child, cancel>>

RegisterWaiter(o) ==
    /\ handle[o] = "arrived"
    /\ LET w == [KeptWaiter EXCEPT ![o] = NewWaiter]
       IN  /\ waiter' = w
           /\ lease' = KeptLease(Queued(KeptWaiter))
           /\ pin' = AdvanceWorkOverride(Queued(KeptWaiter))
    /\ handle' = [handle EXCEPT ![o] = IF o \in Priority THEN "registered" ELSE "waiting"]
    /\ UNCHANGED <<queuedAt, wrapper, child, cancel>>

\* Mutant: the agent's waiter goes in front.
PrependPinned(pinned, o) ==
    [p \in Ops |-> IF p = o THEN 1
                   ELSE IF p \in pinned THEN AdvanceWorkOverride(pinned)[p] + 1 ELSE 0]
AppendPinned(pinned, o) ==
    IF o \in pinned THEN AdvanceWorkOverride(pinned)
    ELSE [AdvanceWorkOverride(pinned) EXCEPT ![o] = Cardinality(pinned) + 1]

\* PrioritizeWaiter: the agent's own waiter goes behind everything pinned; a
\* sequence that would grow too long is refused and the waiter cancelled.
PrioritizeWaiter(o) ==
    /\ handle[o] = "registered"
    /\ LET pinned == {p \in Queued(KeptWaiter) : pin[p] > 0}
       IN  IF Cardinality(pinned \cup {o}) > ScanLimit
           THEN /\ waiter' = [KeptWaiter EXCEPT ![o] = NoWaiter]
                /\ pin' = AdvanceWorkOverride(pinned)
                /\ lease' = KeptLease(Queued(waiter'))
                /\ Exit(o)
           ELSE /\ waiter' = KeptWaiter
                /\ pin' = AppendPinned(pinned, o)
                /\ lease' = KeptLease(Queued(KeptWaiter))
                /\ handle' = [handle EXCEPT ![o] = "waiting"]
                /\ UNCHANGED <<queuedAt, wrapper, child, cancel>>

\* TryAcquireWithCapacity, selected: bypass accounting, the waiter leaves, the
\* promotion sequence advances, the lease is filed with the waiter's queue time.
TryAcquire(o) ==
    LET w    == MaterializeWorkProtections(KeptWaiter)
        l    == KeptLease(Queued(w))
        pins == AdvanceWorkOverride(Queued(w))
        left == Queued(w) \ {o}
    IN
    /\ handle[o] = "waiting"
    /\ \E cap \in Ceilings, window \in GreenWindows :
        LET green == IF cap < Capacity THEN Closed ELSE window
        IN  /\ o \in SelectStateWaiter(w, pins, l, cap, green, o \in Lookahead)
            /\ waiter' = [p \in Ops |->
                            IF p = o THEN NoWaiter
                            ELSE IF p \in Bypassed(w, pins, o, cap) THEN BypassRecord(w[p])
                            ELSE w[p]]
            /\ pin' = AdvanceWorkOverride(left)
            /\ lease' = [KeptLease(left) EXCEPT
                            ![o] = [NewLease EXCEPT !.rode = RodePast(w, pins, o, cap)]]
    /\ handle' = [handle EXCEPT ![o] = "lease"]
    /\ UNCHANGED <<queuedAt, wrapper, child, cancel>>

\* TryAcquireWithCapacity, not selected: the heartbeat is written, and with it
\* the protections this poll materialized.
TryAcquireDenied(o) ==
    /\ handle[o] = "waiting"
    /\ LET w == MaterializeWorkProtections(KeptWaiter)
           l == KeptLease(Queued(w))
           pins == AdvanceWorkOverride(Queued(w))
       IN  /\ \E cap \in Ceilings, window \in GreenWindows :
                 o \notin SelectStateWaiter(w, pins, l, cap,
                                            IF cap < Capacity THEN Closed ELSE window,
                                            o \in Lookahead)
           /\ waiter' = w /\ lease' = l /\ pin' = pins
    /\ UNCHANGED Processes

\* AcquireOperationWithCapacity: no waiting, and no overtaking of those who do.
Acquire(o) ==
    LET w == KeptWaiter
        l == KeptLease(Queued(w))
        Fits(cap, window) ==
            /\ Queued(w) = {}
            /\ \/ Used(l) + Weight[o] <= cap
               \/ OvercommitFits(o, Used(l), cap, IF cap < Capacity THEN Closed ELSE window)
    IN  /\ handle[o] = "arrived" /\ o \in Unattended
        /\ waiter' = w /\ pin' = AdvanceWorkOverride(Queued(w))
        /\ \E cap \in Ceilings, window \in GreenWindows :
            \/ /\ Fits(cap, window)
               /\ lease'  = [l EXCEPT ![o] = NewLease]
               /\ handle' = [handle EXCEPT ![o] = "lease"]
               /\ UNCHANGED <<queuedAt, wrapper, child, cancel>>
            \/ /\ ~Fits(cap, window)
               /\ lease' = l
               /\ Exit(o)

\* WorkWaiter.Cancel: the wait's context ended.
Cancel(o) ==
    /\ handle[o] = "waiting"
    /\ waiter' = [KeptWaiter EXCEPT ![o] = NoWaiter]
    /\ pin' = AdvanceWorkOverride(Queued(KeptWaiter) \ {o})
    /\ lease' = KeptLease(Queued(KeptWaiter) \ {o})
    /\ Exit(o)

\* ReserveForPressure: the host turned red between the acquisition and the
\* start, so the lease goes back to the queue with the age it had.
ReserveForPressure(o) ==
    /\ handle[o] = "lease" /\ child[o] = "none" /\ o \in Pressured \ Unattended
    /\ lease[o].pid # "none"
    /\ waiter' = [KeptWaiter EXCEPT ![o] = PressureWaiter]
    /\ lease' = [KeptLease(Queued(KeptWaiter)) EXCEPT ![o] = NoLease]
    /\ pin' = AdvanceWorkOverride(Queued(KeptWaiter))
    /\ handle' = [handle EXCEPT ![o] = "waiting"]
    /\ UNCHANGED <<queuedAt, wrapper, child, cancel>>

\* newGatedWorkCommand: the child is forked but blocks on the gate pipe.
StartGated(o) ==
    /\ handle[o] = "lease" /\ child[o] = "none"
    /\ child' = [child EXCEPT ![o] = "gated"]
    /\ UNCHANGED <<ledger, queuedAt, handle, wrapper, cancel>>

\* BindPID: from here on the lease lives as long as the child does.  A lease
\* that is gone fails the run: the gate is closed and the child never execs.
BindPID(o) ==
    /\ handle[o] = "lease" /\ child[o] = "gated"
    /\ LET l == KeptLease(Queued(KeptWaiter))
       IN  IF l[o].pid = "none"
           THEN /\ Reconcile
                /\ child' = [child EXCEPT ![o] = "gone"]
                /\ UNCHANGED handle
           ELSE /\ waiter' = KeptWaiter /\ pin' = AdvanceWorkOverride(Queued(KeptWaiter))
                /\ lease'  = [l EXCEPT ![o].pid = "child"]
                /\ handle' = [handle EXCEPT ![o] = "bound"]
                /\ UNCHANGED child
    /\ UNCHANGED <<queuedAt, wrapper, cancel>>

\* The gate token is written: the command runs.
OpenGate(o) ==
    /\ handle[o] = "bound" /\ child[o] = "gated"
    /\ child' = [child EXCEPT ![o] = "running"]
    /\ UNCHANGED <<ledger, queuedAt, handle, wrapper, cancel>>

\* SetParked, from the wrapper's idle detector: an idle group is charged
\* nothing, and is charged again at once when it wakes.
SetParked(o) ==
    /\ handle[o] = "bound" /\ child[o] # "gated" /\ o \in Parkable
    /\ \E parked \in BOOLEAN :
        LET l == KeptLease(Queued(KeptWaiter))
        IN  /\ lease' = IF l[o].pid = "none" THEN l
                        ELSE [l EXCEPT ![o].parked = parked,
                                       ![o].woken = @ \/ (l[o].parked /\ ~parked)]
            /\ waiter' = KeptWaiter /\ pin' = AdvanceWorkOverride(Queued(KeptWaiter))
    /\ UNCHANGED Processes

\* Release: after Wait has returned, or when the run fails before its start.
Release(o) ==
    /\ handle[o] \in {"lease", "bound"} /\ child[o] \notin {"gated", "running"}
    /\ waiter' = KeptWaiter /\ pin' = AdvanceWorkOverride(Queued(KeptWaiter))
    /\ lease'  = [KeptLease(Queued(KeptWaiter)) EXCEPT ![o] = NoLease]
    /\ Exit(o)

(***************************************************************************)
(* The operator's calls, and a plain Status.                               *)
(***************************************************************************)
\* CancelWork in three steps.  InspectWork notes the process tree of the
\* lease's PID as it is now ...
InspectWork(o) ==
    /\ o \in Cancellable /\ cancel[o] = "no" /\ LeaseKept(o) /\ lease[o].pid # "none"
    /\ Reconcile
    /\ cancel' = [cancel EXCEPT ![o] = IF lease[o].pid = "child" THEN "child"
                                       ELSE IF child[o] = "none" THEN "wrapper" ELSE "tree"]
    /\ UNCHANGED <<queuedAt, handle, wrapper, child>>

\* ... that tree is killed ...
SignalTree(o) ==
    /\ cancel[o] \in {"wrapper", "tree", "child"}
    /\ cancel' = [cancel EXCEPT ![o] = "signalled"]
    /\ LET killed == cancel[o] # "child" /\ wrapper[o] = "self"
       IN  /\ wrapper' = IF killed THEN [wrapper EXCEPT ![o] = "gone"] ELSE wrapper
           /\ handle'  = IF killed THEN [handle EXCEPT ![o] = "none"] ELSE handle
           /\ child'   = [child EXCEPT ![o] =
                            IF @ = "gated" \/ (@ = "running" /\ cancel[o] # "wrapper")
                            THEN "gone" ELSE @]
    /\ UNCHANGED <<ledger, queuedAt>>

\* ... and DropLease removes the lease, whatever its owner is by then.
DropLease(o) ==
    /\ cancel[o] = "signalled"
    /\ waiter' = KeptWaiter /\ pin' = AdvanceWorkOverride(Queued(KeptWaiter))
    /\ lease'  = [KeptLease(Queued(KeptWaiter)) EXCEPT ![o] = NoLease]
    /\ cancel' = [cancel EXCEPT ![o] = IF LeaseKept(o) /\ lease[o].pid # "none"
                                       THEN "dropped" ELSE "no"]
    /\ UNCHANGED <<queuedAt, handle, wrapper, child>>

\* The first place of every operation in the sequence s, 0 if it is not there.
FirstPlace(s) ==
    [o \in Ops |-> IF \E i \in DOMAIN s : s[i] = o
                   THEN Cardinality({i \in DOMAIN s : \A j \in 1..i : s[j] # o}) + 1
                   ELSE 0]

\* OverrideWaiters: the confirmed sequence replaces the earlier one, and is
\* refused whole when one of its operations is not queued.
OverrideWaiters(s) ==
    /\ ReconcileRecords
    /\ pin' = IF \A i \in DOMAIN s : s[i] \in Queued(KeptWaiter)
              THEN Positions(FirstPlace(s), Queued(KeptWaiter))
              ELSE AdvanceWorkOverride(Queued(KeptWaiter))
    /\ UNCHANGED Processes

\* OverrideAllWaiters: the queue as it stands, up to the longest sequence allowed.
OverrideAllWaiters ==
    LET order == Positions(queuedAt, Queued(KeptWaiter))
    IN  /\ Sequences # {} /\ Queued(KeptWaiter) # {}
        /\ ReconcileRecords
        /\ pin' = [o \in Ops |-> IF order[o] <= ScanLimit THEN order[o] ELSE 0]
        /\ UNCHANGED Processes

ClearWaiterOverride ==
    /\ \E o \in Queued(KeptWaiter) : pin[o] > 0
    /\ ReconcileRecords
    /\ pin' = [o \in Ops |-> 0]
    /\ UNCHANGED Processes

Status == Reconcile /\ UNCHANGED Processes

(***************************************************************************)
(* The environment: exits, kills, PID reuse, the passing of time.          *)
(***************************************************************************)
ChildExit(o) ==
    /\ child[o] \in {"gated", "running"}
    /\ child' = [child EXCEPT ![o] = "gone"]
    /\ UNCHANGED <<ledger, queuedAt, handle, wrapper, cancel>>

\* The wrapper is killed.  A gated child reads end of file and exits; a
\* running one goes on.
Crash(o) ==
    /\ wrapper[o] = "self" /\ o \in Crashable
    /\ wrapper' = [wrapper EXCEPT ![o] = "gone"]
    /\ handle'  = [handle EXCEPT ![o] = "none"]
    /\ child'   = [child EXCEPT ![o] = IF @ = "gated" THEN "gone" ELSE @]
    /\ UNCHANGED <<ledger, queuedAt, cancel>>

\* The kernel gives a dead process's PID to an unrelated one.
ReusePID(o) ==
    /\ o \in Crashable /\ o \in Leased(lease) \cup Queued(waiter)
    /\ \/ /\ wrapper[o] = "gone"
          /\ wrapper' = [wrapper EXCEPT ![o] = "other"] /\ UNCHANGED child
       \/ /\ child[o] = "gone"
          /\ child' = [child EXCEPT ![o] = "other"] /\ UNCHANGED wrapper
    /\ UNCHANGED <<ledger, queuedAt, handle, cancel>>

\* WorkReservationAge has passed since the first bypass of a waiter.
AgeBypass(o) ==
    /\ waiter[o].lastBypassed = "recent"
    /\ waiter' = [waiter EXCEPT ![o].lastBypassed = "aged"]
    /\ UNCHANGED <<lease, pin, Processes>>

Next ==
    \/ \E o \in Ops :
        \/ Arrive(o) \/ RegisterWaiter(o) \/ PrioritizeWaiter(o) \/ TryAcquire(o)
        \/ TryAcquireDenied(o) \/ Acquire(o) \/ Cancel(o) \/ ReserveForPressure(o)
        \/ StartGated(o) \/ BindPID(o) \/ OpenGate(o) \/ SetParked(o) \/ Release(o)
        \/ InspectWork(o) \/ SignalTree(o) \/ DropLease(o)
        \/ ChildExit(o) \/ Crash(o) \/ ReusePID(o) \/ AgeBypass(o)
    \/ \E s \in Sequences : OverrideWaiters(s)
    \/ OverrideAllWaiters \/ ClearWaiterOverride \/ Status

Spec == Init /\ [][Next]_vars

\* A waiting wrapper polls every two seconds, a wrapper that holds a lease goes
\* on to start its command, and commands end; nobody has to arrive, to give
\* up, to park or to crash.
Fairness ==
    \A o \in Ops :
        /\ WF_vars(RegisterWaiter(o)) /\ WF_vars(PrioritizeWaiter(o)) /\ WF_vars(TryAcquire(o))
        /\ WF_vars(StartGated(o)) /\ WF_vars(BindPID(o)) /\ WF_vars(OpenGate(o))
        /\ WF_vars(ChildExit(o)) /\ WF_vars(Release(o))

FairSpec == Spec /\ Fairness

(***************************************************************************)
(* Properties.                                                             *)
(***************************************************************************)
\* The shape of the ledger file and of the processes around it.
TypeOK ==
    /\ lease    \in [Ops -> LeaseRecord]
    /\ waiter   \in [Ops -> WaiterRecord]
    /\ pin      \in [Ops -> Nat]
    /\ queuedAt \in [Ops -> Nat]
    /\ handle   \in [Ops -> {"none", "arrived", "registered", "waiting", "lease", "bound"}]
    /\ wrapper  \in [Ops -> {"none", "self", "gone", "other"}]
    /\ child    \in [Ops -> {"none", "gated", "running", "gone", "other"}]
    /\ cancel   \in [Ops -> {"no", "wrapper", "tree", "child", "signalled", "dropped"}]

\* The charged leases that were never parked.
Steady(l) == {o \in Charged(l) : ~l[o].woken}

\* The hard ceiling: the charged weight of the leases that were never parked
\* stays within Capacity plus the express overcommit, and what is above
\* Capacity is express work, whoever admitted it: the selector, a promotion,
\* a drain ride, a warning-derated caller or a run without --wait.
CapacityCeiling ==
    /\ Load(Steady(lease)) <= Capacity + Overcommit
    /\ Load(Steady(lease) \ Express) <= Capacity

\* reconcile never refuses a ledger the coordinator wrote itself: no
\* operation is both leased and queued, and every materialized protection can
\* be re-derived ("premature protection" would wedge every call on the host).
LedgerValid ==
    /\ Leased(lease) \cap Queued(waiter) = {}
    /\ \A o \in Queued(waiter) :
        waiter[o].protected => EarnedProtection(waiter, o, Capacity)

\* A live wrapper never loses its record: what it waits for is queued, what it
\* holds is leased, unless an operator dropped the lease.
HandleBacked ==
    \A o \in Ops :
        /\ handle[o] \in {"registered", "waiting"} => waiter[o].queued
        /\ handle[o] = "lease" /\ cancel[o] # "dropped" => lease[o].pid = "wrapper"
        /\ handle[o] = "bound" /\ cancel[o] # "dropped" => lease[o].pid = "child"

\* A running command is accounted for, even after its wrapper is killed: it
\* has a lease until it exits, unless an operator's cancel dropped it.
CommandCovered ==
    \A o \in Ops : child[o] = "running" => lease[o].pid = "child" \/ cancel[o] = "dropped"

OperatorOverride == (\E s \in Sequences : OverrideWaiters(s)) \/ OverrideAllWaiters

\* Nothing but an operator's own request reorders the promotion sequence: the
\* survivors keep their order, and a newcomer goes behind all of them.
PinOrderKept ==
    [][(\A p, q \in Ops : pin'[p] > 0 /\ pin'[q] > 0 /\ p # q /\ pin[p] > 0 =>
            (pin'[p] < pin'[q] <=> (pin[p] < pin[q] \/ pin[q] = 0)))
       \/ OperatorOverride]_vars

\* No starvation: an operation that waits for the queue is admitted in the
\* end, under an endless stream of lighter and of express work.
Served == \A o \in Ops : handle[o] = "waiting" ~> handle[o] # "waiting"

\* Express work that rode through a protected head's drain only ever occupies
\* "the residue the head can never use", however many ride: a lease that was
\* parked and woke is the only way past it (selectWorkWaiter).
DrainResidue ==
    \A h \in Queued(waiter) :
        Load({o \in Steady(lease) : lease[o].rode = h}) + Weight[h] <= Capacity

\* What a lease is to the pool of units.
Share ==
    [o \in Ops |-> IF lease[o].pid = "none" THEN "none"
                   ELSE IF lease[o].parked THEN "parked"
                   ELSE IF lease[o].woken THEN "woken" ELSE "charged"]

Pool == INSTANCE WeightedPool WITH Members <- Ops, share <- Share

\* The coordinator implements the pool: whatever the promotions, drain rides, bypasses,
\* derated callers, crashes and reused PIDs, a lease is only ever filed for one operation at
\* a time and after weighing it against every lease the same ledger write leaves charged
\* (tryAcquire, AcquireOperationWithCapacity).
Implements == Pool!Spec

=============================================================================
