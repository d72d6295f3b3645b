---------------------------- MODULE AdmissionGate ----------------------------
(***************************************************************************)
(* The host-pressure gate in front of the work queue: the shared CPU latch *)
(* and the admission holds of workadmissionhold.go, and the wrapper's gate *)
(* and wait loop of workrun.go (observe, waitForWorkAdmission).            *)
(*                                                                         *)
(* A wrapper samples the host and reads its clock, and only then takes the *)
(* ledger lock; observations therefore reach the latch late and out of     *)
(* order.  A call on the ledger may also fail: its context ends after two  *)
(* seconds, and the wrapper goes on without it.                            *)
(***************************************************************************)
EXTENDS Integers

CONSTANTS
    Wrappers,        \* `work run` processes that wait
    BlockSamples,    \* CPUBlockSamples
    ReleaseSamples,  \* CPUReleaseSamples
    Interval,        \* workAdmissionLatchSampleInterval, in ticks
    StaleAfter,      \* workAdmissionLatchStale, in ticks
    MaxLag,          \* ticks an observation may wait for the lock
    Failing,         \* the wrappers whose calls of "observe", "hold", "release" may fail
    Views            \* what a sample of the host may show

ASSUME GateAssumption ==
    /\ BlockSamples \in Nat \ {0} /\ ReleaseSamples \in Nat \ {0}
    /\ Interval \in Nat \ {0} /\ StaleAfter \in Nat /\ Interval <= StaleAfter
    /\ MaxLag \in Nat
    /\ Failing \in [{"observe", "hold", "release"} -> SUBSET Wrappers]
    \* CPU at or above red, between the thresholds, below the release
    \* threshold; or the host is short of something other than CPU.
    /\ Views \subseteq {"red", "warm", "cool", "memory"}

VARIABLES
    latch,     \* state.AdmissionLatch; age is the time since ObservedAt, -1 if none
    span,      \* history: time covered by the counted samples behind each counter
    gate,      \* where each wrapper is
    view,      \* the sample it has taken and not yet observed, or "none"
    lag,       \* the time since it read its clock
    private,   \* its own copy of the latch, followed if it can ever fall back to it
    hold,      \* state.AdmissionHolds
    held       \* the wrapper has to withdraw its hold

vars == <<latch, span, gate, view, lag, private, hold, held>>

NoLatch == [latched |-> FALSE, red |-> 0, recovery |-> 0, age |-> -1]
NoSpan  == [red |-> 0, recovery |-> 0, latched |-> 0]
NoCount == [latched |-> FALSE, red |-> 0, recovery |-> 0]

\* "out": no process.  "sample" to "hold": at the gate.  "withdraw": let
\* through, the hold not yet withdrawn.  "queue": with the coordinator.
\* "recheck", "reobserve": holds a lease and samples again.  "reserve" to
\* "regate": deferred after that, at the gate as a protected waiter.
AtGate == {"sample", "observe", "hold"}

\* A counter, or a history of one, is not followed beyond what the gate compares.
Upto(n, bound) == IF n > bound THEN bound ELSE n

Init ==
    /\ latch = NoLatch /\ span = NoSpan
    /\ gate = [w \in Wrappers |-> "out"]
    /\ view = [w \in Wrappers |-> "none"]
    /\ lag = [w \in Wrappers |-> 0]
    /\ private = [w \in Wrappers |-> NoCount]
    /\ hold = [w \in Wrappers |-> FALSE]
    /\ held = [w \in Wrappers |-> FALSE]

(***************************************************************************)
(* ObserveAdmissionLatch.                                                  *)
(***************************************************************************)
\* The time between the last counted sample and this one, by their clocks.
Elapsed(w) == latch.age - lag[w]

\* Nobody has polled for so long that the latch is no evidence any more.
Lapsed(w) == latch.age >= 0 /\ Elapsed(w) > StaleAfter

\* Mutant: every observer counts.
CountedAlways(w) == TRUE
Counted(w) == latch.age < 0 \/ Lapsed(w) \/ Elapsed(w) >= Interval

Current(w)     == IF Lapsed(w) THEN NoLatch ELSE latch
CurrentSpan(w) == IF Lapsed(w) THEN NoSpan ELSE span

\* The latch after a counted sample of wrapper w.
Fold(w) ==
    LET old == Current(w)
        new == CASE view[w] = "red" ->
                      [latched |-> old.latched \/ old.red + 1 >= BlockSamples,
                       red |-> Upto(old.red + 1, BlockSamples), recovery |-> 0]
                 [] view[w] = "cool" ->
                      IF old.latched /\ old.recovery + 1 >= ReleaseSamples
                      THEN [latched |-> FALSE, red |-> 0, recovery |-> 0]
                      ELSE [latched |-> old.latched, red |-> 0,
                            recovery |-> Upto(old.recovery + 1, ReleaseSamples)]
                 [] OTHER -> [latched |-> old.latched, red |-> old.red, recovery |-> 0]
    IN  [latched |-> new.latched, red |-> new.red, recovery |-> new.recovery, age |-> lag[w]]

\* A span this long is evidence enough for either counter.
MaxSpan == (IF BlockSamples > ReleaseSamples THEN BlockSamples ELSE ReleaseSamples) * Interval

\* History: a counter that starts starts a span, one that goes on lengthens it.
FoldSpan(w) ==
    LET old  == CurrentSpan(w)
        step == IF Current(w).age < 0 THEN 0 ELSE Elapsed(w)
        Grown(count, s) == IF count = 0 THEN 0 ELSE Upto(s + step, MaxSpan)
        red  == IF view[w] = "cool" THEN 0 ELSE Grown(Current(w).red, old.red)
    IN  [red      |-> red,
         recovery |-> IF view[w] = "cool" THEN Grown(Current(w).recovery, old.recovery) ELSE 0,
         latched  |-> IF ~Current(w).latched THEN red ELSE old.latched]

\* Mutant: a hold lapses while its wrapper sleeps between two polls.
LiveHoldsPolled == [w \in Wrappers |-> hold[w] /\ gate[w] \notin {"out", "sample"}]
\* reconcile drops the holds of dead wrappers before every mutation.
LiveHolds == [w \in Wrappers |-> hold[w] /\ gate[w] # "out"]

\* Deferred with a lease in hand, the wrapper takes the same sample to the gate.
Decide(w, allowed) ==
    /\ gate' = [gate EXCEPT ![w] =
                  CASE @ = "observe"   -> IF allowed THEN "withdraw" ELSE "hold"
                    [] @ = "reobserve" -> IF allowed THEN "started" ELSE "reserve"
                    [] @ = "regate"    -> IF allowed THEN "queue" ELSE "resample"]
    /\ view' = [view EXCEPT ![w] = IF gate[w] = "reobserve" /\ ~allowed THEN @ ELSE "none"]
    /\ lag' = [lag EXCEPT ![w] = 0]

\* Mutant: every sample reaches the latch.
ReachesLatchAlways(w) == TRUE
\* A sample of a host that is short of something else answers for itself only.
ReachesLatch(w) == view[w] # "memory"

Observing(w) == gate[w] \in {"observe", "reobserve", "regate"}

\* observe with the shared latch.
ObserveShared(w) ==
    /\ Observing(w) /\ ReachesLatch(w)
    /\ LET new == IF Counted(w) THEN Fold(w) ELSE latch
       IN  /\ latch' = new
           /\ span' = IF Counted(w) THEN FoldSpan(w) ELSE span
           /\ private' = [private EXCEPT ![w] = IF w \in Failing["observe"]
                                                THEN [latched |-> new.latched, red |-> new.red,
                                                      recovery |-> new.recovery]
                                                ELSE NoCount]
           /\ Decide(w, ~new.latched /\ view[w] # "red")
    /\ hold' = LiveHolds
    /\ UNCHANGED held

\* Mutant: the recovery counted while the latch was open still counts.
PrivateLatchKeepsRecovery(old) == [latched |-> TRUE, red |-> BlockSamples, recovery |-> old.recovery]
\* The wrapper's own copy closes.
PrivateLatch(old) == [latched |-> TRUE, red |-> BlockSamples, recovery |-> 0]

\* observe when the ledger could not be locked in time.
ObservePrivate(w) ==
    /\ Observing(w) /\ ReachesLatch(w) /\ w \in Failing["observe"]
    /\ LET old == private[w]
           new == CASE ~old.latched /\ view[w] = "red" ->
                         IF old.red + 1 >= BlockSamples
                         THEN PrivateLatch(old)
                         ELSE [old EXCEPT !.red = @ + 1]
                    [] ~old.latched /\ view[w] # "red" -> [old EXCEPT !.red = 0]
                    [] old.latched /\ view[w] = "cool" ->
                         IF old.recovery + 1 >= ReleaseSamples
                         THEN [latched |-> FALSE, red |-> 0, recovery |-> Upto(old.recovery + 1, ReleaseSamples)]
                         ELSE [old EXCEPT !.recovery = @ + 1]
                    [] OTHER -> [old EXCEPT !.recovery = 0]
       IN  /\ private' = [private EXCEPT ![w] = new]
           /\ Decide(w, ~new.latched /\ view[w] # "red")
    /\ UNCHANGED <<latch, span, hold, held>>

\* observe of a dimension other than CPU.
ObserveOther(w) ==
    /\ Observing(w) /\ ~ReachesLatch(w)
    /\ private' = [private EXCEPT ![w].red = 0, ![w].recovery = 0]
    /\ Decide(w, FALSE)
    /\ UNCHANGED <<latch, span, hold, held>>

(***************************************************************************)
(* waitForWorkAdmission and what RunWorkCommand does around it.            *)
(***************************************************************************)
Arrive(w) ==
    /\ gate[w] = "out" /\ ~hold[w]
    /\ gate' = [gate EXCEPT ![w] = "sample"]
    /\ UNCHANGED <<latch, span, view, lag, private, hold, held>>

\* admissionCheck, then the clock.
Sample(w) ==
    /\ gate[w] \in {"sample", "recheck", "resample"}
    /\ gate' = [gate EXCEPT ![w] = CASE @ = "sample"   -> "observe"
                                     [] @ = "recheck"  -> "reobserve"
                                     [] @ = "resample" -> "regate"]
    /\ \E v \in Views : view' = [view EXCEPT ![w] = v]
    /\ UNCHANGED <<latch, span, lag, private, hold, held>>

\* recordHold: the hold is to be withdrawn whether or not it was written.
RecordHold(w) ==
    /\ gate[w] = "hold"
    /\ held' = [held EXCEPT ![w] = TRUE]
    /\ \/ hold' = [LiveHolds EXCEPT ![w] = TRUE]
       \/ w \in Failing["hold"] /\ UNCHANGED hold
    /\ gate' = [gate EXCEPT ![w] = "sample"]
    /\ UNCHANGED <<latch, span, view, lag, private>>

\* releaseHold: an error is ignored.
ReleaseHold(w) ==
    \/ hold' = IF held[w] THEN [LiveHolds EXCEPT ![w] = FALSE] ELSE hold
    \/ held[w] /\ w \in Failing["release"] /\ UNCHANGED hold

\* The gate opened: the deferred releaseHold runs, then the wrapper queues.
PassGate(w) ==
    /\ gate[w] = "withdraw"
    /\ ReleaseHold(w)
    /\ held' = [held EXCEPT ![w] = FALSE]
    /\ gate' = [gate EXCEPT ![w] = "queue"]
    /\ UNCHANGED <<latch, span, view, lag, private>>

\* The process and its memory are gone.
Gone(w) ==
    /\ gate' = [gate EXCEPT ![w] = "out"]
    /\ view' = [view EXCEPT ![w] = "none"]
    /\ lag' = [lag EXCEPT ![w] = 0]
    /\ private' = [private EXCEPT ![w] = NoCount]
    /\ held' = [held EXCEPT ![w] = FALSE]

\* The wait budget ran out at the gate: withdraw the hold and exit.
GiveUp(w) ==
    /\ gate[w] = "sample"
    /\ ReleaseHold(w)
    /\ Gone(w)
    /\ UNCHANGED <<latch, span>>

\* The coordinator gave it a lease: the host is sampled once more.
Acquired(w) ==
    /\ gate[w] = "queue"
    /\ gate' = [gate EXCEPT ![w] = "recheck"]
    /\ UNCHANGED <<latch, span, view, lag, private, hold, held>>

\* ReserveForPressure gave the lease back for a protected place in the queue:
\* visible as a waiter, the wrapper goes to the gate without a hold.
Reserve(w) ==
    /\ gate[w] = "reserve"
    /\ gate' = [gate EXCEPT ![w] = "regate"]
    /\ UNCHANGED <<latch, span, view, lag, private, hold, held>>

\* The wrapper ends, or is killed, wherever it is.
Exit(w) ==
    /\ gate[w] # "out"
    /\ Gone(w)
    /\ UNCHANGED <<latch, span, hold>>

\* Any other ledger call on the host.
Status == hold' = LiveHolds /\ UNCHANGED <<latch, span, gate, view, lag, private, held>>

\* Time passes; nobody waits longer than MaxLag for the lock.
Tick ==
    /\ \A w \in Wrappers : Observing(w) => lag[w] < MaxLag
    /\ lag' = [w \in Wrappers |-> IF Observing(w) THEN lag[w] + 1 ELSE 0]
    /\ latch' = [latch EXCEPT !.age = IF @ < 0 THEN @ ELSE Upto(@ + 1, StaleAfter + MaxLag + 1)]
    /\ UNCHANGED <<span, gate, view, private, hold, held>>

Next ==
    \/ \E w \in Wrappers :
        \/ Arrive(w) \/ Sample(w) \/ ObserveShared(w) \/ ObservePrivate(w) \/ ObserveOther(w)
        \/ RecordHold(w) \/ PassGate(w) \/ GiveUp(w) \/ Acquired(w) \/ Reserve(w) \/ Exit(w)
    \/ Status \/ Tick

Spec == Init /\ [][Next]_vars

\* What a wrapper in the wait loop does next, while its calls succeed.
Proceed(w) ==
    \/ Sample(w) \/ ObserveShared(w) \/ ObserveOther(w)
    \/ RecordHold(w) \/ PassGate(w) \/ Reserve(w)

\* Wrappers in the loop go on, and time passes: the guard of Tick only says
\* that nobody waits for the lock for ever.
Fairness == (\A w \in Wrappers : WF_vars(Proceed(w))) /\ SF_vars(Tick)

FairSpec == Spec /\ Fairness

(***************************************************************************)
(* Properties.                                                             *)
(***************************************************************************)
Counters == [latched: BOOLEAN, red: 0..BlockSamples, recovery: 0..ReleaseSamples]

\* The shape of the gate's state: the counters of the latch and of each
\* wrapper's copy stay within what the limits ask for.
TypeOK ==
    /\ [latched |-> latch.latched, red |-> latch.red, recovery |-> latch.recovery] \in Counters
    /\ latch.age \in -1..(StaleAfter + MaxLag + 1)
    /\ private \in [Wrappers -> Counters]
    /\ lag \in [Wrappers -> 0..MaxLag]
    /\ view \in [Wrappers -> {"none", "red", "warm", "cool", "memory"}]
    /\ gate \in [Wrappers -> AtGate \cup {"out", "withdraw", "queue", "recheck", "reobserve",
                                          "reserve", "resample", "regate", "started"}]
    /\ hold \in [Wrappers -> BOOLEAN] /\ held \in [Wrappers -> BOOLEAN]

\* No credit is carried across a change of the latch, shared or copied: one
\* that is closed has not yet seen the recovery that opens it, and one that is
\* open has not yet seen the red samples that close it.
LatchCoherent ==
    /\ TypeOK
    /\ \A c \in {latch} \cup {private[w] : w \in Wrappers} :
        IF c.latched THEN c.recovery < ReleaseSamples ELSE c.red < BlockSamples

\* "Counting advances on elapsed time, never on observer count": n counted
\* samples span n - 1 intervals of their own clocks, and so did the samples
\* that closed the latch, however many wrappers observe and in whatever order
\* their observations arrive.
SustainedEvidence ==
    /\ latch.red > 0 => span.red >= (latch.red - 1) * Interval
    /\ latch.recovery > 0 => span.recovery >= (latch.recovery - 1) * Interval
    /\ latch.latched => span.latched >= (BlockSamples - 1) * Interval

\* A wrapper that was deferred at the gate, where it has no weight and no place
\* in the queue, shows as a hold for as long as it is there, whoever else
\* writes the ledger meanwhile; unless its own call failed.
HoldKept == \A w \in Wrappers \ Failing["hold"] : held[w] /\ gate[w] # "out" => hold[w]

\* An operation that went past the gate, to the queue or to a lease, has no
\* admission hold any more, unless its own withdrawal failed.
Past(w) == gate[w] \notin AtGate \cup {"out", "withdraw"}
HoldWithdrawn == \A w \in Wrappers \ Failing["release"] : Past(w) => ~hold[w]

\* The holds in the ledger are the wrappers at the gate (RecordAdmissionHold, reconcile).
DeferredVisible == HoldKept /\ HoldWithdrawn

\* A closed latch opens again once samples stop finding the CPU red and
\* wrappers keep observing that it has recovered, even if others keep finding
\* the host short of memory ("Each dimension answers only for itself").
LatchReleases ==
    /\ <>[](\A w \in Wrappers : view[w] \in {"none", "cool", "memory"})
    /\ []<><<\E w \in Wrappers : view[w] = "cool" /\ ObserveShared(w)>>_vars
    => []<>(~latch.latched)
=============================================================================
