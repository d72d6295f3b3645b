--------------------------- MODULE WorkLeaseProofs ---------------------------
(***************************************************************************)
(* Theorems about the work coordinator, for any number of operations, any  *)
(* weights and any capacity.                                               *)
(***************************************************************************)
EXTENDS WorkLease, FiniteSetTheorems, TLAPS

(***************************************************************************)
(* Weight units.                                                           *)
(***************************************************************************)
\* The units of a set of operations can be counted (chargedWeight summed).
LEMMA UnitsFinite ==
    ASSUME NEW S \in SUBSET Ops
    PROVE  IsFiniteSet(Units(S)) /\ Load(S) \in Nat
<1>1. IsFiniteSet(S)
  BY FS_Subset, LimitsAssumption
<1>2. Capacity \in Int /\ 1 \in Int
  BY LimitsAssumption
<1>3. IsFiniteSet(1..Capacity)
  BY <1>2, FS_Interval
<1>4. IsFiniteSet(S \X (1..Capacity))
  BY <1>1, <1>3, FS_Product
<1>5. Units(S) \in SUBSET (S \X (1..Capacity))
  BY DEF Units
<1>6. IsFiniteSet(Units(S))
  BY <1>4, <1>5, FS_Subset
<1>. QED
  BY <1>6, FS_CardinalityType DEF Load

\* Dropping leases never raises the load.
LEMMA LoadMonotone ==
    ASSUME NEW T \in SUBSET Ops, NEW S \in SUBSET T
    PROVE  Load(S) <= Load(T)
<1>1. IsFiniteSet(Units(T))
  BY UnitsFinite
<1>2. Units(S) \in SUBSET Units(T)
  BY DEF Units
<1>. QED
  BY <1>1, <1>2, FS_Subset DEF Load

\* One more lease adds at most its own weight.
LEMMA LoadAdd ==
    ASSUME NEW S \in SUBSET Ops, NEW o \in Ops
    PROVE  Load(S \cup {o}) <= Load(S) + Weight[o]
<1>. DEFINE own == {o} \X (1..Weight[o])
<1>1. Weight[o] \in 1..Capacity /\ Capacity \in Nat
  BY LimitsAssumption
<1>2. IsFiniteSet({o}) /\ Cardinality({o}) = 1
  BY FS_Singleton
<1>3. IsFiniteSet(1..Weight[o]) /\ Cardinality(1..Weight[o]) = Weight[o]
  <2>1. 1 \in Int /\ Weight[o] \in Int /\ ~(1 > Weight[o]) /\ Weight[o] - 1 + 1 = Weight[o]
    BY <1>1
  <2>. QED BY <2>1, FS_Interval
<1>4. IsFiniteSet(own) /\ Cardinality(own) = Weight[o]
  <2>1. Cardinality(own) = 1 * Weight[o] /\ IsFiniteSet(own)
    BY <1>2, <1>3, FS_Product
  <2>. QED BY <2>1, <1>1
<1>5. Units(S \cup {o}) \in SUBSET (Units(S) \cup own)
  BY DEF Units
<1>6. IsFiniteSet(Units(S)) /\ Cardinality(Units(S)) \in Nat
  BY UnitsFinite DEF Load
<1>7. /\ IsFiniteSet(Units(S) \cup own)
      /\ Cardinality(Units(S) \cup own) =
           Cardinality(Units(S)) + Cardinality(own) - Cardinality(Units(S) \cap own)
  BY <1>4, <1>6, FS_Union
<1>8. Cardinality(Units(S) \cap own) \in Nat
  <2>1. (Units(S) \cap own) \in SUBSET own
    OBVIOUS
  <2>2. IsFiniteSet(Units(S) \cap own)
    BY <2>1, <1>4, FS_Subset
  <2>. QED BY <2>2, FS_CardinalityType
<1>9. Cardinality(Units(S \cup {o})) <= Cardinality(Units(S) \cup own)
  BY <1>5, <1>7, FS_Subset
<1>10. Cardinality(Units(S \cup {o})) \in Nat
  <2>1. (S \cup {o}) \in SUBSET Ops
    OBVIOUS
  <2>. QED BY <2>1, UnitsFinite DEF Load
<1>. QED
  BY <1>1, <1>4, <1>6, <1>7, <1>8, <1>9, <1>10 DEF Load

(***************************************************************************)
(* Type correctness.                                                       *)
(***************************************************************************)
\* Places in an order are natural numbers (workOverridePositions).
LEMMA PositionsType ==
    ASSUME NEW rank \in [Ops -> Nat], NEW S \in SUBSET Ops
    PROVE  Positions(rank, S) \in [Ops -> Nat]
<1>1. ASSUME NEW o \in Ops
      PROVE  Cardinality({p \in S : rank[p] > 0 /\ rank[p] <= rank[o]}) \in Nat
  <2>1. {p \in S : rank[p] > 0 /\ rank[p] <= rank[o]} \in SUBSET Ops
    OBVIOUS
  <2>2. IsFiniteSet({p \in S : rank[p] > 0 /\ rank[p] <= rank[o]})
    BY <2>1, FS_Subset, LimitsAssumption
  <2>. QED BY <2>2, FS_CardinalityType
<1>. QED BY <1>1 DEF Positions

\* Reconciliation yields records of the right shape (reconcile, advanceWorkOverride).
LEMMA KeptTypes ==
    ASSUME TypeOK
    PROVE  /\ KeptWaiter \in [Ops -> WaiterRecord]
           /\ \A W : KeptLease(W) \in [Ops -> LeaseRecord]
           /\ \A W \in SUBSET Ops : AdvanceWorkOverride(W) \in [Ops -> Nat]
<1>1. NoWaiter \in WaiterRecord
  BY LimitsAssumption DEF NoWaiter, WaiterRecord
<1>2. NoLease \in LeaseRecord
  BY DEF NoLease, LeaseRecord
<1>3. KeptWaiter \in [Ops -> WaiterRecord]
  BY <1>1 DEF KeptWaiter, TypeOK
<1>4. ASSUME NEW W PROVE KeptLease(W) \in [Ops -> LeaseRecord]
  <2>1. ASSUME NEW o \in Ops PROVE [lease[o] EXCEPT !.rode = NoOp] \in LeaseRecord
    BY DEF TypeOK, LeaseRecord
  <2>. QED BY <2>1, <1>2 DEF KeptLease, TypeOK
<1>5. ASSUME NEW W \in SUBSET Ops PROVE AdvanceWorkOverride(W) \in [Ops -> Nat]
  BY <1>5, PositionsType DEF AdvanceWorkOverride, TypeOK
<1>. QED BY <1>3, <1>4, <1>5

\* The records the coordinator files have the right shape.
LEMMA RecordTypes ==
    /\ NoLease \in LeaseRecord /\ NewLease \in LeaseRecord
    /\ NoWaiter \in WaiterRecord /\ NewWaiter \in WaiterRecord /\ PressureWaiter \in WaiterRecord
<1>1. NoLease \in LeaseRecord
  BY DEF NoLease, LeaseRecord
<1>2. NewLease \in LeaseRecord
  BY <1>1 DEF NewLease, LeaseRecord
<1>3. NoWaiter \in WaiterRecord
  BY LimitsAssumption DEF NoWaiter, WaiterRecord
<1>4. NewWaiter \in WaiterRecord
  BY <1>3 DEF NewWaiter, WaiterRecord
<1>5. PressureWaiter \in WaiterRecord
  BY <1>4 DEF PressureWaiter, WaiterRecord
<1>. QED BY <1>1, <1>2, <1>3, <1>4, <1>5

\* The head a lease rode past is an operation, if there is one.
LEMMA RodePastType ==
    ASSUME NEW w, NEW pins, NEW o, NEW cap
    PROVE  RodePast(w, pins, o, cap) \in Ops \cup {NoOp}
BY DEF RodePast, Oldest, Queued

\* Materializing a protection changes that one field.
LEMMA MaterializeType ==
    ASSUME NEW w \in [Ops -> WaiterRecord]
    PROVE  /\ MaterializeWorkProtections(w) \in [Ops -> WaiterRecord]
           /\ Queued(MaterializeWorkProtections(w)) = Queued(w)
<1>1. ASSUME NEW o \in Ops
      PROVE  /\ [w[o] EXCEPT !.protected = TRUE] \in WaiterRecord
             /\ [w[o] EXCEPT !.protected = TRUE].queued = w[o].queued
  BY DEF WaiterRecord
<1>. QED BY <1>1 DEF MaterializeWorkProtections, Queued

\* A bypassed head was not protected, so its count stays within the limit.
LEMMA BypassType ==
    ASSUME NEW w \in [Ops -> WaiterRecord], NEW pins, NEW o, NEW cap,
           NEW h \in Bypassed(w, pins, o, cap)
    PROVE  /\ h \in Ops /\ h # o /\ BypassRecord(w[h]) \in WaiterRecord
           /\ BypassRecord(w[h]).queued = w[h].queued
<1>1. h \in Ops /\ h # o /\ ~WorkWaiterProtection(w, h, cap)
  BY DEF Bypassed, Oldest, Queued
<1>2. w[h].bypasses \in Nat /\ w[h].bypasses < MaxBypasses
  BY <1>1, LimitsAssumption DEF WorkWaiterProtection, EarnedProtection, WaiterRecord
<1>. DEFINE r == w[h]
            late == IF r.lastBypassed = "never" THEN "recent" ELSE r.lastBypassed
            owed == r.protected \/ r.bypasses + 1 >= MaxBypasses
<1>3. r \in WaiterRecord
  BY <1>1
<1>4. r.bypasses + 1 \in 0..MaxBypasses
  BY <1>2, LimitsAssumption
<1>5. late \in {"never", "recent", "aged"} /\ owed \in BOOLEAN
  BY <1>3 DEF WaiterRecord
<1>6. BypassRecord(r) = [r EXCEPT !.bypasses = r.bypasses + 1, !.lastBypassed = late,
                                 !.protected = owed]
  BY <1>3 DEF BypassRecord, WaiterRecord
<1>. HIDE DEF r, late, owed
<1>7. /\ BypassRecord(r) \in WaiterRecord
      /\ BypassRecord(r).queued = r.queued
  BY <1>3, <1>4, <1>5, <1>6 DEF WaiterRecord
<1>. QED BY <1>1, <1>7 DEF r

LedgerType ==
    /\ lease  \in [Ops -> LeaseRecord]
    /\ waiter \in [Ops -> WaiterRecord]
    /\ pin    \in [Ops -> Nat]
ProcessType ==
    /\ queuedAt \in [Ops -> Nat]
    /\ handle   \in [Ops -> {"none", "arrived", "registered", "waiting", "lease", "bound"}]
    /\ wrapper  \in [Ops -> {"none", "self", "gone", "other"}]
    /\ child    \in [Ops -> {"none", "gated", "running", "gone", "other"}]
    /\ cancel   \in [Ops -> {"no", "wrapper", "tree", "child", "signalled", "dropped"}]

\* Every step of the coordinator, of a wrapper, of an operator and of the host
\* keeps the shape of the ledger and of the processes.
LEMMA TypeStep ==
    ASSUME TypeOK, [Next]_vars
    PROVE  TypeOK'
<1>. USE TypeOK
<1>0. LedgerType /\ ProcessType
  BY DEF TypeOK, LedgerType, ProcessType
<1>1. /\ KeptWaiter \in [Ops -> WaiterRecord]
      /\ \A W : KeptLease(W) \in [Ops -> LeaseRecord]
      /\ \A W \in SUBSET Ops : AdvanceWorkOverride(W) \in [Ops -> Nat]
      /\ \A w : Queued(w) \in SUBSET Ops
  BY KeptTypes DEF Queued
<1>2. ReconcileRecords => /\ lease'  \in [Ops -> LeaseRecord]
                          /\ waiter' \in [Ops -> WaiterRecord]
  BY <1>1 DEF ReconcileRecords
<1>3. Reconcile => LedgerType'
  BY <1>1, <1>2 DEF Reconcile, LedgerType
<1>4. (UNCHANGED ledger => LedgerType') /\ (UNCHANGED Processes => ProcessType')
  BY <1>0 DEF ledger, Processes, LedgerType, ProcessType
<1>5. SUFFICES LedgerType' /\ ProcessType'
  BY DEF TypeOK, LedgerType, ProcessType
<1>6. ASSUME NEW o \in Ops, Exit(o) PROVE ProcessType'
  BY <1>0, <1>6 DEF Exit, ProcessType
<1>a. ASSUME NEW o \in Ops, Arrive(o) PROVE LedgerType' /\ ProcessType'
  <2>1. Dated \in SUBSET Ops
    BY DEF Dated, Leased, Queued
  <2>2. IsFiniteSet(Dated)
    BY <2>1, FS_Subset, LimitsAssumption
  <2>3. Cardinality(Dated) + 1 \in Nat
    BY <2>2, FS_CardinalityType
  <2>4. Positions(queuedAt, Dated) \in [Ops -> Nat]
    BY <2>1, PositionsType DEF TypeOK
  <2>5. ProcessType'
    BY <1>a, <1>0, <2>3, <2>4 DEF Arrive, ProcessType
  <2>. QED BY <1>a, <1>4, <2>5 DEF Arrive
<1>b. ASSUME NEW o \in Ops, RegisterWaiter(o) PROVE LedgerType' /\ ProcessType'
  <2>1. LedgerType'
    BY <1>b, <1>1, RecordTypes DEF RegisterWaiter, LedgerType
  <2>2. ProcessType'
    BY <1>b, <1>0 DEF RegisterWaiter, ProcessType
  <2>. QED BY <2>1, <2>2
<1>c. ASSUME NEW o \in Ops, PrioritizeWaiter(o) PROVE LedgerType' /\ ProcessType'
  <2>. DEFINE pinned == {p \in Queued(KeptWaiter) : pin[p] > 0}
  <2>1. pinned \in SUBSET Ops
    BY <1>1
  <2>2. IsFiniteSet(pinned)
    BY <2>1, FS_Subset, LimitsAssumption
  <2>3. Cardinality(pinned) + 1 \in Nat
    BY <2>2, FS_CardinalityType
  <2>4. AdvanceWorkOverride(pinned) \in [Ops -> Nat]
    BY <2>1, <1>1
  <2>5. AppendPinned(pinned, o) \in [Ops -> Nat]
    BY <2>3, <2>4 DEF AppendPinned
  <2>6. pin' \in [Ops -> Nat]
    BY <1>c, <2>4, <2>5 DEF PrioritizeWaiter
  <2>7. waiter' \in [Ops -> WaiterRecord] /\ lease' \in [Ops -> LeaseRecord]
    BY <1>c, <1>1, RecordTypes DEF PrioritizeWaiter
  <2>8. ProcessType'
    BY <1>c, <1>0, <1>6 DEF PrioritizeWaiter, ProcessType
  <2>. QED BY <2>6, <2>7, <2>8 DEF LedgerType
<1>d. ASSUME NEW o \in Ops, TryAcquire(o) PROVE LedgerType' /\ ProcessType'
  <2>1. PICK cap \in Ceilings, window \in GreenWindows :
         LET green == IF cap < Capacity THEN Closed ELSE window
             w     == MaterializeWorkProtections(KeptWaiter)
             l     == KeptLease(Queued(w))
             pins  == AdvanceWorkOverride(Queued(w))
             left  == Queued(w) \ {o}
         IN  /\ o \in SelectStateWaiter(w, pins, l, cap, green, o \in Lookahead)
             /\ waiter' = [p \in Ops |->
                             IF p = o THEN NoWaiter
                             ELSE IF p \in Bypassed(w, pins, o, cap) THEN BypassRecord(w[p])
                             ELSE w[p]]
             /\ pin' = AdvanceWorkOverride(left)
             /\ lease' = [KeptLease(left) EXCEPT
                             ![o] = [NewLease EXCEPT !.rode = RodePast(w, pins, o, cap)]]
    BY <1>d DEF TryAcquire
  <2>. DEFINE w    == MaterializeWorkProtections(KeptWaiter)
              pins == AdvanceWorkOverride(Queued(w))
              left == Queued(w) \ {o}
  <2>2. w \in [Ops -> WaiterRecord]
    BY <1>1, MaterializeType
  <2>3. \A p \in Ops : p \in Bypassed(w, pins, o, cap) => BypassRecord(w[p]) \in WaiterRecord
    BY <2>2, BypassType
  <2>4. waiter' \in [Ops -> WaiterRecord]
    BY <2>1, <2>2, <2>3, RecordTypes
  <2>5. left \in SUBSET Ops
    BY <1>1
  <2>6. pin' \in [Ops -> Nat]
    BY <2>1, <2>5, <1>1
  <2>7. [NewLease EXCEPT !.rode = RodePast(w, pins, o, cap)] \in LeaseRecord
    <3>. DEFINE rode == RodePast(w, pins, o, cap)
    <3>1. rode \in Ops \cup {NoOp}
      BY RodePastType
    <3>. HIDE DEF rode
    <3>2. [NewLease EXCEPT !.rode = rode] \in LeaseRecord
      BY <3>1, RecordTypes DEF LeaseRecord
    <3>. QED BY <3>2 DEF rode
  <2>8. lease' \in [Ops -> LeaseRecord]
    BY <2>1, <2>7, <1>1
  <2>9. ProcessType'
    BY <1>d, <1>0 DEF TryAcquire, ProcessType
  <2>. QED BY <2>4, <2>6, <2>8, <2>9 DEF LedgerType
<1>e. ASSUME NEW o \in Ops, TryAcquireDenied(o) PROVE LedgerType' /\ ProcessType'
  <2>1. LedgerType'
    BY <1>e, <1>1, MaterializeType DEF TryAcquireDenied, LedgerType
  <2>. QED BY <1>e, <1>4, <2>1 DEF TryAcquireDenied
<1>f. ASSUME NEW o \in Ops, Acquire(o) PROVE LedgerType' /\ ProcessType'
  <2>1. waiter' \in [Ops -> WaiterRecord] /\ pin' \in [Ops -> Nat]
    BY <1>f, <1>1 DEF Acquire
  <2>2. lease' \in [Ops -> LeaseRecord]
    BY <1>f, <1>1, RecordTypes DEF Acquire
  <2>3. ProcessType'
    BY <1>f, <1>0, <1>6 DEF Acquire, ProcessType
  <2>. QED BY <2>1, <2>2, <2>3 DEF LedgerType
<1>g. ASSUME NEW o \in Ops, Cancel(o) PROVE LedgerType' /\ ProcessType'
  <2>1. LedgerType'
    BY <1>g, <1>1, RecordTypes DEF Cancel, LedgerType
  <2>. QED BY <1>g, <1>6, <2>1 DEF Cancel
<1>h. ASSUME NEW o \in Ops, ReserveForPressure(o) PROVE LedgerType' /\ ProcessType'
  <2>1. LedgerType'
    BY <1>h, <1>1, RecordTypes DEF ReserveForPressure, LedgerType
  <2>2. ProcessType'
    BY <1>h, <1>0 DEF ReserveForPressure, ProcessType
  <2>. QED BY <2>1, <2>2
<1>i. ASSUME NEW o \in Ops, StartGated(o) \/ OpenGate(o) \/ ChildExit(o) \/ Crash(o)
                            \/ SignalTree(o) \/ ReusePID(o)
      PROVE  LedgerType' /\ ProcessType'
  <2>1. UNCHANGED ledger
    BY <1>i DEF StartGated, OpenGate, ChildExit, Crash, SignalTree, ReusePID
  <2>2. ProcessType'
    BY <1>i, <1>0 DEF StartGated, OpenGate, ChildExit, Crash, SignalTree, ReusePID, ProcessType
  <2>. QED BY <2>1, <2>2, <1>4
<1>j. ASSUME NEW o \in Ops, BindPID(o) PROVE LedgerType' /\ ProcessType'
  <2>. DEFINE l == KeptLease(Queued(KeptWaiter))
  <2>1. l \in [Ops -> LeaseRecord] /\ [l EXCEPT ![o].pid = "child"] \in [Ops -> LeaseRecord]
    <3>1. l \in [Ops -> LeaseRecord]
      BY <1>1
    <3>. HIDE DEF l
    <3>2. [l[o] EXCEPT !.pid = "child"] \in LeaseRecord
      BY <3>1 DEF LeaseRecord
    <3>. QED BY <3>1, <3>2
  <2>2. LedgerType'
    BY <1>j, <1>1, <1>3, <2>1 DEF BindPID, LedgerType
  <2>3. ProcessType'
    BY <1>j, <1>0 DEF BindPID, ProcessType
  <2>. QED BY <2>2, <2>3
<1>k. ASSUME NEW o \in Ops, SetParked(o) PROVE LedgerType' /\ ProcessType'
  <2>. DEFINE l == KeptLease(Queued(KeptWaiter))
  <2>1. PICK parked \in BOOLEAN :
          /\ lease' = IF l[o].pid = "none" THEN l
                      ELSE [l EXCEPT ![o].parked = parked,
                                     ![o].woken = @ \/ (l[o].parked /\ ~parked)]
          /\ waiter' = KeptWaiter /\ pin' = AdvanceWorkOverride(Queued(KeptWaiter))
    BY <1>k DEF SetParked
  <2>2. l \in [Ops -> LeaseRecord]
    BY <1>1
  <2>3. lease' \in [Ops -> LeaseRecord]
    <3>. DEFINE woke == l[o].woken \/ (l[o].parked /\ ~parked)
    <3>1. woke \in BOOLEAN
      OBVIOUS
    <3>. HIDE DEF l
    <3>2. CASE l[o].pid = "none"
      BY <3>2, <2>1, <2>2
    <3>3. CASE l[o].pid # "none"
      <4>1. lease' = [l EXCEPT ![o] = [l[o] EXCEPT !.parked = parked, !.woken = woke]]
        BY <3>3, <2>1, <2>2 DEF LeaseRecord
      <4>. HIDE DEF woke
      <4>2. [l[o] EXCEPT !.parked = parked, !.woken = woke] \in LeaseRecord
        BY <3>1, <2>2 DEF LeaseRecord
      <4>. QED BY <4>1, <4>2, <2>2
    <3>. QED BY <3>2, <3>3
  <2>. QED BY <1>k, <1>1, <1>4, <2>1, <2>3 DEF SetParked, LedgerType
<1>l. ASSUME NEW o \in Ops, Release(o) PROVE LedgerType' /\ ProcessType'
  <2>1. LedgerType'
    BY <1>l, <1>1, RecordTypes DEF Release, LedgerType
  <2>. QED BY <1>l, <1>6, <2>1 DEF Release
<1>m. ASSUME NEW o \in Ops, InspectWork(o) \/ DropLease(o) PROVE LedgerType' /\ ProcessType'
  <2>1. LedgerType'
    BY <1>m, <1>1, <1>3, RecordTypes DEF InspectWork, DropLease, LedgerType
  <2>2. ProcessType'
    BY <1>m, <1>0 DEF InspectWork, DropLease, ProcessType
  <2>. QED BY <2>1, <2>2
<1>n. ASSUME NEW o \in Ops, AgeBypass(o) PROVE LedgerType' /\ ProcessType'
  <2>1. [waiter[o] EXCEPT !.lastBypassed = "aged"] \in WaiterRecord
    BY <1>0 DEF LedgerType, WaiterRecord
  <2>2. LedgerType'
    BY <1>n, <1>0, <2>1 DEF AgeBypass, LedgerType
  <2>. QED BY <1>n, <1>4, <2>2 DEF AgeBypass
<1>o. ASSUME NEW s \in Sequences, OverrideWaiters(s) PROVE LedgerType' /\ ProcessType'
  <2>1. s \in Seq(Ops) /\ DOMAIN s \in SUBSET Nat
    BY LimitsAssumption
  <2>2. FirstPlace(s) \in [Ops -> Nat]
    <3>1. ASSUME NEW p \in Ops
          PROVE  Cardinality({i \in DOMAIN s : \A j \in 1..i : s[j] # p}) \in Nat
      <4>1. DOMAIN s = 1..Len(s) /\ 1 \in Int /\ Len(s) \in Int
        BY <2>1
      <4>2. IsFiniteSet(DOMAIN s)
        BY <4>1, FS_Interval
      <4>3. {i \in DOMAIN s : \A j \in 1..i : s[j] # p} \in SUBSET DOMAIN s
        OBVIOUS
      <4>4. IsFiniteSet({i \in DOMAIN s : \A j \in 1..i : s[j] # p})
        BY <4>2, <4>3, FS_Subset
      <4>. QED BY <4>4, FS_CardinalityType
    <3>. QED BY <3>1 DEF FirstPlace
  <2>3. Positions(FirstPlace(s), Queued(KeptWaiter)) \in [Ops -> Nat]
    BY <2>2, <1>1, PositionsType
  <2>4. pin' \in [Ops -> Nat]
    BY <1>o, <1>1, <2>3 DEF OverrideWaiters
  <2>. QED BY <1>o, <1>2, <1>4, <2>4 DEF OverrideWaiters, LedgerType
<1>p. ASSUME OverrideAllWaiters \/ ClearWaiterOverride \/ Status
      PROVE  LedgerType' /\ ProcessType'
  <2>1. Positions(queuedAt, Queued(KeptWaiter)) \in [Ops -> Nat]
    BY <1>1, PositionsType DEF TypeOK
  <2>2. LedgerType'
    BY <1>p, <1>2, <1>3, <2>1 DEF OverrideAllWaiters, ClearWaiterOverride, Status, LedgerType
  <2>. QED BY <1>p, <1>4, <2>2 DEF OverrideAllWaiters, ClearWaiterOverride, Status
<1>q. CASE UNCHANGED vars
  BY <1>q, <1>4 DEF vars, ledger, Processes
<1>. QED
  BY <1>a, <1>b, <1>c, <1>d, <1>e, <1>f, <1>g, <1>h, <1>i, <1>j, <1>k, <1>l, <1>m, <1>n,
     <1>o, <1>p, <1>q DEF Next

\* The ledger file and the processes always have their shape: no call, crash,
\* PID reuse or operator request files a malformed record.
THEOREM TypeCorrect == Spec => []TypeOK
<1>1. Init => TypeOK
  BY RecordTypes DEF Init, TypeOK
<1>2. TypeOK /\ [Next]_vars => TypeOK'
  BY TypeStep
<1>. QED BY <1>1, <1>2, PTL DEF Spec

(***************************************************************************)
(* Ownership: which process stands behind which record.                    *)
(*                                                                         *)
(* LedgerValid, HandleBacked and CommandCovered are not inductive one by   *)
(* one: reconcile drops a record when the probe of its owner fails, so     *)
(* they need what ties a wrapper's progress to its PID and to its child.   *)
(***************************************************************************)
\* A protection on a waiter record r of p that reconcile can re-derive.
Justified(p, r) ==
    r.queued /\ r.protected => \/ r.reserved
                               \/ Weight[p] = Capacity
                               \/ r.bypasses >= MaxBypasses
                               \/ r.lastBypassed = "aged"

Owned(p) ==
    /\ Justified(p, waiter[p])
    /\ lease[p].pid = "none" \/ ~waiter[p].queued
    /\ handle[p] # "none" => wrapper[p] = "self"
    /\ handle[p] = "arrived" => lease[p].pid = "none" /\ ~waiter[p].queued /\ child[p] = "none"
    /\ handle[p] \in {"registered", "waiting"} => waiter[p].queued /\ child[p] = "none"
    /\ handle[p] = "lease" /\ cancel[p] # "dropped" => lease[p].pid = "wrapper"
    /\ handle[p] = "bound" /\ cancel[p] # "dropped" => lease[p].pid = "child"
    /\ child[p] = "gated" => handle[p] \in {"lease", "bound"}
    /\ child[p] = "running" => lease[p].pid = "child" \/ cancel[p] = "dropped"

Ownership == \A p \in Ops : Owned(p)

\* Ownership is the strengthening of the three ledger invariants.
LEMMA OwnershipImplies ==
    ASSUME TypeOK, Ownership
    PROVE  LedgerValid /\ HandleBacked /\ CommandCovered
<1>1. LedgerValid
  BY DEF Ownership, Owned, Justified, LedgerValid, Leased, Queued, EarnedProtection
<1>2. HandleBacked
  BY DEF Ownership, Owned, HandleBacked
<1>3. CommandCovered
  BY DEF Ownership, Owned, CommandCovered
<1>. QED BY <1>1, <1>2, <1>3

\* What reconcile may do to a record: keep it or drop it, and it keeps the
\* record of a live wrapper and the lease of a running child.
LEMMA ReconciledRecord ==
    ASSUME TypeOK, NEW p \in Ops, Owned(p)
    PROVE  /\ KeptWaiter[p] \in {waiter[p], NoWaiter}
           /\ Justified(p, KeptWaiter[p])
           /\ handle[p] # "none" => KeptWaiter[p] = waiter[p]
           /\ \A W : /\ KeptLease(W)[p].pid \in {lease[p].pid, "none"}
                     /\ handle[p] # "none" => KeptLease(W)[p].pid = lease[p].pid
                     /\ lease[p].pid = "child" /\ child[p] = "running"
                           => KeptLease(W)[p].pid = "child"
                     /\ LeaseKept(p) => KeptLease(W)[p].pid = lease[p].pid
                     /\ ~LeaseKept(p) => KeptLease(W)[p].pid = "none"
<1>1. /\ KeptWaiter[p] \in {waiter[p], NoWaiter}
      /\ handle[p] # "none" => KeptWaiter[p] = waiter[p]
  BY DEF KeptWaiter, WaiterKept, Owned, Owns, Alive, SameIdentity
<1>2. Justified(p, NoWaiter)
  BY DEF Justified, NoWaiter
<1>3. lease[p] \in LeaseRecord /\ NoLease.pid = "none"
  BY DEF TypeOK, NoLease
<1>4. ASSUME NEW W
      PROVE  KeptLease(W)[p].pid = IF LeaseKept(p) THEN lease[p].pid ELSE "none"
  BY <1>3 DEF KeptLease, LeaseRecord
<1>5. handle[p] # "none" => LeaseKept(p)
  BY DEF LeaseKept, Owned, Owns, Alive, SameIdentity
<1>6. lease[p].pid = "child" /\ child[p] = "running" => LeaseKept(p)
  BY DEF LeaseKept, OwnerProbe, Owns, Alive, SameIdentity
<1>7. Justified(p, KeptWaiter[p])
  BY <1>1, <1>2 DEF Owned
<1>. QED BY <1>1, <1>4, <1>5, <1>6, <1>7

\* An operation a step leaves to reconcile alone stays owned.
LEMMA OwnedFrame ==
    ASSUME TypeOK, NEW p \in Ops, Owned(p), NEW W,
           lease'[p].pid = KeptLease(W)[p].pid,
           waiter'[p].queued = KeptWaiter[p].queued,
           Justified(p, waiter'[p]),
           handle'[p] = handle[p], wrapper'[p] = wrapper[p],
           child'[p] = child[p], cancel'[p] = cancel[p]
    PROVE  Owned(p)'
<1>1. NoWaiter.queued = FALSE
  BY DEF NoWaiter
<1>2. /\ KeptWaiter[p] \in {waiter[p], NoWaiter}
      /\ handle[p] # "none" => KeptWaiter[p] = waiter[p]
      /\ KeptLease(W)[p].pid \in {lease[p].pid, "none"}
      /\ handle[p] # "none" => KeptLease(W)[p].pid = lease[p].pid
      /\ lease[p].pid = "child" /\ child[p] = "running" => KeptLease(W)[p].pid = "child"
  BY ReconciledRecord
<1>3. Justified(p, waiter[p])' = Justified(p, waiter'[p])
  BY DEF Justified
<1>. QED BY <1>1, <1>2, <1>3 DEF Owned

\* materializeWorkProtections writes only protections reconcile re-derives.
LEMMA MaterializeJustified ==
    ASSUME NEW w \in [Ops -> WaiterRecord], NEW p \in Ops, Justified(p, w[p])
    PROVE  /\ Justified(p, MaterializeWorkProtections(w)[p])
           /\ MaterializeWorkProtections(w)[p].queued = w[p].queued
<1>1. w[p] \in WaiterRecord
  OBVIOUS
<1>2. CASE w[p].queued /\ WorkWaiterProtection(w, p, Capacity)
  <2>1. MaterializeWorkProtections(w)[p] = [w[p] EXCEPT !.protected = TRUE]
    BY <1>2 DEF MaterializeWorkProtections
  <2>2. EarnedProtection(w, p, Capacity)
    BY <1>2 DEF WorkWaiterProtection, EarnedProtection, Justified
  <2>. QED BY <1>1, <2>1, <2>2 DEF EarnedProtection, Justified, WaiterRecord
<1>3. CASE ~(w[p].queued /\ WorkWaiterProtection(w, p, Capacity))
  BY <1>3 DEF MaterializeWorkProtections
<1>. QED BY <1>2, <1>3

\* A bypass protects its head only at the bypass limit.
LEMMA BypassJustified ==
    ASSUME NEW w \in [Ops -> WaiterRecord], NEW pins, NEW o, NEW cap,
           NEW h \in Bypassed(w, pins, o, cap)
    PROVE  Justified(h, BypassRecord(w[h]))
<1>1. h \in Ops /\ ~w[h].protected /\ w[h] \in WaiterRecord
  BY DEF Bypassed, Oldest, Queued, WorkWaiterProtection
<1>2. w[h].bypasses + 1 >= MaxBypasses \/ ~BypassRecord(w[h]).protected
  BY <1>1 DEF BypassRecord, WaiterRecord
<1>3. BypassRecord(w[h]).bypasses = w[h].bypasses + 1
  BY <1>1 DEF BypassRecord, WaiterRecord
<1>. QED BY <1>2, <1>3 DEF Justified

\* No step breaks ownership: one case per operation of the coordinator, of the
\* wrapper, of an operator and of the host.
LEMMA OwnershipStep ==
    ASSUME TypeOK, Ownership, [Next]_vars
    PROVE  Ownership'
<1>. USE TypeOK
<1>0. /\ \A p \in Ops : Owned(p)
      /\ KeptWaiter \in [Ops -> WaiterRecord]
      /\ \A W : KeptLease(W) \in [Ops -> LeaseRecord]
  BY KeptTypes DEF Ownership
<1>1. ASSUME NEW p \in Ops
      PROVE  /\ KeptWaiter[p] \in {waiter[p], NoWaiter}
             /\ Justified(p, KeptWaiter[p])
             /\ handle[p] # "none" => KeptWaiter[p] = waiter[p]
             /\ \A W : /\ KeptLease(W)[p].pid \in {lease[p].pid, "none"}
                       /\ handle[p] # "none" => KeptLease(W)[p].pid = lease[p].pid
                       /\ lease[p].pid = "child" /\ child[p] = "running"
                             => KeptLease(W)[p].pid = "child"
                       /\ LeaseKept(p) => KeptLease(W)[p].pid = lease[p].pid
                       /\ ~LeaseKept(p) => KeptLease(W)[p].pid = "none"
  BY <1>0, ReconciledRecord
<1>2. /\ NoLease.pid = "none" /\ NewLease.pid = "wrapper"
      /\ NoWaiter.queued = FALSE /\ NewWaiter.queued = TRUE /\ PressureWaiter.queued = TRUE
      /\ \A p : /\ Justified(p, NoWaiter) /\ Justified(p, NewWaiter)
               /\ Justified(p, PressureWaiter)
  BY DEF NoLease, NewLease, NoWaiter, NewWaiter, PressureWaiter, Justified
<1>3. \A p \in Ops : Justified(p, waiter[p])' <=> Justified(p, waiter'[p])
  BY DEF Justified
<1>. SUFFICES ASSUME NEW p \in Ops PROVE Owned(p)'
  BY DEF Ownership
<1>4. Owned(p)
  BY <1>0
<1>5. ASSUME NEW W, lease'[p] = KeptLease(W)[p], waiter'[p] = KeptWaiter[p],
             handle'[p] = handle[p], wrapper'[p] = wrapper[p],
             child'[p] = child[p], cancel'[p] = cancel[p]
      PROVE  Owned(p)'
  BY <1>1, <1>4, <1>5, OwnedFrame
<1>6. Reconcile => lease'[p] = KeptLease(Queued(KeptWaiter))[p] /\ waiter'[p] = KeptWaiter[p]
  BY DEF Reconcile, ReconcileRecords
<1>a. ASSUME NEW o \in Ops, Arrive(o) PROVE Owned(p)'
  <2>1. lease' = lease /\ waiter' = waiter
    BY <1>a DEF Arrive, ledger
  <2>2. CASE p = o
    <3>1. lease[o].pid = "none" /\ ~waiter[o].queued
      BY <1>a DEF Arrive, Dated, Leased, Queued
    <3>. QED BY <1>a, <1>3, <1>4, <2>1, <2>2, <3>1 DEF Arrive, Owned, TypeOK
  <2>3. CASE p # o
    BY <1>a, <1>3, <1>4, <2>1, <2>3 DEF Arrive, Owned, TypeOK
  <2>. QED BY <2>2, <2>3
<1>b. ASSUME NEW o \in Ops, RegisterWaiter(o) PROVE Owned(p)'
  <2>1. CASE p = o
    <3>1. waiter'[o] = NewWaiter /\ lease'[o].pid = lease[o].pid
      BY <1>b, <1>0, <1>1 DEF RegisterWaiter
    <3>. QED BY <1>b, <1>2, <1>3, <1>4, <2>1, <3>1 DEF RegisterWaiter, Owned, TypeOK
  <2>2. CASE p # o
    BY <1>b, <1>0, <1>5, <2>2 DEF RegisterWaiter, TypeOK
  <2>. QED BY <2>1, <2>2
<1>c. ASSUME NEW o \in Ops, PrioritizeWaiter(o) PROVE Owned(p)'
  <2>1. PICK W : lease' = KeptLease(W)
    BY <1>c DEF PrioritizeWaiter
  <2>2. CASE p = o
    <3>1. lease'[o].pid = lease[o].pid /\ handle[o] = "registered" /\ wrapper[o] = "self"
      BY <1>c, <1>1, <1>4, <2>1, <2>2 DEF PrioritizeWaiter, Owned
    <3>2. \/ waiter'[o] = NoWaiter /\ Exit(o)
          \/ /\ waiter'[o] = waiter[o] /\ handle' = [handle EXCEPT ![o] = "waiting"]
             /\ UNCHANGED <<queuedAt, wrapper, child, cancel>>
      BY <1>c, <1>0, <1>1, <3>1 DEF PrioritizeWaiter
    <3>. QED BY <1>2, <1>3, <1>4, <2>2, <3>1, <3>2 DEF Exit, Owned, TypeOK
  <2>3. CASE p # o
    <3>1. waiter'[p] = KeptWaiter[p]
      BY <1>c, <1>0, <2>3 DEF PrioritizeWaiter
    <3>2. handle'[p] = handle[p] /\ wrapper'[p] = wrapper[p] /\ child' = child /\ cancel' = cancel
      BY <1>c, <2>3 DEF PrioritizeWaiter, Exit, TypeOK
    <3>. QED BY <1>5, <2>1, <3>1, <3>2
  <2>. QED BY <2>2, <2>3
<1>d. ASSUME NEW o \in Ops, TryAcquire(o) PROVE Owned(p)'
  <2>. DEFINE w    == MaterializeWorkProtections(KeptWaiter)
              pins == AdvanceWorkOverride(Queued(w))
              left == Queued(w) \ {o}
  <2>1. PICK cap \in Ceilings :
             /\ waiter' = [q \in Ops |->
                             IF q = o THEN NoWaiter
                             ELSE IF q \in Bypassed(w, pins, o, cap) THEN BypassRecord(w[q])
                             ELSE w[q]]
             /\ lease' = [KeptLease(left) EXCEPT
                             ![o] = [NewLease EXCEPT !.rode = RodePast(w, pins, o, cap)]]
    BY <1>d DEF TryAcquire
  <2>2. w \in [Ops -> WaiterRecord] /\ Justified(p, w[p]) /\ w[p].queued = KeptWaiter[p].queued
    BY <1>0, <1>1, MaterializeType, MaterializeJustified
  <2>3. handle' = [handle EXCEPT ![o] = "lease"] /\ handle[o] = "waiting"
        /\ UNCHANGED <<queuedAt, wrapper, child, cancel>>
    BY <1>d DEF TryAcquire
  <2>. HIDE DEF w, left, pins
  <2>4. CASE p = o
    <3>1. [NewLease EXCEPT !.rode = RodePast(w, pins, o, cap)].pid = "wrapper"
      BY <1>2, RecordTypes DEF LeaseRecord
    <3>2. lease'[o].pid = "wrapper" /\ waiter'[o] = NoWaiter
      BY <1>0, <2>1, <3>1
    <3>. QED BY <1>2, <1>3, <1>4, <2>3, <2>4, <3>2 DEF Owned, TypeOK
  <2>5. CASE p # o
    <3>1. lease'[p].pid = KeptLease(left)[p].pid
      BY <1>0, <2>1, <2>5
    <3>2. waiter'[p].queued = KeptWaiter[p].queued /\ Justified(p, waiter'[p])
      <4>1. CASE p \in Bypassed(w, pins, o, cap)
        <5>1. waiter'[p] = BypassRecord(w[p])
          BY <2>1, <2>5, <4>1
        <5>. QED BY <2>2, <4>1, <5>1, BypassType, BypassJustified
      <4>2. CASE p \notin Bypassed(w, pins, o, cap)
        BY <2>1, <2>2, <2>5, <4>2
      <4>. QED BY <4>1, <4>2
    <3>. QED BY <1>4, <2>3, <2>5, <3>1, <3>2, OwnedFrame DEF TypeOK
  <2>. QED BY <2>4, <2>5
<1>e. ASSUME NEW o \in Ops, TryAcquireDenied(o) PROVE Owned(p)'
  <2>. DEFINE w == MaterializeWorkProtections(KeptWaiter)
  <2>1. waiter' = w /\ lease' = KeptLease(Queued(w)) /\ UNCHANGED Processes
    BY <1>e DEF TryAcquireDenied
  <2>2. Justified(p, w[p]) /\ w[p].queued = KeptWaiter[p].queued
    BY <1>0, <1>1, MaterializeJustified
  <2>. QED BY <1>4, <2>1, <2>2, OwnedFrame DEF Processes
<1>f. ASSUME NEW o \in Ops, Acquire(o) PROVE Owned(p)'
  <2>. DEFINE l == KeptLease(Queued(KeptWaiter))
  <2>1. waiter' = KeptWaiter /\ handle[o] = "arrived"
    BY <1>f DEF Acquire
  <2>2. \/ /\ lease' = [l EXCEPT ![o] = NewLease] /\ handle' = [handle EXCEPT ![o] = "lease"]
           /\ UNCHANGED <<queuedAt, wrapper, child, cancel>>
        \/ lease' = l /\ Exit(o)
    BY <1>f DEF Acquire
  <2>3. CASE p = o
    <3>1. waiter'[o] = waiter[o] /\ l[o].pid = lease[o].pid
      BY <1>1, <2>1
    <3>2. l \in [Ops -> LeaseRecord]
      BY <1>0
    <3>. HIDE DEF l
    <3>. QED BY <1>2, <1>3, <1>4, <2>1, <2>2, <2>3, <3>1, <3>2 DEF Exit, Owned, TypeOK
  <2>4. CASE p # o
    <3>1. lease'[p] = l[p] /\ waiter'[p] = KeptWaiter[p]
      BY <1>0, <2>1, <2>2, <2>4
    <3>2. handle'[p] = handle[p] /\ wrapper'[p] = wrapper[p] /\ child' = child /\ cancel' = cancel
      BY <2>2, <2>4 DEF Exit, TypeOK
    <3>. QED BY <1>5, <3>1, <3>2
  <2>. QED BY <2>3, <2>4
<1>g. ASSUME NEW o \in Ops, Cancel(o) PROVE Owned(p)'
  <2>1. /\ waiter' = [KeptWaiter EXCEPT ![o] = NoWaiter] /\ Exit(o) /\ handle[o] = "waiting"
        /\ lease' = KeptLease(Queued(KeptWaiter) \ {o})
    BY <1>g DEF Cancel
  <2>2. CASE p = o
    <3>1. waiter'[o] = NoWaiter /\ lease'[o].pid = lease[o].pid
      BY <1>0, <1>1, <2>1
    <3>. QED BY <1>2, <1>3, <1>4, <2>1, <2>2, <3>1 DEF Exit, Owned, TypeOK
  <2>3. CASE p # o
    BY <1>0, <1>5, <2>1, <2>3 DEF Exit, TypeOK
  <2>. QED BY <2>2, <2>3
<1>h. ASSUME NEW o \in Ops, ReserveForPressure(o) PROVE Owned(p)'
  <2>1. /\ waiter' = [KeptWaiter EXCEPT ![o] = PressureWaiter]
        /\ lease' = [KeptLease(Queued(KeptWaiter)) EXCEPT ![o] = NoLease]
        /\ handle[o] = "lease" /\ child[o] = "none"
        /\ handle' = [handle EXCEPT ![o] = "waiting"]
        /\ UNCHANGED <<queuedAt, wrapper, child, cancel>>
    BY <1>h DEF ReserveForPressure
  <2>2. CASE p = o
    <3>1. waiter'[o] = PressureWaiter /\ lease'[o] = NoLease
      BY <1>0, <2>1
    <3>. QED BY <1>2, <1>3, <1>4, <2>1, <2>2, <3>1 DEF Owned, TypeOK
  <2>3. CASE p # o
    BY <1>0, <1>5, <2>1, <2>3 DEF TypeOK
  <2>. QED BY <2>2, <2>3
<1>i. ASSUME NEW o \in Ops, StartGated(o) \/ OpenGate(o) \/ ChildExit(o) \/ Crash(o)
                            \/ SignalTree(o) \/ ReusePID(o)
      PROVE  Owned(p)'
  <2>1. lease' = lease /\ waiter' = waiter
    BY <1>i DEF StartGated, OpenGate, ChildExit, Crash, SignalTree, ReusePID, ledger
  <2>2. CASE p = o
    <3>1. CASE StartGated(o) \/ OpenGate(o) \/ ChildExit(o)
      BY <1>3, <1>4, <2>1, <2>2, <3>1 DEF StartGated, OpenGate, ChildExit, Owned, TypeOK
    <3>2. CASE Crash(o) \/ ReusePID(o)
      BY <1>3, <1>4, <2>1, <2>2, <3>2 DEF Crash, ReusePID, Owned, TypeOK
    <3>3. CASE SignalTree(o)
      BY <1>3, <1>4, <2>1, <2>2, <3>3 DEF SignalTree, Owned, TypeOK
    <3>. QED BY <1>i, <3>1, <3>2, <3>3
  <2>3. CASE p # o
    <3>1. handle'[p] = handle[p] /\ wrapper'[p] = wrapper[p] /\ child'[p] = child[p]
          /\ cancel'[p] = cancel[p]
      BY <1>i, <2>3 DEF StartGated, OpenGate, ChildExit, Crash, SignalTree, ReusePID, TypeOK
    <3>. QED BY <1>3, <1>4, <2>1, <3>1 DEF Owned
  <2>. QED BY <2>2, <2>3
<1>j. ASSUME NEW o \in Ops, BindPID(o) PROVE Owned(p)'
  <2>. DEFINE l == KeptLease(Queued(KeptWaiter))
  <2>1. /\ handle[o] = "lease" /\ child[o] = "gated" /\ UNCHANGED <<queuedAt, wrapper, cancel>>
        /\ waiter' = KeptWaiter
        /\ \/ /\ l[o].pid = "none" /\ lease' = l /\ UNCHANGED handle
              /\ child' = [child EXCEPT ![o] = "gone"]
           \/ /\ l[o].pid # "none" /\ lease' = [l EXCEPT ![o].pid = "child"]
              /\ handle' = [handle EXCEPT ![o] = "bound"] /\ UNCHANGED child
    BY <1>j DEF BindPID, Reconcile, ReconcileRecords
  <2>2. l \in [Ops -> LeaseRecord] /\ (handle[p] # "none" => l[p].pid = lease[p].pid)
    BY <1>0, <1>1
  <2>3. [l[o] EXCEPT !.pid = "child"].pid = "child"
    BY <2>2 DEF LeaseRecord
  <2>4. CASE p = o
    <3>1. waiter'[o] = waiter[o]
      BY <1>1, <2>1
    <3>. HIDE DEF l
    <3>2. l[o].pid # "none" => lease'[o].pid = "child"
      BY <2>1, <2>2, <2>3
    <3>. QED BY <1>3, <1>4, <2>1, <2>2, <2>4, <3>1, <3>2 DEF Owned, TypeOK
  <2>5. CASE p # o
    <3>1. lease'[p] = l[p]
      BY <2>1, <2>2, <2>5
    <3>. QED BY <1>5, <2>1, <2>5, <3>1 DEF TypeOK
  <2>. QED BY <2>4, <2>5
<1>k. ASSUME NEW o \in Ops, SetParked(o) PROVE Owned(p)'
  <2>. DEFINE l == KeptLease(Queued(KeptWaiter))
  <2>1. PICK parked \in BOOLEAN :
          /\ lease' = IF l[o].pid = "none" THEN l
                      ELSE [l EXCEPT ![o].parked = parked,
                                     ![o].woken = @ \/ (l[o].parked /\ ~parked)]
          /\ waiter' = KeptWaiter /\ UNCHANGED Processes
    BY <1>k DEF SetParked
  <2>2. l \in [Ops -> LeaseRecord]
    BY <1>0
  <2>3. lease'[p].pid = l[p].pid
    <3>. HIDE DEF l
    <3>. QED BY <2>1, <2>2 DEF LeaseRecord
  <2>. QED BY <1>1, <1>4, <2>1, <2>3, OwnedFrame DEF Processes
<1>l. ASSUME NEW o \in Ops, Release(o) PROVE Owned(p)'
  <2>1. /\ waiter' = KeptWaiter /\ Exit(o) /\ handle[o] \in {"lease", "bound"}
        /\ child[o] \notin {"gated", "running"}
        /\ lease' = [KeptLease(Queued(KeptWaiter)) EXCEPT ![o] = NoLease]
    BY <1>l DEF Release
  <2>2. CASE p = o
    <3>1. waiter'[o] = waiter[o] /\ lease'[o] = NoLease
      BY <1>0, <1>1, <2>1
    <3>. QED BY <1>2, <1>3, <1>4, <2>1, <2>2, <3>1 DEF Exit, Owned, TypeOK
  <2>3. CASE p # o
    BY <1>0, <1>5, <2>1, <2>3 DEF Exit, TypeOK
  <2>. QED BY <2>2, <2>3
<1>m. ASSUME NEW o \in Ops, InspectWork(o) PROVE Owned(p)'
  <2>1. /\ Reconcile /\ UNCHANGED <<queuedAt, handle, wrapper, child>>
        /\ cancel[o] = "no" /\ LeaseKept(o) /\ lease[o].pid # "none"
    BY <1>m DEF InspectWork
  <2>2. CASE p = o
    <3>1. cancel'[o] \in {"child", "wrapper", "tree"}
      BY <1>m DEF InspectWork, TypeOK
    <3>2. lease'[o].pid = lease[o].pid
      BY <1>1, <1>6, <2>1, <2>2
    <3>3. ~waiter'[o].queued /\ Justified(o, waiter'[o])
          /\ (handle[o] # "none" => waiter'[o] = waiter[o])
      BY <1>1, <1>2, <1>4, <1>6, <2>1, <2>2 DEF Owned
    <3>. QED BY <1>3, <1>4, <2>1, <2>2, <3>1, <3>2, <3>3 DEF Owned
  <2>3. CASE p # o
    BY <1>m, <1>5, <1>6, <2>1, <2>3 DEF InspectWork, TypeOK
  <2>. QED BY <2>2, <2>3
<1>n. ASSUME NEW o \in Ops, DropLease(o) PROVE Owned(p)'
  <2>1. /\ waiter' = KeptWaiter /\ UNCHANGED <<queuedAt, handle, wrapper, child>>
        /\ lease' = [KeptLease(Queued(KeptWaiter)) EXCEPT ![o] = NoLease]
        /\ cancel[o] = "signalled"
    BY <1>n DEF DropLease
  <2>2. CASE p = o
    <3>1. cancel'[o] = IF LeaseKept(o) /\ lease[o].pid # "none" THEN "dropped" ELSE "no"
      BY <1>n DEF DropLease, TypeOK
    <3>2. lease'[o].pid = "none"
      BY <1>0, <1>2, <2>1
    <3>3. waiter'[o] = KeptWaiter[o] /\ Justified(o, waiter'[o])
          /\ (handle[o] # "none" => waiter'[o] = waiter[o])
          /\ (waiter'[o].queued => waiter[o].queued)
      BY <1>1, <1>2, <2>1
    <3>4. lease[o].pid # "none" /\ (handle[o] # "none" \/ (lease[o].pid = "child" /\ child[o] = "running"))
             => cancel'[o] = "dropped"
      BY <1>1, <2>2, <3>1
    <3>. QED BY <1>3, <1>4, <2>1, <2>2, <3>2, <3>3, <3>4 DEF Owned
  <2>3. CASE p # o
    BY <1>n, <1>0, <1>5, <2>1, <2>3 DEF DropLease, TypeOK
  <2>. QED BY <2>2, <2>3
<1>o. ASSUME NEW o \in Ops, AgeBypass(o) PROVE Owned(p)'
  <2>1. lease' = lease /\ UNCHANGED Processes
        /\ waiter' = [waiter EXCEPT ![o].lastBypassed = "aged"] /\ waiter \in [Ops -> WaiterRecord]
    BY <1>o DEF AgeBypass, TypeOK
  <2>2. waiter'[p].queued = waiter[p].queued
    BY <2>1 DEF WaiterRecord
  <2>3. Justified(p, waiter'[p])
    <3>1. CASE p = o
      <4>1. waiter'[o].lastBypassed = "aged"
        BY <2>1 DEF WaiterRecord
      <4>. QED BY <3>1, <4>1 DEF Justified
    <3>2. CASE p # o
      BY <1>4, <2>1, <3>2 DEF Owned
    <3>. QED BY <3>1, <3>2
  <2>. QED BY <1>3, <1>4, <2>1, <2>2, <2>3 DEF Owned, Processes
<1>q. ASSUME (\E s \in Sequences : OverrideWaiters(s)) \/ OverrideAllWaiters
             \/ ClearWaiterOverride \/ Status
      PROVE  Owned(p)'
  <2>1. ReconcileRecords /\ UNCHANGED Processes
    BY <1>q DEF OverrideWaiters, OverrideAllWaiters, ClearWaiterOverride, Status, Reconcile
  <2>. QED BY <1>5, <2>1 DEF ReconcileRecords, Processes
<1>r. CASE UNCHANGED vars
  BY <1>r, <1>3, <1>4 DEF vars, Owned
<1>. QED
  BY <1>a, <1>b, <1>c, <1>d, <1>e, <1>f, <1>g, <1>h, <1>i, <1>j, <1>k, <1>l, <1>m, <1>n,
     <1>o, <1>q, <1>r DEF Next

LEMMA OwnershipKept == Spec => []Ownership
<1>1. Init => Ownership
  BY DEF Init, Ownership, Owned, Justified, NoLease, NoWaiter
<1>2. TypeOK /\ Ownership /\ [Next]_vars => Ownership'
  BY OwnershipStep
<1>. QED BY <1>1, <1>2, TypeCorrect, PTL DEF Spec

\* For any number of operations: reconcile never refuses a ledger the
\* coordinator wrote, a live wrapper never loses its record, and a running
\* command is leased unless an operator dropped it.
THEOREM LedgerSafe == Spec => [](LedgerValid /\ HandleBacked /\ CommandCovered)
<1>1. TypeOK /\ Ownership => LedgerValid /\ HandleBacked /\ CommandCovered
  BY OwnershipImplies
<1>. QED BY <1>1, OwnershipKept, TypeCorrect, PTL

\* No sequence of calls, bypasses and reservations writes a ledger that reconcile refuses, which
\* would wedge every later call on the host: each protection on file can be derived again.
THEOREM RecordsValid == Spec => []LedgerValid
<1>. QED BY LedgerSafe, PTL

(***************************************************************************)
(* The capacity ceiling.                                                   *)
(***************************************************************************)
\* Whatever the selector picks fits the caller's ceiling, or is express work
\* within the overcommit (selectStateWaiter and the selectors below it).
LEMMA SelectionFits ==
    ASSUME NEW w, NEW pins, NEW l, NEW cap, NEW green \in GreenWindows, NEW lookahead \in BOOLEAN,
           NEW o \in SelectStateWaiter(w, pins, l, cap, green, lookahead)
    PROVE  \/ Used(l) + Weight[o] <= cap
           \/ o \in Express /\ Used(l) + Weight[o] <= cap + green.overcommit
<1>. DEFINE used   == Used(l)
            el     == ExpressLeasedWeight(l)
            pinned == {q \in Queued(w) : pins[q] = 1}
            Goal   == used + Weight[o] <= cap
                      \/ (o \in Express /\ used + Weight[o] <= cap + green.overcommit)
<1>1. CASE pinned # {}
  BY <1>1 DEF SelectStateWaiter
<1>2. CASE pinned = {} /\ lookahead
  <2>1. o \in SelectWorkWaiter(w, used, cap, green, el)
    BY <1>2 DEF SelectStateWaiter
  <2>. HIDE DEF used, el, pinned
  <2>2. PICK h \in Oldest(Queued(w)) :
          o \in IF ~WorkWaiterProtection(w, h, cap) THEN Oldest(Feasible(w, used, cap, green))
                ELSE IF used + Weight[h] <= cap THEN {h}
                ELSE Oldest(DrainRiders(w, h, used, cap, green, el))
    BY <2>1 DEF SelectWorkWaiter
  <2>3. ASSUME o \in Oldest(Feasible(w, used, cap, green)) PROVE Goal
    BY <2>3 DEF Oldest, Feasible, OvercommitFits
  <2>4. ASSUME o = h /\ used + Weight[h] <= cap PROVE Goal
    BY <2>4
  <2>5. ASSUME o \in Oldest(DrainRiders(w, h, used, cap, green, el)) PROVE Goal
    BY <2>5 DEF Oldest, DrainRiders
  <2>6. Goal
    BY <2>2, <2>3, <2>4, <2>5
  <2>. QED BY <2>6 DEF used
<1>3. CASE pinned = {} /\ ~lookahead
  <2>1. o \in SelectFIFOWorkWaiter(w, used, cap, green)
    BY <1>3 DEF SelectStateWaiter
  <2>. QED BY <2>1 DEF SelectFIFOWorkWaiter, OvercommitFits
<1>. QED BY <1>1, <1>2, <1>3

\* Reconciling only ever drops charged leases (chargedWeight, parked).
LEMMA KeptSteady ==
    ASSUME TypeOK, NEW W, NEW p \in Ops, KeptLease(W)[p].pid # "none"
    PROVE  /\ lease[p].pid = KeptLease(W)[p].pid
           /\ lease[p].parked = KeptLease(W)[p].parked
           /\ lease[p].woken = KeptLease(W)[p].woken
<1>1. lease[p] \in LeaseRecord /\ NoLease.pid = "none"
  BY DEF TypeOK, NoLease
<1>. QED BY <1>1 DEF KeptLease, LeaseRecord

\* A step whose steady leases were steady before keeps the ceiling.
LEMMA CeilingFrame ==
    ASSUME CapacityCeiling, Steady(lease') \in SUBSET Steady(lease)
    PROVE  CapacityCeiling'
<1>1. Steady(lease) \in SUBSET Ops
  BY DEF Steady, Charged, Leased
<1>2. Load(Steady(lease')) <= Load(Steady(lease))
  BY <1>1, LoadMonotone
<1>3. /\ (Steady(lease') \ Express) \in SUBSET (Steady(lease) \ Express)
      /\ (Steady(lease) \ Express) \in SUBSET Ops
  BY <1>1
<1>4. Load(Steady(lease') \ Express) <= Load(Steady(lease) \ Express)
  BY <1>3, LoadMonotone
<1>5. /\ Load(Steady(lease')) \in Nat /\ Load(Steady(lease)) \in Nat
      /\ Load(Steady(lease') \ Express) \in Nat /\ Load(Steady(lease) \ Express) \in Nat
  BY <1>1, <1>3, UnitsFinite
<1>6. /\ Load(Steady(lease')) <= Capacity + Overcommit
      /\ Load(Steady(lease') \ Express) <= Capacity
  BY <1>2, <1>4, <1>5, LimitsAssumption DEF CapacityCeiling
<1>. QED BY <1>6 DEF CapacityCeiling, Steady, Charged, Leased

\* An admission that fits keeps it too.
LEMMA CeilingAdmit ==
    ASSUME CapacityCeiling, NEW l, NEW o \in Ops, NEW cap \in Ceilings,
           Steady(l) \in SUBSET Steady(lease),
           Steady(lease') \in SUBSET (Steady(l) \cup {o}),
           \/ Used(l) + Weight[o] <= cap
           \/ o \in Express /\ Used(l) + Weight[o] <= cap + Overcommit
    PROVE  CapacityCeiling'
<1>0. /\ cap \in Nat /\ cap <= Capacity /\ Capacity \in Nat /\ Overcommit \in Nat
      /\ Weight[o] \in Nat
  BY LimitsAssumption
<1>1. /\ Charged(l) \in SUBSET Ops /\ Steady(l) \in SUBSET Charged(l)
      /\ (Charged(l) \cup {o}) \in SUBSET Ops
      /\ Steady(lease') \in SUBSET (Charged(l) \cup {o})
      /\ Steady(lease) \in SUBSET Ops
  BY DEF Steady, Charged, Leased
<1>2. Load(Charged(l) \cup {o}) <= Used(l) + Weight[o]
  BY <1>1, LoadAdd DEF Used
<1>3. Load(Steady(lease')) <= Load(Charged(l) \cup {o})
  BY <1>1, LoadMonotone
<1>4. /\ Used(l) \in Nat /\ Load(Charged(l) \cup {o}) \in Nat /\ Load(Steady(lease')) \in Nat
      /\ Load(Steady(lease') \ Express) \in Nat /\ Load(Steady(lease) \ Express) \in Nat
  BY <1>1, UnitsFinite DEF Used
<1>5. Load(Steady(lease')) <= Capacity + Overcommit
  BY <1>0, <1>2, <1>3, <1>4
<1>6. Load(Steady(lease') \ Express) <= Capacity
  <2>1. CASE Used(l) + Weight[o] <= cap
    <3>1. (Steady(lease') \ Express) \in SUBSET Steady(lease') /\ Steady(lease') \in SUBSET Ops
      BY <1>1
    <3>2. Load(Steady(lease') \ Express) <= Load(Steady(lease'))
      BY <3>1, LoadMonotone
    <3>. QED BY <1>0, <1>2, <1>3, <1>4, <2>1, <3>2
  <2>2. CASE o \in Express
    <3>1. /\ (Steady(lease') \ Express) \in SUBSET (Steady(lease) \ Express)
          /\ (Steady(lease) \ Express) \in SUBSET Ops
      BY <1>1, <2>2
    <3>2. Load(Steady(lease') \ Express) <= Load(Steady(lease) \ Express)
      BY <3>1, LoadMonotone
    <3>. QED BY <1>0, <1>4, <3>2 DEF CapacityCeiling
  <2>. QED BY <2>1, <2>2
<1>. QED BY <1>5, <1>6 DEF CapacityCeiling, Steady, Charged, Leased

\* Every step keeps the ceiling: two of them admit, the others only drop,
\* park or wake.
LEMMA CeilingStep ==
    ASSUME TypeOK, TypeOK', CapacityCeiling, [Next]_vars
    PROVE  CapacityCeiling'
<1>. USE TypeOK, CapacityCeiling
<1>0. /\ \A W : KeptLease(W) \in [Ops -> LeaseRecord]
      /\ NoLease.pid = "none"
  BY KeptTypes DEF NoLease
<1>1. ASSUME NEW W PROVE Steady(KeptLease(W)) \in SUBSET Steady(lease)
  BY KeptSteady DEF Steady, Charged, Leased
<1>2. ASSUME NEW W, NEW S \in SUBSET Ops,
             \A p \in Ops : lease'[p] = IF p \in S THEN NoLease ELSE KeptLease(W)[p]
      PROVE  CapacityCeiling'
  <2>1. Steady(lease') \in SUBSET Steady(KeptLease(W))
    BY <1>0, <1>2 DEF Steady, Charged, Leased
  <2>. QED BY <1>1, <2>1, CeilingFrame
<1>3. ASSUME NEW W, lease' = KeptLease(W) PROVE CapacityCeiling'
  BY <1>1, <1>3, CeilingFrame
<1>4. ASSUME lease' = lease PROVE CapacityCeiling'
  BY <1>4 DEF CapacityCeiling, Steady, Charged, Leased
<1>a. ASSUME NEW o \in Ops,
             \/ Arrive(o) \/ StartGated(o) \/ OpenGate(o) \/ ChildExit(o) \/ Crash(o)
             \/ SignalTree(o) \/ ReusePID(o) \/ AgeBypass(o)
      PROVE  CapacityCeiling'
  <2>1. lease' = lease
    BY <1>a DEF Arrive, StartGated, OpenGate, ChildExit, Crash, SignalTree, ReusePID,
                AgeBypass, ledger
  <2>. QED BY <2>1, <1>4
<1>b. ASSUME NEW o \in Ops,
             \/ RegisterWaiter(o) \/ PrioritizeWaiter(o) \/ TryAcquireDenied(o) \/ Cancel(o)
             \/ InspectWork(o)
      PROVE  CapacityCeiling'
  <2>1. \E W : lease' = KeptLease(W)
    BY <1>b DEF RegisterWaiter, PrioritizeWaiter, TryAcquireDenied, Cancel, InspectWork,
                Reconcile, ReconcileRecords
  <2>. QED BY <2>1, <1>3
<1>c. ASSUME NEW o \in Ops, ReserveForPressure(o) \/ Release(o) \/ DropLease(o)
      PROVE  CapacityCeiling'
  <2>1. lease' = [KeptLease(Queued(KeptWaiter)) EXCEPT ![o] = NoLease]
    BY <1>c DEF ReserveForPressure, Release, DropLease
  <2>2. \A p \in Ops : lease'[p] = IF p \in {o} THEN NoLease ELSE KeptLease(Queued(KeptWaiter))[p]
    BY <1>0, <2>1
  <2>. QED BY <1>2, <2>2
<1>d. ASSUME NEW o \in Ops, TryAcquire(o) PROVE CapacityCeiling'
  <2>. DEFINE w    == MaterializeWorkProtections(KeptWaiter)
              pins == AdvanceWorkOverride(Queued(w))
              l    == KeptLease(Queued(w))
              left == Queued(w) \ {o}
  <2>1. PICK cap \in Ceilings, window \in GreenWindows :
          /\ o \in SelectStateWaiter(w, pins, l, cap, IF cap < Capacity THEN Closed ELSE window,
                                     o \in Lookahead)
          /\ lease' = [KeptLease(left) EXCEPT
                          ![o] = [NewLease EXCEPT !.rode = RodePast(w, pins, o, cap)]]
    BY <1>d DEF TryAcquire
  <2>. DEFINE green == IF cap < Capacity THEN Closed ELSE window
  <2>2. green \in GreenWindows /\ green.overcommit \in {0, Overcommit}
    BY DEF GreenWindows, Closed
  <2>3. \/ Used(l) + Weight[o] <= cap
        \/ o \in Express /\ Used(l) + Weight[o] <= cap + green.overcommit
    <3>. DEFINE look == o \in Lookahead
    <3>1. look \in BOOLEAN
      OBVIOUS
    <3>2. o \in SelectStateWaiter(w, pins, l, cap, green, look)
      BY <2>1
    <3>. HIDE DEF w, pins, l, green, look
    <3>. QED BY <2>2, <3>1, <3>2, SelectionFits
  <2>4. Charged(l) \in SUBSET Ops
    BY DEF Charged, Leased
  <2>5. Used(l) \in Nat /\ cap \in Nat /\ Weight[o] \in Nat /\ Overcommit \in Nat
    BY <2>4, UnitsFinite, LimitsAssumption DEF Used
  <2>6. \/ Used(l) + Weight[o] <= cap
        \/ o \in Express /\ Used(l) + Weight[o] <= cap + Overcommit
    <3>. HIDE DEF l, green
    <3>. QED BY <2>2, <2>3, <2>5
  <2>7. Steady(lease') \in SUBSET (Steady(l) \cup {o})
    <3>1. \A p \in Ops \ {o} : lease'[p] = KeptLease(left)[p]
      BY <1>0, <2>1
    <3>2. \A p \in Ops : /\ KeptLease(left)[p].pid = l[p].pid
                         /\ KeptLease(left)[p].parked = l[p].parked
                         /\ KeptLease(left)[p].woken = l[p].woken
      BY DEF KeptLease, TypeOK, LeaseRecord
    <3>. HIDE DEF l, left
    <3>. QED BY <3>1, <3>2 DEF Steady, Charged, Leased
  <2>8. Steady(l) \in SUBSET Steady(lease)
    BY <1>1
  <2>. HIDE DEF l
  <2>. QED BY <2>6, <2>7, <2>8, CeilingAdmit
<1>e. ASSUME NEW o \in Ops, Acquire(o) PROVE CapacityCeiling'
  <2>. DEFINE l == KeptLease(Queued(KeptWaiter))
  <2>1. CASE lease' = l
    BY <2>1, <1>3
  <2>2. CASE lease' # l
    <3>1. PICK cap \in Ceilings, window \in GreenWindows :
            /\ lease' = [l EXCEPT ![o] = NewLease]
            /\ \/ Used(l) + Weight[o] <= cap
               \/ OvercommitFits(o, Used(l), cap, IF cap < Capacity THEN Closed ELSE window)
      BY <1>e, <2>2 DEF Acquire
    <3>. DEFINE green == IF cap < Capacity THEN Closed ELSE window
    <3>2. green.overcommit \in {0, Overcommit}
      BY DEF GreenWindows, Closed
    <3>3. Charged(l) \in SUBSET Ops
      BY DEF Charged, Leased
    <3>4. Used(l) \in Nat /\ cap \in Nat /\ Weight[o] \in Nat /\ Overcommit \in Nat
      BY <3>3, UnitsFinite, LimitsAssumption DEF Used
    <3>5. \/ Used(l) + Weight[o] <= cap
          \/ o \in Express /\ Used(l) + Weight[o] <= cap + Overcommit
      <4>. HIDE DEF l, green
      <4>. QED BY <3>1, <3>2, <3>4 DEF OvercommitFits, green
    <3>6. Steady(lease') \in SUBSET (Steady(l) \cup {o})
      BY <1>0, <3>1 DEF Steady, Charged, Leased
    <3>7. Steady(l) \in SUBSET Steady(lease)
      BY <1>1
    <3>. HIDE DEF l
    <3>. QED BY <3>5, <3>6, <3>7, CeilingAdmit
  <2>. QED BY <2>1, <2>2
<1>f. ASSUME NEW o \in Ops, BindPID(o) PROVE CapacityCeiling'
  <2>. DEFINE l == KeptLease(Queued(KeptWaiter))
  <2>1. lease' = l \/ (l[o].pid # "none" /\ lease' = [l EXCEPT ![o].pid = "child"])
    BY <1>f DEF BindPID, Reconcile, ReconcileRecords
  <2>2. l \in [Ops -> LeaseRecord] /\ Steady(l) \in SUBSET Steady(lease)
    BY <1>0, <1>1
  <2>. HIDE DEF l
  <2>3. Steady(lease') \in SUBSET Steady(l)
    BY <2>1, <2>2 DEF Steady, Charged, Leased, LeaseRecord
  <2>. QED BY <2>2, <2>3, CeilingFrame
<1>g. ASSUME NEW o \in Ops, SetParked(o) PROVE CapacityCeiling'
  <2>. DEFINE l == KeptLease(Queued(KeptWaiter))
  <2>1. PICK parked \in BOOLEAN :
          lease' = IF l[o].pid = "none" THEN l
                   ELSE [l EXCEPT ![o].parked = parked,
                                  ![o].woken = @ \/ (l[o].parked /\ ~parked)]
    BY <1>g DEF SetParked
  <2>2. l \in [Ops -> LeaseRecord] /\ Steady(l) \in SUBSET Steady(lease)
    BY <1>0, <1>1
  <2>. HIDE DEF l
  <2>3. CASE l[o].pid = "none"
    BY <2>1, <2>2, <2>3, CeilingFrame
  <2>4. CASE l[o].pid # "none"
    <3>1. \A p \in Ops \ {o} : lease'[p] = l[p]
      BY <2>1, <2>2, <2>4
    <3>2. /\ lease'[o].parked = parked
          /\ lease'[o].woken = (l[o].woken \/ (l[o].parked /\ ~parked))
      BY <2>1, <2>2, <2>4 DEF LeaseRecord
    <3>3. o \in Steady(lease') => o \in Steady(l)
      BY <3>2, <2>4 DEF Steady, Charged, Leased
    <3>4. Steady(lease') \in SUBSET Steady(l)
      BY <3>1, <3>3 DEF Steady, Charged, Leased
    <3>. QED BY <2>2, <3>4, CeilingFrame
  <2>. QED BY <2>3, <2>4
<1>h. ASSUME (\E s \in Sequences : OverrideWaiters(s)) \/ OverrideAllWaiters
             \/ ClearWaiterOverride \/ Status
      PROVE  CapacityCeiling'
  BY <1>h, <1>3 DEF OverrideWaiters, OverrideAllWaiters, ClearWaiterOverride, Status,
                    Reconcile, ReconcileRecords
<1>i. CASE UNCHANGED vars
  BY <1>i, <1>4 DEF vars
<1>. QED
  BY <1>a, <1>b, <1>c, <1>d, <1>e, <1>f, <1>g, <1>h, <1>i DEF Next

\* For any weights, ceilings and number of operations: the leases that were
\* never parked stay within the capacity and the express overcommit.
THEOREM CeilingHolds == Spec => []CapacityCeiling
<1>1. Init => CapacityCeiling
  <2>1. Units({}) = {}
    BY DEF Units
  <2>2. Load({}) = 0
    BY <2>1, FS_EmptySet DEF Load
  <2>3. ASSUME Init PROVE Steady(lease) = {} /\ Steady(lease) \ Express = {}
    BY <2>3 DEF Init, Steady, Charged, Leased, NoLease
  <2>4. ASSUME Init PROVE Load(Steady(lease)) = 0 /\ Load(Steady(lease) \ Express) = 0
    <3>1. Steady(lease) = {} /\ Steady(lease) \ Express = {}
      BY <2>3, <2>4
    <3>. QED BY ONLY <2>2, <3>1, Zenon
  <2>. QED BY <2>4, LimitsAssumption DEF CapacityCeiling
<1>2. TypeOK /\ TypeOK' /\ CapacityCeiling /\ [Next]_vars => CapacityCeiling'
  BY CeilingStep
<1>. QED BY <1>1, <1>2, TypeCorrect, PTL DEF Spec

(***************************************************************************)
(* Drain rides.                                                            *)
(***************************************************************************)
\* What the budget of a ride counts are express leases: only express work rides.
RidersExpress == \A o \in Ops : lease[o].rode # NoOp => o \in Express
Riders(h)     == {o \in Steady(lease) : lease[o].rode = h}
DrainInv      == RidersExpress /\ DrainResidue

\* A step that files no ride keeps the residue: histories only end, rides only go,
\* and nobody is queued anew whom a lease still counts as ridden past.
LEMMA DrainFrame ==
    ASSUME DrainInv,
           \A p \in Ops : lease'[p].rode \in {lease[p].rode, NoOp},
           \A p \in Steady(lease') : lease'[p].rode # NoOp => p \in Steady(lease),
           \A h \in Queued(waiter') : h \in Queued(waiter) \/ \A p \in Ops : lease'[p].rode # h
    PROVE  DrainInv'
<1>1. RidersExpress'
  BY DEF DrainInv, RidersExpress
<1>2. ASSUME NEW h \in Queued(waiter') PROVE Load(Riders(h)') + Weight[h] <= Capacity
  <2>0. h \in Ops /\ h # NoOp /\ Weight[h] \in 1..Capacity /\ Capacity \in Nat
    BY <1>2, LimitsAssumption DEF Queued
  <2>1. CASE h \in Queued(waiter)
    <3>1. Riders(h)' \in SUBSET Riders(h) /\ Riders(h) \in SUBSET Ops
      BY <2>0 DEF Riders, Steady, Charged, Leased
    <3>2. Load(Riders(h)') <= Load(Riders(h))
      BY <3>1, LoadMonotone
    <3>3. Load(Riders(h)') \in Nat /\ Load(Riders(h)) \in Nat
      BY <3>1, UnitsFinite
    <3>4. Load(Riders(h)) + Weight[h] <= Capacity
      BY <2>1 DEF DrainInv, DrainResidue, Riders
    <3>. QED BY <2>0, <3>2, <3>3, <3>4
  <2>2. CASE \A p \in Ops : lease'[p].rode # h
    <3>1. Riders(h)' = {}
      BY <2>2 DEF Riders, Steady, Charged, Leased
    <3>2. Load({}) = 0
      BY FS_EmptySet DEF Load, Units
    <3>. QED BY <2>0, <3>1, <3>2
  <2>. QED BY <1>2, <2>1, <2>2
<1>3. DrainResidue'
  BY <1>2 DEF DrainResidue, Riders, Queued
<1>. QED BY <1>1, <1>3 DEF DrainInv

\* A queue has one head.
LEMMA OneOldest ==
    ASSUME queuedAt \in [Ops -> Nat], NEW S \in SUBSET Ops, NEW o \in Oldest(S), NEW h \in Oldest(S)
    PROVE  o = h
BY DEF Oldest, Older

\* Whoever is selected past a protected head is express work, and fits beside the
\* head and everything express that is in flight (selectWorkWaiter).
LEMMA RideFits ==
    ASSUME queuedAt \in [Ops -> Nat],
           NEW w, NEW pins, NEW l, NEW cap, NEW green, NEW lookahead \in BOOLEAN,
           NEW o \in SelectStateWaiter(w, pins, l, cap, green, lookahead),
           RodePast(w, pins, o, cap) # NoOp
    PROVE  /\ o \in Express
           /\ RodePast(w, pins, o, cap) \in Queued(w)
           /\ ExpressLeasedWeight(l) + Weight[o] + Weight[RodePast(w, pins, o, cap)] <= cap
<1>. DEFINE used   == Used(l)
            el     == ExpressLeasedWeight(l)
            pinned == {q \in Queued(w) : pins[q] = 1}
            r      == RodePast(w, pins, o, cap)
<1>1. /\ r \in Oldest(Queued(w)) /\ r # o /\ WorkWaiterProtection(w, r, cap)
      /\ pinned = {}
  <2>. DEFINE heads == {h \in Oldest(Queued(w)) : h # o /\ WorkWaiterProtection(w, h, cap)
                                            /\ \A p \in Queued(w) : pins[p] # 1}
  <2>1. heads # {}
    BY DEF RodePast
  <2>2. r \in heads
    BY <2>1 DEF RodePast
  <2>. QED BY <2>2
<1>2. Queued(w) \in SUBSET Ops
  BY DEF Queued
<1>3. CASE lookahead
  <2>1. o \in SelectWorkWaiter(w, used, cap, green, el)
    BY <1>1, <1>3 DEF SelectStateWaiter
  <2>. HIDE DEF used, el, pinned, r
  <2>2. PICK h \in Oldest(Queued(w)) :
          o \in IF ~WorkWaiterProtection(w, h, cap) THEN Oldest(Feasible(w, used, cap, green))
                ELSE IF used + Weight[h] <= cap THEN {h}
                ELSE Oldest(DrainRiders(w, h, used, cap, green, el))
    BY <2>1 DEF SelectWorkWaiter
  <2>3. h = r
    BY <1>1, <1>2, OneOldest
  <2>4. o \in Oldest(DrainRiders(w, r, used, cap, green, el))
    BY <1>1, <2>2, <2>3
  <2>5. o \in Express /\ el + Weight[o] + Weight[r] <= cap /\ r \in Queued(w)
    BY <1>1, <2>4 DEF Oldest, DrainRiders
  <2>. QED BY <2>5 DEF el, r
<1>4. CASE ~lookahead
  <2>1. o \in SelectFIFOWorkWaiter(w, used, cap, green)
    BY <1>1, <1>4 DEF SelectStateWaiter
  <2>2. o \in Oldest(Queued(w))
    BY <2>1 DEF SelectFIFOWorkWaiter
  <2>. HIDE DEF r
  <2>. QED BY <1>1, <1>2, <2>2, OneOldest
<1>. QED BY <1>3, <1>4

\* What reconciling leaves of the history of a lease, and of the queue.
LEMMA KeptRides ==
    ASSUME TypeOK
    PROVE  /\ \A W : \A p \in Ops : /\ KeptLease(W)[p].rode \in {lease[p].rode, NoOp}
                                    /\ KeptLease(W)[p].rode # NoOp => KeptLease(W)[p].rode \in W
           /\ \A W : Steady(KeptLease(W)) \in SUBSET Steady(lease)
           /\ Queued(KeptWaiter) \in SUBSET Queued(waiter)
           /\ Queued(MaterializeWorkProtections(KeptWaiter)) \in SUBSET Queued(waiter)
<1>1. ASSUME NEW W, NEW p \in Ops
      PROVE  /\ KeptLease(W)[p].rode \in {lease[p].rode, NoOp}
             /\ KeptLease(W)[p].rode # NoOp => KeptLease(W)[p].rode \in W
  <2>1. lease[p] \in LeaseRecord /\ NoLease.rode = NoOp
    BY DEF TypeOK, NoLease
  <2>. QED BY <2>1 DEF KeptLease, LeaseRecord
<1>2. ASSUME NEW W PROVE Steady(KeptLease(W)) \in SUBSET Steady(lease)
  BY KeptSteady DEF Steady, Charged, Leased
<1>3. Queued(KeptWaiter) \in SUBSET Queued(waiter)
  BY DEF Queued, KeptWaiter, NoWaiter
<1>4. Queued(MaterializeWorkProtections(KeptWaiter)) \in SUBSET Queued(KeptWaiter)
  BY KeptTypes DEF MaterializeWorkProtections, Queued, WaiterRecord
<1>. QED BY <1>1, <1>2, <1>3, <1>4

\* A ledger write that only drops leases and files no ride.
LEMMA DrainKept ==
    ASSUME TypeOK, DrainInv, NEW W, NEW S \in SUBSET Ops,
           \A p \in Ops : lease'[p] = IF p \in S THEN NoLease ELSE KeptLease(W)[p],
           \A h \in Queued(waiter') : h \in Queued(waiter) \/ h \notin W
    PROVE  DrainInv'
<1>0. NoLease.rode = NoOp
  BY DEF NoLease
<1>1. \A p \in Ops : lease'[p].rode \in {lease[p].rode, NoOp}
  BY <1>0, KeptRides
<1>2. \A p \in Steady(lease') : lease'[p].rode # NoOp => p \in Steady(lease)
  <2>1. ASSUME NEW p \in Steady(lease'), lease'[p].rode # NoOp PROVE p \in Steady(KeptLease(W))
    BY <1>0, <2>1 DEF Steady, Charged, Leased
  <2>. QED BY <2>1, KeptRides
<1>3. \A h \in Queued(waiter') : h \in Queued(waiter) \/ \A p \in Ops : lease'[p].rode # h
  <2>1. ASSUME NEW h \in Queued(waiter'), h \notin W, NEW p \in Ops PROVE lease'[p].rode # h
    <3>1. h # NoOp
      BY LimitsAssumption DEF Queued
    <3>. QED BY <1>0, <2>1, <3>1, KeptRides
  <2>. QED BY <2>1
<1>. QED BY <1>1, <1>2, <1>3, DrainFrame

\* A ride: the selected operation, and beside it no rider that was not one before.
LEMMA DrainRide ==
    ASSUME TypeOK, DrainInv, NEW o \in Ops, TryAcquire(o)
    PROVE  DrainInv'
<1>. DEFINE w    == MaterializeWorkProtections(KeptWaiter)
            pins == AdvanceWorkOverride(Queued(w))
            l    == KeptLease(Queued(w))
            left == Queued(w) \ {o}
            look == o \in Lookahead
<1>1. PICK cap \in Ceilings, window \in GreenWindows :
        /\ o \in SelectStateWaiter(w, pins, l, cap, IF cap < Capacity THEN Closed ELSE window, look)
        /\ waiter' = [p \in Ops |->
                        IF p = o THEN NoWaiter
                        ELSE IF p \in Bypassed(w, pins, o, cap) THEN BypassRecord(w[p])
                        ELSE w[p]]
        /\ lease' = [KeptLease(left) EXCEPT
                        ![o] = [NewLease EXCEPT !.rode = RodePast(w, pins, o, cap)]]
  BY DEF TryAcquire
<1>. DEFINE r == RodePast(w, pins, o, cap)
<1>2. look \in BOOLEAN
  OBVIOUS
<1>3. /\ lease'[o].rode = r
      /\ \A p \in Ops \ {o} : lease'[p] = KeptLease(left)[p]
  BY <1>1 DEF NewLease, NoLease, KeptLease
<1>4. Queued(waiter') \in SUBSET left
  <2>1. w \in [Ops -> WaiterRecord]
    BY MaterializeType, KeptTypes
  <2>2. \A p \in Ops : BypassRecord(w[p]).queued = w[p].queued
    <3>. HIDE DEF w
    <3>. QED BY <2>1 DEF BypassRecord, WaiterRecord
  <2>3. \A p \in Ops : waiter'[p].queued => p # o /\ w[p].queued
    <3>. DEFINE B == Bypassed(w, pins, o, cap)
    <3>1. \A p \in Ops : waiter'[p] = IF p = o THEN NoWaiter
                                      ELSE IF p \in B THEN BypassRecord(w[p]) ELSE w[p]
      BY <1>1
    <3>. HIDE DEF B, w, pins
    <3>. QED BY <2>2, <3>1 DEF NoWaiter
  <2>. HIDE DEF w
  <2>. QED BY <2>3 DEF Queued
<1>5. left \in SUBSET Queued(waiter)
  BY KeptRides
<1>6. /\ \A p \in Ops : /\ KeptLease(left)[p].rode \in {lease[p].rode, NoOp}
                        /\ KeptLease(left)[p].rode # NoOp => KeptLease(left)[p].rode \in left
      /\ Steady(KeptLease(left)) \in SUBSET Steady(lease)
  BY KeptRides
<1>7. CASE r = NoOp
  <2>1. \A p \in Ops : lease'[p].rode \in {lease[p].rode, NoOp}
    BY <1>3, <1>6, <1>7
  <2>2. \A p \in Steady(lease') : lease'[p].rode # NoOp => p \in Steady(lease)
    <3>1. ASSUME NEW p \in Steady(lease'), lease'[p].rode # NoOp PROVE p \in Steady(KeptLease(left))
      <4>. HIDE DEF left, r
      <4>. QED BY <1>3, <1>7, <3>1 DEF Steady, Charged, Leased
    <3>. QED BY <3>1, <1>6
  <2>3. \A h \in Queued(waiter') : h \in Queued(waiter)
    BY <1>4, <1>5
  <2>. QED BY <2>1, <2>2, <2>3, DrainFrame
<1>8. CASE r # NoOp
  <2>1. /\ o \in Express /\ r \in Queued(w)
        /\ ExpressLeasedWeight(l) + Weight[o] + Weight[r] <= cap
    <3>. DEFINE green == IF cap < Capacity THEN Closed ELSE window
    <3>1. o \in SelectStateWaiter(w, pins, l, cap, green, look) /\ queuedAt \in [Ops -> Nat]
      BY <1>1 DEF TypeOK
    <3>2. RodePast(w, pins, o, cap) # NoOp
      BY <1>8
    <3>. HIDE DEF w, pins, l, green, look, r
    <3>3. /\ o \in Express
          /\ RodePast(w, pins, o, cap) \in Queued(w)
          /\ ExpressLeasedWeight(l) + Weight[o] + Weight[RodePast(w, pins, o, cap)] <= cap
      BY <3>1, <3>2, <1>2, RideFits
    <3>. QED BY <3>3 DEF r
  <2>. HIDE DEF look, pins, r
  <2>2. RidersExpress'
    BY <1>3, <1>6, <2>1 DEF RidersExpress, DrainInv
  <2>3. ASSUME NEW h \in Queued(waiter') PROVE Load(Riders(h)') + Weight[h] <= Capacity
    <3>0. /\ h \in left /\ h \in Ops /\ h # NoOp
          /\ Weight[h] \in Nat /\ Weight[o] \in Nat /\ cap \in Nat /\ cap <= Capacity
          /\ Capacity \in Nat
      BY <2>3, <1>4, <1>5, LimitsAssumption DEF Queued
    <3>1. \A p \in Riders(h)' \ {o} : p \in Steady(KeptLease(left)) /\ KeptLease(left)[p].rode = h
      <4>. HIDE DEF left
      <4>. QED BY <1>3 DEF Riders, Steady, Charged, Leased
    <3>2. CASE h # r
      <4>1. Riders(h)' \in SUBSET Riders(h) /\ Riders(h) \in SUBSET Ops
        <5>1. o \notin Riders(h)'
          BY <1>3, <3>2 DEF Riders
        <5>2. \A p \in Riders(h)' : p \in Riders(h)
          <6>. HIDE DEF left
          <6>. QED BY <1>6, <3>0, <3>1, <5>1 DEF Riders, Steady, Charged, Leased
        <5>. QED BY <5>2 DEF Riders, Steady, Charged, Leased
      <4>2. Load(Riders(h)') <= Load(Riders(h))
        BY <4>1, LoadMonotone
      <4>3. Load(Riders(h)') \in Nat /\ Load(Riders(h)) \in Nat
        BY <4>1, UnitsFinite
      <4>4. Load(Riders(h)) + Weight[h] <= Capacity
        BY <3>0, <1>5 DEF DrainInv, DrainResidue, Riders
      <4>. QED BY <3>0, <4>2, <4>3, <4>4
    <3>3. CASE h = r
      <4>. DEFINE E == Charged(l) \cap Express
      <4>1. /\ E \in SUBSET Ops /\ (E \cup {o}) \in SUBSET Ops
            /\ ExpressLeasedWeight(l) = Load(E)
        BY DEF Charged, Leased, ExpressLeasedWeight
      <4>2. Riders(h)' \in SUBSET (E \cup {o})
        <5>1. ASSUME NEW p \in Riders(h)', p # o PROVE p \in Charged(l) /\ p \in Express
          <6>1. p \in Ops /\ p \in Steady(KeptLease(left)) /\ KeptLease(left)[p].rode = h
            BY <3>1, <5>1 DEF Steady, Charged, Leased
          <6>2. lease[p].rode = h
            BY <1>6, <3>0, <6>1
          <6>3. p \in Express
            BY <3>0, <6>1, <6>2 DEF DrainInv, RidersExpress
          <6>4. /\ KeptLease(left)[p].pid = l[p].pid
                /\ KeptLease(left)[p].parked = l[p].parked
            BY <6>1 DEF KeptLease, TypeOK, LeaseRecord
          <6>. HIDE DEF left, l
          <6>5. p \in Charged(l)
            BY <6>1, <6>4 DEF Steady, Charged, Leased
          <6>. QED BY <6>3, <6>5
        <5>. QED BY <5>1
      <4>. HIDE DEF E, l
      <4>3. Load(Riders(h)') <= Load(E \cup {o}) /\ Load(E \cup {o}) <= Load(E) + Weight[o]
        BY <4>1, <4>2, LoadMonotone, LoadAdd
      <4>4. Load(Riders(h)') \in Nat /\ Load(E \cup {o}) \in Nat /\ Load(E) \in Nat
        <5>1. Riders(h)' \in SUBSET Ops
          BY <4>1, <4>2
        <5>. QED BY <4>1, <5>1, UnitsFinite
      <4>5. Load(E) + Weight[o] + Weight[h] <= cap
        BY <2>1, <3>3, <4>1
      <4>. QED BY <3>0, <4>3, <4>4, <4>5
    <3>. QED BY <3>2, <3>3
  <2>4. DrainResidue'
    BY <2>3 DEF DrainResidue, Riders, Queued
  <2>. QED BY <2>2, <2>4 DEF DrainInv
<1>. QED BY <1>7, <1>8

\* Every step keeps the residue: one of them files a ride, the others drop leases, park,
\* wake, file leases that rode past nobody, or queue whom no lease rode past.
LEMMA DrainStep ==
    ASSUME TypeOK, DrainInv, [Next]_vars
    PROVE  DrainInv'
<1>. USE TypeOK, DrainInv
<1>0. /\ \A W : KeptLease(W) \in [Ops -> LeaseRecord]
      /\ NoLease.pid = "none" /\ NoLease.rode = NoOp /\ NewLease.rode = NoOp
  BY KeptTypes DEF NoLease, NewLease
<1>1. ASSUME NEW W, lease' = KeptLease(W),
             \A h \in Queued(waiter') : h \in Queued(waiter) \/ h \notin W
      PROVE  DrainInv'
  <2>1. {} \in SUBSET Ops /\ \A p \in Ops : lease'[p] = IF p \in {} THEN NoLease ELSE KeptLease(W)[p]
    BY <1>1
  <2>. QED BY <1>1, <2>1, DrainKept
<1>2. ASSUME NEW W, NEW o \in Ops, lease' = [KeptLease(W) EXCEPT ![o] = NoLease],
             \A h \in Queued(waiter') : h \in Queued(waiter) \/ h \notin W
      PROVE  DrainInv'
  <2>1. {o} \in SUBSET Ops /\ \A p \in Ops : lease'[p] = IF p \in {o} THEN NoLease ELSE KeptLease(W)[p]
    BY <1>0, <1>2
  <2>. QED BY <1>2, <2>1, DrainKept
<1>3. ASSUME lease' = lease, Queued(waiter') \in SUBSET Queued(waiter) PROVE DrainInv'
  <2>1. \A p \in Steady(lease') : p \in Steady(lease)
    BY <1>3 DEF Steady, Charged, Leased
  <2>2. \A p \in Ops : lease'[p].rode \in {lease[p].rode, NoOp}
    BY <1>3
  <2>3. \A h \in Queued(waiter') : h \in Queued(waiter)
    BY <1>3
  <2>. QED BY <2>1, <2>2, <2>3, DrainFrame
<1>4. /\ Queued(KeptWaiter) \in SUBSET Queued(waiter)
      /\ Queued(MaterializeWorkProtections(KeptWaiter)) \in SUBSET Queued(waiter)
      /\ \A W : Steady(KeptLease(W)) \in SUBSET Steady(lease)
      /\ \A W : \A p \in Ops : KeptLease(W)[p].rode \in {lease[p].rode, NoOp}
      /\ KeptWaiter \in [Ops -> WaiterRecord]
      /\ ~NoWaiter.queued
  BY KeptRides, KeptTypes DEF NoWaiter
<1>a. ASSUME NEW o \in Ops,
             \/ Arrive(o) \/ StartGated(o) \/ OpenGate(o) \/ ChildExit(o) \/ Crash(o)
             \/ SignalTree(o) \/ ReusePID(o)
      PROVE  DrainInv'
  <2>1. lease' = lease /\ waiter' = waiter
    BY <1>a DEF Arrive, StartGated, OpenGate, ChildExit, Crash, SignalTree, ReusePID, ledger
  <2>. QED BY <2>1, <1>3 DEF Queued
<1>b. ASSUME NEW o \in Ops, AgeBypass(o) PROVE DrainInv'
  <2>1. lease' = lease /\ waiter' = [waiter EXCEPT ![o].lastBypassed = "aged"]
    BY <1>b DEF AgeBypass
  <2>2. Queued(waiter') \in SUBSET Queued(waiter)
    BY <2>1 DEF Queued, TypeOK, WaiterRecord
  <2>. QED BY <2>1, <2>2, <1>3
<1>c. ASSUME NEW o \in Ops, RegisterWaiter(o) \/ Cancel(o) PROVE DrainInv'
  <2>1. \E W \in {Queued(KeptWaiter), Queued(KeptWaiter) \ {o}} : lease' = KeptLease(W)
    BY <1>c DEF RegisterWaiter, Cancel
  <2>2. \A p \in Ops \ {o} : waiter'[p] = KeptWaiter[p]
    BY <1>c, <1>4 DEF RegisterWaiter, Cancel
  <2>3. \A h \in Queued(waiter') : h \in Queued(waiter) \/ h \notin Queued(KeptWaiter)
    BY <2>2, <1>4 DEF Queued
  <2>. QED BY <2>1, <2>3, <1>1
<1>d. ASSUME NEW o \in Ops, PrioritizeWaiter(o) PROVE DrainInv'
  <2>1. \E W : lease' = KeptLease(W)
    BY <1>d DEF PrioritizeWaiter
  <2>2. \A p \in Ops : waiter'[p] \in {KeptWaiter[p], NoWaiter}
    BY <1>d, <1>4 DEF PrioritizeWaiter
  <2>3. \A h \in Queued(waiter') : h \in Queued(waiter)
    BY <2>2, <1>4 DEF Queued
  <2>. QED BY <2>1, <2>3, <1>1
<1>e. ASSUME NEW o \in Ops, TryAcquireDenied(o) PROVE DrainInv'
  <2>1. /\ waiter' = MaterializeWorkProtections(KeptWaiter)
        /\ lease' = KeptLease(Queued(MaterializeWorkProtections(KeptWaiter)))
    BY <1>e DEF TryAcquireDenied
  <2>. QED BY <2>1, <1>1, <1>4
<1>f. ASSUME NEW o \in Ops, TryAcquire(o) PROVE DrainInv'
  BY <1>f, DrainRide
<1>g. ASSUME NEW o \in Ops, Acquire(o) PROVE DrainInv'
  <2>. DEFINE l == KeptLease(Queued(KeptWaiter))
  <2>0. waiter' = KeptWaiter
    BY <1>g DEF Acquire
  <2>1. CASE lease' = l
    BY <2>0, <2>1, <1>1, <1>4
  <2>2. CASE lease' # l
    <3>1. lease' = [l EXCEPT ![o] = NewLease]
      BY <1>g, <2>2 DEF Acquire
    <3>2. l \in [Ops -> LeaseRecord] /\ Steady(l) \in SUBSET Steady(lease)
          /\ \A p \in Ops : l[p].rode \in {lease[p].rode, NoOp}
      BY <1>0, <1>4
    <3>. HIDE DEF l
    <3>3. \A p \in Ops : lease'[p].rode \in {lease[p].rode, NoOp}
      BY <1>0, <3>1, <3>2
    <3>4. \A p \in Steady(lease') : lease'[p].rode # NoOp => p \in Steady(lease)
      <4>1. ASSUME NEW p \in Steady(lease'), lease'[p].rode # NoOp PROVE p \in Steady(l)
        BY <1>0, <3>1, <3>2, <4>1 DEF Steady, Charged, Leased
      <4>. QED BY <3>2, <4>1
    <3>5. \A h \in Queued(waiter') : h \in Queued(waiter)
      BY <2>0, <1>4
    <3>. QED BY <3>3, <3>4, <3>5, DrainFrame
  <2>. QED BY <2>1, <2>2
<1>h. ASSUME NEW o \in Ops, ReserveForPressure(o) \/ Release(o) \/ DropLease(o) PROVE DrainInv'
  <2>1. lease' = [KeptLease(Queued(KeptWaiter)) EXCEPT ![o] = NoLease]
    BY <1>h DEF ReserveForPressure, Release, DropLease
  <2>2. \A p \in Ops \ {o} : waiter'[p] = KeptWaiter[p]
    BY <1>h, <1>4 DEF ReserveForPressure, Release, DropLease
  <2>3. \A h \in Queued(waiter') : h \in Queued(waiter) \/ h \notin Queued(KeptWaiter)
    <3>1. CASE ReserveForPressure(o)
      BY <2>2, <1>4 DEF Queued
    <3>2. CASE Release(o) \/ DropLease(o)
      BY <3>2, <1>4 DEF Release, DropLease
    <3>. QED BY <2>2, <1>4 DEF Queued
  <2>. QED BY <2>1, <2>3, <1>2
<1>i. ASSUME NEW o \in Ops, BindPID(o) \/ SetParked(o) \/ InspectWork(o) PROVE DrainInv'
  <2>. DEFINE l == KeptLease(Queued(KeptWaiter))
  <2>0. waiter' = KeptWaiter
    BY <1>i DEF BindPID, SetParked, InspectWork, Reconcile, ReconcileRecords
  <2>1. l \in [Ops -> LeaseRecord] /\ Steady(l) \in SUBSET Steady(lease)
        /\ \A p \in Ops : l[p].rode \in {lease[p].rode, NoOp}
    BY <1>0, <1>4
  <2>2. \/ lease' = l
        \/ l[o].pid # "none" /\ lease' = [l EXCEPT ![o].pid = "child"]
        \/ \E parked \in BOOLEAN :
             /\ l[o].pid # "none"
             /\ lease' = [l EXCEPT ![o].parked = parked,
                                   ![o].woken = @ \/ (l[o].parked /\ ~parked)]
    <3>1. CASE SetParked(o)
      <4>1. PICK parked \in BOOLEAN :
              lease' = IF l[o].pid = "none" THEN l
                       ELSE [l EXCEPT ![o].parked = parked,
                                      ![o].woken = @ \/ (l[o].parked /\ ~parked)]
        BY <3>1 DEF SetParked
      <4>. HIDE DEF l
      <4>. QED BY <4>1
    <3>2. CASE BindPID(o)
      BY <3>2 DEF BindPID, Reconcile, ReconcileRecords
    <3>3. CASE InspectWork(o)
      BY <3>3 DEF InspectWork, Reconcile, ReconcileRecords
    <3>. QED BY <1>i, <3>1, <3>2, <3>3
  <2>. HIDE DEF l
  <2>3. \A p \in Ops : lease'[p].rode = l[p].rode
    <3>1. CASE lease' = l
      BY <3>1
    <3>2. CASE l[o].pid # "none" /\ lease' = [l EXCEPT ![o].pid = "child"]
      BY <2>1, <3>2 DEF LeaseRecord
    <3>3. ASSUME NEW parked, NEW woken,
                 lease' = [l EXCEPT ![o].parked = parked, ![o].woken = woken]
          PROVE  lease'[o].rode = l[o].rode
      BY <2>1, <3>3 DEF LeaseRecord
    <3>4. ASSUME NEW parked \in BOOLEAN,
                 lease' = [l EXCEPT ![o].parked = parked,
                                    ![o].woken = @ \/ (l[o].parked /\ ~parked)]
          PROVE  \A p \in Ops : lease'[p].rode = l[p].rode
      <4>. DEFINE woken == l[o].woken \/ (l[o].parked /\ ~parked)
      <4>1. lease' = [l EXCEPT ![o].parked = parked, ![o].woken = woken]
        BY <2>1, <3>4
      <4>2. \A p \in Ops \ {o} : lease'[p] = l[p]
        BY <2>1, <3>4
      <4>. HIDE DEF woken
      <4>. QED BY <3>3, <4>1, <4>2
    <3>. QED BY <2>2, <3>1, <3>2, <3>4
  <2>4. \A p \in Ops \ {o} : lease'[p] = l[p]
    BY <2>1, <2>2
  <2>5. o \in Steady(lease') => o \in Steady(l)
    <3>1. CASE lease' = l
      BY <3>1
    <3>2. CASE l[o].pid # "none" /\ lease' = [l EXCEPT ![o].pid = "child"]
      BY <2>1, <3>2 DEF Steady, Charged, Leased, LeaseRecord
    <3>3. ASSUME NEW parked \in BOOLEAN, l[o].pid # "none",
                 lease' = [l EXCEPT ![o].parked = parked,
                                    ![o].woken = @ \/ (l[o].parked /\ ~parked)]
          PROVE  o \in Steady(lease') => o \in Steady(l)
      <4>1. /\ lease'[o].parked = parked
            /\ lease'[o].woken = (l[o].woken \/ (l[o].parked /\ ~parked))
        BY <2>1, <3>3 DEF LeaseRecord
      <4>. QED BY <4>1, <3>3 DEF Steady, Charged, Leased
    <3>. QED BY <2>2, <3>1, <3>2, <3>3
  <2>6. \A p \in Steady(lease') : p \in Steady(lease)
    <3>1. \A p \in Steady(lease') : p \in Steady(l)
      BY <2>4, <2>5 DEF Steady, Charged, Leased
    <3>. QED BY <2>1, <3>1
  <2>7. \A p \in Ops : lease'[p].rode \in {lease[p].rode, NoOp}
    BY <2>1, <2>3
  <2>8. \A h \in Queued(waiter') : h \in Queued(waiter)
    BY <2>0, <1>4
  <2>. QED BY <2>6, <2>7, <2>8, DrainFrame
<1>j. ASSUME (\E s \in Sequences : OverrideWaiters(s)) \/ OverrideAllWaiters
             \/ ClearWaiterOverride \/ Status
      PROVE  DrainInv'
  <2>1. waiter' = KeptWaiter /\ lease' = KeptLease(Queued(KeptWaiter))
    BY <1>j DEF OverrideWaiters, OverrideAllWaiters, ClearWaiterOverride, Status,
                Reconcile, ReconcileRecords
  <2>. QED BY <2>1, <1>1, <1>4
<1>k. CASE UNCHANGED vars
  BY <1>k, <1>3 DEF vars, Queued
<1>. QED
  BY <1>a, <1>b, <1>c, <1>d, <1>e, <1>f, <1>g, <1>h, <1>i, <1>j, <1>k DEF Next

\* For any weights and number of operations: what rides through the drain of a
\* protected head only ever occupies the units the head can never use, so that it fits
\* as soon as everything else has released (unless a rider was parked and woke).
THEOREM DrainKeepsRoom == Spec => []DrainResidue
<1>1. Init => DrainInv
  <2>1. ASSUME Init PROVE (\A o \in Ops : lease[o].rode = NoOp) /\ Queued(waiter) = {}
    BY <2>1 DEF Init, NoLease, NoWaiter, Queued
  <2>. QED BY <2>1 DEF DrainInv, RidersExpress, DrainResidue
<1>2. TypeOK /\ DrainInv /\ [Next]_vars => DrainInv'
  BY DrainStep
<1>3. DrainInv => DrainResidue
  BY DEF DrainInv
<1>. QED BY <1>1, <1>2, <1>3, TypeCorrect, PTL DEF Spec

-----------------------------------------------------------------------------
(***************************************************************************)
(* What a step of the coordinator may do: it is a step of the pool of      *)
(* units (Implements), and it leaves the promotion sequence in order       *)
(* (PinOrderKept).                                                         *)
(***************************************************************************)

(***************************************************************************)
(* What a record is to the pool.                                           *)
(***************************************************************************)
Sh(r) == IF r.pid = "none" THEN "none"
         ELSE IF r.parked THEN "parked"
         ELSE IF r.woken THEN "woken" ELSE "charged"

\* Leases a ledger l may hold after reconcile: those of before, or none.
Survivors(l) == \A p \in Ops : Sh(l[p]) \in {Sh(lease[p]), "none"}
Gone(l) == {p \in Ops : Sh(lease[p]) # "none" /\ Sh(l[p]) = "none"}

LEMMA ShareOf ==
    /\ Share = [p \in Ops |-> Sh(lease[p])]
    /\ Share' = [p \in Ops |-> Sh(lease'[p])]
BY DEF Share, Sh

\* Weighing in the ledger is weighing in the pool.
LEMMA SameLoad ==
    ASSUME NEW l, NEW s, \A p \in Ops : s[p] = Sh(l[p])
    PROVE  Pool!Load(Pool!Charged(s)) = Used(l)
<1>1. Pool!Charged(s) = Charged(l)
  <2>1. \A p \in Ops : Sh(l[p]) \in {"charged", "woken"} <=> l[p].pid # "none" /\ ~l[p].parked
    BY DEF Sh
  <2>2. Pool!Charged(s) = {p \in Ops : Sh(l[p]) \in {"charged", "woken"}}
    BY DEF Pool!Charged
  <2>3. Charged(l) = {p \in Ops : l[p].pid # "none" /\ ~l[p].parked}
    BY DEF Charged, Leased
  <2>. QED BY <2>1, <2>2, <2>3
<1>2. Pool!Load(Charged(l)) = Load(Charged(l))
  BY DEF Pool!Load, Load, Units, Pool!Cardinality, Cardinality
<1>. QED BY <1>1, <1>2 DEF Used

\* Reconcile lets members leave (reconcile).
LEMMA Leaving ==
    ASSUME NEW l, Survivors(l)
    PROVE  /\ Gone(l) \in SUBSET Pool!Inside(Share)
           /\ \A p \in Ops : Pool!Without(Gone(l))[p] = Sh(l[p])
           /\ Pool!Without(Gone(l)) = [p \in Ops |-> Sh(l[p])]
<1>1. \A p \in Ops : Share[p] = Sh(lease[p])
  BY ShareOf
<1>2. Gone(l) \in SUBSET Pool!Inside(Share)
  BY <1>1 DEF Gone, Pool!Inside
<1>3. Pool!Without(Gone(l)) = [p \in Ops |-> Sh(l[p])]
  BY <1>1 DEF Gone, Pool!Without, Survivors
<1>. QED BY <1>2, <1>3

LEMMA PoolLeave ==
    ASSUME NEW l, Survivors(l), \A p \in Ops : Sh(lease'[p]) = Sh(l[p])
    PROVE  Pool!Next
<1>1. Share' = Pool!Without(Gone(l))
  BY Leaving, ShareOf
<1>2. Gone(l) \in SUBSET Pool!Inside(Share)
  BY Leaving
<1>. QED BY <1>1, <1>2 DEF Pool!Next, Pool!Leave

\* One operation whose share changes, beside those that leave.
LEMMA ShareChanged ==
    ASSUME NEW l, Survivors(l), NEW o \in Ops, NEW s, Sh(lease'[o]) = s,
           \A p \in Ops \ {o} : Sh(lease'[p]) = Sh(l[p])
    PROVE  Share' = [Pool!Without(Gone(l)) EXCEPT ![o] = s]
<1>1. Pool!Without(Gone(l)) = [p \in Ops |-> Sh(l[p])]
  BY Leaving
<1>. QED BY <1>1, ShareOf

\* An admission is weighed against what the same write leaves charged.
LEMMA PoolEnter ==
    ASSUME NEW l, Survivors(l), NEW o \in Ops, NEW cap \in Ceilings,
           lease[o].pid = "none", Sh(lease'[o]) = "charged",
           \A p \in Ops \ {o} : Sh(lease'[p]) = Sh(l[p]),
           \/ Used(l) + Weight[o] <= cap
           \/ o \in Express /\ Used(l) + Weight[o] <= cap + Overcommit
    PROVE  Pool!Next
<1>1. /\ Gone(l) \in SUBSET Pool!Inside(Share)
      /\ Pool!Load(Pool!Charged(Pool!Without(Gone(l)))) = Used(l)
  BY Leaving, SameLoad
<1>2. Used(l) + Weight[o] <= Pool!Limit(o)
  <2>1. Charged(l) \in SUBSET Ops
    BY DEF Charged, Leased
  <2>2. Used(l) \in Nat /\ Weight[o] \in Nat /\ cap \in Nat /\ cap <= Capacity
        /\ Capacity \in Nat /\ Overcommit \in Nat
    BY <2>1, UnitsFinite, LimitsAssumption DEF Used
  <2>. QED BY <2>2 DEF Pool!Limit
<1>3. Share[o] = "none"
  BY ShareOf DEF Sh
<1>4. Share' = [Pool!Without(Gone(l)) EXCEPT ![o] = "charged"]
  BY ShareChanged
<1>5. Pool!Enter(o, Gone(l))
  BY <1>1, <1>2, <1>3, <1>4 DEF Pool!Enter
<1>. QED BY <1>1, <1>5 DEF Pool!Next

\* A lease that is parked, or charged again, is one that stayed (SetParked).
LEMMA PoolParked ==
    ASSUME NEW l, Survivors(l), NEW o \in Ops, Sh(l[o]) # "none",
           \A p \in Ops \ {o} : Sh(lease'[p]) = Sh(l[p]),
           \/ Sh(lease'[o]) = Sh(l[o])
           \/ Sh(l[o]) \in {"charged", "woken"} /\ Sh(lease'[o]) = "parked"
           \/ Sh(l[o]) = "parked" /\ Sh(lease'[o]) = "woken"
    PROVE  Pool!Next
<1>1. Gone(l) \in SUBSET Pool!Inside(Share) /\ o \notin Gone(l) /\ Share[o] = Sh(l[o])
  BY Leaving, ShareOf DEF Gone, Survivors
<1>2. CASE Sh(lease'[o]) = Sh(l[o])
  BY <1>2, PoolLeave
<1>3. CASE Sh(l[o]) \in {"charged", "woken"} /\ Sh(lease'[o]) = "parked"
  <2>1. Share' = [Pool!Without(Gone(l)) EXCEPT ![o] = "parked"]
    BY <1>3, ShareChanged
  <2>2. Pool!Park(o, Gone(l))
    BY <1>1, <1>3, <2>1 DEF Pool!Park, Pool!Charged
  <2>. QED BY <1>1, <2>2 DEF Pool!Next
<1>4. CASE Sh(l[o]) = "parked" /\ Sh(lease'[o]) = "woken"
  <2>1. Share' = [Pool!Without(Gone(l)) EXCEPT ![o] = "woken"]
    BY <1>4, ShareChanged
  <2>2. Pool!Wake(o, Gone(l))
    BY <1>1, <1>4, <2>1 DEF Pool!Wake
  <2>. QED BY <1>1, <2>2 DEF Pool!Next
<1>. QED BY <1>2, <1>3, <1>4

\* Reconciled leases are survivors, and which waits are over does not change their share.
LEMMA KeptShare ==
    ASSUME TypeOK
    PROVE  /\ \A W : Survivors(KeptLease(W))
           /\ \A W, V : \A p \in Ops : Sh(KeptLease(W)[p]) = Sh(KeptLease(V)[p])
<1>1. NoLease.pid = "none"
  BY DEF NoLease
<1>2. ASSUME NEW W, NEW p \in Ops
      PROVE  Sh(KeptLease(W)[p]) = IF LeaseKept(p) THEN Sh(lease[p]) ELSE "none"
  <2>1. CASE ~LeaseKept(p)
    BY <1>1, <2>1 DEF KeptLease, Sh
  <2>2. CASE LeaseKept(p)
    <3>1. /\ KeptLease(W)[p].pid = lease[p].pid
          /\ KeptLease(W)[p].parked = lease[p].parked
          /\ KeptLease(W)[p].woken = lease[p].woken
      BY <2>2 DEF KeptLease, TypeOK, LeaseRecord
    <3>. QED BY <2>2, <3>1 DEF Sh
  <2>. QED BY <2>1, <2>2
<1>3. ASSUME NEW W, NEW V, NEW p \in Ops PROVE Sh(KeptLease(W)[p]) = Sh(KeptLease(V)[p])
  BY <1>2
<1>4. ASSUME NEW W PROVE Survivors(KeptLease(W))
  BY <1>2 DEF Survivors
<1>. QED BY <1>3, <1>4

\* Every step of the coordinator, of a wrapper, of an operator and of the host is a step of
\* the pool, or leaves the shares alone.
LEMMA PoolStep ==
    ASSUME TypeOK, Ownership, [Next]_vars
    PROVE  [Pool!Next]_Share
<1>. USE TypeOK, Ownership
<1>0. /\ \A W : KeptLease(W) \in [Ops -> LeaseRecord] /\ Survivors(KeptLease(W))
      /\ \A W, V : \A p \in Ops : Sh(KeptLease(W)[p]) = Sh(KeptLease(V)[p])
      /\ Sh(NoLease) = "none" /\ Sh(NewLease) = "charged"
  BY KeptTypes, KeptShare DEF NoLease, NewLease, Sh
<1>1. ASSUME NEW W, lease' = KeptLease(W) PROVE Pool!Next
  BY <1>0, <1>1, PoolLeave
<1>2. ASSUME NEW W, NEW o \in Ops, lease' = [KeptLease(W) EXCEPT ![o] = NoLease] PROVE Pool!Next
  <2>. DEFINE l == [KeptLease(W) EXCEPT ![o] = NoLease]
  <2>1. Survivors(l)
    BY <1>0 DEF Survivors
  <2>. HIDE DEF l
  <2>2. lease' = l
    BY <1>2 DEF l
  <2>. QED BY <2>1, <2>2, PoolLeave
<1>3. ASSUME lease' = lease PROVE Share' = Share
  BY <1>3, ShareOf
<1>a. ASSUME NEW o \in Ops,
             \/ Arrive(o) \/ StartGated(o) \/ OpenGate(o) \/ ChildExit(o) \/ Crash(o)
             \/ SignalTree(o) \/ ReusePID(o) \/ AgeBypass(o)
      PROVE  Share' = Share
  <2>1. lease' = lease
    BY <1>a DEF Arrive, StartGated, OpenGate, ChildExit, Crash, SignalTree, ReusePID,
                AgeBypass, ledger
  <2>. QED BY <2>1, <1>3
<1>b. ASSUME NEW o \in Ops,
             \/ RegisterWaiter(o) \/ PrioritizeWaiter(o) \/ TryAcquireDenied(o) \/ Cancel(o)
             \/ InspectWork(o)
      PROVE  Pool!Next
  <2>1. \E W : lease' = KeptLease(W)
    BY <1>b DEF RegisterWaiter, PrioritizeWaiter, TryAcquireDenied, Cancel, InspectWork,
                Reconcile, ReconcileRecords
  <2>. QED BY <2>1, <1>1
<1>c. ASSUME NEW o \in Ops, ReserveForPressure(o) \/ Release(o) \/ DropLease(o)
      PROVE  Pool!Next
  <2>1. lease' = [KeptLease(Queued(KeptWaiter)) EXCEPT ![o] = NoLease]
    BY <1>c DEF ReserveForPressure, Release, DropLease
  <2>. QED BY <1>2, <2>1
<1>d. ASSUME NEW o \in Ops, TryAcquire(o) PROVE Pool!Next
  <2>. DEFINE w    == MaterializeWorkProtections(KeptWaiter)
              pins == AdvanceWorkOverride(Queued(w))
              l    == KeptLease(Queued(w))
              left == Queued(w) \ {o}
  <2>1. PICK cap \in Ceilings, window \in GreenWindows :
          /\ o \in SelectStateWaiter(w, pins, l, cap, IF cap < Capacity THEN Closed ELSE window,
                                     o \in Lookahead)
          /\ lease' = [KeptLease(left) EXCEPT
                          ![o] = [NewLease EXCEPT !.rode = RodePast(w, pins, o, cap)]]
    BY <1>d DEF TryAcquire
  <2>. DEFINE green == IF cap < Capacity THEN Closed ELSE window
  <2>2. green \in GreenWindows /\ green.overcommit \in {0, Overcommit}
    BY DEF GreenWindows, Closed
  <2>3. \/ Used(l) + Weight[o] <= cap
        \/ o \in Express /\ Used(l) + Weight[o] <= cap + green.overcommit
    <3>. DEFINE look == o \in Lookahead
    <3>1. look \in BOOLEAN
      OBVIOUS
    <3>2. o \in SelectStateWaiter(w, pins, l, cap, green, look)
      BY <2>1
    <3>. HIDE DEF w, pins, l, green, look
    <3>. QED BY <2>2, <3>1, <3>2, SelectionFits
  <2>4. Charged(l) \in SUBSET Ops
    BY DEF Charged, Leased
  <2>5. Used(l) \in Nat /\ cap \in Nat /\ Weight[o] \in Nat /\ Overcommit \in Nat
    BY <2>4, UnitsFinite, LimitsAssumption DEF Used
  <2>6. \/ Used(l) + Weight[o] <= cap
        \/ o \in Express /\ Used(l) + Weight[o] <= cap + Overcommit
    <3>. HIDE DEF l, green
    <3>. QED BY <2>2, <2>3, <2>5
  <2>7. Sh(lease'[o]) = "charged"
    BY <1>0, <2>1 DEF NewLease, NoLease, Sh
  <2>8. \A p \in Ops \ {o} : Sh(lease'[p]) = Sh(l[p])
    BY <1>0, <2>1
  <2>9. lease[o].pid = "none"
    BY <1>d DEF TryAcquire, Ownership, Owned
  <2>10. Survivors(l)
    BY <1>0
  <2>. HIDE DEF l
  <2>. QED BY <2>6, <2>7, <2>8, <2>9, <2>10, PoolEnter
<1>e. ASSUME NEW o \in Ops, Acquire(o) PROVE Pool!Next
  <2>. DEFINE l == KeptLease(Queued(KeptWaiter))
  <2>1. CASE lease' = l
    BY <2>1, <1>1
  <2>2. CASE lease' # l
    <3>1. PICK cap \in Ceilings, window \in GreenWindows :
            /\ lease' = [l EXCEPT ![o] = NewLease]
            /\ \/ Used(l) + Weight[o] <= cap
               \/ OvercommitFits(o, Used(l), cap, IF cap < Capacity THEN Closed ELSE window)
      BY <1>e, <2>2 DEF Acquire
    <3>. DEFINE green == IF cap < Capacity THEN Closed ELSE window
    <3>2. green.overcommit \in {0, Overcommit}
      BY DEF GreenWindows, Closed
    <3>3. Charged(l) \in SUBSET Ops
      BY DEF Charged, Leased
    <3>4. Used(l) \in Nat /\ cap \in Nat /\ Weight[o] \in Nat /\ Overcommit \in Nat
      BY <3>3, UnitsFinite, LimitsAssumption DEF Used
    <3>5. \/ Used(l) + Weight[o] <= cap
          \/ o \in Express /\ Used(l) + Weight[o] <= cap + Overcommit
      <4>. HIDE DEF l, green
      <4>. QED BY <3>1, <3>2, <3>4 DEF OvercommitFits, green
    <3>6. Sh(lease'[o]) = "charged" /\ \A p \in Ops \ {o} : Sh(lease'[p]) = Sh(l[p])
      BY <1>0, <3>1
    <3>7. lease[o].pid = "none" /\ Survivors(l)
      BY <1>0, <1>e DEF Acquire, Ownership, Owned
    <3>. HIDE DEF l
    <3>. QED BY <3>5, <3>6, <3>7, PoolEnter
  <2>. QED BY <2>1, <2>2
<1>f. ASSUME NEW o \in Ops, BindPID(o) PROVE Pool!Next
  <2>. DEFINE l == KeptLease(Queued(KeptWaiter))
  <2>1. lease' = l \/ (l[o].pid # "none" /\ lease' = [l EXCEPT ![o].pid = "child"])
    BY <1>f DEF BindPID, Reconcile, ReconcileRecords
  <2>2. l \in [Ops -> LeaseRecord] /\ Survivors(l)
    BY <1>0
  <2>. HIDE DEF l
  <2>3. \A p \in Ops : Sh(lease'[p]) = Sh(l[p])
    BY <2>1, <2>2 DEF Sh, LeaseRecord
  <2>. QED BY <2>2, <2>3, PoolLeave
<1>g. ASSUME NEW o \in Ops, SetParked(o) PROVE Pool!Next
  <2>. DEFINE l == KeptLease(Queued(KeptWaiter))
  <2>1. PICK parked \in BOOLEAN :
          lease' = IF l[o].pid = "none" THEN l
                   ELSE [l EXCEPT ![o].parked = parked,
                                  ![o].woken = @ \/ (l[o].parked /\ ~parked)]
    BY <1>g DEF SetParked
  <2>2. l \in [Ops -> LeaseRecord] /\ Survivors(l)
    BY <1>0
  <2>. HIDE DEF l
  <2>3. CASE l[o].pid = "none"
    BY <2>1, <2>2, <2>3, PoolLeave
  <2>4. CASE l[o].pid # "none"
    <3>1. \A p \in Ops \ {o} : lease'[p] = l[p]
      BY <2>1, <2>2, <2>4
    <3>2. /\ lease'[o].pid = l[o].pid
          /\ lease'[o].parked = parked
          /\ lease'[o].woken = (l[o].woken \/ (l[o].parked /\ ~parked))
      BY <2>1, <2>2, <2>4 DEF LeaseRecord
    <3>3. \/ Sh(lease'[o]) = Sh(l[o])
          \/ Sh(l[o]) \in {"charged", "woken"} /\ Sh(lease'[o]) = "parked"
          \/ Sh(l[o]) = "parked" /\ Sh(lease'[o]) = "woken"
      BY <2>4, <3>2 DEF Sh
    <3>4. Sh(l[o]) # "none"
      BY <2>4 DEF Sh
    <3>. QED BY <2>2, <3>1, <3>3, <3>4, PoolParked
  <2>. QED BY <2>3, <2>4
<1>h. ASSUME (\E s \in Sequences : OverrideWaiters(s)) \/ OverrideAllWaiters
             \/ ClearWaiterOverride \/ Status
      PROVE  Pool!Next
  BY <1>h, <1>1 DEF OverrideWaiters, OverrideAllWaiters, ClearWaiterOverride, Status,
                    Reconcile, ReconcileRecords
<1>i. CASE UNCHANGED vars
  <2>1. Share' = Share
    BY <1>i, <1>3 DEF vars
  <2>. QED BY <2>1
<1>. QED
  BY <1>a, <1>b, <1>c, <1>d, <1>e, <1>f, <1>g, <1>h, <1>i DEF Next

\* For any operations, weights, ceilings and policies: the coordinator implements the pool of
\* units, so that every lease it files was weighed against all that the same write leaves
\* charged (tryAcquire, AcquireOperationWithCapacity, SetParked, reconcile).
THEOREM CoordinatorImplementsPool == Spec => Implements
<1>1. Init => Pool!Init
  BY DEF Init, NoLease, Share, Pool!Init
<1>2. TypeOK /\ Ownership /\ [Next]_vars => [Pool!Next]_Share
  BY PoolStep
<1>. QED BY <1>1, <1>2, TypeCorrect, OwnershipKept, PTL DEF Spec, Implements, Pool!Spec

(***************************************************************************)
(* The promotion sequence.                                                 *)
(***************************************************************************)
Ordered(p, q) ==
    pin'[p] > 0 /\ pin'[q] > 0 /\ p # q /\ pin[p] > 0 =>
        (pin'[p] < pin'[q] <=> (pin[p] < pin[q] \/ pin[q] = 0))

\* Closing ranks keeps the order of those that stay (advanceWorkOverride, workOverridePositions).
LEMMA PositionsOrder ==
    ASSUME NEW rank \in [Ops -> Nat], NEW S \in SUBSET Ops, NEW p \in Ops, NEW q \in Ops,
           Positions(rank, S)[p] > 0, Positions(rank, S)[q] > 0
    PROVE  /\ p \in S /\ q \in S /\ rank[p] > 0 /\ rank[q] > 0
           /\ Positions(rank, S)[p] < Positions(rank, S)[q] <=> rank[p] < rank[q]
           /\ Positions(rank, S)[p] <= Cardinality({x \in S : rank[x] > 0})
<1>. DEFINE upto(x) == {y \in S : rank[y] > 0 /\ rank[y] <= rank[x]}
<1>1. /\ p \in S /\ rank[p] > 0 /\ q \in S /\ rank[q] > 0
      /\ Positions(rank, S)[p] = Cardinality(upto(p))
      /\ Positions(rank, S)[q] = Cardinality(upto(q))
  BY DEF Positions
<1>2. IsFiniteSet(S)
  BY FS_Subset, LimitsAssumption
<1>3. IsFiniteSet(upto(p)) /\ IsFiniteSet(upto(q)) /\ IsFiniteSet({x \in S : rank[x] > 0})
  BY <1>2, FS_Subset
<1>4. Cardinality(upto(p)) \in Nat /\ Cardinality(upto(q)) \in Nat
  BY <1>3, FS_CardinalityType
<1>5. ASSUME rank[p] < rank[q] PROVE Cardinality(upto(p)) < Cardinality(upto(q))
  <2>1. upto(p) \in SUBSET upto(q) /\ q \in upto(q) /\ q \notin upto(p)
    BY <1>1, <1>5
  <2>2. upto(p) # upto(q)
    BY <2>1
  <2>. HIDE DEF upto
  <2>3. /\ Cardinality(upto(p)) <= Cardinality(upto(q))
        /\ Cardinality(upto(p)) # Cardinality(upto(q))
    BY <2>1, <2>2, <1>3, FS_Subset
  <2>. QED BY <1>4, <2>3
<1>6. ASSUME ~(rank[p] < rank[q]) PROVE Cardinality(upto(q)) <= Cardinality(upto(p))
  <2>1. upto(q) \in SUBSET upto(p)
    BY <1>1, <1>6
  <2>. QED BY <2>1, <1>3, FS_Subset
<1>7. Cardinality(upto(p)) <= Cardinality({x \in S : rank[x] > 0})
  <2>1. upto(p) \in SUBSET {x \in S : rank[x] > 0}
    OBVIOUS
  <2>. QED BY <2>1, <1>3, FS_Subset
<1>. HIDE DEF upto
<1>. QED BY <1>1, <1>4, <1>5, <1>6, <1>7

\* Every call but the operator's own: the survivors close ranks, or a newcomer is appended.
LEMMA PinStep ==
    ASSUME TypeOK, Ownership, Next
    PROVE  OperatorOverride \/ \A p, q \in Ops : Ordered(p, q)
<1>. USE TypeOK, Ownership
<1>0. pin \in [Ops -> Nat] /\ Queued(KeptWaiter) \in SUBSET Ops
      /\ Queued(MaterializeWorkProtections(KeptWaiter)) \in SUBSET Ops
  BY DEF TypeOK, Queued
<1>1. ASSUME NEW W \in SUBSET Ops, pin' = AdvanceWorkOverride(W)
      PROVE  \A p, q \in Ops : Ordered(p, q)
  <2>1. ASSUME NEW p \in Ops, NEW q \in Ops, pin'[p] > 0, pin'[q] > 0
        PROVE  pin[q] > 0 /\ (pin'[p] < pin'[q] <=> pin[p] < pin[q])
    BY <1>0, <1>1, <2>1, PositionsOrder DEF AdvanceWorkOverride
  <2>. QED BY <1>0, <2>1 DEF Ordered
<1>2. ASSUME pin' = pin PROVE \A p, q \in Ops : Ordered(p, q)
  BY <1>2 DEF Ordered
<1>a. ASSUME NEW o \in Ops,
             \/ Arrive(o) \/ StartGated(o) \/ OpenGate(o) \/ ChildExit(o) \/ Crash(o)
             \/ SignalTree(o) \/ ReusePID(o) \/ AgeBypass(o)
      PROVE  \A p, q \in Ops : Ordered(p, q)
  <2>1. pin' = pin
    BY <1>a DEF Arrive, StartGated, OpenGate, ChildExit, Crash, SignalTree, ReusePID,
                AgeBypass, ledger
  <2>. QED BY <2>1, <1>2
<1>b. ASSUME NEW o \in Ops,
             \/ RegisterWaiter(o) \/ TryAcquireDenied(o) \/ Acquire(o) \/ Cancel(o)
             \/ ReserveForPressure(o) \/ BindPID(o) \/ SetParked(o) \/ Release(o)
             \/ InspectWork(o) \/ DropLease(o) \/ TryAcquire(o)
      PROVE  \A p, q \in Ops : Ordered(p, q)
  <2>1. \E W \in SUBSET Ops : pin' = AdvanceWorkOverride(W)
    <3>1. CASE RegisterWaiter(o) \/ Acquire(o) \/ ReserveForPressure(o) \/ BindPID(o)
               \/ SetParked(o) \/ Release(o) \/ InspectWork(o) \/ DropLease(o)
      <4>1. pin' = AdvanceWorkOverride(Queued(KeptWaiter))
        BY <3>1 DEF RegisterWaiter, Acquire, ReserveForPressure, BindPID, SetParked, Release,
                    InspectWork, DropLease, Reconcile
      <4>. QED BY <1>0, <4>1
    <3>2. CASE TryAcquireDenied(o)
      BY <1>0, <3>2 DEF TryAcquireDenied
    <3>3. CASE Cancel(o)
      <4>1. pin' = AdvanceWorkOverride(Queued(KeptWaiter) \ {o})
        BY <3>3 DEF Cancel
      <4>. QED BY <1>0, <4>1
    <3>4. CASE TryAcquire(o)
      <4>. DEFINE left == Queued(MaterializeWorkProtections(KeptWaiter)) \ {o}
      <4>1. pin' = AdvanceWorkOverride(left)
        BY <3>4 DEF TryAcquire
      <4>2. left \in SUBSET Ops
        BY <1>0
      <4>. QED BY <4>1, <4>2
    <3>. QED BY <1>b, <3>1, <3>2, <3>3, <3>4
  <2>. QED BY <2>1, <1>1
<1>c. ASSUME NEW o \in Ops, PrioritizeWaiter(o)
      PROVE  \A p, q \in Ops : Ordered(p, q)
  <2>. DEFINE pinned == {p \in Queued(KeptWaiter) : pin[p] > 0}
  <2>1. pinned \in SUBSET Ops
    BY <1>0
  <2>2. CASE pin' = AdvanceWorkOverride(pinned)
    BY <2>1, <2>2, <1>1
  <2>3. CASE pin' # AdvanceWorkOverride(pinned)
    <3>1. /\ o \notin pinned
          /\ pin' = [AdvanceWorkOverride(pinned) EXCEPT ![o] = Cardinality(pinned) + 1]
      BY <1>c, <2>3 DEF PrioritizeWaiter, AppendPinned
    \* What it appends was not pinned: it has just registered.
    <3>2. pin[o] = 0
      <4>1. o \in Queued(KeptWaiter)
        BY <1>c, ReconciledRecord DEF PrioritizeWaiter, Ownership, Owned, Queued
      <4>. QED BY <1>0, <3>1, <4>1
    <3>3. IsFiniteSet(pinned)
      BY <2>1, FS_Subset, LimitsAssumption
    <3>4. Cardinality(pinned) \in Nat /\ pinned = {x \in pinned : pin[x] > 0}
      BY <3>3, FS_CardinalityType
    <3>5. AdvanceWorkOverride(pinned) \in [Ops -> Nat]
      BY <1>0, <2>1, PositionsType DEF AdvanceWorkOverride
    <3>6. ASSUME NEW p \in Ops, AdvanceWorkOverride(pinned)[p] > 0
          PROVE  AdvanceWorkOverride(pinned)[p] <= Cardinality(pinned)
      <4>1. Positions(pin, pinned)[p] <= Cardinality({x \in pinned : pin[x] > 0})
        BY <1>0, <2>1, <3>6, PositionsOrder DEF AdvanceWorkOverride
      <4>. QED BY <3>4, <4>1 DEF AdvanceWorkOverride
    <3>7. ASSUME NEW p \in Ops, NEW q \in Ops,
                 AdvanceWorkOverride(pinned)[p] > 0, AdvanceWorkOverride(pinned)[q] > 0
          PROVE  /\ pin[q] > 0
                 /\ AdvanceWorkOverride(pinned)[p] < AdvanceWorkOverride(pinned)[q] <=> pin[p] < pin[q]
      BY <1>0, <2>1, <3>7, PositionsOrder DEF AdvanceWorkOverride
    <3>8. ASSUME NEW p \in Ops, NEW q \in Ops PROVE Ordered(p, q)
      <4>. HIDE DEF pinned
      <4>1. CASE p = o
        BY <4>1, <3>2 DEF Ordered
      <4>2. CASE p # o /\ q = o
        BY <4>2, <3>1, <3>2, <3>4, <3>5, <3>6 DEF Ordered
      <4>3. CASE p # o /\ q # o
        <5>1. pin'[p] = AdvanceWorkOverride(pinned)[p] /\ pin'[q] = AdvanceWorkOverride(pinned)[q]
          BY <3>1, <3>5, <4>3
        <5>. QED BY <1>0, <3>7, <5>1 DEF Ordered
      <4>. QED BY <4>1, <4>2, <4>3
    <3>. QED BY <3>8
  <2>. QED BY <2>2, <2>3
<1>d. ASSUME ClearWaiterOverride PROVE \A p, q \in Ops : Ordered(p, q)
  BY <1>d DEF ClearWaiterOverride, Ordered
<1>e. ASSUME Status PROVE \A p, q \in Ops : Ordered(p, q)
  BY <1>0, <1>1, <1>e DEF Status, Reconcile
<1>. QED
  BY <1>a, <1>b, <1>c, <1>d, <1>e DEF Next, OperatorOverride

\* For any operations: nothing but an operator's own request reorders the promotion sequence
\* (advanceWorkOverride, PrioritizeWaiter).
THEOREM PromotionOrder == Spec => PinOrderKept
<1>1. TypeOK /\ Ownership /\ [Next]_vars =>
        [OperatorOverride \/ \A p, q \in Ops : pin'[p] > 0 /\ pin'[q] > 0 /\ p # q /\ pin[p] > 0 =>
            (pin'[p] < pin'[q] <=> (pin[p] < pin[q] \/ pin[q] = 0))]_vars
  BY PinStep DEF Ordered
<1>. QED BY <1>1, TypeCorrect, OwnershipKept, PTL DEF Spec, PinOrderKept
=============================================================================
