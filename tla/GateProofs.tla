----------------------------- MODULE GateProofs ------------------------------
(***************************************************************************)
(* Theorems about AdmissionGate, for any number of wrappers, any sample    *)
(* counts, interval and lag, and calls that fail for any of the wrappers.  *)
(***************************************************************************)
EXTENDS AdmissionGate, TLAPS

GateStates == AtGate \cup {"out", "withdraw", "queue", "recheck", "reobserve",
                           "reserve", "resample", "regate", "started"}

\* TypeOK in the form the provers use: the latch is a record of its four fields.
LatchType == latch \in [latched : BOOLEAN, red : 0..BlockSamples,
                        recovery : 0..ReleaseSamples, age : -1..(StaleAfter + MaxLag + 1)]
SpanType == span \in [red : Nat, recovery : Nat, latched : Nat]

Coherent(c) == IF c.latched THEN c.recovery < ReleaseSamples ELSE c.red < BlockSamples

\* What a latch nobody has observed yet looks like.
Fresh == latch.age < 0 => latch.red = 0 /\ latch.recovery = 0 /\ ~latch.latched

\* The inductive invariant behind LatchCoherent and SustainedEvidence.
GateInv ==
    /\ TypeOK /\ LatchType /\ SpanType /\ Fresh
    /\ Coherent(latch) /\ \A w \in Wrappers : Coherent(private[w])
    /\ SustainedEvidence

Evidence(c, s) ==
    /\ c.red > 0 => s.red >= (c.red - 1) * Interval
    /\ c.recovery > 0 => s.recovery >= (c.recovery - 1) * Interval
    /\ c.latched => s.latched >= (BlockSamples - 1) * Interval

(***************************************************************************)
(* Arithmetic: the bound on the history is never what makes evidence fail. *)
(***************************************************************************)
\* One more counted sample asks for one more interval, and no counter the gate follows asks
\* for more than MaxSpan (Upto in FoldSpan).
LEMMA Stretch ==
    ASSUME NEW n \in Nat, n <= BlockSamples \/ n <= ReleaseSamples
    PROVE  /\ MaxSpan \in Nat /\ n * Interval \in Nat
           /\ n * Interval <= MaxSpan
           /\ (n - 1) * Interval <= n * Interval
           /\ n * Interval = (n - 1) * Interval + Interval
  <1>1. /\ BlockSamples \in Nat /\ ReleaseSamples \in Nat /\ Interval \in Nat
    BY GateAssumption
  <1>2. \A i, j \in Nat : i * j \in Nat
    OBVIOUS
  <1>3. MaxSpan \in Nat /\ n * Interval \in Nat
    BY <1>1, <1>2 DEF MaxSpan
  <1>4. n * Interval = (n - 1) * Interval + Interval
    BY <1>1
  <1> DEFINE most == IF BlockSamples > ReleaseSamples THEN BlockSamples ELSE ReleaseSamples
  <1>5. PICK k \in Nat : most = n + k
    <2>1. most - n \in Nat
      BY <1>1
    <2>2. QED
      BY <1>1, <2>1
  <1>6. MaxSpan = n * Interval + k * Interval
    <2>1. (n + k) * Interval = n * Interval + k * Interval
      BY <1>1
    <2>2. MaxSpan = most * Interval
      BY DEF MaxSpan
    <2>3. QED
      BY <1>5, <2>1, <2>2
  <1>7. k * Interval \in Nat
    BY <1>1, <1>2
  <1>8. n * Interval <= MaxSpan
    BY <1>3, <1>6, <1>7
  <1>9. (n - 1) * Interval <= n * Interval
    BY <1>1, <1>3, <1>4
  <1>10. QED
    BY <1>3, <1>4, <1>8, <1>9

(***************************************************************************)
(* ObserveAdmissionLatch folds one counted sample into the latch.          *)
(***************************************************************************)
\* What is left of the latch when a sample is counted: all of it, or nothing.
LEMMA CurrentSound ==
    ASSUME GateInv, NEW w \in Wrappers, Counted(w)
    PROVE  /\ Current(w) \in [latched : BOOLEAN, red : 0..BlockSamples,
                              recovery : 0..ReleaseSamples, age : -1..(StaleAfter + MaxLag + 1)]
           /\ CurrentSpan(w) \in [red : Nat, recovery : Nat, latched : Nat]
           /\ Coherent(Current(w)) /\ Evidence(Current(w), CurrentSpan(w))
           /\ Current(w).age < 0 => Current(w).red = 0 /\ Current(w).recovery = 0
           /\ Current(w).age >= 0 => Elapsed(w) \in Nat /\ Elapsed(w) >= Interval
  <1>1. lag[w] \in 0..MaxLag /\ MaxLag \in Nat
    BY GateAssumption DEF GateInv, TypeOK
  <1>2. CASE Lapsed(w)
    BY <1>2, GateAssumption
    DEF Current, CurrentSpan, NoLatch, NoSpan, Coherent, Evidence
  <1>3. CASE ~Lapsed(w)
    <2>1. Current(w) = latch /\ CurrentSpan(w) = span
      BY <1>3 DEF Current, CurrentSpan
    <2>2. latch.age >= 0 => Elapsed(w) >= Interval
      <3>1. latch.age \in Int
        BY GateAssumption DEF GateInv, LatchType
      <3>2. QED
        BY <1>3, <3>1 DEF Counted
    <2>3. latch.age >= 0 => Elapsed(w) \in Nat
      BY <2>2, <1>1, GateAssumption DEF GateInv, LatchType, Elapsed
    <2>4. QED
      BY <2>1, <2>2, <2>3 DEF GateInv, LatchType, SpanType, Fresh, SustainedEvidence, Evidence
  <1>4. QED
    BY <1>2, <1>3

\* A counted sample leaves a coherent latch with the evidence its counters claim.
LEMMA FoldSound ==
    ASSUME GateInv, NEW w \in Wrappers, Counted(w)
    PROVE  /\ Fold(w) \in [latched : BOOLEAN, red : 0..BlockSamples,
                           recovery : 0..ReleaseSamples, age : 0..MaxLag]
           /\ FoldSpan(w) \in [red : Nat, recovery : Nat, latched : Nat]
           /\ Coherent(Fold(w)) /\ Evidence(Fold(w), FoldSpan(w))
  <1> DEFINE old == Current(w)
             was == CurrentSpan(w)
             step == IF old.age < 0 THEN 0 ELSE Elapsed(w)
             Grown(count, s) == IF count = 0 THEN 0 ELSE Upto(s + step, MaxSpan)
  <1>1. /\ old \in [latched : BOOLEAN, red : 0..BlockSamples,
                    recovery : 0..ReleaseSamples, age : -1..(StaleAfter + MaxLag + 1)]
        /\ was \in [red : Nat, recovery : Nat, latched : Nat]
        /\ Coherent(old) /\ Evidence(old, was)
        /\ old.age < 0 => old.red = 0 /\ old.recovery = 0
        /\ old.age >= 0 => Elapsed(w) \in Nat /\ Elapsed(w) >= Interval
    BY CurrentSound
  <1>2. /\ BlockSamples \in Nat \ {0} /\ ReleaseSamples \in Nat \ {0}
        /\ Interval \in Nat \ {0} /\ MaxLag \in Nat /\ lag[w] \in 0..MaxLag
    BY GateAssumption DEF GateInv, TypeOK
  <1>3. step \in Nat /\ (old.red > 0 => step >= Interval) /\ (old.recovery > 0 => step >= Interval)
    BY <1>1, <1>2
  \* A counter that goes on has its span lengthened by an interval.
  <1>4. ASSUME NEW n \in Nat, NEW s \in Nat, n <= BlockSamples \/ n <= ReleaseSamples,
               n > 0 => s >= (n - 1) * Interval /\ step >= Interval
        PROVE  Grown(n, s) \in Nat /\ Grown(n, s) >= n * Interval
    <2>1. /\ MaxSpan \in Nat /\ n * Interval \in Nat /\ n * Interval <= MaxSpan
          /\ n * Interval = (n - 1) * Interval + Interval
      BY <1>4, Stretch
    <2>2. CASE n = 0
      BY <2>2, <1>2
    <2>3. CASE n > 0
      <3>1. (n - 1) * Interval \in Nat
        BY <2>3, <1>2, <2>1
      <3>2. s + step >= n * Interval /\ s + step \in Nat
        BY <1>4, <1>2, <1>3, <2>1, <2>3, <3>1
      <3>3. QED
        BY <3>2, <2>1, <2>3 DEF Upto
    <2>4. QED
      BY <2>2, <2>3
  <1> HIDE DEF Grown, step, old, was
  <1>5. /\ Grown(old.red, was.red) \in Nat
        /\ Grown(old.red, was.red) >= old.red * Interval
        /\ Grown(old.recovery, was.recovery) \in Nat
        /\ Grown(old.recovery, was.recovery) >= old.recovery * Interval
    <2>1. /\ old.red \in Nat /\ old.red <= BlockSamples /\ was.red \in Nat
          /\ old.red > 0 => was.red >= (old.red - 1) * Interval
      BY <1>1, <1>2 DEF Evidence
    <2>2. /\ old.recovery \in Nat /\ old.recovery <= ReleaseSamples /\ was.recovery \in Nat
          /\ old.recovery > 0 => was.recovery >= (old.recovery - 1) * Interval
      BY <1>1, <1>2 DEF Evidence
    <2>3. QED
      BY <1>3, <1>4, <2>1, <2>2
  <1>6. /\ old.red * Interval \in Nat /\ (old.red - 1) * Interval <= old.red * Interval
        /\ old.recovery * Interval \in Nat
        /\ (old.recovery - 1) * Interval <= old.recovery * Interval
    BY <1>1, <1>2, Stretch
  <1>7. FoldSpan(w) =
          [red |-> IF view[w] = "cool" THEN 0 ELSE Grown(old.red, was.red),
           recovery |-> IF view[w] = "cool" THEN Grown(old.recovery, was.recovery) ELSE 0,
           latched |-> IF ~old.latched
                       THEN IF view[w] = "cool" THEN 0 ELSE Grown(old.red, was.red)
                       ELSE was.latched]
    BY DEF FoldSpan, Grown, step, old, was
  <1>8. FoldSpan(w) \in [red : Nat, recovery : Nat, latched : Nat]
    BY <1>1, <1>5, <1>7
  <1>9. CASE view[w] = "red"
    <2>1. Fold(w) = [latched |-> old.latched \/ old.red + 1 >= BlockSamples,
                     red |-> Upto(old.red + 1, BlockSamples), recovery |-> 0, age |-> lag[w]]
      BY <1>9 DEF Fold, old
    <2>2. Upto(old.red + 1, BlockSamples) \in 0..BlockSamples
      BY <1>1, <1>2 DEF Upto
    <2>3. /\ Fold(w).latched <=> old.latched \/ old.red + 1 >= BlockSamples
          /\ Fold(w).red = Upto(old.red + 1, BlockSamples) /\ Fold(w).recovery = 0
      <3>1. Fold(w).latched = (old.latched \/ old.red + 1 >= BlockSamples)
        BY <2>1
      <3>2. Fold(w).red = Upto(old.red + 1, BlockSamples) /\ Fold(w).recovery = 0
        BY <2>1
      <3>3. QED
        BY <3>1, <3>2
    <2>8. Coherent(Fold(w))
      <3>1. ~Fold(w).latched => Fold(w).red < BlockSamples
        BY <1>1, <1>2, <2>3 DEF Upto
      <3>2. QED
        BY <3>1, <2>3, <1>2 DEF Coherent
    <2>4. (Upto(old.red + 1, BlockSamples) - 1) * Interval <= old.red * Interval
      <3>1. CASE old.red + 1 <= BlockSamples
        BY <3>1, <1>1, <1>2, <1>6 DEF Upto
      <3>2. CASE old.red = BlockSamples
        BY <3>2, <1>1, <1>2, <1>6 DEF Upto
      <3>3. QED
        BY <3>1, <3>2, <1>1, <1>2
    <2>5. ~old.latched /\ old.red + 1 >= BlockSamples => old.red = BlockSamples - 1
      BY <1>1, <1>2 DEF Coherent
    <2>6. /\ FoldSpan(w).red = Grown(old.red, was.red)
          /\ ~old.latched => FoldSpan(w).latched = Grown(old.red, was.red)
          /\ old.latched => FoldSpan(w).latched = was.latched
      BY <1>7, <1>9
    <2>9. FoldSpan(w).red >= (Fold(w).red - 1) * Interval
      <3>1. (Fold(w).red - 1) * Interval \in Int
        BY <1>2, <2>2, <2>3
      <3>2. QED
        BY <1>5, <1>6, <2>3, <2>4, <2>6, <3>1
    <2>10. Fold(w).latched => FoldSpan(w).latched >= (BlockSamples - 1) * Interval
      <3>1. CASE old.latched
        BY <3>1, <1>1, <2>6 DEF Evidence
      <3>2. CASE ~old.latched
        BY <3>2, <1>5, <2>3, <2>5, <2>6
      <3>3. QED
        BY <3>1, <3>2
    <2>11. Evidence(Fold(w), FoldSpan(w))
      BY <2>3, <2>9, <2>10 DEF Evidence
    <2>7. QED
      BY <1>1, <1>2, <1>8, <2>1, <2>2, <2>8, <2>11
  <1>10. CASE view[w] = "cool" /\ old.latched /\ old.recovery + 1 >= ReleaseSamples
    <2>1. Fold(w) = [latched |-> FALSE, red |-> 0, recovery |-> 0, age |-> lag[w]]
      BY <1>10 DEF Fold, old
    <2>2. QED
      BY <1>2, <1>8, <2>1 DEF Coherent, Evidence
  <1>11. CASE view[w] = "cool" /\ ~(old.latched /\ old.recovery + 1 >= ReleaseSamples)
    <2>1. Fold(w) = [latched |-> old.latched, red |-> 0,
                     recovery |-> Upto(old.recovery + 1, ReleaseSamples), age |-> lag[w]]
      BY <1>11 DEF Fold, old
    <2>2. Upto(old.recovery + 1, ReleaseSamples) \in 0..ReleaseSamples
      BY <1>1, <1>2 DEF Upto
    <2>3. Coherent(Fold(w))
      BY <1>1, <1>2, <1>11, <2>1 DEF Coherent, Upto
    <2>4. (Upto(old.recovery + 1, ReleaseSamples) - 1) * Interval <= old.recovery * Interval
      <3>1. CASE old.recovery + 1 <= ReleaseSamples
        BY <3>1, <1>1, <1>2, <1>6 DEF Upto
      <3>2. CASE old.recovery = ReleaseSamples
        BY <3>2, <1>1, <1>2, <1>6 DEF Upto
      <3>3. QED
        BY <3>1, <3>2, <1>1, <1>2
    <2>5. Evidence(Fold(w), FoldSpan(w))
      BY <1>1, <1>2, <1>5, <1>6, <1>7, <1>11, <2>1, <2>2, <2>4 DEF Evidence
    <2>6. QED
      BY <1>1, <1>2, <1>8, <2>1, <2>2, <2>3, <2>5
  <1>12. CASE view[w] \notin {"red", "cool"}
    <2>1. Fold(w) = [latched |-> old.latched, red |-> old.red, recovery |-> 0, age |-> lag[w]]
      BY <1>12 DEF Fold, old
    <2>2. Coherent(Fold(w))
      BY <1>1, <1>2, <2>1 DEF Coherent
    <2>3. Evidence(Fold(w), FoldSpan(w))
      BY <1>1, <1>2, <1>5, <1>6, <1>7, <1>12, <2>1 DEF Evidence
    <2>4. QED
      BY <1>1, <1>2, <1>8, <2>1, <2>2, <2>3
  <1>13. QED
    BY <1>9, <1>10, <1>11, <1>12

(***************************************************************************)
(* The latch: TypeOK, LatchCoherent and SustainedEvidence together.        *)
(***************************************************************************)
\* What GateInv says of the latch, its history and the copies.
LatchPart ==
    /\ LatchType /\ SpanType /\ Fresh /\ Coherent(latch) /\ SustainedEvidence
    /\ private \in [Wrappers -> Counters]
    /\ \A w \in Wrappers : Coherent(private[w])

\* What it says of the wrappers.
WrapperPart ==
    /\ lag \in [Wrappers -> 0..MaxLag]
    /\ view \in [Wrappers -> {"none", "red", "warm", "cool", "memory"}]
    /\ gate \in [Wrappers -> GateStates]
    /\ hold \in [Wrappers -> BOOLEAN] /\ held \in [Wrappers -> BOOLEAN]

LEMMA Parts == GateInv <=> LatchPart /\ WrapperPart
  <1>1. LatchType => [latched |-> latch.latched, red |-> latch.red, recovery |-> latch.recovery] \in Counters
    BY DEF LatchType, Counters
  <1>2. LatchType => latch.age \in -1..(StaleAfter + MaxLag + 1)
    BY DEF LatchType
  <1>3. QED
    BY <1>1, <1>2 DEF GateInv, LatchPart, WrapperPart, TypeOK, GateStates

LEMMA PartsNext == LatchPart' /\ WrapperPart' => GateInv'
  <1>1. LatchType' => [latched |-> latch'.latched, red |-> latch'.red, recovery |-> latch'.recovery] \in Counters
    BY DEF LatchType, Counters
  <1>2. LatchType' => latch'.age \in -1..(StaleAfter + MaxLag + 1)
    BY DEF LatchType
  <1>3. QED
    BY <1>1, <1>2 DEF GateInv, LatchPart, WrapperPart, TypeOK, GateStates

LEMMA LiveHoldsType == WrapperPart => LiveHolds \in [Wrappers -> BOOLEAN]
  BY DEF WrapperPart, LiveHolds

\* Wherever a wrapper is observing, the decision puts it on one of the next places.
LEMMA DecideType ==
    ASSUME WrapperPart, NEW w \in Wrappers, Observing(w), NEW allowed \in BOOLEAN, Decide(w, allowed)
    PROVE  /\ gate' \in [Wrappers -> GateStates]
           /\ view' \in [Wrappers -> {"none", "red", "warm", "cool", "memory"}]
           /\ lag' \in [Wrappers -> 0..MaxLag]
  <1>1. gate[w] \in {"observe", "reobserve", "regate"}
    BY DEF Observing
  <1>2. gate' \in [Wrappers -> GateStates]
    BY <1>1 DEF Decide, WrapperPart, GateStates, AtGate
  <1>3. view' \in [Wrappers -> {"none", "red", "warm", "cool", "memory"}]
    BY DEF Decide, WrapperPart
  <1>4. lag' \in [Wrappers -> 0..MaxLag]
    BY GateAssumption DEF Decide, WrapperPart
  <1>5. QED
    BY <1>2, <1>3, <1>4

\* observe with the shared latch.
LEMMA SharedLatch ==
    ASSUME GateInv, NEW w \in Wrappers, ObserveShared(w)
    PROVE  LatchPart'
  <1>0. LatchPart /\ WrapperPart
    BY Parts
  <1>1. ASSUME Counted(w)
        PROVE  LatchType' /\ SpanType' /\ Fresh' /\ Coherent(latch)' /\ SustainedEvidence'
    <2>1. latch' = Fold(w) /\ span' = FoldSpan(w)
      BY <1>1 DEF ObserveShared
    <2>2. /\ Fold(w) \in [latched : BOOLEAN, red : 0..BlockSamples,
                          recovery : 0..ReleaseSamples, age : 0..MaxLag]
          /\ FoldSpan(w) \in [red : Nat, recovery : Nat, latched : Nat]
          /\ Coherent(Fold(w)) /\ Evidence(Fold(w), FoldSpan(w))
      BY <1>1, FoldSound
    <2>3. QED
      BY <2>1, <2>2, GateAssumption
      DEF LatchType, SpanType, Fresh, Coherent, SustainedEvidence, Evidence
  <1>2. ASSUME ~Counted(w)
        PROVE  LatchType' /\ SpanType' /\ Fresh' /\ Coherent(latch)' /\ SustainedEvidence'
    <2>1. latch' = latch /\ span' = span
      BY <1>2 DEF ObserveShared
    <2>2. QED
      BY <1>0, <2>1 DEF LatchPart, LatchType, SpanType, Fresh, Coherent, SustainedEvidence
  <1>3. LatchType' /\ SpanType' /\ Fresh' /\ Coherent(latch)' /\ SustainedEvidence'
    BY <1>1, <1>2
  <1> DEFINE copy == IF w \in Failing["observe"]
                     THEN [latched |-> latch'.latched, red |-> latch'.red, recovery |-> latch'.recovery]
                     ELSE NoCount
  <1>4. private' = [private EXCEPT ![w] = copy]
    BY DEF ObserveShared
  <1>5. copy \in Counters /\ Coherent(copy)
    BY <1>3, GateAssumption DEF LatchType, Coherent, Counters, NoCount
  <1>6. private' \in [Wrappers -> Counters] /\ \A x \in Wrappers : Coherent(private'[x])
    BY <1>0, <1>4, <1>5 DEF LatchPart
  <1>7. QED
    BY <1>3, <1>6 DEF LatchPart, Coherent

\* observe without it: the wrapper's own copy.
LEMMA PrivateCopy ==
    ASSUME GateInv, NEW w \in Wrappers, ObservePrivate(w)
    PROVE  LatchPart'
  <1> DEFINE old == private[w]
             new == CASE ~old.latched /\ view[w] = "red" ->
                           IF old.red + 1 >= BlockSamples
                           THEN PrivateLatch(old)
                           ELSE [old EXCEPT !.red = @ + 1]
                      [] ~old.latched /\ view[w] # "red" -> [old EXCEPT !.red = 0]
                      [] old.latched /\ view[w] = "cool" ->
                           IF old.recovery + 1 >= ReleaseSamples
                           THEN [latched |-> FALSE, red |-> 0,
                                 recovery |-> Upto(old.recovery + 1, ReleaseSamples)]
                           ELSE [old EXCEPT !.recovery = @ + 1]
                      [] OTHER -> [old EXCEPT !.recovery = 0]
  <1>1. LatchPart /\ BlockSamples \in Nat \ {0} /\ ReleaseSamples \in Nat \ {0}
    BY Parts, GateAssumption
  <1>2. old \in Counters /\ Coherent(old)
    BY <1>1 DEF LatchPart
  <1>3. private' = [private EXCEPT ![w] = new] /\ latch' = latch /\ span' = span
    BY DEF ObservePrivate
  <1> HIDE DEF old
  <1>4. new \in Counters /\ Coherent(new)
    <2>1. CASE ~old.latched /\ view[w] = "red" /\ old.red + 1 >= BlockSamples
      <3>1. new = [latched |-> TRUE, red |-> BlockSamples, recovery |-> 0]
        BY <2>1 DEF PrivateLatch
      <3> HIDE DEF new
      <3>2. QED
        BY <3>1, <1>1 DEF Counters, Coherent
    <2>2. CASE ~old.latched /\ view[w] = "red" /\ ~(old.red + 1 >= BlockSamples)
      <3>1. new = [old EXCEPT !.red = @ + 1]
        BY <2>2
      <3>2. QED
        BY <3>1, <1>1, <1>2, <2>2 DEF Counters, Coherent
    <2>3. CASE ~old.latched /\ view[w] # "red"
      <3>1. new = [old EXCEPT !.red = 0]
        BY <2>3
      <3>2. QED
        BY <3>1, <1>1, <1>2, <2>3 DEF Counters, Coherent
    <2>4. CASE old.latched /\ view[w] = "cool" /\ old.recovery + 1 >= ReleaseSamples
      <3>1. new = [latched |-> FALSE, red |-> 0, recovery |-> Upto(old.recovery + 1, ReleaseSamples)]
        BY <2>4
      <3>2. Upto(old.recovery + 1, ReleaseSamples) \in 0..ReleaseSamples
        BY <1>1, <1>2 DEF Upto, Counters
      <3> HIDE DEF new
      <3>3. QED
        BY <3>1, <3>2, <1>1 DEF Counters, Coherent
    <2>5. CASE old.latched /\ view[w] = "cool" /\ ~(old.recovery + 1 >= ReleaseSamples)
      <3>1. new = [old EXCEPT !.recovery = @ + 1]
        BY <2>5
      <3>2. QED
        BY <3>1, <1>1, <1>2, <2>5 DEF Counters, Coherent
    <2>6. CASE old.latched /\ view[w] # "cool"
      <3>1. new = [old EXCEPT !.recovery = 0]
        BY <2>6
      <3>2. QED
        BY <3>1, <1>1, <1>2, <2>6 DEF Counters, Coherent
    <2>7. QED
      BY <2>1, <2>2, <2>3, <2>4, <2>5, <2>6
  <1>5. private' \in [Wrappers -> Counters] /\ \A x \in Wrappers : Coherent(private'[x])
    BY <1>1, <1>3, <1>4 DEF LatchPart
  <1>6. QED
    BY <1>1, <1>3, <1>5 DEF LatchPart, LatchType, SpanType, Fresh, Coherent, SustainedEvidence

\* A step that leaves the latch alone, or lets it age.
LEMMA LatchFrame ==
    ASSUME GateInv, UNCHANGED <<latch, span>>,
           private' \in [Wrappers -> Counters], \A w \in Wrappers : Coherent(private'[w])
    PROVE  LatchPart'
  <1>1. LatchPart
    BY Parts
  <1>2. QED
    BY <1>1 DEF LatchPart, LatchType, SpanType, Fresh, Coherent, SustainedEvidence

LEMMA NoCountCoherent == NoCount \in Counters /\ Coherent(NoCount)
  BY GateAssumption DEF NoCount, Counters, Coherent

\* The inductive step for GateInv, action by action.
LEMMA GateStep == GateInv /\ [Next]_vars => GateInv'
  <1> SUFFICES ASSUME GateInv, [Next]_vars
               PROVE  LatchPart' /\ WrapperPart'
    BY PartsNext
  <1> USE DEF WrapperPart
  <1>0. LatchPart /\ WrapperPart
    BY Parts
  <1>1. /\ private \in [Wrappers -> Counters]
        /\ \A w \in Wrappers : Coherent(private[w])
    BY <1>0 DEF LatchPart
  <1>2. LiveHolds \in [Wrappers -> BOOLEAN]
    BY <1>0, LiveHoldsType
  <1>3. UNCHANGED <<latch, span, private>> => LatchPart'
    BY <1>1, LatchFrame
  <1>4. ASSUME NEW w \in Wrappers, Arrive(w)
        PROVE  LatchPart' /\ WrapperPart'
    BY <1>0, <1>3, <1>4 DEF Arrive, GateStates, AtGate
  <1>5. ASSUME NEW w \in Wrappers, Sample(w)
        PROVE  LatchPart' /\ WrapperPart'
    <2>1. gate' \in [Wrappers -> GateStates]
      BY <1>0, <1>5 DEF Sample, GateStates, AtGate
    <2>2. view' \in [Wrappers -> {"none", "red", "warm", "cool", "memory"}]
      BY <1>0, <1>5, GateAssumption DEF Sample
    <2>3. QED
      BY <1>0, <1>3, <1>5, <2>1, <2>2 DEF Sample
  <1>6. ASSUME NEW w \in Wrappers, ObserveShared(w)
        PROVE  LatchPart' /\ WrapperPart'
    <2>1. LatchPart'
      BY <1>6, SharedLatch
    <2>2. PICK new : Decide(w, ~new.latched /\ view[w] # "red")
      BY <1>6 DEF ObserveShared
    <2>3. (~new.latched /\ view[w] # "red") \in BOOLEAN
      OBVIOUS
    <2>4. QED
      BY <1>0, <1>2, <1>6, <2>1, <2>2, <2>3, DecideType DEF ObserveShared
  <1>7. ASSUME NEW w \in Wrappers, ObservePrivate(w)
        PROVE  LatchPart' /\ WrapperPart'
    <2>1. LatchPart'
      BY <1>7, PrivateCopy
    <2>2. PICK new : Decide(w, ~new.latched /\ view[w] # "red")
      BY <1>7 DEF ObservePrivate
    <2>3. (~new.latched /\ view[w] # "red") \in BOOLEAN
      OBVIOUS
    <2>4. QED
      BY <1>0, <1>7, <2>1, <2>2, <2>3, DecideType DEF ObservePrivate
  <1>8. ASSUME NEW w \in Wrappers, ObserveOther(w)
        PROVE  LatchPart' /\ WrapperPart'
    <2>1. private' = [private EXCEPT ![w].red = 0, ![w].recovery = 0]
      BY <1>8 DEF ObserveOther
    <2>2. private' \in [Wrappers -> Counters] /\ \A x \in Wrappers : Coherent(private'[x])
      <3> DEFINE reset == [private[w] EXCEPT !.red = 0, !.recovery = 0]
      <3>1. private' = [private EXCEPT ![w] = reset]
        BY <1>1, <2>1
      <3>2. reset \in Counters
        <4>1. private[w] \in Counters
          BY <1>1
        <4>2. 0 \in 0..BlockSamples /\ 0 \in 0..ReleaseSamples
          BY GateAssumption
        <4>3. QED
          BY <4>1, <4>2 DEF Counters
      <3>3. reset.red = 0 /\ reset.recovery = 0
        BY <1>1 DEF Counters
      <3>4. Coherent(reset)
        BY <3>3, GateAssumption DEF Coherent
      <3> HIDE DEF reset
      <3>5. QED
        BY <1>1, <3>1, <3>2, <3>4
    <2>3. LatchPart'
      BY <1>8, <2>2, LatchFrame DEF ObserveOther
    <2>4. Decide(w, FALSE) /\ Observing(w)
      BY <1>8 DEF ObserveOther
    <2>5. QED
      BY <1>0, <1>8, <2>3, <2>4, DecideType DEF ObserveOther
  <1>9. ASSUME NEW w \in Wrappers, RecordHold(w)
        PROVE  LatchPart' /\ WrapperPart'
    BY <1>0, <1>2, <1>3, <1>9 DEF RecordHold, GateStates, AtGate
  <1>10. ASSUME NEW w \in Wrappers, PassGate(w)
        PROVE  LatchPart' /\ WrapperPart'
    BY <1>0, <1>2, <1>3, <1>10 DEF PassGate, ReleaseHold, GateStates, AtGate
  <1>11. ASSUME NEW w \in Wrappers, Gone(w), UNCHANGED <<latch, span>>
        PROVE  /\ LatchPart'
               /\ lag' \in [Wrappers -> 0..MaxLag]
               /\ view' \in [Wrappers -> {"none", "red", "warm", "cool", "memory"}]
               /\ gate' \in [Wrappers -> GateStates] /\ held' \in [Wrappers -> BOOLEAN]
    <2>1. private' \in [Wrappers -> Counters] /\ \A x \in Wrappers : Coherent(private'[x])
      BY <1>1, <1>11, NoCountCoherent DEF Gone
    <2>2. LatchPart'
      BY <1>11, <2>1, LatchFrame
    <2>3. QED
      BY <1>0, <1>11, <2>2, GateAssumption DEF Gone, GateStates
  <1>12. ASSUME NEW w \in Wrappers, GiveUp(w)
        PROVE  LatchPart' /\ WrapperPart'
    BY <1>0, <1>2, <1>11, <1>12 DEF GiveUp, ReleaseHold
  <1>13. ASSUME NEW w \in Wrappers, Acquired(w)
        PROVE  LatchPart' /\ WrapperPart'
    BY <1>0, <1>3, <1>13 DEF Acquired, GateStates
  <1>14. ASSUME NEW w \in Wrappers, Reserve(w)
        PROVE  LatchPart' /\ WrapperPart'
    BY <1>0, <1>3, <1>14 DEF Reserve, GateStates
  <1>15. ASSUME NEW w \in Wrappers, Exit(w)
        PROVE  LatchPart' /\ WrapperPart'
    BY <1>0, <1>11, <1>15 DEF Exit
  <1>16. CASE Status
    BY <1>0, <1>2, <1>3, <1>16 DEF Status
  <1>17. CASE Tick
    <2>1. latch' = [latch EXCEPT !.age = IF @ < 0 THEN @ ELSE Upto(@ + 1, StaleAfter + MaxLag + 1)]
      BY <1>17 DEF Tick
    <2>2. LatchType' /\ Fresh' /\ Coherent(latch)' /\ SpanType' /\ SustainedEvidence'
      <3> DEFINE older == IF latch.age < 0 THEN latch.age
                          ELSE Upto(latch.age + 1, StaleAfter + MaxLag + 1)
      <3>1. latch' = [latch EXCEPT !.age = older] /\ span' = span
        BY <1>17, <2>1 DEF Tick
      <3>2. older \in -1..(StaleAfter + MaxLag + 1) /\ (older < 0 => latch.age < 0)
        <4>1. latch.age \in -1..(StaleAfter + MaxLag + 1) /\ StaleAfter \in Nat /\ MaxLag \in Nat
          BY <1>0, GateAssumption DEF LatchPart, LatchType
        <4>2. QED
          BY <4>1 DEF Upto
      <3> HIDE DEF older
      <3>3. /\ LatchType' /\ latch'.latched = latch.latched /\ latch'.red = latch.red
            /\ latch'.recovery = latch.recovery /\ latch'.age = older
        BY <1>0, <3>1, <3>2 DEF LatchPart, LatchType
      <3>4. QED
        BY <1>0, <3>1, <3>2, <3>3
        DEF LatchPart, SpanType, Fresh, Coherent, SustainedEvidence
    <2>3. lag' \in [Wrappers -> 0..MaxLag]
      BY <1>0, <1>17, GateAssumption DEF Tick
    <2>4. QED
      BY <1>0, <1>1, <1>17, <2>2, <2>3 DEF Tick, LatchPart, Coherent
  <1>18. CASE UNCHANGED vars
    BY <1>0, <1>3, <1>18 DEF vars
  <1>19. QED
    BY <1>4, <1>5, <1>6, <1>7, <1>8, <1>9, <1>10, <1>12, <1>13, <1>14, <1>15, <1>16, <1>17, <1>18
    DEF Next

LEMMA GateInit == Init => GateInv
  BY GateAssumption
  DEF Init, NoLatch, NoSpan, NoCount, AtGate, GateInv, TypeOK, LatchType, SpanType, Fresh,
      Coherent, SustainedEvidence, Counters

\* For any number of wrappers, in any order of arrival and with any call failing: no credit
\* is carried across a change of the latch, shared or copied (ObserveAdmissionLatch, observe).
THEOREM LatchKept == Spec => []LatchCoherent
  <1>1. Init => GateInv
    BY GateInit
  <1>2. GateInv => LatchCoherent
    BY DEF GateInv, Coherent, LatchCoherent
  <1>3. QED
    BY <1>1, <1>2, GateStep, PTL DEF Spec

\* For any number of observers, sample counts, interval and lag: the samples behind a counter,
\* and those that closed the latch, span the time the limits ask for (ObserveAdmissionLatch).
THEOREM EvidenceKept == Spec => []SustainedEvidence
  <1>1. Init => GateInv
    BY GateInit
  <1>2. GateInv => SustainedEvidence
    BY DEF GateInv
  <1>3. QED
    BY <1>1, <1>2, GateStep, PTL DEF Spec

(***************************************************************************)
(* The holds of the wrappers.                                              *)
(***************************************************************************)
\* What place, hold and knowledge of one wrapper say of each other.  A process that is gone
\* has nothing to withdraw; one at the gate knows of the hold it has, so that the hold is
\* withdrawn when it passes; and, unless its calls fail, it has a hold when it knows of one
\* and none once it is past the gate.
Agree(w, place, recorded, known) ==
    /\ place = "out" => ~known
    /\ recorded /\ place \in AtGate \cup {"withdraw"} => known
    /\ w \notin Failing["hold"] /\ known /\ place # "out" => recorded
    /\ w \notin Failing["release"] /\ place \notin AtGate \cup {"out", "withdraw"} => ~recorded

HoldInv == \A w \in Wrappers : Agree(w, gate[w], hold[w], held[w])

\* reconcile, which every call on the ledger begins with, drops no hold of a live wrapper.
LEMMA HoldsReconciled ==
    ASSUME HoldInv, NEW x \in Wrappers
    PROVE  Agree(x, gate[x], LiveHolds[x], held[x])
  BY DEF HoldInv, Agree, LiveHolds

\* A decision moves one wrapper: from observing to a place on the same side of the gate.
LEMMA HoldsDecided ==
    ASSUME GateInv, HoldInv, NEW w \in Wrappers, Observing(w), NEW allowed, Decide(w, allowed),
           held' = held, hold' = hold \/ hold' = LiveHolds
    PROVE  HoldInv'
  <1>1. WrapperPart
    BY Parts
  <1>2. ASSUME NEW x \in Wrappers
        PROVE  Agree(x, gate[x], hold'[x], held[x])
    BY HoldsReconciled DEF HoldInv
  <1>3. \A x \in Wrappers : x # w => gate'[x] = gate[x]
    BY <1>1 DEF Decide, WrapperPart
  <1>4. \/ gate[w] = "observe" /\ gate'[w] \in {"withdraw", "hold"}
        \/ gate[w] = "reobserve" /\ gate'[w] \in {"started", "reserve"}
        \/ gate[w] = "regate" /\ gate'[w] \in {"queue", "resample"}
    BY <1>1 DEF Decide, Observing, WrapperPart
  <1>5. Agree(w, gate'[w], hold'[w], held[w])
    BY <1>2, <1>4 DEF Agree, AtGate
  <1>6. QED
    BY <1>2, <1>3, <1>5 DEF HoldInv

\* The inductive step for HoldInv, action by action.
LEMMA HoldStep == GateInv /\ HoldInv /\ [Next]_vars => HoldInv'
  <1> SUFFICES ASSUME GateInv, HoldInv, [Next]_vars
               PROVE  HoldInv'
    OBVIOUS
  <1>0. WrapperPart /\ LiveHolds \in [Wrappers -> BOOLEAN]
    BY Parts, LiveHoldsType
  <1> DEFINE Others(w) == \A x \in Wrappers \ {w} :
                 gate'[x] = gate[x] /\ held'[x] = held[x] /\ hold'[x] \in {hold[x], LiveHolds[x]}
  <1>1. ASSUME NEW w \in Wrappers, Others(w), Agree(w, gate'[w], hold'[w], held'[w])
        PROVE  HoldInv'
    <2>1. ASSUME NEW x \in Wrappers \ {w}
          PROVE  Agree(x, gate'[x], hold'[x], held'[x])
      BY <1>1, HoldsReconciled DEF HoldInv
    <2>2. QED
      BY <1>1, <2>1 DEF HoldInv
  <1>2. ASSUME NEW w \in Wrappers,
               Arrive(w) \/ Sample(w) \/ Acquired(w) \/ Reserve(w)
        PROVE  HoldInv'
    <2>1. Others(w) /\ hold' = hold /\ held' = held
      BY <1>0, <1>2 DEF Arrive, Sample, Acquired, Reserve, WrapperPart
    <2>2. \/ gate[w] = "out" /\ ~hold[w] /\ gate'[w] = "sample"
          \/ gate[w] = "sample" /\ gate'[w] = "observe"
          \/ /\ gate[w] \in {"recheck", "resample", "queue", "reserve"}
             /\ gate'[w] \in {"reobserve", "regate", "recheck"}
      BY <1>0, <1>2 DEF Arrive, Sample, Acquired, Reserve, WrapperPart
    <2>3. Agree(w, gate'[w], hold'[w], held'[w])
      BY <2>1, <2>2 DEF HoldInv, Agree, AtGate
    <2>4. QED
      BY <1>1, <2>1, <2>3
  <1>3. ASSUME NEW w \in Wrappers, ObserveShared(w)
        PROVE  HoldInv'
    <2>1. PICK new : Decide(w, ~new.latched /\ view[w] # "red")
      BY <1>3 DEF ObserveShared
    <2>2. QED
      BY <1>3, <2>1, HoldsDecided DEF ObserveShared
  <1>4. ASSUME NEW w \in Wrappers, ObservePrivate(w)
        PROVE  HoldInv'
    <2>1. PICK new : Decide(w, ~new.latched /\ view[w] # "red")
      BY <1>4 DEF ObservePrivate
    <2>2. QED
      BY <1>4, <2>1, HoldsDecided DEF ObservePrivate
  <1>5. ASSUME NEW w \in Wrappers, ObserveOther(w)
        PROVE  HoldInv'
    BY <1>5, HoldsDecided DEF ObserveOther
  <1>6. ASSUME NEW w \in Wrappers, RecordHold(w)
        PROVE  HoldInv'
    <2>1. Others(w) /\ held'[w] /\ gate'[w] = "sample"
          /\ (hold'[w] \/ w \in Failing["hold"])
      BY <1>0, <1>6 DEF RecordHold, WrapperPart
    <2>2. Agree(w, gate'[w], hold'[w], held'[w])
      BY <2>1 DEF Agree, AtGate
    <2>3. QED
      BY <1>1, <2>1, <2>2
  \* Whoever runs releaseHold at the gate has no hold afterwards, unless the call fails.
  <1>7. ASSUME NEW w \in Wrappers, ReleaseHold(w), gate[w] \in {"sample", "withdraw"}
        PROVE  /\ \A x \in Wrappers \ {w} : hold'[x] \in {hold[x], LiveHolds[x]}
               /\ ~hold'[w] \/ w \in Failing["release"]
    BY <1>0, <1>7 DEF ReleaseHold, WrapperPart, HoldInv, Agree, AtGate
  <1>8. ASSUME NEW w \in Wrappers, PassGate(w)
        PROVE  HoldInv'
    <2>1. /\ Others(w) /\ ~held'[w] /\ gate'[w] = "queue"
          /\ ~hold'[w] \/ w \in Failing["release"]
      BY <1>0, <1>7, <1>8 DEF PassGate, WrapperPart
    <2>2. Agree(w, gate'[w], hold'[w], held'[w])
      BY <2>1 DEF Agree, AtGate
    <2>3. QED
      BY <1>1, <2>1, <2>2
  <1>9. ASSUME NEW w \in Wrappers, GiveUp(w) \/ Exit(w)
        PROVE  HoldInv'
    <2>1. Others(w) /\ ~held'[w] /\ gate'[w] = "out"
      BY <1>0, <1>7, <1>9 DEF GiveUp, Exit, Gone, WrapperPart
    <2>2. Agree(w, gate'[w], hold'[w], held'[w])
      BY <2>1 DEF Agree, AtGate
    <2>3. QED
      BY <1>1, <2>1, <2>2
  <1>10. CASE Status
    BY <1>10, HoldsReconciled DEF Status, HoldInv
  <1>11. CASE Tick \/ UNCHANGED vars
    BY <1>11 DEF Tick, vars, HoldInv
  <1>12. QED
    BY <1>2, <1>3, <1>4, <1>5, <1>6, <1>8, <1>9, <1>10, <1>11 DEF Next

\* For any number of wrappers and with any call failing: the holds in the ledger are the
\* wrappers at the gate, whoever else writes it (RecordAdmissionHold, ReleaseAdmission, reconcile).
THEOREM HoldsVisible == Spec => []DeferredVisible
  <1>1. Init => HoldInv
    BY DEF Init, HoldInv, Agree, AtGate
  <1>2. HoldInv => DeferredVisible
    BY DEF HoldInv, Agree, DeferredVisible, HoldKept, HoldWithdrawn, Past
  <1>3. Init => GateInv
    BY GateInit
  <1>4. QED
    BY <1>1, <1>2, <1>3, GateStep, HoldStep, PTL DEF Spec
=============================================================================
