----------------------------- MODULE WorkLimits -----------------------------
(***************************************************************************)
(* The weighted capacity of a host (sessionpressure/policy.go): how the    *)
(* limits are derived from the number of CPUs, how a policy that an older  *)
(* release saved is completed when it is loaded, and what a policy must    *)
(* satisfy for LoadPolicy to return it at all.                             *)
(*                                                                         *)
(* Field 0 means that the file does not have it.  All of it is pure; the   *)
(* module has no variables.                                                *)
(***************************************************************************)
EXTENDS Integers, FiniteSetsExt

CONSTANT MaxCPUs   \* the largest host looked at

ASSUME LimitsBound == MaxCPUs \in Nat

OperatorRevision == 1000000   \* fastLaneDefaultsOperatorRevision
Revision == 2                 \* fastLaneDefaultsRevision
Defaulted(value, default) == IF value = 0 THEN default ELSE value

\* What a release derived before it was corrected for hosts of up to five CPUs, where the weights
\* of full and express work were the same.
EarlierWorkLimits(cpus) ==
    LET capacity == Max({2, cpus - 2})
        build    == Max({1, (capacity + 2) \div 2})
    IN  [capacity |-> capacity, warning |-> Max({1, capacity \div 2}),
         test |-> Max({1, (capacity + 2) \div 3}), build |-> build, thrash |-> Min({capacity, build}),
         expressTest |-> 1, expressBuild |-> 2,
         emulator |-> Max({1, (capacity * 5 + 7) \div 8}), browser |-> Max({1, (capacity + 3) \div 4}),
         heavy |-> Max({1, (capacity * 3 + 3) \div 4}), benchmark |-> Max({1, capacity - 2}),
         install |-> 1, reclaim |-> 1,
         laneOn |-> TRUE, laneWeight |-> Max({1, Min({2, capacity \div 4})}), laneRuntime |-> 120,
         laneCPU |-> 50, laneRevision |-> Revision]

\* Express weights are lighter than the full ones, and a benchmark leaves room for an express
\* test: the full weights give way, then the capacity.
DefaultWorkLimits(cpus) ==
    LET small   == Max({2, cpus - 2})
        exTest  == Min({1, small})
        exBuild == Min({2, small})
        test    == Max({exTest + 1, (small + 2) \div 3})
        build   == Max({exBuild + 1, (small + 2) \div 2})
        roomy   == Max({small, test, build})
        bench   == Max({1, roomy - exBuild})
        capacity == Max({roomy, bench + exTest})
    IN  [capacity |-> capacity, warning |-> Max({1, capacity \div 2}),
         test |-> test, build |-> build, thrash |-> Min({capacity, build}),
         expressTest |-> exTest, expressBuild |-> exBuild,
         emulator |-> Max({1, (capacity * 5 + 7) \div 8}), browser |-> Max({1, (capacity + 3) \div 4}),
         heavy |-> Max({1, (capacity * 3 + 3) \div 4}), benchmark |-> bench,
         install |-> 1, reclaim |-> 1,
         laneOn |-> TRUE, laneWeight |-> Max({1, Min({exBuild, capacity \div 4})}), laneRuntime |-> 120,
         laneCPU |-> 50, laneRevision |-> Revision]

\* Bounds of the fast lane: none at all, an older release's, or the operator's own.
ReconcileFastLaneDefaults(l, d) ==
    IF l.laneWeight = 0 /\ l.laneRuntime = 0 /\ l.laneCPU = 0 /\ ~l.laneOn
    THEN [l EXCEPT !.laneOn = d.laneOn, !.laneWeight = d.laneWeight, !.laneRuntime = d.laneRuntime,
                   !.laneCPU = d.laneCPU, !.laneRevision = d.laneRevision]
    ELSE IF l.laneRevision > 0 /\ l.laneRevision < d.laneRevision
    THEN [l EXCEPT !.laneWeight = d.laneWeight, !.laneRuntime = d.laneRuntime,
                   !.laneCPU = d.laneCPU, !.laneRevision = d.laneRevision]
    ELSE [l EXCEPT !.laneWeight = Defaulted(@, d.laneWeight), !.laneRuntime = Defaulted(@, d.laneRuntime),
                   !.laneCPU = Defaulted(@, d.laneCPU), !.laneRevision = Defaulted(@, OperatorRevision)]

\* Mutant: a benchmark keeps the whole capacity, as it did when there was no other class for that.
MissingWeightsExclusive(l, d) ==
    [l EXCEPT !.test = Defaulted(@, d.test), !.expressTest = Defaulted(@, d.expressTest),
              !.expressBuild = Defaulted(@, d.expressBuild), !.benchmark = Defaulted(@, l.capacity),
              !.emulator = Defaulted(@, d.emulator), !.browser = Defaulted(@, d.browser),
              !.heavy = Defaulted(@, d.heavy), !.install = Defaulted(@, d.install),
              !.reclaim = Defaulted(@, d.reclaim), !.warning = Defaulted(@, d.warning)]
\* The weights a loaded policy lacks are those of the host.
MissingWeights(l, d) ==
    [l EXCEPT !.test = Defaulted(@, d.test), !.expressTest = Defaulted(@, d.expressTest),
              !.expressBuild = Defaulted(@, d.expressBuild), !.benchmark = Defaulted(@, d.benchmark),
              !.emulator = Defaulted(@, d.emulator), !.browser = Defaulted(@, d.browser),
              !.heavy = Defaulted(@, d.heavy), !.install = Defaulted(@, d.install),
              !.reclaim = Defaulted(@, d.reclaim), !.warning = Defaulted(@, d.warning)]

\* The build weight an earlier release derived is replaced, any other one is the operator's.
MigratedBuildWeight(l, d) ==
    LET legacy == Max({1, (l.capacity * 2 + 2) \div 3})
        build  == Defaulted(l.build, d.build)
    IN  IF build = legacy /\ d.build # legacy THEN d.build ELSE build

LoadWorkLimits(saved, cpus) ==
    LET d == DefaultWorkLimits(cpus)
        l == [saved EXCEPT !.capacity = Defaulted(@, d.capacity)]
        m == [MissingWeights(l, d) EXCEPT !.build = MigratedBuildWeight(l, d)]
    IN  ReconcileFastLaneDefaults([m EXCEPT !.thrash = Defaulted(@, Min({m.capacity, m.build}))], d)

\* What is used without having been loaded: the policy's own capacity decides.
NormalizeWorkLimits(l, cpus) ==
    IF l.capacity <= 0 THEN DefaultWorkLimits(cpus)
    ELSE LET build   == Defaulted(l.build, Max({1, (l.capacity + 2) \div 2}))
             exBuild == Defaulted(l.expressBuild, Min({2, l.capacity}))
         IN  ReconcileFastLaneDefaults(
                [l EXCEPT !.test = Defaulted(@, Max({1, (l.capacity + 2) \div 3})), !.build = build,
                          !.warning = Defaulted(@, Max({1, l.capacity \div 2})),
                          !.expressTest = Defaulted(@, Min({1, l.capacity})), !.expressBuild = exBuild,
                          !.benchmark = Defaulted(@, Max({1, l.capacity - exBuild})),
                          !.install = Defaulted(@, 1), !.reclaim = Defaulted(@, 1),
                          !.thrash = Defaulted(@, Min({l.capacity, build}))],
                DefaultWorkLimits(cpus))

\* Validate, for the limits.
Valid(l) ==
    /\ \A w \in {l.test, l.build, l.expressTest, l.expressBuild, l.emulator, l.browser, l.heavy,
                 l.benchmark, l.reclaim, l.warning, l.thrash} : w \in 1..l.capacity
    /\ l.expressTest < l.test /\ l.expressBuild < l.build
    /\ l.benchmark + l.expressTest <= l.capacity

WeightOf(l, class) ==
    CASE class = "test" -> l.test [] class = "build" -> l.build
      [] class = "express-test" -> l.expressTest [] class = "express-build" -> l.expressBuild
      [] class = "benchmark" -> l.benchmark [] class = "benchmark-exclusive" -> l.capacity
      [] class = "emulator" -> l.emulator [] class = "browser" -> l.browser [] class = "heavy" -> l.heavy
      [] class = "install" -> l.install [] class = "reclaim" -> l.reclaim
------------------------------------------------------------------------------
\* What this release or an earlier one saved on a host: the limits it derived, of which some
\* did not exist yet; the build weight may be an older one still, and the fast lane may be
\* theirs or the operator's.
Later == {"expressTest", "expressBuild", "benchmark", "install", "reclaim", "warning", "thrash", "test"}
Saved(cpus) ==
    UNION {{[f \in DOMAIN d |->
               IF f \in missing THEN 0
               ELSE IF f = "build" THEN build
               ELSE IF f \in {"laneWeight", "laneRuntime", "laneCPU"} THEN lane[1]
               ELSE IF f = "laneRevision" THEN lane[2]
               ELSE IF f = "laneOn" THEN lane[3] ELSE d[f]]
            : missing \in SUBSET Later, build \in {0, d.build, Max({1, (d.capacity * 2 + 2) \div 3})},
              lane \in {<<0, 0, FALSE>>, <<1, 1, FALSE>>, <<1, 2, TRUE>>, <<1, OperatorRevision, TRUE>>, <<1, 0, TRUE>>}}
           : d \in {DefaultWorkLimits(cpus), EarlierWorkLimits(cpus)}}

\* The files of an uncorrected release that still stand for what was corrected: its capacity of
\* hosts of up to four CPUs, below the build weight of today, or its test weight of hosts of up
\* to five, no more than that of an express test.  LoadPolicy completes and does not correct them.
Stranded(saved) == saved.capacity = 2 \/ saved.test = 1

\* Whatever the size of the host and however old the policy file, the limits that are derived are
\* ones Validate accepts; so are those that are loaded, except from exactly the files above, which
\* LoadPolicy refuses; loaded limits do not change when they are saved and loaded
\* again or normalized; and bounds of the fast lane that an operator set stay as they are
\* (defaultWorkLimits, LoadPolicy, normalizeWorkLimits, reconcileFastLaneDefaults).
LimitsSound ==
    \A cpus \in 1..MaxCPUs :
        /\ Valid(DefaultWorkLimits(cpus))
        /\ \A saved \in Saved(cpus) :
              LET l == LoadWorkLimits(saved, cpus)
              IN  /\ Valid(l) <=> ~Stranded(saved)
                  /\ LoadWorkLimits(l, cpus) = l /\ NormalizeWorkLimits(l, cpus) = l
                  /\ saved.laneRevision = OperatorRevision =>
                        /\ l.laneRevision = OperatorRevision /\ l.laneOn = saved.laneOn
                        /\ l.laneWeight = saved.laneWeight /\ l.laneRuntime = saved.laneRuntime
=============================================================================
