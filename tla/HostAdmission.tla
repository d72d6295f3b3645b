---------------------------- MODULE HostAdmission ----------------------------
(***************************************************************************)
(* What a sample of the host allows: the ladder of levels (evaluate in     *)
(* sessionpressure/types.go), the controller that adds its floors          *)
(* (controller.go), and the decisions made from both for heavy work, for   *)
(* agent launches and for the displays that show them (admission.go).      *)
(*                                                                         *)
(* All of it is pure, the module has no variables.  A measurement is the   *)
(* rung of the ladder its thresholds put it on: 0 normal, 1 warning, 2 red,*)
(* 3 critical.  What the resident itself consumes, wording and the numbers *)
(* shown beside a decision are left out.                                   *)
(***************************************************************************)
EXTENDS Integers

Levels == 0..3
Worse(a, b) == IF b > a THEN b ELSE a

(***************************************************************************)
(* evaluate.  Swap that was used stays used: it only adds to pressure that *)
(* is live, by one rung.  Traffic and the processors never get past red.   *)
(***************************************************************************)
Live(e) == Worse(e.free, e.agents)
EvaluateMemoryPressure(e) ==
    CASE e.swap = 3 /\ Live(e) >= 2  -> 3
      [] e.swap >= 2 /\ Live(e) = 1  -> 2
      [] OTHER                       -> Live(e)
Evaluate(e) ==
    Worse(EvaluateMemoryPressure(e), Worse(IF e.swapOut THEN 1 ELSE 0, e.cpu))

(***************************************************************************)
(* ClassifyController.                                                     *)
(***************************************************************************)
\* Mutant: one red sample is enough.
StressAtOnce(e) == e.cpuKnown /\ e.cpu = 2
CPUStress(e) == e.cpuKnown /\ e.cpu = 2 /\ e.confirmed # "no"

ClassifyController(e, p) ==
    LET memory == EvaluateMemoryPressure(e)
    IN  [blockWork   |-> memory >= p.blockNewAt \/ memory = 3 \/ CPUStress(e) \/ e.thermal # "nominal",
         blockLaunch |-> memory >= p.blockNewAt \/ e.thermal = "critical",
         dimension   |-> CASE memory = 3                 -> "memory"
                           [] e.thermal = "critical"     -> "thermal"
                           [] memory >= p.blockNewAt     -> "memory"
                           [] CPUStress(e)               -> "cpu"
                           [] e.thermal = "serious"      -> "thermal"
                           [] OTHER                      -> ""]

(***************************************************************************)
(* Decisions from one sample.                                              *)
(***************************************************************************)
Observed == [allowed |-> TRUE, level |-> 0, dimension |-> ""]

Dimension(e) ==
    CASE Evaluate(e) = 0                -> ""
      [] EvaluateMemoryPressure(e) >= 1 -> "memory"
      [] e.swapOut /\ e.cpu = 0         -> "swap"
      [] OTHER                          -> "cpu"

AdmissionForSnapshot(e, p) ==
    LET level == Evaluate(e)
        c     == ClassifyController(e, p)
    IN  IF p.enforce /\ c.blockWork /\ level < p.blockNewAt
        THEN [allowed |-> FALSE, level |-> Worse(level, 2), dimension |-> c.dimension]
        ELSE [allowed |-> ~p.enforce \/ level < p.blockNewAt, level |-> level, dimension |-> Dimension(e)]

\* A red processor that nothing confirms does not stop work.
AdmissionForWorkSnapshot(e, p) ==
    LET a == AdmissionForSnapshot(e, p)
    IN  IF /\ p.enforce /\ ~a.allowed /\ a.level >= p.blockNewAt /\ a.dimension = "cpu"
           /\ EvaluateMemoryPressure(e) < p.blockNewAt /\ ~ClassifyController(e, p).blockWork
        THEN [a EXCEPT !.allowed = TRUE] ELSE a

AdmissionForAgentLaunchSnapshot(e, p) ==
    LET memory == EvaluateMemoryPressure(e)
        c      == ClassifyController(e, p)
    IN  IF p.enforce /\ c.blockLaunch
        THEN [allowed |-> FALSE, dimension |-> c.dimension,
              level   |-> IF e.thermal = "critical" \/ memory = 3 THEN 3 ELSE memory]
        ELSE [allowed |-> ~p.enforce \/ memory < p.blockNewAt, dimension |-> "", level |-> memory]

(***************************************************************************)
(* Decisions from what is at hand: the resident's sample while it is fresh,*)
(* else a probe, else none.  A host is [resident, fresh, inventory, live]; *)
(* live is a set, empty if the probe fails.                                *)
(***************************************************************************)
\* sanitizeResidentFallback: without a fresh inventory nothing is said of the agents.
SanitizeResidentFallback(h) == IF h.inventory THEN h.resident ELSE [h.resident EXCEPT !.agents = 0]

InForce(p) == p.file = "saved" /\ p.enabled /\ p.enforce
\* configuredAdmission, for both of the kinds of decision.
ConfiguredWorkHostAdmission(h, p) ==
    IF ~InForce(p) THEN {Observed}
    ELSE IF h.fresh THEN {AdmissionForWorkSnapshot(SanitizeResidentFallback(h), p)}
    ELSE IF h.live = {} THEN {Observed} ELSE {AdmissionForWorkSnapshot(e, p) : e \in h.live}
ConfiguredHostAdmission(h, p) ==
    IF ~InForce(p) THEN {Observed}
    ELSE IF h.fresh THEN {AdmissionForAgentLaunchSnapshot(SanitizeResidentFallback(h), p)}
    ELSE IF h.live = {} THEN {Observed} ELSE {AdmissionForAgentLaunchSnapshot(e, p) : e \in h.live}

\* A queue that is empty while the host is normal is never saturated.
SoftLaunchNoiseSuppressed(level, q) == level = 0 /\ q.depth = 0

AgentLaunchAdmissionForQueue(a, p, q, kind) ==
    IF ~q.saturated \/ SoftLaunchNoiseSuppressed(a.level, q) THEN a
    ELSE LET queued == [a EXCEPT !.dimension = "work_queue"]
         IN  IF ~p.enforce
             THEN [queued EXCEPT !.level = IF @ # 0 THEN Worse(@, 2) ELSE @]
             ELSE IF a.allowed /\ a.level < 2 THEN queued
             ELSE [queued EXCEPT !.level = Worse(@, 2),
                                 !.allowed = @ /\ kind = "resume" /\ p.resumeWarns]

\* The launch gate.  An unknown queue does not stop a launch.
ConfiguredAgentLaunchAdmission(h, p, q, kind) ==
    {IF /\ a.allowed /\ kind # "unknown" /\ p.file = "saved"
        /\ p.enabled /\ p.launchMode # "off" /\ q.known
     THEN AgentLaunchAdmissionForQueue(a, p, q, kind) ELSE a
     : a \in ConfiguredHostAdmission(h, p)}

\* What a display shows of it, from the sample it already has.
AgentLaunchAdmissionFromSnapshot(e, p, q, kind) ==
    LET a == AdmissionForAgentLaunchSnapshot(e, p)
    IN  IF ~InForce(p) THEN Observed
        ELSE IF ~a.allowed \/ kind = "unknown" \/ p.launchMode = "off" THEN a
        ELSE AgentLaunchAdmissionForQueue(a, p, q, kind)
------------------------------------------------------------------------------
(***************************************************************************)
(* The inputs looked at.                                                   *)
(***************************************************************************)
Evidence ==
    [free: Levels, agents: Levels, swap: Levels, swapOut: BOOLEAN, cpu: 0..2, cpuKnown: BOOLEAN,
     confirmed: {"no", "rolling", "sustained"}, thermal: {"nominal", "serious", "critical"}]
Calm == [free |-> 0, agents |-> 0, swap |-> 0, swapOut |-> FALSE, cpu |-> 0, cpuKnown |-> TRUE,
         confirmed |-> "no", thermal |-> "nominal"]
Rough == {[Calm EXCEPT !.free = f, !.agents = a, !.cpu = c, !.confirmed = "rolling", !.thermal = t]
          : f \in Levels, a \in Levels, c \in {0, 2}, t \in {"nominal", "critical"}}

Enforced == {[file |-> "saved", enabled |-> TRUE, enforce |-> TRUE, blockNewAt |-> b,
              launchMode |-> "soft", resumeWarns |-> w] : b \in {2, 3}, w \in BOOLEAN}
Policies == Enforced \cup
    UNION {{[p EXCEPT !.file = "none"], [p EXCEPT !.file = "broken"], [p EXCEPT !.enabled = FALSE],
            [p EXCEPT !.enforce = FALSE], [p EXCEPT !.launchMode = "off"]} : p \in Enforced}
Queues == [known: BOOLEAN, depth: {0, 1}, saturated: BOOLEAN]
Kinds  == {"new", "resume", "unknown"}

\* One measurement a rung worse, or confirmed.
Step(n, most) == IF n < most THEN n + 1 ELSE n
Worsenings(e) ==
    {[e EXCEPT !.free = Step(@, 3)], [e EXCEPT !.agents = Step(@, 3)], [e EXCEPT !.swap = Step(@, 3)],
     [e EXCEPT !.swapOut = TRUE], [e EXCEPT !.cpu = Step(@, 2)],
     [e EXCEPT !.confirmed = IF @ = "no" THEN "rolling" ELSE @],
     [e EXCEPT !.thermal = IF @ = "nominal" THEN "serious" ELSE "critical"]}

\* A host that gets worse is never let do more.
WorseNeverAllows ==
    \A e \in Evidence, b \in {2, 3} :
        LET p == [file |-> "saved", enabled |-> TRUE, enforce |-> TRUE, blockNewAt |-> b,
                  launchMode |-> "soft", resumeWarns |-> TRUE]
        IN  \A w \in Worsenings(e) :
              /\ AdmissionForWorkSnapshot(w, p).allowed => AdmissionForWorkSnapshot(e, p).allowed
              /\ AdmissionForAgentLaunchSnapshot(w, p).allowed => AdmissionForAgentLaunchSnapshot(e, p).allowed

\* Work is refused for memory, for heat, or for a red processor that a second measurement
\* confirms; one red sample of the processor refuses it only together with short memory.
WorkRefusedForCause ==
    \A e \in Evidence, p \in Enforced :
        ~AdmissionForWorkSnapshot(e, p).allowed =>
            \/ EvaluateMemoryPressure(e) >= p.blockNewAt \/ EvaluateMemoryPressure(e) = 3
            \/ e.thermal # "nominal"
            \/ e.cpu = 2 /\ e.cpuKnown /\ e.confirmed # "no"
            \/ e.cpu = 2 /\ EvaluateMemoryPressure(e) >= 1

\* Neither the processors nor swap traffic nor old swap change what a launch is told; swap
\* adds at most a rung to memory pressure that is live.
LaunchesFollowMemory ==
    \A e \in Evidence, p \in Enforced :
        LET bare == [Calm EXCEPT !.free = e.free, !.agents = e.agents, !.swap = e.swap]
        IN  /\ e.thermal # "critical" =>
                  AdmissionForAgentLaunchSnapshot(e, p) = AdmissionForAgentLaunchSnapshot(bare, p)
            /\ EvaluateMemoryPressure(e) \in Live(e)..(IF Live(e) = 0 THEN 0 ELSE Step(Live(e), 3))

\* Free memory that is red in a fresh sample of the resident refuses work and every kind of
\* launch, whatever a probe would find, the inventory lacks or the queue holds; and a display
\* of that sample says what the gate would do, or refuses more while the inventory is stale.
ResidentEvidenceKept ==
    \A e \in Rough, inventory \in BOOLEAN, p \in Policies :
        LET h == [resident |-> e, fresh |-> TRUE, inventory |-> inventory, live |-> {Calm}]
        IN  /\ InForce(p) /\ e.free >= p.blockNewAt =>
                  \A a \in ConfiguredWorkHostAdmission(h, p) : ~a.allowed
            /\ \A q \in Queues, kind \in Kinds :
                  \A gate \in ConfiguredAgentLaunchAdmission(h, p, q, kind) :
                      LET shown == AgentLaunchAdmissionFromSnapshot(e, p, q, kind)
                      IN  /\ InForce(p) /\ e.free >= p.blockNewAt => ~gate.allowed
                          /\ q.known => (shown.allowed => gate.allowed)
                          /\ q.known /\ inventory => shown.allowed = gate.allowed /\ shown.level = gate.level
\* What is decided from a sample can be relied on: the four together.
HostAdmissionSound ==
    WorseNeverAllows /\ WorkRefusedForCause /\ LaunchesFollowMemory /\ ResidentEvidenceKept
=============================================================================
