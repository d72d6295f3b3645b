---------------------------- MODULE MCWorkReuse -----------------------------
(* A build with a declared output, one without that writes the same file, a make *)
(* target and a batch of two steps; beside them, the bounds of the inputs that are *)
(* classified.  Which class a command has and what the class weighs is decided before *)
(* the request does anything, so those two properties are evaluated there. *)
EXTENDS WorkReuse, WorkClassify
CONSTANTS p1, p2, p3, goBuild, plain, make, batch
MCSteps == [c \in Commands |-> IF c = batch THEN 2 ELSE 1]
MCAsked == {[p \in Requests |-> IF p = p1 THEN plain ELSE goBuild],
            [p \in Requests |-> IF p = p1 THEN goBuild ELSE make],
            [p \in Requests |-> IF p = p3 THEN make ELSE batch]}

\* One of the initial states is enough: the inputs of the two are not part of the state.
Untouched == edits = 0 /\ meddled = 0 /\ \A p \in Requests : at[p] = "new" /\ cmd[p] # make

\* The two scanners of a statement find the same command; a go command is classed express only
\* for what go takes as one package at most, but for a build with "--"; a script is not classed
\* lighter than its commands, but for a benchmark on a host of up to six CPUs
\* (ClassifyWorkStatement, ClassifyGoWorkArgv, ResolveWorkClass): ClassifySound.
ClassesSound == Untouched => ClassifySound

\* The limits of every host pass Validate, and so do those loaded from a file of this release or
\* an earlier one, but for files that still have the limits once derived for hosts of up to five
\* CPUs; loading does not change them again (defaultWorkLimits, LoadPolicy): LimitsSound.
WeightsSound == Untouched => LimitsSound
====
