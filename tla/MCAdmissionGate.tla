--------------------------- MODULE MCAdmissionGate ---------------------------
(***************************************************************************)
(* Two wrappers at the gate, for TLC.  The views they have of the host are *)
(* decisions of HostAdmission, which is looked at once, in the initial     *)
(* state: its inputs are not part of the state.                            *)
(***************************************************************************)
EXTENDS AdmissionGate, HostAdmission, TLC

CONSTANTS w1, w2

\* Every call fails for one of the two, and none for both.
MCSomeFail == [c \in {"observe", "hold"} |-> {w1}] @@ ("release" :> {w2})
MCNoneFail == [c \in {"observe", "hold", "release"} |-> {}]
\* No sample is decided on more leniently than one that is better in every respect, and none
\* refuses work without cause (AdmissionForWorkSnapshot, ConfiguredAgentLaunchAdmission):
\* HostAdmissionSound.
DecisionsSound == Init => HostAdmissionSound
=============================================================================
