-------------------------- MODULE MCControlServer --------------------------
(* Small instance of ControlServer: a process and a browser, one typed       *)
(* command, two approval requests, two passes.                               *)
EXTENDS ControlServer, TLC

MCKind == [r \in Resources |-> IF r = "proc" THEN 1 ELSE 2]

\* Passes against claims; the rollout by graduation and by two typed verbs; approvals
\* against a typed verb, and against a graduation.
MCBudgets == {[claims |-> 2, verbs |-> 0, previews |-> 0, passes |-> 2, ticks |-> 2, deaths |-> 0],
              [claims |-> 1, verbs |-> 0, previews |-> 0, passes |-> 3, ticks |-> 3, deaths |-> 0],
              [claims |-> 1, verbs |-> 2, previews |-> 0, passes |-> 1, ticks |-> 3, deaths |-> 0],
              [claims |-> 0, verbs |-> 1, previews |-> 2, passes |-> 0, ticks |-> 1, deaths |-> 1],
              [claims |-> 0, verbs |-> 0, previews |-> 2, passes |-> 1, ticks |-> 1, deaths |-> 1]}

MCSymmetry == Permutations(Requests) \cup Permutations(Previews) \cup Permutations(Passes) \cup Permutations(ClaimIds)
============================================================================
