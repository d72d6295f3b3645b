----------------------------- MODULE WeightedPool ----------------------------
(***************************************************************************)
(* What the work coordinator promises: a pool of Capacity units that its   *)
(* members share by weight.                                                *)
(*                                                                         *)
(* In one step any members may leave (their processes were found dead, or  *)
(* they released) and at most one enters, weighed against everything that  *)
(* is still charged after the leaving.  An express member may go over the  *)
(* capacity by Overcommit.  A member that is parked is charged nothing and *)
(* is never refused when it wakes: that is the only way past the limits.   *)
(* Queues, processes, promotions and derated ceilings do not exist here.   *)
(***************************************************************************)
EXTENDS Integers, FiniteSets

CONSTANTS Members, Weight, Express, Capacity, Overcommit

VARIABLE share   \* of each member: "none", "charged", "parked" or "woken"

Inside(s)  == {m \in Members : s[m] # "none"}
Charged(s) == {m \in Members : s[m] \in {"charged", "woken"}}
Load(S)    == Cardinality({u \in S \X (1..Capacity) : u[2] <= Weight[u[1]]})

Without(gone) == LET s == share IN [m \in Members |-> IF m \in gone THEN "none" ELSE s[m]]
Limit(m) == IF m \in Express THEN Capacity + Overcommit ELSE Capacity

Init == share = [m \in Members |-> "none"]

Leave(gone) == share' = Without(gone)
Enter(m, gone) ==
    /\ share[m] = "none"
    /\ Load(Charged(Without(gone))) + Weight[m] <= Limit(m)
    /\ share' = [Without(gone) EXCEPT ![m] = "charged"]
Park(m, gone) ==
    /\ m \in Charged(share) \ gone
    /\ share' = [Without(gone) EXCEPT ![m] = "parked"]
Wake(m, gone) ==
    /\ share[m] = "parked" /\ m \notin gone
    /\ share' = [Without(gone) EXCEPT ![m] = "woken"]

Next ==
    \E gone \in SUBSET Inside(share) :
        \/ Leave(gone)
        \/ \E m \in Members : Enter(m, gone) \/ Park(m, gone) \/ Wake(m, gone)

Spec == Init /\ [][Next]_share
=============================================================================
