----------------------------- MODULE MCResident -----------------------------
(***************************************************************************)
(* A resident on a small host, for TLC: under memory pressure it may end   *)
(* twice, in a storm, which needs more samples, once.                      *)
(***************************************************************************)
EXTENDS Resident

MCMaxTime  == [s \in Scenes |-> IF s = "storm" THEN 6 ELSE 5]
MCMaxStops == [s \in Scenes |-> IF s = "relief" THEN 2 ELSE 1]
=============================================================================
