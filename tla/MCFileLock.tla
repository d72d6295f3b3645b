----------------------------- MODULE MCFileLock -----------------------------
(***************************************************************************)
(* Callers of two processes, p and q, for TLC.                             *)
(***************************************************************************)
EXTENDS FileLock, TLC

CONSTANTS p, q, t1, t2, t3, u1

MCProc == [t \in Threads |-> IF t = u1 THEN q ELSE p]
=============================================================================
