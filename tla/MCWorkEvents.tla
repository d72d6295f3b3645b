---------------------------- MODULE MCWorkEvents ----------------------------
(* Two operations with different faults, so that each meets the other's. *)
EXTENDS WorkEvents
CONSTANTS o1, o2
MCLeases == [o \in Ops |-> IF o = o1 THEN 2 ELSE 1]
MCEndings == [o \in Ops |-> IF o = o1 THEN {"timeout"} ELSE {}]
MCExits == [o \in Ops |-> IF o = o1 THEN {"completed"} ELSE {"interrupt"}]
====
