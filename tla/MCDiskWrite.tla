---------------------------- MODULE MCDiskWrite ----------------------------
(* The disk-write watch: in scene "bytes" the counters, the rows and the crashes vary, in  *)
(* scene "alerts" the verdicts, the bursts and the saves of the alert state; "incidents"   *)
(* lasts long enough for a second incident and its recovery.                               *)
EXTENDS DiskWrite

HourLengths == [s \in Scenes |-> IF s = "bytes" THEN 2 ELSE 20]
MCDeltas == [s \in Scenes |-> CASE s = "bytes" -> {1} [] s = "alerts" -> {0, 3} [] s = "incidents" -> {0}]
MCMaxTime == [s \in Scenes |-> CASE s = "bytes" -> 5 [] s = "alerts" -> 4 [] s = "incidents" -> 7]
MCMaxStops == [s \in Scenes |-> CASE s = "bytes" -> 2 [] s = "alerts" -> 1 [] s = "incidents" -> 0]
MCMaxFaults == [s \in Scenes |-> IF s = "incidents" THEN 0 ELSE 1]
MCMaxResets == [s \in Scenes |-> IF s = "bytes" THEN 1 ELSE 0]
============================================================================
