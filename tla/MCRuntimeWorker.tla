--------------------------- MODULE MCRuntimeWorker ---------------------------
(* The worker with one or two jobs; the structure job writes the evidence     *)
(* that retention has to spare.                                               *)
EXTENDS RuntimeWorker, TLC

CONSTANTS jobA, jobB

MCInterval == [j \in Jobs |-> 1]
MCInitialDelay == [j \in Jobs |-> IF j = jobA THEN 0 ELSE 1]
MCKind == [j \in Jobs |-> IF j = jobA THEN "STRUCTURE" ELSE "EXECUTION"]
MCCallers == {supervisor}
==============================================================================
