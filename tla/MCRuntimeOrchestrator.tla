---------------------- MODULE MCRuntimeOrchestrator ----------------------
(***************************************************************************)
(* Two jobs of different cadence and kind, so that gathers overlap in      *)
(* every way.                                                              *)
(***************************************************************************)
EXTENDS RuntimeOrchestrator

CONSTANTS jobA, jobB

MCInterval == [j \in Jobs |-> IF j = jobA THEN 1 ELSE 2]
MCInitialDelay == [j \in Jobs |-> IF j = jobA THEN 0 ELSE 1]
MCKind == [j \in Jobs |-> IF j = jobA THEN "EXECUTION" ELSE "STRUCTURE"]
===========================================================================
