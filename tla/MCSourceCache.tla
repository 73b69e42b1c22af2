---------------------------- MODULE MCSourceCache ----------------------------
(* Two clients, so that misses race, over enough time for entries to expire   *)
(* and for the window to slide.                                               *)
EXTENDS SourceCache, TLC

ClientSymmetry == Permutations(Clients)
==============================================================================
