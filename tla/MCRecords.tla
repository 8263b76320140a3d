------------------------------- MODULE MCRecords -------------------------------
(***************************************************************************)
(* Two slots, two cores to begin with and two designs: one improves a      *)
(* single core, the other improves both cores and the first design.        *)
(***************************************************************************)
EXTENDS Records

MCCores == {[perf |-> 2, lut |-> 3], [perf |-> 4, lut |-> 3]}
MCTwo   == {[perf |-> 3, lut |-> 3], [perf |-> 5, lut |-> 4]}
===============================================================================
