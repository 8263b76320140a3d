----------------------------- MODULE MCTournament -----------------------------
(***************************************************************************)
(* Two slots and a handful of designs for model checking Tournament.       *)
(* MCDesigns holds one design that only adds fitness and one that only     *)
(* saves LUTs.                                                             *)
(***************************************************************************)
EXTENDS Tournament

MCInitial == {[perf |-> 2, lut |-> 3]}
MCDesigns == {[perf |-> 3, lut |-> 3], [perf |-> 2, lut |-> 2]}
MCFew     == {[perf |-> 3, lut |-> 3], [perf |-> 4, lut |-> 4]}

===============================================================================
