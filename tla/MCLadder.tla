------------------------------- MODULE MCLadder -------------------------------
(***************************************************************************)
(* Small designs on both sides of each target for model checking Ladder.   *)
(***************************************************************************)
EXTENDS Ladder

MCDesigns == [perf : 1..4, lut : 1..4]
MCInitial == [perf : 0..3, lut : (2..4) \cup {None}]

===============================================================================
