----------------------------- MODULE MCEvaluation ------------------------------
(***************************************************************************)
(* Three seeds over three frequencies, two traced programs, a slot and a   *)
(* baseline retest, good and bad values for nret.                          *)
(***************************************************************************)
EXTENDS Evaluation

MCCaller == {"slot", "retest"}
MCNrets == {"1", "other"}
===============================================================================
