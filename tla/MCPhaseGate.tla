----------------------------- MODULE MCPhaseGate ------------------------------
(***************************************************************************)
(* Two orchestrator processes with two slots each for model checking.      *)
(***************************************************************************)
EXTENDS PhaseGate

CONSTANTS p1, p2, s1, s2

MCProc == {p1, p2}
MCSlot == {s1, s2}

===============================================================================
