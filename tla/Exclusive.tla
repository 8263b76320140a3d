------------------------------ MODULE Exclusive -------------------------------
(***************************************************************************)
(* The promise of a machine-locked phase: at any time at most one of the   *)
(* threads of all the orchestrator processes of a host is running it.      *)
(***************************************************************************)

CONSTANT Thread

VARIABLE active    \* the threads now running the phase

Init == active = {}

Enter == active = {} /\ \E t \in Thread : active' = {t}

Leave == active # {} /\ active' = {}

Next == Enter \/ Leave

Spec == Init /\ [][Next]_active

===============================================================================
