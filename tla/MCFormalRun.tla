------------------------------ MODULE MCFormalRun ------------------------------
(***************************************************************************)
(* One evaluation beside two self-checks, over two PIDs.  Agents are       *)
(* sandboxed and evaluations have a riscv-formal of their own, or neither. *)
(***************************************************************************)
EXTENDS FormalRun

MCSetups == {[sandboxed |-> TRUE, copy |-> TRUE],
             [sandboxed |-> FALSE, copy |-> FALSE]}
MCNrets == {"none", "other"}
===============================================================================
