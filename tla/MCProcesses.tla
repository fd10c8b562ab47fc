----------------------------- MODULE MCProcesses -----------------------------
(* Calls of one process manager, for TLC. *)
EXTENDS Processes, TLC

CONSTANTS p1, p2

=============================================================================
