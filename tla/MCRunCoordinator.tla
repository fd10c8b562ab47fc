-------------------------- MODULE MCRunCoordinator --------------------------
(***************************************************************************)
(* Small instances of RunCoordinator for TLC.  The .cfg files choose the   *)
(* deployment; the sets are model values given there.                      *)
(***************************************************************************)
EXTENDS RunCoordinator, TLC

\* Runs and processes are interchangeable as long as no process is singled
\* out as reliable; used only by runs without liveness properties.
Symmetry == Permutations(Run) \cup Permutations(Process)

\* Only the runs, where one process is reliable and another is not.
RunSymmetry == Permutations(Run)
=============================================================================
