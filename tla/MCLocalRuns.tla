---------------------------- MODULE MCLocalRuns ----------------------------
(***************************************************************************)
(* Instances of LocalRuns for TLC.                                         *)
(***************************************************************************)
EXTENDS LocalRuns, TLC

\* Runs, workers and questions are interchangeable: nothing in LocalRuns
\* compares them.
Symmetric == Permutations(Run) \cup Permutations(Worker) \cup Permutations(Question)
=============================================================================
