--------------------------- MODULE MCCloudMirror ---------------------------
(***************************************************************************)
(* Instances of CloudMirror for TLC.                                       *)
(***************************************************************************)
EXTENDS CloudMirror, TLC

\* Calls are interchangeable, and so are runs.
Symmetric == Permutations(Run) \cup Permutations(Task)
=============================================================================
