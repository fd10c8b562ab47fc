---------------------------- MODULE MCWorkspaces ----------------------------
(***************************************************************************)
(* The instance of Workspaces for TLC: a folder with two spellings, another  *)
(* on a drive that can be taken away, one repository.                        *)
(***************************************************************************)
EXTENDS Workspaces, TLC

CONSTANTS home, link, drive

Spellings == {home, link, drive}
Resolve == [p \in Spellings |-> IF p = link THEN home ELSE p]
Calls == Permutations(Call)
=============================================================================
