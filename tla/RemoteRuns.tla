----------------------------- MODULE RemoteRuns -----------------------------
(***************************************************************************)
(* What the run coordinator promises about remote runs, whatever           *)
(* processes, leases and workspaces it takes to keep the promise:          *)
(*                                                                         *)
(*  - at most one process drives a run at a time                           *)
(*    (apps/coordinator/src/coordinator.ts:19-21);                         *)
(*  - once a run has been let go in a terminal status nobody drives it     *)
(*    again (src/cloud/coordinator/store.ts:58), and the only thing that   *)
(*    may still happen to its status is that a person's cancellation       *)
(*    replaces it.                                                         *)
(*                                                                         *)
(* RunCoordinator implements this module.                                  *)
(***************************************************************************)
CONSTANTS
    Process,        \* the processes that may drive runs
    Run,            \* the runs
    NoProcess       \* stands for "nobody"

VARIABLES
    driver,         \* the process that drives a run, or NoProcess
    outcome         \* "open", or the terminal status a run was let go in

Outcome == {"open", "DONE", "FAILED", "CANCELLED", "NEEDS_HUMAN"}

Init ==
    /\ driver = [r \in Run |-> NoProcess]
    /\ outcome = [r \in Run |-> "open"]

\* A process takes an open run that nobody drives.
Take(p, r) ==
    /\ driver[r] = NoProcess
    /\ outcome[r] = "open"
    /\ driver' = [driver EXCEPT ![r] = p]
    /\ UNCHANGED outcome

\* A process lets some of its runs go: finished, or still open because the
\* process stopped or died before the run ended.
LetGo(p, S) ==
    /\ \A r \in S : driver[r] = p
    /\ driver' = [r \in Run |-> IF r \in S THEN NoProcess ELSE driver[r]]
    /\ outcome' \in [Run -> Outcome]
    /\ \A r \in Run \ S : outcome'[r] = outcome[r]

\* A person cancels a run that nobody drives.
Withdraw(r) ==
    /\ driver[r] = NoProcess
    /\ outcome' = [outcome EXCEPT ![r] = "CANCELLED"]
    /\ UNCHANGED driver

Next ==
    \/ \E p \in Process, r \in Run : Take(p, r)
    \/ \E p \in Process, S \in SUBSET Run : LetGo(p, S)
    \/ \E r \in Run : Withdraw(r)

Spec == Init /\ [][Next]_<<driver, outcome>>
=============================================================================
