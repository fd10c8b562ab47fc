--------------------------- MODULE RunCoordinator ---------------------------
(***************************************************************************)
(* The run coordinator (apps/coordinator/src/coordinator.ts) with the      *)
(* durable store it shares with the other coordinator processes            *)
(* (src/cloud/coordinator/store.ts), the containers it provisions          *)
(* (src/cloud/container-provisioner.ts) and the reaper of abandoned        *)
(* workspaces (apps/coordinator/src/reaper.ts).                            *)
(*                                                                         *)
(* A member of Process is one incarnation of a coordinator: a restart is   *)
(* another member, because the lease owner is a fresh random id per        *)
(* process (coordinator.ts:226).  An incarnation drives a run at most      *)
(* once - it submits a run once and recovers once, when it starts - so the *)
(* cloud workspace a drive creates is named by the pair (process, run).    *)
(*                                                                         *)
(* Grain: one action is the code between two awaits of one process.  Two   *)
(* synchronous stretches are cut where the statements of another process   *)
(* can fall between them: the quota check and the insertion of a run, and  *)
(* the listing of the abandoned runs and the driving of each.              *)
(*                                                                         *)
(* The event log is not modelled here: it never steers the coordinator.    *)
(***************************************************************************)
EXTENDS Naturals, FiniteSets

CONSTANTS
    Process,            \* incarnations of the coordinator process
    Run,                \* ids of remote runs
    Principal,          \* who submits runs
    Key,                \* idempotency keys
    NoKey,              \* a submission without a key
    NoProcess,          \* stands for "no process"
    MaxConcurrentRuns,  \* the quota of one principal
    \* The deployment and the environment:
    Reliable,           \* the processes that neither crash nor are shut down
    CrashPoints,        \* the phases of its drives in which a process may die
    Reapers,            \* the processes whose reaper is watched
    Overlap,            \* several processes may be up at once
    PromptRestart,      \* a process may start before old leases have lapsed
    Timely,             \* timers fire in time: no process stalls for a TTL
    ReleaseMayFail      \* the container runtime may fail to remove a container

ASSUME CoordinatorAssumption ==
    /\ NoProcess \notin Process
    /\ NoKey \notin Key
    /\ MaxConcurrentRuns \in Nat \ {0}
    /\ Reliable \subseteq Process
    /\ Reapers \subseteq Process
    /\ {Overlap, PromptRestart, Timely, ReleaseMayFail} \subseteq BOOLEAN

VARIABLES
    \* The store (SQLite), shared by all processes
    status,         \* remote_runs.status, "ABSENT" while there is no row
    submission,     \* the principal and the key the run was created with
    workspaceOf,    \* remote_runs.cloud_workspace_id: who made the workspace
    lease,          \* run_leases.owner
    leaseLive,      \* run_leases.expires_at is in the future
    rowStatus,      \* cloud_workspaces.status
    handle,         \* cloud_workspaces.handle is set
    expired,        \* cloud_workspaces.expires_at has passed
    \* The container runtime
    container,      \* the container of a workspace
    \* The memory of each process
    proc,           \* the process itself
    asked,          \* a submission past its quota check
    todo,           \* runs the synchronous block under way is about to drive
    phase,          \* where the drive of a run is waiting
    result,         \* the status the loop of a drive ended with
    sweep,          \* the rows the reaper's sweep has yet to look at
    reclaiming,     \* the row (if any) whose container it is having removed
    \* History
    cancelAsked     \* a person has asked for this run to be cancelled

store == <<status, submission, workspaceOf, lease, leaseLive>>
workspaces == <<rowStatus, handle, expired, container>>
memory == <<proc, asked, todo, phase, result, sweep, reclaiming>>
vars == <<store, workspaces, memory, cancelAsked>>

TERMINAL == {"DONE", "FAILED", "CANCELLED", "NEEDS_HUMAN"}
Active == {"QUEUED", "PROVISIONING", "RUNNING"}
Status == {"ABSENT"} \cup Active \cup TERMINAL

\* The statuses the loop's own run can stop in (repositories.ts:1559).
LoopStatus == {"DONE", "PARTIAL", "FAILED", "CANCELLED", "BLOCKED", "NEEDS_HUMAN"}

\* Translates the loop's vocabulary into the coordinator's; what the table
\* does not name becomes FAILED.
RemoteStatus(s) ==
    CASE s \in {"DONE", "FAILED", "CANCELLED"} -> s
      [] s = "BLOCKED" -> "NEEDS_HUMAN"
      [] OTHER -> "FAILED"

\* A drive is renewing its lease in these phases ("closing" stopped renewing).
Renewing == {"provisioning", "signingIn", "looping", "publishing"}
Phase == {"none", "closing"} \cup Renewing

Submission == [by : Principal, key : Key \cup {NoKey}]
NoSubmission == [by |-> NoProcess, key |-> NoKey]

Item == [maker : Process, run : Run, handle : BOOLEAN,
         cause : {"expired", "finished"}]

-----------------------------------------------------------------------------
(* Questions the store answers                                             *)

\* Mutant: a finished run no longer answers for its key.
RunsOfKeyWhileActive(s) ==
    {r \in Run : s.key # NoKey /\ submission[r] = s /\ status[r] \in Active}

\* The run an idempotency key of a principal already produced.
RunsOfKey(s) == {r \in Run : s.key # NoKey /\ submission[r] = s}

\* Mutant: only the runs whose loop has started hold a place in the quota.
activeRunCountStarted(principal) ==
    Cardinality({r \in Run : submission[r].by = principal /\ status[r] = "RUNNING"})

activeRunCount(principal) ==
    Cardinality({r \in Run : submission[r].by = principal /\ status[r] \in Active})

\* Mutant: a run that was left half-provisioned is not recovered.
listAbandonedStarted ==
    {r \in Run : status[r] = "RUNNING" /\ (lease[r] = NoProcess \/ ~leaseLive[r])}

\* Mutant: the query knows the loop's terminal statuses, not NEEDS_HUMAN.
listAbandonedOrWaiting ==
    {r \in Run : /\ status[r] \in Active \cup {"NEEDS_HUMAN"}
                 /\ lease[r] = NoProcess \/ ~leaseLive[r]}

listAbandoned ==
    {r \in Run : status[r] \in Active /\ (lease[r] = NoProcess \/ ~leaseLive[r])}

LiveRow(p, r) == rowStatus[p][r] \in {"provisioning", "ready"}

(* Questions about a process                                               *)

Alive(p) == proc[p] \in {"up", "stopping"}

\* The event loop of p is inside a synchronous block: a submission, a series
\* of drives to start, or a sweep that is not waiting for a container.
Busy(p) ==
    \/ asked[p] # NoSubmission
    \/ todo[p] # {}
    \/ sweep[p] # {} /\ reclaiming[p] = {}

\* A synchronous block is short: in a timely world nothing a process awaits
\* arrives while one is under way.
Answer(p) == ~Busy(p) /\ (Timely => \A q \in Process : ~Busy(q))

Drives(p, r) == phase[p][r] \in Renewing

(* What the container runtime does when it is asked to remove a container  *)
Removal(c) ==
    IF c # "running" THEN {c}
    ELSE {"removed"} \cup (IF ReleaseMayFail THEN {"running"} ELSE {})

-----------------------------------------------------------------------------
Init ==
    /\ status = [r \in Run |-> "ABSENT"]
    /\ submission = [r \in Run |-> NoSubmission]
    /\ workspaceOf = [r \in Run |-> NoProcess]
    /\ lease = [r \in Run |-> NoProcess]
    /\ leaseLive = [r \in Run |-> FALSE]
    /\ rowStatus = [p \in Process |-> [r \in Run |-> "none"]]
    /\ handle = [p \in Process |-> [r \in Run |-> FALSE]]
    /\ expired = [p \in Process |-> [r \in Run |-> FALSE]]
    /\ container = [p \in Process |-> [r \in Run |-> "none"]]
    /\ proc = [p \in Process |-> "off"]
    /\ asked = [p \in Process |-> NoSubmission]
    /\ todo = [p \in Process |-> {}]
    /\ phase = [p \in Process |-> [r \in Run |-> "none"]]
    /\ result = [p \in Process |-> [r \in Run |-> "none"]]
    /\ sweep = [p \in Process |-> {}]
    /\ reclaiming = [p \in Process |-> {}]
    /\ cancelAsked = [r \in Run |-> FALSE]

-----------------------------------------------------------------------------
(* The life of a process                                                   *)

\* main: the reaper starts, and recover() lists the abandoned runs.
Start(p) ==
    /\ proc[p] = "off"
    /\ Overlap \/ \A q \in Process : ~Alive(q)
    /\ PromptRestart \/ \A r \in Run : ~leaseLive[r]
    /\ proc' = [proc EXCEPT ![p] = "up"]
    /\ todo' = [todo EXCEPT ![p] = listAbandoned]
    /\ UNCHANGED <<store, workspaces, asked, phase, result, sweep, reclaiming, cancelAsked>>

\* shutdown: stops new drives, cancels every live loop, aborts provisioning.
Shutdown(p) ==
    /\ proc[p] = "up" /\ ~Busy(p)
    /\ p \notin Reliable
    /\ proc' = [proc EXCEPT ![p] = "stopping"]
    /\ result' = [result EXCEPT ![p] = [r \in Run |->
                    IF phase[p][r] = "looping" THEN "cancelling" ELSE @[r]]]
    /\ UNCHANGED <<store, workspaces, asked, todo, phase, sweep, reclaiming, cancelAsked>>

\* shutdown's wait is over.  The drives that ended took their entry out of
\* the lease map, so there is no lease left in it to release.
ShutdownDone(p) ==
    /\ proc[p] = "stopping"
    /\ \A r \in Run : phase[p][r] = "none"
    /\ proc' = [proc EXCEPT ![p] = "gone"]
    /\ sweep' = [sweep EXCEPT ![p] = {}]
    /\ reclaiming' = [reclaiming EXCEPT ![p] = {}]
    /\ UNCHANGED <<store, workspaces, asked, todo, phase, result, cancelAsked>>

\* The process dies: its memory is lost, the store and the containers stay.
Crash(p) ==
    /\ Alive(p) /\ p \notin Reliable
    /\ \A r \in Run : phase[p][r] \in CrashPoints
    /\ proc' = [proc EXCEPT ![p] = "gone"]
    /\ asked' = [asked EXCEPT ![p] = NoSubmission]
    /\ todo' = [todo EXCEPT ![p] = {}]
    /\ phase' = [phase EXCEPT ![p] = [r \in Run |-> "none"]]
    /\ result' = [result EXCEPT ![p] = [r \in Run |-> "none"]]
    /\ sweep' = [sweep EXCEPT ![p] = {}]
    /\ reclaiming' = [reclaiming EXCEPT ![p] = {}]
    /\ UNCHANGED <<store, workspaces, cancelAsked>>

-----------------------------------------------------------------------------
(* Requests                                                                *)

\* submit, up to the quota: a key that already produced a run is answered
\* with that run whatever the quota; a new run needs room under it.  (A
\* refusal changes nothing.)  The last conjunct is the bound on the ids.
SubmitCheck(p, s) ==
    /\ proc[p] = "up" /\ ~Busy(p)
    /\ RunsOfKey(s) # {} \/ activeRunCount(s.by) < MaxConcurrentRuns
    /\ Cardinality({q \in Process : asked[q] # NoSubmission})
         < Cardinality({r \in Run : status[r] = "ABSENT"})
    /\ asked' = [asked EXCEPT ![p] = s]
    /\ UNCHANGED <<store, workspaces, proc, todo, phase, result, sweep, reclaiming, cancelAsked>>

\* submit, from createRun on: one transaction that answers with the run of
\* the key or inserts a new row; a run it created is driven at once.
SubmitCreate(p) ==
    /\ asked[p] # NoSubmission
    /\ asked' = [asked EXCEPT ![p] = NoSubmission]
    /\ \/ /\ RunsOfKey(asked[p]) # {}
          /\ UNCHANGED <<status, submission, todo>>
       \/ /\ RunsOfKey(asked[p]) = {}
          /\ \E r \in Run :
                /\ status[r] = "ABSENT"
                /\ status' = [status EXCEPT ![r] = "QUEUED"]
                /\ submission' = [submission EXCEPT ![r] = asked[p]]
                /\ todo' = [todo EXCEPT ![p] = {r}]
    /\ UNCHANGED <<workspaceOf, lease, leaseLive, workspaces,
                   proc, phase, result, sweep, reclaiming, cancelAsked>>

\* cancel: reaches the loop when this process drives one, otherwise records
\* CANCELLED - whatever the status is, and whoever drives the run.  (Aborting
\* a provisioning under way makes it fail, which it may do at any time.)
Cancel(p, r) ==
    /\ proc[p] = "up" /\ ~Busy(p)
    /\ status[r] # "ABSENT"
    /\ IF phase[p][r] \in {"looping", "publishing"}
         THEN /\ result' = [result EXCEPT ![p][r] =
                              IF phase[p][r] = "looping" THEN "cancelling" ELSE @]
              /\ UNCHANGED status
         ELSE /\ status' = [status EXCEPT ![r] = "CANCELLED"]
              /\ UNCHANGED result
    /\ cancelAsked' = [cancelAsked EXCEPT ![r] = TRUE]
    /\ UNCHANGED <<submission, workspaceOf, lease, leaseLive, workspaces,
                   proc, asked, todo, phase, sweep, reclaiming>>

-----------------------------------------------------------------------------
(* Leases                                                                  *)

\* Mutant: what listAbandoned saw is believed, the lease is not looked at again.
CanAcquireUnchecked(p, r) == TRUE

CanAcquire(p, r) == ~leaseLive[r] \/ lease[r] \in {NoProcess, p}

\* The renewal timer of a drive: the row is still this owner's, or nothing.
RenewLease(p, r) ==
    /\ Drives(p, r)
    /\ lease[r] = p
    /\ leaseLive' = [leaseLive EXCEPT ![r] = TRUE]
    /\ UNCHANGED <<status, submission, workspaceOf, lease, workspaces, memory, cancelAsked>>

\* The time to live runs out; in a timely world never under a drive that
\* is renewing it.
LeaseLapses(r) ==
    /\ leaseLive[r]
    /\ Timely => \A p \in Process : lease[r] = p => ~Drives(p, r)
    /\ leaseLive' = [leaseLive EXCEPT ![r] = FALSE]
    /\ UNCHANGED <<status, submission, workspaceOf, lease, workspaces, memory, cancelAsked>>

\* releaseLease: deletes the row only where the owner is this process.
LeaseReleased(p, r) ==
    IF lease[r] = p
      THEN /\ lease' = [lease EXCEPT ![r] = NoProcess]
           /\ leaseLive' = [leaseLive EXCEPT ![r] = FALSE]
      ELSE UNCHANGED <<lease, leaseLive>>

-----------------------------------------------------------------------------
(* Driving one run                                                         *)

\* The end of drive's finally in a process that is not stopping: the lease
\* is given back, and the workspace the run names NOW is marked released.
HandBack(p, r) ==
    IF proc[p] = "stopping"
      THEN UNCHANGED <<lease, leaseLive, rowStatus>>
      ELSE /\ LeaseReleased(p, r)
           /\ rowStatus' = [q \in Process |->
                 IF q = workspaceOf[r] THEN [rowStatus[q] EXCEPT ![r] = "released"]
                 ELSE rowStatus[q]]

\* drive, from the lease to the wait for the provisioner, for a run of the
\* synchronous block under way.  A run somebody else holds is left alone; a
\* run cancelled since it was listed is handed back at once.
Drive(p, r) ==
    /\ r \in todo[p]
    /\ todo' = [todo EXCEPT ![p] = @ \ {r}]
    /\ \/ /\ ~CanAcquire(p, r)
          /\ UNCHANGED <<status, workspaceOf, lease, leaseLive, rowStatus, phase>>
       \/ /\ CanAcquire(p, r)
          /\ status[r] = "CANCELLED"
          /\ lease' = [lease EXCEPT ![r] = NoProcess]
          /\ leaseLive' = [leaseLive EXCEPT ![r] = FALSE]
          /\ rowStatus' = [q \in Process |->
                IF q = workspaceOf[r] THEN [rowStatus[q] EXCEPT ![r] = "released"]
                ELSE rowStatus[q]]
          /\ UNCHANGED <<status, workspaceOf, phase>>
       \/ /\ CanAcquire(p, r)
          /\ status[r] # "CANCELLED"
          /\ lease' = [lease EXCEPT ![r] = p]
          /\ leaseLive' = [leaseLive EXCEPT ![r] = TRUE]
          /\ status' = [status EXCEPT ![r] = "PROVISIONING"]
          /\ rowStatus' = [rowStatus EXCEPT ![p][r] = "provisioning"]
          /\ workspaceOf' = [workspaceOf EXCEPT ![r] = p]
          /\ phase' = [phase EXCEPT ![p][r] = "provisioning"]
    /\ UNCHANGED <<submission, handle, expired, container,
                   proc, asked, result, sweep, reclaiming, cancelAsked>>

\* The container runtime has created the container; the clone goes on.
ContainerCreated(p, r) ==
    /\ phase[p][r] = "provisioning"
    /\ container[p][r] = "none"
    /\ container' = [container EXCEPT ![p][r] = "running"]
    /\ UNCHANGED <<store, rowStatus, handle, expired, memory, cancelAsked>>

\* Mutant: the handle stays in memory.
ProvisionedUnrecorded(p, r) ==
    /\ phase[p][r] = "provisioning" /\ Answer(p)
    /\ container[p][r] = "running"
    /\ rowStatus' = [rowStatus EXCEPT ![p][r] = "ready"]
    /\ phase' = [phase EXCEPT ![p][r] = "signingIn"]
    /\ UNCHANGED <<store, handle, expired, container,
                   proc, asked, todo, result, sweep, reclaiming, cancelAsked>>

\* provision returned: the handle is recorded and the workspace is ready.
Provisioned(p, r) ==
    /\ phase[p][r] = "provisioning" /\ Answer(p)
    /\ container[p][r] = "running"
    /\ handle' = [handle EXCEPT ![p][r] = TRUE]
    /\ rowStatus' = [rowStatus EXCEPT ![p][r] = "ready"]
    /\ phase' = [phase EXCEPT ![p][r] = "signingIn"]
    /\ UNCHANGED <<store, expired, container, proc, asked, todo, result, sweep, reclaiming, cancelAsked>>

\* drive's catch: neither a shutdown nor a cancellation is a failure.
FailureRecorded(p, r) ==
    status' = IF proc[p] = "stopping" \/ status[r] = "CANCELLED" THEN status
              ELSE [status EXCEPT ![r] = "FAILED"]

\* provision threw, having removed the container it had made: there is no
\* workspace to release, so the drive ends here.
ProvisionFails(p, r) ==
    /\ phase[p][r] = "provisioning" /\ Answer(p)
    /\ \E c \in Removal(container[p][r]) : container' = [container EXCEPT ![p][r] = c]
    /\ FailureRecorded(p, r)
    /\ HandBack(p, r)
    /\ phase' = [phase EXCEPT ![p][r] = "none"]
    /\ UNCHANGED <<submission, workspaceOf, handle, expired,
                   proc, asked, todo, result, sweep, reclaiming, cancelAsked>>

\* The sign-in was refused, or the loop did not end within its time: an
\* error like any other, but with a workspace to release.
DriveFails(p, r) ==
    /\ phase[p][r] \in {"signingIn", "looping"} /\ Answer(p)
    /\ FailureRecorded(p, r)
    /\ phase' = [phase EXCEPT ![p][r] = "closing"]
    /\ result' = [result EXCEPT ![p][r] = "none"]
    /\ UNCHANGED <<submission, workspaceOf, lease, leaseLive, workspaces,
                   proc, asked, todo, sweep, reclaiming, cancelAsked>>

\* The agents are signed in: the run is RUNNING and a new loop is started.
LoopStarts(p, r) ==
    /\ phase[p][r] = "signingIn" /\ Answer(p)
    /\ status' = [status EXCEPT ![r] = "RUNNING"]
    /\ phase' = [phase EXCEPT ![p][r] = "looping"]
    /\ UNCHANGED <<submission, workspaceOf, lease, leaseLive, workspaces,
                   proc, asked, todo, result, sweep, reclaiming, cancelAsked>>

\* The loop stopped in status s; only one that was cancelled ends CANCELLED.
LoopEnds(p, r, s) ==
    /\ phase[p][r] = "looping" /\ Answer(p)
    /\ s = "CANCELLED" => result[p][r] = "cancelling"
    /\ result' = [result EXCEPT ![p][r] = s]
    /\ phase' = [phase EXCEPT ![p][r] = "publishing"]
    /\ UNCHANGED <<store, workspaces, proc, asked, todo, sweep, reclaiming, cancelAsked>>

\* Pushed or not, the run takes the status its loop ended with; drive's
\* finally stops renewing the lease and starts releasing the workspace.
Published(p, r) ==
    /\ phase[p][r] = "publishing" /\ Answer(p)
    /\ status' = [status EXCEPT ![r] = RemoteStatus(result[p][r])]
    /\ phase' = [phase EXCEPT ![p][r] = "closing"]
    /\ UNCHANGED <<submission, workspaceOf, lease, leaseLive, workspaces,
                   proc, asked, todo, result, sweep, reclaiming, cancelAsked>>

\* workspace.release() returned - a failure is swallowed - and drive is over.
Released(p, r) ==
    /\ phase[p][r] = "closing" /\ Answer(p)
    /\ \E c \in Removal(container[p][r]) : container' = [container EXCEPT ![p][r] = c]
    /\ HandBack(p, r)
    /\ phase' = [phase EXCEPT ![p][r] = "none"]
    /\ result' = [result EXCEPT ![p][r] = "none"]
    /\ UNCHANGED <<status, submission, workspaceOf, handle, expired,
                   proc, asked, todo, sweep, reclaiming, cancelAsked>>

-----------------------------------------------------------------------------
(* The reaper                                                              *)

\* A workspace reaches its maximum lifetime; only a reaper looks at it.  The
\* lifetime (four hours, provisioner.ts:174) is longer than a provisioning
\* can last (its commands time out within minutes).
WorkspaceExpires(p, r) ==
    /\ Reapers # {}
    /\ LiveRow(p, r) /\ ~expired[p][r]
    /\ Timely => phase[p][r] # "provisioning"
    /\ expired' = [expired EXCEPT ![p][r] = TRUE]
    /\ UNCHANGED <<store, rowStatus, handle, container, memory, cancelAsked>>

\* Mutants: the ceiling is compared the wrong way round; only the workspaces
\* of finished runs are looked for.
ListedUnexpired(cause) ==
    {i \in Item : /\ LiveRow(i.maker, i.run)
                  /\ i.handle = handle[i.maker][i.run]
                  /\ i.cause = cause
                  /\ cause = "expired" => ~expired[i.maker][i.run]}
ListedFinished(cause) ==
    {i \in Item : /\ LiveRow(i.maker, i.run)
                  /\ i.handle = handle[i.maker][i.run]
                  /\ i.cause = cause /\ cause = "finished"}

\* listReclaimable (cause "expired") and listLive (cause "finished").
Listed(cause) ==
    {i \in Item : /\ LiveRow(i.maker, i.run)
                  /\ i.handle = handle[i.maker][i.run]
                  /\ i.cause = cause
                  /\ cause = "expired" => expired[i.maker][i.run]}

\* sweep reads a list of rows (first the expired, then all the live ones)
\* and works through it: what it knows of a row is what it read.
SweepBegins(p, cause) ==
    /\ proc[p] = "up" /\ ~Busy(p) /\ p \in Reapers
    /\ sweep[p] \cup reclaiming[p] = {}
    /\ Listed(cause) # {}
    /\ sweep' = [sweep EXCEPT ![p] = Listed(cause)]
    /\ UNCHANGED <<store, workspaces, proc, asked, todo, phase, result,
                   reclaiming, cancelAsked>>

\* One row of the list.  A live one is left alone unless the run that names
\* the workspace has finished.  The container is removed by the handle read
\* with the list; without one the row is marked at once.
SweepStep(p, i) ==
    /\ reclaiming[p] = {}
    /\ sweep' = [sweep EXCEPT ![p] = @ \ {i}]
    /\ \/ /\ i.cause = "finished"
          /\ workspaceOf[i.run] # i.maker \/ status[i.run] \notin TERMINAL
          /\ UNCHANGED <<rowStatus, reclaiming>>
       \/ /\ i.cause = "finished" =>
                workspaceOf[i.run] = i.maker /\ status[i.run] \in TERMINAL
          /\ \/ /\ i.handle
                /\ reclaiming' = [reclaiming EXCEPT ![p] = {i}]
                /\ UNCHANGED rowStatus
             \/ /\ ~i.handle
                /\ rowStatus' = [rowStatus EXCEPT ![i.maker][i.run] = "released"]
                /\ UNCHANGED reclaiming
    /\ UNCHANGED <<store, handle, expired, container,
                   proc, asked, todo, phase, result, cancelAsked>>

\* provisioner.reclaim returned, whether or not it removed the container.
Reclaimed(p, i) ==
    /\ Answer(p)
    /\ \E c \in Removal(container[i.maker][i.run]) :
          container' = [container EXCEPT ![i.maker][i.run] = c]
    /\ rowStatus' = [rowStatus EXCEPT ![i.maker][i.run] = "released"]
    /\ reclaiming' = [reclaiming EXCEPT ![p] = {}]
    /\ UNCHANGED <<store, handle, expired,
                   proc, asked, todo, phase, result, sweep, cancelAsked>>

-----------------------------------------------------------------------------
DriveStep(p, r) ==
    \/ Drive(p, r)
    \/ ContainerCreated(p, r)
    \/ Provisioned(p, r)
    \/ ProvisionFails(p, r)
    \/ LoopStarts(p, r)
    \/ DriveFails(p, r)
    \/ \E s \in LoopStatus : LoopEnds(p, r, s)
    \/ Published(p, r)
    \/ Released(p, r)

Next ==
    \/ \E p \in Process :
          \/ Start(p) \/ Shutdown(p) \/ ShutdownDone(p) \/ Crash(p)
          \/ SubmitCreate(p)
          \/ \E s \in Submission : SubmitCheck(p, s)
          \/ \E c \in {"expired", "finished"} : SweepBegins(p, c)
          \/ \E i \in sweep[p] : SweepStep(p, i)
          \/ \E i \in reclaiming[p] : Reclaimed(p, i)
          \/ \E r \in Run :
                \/ DriveStep(p, r)
                \/ Cancel(p, r)
                \/ RenewLease(p, r)
                \/ WorkspaceExpires(p, r)
    \/ \E r \in Run : LeaseLapses(r)

Spec == Init /\ [][Next]_vars

\* The scheduling the code relies on.  Every await of a drive is bounded - by
\* a timeout of the command or of the loop (coordinator.ts:530) - so a drive
\* of a living process goes on (strong fairness: the answer waits while a
\* synchronous block is under way, and the event loop serves it afterwards);
\* the reaper's timer fires for ever and its list is finite; time passes, so
\* leases lapse and workspaces expire; and somebody starts a coordinator when
\* none is up.
Fairness ==
    /\ \A p \in Process :
          /\ WF_vars(Start(p)) /\ WF_vars(ShutdownDone(p)) /\ WF_vars(SubmitCreate(p))
          /\ \A r \in Run : SF_vars(DriveStep(p, r)) /\ WF_vars(WorkspaceExpires(p, r))
    /\ \A p \in Reapers :
          /\ \A c \in {"expired", "finished"} : SF_vars(SweepBegins(p, c))
          /\ WF_vars(\E i \in sweep[p] : SweepStep(p, i))
          /\ SF_vars(\E i \in reclaiming[p] : Reclaimed(p, i))
    /\ \A r \in Run : WF_vars(LeaseLapses(r))

FairSpec == Spec /\ Fairness

-----------------------------------------------------------------------------
TypeOK ==
    /\ status \in [Run -> Status]
    /\ submission \in [Run -> Submission \cup {NoSubmission}]
    /\ workspaceOf \in [Run -> Process \cup {NoProcess}]
    /\ lease \in [Run -> Process \cup {NoProcess}]
    /\ leaseLive \in [Run -> BOOLEAN]
    /\ rowStatus \in [Process -> [Run -> {"none", "provisioning", "ready", "released"}]]
    /\ handle \in [Process -> [Run -> BOOLEAN]]
    /\ expired \in [Process -> [Run -> BOOLEAN]]
    /\ container \in [Process -> [Run -> {"none", "running", "removed"}]]
    /\ proc \in [Process -> {"off", "up", "stopping", "gone"}]
    /\ asked \in [Process -> Submission \cup {NoSubmission}]
    /\ todo \in [Process -> SUBSET Run]
    /\ phase \in [Process -> [Run -> Phase]]
    /\ result \in [Process -> [Run -> LoopStatus \cup {"none", "cancelling"}]]
    /\ sweep \in [Process -> SUBSET Item]
    /\ reclaiming \in [Process -> SUBSET Item]
    /\ cancelAsked \in [Run -> BOOLEAN]

(***************************************************************************)
(* Safety                                                                  *)
(***************************************************************************)

\* Two coordinator processes never drive one run (coordinator.ts:19-21,
\* store.ts:324-330), even while one recovers what another has just been
\* handed, or one releases a lease the other has meanwhile taken.
OneDriver ==
    \A r \in Run, p, q \in Process : Drives(p, r) /\ Drives(q, r) => p = q

\* A submission repeated with its key, to any process and at any moment,
\* never becomes a second run (store.ts:14-15).
OneRunPerKey ==
    \A r, s \in Run :
        submission[r].key # NoKey /\ submission[r] = submission[s] => r = s

\* The runs a principal has going, those they asked to cancel apart, never
\* exceed the quota (store.ts:231-238): neither a recovery nor a restart lets
\* a run slip back in over it.
QuotaHeld ==
    \A a \in Principal :
        Cardinality({r \in Run : /\ submission[r].by = a
                                 /\ status[r] \in Active
                                 /\ ~cancelAsked[r]}) <= MaxConcurrentRuns

\* Neither the reaper nor the end of another drive takes the workspace from
\* a run at work, unless it outlived its ceiling or the run is being
\* cancelled (reaper.ts:62-80; tests/cloud-coordinator.test.ts:733).
WorkingRunKeepsWorkspace ==
    \A p \in Process, r \in Run :
        phase[p][r] \in {"signingIn", "looping", "publishing"} =>
            \/ LiveRow(p, r) /\ container[p][r] = "running"
            \/ expired[p][r]
            \/ cancelAsked[r]

\* Somebody can still have the container removed: the drive that is making
\* it, or whoever reads its live row and the handle recorded there.
Findable(p, r) == phase[p][r] = "provisioning" \/ (LiveRow(p, r) /\ handle[p][r])

\* Its drive or a reaper has asked for its removal (which may have failed).
RemovalAsked(p, r) ==
    \/ ProvisionFails(p, r) \/ Released(p, r)
    \/ \E q \in Process : \E i \in reclaiming[q] :
          i.maker = p /\ i.run = r /\ Reclaimed(q, i)

\* A sweep goes by a list it read before the handle was recorded.
ListedTooEarly(p, r) ==
    \E q \in Process : \E i \in sweep[q] :
        i.maker = p /\ i.run = r /\ ~i.handle /\ SweepStep(q, i)

\* Another process hands back the run that names this workspace: one it found
\* cancelled since it was listed, or one it lost while it was stalled.
MarkedByAnother(p, r) ==
    /\ Overlap /\ workspaceOf[r] = p
    /\ \E q \in Process :
          \/ Drive(q, r) /\ status[r] = "CANCELLED"
          \/ ~Timely /\ q # p /\ (ProvisionFails(q, r) \/ Released(q, r))

KnownLoss(p, r) ==
    \/ phase[p][r] = "provisioning" /\ Crash(p)
    \/ RemovalAsked(p, r)
    \/ ListedTooEarly(p, r)
    \/ MarkedByAnother(p, r)

\* A running container slips out of everybody's sight in these ways only: its
\* process dies between making it and recording its handle (coordinator.ts:377),
\* its removal fails, or its row is marked on what a process read too early or
\* holds no longer.  Recoveries, restarts, cancellations, the ends of drives and
\* deaths anywhere else lose none (coordinator.ts:423-432, reaper.ts:53-87).
OnlyKnownLosses ==
    [][\A p \in Process, r \in Run :
          container[p][r] = "running" /\ Findable(p, r) =>
             container'[p][r] # "running" \/ Findable(p, r)' \/ KnownLoss(p, r)]_vars

(***************************************************************************)
(* Refinement                                                              *)
(***************************************************************************)
DriverOf(r) ==
    IF \E p \in Process : Drives(p, r) THEN CHOOSE p \in Process : Drives(p, r)
    ELSE NoProcess

OutcomeOf(r) ==
    IF DriverOf(r) = NoProcess /\ status[r] \in TERMINAL THEN status[r] ELSE "open"

RR == INSTANCE RemoteRuns WITH
        driver <- [r \in Run |-> DriverOf(r)],
        outcome <- [r \in Run |-> OutcomeOf(r)]

\* The coordinator does what RemoteRuns promises: one driver at a time, and a
\* run let go in a terminal status is never taken again, whatever a recovery,
\* a retry or a cancellation does meanwhile (store.ts:58, coordinator.ts:295).
ImplementsRemoteRuns == RR!Spec

(***************************************************************************)
(* Liveness                                                                *)
(***************************************************************************)

\* A run that is accepted ends, even when the process that drove it dies:
\* it is picked up rather than stranded (store.ts:16-18).
EveryRunEnds == \A r \in Run : status[r] \in Active ~> status[r] \in TERMINAL

\* Nothing keeps billing: a container is eventually removed, whoever crashed
\* in between (coordinator.ts:423-425, reaper.ts:53-71) - unless its process died
\* before it had recorded the handle, by which alone it can be removed.
EveryContainerGoes ==
    \A p \in Process, r \in Run :
        container[p][r] = "running" ~>
            container[p][r] # "running" \/ (proc[p] = "gone" /\ ~handle[p][r])

=============================================================================
