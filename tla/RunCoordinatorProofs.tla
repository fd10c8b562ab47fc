------------------------ MODULE RunCoordinatorProofs ------------------------
(***************************************************************************)
(* Proofs about RunCoordinator, for any processes, runs, principals, keys  *)
(* and quota.                                                              *)
(***************************************************************************)
EXTENDS RunCoordinator, FiniteSetTheorems, TLAPS

-----------------------------------------------------------------------------
(* Type correctness                                                        *)

LEMMA RemoteStatusTerminal ==
    ASSUME NEW s PROVE RemoteStatus(s) \in TERMINAL
  BY DEF RemoteStatus, TERMINAL

LEMMA RemovalType ==
    ASSUME NEW c \in {"none", "running", "removed"}
    PROVE  Removal(c) \subseteq {"none", "running", "removed"}
  BY DEF Removal

\* The rows once the workspace that a run names is marked released.
RowsReleased(r) ==
    [q \in Process |->
        IF q = workspaceOf[r] THEN [rowStatus[q] EXCEPT ![r] = "released"]
        ELSE rowStatus[q]]

LEMMA RowsReleasedType ==
    ASSUME TypeOK, NEW r \in Run
    PROVE  RowsReleased(r) \in [Process -> [Run -> {"none", "provisioning", "ready", "released"}]]
<1>1. ASSUME NEW q \in Process
      PROVE  /\ rowStatus[q] \in [Run -> {"none", "provisioning", "ready", "released"}]
             /\ [rowStatus[q] EXCEPT ![r] = "released"]
                  \in [Run -> {"none", "provisioning", "ready", "released"}]
  BY DEF TypeOK
<1> QED
  BY <1>1 DEF RowsReleased

\* The end of a drive keeps the lease and the rows well-typed.
LEMMA HandBackType ==
    ASSUME TypeOK, NEW p \in Process, NEW r \in Run, HandBack(p, r)
    PROVE  /\ lease' \in [Run -> Process \cup {NoProcess}]
           /\ leaseLive' \in [Run -> BOOLEAN]
           /\ rowStatus' \in [Process -> [Run -> {"none", "provisioning", "ready", "released"}]]
<1>1. CASE proc[p] = "stopping"
  BY <1>1 DEF HandBack, TypeOK
<1>2. CASE proc[p] # "stopping"
  <2>1. lease' \in [Run -> Process \cup {NoProcess}] /\ leaseLive' \in [Run -> BOOLEAN]
    BY <1>2 DEF HandBack, LeaseReleased, TypeOK
  <2>2. rowStatus' \in [Process -> [Run -> {"none", "provisioning", "ready", "released"}]]
    <3>1. rowStatus' = RowsReleased(r)
      BY <1>2 DEF HandBack, RowsReleased
    <3> QED
      BY <3>1, RowsReleasedType
  <2> QED
    BY <2>1, <2>2
<1> QED
  BY <1>1, <1>2

LEMMA InitTypeOK == Init => TypeOK
  BY CoordinatorAssumption DEF Init, TypeOK, Status, Active, Phase

LEMMA NextTypeOK == TypeOK /\ [Next]_vars => TypeOK'
<1> SUFFICES ASSUME TypeOK, [Next]_vars PROVE TypeOK'
  OBVIOUS
<1> USE DEF TypeOK
<1>1. ASSUME NEW p \in Process, Start(p) PROVE TypeOK'
  BY <1>1 DEF Start, store, workspaces, listAbandoned
<1>2. ASSUME NEW p \in Process, Shutdown(p) PROVE TypeOK'
  BY <1>2 DEF Shutdown, store, workspaces
<1>3. ASSUME NEW p \in Process, ShutdownDone(p) PROVE TypeOK'
  BY <1>3 DEF ShutdownDone, store, workspaces
<1>4. ASSUME NEW p \in Process, Crash(p) PROVE TypeOK'
  BY <1>4 DEF Crash, store, workspaces, Phase
<1>5. ASSUME NEW p \in Process, SubmitCreate(p) PROVE TypeOK'
  <2>1. asked[p] \in Submission
    BY <1>5 DEF SubmitCreate
  <2>2. CASE UNCHANGED <<status, submission, todo>>
    BY <1>5, <2>2 DEF SubmitCreate, workspaces
  <2>3. ASSUME NEW r \in Run,
               status' = [status EXCEPT ![r] = "QUEUED"],
               submission' = [submission EXCEPT ![r] = asked[p]],
               todo' = [todo EXCEPT ![p] = {r}]
        PROVE  TypeOK'
    <3>1. status' \in [Run -> Status]
      BY <2>3 DEF Status, Active
    <3>2. submission' \in [Run -> Submission \cup {NoSubmission}]
      BY <2>1, <2>3
    <3>3. todo' \in [Process -> SUBSET Run]
      BY <2>3
    <3> QED
      BY <1>5, <3>1, <3>2, <3>3 DEF SubmitCreate, workspaces
  <2> QED
    BY <1>5, <2>2, <2>3 DEF SubmitCreate
<1>6. ASSUME NEW p \in Process, NEW s \in Submission, SubmitCheck(p, s) PROVE TypeOK'
  BY <1>6 DEF SubmitCheck, store, workspaces
<1>7. ASSUME NEW p \in Process, NEW c \in {"expired", "finished"}, SweepBegins(p, c)
      PROVE  TypeOK'
  BY <1>7 DEF SweepBegins, store, workspaces, Listed
<1>8. ASSUME NEW p \in Process, NEW i \in sweep[p], SweepStep(p, i) PROVE TypeOK'
  <2>1. i \in Item /\ i.maker \in Process /\ i.run \in Run
    BY DEF Item
  <2>2. sweep' \in [Process -> SUBSET Item]
    BY <1>8 DEF SweepStep
  <2>3. rowStatus' \in [Process -> [Run -> {"none", "provisioning", "ready", "released"}]]
    <3>1. CASE UNCHANGED rowStatus
      BY <3>1
    <3>2. CASE rowStatus' = [rowStatus EXCEPT ![i.maker][i.run] = "released"]
      BY <3>2, <2>1
    <3> QED
      BY <1>8, <3>1, <3>2 DEF SweepStep
  <2>4. reclaiming' \in [Process -> SUBSET Item]
    <3>1. CASE UNCHANGED reclaiming
      BY <3>1
    <3>2. CASE reclaiming' = [reclaiming EXCEPT ![p] = {i}]
      BY <3>2, <2>1
    <3> QED
      BY <1>8, <3>1, <3>2 DEF SweepStep
  <2> QED
    BY <1>8, <2>2, <2>3, <2>4 DEF SweepStep, store
<1>9. ASSUME NEW p \in Process, NEW i \in reclaiming[p], Reclaimed(p, i) PROVE TypeOK'
  <2>1. i \in Item /\ i.maker \in Process /\ i.run \in Run
    BY DEF Item
  <2>2. Removal(container[i.maker][i.run]) \subseteq {"none", "running", "removed"}
    <3>1. container[i.maker][i.run] \in {"none", "running", "removed"}
      BY <2>1
    <3> QED
      BY <3>1, RemovalType
  <2>3. container' \in [Process -> [Run -> {"none", "running", "removed"}]]
    BY <1>9, <2>1, <2>2 DEF Reclaimed
  <2>4. rowStatus' \in [Process -> [Run -> {"none", "provisioning", "ready", "released"}]]
    BY <1>9, <2>1 DEF Reclaimed
  <2> QED
    BY <1>9, <2>3, <2>4 DEF Reclaimed, store
<1>10. ASSUME NEW p \in Process, NEW r \in Run, DriveStep(p, r) PROVE TypeOK'
  <2>1. CASE Drive(p, r)
    <3>1. todo' \in [Process -> SUBSET Run]
      BY <2>1 DEF Drive
    <3>2. CASE UNCHANGED <<status, workspaceOf, lease, leaseLive, rowStatus, phase>>
      BY <2>1, <3>1, <3>2 DEF Drive
    <3>3. CASE /\ lease' = [lease EXCEPT ![r] = NoProcess]
               /\ leaseLive' = [leaseLive EXCEPT ![r] = FALSE]
               /\ rowStatus' = RowsReleased(r)
               /\ UNCHANGED <<status, workspaceOf, phase>>
      <4>1. lease' \in [Run -> Process \cup {NoProcess}] /\ leaseLive' \in [Run -> BOOLEAN]
        BY <3>3
      <4> QED
        BY <2>1, <3>1, <3>3, <4>1, RowsReleasedType DEF Drive
    <3>4. CASE /\ lease' = [lease EXCEPT ![r] = p]
               /\ leaseLive' = [leaseLive EXCEPT ![r] = TRUE]
               /\ status' = [status EXCEPT ![r] = "PROVISIONING"]
               /\ rowStatus' = [rowStatus EXCEPT ![p][r] = "provisioning"]
               /\ workspaceOf' = [workspaceOf EXCEPT ![r] = p]
               /\ phase' = [phase EXCEPT ![p][r] = "provisioning"]
      <4>1. lease' \in [Run -> Process \cup {NoProcess}] /\ leaseLive' \in [Run -> BOOLEAN]
        BY <3>4
      <4>2. status' \in [Run -> Status] /\ workspaceOf' \in [Run -> Process \cup {NoProcess}]
        BY <3>4 DEF Status, Active
      <4>3. /\ rowStatus' \in [Process -> [Run -> {"none", "provisioning", "ready", "released"}]]
            /\ phase' \in [Process -> [Run -> Phase]]
        BY <3>4 DEF Phase, Renewing
      <4> QED
        BY <2>1, <3>1, <4>1, <4>2, <4>3 DEF Drive
    <3> QED
      BY <2>1, <3>2, <3>3, <3>4 DEF Drive, RowsReleased
  <2>2. CASE ContainerCreated(p, r)
    BY <2>2 DEF ContainerCreated, store, memory
  <2>3. CASE Provisioned(p, r)
    BY <2>3 DEF Provisioned, store, Phase, Renewing
  <2>4. CASE ProvisionFails(p, r)
    <3>1. Removal(container[p][r]) \subseteq {"none", "running", "removed"}
      <4>1. container[p][r] \in {"none", "running", "removed"}
        OBVIOUS
      <4> QED
        BY <4>1, RemovalType
    <3>2. container' \in [Process -> [Run -> {"none", "running", "removed"}]]
      BY <2>4, <3>1 DEF ProvisionFails
    <3>3. status' \in [Run -> Status]
      BY <2>4 DEF ProvisionFails, FailureRecorded, Status, TERMINAL
    <3>4. HandBack(p, r)
      BY <2>4 DEF ProvisionFails
    <3>5. phase' \in [Process -> [Run -> Phase]]
      BY <2>4 DEF ProvisionFails, Phase
    <3> QED
      BY <2>4, <3>2, <3>3, <3>4, <3>5, HandBackType DEF ProvisionFails
  <2>5. CASE LoopStarts(p, r)
    BY <2>5 DEF LoopStarts, workspaces, Status, Active, Phase, Renewing
  <2>6. CASE DriveFails(p, r)
    BY <2>6 DEF DriveFails, FailureRecorded, workspaces, Status, TERMINAL, Phase
  <2>7. ASSUME NEW s \in LoopStatus, LoopEnds(p, r, s) PROVE TypeOK'
    BY <2>7 DEF LoopEnds, store, workspaces, Phase, Renewing
  <2>8. CASE Published(p, r)
    BY <2>8, RemoteStatusTerminal DEF Published, workspaces, Status, Phase
  <2>9. CASE Released(p, r)
    <3>1. Removal(container[p][r]) \subseteq {"none", "running", "removed"}
      <4>1. container[p][r] \in {"none", "running", "removed"}
        OBVIOUS
      <4> QED
        BY <4>1, RemovalType
    <3>2. container' \in [Process -> [Run -> {"none", "running", "removed"}]]
      BY <2>9, <3>1 DEF Released
    <3>3. HandBack(p, r)
      BY <2>9 DEF Released
    <3>4. /\ phase' \in [Process -> [Run -> Phase]]
          /\ result' \in [Process -> [Run -> LoopStatus \cup {"none", "cancelling"}]]
      BY <2>9 DEF Released, Phase
    <3> QED
      BY <2>9, <3>2, <3>3, <3>4, HandBackType DEF Released
  <2> QED
    BY <1>10, <2>1, <2>2, <2>3, <2>4, <2>5, <2>6, <2>7, <2>8, <2>9 DEF DriveStep
<1>11. ASSUME NEW p \in Process, NEW r \in Run, Cancel(p, r) PROVE TypeOK'
  <2>1. status' \in [Run -> Status]
    BY <1>11 DEF Cancel, Status, TERMINAL
  <2>2. result' \in [Process -> [Run -> LoopStatus \cup {"none", "cancelling"}]]
    <3>1. CASE UNCHANGED result
      BY <3>1
    <3>2. CASE result' = [result EXCEPT ![p][r] =
                            IF phase[p][r] = "looping" THEN "cancelling" ELSE @]
      BY <3>2
    <3> QED
      BY <1>11, <3>1, <3>2 DEF Cancel
  <2> QED
    BY <1>11, <2>1, <2>2 DEF Cancel, workspaces
<1>12. ASSUME NEW p \in Process, NEW r \in Run, RenewLease(p, r) PROVE TypeOK'
  BY <1>12 DEF RenewLease, workspaces, memory
<1>13. ASSUME NEW p \in Process, NEW r \in Run, WorkspaceExpires(p, r) PROVE TypeOK'
  BY <1>13 DEF WorkspaceExpires, store, memory
<1>14. ASSUME NEW r \in Run, LeaseLapses(r) PROVE TypeOK'
  BY <1>14 DEF LeaseLapses, workspaces, memory
<1>15. CASE UNCHANGED vars
  BY <1>15 DEF vars, store, workspaces, memory
<1> QED
  BY <1>1, <1>2, <1>3, <1>4, <1>5, <1>6, <1>7, <1>8, <1>9, <1>10, <1>11, <1>12,
     <1>13, <1>14, <1>15 DEF Next

\* Every variable keeps its type, whatever the deployment.
THEOREM TypeCorrect == Spec => []TypeOK
  BY InitTypeOK, NextTypeOK, PTL DEF Spec

-----------------------------------------------------------------------------
(* One driver                                                              *)

\* A process drives a run only under a lease that is its own and live.
DriverHoldsLease ==
    \A p \in Process, r \in Run : Drives(p, r) => lease[r] = p /\ leaseLive[r]

\* A process does not already drive what it is about to drive, and nobody has
\* finished it in the meantime.
TodoIsFresh ==
    \A p \in Process, r \in Run :
        r \in todo[p] => phase[p][r] = "none" /\ status[r] \in Active \cup {"CANCELLED"}

\* A process that has not started has no work.
IdleBeforeStart ==
    \A p \in Process : proc[p] = "off" =>
        /\ asked[p] = NoSubmission /\ todo[p] = {}
        /\ \A r \in Run : phase[p][r] = "none"

\* Only runs that were submitted are driven.
RowBeforeDrive ==
    \A p \in Process, r \in Run : status[r] = "ABSENT" => phase[p][r] = "none"

Driving == DriverHoldsLease /\ TodoIsFresh /\ IdleBeforeStart /\ RowBeforeDrive
DrivingInv == TypeOK /\ Driving

LEMMA InitDriving == Init => DrivingInv
  BY InitTypeOK DEF Init, DrivingInv, Driving, DriverHoldsLease, TodoIsFresh,
                    IdleBeforeStart, RowBeforeDrive, Drives, Renewing

\* Steps that touch neither a lease nor a drive.
LEMMA DrivingFrame ==
    ASSUME Driving, UNCHANGED <<status, lease, leaseLive, phase, proc, asked, todo>>
    PROVE  Driving'
  BY DEF Driving, DriverHoldsLease, TodoIsFresh, IdleBeforeStart, RowBeforeDrive, Drives

\* A process starts with the abandoned runs to drive.
LEMMA StartDriving ==
    ASSUME DrivingInv, NEW p \in Process, Start(p) PROVE Driving'
<1>1. UNCHANGED <<status, lease, leaseLive, phase, asked>>
  BY DEF Start, store
<1>2. \A q \in Process : q # p => proc'[q] = proc[q] /\ todo'[q] = todo[q]
  BY DEF Start, DrivingInv, TypeOK
<1>3. proc'[p] = "up" /\ todo'[p] = listAbandoned /\ proc[p] = "off"
  BY DEF Start, DrivingInv, TypeOK
<1> USE DEF DrivingInv, Driving
<1>4. DriverHoldsLease' /\ RowBeforeDrive'
  BY <1>1 DEF DriverHoldsLease, RowBeforeDrive, Drives
<1>5. TodoIsFresh'
  BY <1>1, <1>2, <1>3 DEF TodoIsFresh, IdleBeforeStart, listAbandoned
<1>6. IdleBeforeStart'
  BY <1>1, <1>2, <1>3 DEF IdleBeforeStart
<1> QED
  BY <1>4, <1>5, <1>6

\* A process stops or dies: it has no more work than before.
LEMMA StopDriving ==
    ASSUME DrivingInv, NEW p \in Process, Shutdown(p) \/ ShutdownDone(p) \/ Crash(p)
    PROVE  Driving'
<1>1. UNCHANGED <<status, lease, leaseLive>>
  BY DEF Shutdown, ShutdownDone, Crash, store
<1>2. \A q \in Process : /\ proc'[q] = "off" => proc[q] = "off"
                         /\ asked'[q] \in {asked[q], NoSubmission}
                         /\ todo'[q] \in {todo[q], {}}
  BY DEF Shutdown, ShutdownDone, Crash, DrivingInv, TypeOK
<1>3. \A q \in Process, r \in Run : phase'[q][r] \in {phase[q][r], "none"}
  BY DEF Shutdown, ShutdownDone, Crash, DrivingInv, TypeOK
<1> USE DEF DrivingInv, Driving
<1>4. DriverHoldsLease'
  BY <1>1, <1>3 DEF DriverHoldsLease, Drives, Renewing
<1>5. TodoIsFresh'
  BY <1>1, <1>2, <1>3 DEF TodoIsFresh
<1>6. IdleBeforeStart' /\ RowBeforeDrive'
  BY <1>1, <1>2, <1>3 DEF IdleBeforeStart, RowBeforeDrive
<1> QED
  BY <1>4, <1>5, <1>6

\* A submission: the run it may create is new, so nobody drives it.
LEMMA SubmitDriving ==
    ASSUME DrivingInv, NEW p \in Process,
           SubmitCreate(p) \/ \E s \in Submission : SubmitCheck(p, s)
    PROVE  Driving'
<1> USE DEF DrivingInv, Driving
<1>1. UNCHANGED <<lease, leaseLive, phase, proc>>
  BY DEF SubmitCreate, SubmitCheck, store
<1>2. proc[p] # "off"
  BY DEF SubmitCreate, SubmitCheck, IdleBeforeStart
<1>3. \A q \in Process : q # p => asked'[q] = asked[q] /\ todo'[q] = todo[q]
  <2>1. CASE SubmitCreate(p)
    BY <2>1 DEF SubmitCreate, TypeOK
  <2>2. CASE \E s \in Submission : SubmitCheck(p, s)
    BY <2>2 DEF SubmitCheck, TypeOK
  <2> QED
    BY <2>1, <2>2
<1>4. \A r \in Run : r \in todo'[p] \ todo[p] => status[r] = "ABSENT" /\ status'[r] = "QUEUED"
  <2>1. CASE \E s \in Submission : SubmitCheck(p, s)
    BY <2>1 DEF SubmitCheck
  <2>2. CASE SubmitCreate(p) /\ UNCHANGED todo
    BY <2>2
  <2>3. ASSUME NEW r \in Run, status[r] = "ABSENT",
               status' = [status EXCEPT ![r] = "QUEUED"], todo' = [todo EXCEPT ![p] = {r}]
        PROVE  \A s \in Run : s \in todo'[p] => s = r /\ status'[s] = "QUEUED"
    BY <2>3 DEF TypeOK
  <2> QED
    BY <2>1, <2>2, <2>3 DEF SubmitCreate
<1>5. \A r \in Run : status'[r] # status[r] => status'[r] = "QUEUED"
  BY DEF SubmitCreate, SubmitCheck, store, TypeOK
<1>6. DriverHoldsLease'
  BY <1>1 DEF DriverHoldsLease, Drives
<1>7. TodoIsFresh'
  BY <1>1, <1>3, <1>4, <1>5 DEF TodoIsFresh, RowBeforeDrive, Active
<1>8. IdleBeforeStart' /\ RowBeforeDrive'
  BY <1>1, <1>2, <1>3, <1>5 DEF IdleBeforeStart, RowBeforeDrive
<1> QED
  BY <1>6, <1>7, <1>8

\* A cancellation may change the status of a run that was submitted.
LEMMA CancelDriving ==
    ASSUME DrivingInv, NEW p \in Process, NEW r \in Run, Cancel(p, r) PROVE Driving'
<1>1. UNCHANGED <<lease, leaseLive, phase, proc, asked, todo>>
  BY DEF Cancel
<1>2. \A s \in Run : status'[s] = status[s] \/ status'[s] = "CANCELLED"
  BY DEF Cancel, DrivingInv, TypeOK
<1> USE DEF DrivingInv, Driving
<1>3. DriverHoldsLease' /\ IdleBeforeStart'
  BY <1>1 DEF DriverHoldsLease, Drives, IdleBeforeStart
<1>4. TodoIsFresh' /\ RowBeforeDrive'
  BY <1>1, <1>2 DEF TodoIsFresh, RowBeforeDrive
<1> QED
  BY <1>3, <1>4

\* The clock: a lease that is being renewed does not lapse.
LEMMA ClockDriving ==
    ASSUME Timely, DrivingInv, NEW r \in Run,
           LeaseLapses(r) \/ \E p \in Process : RenewLease(p, r)
    PROVE  Driving'
<1>1. UNCHANGED <<status, lease, phase, proc, asked, todo>>
  BY DEF LeaseLapses, RenewLease, memory
<1>2. \A s \in Run : leaseLive[s] /\ ~leaseLive'[s] => \A p \in Process : lease[s] = p => ~Drives(p, s)
  <2>1. CASE LeaseLapses(r)
    <3>1. \A p \in Process : lease[r] = p => ~Drives(p, r)
      BY <2>1 DEF LeaseLapses
    <3>2. \A s \in Run : s # r => leaseLive'[s] = leaseLive[s]
      BY <2>1 DEF LeaseLapses, DrivingInv, TypeOK
    <3> QED
      BY <3>1, <3>2
  <2>2. CASE \E p \in Process : RenewLease(p, r)
    BY <2>2 DEF RenewLease, DrivingInv, TypeOK
  <2> QED
    BY <2>1, <2>2
<1> USE DEF DrivingInv, Driving
<1>3. DriverHoldsLease'
  BY <1>1, <1>2 DEF DriverHoldsLease, Drives
<1>4. TodoIsFresh' /\ IdleBeforeStart' /\ RowBeforeDrive'
  BY <1>1 DEF TodoIsFresh, IdleBeforeStart, RowBeforeDrive
<1> QED
  BY <1>3, <1>4

\* Taking a run: nobody drives it, for the lease of a driver cannot be taken.
LEMMA DriveDriving ==
    ASSUME DrivingInv, NEW p \in Process, NEW r \in Run, Drive(p, r) PROVE Driving'
<1> USE DEF DrivingInv, Driving
<1>1. /\ r \in todo[p] /\ UNCHANGED <<proc, asked>>
      /\ \A q \in Process : todo'[q] \subseteq todo[q]
      /\ r \notin todo'[p]
  BY DEF Drive, TypeOK
<1>2. phase[p][r] = "none" /\ proc[p] # "off"
  BY <1>1 DEF TodoIsFresh, IdleBeforeStart
<1>3. ASSUME CanAcquire(p, r), NEW q \in Process PROVE ~Drives(q, r)
  BY <1>2, <1>3, CoordinatorAssumption DEF CanAcquire, DriverHoldsLease, Drives, Renewing
<1>4. CASE UNCHANGED <<status, lease, leaseLive, phase>>
  BY <1>1, <1>4 DEF DriverHoldsLease, Drives, TodoIsFresh, IdleBeforeStart, RowBeforeDrive
<1>5. CASE /\ CanAcquire(p, r)
           /\ lease' = [lease EXCEPT ![r] = NoProcess]
           /\ leaseLive' = [leaseLive EXCEPT ![r] = FALSE]
           /\ UNCHANGED <<status, phase>>
  <2>1. \A s \in Run : s # r => lease'[s] = lease[s] /\ leaseLive'[s] = leaseLive[s]
    BY <1>5 DEF TypeOK
  <2>2. DriverHoldsLease'
    BY <1>3, <1>5, <2>1 DEF DriverHoldsLease, Drives
  <2> QED
    BY <1>1, <1>5, <2>2 DEF TodoIsFresh, IdleBeforeStart, RowBeforeDrive
<1>6. CASE /\ CanAcquire(p, r)
           /\ lease' = [lease EXCEPT ![r] = p]
           /\ leaseLive' = [leaseLive EXCEPT ![r] = TRUE]
           /\ status' = [status EXCEPT ![r] = "PROVISIONING"]
           /\ phase' = [phase EXCEPT ![p][r] = "provisioning"]
  <2>1. \A q \in Process, s \in Run : q # p \/ s # r => phase'[q][s] = phase[q][s]
    BY <1>6 DEF TypeOK
  <2>2. \A s \in Run : s # r => /\ lease'[s] = lease[s] /\ leaseLive'[s] = leaseLive[s]
                                /\ status'[s] = status[s]
    BY <1>6 DEF TypeOK
  <2>3. lease'[r] = p /\ leaseLive'[r] /\ status'[r] = "PROVISIONING"
    BY <1>6 DEF TypeOK
  <2>4. ASSUME NEW q \in Process, NEW s \in Run, Drives(q, s)'
        PROVE  lease'[s] = q /\ leaseLive'[s]
    <3>1. CASE s # r
      BY <2>1, <2>2, <2>4, <3>1 DEF Drives, DriverHoldsLease
    <3>2. CASE s = r
      BY <1>3, <1>6, <2>1, <2>3, <2>4, <3>2 DEF Drives
    <3> QED
      BY <3>1, <3>2
  <2>5. TodoIsFresh'
    BY <1>1, <2>1, <2>2, <2>3 DEF TodoIsFresh, Active
  <2>6. IdleBeforeStart'
    BY <1>1, <1>2, <2>1 DEF IdleBeforeStart
  <2>7. RowBeforeDrive'
    BY <2>1, <2>2, <2>3 DEF RowBeforeDrive
  <2> QED
    BY <2>4, <2>5, <2>6, <2>7 DEF DriverHoldsLease
<1> QED
  BY <1>4, <1>5, <1>6 DEF Drive

\* The steps of a drive that something it awaits sets off.
Answered(p, r) ==
    \/ Provisioned(p, r) \/ ProvisionFails(p, r) \/ LoopStarts(p, r) \/ DriveFails(p, r)
    \/ \E s \in LoopStatus : LoopEnds(p, r, s)
    \/ Published(p, r) \/ Released(p, r)

\* What they have in common: the drive goes from one phase to another, and
\* the lease changes hands only when the drive is over, and only if it is its.
LEMMA AnsweredStep ==
    ASSUME TypeOK, NEW p \in Process, NEW r \in Run, Answered(p, r)
    PROVE  /\ Answer(p) /\ UNCHANGED <<proc, asked, todo>>
           /\ phase[p][r] # "none"
           /\ \A q \in Process, s \in Run : q # p \/ s # r => phase'[q][s] = phase[q][s]
           /\ \A s \in Run : s # r => status'[s] = status[s]
           /\ status'[r] \in {status[r], "RUNNING"} \cup TERMINAL
           /\ \A s \in Run : s # r \/ lease[s] # p =>
                 lease'[s] = lease[s] /\ leaseLive'[s] = leaseLive[s]
           /\ Drives(p, r)' => Drives(p, r) /\ UNCHANGED <<lease, leaseLive>>
<1> USE DEF TypeOK
<1>1. CASE Provisioned(p, r)
  BY <1>1 DEF Provisioned, store, Drives, Renewing
<1>2. CASE ProvisionFails(p, r)
  <2>1. \A s \in Run : s # r \/ lease[s] # p =>
            lease'[s] = lease[s] /\ leaseLive'[s] = leaseLive[s]
    BY <1>2 DEF ProvisionFails, HandBack, LeaseReleased
  <2>2. /\ \A s \in Run : s # r => status'[s] = status[s]
        /\ status'[r] \in {status[r]} \cup TERMINAL
    BY <1>2 DEF ProvisionFails, FailureRecorded, TERMINAL
  <2> QED
    BY <1>2, <2>1, <2>2 DEF ProvisionFails, Drives, Renewing
<1>3. CASE LoopStarts(p, r)
  BY <1>3 DEF LoopStarts, Drives, Renewing
<1>4. CASE DriveFails(p, r)
  <2>1. /\ \A s \in Run : s # r => status'[s] = status[s]
        /\ status'[r] \in {status[r]} \cup TERMINAL
    BY <1>4 DEF DriveFails, FailureRecorded, TERMINAL
  <2> QED
    BY <1>4, <2>1 DEF DriveFails, Drives, Renewing
<1>5. ASSUME NEW s \in LoopStatus, LoopEnds(p, r, s)
      PROVE  /\ Answer(p) /\ UNCHANGED <<proc, asked, todo, status, lease, leaseLive>>
             /\ phase[p][r] = "looping"
             /\ phase' = [phase EXCEPT ![p][r] = "publishing"]
  BY <1>5 DEF LoopEnds, store
<1>6. CASE \E s \in LoopStatus : LoopEnds(p, r, s)
  BY <1>5, <1>6 DEF Drives, Renewing
<1>7. CASE Published(p, r)
  BY <1>7, RemoteStatusTerminal DEF Published, Drives, Renewing
<1>8. CASE Released(p, r)
  <2>1. \A s \in Run : s # r \/ lease[s] # p =>
            lease'[s] = lease[s] /\ leaseLive'[s] = leaseLive[s]
    BY <1>8 DEF Released, HandBack, LeaseReleased
  <2> QED
    BY <1>8, <2>1 DEF Released, Drives, Renewing
<1> QED
  BY <1>1, <1>2, <1>3, <1>4, <1>6, <1>7, <1>8 DEF Answered

LEMMA AnsweredDriving ==
    ASSUME Timely, DrivingInv, NEW p \in Process, NEW r \in Run, Answered(p, r)
    PROVE  Driving'
<1> USE DEF DrivingInv, Driving
<1>1. \A q \in Process : todo'[q] = {}
  BY AnsweredStep DEF Answer, Busy
<1>2. DriverHoldsLease'
  <2> SUFFICES ASSUME NEW q \in Process, NEW s \in Run, Drives(q, s)'
               PROVE  lease'[s] = q /\ leaseLive'[s]
    BY DEF DriverHoldsLease
  <2>1. CASE q = p /\ s = r
    BY <2>1, AnsweredStep DEF DriverHoldsLease
  <2>2. CASE q # p \/ s # r
    <3>1. Drives(q, s)
      BY <2>2, AnsweredStep DEF Drives
    <3>2. lease[s] = q /\ leaseLive[s]
      BY <3>1 DEF DriverHoldsLease
    <3> QED
      BY <2>2, <3>2, AnsweredStep
  <2> QED
    BY <2>1, <2>2
<1>3. TodoIsFresh'
  BY <1>1 DEF TodoIsFresh
<1>4. IdleBeforeStart'
  BY AnsweredStep DEF IdleBeforeStart
<1>5. RowBeforeDrive'
  BY AnsweredStep DEF RowBeforeDrive, TERMINAL
<1> QED
  BY <1>2, <1>3, <1>4, <1>5

LEMMA NextDriving ==
    ASSUME Timely, DrivingInv, [Next]_vars PROVE DrivingInv'
<1>1. TypeOK'
  BY NextTypeOK DEF DrivingInv
<1> SUFFICES Driving'
  BY <1>1 DEF DrivingInv
<1>2. ASSUME NEW p \in Process, NEW r \in Run, DriveStep(p, r) PROVE Driving'
  <2>1. CASE Drive(p, r)
    BY <2>1, DriveDriving
  <2>2. CASE ContainerCreated(p, r)
    BY <2>2, DrivingFrame DEF ContainerCreated, store, memory, DrivingInv
  <2>3. CASE Answered(p, r)
    BY <2>3, AnsweredDriving
  <2> QED
    BY <1>2, <2>1, <2>2, <2>3 DEF DriveStep, Answered
<1>3. ASSUME NEW p \in Process,
             \/ \E c \in {"expired", "finished"} : SweepBegins(p, c)
             \/ \E i \in sweep[p] : SweepStep(p, i)
             \/ \E i \in reclaiming[p] : Reclaimed(p, i)
             \/ \E r \in Run : WorkspaceExpires(p, r)
      PROVE  UNCHANGED <<status, lease, leaseLive, phase, proc, asked, todo>>
  BY <1>3 DEF SweepBegins, SweepStep, Reclaimed, WorkspaceExpires, store, memory
<1>4. CASE UNCHANGED <<status, lease, leaseLive, phase, proc, asked, todo>>
  BY <1>4, DrivingFrame DEF DrivingInv
<1>5. CASE UNCHANGED vars
  BY <1>4, <1>5 DEF vars, store, memory
<1> QED
  BY <1>2, <1>3, <1>4, <1>5, StartDriving, StopDriving, SubmitDriving, CancelDriving,
     ClockDriving DEF Next

\* The driving invariant holds of every behaviour in which timers fire in time.
LEMMA DrivingInvariant == ASSUME Timely PROVE Spec => []DrivingInv
<1>1. Init => DrivingInv
  BY InitDriving
<1>2. DrivingInv /\ [Next]_vars => DrivingInv'
  BY NextDriving
<1> QED
  BY <1>1, <1>2, PTL DEF Spec

\* As long as no process stalls for the time to live of its leases, two
\* coordinator processes never drive the same run (coordinator.ts:19-21),
\* however many there are and whatever they crash in, recover or cancel.
THEOREM OneDriverCorrect == ASSUME Timely PROVE Spec => []OneDriver
<1>1. DrivingInv => OneDriver
  BY DEF DrivingInv, Driving, DriverHoldsLease, OneDriver
<1> QED
  BY <1>1, DrivingInvariant, PTL

-----------------------------------------------------------------------------
(* One run per key                                                         *)

LEMMA NextOneRunPerKey == TypeOK /\ OneRunPerKey /\ [Next]_vars => OneRunPerKey'
<1> SUFFICES ASSUME TypeOK, OneRunPerKey, [Next]_vars PROVE OneRunPerKey'
  OBVIOUS
<1>1. ASSUME NEW p \in Process, SubmitCreate(p) PROVE OneRunPerKey'
  <2>1. CASE UNCHANGED submission
    BY <2>1 DEF OneRunPerKey
  <2>2. ASSUME NEW r \in Run, RunsOfKey(asked[p]) = {},
               submission' = [submission EXCEPT ![r] = asked[p]]
        PROVE  OneRunPerKey'
    <3>1. asked[p].key # NoKey => \A s \in Run : submission[s] # asked[p]
      BY <2>2 DEF RunsOfKey
    <3> QED
      BY <2>2, <3>1 DEF OneRunPerKey, TypeOK
  <2> QED
    BY <1>1, <2>1, <2>2 DEF SubmitCreate
<1>2. CASE UNCHANGED submission
  BY <1>2 DEF OneRunPerKey
<1>3. CASE \A p \in Process : ~SubmitCreate(p)
  <2>1. ASSUME NEW p \in Process, NEW r \in Run, DriveStep(p, r) PROVE UNCHANGED submission
    BY <2>1 DEF DriveStep, Drive, ContainerCreated, Provisioned, ProvisionFails, LoopStarts,
                DriveFails, LoopEnds, Published, Released, store
  <2>2. ASSUME NEW p \in Process, NEW r \in Run,
               Cancel(p, r) \/ RenewLease(p, r) \/ WorkspaceExpires(p, r)
        PROVE  UNCHANGED submission
    BY <2>2 DEF Cancel, RenewLease, WorkspaceExpires, store
  <2>3. ASSUME NEW p \in Process,
               \/ Start(p) \/ Shutdown(p) \/ ShutdownDone(p) \/ Crash(p)
               \/ \E s \in Submission : SubmitCheck(p, s)
        PROVE  UNCHANGED submission
    BY <2>3 DEF Start, Shutdown, ShutdownDone, Crash, SubmitCheck, store
  <2>4. ASSUME NEW p \in Process,
               \/ \E c \in {"expired", "finished"} : SweepBegins(p, c)
               \/ \E i \in sweep[p] : SweepStep(p, i)
               \/ \E i \in reclaiming[p] : Reclaimed(p, i)
        PROVE  UNCHANGED submission
    BY <2>4 DEF SweepBegins, SweepStep, Reclaimed, store
  <2>5. ASSUME NEW r \in Run, LeaseLapses(r) PROVE UNCHANGED submission
    BY <2>5 DEF LeaseLapses
  <2>6. CASE UNCHANGED vars
    BY <1>2, <2>6 DEF vars, store
  <2> QED
    <3>1. CASE Next
      <4>1. UNCHANGED submission
        BY <1>3, <2>1, <2>2, <2>3, <2>4, <2>5, <3>1 DEF Next
      <4> QED
        BY <1>2, <4>1
    <3> QED
      BY <1>2, <2>6, <3>1
<1> QED
  BY <1>1, <1>3

\* A key of a principal never produces two runs (store.ts:14-15), whoever
\* submits it, how often and to which process: the lookup and the insertion
\* are one transaction.
THEOREM OneRunPerKeyCorrect == Spec => []OneRunPerKey
<1>1. Init => OneRunPerKey
  BY DEF Init, OneRunPerKey, NoSubmission
<1> QED
  BY <1>1, TypeCorrect, NextOneRunPerKey, PTL DEF Spec

-----------------------------------------------------------------------------
(* The coordinator implements RemoteRuns                                   *)

\* DriverOf and OutcomeOf as functions of the phases and of the status, so
\* that what is said of them can be said of the next state too.
DriverIn(ph, r) ==
    IF \E p \in Process : ph[p][r] \in Renewing
    THEN CHOOSE p \in Process : ph[p][r] \in Renewing
    ELSE NoProcess

OutcomeIn(d, st) == IF d = NoProcess /\ st \in TERMINAL THEN st ELSE "open"

LEMMA RefinementMapping ==
    /\ \A r \in Run : DriverOf(r) = DriverIn(phase, r)
    /\ \A r \in Run : DriverOf(r)' = DriverIn(phase', r)
    /\ \A r \in Run : OutcomeOf(r) = OutcomeIn(DriverIn(phase, r), status[r])
    /\ \A r \in Run : OutcomeOf(r)' = OutcomeIn(DriverIn(phase', r), status'[r])
  BY DEF DriverOf, Drives, DriverIn, OutcomeOf, OutcomeIn

LEMMA DriverInIs ==
    ASSUME NEW ph, NEW r, NEW p \in Process, ph[p][r] \in Renewing,
           \A q \in Process : ph[q][r] \in Renewing => q = p
    PROVE  DriverIn(ph, r) = p
  BY DEF DriverIn

LEMMA NobodyDrives ==
    ASSUME NEW ph, NEW r, \A q \in Process : ph[q][r] \notin Renewing
    PROVE  DriverIn(ph, r) = NoProcess
  BY DEF DriverIn

LEMMA SameDriver ==
    ASSUME NEW ph, NEW qh, NEW r,
           \A q \in Process : ph[q][r] \in Renewing <=> qh[q][r] \in Renewing
    PROVE  DriverIn(qh, r) = DriverIn(ph, r)
<1>1. \A q \in Process : (ph[q][r] \in Renewing) = (qh[q][r] \in Renewing)
  OBVIOUS
<1>2. (CHOOSE q \in Process : ph[q][r] \in Renewing) = (CHOOSE q \in Process : qh[q][r] \in Renewing)
  BY <1>1
<1> QED
  BY <1>1, <1>2 DEF DriverIn

LEMMA OutcomeInType ==
    ASSUME NEW d, NEW st PROVE OutcomeIn(d, st) \in RR!Outcome
  BY DEF OutcomeIn, TERMINAL, RR!Outcome

\* The abstract state, as the mapping computes it.
absDriver == [r \in Run |-> DriverOf(r)]
absOutcome == [r \in Run |-> OutcomeOf(r)]

\* A step that changes neither who drives a run nor, where nobody does, a
\* terminal status, is a stuttering step of RemoteRuns.
LEMMA StutterStep ==
    ASSUME \A p \in Process, r \in Run : phase'[p][r] \in Renewing <=> phase[p][r] \in Renewing,
           \A r \in Run : \/ status'[r] = status[r]
                          \/ status[r] \notin TERMINAL /\ status'[r] \notin TERMINAL
                          \/ DriverIn(phase, r) # NoProcess
    PROVE  UNCHANGED <<absDriver, absOutcome>>
<1>1. \A r \in Run : DriverIn(phase', r) = DriverIn(phase, r)
  BY SameDriver
<1>2. \A r \in Run : OutcomeIn(DriverIn(phase', r), status'[r])
                       = OutcomeIn(DriverIn(phase, r), status[r])
  BY <1>1 DEF OutcomeIn
<1>3. \A r \in Run : DriverOf(r)' = DriverOf(r) /\ OutcomeOf(r)' = OutcomeOf(r)
  BY <1>1, <1>2, RefinementMapping
<1> QED
  BY <1>3 DEF absDriver, absOutcome

\* The end of drives of p, in whatever status, is a LetGo.
LEMMA LetGoStep ==
    ASSUME OneDriver, NEW p \in Process, NEW S \in SUBSET Run,
           \A r \in S : Drives(p, r) /\ phase'[p][r] \notin Renewing,
           \A q \in Process, r \in Run : q # p \/ r \notin S =>
               (phase'[q][r] \in Renewing <=> phase[q][r] \in Renewing),
           \A r \in Run \ S : status'[r] = status[r]
    PROVE  RR!LetGo(p, S)
<1>1. \A r \in S : DriverOf(r) = p
  BY DriverInIs, RefinementMapping DEF OneDriver, Drives
<1>2. ASSUME NEW r \in S PROVE DriverOf(r)' = NoProcess
  <2>1. \A q \in Process : phase'[q][r] \notin Renewing
    BY DEF OneDriver, Drives
  <2> QED
    BY <2>1, NobodyDrives, RefinementMapping
<1>3. ASSUME NEW r \in Run \ S
      PROVE  DriverOf(r)' = DriverOf(r) /\ OutcomeOf(r)' = OutcomeOf(r)
  <2>1. \A q \in Process : phase[q][r] \in Renewing <=> phase'[q][r] \in Renewing
    OBVIOUS
  <2>2. DriverIn(phase', r) = DriverIn(phase, r)
    BY <2>1, SameDriver
  <2> QED
    BY <2>2, RefinementMapping
<1>4. absDriver' = [r \in Run |-> IF r \in S THEN NoProcess ELSE absDriver[r]]
  BY <1>2, <1>3 DEF absDriver
<1>5. absOutcome' \in [Run -> RR!Outcome]
  <2>1. \A r \in Run : OutcomeOf(r)' \in RR!Outcome
    BY OutcomeInType, RefinementMapping
  <2> QED
    BY <2>1 DEF absOutcome
<1>6. \A r \in Run \ S : absOutcome'[r] = absOutcome[r]
  BY <1>3 DEF absOutcome
<1> QED
  BY <1>1, <1>4, <1>5, <1>6 DEF RR!LetGo, absDriver, absOutcome

\* Taking a run that is not finished is a Take.
LEMMA TakeStep ==
    ASSUME NEW p \in Process, NEW r \in Run,
           \A q \in Process : ~Drives(q, r), status[r] \notin TERMINAL,
           phase'[p][r] \in Renewing,
           \A q \in Process, s \in Run : q # p \/ s # r => phase'[q][s] = phase[q][s],
           \A s \in Run : s # r => status'[s] = status[s],
           status'[r] \notin TERMINAL
    PROVE  RR!Take(p, r)
<1>1. DriverOf(r) = NoProcess /\ OutcomeOf(r) = "open"
  BY NobodyDrives, RefinementMapping DEF Drives, OutcomeIn
<1>2. DriverOf(r)' = p
  BY DriverInIs, RefinementMapping DEF Drives
<1>3. OutcomeOf(r)' = "open"
  BY RefinementMapping DEF OutcomeIn
<1>4. ASSUME NEW s \in Run, s # r
      PROVE  DriverOf(s)' = DriverOf(s) /\ OutcomeOf(s)' = OutcomeOf(s)
  <2>1. \A q \in Process : phase[q][s] \in Renewing <=> phase'[q][s] \in Renewing
    BY <1>4
  <2>2. DriverIn(phase', s) = DriverIn(phase, s)
    BY <2>1, SameDriver
  <2> QED
    BY <1>4, <2>2, RefinementMapping
<1>5. absDriver' = [absDriver EXCEPT ![r] = p]
  BY <1>2, <1>4 DEF absDriver
<1>6. UNCHANGED absOutcome
  BY <1>1, <1>3, <1>4 DEF absOutcome
<1> QED
  BY <1>1, <1>5, <1>6 DEF RR!Take, absDriver, absOutcome

\* A person's cancellation of a run that nobody drives is a Withdraw.
LEMMA CancelStep ==
    ASSUME TypeOK, NEW p \in Process, NEW r \in Run, Cancel(p, r)
    PROVE  RR!Withdraw(r) \/ UNCHANGED <<absDriver, absOutcome>>
<1>1. UNCHANGED phase
  BY DEF Cancel
<1>2. \A s \in Run : s # r => status'[s] = status[s]
  BY DEF Cancel, TypeOK
<1>3. CASE status'[r] = status[r] \/ DriverIn(phase, r) # NoProcess
  BY <1>1, <1>2, <1>3, StutterStep
<1>4. CASE status'[r] # status[r] /\ DriverIn(phase, r) = NoProcess
  <2>1. status'[r] = "CANCELLED"
    BY <1>4 DEF Cancel, TypeOK
  <2>2. \A s \in Run : DriverOf(s)' = DriverOf(s)
    BY <1>1, RefinementMapping
  <2>3. OutcomeOf(r)' = "CANCELLED" /\ DriverOf(r) = NoProcess
    BY <1>1, <1>4, <2>1, RefinementMapping DEF OutcomeIn, TERMINAL
  <2>4. \A s \in Run : s # r => OutcomeOf(s)' = OutcomeOf(s)
    BY <1>1, <1>2, RefinementMapping
  <2>5. absOutcome' = [absOutcome EXCEPT ![r] = "CANCELLED"] /\ UNCHANGED absDriver
    BY <2>2, <2>3, <2>4 DEF absDriver, absOutcome
  <2> QED
    BY <2>3, <2>5 DEF RR!Withdraw, absDriver, absOutcome
<1> QED
  BY <1>3, <1>4

\* Every step of a drive maps to a step or a stutter.
LEMMA DriveStepRefines ==
    ASSUME DrivingInv, NEW p \in Process, NEW r \in Run, DriveStep(p, r)
    PROVE  \/ RR!Take(p, r) \/ RR!LetGo(p, {r})
           \/ UNCHANGED <<absDriver, absOutcome>>
<1> USE DEF DrivingInv, Driving
<1>1. OneDriver
  BY DEF DriverHoldsLease, OneDriver
<1>2. CASE Drive(p, r)
  <2>1. CASE UNCHANGED <<status, phase>>
    BY <2>1, StutterStep
  <2>2. CASE /\ CanAcquire(p, r) /\ status[r] # "CANCELLED"
             /\ status' = [status EXCEPT ![r] = "PROVISIONING"]
             /\ phase' = [phase EXCEPT ![p][r] = "provisioning"]
    <3>1. phase[p][r] = "none" /\ status[r] \notin TERMINAL
      BY <1>2, <2>2 DEF Drive, TodoIsFresh, Active, TERMINAL
    <3>2. \A q \in Process : ~Drives(q, r)
      BY <2>2, <3>1, CoordinatorAssumption
         DEF CanAcquire, DriverHoldsLease, Drives, Renewing
    <3>3. phase'[p][r] \in Renewing /\ status'[r] \notin TERMINAL
      BY <2>2 DEF Renewing, TERMINAL, TypeOK
    <3>4. /\ \A q \in Process, s \in Run : q # p \/ s # r => phase'[q][s] = phase[q][s]
          /\ \A s \in Run : s # r => status'[s] = status[s]
      BY <2>2 DEF TypeOK
    <3> QED
      BY <3>1, <3>2, <3>3, <3>4, TakeStep
  <2> QED
    BY <1>2, <2>1, <2>2 DEF Drive
<1>3. CASE ContainerCreated(p, r)
  BY <1>3, StutterStep DEF ContainerCreated, store, memory
<1>4. CASE Answered(p, r)
  <2>1. /\ phase[p][r] # "none"
        /\ \A q \in Process, s \in Run : q # p \/ s # r => phase'[q][s] = phase[q][s]
        /\ \A s \in Run : s # r => status'[s] = status[s]
    BY <1>4, AnsweredStep
  <2>2. CASE Drives(p, r) /\ phase'[p][r] \notin Renewing
    BY <1>1, <2>1, <2>2, LetGoStep
  <2>3. CASE Drives(p, r) /\ phase'[p][r] \in Renewing
    <3>1. DriverIn(phase, r) # NoProcess
      BY <1>1, <2>3, DriverInIs, CoordinatorAssumption DEF OneDriver, Drives
    <3> QED
      BY <2>1, <2>3, <3>1, StutterStep DEF Drives
  <2>4. CASE ~Drives(p, r)
    <3>1. UNCHANGED status /\ phase'[p][r] = "none"
      BY <1>4, <2>4 DEF Answered, Provisioned, ProvisionFails, LoopStarts, DriveFails,
         LoopEnds, Published, Released, Drives, Renewing, TypeOK
    <3> QED
      BY <2>1, <2>4, <3>1, StutterStep DEF Drives, Renewing
  <2> QED
    BY <2>2, <2>3, <2>4 DEF Drives
<1> QED
  BY <1>2, <1>3, <1>4 DEF DriveStep, Answered

LEMMA NextRefines ==
    ASSUME DrivingInv, [Next]_vars
    PROVE  [RR!Next]_<<absDriver, absOutcome>>
<1>1. OneDriver
  BY DEF DrivingInv, Driving, DriverHoldsLease, OneDriver
<1>2. CASE UNCHANGED <<status, phase>>
  BY <1>2, StutterStep
<1>3. ASSUME NEW p \in Process, NEW r \in Run, DriveStep(p, r)
      PROVE  [RR!Next]_<<absDriver, absOutcome>>
  <2>1. {r} \in SUBSET Run
    OBVIOUS
  <2> QED
    BY <1>3, <2>1, DriveStepRefines DEF RR!Next
<1>4. ASSUME NEW p \in Process, NEW r \in Run, Cancel(p, r)
      PROVE  [RR!Next]_<<absDriver, absOutcome>>
  BY <1>4, CancelStep DEF RR!Next, DrivingInv
<1>5. ASSUME NEW p \in Process, Crash(p)
      PROVE  [RR!Next]_<<absDriver, absOutcome>>
  <2> DEFINE S == {r \in Run : Drives(p, r)}
  <2>1. UNCHANGED status /\ phase' = [phase EXCEPT ![p] = [r \in Run |-> "none"]]
    BY <1>5 DEF Crash, store
  <2>2. /\ \A q \in Process, r \in Run : q # p => phase'[q][r] = phase[q][r]
        /\ \A r \in Run : phase'[p][r] = "none"
    BY <2>1 DEF DrivingInv, TypeOK
  <2>3. /\ S \in SUBSET Run
        /\ \A r \in S : Drives(p, r) /\ phase'[p][r] \notin Renewing
        /\ \A q \in Process, r \in Run : q # p \/ r \notin S =>
               (phase'[q][r] \in Renewing <=> phase[q][r] \in Renewing)
    BY <2>2 DEF Drives, Renewing
  <2>4. RR!LetGo(p, S)
    BY <1>1, <2>1, <2>3, LetGoStep
  <2> QED
    BY <2>3, <2>4 DEF RR!Next
<1>6. ASSUME NEW p \in Process, SubmitCreate(p)
      PROVE  [RR!Next]_<<absDriver, absOutcome>>
  <2>1. UNCHANGED phase
    BY <1>6 DEF SubmitCreate
  <2>2. \A r \in Run : \/ status'[r] = status[r]
                       \/ status[r] = "ABSENT" /\ status'[r] = "QUEUED"
    BY <1>6 DEF SubmitCreate, DrivingInv, TypeOK
  <2> QED
    BY <2>1, <2>2, StutterStep DEF TERMINAL
<1>7. ASSUME NEW p \in Process,
             \/ Start(p) \/ Shutdown(p) \/ ShutdownDone(p)
             \/ \E s \in Submission : SubmitCheck(p, s)
             \/ \E c \in {"expired", "finished"} : SweepBegins(p, c)
      PROVE  UNCHANGED <<status, phase>>
  BY <1>7 DEF Start, Shutdown, ShutdownDone, SubmitCheck, SweepBegins, store
<1>8. ASSUME NEW p \in Process,
             \/ \E i \in sweep[p] : SweepStep(p, i)
             \/ \E i \in reclaiming[p] : Reclaimed(p, i)
             \/ \E r \in Run : RenewLease(p, r) \/ WorkspaceExpires(p, r)
      PROVE  UNCHANGED <<status, phase>>
  BY <1>8 DEF SweepStep, Reclaimed, RenewLease, WorkspaceExpires, store, memory
<1>9. ASSUME NEW r \in Run, LeaseLapses(r) PROVE UNCHANGED <<status, phase>>
  BY <1>9 DEF LeaseLapses, memory
<1>10. CASE UNCHANGED vars
  BY <1>2, <1>10 DEF vars, store, memory
<1>11. CASE Next
  BY <1>2, <1>3, <1>4, <1>5, <1>6, <1>7, <1>8, <1>9, <1>11 DEF Next
<1> QED
  BY <1>10, <1>11

LEMMA InitRefines == Init => RR!Init
<1> SUFFICES ASSUME Init PROVE RR!Init
  OBVIOUS
<1>1. \A r \in Run, p \in Process : phase[p][r] \notin Renewing
  BY DEF Init, Renewing
<1>2. \A r \in Run : DriverOf(r) = NoProcess
  BY <1>1, NobodyDrives, RefinementMapping
<1>3. \A r \in Run : OutcomeOf(r) = "open"
  BY RefinementMapping DEF Init, OutcomeIn, TERMINAL
<1> QED
  BY <1>2, <1>3 DEF RR!Init

\* As long as timers fire in time the coordinator implements RemoteRuns: one
\* driver at a time, and what is let go in a terminal status is never taken
\* again (store.ts:58), through crashes, recoveries and cancellations.
THEOREM RemoteRunsImplemented == ASSUME Timely PROVE Spec => ImplementsRemoteRuns
<1>1. Spec => []DrivingInv
  BY DrivingInvariant
<1>2. Init => RR!Init
  BY InitRefines
<1>3. DrivingInv /\ [Next]_vars => [RR!Next]_<<absDriver, absOutcome>>
  BY NextRefines
<1> QED
  BY <1>1, <1>2, <1>3, PTL DEF Spec, ImplementsRemoteRuns, RR!Spec, absDriver, absOutcome

-----------------------------------------------------------------------------
(* One process at a time                                                   *)
(*                                                                         *)
(* When a coordinator is only started after the one before it has stopped  *)
(* or died, whatever a process is in the middle of is the only thing that  *)
(* goes on.                                                                *)

\* A process that is in the middle of nothing.
Down(q) ==
    /\ asked[q] = NoSubmission /\ todo[q] = {} /\ sweep[q] = {} /\ reclaiming[q] = {}
    /\ \A r \in Run : phase[q][r] = "none"

\* What a process may be in the middle of: it drives, or is about to drive,
\* runs that have not finished - unless a person asked for it - and a run it
\* has taken names its workspace until the drive is over.
Calm(q) ==
    /\ ~Alive(q) => Down(q)
    /\ proc[q] = "stopping" => asked[q] = NoSubmission /\ todo[q] = {}
    /\ asked[q] # NoSubmission => todo[q] = {}
    /\ \A r \in todo[q] : status[r] \in Active
    /\ \A r \in Run : Drives(q, r) => status[r] \in Active \/ cancelAsked[r]
    /\ \A r \in Run : phase[q][r] # "none" => workspaceOf[r] = q

Alone ==
    /\ \A p, q \in Process : Alive(p) /\ Alive(q) => p = q
    /\ \A q \in Process : Calm(q)

AloneInv == TypeOK /\ Alone

\* A step that is not one of q.
Untouched(q) ==
    /\ proc'[q] = proc[q] /\ asked'[q] = asked[q] /\ todo'[q] = todo[q]
    /\ phase'[q] = phase[q] /\ sweep'[q] = sweep[q] /\ reclaiming'[q] = reclaiming[q]

\* A process that is down is calm, whatever happens to the store.
LEMMA DownIsCalm == ASSUME NEW q, todo[q] \subseteq Run, Down(q) PROVE Calm(q)
  BY DEF Calm, Down, Drives, Renewing

LEMMA DownIsCalmNext == ASSUME NEW q, Down(q)' PROVE Calm(q)'
  BY DEF Calm, Down, Drives, Renewing

\* While a process is up no other one is.
LEMMA OthersAreDown ==
    ASSUME Alone, NEW p \in Process, Alive(p)
    PROVE  \A q \in Process \ {p} : ~Alive(q) /\ Down(q)
  BY DEF Alone, Calm

\* In a step of the one process that is up, only that process has to be
\* looked at.
LEMMA AloneStep ==
    ASSUME Alone, NEW p \in Process,
           \A q \in Process \ {p} : ~Alive(q) /\ Untouched(q), Calm(p)'
    PROVE  Alone'
<1>1. ASSUME NEW q \in Process \ {p} PROVE ~Alive(q)' /\ Down(q)'
  <2>1. Down(q)
    BY DEF Alone, Calm
  <2> QED
    BY <2>1 DEF Down, Untouched, Alive
<1>2. \A q \in Process : Calm(q)'
  BY <1>1, DownIsCalmNext
<1>3. \A x, y \in Process : Alive(x)' /\ Alive(y)' => x = y
  BY <1>1
<1> QED
  BY <1>2, <1>3 DEF Alone

\* Steps outside the processes and their decisions.
LEMMA AloneFrame ==
    ASSUME Alone,
           UNCHANGED <<status, workspaceOf, cancelAsked, proc, asked, todo, phase, sweep, reclaiming>>
    PROVE  Alone'
<1>1. \A q \in Process : Calm(q)'
  BY DEF Alone, Calm, Alive, Down, Drives
<1> QED
  BY <1>1 DEF Alone, Alive

\* A process starts: there is no other, and what it is about to drive is
\* not finished.
LEMMA StartAlone ==
    ASSUME ~Overlap, AloneInv, NEW p \in Process, Start(p) PROVE Alone'
<1> USE DEF AloneInv
<1>1. \A q \in Process : ~Alive(q)
  BY DEF Start
<1>2. Down(p)
  BY <1>1 DEF Alone, Calm
<1>3. UNCHANGED <<status, workspaceOf, cancelAsked, asked, phase, sweep, reclaiming>>
  BY DEF Start, store
<1>4. /\ proc'[p] = "up" /\ todo'[p] = listAbandoned
      /\ \A q \in Process \ {p} : proc'[q] = proc[q] /\ todo'[q] = todo[q]
  BY DEF Start, TypeOK
<1>5. Calm(p)'
  <2>1. Alive(p)' /\ proc'[p] # "stopping"
    BY <1>4 DEF Alive
  <2>2. asked'[p] = NoSubmission /\ \A r \in Run : phase'[p][r] = "none"
    BY <1>2, <1>3 DEF Down
  <2>3. \A r \in todo'[p] : status'[r] \in Active
    BY <1>3, <1>4 DEF listAbandoned
  <2> QED
    BY <2>1, <2>2, <2>3 DEF Calm, Drives, Renewing
<1> QED
  BY <1>1, <1>3, <1>4, <1>5, AloneStep DEF Untouched

\* A process stops or dies.
LEMMA StopAlone ==
    ASSUME AloneInv, NEW p \in Process, Shutdown(p) \/ ShutdownDone(p) \/ Crash(p)
    PROVE  Alone'
<1> USE DEF AloneInv
<1>1. Alive(p)
  BY DEF Shutdown, ShutdownDone, Crash, Alive
<1>2. \A q \in Process \ {p} : ~Alive(q)
  BY <1>1, OthersAreDown
<1>3. \A q \in Process \ {p} : Untouched(q)
  BY DEF Shutdown, ShutdownDone, Crash, Untouched, TypeOK
<1>4. UNCHANGED <<status, workspaceOf, cancelAsked>>
  BY DEF Shutdown, ShutdownDone, Crash, store
<1>5. Calm(p)
  BY DEF Alone
<1>6. CASE Shutdown(p)
  <2>1. UNCHANGED <<asked, todo, phase, sweep, reclaiming>> /\ proc'[p] = "stopping"
    BY <1>6 DEF Shutdown, TypeOK
  <2>2. asked[p] = NoSubmission /\ todo[p] = {}
    BY <1>6 DEF Shutdown, Busy
  <2>3. Calm(p)'
    BY <1>4, <1>5, <2>1, <2>2 DEF Calm, Alive, Drives
  <2> QED
    BY <1>2, <1>3, <2>3, AloneStep
<1>7. CASE ShutdownDone(p)
  <2>1. asked[p] = NoSubmission /\ todo[p] = {}
    BY <1>5, <1>7 DEF Calm, ShutdownDone
  <2>2. Down(p)'
    BY <1>7, <2>1 DEF ShutdownDone, Down, TypeOK
  <2> QED
    BY <1>2, <1>3, <2>2, AloneStep, DownIsCalmNext
<1>8. CASE Crash(p)
  <2>1. Down(p)'
    BY <1>8 DEF Crash, Down, TypeOK
  <2> QED
    BY <1>2, <1>3, <2>1, AloneStep, DownIsCalmNext
<1> QED
  BY <1>6, <1>7, <1>8


\* A submission: past its check nothing else is under way, and the run it
\* makes is to be driven.
LEMMA SubmitAlone ==
    ASSUME AloneInv, NEW p \in Process,
           SubmitCreate(p) \/ \E s \in Submission : SubmitCheck(p, s)
    PROVE  Alone'
<1> USE DEF AloneInv
<1>1. Calm(p)
  BY DEF Alone
<1>2. proc[p] = "up"
  BY <1>1 DEF SubmitCreate, SubmitCheck, Calm, Alive, Down, TypeOK
<1>3. \A q \in Process \ {p} : ~Alive(q)
  BY <1>2, OthersAreDown DEF Alive
<1>4. \A q \in Process \ {p} : Untouched(q)
  <2>1. CASE SubmitCreate(p)
    BY <2>1 DEF SubmitCreate, Untouched, TypeOK
  <2>2. CASE \E s \in Submission : SubmitCheck(p, s)
    BY <2>2 DEF SubmitCheck, Untouched, TypeOK
  <2> QED
    BY <2>1, <2>2
<1>5. UNCHANGED <<workspaceOf, cancelAsked, proc, phase, sweep, reclaiming>>
  BY DEF SubmitCreate, SubmitCheck, store
<1>6. CASE \E s \in Submission : SubmitCheck(p, s)
  <2>1. todo[p] = {} /\ UNCHANGED <<status, todo>>
    BY <1>6 DEF SubmitCheck, Busy, store
  <2>2. Calm(p)'
    BY <1>1, <1>2, <1>5, <2>1 DEF Calm, Alive, Drives
  <2> QED
    BY <1>3, <1>4, <2>2, AloneStep
<1>7. CASE SubmitCreate(p)
  <2>1. asked'[p] = NoSubmission
    BY <1>7 DEF SubmitCreate, TypeOK
  <2>2. todo[p] = {}
    BY <1>1, <1>7 DEF SubmitCreate, Calm
  <2>3. \A r \in todo'[p] : status'[r] \in Active
    BY <1>7, <2>2 DEF SubmitCreate, Active, TypeOK
  <2>4. \A r \in Run : status[r] \in Active => status'[r] \in Active
    BY <1>7 DEF SubmitCreate, Active, TypeOK
  <2>5. Calm(p)'
    BY <1>1, <1>2, <1>5, <2>1, <2>3, <2>4 DEF Calm, Alive, Drives
  <2> QED
    BY <1>3, <1>4, <2>5, AloneStep
<1> QED
  BY <1>6, <1>7

\* A cancellation is remembered as long as the run is driven.
LEMMA CancelAlone ==
    ASSUME AloneInv, NEW p \in Process, NEW r \in Run, Cancel(p, r) PROVE Alone'
<1> USE DEF AloneInv
<1>1. Calm(p)
  BY DEF Alone
<1>2. proc[p] = "up" /\ asked[p] = NoSubmission /\ todo[p] = {}
  BY DEF Cancel, Busy
<1>3. \A q \in Process \ {p} : ~Alive(q)
  BY <1>2, OthersAreDown DEF Alive
<1>4. UNCHANGED <<workspaceOf, proc, asked, todo, phase, sweep, reclaiming>>
  BY DEF Cancel
<1>5. \A s \in Run : status'[s] = status[s] \/ cancelAsked'[s]
  BY DEF Cancel, TypeOK
<1>6. \A s \in Run : cancelAsked[s] => cancelAsked'[s]
  BY DEF Cancel, TypeOK
<1>7. Calm(p)'
  BY <1>1, <1>2, <1>4, <1>5, <1>6 DEF Calm, Alive, Drives
<1> QED
  BY <1>3, <1>4, <1>7, AloneStep DEF Untouched

\* What a drive that begins is like: the run is not finished, so the branch
\* that hands back a cancelled run is not taken.
LEMMA DriveBegins ==
    ASSUME AloneInv, NEW p \in Process, NEW r \in Run, Drive(p, r)
    PROVE  /\ Alive(p) /\ asked[p] = NoSubmission /\ status[r] \in Active
           /\ UNCHANGED <<submission, handle, expired, container,
                          proc, asked, result, sweep, reclaiming, cancelAsked>>
           /\ todo' = [todo EXCEPT ![p] = @ \ {r}]
           /\ \/ UNCHANGED <<status, workspaceOf, lease, leaseLive, rowStatus, phase>>
              \/ /\ status' = [status EXCEPT ![r] = "PROVISIONING"]
                 /\ rowStatus' = [rowStatus EXCEPT ![p][r] = "provisioning"]
                 /\ workspaceOf' = [workspaceOf EXCEPT ![r] = p]
                 /\ phase' = [phase EXCEPT ![p][r] = "provisioning"]
<1>1. Calm(p) /\ r \in todo[p]
  BY DEF AloneInv, Alone, Drive
<1>2. Alive(p) /\ asked[p] = NoSubmission /\ status[r] \in Active
  BY <1>1 DEF Calm, Down
<1>3. status[r] # "CANCELLED"
  BY <1>2 DEF Active
<1>4. /\ UNCHANGED <<submission, handle, expired, container,
                     proc, asked, result, sweep, reclaiming, cancelAsked>>
      /\ todo' = [todo EXCEPT ![p] = @ \ {r}]
  BY DEF Drive
<1>5. \/ UNCHANGED <<status, workspaceOf, lease, leaseLive, rowStatus, phase>>
      \/ /\ status' = [status EXCEPT ![r] = "PROVISIONING"]
         /\ rowStatus' = [rowStatus EXCEPT ![p][r] = "provisioning"]
         /\ workspaceOf' = [workspaceOf EXCEPT ![r] = p]
         /\ phase' = [phase EXCEPT ![p][r] = "provisioning"]
  BY <1>3 DEF Drive
<1> QED
  BY <1>2, <1>4, <1>5

LEMMA DriveAlone ==
    ASSUME AloneInv, NEW p \in Process, NEW r \in Run, Drive(p, r) PROVE Alone'
<1> USE DEF AloneInv
<1>1. /\ Calm(p) /\ Alive(p) /\ asked[p] = NoSubmission /\ status[r] \in Active
      /\ UNCHANGED <<proc, asked, sweep, reclaiming, cancelAsked>>
  BY DriveBegins DEF Alone
<1>2. \A q \in Process \ {p} : ~Alive(q)
  BY <1>1, OthersAreDown
<1>3. todo'[p] \subseteq todo[p] /\ \A q \in Process \ {p} : todo'[q] = todo[q]
  BY DriveBegins DEF TypeOK
<1>4. CASE UNCHANGED <<status, workspaceOf, phase>>
  <2>1. Calm(p)'
    BY <1>1, <1>3, <1>4 DEF Calm, Alive, Drives
  <2> QED
    BY <1>1, <1>2, <1>3, <1>4, <2>1, AloneStep DEF Untouched
<1>5. CASE /\ status' = [status EXCEPT ![r] = "PROVISIONING"]
           /\ workspaceOf' = [workspaceOf EXCEPT ![r] = p]
           /\ phase' = [phase EXCEPT ![p][r] = "provisioning"]
  <2>1. status'[r] \in Active /\ workspaceOf'[r] = p
    BY <1>5 DEF Active, TypeOK
  <2>2. \A s \in Run : s # r => /\ status'[s] = status[s] /\ workspaceOf'[s] = workspaceOf[s]
                                /\ phase'[p][s] = phase[p][s]
    BY <1>5 DEF TypeOK
  <2>3. \A q \in Process \ {p} : phase'[q] = phase[q]
    BY <1>5 DEF TypeOK
  <2>4. Calm(p)'
    <3>1. \A s \in todo'[p] : s \in Run
      BY <1>3 DEF TypeOK
    <3>2. \A s \in todo'[p] : status'[s] \in Active
      BY <1>1, <1>3, <2>1, <2>2, <3>1 DEF Calm
    <3>3. \A s \in Run : Drives(p, s)' => status'[s] \in Active \/ cancelAsked'[s]
      BY <1>1, <2>1, <2>2 DEF Calm, Drives
    <3>4. \A s \in Run : phase'[p][s] # "none" => workspaceOf'[s] = p
      BY <1>1, <2>1, <2>2 DEF Calm
    <3>5. Alive(p)' /\ asked'[p] = NoSubmission
          /\ (proc'[p] = "stopping" => todo'[p] = {})
      BY <1>1, <1>3 DEF Alive, Calm
    <3> QED
      BY <3>2, <3>3, <3>4, <3>5 DEF Calm
  <2> QED
    BY <1>1, <1>2, <1>3, <2>3, <2>4, AloneStep DEF Untouched
<1> QED
  BY <1>4, <1>5, DriveBegins

\* Something a drive awaited arrived: no submission and no drive to start is
\* pending in any process.
LEMMA AnsweredQuiet ==
    ASSUME AloneInv, NEW p \in Process, NEW r \in Run, Answered(p, r)
    PROVE  /\ Alive(p) /\ \A q \in Process : asked[q] = NoSubmission /\ todo[q] = {}
           /\ UNCHANGED <<submission, workspaceOf, expired, proc, asked, todo,
                          sweep, reclaiming, cancelAsked>>
<1>1. Answer(p) /\ phase[p][r] # "none"
  BY AnsweredStep DEF AloneInv
<1>2. Alive(p)
  BY <1>1 DEF AloneInv, Alone, Calm, Down
<1>3. asked[p] = NoSubmission /\ todo[p] = {}
  BY <1>1 DEF Answer, Busy
<1>4. \A q \in Process \ {p} : asked[q] = NoSubmission /\ todo[q] = {}
  BY <1>2, OthersAreDown DEF AloneInv, Down
<1>5. UNCHANGED <<submission, workspaceOf, expired, proc, asked, todo,
                  sweep, reclaiming, cancelAsked>>
  BY DEF Answered, Provisioned, ProvisionFails, LoopStarts, DriveFails, LoopEnds,
         Published, Released, store, workspaces
<1> QED
  BY <1>2, <1>3, <1>4, <1>5

\* A drive that goes on writes no terminal status over its own run.
LEMMA AnsweredGoesOn ==
    ASSUME TypeOK, NEW p \in Process, NEW r \in Run, Answered(p, r), Drives(p, r)'
    PROVE  Drives(p, r) /\ status'[r] \in {status[r], "RUNNING"}
<1> USE DEF TypeOK
<1>1. CASE Provisioned(p, r)
  BY <1>1 DEF Provisioned, store, Drives, Renewing
<1>2. CASE ProvisionFails(p, r)
  BY <1>2 DEF ProvisionFails, Drives, Renewing
<1>3. CASE LoopStarts(p, r)
  BY <1>3 DEF LoopStarts, Drives, Renewing
<1>4. CASE DriveFails(p, r)
  BY <1>4 DEF DriveFails, Drives, Renewing
<1>5. CASE \E s \in LoopStatus : LoopEnds(p, r, s)
  BY <1>5 DEF LoopEnds, store, Drives, Renewing
<1>6. CASE Published(p, r)
  BY <1>6 DEF Published, Drives, Renewing
<1>7. CASE Released(p, r)
  BY <1>7 DEF Released, Drives, Renewing
<1> QED
  BY <1>1, <1>2, <1>3, <1>4, <1>5, <1>6, <1>7 DEF Answered

LEMMA AnsweredAlone ==
    ASSUME AloneInv, NEW p \in Process, NEW r \in Run, Answered(p, r) PROVE Alone'
<1> USE DEF AloneInv
<1>1. /\ Calm(p) /\ Alive(p) /\ asked[p] = NoSubmission /\ todo[p] = {}
      /\ UNCHANGED <<workspaceOf, proc, asked, todo, sweep, reclaiming, cancelAsked>>
  BY AnsweredQuiet DEF Alone
<1>2. \A q \in Process \ {p} : ~Alive(q)
  BY <1>1, OthersAreDown
<1>3. /\ phase[p][r] # "none"
      /\ \A q \in Process, s \in Run : q # p \/ s # r => phase'[q][s] = phase[q][s]
      /\ \A s \in Run : s # r => status'[s] = status[s]
  BY AnsweredStep
<1>4. phase' \in [Process -> [Run -> Phase]]
  <2>1. DriveStep(p, r)
    BY DEF DriveStep, Answered
  <2>2. Next
    BY <2>1 DEF Next
  <2> QED
    BY <2>2, NextTypeOK DEF TypeOK
<1>5. ASSUME NEW q \in Process \ {p} PROVE phase'[q] = phase[q]
  <2>1. phase[q] \in [Run -> Phase] /\ phase'[q] \in [Run -> Phase]
    BY <1>4 DEF TypeOK
  <2>2. \A s \in Run : phase'[q][s] = phase[q][s]
    BY <1>3
  <2> QED
    BY <2>1, <2>2
<1>6. Drives(p, r)' => status'[r] \in Active \/ cancelAsked'[r]
  BY <1>1, AnsweredGoesOn DEF Calm, Active
<1>7. Calm(p)'
  <2>1. \A s \in Run : Drives(p, s)' => status'[s] \in Active \/ cancelAsked'[s]
    BY <1>1, <1>3, <1>6 DEF Calm, Drives
  <2>2. \A s \in Run : phase'[p][s] # "none" => workspaceOf'[s] = p
    BY <1>1, <1>3 DEF Calm
  <2>3. Alive(p)' /\ asked'[p] = NoSubmission /\ todo'[p] = {}
    BY <1>1 DEF Alive
  <2> QED
    BY <2>1, <2>2, <2>3 DEF Calm
<1> QED
  BY <1>1, <1>2, <1>5, <1>7, AloneStep DEF Untouched


\* The sweeps of a reaper.
Sweeps(p) ==
    \/ \E c \in {"expired", "finished"} : SweepBegins(p, c)
    \/ \E i \in sweep[p] : SweepStep(p, i)
    \/ \E i \in reclaiming[p] : Reclaimed(p, i)

LEMMA SweepsQuiet ==
    ASSUME AloneInv, NEW p \in Process, Sweeps(p)
    PROVE  /\ Alive(p)
           /\ UNCHANGED <<store, handle, expired, proc, asked, todo, phase, result, cancelAsked>>
           /\ \A q \in Process \ {p} : sweep'[q] = sweep[q] /\ reclaiming'[q] = reclaiming[q]
<1>1. Alive(p)
  BY DEF Sweeps, SweepBegins, Alive, AloneInv, Alone, Calm, Down
<1>2. CASE \E c \in {"expired", "finished"} : SweepBegins(p, c)
  BY <1>1, <1>2 DEF SweepBegins, workspaces, AloneInv, TypeOK
<1>3. CASE \E i \in sweep[p] : SweepStep(p, i)
  BY <1>1, <1>3 DEF SweepStep, AloneInv, TypeOK
<1>4. CASE \E i \in reclaiming[p] : Reclaimed(p, i)
  BY <1>1, <1>4 DEF Reclaimed, AloneInv, TypeOK
<1> QED
  BY <1>2, <1>3, <1>4 DEF Sweeps

LEMMA SweepsAlone ==
    ASSUME AloneInv, NEW p \in Process, Sweeps(p) PROVE Alone'
<1>1. /\ Calm(p) /\ Alive(p)
      /\ UNCHANGED <<status, workspaceOf, proc, asked, todo, phase, cancelAsked>>
  BY SweepsQuiet DEF AloneInv, Alone, store
<1>2. Calm(p)'
  BY <1>1 DEF Calm, Alive, Drives
<1> QED
  BY <1>1, <1>2, OthersAreDown, SweepsQuiet, AloneStep DEF AloneInv, Untouched

\* Steps of no process: the clock, a container, nothing at all.
Outside ==
    \/ \E p \in Process, r \in Run :
          RenewLease(p, r) \/ WorkspaceExpires(p, r) \/ ContainerCreated(p, r)
    \/ \E r \in Run : LeaseLapses(r)
    \/ UNCHANGED vars

LEMMA OutsideQuiet ==
    ASSUME Outside
    PROVE  UNCHANGED <<status, submission, workspaceOf, rowStatus, handle, memory, cancelAsked>>
<1>1. ASSUME NEW p \in Process, NEW r \in Run,
             RenewLease(p, r) \/ WorkspaceExpires(p, r) \/ ContainerCreated(p, r)
      PROVE  UNCHANGED <<status, submission, workspaceOf, rowStatus, handle, memory, cancelAsked>>
  BY <1>1 DEF RenewLease, WorkspaceExpires, ContainerCreated, store, workspaces
<1>2. ASSUME NEW r \in Run, LeaseLapses(r)
      PROVE  UNCHANGED <<status, submission, workspaceOf, rowStatus, handle, memory, cancelAsked>>
  BY <1>2 DEF LeaseLapses, workspaces
<1>3. CASE UNCHANGED vars
  BY <1>3 DEF vars, store, workspaces
<1> QED
  BY <1>1, <1>2, <1>3 DEF Outside

\* Every step, by what it does to the processes.
LEMMA StepKinds ==
    ASSUME [Next]_vars
    PROVE  \/ Outside
           \/ \E p \in Process :
                 \/ Start(p) \/ Shutdown(p) \/ ShutdownDone(p) \/ Crash(p)
                 \/ SubmitCreate(p) \/ (\E s \in Submission : SubmitCheck(p, s))
                 \/ Sweeps(p)
                 \/ \E r \in Run : Cancel(p, r) \/ Drive(p, r) \/ Answered(p, r)
<1>1. ASSUME NEW p \in Process, NEW r \in Run, DriveStep(p, r)
      PROVE  Drive(p, r) \/ Answered(p, r) \/ Outside
  BY <1>1 DEF DriveStep, Answered, Outside
<1>2. CASE Next
  BY <1>1, <1>2 DEF Next, Sweeps, Outside
<1>3. CASE UNCHANGED vars
  BY <1>3 DEF Outside
<1> QED
  BY <1>2, <1>3

LEMMA NextAlone ==
    ASSUME ~Overlap, AloneInv, [Next]_vars PROVE AloneInv'
<1>1. TypeOK'
  BY NextTypeOK DEF AloneInv
<1>2. ASSUME Outside PROVE Alone'
  BY <1>2, OutsideQuiet, AloneFrame DEF AloneInv, memory
<1>3. Alone'
  BY <1>2, StepKinds, StartAlone, StopAlone, SubmitAlone, CancelAlone, DriveAlone,
     AnsweredAlone, SweepsAlone
<1> QED
  BY <1>1, <1>3 DEF AloneInv

LEMMA InitAlone == Init => AloneInv
<1> SUFFICES ASSUME Init PROVE Alone
  BY InitTypeOK DEF AloneInv
<1>1. \A q \in Process : ~Alive(q) /\ Down(q) /\ todo[q] \subseteq Run
  BY DEF Init, Alive, Down
<1> QED
  BY <1>1, DownIsCalm DEF Alone

-----------------------------------------------------------------------------
(* The quota                                                               *)

Rows == {r \in Run : status[r] # "ABSENT"}

\* The runs of a principal that hold a place, and those of them that nobody
\* asked to cancel.
Held(a) == {r \in Run : submission[r].by = a /\ status[r] \in Active}
Going(a) == {r \in Run : submission[r].by = a /\ status[r] \in Active /\ ~cancelAsked[r]}

\* A submission past its check still has room, or a run to be answered with:
\* nothing else that creates or revives a run happens before it is created.
Checked(q) ==
    asked[q] # NoSubmission =>
        RunsOfKey(asked[q]) # {} \/ activeRunCount(asked[q].by) < MaxConcurrentRuns

QuotaInv ==
    /\ AloneInv
    /\ IsFiniteSet(Rows)
    /\ \A q \in Process : Checked(q)
    /\ QuotaHeld

LEMMA QuotaOfGoing ==
    /\ QuotaHeld <=> \A a \in Principal : Cardinality(Going(a)) <= MaxConcurrentRuns
    /\ QuotaHeld' <=> \A a \in Principal : Cardinality(Going(a)') <= MaxConcurrentRuns
  BY DEF QuotaHeld, Going

\* A set of runs that only loses members keeps the quota.
LEMMA FewerGoing ==
    ASSUME QuotaHeld, IsFiniteSet(Rows), \A a \in Principal : Going(a)' \subseteq Going(a)
    PROVE  QuotaHeld'
<1> SUFFICES ASSUME NEW a \in Principal
             PROVE  Cardinality(Going(a)') <= MaxConcurrentRuns
  BY QuotaOfGoing
<1> DEFINE G == Going(a)
           H == Going(a)'
<1>1. IsFiniteSet(G)
  <2>1. G \subseteq Rows
    BY DEF Going, Rows, Active
  <2> HIDE DEF G
  <2> QED
    BY <2>1, FS_Subset
<1>2. Cardinality(G) <= MaxConcurrentRuns
  BY QuotaOfGoing
<1>3. H \subseteq G
  OBVIOUS
<1> HIDE DEF G, H
<1>4. IsFiniteSet(H) /\ Cardinality(H) <= Cardinality(G)
  BY <1>1, <1>3, FS_Subset
<1>5. Cardinality(H) \in Nat /\ Cardinality(G) \in Nat /\ MaxConcurrentRuns \in Nat
  BY <1>1, <1>4, FS_CardinalityType, CoordinatorAssumption
<1>6. Cardinality(H) <= MaxConcurrentRuns
  BY <1>2, <1>4, <1>5
<1> QED
  BY <1>6 DEF H

\* Rows of a store that has them for at most one run more stay finitely many.
LEMMA RowsFinite ==
    ASSUME IsFiniteSet(Rows), NEW x, Rows' \subseteq Rows \cup {x}
    PROVE  IsFiniteSet(Rows)'
<1> DEFINE R == Rows
           S == Rows'
<1>1. IsFiniteSet(R) /\ S \subseteq R \cup {x}
  OBVIOUS
<1> HIDE DEF R, S
<1>2. IsFiniteSet(R \cup {x})
  BY <1>1, FS_AddElement
<1>3. IsFiniteSet(S)
  BY <1>1, <1>2, FS_Subset
<1> QED
  BY <1>3 DEF S

\* The run a submission makes: its principal had room for it.
LEMMA CreateQuota ==
    ASSUME QuotaInv, NEW p \in Process, NEW r \in Run, asked[p] \in Submission,
           RunsOfKey(asked[p]) = {}, asked[p] # NoSubmission, status[r] = "ABSENT",
           status' = [status EXCEPT ![r] = "QUEUED"],
           submission' = [submission EXCEPT ![r] = asked[p]],
           UNCHANGED cancelAsked
    PROVE  QuotaHeld'
<1> USE DEF QuotaInv, AloneInv, TypeOK
<1> SUFFICES ASSUME NEW a \in Principal
             PROVE  Cardinality(Going(a)') <= MaxConcurrentRuns
  BY QuotaOfGoing
<1> DEFINE G == Going(a)
           H == Going(a)'
           A == Held(a)
<1>1. A \subseteq Rows /\ G \subseteq A
  BY DEF Held, Going, Rows, Active
<1>2. Cardinality(G) <= MaxConcurrentRuns
  BY QuotaOfGoing
<1>3. CASE asked[p].by = a
  <2>1. Cardinality(A) < MaxConcurrentRuns
    BY <1>3 DEF Checked, activeRunCount, Held
  <2>2. H \subseteq A \cup {r}
    BY DEF Going, Held
  <2> HIDE DEF G, H, A
  <2>3. IsFiniteSet(A)
    BY <1>1, FS_Subset
  <2>4. IsFiniteSet(A \cup {r}) /\ Cardinality(A \cup {r}) <= Cardinality(A) + 1
    <3>1. /\ IsFiniteSet(A \cup {r})
          /\ \/ Cardinality(A \cup {r}) = Cardinality(A)
             \/ Cardinality(A \cup {r}) = Cardinality(A) + 1
      BY <2>3, FS_AddElement
    <3>2. Cardinality(A) \in Nat
      BY <2>3, FS_CardinalityType
    <3> QED
      BY <3>1, <3>2
  <2>5. IsFiniteSet(H) /\ Cardinality(H) <= Cardinality(A \cup {r})
    BY <2>2, <2>4, FS_Subset
  <2>6. /\ Cardinality(H) \in Nat /\ Cardinality(A) \in Nat
        /\ Cardinality(A \cup {r}) \in Nat /\ MaxConcurrentRuns \in Nat
    BY <2>3, <2>4, <2>5, FS_CardinalityType, CoordinatorAssumption
  <2>7. Cardinality(H) <= MaxConcurrentRuns
    BY <2>1, <2>4, <2>5, <2>6
  <2> QED
    BY <2>7 DEF H
<1>4. CASE asked[p].by # a
  <2>1. H \subseteq G
    BY <1>4 DEF Going
  <2> HIDE DEF G, H, A
  <2>2. IsFiniteSet(G)
    <3>1. G \subseteq Rows
      BY <1>1
    <3> QED
      BY <3>1, FS_Subset
  <2>3. IsFiniteSet(H) /\ Cardinality(H) <= Cardinality(G)
    BY <2>1, <2>2, FS_Subset
  <2>4. Cardinality(H) \in Nat /\ Cardinality(G) \in Nat /\ MaxConcurrentRuns \in Nat
    BY <2>2, <2>3, FS_CardinalityType, CoordinatorAssumption
  <2>5. Cardinality(H) <= MaxConcurrentRuns
    BY <1>2, <2>3, <2>4
  <2> QED
    BY <2>5 DEF H
<1> QED
  BY <1>3, <1>4


\* What any other step does to the runs of a principal: none is added, and
\* none that was cancelled comes back.
FewerRuns ==
    /\ UNCHANGED submission
    /\ \A r \in Run : /\ status'[r] \in Active => status[r] \in Active \/ cancelAsked[r]
                      /\ cancelAsked[r] => cancelAsked'[r]
    /\ \E x \in Run \cup {NoKey} : \A r \in Run \ {x} : status'[r] = status[r]

LEMMA FewerRunsQuota ==
    ASSUME QuotaInv, FewerRuns PROVE QuotaHeld' /\ IsFiniteSet(Rows)'
<1>1. \A a \in Principal : Going(a)' \subseteq Going(a)
  BY DEF FewerRuns, Going
<1>2. PICK x \in Run \cup {NoKey} : \A r \in Run \ {x} : status'[r] = status[r]
  BY DEF FewerRuns
<1>3. Rows' \subseteq Rows \cup {x}
  BY <1>2 DEF Rows
<1> QED
  BY <1>1, <1>3, FewerGoing, RowsFinite DEF QuotaInv

LEMMA SameRuns ==
    ASSUME UNCHANGED <<status, submission, cancelAsked>> PROVE FewerRuns
  BY DEF FewerRuns

LEMMA CancelFewer ==
    ASSUME AloneInv, NEW p \in Process, NEW r \in Run, Cancel(p, r) PROVE FewerRuns
<1> USE DEF AloneInv, TypeOK
<1>1. UNCHANGED submission /\ cancelAsked'[r] /\ \A s \in Run : cancelAsked[s] => cancelAsked'[s]
  BY DEF Cancel
<1>2. \A s \in Run \ {r} : status'[s] = status[s]
  BY DEF Cancel
<1>3. status'[r] \in {status[r], "CANCELLED"}
  BY DEF Cancel
<1> QED
  BY <1>1, <1>2, <1>3 DEF FewerRuns, Active

LEMMA DriveFewer ==
    ASSUME AloneInv, NEW p \in Process, NEW r \in Run, Drive(p, r) PROVE FewerRuns
<1>1. UNCHANGED <<submission, cancelAsked>> /\ status[r] \in Active
  BY DriveBegins
<1>2. \A s \in Run \ {r} : status'[s] = status[s]
  <2>1. UNCHANGED status \/ status' = [status EXCEPT ![r] = "PROVISIONING"]
    BY DriveBegins
  <2>2. status \in [Run -> Status]
    BY DEF AloneInv, TypeOK
  <2> QED
    BY <2>1, <2>2
<1> QED
  BY <1>1, <1>2 DEF FewerRuns

LEMMA AnsweredFewer ==
    ASSUME AloneInv, NEW p \in Process, NEW r \in Run, Answered(p, r) PROVE FewerRuns
<1>1. UNCHANGED <<submission, cancelAsked>>
  BY AnsweredQuiet
<1>2. \A s \in Run \ {r} : status'[s] = status[s]
  BY AnsweredStep DEF AloneInv
<1>3. status'[r] \in Active => status[r] \in Active \/ cancelAsked[r]
  <2>1. CASE status'[r] = status[r]
    BY <2>1
  <2>2. CASE status'[r] \in TERMINAL
    BY <2>2 DEF TERMINAL, Active
  <2>3. CASE status'[r] = "RUNNING" /\ status[r] # "RUNNING"
    <3> USE DEF AloneInv, TypeOK
    <3>1. CASE Provisioned(p, r)
      BY <2>3, <3>1 DEF Provisioned, store
    <3>2. CASE ProvisionFails(p, r)
      BY <2>3, <3>2 DEF ProvisionFails, FailureRecorded
    <3>3. CASE DriveFails(p, r)
      BY <2>3, <3>3 DEF DriveFails, FailureRecorded
    <3>4. CASE \E s \in LoopStatus : LoopEnds(p, r, s)
      BY <2>3, <3>4 DEF LoopEnds, store
    <3>5. CASE Published(p, r)
      <4>1. status'[r] \in TERMINAL
        BY <3>5, RemoteStatusTerminal DEF Published
      <4> QED
        BY <2>3, <4>1 DEF TERMINAL
    <3>6. CASE Released(p, r)
      BY <2>3, <3>6 DEF Released
    <3>7. CASE LoopStarts(p, r)
      <4>1. Drives(p, r)
        BY <3>7 DEF LoopStarts, Drives, Renewing
      <4> QED
        BY <4>1 DEF Alone, Calm
    <3> QED
      BY <3>1, <3>2, <3>3, <3>4, <3>5, <3>6, <3>7 DEF Answered
  <2> QED
    BY <2>1, <2>2, <2>3, AnsweredStep DEF AloneInv
<1> QED
  BY <1>1, <1>2, <1>3 DEF FewerRuns

\* Where nothing is past its check there is nothing to keep, and what is
\* past it stays so while no run changes.
LEMMA CheckedNobody ==
    ASSUME NEW q, asked'[q] = NoSubmission PROVE Checked(q)'
<1>1. (asked[q] = NoSubmission)'
  OBVIOUS
<1> QED
  BY <1>1 DEF Checked

LEMMA CheckedIs ==
    ASSUME NEW q, NEW s, s = asked'[q],
           (RunsOfKey(s))' # {} \/ (activeRunCount(s.by))' < MaxConcurrentRuns
    PROVE  Checked(q)'
  BY DEF Checked, RunsOfKey, activeRunCount

LEMMA CheckedSame ==
    ASSUME QuotaInv, UNCHANGED <<status, submission>>,
           \A q \in Process : asked'[q] \in {asked[q], NoSubmission}
    PROVE  \A q \in Process : Checked(q)'
<1> SUFFICES ASSUME NEW q \in Process, asked'[q] # NoSubmission PROVE Checked(q)'
  BY CheckedNobody
<1>1. PICK s : s = asked'[q]
  OBVIOUS
<1>2. s = asked[q] /\ s # NoSubmission
  BY <1>1
<1>3. RunsOfKey(s)' = RunsOfKey(s) /\ activeRunCount(s.by)' = activeRunCount(s.by)
  BY DEF RunsOfKey, activeRunCount
<1>4. RunsOfKey(s) # {} \/ activeRunCount(s.by) < MaxConcurrentRuns
  BY <1>2 DEF QuotaInv, Checked
<1> QED
  BY <1>1, <1>3, <1>4, CheckedIs

\* The check of a submission.
LEMMA SubmitCheckQuota ==
    ASSUME QuotaInv, NEW p \in Process, NEW s \in Submission, SubmitCheck(p, s)
    PROVE  FewerRuns /\ \A q \in Process : Checked(q)'
<1>1. UNCHANGED <<status, submission, cancelAsked>>
  BY DEF SubmitCheck, store
<1>2. RunsOfKey(s) # {} \/ activeRunCount(s.by) < MaxConcurrentRuns
  BY DEF SubmitCheck
<1>3. asked'[p] = s /\ \A q \in Process \ {p} : asked'[q] = asked[q]
  BY DEF SubmitCheck, QuotaInv, AloneInv, TypeOK
<1>4. RunsOfKey(s)' = RunsOfKey(s) /\ activeRunCount(s.by)' = activeRunCount(s.by)
  BY <1>1 DEF RunsOfKey, activeRunCount
<1>5. Checked(p)'
  BY <1>2, <1>3, <1>4, CheckedIs
<1>6. proc[p] = "up"
  BY DEF SubmitCheck
<1>7. \A q \in Process \ {p} : asked'[q] = NoSubmission
  BY <1>3, <1>6, OthersAreDown DEF Alive, Down, QuotaInv, AloneInv
<1>8. \A q \in Process \ {p} : Checked(q)'
  BY <1>7, CheckedNobody
<1> QED
  BY <1>1, <1>5, <1>8, SameRuns

\* The creation of a run.
LEMMA SubmitCreateQuota ==
    ASSUME QuotaInv, NEW p \in Process, SubmitCreate(p)
    PROVE  QuotaHeld' /\ IsFiniteSet(Rows)' /\ \A q \in Process : Checked(q)'
<1>1. asked[p] # NoSubmission /\ asked[p] \in Submission
  BY DEF SubmitCreate, QuotaInv, AloneInv, TypeOK
<1>2. Alive(p)
  BY <1>1 DEF QuotaInv, AloneInv, Alone, Calm, Down
<1>3. \A q \in Process : asked'[q] = NoSubmission
  BY <1>2, OthersAreDown DEF SubmitCreate, Down, QuotaInv, AloneInv, TypeOK
<1>4. UNCHANGED cancelAsked
  BY DEF SubmitCreate
<1>5. CASE UNCHANGED <<status, submission>>
  BY <1>3, <1>4, <1>5, SameRuns, FewerRunsQuota, CheckedNobody
<1>6. ASSUME NEW r \in Run, RunsOfKey(asked[p]) = {}, status[r] = "ABSENT",
             status' = [status EXCEPT ![r] = "QUEUED"],
             submission' = [submission EXCEPT ![r] = asked[p]]
      PROVE  QuotaHeld' /\ IsFiniteSet(Rows)'
  <2>1. QuotaHeld'
    BY <1>1, <1>4, <1>6, CreateQuota
  <2>2. Rows' \subseteq Rows \cup {r}
    BY <1>6 DEF Rows, QuotaInv, AloneInv, TypeOK
  <2> QED
    BY <2>1, <2>2, RowsFinite DEF QuotaInv
<1>7. \A q \in Process : Checked(q)'
  BY <1>3, CheckedNobody
<1> QED
  BY <1>5, <1>6, <1>7 DEF SubmitCreate

LEMMA NextQuota ==
    ASSUME ~Overlap, QuotaInv, [Next]_vars PROVE QuotaInv'
<1>1. AloneInv'
  BY NextAlone DEF QuotaInv
<1>2. ASSUME NEW p \in Process, Start(p) \/ Shutdown(p) \/ ShutdownDone(p) \/ Crash(p)
      PROVE  FewerRuns /\ \A q \in Process : Checked(q)'
  <2>1. UNCHANGED <<status, submission, cancelAsked>>
    BY <1>2 DEF Start, Shutdown, ShutdownDone, Crash, store
  <2>2. \A q \in Process : asked'[q] \in {asked[q], NoSubmission}
    BY <1>2 DEF Start, Shutdown, ShutdownDone, Crash, QuotaInv, AloneInv, TypeOK
  <2> QED
    BY <2>1, <2>2, SameRuns, CheckedSame
<1>3. ASSUME NEW p \in Process, Sweeps(p)
      PROVE  FewerRuns /\ \A q \in Process : Checked(q)'
  BY <1>3, SweepsQuiet, SameRuns, CheckedSame DEF QuotaInv, store
<1>4. ASSUME NEW p \in Process, NEW r \in Run, Cancel(p, r)
      PROVE  FewerRuns /\ \A q \in Process : Checked(q)'
  <2>1. proc[p] = "up" /\ asked[p] = NoSubmission /\ UNCHANGED asked
    BY <1>4 DEF Cancel, Busy
  <2>2. \A q \in Process : asked'[q] = NoSubmission
    BY <2>1, OthersAreDown DEF Alive, Down, QuotaInv, AloneInv
  <2> QED
    BY <1>4, <2>2, CancelFewer, CheckedNobody DEF QuotaInv
<1>5. ASSUME NEW p \in Process, NEW r \in Run, Drive(p, r)
      PROVE  FewerRuns /\ \A q \in Process : Checked(q)'
  <2>1. Alive(p) /\ asked[p] = NoSubmission /\ UNCHANGED asked
    BY <1>5, DriveBegins DEF QuotaInv
  <2>2. \A q \in Process : asked'[q] = NoSubmission
    BY <2>1, OthersAreDown DEF Down, QuotaInv, AloneInv
  <2> QED
    BY <1>5, <2>2, DriveFewer, CheckedNobody DEF QuotaInv
<1>6. ASSUME NEW p \in Process, NEW r \in Run, Answered(p, r)
      PROVE  FewerRuns /\ \A q \in Process : Checked(q)'
  <2>1. \A q \in Process : asked'[q] = NoSubmission
    BY <1>6, AnsweredQuiet DEF QuotaInv
  <2> QED
    BY <1>6, <2>1, AnsweredFewer, CheckedNobody DEF QuotaInv
<1>7. ASSUME Outside
      PROVE  FewerRuns /\ \A q \in Process : Checked(q)'
  BY <1>7, OutsideQuiet, SameRuns, CheckedSame DEF memory
<1>8. QuotaHeld' /\ IsFiniteSet(Rows)' /\ \A q \in Process : Checked(q)'
  BY <1>2, <1>3, <1>4, <1>5, <1>6, <1>7, StepKinds, FewerRunsQuota, SubmitCheckQuota,
     SubmitCreateQuota
<1> QED
  BY <1>1, <1>8 DEF QuotaInv

LEMMA InitQuota == Init => QuotaInv
<1> SUFFICES ASSUME Init PROVE QuotaInv
  OBVIOUS
<1>1. \A a \in Principal : Going(a) = {}
  BY DEF Init, Going, Active
<1>2. Rows = {}
  BY DEF Init, Rows
<1>3. QuotaHeld
  BY <1>1, FS_EmptySet, QuotaOfGoing, CoordinatorAssumption
<1>4. IsFiniteSet(Rows)
  BY <1>2, FS_EmptySet
<1>5. \A q \in Process : Checked(q)
  BY DEF Init, Checked
<1> QED
  BY <1>3, <1>4, <1>5, InitAlone DEF QuotaInv

\* Where no two coordinators are up at once the quota of a principal holds
\* (store.ts:231-238): between the check of a submission and its insertion
\* nothing takes its place, and neither a restart nor a recovery brings a
\* finished run back.  (Two processes at once do get past it: the check and
\* the insertion are not one transaction.)
THEOREM QuotaCorrect == ASSUME ~Overlap PROVE Spec => []QuotaHeld
<1>1. Init => QuotaInv
  BY InitQuota
<1>2. QuotaInv /\ [Next]_vars => QuotaInv'
  BY NextQuota
<1>3. QuotaInv => QuotaHeld
  BY DEF QuotaInv
<1> QED
  BY <1>1, <1>2, <1>3, PTL DEF Spec


-----------------------------------------------------------------------------
(* The workspace of a run at work                                          *)

Working(p, r) == phase[p][r] \in {"signingIn", "looping", "publishing"}

\* What a reaper goes by stays true until it acts on it: a row it lists as
\* expired is, and the run of a workspace it is having removed has finished
\* and is not driven from there - or was cancelled.
Judged(q) ==
    /\ \A i \in sweep[q] \cup reclaiming[q] : i.cause = "expired" => expired[i.maker][i.run]
    /\ \A i \in reclaiming[q] : i.cause = "finished" =>
          cancelAsked[i.run] \/ (status[i.run] \in TERMINAL /\ ~Drives(i.maker, i.run))

Kept ==
    /\ \A q \in Process : Judged(q)
    /\ WorkingRunKeepsWorkspace

\* What keeps it asks of the processes: what one drives, or is about to, has not
\* finished, unless a person asked for it; and where one holds a run that
\* another is at work on, being stopped apart, the run was cancelled.
Wanted(r) == status[r] \in Active \/ cancelAsked[r]

Settled ==
    /\ TypeOK
    /\ \A q \in Process, r \in Run : r \in todo[q] \/ Drives(q, r) => Wanted(r)
    /\ \A p, q \in Process, r \in Run :
          Working(p, r) /\ q # p /\ phase[q][r] # "none" /\ proc[q] # "stopping" => cancelAsked[r]

LEMMA AloneSettles == AloneInv => Settled
<1> SUFFICES ASSUME AloneInv PROVE Settled
  OBVIOUS
<1>1. \A q \in Process, r \in Run : r \in todo[q] \/ Drives(q, r) => Wanted(r)
  BY DEF AloneInv, Alone, Calm, Wanted
<1>2. \A p, q \in Process, r \in Run : ~(Working(p, r) /\ q # p /\ phase[q][r] # "none")
  BY DEF AloneInv, Alone, Calm, Working
<1> QED
  BY <1>1, <1>2 DEF Settled, AloneInv

\* What overlapping processes have instead of being alone, when their timers
\* fire in time: a drive that is over has left its run finished, unless its
\* process was being stopped or a person asked for the run to be cancelled.
Due ==
    /\ \A q \in Process, r \in Run : r \in todo[q] \/ Drives(q, r) => Wanted(r)
    /\ \A q \in Process, r \in Run :
          phase[q][r] = "closing" => proc[q] = "stopping" \/ status[r] \in TERMINAL \/ cancelAsked[r]

DueInv == DrivingInv /\ Due

LEMMA DueSettles == DueInv => Settled
<1> SUFFICES ASSUME DueInv PROVE Settled
  OBVIOUS
<1>1. ASSUME NEW p \in Process, NEW q \in Process, NEW r \in Run,
             Working(p, r), q # p, phase[q][r] # "none", proc[q] # "stopping"
      PROVE  cancelAsked[r]
  <2>1. Drives(p, r)
    BY <1>1 DEF Working, Drives, Renewing
  <2>2. ~Drives(q, r)
    BY <1>1, <2>1 DEF DueInv, DrivingInv, Driving, DriverHoldsLease
  <2>3. phase[q][r] = "closing"
    BY <1>1, <2>2 DEF DueInv, DrivingInv, TypeOK, Phase, Drives
  <2>4. status[r] \in TERMINAL \/ cancelAsked[r]
    BY <1>1, <2>3 DEF DueInv, Due
  <2> QED
    BY <2>1, <2>4 DEF DueInv, Due, Wanted, Active, TERMINAL
<1> QED
  BY <1>1 DEF Settled, DueInv, Due, DrivingInv

\* What a step never undoes.
Remembered ==
    /\ \A q \in Process, s \in Run : expired[q][s] => expired'[q][s]
    /\ \A s \in Run : cancelAsked[s] => cancelAsked'[s]

\* A finished run that nobody asked to cancel stays finished and undriven.
Finished ==
    \A s \in Run : status[s] \in TERMINAL =>
        \/ cancelAsked[s]
        \/ status'[s] \in TERMINAL /\ \A q \in Process : Drives(q, s)' => Drives(q, s)

\* The workspaces of runs at work are left alone, or those of runs that
\* have just come to work are there.
Spared ==
    \A q \in Process, s \in Run : Working(q, s)' =>
        \/ /\ Working(q, s)
           /\ rowStatus'[q][s] = rowStatus[q][s] /\ container'[q][s] = container[q][s]
        \/ LiveRow(q, s)' /\ container'[q][s] = "running"
        \/ expired'[q][s]
        \/ cancelAsked'[s]

LEMMA SparedKeeps ==
    ASSUME WorkingRunKeepsWorkspace, Remembered, Spared PROVE WorkingRunKeepsWorkspace'
<1> SUFFICES ASSUME NEW q \in Process, NEW s \in Run, Working(q, s)'
             PROVE  \/ LiveRow(q, s)' /\ container'[q][s] = "running"
                    \/ expired'[q][s]
                    \/ cancelAsked'[s]
  BY DEF WorkingRunKeepsWorkspace, Working
<1>1. CASE /\ Working(q, s)
           /\ rowStatus'[q][s] = rowStatus[q][s] /\ container'[q][s] = container[q][s]
  <2>1. \/ LiveRow(q, s) /\ container[q][s] = "running"
        \/ expired[q][s]
        \/ cancelAsked[s]
    BY <1>1 DEF WorkingRunKeepsWorkspace, Working
  <2> QED
    BY <1>1, <2>1 DEF Remembered, LiveRow
<1> QED
  BY <1>1 DEF Spared

LEMMA JudgedFrame ==
    ASSUME TypeOK, Remembered, Finished, NEW q \in Process, Judged(q),
           sweep'[q] \subseteq sweep[q], reclaiming'[q] \subseteq reclaiming[q]
    PROVE  Judged(q)'
<1>1. \A i \in sweep[q] \cup reclaiming[q] : i.maker \in Process /\ i.run \in Run
  BY DEF TypeOK, Item
<1>2. ASSUME NEW i \in sweep'[q] \cup reclaiming'[q], i.cause = "expired"
      PROVE  expired'[i.maker][i.run]
  BY <1>1, <1>2 DEF Judged, Remembered
<1>3. ASSUME NEW i \in reclaiming'[q], i.cause = "finished"
      PROVE  cancelAsked'[i.run] \/ (status'[i.run] \in TERMINAL /\ ~Drives(i.maker, i.run)')
  <2>1. /\ i \in reclaiming[q] /\ i.maker \in Process /\ i.run \in Run
        /\ cancelAsked[i.run] \/ (status[i.run] \in TERMINAL /\ ~Drives(i.maker, i.run))
    BY <1>1, <1>3 DEF Judged
  <2> QED
    BY <2>1 DEF Remembered, Finished
<1> QED
  BY <1>2, <1>3 DEF Judged, Drives

\* A step that keeps the drives and the workspaces as they are.
LEMMA QuietKeeps ==
    ASSUME UNCHANGED <<status, expired, cancelAsked, rowStatus, container>>,
           \A q \in Process, s \in Run : phase'[q][s] \in {phase[q][s], "none"}
    PROVE  Remembered /\ Finished /\ Spared
<1>1. Remembered
  BY DEF Remembered
<1>2. Finished
  BY DEF Finished, Drives, Renewing
<1>3. Spared
  BY DEF Spared, Working
<1> QED
  BY <1>1, <1>2, <1>3

LEMMA LifeKeeps ==
    ASSUME TypeOK, NEW p \in Process,
           \/ Start(p) \/ Shutdown(p) \/ ShutdownDone(p) \/ Crash(p)
           \/ \E s \in Submission : SubmitCheck(p, s)
    PROVE  /\ Remembered /\ Finished /\ Spared
           /\ \A q \in Process : sweep'[q] \subseteq sweep[q] /\ reclaiming'[q] \subseteq reclaiming[q]
<1>1. UNCHANGED <<status, expired, cancelAsked, rowStatus, container>>
  BY DEF Start, Shutdown, ShutdownDone, Crash, SubmitCheck, store, workspaces
<1>2. \A q \in Process, s \in Run : phase'[q][s] \in {phase[q][s], "none"}
  <2>1. CASE Crash(p)
    <3>1. phase' = [phase EXCEPT ![p] = [r \in Run |-> "none"]]
      BY <2>1 DEF Crash
    <3> QED
      BY <3>1 DEF TypeOK
  <2>2. CASE ~Crash(p)
    <3>1. UNCHANGED phase
      BY <2>2 DEF Start, Shutdown, ShutdownDone, SubmitCheck
    <3> QED
      BY <3>1
  <2> QED
    BY <2>1, <2>2
<1>3. \A q \in Process : sweep'[q] \subseteq sweep[q] /\ reclaiming'[q] \subseteq reclaiming[q]
  BY DEF Start, Shutdown, ShutdownDone, Crash, SubmitCheck, TypeOK
<1> QED
  BY <1>1, <1>2, <1>3, QuietKeeps

\* A submission makes a new run; a cancellation is remembered.
LEMMA RequestKeeps ==
    ASSUME TypeOK, NEW p \in Process, SubmitCreate(p) \/ \E r \in Run : Cancel(p, r)
    PROVE  Remembered /\ Finished /\ Spared /\ UNCHANGED <<sweep, reclaiming>>
<1>1. UNCHANGED <<expired, rowStatus, container, phase, sweep, reclaiming>>
  BY DEF SubmitCreate, Cancel, workspaces
<1>2. \A s \in Run : cancelAsked[s] => cancelAsked'[s]
  BY DEF SubmitCreate, Cancel, TypeOK
<1>3. \A s \in Run : status'[s] = status[s] \/ status[s] = "ABSENT" \/ status'[s] = "CANCELLED"
  BY DEF SubmitCreate, Cancel, TypeOK
<1>4. Remembered /\ Spared
  BY <1>1, <1>2 DEF Remembered, Spared, Working
<1>5. Finished
  BY <1>1, <1>3 DEF Finished, Drives, TERMINAL
<1> QED
  BY <1>1, <1>4, <1>5

\* A drive that begins has a workspace, and is not at work yet.
LEMMA DriveKeeps ==
    ASSUME Settled, NEW p \in Process, NEW r \in Run, Drive(p, r)
    PROVE  Remembered /\ Finished /\ Spared /\ UNCHANGED <<sweep, reclaiming>>
<1> USE DEF Settled
<1>1. /\ Wanted(r)
      /\ UNCHANGED <<expired, container, sweep, reclaiming, cancelAsked>>
  BY DEF Drive
<1>2. Remembered
  BY <1>1 DEF Remembered
<1>3. CASE UNCHANGED <<status, rowStatus, phase>>
  <2>1. Finished /\ Spared
    BY <1>1, <1>3 DEF Finished, Drives, Spared, Working
  <2> QED
    BY <1>1, <1>2, <2>1
<1>4. CASE /\ status[r] = "CANCELLED" /\ UNCHANGED <<status, phase>>
           /\ rowStatus' = RowsReleased(r)
  <2>1. cancelAsked[r]
    BY <1>1, <1>4 DEF Wanted, Active
  <2>2. \A q \in Process, s \in Run \ {r} : rowStatus'[q][s] = rowStatus[q][s]
    BY <1>4 DEF RowsReleased, TypeOK
  <2>3. Finished
    BY <1>4 DEF Finished, Drives
  <2>4. Spared
    BY <1>1, <1>4, <2>1, <2>2 DEF Spared, Working
  <2> QED
    BY <1>1, <1>2, <2>3, <2>4
<1>5. CASE /\ status' = [status EXCEPT ![r] = "PROVISIONING"]
           /\ rowStatus' = [rowStatus EXCEPT ![p][r] = "provisioning"]
           /\ phase' = [phase EXCEPT ![p][r] = "provisioning"]
  <2>1. \A q \in Process, s \in Run : q # p \/ s # r =>
          /\ phase'[q][s] = phase[q][s] /\ rowStatus'[q][s] = rowStatus[q][s]
    BY <1>5 DEF TypeOK
  <2>2. phase'[p][r] = "provisioning" /\ \A s \in Run \ {r} : status'[s] = status[s]
    BY <1>5 DEF TypeOK
  <2>3. Finished
    BY <1>1, <2>1, <2>2 DEF Finished, Drives, Wanted, Active, TERMINAL
  <2>4. Spared
    BY <1>1, <2>1, <2>2 DEF Spared, Working
  <2> QED
    BY <1>1, <1>2, <2>3, <2>4
<1> QED
  BY <1>3, <1>4, <1>5 DEF Drive, RowsReleased

\* Nothing a drive awaited touches another workspace than its own: the run it
\* drives names it to the end, so it is its own row that HandBack marks.
LEMMA AnsweredElsewhere ==
    ASSUME AloneInv, NEW p \in Process, NEW r \in Run, Answered(p, r)
    PROVE  \A q \in Process, s \in Run : q # p \/ s # r =>
              /\ rowStatus'[q][s] = rowStatus[q][s] /\ container'[q][s] = container[q][s]
              /\ handle'[q][s] = handle[q][s]
<1> USE DEF AloneInv, TypeOK
<1>1. workspaceOf[r] = p
  <2>1. phase[p][r] # "none"
    BY AnsweredStep
  <2> QED
    BY <2>1 DEF Alone, Calm
<1>2. ASSUME HandBack(p, r)
      PROVE  \A q \in Process, s \in Run : q # p \/ s # r => rowStatus'[q][s] = rowStatus[q][s]
  BY <1>1, <1>2 DEF HandBack
<1>3. ASSUME \E c \in Removal(container[p][r]) : container' = [container EXCEPT ![p][r] = c]
      PROVE  \A q \in Process, s \in Run : q # p \/ s # r => container'[q][s] = container[q][s]
  BY <1>3
<1>4. CASE Provisioned(p, r)
  BY <1>4 DEF Provisioned
<1>5. CASE ProvisionFails(p, r)
  BY <1>2, <1>3, <1>5 DEF ProvisionFails
<1>6. CASE LoopStarts(p, r)
  BY <1>6 DEF LoopStarts, workspaces
<1>7. CASE DriveFails(p, r)
  BY <1>7 DEF DriveFails, workspaces
<1>8. CASE \E s \in LoopStatus : LoopEnds(p, r, s)
  BY <1>8 DEF LoopEnds, workspaces
<1>9. CASE Published(p, r)
  BY <1>9 DEF Published, workspaces
<1>10. CASE Released(p, r)
  BY <1>2, <1>3, <1>10 DEF Released
<1> QED
  BY <1>4, <1>5, <1>6, <1>7, <1>8, <1>9, <1>10 DEF Answered


\* The drive itself: the one that comes to work has a container and a ready
\* row, and the one that stays at work keeps them.
LEMMA AnsweredHere ==
    ASSUME TypeOK, NEW p \in Process, NEW r \in Run, Answered(p, r), Working(p, r)'
    PROVE  \/ /\ Working(p, r)
              /\ rowStatus'[p][r] = rowStatus[p][r] /\ container'[p][r] = container[p][r]
           \/ LiveRow(p, r)' /\ container'[p][r] = "running"
<1> USE DEF TypeOK
<1>1. CASE Provisioned(p, r)
  BY <1>1 DEF Provisioned, LiveRow
<1>2. CASE ProvisionFails(p, r)
  BY <1>2 DEF ProvisionFails, Working
<1>3. CASE LoopStarts(p, r)
  BY <1>3 DEF LoopStarts, workspaces, Working
<1>4. CASE DriveFails(p, r)
  BY <1>4 DEF DriveFails, Working
<1>5. CASE \E s \in LoopStatus : LoopEnds(p, r, s)
  BY <1>5 DEF LoopEnds, workspaces, Working
<1>6. CASE Published(p, r)
  BY <1>6 DEF Published, Working
<1>7. CASE Released(p, r)
  BY <1>7 DEF Released, Working
<1> QED
  BY <1>1, <1>2, <1>3, <1>4, <1>5, <1>6, <1>7 DEF Answered

\* Of the other workspaces an answer touches only the row the run names now,
\* and only when the process is not being stopped.
LEMMA AnsweredRows ==
    ASSUME TypeOK, NEW p \in Process, NEW r \in Run, Answered(p, r)
    PROVE  /\ UNCHANGED <<expired, sweep, reclaiming, cancelAsked>>
           /\ \A q \in Process, s \in Run : q # p \/ s # r =>
                 /\ container'[q][s] = container[q][s]
                 /\ rowStatus'[q][s] = rowStatus[q][s] \/ (s = r /\ proc[p] # "stopping")
<1> USE DEF TypeOK
<1>1. UNCHANGED <<expired, sweep, reclaiming, cancelAsked>>
  BY DEF Answered, Provisioned, ProvisionFails, LoopStarts, DriveFails, LoopEnds,
         Published, Released, store, workspaces
<1>2. ASSUME HandBack(p, r)
      PROVE  \A q \in Process, s \in Run : rowStatus'[q][s] = rowStatus[q][s] \/ (s = r /\ proc[p] # "stopping")
  <2>1. CASE proc[p] = "stopping"
    BY <1>2, <2>1 DEF HandBack
  <2>2. CASE proc[p] # "stopping"
    <3>1. rowStatus' = RowsReleased(r)
      BY <1>2, <2>2 DEF HandBack, RowsReleased
    <3>2. ASSUME NEW q \in Process, NEW s \in Run, s # r
          PROVE  RowsReleased(r)[q][s] = rowStatus[q][s]
      BY <3>2 DEF RowsReleased
    <3> QED
      BY <2>2, <3>1, <3>2
  <2> QED
    BY <2>1, <2>2
<1>3. ASSUME \E c \in Removal(container[p][r]) : container' = [container EXCEPT ![p][r] = c]
      PROVE  \A q \in Process, s \in Run : q # p \/ s # r => container'[q][s] = container[q][s]
  BY <1>3
<1>4. CASE Provisioned(p, r)
  BY <1>1, <1>4 DEF Provisioned
<1>5. CASE ProvisionFails(p, r)
  BY <1>1, <1>2, <1>3, <1>5 DEF ProvisionFails
<1>6. CASE LoopStarts(p, r)
  BY <1>1, <1>6 DEF LoopStarts, workspaces
<1>7. CASE DriveFails(p, r)
  BY <1>1, <1>7 DEF DriveFails, workspaces
<1>8. CASE \E s \in LoopStatus : LoopEnds(p, r, s)
  BY <1>1, <1>8 DEF LoopEnds, workspaces
<1>9. CASE Published(p, r)
  BY <1>1, <1>9 DEF Published, workspaces
<1>10. CASE Released(p, r)
  BY <1>1, <1>2, <1>3, <1>10 DEF Released
<1> QED
  BY <1>4, <1>5, <1>6, <1>7, <1>8, <1>9, <1>10 DEF Answered

LEMMA AnsweredKeeps ==
    ASSUME Settled, NEW p \in Process, NEW r \in Run, Answered(p, r)
    PROVE  Remembered /\ Finished /\ Spared /\ UNCHANGED <<sweep, reclaiming>>
<1>0. TypeOK
  BY DEF Settled
<1>1. /\ UNCHANGED <<expired, sweep, reclaiming, cancelAsked>>
  BY <1>0, AnsweredRows
<1>2. /\ \A q \in Process, s \in Run : q # p \/ s # r => phase'[q][s] = phase[q][s]
      /\ \A s \in Run \ {r} : status'[s] = status[s]
      /\ status'[r] \in {status[r], "RUNNING"} \cup TERMINAL
      /\ Drives(p, r)' => Drives(p, r)
      /\ phase[p][r] # "none"
  BY <1>0, AnsweredStep
<1>3. Remembered
  BY <1>1 DEF Remembered
<1>4. ASSUME status[r] \in TERMINAL, ~cancelAsked[r] PROVE status'[r] \in TERMINAL
  <2>1. ~Drives(p, r)
    BY <1>4 DEF Settled, Wanted, Active, TERMINAL
  <2>2. Released(p, r)
    BY <2>1 DEF Answered, Provisioned, ProvisionFails, LoopStarts, DriveFails, LoopEnds,
                Published, Drives, Renewing
  <2> QED
    BY <1>4, <2>2 DEF Released
<1>5. Finished
  <2> SUFFICES ASSUME NEW s \in Run, status[s] \in TERMINAL, ~cancelAsked[s]
               PROVE  status'[s] \in TERMINAL /\ \A q \in Process : Drives(q, s)' => Drives(q, s)
    BY DEF Finished
  <2>1. status'[s] \in TERMINAL
    BY <1>2, <1>4
  <2>2. \A q \in Process : Drives(q, s)' => Drives(q, s)
    BY <1>2 DEF Drives
  <2> QED
    BY <2>1, <2>2
<1>6. Spared
  <2> SUFFICES ASSUME NEW q \in Process, NEW s \in Run, Working(q, s)'
               PROVE  \/ /\ Working(q, s)
                         /\ rowStatus'[q][s] = rowStatus[q][s]
                         /\ container'[q][s] = container[q][s]
                      \/ LiveRow(q, s)' /\ container'[q][s] = "running"
                      \/ cancelAsked'[s]
    BY DEF Spared
  <2>1. CASE q = p /\ s = r
    BY <1>0, <2>1, AnsweredHere
  <2>2. CASE q # p \/ s # r
    <3>1. Working(q, s)
      BY <1>2, <2>2 DEF Working
    <3>2. /\ container'[q][s] = container[q][s]
          /\ rowStatus'[q][s] = rowStatus[q][s] \/ (s = r /\ proc[p] # "stopping")
      BY <1>0, <2>2, AnsweredRows
    <3>3. CASE rowStatus'[q][s] = rowStatus[q][s]
      BY <3>1, <3>2, <3>3
    <3>4. CASE s = r /\ proc[p] # "stopping"
      BY <1>1, <1>2, <2>2, <3>1, <3>4 DEF Settled
    <3> QED
      BY <3>2, <3>3, <3>4
  <2> QED
    BY <2>1, <2>2
<1> QED
  BY <1>1, <1>3, <1>5, <1>6

\* The clock makes a workspace expire, and a container appears only for a
\* run that is not at work yet.
LEMMA OutsideKeeps ==
    ASSUME TypeOK, Outside
    PROVE  Remembered /\ Finished /\ Spared /\ UNCHANGED <<sweep, reclaiming>>
<1>1. UNCHANGED <<status, rowStatus, phase, sweep, reclaiming, cancelAsked>>
  BY OutsideQuiet DEF memory
<1>2. \A q \in Process, s \in Run :
          /\ expired[q][s] => expired'[q][s]
          /\ container'[q][s] = container[q][s] \/ phase[q][s] = "provisioning"
  <2>1. ASSUME NEW p \in Process, NEW r \in Run,
               RenewLease(p, r) \/ WorkspaceExpires(p, r) \/ ContainerCreated(p, r)
        PROVE  \A q \in Process, s \in Run :
                  /\ expired[q][s] => expired'[q][s]
                  /\ container'[q][s] = container[q][s] \/ phase[q][s] = "provisioning"
    <3>1. CASE RenewLease(p, r)
      BY <3>1 DEF RenewLease, workspaces
    <3>2. CASE WorkspaceExpires(p, r)
      BY <3>2 DEF WorkspaceExpires, TypeOK
    <3>3. CASE ContainerCreated(p, r)
      BY <3>3 DEF ContainerCreated, TypeOK
    <3> QED
      BY <2>1, <3>1, <3>2, <3>3
  <2>2. ASSUME \/ \E r \in Run : LeaseLapses(r)
               \/ UNCHANGED vars
        PROVE  UNCHANGED <<expired, container>>
    BY <2>2 DEF LeaseLapses, workspaces, vars
  <2> QED
    BY <2>1, <2>2 DEF Outside
<1>3. Remembered
  BY <1>1, <1>2 DEF Remembered
<1>4. Finished
  BY <1>1 DEF Finished, Drives
<1>5. Spared
  BY <1>1, <1>2 DEF Spared, Working
<1> QED
  BY <1>1, <1>3, <1>4, <1>5

\* The sweeps of a reaper: what is taken from a run at work had expired, or
\* belonged to a run that was cancelled.
LEMMA SweepsKeep ==
    ASSUME Settled, Kept, NEW p \in Process, Sweeps(p)
    PROVE  WorkingRunKeepsWorkspace' /\ \A q \in Process : Judged(q)'
<1> USE DEF Kept, Settled
<1>1. /\ UNCHANGED <<status, workspaceOf, expired, phase, cancelAsked>>
      /\ \A q \in Process \ {p} : sweep'[q] = sweep[q] /\ reclaiming'[q] = reclaiming[q]
  <2>1. CASE \E c \in {"expired", "finished"} : SweepBegins(p, c)
    BY <2>1 DEF SweepBegins, workspaces, store, TypeOK
  <2>2. CASE \E i \in sweep[p] : SweepStep(p, i)
    BY <2>2 DEF SweepStep, store, TypeOK
  <2>3. CASE \E i \in reclaiming[p] : Reclaimed(p, i)
    BY <2>3 DEF Reclaimed, store, TypeOK
  <2> QED
    BY <2>1, <2>2, <2>3 DEF Sweeps
<1>2. \A i \in sweep[p] \cup reclaiming[p] :
          i.maker \in Process /\ i.run \in Run /\ i.cause \in {"expired", "finished"}
  BY DEF TypeOK, Item
<1>3. Remembered /\ Finished
  BY <1>1 DEF Remembered, Finished, Drives
<1>4. \A q \in Process \ {p} : Judged(q)'
  BY <1>1, <1>3, JudgedFrame
<1>5. ASSUME NEW i \in sweep[p], i.cause = "finished", workspaceOf[i.run] = i.maker,
             status[i.run] \in TERMINAL
      PROVE  cancelAsked[i.run] \/ ~Drives(i.maker, i.run)
  <2>1. i.run \in Run /\ i.maker \in Process
    BY <1>2
  <2> QED
    BY <1>5, <2>1 DEF Wanted, Active, TERMINAL
<1>6. CASE \E c \in {"expired", "finished"} : SweepBegins(p, c)
  <2>1. UNCHANGED <<rowStatus, container, reclaiming>> /\ reclaiming[p] = {}
    BY <1>6 DEF SweepBegins, workspaces
  <2>2. PICK c \in {"expired", "finished"} : sweep' = [sweep EXCEPT ![p] = Listed(c)]
    BY <1>6 DEF SweepBegins
  <2>3. \A i \in sweep'[p] : i.cause = "expired" => expired[i.maker][i.run]
    BY <2>2 DEF Listed, TypeOK
  <2>4. Judged(p)'
    BY <1>1, <2>1, <2>3 DEF Judged
  <2>5. Spared
    BY <1>1, <2>1 DEF Spared, Working
  <2> QED
    BY <1>3, <1>4, <2>4, <2>5, SparedKeeps
<1>7. ASSUME NEW i \in sweep[p], SweepStep(p, i)
      PROVE  WorkingRunKeepsWorkspace' /\ Judged(p)'
  <2>1. UNCHANGED container /\ sweep'[p] \subseteq sweep[p] /\ reclaiming[p] = {}
    BY <1>7 DEF SweepStep, TypeOK
  <2>2. i.cause = "expired" => expired[i.maker][i.run]
    BY DEF Judged
  <2>3. CASE UNCHANGED <<rowStatus, reclaiming>>
    <3>1. Spared
      BY <1>1, <2>1, <2>3 DEF Spared, Working
    <3>2. Judged(p)'
      BY <1>3, <2>1, <2>3, JudgedFrame
    <3> QED
      BY <1>3, <3>1, <3>2, SparedKeeps
  <2>4. ASSUME i.cause = "finished" => workspaceOf[i.run] = i.maker /\ status[i.run] \in TERMINAL,
               \/ reclaiming' = [reclaiming EXCEPT ![p] = {i}] /\ UNCHANGED rowStatus
               \/ /\ rowStatus' = [rowStatus EXCEPT ![i.maker][i.run] = "released"]
                  /\ UNCHANGED reclaiming
        PROVE  WorkingRunKeepsWorkspace' /\ Judged(p)'
    <3>1. i.cause = "finished" => \/ cancelAsked[i.run]
                                  \/ status[i.run] \in TERMINAL /\ ~Drives(i.maker, i.run)
      BY <1>5, <2>4
    <3>2. reclaiming'[p] \subseteq {i}
      BY <2>1, <2>4 DEF TypeOK
    <3>3. Judged(p)'
      <4>1. \A j \in sweep'[p] \cup reclaiming'[p] : j.cause = "expired" => expired'[j.maker][j.run]
        BY <1>1, <2>1, <2>2, <3>2 DEF Judged
      <4>2. \A j \in reclaiming'[p] : j.cause = "finished" =>
              cancelAsked'[j.run] \/ (status'[j.run] \in TERMINAL /\ ~Drives(j.maker, j.run)')
        BY <1>1, <3>1, <3>2 DEF Drives
      <4> QED
        BY <4>1, <4>2 DEF Judged, Drives
    <3>4. Spared
      <4> SUFFICES ASSUME NEW q \in Process, NEW s \in Run, Working(q, s)'
                   PROVE  \/ /\ Working(q, s)
                             /\ rowStatus'[q][s] = rowStatus[q][s]
                             /\ container'[q][s] = container[q][s]
                          \/ expired'[q][s]
                          \/ cancelAsked'[s]
        BY DEF Spared
      <4>1. Working(q, s) /\ Drives(q, s)
        BY <1>1 DEF Working, Drives, Renewing
      <4>2. CASE q # i.maker \/ s # i.run
        BY <1>2, <2>1, <2>4, <4>1, <4>2 DEF TypeOK
      <4>3. CASE q = i.maker /\ s = i.run
        BY <1>1, <1>2, <2>2, <3>1, <4>1, <4>3
      <4> QED
        BY <4>2, <4>3
    <3> QED
      BY <1>3, <3>3, <3>4, SparedKeeps
  <2> QED
    BY <1>7, <2>3, <2>4 DEF SweepStep
<1>8. ASSUME NEW i \in reclaiming[p], Reclaimed(p, i)
      PROVE  WorkingRunKeepsWorkspace' /\ Judged(p)'
  <2>1. UNCHANGED sweep /\ reclaiming'[p] \subseteq reclaiming[p]
    BY <1>8 DEF Reclaimed, TypeOK
  <2>2. Judged(p)'
    BY <1>3, <2>1, JudgedFrame
  <2>3. \/ expired[i.maker][i.run]
        \/ cancelAsked[i.run]
        \/ ~Drives(i.maker, i.run)
    BY <1>2 DEF Judged
  <2>4. Spared
    <3> SUFFICES ASSUME NEW q \in Process, NEW s \in Run, Working(q, s)'
                 PROVE  \/ /\ Working(q, s)
                           /\ rowStatus'[q][s] = rowStatus[q][s]
                           /\ container'[q][s] = container[q][s]
                        \/ expired'[q][s]
                        \/ cancelAsked'[s]
      BY DEF Spared
    <3>1. Working(q, s) /\ Drives(q, s)
      BY <1>1 DEF Working, Drives, Renewing
    <3>2. CASE q # i.maker \/ s # i.run
      <4>1. rowStatus'[q][s] = rowStatus[q][s]
        BY <1>2, <1>8, <3>2 DEF Reclaimed, TypeOK
      <4>2. container'[q][s] = container[q][s]
        BY <1>2, <1>8, <3>2 DEF Reclaimed, TypeOK
      <4> QED
        BY <3>1, <4>1, <4>2
    <3>3. CASE q = i.maker /\ s = i.run
      BY <1>1, <2>3, <3>1, <3>3
    <3> QED
      BY <3>2, <3>3
  <2> QED
    BY <1>3, <2>2, <2>4, SparedKeeps
<1> QED
  BY <1>4, <1>6, <1>7, <1>8 DEF Sweeps

LEMMA NextKept ==
    ASSUME Settled, Kept, [Next]_vars PROVE Kept'
<1>0. TypeOK
  BY DEF Settled
<1>1. ASSUME Remembered, Finished, Spared,
             \A q \in Process : sweep'[q] \subseteq sweep[q] /\ reclaiming'[q] \subseteq reclaiming[q]
      PROVE  WorkingRunKeepsWorkspace' /\ \A q \in Process : Judged(q)'
  BY <1>0, <1>1, SparedKeeps, JudgedFrame DEF Kept
<1>2. ASSUME NEW p \in Process,
             \/ Start(p) \/ Shutdown(p) \/ ShutdownDone(p) \/ Crash(p)
             \/ \E s \in Submission : SubmitCheck(p, s)
      PROVE  WorkingRunKeepsWorkspace' /\ \A q \in Process : Judged(q)'
  BY <1>0, <1>1, <1>2, LifeKeeps
<1>3. ASSUME NEW p \in Process, SubmitCreate(p) \/ \E r \in Run : Cancel(p, r)
      PROVE  WorkingRunKeepsWorkspace' /\ \A q \in Process : Judged(q)'
  BY <1>0, <1>1, <1>3, RequestKeeps
<1>4. ASSUME NEW p \in Process, NEW r \in Run, Drive(p, r) \/ Answered(p, r)
      PROVE  WorkingRunKeepsWorkspace' /\ \A q \in Process : Judged(q)'
  BY <1>1, <1>4, DriveKeeps, AnsweredKeeps
<1>5. ASSUME Outside
      PROVE  WorkingRunKeepsWorkspace' /\ \A q \in Process : Judged(q)'
  BY <1>0, <1>1, <1>5, OutsideKeeps
<1> QED
  BY <1>2, <1>3, <1>4, <1>5, StepKinds, SweepsKeep DEF Kept

LEMMA InitKept == Init => Kept
  BY DEF Init, Kept, Judged, WorkingRunKeepsWorkspace

-----------------------------------------------------------------------------
(* Overlapping processes in a timely world stay due                        *)

LEMMA InitDue == Init => DueInv
  BY InitDriving DEF Init, DueInv, Due, Drives, Renewing

\* A drive that goes on, or a run that somebody still wants.
LEMMA DueFrame ==
    ASSUME Due, \A s \in Run : status'[s] = status[s] \/ cancelAsked'[s],
           \A s \in Run : cancelAsked[s] => cancelAsked'[s],
           \A q \in Process : todo'[q] \subseteq todo[q],
           \A q \in Process, s \in Run : phase'[q][s] \in {phase[q][s], "none"},
           \A q \in Process, s \in Run :
              phase'[q][s] = "closing" /\ proc[q] = "stopping" => proc'[q] = "stopping"
    PROVE  Due'
<1>1. ASSUME NEW q \in Process, NEW r \in Run, r \in todo'[q] \/ Drives(q, r)' PROVE Wanted(r)'
  <2>1. r \in todo[q] \/ Drives(q, r)
    BY <1>1 DEF Drives, Renewing
  <2> QED
    BY <2>1 DEF Due, Wanted
<1>2. ASSUME NEW q \in Process, NEW r \in Run, phase'[q][r] = "closing"
      PROVE  proc'[q] = "stopping" \/ status'[r] \in TERMINAL \/ cancelAsked'[r]
  BY <1>2 DEF Due
<1> QED
  BY <1>1, <1>2 DEF Due

LEMMA LifeDue ==
    ASSUME DueInv, NEW p \in Process,
           \/ Start(p) \/ Shutdown(p) \/ ShutdownDone(p) \/ Crash(p)
           \/ \E s \in Submission : SubmitCheck(p, s)
    PROVE  Due'
<1> USE DEF DueInv, DrivingInv, TypeOK
<1>1. UNCHANGED <<status, cancelAsked>>
  BY DEF Start, Shutdown, ShutdownDone, Crash, SubmitCheck, store
<1>2. CASE Start(p)
  <2>1. UNCHANGED phase /\ proc[p] = "off"
    BY <1>2 DEF Start
  <2>2. /\ \A q \in Process \ {p} : todo'[q] = todo[q] /\ proc'[q] = proc[q]
        /\ todo'[p] = listAbandoned
    BY <1>2 DEF Start
  <2>3. \A r \in listAbandoned : Wanted(r)
    BY DEF listAbandoned, Wanted
  <2> QED
    BY <1>1, <2>1, <2>2, <2>3 DEF Due, Wanted, Drives
<1>3. CASE Crash(p)
  <2>1. phase' = [phase EXCEPT ![p] = [r \in Run |-> "none"]]
    BY <1>3 DEF Crash
  <2>2. \A q \in Process : todo'[q] \subseteq todo[q] /\ (q # p => proc'[q] = proc[q])
    BY <1>3 DEF Crash
  <2>3. ASSUME NEW q \in Process, NEW s \in Run
        PROVE  /\ phase'[q][s] \in {phase[q][s], "none"}
               /\ phase'[q][s] = "closing" => q # p
    <3>1. phase'[q][s] = IF q = p THEN "none" ELSE phase[q][s]
      BY <2>1
    <3> QED
      BY <3>1
  <2>4. \A q \in Process, s \in Run :
           phase'[q][s] = "closing" /\ proc[q] = "stopping" => proc'[q] = "stopping"
    BY <2>2, <2>3
  <2>5. \A q \in Process, s \in Run : phase'[q][s] \in {phase[q][s], "none"}
    BY <2>3
  <2> QED
    BY <1>1, <2>2, <2>4, <2>5, DueFrame
<1>4. CASE ShutdownDone(p)
  <2>1. UNCHANGED <<phase, todo>> /\ \A s \in Run : phase[p][s] = "none"
    BY <1>4 DEF ShutdownDone
  <2>2. \A q \in Process : q # p => proc'[q] = proc[q]
    BY <1>4 DEF ShutdownDone
  <2>3. \A q \in Process, s \in Run :
           phase'[q][s] = "closing" /\ proc[q] = "stopping" => proc'[q] = "stopping"
    BY <2>1, <2>2
  <2> QED
    BY <1>1, <2>1, <2>3, DueFrame
<1>5. CASE Shutdown(p) \/ \E s \in Submission : SubmitCheck(p, s)
  <2>1. UNCHANGED <<phase, todo>> /\ \A q \in Process : proc[q] = "stopping" => proc'[q] = "stopping"
    BY <1>5 DEF Shutdown, SubmitCheck
  <2> QED
    BY <1>1, <2>1, DueFrame
<1> QED
  BY <1>2, <1>3, <1>4, <1>5

LEMMA RequestDue ==
    ASSUME DueInv, NEW p \in Process, SubmitCreate(p) \/ \E r \in Run : Cancel(p, r)
    PROVE  Due'
<1> USE DEF DueInv, DrivingInv, TypeOK
<1>1. CASE \E r \in Run : Cancel(p, r)
  <2>1. UNCHANGED <<phase, todo, proc>> /\ \A s \in Run : cancelAsked[s] => cancelAsked'[s]
    BY <1>1 DEF Cancel
  <2>2. \A s \in Run : status'[s] = status[s] \/ cancelAsked'[s]
    BY <1>1 DEF Cancel
  <2> QED
    BY <2>1, <2>2, DueFrame
<1>2. CASE SubmitCreate(p)
  <2>1. UNCHANGED <<phase, proc, cancelAsked>>
    BY <1>2 DEF SubmitCreate
  <2>2. CASE UNCHANGED <<status, todo>>
    BY <2>1, <2>2, DueFrame
  <2>3. CASE \E r \in Run : /\ status[r] = "ABSENT" /\ status' = [status EXCEPT ![r] = "QUEUED"]
                            /\ todo' = [todo EXCEPT ![p] = {r}]
    <3>1. PICK r \in Run : /\ status[r] = "ABSENT" /\ status' = [status EXCEPT ![r] = "QUEUED"]
                           /\ todo' = [todo EXCEPT ![p] = {r}]
      BY <2>3
    <3>2. \A s \in Run : status'[s] = status[s] \/ (s = r /\ status[s] = "ABSENT" /\ status'[s] = "QUEUED")
      BY <3>1
    <3>3. \A s \in Run : Wanted(s) => Wanted(s)'
      BY <2>1, <3>2 DEF Wanted, Active
    <3>4. Wanted(r)'
      BY <3>1 DEF Wanted, Active
    <3>5. \A q \in Process : todo'[q] \subseteq todo[q] \cup {r}
      BY <3>1
    <3>6. \A s \in Run : status[s] \in TERMINAL => status'[s] \in TERMINAL
      BY <3>2 DEF TERMINAL
    <3> QED
      BY <2>1, <3>3, <3>4, <3>5, <3>6 DEF Due, Drives
  <2> QED
    BY <1>2, <2>2, <2>3 DEF SubmitCreate
<1> QED
  BY <1>1, <1>2

LEMMA DriveDue ==
    ASSUME DueInv, NEW p \in Process, NEW r \in Run, Drive(p, r)
    PROVE  Due'
<1> USE DEF DueInv, DrivingInv, TypeOK
<1>1. /\ Wanted(r) /\ UNCHANGED <<proc, cancelAsked>>
      /\ \A q \in Process : todo'[q] \subseteq todo[q]
  BY DEF Drive, Due
<1>2. CASE UNCHANGED <<status, phase>>
  BY <1>1, <1>2, DueFrame
<1>3. CASE /\ status' = [status EXCEPT ![r] = "PROVISIONING"]
           /\ phase' = [phase EXCEPT ![p][r] = "provisioning"]
  <2>1. /\ \A q \in Process, s \in Run : q # p \/ s # r => phase'[q][s] = phase[q][s]
        /\ phase'[p][r] = "provisioning"
        /\ status'[r] = "PROVISIONING" /\ \A s \in Run \ {r} : status'[s] = status[s]
    BY <1>3
  <2>2. \A s \in Run : Wanted(s) => Wanted(s)'
    BY <1>1, <2>1 DEF Wanted, Active
  <2>3. \A s \in Run : status[s] \in TERMINAL => status'[s] \in TERMINAL \/ cancelAsked'[s]
    BY <1>1, <2>1 DEF Wanted, Active, TERMINAL
  <2>4. ASSUME NEW q \in Process, NEW s \in Run, s \in todo'[q] \/ Drives(q, s)' PROVE Wanted(s)'
    <3>1. CASE s = r
      BY <1>1, <2>2, <3>1
    <3>2. CASE s # r
      BY <1>1, <2>1, <2>2, <2>4, <3>2 DEF Due, Drives
    <3> QED
      BY <3>1, <3>2
  <2>5. ASSUME NEW q \in Process, NEW s \in Run, phase'[q][s] = "closing"
        PROVE  proc'[q] = "stopping" \/ status'[s] \in TERMINAL \/ cancelAsked'[s]
    <3>1. phase[q][s] = "closing"
      BY <2>1, <2>5
    <3>2. proc[q] = "stopping" \/ status[s] \in TERMINAL \/ cancelAsked[s]
      BY <3>1 DEF Due
    <3> QED
      BY <1>1, <2>3, <3>2
  <2> HIDE DEF DueInv, DrivingInv, TypeOK
  <2> QED
    BY <2>4, <2>5 DEF Due
<1> QED
  BY <1>2, <1>3 DEF Drive

\* An answer finishes the run when it ends the drive, and only the driver's does.
LEMMA AnsweredDue ==
    ASSUME Timely, DueInv, NEW p \in Process, NEW r \in Run, Answered(p, r)
    PROVE  Due'
<1> USE DEF DueInv, DrivingInv
<1>1. /\ \A q \in Process : todo'[q] = {}
      /\ UNCHANGED <<proc, cancelAsked>>
  BY AnsweredStep, AnsweredRows DEF Answer, Busy
<1>2. /\ \A q \in Process, s \in Run : q # p \/ s # r => phase'[q][s] = phase[q][s]
      /\ \A s \in Run \ {r} : status'[s] = status[s]
      /\ Drives(p, r)' => Drives(p, r)
  BY AnsweredStep
<1>3. /\ status'[r] = status[r] \/ status'[r] \in TERMINAL \/ status'[r] = "RUNNING"
      /\ status'[r] # status[r] => Drives(p, r)
      /\ Drives(p, r)' => status'[r] \in {status[r], "RUNNING"}
      /\ phase'[p][r] = "closing" =>
            proc[p] = "stopping" \/ status'[r] \in TERMINAL
  <2> USE DEF TypeOK
  <2>1. CASE Provisioned(p, r)
    BY <2>1 DEF Provisioned, store
  <2>2. CASE ProvisionFails(p, r)
    BY <2>2 DEF ProvisionFails, FailureRecorded, TERMINAL, Drives, Renewing
  <2>3. CASE LoopStarts(p, r)
    BY <2>3 DEF LoopStarts, Drives, Renewing
  <2>4. CASE DriveFails(p, r)
    BY <2>4 DEF DriveFails, FailureRecorded, TERMINAL, Drives, Renewing
  <2>5. CASE \E s \in LoopStatus : LoopEnds(p, r, s)
    BY <2>5 DEF LoopEnds, store
  <2>6. CASE Published(p, r)
    BY <2>6, RemoteStatusTerminal DEF Published, Drives, Renewing
  <2>7. CASE Released(p, r)
    BY <2>7 DEF Released
  <2> QED
    BY <2>1, <2>2, <2>3, <2>4, <2>5, <2>6, <2>7 DEF Answered
<1>4. ASSUME NEW q \in Process, NEW s \in Run, Drives(q, s)' PROVE Wanted(s)'
  <2>1. Drives(q, s) /\ Wanted(s)
    BY <1>2, <1>4 DEF Due, Drives
  <2>2. CASE s # r \/ status'[r] = status[r]
    BY <1>1, <1>2, <2>1, <2>2 DEF Wanted
  <2>3. CASE s = r /\ status'[r] # status[r]
    <3>1. Drives(p, r)
      BY <1>3, <2>3
    <3>2. q = p
      BY <2>1, <2>3, <3>1 DEF Driving, DriverHoldsLease
    <3> QED
      BY <1>3, <1>4, <2>3, <3>2 DEF Wanted, Active
  <2> QED
    BY <2>2, <2>3
<1>5. ASSUME NEW q \in Process, NEW s \in Run, phase'[q][s] = "closing"
      PROVE  proc'[q] = "stopping" \/ status'[s] \in TERMINAL \/ cancelAsked'[s]
  <2>1. CASE q = p /\ s = r
    BY <1>1, <1>3, <1>5, <2>1
  <2>2. CASE q # p \/ s # r
    <3>1. proc[q] = "stopping" \/ status[s] \in TERMINAL \/ cancelAsked[s]
      BY <1>2, <1>5, <2>2 DEF Due
    <3>2. CASE s # r \/ status'[r] = status[r]
      BY <1>1, <1>2, <3>1, <3>2
    <3>3. CASE s = r /\ status'[r] # status[r]
      <4>1. Wanted(r)
        BY <1>3, <3>3 DEF Due
      <4> QED
        BY <1>1, <1>3, <3>1, <3>3, <4>1 DEF Wanted, Active, TERMINAL
    <3> QED
      BY <3>2, <3>3
  <2> QED
    BY <2>1, <2>2
<1> QED
  BY <1>1, <1>4, <1>5 DEF Due

LEMMA NextDue ==
    ASSUME Timely, DueInv, [Next]_vars PROVE DueInv'
<1>1. DrivingInv'
  BY NextDriving DEF DueInv
<1>2. ASSUME UNCHANGED <<status, proc, todo, phase, cancelAsked>> PROVE Due'
  BY <1>2, DueFrame DEF DueInv
<1>3. ASSUME NEW p \in Process, Sweeps(p) PROVE Due'
  BY <1>2, <1>3 DEF Sweeps, SweepBegins, SweepStep, Reclaimed, store
<1>4. ASSUME Outside PROVE Due'
  BY <1>2, <1>4, OutsideQuiet DEF memory
<1> QED
  BY <1>1, <1>3, <1>4, StepKinds, LifeDue, RequestDue, DriveDue, AnsweredDue DEF DueInv

\* A run at work has its container and a live row for it (reaper.ts:62-80),
\* unless the workspace outlived its ceiling or a person asked for the run to be
\* cancelled: neither a sweep that goes by what it read a while ago, nor the end
\* of another drive, nor a recovery takes it away.  So it is however many
\* coordinators are up at once while their timers fire in time, and however late
\* these are while no two are up at once.
THEOREM WorkspaceKept ==
    ASSUME Timely \/ ~Overlap PROVE Spec => []WorkingRunKeepsWorkspace
<1>1. CASE Timely
  <2>1. Init => DueInv /\ Kept
    BY InitDue, InitKept
  <2>2. DueInv /\ Kept /\ [Next]_vars => (DueInv /\ Kept)'
    BY <1>1, NextDue, NextKept, DueSettles
  <2>3. Kept => WorkingRunKeepsWorkspace
    BY DEF Kept
  <2> QED
    BY <2>1, <2>2, <2>3, PTL DEF Spec
<1>2. CASE ~Overlap
  <2>1. Init => AloneInv /\ Kept
    BY InitAlone, InitKept
  <2>2. AloneInv /\ Kept /\ [Next]_vars => (AloneInv /\ Kept)'
    BY <1>2, NextAlone, NextKept, AloneSettles
  <2>3. Kept => WorkingRunKeepsWorkspace
    BY DEF Kept
  <2> QED
    BY <2>1, <2>2, <2>3, PTL DEF Spec
<1> QED
  BY <1>1, <1>2


-----------------------------------------------------------------------------
(* How a container is lost sight of                                        *)

\* The workspace a run names, in a timely world: the one of its drive until
\* that is over, and while it is releasing the run has finished and nobody
\* else drives it.
Names ==
    /\ \A q \in Process, r \in Run : Drives(q, r) => workspaceOf[r] = q
    /\ \A q \in Process, r \in Run : phase[q][r] = "closing" /\ proc[q] # "stopping" =>
          /\ workspaceOf[r] = q /\ status[r] \in TERMINAL
          /\ \A p \in Process : ~Drives(p, r)

NamesInv == DrivingInv /\ Names

LEMMA InitNames == Init => NamesInv
  BY InitDriving DEF Init, NamesInv, Names, Drives, Renewing

\* Steps that begin no drive and leave a finished run finished.
LEMMA NamesFrame ==
    ASSUME Names, UNCHANGED workspaceOf,
           \A s \in Run : status[s] \in TERMINAL => status'[s] \in TERMINAL,
           \A q \in Process, s \in Run : phase'[q][s] \in {phase[q][s], "none"},
           \A q \in Process, s \in Run :
              phase'[q][s] = "closing" /\ proc'[q] # "stopping" => proc[q] # "stopping"
    PROVE  Names'
<1>1. \A q \in Process, s \in Run : Drives(q, s)' => Drives(q, s)
  BY DEF Drives, Renewing
<1>2. \A q \in Process, s \in Run : phase'[q][s] = "closing" => phase[q][s] = "closing"
  OBVIOUS
<1> QED
  BY <1>1, <1>2 DEF Names

LEMMA LifeNames ==
    ASSUME NamesInv, NEW p \in Process,
           \/ Start(p) \/ Shutdown(p) \/ ShutdownDone(p) \/ Crash(p)
           \/ \E s \in Submission : SubmitCheck(p, s)
    PROVE  Names'
<1> USE DEF NamesInv, DrivingInv, TypeOK
<1>1. UNCHANGED <<status, workspaceOf>>
  BY DEF Start, Shutdown, ShutdownDone, Crash, SubmitCheck, store
<1>2. CASE Crash(p)
  <2>1. phase' = [phase EXCEPT ![p] = [r \in Run |-> "none"]] /\ proc' = [proc EXCEPT ![p] = "gone"]
    BY <1>2 DEF Crash
  <2>2. ASSUME NEW q \in Process, NEW s \in Run
        PROVE  /\ phase'[q][s] \in {phase[q][s], "none"}
               /\ phase'[q][s] = "closing" => proc'[q] = proc[q]
    <3>1. phase'[q][s] = IF q = p THEN "none" ELSE phase[q][s]
      BY <2>1
    <3>2. q # p => proc'[q] = proc[q]
      BY <2>1
    <3> QED
      BY <3>1, <3>2
  <2> QED
    BY <1>1, <2>2, NamesFrame
<1>3. CASE ShutdownDone(p)
  <2>1. UNCHANGED phase /\ \A s \in Run : phase[p][s] = "none"
    BY <1>3 DEF ShutdownDone
  <2>2. \A q \in Process : q # p => proc'[q] = proc[q]
    BY <1>3 DEF ShutdownDone
  <2>3. \A q \in Process, s \in Run : phase'[q][s] = "closing" => proc'[q] = proc[q]
    BY <2>1, <2>2
  <2> QED
    BY <1>1, <2>1, <2>3, NamesFrame
<1>4. CASE Start(p) \/ Shutdown(p) \/ \E s \in Submission : SubmitCheck(p, s)
  <2>1. UNCHANGED phase /\ \A q \in Process : proc'[q] # "stopping" => proc[q] # "stopping"
    BY <1>4 DEF Start, Shutdown, SubmitCheck
  <2> QED
    BY <1>1, <2>1, NamesFrame
<1> QED
  BY <1>2, <1>3, <1>4

LEMMA RequestNames ==
    ASSUME NamesInv, NEW p \in Process, SubmitCreate(p) \/ \E r \in Run : Cancel(p, r)
    PROVE  Names'
<1> USE DEF NamesInv, DrivingInv, TypeOK
<1>1. UNCHANGED <<workspaceOf, phase, proc>>
  BY DEF SubmitCreate, Cancel
<1>2. \A s \in Run : status'[s] = status[s] \/ status[s] = "ABSENT" \/ status'[s] = "CANCELLED"
  BY DEF SubmitCreate, Cancel
<1>3. \A s \in Run : status[s] \in TERMINAL => status'[s] \in TERMINAL
  BY <1>2 DEF TERMINAL
<1> QED
  BY <1>1, <1>3, NamesFrame

\* A drive that begins: nobody else drives the run, nor is releasing it.
LEMMA DriveNames ==
    ASSUME NamesInv, NEW p \in Process, NEW r \in Run, Drive(p, r) PROVE Names'
<1> USE DEF NamesInv, DrivingInv
<1>1. r \in todo[p] /\ UNCHANGED proc
  BY DEF Drive
<1>2. CASE UNCHANGED <<status, workspaceOf, phase>>
  BY <1>1, <1>2, NamesFrame
<1>3. CASE /\ CanAcquire(p, r) /\ status[r] # "CANCELLED"
           /\ status' = [status EXCEPT ![r] = "PROVISIONING"]
           /\ workspaceOf' = [workspaceOf EXCEPT ![r] = p]
           /\ phase' = [phase EXCEPT ![p][r] = "provisioning"]
  <2>1. phase[p][r] = "none" /\ status[r] \in Active
    BY <1>1, <1>3 DEF Driving, TodoIsFresh
  <2>2. \A q \in Process : ~Drives(q, r)
    BY <1>3, <2>1, CoordinatorAssumption
       DEF CanAcquire, Driving, DriverHoldsLease, Drives, Renewing
  <2>3. \A q \in Process : ~(phase[q][r] = "closing" /\ proc[q] # "stopping")
    BY <2>1 DEF Names, Active, TERMINAL
  <2>4. /\ \A q \in Process, s \in Run : q # p \/ s # r => phase'[q][s] = phase[q][s]
        /\ phase'[p][r] = "provisioning"
    BY <1>3 DEF TypeOK
  <2>5. /\ workspaceOf'[r] = p
        /\ \A s \in Run \ {r} : workspaceOf'[s] = workspaceOf[s] /\ status'[s] = status[s]
    BY <1>3 DEF TypeOK
  <2>6. ASSUME NEW q \in Process, NEW s \in Run, Drives(q, s)' PROVE workspaceOf'[s] = q
    <3>1. CASE s = r
      BY <2>2, <2>4, <2>5, <2>6, <3>1 DEF Drives
    <3>2. CASE s # r
      BY <2>4, <2>5, <2>6, <3>2 DEF Names, Drives
    <3> QED
      BY <3>1, <3>2
  <2>7. ASSUME NEW q \in Process, NEW s \in Run, phase'[q][s] = "closing", proc'[q] # "stopping"
        PROVE  /\ workspaceOf'[s] = q /\ status'[s] \in TERMINAL
               /\ \A x \in Process : ~Drives(x, s)'
    <3>1. phase[q][s] = "closing" /\ proc[q] # "stopping"
      BY <1>1, <2>4, <2>7
    <3>2. s # r
      BY <2>3, <3>1
    <3>3. \A x \in Process : Drives(x, s)' <=> Drives(x, s)
      BY <2>4, <3>2 DEF Drives
    <3> QED
      BY <2>5, <3>1, <3>2, <3>3 DEF Names
  <2> QED
    BY <2>6, <2>7 DEF Names
<1> QED
  BY <1>2, <1>3 DEF Drive

\* A drive that goes on keeps its workspace, and ends with the run finished.
LEMMA AnsweredNames ==
    ASSUME NamesInv, NEW p \in Process, NEW r \in Run, Answered(p, r) PROVE Names'
<1> USE DEF NamesInv, DrivingInv
<1>1. /\ UNCHANGED <<proc, workspaceOf>> /\ phase[p][r] # "none"
      /\ \A q \in Process, s \in Run : q # p \/ s # r => phase'[q][s] = phase[q][s]
      /\ \A s \in Run : s # r => status'[s] = status[s]
      /\ Drives(p, r)' => Drives(p, r)
  <2>1. UNCHANGED workspaceOf
    BY DEF Answered, Provisioned, ProvisionFails, LoopStarts, DriveFails, LoopEnds,
           Published, Released, store
  <2> QED
    BY <2>1, AnsweredStep
<1>2. /\ status'[r] # status[r] => Drives(p, r)
      /\ phase'[p][r] = "closing" =>
            Drives(p, r) /\ ~Drives(p, r)' /\ (proc[p] = "stopping" \/ status'[r] \in TERMINAL)
  <2> USE DEF TypeOK
  <2>1. CASE Provisioned(p, r)
    BY <2>1 DEF Provisioned, store
  <2>2. CASE ProvisionFails(p, r)
    BY <2>2 DEF ProvisionFails, FailureRecorded, Drives, Renewing
  <2>3. CASE LoopStarts(p, r)
    BY <2>3 DEF LoopStarts, Drives, Renewing
  <2>4. CASE DriveFails(p, r)
    BY <2>4 DEF DriveFails, FailureRecorded, TERMINAL, Drives, Renewing
  <2>5. CASE \E s \in LoopStatus : LoopEnds(p, r, s)
    BY <2>5 DEF LoopEnds, store
  <2>6. CASE Published(p, r)
    BY <2>6, RemoteStatusTerminal DEF Published, Drives, Renewing
  <2>7. CASE Released(p, r)
    BY <2>7 DEF Released
  <2> QED
    BY <2>1, <2>2, <2>3, <2>4, <2>5, <2>6, <2>7 DEF Answered
<1>3. \A q \in Process, s \in Run : Drives(q, s)' => Drives(q, s)
  BY <1>1 DEF Drives
<1>4. ASSUME NEW q \in Process, NEW s \in Run, phase'[q][s] = "closing", proc'[q] # "stopping"
      PROVE  /\ workspaceOf'[s] = q /\ status'[s] \in TERMINAL
             /\ \A x \in Process : ~Drives(x, s)'
  <2>1. CASE q = p /\ s = r
    <3>1. Drives(p, r) /\ ~Drives(p, r)' /\ status'[r] \in TERMINAL
      BY <1>1, <1>2, <1>4, <2>1
    <3>2. \A x \in Process : Drives(x, r) => x = p
      BY <3>1 DEF Driving, DriverHoldsLease
    <3> QED
      BY <1>1, <1>3, <2>1, <3>1, <3>2 DEF Names
  <2>2. CASE q # p \/ s # r
    <3>1. /\ workspaceOf[s] = q /\ status[s] \in TERMINAL
          /\ \A x \in Process : ~Drives(x, s)
      BY <1>1, <1>4, <2>2 DEF Names
    <3>2. status'[s] = status[s]
      BY <1>1, <1>2, <3>1
    <3> QED
      BY <1>1, <1>3, <3>1, <3>2
  <2> QED
    BY <2>1, <2>2
<1> QED
  BY <1>1, <1>3, <1>4 DEF Names

LEMMA NextNames ==
    ASSUME Timely, NamesInv, [Next]_vars PROVE NamesInv'
<1>1. DrivingInv'
  BY NextDriving DEF NamesInv
<1>2. ASSUME UNCHANGED <<status, workspaceOf, proc, phase>> PROVE Names'
  BY <1>2, NamesFrame DEF NamesInv
<1>3. ASSUME NEW p \in Process, Sweeps(p) PROVE Names'
  BY <1>2, <1>3 DEF Sweeps, SweepBegins, SweepStep, Reclaimed, store
<1>4. ASSUME Outside PROVE Names'
  BY <1>2, <1>4, OutsideQuiet DEF memory
<1> QED
  BY <1>1, <1>3, <1>4, StepKinds, LifeNames, RequestNames, DriveNames, AnsweredNames DEF NamesInv

\* What a process may hand back: in a timely world, or alone, the run it drives
\* to the end names its workspace; alone, it has not been cancelled before.
Warded ==
    /\ TypeOK
    /\ ~Overlap => \A q \in Process, s \in Run : s \in todo[q] => status[s] # "CANCELLED"
    /\ Timely \/ ~Overlap => \A q \in Process, s \in Run :
          phase[q][s] # "none" /\ proc[q] # "stopping" => workspaceOf[s] = q

LEMMA AloneWards == ASSUME ~Overlap, AloneInv PROVE Warded
<1>1. \A q \in Process, s \in Run : s \in todo[q] => status[s] # "CANCELLED"
  BY DEF AloneInv, Alone, Calm, Active
<1>2. \A q \in Process, s \in Run : phase[q][s] # "none" => workspaceOf[s] = q
  BY DEF AloneInv, Alone, Calm
<1> QED
  BY <1>1, <1>2 DEF Warded, AloneInv

LEMMA NamesWard == ASSUME Overlap, NamesInv PROVE Warded
<1>1. ASSUME NEW q \in Process, NEW s \in Run, phase[q][s] # "none", proc[q] # "stopping"
      PROVE  workspaceOf[s] = q
  <2>1. Drives(q, s) \/ phase[q][s] = "closing"
    BY <1>1 DEF NamesInv, DrivingInv, TypeOK, Phase, Drives
  <2> QED
    BY <1>1, <2>1 DEF NamesInv, Names
<1> QED
  BY <1>1 DEF Warded, NamesInv, DrivingInv

\* A container that is running after a step, and that nobody finds any more.
Slips(p, r) == container[p][r] = "running" /\ Findable(p, r) /\ container'[p][r] = "running"
                 /\ ~Findable(p, r)'

\* What is neither at work on a workspace nor marks its row leaves it findable.
LEMMA StaysFindable ==
    ASSUME NEW p, NEW r, Findable(p, r), LiveRow(p, r) => LiveRow(p, r)',
           handle[p][r] => handle'[p][r],
           phase[p][r] = "provisioning" => phase'[p][r] = "provisioning"
    PROVE  Findable(p, r)'
  BY DEF Findable

\* Steps that mark no row: only a death while it is being made loses a container.
LEMMA LifeLosses ==
    ASSUME TypeOK, NEW q \in Process, NEW p \in Process, NEW r \in Run, Slips(p, r),
           \/ Start(q) \/ Shutdown(q) \/ ShutdownDone(q) \/ Crash(q)
           \/ SubmitCreate(q) \/ (\E s \in Submission : SubmitCheck(q, s))
           \/ \E s \in Run : Cancel(q, s)
    PROVE  KnownLoss(p, r)
<1>1. UNCHANGED <<rowStatus, handle>>
  BY DEF Start, Shutdown, ShutdownDone, Crash, SubmitCreate, SubmitCheck, Cancel, workspaces
<1>2. CASE Crash(q)
  <2>1. phase' = [phase EXCEPT ![q] = [s \in Run |-> "none"]]
    BY <1>2 DEF Crash
  <2>2. q # p => phase'[p][r] = phase[p][r]
    BY <2>1 DEF TypeOK
  <2>3. q = p /\ phase[p][r] = "provisioning"
    BY <1>1, <2>2, StaysFindable DEF Slips, LiveRow
  <2> QED
    BY <1>2, <2>3 DEF KnownLoss
<1>3. CASE ~Crash(q)
  <2>1. UNCHANGED phase
    BY <1>3 DEF Start, Shutdown, ShutdownDone, SubmitCreate, SubmitCheck, Cancel
  <2> QED
    BY <1>1, <2>1, StaysFindable DEF Slips, LiveRow
<1> QED
  BY <1>2, <1>3

\* A drive that begins makes a row; one that finds its run cancelled marks one.
LEMMA DriveLosses ==
    ASSUME Warded, NEW q \in Process, NEW s \in Run, Drive(q, s),
           NEW p \in Process, NEW r \in Run, Slips(p, r)
    PROVE  KnownLoss(p, r)
<1> USE DEF Warded, TypeOK
<1>1. s \in todo[q] /\ UNCHANGED handle
  BY DEF Drive
<1>2. CASE UNCHANGED <<rowStatus, phase>>
  BY <1>1, <1>2, StaysFindable DEF Slips, LiveRow
<1>3. CASE status[s] = "CANCELLED" /\ UNCHANGED phase /\ rowStatus' = RowsReleased(s)
  <2>1. Overlap
    BY <1>1, <1>3
  <2>2. rowStatus'[p][r] # rowStatus[p][r]
    BY <1>1, <1>3, StaysFindable DEF Slips, LiveRow
  <2>3. workspaceOf[s] = p /\ s = r
    BY <1>3, <2>2 DEF RowsReleased
  <2> QED
    BY <1>3, <2>1, <2>3 DEF KnownLoss, MarkedByAnother
<1>4. CASE /\ rowStatus' = [rowStatus EXCEPT ![q][s] = "provisioning"]
           /\ phase' = [phase EXCEPT ![q][s] = "provisioning"]
  <2>1. CASE q = p /\ s = r
    BY <1>4, <2>1 DEF Slips, Findable
  <2>2. CASE q # p \/ s # r
    <3>1. rowStatus'[p][r] = rowStatus[p][r] /\ phase'[p][r] = phase[p][r]
      BY <1>4, <2>2
    <3> QED
      BY <1>1, <3>1, StaysFindable DEF Slips, LiveRow
  <2> QED
    BY <2>1, <2>2
<1> QED
  BY <1>2, <1>3, <1>4 DEF Drive, RowsReleased

\* A drive that has its container goes on with the handle recorded.
LEMMA ProvisionedLosesNone ==
    ASSUME TypeOK, NEW q \in Process, NEW s \in Run, Provisioned(q, s),
           NEW p \in Process, NEW r \in Run
    PROVE  ~Slips(p, r)
<1> SUFFICES ASSUME Slips(p, r) PROVE FALSE
  OBVIOUS
<1>1. /\ handle \in [Process -> [Run -> BOOLEAN]]
      /\ \E V : rowStatus \in [Process -> [Run -> V]]
      /\ \E V : phase \in [Process -> [Run -> V]]
  BY DEF TypeOK
<1>2. /\ handle' = [handle EXCEPT ![q][s] = TRUE]
      /\ rowStatus' = [rowStatus EXCEPT ![q][s] = "ready"]
      /\ phase' = [phase EXCEPT ![q][s] = "signingIn"]
  BY DEF Provisioned
<1>3. CASE q = p /\ s = r
  BY <1>1, <1>2, <1>3 DEF Slips, Findable, LiveRow
<1>4. CASE q # p \/ s # r
  <2>1. handle'[p][r] = handle[p][r]
    BY <1>1, <1>2, <1>4
  <2>2. rowStatus'[p][r] = rowStatus[p][r]
    BY <1>1, <1>2, <1>4
  <2>3. phase'[p][r] = phase[p][r]
    BY <1>1, <1>2, <1>4
  <2> QED
    BY <2>1, <2>2, <2>3, StaysFindable DEF Slips, LiveRow
<1> QED
  BY <1>3, <1>4

\* A drive that goes on keeps what it has, and one that ends asks for the
\* removal; the row it then marks is its own, or it had lost the run.
LEMMA AnsweredLosses ==
    ASSUME Warded, NEW q \in Process, NEW s \in Run, Answered(q, s),
           NEW p \in Process, NEW r \in Run, Slips(p, r)
    PROVE  KnownLoss(p, r)
<1> USE DEF Warded, TypeOK
<1>1. CASE LoopStarts(q, s) \/ DriveFails(q, s) \/ Published(q, s)
           \/ \E x \in LoopStatus : LoopEnds(q, s, x)
  <2>1. UNCHANGED <<rowStatus, handle>> /\ phase[q][s] # "provisioning"
    BY <1>1 DEF LoopStarts, DriveFails, LoopEnds, Published, workspaces
  <2>2. CASE q = p /\ s = r
    BY <2>1, <2>2, StaysFindable DEF Slips, LiveRow
  <2>3. CASE q # p \/ s # r
    <3>1. phase'[p][r] = phase[p][r]
      BY <2>3, AnsweredStep
    <3> QED
      BY <2>1, <3>1, StaysFindable DEF Slips, LiveRow
  <2> QED
    BY <2>2, <2>3
<1>2. CASE Provisioned(q, s)
  BY <1>2, ProvisionedLosesNone
<1>3. CASE ProvisionFails(q, s) \/ Released(q, s)
  <2>1. HandBack(q, s) /\ UNCHANGED handle
    BY <1>3 DEF ProvisionFails, Released
  <2>2. CASE q = p /\ s = r
    BY <1>3, <2>2 DEF KnownLoss, RemovalAsked
  <2>3. CASE q # p \/ s # r
    <3>1. phase'[p][r] = phase[p][r]
      BY <2>3, AnsweredStep
    <3>2. rowStatus'[p][r] # rowStatus[p][r]
      BY <2>1, <3>1, StaysFindable DEF Slips, LiveRow
    <3>3. proc[q] # "stopping" /\ rowStatus' = RowsReleased(s)
      BY <2>1, <3>2 DEF HandBack, RowsReleased
    <3>4. workspaceOf[s] = p /\ s = r /\ q # p
      BY <2>3, <3>2, <3>3 DEF RowsReleased
    <3>5. phase[q][s] # "none"
      BY AnsweredStep
    <3>6. Overlap /\ ~Timely
      BY <3>3, <3>4, <3>5
    <3> QED
      BY <1>3, <3>4, <3>6 DEF KnownLoss, MarkedByAnother
  <2> QED
    BY <2>2, <2>3
<1> QED
  BY <1>1, <1>2, <1>3 DEF Answered

\* A reaper marks a row when it has asked for the removal, or has no handle.
LEMMA SweepsLosses ==
    ASSUME TypeOK, NEW q \in Process, Sweeps(q),
           NEW p \in Process, NEW r \in Run, Slips(p, r)
    PROVE  KnownLoss(p, r)
<1> USE DEF TypeOK
<1>1. UNCHANGED <<handle, phase>>
  BY DEF Sweeps, SweepBegins, SweepStep, Reclaimed, workspaces
<1>2. rowStatus'[p][r] # rowStatus[p][r]
  BY <1>1, StaysFindable DEF Slips, LiveRow
<1>3. ASSUME NEW c \in {"expired", "finished"}, SweepBegins(q, c) PROVE FALSE
  BY <1>2, <1>3 DEF SweepBegins, workspaces
<1>4. ASSUME NEW i \in sweep[q], SweepStep(q, i) PROVE KnownLoss(p, r)
  <2>1. ~i.handle /\ rowStatus' = [rowStatus EXCEPT ![i.maker][i.run] = "released"]
    BY <1>2, <1>4 DEF SweepStep
  <2>2. i.maker = p /\ i.run = r
    BY <1>2, <2>1
  <2> QED
    BY <1>4, <2>1, <2>2 DEF KnownLoss, ListedTooEarly
<1>5. ASSUME NEW i \in reclaiming[q], Reclaimed(q, i) PROVE KnownLoss(p, r)
  <2>1. rowStatus' = [rowStatus EXCEPT ![i.maker][i.run] = "released"]
    BY <1>5 DEF Reclaimed
  <2>2. i.maker = p /\ i.run = r
    BY <1>2, <2>1
  <2> QED
    BY <1>5, <2>2 DEF KnownLoss, RemovalAsked
<1> QED
  BY <1>3, <1>4, <1>5 DEF Sweeps

LEMMA NextLosses ==
    ASSUME Warded, [Next]_vars, NEW p \in Process, NEW r \in Run, Slips(p, r)
    PROVE  KnownLoss(p, r)
<1>0. TypeOK
  BY DEF Warded
<1>1. ASSUME Outside PROVE FALSE
  <2>1. UNCHANGED <<rowStatus, handle, phase>>
    BY <1>1, OutsideQuiet DEF memory
  <2> QED
    BY <2>1, StaysFindable DEF Slips, LiveRow
<1> QED
  BY <1>0, <1>1, StepKinds, LifeLosses, DriveLosses, AnsweredLosses, SweepsLosses

LEMMA LosesOnly ==
    ASSUME Warded, [Next]_vars
    PROVE  \A p \in Process, r \in Run :
             container[p][r] = "running" /\ Findable(p, r) =>
                container'[p][r] # "running" \/ Findable(p, r)' \/ KnownLoss(p, r)
  BY NextLosses DEF Slips

\* A running container is lost sight of in no other way than the known ones
\* (coordinator.ts:377, 423-432, reaper.ts:53-87), in whatever deployment:
\* processes that overlap, stall and die anywhere, removals that fail, reapers
\* that die.  Alone, or with timers that fire in time, there are fewer.
THEOREM ContainersLostAsKnown == Spec => OnlyKnownLosses
<1>1. Warded /\ [Next]_vars =>
        [\A p \in Process, r \in Run :
            container[p][r] = "running" /\ Findable(p, r) =>
               container'[p][r] # "running" \/ Findable(p, r)' \/ KnownLoss(p, r)]_vars
  BY LosesOnly
<1>2. CASE ~Overlap
  <2>1. Init => AloneInv
    BY InitAlone
  <2>2. AloneInv /\ [Next]_vars => AloneInv'
    BY <1>2, NextAlone
  <2>3. AloneInv => Warded
    BY <1>2, AloneWards
  <2> QED
    BY <1>1, <2>1, <2>2, <2>3, PTL DEF Spec, OnlyKnownLosses
<1>3. CASE Overlap /\ Timely
  <2>1. Init => NamesInv
    BY InitNames
  <2>2. NamesInv /\ [Next]_vars => NamesInv'
    BY <1>3, NextNames
  <2>3. NamesInv => Warded
    BY <1>3, NamesWard
  <2> QED
    BY <1>1, <2>1, <2>2, <2>3, PTL DEF Spec, OnlyKnownLosses
<1>4. CASE Overlap /\ ~Timely
  <2>1. TypeOK => Warded
    BY <1>4 DEF Warded
  <2> QED
    BY <1>1, <2>1, InitTypeOK, NextTypeOK, PTL DEF Spec, OnlyKnownLosses
<1> QED
  BY <1>2, <1>3, <1>4

=============================================================================
