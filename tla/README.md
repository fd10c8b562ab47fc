# Verification of the orchestrator

TLA+ models of the AI orchestrator in this repository, the TLC runs that check
them on small instances, and TLAPS proofs for every instance. Paths and line
numbers refer to the repository; `PROJECT.json` maps every definition to the
lines it stands for.

1. [The system](#1-the-system)
2. [Modules](#2-modules)
3. [Runs](#3-runs)
4. [Proofs](#4-proofs)
5. [Divergences](#5-divergences)
6. [What is not modelled](#6-what-is-not-modelled)
7. [Plan](#7-plan)

## 1. The system

The program runs an objective to its end: a *supervisor* agent decides, one
iteration after another, what *worker* agents do, evidence is collected after
each, and a *done gate* - never an agent - says whether the objective is met.
There are two hosts for that loop:

* the **desktop application** (`apps/desktop`), one process with a SQLite file,
  whose `OrchestrationService` runs loops for the person at the window;
* the **run coordinator** (`apps/coordinator`), a server that accepts remote
  runs, provisions a container for each, and runs the same loop in it, while
  the desktop mirrors its events. Several coordinator processes may share one
  store.

### Components

State in *memory* dies with its process; the rest is in SQLite, in the file
system or at a third party.

| Component | State | Operations | Talks to | Hard | Correct when |
|---|---|---|---|---|---|
| **Run coordinator** `apps/coordinator/src/coordinator.ts`, `main.ts` | memory: `driving`, `leases`, `aborts`, `inFlight`, `stopped` | submit, recover, cancel, drive (provision, sign in, loop, publish, release), shutdown | store, provisioner, loop, publisher | several processes on one store, crashes anywhere, shutdown with drives under way | one driver per run; one run per key; quota; every accepted run ends |
| **Coordinator store** `src/cloud/coordinator/store.ts` | remote_runs, run_leases, remote_run_events, cloud_workspaces | createRun, acquire / renew / release lease, listAbandoned, append, events | SQLite | leases expire under a live owner | leases exclude; terminal states are final; the log has no gap |
| **Reaper and containers** `apps/coordinator/src/reaper.ts`, `src/cloud/container-provisioner.ts` | memory: the list of a sweep; containers of the runtime | sweep (expired rows, then live rows of finished runs), provision, release, reclaim | store, container runtime | works from a list that ages; removals fail; crash between creating and recording | a working run keeps its workspace; every container is removed |
| **Local runs** `apps/desktop/src/main/services/orchestration-service.ts` | memory: `active` (loop, abort controller), sweeper; runs, run_steps, iterations | start, execute (the loop), delegate, cancel, resume after approval or confirmation, drain, reconcile | agents, bus, permission service, evidence, gate, publisher | one await after another, during each of which the person, the sweeper, a crash or another branch of a wave acts | a terminal status is final; a stopped run gives out no work; no run RUNNING without a loop; loops end |
| **Run rows** `src/database/repositories.ts` RunRepository | runs | create, setStatus, setIteration, requestCancel, listUnfinished | - | many writers, in any order | a person's decision outranks a late result |
| **Agent message bus** `src/bus/agent-message-bus.ts` | memory: scopes in flight; agent_messages | publish, claim, acknowledge, complete, fail, sweep, cancelRun | local runs | late answers after a sweep, retries, attempts | one in flight per run and recipient; closed rows stay; a bounded number of attempts |
| **Permission questions** `permission-service.ts`, `src/permissions/` | tool_permission_requests, rules | ask, approve, deny, decideResumption | local runs | answers after a cancellation, twice, or while the loop winds down | never two loops; never a stopped run |
| **Agent execution policy** `agent-execution-policy.ts`, `agent-policy-resolver.ts` | agent_policy_calls | invoke, confirm a model | local runs | writes the run's status by itself, in the middle of a wave | the call is allowed or the run is stopped |
| **Application start and stop** `app-services.ts` | the process | start, shutdown | all | shutdown gives up waiting | nothing outstanding after a start |
| **Cloud mirror** `cloud-service.ts`, `cloud-client.ts` | remote_cursor, mirrored steps and messages | submit, sync, syncAll, cancel | coordinator over HTTP | interrupted pages, two syncs at once, terminal status before the last page | the timeline is a prefix of the event log; an outcome shown happened |
| **Core run states** `src/core/run-state.ts`, `src/sessions/` | state file | transition, save, load | no application imports them | - | only allowed transitions |
| **Done gate** `src/orchestrator/done-gate.ts`, `acceptance-criteria.ts`, `completion-state.ts` | ledger of criteria | record, reject, decide | verifier, evidence | rejections over several iterations, measurements that come late, resumptions | done only on what was measured last, for every criterion |
| **Delegation plans** `src/orchestrator/delegation-plan.ts`, `decision-*.ts` | - | validate, ready | local runs | failed dependencies, proposals that did not land | a task starts behind finished ones whose work it can see |
| **Progress guards** `src/orchestrator/progress-guard.ts`, `rejected-progress.ts` | fingerprints | observe | local runs | alternating decisions | equivalent work is not asked for twice |
| **Budget and pricing** `src/providers/budget.ts`, `pricing.ts` | totals, warnings given | check, record | local runs | parallel calls between check and record | a limit is overrun by a bounded number of calls |
| **Model routing** `src/routing/` | attempts and refused models of a loop; rows of calls | route, escalate, try another model | local runs, agent policy | escalation against ceilings, policies edited meanwhile | never above a ceiling; only a failure a model could mend escalates |
| **Processes** `src/process/process-manager.ts`, `src/agents/activity-monitor.ts` | live children, timers | run, cancelAll, terminate | adapters | limits, abort and exit race | every run returns, and what it says of the child is true |
| **Managed runtimes** `src/runtime/` | current / previous / staging directories, manifests | install, update, repair, roll back | downloads, probes | crash between renames | a working build is never lost |
| **Accounts** `src/accounts/`, `account-service.ts`, `connection-service.ts` | accounts, login under way | connect, cancel, disconnect | processes | cancel and repeat during a login | one login at a time; no ambient credentials (not modelled) |
| **GitHub** `src/github/`, `src/cloud/publish.ts`, `github-app-access.ts` | branches, commits, pull requests (external), token cache | propose, apply, create branch, publish, open pull request | GitHub | moving heads, retries after partial success | nobody is overwritten; a task reports what reached GitHub |
| **Workspaces and folders** `workspace-service.ts`, `project-service.ts`, `folder-identity.ts` | workspaces, projects | open, create, associate, clone, remove, reconcile | git, file system | one folder with several spellings, handlers that wait for git | one folder, one workspace, one project |
| **Evidence** `src/verification/`, `src/git/`, `verifier.ts` | - | check files, run commands, collect changes | done gate | a measurement that times out or cannot be made | a failure to measure is no measurement |
| **Adapters, database, interface** | views | reads and single-row edits | - | - | - |

How they interact: the desktop's services call each other in one JavaScript
process, so two of them never run at the same time, but every `await` lets all
the others in; they share the SQLite file, whose statements are atomic.
Coordinator processes share only their store. The desktop and the coordinator
exchange HTTP requests that may be lost or repeated. Agents and git are child
processes with time limits.

## 2. Modules

| Module | Models | Role |
|---|---|---|
| `RemoteRuns` | what the coordinator promises | abstract specification |
| `RunCoordinator` | coordinator, store, containers, reaper | refines `RemoteRuns` |
| `AgentMessageBus` | the bus and its table | operators from a bus to a bus |
| `LocalRuns` | loops, run rows, questions, start and stop of the desktop | composes the bus |
| `EvidenceLoop` | one local loop: decisions, measurements, ledger, gate, guards | the data `LocalRuns` leaves open |
| `GitHubRun` | one loop on a repository without a checkout: waves, budget, commits | the waves and the branch `LocalRuns` leaves open |
| `Routing` | the model and effort of each call of one worker | the call `LocalRuns` makes in one step |
| `EventMirror` | what the desktop promises of a cloud run | abstract specification |
| `CloudMirror` | the mirror, over the event log of the coordinator | refines `EventMirror` |
| `Processes` | the children of a process manager | |
| `ManagedRuntime` | one runtime on disk and its installs | |
| `Workspaces` | workspaces, projects, folders and their handlers | |
| `MC...` | | instances for TLC: symmetry sets and finite inputs |
| `RunCoordinatorProofs`, `LocalRunsProofs`, `EvidenceLoopProofs`, `GitHubRunProofs`, `RoutingProofs`, `CloudMirrorProofs`, `DesktopProofs` (of `Processes` and `Workspaces`), `ManagedRuntimeProofs` | | theorems |

### RunCoordinator

State. `status`, `submission` (principal and idempotency key) and
`workspaceOf` are columns of `remote_runs`; `lease` and `leaseLive` the row of
`run_leases` and whether it is still valid; `rowStatus`, `handle` and `expired`
a row of `cloud_workspaces`, named by the process and the run that made it;
`container` what the container runtime has. In memory, `proc` is the process,
`phase[p][r]` the await the drive of `r` is in, `result` the status its loop
ended with (or that it is being cancelled), `asked` a submission between its
quota check and its insertion, `todo` the runs a synchronous block is about to
drive, `sweep` and `reclaiming` the reaper's list and the row it awaits.
`cancelAsked` is a history variable.

A restarted coordinator is another member of `Process`: the owner of a lease is
a random id chosen per process (`coordinator.ts:226`).

Grain. One action is the code between two awaits. `SubmitCheck` / `SubmitCreate`
and `Start` / `Drive` cut synchronous stretches where the statements of another
process fall between them.

| Action | Code |
|---|---|
| `Start` | `main.ts:136-142`, `recover` lists the abandoned runs |
| `SubmitCheck`, `SubmitCreate` | `submit`, `createRun` |
| `Drive` | `drive` from the lease to the provisioner |
| `ContainerCreated`, `Provisioned`, `ProvisionFails` | `provision` and what follows it |
| `LoopStarts`, `LoopEnds`, `DriveFails` | `signIn`, `runLoop` |
| `Published`, `Released` | the end of `drive`, its `finally` |
| `Cancel`, `Shutdown`, `ShutdownDone`, `Crash` | as named |
| `RenewLease`, `LeaseLapses` | the renewal timer and the clock |
| `SweepBegins`, `SweepStep`, `Reclaimed`, `WorkspaceExpires` | the reaper |

The deployment is a matter of constants, so that each question is asked of the
deployments it is about: `Overlap` (several processes up at once),
`PromptRestart` (a process may start before the leases of a dead one have
lapsed), `Timely` (timers fire in time, so a drive that renews its lease does
not lose it), `ReleaseMayFail`, `CrashPoints` (in which phases a process may
die), `Reliable` (who never does), `Reapers`.

The loop inside a drive is one phase with any outcome; that loop is `LocalRuns`.

### AgentMessageBus

A bus is a record of its table (`row`) and the scopes in memory (`inFlight`).
Every call is synchronous and made by the orchestration service, so calls are
operators that `LocalRuns` composes in the order of the code: `HandedOver` is
publish, claim, acknowledge. `seq` is the order of creation per recipient, which
`claim` looks at; `lapsed` and `due` say that a lease or a backoff is over.
Rows in a terminal status keep only that status and their order.

### LocalRuns

State. `status`, `cancelRequested`, `iteration` are columns of `runs`;
`question` the permission requests; `modelAsked` the workers whose model waits
to be confirmed; `bus` the bus; `app` the process; `stage` the await each loop
is in, `idle` for no loop; `work` the message each worker of a run is on.

| Action | Code in `orchestration-service.ts` unless said otherwise |
|---|---|
| `Start`, `Launch` | `start` 583, `launch` 690 |
| `AnswerQuestion`, `ConfirmModel` | `permission-service.ts:108`, `resumption.ts:83`, `resumeAfterApproval` 629, `resumeAfterModelConfirmation` 620 |
| `Cancel`, `CancelAgain` | `cancel` 514 |
| `Shutdown`, `Crash`, `Boot` | `drain` 4317, `app-services.ts:819`, `reconcileInterrupted` 760 |
| `Prepared`, `Decided`, `Measured`, `Delegates`, `Applied`, `Gated`, `Published`, `AtLimit`, `Throws` | the awaits of `execute` 839-2300, in order |
| `TaskStep`: `Answered`, `Refused`, `ModelUnavailable`, `TaskThrows` | `delegate` 3811-4118 and `agent-execution-policy.ts:35` |
| `Sweep`, `LeaseLapses`, `BackoffOver` | the sweeper 4261-4305 and the clock |

What the models say, what is in the files, what a command returns and what the
gate decides are the nondeterminism of the actions: an action has every outcome
the code after that await can have. Where the code asks `stopping` the action
does; where it does not, the action does not (`Published`, `AtLimit`, the
questions of `Applied`).

Abstractions to know of:

* a worker has one task per iteration and a decision delegates one wave; the
  code may run several waves of a plan in one iteration, each as this one;
* the questions of a run are a pool and none is asked twice;
* a task repeated by a resumed iteration keeps its id, hence its dedupe key;
* `applying` does not remember whether it follows a wave or a single
  delegation, so it has the outcomes of both;
* the PENDING row of a run, which exists within one synchronous stretch, is not
  distinguished from no row;
* chat messages, steps and events written beside are left out.

### EvidenceLoop and GitHubRun

Both follow the loop of `execute` (`orchestration-service.ts:839-2300`) again,
each for what `LocalRuns` makes nondeterministic: there, a gate accepts or not;
here, why.

`EvidenceLoop` has one file, one registered command whose verdict is a function
of the file, and one run nobody disturbs. State: the `ledger` of criteria, the
`pinned` and `requested` checks, the `commands` the gate repeats,
`implementation` (completion-state.ts), the complexity class `plan`, the frozen
acceptance contract, how the last `worker` ended, and what the guards remember
(`memory`). A round is `Decides` (parse, bind to the contract, redirect, state,
guard), then a worker (`WorkerEnds`, `WorkerStops`, `WorkerRefused`) or a batch
(`BatchJoined`), `Measures`, `GateDecides`; `Resumes` starts a new loop with
only what was saved. Every measurement can come late or be impossible
(`Trouble`). `Evaluated` is `evaluateDone` with every one of its conditions.

`GitHubRun` has a batch of tasks with dependencies and resources. `SendsWave`
takes the ready ones, workers answer with sets of paths (`Answers`, `Fails`,
`ModelRefused`, `PolicyStops`, `CancelTask`), `WaveEnds` joins them, and the
commit is its requests one by one: `CutsBranch`, `ChecksHead`, `MovesBranch`
(fast-forward only), `CommitFails`, with answers that may be lost (`doubt`) and
others who push (`PushedByOthers`). `Offers` opens the pull request. The ledger
of the budget counts a call when it is recorded, after its await.

### Routing

`Delegate` is a decision, `Route` one turn of the loop in `delegate`
(`orchestration-service.ts:3700-4120`): `routeWorkerModel` routes under the
policy of that moment, and `invoke` applies the policy of the agent at the call
(`agent-execution-policy.ts:35-115`). The answer is `Answer`, `Refused` (the
next model is tried), `SessionGone` (the call is repeated as it was routed) or
`ToolDenied`; `GateIsMechanical` takes an attempt back. The person edits the
policy of the account while calls are out, confirms models and resumes. Tiers
are ranks, efforts positions in `EFFORT_ORDER`; the model table is the Claude
one (OpenAI has none). The escalation is `noProgressStreak` over `attempts`.

### CloudMirror

State: `log` is remote_run_events, `status`, `bound` and `cursor` columns of
`runs`, `steps` and `messages` the mirrored rows by the number of their event,
`task` the calls of the desktop that await an answer. Requests and answers are
steps of their own, so either can be lost. A page is applied event by event
without an await, but the process may die between two (`Restart`). The
refinement maps the numbers of the events that leave a step to the log of
`EventMirror`, and `steps` to its copy.

### Processes

One step is one event of the event loop: `Exits`, `Closes`, a timer (`TimesOut`,
`GoesIdle`, `Lingers`), an abort (`Aborts`), the end of a grace period of a
`terminate` (`Escalates`, `StopEnds`). A call is `settled` when its promise has
its result and awaits the stop in `pending`. The child ignores signals, survives
SIGKILL or leaves its pipes to a grandchild as it likes.

### ManagedRuntime

The directories `current`, `previous` and `discard`, the two manifests, and an
install as the changes of the disk it makes, in order: `RemovePrevious`,
`KeepCurrent`, `NotePrevious`, `PlaceStaged`, `Record`, and the roll back
`Discard`, `Restore`, `Rewrite`, `Forget`, `Sweep`. `Refused` is any one of them
that throws - a move or a removal after its retries (`fs-retry.ts`), the writes of
the two manifests (`managed-runtime.ts:453`, `717`, `761`), the removal of
`previous.json` (`454`) - and is one more failed source (`548-572`): the next one
begins with what the disk then holds, a manifest cut short by the write included.
`Crash` is the application closed between any two. `proved`, `before`,
`displaced` (what the promotion of this source found in `current`) and `harm` are
history variables: `harm` is "refused" once a refusal cut a promotion or a roll
back in two, and "retried" when another source is then promoted.

### Workspaces

A handler is one action up to its first await; cloning (`BeginClone`,
`GitClones`, `EndClone`) and associating (`BeginAssociate`, `EndAssociate`) keep
what they read before in a record of `calls`. `Key` is `folderKey`: the real
path of a folder that is in reach, the spelling of another. `StartApplication`
and `Reconcile` are the start of the application, which computes identities again
and gives every workspace a project; `Unplug` and `Plug` move a drive. Rows are
numbered in the order they were made, and `Old` ones come from a version that
kept no identity. The specification is `CatalogueSpec`: `Processes` has a `Spec`
of its own, and one module proves theorems of both.

## 3. Runs

| Run | Instance | Shows |
|---|---|---|
| `CoordLeases` | 2 overlapping processes, 2 runs, 1 key, timely (1.5 million states) | `OneDriver`, `OneRunPerKey`, and the refinement `ImplementsRemoteRuns` |
| `CoordQuota` | 2 processes one after the other, 2 runs, quota 1, stalls, crashes anywhere, removals that fail (1.8 million states) | `QuotaHeld` |
| `CoordLive` | 1 run; a process that may die anywhere in its drive, then a reliable one with a reaper, fair (30 thousand states) | `WorkingRunKeepsWorkspace`, `OnlyKnownLosses`, `EveryRunEnds`, `EveryContainerGoes` |
| `LocalLoop` | 1 run, 1 worker, 2 iterations, 2 models, 2 questions, fair | `NoPhantomScope`, `NothingOutstanding`, `OnlyWaitingRunsLaunch`, `ResumedRunKeepsItsBudget`, `ClosedMessagesStay`, `LoopsEnd` |
| `LocalWaves` | 1 run, 2 workers in a wave, 1 iteration, 2 models, 1 question | `RunningIsDriven`, `TerminalRunStays`, `NoWorkAfterCancel` |
| `EvidenceLoop` | 3 objectives, 2 texts, 1 criterion, 2 rounds, 1 resumption (0.8 million states) | `DoneIsMeasured`, `ProofIsNotRework` |
| `GitHubRun` | 2 tasks in 4 plans, 2 paths, 2 rounds, 1 push by others, 1 resumption (0.6 million) | `OutcomeIsTrue`, `DependentsSeeIt`, `SpendingBounded`, `NobodyIsOverwritten` |
| `Routing` | 9 set-ups of agent, project and connection, 3 account policies, 3 iterations, 1 edit, 1 resumption (0.9 million) | `NothingOverTheCeiling`, `AttemptsAreCounted`, `ANewModelEachTry`, `EscalationIsEarned` |
| `CloudMirror` | 1 run, 2 overlapping calls, 4 events in pages of 2, restarts (0.3 million) | `ShownIsReal`, `FinalStatusStays`, and the refinement `ImplementsEventMirror` |
| `Processes` | 2 calls, one with limits and a signal, fair (0.3 million) | `ResultIsTrue`, `CancelAllReaches`, `RunReturns` |
| `ManagedRuntime` | 3 versions, 2 sources, moves, removals and writes that fail, crashes (0.25 million) | `CurrentWasProved`, `InstalledIsDetected`, `FailureLeavesBuild`, `RollBackRestores` |
| `Workspaces` | 2 workspaces, one of an earlier version, 2 projects, 2 folders in 3 spellings, 1 repository, 1 waiting handler (0.5 million) | `OneFolderOneProject`, `FolderIsNotTaken`, `NothingVanishes` |

No run checks for deadlock: the systems may stop, when every run has ended, the
ids are used up or the application is closed.

**Bounds.** Two coordinator processes are enough for every interleaving of two
drives of one run, of a recovery with a submission, and of a reaper with a drive;
a third adds no other relation between a lease and its owner (the proofs of
section 4 are for any number). Two runs and a quota of one make both sides of the
quota reachable, and two runs with one key make a duplicate possible. In
`LocalLoop` two iterations allow a resumption inside the first and in the second,
two models let a delegation be repeated, and two attempts let a message be
requeued once and die; two questions let some answers be given while others wait.
The code's own values are 2 further models (`MODEL_RETRIES`), 5 attempts, leases
of 20 minutes and the iterations of the settings. Two workers make every order
of the verdicts of a wave; the wave needs one iteration. Two local runs side by
side are not instantiated: they share only the bus, where each touches the rows
of its own, but a claim that may hand over the other's message; the theorems
cover it.

In `EvidenceLoop` two rounds let a decision repeat, contradict or forget what the
first one measured; a resumption repeats a round with the memory gone; one file
with two texts and its absence distinguishes every outcome of a check the gate
tells apart. In `GitHubRun` two tasks suffice for a dependency, a conflict, a
shared account and a cycle; budgets are none and 2, so that a limit is reached in
the middle of a wave. In `Routing` three iterations let two barren attempts
precede a third, which is where the capability begins to rise; the set-ups are
those that take different branches of the router (each mode, an account without
flags, a fixed agent, a policy with one and with two candidates, models to
confirm). In `CloudMirror` four events in pages of two make a full page followed
by a full or a partial one, and two calls may be anywhere in them; a page of the
code has 500. Two calls of `run` are all cancelAll needs to meet one that is
being started. Two sources and three versions let a source be passed over, fail,
be refused in the middle of its promotion before another is promoted, or offer an
older build. In `Workspaces` one waiting handler beside all the
immediate ones makes every race between two handlers one of which awaits; two
that await at once are left out.

**Where a run restricts the environment.** `CoordLeases` is timely and
`CoordQuota` has one process at a time, because the code defends against
neither a stall longer than a lease nor two processes at their quota check
(section 5). `CoordLive` lets the first process die at any await, the one between
the creation of a container and the recording of its handle included: what that
loses is one of the ways `OnlyKnownLosses` names, and the only thing
`EveryContainerGoes` exempts. It has no removal that fails, after which the
container stays, and starts the second process when the first is gone and its
leases have lapsed. Failed removals, reapers beside a process that is provisioning
and processes that stall are covered for `OnlyKnownLosses` by its theorem, which
assumes nothing of the deployment. `LocalLoop` checks `NothingOutstanding` with one
worker; with two, a kill of the application breaks it (section 5). In `Workspaces` only the folder with one
spelling can be out of reach; a linked one that is out of reach at the start gets
a second workspace later (section 5).

**Fairness.** `RunCoordinator!Fairness`: every await of a drive is bounded by a
time limit (`coordinator.ts:530`, the limits of commands), the reaper's timer
fires for ever, time passes, and somebody starts a coordinator when none is up.
Strong fairness is used where an answer waits for a synchronous block to end:
the event loop serves it afterwards. `LocalRuns!FairSpec`: weak fairness of the
steps of a loop alone, since everything a loop awaits has a limit
(`agentTimeoutMs` and those of commands and requests). `Processes!Fairness`: the
timers of a stop and of an exit that lingers fire, and a spawn that failed is
reported. Nothing is assumed of the person, the sweeper, leases, crashes or
children.

Every property of a run has a mutant in `PROJECT.json`: a plausible
mistake in the code, defined in the module before the definition it replaces
(and marked `Mutant`), under which TLC finds the property violated.

## 4. Proofs

`RunCoordinatorProofs` proves, for any number of processes, runs, principals
and keys, from `CoordinatorAssumption`:

* `TypeCorrect`: `Spec => []TypeOK`.
* `OneDriverCorrect`: with `Timely`, `Spec => []OneDriver`. `OneDriver` is not
  inductive. `DrivingInv` adds why it is true: a drive holds a live lease
  (`DriverHoldsLease`: `RenewLease` and the absence of lapses under a drive keep
  it); a run about to be driven in a synchronous block is not driven by that
  process already (`TodoIsFresh`), a process that has not started drives nothing
  (`IdleBeforeStart`), and a driven run has a row (`RowBeforeDrive`), so the ids
  `SubmitCreate` takes are free. `CanAcquire` then refuses a second driver.
  There is one lemma per group of actions (`StartDriving`, `SubmitDriving`,
  `DriveDriving`, `AnsweredDriving`, `ClockDriving`, ...).
* `OneRunPerKeyCorrect`: `Spec => []OneRunPerKey`, with no assumption on the
  deployment: `SubmitCreate` looks at the key and inserts in one transaction.
* `QuotaCorrect`: with `~Overlap` (no two processes up at once), `Spec =>
  []QuotaHeld`. The check and the insertion of `submit` are two transactions
  with nothing but other processes between them, so two processes at their
  check can each take the last place (section 5); one alone cannot. `AloneInv`
  says that one process is up, that what it drives is unfinished or cancelled,
  and that every run it drives names its workspace; `QuotaInv` adds that a
  submission past its check still has room or a run to be answered with
  (`Checked`) and that a table has finitely many rows.
* `WorkspaceKept`: with `Timely` or with `~Overlap`, `Spec =>
  []WorkingRunKeepsWorkspace`. With neither it is false: a process whose lease
  lapsed while it was about to provision marks, at the end of its drive, the row
  of the process that took the run over (TLC finds it with two processes and
  one run). What both cases give is `Settled`: whatever a process drives, or is
  about to, has not finished unless its cancellation was asked for, and where a
  process has yet to let go of a run that another is at work on, the run was
  cancelled. It follows from `AloneInv` when no two processes are up, and from
  `DueInv` when they overlap in time: `DrivingInv` leaves the closing of an earlier
  drive as the only way to meet, and `Due` says that such a drive has left its
  run finished, unless its process is being stopped, and then marks no row. On
  top of `Settled`, `Kept` is inductive: beside the property it says that what a
  reaper judged a row by stays true until it acts on it (`Judged`): an expired
  row stays expired, and the run of a workspace listed as finished is not taken
  up again.
* `ContainersLostAsKnown`: `Spec => OnlyKnownLosses`, with no assumption on the
  deployment: processes that overlap, stall and die at any await, removals that
  fail, reapers that die in a sweep. A running container is `Findable` while the
  drive that makes it is alive or a live row has its handle. `KnownLoss` names the
  four steps by which one stops being findable, each a line of the code (section
  5): the death before the handle is recorded, the removal asked for (and
  failed), the row of a list read before the handle was recorded, the row marked
  by another process. Every other step of the system keeps it findable
  (`LifeLosses`, `DriveLosses`, `AnsweredLosses`, `SweepsLosses`, by
  `StaysFindable`). That is not so by shape: a process marks the row the run
  *names*, not the one it made. `MarkedByAnother` is therefore graded by the
  deployment, and the grades need an invariant (`Warded`). With `~Overlap` nobody
  marks the row of another, because what a process drives names its own workspace
  and what it is about to drive is not cancelled (`AloneInv`). With `Overlap` and
  `Timely` only a process that finds its run cancelled between listing and
  driving it does: `Names` says that a drive that is running or closing, in a
  process that is not being stopped, is of a run that names its workspace, and
  that a run being closed has finished and is driven by nobody. With neither, a
  process that lost its run while it was stalled may as well.
* `RemoteRunsImplemented`: with `Timely`, `Spec => ImplementsRemoteRuns`. A step
  maps to `Take` when it makes `DriverOf` a process, to `LetGo` when a drive or
  a process ends, to `Withdraw` when a run nobody drives is cancelled, and to a
  stutter otherwise; `DrivingInv` gives that `DriverOf` is the only driver.

`LocalRunsProofs` proves, for any number of runs, workers, questions,
iterations and attempts, from `BusAssumption`, `LocalAssumption` and
`MessagesAssumption` (a table has finitely many rows):

* the invariants `TypeOK`, `RunningIsDriven` and `NoPhantomScope`. The
  inductive invariant `Inv` adds that a message that may still be delivered has
  an attempt left (`AttemptsLeft`, without which a claim could exceed the
  bound), that a run without a row has no loop (`AbsentIsFresh`), that a worker
  is at work only while its loop waits for workers (`WorkWhileWaiting`), and that
  a loop past its preparation is in an iteration (`Counted`, without which a
  delegation would have no key);
* the action properties `TerminalRunStays`, `OnlyWaitingRunsLaunch`,
  `NoWorkAfterCancel`, `ResumedRunKeepsItsBudget` and `ClosedMessagesStay`;
* `NothingIsLeft`: `NothingOutstanding`, with `OneAtATime`: the application is
  never killed, or a run has one worker. With both a kill and two workers it is false
  (section 5): the policy of one worker pauses the run, the others' messages
  are open, and the start after a kill reconciles RUNNING and PENDING runs only.
  `LeftInv` adds to `Inv` where an unfinished message may be: while the
  application is down there are no loops, and such messages only of runs that
  are RUNNING, which `Boot` finds (`Behind`); and that the message a worker is
  on is one of its run (`NamesItsRun`).

The argument has three layers. Each call of the bus takes a bus that satisfies
`BusInv` to one that does, and keeps its closed rows (`BusStep`; the steps
compose). Each way a loop goes on - it awaits, returns, stops, begins an
iteration, a task is over - is a `Move`: it changes one run, lawfully. Each
action is one of these, and `NextOK` collects them; the steps of the person, the
process and the clock leave the loops alone (`LoopsAlone`) or are proved by
themselves (`CrashOK`).

`ManagedRuntimeProofs` proves, for any versions and any number of sources, from
`RuntimeAssumption`: `TypeCorrect`; `OnlyProvedBuilds` (`CurrentWasProved`, with
`ProvedInv`: a build on its way into place has been proved, and so has every one
a roll back may put back); `FailureIsHarmless` and `RollBackIsExact`
(`BuildInv` says phase by phase where the build is that the promotion of this
source displaces, whatever was refused before, and with `Unharmed` and `CutInTwo`
where the build the install found is: between two sources, behind a promotion that
nothing cut in two, and after one that was); `SuccessIsDetected` (`InstalledIsDetected`, with `SuccessInv`:
past `Record` the manifest and the build in place agree).

`RoutingProofs` proves, for any accounts, set-ups, requirements and bounds, from
`NoneAssumption`, `RoutingAssumption` and `CallAssumption`: `TypeCorrect`,
`NothingOverTheCeilingCorrect` and `AttemptsAreCountedCorrect`, which
together are inductive, and two action properties. The work is in the router:
`CandidateFits` (the first usable model of the ladder is within the ceiling), `ManualPermits`,
`AutoPermits` and `OwnPermits` (each way a model and an effort are chosen
respects the policy it was chosen under, for every combination of flags and
ceilings), and `InvokeKeeps`, which carries it to the call; `SessionGoneKeeps`
and `RefusedKeeps` are the two ways a call is repeated.
`ANewModelEachTryCorrect` rests on `TryOK`: whoever chooses the next model knows
the refused ones (`Known` - the list of the delegation, the one of the loop, or
the models the agent's policy has seen turned down, depending on the set-up).
`EscalationIsEarnedCorrect` rests on `EscOK`: the tiers of the last delegation
are those given for some streak of barren attempts, and the attempts since have
not exceeded it (`Earned`). `Mended` is the attempts with the last one taken
back, as a mechanical rejection by the gate does; `StreakGrows`, `WantedGrows`
and `GivenGrows` say that the streak, the tiers it asks for and the tiers the
limits leave of them are monotonic.

`CloudMirrorProofs` proves, for any runs, overlapping calls, page sizes and
lengths of the log, with or without restarts, from `MirrorAssumption`:

* `MirrorImplements`: `Spec => ImplementsEventMirror`. `Inv` says that a cursor,
  and the place every call has reached, is a number up to which the mirror has
  left nothing out (`NothingLeftOut`), and that the steps of a run are the
  beginning of its visible log (`MirrorIsPrefix`). Hence applying an event is
  either a stutter, when another call has already mirrored it, or the next one.
  `Enumerates` characterises the visible log as the only upward list of the
  visible numbers, so an event appended to the log extends it at its end.
* `FinalStatus` (`FinalStatusStays`), by cases on who writes the status.
* `NothingInvented` (`ShownIsReal`), with `OutcomesHappened`, `LinesHappened` and
  that the status an answer carries is in the log.

`EvidenceLoopProofs` proves, for any criteria, contents, decisions, objectives,
rounds and resumptions: `TypeCorrect`, `DoneIsMeasuredCorrect` and
`ProofIsNotReworkCorrect`. A run is DONE by one step of the gate, after which
nothing it looked at changes, so `DoneIsMeasured` needs of the states before only
that the criterion of the objective is in the ledger from the beginning
(`CriterionStated`), without which the gate could pass over it, and what keeps
the types (`RoundOK`). `ProofIsNotRework` follows from how a decision is
redirected by the state of the implementation.

`GitHubRunProofs` proves, for any tasks, plans, proposals, budgets, rounds,
pushes and resumptions: `TypeCorrect`, `OutcomeIsTrueCorrect`,
`DependentsSeeItCorrect`, `SpendingBoundedCorrect` and
`NobodyIsOverwrittenCorrect`. The invariant relates what the loop believes to
the workers (`Planned`: a worker calls only in the wave, after all its task
needs), to the histories on GitHub (`Matched`: the work of a completed task is on
the branch and in what the loop knows, that of any other is not unless an answer
was lost) and to the ledger (`Spent`: under a limit one worker calls at a time,
and past the check it has spent the models it was refused).

`DesktopProofs` proves of `Processes`, for any number of calls, from `ProcAssumption`:
`TypeCorrect`, `ResultIsTrueCorrect` and `CancelAllReachesCorrect`. What carries
both is the trace a stop leaves behind: whoever stops a child has recorded a
reason first and a SIGKILL before giving up (`Traced`), a call that returns
finds both (`Told`), and a child cancelAll found alive is still being stopped by
it or was killed (`Reached`).

Of `Workspaces` it proves, for any folders, repositories, rows, conversations
and handlers waiting at once, from `WorkspacesAssumption` and `ContentAssumption`:

* `CatalogueTypeCorrect`. `Catalogued` adds to the types that no row is numbered
  beyond those made, that a local row has a path, and that a handler that waits
  for git knows the folder and the repository it asked about (`Waiting`). The two
  dozen actions are summarised once by the writes they can make to each table
  (`Writes`: a folder is added only after `ByKey` found none, a project is given a
  repository only after `ByRepository` found none but itself), and everything
  about workspaces and projects is proved of those writes.
* `OneFolderOneProjectCorrect`, with `OneSpelling`: what lies on a drive that can be
  taken away is spelled in one way. Without it the property is false (section 5).
  `FoldersIdentified` says that the identity a local row records is the real path
  of its folder, or none in a row of an earlier version that the start has yet to
  look at (`Identified`), and that no folder that had a row was ever missing from
  the disk; a handler that finds no row with the identity of its folder has then
  found that there is none.
* `FolderIsNotTakenCorrect` and `NothingVanishesCorrect`: `Tidy` says of each
  handler that a workspace which has a project gains no other and that one which
  appears has a project, unless the project it was made for was removed while git
  was at work (`Late`). Each handler is `Tidy` but the two dialogs `FolderIsNotTaken`
  names (`EveryTidy`).

Only model-checked: the liveness properties (`EveryRunEnds`,
`EveryContainerGoes`, `LoopsEnd`, `RunReturns`), which are out of the prover's
reach. Every invariant and action property a run checks, and both refinements,
are theorems.

**What the theorems assume.** The assumptions on constants say what a value is
(a bound is a number, a name for "nothing" is not a value, a table is finite).
Four of them were added or sharpened for the proofs: `MirrorAssumption` wants a
log of at least one event, `BranchAssumption` that the value for "no branch" is
not a history, `CallAssumption` that the one for "no call" is not a call,
`ContentAssumption` that an absent folder and a plain one are not repositories. The
others are about the deployment and are hypotheses of their theorems, not of the
specification: `Timely`, `~Overlap`, one or the other, `OneAtATime` and
`OneSpelling`. Section 5
says what the code does without them.

## 5. Divergences

What the code does against what its comments, its types or its documentation say.
All were met while modelling; where a model has the behaviour, TLC reaches it. None
of them has a run of its own: every run of section 3 passes, under the restrictions
stated there.

**Coordinator.**

* A run cancelled while its agents sign in is set RUNNING and driven to its end
  (`coordinator.ts:526`; `store.ts:58` "Terminal states. A run in one of these is
  never resumed."), and `cancel` does not look at the status (`282`).
* A graceful shutdown leaves CANCELLED, hence unrecoverable, runs
  (`coordinator.ts:311`, `402`; comment at `302` "leaves every run resumable").
* Recovery runs once and skips leases that are still live: a prompt restart
  recovers nothing and never looks again (`main.ts:141`; `store.ts:16-18`).
* No code reads the labels of containers, so one whose process died before it
  recorded the handle stays (`coordinator.ts:377`, `reaper.ts:86-88`;
  `container-provisioner.ts:226`). It is the first way of `OnlyKnownLosses`.
* A process that stalls for longer than a lease goes on driving: the answer of
  the renewal is not looked at (`coordinator.ts:338`; `store.ts:327-329`).
* Two processes can each take the last place of a quota (`coordinator.ts:252`,
  `259`; `store.ts:236-237`).
* A reaper lists a row that has no handle yet, because its workspace is being
  provisioned by another process; while the reaper awaits another removal the
  container is made, its handle recorded, and the run fails or is cancelled; the
  reaper then comes to the row it listed and marks it released without removing
  anything (`reaper.ts:86-87`; `ListedTooEarly`). Should the process that drove
  the run die before it releases the workspace, no sweep looks for the container
  again ("nothing else would ever clear it", `reaper.ts:66-69`). A process that
  dies in the middle of such a sweep of its own workspaces loses a container the
  same way.
* A process that finds a run cancelled between listing and driving it goes through
  the `finally` of `drive` all the same and marks the workspace the run names,
  which an earlier process made, released without removing its container
  (`coordinator.ts:351`, `426-432`; `MarkedByAnother`). A process that has lost its
  run to another while it was stalled marks the other's row in the same place.
* A container whose removal failed is marked released and not looked for again
  (`coordinator.ts:425`, `reaper.ts:88`, `container-provisioner.ts:369`).
* NEEDS_HUMAN and PARTIAL of the loop become FAILED in the coordinator
  (`coordinator.ts:534`; `repositories.ts:1570-1573`).
* A recovered run starts from scratch (`coordinator.ts:351`; comment `267-269`).

**Local runs.**

* A run cancelled while its work is published is DONE
  (`orchestration-service.ts:2184`; `repositories.ts:1762-1771`).
* Two messages of a run may be delivered to one worker at a time
  (`agent-message-bus.ts:334`; statement at `38`).
* A run cancelled while its worker is being refused ends NEEDS_HUMAN with the
  cancellation requested, and becomes CANCELLED only when asked again
  (`orchestration-service.ts:1563`; comment `566-567`).
* A process that dies in a wave after a worker's policy has paused the run
  leaves the messages of the other workers unfinished: only RUNNING and PENDING
  runs are reconciled (`orchestration-service.ts:760-786`; comment `4337`).
* A task repeated after a resumption finds its key closed, so nothing on record
  says that it is under way (`orchestration-service.ts:3811-3828`), and `claim`
  takes the oldest pending message, not the one just published (`3836`).
* An approval given earlier resumes a run all of whose new questions were
  denied (`resumption.ts:89`).
* A cancellation in the last iteration ends PARTIAL or FAILED
  (`orchestration-service.ts:1186`, `2288`).
* Runs that are active when the window is closed are marked cancelled
  (`orchestration-service.ts:4323-4329`).

**The evidence loop.**

* A literal of the objective can be lost: `preserveChecks` keeps the fields of
  the first expectation, but the check made from the contract leaves `mustExist`
  unset, so a later `mustExist: false` stays and an absent file passes
  (`mission-contract.ts:82`; comment `73-74` "Later model decisions may add
  criteria, never rewrite an existing expectation").
* Criteria stated by earlier decisions are gone after a resumption
  (`orchestration-service.ts:1046-1054`; `acceptance-criteria.ts:4-6`).
* A verification that times out makes the implementation INCOMPLETE
  (`orchestration-service.ts:2049-2050`; `completion-state.ts:16`).
* A rejection for want of proof, repeated with an identical second collection,
  ends the run FAILED at once.
* The gate of a remote container reads with the workspace root as its directory
  (`orchestration-service.ts:2065`); a resumption takes a new baseline, so changes
  made before it no longer count; citations may quote a read that is out of date;
  the short path does not ask for delegations left unresolved.

**GitHub runs.**

* The hard stop on calls (`budget.ts:26`) lets through the second call of a
  supervisor, the other models of a worker and the repeated call of a lost
  session, recorded once (`orchestration-service.ts:2360`, `3708`, `3873-3878`);
  a resumed run starts a new ledger (`921`). `SpendingBounded` says by how much.
* A resumed run begins without a work branch, cannot cut its own again, and
  commits nothing.
* After the base has moved, the first commit conflicts for ever.
* When the answer of the request that moves the branch is lost, the report says
  "NÃO FOI APLICADA" of a commit that exists (`doubt` in `OutcomeIsTrue`).
* A merged proposal that changes nothing marks the whole wave as a conflict.

**Routing.**

* A model refused on the third try, without alternatives or as a manual choice is
  not remembered (`orchestration-service.ts:4105-4111`), so the next iteration
  asks it again; tasks of a plan start with empty lists (`1461`), a resumed loop
  forgets (`1140`); `provider-policy.ts:51-53` says "A candidate the CLI refuses is
  skipped for the rest of the run". `ANewModelEachTry` is about one delegation.
* The refusal of a CLI is never classified as an unavailable model
  (`provider-http.ts:201` is the only place), so the policy of an agent sends the
  same model again, and `delegate` marks the routed model, not the one that was
  sent (`4111`).
* An API refusal whose text names no model counts as a barren attempt and
  escalates.
* The second call for a lost session sends the model chosen before the await even
  if the account's policy has changed (`3873`).
* After a crash the usage of a call is unknown, so a limit of tokens or cost
  stops the agent for the rest of the run; OpenAI has no model table, so its
  automatic mode is always blocked.

**Cloud mirror.**

* The reconciliation at start fails cloud runs that go on
  (`orchestration-service.ts:769`, `repositories.ts:1735-1737`;
  `cloud-service.ts:153-155`).
* `messageOnce` compares numbers over the whole conversation, so a line of one
  run can hide the line with the same number of another
  (`cloud-service.ts:304-317`).
* A status taken over with the first page ends the listing of the run, so later
  pages of its events are never fetched (`cloud-service.ts:143-147`).
* A submission that was lost or not sent is never tried again (`104-107`); the
  cancellation of a run that is being submitted does nothing; `startPolling` has
  no caller.

**Processes and runtimes.**

* A limit that fires while a cancelled child lingers overwrites the outcome with
  timeout; only the last stop is awaited, and its log overwrites that of earlier
  ones (`process-manager.ts:393-395`).
* `cancelAll` does not settle the calls it stops: a child that survives it hangs
  its `run` (comment `406-408` "A stop that leaves the child alive must still let
  `run` return"). `RunReturns` is about the stops of the call itself.
* "never left without a working runtime" (`managed-runtime.ts:11-12`; `426` "A
  failure leaves the working build exactly where it was") fails when the second
  move of a promotion or the write before it does (`761`, `769`): the build is kept
  as `previous` and nothing puts it back. The next source makes it worse: `promote`
  begins by removing `previous` (`757`), which is then the only working build.
* When the manifest of a promoted build cannot be written (`717`), the install goes
  on with the next source and may end as failed with the new build in use under
  the manifest of the old one, or under one that is no longer readable. A roll back
  of the next source then restores that new build, with the manifest of the old.
  `FailureLeavesBuild` and `RollBackRestores` say what holds after each refusal.
* A crash between the move and the manifest leaves a manifest that names the older
  build. `repair`, `update` and `prepareAll` have no caller.

**Workspaces.**

* The identity of a folder is computed again at every start
  (`workspace-service.ts:348`): a linked folder out of reach then gets its
  spelling, and opening it later makes a second workspace (`274`).
* `checkout` and `runGit` ask whether a loop runs and then await git (`142-143`
  "nothing is switched under a running loop").
* `recordRepositoryMetadata` writes the default branch of the repository it asked
  about under the key the project has by then (`project-service.ts:155-173`;
  `214-215`), and `setRepository` keeps `isPrivate` of the old one.
* `prepare` verifies the folder against the repository it read before the await
  (`workspace-service.ts:605-622`).
* `prepare`, `setWorkspace` and `project.remove` leave the earlier workspace
  without a project, invisible, until the next start gives it a second one
  (`557-563`; `372-378`); a clone for a project removed meanwhile leaves a
  workspace without a project. `NothingVanishes` allows these causes and no other.
* The preflight of a run compares the repository of the workspace, not of its
  project (`orchestration-service.ts:1007-1010`; `1025`).
* A run that waits for the person loses its conversation when it is deleted: only
  RUNNING and PENDING runs are looked at.

**Accounts and connections** (read, not modelled).

* `connection.test` writes `connected` after its await even if the person has
  disconnected meanwhile (`connection-service.ts:234-244`); `status` may write an
  answer older than that of `connect`; a CLI account that was disconnected keeps
  its credentials, so `status` says connected again.
* A browser that cannot be opened leaves the sign-in process running and frees
  the guard against a second one (`codex-account-manager.ts:300`;
  `claude-account-manager.ts:297` "Never leave a sign-in process running").
* A retry after `setApiEnabled(false)` still sends (`repositories.ts:181-187`).

## 6. What is not modelled

The components marked `not_modelled` in `PROJECT.json`, each with its reason:
runtime sources, adapters and providers, the activity monitor, the database and
its migrations, the views of executions, the IPC contract and the interface.
In the modelled ones:

* coordinator: reading routes and tokens of the HTTP server; how a publication
  is made (`publish.ts`), which is one step;
* local loop: prompts and parsing, the text of messages, views, the gate of a
  conversation without a repository (`orchestration-service.ts:1657-1704`);
* routing: limits of parallel work and of tokens, disabled agents and
  disconnected accounts, policies of agents edited during a run, the route of the
  supervisor, crashes and cancellation (which `LocalRuns` has), models an account
  reports as available;
* workspaces: branches, checkouts, sessions, and whether a loop is running;
* accounts: signing in. It drives a foreign program and a browser, and its rows
  are edited by nobody else; the guards it has are in the divergences above.

Smaller simplifications, which no property of section 3 depends on:

* coordinator: a process runs one sweep at a time; the timer starts one whether
  or not the last has ended (`reaper.ts:41-43`). What two sweeps of two processes
  do to each other, `OnlyKnownLosses` covers;
* processes: a `cancelAll` that begins while another is under way, which `reset`
  allows (`process-manager.ts:526-529`), goes on with the stops of the first;
* GitHub runs: a policy with `parallel: false` also makes the width of a wave 1
  (`orchestration-service.ts:1444`); the model has the wider waves;
* routing: `restricted` is a policy of the agent or models to confirm, not the
  evidence of an account, the global or project defaults and some roles
  (`agent-execution-policy.ts:43`), after which the same policy is applied; a
  failure no other model could mend returns before the next one is tried
  (`orchestration-service.ts:4099`), so the model retries more often;
* workspaces: a cloud workspace is looked up by repository, not by repository and
  branch (`workspace-service.ts:810-812`), since branches are left out; a clone
  goes to the canonical spelling of its destination, which in the code may lead
  through a linked parent (`865-869`);
* runtimes: a move is a rename on one volume; the copy that replaces it across
  volumes (`fs-retry.ts:73-77`) is not cut in two.

SQLite is taken to be atomic and durable. `recover` of the bus has no caller in
the application.

The map covers about 12% of the implementation's lines, more of the main
process and the coordinator. About fifteen thousand lines are React components
and their styles, four thousand are spikes and scripts, and most of what is
left reads rows, formats prompts, parses text or declares types: there is no
behaviour in them that a state machine would say more about than the code.

## 7. Plan

Done: all the modules of section 2, and a proof of every invariant, action
property and refinement a run checks. Next, in the order of importance:

1. `Publishing`: `publish.ts` with retries, branches that move and pull requests
   opened once.
2. `Accounts`: a sign-in under way against cancellation, repetition and removal.

A project keeps a dozen runs, so a new module takes the place of a run whose
question another one answers as well.
