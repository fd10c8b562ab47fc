------------------------------- MODULE GitHubRun -------------------------------
(* A run on a repository that has no checkout: the supervisor delegates a      *)
(* batch of tasks with dependencies, waves of them are sent to workers at the  *)
(* same time, what they propose is joined and committed through the GitHub API *)
(* to a work branch, and a pull request offers it.  Other people push to the   *)
(* base and to the work branch meanwhile, the answer to a write can be lost,   *)
(* the person cancels a task or the run, and a budget limits the calls.        *)
(* Abstracted: contents (a proposal is the set of its paths), what the gate    *)
(* decides (EvidenceLoop), and delegations to a single worker (LocalRuns).     *)
EXTENDS Integers, FiniteSets, Sequences, SequencesExt

CONSTANTS
  Tasks,         \* tasks of a batch, numbered in the order of the decision
  Resource,      \* the accounts, or agents of their own, that work one at a time
  Proposal,      \* the sets of paths a worker can propose to write
  Plan,          \* dependencies and resources a supervisor can decide on
  Limit,         \* the budgets a run can be given, 0 for none
  Width,         \* tasks sent at the same time when nothing limits the calls
  ModelRetries,  \* refused models another one is tried for
  MaxRounds,     \* decisions of a run (a bound)
  MaxPushes,     \* pushes by others (a bound)
  MaxResumes,    \* resumptions (a bound)
  NoPlan, NoBranch

Task == 1..Tasks

PlanType == [needs : [Task -> SUBSET Task], resource : [Task -> Resource]]

ASSUME NumberAssumption ==
  /\ {Tasks, Width} \subseteq Nat \ {0}
  /\ {ModelRetries, MaxRounds, MaxPushes, MaxResumes} \subseteq Nat /\ Limit \subseteq Nat
ASSUME PlanAssumption == Plan \subseteq PlanType

\* A commit: the tasks whose work it has, and the round, or the push by others
Entry == [tasks : SUBSET Task, number : Nat]

ASSUME BranchAssumption == NoBranch \notin Seq(Entry)

VARIABLES
  limit,      \* the run's budget
  calls,      \* calls in the ledger, not counted when nothing limits them
  status, phase, round, resumes,
  stopping,   \* the person has cancelled the run
  plan, pending, completed, wave,
  worker,     \* task -> how its worker is doing
  attempts,   \* task -> models refused so far
  cancelled,  \* tasks the person has cancelled
  barred,     \* tasks whose proposals come from agents that may not write
  proposal,   \* task -> the paths its answer proposes
  outcome,    \* task -> what the join says of it
  unresolved, \* the last batch left a task that is not completed
  known,      \* the commits of the head this loop works from
  cut,        \* this loop has cut the work branch
  landed,     \* this loop has committed
  pull,       \* the pull request
  base, branch, \* commits of the base and of the work branch on GitHub
  pushes,     \* pushes by others so far
  doubt       \* the answer to a write was lost

budgetVars == <<limit, calls>>
runVars == <<status, round, resumes, stopping>>
batchVars == <<plan, pending, completed, wave, worker, attempts, cancelled, barred, proposal, outcome>>
loopVars == <<known, cut, landed>>
hubVars == <<base, branch, pushes, doubt>>
vars == <<budgetVars, runVars, phase, batchVars, unresolved, loopVars, pull, hubVars>>

-----------------------------------------------------------------------------
(* The plan and the waves *)

\* A batch is accepted when its tasks depend on others of it and on no cycle
Accepted(p) ==
  \E rank \in [Task -> Task] : \A t \in Task : \A d \in p.needs[t] : rank[d] < rank[t]

\* A mutant: as many at once under a budget
ConcurrencyAlways == Width

\* Several at once only when no limit could be overrun by calls in flight
Concurrency == IF limit = 0 THEN Width ELSE 1

\* A mutant: dependencies that are no longer pending are enough
ReadyWhenTried == {t \in pending : plan.needs[t] \cap pending = {}}

\* What only needs completed tasks
Ready == {t \in pending : plan.needs[t] \subseteq completed}

\* The first ready task of every resource, as many as may run at once
Wave ==
  LET first == {t \in Ready : \A u \in Ready : plan.resource[u] = plan.resource[t] => t <= u} IN
  {t \in first : Cardinality({u \in first : u < t}) < Concurrency}

\* The ledger is asked before a call and told after it
Allowed == limit = 0 \/ calls < limit

Recorded(n) == IF limit = 0 THEN calls ELSE calls + n

NoBatch ==
  /\ plan' = NoPlan /\ pending' = {} /\ completed' = {} /\ wave' = {}
  /\ worker' = [t \in Task |-> "idle"] /\ attempts' = [t \in Task |-> 0]
  /\ cancelled' = {} /\ barred' = {}
  /\ proposal' = [t \in Task |-> {}] /\ outcome' = [t \in Task |-> "none"]

Over(st) == phase' = "over" /\ status' = st

-----------------------------------------------------------------------------
(* The supervisor *)

\* The supervisor is called, and once more when it did not answer with a decision
Asks(n) ==
  /\ phase = "ask"
  /\ IF Allowed /\ ~stopping
     THEN calls' = Recorded(n) /\ phase' = "decide" /\ UNCHANGED status
     ELSE Over(IF stopping THEN "CANCELLED" ELSE "NEEDS_HUMAN") /\ UNCHANGED calls
  /\ UNCHANGED <<limit, round, resumes, stopping, batchVars, unresolved, loopVars, pull, hubVars>>

\* No decision, or one that stops the run
GivesUp ==
  /\ phase = "decide"
  /\ \E st \in {"FAILED", "NEEDS_HUMAN", "BLOCKED"} : Over(IF stopping THEN "CANCELLED" ELSE st)
  /\ UNCHANGED <<budgetVars, round, resumes, stopping, batchVars, unresolved, loopVars, pull, hubVars>>

Delegates(p) ==
  /\ phase = "decide" /\ ~stopping /\ round < MaxRounds /\ Accepted(p)
  /\ phase' = "wave" /\ round' = round + 1
  /\ plan' = p /\ pending' = Task /\ completed' = {} /\ wave' = {}
  /\ worker' = [t \in Task |-> "idle"] /\ attempts' = [t \in Task |-> 0]
  /\ cancelled' = {} /\ barred' = {}
  /\ proposal' = [t \in Task |-> {}] /\ outcome' = [t \in Task |-> "none"]
  /\ UNCHANGED <<budgetVars, status, resumes, stopping, unresolved, loopVars, pull, hubVars>>

\* The supervisor says done, which an unresolved batch forbids; the short path to
\* the gate, which a verification takes, does not ask
SaysDone(short) ==
  /\ phase = "decide" /\ ~stopping
  /\ IF unresolved /\ ~short THEN Over("NEEDS_HUMAN") ELSE phase' = "gate" /\ UNCHANGED status
  /\ UNCHANGED <<budgetVars, round, resumes, stopping, batchVars, unresolved, loopVars, pull, hubVars>>

-----------------------------------------------------------------------------
(* The workers of a wave *)

\* The next wave, or nothing can run any more and what is pending is blocked.
\* The budget is asked for each task of the wave before any of them has called.
SendsWave ==
  /\ phase = "wave"
  /\ CASE stopping -> Over("CANCELLED") /\ UNCHANGED <<pending, wave, worker, outcome>>
       [] ~stopping /\ Wave = {} ->
            /\ outcome' = [t \in Task |-> IF t \in pending THEN "blocked" ELSE outcome[t]]
            /\ pending' = {} /\ phase' = "joined"
            /\ UNCHANGED <<status, wave, worker>>
       [] OTHER ->
            /\ wave' = Wave /\ pending' = pending \ Wave
            /\ worker' = [t \in Task |-> IF t \in Wave
                                         THEN IF Allowed THEN "calling" ELSE "failed"
                                         ELSE worker[t]]
            /\ phase' = "work" /\ UNCHANGED <<status, outcome>>
  /\ UNCHANGED <<budgetVars, round, resumes, stopping, plan, completed, attempts, cancelled, barred,
                 proposal, unresolved, loopVars, pull, hubVars>>

Ends(t, how) == worker' = [worker EXCEPT ![t] = how]

\* A worker has answered, proposing changes or none
Answers(t, paths, may) ==
  /\ phase = "work" /\ worker[t] = "calling"
  /\ calls' = Recorded(1)
  /\ IF t \in cancelled \/ stopping
     THEN Ends(t, "cancelled") /\ UNCHANGED <<proposal, barred>>
     ELSE /\ Ends(t, IF paths # {} /\ ~may THEN "failed" ELSE "completed")
          /\ proposal' = [proposal EXCEPT ![t] = IF may THEN paths ELSE {}]
          /\ barred' = IF paths # {} /\ ~may THEN barred \cup {t} ELSE barred
  /\ UNCHANGED <<limit, runVars, phase, plan, pending, completed, wave, attempts, cancelled, outcome,
                 unresolved, loopVars, pull, hubVars>>

\* The call failed, or the answer has a block that cannot be used
Fails(t) ==
  /\ phase = "work" /\ worker[t] = "calling"
  /\ calls' = Recorded(1)
  /\ Ends(t, IF t \in cancelled \/ stopping THEN "cancelled" ELSE "failed")
  /\ UNCHANGED <<limit, runVars, phase, plan, pending, completed, wave, attempts, cancelled, barred,
                 proposal, outcome, unresolved, loopVars, pull, hubVars>>

\* The account does not have the model: the next one, without asking the ledger
ModelRefused(t) ==
  /\ phase = "work" /\ worker[t] = "calling" /\ ~stopping /\ attempts[t] < ModelRetries
  /\ calls' = Recorded(1)
  /\ attempts' = [attempts EXCEPT ![t] = @ + 1]
  /\ UNCHANGED <<limit, runVars, phase, plan, pending, completed, wave, worker, cancelled, barred,
                 proposal, outcome, unresolved, loopVars, pull, hubVars>>

\* The policy of the agent or of the account lets no call be made: the run pauses,
\* and the other tasks of the wave go on
PolicyStops(t) ==
  /\ phase = "work" /\ worker[t] = "calling"
  /\ Ends(t, "failed") /\ status' = "NEEDS_HUMAN"
  /\ UNCHANGED <<budgetVars, round, resumes, stopping, phase, plan, pending, completed, wave, attempts,
                 cancelled, barred, proposal, outcome, unresolved, loopVars, pull, hubVars>>

CancelTask(t) ==
  /\ phase = "work" /\ worker[t] = "calling" /\ t \notin cancelled
  /\ cancelled' = cancelled \cup {t}
  /\ UNCHANGED <<budgetVars, runVars, phase, plan, pending, completed, wave, worker, attempts, barred,
                 proposal, outcome, unresolved, loopVars, pull, hubVars>>

Cancel ==
  /\ phase # "over" /\ ~stopping /\ stopping' = TRUE
  /\ UNCHANGED <<budgetVars, status, round, resumes, phase, batchVars, unresolved, loopVars, pull, hubVars>>

-----------------------------------------------------------------------------
(* Joining a wave *)

Proposes(t) == proposal[t] # {} /\ worker[t] = "completed"

Overlap == \E t, u \in wave : t # u /\ Proposes(t) /\ Proposes(u) /\ proposal[t] \cap proposal[u] # {}

\* A wave is committed whole, and only when every task of it was completed
Applies ==
  /\ ~Overlap /\ wave \cap barred = {}
  /\ \A t \in wave : worker[t] = "completed"
  /\ \E t \in wave : Proposes(t)

\* A mutant: what was answered is completed
JoinedAsAnswered(conflict, applied) ==
  /\ outcome' = [t \in Task |->
                   CASE t \notin wave -> outcome[t]
                     [] t \in wave /\ conflict /\ Overlap -> "conflict"
                     [] OTHER -> worker[t]]
  /\ completed' = completed \cup {t \in wave : outcome'[t] = "completed"}
  /\ wave' = {} /\ phase' = IF pending = {} THEN "joined" ELSE "wave"

\* What the join says of the tasks of the wave
Joined(conflict, applied) ==
  /\ outcome' = [t \in Task |->
                   CASE t \notin wave -> outcome[t]
                     [] t \in wave /\ conflict -> "conflict"
                     [] t \in wave /\ ~conflict /\ Proposes(t) /\ ~applied -> "not-applied"
                     [] OTHER -> worker[t]]
  /\ completed' = completed \cup {t \in wave : outcome'[t] = "completed"}
  /\ wave' = {} /\ phase' = IF pending = {} THEN "joined" ELSE "wave"

\* Every worker of the wave has ended
WaveEnds ==
  /\ phase = "work" /\ \A t \in wave : worker[t] # "calling"
  /\ CASE stopping -> Over("CANCELLED") /\ UNCHANGED <<outcome, completed, wave>>
       [] ~stopping /\ status = "NEEDS_HUMAN" ->
            phase' = "over" /\ UNCHANGED <<status, outcome, completed, wave>>
       [] ~stopping /\ status # "NEEDS_HUMAN" /\ Applies ->
            phase' = "commit" /\ UNCHANGED <<status, outcome, completed, wave>>
       [] OTHER -> Joined(Overlap \/ wave \cap barred # {}, FALSE) /\ UNCHANGED status
  /\ UNCHANGED <<budgetVars, round, resumes, stopping, plan, pending, worker, attempts, cancelled, barred,
                 proposal, unresolved, loopVars, pull, hubVars>>

\* The batch is over: the next round, or a person when the context did not arrive
BatchEnds(fit) ==
  /\ phase = "joined"
  /\ unresolved' = (\E t \in Task : outcome[t] # "completed")
  /\ IF ~fit /\ (\E t \in Task : outcome[t] = "failed") THEN Over("NEEDS_HUMAN")
     ELSE phase' = "ask" /\ UNCHANGED status
  /\ NoBatch
  /\ UNCHANGED <<budgetVars, round, resumes, stopping, loopVars, pull, hubVars>>

-----------------------------------------------------------------------------
(* Committing *)

joinVars == <<outcome, completed, wave>>
restOfBatch == <<plan, pending, worker, attempts, cancelled, barred, proposal>>

Commit == [tasks |-> {t \in wave : Proposes(t)}, number |-> round]

\* The work branch is cut from the base as it is now, and refused when the name
\* is taken
CutsBranch(lost) ==
  /\ phase = "commit" /\ ~cut
  /\ IF branch # NoBranch
     THEN Joined(TRUE, FALSE) /\ UNCHANGED <<branch, cut, doubt>>
     ELSE /\ branch' = base /\ cut' = ~lost /\ doubt' = (doubt \/ lost)
          /\ IF lost THEN Joined(TRUE, FALSE) ELSE UNCHANGED <<joinVars, phase>>
  /\ UNCHANGED <<budgetVars, runVars, restOfBatch, unresolved, known, landed, pull, base, pushes>>

\* The branch has to be where this loop knows it
ChecksHead ==
  /\ phase = "commit" /\ cut
  /\ IF branch = known THEN phase' = "move" /\ UNCHANGED joinVars ELSE Joined(TRUE, FALSE)
  /\ UNCHANGED <<budgetVars, runVars, restOfBatch, unresolved, loopVars, pull, hubVars>>

\* A mutant: the reference is moved with force
ForwardForced == TRUE

\* GitHub moves a branch only forward
Forward == branch = known

\* The reference is moved, and the answer may be lost
MovesBranch(lost) ==
  /\ phase = "move"
  /\ IF Forward
     THEN /\ branch' = Append(known, Commit)
          /\ doubt' = (doubt \/ lost)
          /\ known' = IF lost THEN known ELSE branch'
          /\ landed' = (landed \/ ~lost)
          /\ Joined(lost, ~lost)
     ELSE Joined(TRUE, FALSE) /\ UNCHANGED <<branch, doubt, known, landed>>
  /\ UNCHANGED <<budgetVars, runVars, restOfBatch, unresolved, cut, pull, base, pushes>>

\* A request of the commit fails, or the tree turns out to be what it was
CommitFails ==
  /\ phase \in {"commit", "move"}
  /\ Joined(TRUE, FALSE)
  /\ UNCHANGED <<budgetVars, runVars, restOfBatch, unresolved, loopVars, pull, hubVars>>

-----------------------------------------------------------------------------
(* The end of the run *)

\* The gate decides: the work is offered before the run is done
Gate(accepts) ==
  /\ phase = "gate"
  /\ CASE stopping -> Over("CANCELLED")
       [] ~stopping /\ ~accepts -> phase' = "ask" /\ UNCHANGED status
       [] OTHER -> IF cut /\ landed THEN phase' = "offer" /\ UNCHANGED status ELSE Over("DONE")
  /\ UNCHANGED <<budgetVars, round, resumes, stopping, batchVars, unresolved, loopVars, pull, hubVars>>

\* A pull request that cannot be opened does not fail the run
Offers(opened) ==
  /\ phase = "offer"
  /\ pull' = IF opened THEN "open" ELSE "failed"
  /\ Over("DONE")
  /\ UNCHANGED <<budgetVars, round, resumes, stopping, batchVars, unresolved, loopVars, hubVars>>

\* Rounds are over
LimitReached ==
  /\ phase = "decide" /\ round = MaxRounds
  /\ \E st \in {"PARTIAL", "FAILED"} : Over(st)
  /\ UNCHANGED <<budgetVars, round, resumes, stopping, batchVars, unresolved, loopVars, pull, hubVars>>

\* A person answered: a new loop, a new ledger, and the base as it is now
Resumes ==
  /\ phase = "over" /\ status = "NEEDS_HUMAN" /\ ~stopping
  /\ resumes < MaxResumes /\ resumes' = resumes + 1
  /\ phase' = "ask" /\ status' = "RUNNING"
  /\ calls' = 0 /\ unresolved' = FALSE
  /\ known' = base /\ cut' = FALSE /\ landed' = FALSE
  /\ NoBatch
  /\ UNCHANGED <<limit, round, stopping, pull, hubVars>>

\* Others push to the base, or to the work branch
PushedByOthers ==
  /\ pushes < MaxPushes /\ pushes' = pushes + 1
  /\ LET theirs == [tasks |-> {}, number |-> pushes + 1] IN
     \/ base' = Append(base, theirs) /\ UNCHANGED branch
     \/ branch # NoBranch /\ branch' = Append(branch, theirs) /\ UNCHANGED base
  /\ UNCHANGED <<budgetVars, runVars, phase, batchVars, unresolved, loopVars, pull, doubt>>

-----------------------------------------------------------------------------
Init ==
  /\ limit \in Limit /\ calls = 0
  /\ status = "RUNNING" /\ phase = "ask" /\ round = 0 /\ resumes = 0 /\ stopping = FALSE
  /\ plan = NoPlan /\ pending = {} /\ completed = {} /\ wave = {}
  /\ worker = [t \in Task |-> "idle"] /\ attempts = [t \in Task |-> 0]
  /\ cancelled = {} /\ barred = {}
  /\ proposal = [t \in Task |-> {}] /\ outcome = [t \in Task |-> "none"]
  /\ unresolved = FALSE
  /\ known = <<>> /\ cut = FALSE /\ landed = FALSE /\ pull = "none"
  /\ base = <<>> /\ branch = NoBranch /\ pushes = 0 /\ doubt = FALSE

Steps ==
  \/ \E n \in 1..2 : Asks(n)
  \/ GivesUp
  \/ \E p \in Plan : Delegates(p)
  \/ \E short \in BOOLEAN : SaysDone(short)
  \/ SendsWave
  \/ \E t \in Task, paths \in Proposal, may \in BOOLEAN : Answers(t, paths, may)
  \/ \E t \in Task : Fails(t) \/ ModelRefused(t) \/ PolicyStops(t)
  \/ WaveEnds
  \/ \E fit \in BOOLEAN : BatchEnds(fit)
  \/ \E lost \in BOOLEAN : CutsBranch(lost) \/ MovesBranch(lost)
  \/ ChecksHead \/ CommitFails
  \/ \E b \in BOOLEAN : Gate(b) \/ Offers(b)
  \/ LimitReached

Next ==
  \/ Steps
  \/ \E t \in Task : CancelTask(t)
  \/ Cancel \/ Resumes \/ PushedByOthers

Spec == Init /\ [][Next]_vars

-----------------------------------------------------------------------------
(* Properties *)

TypeOK ==
  /\ limit \in Limit /\ calls \in Nat
  /\ status \in {"RUNNING", "NEEDS_HUMAN", "FAILED", "BLOCKED", "PARTIAL", "CANCELLED", "DONE"}
  /\ phase \in {"ask", "decide", "wave", "work", "commit", "move", "joined", "gate", "offer", "over"}
  /\ round \in 0..MaxRounds /\ resumes \in 0..MaxResumes /\ stopping \in BOOLEAN
  /\ plan \in Plan \cup {NoPlan}
  /\ pending \subseteq Task /\ completed \subseteq Task /\ wave \subseteq Task
  /\ worker \in [Task -> {"idle", "calling", "completed", "failed", "cancelled"}]
  /\ attempts \in [Task -> 0..ModelRetries]
  /\ cancelled \subseteq Task /\ barred \subseteq Task
  /\ proposal \in [Task -> Proposal \cup {{}}]
  /\ outcome \in [Task -> {"none", "completed", "failed", "cancelled", "conflict", "not-applied", "blocked"}]
  /\ unresolved \in BOOLEAN /\ cut \in BOOLEAN /\ landed \in BOOLEAN /\ doubt \in BOOLEAN
  /\ pull \in {"none", "failed", "open"}
  /\ known \in Seq(Entry) /\ base \in Seq(Entry) /\ branch \in Seq(Entry) \cup {NoBranch}
  /\ pushes \in 0..MaxPushes

\* The work of a task is part of a history
In(history, t) ==
  /\ history # NoBranch
  /\ \E i \in DOMAIN history : t \in history[i].tasks /\ history[i].number = round

\* What the join tells the supervisor is what the repository has: the proposal of
\* a completed task is on the work branch, and unless the answer to a write was
\* lost no other proposal is (orchestration-service.ts:1483-1500, 3245-3351).
OutcomeIsTrue ==
  \A t \in Task :
    /\ outcome[t] = "completed" /\ proposal[t] # {} => In(branch, t)
    /\ outcome[t] \notin {"none", "completed"} /\ ~doubt => ~In(branch, t)

\* A task starts when all it depends on is completed, and from a commit that has
\* it (delegation-plan.ts:83-105, orchestration-service.ts:1439-1449).
DependentsSeeIt ==
  \A t \in Task : worker[t] = "calling" =>
    \A d \in plan.needs[t] :
      outcome[d] = "completed" /\ (proposal[d] # {} => In(known, d))

\* No commit of anybody disappears from the work branch, whoever pushes between
\* two steps of a commit (repository-operations.ts:641-644).
NobodyIsOverwritten ==
  [][branch # NoBranch => branch' # NoBranch /\ IsPrefix(branch, branch')]_vars

\* A loop overruns its budget at most by the calls one check lets through: the
\* second call of the supervisor or the other models of one worker
\* (budget.ts:80-128, orchestration-service.ts:1205, 1444, 1460, 2360, 3708).
SpendingBounded ==
  limit > 0 => calls <= limit - 1 + (IF ModelRetries = 0 THEN 2 ELSE ModelRetries + 1)

=============================================================================
