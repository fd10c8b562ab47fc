----------------------------- MODULE LocalRuns -----------------------------
(***************************************************************************)
(* The runs of the desktop application: the loop of OrchestrationService   *)
(* (apps/desktop/src/main/services/orchestration-service.ts), the run rows *)
(* it keeps (RunRepository, src/database/repositories.ts), the messages it *)
(* exchanges with its workers (AgentMessageBus) and the decisions of the   *)
(* person: cancelling, answering permission questions, confirming a model, *)
(* closing the application.                                                *)
(*                                                                         *)
(* The application is one JavaScript process.  A loop runs alone from one  *)
(* await to the next, so a stage of a run is an await and an action is     *)
(* what the code does when it returns; between two actions of a loop every *)
(* other loop, the person, the sweeper and a crash may step in.  What the  *)
(* models say, what is in the files and what the checks find are the       *)
(* nondeterminism of the actions.                                          *)
(*                                                                         *)
(* Bounds.  MaxIterations and ModelRetries are settings of the code.  A    *)
(* worker is given one task per iteration and a decision delegates one     *)
(* wave of tasks; a permission question is one of a pool, Question, and is *)
(* not asked twice; a task repeated by a resumed iteration keeps its id.   *)
(***************************************************************************)
EXTENDS AgentMessageBus

CONSTANTS
    Question,       \* the permission questions a run may ask
    NoMessage,      \* what a worker without a task works on
    LeasesLapse,    \* whether a worker may take longer than a lease
    BackoffEnds,    \* whether a backoff may end
    MayCrash        \* whether the application may die

ASSUME LocalAssumption ==
    /\ NoMessage \notin Message
    /\ LeasesLapse \in BOOLEAN /\ BackoffEnds \in BOOLEAN /\ MayCrash \in BOOLEAN

VARIABLES
    status,             \* the runs table: status
    cancelRequested,    \* the runs table: cancel_requested_at is set
    iteration,          \* the runs table: iteration
    question,           \* tool_permission_requests: the status of each question
    modelAsked,         \* agent_policy_calls: workers whose model needs confirming
    bus,                \* agent_messages, and the scopes in memory
    app,                \* the process
    stage,              \* the await the loop of each run is in
    work                \* the message each worker of a run is working on

rows == <<status, cancelRequested, iteration>>
asked == <<question, modelAsked>>
vars == <<rows, asked, bus, app, stage, work>>

TERMINAL == {"PARTIAL", "DONE", "FAILED", "CANCELLED"}
RunStatus == {"ABSENT", "RUNNING", "BLOCKED", "NEEDS_HUMAN"} \cup TERMINAL

\* In "delegating" the loop awaits one worker, in "batch" a wave of them.
Waiting == {"delegating", "batch"}
Stage == {"idle", "preparing", "deciding", "measuring", "applying", "gating",
          "publishing", "reporting"} \cup Waiting

Active(r) == stage[r] # "idle"
AtWork(r) == {w \in Worker : work[r][w] # NoMessage}
stopping(r) == cancelRequested[r]

Init ==
    /\ status = [r \in Run |-> "ABSENT"]
    /\ cancelRequested = [r \in Run |-> FALSE]
    /\ iteration = [r \in Run |-> 0]
    /\ question = [r \in Run |-> [q \in Question |-> "none"]]
    /\ modelAsked = [r \in Run |-> {}]
    /\ bus = EmptyBus
    /\ app = "up"
    /\ stage = [r \in Run |-> "idle"]
    /\ work = [r \in Run |-> [w \in Worker |-> NoMessage]]

-----------------------------------------------------------------------------
(* The run row                                                             *)

\* Mutant: any status may be written over a terminal one.
setStatusAlways(old, new) == new

\* setStatus: a later writer of a finished run is ignored, except for
\* CANCELLED, which goes over another terminal status.
setStatus(old, new) == IF old \in TERMINAL /\ new # "CANCELLED" THEN old ELSE new

-----------------------------------------------------------------------------
(* How a loop goes on                                                      *)

\* The loop awaits the next thing.
Awaits(r, s) ==
    /\ stage' = [stage EXCEPT ![r] = s]
    /\ UNCHANGED <<rows, bus, work>>

\* The loop is over, with the status it has: the finally of launch, where
\* closeExchange cancels what is left of the exchange.
Returns(r, b) ==
    /\ stage' = [stage EXCEPT ![r] = "idle"]
    /\ work' = [work EXCEPT ![r] = [w \in Worker |-> NoMessage]]
    /\ bus' = cancelRuns(b, {r})
    /\ UNCHANGED cancelRequested

\* The loop is over and records how.
Stops(r, outcomes) ==
    /\ \E s \in outcomes : status' = [status EXCEPT ![r] = setStatus(@, s)]
    /\ Returns(r, bus)
    /\ UNCHANGED iteration

\* The head of the loop.  Past the last iteration nobody asks whether to stop.
Begins(r, n) ==
    \/ /\ n > MaxIterations
       /\ Awaits(r, "reporting")
    \/ /\ n <= MaxIterations /\ stopping(r)
       /\ Stops(r, {"CANCELLED"})
    \/ /\ n <= MaxIterations /\ ~stopping(r)
       /\ iteration' = [iteration EXCEPT ![r] = n]
       /\ \/ /\ stage' = [stage EXCEPT ![r] = "deciding"]
             /\ UNCHANGED <<status, cancelRequested, bus, work>>
          \/ \* The budget is spent.
             /\ status' = [status EXCEPT ![r] = setStatus(@, "NEEDS_HUMAN")]
             /\ Returns(r, bus)

\* Mutant: a round that achieved nothing does not count.
GoesRoundUncounted(r) == Begins(r, iteration[r])

GoesRound(r) == Begins(r, iteration[r] + 1)

-----------------------------------------------------------------------------
(* Starting and resuming                                                   *)

\* launch, and the first statement of execute.
Launch(r) ==
    /\ bus' = sweep(bus)
    /\ status' = [status EXCEPT ![r] = setStatus(@, "RUNNING")]
    /\ stage' = [stage EXCEPT ![r] = "preparing"]

Start(r) ==
    /\ app = "up" /\ status[r] = "ABSENT"
    /\ Launch(r)
    /\ UNCHANGED <<cancelRequested, iteration, asked, app, work>>

Pending(qs) == {q \in Question : qs[q] = "pending"}
Approved(qs) == {q \in Question : qs[q] = "approved"}

\* Mutant: whether the person stopped the run is not asked.
decideResumptionCancelled(r, qs) ==
    /\ ~Active(r)
    /\ status[r] = "NEEDS_HUMAN"
    /\ Pending(qs) = {}
    /\ Approved(qs) # {}

\* decideResumption: may the answers given so far continue the run?
decideResumption(r, qs) ==
    /\ ~cancelRequested[r]
    /\ ~Active(r)
    /\ status[r] = "NEEDS_HUMAN"
    /\ Pending(qs) = {}
    /\ Approved(qs) # {}

\* PermissionService.approve and deny, with resumeAfterApproval.
AnswerQuestion(r, q) ==
    /\ app = "up" /\ question[r][q] = "pending"
    /\ \E answer \in {"approved", "denied"} :
          question' = [question EXCEPT ![r][q] = answer]
    /\ IF decideResumption(r, question'[r]) THEN Launch(r) ELSE UNCHANGED <<bus, status, stage>>
    /\ UNCHANGED <<cancelRequested, iteration, modelAsked, app, work>>

\* confirm, then resumeAfterModelConfirmation, which refuses a run that was
\* stopped, or whose loop has not come to its end.
ConfirmModel(r, w) ==
    /\ app = "up"
    /\ status[r] \in {"NEEDS_HUMAN", "BLOCKED"} /\ w \in modelAsked[r]
    /\ modelAsked' = [modelAsked EXCEPT ![r] = @ \ {w}]
    /\ IF status[r] = "NEEDS_HUMAN" /\ ~cancelRequested[r] /\ ~Active(r)
         THEN Launch(r) ELSE UNCHANGED <<bus, status, stage>>
    /\ UNCHANGED <<cancelRequested, iteration, question, app, work>>

-----------------------------------------------------------------------------
(* Stopping                                                                *)

\* cancel: recorded before anything else.  A run that waits for the person is
\* over at once; a loop at work finds out by itself.
Cancel(r) ==
    /\ app = "up" /\ status[r] # "ABSENT" /\ ~cancelRequested[r]
    /\ cancelRequested' = [cancelRequested EXCEPT ![r] = TRUE]
    /\ bus' = IF Active(r) THEN cancelRuns(bus, {r}) ELSE bus
    /\ status' = IF ~Active(r) /\ status[r] \in {"BLOCKED", "NEEDS_HUMAN"}
                   THEN [status EXCEPT ![r] = setStatus(@, "CANCELLED")] ELSE status
    /\ UNCHANGED <<iteration, asked, app, stage, work>>

\* Asked again, once the loop has stopped to wait for the person.
CancelAgain(r) ==
    /\ app = "up" /\ cancelRequested[r]
    /\ ~Active(r) /\ status[r] \in {"BLOCKED", "NEEDS_HUMAN"}
    /\ status' = [status EXCEPT ![r] = setStatus(@, "CANCELLED")]
    /\ UNCHANGED <<cancelRequested, iteration, asked, bus, app, stage, work>>

\* The window is closed: shutdown stops the sweeper and drains, which cancels
\* every loop and waits for a while.
Shutdown ==
    /\ app = "up"
    /\ app' = "quitting"
    /\ cancelRequested' = [r \in Run |-> cancelRequested[r] \/ Active(r)]
    /\ bus' = cancelRuns(bus, {r \in Run : Active(r)})
    /\ UNCHANGED <<status, iteration, asked, stage, work>>

\* The process ends, drained or not, or is killed.
Crash ==
    /\ app # "down" /\ (MayCrash \/ app = "quitting")
    /\ app' = "down"
    /\ bus' = Forgotten(bus)
    /\ stage' = [r \in Run |-> "idle"]
    /\ work' = [r \in Run |-> [w \in Worker |-> NoMessage]]
    /\ UNCHANGED <<rows, asked>>

Unfinishable == {r \in Run : status[r] = "RUNNING"}

\* Mutant: the interrupted runs are left as they are.
BootWithoutReconciling ==
    /\ app = "down"
    /\ app' = "up"
    /\ bus' = sweep(bus)
    /\ UNCHANGED <<rows, asked, stage, work>>

\* The application starts: reconcileInterrupted.
Boot ==
    /\ app = "down"
    /\ app' = "up"
    /\ bus' = cancelRuns(sweep(bus), Unfinishable)
    /\ status' = [r \in Run |-> IF r \in Unfinishable THEN setStatus(status[r], "FAILED")
                                ELSE status[r]]
    /\ UNCHANGED <<cancelRequested, iteration, asked, stage, work>>

-----------------------------------------------------------------------------
(* The loop, one action for each await                                     *)

\* A process that runs, in the stage of the loop of r.
At(r, s) == app # "down" /\ stage[r] = s

\* Mutant: a resumed run starts from its first iteration.
PreparedFromOne(r) ==
    /\ At(r, "preparing")
    /\ Stops(r, {"FAILED", "NEEDS_HUMAN"}) \/ Begins(r, 1)
    /\ UNCHANGED <<asked, app>>

\* The environment, the team and the baseline are ready, or are not.
Prepared(r) ==
    /\ At(r, "preparing")
    /\ \/ Stops(r, {"FAILED", "NEEDS_HUMAN"})
       \/ Begins(r, IF iteration[r] = 0 THEN 1 ELSE iteration[r])
    /\ UNCHANGED <<asked, app>>

\* The supervisor has answered.  A conversation may be over with its answer.
Decided(r) ==
    /\ At(r, "deciding")
    /\ IF stopping(r) THEN Stops(r, {"CANCELLED"})
       ELSE \/ Stops(r, {"FAILED", "NEEDS_HUMAN", "BLOCKED", "DONE"})
            \/ Awaits(r, "measuring")
            \/ GoesRound(r)
    /\ UNCHANGED <<asked, app>>

Delegation(r, w) == [run |-> r, iteration |-> iteration[r], to |-> w, attempt |-> 0]

\* The messages M, of different workers, are recorded, claimed and
\* acknowledged before the workers are asked.
HandedOver(b, M) == acknowledge(claim(publish(b, M), {m.to : m \in M}), M)

\* Mutant: no last chance to stop before a worker is paid for.
DelegatesAnyway(r) ==
    \E W \in SUBSET Worker, mode \in Waiting :
        /\ W # {} /\ (mode = "delegating" => Cardinality(W) = 1)
        /\ stage' = [stage EXCEPT ![r] = mode]
        /\ work' = [work EXCEPT ![r] = [w \in Worker |->
                        IF w \in W THEN Delegation(r, w) ELSE NoMessage]]
        /\ bus' = HandedOver(bus, {Delegation(r, w) : w \in W})
        /\ UNCHANGED rows

\* The decision was to delegate, to one worker or to a wave.  In a wave, a
\* worker whose account policy blocks its task is not asked and the run is
\* marked at once, while the others work.  A wave that asks nobody is over; so
\* is a run whose only task was blocked (Measured stops it).
Delegates(r) ==
    \/ /\ stopping(r)
       /\ Stops(r, {"CANCELLED"})
    \/ \E W \in SUBSET Worker, mode \in Waiting, blocked \in BOOLEAN :
        /\ ~stopping(r)
        /\ W # {} /\ (blocked => W # Worker)
        /\ mode = "delegating" => Cardinality(W) = 1 /\ ~blocked
        /\ status' = IF blocked THEN [status EXCEPT ![r] = setStatus(@, "NEEDS_HUMAN")] ELSE status
        /\ stage' = [stage EXCEPT ![r] = mode]
        /\ work' = [work EXCEPT ![r] = [w \in Worker |->
                        IF w \in W THEN Delegation(r, w) ELSE NoMessage]]
        /\ bus' = HandedOver(bus, {Delegation(r, w) : w \in W})
        /\ UNCHANGED <<cancelRequested, iteration>>
    \/ /\ ~stopping(r)
       /\ Awaits(r, "applying")

\* What the decision needed is measured; then it is acted on.
Measured(r) ==
    /\ At(r, "measuring")
    /\ \/ Stops(r, {"NEEDS_HUMAN", "BLOCKED", "FAILED"})
       \/ Delegates(r)
       \/ Awaits(r, "gating")
       \/ GoesRound(r)
    /\ UNCHANGED <<asked, app>>

\* Worker w of the wave or the delegation of r is done, and leaves the bus as
\* b and the run as s.  After the last one a run that was paused or failed
\* meanwhile returns; only a wave then asks whether to stop, and it asks first.
Over(r, w, b, s) ==
    IF AtWork(r) # {w}
      THEN /\ status' = [status EXCEPT ![r] = s]
           /\ work' = [work EXCEPT ![r][w] = NoMessage]
           /\ bus' = b
           /\ UNCHANGED <<cancelRequested, iteration, stage>>
    ELSE IF stage[r] = "batch" /\ stopping(r)
      THEN /\ status' = [status EXCEPT ![r] = setStatus(s, "CANCELLED")]
           /\ Returns(r, b)
           /\ UNCHANGED iteration
    ELSE IF s \in {"NEEDS_HUMAN", "FAILED"}
      THEN /\ status' = [status EXCEPT ![r] = s]
           /\ Returns(r, b)
           /\ UNCHANGED iteration
    ELSE /\ status' = [status EXCEPT ![r] = s]
         /\ stage' = [stage EXCEPT ![r] = "applying"]
         /\ work' = [work EXCEPT ![r][w] = NoMessage]
         /\ bus' = b
         /\ UNCHANGED <<cancelRequested, iteration>>

\* The worker answered, well or not.
Answered(r, w) ==
    /\ \/ Over(r, w, complete(bus, work[r][w]), status[r])
       \/ \E retryable \in BOOLEAN :
             Over(r, w, fail(bus, work[r][w], retryable), status[r])
    /\ UNCHANGED asked

\* AgentExecutionPolicy did not let the call through, or the call broke: it
\* has written the run's status itself, and the answer is a failure.
Refused(r, w) ==
    /\ \E s \in {"FAILED", "NEEDS_HUMAN"} :
          Over(r, w, fail(bus, work[r][w], FALSE), setStatus(status[r], s))
    /\ \/ UNCHANGED modelAsked
       \/ modelAsked' = [modelAsked EXCEPT ![r] = @ \cup {w}]
    /\ UNCHANGED question

\* The account does not have the model.  Unless the run was stopped, the task
\* is handed over again with another model, as another message, unless the
\* account policy now blocks it.
ModelUnavailable(r, w) ==
    LET m == work[r][w]
        failed == fail(bus, m, TRUE)
        again == [m EXCEPT !.attempt = @ + 1]
    IN /\ ~stopping(r) /\ m.attempt < ModelRetries
       /\ \/ /\ bus' = HandedOver(failed, {again})
             /\ work' = [work EXCEPT ![r][w] = again]
             /\ UNCHANGED <<rows, stage>>
          \/ Over(r, w, failed, setStatus(status[r], "NEEDS_HUMAN"))
       /\ UNCHANGED asked

\* An exception ends one task of a wave, and nobody tells the bus.
TaskThrows(r, w) ==
    /\ stage[r] = "batch"
    /\ Over(r, w, bus, status[r])
    /\ UNCHANGED asked

TaskStep(r, w) ==
    /\ app # "down" /\ work[r][w] # NoMessage
    /\ Answered(r, w) \/ Refused(r, w) \/ ModelUnavailable(r, w) \/ TaskThrows(r, w)
    /\ UNCHANGED app

\* The proposals are applied and the answers looked at.  A refused tool
\* becomes questions for the person; nobody asks whether to stop before that,
\* nor before the round after a wave.
Applied(r) ==
    /\ At(r, "applying")
    /\ \/ /\ \E Q \in SUBSET {q \in Question : question[r][q] = "none"} :
                question' = [question EXCEPT ![r] = [q \in Question |->
                                IF q \in Q THEN "pending" ELSE @[q]]]
          /\ Stops(r, {"NEEDS_HUMAN"})
       \/ /\ \/ GoesRound(r)
             \/ stopping(r) /\ Stops(r, {"CANCELLED"})
             \/ ~stopping(r) /\ Awaits(r, "gating")
          /\ UNCHANGED question
    /\ UNCHANGED <<modelAsked, app>>

\* The evidence is in, and where the gate was asked, its verdict.
Gated(r) ==
    /\ At(r, "gating")
    /\ \/ \* The gate was asked.
          IF stopping(r) THEN Stops(r, {"CANCELLED"})
          ELSE Stops(r, {"DONE", "FAILED"}) \/ Awaits(r, "publishing") \/ GoesRound(r)
       \/ \* It was not: nothing can be proved, nothing new was, or go round.
          Stops(r, {"NEEDS_HUMAN", "FAILED"}) \/ GoesRound(r)
    /\ UNCHANGED <<asked, app>>

\* The work of a run the gate has passed is on its branch, for review.
Published(r) ==
    /\ At(r, "publishing")
    /\ Stops(r, {"DONE"})
    /\ UNCHANGED <<asked, app>>

\* Out of iterations.
AtLimit(r) ==
    /\ At(r, "reporting")
    /\ Stops(r, {"PARTIAL", "FAILED"})
    /\ UNCHANGED <<asked, app>>

\* An exception anywhere but in a task of a wave ends the loop.
Throws(r) ==
    /\ app # "down" /\ stage[r] \notin {"idle", "batch"}
    /\ Stops(r, {"FAILED"})
    /\ UNCHANGED <<asked, app>>

LoopStep(r) ==
    \/ Prepared(r) \/ Decided(r) \/ Measured(r) \/ Applied(r) \/ Gated(r)
    \/ Published(r) \/ AtLimit(r) \/ Throws(r)
    \/ \E w \in Worker : TaskStep(r, w)

-----------------------------------------------------------------------------
(* Time                                                                    *)

\* The sweeper, which runs while a loop does.
Sweep ==
    /\ app = "up" /\ \E r \in Run : Active(r)
    /\ expiredLeases(bus) # {}
    /\ bus' = sweep(bus)
    /\ UNCHANGED <<rows, asked, app, stage, work>>

LeaseLapses(m) ==
    /\ LeasesLapse
    /\ StatusOf(bus, m) \in Delivered /\ ~bus.row[m].lapsed
    /\ bus' = LeasePassed(bus, m)
    /\ UNCHANGED <<rows, asked, app, stage, work>>

BackoffOver(m) ==
    /\ BackoffEnds
    /\ StatusOf(bus, m) = "pending" /\ ~bus.row[m].due
    /\ bus' = BackoffPassed(bus, m)
    /\ UNCHANGED <<rows, asked, app, stage, work>>

Next ==
    \/ \E r \in Run :
        \/ Start(r) \/ Cancel(r) \/ CancelAgain(r) \/ LoopStep(r)
        \/ \E q \in Question : AnswerQuestion(r, q)
        \/ \E w \in Worker : ConfirmModel(r, w)
    \/ Shutdown \/ Crash \/ Boot \/ Sweep
    \/ \E m \in Message : LeaseLapses(m) \/ BackoffOver(m)

Spec == Init /\ [][Next]_vars

\* Everything a loop awaits has a time limit of its own: the agents are given
\* agentTimeoutMs, the commands and requests theirs.
FairSpec == Spec /\ \A r \in Run : WF_vars(LoopStep(r))

-----------------------------------------------------------------------------
(* Safety                                                                  *)

\* Types.  Among them: no message is delivered more often than the bound.
TypeOK ==
    /\ status \in [Run -> RunStatus]
    /\ cancelRequested \in [Run -> BOOLEAN]
    /\ iteration \in [Run -> 0 .. MaxIterations]
    /\ question \in [Run -> [Question -> {"none", "pending", "approved", "denied"}]]
    /\ modelAsked \in [Run -> SUBSET Worker]
    /\ bus \in Bus
    /\ app \in {"up", "quitting", "down"}
    /\ stage \in [Run -> Stage]
    /\ work \in [Run -> [Worker -> Message \cup {NoMessage}]]

\* While the application runs, a run that is shown as running has a loop:
\* whatever way a loop ends, and whatever the last process left behind, nobody
\* watches a spinner for ever.
RunningIsDriven ==
    app # "down" => \A r \in Run : status[r] = "RUNNING" => Active(r)

\* A worker the bus holds to be busy has a delivered message of that run: a
\* stale scope would keep the run's messages from that worker for good.
NoPhantomScope ==
    \A s \in bus.inFlight : \E m \in Message : scopeKey(m) = s /\ StatusOf(bus, m) \in Delivered

\* The status of a finished run is final, except that a cancellation outranks
\* it, however late the branches of a wave report their own verdicts.
TerminalRunStays ==
    [][\A r \in Run : status[r] \in TERMINAL => status'[r] \in {status[r], "CANCELLED"}]_vars

\* A loop is started for a new run or for one that waits for the person, never
\* for a run the person has stopped and never beside another loop of the run.
OnlyWaitingRunsLaunch ==
    [][\A r \in Run : stage'[r] = "preparing" /\ stage[r] # "preparing" =>
        ~Active(r) /\ ~cancelRequested[r] /\ status[r] \in {"ABSENT", "NEEDS_HUMAN"}]_vars

\* No worker is given a task of a run the person has stopped: not the next
\* delegation, not another model, not after a restart.
NoWorkAfterCancel ==
    [][\A r \in Run : cancelRequested[r] =>
        \A w \in Worker : work'[r][w] \in {work[r][w], NoMessage}]_vars

\* Resuming a run does not give it back iterations it has used.
ResumedRunKeepsItsBudget ==
    [][\A r \in Run : iteration'[r] >= iteration[r]]_vars

\* A message whose life is over is never touched again, though late answers,
\* sweeps and cancellations keep arriving for it.
ClosedMessagesStay ==
    [][\A m \in Message : StatusOf(bus, m) \in TERMINAL_STATUSES =>
        bus'.row[m] = bus.row[m]]_vars

-----------------------------------------------------------------------------
(* Liveness                                                                *)

\* No loop goes on for ever: iterations and attempts run out.
LoopsEnd == \A r \in Run : Active(r) ~> ~Active(r)

-----------------------------------------------------------------------------
(* What the code says of itself and does not, or not always, keep          *)

\* "A message still `pending` or `leased` when the loop is gone belongs to
\* nobody" (orchestration-service.ts:4337): while the application runs, a run
\* without a loop has no unfinished message.  It holds as long as no process
\* dies in the middle of a wave whose run a worker's policy has paused or failed
\* already: Boot does not look at the messages of such a run.
NothingOutstanding ==
    app # "down" => \A m \in Message : Unfinished(bus, m) => Active(m.run)
=============================================================================
