---------------------------- MODULE CloudMirror ----------------------------
(***************************************************************************)
(* Cloud runs from the desktop's side: CloudService and CloudClient        *)
(* (apps/desktop/src/main/services), against the event log a coordinator   *)
(* keeps of each run (src/cloud/coordinator/store.ts) and serves over HTTP *)
(* (apps/coordinator/src/http.ts).                                         *)
(*                                                                         *)
(* A run is named by its local id, which is the idempotency key under      *)
(* which the coordinator files it: `log[r]` empty means that the           *)
(* coordinator has no run for r.  An entry of a log is the status it sets, *)
(* or stands for an event that leaves a step, or a step and a line of the  *)
(* conversation.  Its number is its place in the log.                      *)
(*                                                                         *)
(* A task is a call of the desktop that awaits an answer: a sweep over the *)
(* unfinished runs (syncAll) or a cancellation and the sync after it.      *)
(* Requests may be lost before or after the coordinator serves them.  A    *)
(* page is applied in one synchronous stretch, event by event: nothing     *)
(* else of the desktop happens meanwhile (Quiet), but the process may die. *)
(* All runs belong to one conversation.  MaxEvents bounds the logs.        *)
(***************************************************************************)
EXTENDS Integers, SequencesExt

CONSTANTS
    Run,
    Task,           \* calls that may be under way at a time
    NoRun,          \* what an idle task is about
    PageSize,       \* events per answer (500 in the code)
    MaxEvents,      \* bound: events of a run
    Restarts        \* whether the application may be closed and opened again

ASSUME MirrorAssumption ==
    /\ PageSize \in Nat \ {0} /\ MaxEvents \in Nat \ {0}
    /\ Restarts \in BOOLEAN
    /\ NoRun \notin Run

VARIABLES
    log,            \* remote_run_events of each run
    status,         \* runs: status
    bound,          \* runs: remote_run_id is set
    cursor,         \* runs: remote_cursor
    steps,          \* run_steps: the numbers of the events mirrored, in order
    messages,       \* messages: run and number of the mirrored lines, in order
    submitting,     \* runs whose submission awaits its answer
    task            \* what each call under way awaits

record == <<status, bound, cursor, steps, messages>>
vars == <<log, status, bound, cursor, steps, messages, submitting, task>>

RemoteTerminal == {"DONE", "FAILED", "CANCELLED", "NEEDS_HUMAN"}
RemoteStatus == {"QUEUED", "PROVISIONING", "RUNNING"} \cup RemoteTerminal
Entry == RemoteStatus \cup {"step", "message"}

\* The coordinator's vocabulary mapped onto that of the runs table.
LOCAL_STATUS ==
    [s \in RemoteStatus |->
        CASE s = "QUEUED" -> "PENDING"
          [] s \in {"PROVISIONING", "RUNNING"} -> "RUNNING"
          [] s = "NEEDS_HUMAN" -> "BLOCKED"
          [] OTHER -> s]

Terminal == {"DONE", "FAILED", "CANCELLED"}
LocalStatus == {"ABSENT", "PENDING", "RUNNING", "BLOCKED"} \cup Terminal

\* Entries that leave a step in the mirror.
Visible(e) == e \notin RemoteStatus

\* The status column of a remote run.  createRun makes it QUEUED without an
\* event for it; setStatus updates the column and records the event.
StatusIn(entries) ==
    LET set == {i \in DOMAIN entries : entries[i] \in RemoteStatus}
    IN  IF set = {} THEN "QUEUED" ELSE entries[Max(set)]

\* A task: the run it is about, the runs of its sweep still to come, the
\* number it asks after (and then has applied), and the page it was served.
Idle == [stage |-> "idle", run |-> NoRun, todo |-> {}, after |-> 0,
         upto |-> 0, full |-> FALSE, status |-> "QUEUED"]

Stage == {"idle", "cancelling", "cancelled", "asking", "served", "applying"}
TaskState ==
    [stage : Stage, run : Run \cup {NoRun}, todo : SUBSET Run,
     after : 0 .. MaxEvents, upto : 0 .. MaxEvents, full : BOOLEAN,
     status : RemoteStatus]

\* No page is being applied: the event loop of the desktop is free.
Quiet == \A t \in Task : task[t].stage # "applying"

Init ==
    /\ log = [r \in Run |-> <<>>]
    /\ status = [r \in Run |-> "ABSENT"]
    /\ bound = [r \in Run |-> FALSE]
    /\ cursor = [r \in Run |-> 0]
    /\ steps = [r \in Run |-> <<>>]
    /\ messages = <<>>
    /\ submitting = {}
    /\ task = [t \in Task |-> Idle]

-----------------------------------------------------------------------------
(* The coordinator                                                         *)

Room(r) == Len(log[r]) < MaxEvents

\* append: the next number of the log, whoever records the event.
Recorded(r, e) == log' = [log EXCEPT ![r] = Append(@, e)]

\* The statuses a drive and its loop give a run (RunCoordinator models why).
NextStatus(s) ==
    CASE s = "QUEUED" -> {"PROVISIONING"}
      [] s = "PROVISIONING" -> {"PROVISIONING", "RUNNING", "FAILED"}
      [] s = "RUNNING" -> {"PROVISIONING", "DONE", "FAILED", "CANCELLED", "NEEDS_HUMAN"}
      [] s = "CANCELLED" -> {"RUNNING", "DONE", "FAILED", "CANCELLED"}
      [] OTHER -> {}

\* A drive goes on: it reports progress, or sets a status.  The loop of a
\* run cancelled meanwhile still reports while it winds down.
DriveReports(r) ==
    /\ log[r] # <<>> /\ Room(r)
    /\ \E e \in {"step", "message"} \cup NextStatus(StatusIn(log[r])) :
           /\ Visible(e) => StatusIn(log[r]) \notin {"DONE", "FAILED", "NEEDS_HUMAN"}
           /\ Recorded(r, e)
    /\ UNCHANGED <<record, submitting, task>>

\* POST /v1/runs: a run for a new key, the run the key already has otherwise.
SubmissionArrives(r) ==
    /\ r \in submitting /\ log[r] = <<>>
    /\ Recorded(r, "step")
    /\ UNCHANGED <<record, submitting, task>>

\* The last number of the page that follows the one asked for.
PageEnd(k) ==
    IF Len(log[k.run]) > k.after + PageSize THEN k.after + PageSize ELSE Len(log[k.run])

\* GET /v1/runs/:id/events: a page of what follows the number asked for, and
\* the status of the run.
ServeEvents(t) ==
    LET k == task[t]
    IN  /\ k.stage = "asking"
        /\ task' = [task EXCEPT ![t] = [k EXCEPT !.stage = "served",
                                                !.upto = PageEnd(k),
                                                !.full = PageEnd(k) = k.after + PageSize,
                                                !.status = StatusIn(log[k.run])]]
        /\ UNCHANGED <<log, record, submitting>>

\* POST /v1/runs/:id/cancel.  A drive of this process is told to stop and
\* sets the status when it has; otherwise the coordinator sets it here.
ServeCancel(t) ==
    LET k == task[t]
    IN  /\ k.stage = "cancelling"
        /\ \/ StatusIn(log[k.run]) = "RUNNING" /\ UNCHANGED log
           \/ Room(k.run) /\ Recorded(k.run, "CANCELLED")
        /\ task' = [task EXCEPT ![t].stage = "cancelled"]
        /\ UNCHANGED <<record, submitting>>

-----------------------------------------------------------------------------
(* The record of a run on the desktop                                      *)

\* Mutant: a later writer of a finished run is not ignored.
StatusAfterAnything(old, new) == LOCAL_STATUS[new]

\* applyStatus, and setStatus of RunRepository: a final status stays, except
\* that CANCELLED goes over another one.
StatusAfter(old, new) ==
    IF old \in Terminal /\ LOCAL_STATUS[new] # "CANCELLED"
    THEN old ELSE LOCAL_STATUS[new]

\* Mutant: an event that is applied again leaves a second step.
StepAgain(list, seq) == Append(list, seq)

\* stepOnce: the number of the event marks its step.
StepOnce(list, seq) == IF Contains(list, seq) THEN list ELSE Append(list, seq)

\* Mutant: a message that is applied again becomes a second line.
MessageAgain(lines, line) == Append(lines, line)

\* messageOnce: looked for in the whole conversation, by its number alone.
MessageOnce(lines, line) ==
    IF \E i \in DOMAIN lines : lines[i].seq = line.seq
    THEN lines ELSE Append(lines, line)

\* setRemoteCursor: never backwards.
CursorAt(r, n) == [cursor EXCEPT ![r] = IF n > @ THEN n ELSE @]

-----------------------------------------------------------------------------
(* Submitting                                                              *)

\* start: the row first, then the submission under the id of the row.
Start(r) ==
    /\ Quiet /\ status[r] = "ABSENT"
    /\ status' = [status EXCEPT ![r] = "PENDING"]
    /\ submitting' = submitting \cup {r}
    /\ UNCHANGED <<log, bound, cursor, steps, messages, task>>

\* The coordinator's answer arrives.
Accepted(r) ==
    /\ Quiet /\ r \in submitting /\ log[r] # <<>>
    /\ submitting' = submitting \ {r}
    /\ bound' = [bound EXCEPT ![r] = TRUE]
    /\ status' = [status EXCEPT ![r] = StatusAfter(@, "RUNNING")]
    /\ UNCHANGED <<log, cursor, steps, messages, task>>

\* The request is refused or its answer lost: the run may be there or not,
\* and the row stays as it is.
Unsent(r) ==
    /\ Quiet /\ r \in submitting
    /\ submitting' = submitting \ {r}
    /\ UNCHANGED <<log, record, task>>

-----------------------------------------------------------------------------
(* Syncing                                                                 *)

\* sync reads the cursor and asks for what follows it.
Asking(r, todo) ==
    [Idle EXCEPT !.stage = "asking", !.run = r, !.todo = todo, !.after = cursor[r]]

\* A task is done with its run, and turns to another one of its list.
TurnsToNext(t) ==
    IF task[t].todo = {} THEN task' = [task EXCEPT ![t] = Idle]
    ELSE \E r \in task[t].todo :
             task' = [task EXCEPT ![t] = Asking(r, task[t].todo \ {r})]

\* Local runs bound to a remote one that has not finished here yet.
listUnfinishedRemote == {r \in Run : bound[r] /\ status[r] \notin Terminal}

\* syncAll: the list is read once; each run is synced after the other.
SyncAll(t) ==
    /\ Quiet /\ task[t] = Idle
    /\ \E r \in listUnfinishedRemote :
           task' = [task EXCEPT ![t] = Asking(r, listUnfinishedRemote \ {r})]
    /\ UNCHANGED <<log, record, submitting>>

\* An empty page ends the sync of the run with the status beside it.
NothingNew(t) ==
    LET k == task[t]
    IN  /\ Quiet /\ k.stage = "served" /\ k.upto = k.after
        /\ status' = [status EXCEPT ![k.run] = StatusAfter(@, k.status)]
        /\ TurnsToNext(t)
        /\ UNCHANGED <<log, bound, cursor, steps, messages, submitting>>

\* A page arrives that holds events: they are applied next.
PageArrives(t) ==
    /\ Quiet /\ task[t].stage = "served" /\ task[t].upto > task[t].after
    /\ task' = [task EXCEPT ![t].stage = "applying"]
    /\ UNCHANGED <<log, record, submitting>>

\* apply: a status is written over the row; anything else leaves a step, and
\* some of it a line of the conversation.
ApplyEvent(t) ==
    LET r == task[t].run
        seq == task[t].after + 1
        e == log[r][seq]
    IN  /\ task[t].stage = "applying" /\ task[t].after < task[t].upto
        /\ task' = [task EXCEPT ![t].after = seq]
        /\ IF Visible(e)
           THEN /\ steps' = [steps EXCEPT ![r] = StepOnce(@, seq)]
                /\ messages' = IF e = "message"
                               THEN MessageOnce(messages, [run |-> r, seq |-> seq])
                               ELSE messages
                /\ UNCHANGED status
           ELSE /\ status' = [status EXCEPT ![r] = StatusAfter(@, e)]
                /\ UNCHANGED <<steps, messages>>
        /\ UNCHANGED <<log, bound, cursor, submitting>>

\* A full page is followed by a request for the next one.
AsksOn(k) == [k EXCEPT !.stage = "asking"]

\* The last number of the page becomes the cursor, and the status that came
\* with the page is taken over.
PageApplied(t) ==
    LET k == task[t]
    IN  /\ k.stage = "applying" /\ k.after = k.upto
        /\ cursor' = CursorAt(k.run, k.upto)
        /\ status' = [status EXCEPT ![k.run] = StatusAfter(@, k.status)]
        /\ IF k.full THEN task' = [task EXCEPT ![t] = AsksOn(k)] ELSE TurnsToNext(t)
        /\ UNCHANGED <<log, bound, steps, messages, submitting>>

\* A request or its answer is lost, or takes too long: the sync of this run
\* is given up and the sweep goes on; a cancellation fails.
RequestFails(t) ==
    /\ Quiet /\ task[t].stage # "idle"
    /\ TurnsToNext(t)
    /\ UNCHANGED <<log, record, submitting>>

\* cancel of a run the coordinator has: it is asked to stop it.
Cancel(t) ==
    /\ Quiet /\ task[t] = Idle
    /\ \E r \in {x \in Run : bound[x]} :
           task' = [task EXCEPT ![t] = [Idle EXCEPT !.stage = "cancelling", !.run = r]]
    /\ UNCHANGED <<log, record, submitting>>

\* The coordinator has answered: the run is synced.
CancelAnswered(t) ==
    /\ Quiet /\ task[t].stage = "cancelled"
    /\ task' = [task EXCEPT ![t] = Asking(task[t].run, {})]
    /\ UNCHANGED <<log, record, submitting>>

-----------------------------------------------------------------------------
(* Closing and opening the application                                     *)

\* reconcileInterrupted: every row that is PENDING or RUNNING is failed, the
\* ones that mirror a run of the cloud included.
Reconciled(old) == IF old \in {"PENDING", "RUNNING"} THEN "FAILED" ELSE old

\* The process ends, perhaps in the middle of a page, and starts again.
Restart ==
    /\ Restarts
    /\ status' = [r \in Run |-> Reconciled(status[r])]
    /\ submitting' = {}
    /\ task' = [t \in Task |-> Idle]
    /\ UNCHANGED <<log, bound, cursor, steps, messages>>

CallStep(t) ==
    \/ ServeEvents(t) \/ ServeCancel(t) \/ NothingNew(t) \/ PageArrives(t)
    \/ ApplyEvent(t) \/ PageApplied(t) \/ CancelAnswered(t) \/ RequestFails(t)

Next ==
    \/ \E r \in Run : Start(r) \/ SubmissionArrives(r) \/ Accepted(r) \/ Unsent(r)
                      \/ DriveReports(r)
    \/ \E t \in Task : SyncAll(t) \/ Cancel(t) \/ CallStep(t)
    \/ Restart

Spec == Init /\ [][Next]_vars

-----------------------------------------------------------------------------
(* Properties                                                              *)

TypeOK ==
    /\ log \in [Run -> Seq(Entry)] /\ \A r \in Run : Len(log[r]) <= MaxEvents
    /\ status \in [Run -> LocalStatus]
    /\ bound \in [Run -> BOOLEAN]
    /\ cursor \in [Run -> 0 .. MaxEvents]
    /\ steps \in [Run -> Seq(1 .. MaxEvents)]
    /\ messages \in Seq([run : Run, seq : 1 .. MaxEvents])
    /\ submitting \subseteq Run
    /\ task \in [Task -> TaskState]

\* Numbers in their order.
InOrder(S) ==
    CHOOSE s \in [1 .. Cardinality(S) -> S] :
        Range(s) = S /\ \A i, j \in DOMAIN s : i < j => s[i] < s[j]

\* The numbers of the events a mirror has to show.
VisibleNumbers(r) == {i \in DOMAIN log[r] : Visible(log[r][i])}
VisibleLog(r) == InOrder(VisibleNumbers(r))

Mirror == INSTANCE EventMirror WITH
    log <- [r \in Run |-> VisibleLog(r)], copy <- steps, Event <- 1 .. MaxEvents

\* However syncs overlap, are given up or die, the timeline of a run is the
\* beginning of its history in the cloud: nothing twice, nothing left out,
\* nothing out of order (cloud-service.ts:8-18).
ImplementsEventMirror == Mirror!Spec

\* A mirrored run that has ended stays ended, with the outcome it has; only a
\* cancellation goes over it (repositories.ts:1747-1758).
FinalStatusStays ==
    [][\A r \in Run : status[r] \in Terminal =>
           status'[r] \in {status[r], "CANCELLED"}]_vars

\* What the person is shown happened.  A run is done or cancelled here only if
\* it was there, whatever of it has been mirrored; and a line of the conversation
\* stands for one message of the history, and is there once, whichever of two
\* overlapping syncs wrote it (cloud-service.ts:250-323).
ShownIsReal ==
    /\ \A r \in Run : status[r] \in {"DONE", "CANCELLED"} => status[r] \in Range(log[r])
    /\ IsInjective(messages)
    /\ \A i \in DOMAIN messages : log[messages[i].run][messages[i].seq] = "message"

=============================================================================
