-------------------------- MODULE AgentMessageBus --------------------------
(***************************************************************************)
(* The agent message bus (src/bus/agent-message-bus.ts) over its table     *)
(* (AgentMessageRepository, src/database/repositories.ts:2501-2729).       *)
(*                                                                         *)
(* The bus has no behaviour of its own: every call is made, synchronously, *)
(* by the orchestration service, several of them in one go.  So each call  *)
(* is an operator from a bus to a bus, and LocalRuns composes them.        *)
(*                                                                         *)
(* A bus is a record: `row` is the table, which survives a crash, and      *)
(* `inFlight` the scopes held in the memory of the AgentMessageBus.  A     *)
(* message is named by its dedupe key.  Only delegations are requests that *)
(* wait for an answer; the other messages the application publishes are    *)
(* written `completed` (agent-message-bus.ts:246-251), nobody looks for    *)
(* them, and they are left out.  recover() has no caller in the            *)
(* application and is left out too.                                        *)
(***************************************************************************)
EXTENDS Integers, FiniteSets

CONSTANTS
    Run,            \* the runs messages belong to
    Worker,         \* the recipients: the slots of a team
    MaxIterations,  \* iterations of the loop of a run
    ModelRetries,   \* further attempts of one delegation, with another model
    MaxAttempts     \* deliveries of one message before it is dead

ASSUME BusAssumption ==
    /\ MaxIterations \in Nat \ {0}
    /\ ModelRetries \in Nat
    /\ MaxAttempts \in Nat \ {0}

\* The dedupe key of a delegation: run, iteration, type, recipient and step,
\* where the step is the delegation's task and the number of the attempt.
Message == [run : Run, iteration : 1 .. MaxIterations, to : Worker, attempt : 0 .. ModelRetries]

\* A table has finitely many rows.
ASSUME MessagesAssumption == IsFiniteSet(Message)

Scope == Run \X Worker
scopeKey(m) == <<m.run, m.to>>

Delivered == {"leased", "started"}
TERMINAL_STATUSES == {"completed", "dead", "cancelled"}
MessageStatus == {"absent", "pending"} \cup Delivered \cup TERMINAL_STATUSES

\* seq is the order of creation among the messages to one recipient; lapsed
\* says that lease_expires_at is past, due that available_at is past: they are
\* kept where the code reads them, lapsed of a delivered message and due of a
\* pending one.  The attempts of a closed message are not read again, and not
\* kept.
Row == [status : MessageStatus, attempts : 0 .. MaxAttempts, seq : Nat,
        lapsed : BOOLEAN, due : BOOLEAN]
Bus == [row : [Message -> Row], inFlight : SUBSET Scope]

NoRow == [status |-> "absent", attempts |-> 0, seq |-> 0, lapsed |-> FALSE, due |-> FALSE]
EmptyBus == [row |-> [m \in Message |-> NoRow], inFlight |-> {}]

StatusOf(b, m) == b.row[m].status
Unfinished(b, m) == StatusOf(b, m) \in {"pending"} \cup Delivered
ClosedRow(row, s) == [NoRow EXCEPT !.status = s, !.seq = row.seq]

-----------------------------------------------------------------------------
(* Publishing                                                              *)

\* publish, for messages published one after the other: a key that is in the
\* table already is answered with its row, as it is.
publish(b, S) ==
    LET created == {m \in S : StatusOf(b, m) = "absent"}
        next(m) == 1 + Cardinality({n \in Message : n.to = m.to /\ StatusOf(b, n) # "absent"})
    IN [b EXCEPT !.row = [m \in Message |->
            IF m \in created
              THEN [NoRow EXCEPT !.status = "pending", !.seq = next(m), !.due = TRUE]
              ELSE b.row[m]]]

-----------------------------------------------------------------------------
(* Delivering                                                              *)

\* What claimNext may hand to a recipient: messages of any run, except the
\* runs for which the recipient has something in flight.
Ready(b, w) ==
    {m \in Message : /\ m.to = w
                     /\ StatusOf(b, m) = "pending" /\ b.row[m].due
                     /\ scopeKey(m) \notin b.inFlight}

\* The oldest of them, if there is one.
claimNext(b, w) ==
    {m \in Ready(b, w) : \A n \in Ready(b, w) : b.row[m].seq <= b.row[n].seq}

\* claim, once for each recipient of W (they do not see one another).
claim(b, W) ==
    LET claimed == UNION {claimNext(b, w) : w \in W}
    IN [row |-> [m \in Message |->
            IF m \in claimed
              THEN [b.row[m] EXCEPT !.status = "leased", !.attempts = @ + 1, !.due = FALSE]
              ELSE b.row[m]],
        inFlight |-> b.inFlight \cup {scopeKey(m) : m \in claimed}]

acknowledge(b, S) ==
    [b EXCEPT !.row = [m \in Message |->
        IF m \in S /\ StatusOf(b, m) = "leased" THEN [b.row[m] EXCEPT !.status = "started"]
        ELSE b.row[m]]]

-----------------------------------------------------------------------------
(* Closing                                                                 *)

complete(b, m) ==
    IF StatusOf(b, m) \in Delivered
      THEN [row |-> [b.row EXCEPT ![m] = ClosedRow(@, "completed")],
            inFlight |-> b.inFlight \ {scopeKey(m)}]
      ELSE b

\* Mutant: a row is requeued whatever its status.
FailedRowUnguarded(row, retryable) ==
    IF ~retryable \/ row.attempts >= MaxAttempts
      THEN ClosedRow(row, "dead")
      ELSE [row EXCEPT !.status = "pending", !.lapsed = FALSE]

\* What fail does to the row: dead when it is not to be retried or has been
\* delivered often enough, else back in the queue, to be due after a backoff.
FailedRow(row, retryable) ==
    IF ~retryable \/ row.attempts >= MaxAttempts
      THEN IF row.status \in {"pending"} \cup Delivered
             THEN ClosedRow(row, "dead") ELSE row
      ELSE IF row.status \in Delivered
             THEN [row EXCEPT !.status = "pending", !.lapsed = FALSE] ELSE row

\* fail: the scope is free again before the row is looked at.
fail(b, m, retryable) ==
    [row |-> [b.row EXCEPT ![m] = FailedRow(@, retryable)],
     inFlight |-> b.inFlight \ {scopeKey(m)}]

expiredLeases(b) == {m \in Message : StatusOf(b, m) \in Delivered /\ b.row[m].lapsed}

\* Mutant: the scope of a reclaimed lease stays busy.
sweepKeepingScopes(b) ==
    [b EXCEPT !.row = [m \in Message |->
        IF m \in expiredLeases(b) THEN FailedRow(b.row[m], TRUE) ELSE b.row[m]]]

\* sweep: every lease past its deadline is failed, and may be retried.
sweep(b) ==
    [row |-> [m \in Message |->
        IF m \in expiredLeases(b) THEN FailedRow(b.row[m], TRUE) ELSE b.row[m]],
     inFlight |-> b.inFlight \ {scopeKey(m) : m \in expiredLeases(b)}]

\* Mutant: only what was delivered is cancelled.
cancelRunsDelivered(b, S) ==
    [row |-> [m \in Message |->
        IF m.run \in S /\ StatusOf(b, m) \in Delivered
          THEN ClosedRow(b.row[m], "cancelled")
          ELSE b.row[m]],
     inFlight |-> {s \in b.inFlight : s[1] \notin S}]

\* cancelRun, for each run of S.
cancelRuns(b, S) ==
    [row |-> [m \in Message |->
        IF m.run \in S /\ Unfinished(b, m)
          THEN ClosedRow(b.row[m], "cancelled")
          ELSE b.row[m]],
     inFlight |-> {s \in b.inFlight : s[1] \notin S}]

\* The process is gone: the scopes were only in its memory.
Forgotten(b) == [b EXCEPT !.inFlight = {}]

-----------------------------------------------------------------------------
(* Time                                                                    *)

LeasePassed(b, m) == [b EXCEPT !.row[m].lapsed = TRUE]
BackoffPassed(b, m) == [b EXCEPT !.row[m].due = TRUE]
=============================================================================
