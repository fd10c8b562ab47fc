-------------------------- MODULE LocalRunsProofs --------------------------
(***************************************************************************)
(* Proofs about LocalRuns, for any runs, workers, questions, iterations    *)
(* and attempts.  First what each call of the message bus does to a bus,   *)
(* then what each way a loop goes on does to the runs, and at last the     *)
(* actions.                                                                *)
(***************************************************************************)
EXTENDS LocalRuns, FiniteSetTheorems, TLAPS

-----------------------------------------------------------------------------
(* The bus                                                                 *)

\* A message that may still be delivered has an attempt left.
AttemptsLeft(b) ==
    \A m \in Message : StatusOf(b, m) = "pending" => b.row[m].attempts < MaxAttempts

\* NoPhantomScope, of any bus.
ScopesHeld(b) ==
    \A s \in b.inFlight : \E m \in Message : scopeKey(m) = s /\ StatusOf(b, m) \in Delivered

BusInv(b) == b \in Bus /\ AttemptsLeft(b) /\ ScopesHeld(b)

\* Every closed message of b is in c as it was.
Keeps(b, c) ==
    \A m \in Message : StatusOf(b, m) \in TERMINAL_STATUSES => c.row[m] = b.row[m]

BusStep(b, c) == BusInv(c) /\ Keeps(b, c)

\* Steps of a bus compose.
LEMMA BusStepTwice ==
    ASSUME NEW a, NEW b, NEW c, BusStep(a, b), BusStep(b, c)
    PROVE  BusStep(a, c)
  BY DEF BusStep, Keeps, StatusOf

LEMMA MessageType ==
    ASSUME NEW m \in Message
    PROVE  /\ m.run \in Run /\ m.to \in Worker
           /\ m.iteration \in 1 .. MaxIterations /\ m.attempt \in 0 .. ModelRetries
           /\ scopeKey(m) \in Scope /\ scopeKey(m)[1] = m.run
  BY DEF Message, Scope, scopeKey

LEMMA BusFields ==
    ASSUME NEW b \in Bus
    PROVE  /\ b.row \in [Message -> Row] /\ b.inFlight \subseteq Scope
           /\ \A m \in Message : /\ b.row[m] \in Row
                                 /\ b.row[m].status \in MessageStatus
                                 /\ b.row[m].attempts \in 0 .. MaxAttempts
                                 /\ b.row[m].seq \in Nat
  BY DEF Bus, Row

\* The shape of a new bus from that of its rows and scopes.
LEMMA BusFrom ==
    ASSUME NEW R \in [Message -> Row], NEW F \in SUBSET Scope
    PROVE  /\ [row |-> R, inFlight |-> F] \in Bus
           /\ [row |-> R, inFlight |-> F].row = R
           /\ [row |-> R, inFlight |-> F].inFlight = F
  BY DEF Bus

LEMMA NoRowIs == NoRow \in Row /\ NoRow.status = "absent" /\ NoRow.attempts = 0
  BY BusAssumption DEF NoRow, Row, MessageStatus

LEMMA EmptyBusInv == BusInv(EmptyBus)
  BY NoRowIs, BusFrom DEF EmptyBus, BusInv, AttemptsLeft, ScopesHeld, StatusOf

LEMMA ClosedRowType ==
    ASSUME NEW row \in Row, NEW s \in TERMINAL_STATUSES
    PROVE  ClosedRow(row, s) \in Row /\ ClosedRow(row, s).status = s
<1>1. s \in MessageStatus /\ row.seq \in Nat
  BY DEF MessageStatus, Row
<1> QED
  BY <1>1, NoRowIs DEF ClosedRow, Row

\* What fail may do to a row.
LEMMA FailedRowIs ==
    ASSUME NEW row \in Row, NEW retryable \in BOOLEAN
    PROVE  /\ FailedRow(row, retryable) \in Row
           /\ row.status \in TERMINAL_STATUSES => FailedRow(row, retryable) = row
           /\ \/ FailedRow(row, retryable) = row
              \/ FailedRow(row, retryable).status = "dead"
              \/ /\ FailedRow(row, retryable).status = "pending"
                 /\ FailedRow(row, retryable).attempts < MaxAttempts
<1>1. ClosedRow(row, "dead") \in Row /\ ClosedRow(row, "dead").status = "dead"
  BY ClosedRowType DEF TERMINAL_STATUSES
<1>2. CASE ~retryable \/ row.attempts >= MaxAttempts
  BY <1>1, <1>2 DEF FailedRow, TERMINAL_STATUSES, Delivered
<1>3. CASE retryable /\ ~(row.attempts >= MaxAttempts)
  <2>1. row.attempts \in Nat /\ MaxAttempts \in Nat
    BY BusAssumption DEF Row
  <2> DEFINE again == [row EXCEPT !.status = "pending", !.lapsed = FALSE]
  <2>2. /\ again \in Row /\ again.status = "pending" /\ again.attempts = row.attempts
    BY DEF Row, MessageStatus
  <2> QED
    BY <1>3, <2>1, <2>2 DEF FailedRow, TERMINAL_STATUSES, Delivered
<1> QED
  BY <1>2, <1>3

LEMMA publishStep ==
    ASSUME NEW b, BusInv(b), NEW S \in SUBSET Message
    PROVE  BusStep(b, publish(b, S))
<1> DEFINE created == {m \in S : StatusOf(b, m) = "absent"}
           next(m) == 1 + Cardinality({n \in Message : n.to = m.to /\ StatusOf(b, n) # "absent"})
           new(m) == [NoRow EXCEPT !.status = "pending", !.seq = next(m), !.due = TRUE]
           R == [m \in Message |-> IF m \in created THEN new(m) ELSE b.row[m]]
           c == publish(b, S)
<1>1. b \in Bus
  BY DEF BusInv
<1>2. ASSUME NEW m \in Message
      PROVE  new(m) \in Row /\ new(m).status = "pending" /\ new(m).attempts = 0
  <2>1. next(m) \in Nat
    BY MessagesAssumption, FS_Subset, FS_CardinalityType
  <2> HIDE DEF next
  <2>2. "pending" \in MessageStatus
    BY DEF MessageStatus
  <2> QED
    BY <2>1, <2>2, NoRowIs DEF Row
<1> HIDE DEF new
<1>3. R \in [Message -> Row]
  BY <1>1, <1>2, BusFields
<1>4. c = [b EXCEPT !.row = R]
  BY DEF publish, new
<1>5. c \in Bus /\ c.row = R /\ c.inFlight = b.inFlight
  BY <1>1, <1>3, <1>4 DEF Bus
<1> HIDE DEF c
<1>6. \A m \in Message : \/ c.row[m] = b.row[m]
                         \/ /\ StatusOf(b, m) = "absent"
                            /\ c.row[m].status = "pending" /\ c.row[m].attempts = 0
  BY <1>2, <1>5
<1>7. AttemptsLeft(c)
  BY <1>6, BusAssumption DEF BusInv, AttemptsLeft, StatusOf
<1>8. ScopesHeld(c)
  BY <1>5, <1>6 DEF BusInv, ScopesHeld, StatusOf, Delivered
<1>9. Keeps(b, c)
  BY <1>6 DEF Keeps, StatusOf, TERMINAL_STATUSES
<1> QED
  BY <1>5, <1>7, <1>8, <1>9 DEF BusStep, BusInv, c

LEMMA claimStep ==
    ASSUME NEW b, BusInv(b), NEW W \in SUBSET Worker
    PROVE  BusStep(b, claim(b, W))
<1> DEFINE claimed == UNION {claimNext(b, w) : w \in W}
           lease(m) == [b.row[m] EXCEPT !.status = "leased", !.attempts = @ + 1, !.due = FALSE]
           R == [m \in Message |-> IF m \in claimed THEN lease(m) ELSE b.row[m]]
           F == b.inFlight \cup {scopeKey(m) : m \in claimed}
           c == claim(b, W)
<1>1. b \in Bus
  BY DEF BusInv
<1>2. \A m \in claimed : m \in Message /\ StatusOf(b, m) = "pending"
  BY DEF claimNext, Ready
<1> HIDE DEF claimed
<1>3. ASSUME NEW m \in claimed
      PROVE  lease(m) \in Row /\ lease(m).status = "leased"
  <2>1. b.row[m] \in Row /\ b.row[m].attempts \in Nat /\ b.row[m].attempts < MaxAttempts
    BY <1>1, <1>2, BusFields DEF BusInv, AttemptsLeft
  <2>2. b.row[m].attempts + 1 \in 0 .. MaxAttempts
    BY <2>1, BusAssumption
  <2> QED
    BY <2>1, <2>2 DEF Row, MessageStatus, Delivered
<1> HIDE DEF lease
<1>4. R \in [Message -> Row]
  BY <1>1, <1>3, BusFields
<1>5. F \in SUBSET Scope
  BY <1>1, <1>2, BusFields, MessageType
<1>6. c = [row |-> R, inFlight |-> F]
  BY DEF claim, lease, claimed
<1>7. c \in Bus /\ c.row = R /\ c.inFlight = F
  BY <1>4, <1>5, <1>6, BusFrom
<1> HIDE DEF c
<1>8. \A m \in Message : IF m \in claimed THEN c.row[m].status = "leased"
                         ELSE c.row[m] = b.row[m]
  BY <1>3, <1>7
<1>9. AttemptsLeft(c)
  BY <1>8 DEF BusInv, AttemptsLeft, StatusOf
<1>10. ScopesHeld(c)
  <2> SUFFICES ASSUME NEW s \in c.inFlight
               PROVE  \E m \in Message : scopeKey(m) = s /\ StatusOf(c, m) \in Delivered
    BY DEF ScopesHeld
  <2>1. CASE s \in b.inFlight
    <3>1. PICK m \in Message : scopeKey(m) = s /\ StatusOf(b, m) \in Delivered
      BY <2>1 DEF BusInv, ScopesHeld
    <3> QED
      BY <1>8, <3>1 DEF StatusOf, Delivered
  <2>2. CASE s \notin b.inFlight
    <3>1. PICK m \in claimed : scopeKey(m) = s
      BY <1>7, <2>2
    <3> QED
      BY <1>2, <1>8, <3>1 DEF StatusOf, Delivered
  <2> QED
    BY <2>1, <2>2
<1>11. Keeps(b, c)
  BY <1>2, <1>8 DEF Keeps, StatusOf, TERMINAL_STATUSES
<1> QED
  BY <1>7, <1>9, <1>10, <1>11 DEF BusStep, BusInv, c

LEMMA acknowledgeStep ==
    ASSUME NEW b, BusInv(b), NEW S \in SUBSET Message
    PROVE  BusStep(b, acknowledge(b, S))
<1> DEFINE start(m) == [b.row[m] EXCEPT !.status = "started"]
           R == [m \in Message |-> IF m \in S /\ StatusOf(b, m) = "leased" THEN start(m)
                                   ELSE b.row[m]]
           c == acknowledge(b, S)
<1>1. b \in Bus
  BY DEF BusInv
<1>2. ASSUME NEW m \in Message
      PROVE  start(m) \in Row /\ start(m).status = "started"
  BY <1>1, BusFields DEF Row, MessageStatus, Delivered
<1> HIDE DEF start
<1>3. R \in [Message -> Row]
  BY <1>1, <1>2, BusFields
<1>4. c = [b EXCEPT !.row = R]
  BY DEF acknowledge, start
<1>5. c \in Bus /\ c.row = R /\ c.inFlight = b.inFlight
  BY <1>1, <1>3, <1>4 DEF Bus
<1> HIDE DEF c
<1>6. \A m \in Message : \/ c.row[m] = b.row[m]
                         \/ StatusOf(b, m) = "leased" /\ c.row[m].status = "started"
  BY <1>2, <1>5
<1>7. AttemptsLeft(c)
  BY <1>6 DEF BusInv, AttemptsLeft, StatusOf
<1>8. ScopesHeld(c)
  BY <1>5, <1>6 DEF BusInv, ScopesHeld, StatusOf, Delivered
<1>9. Keeps(b, c)
  BY <1>6 DEF Keeps, StatusOf, TERMINAL_STATUSES
<1> QED
  BY <1>5, <1>7, <1>8, <1>9 DEF BusStep, BusInv, c

\* Closing one message: its row leaves the delivered ones with its scope.
LEMMA OneClosed ==
    ASSUME NEW b, BusInv(b), NEW m \in Message, NEW new \in Row,
           StatusOf(b, m) \in TERMINAL_STATUSES => new = b.row[m],
           new.status = "pending" => new.attempts < MaxAttempts,
           NEW c, c = [row |-> [b.row EXCEPT ![m] = new], inFlight |-> b.inFlight \ {scopeKey(m)}]
    PROVE  BusStep(b, c)
<1>1. b \in Bus
  BY DEF BusInv
<1>2. [b.row EXCEPT ![m] = new] \in [Message -> Row] /\ b.inFlight \ {scopeKey(m)} \in SUBSET Scope
  BY <1>1, BusFields
<1>3. /\ c \in Bus /\ c.row = [b.row EXCEPT ![m] = new]
      /\ c.inFlight = b.inFlight \ {scopeKey(m)}
  BY <1>2, BusFrom
<1>4. c.row[m] = new /\ \A n \in Message \ {m} : c.row[n] = b.row[n]
  BY <1>1, <1>3, BusFields
<1>5. AttemptsLeft(c)
  BY <1>4 DEF BusInv, AttemptsLeft, StatusOf
<1>6. ScopesHeld(c)
  BY <1>3, <1>4 DEF BusInv, ScopesHeld, StatusOf
<1>7. Keeps(b, c)
  BY <1>4 DEF Keeps, StatusOf
<1> QED
  BY <1>3, <1>5, <1>6, <1>7 DEF BusStep, BusInv

LEMMA BusStands == ASSUME NEW b, BusInv(b) PROVE BusStep(b, b)
  BY DEF BusStep, Keeps

LEMMA completeStep ==
    ASSUME NEW b, BusInv(b), NEW m \in Message
    PROVE  BusStep(b, complete(b, m))
<1>1. CASE StatusOf(b, m) \in Delivered
  <2> DEFINE new == ClosedRow(b.row[m], "completed")
  <2>1. new \in Row /\ new.status = "completed"
    BY BusFields, ClosedRowType DEF BusInv, TERMINAL_STATUSES
  <2>2. complete(b, m) = [row |-> [b.row EXCEPT ![m] = new],
                          inFlight |-> b.inFlight \ {scopeKey(m)}]
    BY <1>1 DEF complete
  <2> HIDE DEF new
  <2>3. StatusOf(b, m) \notin TERMINAL_STATUSES
    BY <1>1 DEF Delivered, TERMINAL_STATUSES
  <2> QED
    BY <2>1, <2>2, <2>3, OneClosed
<1>2. CASE StatusOf(b, m) \notin Delivered
  BY <1>2, BusStands DEF complete
<1> QED
  BY <1>1, <1>2

LEMMA failStep ==
    ASSUME NEW b, BusInv(b), NEW m \in Message, NEW retryable \in BOOLEAN
    PROVE  BusStep(b, fail(b, m, retryable))
<1> DEFINE new == FailedRow(b.row[m], retryable)
<1>1. b.row[m] \in Row
  BY BusFields DEF BusInv
<1>2. /\ new \in Row /\ (StatusOf(b, m) \in TERMINAL_STATUSES => new = b.row[m])
      /\ new.status = "pending" => new.attempts < MaxAttempts
  BY <1>1, FailedRowIs DEF StatusOf, BusInv, AttemptsLeft
<1>3. fail(b, m, retryable) = [row |-> [b.row EXCEPT ![m] = new],
                               inFlight |-> b.inFlight \ {scopeKey(m)}]
  BY DEF fail
<1> HIDE DEF new
<1> QED
  BY <1>2, <1>3, OneClosed

\* Closing the messages of a set: likewise.
LEMMA ManyClosed ==
    ASSUME NEW b, BusInv(b), NEW S \in SUBSET Message, NEW G, NEW new \in [S -> Row],
           \A m \in S : /\ StatusOf(b, m) \notin TERMINAL_STATUSES
                        /\ new[m].status = "pending" => new[m].attempts < MaxAttempts
                        /\ scopeKey(m) \in G,
           NEW c, c = [row |-> [m \in Message |-> IF m \in S THEN new[m] ELSE b.row[m]],
                       inFlight |-> b.inFlight \ G]
    PROVE  BusStep(b, c)
<1> DEFINE R == [m \in Message |-> IF m \in S THEN new[m] ELSE b.row[m]]
<1>1. b \in Bus
  BY DEF BusInv
<1>2. R \in [Message -> Row] /\ b.inFlight \ G \in SUBSET Scope
  BY <1>1, BusFields
<1>3. c \in Bus /\ c.row = R /\ c.inFlight = b.inFlight \ G
  BY <1>2, BusFrom
<1>4. \A m \in Message : c.row[m] = IF m \in S THEN new[m] ELSE b.row[m]
  BY <1>3
<1>5. AttemptsLeft(c)
  BY <1>4 DEF BusInv, AttemptsLeft, StatusOf
<1>6. ScopesHeld(c)
  <2> SUFFICES ASSUME NEW s \in b.inFlight, s \notin G
               PROVE  \E m \in Message : scopeKey(m) = s /\ StatusOf(c, m) \in Delivered
    BY <1>3 DEF ScopesHeld
  <2>1. PICK m \in Message : scopeKey(m) = s /\ StatusOf(b, m) \in Delivered
    BY DEF BusInv, ScopesHeld
  <2>2. m \notin S
    BY <2>1
  <2> QED
    BY <1>4, <2>1, <2>2 DEF StatusOf
<1>7. Keeps(b, c)
  BY <1>4 DEF Keeps, StatusOf
<1> QED
  BY <1>3, <1>5, <1>6, <1>7 DEF BusStep, BusInv

LEMMA sweepStep == ASSUME NEW b, BusInv(b) PROVE BusStep(b, sweep(b))
<1> DEFINE S == expiredLeases(b)
           G == {scopeKey(m) : m \in S}
           new == [m \in S |-> FailedRow(b.row[m], TRUE)]
<1>1. S \in SUBSET Message
  BY DEF expiredLeases
<1>2. ASSUME NEW m \in S
      PROVE  /\ new[m] \in Row
             /\ StatusOf(b, m) \notin TERMINAL_STATUSES
             /\ new[m].status = "pending" => new[m].attempts < MaxAttempts
             /\ scopeKey(m) \in G
  <2>1. m \in Message /\ StatusOf(b, m) \in Delivered
    BY DEF expiredLeases
  <2>2. b.row[m] \in Row
    BY <2>1, BusFields DEF BusInv
  <2> QED
    BY <2>1, <2>2, FailedRowIs DEF Delivered, TERMINAL_STATUSES, StatusOf, BusInv, AttemptsLeft
<1>3. sweep(b) = [row |-> [m \in Message |-> IF m \in S THEN new[m] ELSE b.row[m]],
                  inFlight |-> b.inFlight \ G]
  BY DEF sweep
<1>4. new \in [S -> Row]
  BY <1>2
<1> HIDE DEF S, G, new
<1> QED
  BY <1>1, <1>2, <1>3, <1>4, ManyClosed

LEMMA cancelRunsStep ==
    ASSUME NEW b, BusInv(b), NEW D \in SUBSET Run
    PROVE  BusStep(b, cancelRuns(b, D))
<1> DEFINE S == {m \in Message : m.run \in D /\ Unfinished(b, m)}
           G == {s \in b.inFlight : s[1] \in D} \cup {scopeKey(m) : m \in S}
           new == [m \in S |-> ClosedRow(b.row[m], "cancelled")]
<1>1. ASSUME NEW m \in S
      PROVE  /\ new[m] \in Row
             /\ StatusOf(b, m) \notin TERMINAL_STATUSES
             /\ new[m].status = "pending" => new[m].attempts < MaxAttempts
             /\ scopeKey(m) \in G
  <2>1. new[m] \in Row /\ new[m].status = "cancelled"
    BY BusFields, ClosedRowType DEF BusInv, TERMINAL_STATUSES
  <2> QED
    BY <2>1 DEF Unfinished, Delivered, TERMINAL_STATUSES
<1>2. \A m \in S : scopeKey(m)[1] \in D
  BY MessageType
<1>3. {s \in b.inFlight : s[1] \notin D} = b.inFlight \ G
  BY <1>2
<1>4. cancelRuns(b, D) = [row |-> [m \in Message |-> IF m \in S THEN new[m] ELSE b.row[m]],
                          inFlight |-> b.inFlight \ G]
  BY <1>3 DEF cancelRuns
<1>5. S \in SUBSET Message /\ new \in [S -> Row]
  BY <1>1
<1> HIDE DEF S, G, new
<1> QED
  BY <1>1, <1>4, <1>5, ManyClosed

LEMMA ForgottenStep == ASSUME NEW b, BusInv(b) PROVE BusStep(b, Forgotten(b))
<1>1. /\ Forgotten(b) \in Bus /\ Forgotten(b).row = b.row /\ Forgotten(b).inFlight = {}
  BY DEF Forgotten, BusInv, Bus
<1> QED
  BY <1>1 DEF BusStep, BusInv, Keeps, AttemptsLeft, ScopesHeld, StatusOf

LEMMA TimeStep ==
    ASSUME NEW b, BusInv(b), NEW m \in Message, StatusOf(b, m) \notin TERMINAL_STATUSES,
           NEW c, c = LeasePassed(b, m) \/ c = BackoffPassed(b, m)
    PROVE  BusStep(b, c)
<1> DEFINE new == c.row[m]
<1>1. /\ b \in Bus /\ b.row \in [Message -> Row] /\ b.row[m] \in Row
  BY BusFields DEF BusInv
<1>2. /\ c.inFlight = b.inFlight
      /\ \/ c.row = [b.row EXCEPT ![m] = [@ EXCEPT !.lapsed = TRUE]]
         \/ c.row = [b.row EXCEPT ![m] = [@ EXCEPT !.due = TRUE]]
      /\ c = [row |-> c.row, inFlight |-> b.inFlight]
  BY <1>1 DEF LeasePassed, BackoffPassed, Bus
<1>3. /\ c.row \in [Message -> Row]
      /\ c.row[m].status = b.row[m].status /\ c.row[m].attempts = b.row[m].attempts
      /\ \A n \in Message \ {m} : c.row[n] = b.row[n]
  BY <1>1, <1>2 DEF Row
<1>4. c \in Bus
  BY <1>1, <1>2, <1>3, BusFields, BusFrom
<1>5. AttemptsLeft(c) /\ ScopesHeld(c) /\ Keeps(b, c)
  BY <1>2, <1>3 DEF BusInv, AttemptsLeft, ScopesHeld, Keeps, StatusOf
<1> QED
  BY <1>4, <1>5 DEF BusStep, BusInv

LEMMA HandedOverStep ==
    ASSUME NEW b, BusInv(b), NEW M \in SUBSET Message
    PROVE  BusStep(b, HandedOver(b, M))
<1> DEFINE c == publish(b, M)
           d == claim(c, {m.to : m \in M})
<1>1. BusStep(b, c)
  BY publishStep
<1>2. {m.to : m \in M} \in SUBSET Worker
  BY MessageType
<1> HIDE DEF c
<1>3. BusStep(c, d)
  BY <1>1, <1>2, claimStep DEF BusStep
<1> HIDE DEF d
<1>4. BusStep(d, acknowledge(d, M))
  BY <1>3, acknowledgeStep DEF BusStep
<1>5. HandedOver(b, M) = acknowledge(d, M)
  BY DEF HandedOver, c, d
<1> QED
  BY <1>1, <1>3, <1>4, <1>5, BusStepTwice

-----------------------------------------------------------------------------
(* The invariant, and what a step may do to the runs                       *)

\* A run that does not exist yet has no loop and was not cancelled; a worker
\* is at work only while its loop waits for workers; a loop past its
\* preparation is in an iteration.
AbsentIsFresh ==
    \A r \in Run : status[r] = "ABSENT" => ~Active(r) /\ ~cancelRequested[r]

WorkWhileWaiting ==
    \A r \in Run : stage[r] \notin Waiting => \A w \in Worker : work[r][w] = NoMessage

Uncounted == {"idle", "preparing", "reporting"}
Counted == \A r \in Run : stage[r] \notin Uncounted => iteration[r] # 0

RunsType ==
    /\ status \in [Run -> RunStatus]
    /\ cancelRequested \in [Run -> BOOLEAN]
    /\ iteration \in [Run -> 0 .. MaxIterations]
    /\ stage \in [Run -> Stage]
    /\ work \in [Run -> [Worker -> Message \cup {NoMessage}]]

RunsInv == RunsType /\ BusInv(bus) /\ RunningIsDriven /\ AbsentIsFresh
           /\ WorkWhileWaiting /\ Counted

AskedType ==
    /\ question \in [Run -> [Question -> {"none", "pending", "approved", "denied"}]]
    /\ modelAsked \in [Run -> SUBSET Worker]
    /\ app \in {"up", "quitting", "down"}

Inv == RunsInv /\ AskedType

\* The action properties, for one run.
Lawful(r) ==
    /\ status[r] \in TERMINAL => status'[r] \in {status[r], "CANCELLED"}
    /\ stage'[r] = "preparing" /\ stage[r] # "preparing" =>
          ~Active(r) /\ ~cancelRequested[r] /\ status[r] \in {"ABSENT", "NEEDS_HUMAN"}
    /\ cancelRequested[r] => \A w \in Worker : work'[r][w] \in {work[r][w], NoMessage}
    /\ iteration'[r] >= iteration[r]

StepOK == RunsInv' /\ Keeps(bus, bus') /\ \A r \in Run : Lawful(r)

\* A step that changes nothing but r and the bus, and r as it should.
Move(r) ==
    /\ RunsType' /\ BusStep(bus, bus') /\ UNCHANGED <<cancelRequested, app>>
    /\ \A s \in Run \ {r} : /\ status'[s] = status[s] /\ iteration'[s] = iteration[s]
                            /\ stage'[s] = stage[s] /\ work'[s] = work[s]
    /\ Lawful(r)
    /\ status'[r] # "ABSENT"
    /\ app # "down" /\ status'[r] = "RUNNING" => stage'[r] # "idle"
    /\ stage'[r] \notin Waiting => \A w \in Worker : work'[r][w] = NoMessage
    /\ stage'[r] \notin Uncounted => iteration'[r] # 0

LEMMA MoveIsOK == ASSUME RunsInv, NEW r \in Run, Move(r) PROVE StepOK
<1>1. RunsType' /\ BusInv(bus') /\ Keeps(bus, bus')
  BY DEF Move, BusStep
<1>2. RunningIsDriven'
  BY DEF Move, RunsInv, RunningIsDriven, Active
<1>3. AbsentIsFresh'
  BY DEF Move, RunsInv, AbsentIsFresh, Active
<1>4. WorkWhileWaiting' /\ Counted'
  BY DEF Move, RunsInv, WorkWhileWaiting, Counted
<1>5. ASSUME NEW s \in Run PROVE Lawful(s)
  <2>1. iteration[s] >= iteration[s]
    BY BusAssumption DEF RunsInv, RunsType
  <2> QED
    BY <2>1 DEF Move, Lawful
<1> QED
  BY <1>1, <1>2, <1>3, <1>4, <1>5 DEF StepOK, RunsInv

\* What setStatus makes of a status.
LEMMA setStatusIs ==
    ASSUME NEW old \in RunStatus, NEW new \in RunStatus
    PROVE  /\ setStatus(old, new) \in {old, new}
           /\ old \in TERMINAL => setStatus(old, new) \in {old, "CANCELLED"}
           /\ old \notin TERMINAL => setStatus(old, new) = new
           /\ setStatus(old, "CANCELLED") = "CANCELLED"
  BY DEF setStatus

-----------------------------------------------------------------------------
(* The ways a loop goes on                                                 *)

LEMMA AwaitsMove ==
    ASSUME RunsInv, NEW r \in Run, Active(r), UNCHANGED app,
           stage[r] \notin Waiting, NEW s \in Stage \ ({"idle", "preparing"} \cup Waiting),
           s \in Uncounted \/ iteration[r] # 0, Awaits(r, s)
    PROVE  Move(r)
<1>1. /\ UNCHANGED <<status, cancelRequested, iteration, bus, work>>
      /\ stage' = [stage EXCEPT ![r] = s]
  BY DEF Awaits, rows
<1>2. RunsType' /\ BusStep(bus, bus')
  BY <1>1, BusStands DEF RunsInv, RunsType
<1>3. iteration'[r] >= iteration[r]
  BY <1>1, BusAssumption DEF RunsInv, RunsType
<1>4. status[r] # "ABSENT" /\ \A w \in Worker : work[r][w] = NoMessage
  BY DEF RunsInv, AbsentIsFresh, WorkWhileWaiting
<1> QED
  BY <1>1, <1>2, <1>3, <1>4 DEF Move, Lawful, RunsInv, RunsType

\* The loop returns, having written st.
LEMMA ReturnsMove ==
    ASSUME RunsInv, NEW r \in Run, Active(r), UNCHANGED app,
           NEW b, BusStep(bus, b), Returns(r, b),
           NEW st \in RunStatus \ {"ABSENT", "RUNNING"},
           status[r] \in TERMINAL => st \in {status[r], "CANCELLED"},
           status' = [status EXCEPT ![r] = st],
           iteration' \in [Run -> 0 .. MaxIterations],
           \A s \in Run : iteration'[s] >= iteration[s],
           \A s \in Run \ {r} : iteration'[s] = iteration[s]
    PROVE  Move(r)
<1>1. /\ stage' = [stage EXCEPT ![r] = "idle"]
      /\ work' = [work EXCEPT ![r] = [w \in Worker |-> NoMessage]]
      /\ bus' = cancelRuns(b, {r}) /\ UNCHANGED cancelRequested
  BY DEF Returns
<1>2. BusStep(bus, bus')
  BY <1>1, cancelRunsStep, BusStepTwice DEF BusStep
<1>3. RunsType'
  BY <1>1 DEF RunsInv, RunsType, Stage
<1> QED
  BY <1>1, <1>2, <1>3 DEF Move, Lawful, RunsInv, RunsType, Uncounted

Outcomes == RunStatus \ {"ABSENT", "RUNNING"}

LEMMA StopsMove ==
    ASSUME RunsInv, NEW r \in Run, Active(r), UNCHANGED app,
           NEW O \in SUBSET Outcomes, Stops(r, O)
    PROVE  Move(r)
<1>1. PICK s \in O : status' = [status EXCEPT ![r] = setStatus(@, s)]
  BY DEF Stops
<1> DEFINE st == setStatus(status[r], s)
<1>2. status[r] \in RunStatus /\ s \in Outcomes /\ s \in RunStatus
  BY DEF RunsInv, RunsType, Outcomes
<1>3. /\ st \in RunStatus \ {"ABSENT", "RUNNING"}
      /\ status[r] \in TERMINAL => st \in {status[r], "CANCELLED"}
  BY <1>2, setStatusIs DEF Outcomes, TERMINAL
<1>4. status' = [status EXCEPT ![r] = st]
  BY <1>1
<1>5. Returns(r, bus) /\ iteration' = iteration
  BY DEF Stops
<1>6. /\ iteration' \in [Run -> 0 .. MaxIterations]
      /\ \A q \in Run : iteration'[q] >= iteration[q] /\ iteration'[q] = iteration[q]
  BY <1>5, BusAssumption DEF RunsInv, RunsType
<1>7. BusStep(bus, bus)
  BY BusStands DEF RunsInv
<1> HIDE DEF st
<1> QED
  BY <1>3, <1>4, <1>5, <1>6, <1>7, ReturnsMove

LEMMA BeginsMove ==
    ASSUME RunsInv, NEW r \in Run, Active(r), stage[r] \notin Waiting, UNCHANGED app,
           NEW n \in Nat \ {0}, n >= iteration[r], Begins(r, n)
    PROVE  Move(r)
<1>1. CASE Awaits(r, "reporting")
  BY <1>1, AwaitsMove DEF Stage, Waiting, Uncounted
<1>2. CASE Stops(r, {"CANCELLED"})
  BY <1>2, StopsMove DEF Outcomes, RunStatus, TERMINAL
<1>3. CASE n <= MaxIterations /\ iteration' = [iteration EXCEPT ![r] = n]
  <2>1. /\ iteration' \in [Run -> 0 .. MaxIterations]
        /\ \A s \in Run : iteration'[s] >= iteration[s]
        /\ \A s \in Run \ {r} : iteration'[s] = iteration[s]
    BY <1>3, BusAssumption DEF RunsInv, RunsType
  <2>2. CASE stage' = [stage EXCEPT ![r] = "deciding"]
             /\ UNCHANGED <<status, cancelRequested, bus, work>>
    <3>1. RunsType'
      BY <2>1, <2>2 DEF RunsInv, RunsType, Stage
    <3>2. /\ status[r] # "ABSENT" /\ BusStep(bus, bus')
          /\ \A w \in Worker : work[r][w] = NoMessage
      BY <2>2, BusStands DEF RunsInv, AbsentIsFresh, WorkWhileWaiting
    <3>3. iteration'[r] # 0
      BY <1>3 DEF RunsInv, RunsType
    <3> QED
      BY <2>1, <2>2, <3>1, <3>2, <3>3 DEF Move, Lawful, RunsInv, RunsType
  <2>3. CASE /\ status' = [status EXCEPT ![r] = setStatus(@, "NEEDS_HUMAN")]
             /\ Returns(r, bus)
    <3> DEFINE st == setStatus(status[r], "NEEDS_HUMAN")
    <3>1. /\ st \in RunStatus \ {"ABSENT", "RUNNING"}
          /\ status[r] \in TERMINAL => st \in {status[r], "CANCELLED"}
      BY DEF setStatus, RunsInv, RunsType, RunStatus, TERMINAL
    <3>2. status' = [status EXCEPT ![r] = st]
      BY <2>3
    <3>3. BusStep(bus, bus)
      BY BusStands DEF RunsInv
    <3> HIDE DEF st
    <3> QED
      BY <2>1, <2>3, <3>1, <3>2, <3>3, ReturnsMove
  <2> QED
    BY <1>3, <2>2, <2>3, AwaitsMove, <1>1, <1>2 DEF Begins
<1> QED
  BY <1>1, <1>2, <1>3 DEF Begins

LEMMA GoesRoundMove ==
    ASSUME RunsInv, NEW r \in Run, Active(r), stage[r] \notin Waiting, UNCHANGED app,
           GoesRound(r)
    PROVE  Move(r)
<1>1. iteration[r] + 1 \in Nat \ {0} /\ iteration[r] + 1 >= iteration[r]
  BY BusAssumption DEF RunsInv, RunsType
<1> QED
  BY <1>1, BeginsMove DEF GoesRound

\* The end of one task, whatever its worker made of the bus and the run.
LEMMA OverMove ==
    ASSUME RunsInv, NEW r \in Run, NEW w \in Worker, work[r][w] # NoMessage,
           UNCHANGED app, NEW b, BusStep(bus, b), NEW s \in RunStatus \ {"ABSENT"},
           status[r] \in TERMINAL => s \in {status[r], "CANCELLED"},
           Over(r, w, b, s)
    PROVE  Move(r)
<1>1. stage[r] \in Waiting /\ Active(r) /\ iteration[r] # 0 /\ status[r] # "ABSENT"
  BY DEF RunsInv, WorkWhileWaiting, Counted, AbsentIsFresh, Active, Waiting, Uncounted
<1>2. UNCHANGED iteration => /\ iteration' \in [Run -> 0 .. MaxIterations]
                             /\ \A q \in Run : iteration'[q] >= iteration[q]
                             /\ \A q \in Run \ {r} : iteration'[q] = iteration[q]
  BY BusAssumption DEF RunsInv, RunsType
<1>3. ASSUME UNCHANGED <<cancelRequested, iteration>>,
             status' = [status EXCEPT ![r] = s],
             work' = [work EXCEPT ![r][w] = NoMessage],
             bus' = b,
             \/ stage' = stage
             \/ stage' = [stage EXCEPT ![r] = "applying"] /\ AtWork(r) = {w}
      PROVE  Move(r)
  <2>1. RunsType'
    BY <1>2, <1>3 DEF RunsInv, RunsType, Stage
  <2>2. stage'[r] # "idle" /\ (stage'[r] = "preparing" => stage[r] = "preparing")
    BY <1>1, <1>3 DEF Active, RunsInv, RunsType
  <2>4. stage'[r] \notin Waiting => \A v \in Worker : work'[r][v] = NoMessage
    BY <1>1, <1>3 DEF RunsInv, RunsType, AtWork
  <2>3. \A v \in Worker : work'[r][v] \in {work[r][v], NoMessage}
    BY <1>3 DEF RunsInv, RunsType
  <2> QED
    BY <1>1, <1>2, <1>3, <2>1, <2>2, <2>3, <2>4 DEF Move, Lawful, RunsInv, RunsType
<1>4. ASSUME NEW st \in RunStatus \ {"ABSENT", "RUNNING"},
             status[r] \in TERMINAL => st \in {status[r], "CANCELLED"},
             status' = [status EXCEPT ![r] = st], Returns(r, b), UNCHANGED iteration
      PROVE  Move(r)
  BY <1>1, <1>2, <1>4, ReturnsMove
<1>5. CASE AtWork(r) # {w}
  BY <1>3, <1>5 DEF Over
<1>6. CASE AtWork(r) = {w} /\ stage[r] = "batch" /\ stopping(r)
  <2>1. setStatus(s, "CANCELLED") = "CANCELLED"
    BY DEF setStatus
  <2>2. status' = [status EXCEPT ![r] = "CANCELLED"] /\ Returns(r, b) /\ UNCHANGED iteration
    BY <1>6, <2>1 DEF Over
  <2> QED
    BY <1>4, <2>2 DEF RunStatus, TERMINAL
<1>7. CASE AtWork(r) = {w} /\ ~(stage[r] = "batch" /\ stopping(r)) /\ s \in {"NEEDS_HUMAN", "FAILED"}
  BY <1>4, <1>7 DEF Over
<1>8. CASE AtWork(r) = {w} /\ ~(stage[r] = "batch" /\ stopping(r)) /\ s \notin {"NEEDS_HUMAN", "FAILED"}
  BY <1>3, <1>8 DEF Over
<1> QED
  BY <1>5, <1>6, <1>7, <1>8

LEMMA LaunchMove ==
    ASSUME RunsInv, NEW r \in Run, Launch(r), UNCHANGED <<cancelRequested, iteration, app, work>>,
           ~Active(r), ~cancelRequested[r], status[r] \in {"ABSENT", "NEEDS_HUMAN"}
    PROVE  Move(r)
<1>1. setStatus(status[r], "RUNNING") = "RUNNING"
  BY DEF setStatus, TERMINAL
<1>2. /\ status' = [status EXCEPT ![r] = "RUNNING"]
      /\ stage' = [stage EXCEPT ![r] = "preparing"]
      /\ bus' = sweep(bus)
  BY <1>1 DEF Launch
<1>3. RunsType'
  BY <1>2 DEF RunsInv, RunsType, RunStatus, Stage
<1>4. BusStep(bus, bus')
  BY <1>2, sweepStep DEF RunsInv
<1>5. iteration'[r] >= iteration[r] /\ \A w \in Worker : work[r][w] = NoMessage
  BY BusAssumption DEF RunsInv, RunsType, WorkWhileWaiting, Active, Waiting
<1> QED
  BY <1>2, <1>3, <1>4, <1>5 DEF Move, Lawful, TERMINAL, RunsInv, RunsType, Uncounted

-----------------------------------------------------------------------------
(* The loop                                                                *)

\* Where a loop awaits something other than workers.
LEMMA AtIsActive ==
    ASSUME RunsInv, NEW r \in Run, NEW s \in Stage \ ({"idle"} \cup Waiting), At(r, s)
    PROVE  /\ Active(r) /\ stage[r] \notin Waiting
           /\ s \notin Uncounted => iteration[r] # 0
  BY DEF At, Active, RunsInv, Counted

LEMMA StopsWith ==
    ASSUME RunsInv, NEW r \in Run, Active(r), UNCHANGED app,
           NEW O \in SUBSET {"DONE", "PARTIAL", "FAILED", "CANCELLED", "BLOCKED", "NEEDS_HUMAN"},
           Stops(r, O)
    PROVE  Move(r)
<1>1. O \in SUBSET Outcomes
  BY DEF Outcomes, RunStatus, TERMINAL
<1> QED
  BY <1>1, StopsMove

LEMMA PreparedMove == ASSUME RunsInv, NEW r \in Run, Prepared(r) PROVE Move(r)
<1>1. Active(r) /\ stage[r] \notin Waiting /\ UNCHANGED app
  BY AtIsActive DEF Prepared, Stage, Waiting
<1>2. CASE Stops(r, {"FAILED", "NEEDS_HUMAN"})
  BY <1>1, <1>2, StopsWith
<1>3. CASE Begins(r, IF iteration[r] = 0 THEN 1 ELSE iteration[r])
  <2> DEFINE n == IF iteration[r] = 0 THEN 1 ELSE iteration[r]
  <2>1. n \in Nat \ {0} /\ n >= iteration[r]
    BY BusAssumption DEF RunsInv, RunsType
  <2>2. Begins(r, n)
    BY <1>3
  <2> HIDE DEF n
  <2> QED
    BY <1>1, <2>1, <2>2, BeginsMove
<1> QED
  BY <1>2, <1>3 DEF Prepared

LEMMA DecidedMove == ASSUME RunsInv, NEW r \in Run, Decided(r) PROVE Move(r)
<1>1. Active(r) /\ stage[r] \notin Waiting /\ iteration[r] # 0 /\ UNCHANGED app
  BY AtIsActive DEF Decided, Stage, Waiting, Uncounted
<1>2. CASE Stops(r, {"CANCELLED"})
  BY <1>1, <1>2, StopsWith
<1>3. CASE Stops(r, {"FAILED", "NEEDS_HUMAN", "BLOCKED", "DONE"})
  BY <1>1, <1>3, StopsWith
<1>4. CASE Awaits(r, "measuring")
  BY <1>1, <1>4, AwaitsMove DEF Stage, Waiting
<1>5. CASE GoesRound(r)
  BY <1>1, <1>5, GoesRoundMove
<1> QED
  BY <1>2, <1>3, <1>4, <1>5 DEF Decided

LEMMA DelegatesMove ==
    ASSUME RunsInv, NEW r \in Run, Active(r), stage[r] \notin Waiting, iteration[r] # 0,
           UNCHANGED app, Delegates(r)
    PROVE  Move(r)
<1>1. CASE Stops(r, {"CANCELLED"})
  BY <1>1, StopsWith
<1>2. CASE Awaits(r, "applying")
  BY <1>2, AwaitsMove DEF Stage, Waiting
<1>3. ASSUME NEW W \in SUBSET Worker, NEW mode \in Waiting, NEW blocked \in BOOLEAN,
             ~stopping(r),
             status' = IF blocked THEN [status EXCEPT ![r] = setStatus(@, "NEEDS_HUMAN")]
                       ELSE status,
             stage' = [stage EXCEPT ![r] = mode],
             work' = [work EXCEPT ![r] = [w \in Worker |->
                        IF w \in W THEN Delegation(r, w) ELSE NoMessage]],
             bus' = HandedOver(bus, {Delegation(r, w) : w \in W}),
             UNCHANGED <<cancelRequested, iteration>>
      PROVE  Move(r)
  <2>1. \A w \in Worker : Delegation(r, w) \in Message
    BY BusAssumption DEF Delegation, Message, RunsInv, RunsType
  <2>2. BusStep(bus, bus')
    BY <1>3, <2>1, HandedOverStep DEF RunsInv
  <2>3. /\ mode \in Stage \ {"idle", "preparing"}
        /\ status[r] \in RunStatus \ {"ABSENT"}
    BY DEF Stage, Waiting, RunsInv, RunsType, AbsentIsFresh
  <2>4. /\ setStatus(status[r], "NEEDS_HUMAN") \in RunStatus \ {"ABSENT"}
        /\ status[r] \in TERMINAL => setStatus(status[r], "NEEDS_HUMAN") = status[r]
    BY <2>3 DEF setStatus, RunStatus
  <2>5. RunsType'
    BY <1>3, <2>1, <2>3, <2>4 DEF RunsInv, RunsType
  <2>6. iteration'[r] >= iteration[r]
    BY <1>3, BusAssumption DEF RunsInv, RunsType
  <2> QED
    BY <1>3, <2>2, <2>3, <2>4, <2>5, <2>6 DEF Move, Lawful, stopping, RunsInv, RunsType, Uncounted
<1> QED
  BY <1>1, <1>2, <1>3 DEF Delegates

LEMMA MeasuredMove == ASSUME RunsInv, NEW r \in Run, Measured(r) PROVE Move(r)
<1>1. Active(r) /\ stage[r] \notin Waiting /\ iteration[r] # 0 /\ UNCHANGED app
  BY AtIsActive DEF Measured, Stage, Waiting, Uncounted
<1>2. CASE Stops(r, {"NEEDS_HUMAN", "BLOCKED", "FAILED"})
  BY <1>1, <1>2, StopsWith
<1>3. CASE Delegates(r)
  BY <1>1, <1>3, DelegatesMove
<1>4. CASE Awaits(r, "gating")
  BY <1>1, <1>4, AwaitsMove DEF Stage, Waiting
<1>5. CASE GoesRound(r)
  BY <1>1, <1>5, GoesRoundMove
<1> QED
  BY <1>2, <1>3, <1>4, <1>5 DEF Measured

LEMMA AppliedMove == ASSUME RunsInv, NEW r \in Run, Applied(r) PROVE Move(r)
<1>1. Active(r) /\ stage[r] \notin Waiting /\ iteration[r] # 0 /\ UNCHANGED app
  BY AtIsActive DEF Applied, Stage, Waiting, Uncounted
<1>2. CASE Stops(r, {"NEEDS_HUMAN"})
  BY <1>1, <1>2, StopsWith
<1>3. CASE Stops(r, {"CANCELLED"})
  BY <1>1, <1>3, StopsWith
<1>4. CASE Awaits(r, "gating")
  BY <1>1, <1>4, AwaitsMove DEF Stage, Waiting
<1>5. CASE GoesRound(r)
  BY <1>1, <1>5, GoesRoundMove
<1> QED
  BY <1>2, <1>3, <1>4, <1>5 DEF Applied

LEMMA GatedMove == ASSUME RunsInv, NEW r \in Run, Gated(r) PROVE Move(r)
<1>1. Active(r) /\ stage[r] \notin Waiting /\ iteration[r] # 0 /\ UNCHANGED app
  BY AtIsActive DEF Gated, Stage, Waiting, Uncounted
<1>2. ASSUME NEW O \in {{"CANCELLED"}, {"DONE", "FAILED"}, {"NEEDS_HUMAN", "FAILED"}}, Stops(r, O)
      PROVE  Move(r)
  BY <1>1, <1>2, StopsWith
<1>3. CASE Awaits(r, "publishing")
  BY <1>1, <1>3, AwaitsMove DEF Stage, Waiting
<1>4. CASE GoesRound(r)
  BY <1>1, <1>4, GoesRoundMove
<1> QED
  BY <1>2, <1>3, <1>4 DEF Gated

LEMMA EndsMove ==
    ASSUME RunsInv, NEW r \in Run, Published(r) \/ AtLimit(r) \/ Throws(r) PROVE Move(r)
<1>1. Active(r) /\ UNCHANGED app
  BY DEF Published, AtLimit, Throws, At, Active
<1>2. ASSUME NEW O \in {{"DONE"}, {"PARTIAL", "FAILED"}, {"FAILED"}}, Stops(r, O)
      PROVE  Move(r)
  BY <1>1, <1>2, StopsWith
<1> QED
  BY <1>2 DEF Published, AtLimit, Throws

-----------------------------------------------------------------------------
(* The workers                                                             *)

\* A worker at work: its run, its message.
LEMMA AtWorkFacts ==
    ASSUME RunsInv, NEW r \in Run, NEW w \in Worker, work[r][w] # NoMessage
    PROVE  /\ work[r][w] \in Message /\ stage[r] \in Waiting /\ Active(r)
           /\ status[r] \in RunStatus \ {"ABSENT"} /\ iteration[r] # 0
  BY DEF RunsInv, RunsType, WorkWhileWaiting, AbsentIsFresh, Counted, Active, Waiting, Uncounted

LEMMA ModelUnavailableMove ==
    ASSUME RunsInv, NEW r \in Run, NEW w \in Worker, work[r][w] # NoMessage, UNCHANGED app,
           ModelUnavailable(r, w)
    PROVE  Move(r)
<1> DEFINE m == work[r][w]
           failed == fail(bus, m, TRUE)
           again == [m EXCEPT !.attempt = @ + 1]
<1>1. /\ m \in Message /\ stage[r] \in Waiting /\ iteration[r] # 0
      /\ status[r] \in RunStatus \ {"ABSENT"}
  BY AtWorkFacts
<1>2. BusStep(bus, failed)
  BY <1>1, failStep DEF RunsInv
<1>3. ~stopping(r) /\ m.attempt < ModelRetries
  BY DEF ModelUnavailable
<1>4. again \in Message
  BY <1>1, <1>3, BusAssumption DEF Message
<1>5. CASE /\ bus' = HandedOver(failed, {again})
           /\ work' = [work EXCEPT ![r][w] = again]
           /\ UNCHANGED <<rows, stage>>
  <2> HIDE DEF failed, again
  <2>1. BusStep(bus, bus')
    BY <1>2, <1>4, <1>5, HandedOverStep, BusStepTwice DEF BusStep
  <2>2. RunsType' /\ UNCHANGED <<status, cancelRequested, iteration, stage>>
    BY <1>4, <1>5 DEF RunsInv, RunsType, rows
  <2>3. iteration'[r] >= iteration[r]
    BY <2>2, BusAssumption DEF RunsInv, RunsType
  <2>4. \A s \in Run \ {r} : work'[s] = work[s]
    BY <1>5 DEF RunsInv, RunsType
  <2> QED
    BY <1>1, <1>3, <2>1, <2>2, <2>3, <2>4
    DEF Move, Lawful, stopping, RunsInv, RunningIsDriven, Active, Waiting, Uncounted
<1>6. CASE Over(r, w, failed, setStatus(status[r], "NEEDS_HUMAN"))
  <2>1. /\ setStatus(status[r], "NEEDS_HUMAN") \in RunStatus \ {"ABSENT"}
        /\ status[r] \in TERMINAL => setStatus(status[r], "NEEDS_HUMAN") = status[r]
    BY <1>1 DEF setStatus, RunStatus
  <2> HIDE DEF failed
  <2> QED
    BY <1>2, <1>6, <2>1, OverMove
<1> QED
  BY <1>5, <1>6 DEF ModelUnavailable

LEMMA TaskStepMove ==
    ASSUME RunsInv, NEW r \in Run, NEW w \in Worker, TaskStep(r, w)
    PROVE  Move(r)
<1> DEFINE m == work[r][w]
<1>1. m # NoMessage /\ UNCHANGED app
  BY DEF TaskStep
<1>2. m \in Message /\ status[r] \in RunStatus \ {"ABSENT"} /\ BusInv(bus)
  BY <1>1, AtWorkFacts DEF RunsInv
<1> HIDE DEF m
<1>3. CASE Answered(r, w)
  <2>1. CASE Over(r, w, complete(bus, m), status[r])
    BY <1>1, <1>2, <2>1, completeStep, OverMove DEF m
  <2>2. ASSUME NEW retryable \in BOOLEAN, Over(r, w, fail(bus, m, retryable), status[r])
        PROVE  Move(r)
    BY <1>1, <1>2, <2>2, failStep, OverMove DEF m
  <2> QED
    BY <1>3, <2>1, <2>2 DEF Answered, m
<1>4. CASE Refused(r, w)
  <2>1. PICK s \in {"FAILED", "NEEDS_HUMAN"} :
                Over(r, w, fail(bus, m, FALSE), setStatus(status[r], s))
    BY <1>4 DEF Refused, m
  <2>2. /\ setStatus(status[r], s) \in RunStatus \ {"ABSENT"}
        /\ status[r] \in TERMINAL => setStatus(status[r], s) = status[r]
    BY <1>2 DEF setStatus, RunStatus, TERMINAL
  <2>3. BusStep(bus, fail(bus, m, FALSE))
    BY <1>2, failStep
  <2> QED
    BY <1>1, <2>1, <2>2, <2>3, OverMove DEF m
<1>5. CASE ModelUnavailable(r, w)
  BY <1>1, <1>5, ModelUnavailableMove DEF m
<1>6. CASE TaskThrows(r, w)
  BY <1>1, <1>2, <1>6, BusStands, OverMove DEF TaskThrows, m
<1> QED
  BY <1>3, <1>4, <1>5, <1>6 DEF TaskStep

LEMMA LoopStepMove == ASSUME RunsInv, NEW r \in Run, LoopStep(r) PROVE Move(r)
  BY PreparedMove, DecidedMove, MeasuredMove, AppliedMove, GatedMove, EndsMove, TaskStepMove
  DEF LoopStep

-----------------------------------------------------------------------------
(* The person, the process and time                                        *)

\* Steps that leave the loops and their workers alone.
LEMMA LoopsAlone ==
    ASSUME RunsInv, UNCHANGED <<iteration, stage, work>>, BusStep(bus, bus'),
           status' \in [Run -> RunStatus], cancelRequested' \in [Run -> BOOLEAN],
           \A r \in Run : /\ status[r] \in TERMINAL => status'[r] \in {status[r], "CANCELLED"}
                          /\ status[r] # "ABSENT" => status'[r] # "ABSENT"
                          /\ status[r] = "ABSENT" => ~cancelRequested'[r]
                          /\ app' # "down" /\ status'[r] = "RUNNING" => stage[r] # "idle"
    PROVE  StepOK
<1>1. RunsType' /\ BusInv(bus') /\ Keeps(bus, bus')
  BY DEF RunsInv, RunsType, BusStep
<1>2. RunningIsDriven' /\ AbsentIsFresh' /\ WorkWhileWaiting' /\ Counted'
  BY DEF RunsInv, RunningIsDriven, AbsentIsFresh, WorkWhileWaiting, Counted, Active
<1>3. ASSUME NEW r \in Run PROVE Lawful(r)
  <2>1. iteration'[r] >= iteration[r]
    BY BusAssumption DEF RunsInv, RunsType
  <2> QED
    BY <2>1 DEF Lawful
<1> QED
  BY <1>1, <1>2, <1>3 DEF StepOK, RunsInv

\* Nothing about the runs changes but, perhaps, the bus.
LEMMA RunsAlone ==
    ASSUME RunsInv, UNCHANGED <<rows, app, stage, work>>, BusStep(bus, bus')
    PROVE  StepOK
<1>1. \A r \in Run : /\ status[r] = "ABSENT" => ~cancelRequested[r]
                     /\ app # "down" /\ status[r] = "RUNNING" => stage[r] # "idle"
  BY DEF RunsInv, AbsentIsFresh, RunningIsDriven, Active
<1> QED
  BY <1>1, LoopsAlone DEF rows, RunsInv, RunsType

LEMMA BusInvNow == RunsInv => BusStep(bus, bus)
  BY BusStands DEF RunsInv

LEMMA PersonOK ==
    ASSUME Inv, NEW r \in Run,
           \/ Start(r) \/ Cancel(r) \/ CancelAgain(r)
           \/ \E q \in Question : AnswerQuestion(r, q)
           \/ \E w \in Worker : ConfirmModel(r, w)
    PROVE  StepOK
<1>1. RunsInv
  BY DEF Inv
<1>2. CASE Start(r)
  <2>1. ~Active(r) /\ ~cancelRequested[r] /\ status[r] = "ABSENT" /\ Launch(r)
    BY <1>1, <1>2 DEF Start, RunsInv, AbsentIsFresh
  <2> QED
    BY <1>1, <1>2, <2>1, LaunchMove, MoveIsOK DEF Start
<1>3. CASE Cancel(r) \/ CancelAgain(r)
  <2>1. /\ UNCHANGED <<iteration, stage, work, app>>
        /\ cancelRequested' \in [Run -> BOOLEAN]
        /\ \A s \in Run : status[s] = "ABSENT" => ~cancelRequested'[s]
    BY <1>1, <1>3 DEF Cancel, CancelAgain, RunsInv, RunsType, AbsentIsFresh
  <2>2. BusStep(bus, bus')
    BY <1>1, <1>3, cancelRunsStep, BusInvNow DEF Cancel, CancelAgain, RunsInv
  <2>3. setStatus(status[r], "CANCELLED") = "CANCELLED"
    BY DEF setStatus
  <2>4. \/ status' = status
        \/ status' = [status EXCEPT ![r] = "CANCELLED"] /\ status[r] # "ABSENT"
    BY <1>3, <2>3 DEF Cancel, CancelAgain
  <2>5. /\ status' \in [Run -> RunStatus]
        /\ \A s \in Run : \/ status'[s] = status[s]
                          \/ status'[s] = "CANCELLED" /\ status[s] # "ABSENT"
    BY <1>1, <2>4 DEF RunsInv, RunsType, RunStatus, TERMINAL
  <2>6. \A s \in Run : /\ status[s] \in TERMINAL => status'[s] \in {status[s], "CANCELLED"}
                       /\ status[s] # "ABSENT" => status'[s] # "ABSENT"
                       /\ app' # "down" /\ status'[s] = "RUNNING" => stage[s] # "idle"
    BY <1>1, <2>1, <2>5 DEF RunsInv, RunningIsDriven, Active
  <2> QED
    BY <1>1, <2>1, <2>2, <2>5, <2>6, LoopsAlone
<1>4. ASSUME NEW q \in Question, AnswerQuestion(r, q) PROVE StepOK
  <2>1. CASE decideResumption(r, question'[r])
    BY <1>1, <1>4, <2>1, LaunchMove, MoveIsOK DEF AnswerQuestion, decideResumption
  <2>2. CASE ~decideResumption(r, question'[r])
    <3>1. UNCHANGED <<rows, app, stage, work, bus>>
      BY <1>4, <2>2 DEF AnswerQuestion, rows
    <3> QED
      BY <1>1, <3>1, BusInvNow, RunsAlone
  <2> QED
    BY <2>1, <2>2
<1>5. ASSUME NEW w \in Worker, ConfirmModel(r, w) PROVE StepOK
  <2>1. CASE status[r] = "NEEDS_HUMAN" /\ ~cancelRequested[r] /\ ~Active(r)
    BY <1>1, <1>5, <2>1, LaunchMove, MoveIsOK DEF ConfirmModel
  <2>2. CASE ~(status[r] = "NEEDS_HUMAN" /\ ~cancelRequested[r] /\ ~Active(r))
    <3>1. UNCHANGED <<rows, app, stage, work, bus>>
      BY <1>5, <2>2 DEF ConfirmModel, rows
    <3> QED
      BY <1>1, <3>1, BusInvNow, RunsAlone
  <2> QED
    BY <2>1, <2>2
<1> QED
  BY <1>2, <1>3, <1>4, <1>5

LEMMA ShutdownOK == ASSUME Inv, Shutdown PROVE StepOK
<1>1. RunsInv
  BY DEF Inv
<1>2. BusStep(bus, bus')
  BY <1>1, cancelRunsStep DEF Shutdown, RunsInv
<1>3. /\ UNCHANGED <<status, iteration, stage, work>> /\ app = "up"
      /\ cancelRequested' \in [Run -> BOOLEAN]
      /\ \A r \in Run : status[r] = "ABSENT" => ~cancelRequested'[r]
  BY <1>1 DEF Shutdown, RunsInv, RunsType, AbsentIsFresh, Active
<1>4. \A r \in Run : status[r] = "RUNNING" => stage[r] # "idle"
  BY <1>1, <1>3 DEF RunsInv, RunningIsDriven, Active
<1> QED
  BY <1>1, <1>2, <1>3, <1>4, LoopsAlone DEF RunsInv, RunsType

LEMMA CrashOK == ASSUME Inv, Crash PROVE StepOK
<1>1. RunsInv /\ UNCHANGED <<status, cancelRequested, iteration>> /\ app' = "down"
  BY DEF Inv, Crash, rows
<1>2. BusStep(bus, bus')
  BY <1>1, ForgottenStep DEF Crash, RunsInv
<1>3. /\ stage' = [r \in Run |-> "idle"]
      /\ work' = [r \in Run |-> [w \in Worker |-> NoMessage]]
  BY DEF Crash
<1>4. RunsType'
  BY <1>1, <1>3 DEF RunsInv, RunsType, Stage
<1>5. RunningIsDriven' /\ AbsentIsFresh' /\ WorkWhileWaiting' /\ Counted'
  BY <1>1, <1>3 DEF RunsInv, RunningIsDriven, AbsentIsFresh, WorkWhileWaiting, Counted, Active,
                    Uncounted
<1>6. ASSUME NEW r \in Run PROVE Lawful(r)
  <2>1. iteration'[r] >= iteration[r]
    BY <1>1, BusAssumption DEF RunsInv, RunsType
  <2> QED
    BY <1>1, <1>3, <2>1 DEF Lawful
<1> QED
  BY <1>2, <1>4, <1>5, <1>6 DEF StepOK, RunsInv, BusStep

LEMMA BootOK == ASSUME Inv, Boot PROVE StepOK
<1>1. RunsInv /\ UNCHANGED <<cancelRequested, iteration, stage, work>>
  BY DEF Inv, Boot
<1>2. BusStep(bus, bus')
  <2>1. BusStep(bus, sweep(bus)) /\ Unfinishable \in SUBSET Run
    BY <1>1, sweepStep DEF RunsInv, Unfinishable
  <2> QED
    BY <2>1, cancelRunsStep, BusStepTwice DEF Boot, BusStep
<1>3. setStatus("RUNNING", "FAILED") = "FAILED"
  BY DEF setStatus, TERMINAL
<1>4. status' = [r \in Run |-> IF status[r] = "RUNNING" THEN "FAILED" ELSE status[r]]
  BY <1>3 DEF Boot, Unfinishable
<1>5. /\ status' \in [Run -> RunStatus]
      /\ \A r \in Run : status'[r] # "RUNNING" /\ (status[r] # "ABSENT" => status'[r] # "ABSENT")
      /\ \A r \in Run : status[r] \in TERMINAL => status'[r] = status[r]
  BY <1>1, <1>4 DEF RunsInv, RunsType, RunStatus, TERMINAL
<1>6. \A r \in Run : status[r] = "ABSENT" => ~cancelRequested[r]
  BY <1>1 DEF RunsInv, AbsentIsFresh
<1> QED
  BY <1>1, <1>2, <1>5, <1>6, LoopsAlone DEF RunsInv, RunsType

LEMMA TimeOK ==
    ASSUME Inv, Sweep \/ \E m \in Message : LeaseLapses(m) \/ BackoffOver(m)
    PROVE  StepOK
<1>1. RunsInv /\ UNCHANGED <<rows, app, stage, work>>
  BY DEF Inv, Sweep, LeaseLapses, BackoffOver
<1>2. BusStep(bus, bus')
  <2>1. CASE Sweep
    BY <1>1, <2>1, sweepStep DEF Sweep, RunsInv
  <2>2. ASSUME NEW m \in Message, LeaseLapses(m) \/ BackoffOver(m) PROVE BusStep(bus, bus')
    <3>1. /\ StatusOf(bus, m) \notin TERMINAL_STATUSES
          /\ bus' = LeasePassed(bus, m) \/ bus' = BackoffPassed(bus, m)
      BY <2>2 DEF LeaseLapses, BackoffOver, Delivered, TERMINAL_STATUSES
    <3> QED
      BY <1>1, <3>1, TimeStep DEF RunsInv
  <2> QED
    BY <2>1, <2>2
<1> QED
  BY <1>1, <1>2, RunsAlone

LEMMA NextOK == ASSUME Inv, [Next]_vars PROVE StepOK
<1>1. RunsInv
  BY DEF Inv
<1>2. ASSUME NEW r \in Run, LoopStep(r) PROVE StepOK
  BY <1>1, <1>2, LoopStepMove, MoveIsOK
<1>3. CASE UNCHANGED vars
  BY <1>1, <1>3, BusInvNow, RunsAlone DEF vars
<1> QED
  BY <1>2, <1>3, PersonOK, ShutdownOK, CrashOK, BootOK, TimeOK DEF Next

-----------------------------------------------------------------------------
(* The questions                                                           *)

LEMMA NextAskedType == ASSUME AskedType, [Next]_vars PROVE AskedType'
<1> USE DEF AskedType
<1>1. CASE UNCHANGED <<question, modelAsked, app>>
  BY <1>1
<1>2. ASSUME NEW r \in Run, NEW q \in Question, AnswerQuestion(r, q) PROVE AskedType'
  BY <1>2 DEF AnswerQuestion
<1>3. ASSUME NEW r \in Run, NEW w \in Worker, ConfirmModel(r, w) PROVE AskedType'
  BY <1>3 DEF ConfirmModel
<1>4. ASSUME NEW r \in Run, Applied(r) PROVE AskedType'
  BY <1>4 DEF Applied
<1>5. ASSUME NEW r \in Run, NEW w \in Worker, TaskStep(r, w) PROVE AskedType'
  <2>1. /\ UNCHANGED <<question, app>>
        /\ \/ UNCHANGED modelAsked
           \/ modelAsked' = [modelAsked EXCEPT ![r] = @ \cup {w}]
    BY <1>5 DEF TaskStep, Answered, Refused, ModelUnavailable, TaskThrows, asked
  <2> QED
    BY <2>1
<1>6. ASSUME NEW r \in Run, Start(r) \/ Cancel(r) \/ CancelAgain(r) PROVE AskedType'
  BY <1>1, <1>6 DEF Start, Cancel, CancelAgain, asked
<1>7. ASSUME NEW r \in Run, Prepared(r) \/ Decided(r) \/ Measured(r) \/ Gated(r)
                           \/ Published(r) \/ AtLimit(r) \/ Throws(r)
      PROVE  AskedType'
  BY <1>1, <1>7 DEF Prepared, Decided, Measured, Gated, Published, AtLimit, Throws, asked
<1>8. CASE Shutdown \/ Crash \/ Boot
  BY <1>8 DEF Shutdown, Crash, Boot, asked
<1>9. CASE Sweep \/ \E m \in Message : LeaseLapses(m) \/ BackoffOver(m)
  BY <1>1, <1>9 DEF Sweep, LeaseLapses, BackoffOver, asked
<1>10. CASE UNCHANGED vars
  BY <1>1, <1>10 DEF vars, asked
<1>11. ASSUME NEW r \in Run, LoopStep(r) PROVE AskedType'
  BY <1>4, <1>5, <1>7, <1>11 DEF LoopStep
<1> HIDE DEF AskedType
<1> QED
  BY <1>2, <1>3, <1>6, <1>8, <1>9, <1>10, <1>11 DEF Next

-----------------------------------------------------------------------------
(* The theorems                                                            *)

LEMMA InitInv == Init => Inv
<1> SUFFICES ASSUME Init PROVE Inv
  OBVIOUS
<1> USE DEF Init
<1>1. RunsType
  BY BusAssumption DEF RunsType, RunStatus, Stage
<1>2. BusInv(bus)
  BY EmptyBusInv
<1>3. RunningIsDriven /\ AbsentIsFresh /\ WorkWhileWaiting /\ Counted
  BY DEF RunningIsDriven, AbsentIsFresh, WorkWhileWaiting, Counted, Active, Uncounted
<1>4. AskedType
  BY DEF AskedType
<1> QED
  BY <1>1, <1>2, <1>3, <1>4 DEF Inv, RunsInv

LEMMA Invariant == Spec => []Inv
<1>1. Inv /\ [Next]_vars => Inv'
  BY NextOK, NextAskedType DEF Inv, StepOK
<1> QED
  BY <1>1, InitInv, PTL DEF Spec

LEMMA Steps == Spec => [][Next /\ StepOK]_vars
<1>1. Inv /\ [Next]_vars => [Next /\ StepOK]_vars
  BY NextOK
<1> QED
  BY <1>1, Invariant, PTL DEF Spec

\* Every variable keeps its type; among them no message is delivered more
\* often than MaxAttempts (agent-message-bus.ts:331-360).
THEOREM TypeCorrect == Spec => []TypeOK
<1>1. Inv => TypeOK
  BY DEF Inv, RunsInv, RunsType, AskedType, BusInv, TypeOK
<1> QED
  BY <1>1, Invariant, PTL

\* Whatever ends a loop, and whatever a dead process left behind, a run is not
\* left RUNNING without one (orchestration-service.ts:712-786).
THEOREM RunningIsDrivenCorrect == Spec => []RunningIsDriven
<1>1. Inv => RunningIsDriven
  BY DEF Inv, RunsInv
<1> QED
  BY <1>1, Invariant, PTL

\* A recipient is busy only on account of a message it was delivered
\* (agent-message-bus.ts:196-433).
THEOREM NoPhantomScopeCorrect == Spec => []NoPhantomScope
<1>1. Inv => NoPhantomScope
  BY DEF Inv, RunsInv, BusInv, ScopesHeld, NoPhantomScope
<1> QED
  BY <1>1, Invariant, PTL

\* Nothing but a cancellation goes over the verdict of a run
\* (repositories.ts:1759-1789).
THEOREM TerminalRunStaysCorrect == Spec => TerminalRunStays
<1>1. [Next /\ StepOK]_vars =>
        [\A r \in Run : status[r] \in TERMINAL => status'[r] \in {status[r], "CANCELLED"}]_vars
  BY DEF StepOK, Lawful
<1> QED
  BY <1>1, Steps, PTL DEF TerminalRunStays

\* No second loop for a run, and none for a run that was stopped
\* (resumption.ts:83-91, orchestration-service.ts:583-650).
THEOREM OnlyWaitingRunsLaunchCorrect == Spec => OnlyWaitingRunsLaunch
<1>1. [Next /\ StepOK]_vars =>
        [\A r \in Run : stage'[r] = "preparing" /\ stage[r] # "preparing" =>
            ~Active(r) /\ ~cancelRequested[r] /\ status[r] \in {"ABSENT", "NEEDS_HUMAN"}]_vars
  BY DEF StepOK, Lawful
<1> QED
  BY <1>1, Steps, PTL DEF OnlyWaitingRunsLaunch

\* A stopped run gives out no work (orchestration-service.ts:1435-1474,
\* 4090-4118).
THEOREM NoWorkAfterCancelCorrect == Spec => NoWorkAfterCancel
<1>1. [Next /\ StepOK]_vars =>
        [\A r \in Run : cancelRequested[r] =>
            \A w \in Worker : work'[r][w] \in {work[r][w], NoMessage}]_vars
  BY DEF StepOK, Lawful
<1> QED
  BY <1>1, Steps, PTL DEF NoWorkAfterCancel

\* Iterations are never given back (orchestration-service.ts:1186-1188).
THEOREM ResumedRunKeepsItsBudgetCorrect == Spec => ResumedRunKeepsItsBudget
<1>1. [Next /\ StepOK]_vars => [\A r \in Run : iteration'[r] >= iteration[r]]_vars
  BY DEF StepOK, Lawful
<1> QED
  BY <1>1, Steps, PTL DEF ResumedRunKeepsItsBudget

\* A closed message is never touched again (repositories.ts:2613-2692).
THEOREM ClosedMessagesStayCorrect == Spec => ClosedMessagesStay
<1>1. [Next /\ StepOK]_vars =>
        [\A m \in Message : StatusOf(bus, m) \in TERMINAL_STATUSES =>
            bus'.row[m] = bus.row[m]]_vars
  BY DEF StepOK, Keeps
<1> QED
  BY <1>1, Steps, PTL DEF ClosedMessagesStay

-----------------------------------------------------------------------------
(* What is left outstanding                                                *)

\* The messages outside S that are unfinished in c were so in b.
Opens(b, c, S) ==
    \A m \in Message \ S : Unfinished(c, m) => Unfinished(b, m)

LEMMA OpensTwice ==
    ASSUME NEW a, NEW b, NEW c, NEW S, Opens(a, b, S), Opens(b, c, S)
    PROVE  Opens(a, c, S)
  BY DEF Opens

LEMMA ClosedIsFinished ==
    ASSUME NEW row \in Row, NEW s \in TERMINAL_STATUSES
    PROVE  ClosedRow(row, s).status \notin {"pending"} \cup Delivered
  BY ClosedRowType DEF TERMINAL_STATUSES, Delivered

\* fail does not take up a message whose life is over, nor one that never was.
LEMMA FailedRowOpens ==
    ASSUME NEW row \in Row, NEW retryable \in BOOLEAN,
           FailedRow(row, retryable).status \in {"pending"} \cup Delivered
    PROVE  row.status \in {"pending"} \cup Delivered
<1>1. ClosedRow(row, "dead").status \notin {"pending"} \cup Delivered
  BY ClosedIsFinished DEF TERMINAL_STATUSES
<1> QED
  BY <1>1 DEF FailedRow

LEMMA HandedOverOpens ==
    ASSUME NEW b, BusInv(b), NEW M \in SUBSET Message
    PROVE  Opens(b, HandedOver(b, M), M)
<1> DEFINE c == publish(b, M)
           d == claim(c, {m.to : m \in M})
           e == acknowledge(d, M)
<1>1. BusStep(b, c)
  BY publishStep
<1>2. ASSUME NEW m \in Message \ M PROVE c.row[m] = b.row[m]
  <2>1. b.row \in [Message -> Row] /\ b \in Bus
    BY BusFields DEF BusInv
  <2> QED
    BY <2>1 DEF publish, Bus
<1> HIDE DEF c
<1>3. {m.to : m \in M} \in SUBSET Worker
  BY MessageType
<1>4. BusStep(c, d)
  BY <1>1, <1>3, claimStep DEF BusStep
<1>5. ASSUME NEW m \in Message PROVE d.row[m] = c.row[m] \/ StatusOf(c, m) = "pending"
  BY DEF claim, claimNext, Ready
<1> HIDE DEF d
<1>6. ASSUME NEW m \in Message PROVE e.row[m] = d.row[m] \/ StatusOf(d, m) = "leased"
  <2>1. d \in Bus
    BY <1>4 DEF BusStep, BusInv
  <2> QED
    BY <2>1 DEF acknowledge, Bus
<1>7. HandedOver(b, M) = e
  BY DEF HandedOver, c, d
<1> HIDE DEF e
<1> SUFFICES ASSUME NEW m \in Message \ M, Unfinished(e, m) PROVE Unfinished(b, m)
  BY <1>7 DEF Opens
<1>8. Unfinished(d, m)
  BY <1>6 DEF Unfinished, StatusOf, Delivered
<1>9. Unfinished(c, m)
  BY <1>5, <1>8 DEF Unfinished, StatusOf, Delivered
<1> QED
  BY <1>2, <1>9 DEF Unfinished, StatusOf

LEMMA completeOpens ==
    ASSUME NEW b, BusInv(b), NEW m \in Message
    PROVE  Opens(b, complete(b, m), {})
<1>1. b.row \in [Message -> Row]
  BY BusFields DEF BusInv
<1>2. \A n \in Message : \/ complete(b, m).row[n] = b.row[n]
                         \/ n = m /\ StatusOf(b, m) \in Delivered
  BY <1>1 DEF complete
<1> QED
  BY <1>2 DEF Opens, Unfinished, StatusOf

LEMMA failOpens ==
    ASSUME NEW b, BusInv(b), NEW m \in Message, NEW retryable \in BOOLEAN
    PROVE  Opens(b, fail(b, m, retryable), {})
<1>1. b.row \in [Message -> Row]
  BY BusFields DEF BusInv
<1>2. \A n \in Message : fail(b, m, retryable).row[n]
                           = IF n = m THEN FailedRow(b.row[n], retryable) ELSE b.row[n]
  BY <1>1 DEF fail
<1> QED
  BY <1>1, <1>2, FailedRowOpens DEF Opens, Unfinished, StatusOf

LEMMA sweepOpens == ASSUME NEW b, BusInv(b) PROVE Opens(b, sweep(b), {})
<1>1. \A n \in Message : \/ sweep(b).row[n] = b.row[n]
                         \/ StatusOf(b, n) \in Delivered
  BY DEF sweep, expiredLeases
<1> QED
  BY <1>1 DEF Opens, Unfinished, StatusOf

LEMMA cancelRunsCloses ==
    ASSUME NEW b, BusInv(b), NEW D \in SUBSET Run
    PROVE  /\ Opens(b, cancelRuns(b, D), {})
           /\ \A m \in Message : m.run \in D => ~Unfinished(cancelRuns(b, D), m)
<1>1. b.row \in [Message -> Row]
  BY BusFields DEF BusInv
<1>2. ASSUME NEW m \in Message
      PROVE  ClosedRow(b.row[m], "cancelled").status \notin {"pending"} \cup Delivered
  BY <1>1, ClosedIsFinished DEF TERMINAL_STATUSES
<1>3. \A n \in Message : cancelRuns(b, D).row[n]
                           = IF n.run \in D /\ Unfinished(b, n)
                               THEN ClosedRow(b.row[n], "cancelled") ELSE b.row[n]
  BY DEF cancelRuns
<1> QED
  BY <1>2, <1>3 DEF Opens, Unfinished, StatusOf

LEMMA TimeOpens ==
    ASSUME NEW b, BusInv(b), NEW m \in Message,
           NEW c, c = LeasePassed(b, m) \/ c = BackoffPassed(b, m)
    PROVE  Opens(b, c, {})
<1>1. /\ b \in Bus /\ b.row \in [Message -> Row] /\ b.row[m] \in Row
  BY BusFields DEF BusInv
<1>2. \/ c.row = [b.row EXCEPT ![m] = [@ EXCEPT !.lapsed = TRUE]]
      \/ c.row = [b.row EXCEPT ![m] = [@ EXCEPT !.due = TRUE]]
  BY <1>1 DEF LeasePassed, BackoffPassed, Bus
<1>3. /\ c.row[m].status = b.row[m].status
      /\ \A n \in Message \ {m} : c.row[n] = b.row[n]
  BY <1>1, <1>2 DEF Row
<1> QED
  BY <1>3 DEF Opens, Unfinished, StatusOf


\* The work of a worker is of its run.
NamesItsRun ==
    \A r \in Run, w \in Worker : work[r][w] # NoMessage => work[r][w].run = r

\* Nothing runs in a process that is down, and what is unfinished then is of
\* runs that Boot will find; shutting down has cancelled everything, and gives
\* out nothing; with one worker, only the end of a loop takes RUNNING away.
Behind ==
    /\ app = "down" => /\ \A r \in Run : ~Active(r)
                       /\ \A m \in Message : Unfinished(bus, m) => status[m.run] = "RUNNING"
    /\ app = "quitting" => /\ \A m \in Message : ~Unfinished(bus, m)
                           /\ \A r \in Run : Active(r) => cancelRequested[r]
    /\ MayCrash => \A r \in Run : Active(r) => status[r] = "RUNNING"

LeftInv == Inv /\ NothingOutstanding /\ NamesItsRun /\ Behind

\* The application is not killed, or runs have one worker.
OneAtATime == MayCrash => \A v, w \in Worker : v = w

\* What a loop owns: the messages of its run, while nobody has stopped it.
Own(r) == {m \in Message : m.run = r /\ ~cancelRequested[r]}

\* What a step of the loop of r does to the messages.
Tidy(r) ==
    /\ app # "down" /\ Active(r)
    /\ Opens(bus, bus', Own(r))
    /\ stage'[r] = "idle" => \A m \in Message : m.run = r => ~Unfinished(bus', m)
    /\ \A w \in Worker : work'[r][w] # NoMessage => work'[r][w].run = r
    /\ MayCrash /\ status[r] = "RUNNING" /\ stage'[r] # "idle" => status'[r] = "RUNNING"

LEMMA TidyIsOK ==
    ASSUME LeftInv, NEW r \in Run, Move(r), Tidy(r)
    PROVE  NothingOutstanding' /\ NamesItsRun' /\ Behind'
<1>1. /\ UNCHANGED <<cancelRequested, app>> /\ app # "down" /\ Active(r)
      /\ \A s \in Run \ {r} : /\ status'[s] = status[s]
                              /\ stage'[s] = stage[s] /\ work'[s] = work[s]
  BY DEF Move, Tidy
<1>2. NothingOutstanding'
  <2> SUFFICES ASSUME NEW m \in Message, Unfinished(bus', m) PROVE stage'[m.run] # "idle"
    BY DEF NothingOutstanding, Active
  <2>1. m.run \in Run
    BY MessageType
  <2>2. CASE m.run = r
    BY <2>2 DEF Tidy
  <2>3. CASE m.run # r
    <3>1. Unfinished(bus, m)
      BY <2>3 DEF Tidy, Opens, Own
    <3> QED
      BY <1>1, <2>1, <2>3, <3>1 DEF LeftInv, NothingOutstanding, Active
  <2> QED
    BY <2>2, <2>3
<1>3. NamesItsRun'
  BY <1>1 DEF LeftInv, NamesItsRun, Tidy
<1>4. ASSUME app = "quitting"
      PROVE  /\ \A m \in Message : ~Unfinished(bus', m)
             /\ \A s \in Run : stage'[s] # "idle" => cancelRequested[s]
  <2>1. cancelRequested[r] /\ \A s \in Run : stage[s] # "idle" => cancelRequested[s]
    BY <1>1, <1>4 DEF LeftInv, Behind, Active
  <2>2. Own(r) = {}
    BY <2>1 DEF Own
  <2> QED
    BY <1>1, <1>4, <2>1, <2>2 DEF LeftInv, Behind, Tidy, Opens
<1>5. MayCrash => \A s \in Run : stage'[s] # "idle" => status'[s] = "RUNNING"
  BY <1>1 DEF LeftInv, Behind, Active, Tidy
<1>6. Behind'
  BY <1>1, <1>4, <1>5 DEF Behind, Active
<1> QED
  BY <1>2, <1>3, <1>6

LEMMA AwaitsTidy ==
    ASSUME LeftInv, NEW r \in Run, Active(r), app # "down", NEW s \in Stage \ {"idle"},
           Awaits(r, s)
    PROVE  Tidy(r)
<1>1. /\ UNCHANGED <<status, bus, work>> /\ stage'[r] = s
  BY DEF Awaits, rows, LeftInv, Inv, RunsInv, RunsType
<1> QED
  BY <1>1 DEF Tidy, Opens, LeftInv, NamesItsRun

LEMMA ReturnsTidy ==
    ASSUME LeftInv, NEW r \in Run, Active(r), app # "down",
           NEW b, BusInv(b), Opens(bus, b, {}), Returns(r, b)
    PROVE  Tidy(r)
<1>1. /\ stage'[r] = "idle" /\ bus' = cancelRuns(b, {r})
      /\ \A w \in Worker : work'[r][w] = NoMessage
  BY DEF Returns, LeftInv, Inv, RunsInv, RunsType
<1>2. /\ Opens(b, bus', {}) /\ \A m \in Message : m.run = r => ~Unfinished(bus', m)
  BY <1>1, cancelRunsCloses
<1>3. Opens(bus, bus', Own(r))
  BY <1>2, OpensTwice DEF Opens
<1> QED
  BY <1>1, <1>2, <1>3 DEF Tidy

LEMMA OpensNothing == LeftInv => BusInv(bus) /\ Opens(bus, bus, {})
  BY DEF LeftInv, Inv, RunsInv, Opens

LEMMA StopsTidy ==
    ASSUME LeftInv, NEW r \in Run, Active(r), app # "down", NEW O, Stops(r, O)
    PROVE  Tidy(r)
  BY OpensNothing, ReturnsTidy DEF Stops

LEMMA BeginsTidy ==
    ASSUME LeftInv, NEW r \in Run, Active(r), app # "down", NEW n, Begins(r, n)
    PROVE  Tidy(r)
<1>1. CASE Awaits(r, "reporting")
  BY <1>1, AwaitsTidy DEF Stage
<1>2. CASE Stops(r, {"CANCELLED"}) \/ Returns(r, bus)
  BY <1>2, StopsTidy, ReturnsTidy, OpensNothing
<1>3. CASE /\ stage' = [stage EXCEPT ![r] = "deciding"]
           /\ UNCHANGED <<status, cancelRequested, bus, work>>
  BY <1>3 DEF Tidy, Opens, LeftInv, NamesItsRun, Inv, RunsInv, RunsType
<1> QED
  BY <1>1, <1>2, <1>3 DEF Begins

LEMMA OverTidy ==
    ASSUME LeftInv, OneAtATime, NEW r \in Run, NEW w \in Worker, work[r][w] # NoMessage,
           app # "down", NEW b, BusInv(b), Opens(bus, b, {}), NEW s, Over(r, w, b, s),
           s \in {status[r], "FAILED", "NEEDS_HUMAN"}
    PROVE  Tidy(r)
<1>1. stage[r] \in Waiting /\ Active(r) /\ RunsType /\ NamesItsRun
  BY AtWorkFacts DEF LeftInv, Inv, RunsInv
<1>2. MayCrash => AtWork(r) = {w}
  BY DEF OneAtATime, AtWork
<1>3. Opens(bus, b, Own(r))
  BY DEF Opens
<1>4. CASE Returns(r, b)
  BY <1>1, <1>4, ReturnsTidy
<1>5. ASSUME work' = [work EXCEPT ![r][w] = NoMessage], bus' = b, stage'[r] # "idle",
             MayCrash /\ status[r] = "RUNNING" => status'[r] = "RUNNING"
      PROVE  Tidy(r)
  <2>1. \A v \in Worker : work'[r][v] \in {work[r][v], NoMessage}
    BY <1>1, <1>5 DEF RunsType
  <2> QED
    BY <1>1, <1>3, <1>5, <2>1 DEF Tidy, NamesItsRun
<1>6. CASE AtWork(r) # {w}
  <2>1. ~MayCrash /\ work' = [work EXCEPT ![r][w] = NoMessage] /\ bus' = b /\ stage' = stage
    BY <1>2, <1>6 DEF Over
  <2> QED
    BY <1>1, <1>5, <2>1 DEF Active
<1>7. CASE AtWork(r) = {w} /\ ~Returns(r, b)
  <2>1. /\ s \notin {"NEEDS_HUMAN", "FAILED"} /\ status' = [status EXCEPT ![r] = s]
        /\ stage' = [stage EXCEPT ![r] = "applying"]
        /\ work' = [work EXCEPT ![r][w] = NoMessage] /\ bus' = b
    BY <1>7 DEF Over
  <2>2. stage'[r] # "idle" /\ status'[r] = status[r]
    BY <1>1, <2>1 DEF RunsType
  <2> QED
    BY <1>5, <2>1, <2>2
<1> QED
  BY <1>4, <1>6, <1>7


LEMMA DelegatesTidy ==
    ASSUME LeftInv, OneAtATime, NEW r \in Run, Active(r), app # "down", iteration[r] # 0,
           Delegates(r)
    PROVE  Tidy(r)
<1>1. CASE Stops(r, {"CANCELLED"})
  BY <1>1, StopsTidy
<1>2. CASE Awaits(r, "applying")
  BY <1>2, AwaitsTidy DEF Stage
<1>3. ASSUME NEW W \in SUBSET Worker, NEW mode \in Waiting, NEW blocked \in BOOLEAN,
             ~stopping(r), W # {}, blocked => W # Worker,
             status' = IF blocked THEN [status EXCEPT ![r] = setStatus(@, "NEEDS_HUMAN")]
                       ELSE status,
             stage' = [stage EXCEPT ![r] = mode],
             work' = [work EXCEPT ![r] = [w \in Worker |->
                        IF w \in W THEN Delegation(r, w) ELSE NoMessage]],
             bus' = HandedOver(bus, {Delegation(r, w) : w \in W})
      PROVE  Tidy(r)
  <2> DEFINE M == {Delegation(r, w) : w \in W}
  <2>1. \A w \in Worker : Delegation(r, w) \in Message /\ Delegation(r, w).run = r
    BY BusAssumption DEF Delegation, Message, LeftInv, Inv, RunsInv, RunsType
  <2>2. M \in SUBSET Message /\ M \subseteq Own(r)
    BY <1>3, <2>1 DEF Own, stopping
  <2>3. Opens(bus, bus', M)
    BY <1>3, <2>2, HandedOverOpens, OpensNothing
  <2>4. Opens(bus, bus', Own(r))
    BY <2>2, <2>3 DEF Opens
  <2>5. \A w \in Worker : work'[r][w] # NoMessage => work'[r][w].run = r
    BY <1>3, <2>1 DEF LeftInv, Inv, RunsInv, RunsType
  <2>6. MayCrash => ~blocked
    BY <1>3 DEF OneAtATime
  <2>7. stage'[r] # "idle" /\ (MayCrash => status' = status)
    BY <1>3, <2>6 DEF Waiting, LeftInv, Inv, RunsInv, RunsType
  <2> QED
    BY <2>4, <2>5, <2>7 DEF Tidy
<1> QED
  BY <1>1, <1>2, <1>3 DEF Delegates

LEMMA ModelUnavailableTidy ==
    ASSUME LeftInv, OneAtATime, NEW r \in Run, NEW w \in Worker, work[r][w] # NoMessage,
           app # "down", ModelUnavailable(r, w)
    PROVE  Tidy(r)
<1> DEFINE m == work[r][w]
           failed == fail(bus, m, TRUE)
           again == [m EXCEPT !.attempt = @ + 1]
<1>1. m \in Message /\ stage[r] \in Waiting /\ Active(r) /\ m.run = r
  BY AtWorkFacts DEF LeftInv, Inv, NamesItsRun
<1>2. BusInv(failed) /\ Opens(bus, failed, {})
  BY <1>1, OpensNothing, failStep, failOpens DEF BusStep
<1>3. ~stopping(r) /\ m.attempt < ModelRetries
  BY DEF ModelUnavailable
<1>4. again \in Message /\ again.run = r
  BY <1>1, <1>3, BusAssumption DEF Message
<1>5. CASE /\ bus' = HandedOver(failed, {again})
           /\ work' = [work EXCEPT ![r][w] = again]
           /\ UNCHANGED <<rows, stage>>
  <2> HIDE DEF failed, again
  <2>1. Opens(failed, bus', {again})
    BY <1>2, <1>4, <1>5, HandedOverOpens
  <2>2. again \in Own(r)
    BY <1>3, <1>4 DEF Own, stopping
  <2>3. Opens(bus, bus', Own(r))
    BY <1>2, <2>1, <2>2 DEF Opens
  <2>4. \A v \in Worker : work'[r][v] \in {work[r][v], again}
    BY <1>5 DEF LeftInv, Inv, RunsInv, RunsType
  <2>5. UNCHANGED <<status, stage>>
    BY <1>5 DEF rows
  <2> QED
    BY <1>1, <1>4, <2>3, <2>4, <2>5 DEF Tidy, LeftInv, NamesItsRun, Active
<1>6. CASE Over(r, w, failed, setStatus(status[r], "NEEDS_HUMAN"))
  <2>1. setStatus(status[r], "NEEDS_HUMAN") \in {status[r], "NEEDS_HUMAN"}
    BY DEF setStatus
  <2> HIDE DEF failed
  <2> QED
    BY <1>2, <1>6, <2>1, OverTidy
<1> QED
  BY <1>5, <1>6 DEF ModelUnavailable

LEMMA TaskStepTidy ==
    ASSUME LeftInv, OneAtATime, NEW r \in Run, NEW w \in Worker, TaskStep(r, w)
    PROVE  Tidy(r)
<1> DEFINE m == work[r][w]
<1>1. m # NoMessage /\ app # "down"
  BY DEF TaskStep
<1>2. m \in Message /\ BusInv(bus) /\ Opens(bus, bus, {})
  BY <1>1, AtWorkFacts, OpensNothing DEF LeftInv, Inv
<1>3. BusInv(complete(bus, m)) /\ Opens(bus, complete(bus, m), {})
  BY <1>2, completeStep, completeOpens DEF BusStep
<1>4. \A retryable \in BOOLEAN : BusInv(fail(bus, m, retryable))
                                 /\ Opens(bus, fail(bus, m, retryable), {})
  BY <1>2, failStep, failOpens DEF BusStep
<1>5. CASE Answered(r, w)
  <2>1. CASE Over(r, w, complete(bus, m), status[r])
    BY <1>1, <1>3, <2>1, OverTidy DEF m
  <2>2. ASSUME NEW retryable \in BOOLEAN, Over(r, w, fail(bus, m, retryable), status[r])
        PROVE  Tidy(r)
    BY <1>1, <1>4, <2>2, OverTidy DEF m
  <2> QED
    BY <1>5, <2>1, <2>2 DEF Answered, m
<1>6. CASE Refused(r, w)
  <2>1. PICK s \in {"FAILED", "NEEDS_HUMAN"} :
                Over(r, w, fail(bus, m, FALSE), setStatus(status[r], s))
    BY <1>6 DEF Refused, m
  <2>2. setStatus(status[r], s) \in {status[r], "FAILED", "NEEDS_HUMAN"}
    BY DEF setStatus
  <2> QED
    BY <1>1, <1>4, <2>1, <2>2, OverTidy DEF m
<1>7. CASE ModelUnavailable(r, w)
  BY <1>1, <1>7, ModelUnavailableTidy DEF m
<1>8. CASE TaskThrows(r, w)
  BY <1>1, <1>2, <1>8, OverTidy DEF TaskThrows, m
<1> QED
  BY <1>5, <1>6, <1>7, <1>8 DEF TaskStep

LEMMA LoopStepTidy ==
    ASSUME LeftInv, OneAtATime, NEW r \in Run, LoopStep(r)
    PROVE  Tidy(r)
<1>1. ASSUME NEW w \in Worker, TaskStep(r, w) PROVE Tidy(r)
  BY <1>1, TaskStepTidy
<1>2. CASE Published(r) \/ AtLimit(r) \/ Throws(r)
  <2>1. Active(r) /\ app # "down" /\ \E O \in {{"DONE"}, {"PARTIAL", "FAILED"}, {"FAILED"}} : Stops(r, O)
    BY <1>2 DEF Published, AtLimit, Throws, At, Active
  <2> QED
    BY <2>1, StopsTidy
<1>3. CASE Prepared(r)
  <2>1. Active(r) /\ app # "down"
    BY <1>3 DEF Prepared, At, Active
  <2> QED
    BY <1>3, <2>1, StopsTidy, BeginsTidy DEF Prepared
<1>4. ASSUME Active(r), app # "down",
             \/ \E O \in SUBSET RunStatus : Stops(r, O)
             \/ \E s \in Stage \ {"idle"} : Awaits(r, s)
             \/ GoesRound(r)
      PROVE  Tidy(r)
  BY <1>4, StopsTidy, AwaitsTidy, BeginsTidy DEF GoesRound
<1>5. CASE Decided(r)
  <2>1. Active(r) /\ app # "down"
    BY <1>5 DEF Decided, At, Active
  <2>2. {{"CANCELLED"}, {"FAILED", "NEEDS_HUMAN", "BLOCKED", "DONE"}} \subseteq SUBSET RunStatus
        /\ "measuring" \in Stage \ {"idle"}
    BY DEF RunStatus, TERMINAL, Stage
  <2> QED
    BY <1>4, <1>5, <2>1, <2>2 DEF Decided
<1>6. CASE Measured(r)
  <2>1. Active(r) /\ app # "down" /\ iteration[r] # 0
    BY <1>6, AtIsActive DEF Measured, At, Stage, Waiting, Uncounted, LeftInv, Inv
  <2>2. {"NEEDS_HUMAN", "BLOCKED", "FAILED"} \in SUBSET RunStatus /\ "gating" \in Stage \ {"idle"}
    BY DEF RunStatus, TERMINAL, Stage
  <2> QED
    BY <1>4, <1>6, <2>1, <2>2, DelegatesTidy DEF Measured
<1>7. CASE Applied(r)
  <2>1. Active(r) /\ app # "down"
    BY <1>7 DEF Applied, At, Active
  <2>2. {{"CANCELLED"}, {"NEEDS_HUMAN"}} \subseteq SUBSET RunStatus /\ "gating" \in Stage \ {"idle"}
    BY DEF RunStatus, TERMINAL, Stage
  <2> QED
    BY <1>4, <1>7, <2>1, <2>2 DEF Applied
<1>8. CASE Gated(r)
  <2>1. Active(r) /\ app # "down"
    BY <1>8 DEF Gated, At, Active
  <2>2. {{"CANCELLED"}, {"DONE", "FAILED"}, {"NEEDS_HUMAN", "FAILED"}} \subseteq SUBSET RunStatus
        /\ "publishing" \in Stage \ {"idle"}
    BY DEF RunStatus, TERMINAL, Stage
  <2> QED
    BY <1>4, <1>8, <2>1, <2>2 DEF Gated
<1> QED
  BY <1>1, <1>2, <1>3, <1>5, <1>6, <1>7, <1>8 DEF LoopStep

\* A step outside of the loops: it leaves their workers alone, ends none, and
\* of what it does not close it changes only whether a run is stopped.
LEMMA OutsideIsOK ==
    ASSUME LeftInv, StepOK, UNCHANGED <<work, app>>, Opens(bus, bus', {}),
           \A r \in Run : \/ stage'[r] = stage[r]
                             /\ (status'[r] = status[r] \/ ~Active(r))
                             /\ (cancelRequested[r] => cancelRequested'[r])
                          \/ app = "up" /\ stage'[r] # "idle" /\ status'[r] = "RUNNING",
           app = "down" => UNCHANGED <<stage, status>>
    PROVE  NothingOutstanding' /\ NamesItsRun' /\ Behind'
<1>1. \A m \in Message : m.run \in Run /\ (Unfinished(bus', m) => Unfinished(bus, m))
  BY MessageType DEF Opens
<1>2. NothingOutstanding' /\ NamesItsRun'
  BY <1>1 DEF LeftInv, NothingOutstanding, NamesItsRun, Active
<1>3. Behind'
  BY <1>1 DEF LeftInv, Behind, Active
<1> QED
  BY <1>2, <1>3

LEMMA LaunchOpens ==
    ASSUME LeftInv, NEW r \in Run, Launch(r), status[r] \in {"ABSENT", "NEEDS_HUMAN"}
    PROVE  /\ Opens(bus, bus', {})
           /\ stage'[r] # "idle" /\ status'[r] = "RUNNING"
           /\ \A s \in Run \ {r} : stage'[s] = stage[s] /\ status'[s] = status[s]
  BY OpensNothing, sweepOpens DEF Launch, setStatus, TERMINAL, LeftInv, Inv, RunsInv, RunsType


LEMMA NextLeft ==
    ASSUME LeftInv, OneAtATime, [Next]_vars
    PROVE  NothingOutstanding' /\ NamesItsRun' /\ Behind'
<1>1. StepOK /\ Inv
  BY NextOK DEF LeftInv
<1>2. BusInv(bus) /\ Opens(bus, bus, {}) /\ Opens(bus, sweep(bus), {})
  BY OpensNothing, sweepOpens
<1>3. ASSUME NEW r \in Run, LoopStep(r) PROVE NothingOutstanding' /\ NamesItsRun' /\ Behind'
  BY <1>1, <1>3, LoopStepMove, LoopStepTidy, TidyIsOK DEF Inv
<1>4. ASSUME NEW r \in Run, UNCHANGED <<work, app, cancelRequested>>, app = "up", Launch(r),
             status[r] \in {"ABSENT", "NEEDS_HUMAN"}
      PROVE  NothingOutstanding' /\ NamesItsRun' /\ Behind'
  BY <1>1, <1>4, LaunchOpens, OutsideIsOK
<1>5. ASSUME UNCHANGED <<status, cancelRequested, stage, work, app>>, Opens(bus, bus', {})
      PROVE  NothingOutstanding' /\ NamesItsRun' /\ Behind'
  BY <1>1, <1>5, OutsideIsOK
<1>6. ASSUME NEW r \in Run, Start(r) PROVE NothingOutstanding' /\ NamesItsRun' /\ Behind'
  BY <1>4, <1>6 DEF Start
<1>7. ASSUME NEW r \in Run, Cancel(r) \/ CancelAgain(r)
      PROVE  NothingOutstanding' /\ NamesItsRun' /\ Behind'
  <2>1. UNCHANGED <<stage, work, app>> /\ app = "up"
    BY <1>7 DEF Cancel, CancelAgain
  <2>2. Opens(bus, bus', {})
    BY <1>2, <1>7, cancelRunsCloses DEF Cancel, CancelAgain
  <2>3. \A s \in Run : /\ status'[s] = status[s] \/ ~Active(s)
                       /\ cancelRequested[s] => cancelRequested'[s]
    BY <1>1, <1>7 DEF Cancel, CancelAgain, Inv, RunsInv, RunsType
  <2> QED
    BY <1>1, <2>1, <2>2, <2>3, OutsideIsOK
<1>8. ASSUME NEW r \in Run, NEW q \in Question, AnswerQuestion(r, q)
      PROVE  NothingOutstanding' /\ NamesItsRun' /\ Behind'
  <2>1. CASE decideResumption(r, question'[r])
    BY <1>4, <1>8, <2>1 DEF AnswerQuestion, decideResumption
  <2>2. CASE ~decideResumption(r, question'[r])
    BY <1>2, <1>5, <1>8, <2>2 DEF AnswerQuestion
  <2> QED
    BY <2>1, <2>2
<1>9. ASSUME NEW r \in Run, NEW w \in Worker, ConfirmModel(r, w)
      PROVE  NothingOutstanding' /\ NamesItsRun' /\ Behind'
  <2>1. CASE status[r] = "NEEDS_HUMAN" /\ ~cancelRequested[r] /\ ~Active(r)
    BY <1>4, <1>9, <2>1 DEF ConfirmModel
  <2>2. CASE ~(status[r] = "NEEDS_HUMAN" /\ ~cancelRequested[r] /\ ~Active(r))
    BY <1>2, <1>5, <1>9, <2>2 DEF ConfirmModel
  <2> QED
    BY <2>1, <2>2
<1>10. CASE Shutdown
  <2> DEFINE D == {r \in Run : Active(r)}
  <2>1. /\ app = "up" /\ app' = "quitting" /\ UNCHANGED <<status, stage, work>>
        /\ bus' = cancelRuns(bus, D)
        /\ \A r \in Run : Active(r) => cancelRequested'[r]
    BY <1>10 DEF Shutdown
  <2>2. \A m \in Message : ~Unfinished(bus', m)
    <3>1. /\ Opens(bus, bus', {}) /\ \A m \in Message : m.run \in D => ~Unfinished(bus', m)
      BY <1>2, <2>1, cancelRunsCloses
    <3> QED
      BY <2>1, <3>1, MessageType DEF Opens, LeftInv, NothingOutstanding
  <2>3. \A r \in Run : Active(r)' => cancelRequested'[r]
    BY <2>1 DEF Active
  <2>4. NothingOutstanding'
    BY <2>2 DEF NothingOutstanding
  <2>5. NamesItsRun'
    BY <2>1 DEF LeftInv, NamesItsRun
  <2>6. MayCrash => \A r \in Run : Active(r)' => status'[r] = "RUNNING"
    BY <2>1 DEF LeftInv, Behind, Active
  <2>7. Behind'
    BY <2>1, <2>2, <2>3, <2>6 DEF Behind
  <2> QED
    BY <2>4, <2>5, <2>7
<1>11. CASE Crash
  <2>1. /\ app # "down" /\ (MayCrash \/ app = "quitting") /\ app' = "down"
        /\ bus' = Forgotten(bus) /\ UNCHANGED status
        /\ \A r \in Run : stage'[r] = "idle"
        /\ \A r \in Run, w \in Worker : work'[r][w] = NoMessage
    BY <1>11 DEF Crash, rows
  <2>2. \A m \in Message : Unfinished(bus', m) => Unfinished(bus, m)
    BY <1>2, <2>1 DEF Forgotten, BusInv, Bus, Unfinished, StatusOf
  <2>3. \A m \in Message : Unfinished(bus', m) => status'[m.run] = "RUNNING"
    BY <2>1, <2>2, MessageType DEF LeftInv, NothingOutstanding, Behind
  <2>4. NothingOutstanding' /\ NamesItsRun'
    BY <2>1 DEF NothingOutstanding, NamesItsRun
  <2>5. Behind'
    BY <2>1, <2>3 DEF Behind, Active
  <2> QED
    BY <2>4, <2>5
<1>12. CASE Boot
  <2> DEFINE b == sweep(bus)
  <2>1. /\ app = "down" /\ app' = "up" /\ UNCHANGED <<stage, work>>
        /\ bus' = cancelRuns(b, Unfinishable) /\ Unfinishable \in SUBSET Run
    BY <1>12 DEF Boot, Unfinishable
  <2>2. BusInv(b) /\ Opens(bus, b, {})
    BY <1>2, sweepStep DEF BusStep
  <2> HIDE DEF b
  <2>3. \A m \in Message : ~Unfinished(bus', m)
    <3>1. Opens(b, bus', {}) /\ \A m \in Message : m.run \in Unfinishable => ~Unfinished(bus', m)
      BY <2>1, <2>2, cancelRunsCloses
    <3>2. \A m \in Message : Unfinished(bus, m) => m.run \in Unfinishable
      BY <2>1, MessageType DEF LeftInv, Behind, Unfinishable
    <3> QED
      BY <2>2, <3>1, <3>2 DEF Opens
  <2>4. NothingOutstanding' /\ NamesItsRun'
    BY <2>1, <2>3 DEF NothingOutstanding, NamesItsRun, LeftInv
  <2>5. \A r \in Run : ~Active(r)'
    BY <2>1 DEF LeftInv, Behind, Active
  <2>6. Behind'
    BY <2>1, <2>5 DEF Behind
  <2> QED
    BY <2>4, <2>6
<1>13. CASE Sweep
  BY <1>2, <1>5, <1>13 DEF Sweep, rows
<1>14. ASSUME NEW m \in Message, LeaseLapses(m) \/ BackoffOver(m)
       PROVE  NothingOutstanding' /\ NamesItsRun' /\ Behind'
  <2>1. Opens(bus, bus', {})
    BY <1>2, <1>14, TimeOpens DEF LeaseLapses, BackoffOver
  <2> QED
    BY <1>5, <1>14, <2>1 DEF LeaseLapses, BackoffOver, rows
<1>15. CASE UNCHANGED vars
  BY <1>2, <1>5, <1>15 DEF vars, rows
<1> QED
  BY <1>3, <1>6, <1>7, <1>8, <1>9, <1>10, <1>11, <1>12, <1>13, <1>14, <1>15 DEF Next

LEMMA InitLeft == Init => LeftInv
<1> SUFFICES ASSUME Init PROVE LeftInv
  OBVIOUS
<1>1. \A m \in Message : ~Unfinished(bus, m)
  BY DEF Init, EmptyBus, NoRow, Unfinished, StatusOf, Delivered
<1>2. \A r \in Run : ~Active(r) /\ \A w \in Worker : work[r][w] = NoMessage
  BY DEF Init, Active
<1> QED
  BY <1>1, <1>2, InitInv DEF LeftInv, NothingOutstanding, NamesItsRun, Behind

\* When a loop is over, nothing it asked for is left to be delivered
\* (orchestration-service.ts:4331-4352), as long as nothing kills the
\* application in the middle of a wave; with one worker, not even then.
THEOREM NothingIsLeft == ASSUME OneAtATime PROVE Spec => []NothingOutstanding
<1>1. LeftInv /\ [Next]_vars => LeftInv'
  BY NextLeft, NextOK, NextAskedType DEF LeftInv, Inv, StepOK
<1>2. LeftInv => NothingOutstanding
  BY DEF LeftInv
<1> QED
  BY <1>1, <1>2, InitLeft, PTL DEF Spec

=============================================================================
