------------------------------ MODULE Processes ------------------------------
(***************************************************************************)
(* The children of src/process/process-manager.ts: one ProcessManager, the *)
(* calls of `run` made on it, the four ways a child is stopped (its time   *)
(* limit, its idle limit, the caller's abort signal, cancelAll), and the   *)
(* promise `run` resolves once.                                            *)
(*                                                                         *)
(* A step is one event of the event loop: a timer, an `exit`, a `close`, a *)
(* signal of the caller, or the end of a grace period.  The child is the   *)
(* operating system's: it may ignore SIGTERM, it may survive SIGKILL (an   *)
(* uninterruptible wait, a foreign user), and a process it started may     *)
(* keep its pipes open after it exited.  What it writes is left out: the   *)
(* idle limit fires or it does not, and it is longer than the grace        *)
(* periods of a stop, so it fires once.                                    *)
(***************************************************************************)
EXTENDS Naturals, FiniteSets

CONSTANTS Proc,          \* The calls of `run`, each with a child of its own
          Watched,       \* Those that pass a limit, an idle limit or a signal
          NoReason,      \* A child nobody stopped
          NoStop         \* No stop in flight

Outcome == {"completed", "timeout", "cancelled", "spawn-error"}

(***************************************************************************)
(* Who stops a child, and the outcome each records as the reason.          *)
(***************************************************************************)
Stopper == {"timeout", "idle", "abort", "all"}
ReasonOf == [s \in Stopper |->
               IF s \in {"timeout", "idle"} THEN "timeout" ELSE "cancelled"]
Timer == {"timeout", "idle", "linger"}

ASSUME ProcAssumption ==
  Watched \subseteq Proc /\ NoReason \notin Outcome /\ NoStop \notin Stopper

VARIABLES
  cancelled,    \* ProcessManager.cancelled: new runs are refused
  phase,        \* A call: "idle", "running", "settled" (a stop awaited), "returned"
  child,        \* Its child: "none", "failing", "alive", "exited"
  pipesHeld,    \* TRUE while another process holds the pipes of a child that exited
  timers,       \* The timers of the call that are armed
  signal,       \* The caller's signal: "none", "waiting", "aborted"
  outcome,      \* The outcome of the call so far
  reason,       \* terminationReason: why the child was stopped last
  stage,        \* How far each stopper's `terminate` is: "none", "term", "kill"
  pending,      \* The stopper whose stop `run` awaits before it returns
  survived,     \* trace.survivedTermination
  killed        \* TRUE once SIGKILL was sent to the child's group

vars == <<cancelled, phase, child, pipesHeld, timers, signal, outcome, reason,
          stage, pending, survived, killed>>

TypeOK ==
  /\ cancelled \in BOOLEAN
  /\ phase \in [Proc -> {"idle", "running", "settled", "returned"}]
  /\ child \in [Proc -> {"none", "failing", "alive", "exited"}]
  /\ pipesHeld \in [Proc -> BOOLEAN]
  /\ timers \in [Proc -> SUBSET Timer]
  /\ signal \in [Proc -> {"none", "waiting", "aborted"}]
  /\ outcome \in [Proc -> Outcome]
  /\ reason \in [Proc -> {"timeout", "cancelled", NoReason}]
  /\ stage \in [Proc -> [Stopper -> {"none", "term", "kill"}]]
  /\ pending \in [Proc -> (Stopper \ {"all"}) \cup {NoStop}]
  /\ survived \in [Proc -> BOOLEAN]
  /\ killed \in [Proc -> BOOLEAN]

Init ==
  /\ cancelled = FALSE
  /\ phase = [p \in Proc |-> "idle"]
  /\ child = [p \in Proc |-> "none"]
  /\ pipesHeld = [p \in Proc |-> FALSE]
  /\ timers = [p \in Proc |-> {}]
  /\ signal \in {f \in [Proc -> {"none", "waiting"}] :
                   \A p \in Proc \ Watched : f[p] = "none"}
  /\ outcome = [p \in Proc |-> "completed"]
  /\ reason = [p \in Proc |-> NoReason]
  /\ stage = [p \in Proc |-> [s \in Stopper |-> "none"]]
  /\ pending = [p \in Proc |-> NoStop]
  /\ survived = [p \in Proc |-> FALSE]
  /\ killed = [p \in Proc |-> FALSE]

(***************************************************************************)
(* ProcessManager.live: from the spawn until the call returns.             *)
(***************************************************************************)
live == {p \in Proc : phase[p] \in {"running", "settled"}}

(* A mutant: the reason cancelAll recorded is not looked at. *)
FinalAsExited(o, r) == o

(***************************************************************************)
(* The outcome `run` returns: the first one recorded in the call, or else  *)
(* the reason `terminate` recorded (a child cancelAll stopped closes quite *)
(* normally).                                                              *)
(***************************************************************************)
Final(o, r) == IF o = "completed" /\ r # NoReason THEN r ELSE o

(***************************************************************************)
(* settle: the promise resolves once, the timers are cleared, and the call *)
(* returns unless a stop is pending, which it awaits.                      *)
(***************************************************************************)
Settle(p, o) ==
  /\ timers' = [timers EXCEPT ![p] = {}]
  /\ IF pending[p] = NoStop
       THEN /\ phase' = [phase EXCEPT ![p] = "returned"]
            /\ outcome' = [outcome EXCEPT ![p] = Final(o, reason[p])]
       ELSE /\ phase' = [phase EXCEPT ![p] = "settled"]
            /\ outcome' = [outcome EXCEPT ![p] = o]

-----------------------------------------------------------------------------
(***************************************************************************)
(* run: refused after cancelAll and when the signal is aborted already; a  *)
(* spawn plan or a spawn that throws is a result too.                      *)
(***************************************************************************)
RunRefused(p) ==
  /\ phase[p] = "idle"
  /\ phase' = [phase EXCEPT ![p] = "returned"]
  /\ outcome' = [outcome EXCEPT ![p] = IF cancelled \/ signal[p] = "aborted"
                                       THEN "cancelled" ELSE "spawn-error"]
  /\ UNCHANGED <<cancelled, child, pipesHeld, timers, signal, reason, stage,
                 pending, survived, killed>>

(* A mutant: a run is spawned without looking at `cancelled`. *)
SpawnsAnyway(p) ==
  /\ phase[p] = "idle"
  /\ phase' = [phase EXCEPT ![p] = "running"]
  /\ child' = [child EXCEPT ![p] = "alive"]
  /\ UNCHANGED <<cancelled, pipesHeld, timers, signal, outcome, reason, stage,
                 pending, survived, killed>>

Spawns(p) ==
  /\ phase[p] = "idle"
  /\ ~cancelled
  /\ signal[p] # "aborted"
  /\ phase' = [phase EXCEPT ![p] = "running"]
  /\ \E c \in {"failing", "alive"},
         t \in IF p \in Watched THEN SUBSET {"timeout", "idle"} ELSE {{}} :
       /\ child' = [child EXCEPT ![p] = c]
       /\ timers' = [timers EXCEPT ![p] = t]
  /\ UNCHANGED <<cancelled, pipesHeld, signal, outcome, reason, stage, pending, survived, killed>>

(* The `error` event: the operating system refused to create the process. *)
SpawnError(p) ==
  /\ child[p] = "failing"
  /\ phase[p] = "running"
  /\ child' = [child EXCEPT ![p] = "none"]
  /\ Settle(p, IF outcome[p] = "completed" THEN "spawn-error" ELSE outcome[p])
  /\ UNCHANGED <<cancelled, pipesHeld, signal, reason, stage, pending, survived, killed>>

(***************************************************************************)
(* `exit` and `close`.  An exit arms the linger timer: `close` also needs  *)
(* the pipes, which another process may hold for ever.                     *)
(***************************************************************************)
Exits(p) ==
  /\ child[p] = "alive"
  /\ child' = [child EXCEPT ![p] = "exited"]
  /\ timers' = [timers EXCEPT ![p] = IF phase[p] = "running" THEN @ \cup {"linger"} ELSE @]
  /\ pipesHeld' \in {[pipesHeld EXCEPT ![p] = h] : h \in {FALSE, phase[p] = "running"}}
  /\ UNCHANGED <<cancelled, phase, signal, outcome, reason, stage,
                 pending, survived, killed>>

Closes(p) ==
  /\ child[p] = "exited"
  /\ phase[p] = "running"
  /\ ~pipesHeld[p]
  /\ Settle(p, outcome[p])
  /\ UNCHANGED <<cancelled, child, pipesHeld, signal, reason, stage, pending,
                 survived, killed>>

PipesFreed(p) ==
  /\ pipesHeld[p]
  /\ phase[p] = "running"
  /\ pipesHeld' = [pipesHeld EXCEPT ![p] = FALSE]
  /\ UNCHANGED <<cancelled, phase, child, timers, signal, outcome, reason,
                 stage, pending, survived, killed>>

Lingers(p) ==
  /\ "linger" \in timers[p]
  /\ phase[p] = "running"
  /\ Settle(p, outcome[p])
  /\ UNCHANGED <<cancelled, child, pipesHeld, signal, reason, stage, pending,
                 survived, killed>>

(***************************************************************************)
(* terminate: nothing for a child that never was or has exited; otherwise  *)
(* the reason is recorded over any earlier one and SIGTERM sent (taskkill  *)
(* on Windows), then, after the grace period, SIGKILL.                     *)
(***************************************************************************)
Begun(p, s) == [stage[p] EXCEPT ![s] = IF child[p] = "alive" THEN "term" ELSE "none"]
Reason(p, s) == IF child[p] = "alive" THEN ReasonOf[s] ELSE reason[p]

Escalates(p, s) ==
  /\ stage[p][s] = "term"
  /\ child[p] = "alive"
  /\ stage' = [stage EXCEPT ![p][s] = "kill"]
  /\ killed' = [killed EXCEPT ![p] = TRUE]
  /\ UNCHANGED <<cancelled, phase, child, pipesHeld, timers, signal, outcome,
                 reason, pending, survived>>

(* A mutant: a stop only terminates: it waits for the exit like everybody else. *)
StopEndsOnly(p, s) ==
  /\ stage[p][s] # "none"
  /\ child[p] = "exited" \/ stage[p][s] = "kill"
  /\ stage' = [stage EXCEPT ![p][s] = "none"]
  /\ pending' = [pending EXCEPT ![p] = IF @ = s THEN NoStop ELSE @]
  /\ IF phase[p] = "settled" /\ pending[p] = s
       THEN phase' = [phase EXCEPT ![p] = "returned"]
       ELSE UNCHANGED phase
  /\ UNCHANGED <<cancelled, child, pipesHeld, timers, signal, outcome, reason,
                 survived, killed>>

(***************************************************************************)
(* A `terminate` ends: the child is gone, or both attempts failed.  A stop *)
(* of the call's own then settles it, and says that the child survived; a  *)
(* call already settled returns when the stop it awaits has ended.         *)
(***************************************************************************)
StopEnds(p, s) ==
  /\ stage[p][s] # "none"
  /\ child[p] = "exited" \/ stage[p][s] = "kill"
  /\ stage' = [stage EXCEPT ![p][s] = "none"]
  /\ pending' = [pending EXCEPT ![p] = IF @ = s THEN NoStop ELSE @]
  /\ LET gaveUp == s # "all" /\ phase[p] = "running" /\ child[p] = "alive"
     IN  /\ survived' = [survived EXCEPT ![p] = @ \/ gaveUp]
         /\ IF gaveUp \/ (phase[p] = "settled" /\ pending[p] = s)
              THEN /\ phase' = [phase EXCEPT ![p] =
                                  IF pending[p] \in {s, NoStop} THEN "returned" ELSE "settled"]
                   /\ outcome' = [outcome EXCEPT ![p] = Final(@, reason[p])]
                   /\ timers' = [timers EXCEPT ![p] = {}]
              ELSE UNCHANGED <<phase, outcome, timers>>
  /\ UNCHANGED <<cancelled, child, pipesHeld, signal, reason, killed>>

(***************************************************************************)
(* The stops of the call itself.  A limit overwrites the outcome whatever  *)
(* it was; an abort only replaces "completed".  Each becomes the stop that *)
(* `run` awaits: the one before it, if any, is no longer waited for (once  *)
(* the call is settled, what it awaits is fixed).  When the child is gone  *)
(* already, `terminate` returns at once, and the exit settles the call as  *)
(* it would have.                                                          *)
(***************************************************************************)
Stop(p, s) ==
  /\ stage' = [stage EXCEPT ![p] = Begun(p, s)]
  /\ reason' = [reason EXCEPT ![p] = Reason(p, s)]
  /\ pending' = [pending EXCEPT ![p] = IF phase[p] = "settled" THEN @
                                       ELSE IF child[p] = "alive" THEN s ELSE NoStop]

LimitFires(p, s) ==
  /\ s \in timers[p]
  /\ phase[p] = "running"
  /\ child[p] # "failing"
  /\ timers' = [timers EXCEPT ![p] = @ \ {s}]
  /\ outcome' = [outcome EXCEPT ![p] = "timeout"]
  /\ Stop(p, s)
  /\ UNCHANGED <<cancelled, phase, child, pipesHeld, signal, survived, killed>>

TimesOut(p) == LimitFires(p, "timeout")
GoesIdle(p) == LimitFires(p, "idle")

Aborts(p) ==
  /\ signal[p] = "waiting"
  /\ child[p] # "failing"
  /\ signal' = [signal EXCEPT ![p] = "aborted"]
  /\ IF phase[p] \in {"running", "settled"}
       THEN /\ outcome' = [outcome EXCEPT ![p] = IF @ = "completed" THEN "cancelled" ELSE @]
            /\ Stop(p, "abort")
       ELSE UNCHANGED <<outcome, stage, reason, pending>>
  /\ UNCHANGED <<cancelled, phase, child, pipesHeld, timers, survived, killed>>

(***************************************************************************)
(* cancelAll: no new run from here on, and every child of this moment is   *)
(* stopped; its calls are not settled by it, they wait for their `close`.  *)
(* reset: the manager is used again.                                       *)
(***************************************************************************)
CancelAll ==
  /\ ~cancelled
  /\ cancelled' = TRUE
  /\ stage' = [p \in Proc |-> IF p \in live THEN Begun(p, "all") ELSE stage[p]]
  /\ reason' = [p \in Proc |-> IF p \in live THEN Reason(p, "all") ELSE reason[p]]
  /\ UNCHANGED <<phase, child, pipesHeld, timers, signal, outcome, pending,
                 survived, killed>>

CancelAllEnded == \A p \in Proc : stage[p]["all"] = "none"

Reset ==
  /\ cancelled
  /\ cancelled' = FALSE
  /\ UNCHANGED <<phase, child, pipesHeld, timers, signal, outcome, reason,
                 stage, pending, survived, killed>>

-----------------------------------------------------------------------------
Next ==
  \/ CancelAll \/ Reset
  \/ \E p \in Proc : \/ RunRefused(p) \/ Spawns(p) \/ SpawnError(p)
                     \/ Exits(p) \/ Closes(p) \/ PipesFreed(p) \/ Lingers(p)
                     \/ TimesOut(p) \/ GoesIdle(p) \/ Aborts(p)
                     \/ \E s \in Stopper : Escalates(p, s) \/ StopEnds(p, s)

Spec == Init /\ [][Next]_vars

(***************************************************************************)
(* What the event loop owes: the timers of a stop and of a lingering exit  *)
(* fire, and the operating system reports a failed spawn.  No child is     *)
(* owed to exit or to free its pipes, and no caller to stop one.           *)
(***************************************************************************)
Fairness ==
  \A p \in Proc : /\ WF_vars(SpawnError(p) \/ Lingers(p))
                  /\ \A s \in Stopper : WF_vars(Escalates(p, s) \/ StopEnds(p, s))

FairSpec == Spec /\ Fairness

-----------------------------------------------------------------------------
(***************************************************************************)
(* What a returned call says of its child is true.  One that reports       *)
(* "completed" had a child that ran to its own end: it was spawned, it     *)
(* exited, and nobody had begun to stop it.  And none returns over a       *)
(* living child without saying so: the caller may take the worker to be    *)
(* gone unless the trace says that it survived every attempt.              *)
(***************************************************************************)
ResultIsTrue ==
  \A p \in Proc : phase[p] = "returned" =>
    /\ outcome[p] = "completed" => child[p] = "exited" /\ reason[p] = NoReason /\ ~killed[p]
    /\ child[p] = "alive" => survived[p] /\ killed[p]

(***************************************************************************)
(* cancelAll reaches everybody: when it has finished, and until the        *)
(* manager is reset, a child that still lives is one that SIGKILL did not  *)
(* end - no run slipped in behind the list it walked.                      *)
(***************************************************************************)
CancelAllReaches ==
  cancelled /\ CancelAllEnded => \A p \in Proc : child[p] = "alive" => killed[p]

(***************************************************************************)
(* A child that has exited lets `run` return, whatever holds its pipes;    *)
(* and so does a stop of the call's own, a limit or an abort, whatever the *)
(* child makes of the signals.                                             *)
(***************************************************************************)
RunReturns ==
  \A p \in Proc :
    (phase[p] = "running" /\ (child[p] = "exited" \/ pending[p] # NoStop)) ~> phase[p] = "returned"

=============================================================================
