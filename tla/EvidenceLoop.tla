------------------------------ MODULE EvidenceLoop ------------------------------
(* What a local run knows about its own work, round after round: the ledger of *)
(* acceptance criteria, the expectations that are pinned, the checks and       *)
(* commands the gate repeats, and the guards that refuse to go round again     *)
(* with nothing new.  LocalRuns has the control of the same loop (statuses,    *)
(* messages, cancellations, crashes); here one run goes on undisturbed and the *)
(* data decide.  Abstracted: the project is one file of which every decision   *)
(* speaks, and one registered command whose verdict is a function of that      *)
(* file; what models say is any decision the parser lets through.              *)
EXTENDS Integers, FiniteSets

CONSTANTS
  Criterion,      \* the texts of acceptance criteria
  Text,           \* the contents the file can have
  Green,          \* the contents with which the registered command exits with 0
  Answer,         \* what a worker can say it did
  Decision,       \* the decisions a supervisor makes
  Objective,      \* the objectives a person can give
  AboutFile,      \* the criteria that speak of nothing but the file and its content
  Absent,         \* there is no file
  NoText,         \* a check that compares no content, an objective without a literal
  NoCheck,        \* no check of the file
  Open,           \* no acceptance contract has been frozen
  MaxIterations,  \* rounds of one run
  MaxResumes      \* how often a question is answered (a bound)

Content == Text \cup {Absent}

\* A check: that the file is missing or exists, holds a text, and what it proves
Check == [absent : BOOLEAN, text : Text \cup {NoText}, criteria : SUBSET Criterion]

\* What a person can ask: changes, execution, an answer grounded in the file, and
\* the exact content of the file, whose criterion is the first of the ledger
ObjectiveType == [changes : BOOLEAN, executes : BOOLEAN, reads : BOOLEAN,
                  literal : Text \cup {NoText}, criterion : SUBSET Criterion,
                  plan : {"TRIVIAL", "SIMPLE", "STANDARD"}]

ASSUME ObjectiveAssumption == Objective \subseteq ObjectiveType
ASSUME GreenAssumption == Green \subseteq Content
ASSUME BoundAssumption == MaxIterations \in Nat \ {0} /\ MaxResumes \in Nat

Registered == "registered"
Unregistered == "unregistered"

VARIABLES
  objective,      \* what the person asked
  baseline,       \* the file when the run began
  file,           \* the file as it is
  ledger,         \* criterion -> status, "absent" before it was stated
  pinned,         \* the expectation later decisions may only add criteria to
  requested,      \* the check the gate repeats
  commands,       \* the commands the gate repeats
  implementation, \* how far the measurements say the work is
  plan,           \* the complexity class
  frozen,         \* the criteria of the acceptance contract
  worker,         \* how the last worker of this loop ended
  reports,        \* the results of workers so far, equal ones counted once
  reads,          \* contents shown to the supervisor
  verified,       \* the verifications recorded so far, equal ones counted once
  memory,         \* what the guards remember: missions, batches, evidence, rejections
  fastPathTried,  \* the short path was offered
  barren,         \* rounds in a row that asked for unknown commands and proved nothing
  unresolved,     \* a task of a batch did not complete
  round,          \* the decision being carried out
  worked,         \* a worker ran in this round
  iteration,      \* the round, which a resumption repeats
  resumes,        \* resumptions so far
  pc, status

Guards == {"missions", "batches", "evidence", "rejections"}

objectVars == <<objective, baseline, resumes>>
guardVars == <<memory, fastPathTried, barren, unresolved>>
vars == <<objectVars, file, ledger, pinned, requested, commands, implementation, plan, frozen,
          worker, reports, reads, verified, guardVars, round, worked, iteration, pc, status>>

-----------------------------------------------------------------------------
(* Decisions *)

Tasks == {"IMPLEMENTATION", "REVIEW", "TEAM"}

\* What a supervisor can answer
DecisionType ==
  [action : {"delegate", "verify", "done", "blocked"}, task : Tasks, criteria : SUBSET Criterion,
   check : Check \cup {NoCheck}, commands : SUBSET {Registered, Unregistered},
   shows : BOOLEAN, cites : BOOLEAN]

ASSUME DecisionAssumption == Decision \subseteq DecisionType

\* What the parser lets through: a verification verifies or reads something, only
\* a delegation names a task, and citations belong to an answer grounded in files
Parsed(d) ==
  /\ d.action # "delegate" => d.task = "IMPLEMENTATION"
  /\ d.action = "verify" => d.commands # {} \/ d.check # NoCheck \/ d.shows
  /\ d.cites => d.action = "done" /\ objective.reads

\* The expectation of a path is the first one; later ones add criteria, and the
\* fields the first one left open
Merged(first, later) ==
  IF first = NoCheck THEN later
  ELSE [absent |-> first.absent \/ later.absent,
        text |-> IF first.text # NoText THEN first.text ELSE later.text,
        criteria |-> first.criteria \cup later.criteria]

ContractCheck(o) ==
  IF o.literal = NoText THEN NoCheck
  ELSE [absent |-> FALSE, text |-> o.literal, criteria |-> o.criterion]

\* The check of a decision: what it asks, else what is pinned, else the literal
Preserved(d) ==
  LET asked == CASE d.check # NoCheck -> d.check
                 [] d.check = NoCheck /\ d.action # "delegate" /\ pinned # NoCheck -> pinned
                 [] OTHER -> ContractCheck(objective)
  IN IF asked = NoCheck THEN NoCheck ELSE Merged(pinned, asked)

\* A small objective with a literal freezes its criteria with the first decision
Small == plan \in {"TRIVIAL", "SIMPLE"}

Frozen(d) ==
  IF objective.literal = NoText \/ ~Small THEN frozen
  ELSE IF frozen # Open THEN frozen ELSE d.criteria \cup objective.criterion

\* The decision as the loop takes it: criteria and check bound to the contract,
\* and one implementer for a small change
Bound(d) ==
  LET chk == Preserved(d)
      f == Frozen(d)
      bind == objective.literal # NoText /\ Small
  IN [d EXCEPT !.criteria = IF bind THEN f ELSE @ \cup objective.criterion,
               !.check = IF bind /\ chk # NoCheck
                         THEN [chk EXCEPT !.criteria = (@ \cap f) \cup (f \cap AboutFile)]
                         ELSE chk,
               !.task = IF d.action = "delegate" /\ Small /\ objective.changes
                        THEN "IMPLEMENTATION" ELSE @]

-----------------------------------------------------------------------------
(* Measurements *)

\* What can keep a measurement from telling anything
Trouble == {"none", "late", "unreadable"}

MeasuredMismatch == {"missing", "unexpectedly-present", "content-mismatch"}

\* Reading the file and comparing it; "none" when nothing was asked
Outcome(chk, trouble) ==
  CASE chk = NoCheck -> "none"
    [] chk # NoCheck /\ trouble = "unreadable" -> "read-error"
    [] OTHER -> CASE file = Absent /\ chk.absent -> "ok"
                  [] file = Absent /\ ~chk.absent -> "missing"
                  [] file # Absent /\ chk.absent -> "unexpectedly-present"
                  [] OTHER -> IF chk.text \in {NoText, file} THEN "ok" ELSE "content-mismatch"

\* Running the registered command, if it is among those to be run
Verdict(cmds, trouble) ==
  CASE Registered \notin cmds -> "none"
    [] Registered \in cmds /\ trouble = "late" -> "timeout"
    [] OTHER -> IF file \in Green THEN "pass" ELSE "fail"

Pending(l) == {c \in Criterion : l[c] \in {"unknown", "failed"}}

PendingFacts(l) == {<<c, l[c]>> : c \in Pending(l)}

Stated(l, cs) == [c \in Criterion |-> IF c \in cs /\ l[c] = "absent" THEN "unknown" ELSE l[c]]

Marked(l, cs, st) == [c \in Criterion |-> IF c \in cs /\ l[c] # "absent" THEN st ELSE l[c]]

\* A file check settles the criteria it names
MarkedByCheck(l, chk, out) ==
  IF chk = NoCheck THEN l ELSE Marked(l, chk.criteria, IF out = "ok" THEN "satisfied" ELSE "failed")

\* A command settles, with all the others of the decision, the criteria no check named
MarkedByCommands(l, d, verdict) ==
  LET named == IF d.check = NoCheck THEN {} ELSE d.check.criteria IN
  IF verdict = "none" THEN l
  ELSE Marked(l, d.criteria \ named,
              IF verdict = "pass" /\ Unregistered \notin d.commands THEN "satisfied" ELSE "failed")

\* Citations of contents the supervisor was shown prove an answer; exact bytes of
\* a requested change need none
Grounded(d, chk, out) ==
  \/ d.cites /\ reads # {}
  \/ objective.changes /\ chk # NoCheck /\ chk.text # NoText /\ out = "ok" /\ file # Absent

ProofMissing(d, chk, out) ==
  /\ d.action = "done" /\ objective.reads
  /\ \/ ~Grounded(d, chk, out)
     \/ ~objective.changes /\ ~objective.executes /\ file # baseline

-----------------------------------------------------------------------------
(* The gate *)

Reject(kind, about) == [kind |-> kind, about |-> about]

\* A mutant: a file that was checked in an earlier round is not held against finishing
FailuresWithoutReading(d, l, verdict, out) ==
  LET chk == requested
      r(b, kind, about) == IF b THEN {Reject(kind, about)} ELSE {}
      proven == out = "ok"
  IN UNION {
       r(objective.executes /\ verdict = "none", "MISSING_PROOF", "execution"),
       r(verdict = "timeout", "MECHANICAL_FAILURE", "command"),
       r(verdict = "fail", "FAILED_CRITERION", "command"),
       r(out = "read-error", "MECHANICAL_FAILURE", "file"),
       r(objective.reads /\ ~Grounded(d, chk, out), "MISSING_PROOF", "answer"),
       {Reject(IF l[c] = "failed" THEN "FAILED_CRITERION" ELSE "MISSING_PROOF", c) :
          c \in Pending(l)},
       r(objective.changes /\ ~proven /\ file = baseline, "UNVERIFIED_OUTPUT", "changes"),
       r(worker = "failed", "MECHANICAL_FAILURE", "worker")}

\* Everything the gate holds against finishing, the file and the command being
\* measured again
Failures(d, l, verdict, out) ==
  LET chk == requested
      r(b, kind, about) == IF b THEN {Reject(kind, about)} ELSE {}
      proven == out = "ok"
  IN UNION {
       r(objective.executes /\ verdict = "none", "MISSING_PROOF", "execution"),
       r(verdict = "timeout", "MECHANICAL_FAILURE", "command"),
       r(verdict = "fail", "FAILED_CRITERION", "command"),
       r(out = "read-error", "MECHANICAL_FAILURE", "file"),
       r(out \in MeasuredMismatch, "IMPLEMENTATION_MISMATCH", "file"),
       r(objective.reads /\ ~Grounded(d, chk, out), "MISSING_PROOF", "answer"),
       {Reject(IF l[c] = "failed" THEN "FAILED_CRITERION" ELSE "MISSING_PROOF", c) :
          c \in Pending(l)},
       r(objective.changes /\ ~proven /\ file = baseline, "UNVERIFIED_OUTPUT", "changes"),
       r(worker = "failed", "MECHANICAL_FAILURE", "worker")}

\* Only proof is missing: nothing measured speaks against the work
ProofOnly(fs) == fs # {} /\ \A f \in fs : f.kind \in {"MISSING_PROOF", "UNVERIFIED_OUTPUT"}

\* One evaluation: the ledger it leaves and what it found
Evaluated(d, l, trouble) ==
  LET verdict == Verdict(commands, trouble)
      out == Outcome(requested, trouble)
      l2 == MarkedByCheck(l, requested, out)
      fs == Failures(d, l2, verdict, out)
  IN [ledger |-> l2, failures |-> fs,
      fact |-> <<file, reads, PendingFacts(l2), fs, verdict, out>>]

-----------------------------------------------------------------------------
(* A round *)

NoRound == [action |-> "blocked", task |-> "IMPLEMENTATION", criteria |-> {}, check |-> NoCheck,
            commands |-> {}, shows |-> FALSE, cites |-> FALSE]

\* What belonged to the round goes with it
Forgets == round' = NoRound /\ worked' = FALSE

\* The round is over: another one, or the limit
NextRound(now) ==
  /\ Forgets
  /\ IF iteration < MaxIterations
     THEN iteration' = iteration + 1 /\ pc' = "ask" /\ status' = status
     ELSE /\ pc' = "over" /\ iteration' = iteration
          /\ status' = IF now # baseline THEN "PARTIAL" ELSE "FAILED"

EndsAs(st) == Forgets /\ status' = st /\ pc' = "over" /\ UNCHANGED iteration

Remember(guard, fact) == memory' = [memory EXCEPT ![guard] = @ \cup {fact}]

\* The budget is spent or no valid decision came
AskFails ==
  /\ pc = "ask"
  /\ \E st \in {"FAILED", "NEEDS_HUMAN"} : EndsAs(st)
  /\ UNCHANGED <<objectVars, file, ledger, pinned, requested, commands, implementation, plan, frozen,
                 worker, reports, reads, verified, guardVars>>

\* What work on equivalent context is recognised by
Mission(d, l, shown) == <<d.task, file, shown, PendingFacts(l), reports, verified>>
Batch(l, shown) == <<file, shown, PendingFacts(l), verified>>

\* A mutant: a verification that timed out contradicts as well
ContradictedByTimeout(chk, trouble) ==
  Outcome(chk, trouble) \in MeasuredMismatch \/ Verdict(commands, trouble) \in {"fail", "timeout"}

\* What the measurement says of a delegation to implement what is complete
Contradicted(chk, trouble) ==
  Outcome(chk, trouble) \in MeasuredMismatch \/ Verdict(commands, trouble) = "fail"

\* An implementation that is complete is not implemented again unless it is
\* contradicted: the decision becomes done.  A trivial task gets one implementer
\* unless its failure was measured, and is then no longer trivial.
Redirected(d, pin, trouble) ==
  LET again == d.action = "delegate" /\ d.task = "IMPLEMENTATION" /\ objective.changes
               /\ implementation = "COMPLETE"
      impl == IF again /\ Contradicted(pin, trouble) THEN "INCOMPLETE" ELSE implementation
      first == IF again /\ impl = "COMPLETE" THEN "done" ELSE d.action
      second == first = "delegate" /\ plan = "TRIVIAL" /\ worker # "none"
      action == IF second /\ impl # "INCOMPLETE" THEN "done" ELSE first
  IN [d |-> [d EXCEPT !.action = action, !.check = IF action # d.action THEN pin ELSE @],
      implementation |-> impl,
      plan |-> IF second /\ action = "delegate" THEN "SIMPLE" ELSE plan]

\* The decision is taken in: bound to the contract, redirected, stated in the
\* ledger, its reads made, and stopped when it asks for work already done
Decides(d, trouble) ==
  LET b == Bound(d)
      pin == IF b.check = NoCheck THEN pinned ELSE b.check
      r == Redirected(b, pin, trouble)
      l == Stated(ledger, r.d.criteria)
      shown == IF d.shows THEN reads \cup {file} ELSE reads
      mission == Mission(r.d, l, shown)
      known == r.d.action = "delegate" /\ mission \in memory["missions"]
      batch == r.d.action = "delegate" /\ r.d.task = "TEAM"
      again == batch /\ Batch(l, shown) \in memory["batches"]
      halted == r.d.action = "done" /\ unresolved
  IN /\ pc = "ask" /\ Parsed(d)
     /\ pinned' = pin /\ frozen' = Frozen(d)
     /\ implementation' = r.implementation /\ plan' = r.plan
     /\ ledger' = IF halted THEN ledger ELSE l
     /\ reads' = IF halted THEN reads ELSE shown
     /\ memory' = [memory EXCEPT
                     !["missions"] = IF r.d.action = "delegate" THEN @ \cup {mission} ELSE @,
                     !["batches"] = IF batch /\ ~known THEN @ \cup {Batch(l, shown)} ELSE @]
     /\ CASE halted \/ known \/ again -> EndsAs("NEEDS_HUMAN")
          [] ~(halted \/ known \/ again) /\ r.d.action = "blocked" -> EndsAs("BLOCKED")
          [] OTHER -> /\ pc' = IF r.d.action # "delegate" THEN "measure"
                               ELSE IF batch THEN "batch" ELSE "work"
                      /\ round' = r.d /\ worked' = FALSE
                      /\ UNCHANGED <<iteration, status>>
     /\ UNCHANGED <<objectVars, file, requested, commands, worker, reports, verified,
                    fastPathTried, barren, unresolved>>

\* Nobody of the team can do the task
WorkerRefused ==
  /\ pc = "work"
  /\ NextRound(file)
  /\ UNCHANGED <<objectVars, file, ledger, pinned, requested, commands, implementation, plan, frozen,
                 worker, reports, reads, verified, guardVars>>

\* The worker has answered, whatever it did to the file
WorkerEnds(content, answer, clean) ==
  /\ pc = "work"
  /\ file' = content
  /\ worker' = IF clean THEN "clean" ELSE "failed"
  /\ worked' = TRUE
  /\ reports' = reports \cup {<<clean, answer>>}
  /\ pc' = "measure"
  /\ UNCHANGED <<objectVars, ledger, pinned, requested, commands, implementation, plan, frozen,
                 reads, verified, guardVars, round, iteration, status>>

\* The worker failed in a way another attempt does not mend: a refused tool, an
\* empty balance, a context that did not arrive
WorkerStops(content, st) ==
  /\ pc = "work"
  /\ file' = content /\ worker' = "failed" /\ Forgets
  /\ status' = st /\ pc' = IF st = "NEEDS_HUMAN" THEN "waiting" ELSE "over"
  /\ UNCHANGED <<objectVars, ledger, pinned, requested, commands, implementation, plan, frozen,
                 reports, reads, verified, guardVars, iteration>>

\* The tasks of a batch have been joined
BatchJoined(content, answer, open) ==
  /\ pc = "batch"
  /\ file' = content
  /\ reports' = reports \cup {<<~open, answer>>}
  /\ unresolved' = open
  /\ NextRound(content)
  /\ UNCHANGED <<objectVars, ledger, pinned, requested, commands, implementation, plan, frozen,
                 worker, reads, verified, memory, fastPathTried, barren>>

\* What the measurements of the round say of the work
ImplementationAfter(out, verdict, allPassed) ==
  CASE out \in MeasuredMismatch \/ verdict \in {"fail", "timeout"} -> "INCOMPLETE"
    [] ~(out \in MeasuredMismatch \/ verdict \in {"fail", "timeout"}) /\ allPassed
       /\ worked /\ worker = "clean" -> "COMPLETE"
    [] OTHER -> implementation

\* The evidence of the round: command, file, criteria, completion; then the gate,
\* by the short path or because the supervisor says done, or the next round
Measures(trouble) ==
  LET d == round
      verdict == Verdict(d.commands, trouble)
      out == Outcome(d.check, trouble)
      l1 == MarkedByCommands(MarkedByCheck(ledger, d.check, out), d, verdict)
      l2 == IF d.cites /\ ~ProofMissing(d, d.check, out) THEN Marked(l1, d.criteria, "satisfied") ELSE l1
      allPassed == /\ verdict # "none" \/ out # "none"
                   /\ verdict \in {"none", "pass"} /\ out \in {"none", "ok"}
                   /\ Unregistered \notin d.commands
      impl == ImplementationAfter(out, verdict, allPassed)
      fast == /\ ~fastPathTried /\ allPassed
              /\ \/ d.action = "delegate" /\ worked /\ worker = "clean"
                 \/ d.action = "verify" /\ impl = "COMPLETE"
              /\ \/ file # baseline
                 \/ out = "ok" /\ d.check.text # NoText /\ file # Absent
              /\ d.criteria # {} /\ \A c \in d.criteria : l2[c] = "satisfied"
      idle == Unregistered \in d.commands /\ verdict = "none" /\ out = "none" /\ Pending(l2) # {}
      fact == <<file, reads, verdict, out, PendingFacts(l2)>>
      gated == fast \/ d.action = "done"
  IN /\ pc = "measure"
     /\ ledger' = l2
     /\ implementation' = impl
     /\ commands' = commands \cup (d.commands \cap {Registered})
     /\ requested' = IF d.check = NoCheck THEN requested ELSE d.check
     /\ verified' = verified \cup (IF verdict = "none" THEN {} ELSE {<<"command", verdict>>})
                             \cup (IF out = "none" THEN {} ELSE {<<"file", IF out = "ok" THEN "pass" ELSE "fail">>})
     /\ fastPathTried' = (fastPathTried \/ fast)
     /\ barren' = IF gated THEN barren ELSE IF idle THEN barren + 1 ELSE 0
     /\ IF gated \/ barren' = 2 THEN UNCHANGED memory ELSE Remember("evidence", fact)
     /\ CASE gated -> pc' = "gate" /\ UNCHANGED <<iteration, status, round, worked>>
          [] ~gated /\ barren' = 2 -> EndsAs("NEEDS_HUMAN")
          [] ~gated /\ barren' < 2 /\ fact \in memory["evidence"] -> EndsAs("FAILED")
          [] OTHER -> NextRound(file)
     /\ UNCHANGED <<objectVars, file, pinned, plan, frozen, worker, reports, reads, unresolved>>

\* The gate measures everything again.  When only proof is missing and the work is
\* complete it collects once more; what was rejected on the same facts ends the run
GateDecides(first, second) ==
  LET e1 == Evaluated(round, ledger, first)
      recover == ProofOnly(e1.failures) /\ implementation = "COMPLETE"
      e2 == IF recover THEN Evaluated(round, e1.ledger, second) ELSE e1
      seen == memory["rejections"]
      seen1 == IF recover THEN seen \cup {e1.fact} ELSE seen
      repeated == \/ recover /\ e1.fact \in seen
                  \/ e2.failures # {} /\ e2.fact \in (IF recover THEN seen1 ELSE seen)
                     /\ (recover => ProofOnly(e2.failures))
      late == recover /\ e2.failures # {} /\ ~ProofOnly(e2.failures) /\ e2.fact \in seen1
  IN /\ pc = "gate"
     /\ ledger' = e2.ledger
     /\ memory' = [memory EXCEPT !["rejections"] =
                     seen1 \cup (IF e2.failures # {} THEN {e2.fact} ELSE {})]
     /\ CASE repeated \/ late -> EndsAs("FAILED")
          [] ~(repeated \/ late) /\ e2.failures = {} -> EndsAs("DONE")
          [] OTHER -> NextRound(file)
     /\ UNCHANGED <<objectVars, file, pinned, requested, commands, implementation, plan, frozen, worker,
                    reports, reads, verified, fastPathTried, barren, unresolved>>

\* A question of the run was answered: a new loop goes on with the next rounds.
\* Only the contract, the pinned checks and the frozen criteria were saved.
Resumes ==
  LET saved == IF objective.literal # NoText THEN ContractCheck(objective) ELSE pinned IN
  /\ pc = "waiting"
  /\ resumes < MaxResumes /\ resumes' = resumes + 1
  /\ pc' = "ask" /\ status' = "RUNNING"
  /\ ledger' = Stated([c \in Criterion |-> "absent"], objective.criterion)
  /\ pinned' = saved /\ requested' = saved /\ commands' = {}
  /\ implementation' = "PENDING" /\ plan' = objective.plan
  /\ worker' = "none" /\ reads' = {}
  /\ memory' = [g \in Guards |-> {}]
  /\ fastPathTried' = FALSE /\ barren' = 0 /\ unresolved' = FALSE
  /\ baseline' = file
  /\ UNCHANGED <<objective, file, frozen, reports, verified, round, worked, iteration>>

-----------------------------------------------------------------------------
Init ==
  /\ objective \in Objective
  /\ file \in Content /\ baseline = file
  /\ ledger = Stated([c \in Criterion |-> "absent"], objective.criterion)
  /\ pinned = ContractCheck(objective) /\ requested = pinned
  /\ commands = {} /\ implementation = "PENDING" /\ plan = objective.plan /\ frozen = Open
  /\ worker = "none" /\ reports = {} /\ reads = {} /\ verified = {}
  /\ memory = [g \in Guards |-> {}]
  /\ fastPathTried = FALSE /\ barren = 0 /\ unresolved = FALSE
  /\ round = NoRound /\ worked = FALSE
  /\ iteration = 1 /\ resumes = 0 /\ pc = "ask" /\ status = "RUNNING"

Next ==
  \/ AskFails
  \/ \E d \in Decision, t \in Trouble : Decides(d, t)
  \/ WorkerRefused
  \/ \E content \in Content, answer \in Answer, clean \in BOOLEAN : WorkerEnds(content, answer, clean)
  \/ \E content \in Content, st \in {"NEEDS_HUMAN", "FAILED"} : WorkerStops(content, st)
  \/ \E content \in Content, answer \in Answer, open \in BOOLEAN : BatchJoined(content, answer, open)
  \/ \E t \in Trouble : Measures(t)
  \/ \E t, u \in Trouble : GateDecides(t, u)
  \/ Resumes

Spec == Init /\ [][Next]_vars

-----------------------------------------------------------------------------
(* Properties *)

TypeOK ==
  /\ objective \in Objective /\ baseline \in Content /\ file \in Content
  /\ ledger \in [Criterion -> {"absent", "unknown", "satisfied", "failed"}]
  /\ pinned \in Check \cup {NoCheck} /\ requested \in Check \cup {NoCheck}
  /\ commands \subseteq {Registered}
  /\ implementation \in {"PENDING", "COMPLETE", "INCOMPLETE"}
  /\ plan \in {"TRIVIAL", "SIMPLE", "STANDARD"}
  /\ frozen \in (SUBSET Criterion) \cup {Open}
  /\ worker \in {"none", "clean", "failed"} /\ worked \in BOOLEAN
  /\ reports \subseteq BOOLEAN \X Answer /\ reads \subseteq Content
  /\ DOMAIN memory = Guards /\ fastPathTried \in BOOLEAN /\ barren \in 0..2 /\ unresolved \in BOOLEAN
  /\ iteration \in 1..MaxIterations /\ resumes \in 0..MaxResumes
  /\ pc \in {"ask", "work", "batch", "measure", "gate", "waiting", "over"}
  /\ status \in {"RUNNING", "DONE", "NEEDS_HUMAN", "FAILED", "BLOCKED", "PARTIAL"}

\* A run is only done on what its gate measured last: every criterion of the
\* ledger is satisfied, the file is what the requested check expects and the
\* command passes on it, the last worker ended cleanly, and a change that was
\* asked for is there or was found to be there already (done-gate.ts:3-8, 46-49).
DoneIsMeasured ==
  status = "DONE" =>
    /\ Pending(ledger) = {}
    /\ Outcome(requested, "none") \in {"none", "ok"}
    /\ Verdict(commands, "none") \in {"none", "pass"}
    /\ worker # "failed"
    /\ objective.changes => file # baseline \/ requested # NoCheck
    /\ \A c \in objective.criterion : ledger[c] = "satisfied"

\* What is complete is not implemented again while nothing measured contradicts
\* it (completion-state.ts:16).
ProofIsNotRework ==
  [][pc = "ask" /\ pc' = "work" /\ implementation = "COMPLETE" /\ objective.changes
       /\ round'.task = "IMPLEMENTATION"
     => \/ Outcome(pinned', "none") \in MeasuredMismatch
        \/ Verdict(commands, "none") = "fail"]_vars
=============================================================================
