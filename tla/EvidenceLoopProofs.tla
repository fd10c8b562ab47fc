-------------------------- MODULE EvidenceLoopProofs --------------------------
(* Proofs about EvidenceLoop, for any criteria, contents, decisions and        *)
(* objectives, any number of rounds and of resumptions.                        *)
EXTENDS EvidenceLoop, TLAPS

Status == {"absent", "unknown", "satisfied", "failed"}
CheckOrNone == Check \cup {NoCheck}

(* The round is a decision, the rounds that proved nothing are few while the   *)
(* run goes on, and only a run that is over is done.                           *)
RoundOK ==
  /\ round \in DecisionType
  /\ pc # "over" => barren \in 0..1
  /\ status = "DONE" => pc = "over"

(* The criterion of the objective is in the ledger from the beginning.         *)
CriterionStated == \A c \in objective.criterion : ledger[c] # "absent"

Inv == TypeOK /\ RoundOK /\ CriterionStated

-----------------------------------------------------------------------------
(* What the operators return *)

LEMMA ObjectiveFields ==
  ASSUME TypeOK
  PROVE  /\ objective.changes \in BOOLEAN /\ objective.executes \in BOOLEAN
         /\ objective.reads \in BOOLEAN /\ objective.literal \in Text \cup {NoText}
         /\ objective.criterion \in SUBSET Criterion
         /\ objective.plan \in {"TRIVIAL", "SIMPLE", "STANDARD"}
  BY ObjectiveAssumption DEF TypeOK, ObjectiveType

LEMMA DecisionFields ==
  ASSUME NEW d \in DecisionType
  PROVE  /\ d.action \in {"delegate", "verify", "done", "blocked"} /\ d.task \in Tasks
         /\ d.criteria \in SUBSET Criterion /\ d.check \in CheckOrNone
         /\ d.commands \in SUBSET {Registered, Unregistered}
         /\ d.shows \in BOOLEAN /\ d.cites \in BOOLEAN
  BY DEF DecisionType, CheckOrNone

LEMMA NoRoundType == NoRound \in DecisionType
  BY DEF NoRound, DecisionType, Tasks

LEMMA StatedType ==
  ASSUME NEW l \in [Criterion -> Status], NEW cs
  PROVE  /\ Stated(l, cs) \in [Criterion -> Status]
         /\ \A c \in Criterion : l[c] # "absent" => Stated(l, cs)[c] # "absent"
         /\ \A c \in Criterion : c \in cs => Stated(l, cs)[c] # "absent"
  BY DEF Stated, Status

LEMMA MarkedType ==
  ASSUME NEW l \in [Criterion -> Status], NEW cs, NEW st \in Status \ {"absent"}
  PROVE  /\ Marked(l, cs, st) \in [Criterion -> Status]
         /\ \A c \in Criterion : l[c] # "absent" => Marked(l, cs, st)[c] # "absent"
  BY DEF Marked, Status

LEMMA MarkedByCheckType ==
  ASSUME NEW l \in [Criterion -> Status], NEW chk, NEW out
  PROVE  /\ MarkedByCheck(l, chk, out) \in [Criterion -> Status]
         /\ \A c \in Criterion : l[c] # "absent" => MarkedByCheck(l, chk, out)[c] # "absent"
<1>1. (IF out = "ok" THEN "satisfied" ELSE "failed") \in Status \ {"absent"}
  BY DEF Status
<1> QED
  BY <1>1, MarkedType DEF MarkedByCheck

LEMMA MarkedByCommandsType ==
  ASSUME NEW l \in [Criterion -> Status], NEW d, NEW verdict
  PROVE  /\ MarkedByCommands(l, d, verdict) \in [Criterion -> Status]
         /\ \A c \in Criterion : l[c] # "absent" => MarkedByCommands(l, d, verdict)[c] # "absent"
<1>1. "satisfied" \in Status \ {"absent"} /\ "failed" \in Status \ {"absent"}
  BY DEF Status
<1>2. PICK named : named = IF d.check = NoCheck THEN {} ELSE d.check.criteria
  OBVIOUS
<1>3. PICK st : st = IF verdict = "pass" /\ Unregistered \notin d.commands
                     THEN "satisfied" ELSE "failed"
  OBVIOUS
<1>4. MarkedByCommands(l, d, verdict) = IF verdict = "none" THEN l ELSE Marked(l, d.criteria \ named, st)
  BY <1>2, <1>3 DEF MarkedByCommands
<1> QED
  BY <1>1, <1>3, <1>4, MarkedType

LEMMA ContractCheckType ==
  ASSUME TypeOK
  PROVE  ContractCheck(objective) \in CheckOrNone
  BY ObjectiveFields DEF ContractCheck, CheckOrNone, Check

LEMMA MergedType ==
  ASSUME NEW first \in CheckOrNone, NEW later \in Check
  PROVE  Merged(first, later) \in Check
  BY DEF Merged, CheckOrNone, Check

LEMMA PreservedType ==
  ASSUME TypeOK, NEW d \in DecisionType
  PROVE  Preserved(d) \in CheckOrNone
<1> DEFINE asked == CASE d.check # NoCheck -> d.check
                      [] d.check = NoCheck /\ d.action # "delegate" /\ pinned # NoCheck -> pinned
                      [] OTHER -> ContractCheck(objective)
<1>1. d.check \in CheckOrNone /\ pinned \in CheckOrNone /\ ContractCheck(objective) \in CheckOrNone
  BY DecisionFields, ContractCheckType DEF TypeOK, CheckOrNone
<1>2. asked \in CheckOrNone
  BY <1>1
<1>3. Preserved(d) = IF asked = NoCheck THEN NoCheck ELSE Merged(pinned, asked)
  BY DEF Preserved
<1> HIDE DEF asked
<1> QED
  BY <1>1, <1>2, <1>3, MergedType DEF CheckOrNone

LEMMA FrozenType ==
  ASSUME TypeOK, NEW d \in DecisionType
  PROVE  /\ Frozen(d) \in (SUBSET Criterion) \cup {Open}
         /\ objective.literal # NoText /\ Small => Frozen(d) \in SUBSET Criterion
  BY ObjectiveFields, DecisionFields DEF TypeOK, Frozen

LEMMA BoundType ==
  ASSUME TypeOK, NEW d \in DecisionType
  PROVE  /\ Bound(d) \in DecisionType /\ Bound(d).action = d.action
<1>1. PICK chk, f : chk = Preserved(d) /\ f = Frozen(d)
  OBVIOUS
<1> DEFINE bind == objective.literal # NoText /\ Small
           cs == IF bind THEN f ELSE d.criteria \cup objective.criterion
           ch == IF bind /\ chk # NoCheck
                 THEN [chk EXCEPT !.criteria = (chk.criteria \cap f) \cup (f \cap AboutFile)]
                 ELSE chk
           ta == IF d.action = "delegate" /\ Small /\ objective.changes
                 THEN "IMPLEMENTATION" ELSE d.task
<1>2. Bound(d) = [d EXCEPT !.criteria = cs, !.check = ch, !.task = ta]
  BY <1>1 DEF Bound
<1>3. chk \in CheckOrNone /\ (bind => f \in SUBSET Criterion)
  BY <1>1, PreservedType, FrozenType
<1>4. cs \in SUBSET Criterion
  BY <1>3, ObjectiveFields, DecisionFields
<1>5. ch \in CheckOrNone
  BY <1>3 DEF CheckOrNone, Check
<1>6. ta \in Tasks
  BY DecisionFields DEF Tasks
<1> HIDE DEF cs, ch, ta
<1> QED
  BY <1>2, <1>4, <1>5, <1>6 DEF DecisionType, CheckOrNone

(* Redirecting a decision keeps it one, with the pinned check when it changes. *)
LEMMA RedirectedType ==
  ASSUME TypeOK, NEW d \in DecisionType, NEW pin \in CheckOrNone, NEW trouble
  PROVE  LET r == Redirected(d, pin, trouble)
         IN  /\ r.d \in DecisionType
             /\ r.implementation \in {"PENDING", "COMPLETE", "INCOMPLETE"}
             /\ r.plan \in {"TRIVIAL", "SIMPLE", "STANDARD"}
             /\ r.d.task = d.task
             /\ r.d.action \in {d.action, "done"}
             /\ /\ d.action = "delegate" /\ d.task = "IMPLEMENTATION" /\ objective.changes
                /\ implementation = "COMPLETE" /\ ~ Contradicted(pin, trouble)
                => r.d.action = "done"
<1> DEFINE again == d.action = "delegate" /\ d.task = "IMPLEMENTATION" /\ objective.changes
                    /\ implementation = "COMPLETE"
           impl == IF again /\ Contradicted(pin, trouble) THEN "INCOMPLETE" ELSE implementation
           first == IF again /\ impl = "COMPLETE" THEN "done" ELSE d.action
           second == first = "delegate" /\ plan = "TRIVIAL" /\ worker # "none"
           action == IF second /\ impl # "INCOMPLETE" THEN "done" ELSE first
           dd == [d EXCEPT !.action = action, !.check = IF action # d.action THEN pin ELSE @]
           pl == IF second /\ action = "delegate" THEN "SIMPLE" ELSE plan
<1>1. Redirected(d, pin, trouble) = [d |-> dd, implementation |-> impl, plan |-> pl]
  BY DEF Redirected
<1>2. impl \in {"PENDING", "COMPLETE", "INCOMPLETE"}
  BY DEF TypeOK
<1>3. pl \in {"TRIVIAL", "SIMPLE", "STANDARD"}
  BY DEF TypeOK
<1>4. action \in {d.action, "done"}
  OBVIOUS
<1>5. again /\ ~ Contradicted(pin, trouble) => action = "done"
  OBVIOUS
<1> HIDE DEF impl, pl, action
<1>6. dd \in DecisionType /\ dd.action = action /\ dd.task = d.task
  BY <1>4, DecisionFields DEF DecisionType, CheckOrNone
<1> HIDE DEF dd
<1> QED
  BY <1>1, <1>2, <1>3, <1>4, <1>5, <1>6

(* What ends a round, whatever its new status.                                 *)
LEMMA RoundEnds ==
  ASSUME Inv, pc # "over",
         \/ \E now : NextRound(now)
         \/ \E st \in {"NEEDS_HUMAN", "FAILED", "BLOCKED"} : EndsAs(st)
  PROVE  /\ round' = NoRound /\ worked' = FALSE /\ iteration' \in 1..MaxIterations
         /\ pc' \in {"ask", "over"}
         /\ status' \in {"RUNNING", "NEEDS_HUMAN", "FAILED", "BLOCKED", "PARTIAL"}
<1>1. iteration \in 1..MaxIterations /\ status \in {"RUNNING", "NEEDS_HUMAN", "FAILED", "BLOCKED", "PARTIAL"}
  BY DEF Inv, TypeOK, RoundOK
<1>2. ASSUME NEW now, NextRound(now)
      PROVE  /\ round' = NoRound /\ worked' = FALSE /\ iteration' \in 1..MaxIterations
             /\ pc' \in {"ask", "over"}
             /\ status' \in {"RUNNING", "NEEDS_HUMAN", "FAILED", "BLOCKED", "PARTIAL"}
  BY <1>1, <1>2, BoundAssumption DEF NextRound, Forgets
<1>3. ASSUME NEW st \in {"NEEDS_HUMAN", "FAILED", "BLOCKED"}, EndsAs(st)
      PROVE  /\ round' = NoRound /\ worked' = FALSE /\ iteration' \in 1..MaxIterations
             /\ pc' \in {"ask", "over"}
             /\ status' \in {"RUNNING", "NEEDS_HUMAN", "FAILED", "BLOCKED", "PARTIAL"}
  BY <1>1, <1>3 DEF EndsAs, Forgets
<1> QED
  BY <1>2, <1>3

-----------------------------------------------------------------------------
(* The invariant *)

LEMMA InitInv == Init => Inv
<1> SUFFICES ASSUME Init PROVE Inv
  OBVIOUS
<1>1. [c \in Criterion |-> "absent"] \in [Criterion -> Status]
  BY DEF Status
<1>2. ledger \in [Criterion -> Status] /\ CriterionStated
  BY <1>1, StatedType, ObjectiveAssumption DEF Init, CriterionStated, ObjectiveType
<1>3. objective \in ObjectiveType
  BY ObjectiveAssumption DEF Init
<1>4. ContractCheck(objective) \in CheckOrNone
  BY <1>3 DEF ContractCheck, CheckOrNone, Check, ObjectiveType
<1>5. TypeOK
  <2>1. objective \in Objective /\ baseline \in Content /\ file \in Content
        /\ ledger \in [Criterion -> {"absent", "unknown", "satisfied", "failed"}]
    BY <1>2 DEF Init, Status
  <2>2. pinned \in Check \cup {NoCheck} /\ requested \in Check \cup {NoCheck}
    BY <1>4 DEF Init, CheckOrNone
  <2>3. plan \in {"TRIVIAL", "SIMPLE", "STANDARD"}
    BY <1>3 DEF Init, ObjectiveType
  <2>4. DOMAIN memory = Guards /\ reports = {} /\ reads = {} /\ commands = {}
    BY DEF Init
  <2>5. iteration \in 1..MaxIterations /\ resumes \in 0..MaxResumes /\ barren \in 0..2
    BY BoundAssumption DEF Init
  <2>6. /\ implementation = "PENDING" /\ frozen = Open /\ worker = "none" /\ worked = FALSE
        /\ fastPathTried = FALSE /\ unresolved = FALSE /\ pc = "ask" /\ status = "RUNNING"
    BY DEF Init
  <2> QED
    BY <2>1, <2>2, <2>3, <2>4, <2>5, <2>6 DEF TypeOK
<1>6. RoundOK
  BY NoRoundType DEF Init, RoundOK
<1> QED
  BY <1>2, <1>5, <1>6 DEF Inv

LEMMA AskFailsInv == Inv /\ AskFails => Inv'
<1> SUFFICES ASSUME Inv, AskFails PROVE Inv'
  OBVIOUS
<1>1. /\ round' = NoRound /\ worked' = FALSE /\ UNCHANGED iteration
      /\ pc' = "over" /\ status' \in {"FAILED", "NEEDS_HUMAN"}
  BY DEF AskFails, EndsAs, Forgets
<1>2. /\ objective' = objective /\ baseline' = baseline /\ resumes' = resumes /\ file' = file
      /\ ledger' = ledger /\ pinned' = pinned /\ requested' = requested /\ commands' = commands
      /\ implementation' = implementation /\ plan' = plan /\ frozen' = frozen /\ worker' = worker
      /\ reports' = reports /\ reads' = reads /\ memory' = memory
      /\ fastPathTried' = fastPathTried /\ barren' = barren /\ unresolved' = unresolved
  BY DEF AskFails, objectVars, guardVars
<1>3. TypeOK'
  BY <1>1, <1>2 DEF Inv, TypeOK
<1>4. RoundOK'
  BY <1>1, NoRoundType DEF RoundOK
<1>5. CriterionStated'
  BY <1>2 DEF Inv, CriterionStated
<1> QED
  BY <1>3, <1>4, <1>5 DEF Inv

LEMMA DecidesInv == ASSUME Inv, NEW d \in Decision, NEW trouble, Decides(d, trouble) PROVE Inv'
<1>1. d \in DecisionType /\ TypeOK /\ pc = "ask"
  BY DecisionAssumption DEF Inv, Decides
<1>2. PICK b : b = Bound(d)
  OBVIOUS
<1>3. b \in DecisionType
  BY <1>1, <1>2, BoundType
<1>4. PICK pin : pin = IF b.check = NoCheck THEN pinned ELSE b.check
  OBVIOUS
<1>5. pin \in CheckOrNone
  BY <1>1, <1>3, <1>4, DecisionFields DEF TypeOK, CheckOrNone
<1>6. PICK r : r = Redirected(b, pin, trouble)
  OBVIOUS
<1>7. /\ r.d \in DecisionType /\ r.implementation \in {"PENDING", "COMPLETE", "INCOMPLETE"}
      /\ r.plan \in {"TRIVIAL", "SIMPLE", "STANDARD"}
  BY <1>1, <1>3, <1>5, <1>6, RedirectedType
<1>8. PICK l : l = Stated(ledger, r.d.criteria)
  OBVIOUS
<1>9. ledger \in [Criterion -> Status] /\ l \in [Criterion -> Status]
      /\ \A c \in Criterion : ledger[c] # "absent" => l[c] # "absent"
  BY <1>1, <1>8, StatedType DEF TypeOK, Status
<1>10. Frozen(d) \in (SUBSET Criterion) \cup {Open}
  BY <1>1, FrozenType
<1>11. ledger' \in {ledger, l} /\ pinned' = pin /\ implementation' = r.implementation
       /\ plan' = r.plan /\ reads' \in {reads, reads \cup {file}} /\ frozen' = Frozen(d)
       /\ DOMAIN memory' = Guards
  BY <1>2, <1>4, <1>6, <1>8, <1>1 DEF Decides, TypeOK
<1>12. UNCHANGED <<objectVars, file, requested, commands, worker, reports, verified,
                   fastPathTried, barren, unresolved>>
  BY DEF Decides
<1>13. /\ round' \in DecisionType /\ worked' = FALSE /\ iteration' \in 1..MaxIterations
       /\ pc' \in {"ask", "over", "measure", "batch", "work"}
       /\ status' \in {"RUNNING", "NEEDS_HUMAN", "FAILED", "BLOCKED", "PARTIAL"}
  <2>1. CASE \E st \in {"NEEDS_HUMAN", "BLOCKED"} : EndsAs(st)
    BY <1>1, <2>1, RoundEnds, NoRoundType
  <2>2. CASE /\ pc' \in {"measure", "batch", "work"}
             /\ round' = r.d /\ worked' = FALSE /\ UNCHANGED <<iteration, status>>
    BY <1>1, <1>7, <2>2 DEF Inv, TypeOK, RoundOK
  <2> QED
    BY <2>1, <2>2, <1>2, <1>4, <1>6, <1>8 DEF Decides
<1>14. TypeOK'
  <2>1. /\ objective' = objective /\ baseline' = baseline /\ file' = file /\ resumes' = resumes
        /\ requested' = requested /\ commands' = commands /\ worker' = worker
        /\ reports' = reports /\ fastPathTried' = fastPathTried /\ barren' = barren
        /\ unresolved' = unresolved
    BY <1>12 DEF objectVars
  <2>2. ledger' \in [Criterion -> {"absent", "unknown", "satisfied", "failed"}]
    BY <1>9, <1>11 DEF Status
  <2>3. pinned' \in Check \cup {NoCheck} /\ reads' \subseteq Content
    BY <1>1, <1>5, <1>11 DEF CheckOrNone, TypeOK
  <2>4. /\ implementation' \in {"PENDING", "COMPLETE", "INCOMPLETE"}
        /\ plan' \in {"TRIVIAL", "SIMPLE", "STANDARD"}
        /\ frozen' \in (SUBSET Criterion) \cup {Open} /\ DOMAIN memory' = Guards
    BY <1>7, <1>10, <1>11
  <2> QED
    BY <1>1, <1>13, <2>1, <2>2, <2>3, <2>4 DEF TypeOK
<1>15. RoundOK'
  BY <1>1, <1>12, <1>13 DEF Inv, RoundOK
<1>16. CriterionStated'
  BY <1>1, <1>9, <1>11, <1>12, ObjectiveFields DEF Inv, CriterionStated, objectVars
<1> QED
  BY <1>14, <1>15, <1>16 DEF Inv

LEMMA RefusedInv == ASSUME Inv, WorkerRefused PROVE Inv'
<1>1. /\ round' = NoRound /\ worked' = FALSE /\ iteration' \in 1..MaxIterations
      /\ pc' \in {"ask", "over"}
      /\ status' \in {"RUNNING", "NEEDS_HUMAN", "FAILED", "BLOCKED", "PARTIAL"}
  BY RoundEnds DEF WorkerRefused
<1>2. UNCHANGED <<objectVars, file, ledger, pinned, requested, commands, implementation, plan,
                  frozen, worker, reports, reads, verified, guardVars>>
  BY DEF WorkerRefused
<1>3. TypeOK'
  <2>1. /\ objective' = objective /\ baseline' = baseline /\ resumes' = resumes
        /\ file' = file /\ ledger' = ledger /\ pinned' = pinned /\ requested' = requested
        /\ commands' = commands /\ implementation' = implementation /\ plan' = plan
        /\ frozen' = frozen /\ worker' = worker /\ reports' = reports /\ reads' = reads
        /\ memory' = memory /\ fastPathTried' = fastPathTried /\ barren' = barren
        /\ unresolved' = unresolved
    BY <1>2 DEF objectVars, guardVars
  <2>2. TypeOK
    BY DEF Inv
  <2>3. /\ objective' \in Objective /\ baseline' \in Content /\ file' \in Content
        /\ ledger' \in [Criterion -> {"absent", "unknown", "satisfied", "failed"}]
        /\ pinned' \in Check \cup {NoCheck} /\ requested' \in Check \cup {NoCheck}
        /\ commands' \subseteq {Registered} /\ frozen' \in (SUBSET Criterion) \cup {Open}
    BY <1>1, <2>1, <2>2 DEF TypeOK
  <2>4. /\ implementation' \in {"PENDING", "COMPLETE", "INCOMPLETE"}
        /\ plan' \in {"TRIVIAL", "SIMPLE", "STANDARD"} /\ worker' \in {"none", "clean", "failed"}
        /\ reports' \subseteq BOOLEAN \X Answer /\ reads' \subseteq Content
        /\ DOMAIN memory' = Guards /\ barren' \in 0..2 /\ resumes' \in 0..MaxResumes
    BY <1>1, <2>1, <2>2 DEF TypeOK
  <2>5. fastPathTried' \in BOOLEAN /\ unresolved' \in BOOLEAN /\ worked' \in BOOLEAN
    BY <1>1, <2>1, <2>2 DEF TypeOK
  <2> QED
    BY <1>1, <2>3, <2>4, <2>5 DEF TypeOK
<1>4. RoundOK' /\ CriterionStated'
  BY <1>1, <1>2, NoRoundType
     DEF Inv, WorkerRefused, RoundOK, CriterionStated, objectVars, guardVars
<1> QED
  BY <1>3, <1>4 DEF Inv

LEMMA StopsInv ==
  ASSUME Inv, NEW content \in Content, NEW st \in {"NEEDS_HUMAN", "FAILED"}, WorkerStops(content, st)
  PROVE  Inv'
  BY NoRoundType
     DEF Inv, WorkerStops, Forgets, TypeOK, RoundOK, CriterionStated, objectVars, guardVars

LEMMA WorkerInv ==
  ASSUME Inv, NEW content \in Content, NEW answer \in Answer, NEW clean \in BOOLEAN,
         WorkerEnds(content, answer, clean) \/ BatchJoined(content, answer, clean)
  PROVE  Inv'
<1>1. CASE WorkerEnds(content, answer, clean)
  <2>1. <<clean, answer>> \in BOOLEAN \X Answer
    OBVIOUS
  <2> QED
    BY <1>1, <2>1 DEF Inv, WorkerEnds, TypeOK, RoundOK, CriterionStated, objectVars, guardVars
<1>2. CASE BatchJoined(content, answer, clean)
  <2>1. <<~clean, answer>> \in BOOLEAN \X Answer
    OBVIOUS
  <2>2. /\ round' = NoRound /\ worked' = FALSE /\ iteration' \in 1..MaxIterations
        /\ pc' \in {"ask", "over"}
        /\ status' \in {"RUNNING", "NEEDS_HUMAN", "FAILED", "BLOCKED", "PARTIAL"}
    BY <1>2, RoundEnds DEF BatchJoined
  <2>3. /\ UNCHANGED <<objectVars, ledger, pinned, requested, commands, implementation, plan,
                       frozen, worker, reads, verified, memory, fastPathTried, barren>>
        /\ file' = content /\ reports' = reports \cup {<<~clean, answer>>} /\ unresolved' = clean
    BY <1>2 DEF BatchJoined
  <2>4. TypeOK'
    <3>1. /\ objective' = objective /\ baseline' = baseline /\ resumes' = resumes
          /\ ledger' = ledger /\ pinned' = pinned /\ requested' = requested
          /\ commands' = commands /\ implementation' = implementation /\ plan' = plan
          /\ frozen' = frozen /\ worker' = worker /\ reads' = reads
          /\ memory' = memory /\ fastPathTried' = fastPathTried /\ barren' = barren
          /\ file' \in Content /\ unresolved' \in BOOLEAN
      BY <2>3 DEF objectVars
    <3>2. reports' \subseteq BOOLEAN \X Answer
      BY <2>1, <2>3 DEF Inv, TypeOK
    <3>3. TypeOK
      BY DEF Inv
    <3>4. /\ objective' \in Objective /\ baseline' \in Content /\ file' \in Content
          /\ ledger' \in [Criterion -> {"absent", "unknown", "satisfied", "failed"}]
          /\ pinned' \in Check \cup {NoCheck} /\ requested' \in Check \cup {NoCheck}
          /\ commands' \subseteq {Registered} /\ frozen' \in (SUBSET Criterion) \cup {Open}
      BY <2>2, <3>1, <3>2, <3>3 DEF TypeOK
    <3>5. /\ implementation' \in {"PENDING", "COMPLETE", "INCOMPLETE"}
          /\ plan' \in {"TRIVIAL", "SIMPLE", "STANDARD"} /\ worker' \in {"none", "clean", "failed"}
          /\ reports' \subseteq BOOLEAN \X Answer /\ reads' \subseteq Content
          /\ DOMAIN memory' = Guards /\ barren' \in 0..2 /\ resumes' \in 0..MaxResumes
      BY <2>2, <3>1, <3>2, <3>3 DEF TypeOK
    <3>6. fastPathTried' \in BOOLEAN /\ unresolved' \in BOOLEAN /\ worked' \in BOOLEAN
      BY <2>2, <3>1, <3>2, <3>3 DEF TypeOK
    <3> QED
      BY <2>2, <3>4, <3>5, <3>6 DEF TypeOK
  <2>5. RoundOK' /\ CriterionStated'
    BY <1>2, <2>2, <2>3, NoRoundType DEF Inv, BatchJoined, RoundOK, CriterionStated, objectVars
  <2> QED
    BY <2>4, <2>5 DEF Inv
<1> QED
  BY <1>1, <1>2

(* The ledger after a measurement of the round keeps what was stated.          *)
LEMMA MeasuresInv == ASSUME Inv, NEW trouble, Measures(trouble) PROVE Inv'
<1>1. round \in DecisionType /\ TypeOK /\ pc = "measure" /\ ledger \in [Criterion -> Status]
  BY DEF Inv, Measures, RoundOK, TypeOK, Status
<1>2. PICK verdict, out : verdict = Verdict(round.commands, trouble) /\ out = Outcome(round.check, trouble)
  OBVIOUS
<1>3. PICK l1 : l1 = MarkedByCommands(MarkedByCheck(ledger, round.check, out), round, verdict)
  OBVIOUS
<1>4. l1 \in [Criterion -> Status] /\ \A c \in Criterion : ledger[c] # "absent" => l1[c] # "absent"
  <2>1. PICK m : m = MarkedByCheck(ledger, round.check, out)
    OBVIOUS
  <2>2. m \in [Criterion -> Status] /\ \A c \in Criterion : ledger[c] # "absent" => m[c] # "absent"
    BY <1>1, <2>1, MarkedByCheckType
  <2>3. l1 = MarkedByCommands(m, round, verdict)
    BY <1>3, <2>1
  <2> QED
    BY <2>2, <2>3, MarkedByCommandsType
<1>5. PICK l2 : l2 = IF round.cites /\ ~ProofMissing(round, round.check, out)
                     THEN Marked(l1, round.criteria, "satisfied") ELSE l1
  OBVIOUS
<1>6. l2 \in [Criterion -> Status] /\ \A c \in Criterion : ledger[c] # "absent" => l2[c] # "absent"
  <2>1. "satisfied" \in Status \ {"absent"}
    BY DEF Status
  <2> QED
    BY <1>4, <1>5, <2>1, MarkedType
<1>7. ledger' = l2
  BY <1>2, <1>3, <1>5 DEF Measures
<1>8. /\ implementation' \in {"PENDING", "COMPLETE", "INCOMPLETE"}
      /\ commands' \subseteq {Registered} /\ fastPathTried' \in BOOLEAN
      /\ requested' \in Check \cup {NoCheck} /\ DOMAIN memory' = Guards
  <2>1. implementation' \in {"PENDING", "COMPLETE", "INCOMPLETE"}
    BY <1>1 DEF Measures, ImplementationAfter, TypeOK
  <2>2. commands' \subseteq {Registered}
    BY <1>1 DEF Measures, TypeOK
  <2>3. fastPathTried' \in BOOLEAN
    BY <1>1 DEF Measures, TypeOK
  <2>4. requested' \in Check \cup {NoCheck}
    BY <1>1, DecisionFields DEF Measures, TypeOK, CheckOrNone
  <2>5. DOMAIN memory' = Guards
    BY <1>1 DEF Measures, TypeOK, Remember
  <2> QED
    BY <2>1, <2>2, <2>3, <2>4, <2>5
<1>9. barren' \in 0..2 /\ (pc' # "over" => barren' \in 0..1) /\ UNCHANGED unresolved
      /\ \/ /\ pc' = "gate" /\ UNCHANGED <<iteration, status, round, worked>>
         \/ \E now : NextRound(now)
         \/ \E st \in {"NEEDS_HUMAN", "FAILED"} : EndsAs(st)
  <2>1. barren \in 0..1
    BY <1>1 DEF Inv, RoundOK
  <2>2. barren' \in {barren, barren + 1, 0} /\ UNCHANGED unresolved
    BY DEF Measures
  <2>3. \/ /\ pc' = "gate" /\ UNCHANGED <<iteration, status, round, worked>> /\ barren' = barren
        \/ EndsAs("NEEDS_HUMAN")
        \/ barren' # 2 /\ EndsAs("FAILED")
        \/ barren' # 2 /\ NextRound(file)
    <3>1. CASE barren' = 2
      <4>1. ~ (barren' < 2)
        BY <3>1
      <4> QED
        BY <3>1, <4>1 DEF Measures
    <3>2. CASE barren' # 2
      <4>1. barren' < 2
        BY <2>1, <2>2, <3>2
      <4> QED
        BY <3>2, <4>1 DEF Measures
    <3> QED
      BY <3>1, <3>2
  <2>4. EndsAs("NEEDS_HUMAN") => pc' = "over"
    BY DEF EndsAs
  <2> QED
    BY <2>1, <2>2, <2>3, <2>4
<1>10. UNCHANGED <<objectVars, file, pinned, plan, frozen, worker, reports, reads, unresolved>>
  BY DEF Measures
<1>11. /\ round' \in DecisionType /\ worked' \in BOOLEAN /\ iteration' \in 1..MaxIterations
       /\ pc' \in {"ask", "over", "gate"}
       /\ status' \in {"RUNNING", "NEEDS_HUMAN", "FAILED", "BLOCKED", "PARTIAL"}
  <2>1. CASE pc' = "gate" /\ UNCHANGED <<iteration, status, round, worked>>
    BY <1>1, <2>1 DEF Inv, TypeOK, RoundOK
  <2>2. CASE (\E now : NextRound(now)) \/ \E st \in {"NEEDS_HUMAN", "FAILED"} : EndsAs(st)
    BY <1>1, <2>2, RoundEnds, NoRoundType
  <2> QED
    BY <1>9, <2>1, <2>2
<1>12. TypeOK'
  BY <1>1, <1>6, <1>7, <1>8, <1>9, <1>10, <1>11 DEF TypeOK, objectVars, Status
<1>13. RoundOK'
  BY <1>9, <1>11 DEF RoundOK
<1>14. CriterionStated'
  BY <1>1, <1>6, <1>7, <1>10, ObjectiveFields DEF Inv, CriterionStated, objectVars
<1> QED
  BY <1>12, <1>13, <1>14 DEF Inv

(* What it means that the gate holds nothing against finishing.                *)
LEMMA NothingHeld ==
  ASSUME NEW d, NEW l, NEW verdict, NEW out, Failures(d, l, verdict, out) = {}
  PROVE  /\ verdict \notin {"timeout", "fail"}
         /\ out # "read-error" /\ out \notin MeasuredMismatch
         /\ Pending(l) = {} /\ worker # "failed"
         /\ objective.changes => out = "ok" \/ file # baseline
<1>1. verdict # "timeout"
  BY DEF Failures
<1>2. verdict # "fail"
  BY DEF Failures
<1>3. out # "read-error"
  BY DEF Failures
<1>4. out \notin MeasuredMismatch
  BY DEF Failures
<1>5. worker # "failed"
  BY DEF Failures
<1>6. objective.changes => out = "ok" \/ file # baseline
  BY DEF Failures
<1>7. Pending(l) = {}
  <2> DEFINE held == {Reject(IF l[c] = "failed" THEN "FAILED_CRITERION" ELSE "MISSING_PROOF", c) :
                        c \in Pending(l)}
  <2>1. held \subseteq Failures(d, l, verdict, out)
    BY DEF Failures
  <2>2. held = {}
    BY <2>1
  <2> QED
    BY <2>2
<1> QED
  BY <1>1, <1>2, <1>3, <1>4, <1>5, <1>6, <1>7

LEMMA EvaluatedIs ==
  ASSUME TypeOK, NEW d, NEW l \in [Criterion -> Status], NEW trouble
  PROVE  LET e == Evaluated(d, l, trouble)
         IN  /\ e.ledger \in [Criterion -> Status]
             /\ \A c \in Criterion : l[c] # "absent" => e.ledger[c] # "absent"
             /\ e.failures = {} =>
                  /\ Pending(e.ledger) = {} /\ worker # "failed"
                  /\ Outcome(requested, "none") \in {"none", "ok"}
                  /\ Verdict(commands, "none") \in {"none", "pass"}
                  /\ objective.changes => file # baseline \/ requested # NoCheck
<1>1. PICK verdict, out : verdict = Verdict(commands, trouble) /\ out = Outcome(requested, trouble)
  OBVIOUS
<1>2. PICK l2 : l2 = MarkedByCheck(l, requested, out)
  OBVIOUS
<1>3. Evaluated(d, l, trouble).ledger = l2
      /\ Evaluated(d, l, trouble).failures = Failures(d, l2, verdict, out)
  BY <1>1, <1>2 DEF Evaluated
<1>4. l2 \in [Criterion -> Status] /\ \A c \in Criterion : l[c] # "absent" => l2[c] # "absent"
  BY <1>2, MarkedByCheckType
<1>5. ASSUME Failures(d, l2, verdict, out) = {}
      PROVE  /\ Pending(l2) = {} /\ worker # "failed"
             /\ Outcome(requested, "none") \in {"none", "ok"}
             /\ Verdict(commands, "none") \in {"none", "pass"}
             /\ objective.changes => file # baseline \/ requested # NoCheck
  <2>1. /\ verdict \notin {"timeout", "fail"}
        /\ out # "read-error" /\ out \notin MeasuredMismatch
        /\ Pending(l2) = {} /\ worker # "failed"
        /\ objective.changes => out = "ok" \/ file # baseline
    BY <1>5, NothingHeld
  <2>2. Outcome(requested, "none") \in {"none", "ok"}
    BY <1>1, <2>1 DEF Outcome, MeasuredMismatch
  <2>3. Verdict(commands, "none") \in {"none", "pass"}
    BY <1>1, <2>1 DEF Verdict
  <2>4. out = "ok" => requested # NoCheck
    BY <1>1 DEF Outcome
  <2> QED
    BY <2>1, <2>2, <2>3, <2>4
<1> QED
  BY <1>3, <1>4, <1>5

(* What a decision of the gate does: it leaves a ledger that was measured, and *)
(* only ends the run as done when it holds nothing against it.                 *)
LEMMA GateLeaves ==
  ASSUME Inv, NEW t, NEW u, GateDecides(t, u)
  PROVE  /\ pc = "gate" /\ ledger' \in [Criterion -> Status]
         /\ \A c \in Criterion : ledger[c] # "absent" => ledger'[c] # "absent"
         /\ DOMAIN memory' = Guards
         /\ \/ \E now : NextRound(now)
            \/ EndsAs("FAILED")
            \/ /\ EndsAs("DONE") /\ Pending(ledger') = {} /\ worker # "failed"
               /\ Outcome(requested, "none") \in {"none", "ok"}
               /\ Verdict(commands, "none") \in {"none", "pass"}
               /\ objective.changes => file # baseline \/ requested # NoCheck
<1>1. TypeOK /\ ledger \in [Criterion -> Status]
  BY DEF Inv, TypeOK, Status
<1>2. PICK e1 : e1 = Evaluated(round, ledger, t)
  OBVIOUS
<1>3. e1.ledger \in [Criterion -> Status]
      /\ \A c \in Criterion : ledger[c] # "absent" => e1.ledger[c] # "absent"
  BY <1>1, <1>2, EvaluatedIs
<1>4. PICK l, v : /\ l \in [Criterion -> Status]
                  /\ \A c \in Criterion : ledger[c] # "absent" => l[c] # "absent"
                  /\ ledger' = Evaluated(round, l, v).ledger
                  /\ \/ \E now : NextRound(now)
                     \/ EndsAs("FAILED")
                     \/ EndsAs("DONE") /\ Evaluated(round, l, v).failures = {}
  <2>1. CASE ProofOnly(e1.failures) /\ implementation = "COMPLETE"
    <3>1. ledger' = Evaluated(round, e1.ledger, u).ledger
      BY <1>2, <2>1 DEF GateDecides
    <3>2. \/ \E now : NextRound(now)
          \/ EndsAs("FAILED")
          \/ EndsAs("DONE") /\ Evaluated(round, e1.ledger, u).failures = {}
      BY <1>2, <2>1 DEF GateDecides
    <3> QED
      BY <1>3, <3>1, <3>2
  <2>2. CASE ~ (ProofOnly(e1.failures) /\ implementation = "COMPLETE")
    <3>1. ledger' = Evaluated(round, ledger, t).ledger
      BY <1>2, <2>2 DEF GateDecides
    <3>2. \/ \E now : NextRound(now)
          \/ EndsAs("FAILED")
          \/ EndsAs("DONE") /\ Evaluated(round, ledger, t).failures = {}
      BY <1>2, <2>2 DEF GateDecides
    <3> QED
      BY <1>1, <3>1, <3>2
  <2> QED
    BY <2>1, <2>2
<1>5. pc = "gate" /\ DOMAIN memory' = Guards
  BY <1>1 DEF GateDecides, TypeOK
<1> QED
  BY <1>1, <1>4, <1>5, EvaluatedIs

LEMMA GateInv == ASSUME Inv, NEW t, NEW u, GateDecides(t, u) PROVE Inv'
<1>1. TypeOK /\ pc = "gate" /\ ledger' \in [Criterion -> Status] /\ DOMAIN memory' = Guards
      /\ \A c \in Criterion : ledger[c] # "absent" => ledger'[c] # "absent"
  BY GateLeaves DEF Inv
<1>2. /\ objective' = objective /\ baseline' = baseline /\ resumes' = resumes /\ file' = file
      /\ pinned' = pinned /\ requested' = requested /\ commands' = commands
      /\ implementation' = implementation /\ plan' = plan /\ frozen' = frozen /\ worker' = worker
      /\ reports' = reports /\ reads' = reads /\ fastPathTried' = fastPathTried
      /\ barren' = barren /\ unresolved' = unresolved
  BY DEF GateDecides, objectVars
<1>3. /\ round' = NoRound /\ worked' = FALSE /\ iteration' \in 1..MaxIterations
      /\ pc' \in {"ask", "over"}
      /\ status' \in {"RUNNING", "DONE", "NEEDS_HUMAN", "FAILED", "BLOCKED", "PARTIAL"}
      /\ status' = "DONE" => pc' = "over"
  <2>1. CASE (\E now : NextRound(now)) \/ EndsAs("FAILED")
    BY <1>1, <2>1, RoundEnds
  <2>2. CASE EndsAs("DONE")
    BY <1>1, <2>2 DEF EndsAs, Forgets, TypeOK
  <2> QED
    BY <2>1, <2>2, GateLeaves
<1>4. TypeOK'
  <2>1. /\ objective' \in Objective /\ baseline' \in Content /\ file' \in Content
        /\ ledger' \in [Criterion -> {"absent", "unknown", "satisfied", "failed"}]
        /\ pinned' \in Check \cup {NoCheck} /\ requested' \in Check \cup {NoCheck}
        /\ commands' \subseteq {Registered} /\ frozen' \in (SUBSET Criterion) \cup {Open}
    BY <1>1, <1>2 DEF TypeOK, Status
  <2>2. /\ implementation' \in {"PENDING", "COMPLETE", "INCOMPLETE"}
        /\ plan' \in {"TRIVIAL", "SIMPLE", "STANDARD"} /\ worker' \in {"none", "clean", "failed"}
        /\ reports' \subseteq BOOLEAN \X Answer /\ reads' \subseteq Content
        /\ DOMAIN memory' = Guards /\ barren' \in 0..2 /\ resumes' \in 0..MaxResumes
    BY <1>1, <1>2 DEF TypeOK
  <2>3. fastPathTried' \in BOOLEAN /\ unresolved' \in BOOLEAN /\ worked' \in BOOLEAN
    BY <1>1, <1>2, <1>3 DEF TypeOK
  <2> QED
    BY <1>3, <2>1, <2>2, <2>3 DEF TypeOK
<1>5. RoundOK'
  BY <1>1, <1>2, <1>3, NoRoundType DEF Inv, RoundOK
<1>6. CriterionStated'
  BY <1>1, <1>2, ObjectiveFields DEF Inv, CriterionStated
<1> QED
  BY <1>4, <1>5, <1>6 DEF Inv

LEMMA ResumesInv == Inv /\ Resumes => Inv'
<1> SUFFICES ASSUME Inv, Resumes PROVE Inv'
  OBVIOUS
<1>1. TypeOK /\ objective' = objective
  BY DEF Inv, Resumes
<1>2. PICK l : l = [c \in Criterion |-> "absent"]
  OBVIOUS
<1>3. l \in [Criterion -> Status] /\ ledger' = Stated(l, objective.criterion)
  BY <1>2 DEF Status, Resumes
<1>4. ledger' \in [Criterion -> Status] /\ \A c \in objective.criterion : ledger'[c] # "absent"
  BY <1>1, <1>3, StatedType, ObjectiveFields
<1>5. pinned' \in CheckOrNone /\ requested' = pinned'
  BY <1>1, ContractCheckType DEF Resumes, TypeOK, CheckOrNone
<1>6. resumes' \in 0..MaxResumes /\ barren' = 0
  BY <1>1, BoundAssumption DEF Resumes, TypeOK
<1>7. /\ pc' = "ask" /\ status' = "RUNNING" /\ commands' = {} /\ implementation' = "PENDING"
      /\ plan' = objective.plan /\ worker' = "none" /\ reads' = {} /\ DOMAIN memory' = Guards
      /\ fastPathTried' = FALSE /\ unresolved' = FALSE /\ baseline' = file
      /\ UNCHANGED <<file, frozen, reports, round, worked, iteration>>
  BY DEF Resumes
<1>8. TypeOK'
  <2>1. /\ objective' \in Objective /\ baseline' \in Content /\ file' \in Content
        /\ ledger' \in [Criterion -> {"absent", "unknown", "satisfied", "failed"}]
        /\ pinned' \in Check \cup {NoCheck} /\ requested' \in Check \cup {NoCheck}
        /\ commands' \subseteq {Registered} /\ frozen' \in (SUBSET Criterion) \cup {Open}
    BY <1>1, <1>4, <1>5, <1>7 DEF TypeOK, Status, CheckOrNone
  <2>2. /\ implementation' \in {"PENDING", "COMPLETE", "INCOMPLETE"}
        /\ plan' \in {"TRIVIAL", "SIMPLE", "STANDARD"} /\ worker' \in {"none", "clean", "failed"}
        /\ reports' \subseteq BOOLEAN \X Answer /\ reads' \subseteq Content
        /\ DOMAIN memory' = Guards /\ barren' \in 0..2 /\ resumes' \in 0..MaxResumes
    BY <1>1, <1>6, <1>7, ObjectiveFields DEF TypeOK
  <2>3. /\ fastPathTried' \in BOOLEAN /\ unresolved' \in BOOLEAN /\ worked' \in BOOLEAN
        /\ iteration' \in 1..MaxIterations
    BY <1>1, <1>7 DEF TypeOK
  <2> QED
    BY <1>7, <2>1, <2>2, <2>3 DEF TypeOK
<1>9. RoundOK' /\ CriterionStated'
  BY <1>1, <1>4, <1>6, <1>7 DEF Inv, RoundOK, CriterionStated
<1> QED
  BY <1>8, <1>9 DEF Inv

LEMMA StepInv == Inv /\ [Next]_vars => Inv'
<1> SUFFICES ASSUME Inv, [Next]_vars PROVE Inv'
  OBVIOUS
<1>1. CASE UNCHANGED vars
  BY <1>1 DEF Inv, TypeOK, RoundOK, CriterionStated, vars, objectVars, guardVars
<1> QED
  BY <1>1, AskFailsInv, DecidesInv, RefusedInv, WorkerInv, StopsInv, MeasuresInv, GateInv, ResumesInv
     DEF Next

LEMMA InvHolds == Spec => []Inv
  BY InitInv, StepInv, PTL DEF Spec

(* Every variable of the loop keeps its type, whatever decisions are made.     *)
THEOREM TypeCorrect == Spec => []TypeOK
<1>1. Inv => TypeOK
  BY DEF Inv
<1> QED
  BY <1>1, InvHolds, PTL

-----------------------------------------------------------------------------
(* Done is measured *)

LEMMA OverStays == ASSUME Inv, Next, pc = "over" PROVE FALSE
  BY DEF Next, AskFails, Decides, WorkerRefused, WorkerEnds, WorkerStops, BatchJoined, Measures,
         GateDecides, Resumes

(* Only the gate ends a run as done.                                           *)
LEMMA OnlyGateEndsDone ==
  ASSUME Inv, Next, status' = "DONE"
  PROVE  \E t, u \in Trouble : GateDecides(t, u)
<1>1. status # "DONE"
  BY OverStays DEF Inv, RoundOK
<1>2. ASSUME pc # "over", (\E now : NextRound(now)) \/ \E st \in {"NEEDS_HUMAN", "FAILED", "BLOCKED"} : EndsAs(st)
      PROVE  FALSE
  BY <1>2, RoundEnds
<1>3. ~ AskFails
  BY DEF AskFails, EndsAs
<1>4. ASSUME NEW d \in Decision, NEW t \in Trouble, Decides(d, t) PROVE FALSE
  <2>1. pc = "ask" /\ ((\E st \in {"NEEDS_HUMAN", "BLOCKED"} : EndsAs(st)) \/ UNCHANGED status)
    BY <1>4 DEF Decides
  <2> QED
    BY <1>1, <1>2, <2>1
<1>5. ~ WorkerRefused
  BY <1>2 DEF WorkerRefused
<1>6. ASSUME NEW content \in Content, NEW answer \in Answer, NEW open \in BOOLEAN,
             WorkerEnds(content, answer, open) \/ BatchJoined(content, answer, open)
      PROVE  FALSE
  BY <1>1, <1>2, <1>6 DEF WorkerEnds, BatchJoined
<1>7. ASSUME NEW content \in Content, NEW st \in {"NEEDS_HUMAN", "FAILED"}, WorkerStops(content, st)
      PROVE  FALSE
  BY <1>7 DEF WorkerStops
<1>8. ASSUME NEW t \in Trouble, Measures(t) PROVE FALSE
  <2>1. /\ pc = "measure"
        /\ \/ UNCHANGED status
           \/ \E now : NextRound(now)
           \/ \E st \in {"NEEDS_HUMAN", "FAILED"} : EndsAs(st)
    BY <1>8 DEF Measures
  <2> QED
    BY <1>1, <1>2, <2>1
<1>9. ~ Resumes
  BY DEF Resumes
<1> QED
  BY <1>3, <1>4, <1>5, <1>6, <1>7, <1>8, <1>9 DEF Next

LEMMA GateIsMeasured ==
  ASSUME Inv, NEW t, NEW u, GateDecides(t, u), status' = "DONE"
  PROVE  DoneIsMeasured'
<1>1. Inv' /\ TypeOK' /\ CriterionStated'
  BY GateInv DEF Inv
<1>2. UNCHANGED <<objective, baseline, file, requested, commands, worker>>
  BY DEF GateDecides, objectVars
<1>3. ~ ((\E now : NextRound(now)) \/ EndsAs("FAILED"))
  <2>1. pc # "over"
    BY DEF GateDecides
  <2> QED
    BY <2>1, RoundEnds
<1>4. /\ Pending(ledger') = {} /\ worker # "failed"
      /\ Outcome(requested, "none") \in {"none", "ok"}
      /\ Verdict(commands, "none") \in {"none", "pass"}
      /\ objective.changes => file # baseline \/ requested # NoCheck
  BY <1>3, GateLeaves
<1>5. ASSUME NEW c \in objective'.criterion PROVE ledger'[c] = "satisfied"
  <2>1. c \in Criterion /\ ledger'[c] # "absent" /\ ledger' \in [Criterion -> Status]
    BY <1>1, <1>2, ObjectiveFields DEF CriterionStated, TypeOK, Status, Inv
  <2>2. c \notin Pending(ledger')
    BY <1>4
  <2> QED
    BY <2>1, <2>2 DEF Pending, Status
<1>6. Outcome(requested, "none")' = Outcome(requested, "none")
  BY <1>2 DEF Outcome
<1>7. Verdict(commands, "none")' = Verdict(commands, "none")
  BY <1>2 DEF Verdict
<1>8. Pending(ledger)' = {}
  BY <1>4 DEF Pending
<1> QED
  BY <1>2, <1>4, <1>5, <1>6, <1>7, <1>8 DEF DoneIsMeasured

(* A run is only done on what its gate measured last, whatever was decided and *)
(* however often measurements failed or the run was resumed.                   *)
THEOREM DoneIsMeasuredCorrect == Spec => []DoneIsMeasured
<1>1. Init => DoneIsMeasured
  BY DEF Init, DoneIsMeasured
<1>2. Inv /\ DoneIsMeasured /\ [Next]_vars => DoneIsMeasured'
  <2> SUFFICES ASSUME Inv, DoneIsMeasured, [Next]_vars PROVE DoneIsMeasured'
    OBVIOUS
  <2>1. CASE UNCHANGED vars
    BY <2>1 DEF DoneIsMeasured, vars, objectVars, guardVars, Pending, Outcome, Verdict
  <2>2. CASE Next /\ status' = "DONE"
    BY <2>2, OnlyGateEndsDone, GateIsMeasured
  <2>3. CASE status' # "DONE"
    BY <2>3 DEF DoneIsMeasured
  <2> QED
    BY <2>1, <2>2, <2>3
<1> QED
  BY <1>1, <1>2, InvHolds, PTL DEF Spec

-----------------------------------------------------------------------------
(* Proof is not rework *)

LEMMA WorkIsDecided ==
  ASSUME Next, pc = "ask", pc' = "work"
  PROVE  \E d \in Decision, t \in Trouble : Decides(d, t)
  BY DEF Next, AskFails, EndsAs, WorkerRefused, WorkerEnds, WorkerStops, BatchJoined, Measures,
         GateDecides, Resumes

LEMMA DecidesNoRework ==
  ASSUME Inv, NEW d \in Decision, NEW t \in Trouble, Decides(d, t), pc' = "work",
         implementation = "COMPLETE", objective.changes, round'.task = "IMPLEMENTATION"
  PROVE  \/ Outcome(pinned', "none") \in MeasuredMismatch
         \/ Verdict(commands, "none") = "fail"
<1>1. d \in DecisionType /\ TypeOK
  BY DecisionAssumption DEF Inv
<1>2. PICK b : b = Bound(d)
  OBVIOUS
<1>3. b \in DecisionType
  BY <1>1, <1>2, BoundType
<1>4. PICK pin : pin = IF b.check = NoCheck THEN pinned ELSE b.check
  OBVIOUS
<1>5. pin \in CheckOrNone
  BY <1>1, <1>3, <1>4, DecisionFields DEF TypeOK, CheckOrNone
<1>6. PICK r : r = Redirected(b, pin, t)
  OBVIOUS
<1>7. /\ r.d.task = b.task /\ r.d.action \in {b.action, "done"}
      /\ /\ b.action = "delegate" /\ b.task = "IMPLEMENTATION" /\ objective.changes
         /\ implementation = "COMPLETE" /\ ~ Contradicted(pin, t)
         => r.d.action = "done"
  BY <1>1, <1>3, <1>5, <1>6, RedirectedType
<1>8. r.d.action = "delegate" /\ round' = r.d /\ pinned' = pin
  BY <1>2, <1>4, <1>6 DEF Decides, EndsAs
<1>9. Contradicted(pin, t)
  BY <1>7, <1>8
<1>10. CASE Outcome(pin, t) \in MeasuredMismatch
  <2>1. Outcome(pin, "none") \in MeasuredMismatch
    BY <1>10 DEF Outcome, MeasuredMismatch
  <2> QED
    BY <1>8, <2>1 DEF Outcome
<1>11. CASE Verdict(commands, t) = "fail"
  BY <1>11 DEF Verdict
<1> QED
  BY <1>9, <1>10, <1>11 DEF Contradicted

(* What is complete is not implemented again unless a measurement contradicts  *)
(* it, whatever the decisions and the state of the guards.                     *)
THEOREM ProofIsNotReworkCorrect == Spec => ProofIsNotRework
<1>1. Inv /\ [Next]_vars =>
        [pc = "ask" /\ pc' = "work" /\ implementation = "COMPLETE" /\ objective.changes
           /\ round'.task = "IMPLEMENTATION"
         => \/ Outcome(pinned', "none") \in MeasuredMismatch
            \/ Verdict(commands, "none") = "fail"]_vars
  BY WorkIsDecided, DecidesNoRework
<1> QED
  BY <1>1, InvHolds, PTL DEF Spec, ProofIsNotRework

=============================================================================
