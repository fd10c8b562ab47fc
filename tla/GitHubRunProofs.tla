--------------------------- MODULE GitHubRunProofs ---------------------------
(* What TLAPS proves of GitHubRun, for any number of tasks, plans, proposals,  *)
(* budgets, rounds, pushes and resumptions: the types, that the join tells the *)
(* truth about the repository, that a dependent task starts from what it needs, *)
(* that no commit disappears, and by how much a budget can be overrun.         *)
(*                                                                            *)
(* The three invariants follow from one that relates what the loop believes    *)
(* (pending, wave, outcome, completed) to the workers (Planned), to the        *)
(* histories on GitHub (Matched, Histories) and to the ledger (Spent).         *)
EXTENDS GitHubRun, FiniteSetTheorems, TLAPS

-----------------------------------------------------------------------------
(* The inductive invariant *)

RunTyped ==
  /\ limit \in Limit /\ calls \in Nat
  /\ status \in {"RUNNING", "NEEDS_HUMAN", "FAILED", "BLOCKED", "PARTIAL", "CANCELLED", "DONE"}
  /\ phase \in {"ask", "decide", "wave", "work", "commit", "move", "joined", "gate", "offer", "over"}
  /\ round \in 0..MaxRounds /\ resumes \in 0..MaxResumes /\ stopping \in BOOLEAN
  /\ unresolved \in BOOLEAN /\ pull \in {"none", "failed", "open"}

BatchTyped ==
  /\ plan \in Plan \cup {NoPlan}
  /\ pending \subseteq Task /\ completed \subseteq Task /\ wave \subseteq Task
  /\ worker \in [Task -> {"idle", "calling", "completed", "failed", "cancelled"}]
  /\ attempts \in [Task -> 0..ModelRetries]
  /\ cancelled \subseteq Task /\ barred \subseteq Task
  /\ proposal \in [Task -> Proposal \cup {{}}]
  /\ outcome \in [Task -> {"none", "completed", "failed", "cancelled", "conflict", "not-applied", "blocked"}]

HubTyped ==
  /\ cut \in BOOLEAN /\ landed \in BOOLEAN /\ doubt \in BOOLEAN
  /\ known \in Seq(Entry) /\ base \in Seq(Entry) /\ branch \in Seq(Entry) \cup {NoBranch}
  /\ pushes \in 0..MaxPushes

\* A task is pending, in the wave, or has its outcome; a worker only calls in the
\* wave, after all its task needs; and a wave is committed when all have completed.
Planned(t) ==
  /\ t \in pending => t \notin wave /\ outcome[t] = "none"
  /\ t \in wave => outcome[t] = "none" /\ worker[t] # "idle"
  /\ worker[t] = "calling" => t \in wave /\ phase = "work" /\ plan.needs[t] \subseteq completed
  /\ t \in completed <=> outcome[t] = "completed"
  /\ t \in wave /\ phase \in {"commit", "move"} => worker[t] = "completed"

\* The base holds no work of the run, and the work branch none of a later round.
Histories ==
  /\ \A i \in DOMAIN base : base[i].tasks = {}
  /\ branch # NoBranch => \A i \in DOMAIN branch : branch[i].tasks # {} => branch[i].number <= round

\* The work of a completed task is on the branch and in what the loop knows; the
\* work of any other is not, unless an answer was lost.
Matched(t) ==
  /\ outcome[t] = "completed" /\ proposal[t] # {} => In(branch, t) /\ In(known, t)
  /\ ~doubt /\ (t \in pending \/ t \in wave \/ outcome[t] \notin {"none", "completed"}) => ~In(branch, t)

Overrun == IF ModelRetries = 0 THEN 2 ELSE ModelRetries + 1

\* Under a limit one worker calls at a time, and what it has spent past the check
\* is the models it was refused.
Spent ==
  limit > 0 =>
    /\ calls <= limit - 1 + Overrun
    /\ \A t, u \in wave : t = u
    /\ \A t \in Task : worker[t] = "calling" => calls <= limit - 1 + attempts[t]

Inv ==
  /\ RunTyped /\ BatchTyped /\ HubTyped
  /\ \A t \in Task : Planned(t) /\ Matched(t)
  /\ Histories /\ Spent

-----------------------------------------------------------------------------
(* Numbers and histories *)

LEMMA Numbers ==
  /\ Tasks \in Nat /\ ModelRetries \in Nat /\ MaxRounds \in Nat
  /\ MaxPushes \in Nat /\ MaxResumes \in Nat /\ Limit \subseteq Nat
BY NumberAssumption

LEMMA OverrunBounds ==
  Overrun \in Nat /\ Overrun >= 2 /\ Overrun >= ModelRetries + 1
BY Numbers DEF Overrun

LEMMA EntryAt ==
  ASSUME NEW h \in Seq(Entry), NEW i \in DOMAIN h
  PROVE  h[i].tasks \subseteq Task /\ h[i].number \in Nat
<1>1. i \in 1..Len(h)
  OBVIOUS
<1>2. h[i] \in Entry
  BY <1>1
<1> QED
  BY <1>2 DEF Entry

LEMMA Appended ==
  ASSUME NEW h \in Seq(Entry), NEW e \in Entry
  PROVE  /\ Append(h, e) \in Seq(Entry) /\ Append(h, e) # NoBranch
         /\ \A i \in DOMAIN h : i \in DOMAIN Append(h, e) /\ Append(h, e)[i] = h[i]
         /\ \A i \in DOMAIN Append(h, e) : i \in DOMAIN h \/ Append(h, e)[i] = e
         /\ \E i \in DOMAIN Append(h, e) : Append(h, e)[i] = e
<1>1. Append(h, e) \in Seq(Entry) /\ Len(Append(h, e)) = Len(h) + 1
  OBVIOUS
<1>2. DOMAIN h = 1..Len(h) /\ DOMAIN Append(h, e) = 1..(Len(h) + 1) /\ Len(h) \in Nat
  BY <1>1
<1>3. \A i \in 1..Len(h) : Append(h, e)[i] = h[i]
  OBVIOUS
<1>4. Append(h, e)[Len(h) + 1] = e
  OBVIOUS
<1>5. Append(h, e) # NoBranch
  BY <1>1, BranchAssumption
<1> QED
  BY <1>1, <1>2, <1>3, <1>4, <1>5

\* A history keeps its commits when it grows.
LEMMA AppendedKeeps ==
  ASSUME NEW h \in Seq(Entry), NEW e \in Entry
  PROVE  IsPrefix(h, Append(h, e))
<1>1. Append(h, e) \in Seq(Entry) /\ Len(Append(h, e)) = Len(h) + 1 /\ Len(h) \in Nat
  OBVIOUS
<1>2. \A i \in 1..Len(h) : Append(h, e)[i] = h[i]
  OBVIOUS
<1>3. SubSeq(h, 1, Len(h)) = SubSeq(Append(h, e), 1, Len(h))
  BY <1>1, <1>2
<1> QED
  BY <1>1, <1>3 DEF IsPrefix

LEMMA PrefixOfItself ==
  ASSUME NEW h \in Seq(Entry)
  PROVE  IsPrefix(h, h)
BY DEF IsPrefix

\* Under a limit a wave is a single task.
LEMMA SingleWave ==
  ASSUME limit \in Nat, limit > 0, pending \subseteq Task, NEW t \in Wave, NEW u \in Wave
  PROVE  t = u
<1> DEFINE first == {x \in Ready : \A y \in Ready : plan.resource[y] = plan.resource[x] => x <= y}
<1>1. first \subseteq Task /\ Task \subseteq Int
  <2>1. Task \subseteq Int
    BY Numbers DEF Task
  <2>2. first \subseteq Ready /\ Ready \subseteq pending
    BY DEF Ready
  <2> QED
    BY <2>1, <2>2
<1>2. IsFiniteSet(Task)
  BY Numbers, FS_Interval DEF Task
<1>3. Concurrency = 1
  BY DEF Concurrency
<1>4. ASSUME NEW x \in Wave PROVE x \in first /\ {y \in first : y < x} = {}
  <2>1. x \in first /\ Cardinality({y \in first : y < x}) < 1
    BY <1>3 DEF Wave
  <2>2. IsFiniteSet({y \in first : y < x})
    BY <1>1, <1>2, FS_Subset
  <2>3. Cardinality({y \in first : y < x}) \in Nat
    BY <2>2, FS_CardinalityType
  <2>4. Cardinality({y \in first : y < x}) = 0
    BY <2>1, <2>3
  <2> QED
    BY <2>1, <2>2, <2>4, FS_EmptySet
<1>5. /\ t \in first /\ u \in first
      /\ ~(t < u) /\ ~(u < t)
  BY <1>4
<1>6. t \in Int /\ u \in Int
  BY <1>1, <1>5
<1> QED
  BY <1>5, <1>6

LEMMA WaveIsReady ==
  ASSUME NEW t \in Wave
  PROVE  t \in pending /\ plan.needs[t] \subseteq completed
BY DEF Wave, Ready

-----------------------------------------------------------------------------
LEMMA TypeParts == TypeOK <=> RunTyped /\ BatchTyped /\ HubTyped
BY DEF TypeOK, RunTyped, BatchTyped, HubTyped

LEMMA InitInv == Init => Inv
<1> SUFFICES ASSUME Init PROVE Inv
  OBVIOUS
<1>1. <<>> \in Seq(Entry) /\ DOMAIN <<>> = {}
  OBVIOUS
<1>11. 0 \in 0..MaxRounds /\ 0 \in 0..MaxResumes /\ 0 \in 0..MaxPushes
  BY Numbers
<1>2. RunTyped
  BY <1>11 DEF Init, RunTyped
<1>3. BatchTyped
  BY Numbers DEF Init, BatchTyped
<1>4. HubTyped
  BY <1>1, <1>11 DEF Init, HubTyped
<1>5. ASSUME NEW t \in Task PROVE Planned(t)
  BY DEF Init, Planned
<1>6. ASSUME NEW t \in Task PROVE Matched(t)
  BY DEF Init, Matched
<1>7. Histories
  BY <1>1 DEF Init, Histories
<1>8. limit \in Nat /\ calls = 0 /\ wave = {} /\ \A t \in Task : worker[t] = "idle"
  BY Numbers DEF Init
<1>9. limit > 0 => calls <= limit - 1 + Overrun
  BY <1>8, OverrunBounds
<1>10. Spent
  BY <1>8, <1>9 DEF Spent
<1> QED
  BY <1>2, <1>3, <1>4, <1>5, <1>6, <1>7, <1>10 DEF Inv

-----------------------------------------------------------------------------
(* Steps that leave the batch and the repository alone *)

\* The batch is as it was, nobody calls outside "work", and a wave that is about to
\* be committed has completed.
Same ==
  /\ pending' = pending /\ completed' = completed /\ wave' = wave /\ plan' = plan
  /\ worker' = worker /\ attempts' = attempts /\ cancelled' = cancelled /\ barred' = barred
  /\ proposal' = proposal /\ outcome' = outcome

LEMMA BatchSame == UNCHANGED batchVars => Same
BY DEF batchVars, Same

LEMMA PlannedKept ==
  ASSUME Inv, Same, NEW t \in Task,
         worker[t] = "calling" => phase' = "work",
         t \in wave /\ phase' \in {"commit", "move"} => worker[t] = "completed"
  PROVE  Planned(t)'
BY DEF Inv, Same, Planned

LEMMA BatchKept ==
  ASSUME Inv, Same
  PROVE  BatchTyped'
BY DEF Inv, Same, BatchTyped

LEMMA MatchedKept ==
  ASSUME Inv, NEW t \in Task, pending' = pending, wave' = wave, outcome' = outcome,
         proposal'[t] = proposal[t] \/ outcome[t] # "completed", doubt' = doubt,
         known' = known, branch' = branch, round' = round
  PROVE  Matched(t)'
BY DEF Inv, Matched, In

LEMMA HistoriesKept ==
  ASSUME Inv, base' = base, branch' = branch, round' = round
  PROVE  Histories'
BY DEF Inv, Histories

LEMMA SpentKept ==
  ASSUME Inv, limit' = limit, wave' = wave, worker' = worker, attempts' = attempts, calls' = calls
  PROVE  Spent'
BY DEF Inv, Spent, Overrun

HubSame ==
  /\ known' = known /\ cut' = cut /\ landed' = landed
  /\ base' = base /\ branch' = branch /\ pushes' = pushes /\ doubt' = doubt

LEMMA HubKept ==
  ASSUME Inv, HubSame
  PROVE  HubTyped'
BY DEF Inv, HubSame, HubTyped

LEMMA QuietStep ==
  ASSUME Inv, Same, HubSame, RunTyped', Spent', round' = round,
         \A t \in Task : worker[t] = "calling" => phase' = "work",
         \A t \in Task : t \in wave /\ phase' \in {"commit", "move"} => worker[t] = "completed"
  PROVE  Inv'
<1>1. BatchTyped'
  BY BatchKept
<1>2. HubTyped'
  BY HubKept
<1>3. ASSUME NEW t \in Task PROVE Planned(t)'
  BY PlannedKept
<1>4. ASSUME NEW t \in Task PROVE Matched(t)'
  BY MatchedKept DEF Same, HubSame
<1>5. Histories'
  BY HistoriesKept DEF HubSame
<1> QED
  BY <1>1, <1>2, <1>3, <1>4, <1>5 DEF Inv

\* Outside "work" nobody calls.
LEMMA Silent ==
  ASSUME Inv, phase # "work", NEW t \in Task
  PROVE  worker[t] # "calling"
BY DEF Inv, Planned

\* Before, between and after the batches: only the phase and the status change.
LEMMA TurnStep ==
  ASSUME Inv, Same, HubSame, RunTyped', UNCHANGED <<limit, calls, round>>,
         phase # "work", phase' \notin {"commit", "move"}
  PROVE  Inv'
<1>1. Spent'
  BY SpentKept DEF Same
<1>2. \A t \in Task : worker[t] # "calling"
  BY Silent
<1> QED
  BY <1>1, <1>2, QuietStep

LEMMA AskStep ==
  ASSUME Inv, NEW n \in 1..2, Asks(n)
  PROVE  Inv'
<1>1. RunTyped /\ Spent /\ phase = "ask" /\ limit \in Nat
  BY Numbers DEF Asks, Inv, RunTyped
<1>2. /\ UNCHANGED <<limit, round, resumes, stopping, unresolved, pull>>
      /\ UNCHANGED batchVars /\ UNCHANGED loopVars /\ UNCHANGED hubVars
  BY DEF Asks
<1>3. Same /\ HubSame
  BY <1>2, BatchSame DEF loopVars, hubVars, HubSame
<1>4. \A t \in Task : worker[t] # "calling"
  BY <1>1, Silent
<1>5. /\ phase' \in {"decide", "over"} /\ status' \in {status, "CANCELLED", "NEEDS_HUMAN"}
      /\ calls' \in Nat
      /\ calls' = calls \/ (limit > 0 => calls < limit /\ calls' = calls + n)
  <2>1. CASE Allowed /\ ~stopping
    BY <1>1, <2>1 DEF Asks, Allowed, Recorded, RunTyped
  <2>2. CASE ~(Allowed /\ ~stopping)
    BY <1>1, <2>2 DEF Asks, Over, RunTyped
  <2> QED
    BY <2>1, <2>2
<1>6. RunTyped'
  BY <1>1, <1>2, <1>5 DEF RunTyped
<1>7. limit > 0 => calls' <= limit - 1 + Overrun
  <2>1. CASE calls' = calls
    BY <1>1, <2>1 DEF Spent
  <2>2. CASE limit > 0 => calls < limit /\ calls' = calls + n
    BY <1>1, <1>5, <2>2, OverrunBounds DEF RunTyped
  <2> QED
    BY <1>5, <2>1, <2>2
<1>8. Spent'
  BY <1>1, <1>2, <1>3, <1>4, <1>7 DEF Spent, Same, Overrun
<1> QED
  BY <1>2, <1>3, <1>4, <1>5, <1>6, <1>8, QuietStep

LEMMA SupervisorStep ==
  ASSUME Inv, GivesUp \/ (\E short \in BOOLEAN : SaysDone(short)) \/ LimitReached
  PROVE  Inv'
<1>1. RunTyped /\ phase = "decide"
  BY DEF GivesUp, SaysDone, LimitReached, Inv
<1>2. /\ limit' = limit /\ calls' = calls /\ round' = round /\ resumes' = resumes
      /\ stopping' = stopping /\ unresolved' = unresolved /\ pull' = pull
      /\ UNCHANGED batchVars /\ UNCHANGED loopVars /\ UNCHANGED hubVars
  BY DEF GivesUp, SaysDone, LimitReached, budgetVars
<1>3. Same /\ HubSame
  BY <1>2, BatchSame DEF loopVars, hubVars, HubSame
<1>4. phase' \in {"over", "gate"}
        /\ status' \in {status, "FAILED", "NEEDS_HUMAN", "BLOCKED", "PARTIAL", "CANCELLED"}
  BY DEF GivesUp, SaysDone, LimitReached, Over
<1>5. RunTyped'
  BY <1>1, <1>2, <1>4 DEF RunTyped
<1> QED
  BY <1>1, <1>2, <1>3, <1>4, <1>5, TurnStep

LEMMA EndStep ==
  ASSUME Inv, NEW b \in BOOLEAN, Gate(b) \/ Offers(b)
  PROVE  Inv'
<1>1. RunTyped /\ phase \in {"gate", "offer"}
  BY DEF Gate, Offers, Inv
<1>2. /\ limit' = limit /\ calls' = calls /\ round' = round /\ resumes' = resumes
      /\ stopping' = stopping /\ unresolved' = unresolved
      /\ UNCHANGED batchVars /\ UNCHANGED loopVars /\ UNCHANGED hubVars
  BY DEF Gate, Offers, budgetVars
<1>3. Same /\ HubSame
  BY <1>2, BatchSame DEF loopVars, hubVars, HubSame
<1>4. /\ phase' \in {"over", "ask", "offer"} /\ status' \in {status, "CANCELLED", "DONE"}
      /\ pull' \in {pull, "open", "failed"}
  BY DEF Gate, Offers, Over
<1>5. RunTyped'
  BY <1>1, <1>2, <1>4 DEF RunTyped
<1> QED
  BY <1>1, <1>2, <1>3, <1>4, <1>5, TurnStep

LEMMA CancelStep ==
  ASSUME Inv, Cancel
  PROVE  Inv'
<1>1. /\ limit' = limit /\ calls' = calls /\ round' = round /\ resumes' = resumes /\ status' = status
      /\ phase' = phase /\ stopping' = TRUE /\ unresolved' = unresolved /\ pull' = pull
      /\ UNCHANGED batchVars /\ UNCHANGED loopVars /\ UNCHANGED hubVars
  BY DEF Cancel, budgetVars
<1>2. Same /\ HubSame
  BY <1>1, BatchSame DEF loopVars, hubVars, HubSame
<1>3. RunTyped'
  BY <1>1 DEF Inv, RunTyped
<1>4. Spent'
  BY <1>1, <1>2, SpentKept DEF Same
<1>5. \A t \in Task : Planned(t)
  BY DEF Inv
<1> QED
  BY <1>1, <1>2, <1>3, <1>4, <1>5, QuietStep DEF Planned

-----------------------------------------------------------------------------
(* Batches begin and end *)

Fresh ==
  /\ completed' = {} /\ wave' = {}
  /\ worker' = [t \in Task |-> "idle"] /\ attempts' = [t \in Task |-> 0]
  /\ cancelled' = {} /\ barred' = {}
  /\ proposal' = [t \in Task |-> {}] /\ outcome' = [t \in Task |-> "none"]

\* A batch starts with nothing done, and as a round of its own that no commit has.
LEMMA FreshStep ==
  ASSUME Inv, Fresh, RunTyped', HubTyped', plan' \in Plan \cup {NoPlan},
         base' = base, branch' = branch, limit' = limit, calls' \in {calls, 0},
         \/ pending' = {} /\ round' = round
         \/ pending' = Task /\ round' = round + 1
  PROVE  Inv'
<1>1. RunTyped /\ HubTyped /\ Histories /\ Spent
  BY DEF Inv
<1>2. limit \in Nat /\ round \in Nat /\ 0 \in 0..ModelRetries
  BY <1>1, Numbers DEF RunTyped
<1>3. BatchTyped'
  BY <1>2 DEF Fresh, BatchTyped
<1>4. ASSUME NEW t \in Task PROVE Planned(t)'
  BY DEF Fresh, Planned
<1>5. ASSUME branch # NoBranch, NEW i \in DOMAIN branch, branch[i].tasks # {}
      PROVE  branch[i].number <= round /\ branch[i].number \in Nat
  BY <1>1, <1>5, EntryAt DEF HubTyped, Histories
<1>6. ASSUME NEW t \in Task PROVE Matched(t)'
  <2>1. outcome'[t] = "none"
    BY DEF Fresh
  <2>2. CASE pending' = {}
    BY <2>1, <2>2 DEF Fresh, Matched
  <2>3. CASE pending' = Task /\ round' = round + 1
    <3>1. ASSUME branch # NoBranch, NEW i \in DOMAIN branch, t \in branch[i].tasks
          PROVE  branch[i].number # round'
      <4>1. branch[i].tasks # {}
        BY <3>1
      <4>2. branch[i].number <= round /\ branch[i].number \in Nat
        BY <1>5, <3>1, <4>1
      <4> QED
        BY <1>2, <2>3, <4>2
    <3>2. ~In(branch, t)'
      BY <3>1 DEF In
    <3> QED
      BY <2>1, <3>2 DEF Matched
  <2> QED
    BY <2>2, <2>3
<1>7. Histories'
  <2>1. \A i \in DOMAIN base : base[i].tasks = {}
    BY <1>1 DEF Histories
  <2>2. ASSUME branch # NoBranch, NEW i \in DOMAIN branch, branch[i].tasks # {}
        PROVE  branch[i].number <= round'
    <3>1. branch[i].number <= round /\ branch[i].number \in Nat
      BY <1>5, <2>2
    <3> QED
      BY <1>2, <3>1
  <2> QED
    BY <2>1, <2>2 DEF Histories
<1>8. Spent'
  <2>1. limit > 0 => calls' <= limit - 1 + Overrun
    BY <1>1, <1>2, OverrunBounds DEF Spent
  <2>2. wave' = {} /\ \A t \in Task : worker'[t] = "idle"
    BY DEF Fresh
  <2> QED
    BY <2>1, <2>2 DEF Spent, Overrun
<1> QED
  BY <1>3, <1>4, <1>6, <1>7, <1>8 DEF Inv

LEMMA DelegateStep ==
  ASSUME Inv, NEW p \in Plan, Delegates(p)
  PROVE  Inv'
<1>1. /\ limit' = limit /\ calls' = calls /\ status' = status /\ resumes' = resumes
      /\ stopping' = stopping /\ unresolved' = unresolved /\ pull' = pull
      /\ UNCHANGED loopVars /\ UNCHANGED hubVars
      /\ round < MaxRounds /\ round' = round + 1 /\ phase' = "wave"
      /\ plan' = p /\ pending' = Task /\ Fresh
  BY DEF Delegates, budgetVars, Fresh
<1>2. RunTyped'
  <2>1. round \in 0..MaxRounds
    BY DEF Inv, RunTyped
  <2>2. round' \in 0..MaxRounds
    BY <1>1, <2>1, Numbers
  <2> QED
    BY <1>1, <2>2 DEF Inv, RunTyped
<1>3. HubSame
  BY <1>1 DEF loopVars, hubVars, HubSame
<1>4. HubTyped'
  BY <1>3, HubKept
<1> QED
  BY <1>1, <1>2, <1>3, <1>4, FreshStep DEF HubSame

LEMMA BatchEndStep ==
  ASSUME Inv, NEW fit \in BOOLEAN, BatchEnds(fit)
  PROVE  Inv'
<1>1. /\ limit' = limit /\ calls' = calls /\ round' = round /\ resumes' = resumes
      /\ stopping' = stopping /\ pull' = pull
      /\ UNCHANGED loopVars /\ UNCHANGED hubVars
      /\ plan' = NoPlan /\ pending' = {} /\ Fresh
  BY DEF BatchEnds, budgetVars, NoBatch, Fresh
<1>2. /\ phase' \in {"over", "ask"} /\ status' \in {status, "NEEDS_HUMAN"}
      /\ unresolved' \in BOOLEAN
  BY DEF BatchEnds, Over
<1>3. RunTyped'
  BY <1>1, <1>2 DEF Inv, RunTyped
<1>4. HubSame
  BY <1>1 DEF loopVars, hubVars, HubSame
<1>5. HubTyped'
  BY <1>4, HubKept
<1> QED
  BY <1>1, <1>3, <1>4, <1>5, FreshStep DEF HubSame

LEMMA ResumeStep ==
  ASSUME Inv, Resumes
  PROVE  Inv'
<1>1. /\ limit' = limit /\ calls' = 0 /\ round' = round /\ status' = "RUNNING" /\ phase' = "ask"
      /\ stopping' = stopping /\ pull' = pull /\ unresolved' = FALSE
      /\ known' = base /\ cut' = FALSE /\ landed' = FALSE /\ UNCHANGED hubVars
      /\ plan' = NoPlan /\ pending' = {} /\ Fresh
      /\ resumes < MaxResumes /\ resumes' = resumes + 1
  BY DEF Resumes, NoBatch, Fresh
<1>2. resumes' \in 0..MaxResumes
  <2>1. resumes \in 0..MaxResumes
    BY DEF Inv, RunTyped
  <2> QED
    BY <1>1, <2>1, Numbers
<1>3. RunTyped'
  BY <1>1, <1>2 DEF Inv, RunTyped
<1>4. HubTyped'
  BY <1>1 DEF Inv, HubTyped, hubVars
<1>5. base' = base /\ branch' = branch
  BY <1>1 DEF hubVars
<1> QED
  BY <1>1, <1>3, <1>4, <1>5, FreshStep

-----------------------------------------------------------------------------
(* Waves *)

LEMMA SendStep ==
  ASSUME Inv, SendsWave
  PROVE  Inv'
<1>1. RunTyped /\ BatchTyped /\ HubTyped /\ Histories /\ Spent /\ limit \in Nat
  BY Numbers DEF Inv, RunTyped
<1>2. /\ limit' = limit /\ calls' = calls /\ round' = round /\ resumes' = resumes
      /\ stopping' = stopping /\ unresolved' = unresolved /\ pull' = pull
      /\ plan' = plan /\ completed' = completed /\ attempts' = attempts
      /\ cancelled' = cancelled /\ barred' = barred /\ proposal' = proposal
      /\ UNCHANGED loopVars /\ UNCHANGED hubVars /\ phase = "wave"
  BY DEF SendsWave, budgetVars
<1>3. HubSame
  BY <1>2 DEF loopVars, hubVars, HubSame
<1>4. HubTyped' /\ Histories'
  BY <1>2, <1>3, HubKept, HistoriesKept DEF HubSame
<1>5. \A t \in Task : worker[t] # "calling"
  BY <1>2, Silent
<1>6. CASE stopping
  <2>1. /\ phase' = "over" /\ status' = "CANCELLED"
        /\ UNCHANGED <<pending, wave, worker, outcome>>
    BY <1>6 DEF SendsWave, Over
  <2>2. RunTyped'
    BY <1>1, <1>2, <2>1 DEF RunTyped
  <2>3. Same
    BY <1>2, <2>1 DEF Same
  <2> QED
    BY <1>2, <1>3, <2>1, <2>2, <2>3, TurnStep
<1>7. CASE ~stopping /\ Wave = {}
  <2>1. /\ outcome' = [t \in Task |-> IF t \in pending THEN "blocked" ELSE outcome[t]]
        /\ pending' = {} /\ phase' = "joined"
        /\ UNCHANGED <<status, wave, worker>>
    BY <1>6, <1>7 DEF SendsWave
  <2>2. RunTyped'
    BY <1>1, <1>2, <2>1 DEF RunTyped
  <2>3. BatchTyped'
    BY <1>1, <1>2, <2>1 DEF BatchTyped
  <2>4. ASSUME NEW t \in Task PROVE Planned(t)'
    <3>1. Planned(t)
      BY DEF Inv
    <3> QED
      BY <1>2, <1>5, <2>1, <3>1 DEF Planned
  <2>5. ASSUME NEW t \in Task PROVE Matched(t)'
    <3>1. Planned(t) /\ Matched(t)
      BY DEF Inv
    <3> QED
      BY <1>2, <1>3, <2>1, <3>1 DEF Planned, Matched, HubSame, In
  <2>6. Spent'
    BY <1>2, <2>1, SpentKept
  <2> QED
    BY <1>4, <2>2, <2>3, <2>4, <2>5, <2>6 DEF Inv
<1>8. CASE ~stopping /\ Wave # {}
  <2>1. /\ wave' = Wave /\ pending' = pending \ Wave
        /\ worker' = [t \in Task |-> IF t \in Wave
                                     THEN IF Allowed THEN "calling" ELSE "failed"
                                     ELSE worker[t]]
        /\ phase' = "work" /\ status' = status /\ outcome' = outcome
    BY <1>8 DEF SendsWave
  <2>2. RunTyped'
    BY <1>1, <1>2, <2>1 DEF RunTyped
  <2>3. Wave \subseteq pending /\ \A t \in Wave : plan.needs[t] \subseteq completed
    BY WaveIsReady
  <2>4. BatchTyped'
    <3>1. worker' \in [Task -> {"idle", "calling", "completed", "failed", "cancelled"}]
      BY <1>1, <2>1 DEF BatchTyped
    <3>2. pending' \subseteq Task /\ wave' \subseteq Task
      BY <1>1, <2>1, <2>3 DEF BatchTyped
    <3> QED
      BY <1>1, <1>2, <2>1, <3>1, <3>2 DEF BatchTyped
  <2>5. ASSUME NEW t \in Task PROVE Planned(t)'
    <3>1. Planned(t)
      BY DEF Inv
    <3>2. t \in wave' <=> t \in Wave
      BY <2>1
    <3>3. t \in pending' <=> t \in pending /\ t \notin Wave
      BY <2>1
    <3>4. worker'[t] = IF t \in Wave THEN IF Allowed THEN "calling" ELSE "failed" ELSE worker[t]
      BY <2>1
    <3> QED
      BY <1>2, <1>5, <2>1, <2>3, <3>1, <3>2, <3>3, <3>4 DEF Planned
  <2>6. ASSUME NEW t \in Task PROVE Matched(t)'
    <3>1. Matched(t)
      BY DEF Inv
    <3>2. t \in pending' \/ t \in wave' => t \in pending
      BY <2>1, <2>3
    <3> QED
      BY <1>2, <1>3, <2>1, <3>1, <3>2 DEF Matched, HubSame, In
  <2>7. Spent'
    <3> SUFFICES ASSUME limit > 0 PROVE Spent'
      BY <1>2 DEF Spent
    <3>1. calls' <= limit' - 1 + Overrun
      BY <1>1, <1>2 DEF Spent
    <3>2. \A t, u \in wave' : t = u
      BY <1>1, <2>1, SingleWave DEF BatchTyped
    <3>3. ASSUME NEW t \in Task, worker'[t] = "calling" PROVE calls <= limit - 1 + attempts[t]
      <4>1. Allowed
        BY <1>5, <2>1, <3>3
      <4>2. calls < limit
        BY <1>1, <4>1 DEF Allowed
      <4>3. attempts[t] \in Nat /\ calls \in Nat
        BY <1>1, Numbers DEF BatchTyped, RunTyped
      <4> QED
        BY <1>1, <4>2, <4>3
    <3> QED
      BY <1>2, <3>1, <3>2, <3>3 DEF Spent, Overrun
  <2> QED
    BY <1>4, <2>2, <2>4, <2>5, <2>6, <2>7 DEF Inv
<1> QED
  BY <1>6, <1>7, <1>8

-----------------------------------------------------------------------------
(* Workers *)

\* The call of a worker is recorded, and leaves room for the models it may still try.
LEMMA RecordedCall ==
  ASSUME Inv, NEW t \in Task, worker[t] = "calling"
  PROVE  /\ Recorded(1) \in Nat
         /\ limit > 0 => /\ Recorded(1) = calls + 1
                         /\ calls + 1 <= limit - 1 + Overrun
                         /\ calls + 1 <= limit - 1 + (attempts[t] + 1)
                         /\ \A u \in Task : u # t => worker[u] # "calling"
<1>1. /\ calls \in Nat /\ limit \in Nat /\ attempts[t] \in Nat /\ attempts[t] <= ModelRetries
      /\ ModelRetries \in Nat
  BY Numbers DEF Inv, RunTyped, BatchTyped
<1>2. Recorded(1) \in Nat
  BY <1>1 DEF Recorded
<1>3. ASSUME limit > 0
      PROVE  /\ Recorded(1) = calls + 1
             /\ calls <= limit - 1 + attempts[t]
             /\ \A u, v \in wave : u = v
  BY <1>1, <1>3 DEF Recorded, Inv, Spent
<1>4. \A u \in Task : worker[u] = "calling" => u \in wave
  BY DEF Inv, Planned
<1>5. ASSUME limit > 0
      PROVE  calls + 1 <= limit - 1 + Overrun /\ calls + 1 <= limit - 1 + (attempts[t] + 1)
  BY <1>1, <1>3, <1>5, OverrunBounds
<1> QED
  BY <1>2, <1>3, <1>4, <1>5

\* A worker has ended, with what it proposes.
Ended(t, how, paths) ==
  /\ worker' = [worker EXCEPT ![t] = how]
  /\ proposal' = proposal \/ proposal' = [proposal EXCEPT ![t] = paths]
  /\ plan' = plan /\ pending' = pending /\ completed' = completed /\ wave' = wave
  /\ attempts' = attempts /\ cancelled' = cancelled /\ outcome' = outcome

LEMMA EndedStep ==
  ASSUME Inv, NEW t \in Task, NEW how \in {"completed", "failed", "cancelled"},
         NEW paths \in Proposal \cup {{}}, Ended(t, how, paths), worker[t] = "calling",
         barred' \subseteq Task, calls' \in {calls, Recorded(1)}, limit' = limit,
         phase' = phase, round' = round, HubSame, RunTyped'
  PROVE  Inv'
<1>1. RunTyped /\ BatchTyped /\ Spent /\ limit \in Nat /\ calls \in Nat
  BY Numbers DEF Inv, RunTyped
<1>2. /\ worker' \in [Task -> {"idle", "calling", "completed", "failed", "cancelled"}]
      /\ worker'[t] = how /\ \A u \in Task : u # t => worker'[u] = worker[u]
  BY <1>1 DEF Ended, BatchTyped
<1>3. /\ proposal' \in [Task -> Proposal \cup {{}}]
      /\ \A u \in Task : u # t => proposal'[u] = proposal[u]
  BY <1>1 DEF Ended, BatchTyped
<1>4. BatchTyped'
  BY <1>1, <1>2, <1>3 DEF Ended, BatchTyped
<1>5. Planned(t) /\ phase = "work" /\ t \in wave /\ outcome[t] = "none"
  BY DEF Inv, Planned
<1>6. ASSUME NEW u \in Task PROVE Planned(u)'
  <2>1. Planned(u)
    BY DEF Inv
  <2>2. worker'[u] = worker[u] \/ (worker[u] = "calling" /\ worker'[u] \in {"completed", "failed", "cancelled"})
    BY <1>2
  <2> QED
    BY <1>5, <2>1, <2>2 DEF Planned, Ended
<1>7. ASSUME NEW u \in Task PROVE Matched(u)'
  <2>1. proposal'[u] = proposal[u] \/ outcome[u] # "completed"
    BY <1>3, <1>5
  <2> QED
    BY <2>1, MatchedKept DEF Ended, HubSame
<1>8. Histories' /\ HubTyped'
  BY HistoriesKept, HubKept DEF HubSame
<1>9. Spent'
  <2> SUFFICES ASSUME limit > 0 PROVE Spent'
    BY DEF Spent
  <2>1. calls' <= limit - 1 + Overrun
    BY <1>1, RecordedCall DEF Spent
  <2>2. \A u \in Task : worker'[u] # "calling"
    BY <1>2, RecordedCall
  <2> QED
    BY <1>1, <2>1, <2>2 DEF Spent, Ended, Overrun
<1> QED
  BY <1>4, <1>6, <1>7, <1>8, <1>9 DEF Inv

LEMMA AnswerStep ==
  ASSUME Inv, NEW t \in Task, NEW paths \in Proposal, NEW may \in BOOLEAN, Answers(t, paths, may)
  PROVE  Inv'
<1>1. /\ worker[t] = "calling" /\ calls' = Recorded(1) /\ limit' = limit /\ phase' = phase
      /\ plan' = plan /\ pending' = pending /\ completed' = completed /\ wave' = wave
      /\ attempts' = attempts /\ cancelled' = cancelled /\ outcome' = outcome
      /\ UNCHANGED runVars /\ UNCHANGED loopVars /\ UNCHANGED hubVars
      /\ unresolved' = unresolved /\ pull' = pull
  BY DEF Answers
<1>2. HubSame /\ status' = status /\ round' = round /\ resumes' = resumes /\ stopping' = stopping
  BY <1>1 DEF loopVars, hubVars, HubSame, runVars
<1>3. Recorded(1) \in Nat
  BY <1>1, RecordedCall
<1>4. RunTyped'
  BY <1>1, <1>2, <1>3 DEF Inv, RunTyped
<1>5. CASE t \in cancelled \/ stopping
  <2>1. worker' = [worker EXCEPT ![t] = "cancelled"] /\ proposal' = proposal /\ barred' = barred
    BY <1>5 DEF Answers, Ends
  <2>2. Ended(t, "cancelled", paths) /\ barred' \subseteq Task
    BY <1>1, <2>1 DEF Ended, Inv, BatchTyped
  <2> QED
    BY <1>1, <1>2, <1>4, <2>2, EndedStep
<1>6. CASE ~(t \in cancelled \/ stopping)
  <2>1. PICK how \in {"completed", "failed"} : how = IF paths # {} /\ ~may THEN "failed" ELSE "completed"
    OBVIOUS
  <2>2. PICK q \in Proposal \cup {{}} : q = IF may THEN paths ELSE {}
    OBVIOUS
  <2>3. /\ worker' = [worker EXCEPT ![t] = how] /\ proposal' = [proposal EXCEPT ![t] = q]
        /\ barred' \in {barred, barred \cup {t}}
    BY <1>6, <2>1, <2>2 DEF Answers, Ends
  <2>4. Ended(t, how, q) /\ barred' \subseteq Task
    BY <1>1, <2>3 DEF Ended, Inv, BatchTyped
  <2> QED
    BY <1>1, <1>2, <1>4, <2>4, EndedStep
<1> QED
  BY <1>5, <1>6

LEMMA FailStep ==
  ASSUME Inv, NEW t \in Task, Fails(t) \/ PolicyStops(t)
  PROVE  Inv'
<1>1. /\ worker[t] = "calling" /\ calls' \in {calls, Recorded(1)} /\ limit' = limit /\ phase' = phase
      /\ plan' = plan /\ pending' = pending /\ completed' = completed /\ wave' = wave
      /\ attempts' = attempts /\ cancelled' = cancelled /\ outcome' = outcome
      /\ barred' = barred /\ proposal' = proposal
      /\ status' \in {status, "NEEDS_HUMAN"} /\ round' = round /\ resumes' = resumes
      /\ stopping' = stopping /\ UNCHANGED loopVars /\ UNCHANGED hubVars
      /\ unresolved' = unresolved /\ pull' = pull
  BY DEF Fails, PolicyStops, runVars, budgetVars
<1>2. PICK how \in {"failed", "cancelled"} : worker' = [worker EXCEPT ![t] = how]
  <2>1. CASE Fails(t)
    BY <2>1 DEF Fails, Ends
  <2>2. CASE PolicyStops(t)
    BY <2>2 DEF PolicyStops, Ends
  <2> QED
    BY <2>1, <2>2
<1>3. calls' \in Nat
  BY <1>1, RecordedCall DEF Inv, RunTyped
<1>4. RunTyped'
  BY <1>1, <1>3 DEF Inv, RunTyped
<1>5. HubSame
  BY <1>1 DEF loopVars, hubVars, HubSame
<1>6. Ended(t, how, {}) /\ barred' \subseteq Task
  BY <1>1, <1>2 DEF Ended, Inv, BatchTyped
<1> QED
  BY <1>1, <1>4, <1>5, <1>6, EndedStep

LEMMA RefusalStep ==
  ASSUME Inv, NEW t \in Task, ModelRefused(t)
  PROVE  Inv'
<1>1. /\ worker[t] = "calling" /\ calls' = Recorded(1) /\ limit' = limit /\ phase' = phase
      /\ plan' = plan /\ pending' = pending /\ completed' = completed /\ wave' = wave
      /\ worker' = worker /\ cancelled' = cancelled /\ outcome' = outcome
      /\ barred' = barred /\ proposal' = proposal
      /\ UNCHANGED runVars /\ UNCHANGED loopVars /\ UNCHANGED hubVars
      /\ unresolved' = unresolved /\ pull' = pull
      /\ attempts[t] < ModelRetries /\ attempts' = [attempts EXCEPT ![t] = @ + 1]
  BY DEF ModelRefused
<1>2. HubSame /\ status' = status /\ round' = round /\ resumes' = resumes /\ stopping' = stopping
  BY <1>1 DEF loopVars, hubVars, HubSame, runVars
<1>3. BatchTyped /\ Spent /\ limit \in Nat /\ Recorded(1) \in Nat
  BY <1>1, RecordedCall, Numbers DEF Inv, RunTyped
<1>4. RunTyped'
  BY <1>1, <1>2, <1>3 DEF Inv, RunTyped
<1>5. attempts' \in [Task -> 0..ModelRetries] /\ attempts'[t] = attempts[t] + 1
  <2>1. attempts \in [Task -> 0..ModelRetries]
    BY <1>3 DEF BatchTyped
  <2>2. attempts[t] + 1 \in 0..ModelRetries
    BY <1>1, <2>1, Numbers
  <2> QED
    BY <1>1, <2>1, <2>2
<1>6. BatchTyped'
  BY <1>1, <1>3, <1>5 DEF BatchTyped
<1>7. ASSUME NEW u \in Task PROVE Planned(u)'
  BY <1>1 DEF Inv, Planned
<1>8. ASSUME NEW u \in Task PROVE Matched(u)'
  BY <1>1, <1>2, MatchedKept DEF HubSame
<1>9. Histories' /\ HubTyped'
  BY <1>2, HistoriesKept, HubKept DEF HubSame
<1>10. Spent'
  <2> SUFFICES ASSUME limit > 0 PROVE Spent'
    BY <1>1 DEF Spent
  <2>1. /\ calls' <= limit - 1 + Overrun
        /\ calls' <= limit - 1 + attempts'[t]
        /\ \A u \in Task : u # t => worker[u] # "calling"
    BY <1>1, <1>5, RecordedCall
  <2> QED
    BY <1>1, <1>3, <2>1 DEF Spent, Overrun
<1> QED
  BY <1>4, <1>6, <1>7, <1>8, <1>9, <1>10 DEF Inv

LEMMA CancelTaskStep ==
  ASSUME Inv, NEW t \in Task, CancelTask(t)
  PROVE  Inv'
<1>1. /\ cancelled' = cancelled \cup {t} /\ limit' = limit /\ calls' = calls /\ phase' = phase
      /\ plan' = plan /\ pending' = pending /\ completed' = completed /\ wave' = wave
      /\ worker' = worker /\ attempts' = attempts /\ outcome' = outcome
      /\ barred' = barred /\ proposal' = proposal
      /\ UNCHANGED runVars /\ UNCHANGED loopVars /\ UNCHANGED hubVars
      /\ unresolved' = unresolved /\ pull' = pull
  BY DEF CancelTask, budgetVars
<1>2. HubSame /\ status' = status /\ round' = round /\ resumes' = resumes /\ stopping' = stopping
  BY <1>1 DEF loopVars, hubVars, HubSame, runVars
<1>3. RunTyped'
  BY <1>1, <1>2 DEF Inv, RunTyped
<1>4. BatchTyped'
  BY <1>1 DEF Inv, BatchTyped
<1>5. ASSUME NEW u \in Task PROVE Planned(u)'
  BY <1>1 DEF Inv, Planned
<1>6. ASSUME NEW u \in Task PROVE Matched(u)'
  BY <1>1, <1>2, MatchedKept DEF HubSame
<1>7. Histories' /\ HubTyped' /\ Spent'
  BY <1>1, <1>2, HistoriesKept, HubKept, SpentKept DEF HubSame
<1> QED
  BY <1>3, <1>4, <1>5, <1>6, <1>7 DEF Inv

-----------------------------------------------------------------------------
(* Joins *)

\* What a join says of a task: nothing new outside the wave; inside it, completed only
\* without a conflict, and with a proposal only when that was applied.
Says(t, conflict, applied) ==
  /\ t \notin wave => outcome'[t] = outcome[t]
  /\ t \in wave => outcome'[t] # "none"
  /\ t \in wave /\ outcome'[t] = "completed" => ~conflict /\ (proposal[t] = {} \/ (applied /\ Proposes(t)))
  /\ t \in wave /\ ~conflict /\ applied /\ Proposes(t) => outcome'[t] = "completed"

RestSame ==
  /\ plan' = plan /\ pending' = pending /\ worker' = worker /\ attempts' = attempts
  /\ cancelled' = cancelled /\ barred' = barred /\ proposal' = proposal

LEMMA JoinSays ==
  ASSUME Inv, NEW c \in BOOLEAN, NEW a \in BOOLEAN, Joined(c, a), RestSame,
         limit' = limit, calls' = calls, round' = round,
         \A t \in wave : worker[t] # "calling"
  PROVE  /\ BatchTyped' /\ Spent' /\ wave' = {} /\ phase' \in {"joined", "wave"}
         /\ \A t \in Task : Planned(t)' /\ Says(t, c, a)
<1>1. BatchTyped /\ Spent /\ wave \subseteq Task
  BY DEF Inv, BatchTyped
<1>2. /\ \A t \in Task :
           outcome'[t] = CASE t \notin wave -> outcome[t]
                           [] t \in wave /\ c -> "conflict"
                           [] t \in wave /\ ~c /\ Proposes(t) /\ ~a -> "not-applied"
                           [] OTHER -> worker[t]
      /\ wave' = {} /\ phase' \in {"joined", "wave"}
      /\ completed' = completed \cup {t \in wave : outcome'[t] = "completed"}
      /\ DOMAIN outcome' = Task
  BY DEF Joined
<1>3. ASSUME NEW t \in wave PROVE worker[t] \in {"completed", "failed", "cancelled"}
  BY <1>1, <1>3 DEF Inv, Planned, BatchTyped
<1>4. ASSUME NEW t \in Task, t \notin wave PROVE outcome'[t] = outcome[t]
  BY <1>2, <1>4
<1>5. ASSUME NEW t \in wave, c PROVE outcome'[t] = "conflict"
  BY <1>1, <1>2, <1>5
<1>6. ASSUME NEW t \in wave, ~c, Proposes(t), ~a PROVE outcome'[t] = "not-applied"
  BY <1>1, <1>2, <1>6
<1>7. ASSUME NEW t \in wave, ~c, a \/ ~Proposes(t) PROVE outcome'[t] = worker[t]
  BY <1>1, <1>2, <1>7
<1>8. ASSUME NEW t \in Task PROVE Says(t, c, a)
  BY <1>3, <1>4, <1>5, <1>6, <1>7 DEF Says, Proposes
<1>9. ASSUME NEW t \in Task
      PROVE  outcome'[t] \in {"none", "completed", "failed", "cancelled", "conflict", "not-applied", "blocked"}
  BY <1>1, <1>3, <1>4, <1>5, <1>6, <1>7 DEF BatchTyped
<1>10. BatchTyped'
  <2>1. outcome' = [t \in Task |-> outcome'[t]]
    BY <1>2 DEF Joined
  <2>2. outcome' \in [Task -> {"none", "completed", "failed", "cancelled", "conflict", "not-applied", "blocked"}]
    BY <1>9, <2>1
  <2>3. completed' \subseteq Task
    BY <1>1, <1>2 DEF BatchTyped
  <2> QED
    BY <1>1, <1>2, <2>2, <2>3 DEF BatchTyped, RestSame
<1>11. ASSUME NEW t \in Task PROVE Planned(t)'
  <2>1. Planned(t)
    BY DEF Inv
  <2>2. worker[t] # "calling"
    BY <2>1 DEF Planned
  <2>3. t \in completed' <=> t \in completed \/ (t \in wave /\ outcome'[t] = "completed")
    BY <1>2
  <2>4. t \notin wave => outcome'[t] = outcome[t]
    BY <1>4
  <2> QED
    BY <1>2, <2>1, <2>2, <2>3, <2>4 DEF Planned, RestSame
<1>12. Spent'
  <2>1. \A t \in Task : worker[t] # "calling"
    BY DEF Inv, Planned
  <2> QED
    BY <1>1, <1>2, <2>1 DEF Spent, RestSame, Overrun
<1> QED
  BY <1>2, <1>8, <1>10, <1>11, <1>12

\* The outcomes still match the repository when nothing was taken from the histories,
\* and what was added is the work of the tasks now completed.
LEMMA JoinMatches ==
  ASSUME Inv, NEW t \in Task, NEW c \in BOOLEAN, NEW a \in BOOLEAN, Says(t, c, a),
         wave' = {}, pending' = pending, proposal' = proposal, round' = round,
         In(known, t) => In(known, t)',
         In(branch, t) => In(branch, t)',
         t \in wave /\ outcome'[t] = "completed" /\ proposal[t] # {} => In(branch, t)' /\ In(known, t)',
         ~doubt' /\ In(branch, t)' =>
           ~doubt /\ (In(branch, t) \/ (t \in wave /\ outcome'[t] = "completed"))
  PROVE  Matched(t)'
<1>1. Planned(t) /\ Matched(t)
  BY DEF Inv
<1>2. outcome'[t] = "completed" /\ proposal'[t] # {} => In(branch, t)' /\ In(known, t)'
  BY <1>1 DEF Says, Matched
<1>3. ASSUME ~doubt', t \in pending \/ outcome'[t] \notin {"none", "completed"} PROVE ~In(branch, t)'
  <2>1. ~(t \in wave /\ outcome'[t] = "completed")
    BY <1>1, <1>3 DEF Planned
  <2>2. t \in pending \/ t \in wave \/ outcome[t] \notin {"none", "completed"}
    BY <1>3 DEF Says
  <2>3. ~doubt => ~In(branch, t)
    BY <1>1, <2>2 DEF Matched
  <2> QED
    BY <1>3, <2>1, <2>3
<1> QED
  BY <1>2, <1>3 DEF Matched

\* A join that commits nothing.
LEMMA IdleJoin ==
  ASSUME Inv, NEW c \in BOOLEAN, Joined(c, FALSE), RestSame, HubSame,
         limit' = limit, calls' = calls, round' = round, RunTyped',
         \A t \in wave : worker[t] # "calling"
  PROVE  Inv'
<1>1. /\ BatchTyped' /\ Spent' /\ wave' = {}
      /\ \A t \in Task : Planned(t)' /\ Says(t, c, FALSE)
  BY JoinSays
<1>2. ASSUME NEW t \in Task PROVE Matched(t)'
  <2>1. /\ In(known, t) <=> In(known, t)'
        /\ In(branch, t) <=> In(branch, t)'
    BY DEF In, HubSame
  <2>2. t \in wave /\ outcome'[t] = "completed" => proposal[t] = {}
    BY <1>1 DEF Says
  <2> QED
    BY <1>1, <2>1, <2>2, JoinMatches DEF HubSame, RestSame
<1>3. HubTyped' /\ Histories'
  BY HubKept, HistoriesKept DEF HubSame
<1> QED
  BY <1>1, <1>2, <1>3 DEF Inv

LEMMA WaveEndStep ==
  ASSUME Inv, WaveEnds
  PROVE  Inv'
<1>1. /\ limit' = limit /\ calls' = calls /\ round' = round /\ resumes' = resumes
      /\ stopping' = stopping /\ unresolved' = unresolved /\ pull' = pull
      /\ UNCHANGED loopVars /\ UNCHANGED hubVars /\ RestSame
      /\ phase = "work" /\ \A t \in wave : worker[t] # "calling"
  BY DEF WaveEnds, budgetVars, RestSame
<1>2. HubSame
  BY <1>1 DEF loopVars, hubVars, HubSame
<1>3. RunTyped /\ \A t \in Task : worker[t] # "calling"
  BY <1>1 DEF Inv, Planned
<1>4. CASE /\ UNCHANGED <<outcome, completed, wave>>
           /\ \/ phase' = "over" /\ status' \in {status, "CANCELLED"}
              \/ phase' = "commit" /\ status' = status /\ Applies
  <2>1. Same
    BY <1>1, <1>4 DEF Same, RestSame
  <2>2. RunTyped'
    BY <1>1, <1>3, <1>4 DEF RunTyped
  <2>3. \A t \in Task : t \in wave /\ phase' \in {"commit", "move"} => worker[t] = "completed"
    BY <1>4 DEF Applies
  <2>4. Spent'
    BY <1>1, <1>4, SpentKept DEF RestSame
  <2> QED
    BY <1>1, <1>2, <1>3, <2>1, <2>2, <2>3, <2>4, QuietStep
<1>5. CASE Joined(Overlap \/ wave \cap barred # {}, FALSE) /\ UNCHANGED status
  <2>1. PICK c \in BOOLEAN : c = (Overlap \/ wave \cap barred # {})
    OBVIOUS
  <2>2. Joined(c, FALSE)
    BY <1>5, <2>1
  <2>3. RunTyped'
    <3>1. phase' \in {"joined", "wave"}
      BY <2>2 DEF Joined
    <3> QED
      BY <1>1, <1>3, <1>5, <3>1 DEF RunTyped
  <2> QED
    BY <1>1, <1>2, <2>2, <2>3, IdleJoin
<1>6. \/ /\ UNCHANGED <<outcome, completed, wave>>
         /\ \/ phase' = "over" /\ status' \in {status, "CANCELLED"}
            \/ phase' = "commit" /\ status' = status /\ Applies
      \/ Joined(Overlap \/ wave \cap barred # {}, FALSE) /\ UNCHANGED status
  <2>1. CASE stopping
    BY <2>1 DEF WaveEnds, Over
  <2>2. CASE ~stopping /\ status = "NEEDS_HUMAN"
    BY <2>2 DEF WaveEnds
  <2>3. CASE ~stopping /\ status # "NEEDS_HUMAN" /\ Applies
    BY <2>3 DEF WaveEnds
  <2>4. CASE ~stopping /\ status # "NEEDS_HUMAN" /\ ~Applies
    BY <2>4 DEF WaveEnds
  <2> QED
    BY <2>1, <2>2, <2>3, <2>4
<1> QED
  BY <1>4, <1>5, <1>6

-----------------------------------------------------------------------------
(* Commits *)

\* What a step of a commit leaves alone.
Committing ==
  /\ limit' = limit /\ calls' = calls /\ round' = round /\ resumes' = resumes /\ status' = status
  /\ stopping' = stopping /\ unresolved' = unresolved /\ pull' = pull
  /\ RestSame /\ base' = base /\ pushes' = pushes

LEMMA CommittingTyped ==
  ASSUME Inv, Committing, phase' \in {phase, "move", "joined", "wave"}
  PROVE  RunTyped'
BY DEF Inv, RunTyped, Committing

\* While a wave is being committed all its workers have completed.
LEMMA AllCompleted ==
  ASSUME Inv, phase \in {"commit", "move"}
  PROVE  /\ \A t \in wave : worker[t] = "completed" /\ t \in Task
         /\ \A t \in Task : worker[t] # "calling"
BY DEF Inv, Planned, BatchTyped

LEMMA RefusedCommit ==
  ASSUME Inv, Committing, HubSame, Joined(TRUE, FALSE), phase \in {"commit", "move"}
  PROVE  Inv'
<1>1. RunTyped'
  BY CommittingTyped DEF Joined
<1>2. \A t \in wave : worker[t] # "calling"
  BY AllCompleted
<1> QED
  BY <1>1, <1>2, IdleJoin DEF Committing

LEMMA CommitFailStep ==
  ASSUME Inv, CommitFails
  PROVE  Inv'
<1>1. Committing /\ HubSame
  BY DEF CommitFails, Committing, HubSame, budgetVars, runVars, restOfBatch, loopVars, hubVars, RestSame
<1> QED
  BY <1>1, RefusedCommit DEF CommitFails

LEMMA HeadStep ==
  ASSUME Inv, ChecksHead
  PROVE  Inv'
<1>1. Committing /\ HubSame /\ phase = "commit"
  BY DEF ChecksHead, Committing, HubSame, budgetVars, runVars, restOfBatch, loopVars, hubVars, RestSame
<1>2. CASE branch = known
  <2>1. phase' = "move" /\ UNCHANGED joinVars
    BY <1>2 DEF ChecksHead
  <2>2. Same
    BY <1>1, <2>1 DEF Same, joinVars, Committing, RestSame
  <2>3. RunTyped'
    BY <1>1, <2>1, CommittingTyped
  <2>4. Spent'
    BY <1>1, <2>2, SpentKept DEF Same, Committing
  <2> QED
    BY <1>1, <2>2, <2>3, <2>4, AllCompleted, QuietStep DEF Committing
<1>3. CASE branch # known
  <2>1. Joined(TRUE, FALSE)
    BY <1>3 DEF ChecksHead
  <2> QED
    BY <1>1, <2>1, RefusedCommit
<1> QED
  BY <1>2, <1>3

\* No task is on the base.
LEMMA NotOnBase ==
  ASSUME Inv, NEW t \in Task
  PROVE  \A i \in DOMAIN base : t \notin base[i].tasks
BY DEF Inv, Histories

LEMMA CutStep ==
  ASSUME Inv, NEW lost \in BOOLEAN, CutsBranch(lost)
  PROVE  Inv'
<1>1. Committing /\ known' = known /\ landed' = landed /\ phase = "commit"
  BY DEF CutsBranch, Committing, budgetVars, runVars, restOfBatch, RestSame
<1>2. CASE branch # NoBranch
  <2>1. Joined(TRUE, FALSE) /\ HubSame
    BY <1>1, <1>2 DEF CutsBranch, HubSame, Committing
  <2> QED
    BY <1>1, <2>1, RefusedCommit
<1>3. CASE branch = NoBranch
  <2>1. /\ branch' = base /\ cut' = ~lost /\ doubt' = (doubt \/ lost)
    BY <1>3 DEF CutsBranch
  <2>2. HubTyped'
    BY <1>1, <2>1 DEF Inv, HubTyped, Committing
  <2>3. Histories'
    BY <1>1, <2>1 DEF Inv, Histories, Committing
  <2>4. ASSUME NEW t \in Task PROVE ~In(branch, t) /\ ~In(branch, t)' /\ (In(known, t) => In(known, t)')
    <3>1. ~In(branch, t)'
      BY <2>1, NotOnBase DEF In
    <3> QED
      BY <1>1, <1>3, <3>1 DEF In, Committing
  <2>5. CASE lost
    <3>1. Joined(TRUE, FALSE) /\ doubt' = TRUE
      BY <1>3, <2>1, <2>5 DEF CutsBranch
    <3>2. RunTyped'
      BY <1>1, <3>1, CommittingTyped DEF Joined
    <3>3. /\ BatchTyped' /\ Spent' /\ wave' = {}
          /\ \A t \in Task : Planned(t)' /\ Says(t, TRUE, FALSE)
      BY <1>1, <3>1, AllCompleted, JoinSays DEF Committing
    <3>4. ASSUME NEW t \in Task PROVE Matched(t)'
      <4>1. ~(t \in wave /\ outcome'[t] = "completed")
        BY <3>3 DEF Says
      <4> QED
        BY <1>1, <2>4, <3>3, <4>1, JoinMatches DEF Committing, RestSame
    <3> QED
      BY <2>2, <2>3, <3>2, <3>3, <3>4 DEF Inv
  <2>6. CASE ~lost
    <3>1. phase' = phase /\ UNCHANGED joinVars /\ doubt' = doubt
      BY <1>3, <2>1, <2>6 DEF CutsBranch, Inv, HubTyped
    <3>2. Same
      BY <1>1, <3>1 DEF Same, joinVars, Committing, RestSame
    <3>3. RunTyped'
      BY <1>1, <3>1, CommittingTyped
    <3>4. BatchTyped'
      BY <3>2, BatchKept
    <3>5. ASSUME NEW t \in Task PROVE Planned(t)'
      BY <1>1, <3>1, <3>2, AllCompleted, PlannedKept
    <3>6. ASSUME NEW t \in Task PROVE Matched(t)'
      <4>1. Matched(t)
        BY DEF Inv
      <4> QED
        BY <2>4, <3>2, <4>1 DEF Matched, Same
    <3>7. Spent'
      BY <1>1, <3>2, SpentKept DEF Same, Committing
    <3> QED
      BY <2>2, <2>3, <3>3, <3>4, <3>5, <3>6, <3>7 DEF Inv
  <2> QED
    BY <2>5, <2>6
<1> QED
  BY <1>2, <1>3

LEMMA CommitIsEntry ==
  ASSUME Inv
  PROVE  /\ Commit \in Entry /\ Commit.number = round /\ round \in Nat
         /\ \A t \in Task : t \in Commit.tasks <=> t \in wave /\ Proposes(t)
<1>1. {t \in wave : Proposes(t)} \subseteq Task
  BY DEF Inv, BatchTyped
<1>2. round \in Nat
  BY Numbers DEF Inv, RunTyped
<1> QED
  BY <1>1, <1>2 DEF Commit, Entry

\* What is on a history after a commit was appended to it.
LEMMA OnAppended ==
  ASSUME NEW h \in Seq(Entry), NEW e \in Entry, NEW t \in Task, NEW n,
         h # NoBranch
  PROVE  (\E i \in DOMAIN Append(h, e) : t \in Append(h, e)[i].tasks /\ Append(h, e)[i].number = n)
         <=> \/ \E i \in DOMAIN h : t \in h[i].tasks /\ h[i].number = n
             \/ t \in e.tasks /\ e.number = n
BY Appended

LEMMA MoveStep ==
  ASSUME Inv, NEW lost \in BOOLEAN, MovesBranch(lost)
  PROVE  Inv'
<1>1. Committing /\ cut' = cut /\ phase = "move" /\ round' = round
  BY DEF MovesBranch, Committing, budgetVars, runVars, restOfBatch, RestSame
<1>2. CASE ~Forward
  <2>1. Joined(TRUE, FALSE) /\ HubSame
    BY <1>1, <1>2 DEF MovesBranch, HubSame, Committing
  <2> QED
    BY <1>1, <2>1, RefusedCommit
<1>3. CASE Forward
  <2>1. /\ branch' = Append(branch, Commit) /\ doubt' = (doubt \/ lost)
        /\ known' = (IF lost THEN known ELSE branch')
        /\ landed' = (landed \/ ~lost) /\ Joined(lost, ~lost) /\ branch = known
    BY <1>3 DEF MovesBranch, Forward
  <2>2. PICK e \in Entry : e = Commit
    BY CommitIsEntry
  <2>3. /\ e.number = round /\ round \in Nat
        /\ \A t \in Task : t \in e.tasks <=> t \in wave /\ Proposes(t)
    BY <2>2, CommitIsEntry
  <2>4. known \in Seq(Entry) /\ branch' = Append(known, e) /\ HubTyped
    BY <2>1, <2>2 DEF Inv, HubTyped
  <2>5. known # NoBranch /\ Append(known, e) # NoBranch /\ Append(known, e) \in Seq(Entry)
    BY <2>4, Appended, BranchAssumption
  <2>6. HubTyped'
    BY <1>1, <2>1, <2>4, <2>5 DEF HubTyped, Committing
  <2>7. Histories'
    <3>1. \A i \in DOMAIN base' : base'[i].tasks = {}
      BY <1>1 DEF Inv, Histories, Committing
    <3>2. \A i \in DOMAIN known : known[i].tasks # {} => known[i].number <= round
      BY <2>1, <2>5 DEF Inv, Histories
    <3>3. \A i \in DOMAIN branch' : branch'[i].tasks # {} => branch'[i].number <= round
      BY <2>3, <2>4, <3>2, Appended
    <3> QED
      BY <1>1, <3>1, <3>3 DEF Histories
  <2>8. RunTyped'
    BY <1>1, <2>1, CommittingTyped DEF Joined
  <2>9. /\ BatchTyped' /\ Spent' /\ wave' = {}
        /\ \A t \in Task : Planned(t)' /\ Says(t, lost, ~lost)
    BY <1>1, <2>1, AllCompleted, JoinSays DEF Committing
  <2>10. ASSUME NEW t \in Task PROVE Matched(t)'
    <3>1. /\ In(branch, t)' <=> In(known, t) \/ (t \in wave /\ Proposes(t))
          /\ In(branch, t) <=> In(known, t)
      <4>1. In(branch, t)' <=>
              \E i \in DOMAIN Append(known, e) :
                 t \in Append(known, e)[i].tasks /\ Append(known, e)[i].number = round
        BY <1>1, <2>4, <2>5 DEF In
      <4>2. In(known, t) <=> \E i \in DOMAIN known : t \in known[i].tasks /\ known[i].number = round
        BY <2>5 DEF In
      <4> QED
        BY <2>1, <2>3, <2>4, <2>5, <4>1, <4>2, OnAppended
    <3>2. In(known, t)' <=> IF lost THEN In(known, t) ELSE In(branch, t)'
      BY <1>1, <2>1 DEF In
    <3>3. /\ Says(t, lost, ~lost)
          /\ t \in wave /\ outcome'[t] = "completed" => ~lost /\ (proposal[t] = {} \/ Proposes(t))
          /\ t \in wave /\ ~lost /\ Proposes(t) => outcome'[t] = "completed"
      BY <2>9 DEF Says
    <3>4. t \in wave /\ outcome'[t] = "completed" /\ proposal[t] # {} => In(branch, t)' /\ In(known, t)'
      BY <3>1, <3>2, <3>3
    <3>5. ~doubt' /\ In(branch, t)' =>
            ~doubt /\ (In(branch, t) \/ (t \in wave /\ outcome'[t] = "completed"))
      BY <2>1, <3>1, <3>3
    <3>6. (In(known, t) => In(known, t)') /\ (In(branch, t) => In(branch, t)')
      BY <3>1, <3>2
    <3> QED
      BY <1>1, <2>9, <3>3, <3>4, <3>5, <3>6, JoinMatches DEF Committing, RestSame
  <2> QED
    BY <2>6, <2>7, <2>8, <2>9, <2>10 DEF Inv
<1> QED
  BY <1>2, <1>3

LEMMA PushStep ==
  ASSUME Inv, PushedByOthers
  PROVE  Inv'
<1>1. /\ limit' = limit /\ calls' = calls /\ round' = round /\ resumes' = resumes /\ status' = status
      /\ stopping' = stopping /\ unresolved' = unresolved /\ pull' = pull /\ phase' = phase
      /\ UNCHANGED batchVars /\ UNCHANGED loopVars /\ doubt' = doubt
      /\ pushes < MaxPushes /\ pushes' = pushes + 1
  BY DEF PushedByOthers, budgetVars, runVars
<1>2. Same /\ known' = known /\ cut' = cut /\ landed' = landed
  BY <1>1, BatchSame DEF loopVars
<1>3. PICK theirs : theirs = [tasks |-> {}, number |-> pushes + 1]
  OBVIOUS
<1>4. HubTyped /\ Histories /\ pushes + 1 \in 0..MaxPushes /\ pushes + 1 \in Nat
  BY <1>1, Numbers DEF Inv, HubTyped
<1>5. theirs \in Entry /\ theirs.tasks = {}
  BY <1>3, <1>4 DEF Entry
<1>6. \/ base' = Append(base, theirs) /\ branch' = branch
      \/ branch # NoBranch /\ branch' = Append(branch, theirs) /\ base' = base
  BY <1>3 DEF PushedByOthers
<1>7. RunTyped'
  BY <1>1 DEF Inv, RunTyped
<1>8. BatchTyped' /\ Spent'
  BY <1>1, <1>2, BatchKept, SpentKept DEF Same
<1>9. ASSUME NEW t \in Task PROVE Planned(t)'
  <2>1. Planned(t)
    BY DEF Inv
  <2> QED
    BY <1>1, <1>2, <2>1, PlannedKept DEF Planned
<1>10. CASE base' = Append(base, theirs) /\ branch' = branch
  <2>1. base \in Seq(Entry) /\ base' \in Seq(Entry)
    BY <1>4, <1>5, <1>10, Appended DEF HubTyped
  <2>2. HubTyped'
    BY <1>1, <1>2, <1>4, <1>10, <2>1 DEF HubTyped
  <2>3. \A i \in DOMAIN base' : base'[i].tasks = {}
    BY <1>4, <1>5, <1>10, <2>1, Appended DEF Histories
  <2>4. Histories'
    BY <1>1, <1>4, <1>10, <2>3 DEF Histories
  <2>5. ASSUME NEW t \in Task PROVE Matched(t)'
    BY <1>1, <1>2, <1>10, MatchedKept DEF Same
  <2> QED
    BY <1>7, <1>8, <1>9, <2>2, <2>4, <2>5 DEF Inv
<1>11. CASE branch # NoBranch /\ branch' = Append(branch, theirs) /\ base' = base
  <2>1. branch \in Seq(Entry)
    BY <1>4, <1>11 DEF HubTyped
  <2>2. branch' \in Seq(Entry) /\ branch' # NoBranch
    BY <1>5, <1>11, <2>1, Appended
  <2>3. HubTyped'
    BY <1>1, <1>2, <1>4, <1>11, <2>2 DEF HubTyped
  <2>4. \A i \in DOMAIN branch' : branch'[i].tasks # {} => branch'[i].number <= round
    BY <1>4, <1>5, <1>11, <2>1, Appended DEF Histories
  <2>5. Histories'
    BY <1>1, <1>4, <1>11, <2>4 DEF Histories
  <2>6. ASSUME NEW t \in Task PROVE Matched(t)'
    <3>1. In(branch, t)' <=>
            \E i \in DOMAIN Append(branch, theirs) :
               t \in Append(branch, theirs)[i].tasks /\ Append(branch, theirs)[i].number = round
      BY <1>1, <1>11, <2>2 DEF In
    <3>2. In(branch, t)' <=> In(branch, t)
      BY <1>5, <1>11, <2>1, <3>1, OnAppended DEF In
    <3>3. In(known, t)' <=> In(known, t)
      BY <1>1, <1>2 DEF In
    <3>4. Matched(t)
      BY DEF Inv
    <3> QED
      BY <1>1, <1>2, <3>2, <3>3, <3>4 DEF Matched, Same
  <2> QED
    BY <1>7, <1>8, <1>9, <2>3, <2>5, <2>6 DEF Inv
<1> QED
  BY <1>6, <1>10, <1>11

-----------------------------------------------------------------------------
LEMMA StutterStep ==
  ASSUME Inv, UNCHANGED vars
  PROVE  Inv'
<1>1. /\ limit' = limit /\ calls' = calls /\ round' = round /\ resumes' = resumes /\ status' = status
      /\ stopping' = stopping /\ unresolved' = unresolved /\ pull' = pull /\ phase' = phase
      /\ UNCHANGED batchVars /\ UNCHANGED loopVars /\ UNCHANGED hubVars
  BY DEF vars, budgetVars, runVars
<1>2. Same /\ HubSame
  BY <1>1, BatchSame DEF loopVars, hubVars, HubSame
<1>3. RunTyped'
  BY <1>1 DEF Inv, RunTyped
<1>4. Spent'
  BY <1>1, <1>2, SpentKept DEF Same
<1>5. \A t \in Task : Planned(t)
  BY DEF Inv
<1> QED
  BY <1>1, <1>2, <1>3, <1>4, <1>5, QuietStep DEF Planned

LEMMA StepInv == Inv /\ [Next]_vars => Inv'
<1> SUFFICES ASSUME Inv, [Next]_vars PROVE Inv'
  OBVIOUS
<1>1. CASE Steps
  <2>1. CASE \E n \in 1..2 : Asks(n)
    BY <2>1, AskStep
  <2>2. CASE GivesUp \/ (\E short \in BOOLEAN : SaysDone(short)) \/ LimitReached
    BY <2>2, SupervisorStep
  <2>3. CASE \E p \in Plan : Delegates(p)
    BY <2>3, DelegateStep
  <2>4. CASE SendsWave
    BY <2>4, SendStep
  <2>5. CASE \E t \in Task, paths \in Proposal, may \in BOOLEAN : Answers(t, paths, may)
    BY <2>5, AnswerStep
  <2>6. CASE \E t \in Task : Fails(t) \/ ModelRefused(t) \/ PolicyStops(t)
    BY <2>6, FailStep, RefusalStep
  <2>7. CASE WaveEnds
    BY <2>7, WaveEndStep
  <2>8. CASE \E fit \in BOOLEAN : BatchEnds(fit)
    BY <2>8, BatchEndStep
  <2>9. CASE \E lost \in BOOLEAN : CutsBranch(lost) \/ MovesBranch(lost)
    BY <2>9, CutStep, MoveStep
  <2>10. CASE ChecksHead \/ CommitFails
    BY <2>10, HeadStep, CommitFailStep
  <2>11. CASE \E b \in BOOLEAN : Gate(b) \/ Offers(b)
    BY <2>11, EndStep
  <2> QED
    BY <1>1, <2>1, <2>2, <2>3, <2>4, <2>5, <2>6, <2>7, <2>8, <2>9, <2>10, <2>11 DEF Steps
<1>2. CASE \E t \in Task : CancelTask(t)
  BY <1>2, CancelTaskStep
<1>3. CASE Cancel \/ Resumes \/ PushedByOthers
  BY <1>3, CancelStep, ResumeStep, PushStep
<1>4. CASE UNCHANGED vars
  BY <1>4, StutterStep
<1> QED
  BY <1>1, <1>2, <1>3, <1>4 DEF Next

LEMMA InvHolds == Spec => []Inv
  BY InitInv, StepInv, PTL DEF Spec

\* The state of the run, of its batch and of the repository is always well-formed.
THEOREM TypeCorrect == Spec => []TypeOK
<1>1. Inv => TypeOK
  BY TypeParts DEF Inv
<1> QED
  BY <1>1, InvHolds, PTL

\* What the join tells the supervisor of a task is what the work branch holds, whoever
\* pushes, whichever answer is lost and however often the run is resumed.
THEOREM OutcomeIsTrueCorrect == Spec => []OutcomeIsTrue
<1>1. Inv => OutcomeIsTrue
  BY DEF Inv, Matched, OutcomeIsTrue
<1> QED
  BY <1>1, InvHolds, PTL

\* A worker only starts when all its task needs is completed, and from a commit that
\* holds it.
THEOREM DependentsSeeItCorrect == Spec => []DependentsSeeIt
<1>1. Inv => DependentsSeeIt
  <2> SUFFICES ASSUME Inv, NEW t \in Task, worker[t] = "calling", NEW d \in plan.needs[t]
               PROVE  outcome[d] = "completed" /\ (proposal[d] # {} => In(known, d))
    BY DEF DependentsSeeIt
  <2>1. d \in completed /\ d \in Task
    BY DEF Inv, Planned, BatchTyped
  <2> QED
    BY <2>1 DEF Inv, Planned, Matched
<1> QED
  BY <1>1, InvHolds, PTL

\* A budget is overrun at most by the calls one check lets through.
THEOREM SpendingBoundedCorrect == Spec => []SpendingBounded
<1>1. Inv => SpendingBounded
  BY DEF Inv, Spent, Overrun, SpendingBounded
<1> QED
  BY <1>1, InvHolds, PTL

LEMMA BranchStep ==
  ASSUME Inv, [Next]_vars, branch # NoBranch
  PROVE  branch' # NoBranch /\ IsPrefix(branch, branch')
<1>1. branch \in Seq(Entry)
  BY DEF Inv, HubTyped
<1>2. CASE branch' = branch
  BY <1>1, <1>2, PrefixOfItself
<1>3. CASE \E e \in Entry : branch' = Append(branch, e)
  BY <1>1, <1>3, Appended, AppendedKeeps
<1>4. ASSUME NEW lost \in BOOLEAN, CutsBranch(lost) PROVE branch' = branch
  BY <1>4 DEF CutsBranch
<1>5. ASSUME NEW lost \in BOOLEAN, MovesBranch(lost)
      PROVE  branch' = branch \/ \E e \in Entry : branch' = Append(branch, e)
  BY <1>5, CommitIsEntry DEF MovesBranch, Forward
<1>6. ASSUME PushedByOthers
      PROVE  branch' = branch \/ \E e \in Entry : branch' = Append(branch, e)
  <2>1. PICK theirs : theirs = [tasks |-> {}, number |-> pushes + 1]
    OBVIOUS
  <2>2. theirs \in Entry
    BY <2>1, Numbers DEF Entry, Inv, HubTyped
  <2> QED
    BY <1>6, <2>1, <2>2 DEF PushedByOthers
<1>7. CASE Steps
  BY <1>2, <1>3, <1>4, <1>5, <1>7
     DEF Steps, Asks, GivesUp, Delegates, SaysDone, SendsWave, Answers, Fails, ModelRefused,
         PolicyStops, WaveEnds, BatchEnds, ChecksHead, CommitFails, Gate, Offers, LimitReached, hubVars
<1>8. CASE (\E t \in Task : CancelTask(t)) \/ Cancel \/ Resumes \/ UNCHANGED vars
  BY <1>2, <1>8 DEF CancelTask, Cancel, Resumes, vars, hubVars
<1> QED
  BY <1>2, <1>3, <1>6, <1>7, <1>8 DEF Next

\* No commit of anybody ever disappears from the work branch.
THEOREM NobodyIsOverwrittenCorrect == Spec => NobodyIsOverwritten
<1>1. Inv /\ [Next]_vars => [branch # NoBranch => branch' # NoBranch /\ IsPrefix(branch, branch')]_vars
  BY BranchStep
<1> QED
  BY <1>1, InvHolds, PTL DEF Spec, NobodyIsOverwritten

=============================================================================
