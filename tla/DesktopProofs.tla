--------------------------- MODULE DesktopProofs ----------------------------
(***************************************************************************)
(* What TLAPS proves of Processes, for any number of calls: the types, that *)
(* a result says what became of the child, and that cancelAll reaches every *)
(* child.  Then what it proves of Workspaces, for any folders, repositories *)
(* and handlers.  The two components of the main process share no state;    *)
(* the names of the second begin with Catalogue.                            *)
(*                                                                         *)
(* Processes: none of the two properties is inductive.  What carries them is *)
(* a trace that stopping leaves behind: whoever is at it, in whatever order, *)
(* has recorded a reason first and a SIGKILL before giving up (Traced), so   *)
(* that a call that returns finds both (Told), and a child that cancelAll    *)
(* found alive is either still being stopped by it or was killed (Reached). *)
(*                                                                         *)
(* Workspaces: every step is shown to be one of a few writes of the rows     *)
(* (WorkspaceStep, ProjectStep, OtherStep), and each write to keep what      *)
(* Catalogued and FoldersIdentified say of them; Tidy says who may come to   *)
(* own a workspace in a step.                                               *)
(***************************************************************************)
EXTENDS Processes, Workspaces, WellFoundedInduction, TLAPS

-----------------------------------------------------------------------------
(* Processes: the inductive invariant *)

Traced(p) ==
  /\ phase[p] = "idle" => child[p] = "none"
  /\ "linger" \in timers[p] => child[p] = "exited"
  /\ \A s \in Stopper : stage[p][s] # "none" => reason[p] # NoReason
  /\ \A s \in Stopper : stage[p][s] = "kill" => killed[p]
  /\ killed[p] => reason[p] # NoReason

Told(p) ==
  /\ phase[p] \in {"settled", "returned"} /\ child[p] = "alive" => survived[p] /\ killed[p]
  /\ phase[p] = "returned" /\ outcome[p] = "completed" =>
       child[p] = "exited" /\ reason[p] = NoReason

Reached(p) ==
  cancelled /\ child[p] = "alive" => stage[p]["all"] # "none" \/ killed[p]

Inv == TypeOK /\ \A p \in Proc : Traced(p) /\ Told(p) /\ Reached(p)

-----------------------------------------------------------------------------
(* The operators *)

\* `run` never returns "completed" for a child somebody stopped.
LEMMA FinalType ==
  ASSUME NEW o \in Outcome, NEW r \in {"timeout", "cancelled", NoReason}
  PROVE  /\ Final(o, r) \in Outcome
         /\ Final(o, r) = "completed" => o = "completed" /\ r = NoReason
BY ProcAssumption DEF Final, Outcome

\* A stop begins with a signal and a reason, or not at all.
LEMMA BeginsWithReason ==
  ASSUME TypeOK, NEW p \in Proc, NEW s \in Stopper
  PROVE  /\ Begun(p, s) \in [Stopper -> {"none", "term", "kill"}]
         /\ Reason(p, s) \in {"timeout", "cancelled", NoReason}
         /\ Begun(p, s)[s] # "kill"
         /\ \A u \in Stopper \ {s} : Begun(p, s)[u] = stage[p][u]
         /\ Begun(p, s)[s] # "none" <=> child[p] = "alive"
         /\ child[p] = "alive" => Reason(p, s) # NoReason
         /\ child[p] # "alive" => Reason(p, s) = reason[p]
<1>1. stage[p] \in [Stopper -> {"none", "term", "kill"}]
  BY DEF TypeOK
<1>2. ReasonOf[s] \in {"timeout", "cancelled"}
  BY DEF ReasonOf, Stopper
<1>3. reason[p] \in {"timeout", "cancelled", NoReason}
  BY DEF TypeOK
<1>4. ReasonOf[s] # NoReason
  BY <1>2, ProcAssumption DEF Outcome
<1> QED
  BY <1>1, <1>2, <1>3, <1>4 DEF Begun, Reason

-----------------------------------------------------------------------------
LEMMA InitInv == Init => Inv
<1> SUFFICES ASSUME Init PROVE Inv
  OBVIOUS
<1>1. signal \in [Proc -> {"none", "waiting", "aborted"}]
  BY DEF Init
<1>2. TypeOK
  BY <1>1 DEF Init, TypeOK, Outcome
<1>3. ASSUME NEW p \in Proc PROVE Traced(p) /\ Told(p) /\ Reached(p)
  BY DEF Init, Traced, Told, Reached
<1> QED
  BY <1>2, <1>3 DEF Inv

(* A call that settles keeps its types, and returns only what Final says.    *)
LEMMA SettleType ==
  ASSUME TypeOK, NEW p \in Proc, NEW o \in Outcome, Settle(p, o)
  PROVE  /\ phase' \in [Proc -> {"idle", "running", "settled", "returned"}]
         /\ timers' \in [Proc -> SUBSET Timer]
         /\ outcome' \in [Proc -> Outcome]
         /\ phase'[p] \in {"settled", "returned"} /\ timers'[p] = {}
         /\ phase'[p] = "returned" /\ outcome'[p] = "completed" =>
              o = "completed" /\ reason[p] = NoReason
         /\ \A q \in Proc \ {p} : /\ phase'[q] = phase[q] /\ timers'[q] = timers[q]
                                  /\ outcome'[q] = outcome[q]
<1>1. reason[p] \in {"timeout", "cancelled", NoReason}
  BY DEF TypeOK
<1>2. PICK f : f = Final(o, reason[p])
  OBVIOUS
<1>3. f \in Outcome /\ (f = "completed" => o = "completed" /\ reason[p] = NoReason)
  BY <1>1, <1>2, FinalType
<1>4. /\ phase \in [Proc -> {"idle", "running", "settled", "returned"}]
      /\ timers \in [Proc -> SUBSET Timer]
      /\ outcome \in [Proc -> Outcome]
  BY DEF TypeOK
<1>5. CASE pending[p] = NoStop
  BY <1>2, <1>3, <1>4, <1>5 DEF Settle
<1>6. CASE pending[p] # NoStop
  BY <1>4, <1>6 DEF Settle
<1> QED
  BY <1>5, <1>6

-----------------------------------------------------------------------------
(* The calls nothing happens to *)

(* An event of one call leaves the others as they were.                     *)
Untouched(q) ==
  /\ phase'[q] = phase[q] /\ child'[q] = child[q] /\ timers'[q] = timers[q]
  /\ outcome'[q] = outcome[q] /\ reason'[q] = reason[q] /\ stage'[q] = stage[q]
  /\ survived'[q] = survived[q] /\ killed'[q] = killed[q]

LEMMA UntouchedKeeps ==
  ASSUME Inv, NEW q \in Proc, Untouched(q), cancelled' = TRUE => cancelled = TRUE,
         cancelled' \in BOOLEAN
  PROVE  (Traced(q) /\ Told(q) /\ Reached(q))'
<1>1. Traced(q) /\ Told(q) /\ Reached(q)
  BY DEF Inv
<1>2. Traced(q)'
  BY <1>1 DEF Traced, Untouched
<1>3. Told(q)'
  BY <1>1 DEF Told, Untouched
<1>4. Reached(q)'
  BY <1>1 DEF Reached, Untouched
<1> QED
  BY <1>2, <1>3, <1>4

(* So an event of call p is looked at in p alone.                           *)
LEMMA OneCall ==
  ASSUME Inv, NEW p \in Proc, TypeOK', cancelled' = cancelled,
         \A q \in Proc \ {p} : Untouched(q),
         (Traced(p) /\ Told(p) /\ Reached(p))'
  PROVE  Inv'
<1>1. cancelled' \in BOOLEAN /\ (cancelled' = TRUE => cancelled = TRUE)
  BY DEF TypeOK
<1>2. ASSUME NEW q \in Proc, q # p PROVE (Traced(q) /\ Told(q) /\ Reached(q))'
  <2>1. Untouched(q)
    BY <1>2
  <2> QED
    BY <2>1, <1>1, UntouchedKeeps
<1>3. ASSUME NEW q \in Proc PROVE (Traced(q) /\ Told(q) /\ Reached(q))'
  BY <1>2
<1> QED
  BY <1>3 DEF Inv

-----------------------------------------------------------------------------
(* The events of a call *)

LEMMA RefusedStep ==
  ASSUME Inv, NEW p \in Proc, RunRefused(p)
  PROVE  Inv'
<1> PICK o : o = IF cancelled \/ signal[p] = "aborted" THEN "cancelled" ELSE "spawn-error"
  OBVIOUS
<1>1. o \in Outcome /\ o # "completed"
  BY DEF Outcome
<1>2. /\ phase' = [phase EXCEPT ![p] = "returned"]
      /\ outcome' = [outcome EXCEPT ![p] = o]
  BY DEF RunRefused
<1>3. TypeOK'
  BY <1>1, <1>2 DEF RunRefused, Inv, TypeOK
<1>4. \A q \in Proc \ {p} : Untouched(q)
  BY <1>2 DEF RunRefused, Untouched, Inv, TypeOK
<1>5. phase'[p] = "returned" /\ outcome'[p] # "completed" /\ child[p] = "none"
  BY <1>1, <1>2 DEF RunRefused, Inv, TypeOK, Traced
<1>6. (Traced(p) /\ Told(p) /\ Reached(p))'
  BY <1>5 DEF RunRefused, Inv, Traced, Told, Reached
<1> QED
  BY <1>3, <1>4, <1>6, OneCall DEF RunRefused

LEMMA SpawnStep ==
  ASSUME Inv, NEW p \in Proc, Spawns(p)
  PROVE  Inv'
<1> PICK c \in {"failing", "alive"},
         t \in SUBSET {"timeout", "idle"} : /\ child' = [child EXCEPT ![p] = c]
                                            /\ timers' = [timers EXCEPT ![p] = t]
  BY DEF Spawns
<1>1. TypeOK'
  BY DEF Spawns, Inv, TypeOK, Timer
<1>2. \A q \in Proc \ {p} : Untouched(q)
  BY DEF Spawns, Untouched, Inv, TypeOK
<1>3. phase'[p] = "running" /\ "linger" \notin timers'[p] /\ ~cancelled
  BY DEF Spawns, Inv, TypeOK
<1>4. (Traced(p) /\ Told(p) /\ Reached(p))'
  BY <1>3 DEF Spawns, Inv, Traced, Told, Reached
<1> QED
  BY <1>1, <1>2, <1>4, OneCall DEF Spawns

LEMMA SpawnErrorStep ==
  ASSUME Inv, NEW p \in Proc, SpawnError(p)
  PROVE  Inv'
<1> PICK o : o = IF outcome[p] = "completed" THEN "spawn-error" ELSE outcome[p]
  OBVIOUS
<1>1. o \in Outcome /\ o # "completed" /\ Settle(p, o)
  BY DEF SpawnError, Inv, TypeOK, Outcome
<1>2. TypeOK
  BY DEF Inv
<1>3. /\ phase' \in [Proc -> {"idle", "running", "settled", "returned"}]
      /\ timers' \in [Proc -> SUBSET Timer] /\ outcome' \in [Proc -> Outcome]
      /\ phase'[p] \in {"settled", "returned"} /\ timers'[p] = {}
      /\ phase'[p] = "returned" => outcome'[p] # "completed"
      /\ \A q \in Proc \ {p} : /\ phase'[q] = phase[q] /\ timers'[q] = timers[q]
                               /\ outcome'[q] = outcome[q]
  BY <1>1, <1>2, SettleType
<1>4. TypeOK'
  BY <1>2, <1>3 DEF SpawnError, TypeOK
<1>5. \A q \in Proc \ {p} : Untouched(q)
  BY <1>2, <1>3 DEF SpawnError, Untouched, TypeOK
<1>6. child'[p] = "none"
  BY <1>2 DEF SpawnError, TypeOK
<1>7. (Traced(p) /\ Told(p) /\ Reached(p))'
  BY <1>3, <1>6 DEF SpawnError, Inv, Traced, Told, Reached
<1> QED
  BY <1>4, <1>5, <1>7, OneCall DEF SpawnError

LEMMA ExitStep ==
  ASSUME Inv, NEW p \in Proc, Exits(p)
  PROVE  Inv'
<1>1. PICK h \in BOOLEAN : pipesHeld' = [pipesHeld EXCEPT ![p] = h]
  BY DEF Exits
<1>2. TypeOK'
  BY <1>1 DEF Exits, Inv, TypeOK, Timer
<1>3. \A q \in Proc \ {p} : Untouched(q)
  BY DEF Exits, Untouched, Inv, TypeOK
<1>4. child'[p] = "exited" /\ phase[p] # "idle"
  BY DEF Exits, Inv, TypeOK, Traced
<1>5. (Traced(p) /\ Told(p) /\ Reached(p))'
  <2>1. Traced(p)'
    BY <1>4 DEF Exits, Inv, Traced
  <2>2. Told(p)'
    BY <1>4 DEF Exits, Inv, Told
  <2>3. Reached(p)'
    BY <1>4 DEF Reached
  <2> QED
    BY <2>1, <2>2, <2>3
<1> QED
  BY <1>2, <1>3, <1>5, OneCall DEF Exits

(* `close`, and the timer that does not wait for it.                         *)
LEMMA CloseStep ==
  ASSUME Inv, NEW p \in Proc, Closes(p) \/ Lingers(p)
  PROVE  Inv'
<1>1. TypeOK /\ Traced(p) /\ Told(p) /\ Reached(p)
  BY DEF Inv
<1>2. /\ child[p] = "exited" /\ Settle(p, outcome[p])
      /\ UNCHANGED <<cancelled, child, pipesHeld, signal, reason, stage, pending, survived, killed>>
  BY <1>1 DEF Closes, Lingers, Traced
<1>3. outcome[p] \in Outcome
  BY <1>1 DEF TypeOK
<1>4. /\ phase' \in [Proc -> {"idle", "running", "settled", "returned"}]
      /\ timers' \in [Proc -> SUBSET Timer] /\ outcome' \in [Proc -> Outcome]
      /\ phase'[p] \in {"settled", "returned"} /\ timers'[p] = {}
      /\ phase'[p] = "returned" /\ outcome'[p] = "completed" => reason[p] = NoReason
      /\ \A q \in Proc \ {p} : /\ phase'[q] = phase[q] /\ timers'[q] = timers[q]
                               /\ outcome'[q] = outcome[q]
  BY <1>1, <1>2, <1>3, SettleType
<1>5. TypeOK'
  BY <1>1, <1>2, <1>4 DEF TypeOK
<1>6. \A q \in Proc \ {p} : Untouched(q)
  BY <1>2, <1>4 DEF Untouched
<1>7. (Traced(p) /\ Told(p) /\ Reached(p))'
  BY <1>1, <1>2, <1>4 DEF Traced, Told, Reached
<1> QED
  BY <1>2, <1>5, <1>6, <1>7, OneCall

LEMMA PipesStep ==
  ASSUME Inv, NEW p \in Proc, PipesFreed(p)
  PROVE  Inv'
<1>1. TypeOK'
  BY DEF PipesFreed, Inv, TypeOK
<1>2. \A q \in Proc : Untouched(q)
  BY DEF PipesFreed, Untouched
<1>3. (Traced(p) /\ Told(p) /\ Reached(p))'
  BY <1>2, UntouchedKeeps DEF PipesFreed, Inv, TypeOK
<1> QED
  BY <1>1, <1>2, <1>3, OneCall DEF PipesFreed

-----------------------------------------------------------------------------
(* The stops *)

LEMMA EscalationStep ==
  ASSUME Inv, NEW p \in Proc, NEW s \in Stopper, Escalates(p, s)
  PROVE  Inv'
<1>1. TypeOK /\ Traced(p) /\ Told(p) /\ Reached(p)
  BY DEF Inv
<1>2. /\ stage'[p] = [stage[p] EXCEPT ![s] = "kill"]
      /\ stage'[p] \in [Stopper -> {"none", "term", "kill"}]
      /\ killed'[p] = TRUE
      /\ \A q \in Proc \ {p} : stage'[q] = stage[q] /\ killed'[q] = killed[q]
  BY <1>1 DEF Escalates, TypeOK
<1>3. stage' \in [Proc -> [Stopper -> {"none", "term", "kill"}]]
  BY <1>1, <1>2 DEF Escalates, TypeOK
<1>4. TypeOK'
  BY <1>1, <1>3 DEF Escalates, TypeOK
<1>5. \A q \in Proc \ {p} : Untouched(q)
  BY <1>2 DEF Escalates, Untouched
<1>6. reason[p] # NoReason
  BY <1>1 DEF Escalates, Traced
<1>7. Traced(p)'
  BY <1>1, <1>2, <1>6 DEF Escalates, Traced
<1>8. Told(p)'
  BY <1>1, <1>2, <1>6 DEF Escalates, Told
<1>9. Reached(p)'
  BY <1>2 DEF Reached
<1> QED
  BY <1>4, <1>5, <1>7, <1>8, <1>9, OneCall DEF Escalates

LEMMA StopEndStep ==
  ASSUME Inv, NEW p \in Proc, NEW s \in Stopper, StopEnds(p, s)
  PROVE  Inv'
<1>1. TypeOK /\ Traced(p) /\ Told(p) /\ Reached(p)
  BY DEF Inv
<1> DEFINE gaveUp == s # "all" /\ phase[p] = "running" /\ child[p] = "alive"
<1>2. /\ stage'[p] = [stage[p] EXCEPT ![s] = "none"]
      /\ stage'[p] \in [Stopper -> {"none", "term", "kill"}]
      /\ \A q \in Proc \ {p} : stage'[q] = stage[q]
      /\ stage' \in [Proc -> [Stopper -> {"none", "term", "kill"}]]
  <2>1. /\ stage \in [Proc -> [Stopper -> {"none", "term", "kill"}]]
        /\ stage' = [stage EXCEPT ![p][s] = "none"]
    BY <1>1 DEF StopEnds, TypeOK
  <2> QED
    BY <2>1
<1>3. reason[p] # NoReason /\ (child[p] = "alive" => killed[p])
  BY <1>1 DEF StopEnds, Traced
<1>4. pending' \in [Proc -> (Stopper \ {"all"}) \cup {NoStop}]
  <2>1. pending' = [pending EXCEPT ![p] = IF @ = s THEN NoStop ELSE @]
    BY DEF StopEnds
  <2> QED
    BY <1>1, <2>1 DEF TypeOK
<1>5. /\ survived' = [survived EXCEPT ![p] = @ \/ gaveUp]
      /\ survived' \in [Proc -> BOOLEAN]
      /\ \A q \in Proc \ {p} : survived'[q] = survived[q]
      /\ survived'[p] <=> (survived[p] \/ gaveUp)
  <2>1. survived' = [survived EXCEPT ![p] = @ \/ gaveUp] /\ survived \in [Proc -> BOOLEAN]
    BY <1>1 DEF StopEnds, TypeOK
  <2> QED
    BY <2>1
<1>6. /\ phase' \in [Proc -> {"idle", "running", "settled", "returned"}]
      /\ timers' \in [Proc -> SUBSET Timer] /\ outcome' \in [Proc -> Outcome]
      /\ phase'[p] # "idle" \/ phase'[p] = phase[p]
      /\ timers'[p] \subseteq timers[p]
      /\ phase'[p] \in {"settled", "returned"} => phase[p] \in {"settled", "returned"} \/ gaveUp
      /\ phase'[p] = "returned" => \/ phase[p] = "returned" /\ outcome'[p] = outcome[p]
                                   \/ outcome'[p] # "completed"
      /\ \A q \in Proc \ {p} : /\ phase'[q] = phase[q] /\ timers'[q] = timers[q]
                               /\ outcome'[q] = outcome[q]
  <2>1. PICK f : f = Final(outcome[p], reason[p])
    OBVIOUS
  <2>2. f \in Outcome /\ f # "completed"
    BY <1>1, <1>3, <2>1, FinalType DEF TypeOK
  <2>3. /\ phase \in [Proc -> {"idle", "running", "settled", "returned"}]
        /\ timers \in [Proc -> SUBSET Timer] /\ outcome \in [Proc -> Outcome]
    BY <1>1 DEF TypeOK
  <2>4. CASE gaveUp \/ (phase[p] = "settled" /\ pending[p] = s)
    <3>1. PICK to \in {"returned", "settled"} :
            /\ to = IF pending[p] \in {s, NoStop} THEN "returned" ELSE "settled"
            /\ phase' = [phase EXCEPT ![p] = to]
      BY <2>4 DEF StopEnds
    <3>2. outcome' = [outcome EXCEPT ![p] = f] /\ timers' = [timers EXCEPT ![p] = {}]
      BY <2>1, <2>4 DEF StopEnds
    <3> QED
      BY <2>2, <2>3, <2>4, <3>1, <3>2
  <2>5. CASE ~(gaveUp \/ (phase[p] = "settled" /\ pending[p] = s))
    <3>1. phase' = phase /\ timers' = timers /\ outcome' = outcome
      BY <2>5 DEF StopEnds
    <3>2. phase'[p] = "returned" => phase[p] = "returned"
      BY <3>1
    <3> QED
      BY <2>3, <3>1, <3>2
  <2> QED
    BY <2>4, <2>5
<1>7. UNCHANGED <<cancelled, child, pipesHeld, signal, reason, killed>>
  BY DEF StopEnds
<1>8. TypeOK'
  BY <1>1, <1>2, <1>4, <1>5, <1>6, <1>7 DEF TypeOK
<1>9. \A q \in Proc \ {p} : Untouched(q)
  BY <1>2, <1>5, <1>6, <1>7 DEF Untouched
<1>10. Traced(p)'
  BY <1>1, <1>2, <1>3, <1>6, <1>7 DEF Traced, TypeOK
<1>11. Told(p)'
  BY <1>1, <1>3, <1>5, <1>6, <1>7 DEF Told
<1>12. Reached(p)'
  BY <1>1, <1>2, <1>3, <1>7 DEF Reached, TypeOK
<1> QED
  BY <1>7, <1>8, <1>9, <1>10, <1>11, <1>12, OneCall

(* A stop of the call's own leaves a reason, and never hides cancelAll's.      *)
LEMMA StopBegins ==
  ASSUME TypeOK, NEW p \in Proc, NEW s \in Stopper \ {"all"}, Stop(p, s)
  PROVE  /\ stage' \in [Proc -> [Stopper -> {"none", "term", "kill"}]]
         /\ reason' \in [Proc -> {"timeout", "cancelled", NoReason}]
         /\ pending' \in [Proc -> (Stopper \ {"all"}) \cup {NoStop}]
         /\ \A q \in Proc \ {p} : stage'[q] = stage[q] /\ reason'[q] = reason[q]
         /\ stage'[p]["all"] = stage[p]["all"]
         /\ stage'[p][s] # "kill" /\ (stage'[p][s] # "none" => reason'[p] # NoReason)
         /\ \A u \in Stopper \ {s} : stage'[p][u] = stage[p][u]
         /\ reason[p] # NoReason => reason'[p] # NoReason
         /\ child[p] # "alive" => reason'[p] = reason[p]
<1>1. PICK b, r : b = Begun(p, s) /\ r = Reason(p, s)
  OBVIOUS
<1>2. /\ b \in [Stopper -> {"none", "term", "kill"}]
      /\ r \in {"timeout", "cancelled", NoReason}
      /\ b[s] # "kill"
      /\ \A u \in Stopper \ {s} : b[u] = stage[p][u]
      /\ b[s] # "none" <=> child[p] = "alive"
      /\ child[p] = "alive" => r # NoReason
      /\ child[p] # "alive" => r = reason[p]
  BY <1>1, BeginsWithReason
<1>3. stage' = [stage EXCEPT ![p] = b] /\ reason' = [reason EXCEPT ![p] = r]
  BY <1>1 DEF Stop
<1>4. PICK w \in (Stopper \ {"all"}) \cup {NoStop} : pending' = [pending EXCEPT ![p] = w]
  <2>1. pending[p] \in (Stopper \ {"all"}) \cup {NoStop}
    BY DEF TypeOK
  <2> QED
    BY <2>1 DEF Stop
<1>5. /\ stage \in [Proc -> [Stopper -> {"none", "term", "kill"}]]
      /\ reason \in [Proc -> {"timeout", "cancelled", NoReason}]
      /\ pending \in [Proc -> (Stopper \ {"all"}) \cup {NoStop}]
  BY DEF TypeOK
<1>6. stage'[p] = b /\ reason'[p] = r
  BY <1>3, <1>5
<1>7. "all" \in Stopper \ {s}
  BY DEF Stopper
<1> QED
  BY <1>2, <1>3, <1>4, <1>5, <1>6, <1>7

LEMMA LimitStep ==
  ASSUME Inv, NEW p \in Proc, NEW s \in {"timeout", "idle"}, LimitFires(p, s)
  PROVE  Inv'
<1>1. TypeOK /\ Traced(p) /\ Told(p) /\ Reached(p)
  BY DEF Inv
<1>2. s \in Stopper \ {"all"} /\ Stop(p, s)
  BY DEF LimitFires, Stopper
<1>3. /\ stage' \in [Proc -> [Stopper -> {"none", "term", "kill"}]]
      /\ reason' \in [Proc -> {"timeout", "cancelled", NoReason}]
      /\ pending' \in [Proc -> (Stopper \ {"all"}) \cup {NoStop}]
      /\ \A q \in Proc \ {p} : stage'[q] = stage[q] /\ reason'[q] = reason[q]
      /\ stage'[p]["all"] = stage[p]["all"]
      /\ stage'[p][s] # "kill" /\ (stage'[p][s] # "none" => reason'[p] # NoReason)
      /\ \A u \in Stopper \ {s} : stage'[p][u] = stage[p][u]
      /\ reason[p] # NoReason => reason'[p] # NoReason
  BY <1>1, <1>2, StopBegins
<1>4. /\ timers' \in [Proc -> SUBSET Timer] /\ timers'[p] \subseteq timers[p]
      /\ outcome' \in [Proc -> Outcome]
      /\ \A q \in Proc \ {p} : timers'[q] = timers[q] /\ outcome'[q] = outcome[q]
  BY <1>1 DEF LimitFires, TypeOK, Outcome
<1>5. /\ UNCHANGED <<cancelled, phase, child, pipesHeld, signal, survived, killed>>
      /\ phase[p] = "running"
  BY DEF LimitFires
<1>6. TypeOK'
  BY <1>1, <1>3, <1>4, <1>5 DEF TypeOK
<1>7. \A q \in Proc \ {p} : Untouched(q)
  BY <1>3, <1>4, <1>5 DEF Untouched
<1>8. Traced(p)'
  BY <1>1, <1>3, <1>4, <1>5 DEF Traced
<1>9. Told(p)'
  BY <1>5 DEF Told
<1>10. Reached(p)'
  BY <1>1, <1>3, <1>5 DEF Reached
<1> QED
  BY <1>5, <1>6, <1>7, <1>8, <1>9, <1>10, OneCall

LEMMA AbortStep ==
  ASSUME Inv, NEW p \in Proc, Aborts(p)
  PROVE  Inv'
<1>1. TypeOK /\ Traced(p) /\ Told(p) /\ Reached(p)
  BY DEF Inv
<1>2. /\ UNCHANGED <<cancelled, phase, child, pipesHeld, timers, survived, killed>>
      /\ signal' \in [Proc -> {"none", "waiting", "aborted"}]
  BY <1>1 DEF Aborts, TypeOK
<1>3. CASE phase[p] \in {"running", "settled"}
  <2>1. "abort" \in Stopper \ {"all"} /\ Stop(p, "abort")
    BY <1>3 DEF Aborts, Stopper
  <2>2. /\ stage' \in [Proc -> [Stopper -> {"none", "term", "kill"}]]
        /\ reason' \in [Proc -> {"timeout", "cancelled", NoReason}]
        /\ pending' \in [Proc -> (Stopper \ {"all"}) \cup {NoStop}]
        /\ \A q \in Proc \ {p} : stage'[q] = stage[q] /\ reason'[q] = reason[q]
        /\ stage'[p]["all"] = stage[p]["all"]
        /\ stage'[p]["abort"] # "kill" /\ (stage'[p]["abort"] # "none" => reason'[p] # NoReason)
        /\ \A u \in Stopper \ {"abort"} : stage'[p][u] = stage[p][u]
        /\ reason[p] # NoReason => reason'[p] # NoReason
    BY <1>1, <2>1, StopBegins
  <2>3. PICK o \in Outcome : outcome' = [outcome EXCEPT ![p] = o]
    <3>1. outcome[p] \in Outcome /\ "cancelled" \in Outcome
      BY <1>1 DEF TypeOK, Outcome
    <3> QED
      BY <1>3, <3>1 DEF Aborts
  <2>4. outcome' \in [Proc -> Outcome] /\ \A q \in Proc \ {p} : outcome'[q] = outcome[q]
    BY <1>1, <2>3 DEF TypeOK
  <2>5. TypeOK'
    BY <1>1, <1>2, <2>2, <2>4 DEF TypeOK
  <2>6. \A q \in Proc \ {p} : Untouched(q)
    BY <1>2, <2>2, <2>4 DEF Untouched
  <2>7. Traced(p)'
    BY <1>1, <1>2, <2>2 DEF Traced
  <2>8. Told(p)'
    BY <1>1, <1>2, <1>3 DEF Told
  <2>9. Reached(p)'
    BY <1>1, <1>2, <2>2 DEF Reached
  <2> QED
    BY <1>2, <2>5, <2>6, <2>7, <2>8, <2>9, OneCall
<1>4. CASE phase[p] \notin {"running", "settled"}
  <2>1. UNCHANGED <<outcome, stage, reason, pending>>
    BY <1>4 DEF Aborts
  <2>2. TypeOK'
    BY <1>1, <1>2, <2>1 DEF TypeOK
  <2>3. \A q \in Proc : Untouched(q)
    BY <1>2, <2>1 DEF Untouched
  <2>4. (Traced(p) /\ Told(p) /\ Reached(p))'
    BY <1>1, <1>2, <2>1 DEF Traced, Told, Reached
  <2> QED
    BY <1>2, <2>2, <2>3, <2>4, OneCall
<1> QED
  BY <1>3, <1>4

-----------------------------------------------------------------------------
(* cancelAll meets every child: one that is not in its list was told to have   *)
(* survived.                                                                   *)
LEMMA CancelAllStep ==
  ASSUME Inv, CancelAll
  PROVE  Inv'
<1>1. TypeOK
  BY DEF Inv
<1>2. "all" \in Stopper
  BY DEF Stopper
<1>3. ASSUME NEW p \in Proc
      PROVE  /\ stage'[p] \in [Stopper -> {"none", "term", "kill"}]
             /\ reason'[p] \in {"timeout", "cancelled", NoReason}
             /\ p \in live => /\ stage'[p]["all"] # "none" <=> child[p] = "alive"
                              /\ stage'[p]["all"] # "kill"
                              /\ \A u \in Stopper \ {"all"} : stage'[p][u] = stage[p][u]
                              /\ child[p] = "alive" => reason'[p] # NoReason
                              /\ child[p] # "alive" => reason'[p] = reason[p]
             /\ p \notin live => stage'[p] = stage[p] /\ reason'[p] = reason[p]
  <2>1. stage[p] \in [Stopper -> {"none", "term", "kill"}]
          /\ reason[p] \in {"timeout", "cancelled", NoReason}
    BY <1>1 DEF TypeOK
  <2>2. PICK b, r : b = Begun(p, "all") /\ r = Reason(p, "all")
    OBVIOUS
  <2>3. /\ b \in [Stopper -> {"none", "term", "kill"}]
        /\ r \in {"timeout", "cancelled", NoReason}
        /\ b["all"] # "kill"
        /\ \A u \in Stopper \ {"all"} : b[u] = stage[p][u]
        /\ b["all"] # "none" <=> child[p] = "alive"
        /\ child[p] = "alive" => r # NoReason
        /\ child[p] # "alive" => r = reason[p]
    BY <1>1, <1>2, <2>2, BeginsWithReason
  <2>4. /\ stage'[p] = IF p \in live THEN b ELSE stage[p]
        /\ reason'[p] = IF p \in live THEN r ELSE reason[p]
    BY <2>2 DEF CancelAll
  <2> QED
    BY <2>1, <2>3, <2>4
<1>4. UNCHANGED <<phase, child, pipesHeld, timers, signal, outcome, pending, survived, killed>>
  BY DEF CancelAll
<1>5. TypeOK'
  <2>1. /\ stage' = [p \in Proc |-> stage'[p]]
        /\ reason' = [p \in Proc |-> reason'[p]]
        /\ cancelled' = TRUE
    BY DEF CancelAll
  <2>2. stage' \in [Proc -> [Stopper -> {"none", "term", "kill"}]]
    BY <1>3, <2>1
  <2>3. reason' \in [Proc -> {"timeout", "cancelled", NoReason}]
    BY <1>3, <2>1
  <2> QED
    BY <1>1, <1>4, <2>1, <2>2, <2>3 DEF TypeOK
<1>6. ASSUME NEW p \in Proc
      PROVE  (Traced(p) /\ Told(p) /\ Reached(p))'
  <2>1. Traced(p) /\ Told(p)
    BY DEF Inv
  <2>2. phase[p] \in {"idle", "running", "settled", "returned"}
    BY <1>1 DEF TypeOK
  <2>3. CASE p \in live
    <3>1. phase[p] \in {"running", "settled"}
      BY <2>3 DEF live
    <3>2. Traced(p)'
      BY <1>3, <1>4, <2>1, <2>3 DEF Traced
    <3>3. Told(p)'
      BY <1>4, <2>1, <3>1 DEF Told
    <3>4. Reached(p)'
      BY <1>3, <1>4, <2>3 DEF Reached
    <3> QED
      BY <3>2, <3>3, <3>4
  <2>4. CASE p \notin live
    <3>1. phase[p] \in {"idle", "returned"}
      BY <2>2, <2>4 DEF live
    <3>2. child[p] = "alive" => killed[p]
      BY <2>1, <3>1 DEF Traced, Told
    <3>3. Traced(p)' /\ Told(p)'
      BY <1>3, <1>4, <2>1, <2>4 DEF Traced, Told
    <3>4. Reached(p)'
      BY <1>4, <3>2 DEF Reached
    <3> QED
      BY <3>3, <3>4
  <2> QED
    BY <2>3, <2>4
<1> QED
  BY <1>5, <1>6 DEF Inv

LEMMA QuietStep ==
  ASSUME Inv, Reset \/ UNCHANGED vars
  PROVE  Inv'
<1>1. /\ UNCHANGED <<phase, child, pipesHeld, timers, signal, outcome, reason, stage,
                     pending, survived, killed>>
      /\ cancelled' \in BOOLEAN /\ (cancelled' = TRUE => cancelled = TRUE)
  BY DEF Reset, vars, Inv, TypeOK
<1>2. TypeOK'
  BY <1>1 DEF Inv, TypeOK
<1>3. ASSUME NEW q \in Proc PROVE (Traced(q) /\ Told(q) /\ Reached(q))'
  BY <1>1, UntouchedKeeps DEF Untouched
<1> QED
  BY <1>2, <1>3 DEF Inv

-----------------------------------------------------------------------------
LEMMA StepInv == Inv /\ [Next]_vars => Inv'
<1> SUFFICES ASSUME Inv, [Next]_vars PROVE Inv'
  OBVIOUS
<1>1. CASE CancelAll
  BY <1>1, CancelAllStep
<1>2. CASE Reset \/ UNCHANGED vars
  BY <1>2, QuietStep
<1>3. ASSUME NEW p \in Proc,
             \/ RunRefused(p) \/ Spawns(p) \/ SpawnError(p)
             \/ Exits(p) \/ Closes(p) \/ PipesFreed(p) \/ Lingers(p)
             \/ TimesOut(p) \/ GoesIdle(p) \/ Aborts(p)
             \/ \E s \in Stopper : Escalates(p, s) \/ StopEnds(p, s)
      PROVE  Inv'
  <2>1. CASE RunRefused(p) \/ Spawns(p) \/ SpawnError(p)
    BY <2>1, RefusedStep, SpawnStep, SpawnErrorStep
  <2>2. CASE Exits(p) \/ Closes(p) \/ PipesFreed(p) \/ Lingers(p)
    BY <2>2, ExitStep, CloseStep, PipesStep
  <2>3. CASE TimesOut(p) \/ GoesIdle(p)
    BY <2>3, LimitStep DEF TimesOut, GoesIdle
  <2>4. CASE Aborts(p)
    BY <2>4, AbortStep
  <2>5. CASE \E s \in Stopper : Escalates(p, s) \/ StopEnds(p, s)
    BY <2>5, EscalationStep, StopEndStep
  <2> QED
    BY <1>3, <2>1, <2>2, <2>3, <2>4, <2>5
<1> QED
  BY <1>1, <1>2, <1>3 DEF Next

LEMMA InvHolds == Spec => []Inv
  BY InitInv, StepInv, PTL DEF Spec

(* The state of the manager and of its calls is always well-formed.            *)
THEOREM TypeCorrect == Spec => []TypeOK
<1>1. Inv => TypeOK
  BY DEF Inv
<1> QED
  BY <1>1, InvHolds, PTL

(* A returned call is right about its child: "completed" is a child that ended  *)
(* by itself, and a child that lives is reported to have survived, whichever    *)
(* stops raced each other, the exit and cancelAll.                              *)
THEOREM ResultIsTrueCorrect == Spec => []ResultIsTrue
<1>1. Inv => ResultIsTrue
  BY DEF Inv, Traced, Told, ResultIsTrue
<1> QED
  BY <1>1, InvHolds, PTL

(* When cancelAll has finished, no child lives that it did not kill.            *)
THEOREM CancelAllReachesCorrect == Spec => []CancelAllReaches
<1>1. Inv => CancelAllReaches
  BY DEF Inv, Reached, CancelAllReaches, CancelAllEnded
<1> QED
  BY <1>1, InvHolds, PTL


-----------------------------------------------------------------------------
(* Workspaces: what every step keeps, and the queries and writes it is made of *)

\* A handler that waits for git knows the folder and the repository it asked
\* about, and a clone goes to the place its path names.
Waiting(c) ==
  calls[c].op # "idle" =>
     /\ calls[c].path \in Path /\ calls[c].repo \in Repo
     /\ calls[c].op = "cloning" => RealPath[calls[c].path] = calls[c].path

Catalogued ==
  /\ CatalogueTypeOK
  /\ away \subseteq Removable
  /\ unreconciled \subseteq Workspace
  /\ \A w \in Workspace : w <= madeWorkspaces
  /\ \A p \in Project : p <= madeProjects
  /\ \A w \in Workspace : IsLocal(w) => workspaces[w].path \in Path
  /\ \A c \in Call : Waiting(c)

LEMMA GoneIsNoRow == Gone \notin WorkspaceRow /\ Gone \notin ProjectRow
BY DEF Gone, WorkspaceRow, ProjectRow

LEMMA LeastExists ==
  ASSUME NEW S \in SUBSET Nat, S # {}
  PROVE  \E i \in S : \A j \in S : i <= j
<1>1. PICK i \in S : \A j \in S : ~ (<<j, i>> \in OpToRel(<, Nat))
  BY NatLessThanWellFounded, WFMin
<1>2. \A j \in S : ~ (j < i)
  BY <1>1 DEF OpToRel
<1> QED
  BY <1>2

LEMMA OldestIs ==
  ASSUME NEW n \in Nat, NEW S \in SUBSET (1..n)
  PROVE  /\ S = {} => Oldest(S) = 0
         /\ S # {} => Oldest(S) \in S
         /\ Oldest(S) = 0 <=> S = {}
         /\ Oldest(S) \in 0..n
<1>1. S # {} => Oldest(S) \in S
  <2>1. SUFFICES ASSUME S # {} PROVE Min(S) \in S
    BY DEF Oldest
  <2>2. S \in SUBSET Nat
    OBVIOUS
  <2>3. \E i \in S : \A j \in S : i <= j
    BY <2>1, <2>2, LeastExists
  <2> QED
    BY <2>3 DEF Min
<1>2. S = {} => Oldest(S) = 0
  BY DEF Oldest
<1>3. \A x \in S : x \in 1..n
  OBVIOUS
<1>4. CASE S = {}
  BY <1>2, <1>4
<1>5. CASE S # {}
  <2>1. Oldest(S) \in S /\ Oldest(S) \in 1..n
    BY <1>1, <1>3, <1>5
  <2>2. PICK x : x = Oldest(S)
    OBVIOUS
  <2>3. x \in S /\ x \in 1..n /\ x # 0 /\ x \in 0..n
    BY <2>1, <2>2
  <2> QED
    BY <1>5, <2>2, <2>3
<1> QED
  BY <1>4, <1>5

\* What the three queries answer.
LEMMA ByWorkspaceIs ==
  ASSUME NEW w
  PROVE  /\ ByWorkspace(w) = 0 <=> Owners(w) = {}
         /\ ByWorkspace(w) # 0 => ByWorkspace(w) \in Owners(w)
<1>1. Owners(w) \in SUBSET (1..MaxProjects)
  BY DEF Owners, Project
<1>2. ByWorkspace(w) = Oldest(Owners(w))
  BY DEF ByWorkspace, Owners
<1> QED
  BY <1>1, <1>2, OldestIs, WorkspacesAssumption

LEMMA ByRepositoryIs ==
  ASSUME NEW repo, repo # NoRepo
  PROVE  /\ ByRepository(repo) = 0 <=> \A p \in Project : projects[p].repo # repo
         /\ ByRepository(repo) # 0 =>
              ByRepository(repo) \in Project /\ projects[ByRepository(repo)].repo = repo
<1> DEFINE S == {p \in Project : projects[p].repo = repo}
<1>1. S \in SUBSET (1..MaxProjects)
  BY DEF Project
<1>2. ByRepository(repo) = Oldest(S)
  BY DEF ByRepository
<1> HIDE DEF S
<1>3. /\ ByRepository(repo) = 0 <=> S = {}
      /\ ByRepository(repo) # 0 => ByRepository(repo) \in S
  BY <1>1, <1>2, OldestIs, WorkspacesAssumption
<1> QED
  BY <1>3 DEF S

LEMMA ByKeyIs ==
  ASSUME NEW key
  PROVE  /\ ByKey(key) = 0 <=> \A w \in Workspace : workspaces[w].key # key
         /\ ByKey(key) # 0 => ByKey(key) \in Workspace
<1> DEFINE S == {w \in Workspace : workspaces[w].key = key}
<1>1. S \in SUBSET (1..MaxWorkspaces)
  BY DEF Workspace
<1>2. ByKey(key) = Oldest(S)
  BY DEF ByKey
<1> HIDE DEF S
<1>3. /\ ByKey(key) = 0 <=> S = {}
      /\ ByKey(key) # 0 => ByKey(key) \in S
  BY <1>1, <1>2, OldestIs, WorkspacesAssumption
<1> QED
  BY <1>3 DEF S

-----------------------------------------------------------------------------
(* What a step writes *)

LEMMA RowTypes ==
  ASSUME CatalogueTypeOK
  PROVE  /\ \A w \in Workspace : w \in 1..MaxWorkspaces /\ workspaces[w] \in WorkspaceRow
         /\ \A p \in Project : p \in 1..MaxProjects /\ projects[p] \in ProjectRow
BY GoneIsNoRow DEF CatalogueTypeOK, Workspace, Project

LEMMA AddedWorkspace ==
  ASSUME Catalogued, NEW row \in WorkspaceRow, AddWorkspace(row),
         NEW n, n = madeWorkspaces + 1
  PROVE  /\ n \in 1..MaxWorkspaces /\ n \notin Workspace
         /\ workspaces' \in [1..MaxWorkspaces -> WorkspaceRow \cup {Gone}]
         /\ madeWorkspaces' = n /\ madeWorkspaces' \in 0..MaxWorkspaces
         /\ Workspace' = Workspace \cup {n}
         /\ workspaces'[n] = row
         /\ \A w \in Workspace : w # n /\ workspaces'[w] = workspaces[w]
         /\ \A w \in Workspace' : w <= madeWorkspaces'
<1>1. /\ madeWorkspaces \in 0..MaxWorkspaces /\ madeWorkspaces < MaxWorkspaces
      /\ MaxWorkspaces \in Nat
      /\ workspaces \in [1..MaxWorkspaces -> WorkspaceRow \cup {Gone}]
  BY WorkspacesAssumption DEF Catalogued, CatalogueTypeOK, AddWorkspace
<1>2. /\ n \in 1..MaxWorkspaces /\ madeWorkspaces' = n
      /\ workspaces' = [workspaces EXCEPT ![n] = row]
  BY <1>1 DEF AddWorkspace
<1>3. \A w \in Workspace : w \in 1..MaxWorkspaces /\ w <= madeWorkspaces
  BY DEF Catalogued, Workspace
<1>4. row # Gone
  BY GoneIsNoRow
<1>5. Workspace' = Workspace \cup {n}
  BY <1>1, <1>2, <1>4 DEF Workspace
<1>6. n \notin Workspace /\ \A w \in Workspace : w # n /\ w <= n
  BY <1>1, <1>3
<1> QED
  BY <1>1, <1>2, <1>3, <1>5, <1>6

LEMMA AddedProject ==
  ASSUME Catalogued, NEW row \in ProjectRow, AddProject(row),
         NEW n, n = madeProjects + 1
  PROVE  /\ n \in 1..MaxProjects /\ n \notin Project
         /\ projects' \in [1..MaxProjects -> ProjectRow \cup {Gone}]
         /\ madeProjects' = n /\ madeProjects' \in 0..MaxProjects
         /\ Project' = Project \cup {n}
         /\ projects'[n] = row
         /\ \A p \in Project : p # n /\ projects'[p] = projects[p]
         /\ \A p \in Project' : p <= madeProjects'
<1>1. /\ madeProjects \in 0..MaxProjects /\ madeProjects < MaxProjects
      /\ MaxProjects \in Nat
      /\ projects \in [1..MaxProjects -> ProjectRow \cup {Gone}]
  BY WorkspacesAssumption DEF Catalogued, CatalogueTypeOK, AddProject
<1>2. /\ n \in 1..MaxProjects /\ madeProjects' = n
      /\ projects' = [projects EXCEPT ![n] = row]
  BY <1>1 DEF AddProject
<1>3. \A p \in Project : p \in 1..MaxProjects /\ p <= madeProjects
  BY DEF Catalogued, Project
<1>4. row # Gone
  BY GoneIsNoRow
<1>5. Project' = Project \cup {n}
  BY <1>1, <1>2, <1>4 DEF Project
<1>6. n \notin Project /\ \A p \in Project : p # n /\ p <= n
  BY <1>1, <1>3
<1> QED
  BY <1>1, <1>2, <1>3, <1>5, <1>6

\* A step adds a row, changes one, removes one, or leaves the rows alone.
NewFolder(row) ==
  row.env = "local" =>
     /\ up /\ unreconciled = {} /\ row.path \in Path /\ Exists(row.path)
     /\ row.key = Key(row.path) /\ ByKey(row.key) = 0

WorkspaceStep ==
  \/ UNCHANGED <<workspaces, madeWorkspaces>>
  \/ \E row \in WorkspaceRow : NewFolder(row) /\ AddWorkspace(row)
  \/ \E w \in Workspace : workspaces' = [workspaces EXCEPT ![w] = Gone] /\ UNCHANGED madeWorkspaces
  \/ \E w \in unreconciled : Reconcile(w)

AddedTo(new) == (new.repo # NoRepo => ByRepository(new.repo) = 0) /\ AddProject(new)

Changed(p, new) ==
  /\ new.repo # NoRepo => new.repo = projects[p].repo \/ ByRepository(new.repo) \in {0, p}
  /\ projects' = [projects EXCEPT ![p] = new] /\ UNCHANGED madeProjects

Unpointed(w) ==
  /\ UNCHANGED madeProjects
  /\ projects' = [p \in DOMAIN projects |->
                    IF p \in Project /\ projects[p].ws = w
                    THEN [projects[p] EXCEPT !.ws = 0] ELSE projects[p]]

ProjectStep ==
  \/ UNCHANGED <<projects, madeProjects>>
  \/ \E new \in ProjectRow : AddedTo(new)
  \/ \E p \in Project, new \in ProjectRow : Changed(p, new)
  \/ \E p \in Project : projects' = [projects EXCEPT ![p] = Gone] /\ UNCHANGED madeProjects
  \/ \E w \in Workspace : Unpointed(w)

\* The disk keeps what it has; the handlers that wait, the drives and the list
\* of the start stay what they are said to be, and only Reconcile shortens it.
OtherStep ==
  /\ disk' \in [Folder -> {Absent, Plain} \cup Repo]
  /\ \A f \in Folder : disk[f] # Absent => disk'[f] # Absent
  /\ away' \subseteq Folder /\ away' \subseteq Removable /\ up' \in BOOLEAN
  /\ calls' \in [Call -> CallRecord] /\ \A c \in Call : Waiting(c)'
  /\ unreconciled' \subseteq Workspace' /\ unreconciled' \subseteq 1..MaxWorkspaces
  /\ \A w \in Workspace' : up' /\ w \notin unreconciled' => (up /\ w \notin unreconciled) \/ Reconcile(w)

Writes == WorkspaceStep /\ ProjectStep /\ OtherStep

LEMMA CallsKept ==
  ASSUME Catalogued, UNCHANGED calls
  PROVE  calls' \in [Call -> CallRecord] /\ \A c \in Call : Waiting(c)'
BY DEF Catalogued, CatalogueTypeOK, Waiting

LEMMA CallsEnd ==
  ASSUME Catalogued, NEW c \in Call, End(c)
  PROVE  /\ calls' \in [Call -> CallRecord] /\ \A d \in Call : Waiting(d)'
         /\ calls'[c] = Idle
<1>1. calls \in [Call -> CallRecord] /\ calls' = [calls EXCEPT ![c] = Idle]
  BY DEF Catalogued, CatalogueTypeOK, End
<1>2. Idle \in CallRecord /\ Idle.op = "idle"
  BY WorkspacesAssumption DEF Idle, CallRecord
<1>3. \A d \in Call : Waiting(d)
  BY DEF Catalogued
<1>4. calls' \in [Call -> CallRecord] /\ calls'[c] = Idle
  BY <1>1, <1>2
<1>5. ASSUME NEW d \in Call PROVE Waiting(d)'
  <2>1. CASE d = c
    BY <1>2, <1>4, <2>1 DEF Waiting
  <2>2. CASE d # c
    BY <1>1, <1>3, <2>2 DEF Waiting
  <2> QED
    BY <2>1, <2>2
<1> QED
  BY <1>4, <1>5

LEMMA CallsBegin ==
  ASSUME Catalogued, NEW c \in Call, NEW op \in {"cloning", "checking"}, NEW p \in 0..MaxProjects,
         NEW path \in Path, NEW repo \in Repo, op = "cloning" => RealPath[path] = path,
         Begin(c, [Idle EXCEPT !.op = op, !.project = p, !.path = path, !.repo = repo])
  PROVE  calls' \in [Call -> CallRecord] /\ \A d \in Call : Waiting(d)'
<1>1. Idle \in CallRecord
  BY WorkspacesAssumption DEF Idle, CallRecord
<1>2. PICK record : record = [Idle EXCEPT !.op = op, !.project = p, !.path = path, !.repo = repo]
  OBVIOUS
<1>3. /\ record \in CallRecord
      /\ record.op = op /\ record.path = path /\ record.repo = repo
      /\ calls \in [Call -> CallRecord] /\ calls' = [calls EXCEPT ![c] = record]
  BY <1>1, <1>2 DEF Catalogued, CatalogueTypeOK, Begin, CallRecord
<1>4. \A d \in Call : Waiting(d)
  BY DEF Catalogued
<1>5. ASSUME NEW d \in Call PROVE Waiting(d)'
  <2>1. CASE d = c
    BY <1>3, <2>1 DEF Waiting
  <2>2. CASE d # c
    BY <1>3, <1>4, <2>2 DEF Waiting
  <2> QED
    BY <2>1, <2>2
<1> QED
  BY <1>3, <1>5

\* A handler leaves the disk, the drives and the list of the start alone.
LEMMA HandlerLeaves ==
  ASSUME Catalogued, Handler,
         calls' \in [Call -> CallRecord], \A c \in Call : Waiting(c)'
  PROVE  OtherStep
<1>1. /\ up /\ unreconciled = {}
      /\ disk' = disk /\ away' = away /\ unreconciled' = {} /\ up' = up
  BY DEF Handler
<1>2. /\ disk \in [Folder -> {Absent, Plain} \cup Repo]
      /\ away \subseteq Folder /\ away \subseteq Removable /\ up \in BOOLEAN
  BY DEF Catalogued, CatalogueTypeOK
<1> QED
  BY <1>1, <1>2 DEF OtherStep

\* ensureProjectFor makes a project, changes the one the workspace has, or nothing.
LEMMA EnsuredProject ==
  ASSUME Catalogued, NEW w \in 1..MaxWorkspaces, NEW row, row.repo \in Repo \cup {NoRepo},
         EnsureProject(w, row)
  PROVE  \/ Owners(w) = {} /\ \E new \in ProjectRow : new.ws = w /\ AddedTo(new)
         \/ Owners(w) # {} /\ UNCHANGED <<projects, madeProjects>>
         \/ \E p \in Owners(w), new \in ProjectRow : new.ws = w /\ Changed(p, new)
<1> DEFINE linked == [ws |-> w, repo |-> row.repo]
           plain == [ws |-> w, repo |-> NoRepo]
           owner == ByWorkspace(w)
           free == row.repo # NoRepo /\ ByRepository(row.repo) = 0
<1>1. linked \in ProjectRow /\ plain \in ProjectRow /\ linked.ws = w /\ plain.ws = w
  BY WorkspacesAssumption DEF ProjectRow
<1>2. CASE owner = 0
  <2>1. Owners(w) = {}
    BY <1>2, ByWorkspaceIs
  <2>2. (AddProject(linked) /\ free) \/ AddProject(plain)
    BY <1>2 DEF EnsureProject, FolderProject
  <2>3. \E new \in ProjectRow : new.ws = w /\ AddedTo(new)
    BY <1>1, <2>2 DEF AddedTo
  <2> QED
    BY <2>1, <2>3
<1>3. CASE owner # 0
  <2>1. owner \in Owners(w)
    BY <1>3, ByWorkspaceIs
  <2>2. /\ madeProjects' = madeProjects
        /\ projects' = projects \/ (free /\ projects' = [projects EXCEPT ![owner] = linked])
    BY <1>3 DEF EnsureProject
  <2>3. CASE projects' = projects
    BY <2>1, <2>2, <2>3
  <2>4. CASE free /\ projects' = [projects EXCEPT ![owner] = linked]
    <3>1. Changed(owner, linked)
      BY <2>2, <2>4 DEF Changed
    <3> QED
      BY <1>1, <2>1, <3>1
  <2> QED
    BY <2>2, <2>3, <2>4
<1> QED
  BY <1>2, <1>3

LEMMA EnsuredStep ==
  ASSUME Catalogued, NEW w \in 1..MaxWorkspaces, NEW row, row.repo \in Repo \cup {NoRepo},
         EnsureProject(w, row)
  PROVE  ProjectStep
<1>1. Owners(w) \subseteq Project
  BY DEF Owners
<1> QED
  BY <1>1, EnsuredProject DEF ProjectStep

\* Pointing a project at a workspace changes nothing else of it.
LEMMA Pointed ==
  ASSUME Catalogued, NEW p \in Project, NEW w \in 0..MaxWorkspaces, SetWorkspaceOf(p, w),
         UNCHANGED madeProjects
  PROVE  \E new \in ProjectRow : new.ws = w /\ Changed(p, new)
<1> DEFINE new == [ws |-> w, repo |-> projects[p].repo]
<1>1. p \in 1..MaxProjects /\ projects[p] \in ProjectRow
  BY RowTypes DEF Catalogued
<1>2. new \in ProjectRow /\ [projects[p] EXCEPT !.ws = w] = new
  BY <1>1 DEF ProjectRow
<1>3. projects' = [projects EXCEPT ![p] = new]
  BY <1>2 DEF SetWorkspaceOf
<1>4. Changed(p, new)
  BY <1>3 DEF Changed
<1> QED
  BY <1>2, <1>4

LEMMA PointedStep ==
  ASSUME Catalogued, NEW p \in Project, NEW w \in 0..MaxWorkspaces, SetWorkspaceOf(p, w),
         UNCHANGED madeProjects
  PROVE  ProjectStep
BY Pointed DEF ProjectStep

LEMMA LocalRowIs ==
  ASSUME Catalogued, Handler, NEW path \in Path, NEW repo \in Repo \cup {NoRepo},
         Exists(path), ByKey(Key(path)) = 0
  PROVE  LocalRow(path, repo) \in WorkspaceRow /\ NewFolder(LocalRow(path, repo))
<1>1. Key(path) \in Path
  BY WorkspacesAssumption DEF Key
<1>2. LocalRow(path, repo) \in WorkspaceRow
  BY <1>1 DEF LocalRow, WorkspaceRow, Environment
<1>3. NewFolder(LocalRow(path, repo))
  BY DEF LocalRow, NewFolder, Handler
<1> QED
  BY <1>2, <1>3

LEMMA RemoteRowIs ==
  ASSUME NEW env \in Remote \cup {"conversation"}, NEW repo \in Repo \cup {NoRepo}
  PROVE  RemoteRow(env, repo) \in WorkspaceRow /\ NewFolder(RemoteRow(env, repo))
<1>1. env \in Environment /\ env # "local"
  BY WorkspacesAssumption DEF Environment
<1>2. RemoteRow(env, repo) \in WorkspaceRow
  BY <1>1 DEF RemoteRow, WorkspaceRow
<1> QED
  BY <1>1, <1>2 DEF RemoteRow, NewFolder

LEMMA AddStep ==
  ASSUME NEW row \in WorkspaceRow, NewFolder(row), AddWorkspace(row)
  PROVE  WorkspaceStep
BY DEF WorkspaceStep

LEMMA FolderProjectStep ==
  ASSUME NEW w \in 1..MaxWorkspaces, AddProject(FolderProject(w))
  PROVE  ProjectStep
<1>1. FolderProject(w) \in ProjectRow /\ FolderProject(w).repo = NoRepo
  BY DEF FolderProject, ProjectRow
<1>2. AddedTo(FolderProject(w))
  BY <1>1 DEF AddedTo
<1> QED
  BY <1>1, <1>2 DEF ProjectStep

LEMMA BindStep ==
  ASSUME Catalogued, Handler, NEW p, NEW path \in Path, NEW repo \in Repo \cup {NoRepo},
         Exists(path), Bind(p, path, repo)
  PROVE  WorkspaceStep /\ ProjectStep
<1> DEFINE known == ByKey(Key(path))
           points(w) == IF p \in Project THEN SetWorkspaceOf(p, w) ELSE UNCHANGED projects
<1>1. UNCHANGED madeProjects
  BY DEF Bind
<1>2. ASSUME NEW w \in 0..MaxWorkspaces, points(w) PROVE ProjectStep
  <2>1. CASE p \in Project
    BY <1>1, <1>2, <2>1, PointedStep
  <2>2. CASE p \notin Project
    BY <1>1, <1>2, <2>2 DEF ProjectStep
  <2> QED
    BY <2>1, <2>2
<1>3. CASE UNCHANGED <<workspaces, madeWorkspaces, projects>>
  BY <1>1, <1>3 DEF WorkspaceStep, ProjectStep
<1>4. CASE known # 0 /\ points(known) /\ UNCHANGED <<workspaces, madeWorkspaces>>
  <2>1. known \in 0..MaxWorkspaces
    BY <1>4, ByKeyIs, WorkspacesAssumption DEF Workspace
  <2> QED
    BY <1>2, <1>4, <2>1 DEF WorkspaceStep
<1>5. CASE known = 0 /\ AddWorkspace(LocalRow(path, repo)) /\ points(madeWorkspaces + 1)
  <2>1. LocalRow(path, repo) \in WorkspaceRow /\ NewFolder(LocalRow(path, repo))
    BY <1>5, LocalRowIs
  <2>2. madeWorkspaces + 1 \in 1..MaxWorkspaces
    BY <1>5, <2>1, AddedWorkspace
  <2> QED
    BY <1>2, <1>5, <2>1, <2>2, AddStep
<1> QED
  BY <1>3, <1>4, <1>5 DEF Bind

-----------------------------------------------------------------------------
LEMMA HandlerWrites ==
  ASSUME Catalogued, Handler, WorkspaceStep, ProjectStep,
         calls' \in [Call -> CallRecord], \A c \in Call : Waiting(c)'
  PROVE  Writes
BY HandlerLeaves DEF Writes

LEMMA OpenFolderWrites ==
  ASSUME Catalogued, NEW path \in Path, OpenFolder(path)
  PROVE  Writes
<1> DEFINE known == ByKey(Key(path))
<1>1. Handler /\ UNCHANGED calls /\ Exists(path)
  BY DEF OpenFolder
<1>2. calls' \in [Call -> CallRecord] /\ \A c \in Call : Waiting(c)'
  BY <1>1, CallsKept
<1>3. CASE known # 0
  <2>1. AddProject(FolderProject(known)) /\ UNCHANGED <<workspaces, madeWorkspaces>>
    BY <1>3 DEF OpenFolder
  <2>2. known \in 1..MaxWorkspaces
    BY <1>3, ByKeyIs DEF Workspace
  <2>3. WorkspaceStep /\ ProjectStep
    BY <2>1, <2>2, FolderProjectStep DEF WorkspaceStep
  <2> QED
    BY <1>1, <1>2, <2>3, HandlerWrites
<1>4. CASE known = 0
  <2>1. AddWorkspace(LocalRow(path, NoRepo)) /\ AddProject(FolderProject(madeWorkspaces + 1))
    BY <1>4 DEF OpenFolder
  <2>2. LocalRow(path, NoRepo) \in WorkspaceRow /\ NewFolder(LocalRow(path, NoRepo))
    BY <1>1, <1>4, LocalRowIs
  <2>3. madeWorkspaces + 1 \in 1..MaxWorkspaces
    BY <2>1, <2>2, AddedWorkspace
  <2>4. WorkspaceStep /\ ProjectStep
    BY <2>1, <2>2, <2>3, AddStep, FolderProjectStep
  <2> QED
    BY <1>1, <1>2, <2>4, HandlerWrites
<1> QED
  BY <1>3, <1>4

\* A workspace made together with its project.
LEMMA MadeWrites ==
  ASSUME Catalogued, Handler, NEW row \in WorkspaceRow, NewFolder(row), AddWorkspace(row),
         EnsureProject(madeWorkspaces + 1, row),
         calls' \in [Call -> CallRecord], \A c \in Call : Waiting(c)'
  PROVE  Writes
<1>1. madeWorkspaces + 1 \in 1..MaxWorkspaces
  BY AddedWorkspace
<1>2. row.repo \in Repo \cup {NoRepo}
  BY DEF WorkspaceRow
<1>3. WorkspaceStep /\ ProjectStep
  BY <1>1, <1>2, AddStep, EnsuredStep
<1> QED
  BY <1>3, HandlerWrites

LEMMA CreateWorkspaceWrites ==
  ASSUME Catalogued, NEW path \in Path, NEW repo \in Repo \cup {NoRepo}, CreateWorkspace(path, repo)
  PROVE  Writes
<1>1. /\ Handler /\ UNCHANGED calls /\ Exists(path) /\ ByKey(Key(path)) = 0
      /\ AddWorkspace(LocalRow(path, repo))
      /\ EnsureProject(madeWorkspaces + 1, LocalRow(path, repo))
  BY DEF CreateWorkspace
<1>2. LocalRow(path, repo) \in WorkspaceRow /\ NewFolder(LocalRow(path, repo))
  BY <1>1, LocalRowIs
<1> QED
  BY <1>1, <1>2, CallsKept, MadeWrites

LEMMA CreateConversationWrites ==
  ASSUME Catalogued, CreateConversation
  PROVE  Writes
<1>1. /\ Handler /\ UNCHANGED calls
      /\ AddWorkspace(RemoteRow("conversation", NoRepo))
      /\ EnsureProject(madeWorkspaces + 1, RemoteRow("conversation", NoRepo))
  BY DEF CreateConversation
<1>2. /\ RemoteRow("conversation", NoRepo) \in WorkspaceRow
      /\ NewFolder(RemoteRow("conversation", NoRepo))
  BY RemoteRowIs
<1> QED
  BY <1>1, <1>2, CallsKept, MadeWrites

LEMMA CreateRemoteWrites ==
  ASSUME Catalogued, NEW env \in Remote, NEW repo \in Repo, CreateRemote(env, repo)
  PROVE  Writes
<1> DEFINE S == {w \in Workspace : workspaces[w].env = env /\ workspaces[w].repo = repo}
           row == RemoteRow(env, repo)
<1>1. Handler /\ UNCHANGED calls
  BY DEF CreateRemote
<1>2. calls' \in [Call -> CallRecord] /\ \A c \in Call : Waiting(c)'
  BY <1>1, CallsKept
<1>3. S \in SUBSET (1..MaxWorkspaces)
  BY DEF Workspace
<1>4. CASE AddWorkspace(row) /\ EnsureProject(madeWorkspaces + 1, row)
  <2>1. row \in WorkspaceRow /\ NewFolder(row)
    BY RemoteRowIs
  <2> QED
    BY <1>1, <1>2, <1>4, <2>1, MadeWrites
<1>5. CASE /\ Oldest(S) # 0 /\ EnsureProject(Oldest(S), workspaces[Oldest(S)])
           /\ UNCHANGED <<workspaces, madeWorkspaces>>
  <2> HIDE DEF S
  <2>1. Oldest(S) \in S
    BY <1>3, <1>5, OldestIs, WorkspacesAssumption
  <2>2. Oldest(S) \in Workspace
    BY <2>1 DEF S
  <2>3. /\ Oldest(S) \in 1..MaxWorkspaces
        /\ workspaces[Oldest(S)].repo \in Repo \cup {NoRepo}
    BY <2>2, RowTypes DEF Catalogued, WorkspaceRow
  <2>4. WorkspaceStep /\ ProjectStep
    BY <1>5, <2>3, EnsuredStep DEF WorkspaceStep
  <2> QED
    BY <1>1, <1>2, <2>4, HandlerWrites
<1> QED
  BY <1>4, <1>5 DEF CreateRemote

LEMMA RemoveWorkspaceWrites ==
  ASSUME Catalogued, NEW w \in 1..MaxWorkspaces, RemoveWorkspace(w)
  PROVE  Writes
<1>1. /\ Handler /\ UNCHANGED calls /\ w \in Workspace
      /\ workspaces' = [workspaces EXCEPT ![w] = Gone] /\ UNCHANGED madeWorkspaces
      /\ Unpointed(w)
  BY DEF RemoveWorkspace, Unpointed
<1>2. WorkspaceStep /\ ProjectStep
  BY <1>1 DEF WorkspaceStep, ProjectStep
<1> QED
  BY <1>1, <1>2, CallsKept, HandlerWrites

\* A handler that touches the projects alone.
LEMMA ProjectWrites ==
  ASSUME Catalogued, Handler, ProjectStep, UNCHANGED <<calls, workspaces, madeWorkspaces>>
  PROVE  Writes
<1>1. WorkspaceStep
  BY DEF WorkspaceStep
<1> QED
  BY <1>1, CallsKept, HandlerWrites

LEMMA CreateProjectWrites ==
  ASSUME Catalogued, NEW w \in 0..MaxWorkspaces, NEW repo \in Repo \cup {NoRepo},
         CreateProject(w, repo)
  PROVE  Writes
<1> DEFINE new == [ws |-> w, repo |-> repo]
<1>1. new \in ProjectRow /\ AddedTo(new)
  BY DEF ProjectRow, AddedTo, CreateProject
<1>2. ProjectStep
  BY <1>1 DEF ProjectStep
<1> QED
  BY <1>2, ProjectWrites DEF CreateProject

LEMMA SetRepositoryWrites ==
  ASSUME Catalogued, NEW p \in 1..MaxProjects, NEW repo \in Repo \cup {NoRepo},
         SetRepository(p, repo)
  PROVE  Writes
<1> DEFINE new == [ws |-> projects[p].ws, repo |-> repo]
<1>1. p \in Project /\ projects[p] \in ProjectRow
  BY RowTypes DEF Catalogued, SetRepository
<1>2. new \in ProjectRow /\ [projects[p] EXCEPT !.repo = repo] = new
  BY <1>1 DEF ProjectRow
<1>3. projects' = [projects EXCEPT ![p] = new]
  BY <1>2 DEF SetRepository
<1>4. Changed(p, new)
  BY <1>3 DEF Changed, SetRepository
<1>5. ProjectStep
  BY <1>1, <1>2, <1>4 DEF ProjectStep
<1> QED
  BY <1>5, ProjectWrites DEF SetRepository

LEMMA SetWorkspaceWrites ==
  ASSUME Catalogued, NEW p \in 1..MaxProjects, NEW w \in 0..MaxWorkspaces, SetWorkspace(p, w)
  PROVE  Writes
BY PointedStep, ProjectWrites DEF SetWorkspace

LEMMA RemoveProjectWrites ==
  ASSUME Catalogued, NEW p \in 1..MaxProjects, RemoveProject(p)
  PROVE  Writes
<1>1. ProjectStep
  BY DEF ProjectStep, RemoveProject
<1> QED
  BY <1>1, ProjectWrites DEF RemoveProject

LEMMA OpenProjectWrites ==
  ASSUME Catalogued, NEW p \in 1..MaxProjects, OpenProject(p)
  PROVE  Writes
<1> DEFINE row == RemoteRow("conversation", projects[p].repo)
<1>1. /\ Handler /\ UNCHANGED <<calls, madeProjects>> /\ p \in Project
      /\ AddWorkspace(row) /\ SetWorkspaceOf(p, madeWorkspaces + 1)
  BY DEF OpenProject
<1>2. projects[p].repo \in Repo \cup {NoRepo}
  BY <1>1, RowTypes DEF Catalogued, ProjectRow
<1>3. row \in WorkspaceRow /\ NewFolder(row)
  BY <1>2, RemoteRowIs
<1>4. madeWorkspaces + 1 \in 1..MaxWorkspaces
  BY <1>1, <1>3, AddedWorkspace
<1>5. madeWorkspaces + 1 \in 0..MaxWorkspaces
  BY <1>4
<1>6. WorkspaceStep /\ ProjectStep
  BY <1>1, <1>3, <1>5, AddStep, PointedStep
<1> QED
  BY <1>1, <1>6, CallsKept, HandlerWrites

LEMMA OpenRepositoryWrites ==
  ASSUME Catalogued, NEW repo \in Repo, OpenRepository(repo)
  PROVE  Writes
<1> DEFINE new == [ws |-> 0, repo |-> repo]
<1>1. new \in ProjectRow /\ AddedTo(new)
  BY WorkspacesAssumption DEF ProjectRow, AddedTo, OpenRepository
<1>2. ProjectStep
  BY <1>1 DEF ProjectStep
<1> QED
  BY <1>2, ProjectWrites DEF OpenRepository

LEMMA AssociateWrites ==
  ASSUME Catalogued, NEW p \in 1..MaxProjects, NEW path \in Path, Associate(p, path)
  PROVE  Writes
<1>1. Handler /\ UNCHANGED calls /\ Exists(path) /\ Bind(p, path, NoRepo)
  BY DEF Associate
<1>2. WorkspaceStep /\ ProjectStep
  BY <1>1, BindStep
<1> QED
  BY <1>1, <1>2, CallsKept, HandlerWrites

-----------------------------------------------------------------------------
\* Handlers that wait for git.
LEMMA WaitingWrites ==
  ASSUME Catalogued, Handler, UNCHANGED rows,
         calls' \in [Call -> CallRecord], \A c \in Call : Waiting(c)'
  PROVE  Writes
<1>1. WorkspaceStep /\ ProjectStep
  BY DEF WorkspaceStep, ProjectStep, rows
<1> QED
  BY <1>1, HandlerWrites

LEMMA BeginCloneWrites ==
  ASSUME Catalogued, NEW c \in Call, NEW p \in 0..MaxProjects, NEW path \in Path,
         NEW repo \in Repo, BeginClone(c, p, path, repo)
  PROVE  Writes
<1>1. /\ Handler /\ UNCHANGED rows /\ RealPath[path] = path
      /\ Begin(c, [Idle EXCEPT !.op = "cloning", !.project = p, !.path = path, !.repo = repo])
  BY DEF BeginClone
<1>2. calls' \in [Call -> CallRecord] /\ \A d \in Call : Waiting(d)'
  BY <1>1, CallsBegin
<1> QED
  BY <1>1, <1>2, WaitingWrites

LEMMA BeginAssociateWrites ==
  ASSUME Catalogued, NEW c \in Call, NEW p \in 1..MaxProjects, NEW path \in Path,
         BeginAssociate(c, p, path)
  PROVE  Writes
<1> DEFINE repo == projects[p].repo
<1>1. /\ Handler /\ UNCHANGED rows /\ p \in Project /\ repo # NoRepo
      /\ Begin(c, [Idle EXCEPT !.op = "checking", !.project = p, !.path = path, !.repo = repo])
  BY DEF BeginAssociate
<1>2. repo \in Repo
  BY <1>1, RowTypes DEF Catalogued, ProjectRow
<1>3. p \in 0..MaxProjects
  OBVIOUS
<1> HIDE DEF repo
<1>4. calls' \in [Call -> CallRecord] /\ \A d \in Call : Waiting(d)'
  BY <1>1, <1>2, <1>3, CallsBegin
<1> QED
  BY <1>1, <1>4, WaitingWrites

LEMMA EndAssociateWrites ==
  ASSUME Catalogued, NEW c \in Call, EndAssociate(c)
  PROVE  Writes
<1>1. Handler /\ calls[c].op = "checking" /\ End(c)
  BY DEF EndAssociate
<1>2. calls' \in [Call -> CallRecord] /\ \A d \in Call : Waiting(d)'
  BY <1>1, CallsEnd
<1>3. CASE UNCHANGED rows
  BY <1>1, <1>2, <1>3, WaitingWrites
<1>4. CASE /\ ~Blocks(calls[c].path, calls[c].repo)
           /\ Bind(calls[c].project, calls[c].path, calls[c].repo)
  <2>1. calls[c].path \in Path /\ calls[c].repo \in Repo
    BY <1>1 DEF Catalogued, Waiting
  <2>2. Exists(calls[c].path)
    BY <1>4 DEF Blocks
  <2>3. WorkspaceStep /\ ProjectStep
    BY <1>1, <1>4, <2>1, <2>2, BindStep
  <2> QED
    BY <1>1, <1>2, <2>3, HandlerWrites
<1> QED
  BY <1>3, <1>4 DEF EndAssociate

LEMMA EndCloneWrites ==
  ASSUME Catalogued, NEW c \in Call, EndClone(c)
  PROVE  Writes
<1> DEFINE p == calls[c].project
           path == calls[c].path
           row == LocalRow(path, calls[c].repo)
<1>1. Handler /\ calls[c].op = "cloned" /\ End(c)
  BY DEF EndClone
<1>2. calls' \in [Call -> CallRecord] /\ \A d \in Call : Waiting(d)'
  BY <1>1, CallsEnd
<1>3. CASE UNCHANGED rows
  BY <1>1, <1>2, <1>3, WaitingWrites
<1>4. CASE /\ Exists(path) /\ ByKey(row.key) = 0 /\ AddWorkspace(row)
           /\ \/ p = 0 /\ EnsureProject(madeWorkspaces + 1, row)
              \/ /\ p \in Project /\ SetWorkspaceOf(p, madeWorkspaces + 1)
                 /\ UNCHANGED madeProjects
              \/ /\ p # 0 /\ p \notin Project
                 /\ UNCHANGED <<projects, madeProjects>>
  <2>1. path \in Path /\ calls[c].repo \in Repo /\ row.key = Key(path)
    BY <1>1 DEF Catalogued, Waiting, LocalRow
  <2>2. row \in WorkspaceRow /\ NewFolder(row)
    BY <1>1, <1>4, <2>1, LocalRowIs
  <2>3. madeWorkspaces + 1 \in 0..MaxWorkspaces
    <3>1. madeWorkspaces + 1 \in 1..MaxWorkspaces
      BY <1>4, <2>2, AddedWorkspace
    <3> QED
      BY <3>1
  <2> HIDE DEF row, p
  <2>4. CASE EnsureProject(madeWorkspaces + 1, row)
    BY <1>1, <1>2, <1>4, <2>2, <2>4, MadeWrites
  <2>5. CASE p \in Project /\ SetWorkspaceOf(p, madeWorkspaces + 1) /\ UNCHANGED madeProjects
    <3>1. WorkspaceStep /\ ProjectStep
      BY <1>4, <2>2, <2>3, <2>5, AddStep, PointedStep
    <3> QED
      BY <1>1, <1>2, <3>1, HandlerWrites
  <2>6. CASE UNCHANGED <<projects, madeProjects>>
    <3>1. WorkspaceStep /\ ProjectStep
      BY <1>4, <2>2, <2>6, AddStep DEF ProjectStep
    <3> QED
      BY <1>1, <1>2, <3>1, HandlerWrites
  <2> QED
    BY <1>4, <2>4, <2>5, <2>6
<1> QED
  BY <1>3, <1>4 DEF EndClone

-----------------------------------------------------------------------------
(* The disk and the application *)

LEMMA RowsKept ==
  ASSUME Catalogued, UNCHANGED rows
  PROVE  WorkspaceStep /\ ProjectStep /\ Workspace' = Workspace
BY DEF WorkspaceStep, ProjectStep, rows, Workspace

LEMMA GitClonesWrites ==
  ASSUME Catalogued, NEW c \in Call, GitClones(c)
  PROVE  Writes
<1>1. /\ calls[c].op = "cloning"
      /\ UNCHANGED <<away, unreconciled, up>> /\ UNCHANGED rows
  BY DEF GitClones
<1>2. /\ calls[c].path \in Path /\ calls[c].repo \in Repo
      /\ RealPath[calls[c].path] = calls[c].path
  BY <1>1 DEF Catalogued, Waiting
<1>3. calls[c].path \in Folder
  <2>1. PICK path \in Path : path = calls[c].path /\ RealPath[path] = path
    BY <1>2
  <2> QED
    BY <2>1 DEF Folder
<1>4. /\ disk \in [Folder -> {Absent, Plain} \cup Repo]
      /\ away \subseteq Folder /\ away \subseteq Removable /\ up \in BOOLEAN
      /\ unreconciled \subseteq Workspace /\ unreconciled \subseteq 1..MaxWorkspaces
      /\ calls \in [Call -> CallRecord] /\ \A d \in Call : Waiting(d)
  BY DEF Catalogued, CatalogueTypeOK
<1>5. /\ disk' \in [Folder -> {Absent, Plain} \cup Repo]
      /\ \A f \in Folder : disk[f] # Absent => disk'[f] # Absent
  <2>1. CASE UNCHANGED disk
    BY <1>4, <2>1
  <2>2. CASE disk' = [disk EXCEPT ![calls[c].path] = calls[c].repo]
    <3>1. calls[c].repo # Absent
      BY <1>2, ContentAssumption
    <3> QED
      BY <1>2, <1>3, <1>4, <2>2, <3>1
  <2> QED
    BY <2>1, <2>2 DEF GitClones
<1>6. calls' \in [Call -> CallRecord] /\ \A d \in Call : Waiting(d)'
  <2>1. CASE End(c)
    BY <2>1, CallsEnd
  <2>2. CASE calls' = [calls EXCEPT ![c].op = "cloned"]
    <3>1. PICK record : record = [calls[c] EXCEPT !.op = "cloned"]
      OBVIOUS
    <3>2. calls[c] \in CallRecord
      BY <1>4
    <3>3. /\ record \in CallRecord /\ record.op = "cloned"
          /\ record.path = calls[c].path /\ record.repo = calls[c].repo
      BY <3>1, <3>2 DEF CallRecord
    <3>4. calls' = [calls EXCEPT ![c] = record]
      BY <2>2, <3>1
    <3>5. ASSUME NEW d \in Call PROVE Waiting(d)'
      <4>1. CASE d = c
        BY <1>2, <1>4, <3>3, <3>4, <4>1 DEF Waiting
      <4>2. CASE d # c
        BY <1>4, <3>4, <4>2 DEF Waiting
      <4> QED
        BY <4>1, <4>2
    <3> QED
      BY <1>4, <3>3, <3>4, <3>5
  <2> QED
    BY <2>1, <2>2 DEF GitClones
<1>7. WorkspaceStep /\ ProjectStep /\ Workspace' = Workspace
  BY <1>1, RowsKept
<1>8. OtherStep
  BY <1>1, <1>4, <1>5, <1>6, <1>7 DEF OtherStep
<1> QED
  BY <1>7, <1>8 DEF Writes

LEMMA DriveWrites ==
  ASSUME Catalogued, NEW f \in Folder, Unplug(f) \/ Plug(f)
  PROVE  Writes
<1>1. /\ UNCHANGED <<disk, calls, unreconciled, up>> /\ UNCHANGED rows
      /\ away' = away \ {f} \/ (f \in Removable /\ away' = away \cup {f})
  BY DEF Unplug, Plug
<1>2. /\ disk \in [Folder -> {Absent, Plain} \cup Repo]
      /\ away' \subseteq Folder /\ away' \subseteq Removable /\ up \in BOOLEAN
      /\ unreconciled \subseteq Workspace /\ unreconciled \subseteq 1..MaxWorkspaces
  BY <1>1 DEF Catalogued, CatalogueTypeOK
<1>3. calls' \in [Call -> CallRecord] /\ \A c \in Call : Waiting(c)'
  BY <1>1, CallsKept
<1>4. WorkspaceStep /\ ProjectStep /\ Workspace' = Workspace
  BY <1>1, RowsKept
<1>5. OtherStep
  BY <1>1, <1>2, <1>3, <1>4 DEF OtherStep
<1> QED
  BY <1>4, <1>5 DEF Writes

LEMMA StopWrites ==
  ASSUME Catalogued, StopApplication
  PROVE  Writes
<1>1. /\ UNCHANGED <<disk, away>> /\ UNCHANGED rows
      /\ ~up' /\ up' \in BOOLEAN /\ unreconciled' = {} /\ calls' = [c \in Call |-> Idle]
  BY DEF StopApplication
<1>2. /\ disk \in [Folder -> {Absent, Plain} \cup Repo]
      /\ away \subseteq Folder /\ away \subseteq Removable
  BY DEF Catalogued, CatalogueTypeOK
<1>3. Idle \in CallRecord /\ Idle.op = "idle"
  BY WorkspacesAssumption DEF Idle, CallRecord
<1>4. calls' \in [Call -> CallRecord] /\ \A c \in Call : Waiting(c)'
  BY <1>1, <1>3 DEF Waiting
<1>5. WorkspaceStep /\ ProjectStep /\ Workspace' = Workspace
  BY <1>1, RowsKept
<1>6. OtherStep
  BY <1>1, <1>2, <1>4, <1>5 DEF OtherStep
<1> QED
  BY <1>5, <1>6 DEF Writes

LEMMA StartWrites ==
  ASSUME Catalogued, StartApplication
  PROVE  Writes
<1>1. /\ UNCHANGED <<disk, away, calls>> /\ UNCHANGED rows
      /\ up' \in BOOLEAN /\ unreconciled' = Workspace
  BY DEF StartApplication
<1>2. /\ disk \in [Folder -> {Absent, Plain} \cup Repo]
      /\ away \subseteq Folder /\ away \subseteq Removable
  BY DEF Catalogued, CatalogueTypeOK
<1>3. calls' \in [Call -> CallRecord] /\ \A c \in Call : Waiting(c)'
  BY <1>1, CallsKept
<1>4. WorkspaceStep /\ ProjectStep /\ Workspace' = Workspace
  BY <1>1, RowsKept
<1>5. Workspace \subseteq 1..MaxWorkspaces
  BY DEF Workspace
<1>6. OtherStep
  BY <1>1, <1>2, <1>3, <1>4, <1>5 DEF OtherStep
<1> QED
  BY <1>4, <1>6 DEF Writes

\* The row the start writes for workspace w: the one it had, with its identity.
Looked(w) ==
  IF workspaces[w].env = "local"
  THEN [workspaces[w] EXCEPT !.key = Key(workspaces[w].path)] ELSE workspaces[w]

LEMMA ReconciledRow ==
  ASSUME Catalogued, NEW w \in 1..MaxWorkspaces, Reconcile(w)
  PROVE  /\ w \in Workspace /\ w \in unreconciled
         /\ workspaces' = [workspaces EXCEPT ![w] = Looked(w)]
         /\ EnsureProject(w, Looked(w))
         /\ unreconciled' = unreconciled \ {w}
         /\ UNCHANGED <<disk, away, madeWorkspaces, calls, up>>
         /\ Looked(w) \in WorkspaceRow
         /\ Looked(w).env = workspaces[w].env /\ Looked(w).path = workspaces[w].path
         /\ IsLocal(w) => Looked(w).key = Key(workspaces[w].path)
<1>1. /\ w \in unreconciled /\ unreconciled' = unreconciled \ {w}
      /\ workspaces' = [workspaces EXCEPT ![w] = Looked(w)]
      /\ EnsureProject(w, Looked(w))
      /\ UNCHANGED <<disk, away, madeWorkspaces, calls, up>>
  BY DEF Reconcile, Looked
<1>2. w \in Workspace /\ workspaces[w] \in WorkspaceRow
  BY <1>1, RowTypes DEF Catalogued
<1>3. CASE workspaces[w].env = "local"
  <2>1. workspaces[w].path \in Path
    BY <1>2, <1>3 DEF Catalogued, IsLocal
  <2>2. Key(workspaces[w].path) \in Path
    BY <2>1, WorkspacesAssumption DEF Key
  <2>3. Looked(w) = [workspaces[w] EXCEPT !.key = Key(workspaces[w].path)]
    BY <1>3 DEF Looked
  <2> QED
    BY <1>1, <1>2, <2>2, <2>3 DEF WorkspaceRow
<1>4. CASE workspaces[w].env # "local"
  <2>1. Looked(w) = workspaces[w]
    BY <1>4 DEF Looked
  <2> QED
    BY <1>1, <1>2, <1>4, <2>1 DEF IsLocal
<1> QED
  BY <1>3, <1>4

LEMMA ReconcileWrites ==
  ASSUME Catalogued, NEW w \in 1..MaxWorkspaces, Reconcile(w)
  PROVE  Writes
<1>1. /\ w \in Workspace /\ w \in unreconciled
      /\ workspaces' = [workspaces EXCEPT ![w] = Looked(w)]
      /\ EnsureProject(w, Looked(w)) /\ Looked(w) \in WorkspaceRow
      /\ unreconciled' = unreconciled \ {w}
      /\ UNCHANGED <<disk, away, calls, up>>
  BY ReconciledRow
<1>2. Looked(w).repo \in Repo \cup {NoRepo}
  BY <1>1 DEF WorkspaceRow
<1>3. WorkspaceStep /\ ProjectStep
  BY <1>1, <1>2, EnsuredStep DEF WorkspaceStep
<1>4. Looked(w) # Gone
  BY <1>1, GoneIsNoRow
<1>5. Workspace' = Workspace
  BY <1>1, <1>4 DEF Workspace, Catalogued, CatalogueTypeOK
<1>6. calls' \in [Call -> CallRecord] /\ \A c \in Call : Waiting(c)'
  BY <1>1, CallsKept
<1>7. /\ disk \in [Folder -> {Absent, Plain} \cup Repo]
      /\ away \subseteq Folder /\ away \subseteq Removable /\ up \in BOOLEAN
      /\ unreconciled \subseteq Workspace /\ unreconciled \subseteq 1..MaxWorkspaces
  BY DEF Catalogued, CatalogueTypeOK
<1>8. \A v \in Workspace' : up' /\ v \notin unreconciled' => (up /\ v \notin unreconciled) \/ Reconcile(v)
  <2> SUFFICES ASSUME NEW v \in Workspace', up', v \notin unreconciled'
               PROVE  (up /\ v \notin unreconciled) \/ Reconcile(v)
    OBVIOUS
  <2>1. CASE v = w
    BY <2>1
  <2>2. CASE v # w
    BY <1>1, <2>2
  <2> QED
    BY <2>1, <2>2
<1>9. OtherStep
  BY <1>1, <1>5, <1>6, <1>7, <1>8 DEF OtherStep
<1> QED
  BY <1>3, <1>9 DEF Writes

LEMMA EveryWrites ==
  ASSUME Catalogued, CatalogueNext
  PROVE  Writes
<1>1. ASSUME NEW path \in Path, OpenFolder(path) PROVE Writes
  BY <1>1, OpenFolderWrites
<1>2. ASSUME NEW path \in Path, NEW repo \in Repo \cup {NoRepo}, CreateWorkspace(path, repo)
      PROVE  Writes
  BY <1>2, CreateWorkspaceWrites
<1>3. ASSUME NEW env \in Remote, NEW repo \in Repo, CreateRemote(env, repo) PROVE Writes
  BY <1>3, CreateRemoteWrites
<1>4. ASSUME NEW w \in 1..MaxWorkspaces, RemoveWorkspace(w) \/ Reconcile(w) PROVE Writes
  BY <1>4, RemoveWorkspaceWrites, ReconcileWrites
<1>5. ASSUME NEW w \in 0..MaxWorkspaces, NEW repo \in Repo \cup {NoRepo}, CreateProject(w, repo)
      PROVE  Writes
  BY <1>5, CreateProjectWrites
<1>6. ASSUME NEW p \in 1..MaxProjects, NEW repo \in Repo \cup {NoRepo}, SetRepository(p, repo)
      PROVE  Writes
  BY <1>6, SetRepositoryWrites
<1>7. ASSUME NEW p \in 1..MaxProjects, NEW w \in 0..MaxWorkspaces, SetWorkspace(p, w)
      PROVE  Writes
  BY <1>7, SetWorkspaceWrites
<1>8. ASSUME NEW p \in 1..MaxProjects, RemoveProject(p) \/ OpenProject(p) PROVE Writes
  BY <1>8, RemoveProjectWrites, OpenProjectWrites
<1>9. ASSUME NEW c \in Call, NEW p \in 0..MaxProjects, NEW path \in Path, NEW repo \in Repo,
             BeginClone(c, p, path, repo)
      PROVE  Writes
  BY <1>9, BeginCloneWrites
<1>10. ASSUME NEW c \in Call, GitClones(c) \/ EndClone(c) \/ EndAssociate(c) PROVE Writes
  BY <1>10, GitClonesWrites, EndCloneWrites, EndAssociateWrites
<1>11. ASSUME NEW p \in 1..MaxProjects, NEW path \in Path, Associate(p, path) PROVE Writes
  BY <1>11, AssociateWrites
<1>12. ASSUME NEW c \in Call, NEW p \in 1..MaxProjects, NEW path \in Path,
              BeginAssociate(c, p, path)
       PROVE  Writes
  BY <1>12, BeginAssociateWrites
<1>13. ASSUME NEW repo \in Repo, OpenRepository(repo) PROVE Writes
  BY <1>13, OpenRepositoryWrites
<1>14. ASSUME NEW f \in Folder, Unplug(f) \/ Plug(f) PROVE Writes
  BY <1>14, DriveWrites
<1>15. CASE CreateConversation \/ StopApplication \/ StartApplication
  BY <1>15, CreateConversationWrites, StopWrites, StartWrites
<1> QED
  BY <1>1, <1>2, <1>3, <1>4, <1>5, <1>6, <1>7, <1>8, <1>9, <1>10, <1>11, <1>12, <1>13, <1>14,
     <1>15 DEF CatalogueNext

-----------------------------------------------------------------------------
(* What the writes keep *)

\* A step keeps the folders of the workspaces there are, or makes one more.
LEMMA WorkspacesKept ==
  ASSUME Catalogued, WorkspaceStep
  PROVE  /\ workspaces' \in [1..MaxWorkspaces -> WorkspaceRow \cup {Gone}]
         /\ madeWorkspaces' \in 0..MaxWorkspaces
         /\ \A w \in Workspace' : w <= madeWorkspaces'
         /\ \A w \in Workspace' : workspaces'[w].env = "local" => workspaces'[w].path \in Path
         /\ \/ /\ Workspace' \subseteq Workspace
               /\ \A w \in Workspace' :
                     /\ workspaces'[w].env = workspaces[w].env
                     /\ workspaces'[w].path = workspaces[w].path
                     /\ workspaces'[w] = workspaces[w] \/ Reconcile(w)
            \/ \E n \in 1..MaxWorkspaces, row \in WorkspaceRow :
                  /\ n \notin Workspace /\ Workspace' = Workspace \cup {n}
                  /\ NewFolder(row) /\ workspaces'[n] = row
                  /\ \A w \in Workspace : workspaces'[w] = workspaces[w]
<1>1. /\ workspaces \in [1..MaxWorkspaces -> WorkspaceRow \cup {Gone}]
      /\ madeWorkspaces \in 0..MaxWorkspaces
      /\ unreconciled \subseteq 1..MaxWorkspaces
      /\ \A w \in Workspace : w \in 1..MaxWorkspaces /\ w <= madeWorkspaces
      /\ \A w \in Workspace : workspaces[w].env = "local" => workspaces[w].path \in Path
  BY DEF Catalogued, CatalogueTypeOK, IsLocal, Workspace
<1>2. CASE UNCHANGED <<workspaces, madeWorkspaces>>
  <2>1. Workspace' = Workspace
    BY <1>2 DEF Workspace
  <2> QED
    BY <1>1, <1>2, <2>1
<1>3. CASE \E row \in WorkspaceRow : NewFolder(row) /\ AddWorkspace(row)
  <2>1. PICK row \in WorkspaceRow : NewFolder(row) /\ AddWorkspace(row)
    BY <1>3
  <2>2. PICK n : n = madeWorkspaces + 1
    OBVIOUS
  <2>3. /\ n \in 1..MaxWorkspaces /\ n \notin Workspace
        /\ workspaces' \in [1..MaxWorkspaces -> WorkspaceRow \cup {Gone}]
        /\ madeWorkspaces' \in 0..MaxWorkspaces
        /\ Workspace' = Workspace \cup {n}
        /\ workspaces'[n] = row
        /\ \A w \in Workspace : w # n /\ workspaces'[w] = workspaces[w]
        /\ \A w \in Workspace' : w <= madeWorkspaces'
    BY <2>1, <2>2, AddedWorkspace
  <2>4. \A w \in Workspace' : workspaces'[w].env = "local" => workspaces'[w].path \in Path
    BY <1>1, <2>1, <2>3 DEF NewFolder
  <2> QED
    BY <2>1, <2>3, <2>4
<1>4. CASE \E w \in Workspace : workspaces' = [workspaces EXCEPT ![w] = Gone] /\ UNCHANGED madeWorkspaces
  <2>1. PICK w \in Workspace : workspaces' = [workspaces EXCEPT ![w] = Gone] /\ UNCHANGED madeWorkspaces
    BY <1>4
  <2>2. /\ w \in 1..MaxWorkspaces
        /\ workspaces' \in [1..MaxWorkspaces -> WorkspaceRow \cup {Gone}]
    BY <1>1, <2>1
  <2>3. ASSUME NEW v \in Workspace' PROVE v \in Workspace /\ workspaces'[v] = workspaces[v]
    BY <1>1, <2>1, <2>2, <2>3 DEF Workspace
  <2> QED
    BY <1>1, <2>1, <2>2, <2>3
<1>5. CASE \E w \in unreconciled : Reconcile(w)
  <2>1. PICK w \in unreconciled : Reconcile(w)
    BY <1>5
  <2>2. w \in 1..MaxWorkspaces
    BY <1>1, <2>1
  <2>3. /\ w \in Workspace /\ Looked(w) \in WorkspaceRow
        /\ workspaces' = [workspaces EXCEPT ![w] = Looked(w)] /\ UNCHANGED madeWorkspaces
        /\ Looked(w).env = workspaces[w].env /\ Looked(w).path = workspaces[w].path
    BY <2>1, <2>2, ReconciledRow
  <2>4. Looked(w) # Gone
    BY <2>3, GoneIsNoRow
  <2>5. /\ workspaces' \in [1..MaxWorkspaces -> WorkspaceRow \cup {Gone}]
        /\ workspaces'[w] = Looked(w)
        /\ \A v \in 1..MaxWorkspaces : v # w => workspaces'[v] = workspaces[v]
    BY <1>1, <2>2, <2>3
  <2>6. Workspace' = Workspace
    BY <2>3, <2>4, <2>5 DEF Workspace
  <2>7. ASSUME NEW v \in Workspace'
        PROVE  /\ workspaces'[v].env = workspaces[v].env
               /\ workspaces'[v].path = workspaces[v].path
               /\ workspaces'[v] = workspaces[v] \/ Reconcile(v)
    <3>1. v \in 1..MaxWorkspaces
      BY <1>1, <2>6
    <3>2. CASE v = w
      BY <2>1, <2>3, <2>5, <3>2
    <3>3. CASE v # w
      BY <2>5, <3>1, <3>3
    <3> QED
      BY <3>2, <3>3
  <2> QED
    BY <1>1, <2>3, <2>5, <2>6, <2>7
<1> QED
  BY <1>2, <1>3, <1>4, <1>5 DEF WorkspaceStep

OneProject ==
  \A p, q \in Project :
     p # q /\ projects[p].repo # NoRepo => projects[p].repo # projects[q].repo

LEMMA ProjectsKept ==
  ASSUME Catalogued, ProjectStep
  PROVE  /\ projects' \in [1..MaxProjects -> ProjectRow \cup {Gone}]
         /\ madeProjects' \in 0..MaxProjects
         /\ \A p \in Project' : p <= madeProjects'
         /\ OneProject => OneProject'
<1>1. /\ projects \in [1..MaxProjects -> ProjectRow \cup {Gone}]
      /\ madeProjects \in 0..MaxProjects
      /\ \A p \in Project : p \in 1..MaxProjects /\ p <= madeProjects
  BY DEF Catalogued, CatalogueTypeOK, Project
<1>2. CASE UNCHANGED <<projects, madeProjects>>
  <2>1. Project' = Project
    BY <1>2 DEF Project
  <2> QED
    BY <1>1, <1>2, <2>1 DEF OneProject
<1>3. CASE \E new \in ProjectRow : AddedTo(new)
  <2>1. PICK new \in ProjectRow : AddedTo(new)
    BY <1>3
  <2>2. PICK n : n = madeProjects + 1
    OBVIOUS
  <2>3. /\ n \in 1..MaxProjects /\ n \notin Project
        /\ projects' \in [1..MaxProjects -> ProjectRow \cup {Gone}]
        /\ madeProjects' \in 0..MaxProjects
        /\ Project' = Project \cup {n}
        /\ projects'[n] = new
        /\ \A p \in Project : p # n /\ projects'[p] = projects[p]
        /\ \A p \in Project' : p <= madeProjects'
    BY <2>1, <2>2, AddedProject DEF AddedTo
  <2>4. new.repo # NoRepo => \A p \in Project : projects[p].repo # new.repo
    BY <2>1, ByRepositoryIs DEF AddedTo
  <2>5. OneProject => OneProject'
    BY <2>3, <2>4 DEF OneProject
  <2> QED
    BY <2>3, <2>5
<1>4. CASE \E p \in Project, new \in ProjectRow : Changed(p, new)
  <2>1. PICK p \in Project, new \in ProjectRow : Changed(p, new)
    BY <1>4
  <2>2. new # Gone /\ p \in 1..MaxProjects
    BY <1>1, GoneIsNoRow
  <2>3. /\ projects' = [projects EXCEPT ![p] = new] /\ UNCHANGED madeProjects
        /\ projects' \in [1..MaxProjects -> ProjectRow \cup {Gone}]
        /\ projects'[p] = new
        /\ \A q \in 1..MaxProjects : q # p => projects'[q] = projects[q]
    BY <1>1, <2>1, <2>2 DEF Changed
  <2>4. Project' = Project
    BY <2>2, <2>3 DEF Project
  <2>5. ASSUME OneProject, new.repo # NoRepo, NEW q \in Project, q # p
        PROVE  projects[q].repo # new.repo
    <3>1. CASE new.repo = projects[p].repo
      BY <2>5, <3>1 DEF OneProject
    <3>2. CASE ByRepository(new.repo) = 0
      BY <2>5, <3>2, ByRepositoryIs
    <3>3. CASE ByRepository(new.repo) = p /\ p # 0
      <4>1. projects[p].repo = new.repo
        BY <2>5, <3>3, ByRepositoryIs
      <4> QED
        BY <2>5, <4>1 DEF OneProject
    <3> QED
      BY <2>1, <2>2, <2>5, <3>1, <3>2, <3>3 DEF Changed
  <2>6. OneProject => OneProject'
    <3> SUFFICES ASSUME OneProject, NEW q \in Project', NEW r \in Project', q # r,
                        projects'[q].repo # NoRepo
                 PROVE  projects'[q].repo # projects'[r].repo
      BY DEF OneProject
    <3>1. q \in Project /\ r \in Project /\ q \in 1..MaxProjects /\ r \in 1..MaxProjects
      BY <1>1, <2>4
    <3>2. CASE q = p
      BY <2>3, <2>5, <3>1, <3>2
    <3>3. CASE r = p
      BY <2>3, <2>5, <3>1, <3>3
    <3>4. CASE q # p /\ r # p
      BY <2>3, <3>1, <3>4 DEF OneProject
    <3> QED
      BY <3>2, <3>3, <3>4
  <2> QED
    BY <1>1, <2>3, <2>4, <2>6
<1>5. CASE \E p \in Project : projects' = [projects EXCEPT ![p] = Gone] /\ UNCHANGED madeProjects
  <2>1. PICK p \in Project : projects' = [projects EXCEPT ![p] = Gone] /\ UNCHANGED madeProjects
    BY <1>5
  <2>2. ASSUME NEW q \in Project' PROVE q \in Project /\ projects'[q] = projects[q]
    BY <1>1, <2>1, <2>2 DEF Project
  <2>3. projects' \in [1..MaxProjects -> ProjectRow \cup {Gone}]
    BY <1>1, <2>1
  <2> QED
    BY <1>1, <2>1, <2>2, <2>3 DEF OneProject
<1>6. CASE \E w \in Workspace : Unpointed(w)
  <2>1. PICK w \in Workspace : Unpointed(w)
    BY <1>6
  <2>2. ASSUME NEW p \in 1..MaxProjects, p \in Project
        PROVE  projects'[p] \in ProjectRow /\ projects'[p].repo = projects[p].repo
    <3>1. projects[p] \in ProjectRow
      BY <2>2, RowTypes DEF Catalogued
    <3>2. [projects[p] EXCEPT !.ws = 0] \in ProjectRow
          /\ [projects[p] EXCEPT !.ws = 0].repo = projects[p].repo
      BY <3>1, WorkspacesAssumption DEF ProjectRow
    <3>3. projects'[p] = projects[p] \/ projects'[p] = [projects[p] EXCEPT !.ws = 0]
      BY <1>1, <2>1, <2>2 DEF Unpointed
    <3> QED
      BY <3>1, <3>2, <3>3
  <2>3. ASSUME NEW p \in 1..MaxProjects, p \notin Project PROVE projects'[p] = Gone
    BY <1>1, <2>1, <2>3 DEF Unpointed, Project
  <2>4. projects' \in [1..MaxProjects -> ProjectRow \cup {Gone}]
    <3>1. projects' = [p \in 1..MaxProjects |-> projects'[p]]
      BY <1>1, <2>1 DEF Unpointed
    <3> QED
      BY <2>2, <2>3, <3>1
  <2>5. Project' = Project
    BY <2>2, <2>3, GoneIsNoRow DEF Project
  <2>6. \A p \in Project : projects'[p].repo = projects[p].repo
    BY <1>1, <2>2
  <2> QED
    BY <1>1, <2>1, <2>4, <2>5, <2>6 DEF OneProject, Unpointed
<1> QED
  BY <1>2, <1>3, <1>4, <1>5, <1>6 DEF ProjectStep

LEMMA CataloguedStep == Catalogued /\ [CatalogueNext]_catalogueVars => Catalogued'
<1> SUFFICES ASSUME Catalogued, [CatalogueNext]_catalogueVars PROVE Catalogued'
  OBVIOUS
<1>1. CASE CatalogueNext
  <2>1. Writes
    BY <1>1, EveryWrites
  <2>2. CatalogueTypeOK'
    BY <2>1, WorkspacesKept, ProjectsKept DEF Writes, OtherStep, CatalogueTypeOK
  <2> QED
    BY <2>1, <2>2, WorkspacesKept, ProjectsKept DEF Writes, OtherStep, Catalogued, IsLocal
<1>2. CASE UNCHANGED catalogueVars
  BY <1>2 DEF catalogueVars, rows, Catalogued, CatalogueTypeOK, Workspace, Project, IsLocal, Waiting
<1> QED
  BY <1>1, <1>2


LEMMA CataloguedInit == CatalogueInit => Catalogued
<1> SUFFICES ASSUME CatalogueInit PROVE Catalogued
  OBVIOUS
<1>1. /\ disk \in [Folder -> {Absent, Plain} \cup Repo] /\ away = {}
      /\ madeWorkspaces \in 0..Old
      /\ projects = [p \in 1..MaxProjects |-> Gone] /\ madeProjects = 0
      /\ calls = [c \in Call |-> Idle] /\ unreconciled = {} /\ up = FALSE
  BY DEF CatalogueInit
<1>2. PICK old \in [1..madeWorkspaces -> {p \in Path : Exists(p)}] :
        workspaces = [w \in 1..MaxWorkspaces |->
                        IF w \in 1..madeWorkspaces THEN OldRow(old[w]) ELSE Gone]
  BY DEF CatalogueInit
<1>3. \A w \in 1..madeWorkspaces :
        OldRow(old[w]) \in WorkspaceRow /\ OldRow(old[w]).path \in Path
  BY <1>2 DEF OldRow, WorkspaceRow, Environment
<1>4. madeWorkspaces \in Nat /\ madeWorkspaces <= Old /\ madeWorkspaces \in 0..MaxWorkspaces
  BY <1>1, WorkspacesAssumption
<1>5. workspaces \in [1..MaxWorkspaces -> WorkspaceRow \cup {Gone}]
  BY <1>2, <1>3
<1>6. \A w \in Workspace : w \in 1..madeWorkspaces /\ workspaces[w] = OldRow(old[w])
  BY <1>2 DEF Workspace
<1>7. Project = {}
  BY <1>1 DEF Project
<1>8. Idle \in CallRecord /\ Idle.op = "idle"
  BY WorkspacesAssumption DEF Idle, CallRecord
<1>9. CatalogueTypeOK
  <2>1. projects \in [1..MaxProjects -> ProjectRow \cup {Gone}] /\ madeProjects \in 0..MaxProjects
    BY <1>1, WorkspacesAssumption
  <2>2. calls \in [Call -> CallRecord]
    BY <1>1, <1>8
  <2>3. away \subseteq Folder /\ unreconciled \subseteq 1..MaxWorkspaces /\ up \in BOOLEAN
    BY <1>1
  <2> QED
    BY <1>1, <1>4, <1>5, <2>1, <2>2, <2>3 DEF CatalogueTypeOK
<1> QED
  BY <1>1, <1>3, <1>4, <1>6, <1>7, <1>8, <1>9 DEF Catalogued, Waiting

LEMMA CataloguedHolds == CatalogueSpec => []Catalogued
BY CataloguedInit, CataloguedStep, PTL DEF CatalogueSpec

\* Every variable of the catalogue keeps its type: the rows that
\* workspace-service.ts and project-service.ts write, and what the handlers that
\* wait for git remember of them.
THEOREM CatalogueTypeCorrect == CatalogueSpec => []CatalogueTypeOK
<1>1. Catalogued => CatalogueTypeOK
  BY DEF Catalogued
<1> QED
  BY <1>1, CataloguedHolds, PTL

-----------------------------------------------------------------------------
(* One folder, one workspace, one project.  The identity a row records is the *)
(* real path of its folder, or none, which only rows of an earlier version    *)
(* have and only until the start has looked at them.  It stays so while       *)
(* folders on a drive that can be taken away are spelled in one way           *)
(* (OneSpelling): the start gives a folder out of reach the spelling of its   *)
(* path for an identity.                                                      *)

OneSpelling == \A p \in Path : RealPath[p] \in Removable => RealPath[p] = p

Identified(w) ==
  workspaces[w].env = "local" =>
     /\ disk[RealPath[workspaces[w].path]] # Absent
     /\ \/ workspaces[w].key = RealPath[workspaces[w].path]
        \/ w \in 1..Old /\ workspaces[w].key = NoPath /\ (up => w \in unreconciled)

OneFolder ==
  \A v, w \in Workspace :
     v # w /\ IsLocal(v) /\ IsLocal(w) /\ RealPath[workspaces[v].path] = RealPath[workspaces[w].path]
     => {v, w} \subseteq 1..Old

FoldersIdentified == OneFolder /\ \A w \in Workspace : Identified(w)

LEMMA KeyOfFolder ==
  ASSUME OneSpelling, Catalogued, NEW path \in Path, disk[RealPath[path]] # Absent
  PROVE  Key(path) = RealPath[path]
BY DEF OneSpelling, Catalogued, Key, Exists

LEMMA IdentifiedKept ==
  ASSUME OneSpelling, Catalogued, OtherStep, NEW w \in Workspace, w \in Workspace', Identified(w),
         workspaces'[w] = workspaces[w] \/ Reconcile(w)
  PROVE  Identified(w)'
<1>1. w \in 1..MaxWorkspaces /\ (workspaces[w].env = "local" => workspaces[w].path \in Path)
  BY DEF Catalogued, IsLocal, Workspace
<1>2. ASSUME NEW path \in Path, disk[RealPath[path]] # Absent PROVE disk'[RealPath[path]] # Absent
  BY <1>2 DEF OtherStep, Folder
<1>3. CASE Reconcile(w)
  <2>1. /\ workspaces' = [workspaces EXCEPT ![w] = Looked(w)]
        /\ Looked(w).env = workspaces[w].env /\ Looked(w).path = workspaces[w].path
        /\ IsLocal(w) => Looked(w).key = Key(workspaces[w].path)
    BY <1>1, <1>3, ReconciledRow
  <2>2. workspaces'[w] = Looked(w)
    BY <1>1, <2>1 DEF Catalogued, CatalogueTypeOK
  <2>3. SUFFICES ASSUME workspaces[w].env = "local"
                 PROVE  /\ disk'[RealPath[workspaces[w].path]] # Absent
                        /\ Looked(w).key = RealPath[workspaces[w].path]
    BY <2>1, <2>2 DEF Identified
  <2>4. workspaces[w].path \in Path /\ disk[RealPath[workspaces[w].path]] # Absent
    BY <1>1, <2>3 DEF Identified
  <2> QED
    BY <1>2, <2>1, <2>3, <2>4, KeyOfFolder DEF IsLocal
<1>4. CASE workspaces'[w] = workspaces[w] /\ ~Reconcile(w)
  <2>1. up' /\ w \notin unreconciled' => up /\ w \notin unreconciled
    BY <1>4 DEF OtherStep
  <2> QED
    BY <1>1, <1>2, <1>4, <2>1 DEF Identified
<1> QED
  BY <1>3, <1>4

LEMMA FoldersStep ==
  ASSUME OneSpelling, Catalogued, FoldersIdentified, Writes
  PROVE  FoldersIdentified'
<1>1. CASE /\ Workspace' \subseteq Workspace
           /\ \A w \in Workspace' :
                 /\ workspaces'[w].env = workspaces[w].env
                 /\ workspaces'[w].path = workspaces[w].path
                 /\ workspaces'[w] = workspaces[w] \/ Reconcile(w)
  <2>1. OneFolder'
    BY <1>1 DEF FoldersIdentified, OneFolder, IsLocal
  <2>2. \A w \in Workspace' : Identified(w)'
    BY <1>1, IdentifiedKept DEF FoldersIdentified, Writes
  <2> QED
    BY <2>1, <2>2 DEF FoldersIdentified
<1>2. CASE \E n \in 1..MaxWorkspaces, row \in WorkspaceRow :
             /\ n \notin Workspace /\ Workspace' = Workspace \cup {n}
             /\ NewFolder(row) /\ workspaces'[n] = row
             /\ \A w \in Workspace : workspaces'[w] = workspaces[w]
  <2>1. PICK n \in 1..MaxWorkspaces, row \in WorkspaceRow :
             /\ n \notin Workspace /\ Workspace' = Workspace \cup {n}
             /\ NewFolder(row) /\ workspaces'[n] = row
             /\ \A w \in Workspace : workspaces'[w] = workspaces[w]
    BY <1>2
  <2>2. ASSUME row.env = "local"
        PROVE  /\ up /\ unreconciled = {} /\ row.path \in Path
               /\ disk[RealPath[row.path]] # Absent
               /\ row.key = RealPath[row.path]
               /\ \A w \in Workspace : workspaces[w].key # row.key
    BY <2>1, <2>2, ByKeyIs DEF NewFolder, Exists, Key
  <2>3. Identified(n)'
    BY <2>1, <2>2 DEF Identified, Writes, OtherStep, Folder
  <2>4. \A w \in Workspace' : Identified(w)'
    BY <2>1, <2>3, IdentifiedKept DEF FoldersIdentified, Writes
  <2>5. ASSUME NEW w \in Workspace, workspaces[w].env = "local", row.env = "local"
        PROVE  RealPath[workspaces[w].path] # RealPath[row.path]
    <3>1. workspaces[w].key = RealPath[workspaces[w].path]
      BY <2>2, <2>5 DEF FoldersIdentified, Identified
    <3> QED
      BY <2>2, <2>5, <3>1
  <2>6. OneFolder'
    BY <2>1, <2>5 DEF FoldersIdentified, OneFolder, IsLocal
  <2> QED
    BY <2>4, <2>6 DEF FoldersIdentified
<1> QED
  BY <1>1, <1>2, WorkspacesKept DEF Writes

LEMMA FoldersInit == CatalogueInit => FoldersIdentified /\ OneProject
<1> SUFFICES ASSUME CatalogueInit PROVE FoldersIdentified /\ OneProject
  OBVIOUS
<1>1. madeWorkspaces \in 0..Old /\ projects = [p \in 1..MaxProjects |-> Gone] /\ up = FALSE
  BY DEF CatalogueInit
<1>2. PICK old \in [1..madeWorkspaces -> {p \in Path : Exists(p)}] :
        workspaces = [w \in 1..MaxWorkspaces |->
                        IF w \in 1..madeWorkspaces THEN OldRow(old[w]) ELSE Gone]
  BY DEF CatalogueInit
<1>3. \A w \in Workspace : w \in 1..madeWorkspaces /\ workspaces[w] = OldRow(old[w])
  BY <1>2 DEF Workspace
<1>4. ASSUME NEW w \in Workspace PROVE w \in 1..Old /\ Identified(w)
  <2>1. w \in 1..madeWorkspaces /\ workspaces[w] = OldRow(old[w])
    BY <1>3
  <2>2. w \in 1..Old
    BY <1>1, <2>1, WorkspacesAssumption
  <2>3. disk[RealPath[old[w]]] # Absent
    BY <1>2, <2>1 DEF Exists
  <2> QED
    BY <1>1, <2>1, <2>2, <2>3 DEF Identified, OldRow
<1>5. Project = {}
  BY <1>1 DEF Project
<1> QED
  BY <1>4, <1>5 DEF FoldersIdentified, OneFolder, OneProject

\* One folder, one workspace, one project (workspace-service.ts:274): for any
\* folders, repositories, handlers that wait, restarts and drives, two local
\* workspaces name one folder only when an earlier version had made both, and no
\* two projects claim one repository, when what is on a drive that can be taken
\* away is spelled in one way.
THEOREM OneFolderOneProjectCorrect ==
  ASSUME OneSpelling
  PROVE  CatalogueSpec => []OneFolderOneProject
<1> DEFINE IInv == Catalogued /\ FoldersIdentified /\ OneProject
<1>1. CatalogueInit => IInv
  BY CataloguedInit, FoldersInit
<1>2. IInv /\ [CatalogueNext]_catalogueVars => IInv'
  <2> SUFFICES ASSUME IInv, [CatalogueNext]_catalogueVars PROVE FoldersIdentified' /\ OneProject'
    BY CataloguedStep
  <2>1. CASE CatalogueNext
    <3>1. Writes
      BY <2>1, EveryWrites
    <3>2. FoldersIdentified'
      BY <3>1, FoldersStep
    <3> QED
      BY <3>1, <3>2, ProjectsKept DEF Writes
  <2>2. CASE UNCHANGED catalogueVars
    BY <2>2 DEF catalogueVars, rows, FoldersIdentified, OneFolder, Identified, IsLocal, OneProject,
                Workspace, Project
  <2> QED
    BY <2>1, <2>2
<1>3. IInv => OneFolderOneProject
  BY DEF FoldersIdentified, OneFolder, OneProject, OneFolderOneProject
<1> QED
  BY <1>1, <1>2, <1>3, PTL DEF CatalogueSpec

-----------------------------------------------------------------------------
(* Who owns a workspace, before and after a step *)

LEMMA OwnersUnchanged ==
  ASSUME UNCHANGED projects, NEW w
  PROVE  Owners(w)' = Owners(w)
BY DEF Owners, Project

LEMMA OwnersAdded ==
  ASSUME Catalogued, NEW new \in ProjectRow, AddProject(new), NEW w
  PROVE  /\ new.ws = w => Owners(w)' # {}
         /\ new.ws # w => Owners(w)' \subseteq Owners(w)
<1>1. PICK n : n = madeProjects + 1
  OBVIOUS
<1>2. /\ Project' = Project \cup {n} /\ projects'[n] = new
      /\ \A p \in Project : projects'[p] = projects[p]
  BY <1>1, AddedProject
<1> QED
  BY <1>2 DEF Owners

LEMMA OwnersChanged ==
  ASSUME Catalogued, NEW p \in Project, NEW new \in ProjectRow, Changed(p, new), NEW w
  PROVE  /\ new.ws = w => p \in Owners(w)'
         /\ Owners(w)' \subseteq Owners(w) \cup {p}
         /\ new.ws # w => Owners(w)' \subseteq Owners(w)
<1>1. /\ projects \in [1..MaxProjects -> ProjectRow \cup {Gone}]
      /\ p \in 1..MaxProjects /\ new # Gone
  BY GoneIsNoRow DEF Catalogued, CatalogueTypeOK, Project
<1>2. /\ projects'[p] = new
      /\ \A q \in 1..MaxProjects : q # p => projects'[q] = projects[q]
  BY <1>1 DEF Changed
<1>3. Project' = Project
  BY <1>1, <1>2 DEF Project
<1>4. \A q \in Project : q \in 1..MaxProjects
  BY DEF Project
<1> QED
  BY <1>1, <1>2, <1>3, <1>4 DEF Owners

LEMMA OwnersPointed ==
  ASSUME Catalogued, NEW p \in Project, NEW v \in 0..MaxWorkspaces, SetWorkspaceOf(p, v),
         UNCHANGED madeProjects, NEW w
  PROVE  /\ v = w => p \in Owners(w)'
         /\ Owners(w)' \subseteq Owners(w) \cup {p}
         /\ v # w => Owners(w)' \subseteq Owners(w)
BY Pointed, OwnersChanged

\* No workspace that has a project gets another, and one that appears has a
\* project, unless the project it was made for is gone.
Late ==
  \E c \in Call : /\ calls[c].op \in {"cloned", "checking"} /\ calls'[c] = Idle
                  /\ calls[c].project \notin Project

Tidy ==
  /\ \A w \in Workspace : Owners(w) # {} => Owners(w)' \subseteq Owners(w)
  /\ \A w \in Workspace' \ Workspace : Owners(w)' # {} \/ Late

LEMMA OwnersEnsured ==
  ASSUME Catalogued, NEW w \in 1..MaxWorkspaces, NEW row, row.repo \in Repo \cup {NoRepo},
         EnsureProject(w, row)
  PROVE  /\ Owners(w)' # {}
         /\ \A v : Owners(v) # {} => Owners(v)' \subseteq Owners(v)
<1>1. CASE Owners(w) = {} /\ \E new \in ProjectRow : new.ws = w /\ AddedTo(new)
  BY <1>1, OwnersAdded DEF AddedTo
<1>2. CASE Owners(w) # {} /\ UNCHANGED <<projects, madeProjects>>
  BY <1>2, OwnersUnchanged
<1>3. CASE \E p \in Owners(w), new \in ProjectRow : new.ws = w /\ Changed(p, new)
  <2>1. PICK p \in Owners(w), new \in ProjectRow : new.ws = w /\ Changed(p, new)
    BY <1>3
  <2>2. p \in Project
    BY <2>1 DEF Owners
  <2>3. p \in Owners(w)'
    BY <2>1, <2>2, OwnersChanged
  <2>4. ASSUME NEW v, Owners(v) # {} PROVE Owners(v)' \subseteq Owners(v)
    <3>1. CASE v = w
      BY <2>1, <2>2, <3>1, OwnersChanged
    <3>2. CASE v # w
      BY <2>1, <2>2, <3>2, OwnersChanged
    <3> QED
      BY <3>1, <3>2
  <2> QED
    BY <2>3, <2>4
<1> QED
  BY <1>1, <1>2, <1>3, EnsuredProject

\* A workspace made with its project.
LEMMA MadeTidy ==
  ASSUME Catalogued, NEW row \in WorkspaceRow, AddWorkspace(row),
         EnsureProject(madeWorkspaces + 1, row)
  PROVE  Tidy
<1>1. PICK n : n = madeWorkspaces + 1
  OBVIOUS
<1>2. n \in 1..MaxWorkspaces /\ Workspace' = Workspace \cup {n}
  BY <1>1, AddedWorkspace
<1>3. row.repo \in Repo \cup {NoRepo}
  BY DEF WorkspaceRow
<1>4. Owners(n)' # {} /\ \A v : Owners(v) # {} => Owners(v)' \subseteq Owners(v)
  BY <1>1, <1>2, <1>3, OwnersEnsured
<1> QED
  BY <1>2, <1>4 DEF Tidy

\* A workspace made for a project that is there.
LEMMA MadeForTidy ==
  ASSUME Catalogued, NEW row \in WorkspaceRow, AddWorkspace(row), NEW p \in Project,
         SetWorkspaceOf(p, madeWorkspaces + 1), UNCHANGED madeProjects
  PROVE  Tidy
<1>1. PICK n : n = madeWorkspaces + 1
  OBVIOUS
<1>2. n \in 1..MaxWorkspaces /\ Workspace' = Workspace \cup {n} /\ n \notin Workspace
  BY <1>1, AddedWorkspace
<1>3. n \in 0..MaxWorkspaces
  BY <1>2
<1>4. p \in Owners(n)'
  BY <1>1, <1>3, OwnersPointed
<1>5. \A w \in Workspace : Owners(w)' \subseteq Owners(w)
  BY <1>1, <1>2, <1>3, OwnersPointed
<1> QED
  BY <1>2, <1>4, <1>5 DEF Tidy

\* The rest of prepare, called for project p: c is the handler that waited, if any.
LEMMA BindTidy ==
  ASSUME Catalogued, Handler, NEW p, NEW path \in Path, NEW repo \in Repo \cup {NoRepo},
         Exists(path), Bind(p, path, repo), p \in Project \/ Late
  PROVE  Tidy
<1> DEFINE known == ByKey(Key(path))
           points(w) == IF p \in Project THEN SetWorkspaceOf(p, w) ELSE UNCHANGED projects
<1>1. UNCHANGED madeProjects
  BY DEF Bind
<1>2. CASE UNCHANGED <<workspaces, madeWorkspaces, projects>>
  <2>1. Workspace' = Workspace
    BY <1>2 DEF Workspace
  <2> QED
    BY <1>2, <2>1, OwnersUnchanged DEF Tidy
<1>3. CASE /\ known # 0 /\ \A q \in Project \ {p} : projects[q].ws # known
           /\ points(known) /\ UNCHANGED <<workspaces, madeWorkspaces>>
  <2>1. Workspace' = Workspace
    BY <1>3 DEF Workspace
  <2>2. CASE p \in Project
    <3>1. known \in 0..MaxWorkspaces
      BY <1>3, ByKeyIs, WorkspacesAssumption DEF Workspace
    <3>2. SetWorkspaceOf(p, known)
      BY <1>3, <2>2
    <3>3. Owners(known) \subseteq {p}
      BY <1>3 DEF Owners
    <3> HIDE DEF known
    <3>4. ASSUME NEW w \in Workspace, Owners(w) # {} PROVE Owners(w)' \subseteq Owners(w)
      <4>1. CASE w = known
        <5>1. Owners(w) = {p}
          BY <3>3, <3>4, <4>1
        <5> QED
          BY <1>1, <2>2, <3>1, <3>2, <5>1, OwnersPointed
      <4>2. CASE w # known
        BY <1>1, <2>2, <3>1, <3>2, <4>2, OwnersPointed
      <4> QED
        BY <4>1, <4>2
    <3> QED
      BY <2>1, <3>4 DEF Tidy
  <2>3. CASE p \notin Project
    BY <1>3, <2>1, <2>3, OwnersUnchanged DEF Tidy
  <2> QED
    BY <2>2, <2>3
<1>4. CASE known = 0 /\ AddWorkspace(LocalRow(path, repo)) /\ points(madeWorkspaces + 1)
  <2>1. LocalRow(path, repo) \in WorkspaceRow
    BY <1>4, LocalRowIs
  <2>2. CASE p \in Project
    BY <1>1, <1>4, <2>1, <2>2, MadeForTidy
  <2>3. CASE p \notin Project
    BY <1>4, <2>3, OwnersUnchanged DEF Tidy
  <2> QED
    BY <2>2, <2>3
<1> QED
  BY <1>2, <1>3, <1>4 DEF Bind

\* Steps that leave the workspaces alone, or remove or look at one.
LEMMA NoneNewTidy ==
  ASSUME Workspace' \subseteq Workspace,
         \A w \in Workspace : Owners(w) # {} => Owners(w)' \subseteq Owners(w)
  PROVE  Tidy
BY DEF Tidy

LEMMA QuietTidy ==
  ASSUME UNCHANGED rows
  PROVE  Tidy
<1>1. Workspace' = Workspace /\ projects' = projects
  BY DEF rows, Workspace
<1> QED
  BY <1>1, OwnersUnchanged, NoneNewTidy

LEMMA OpenFolderTidy ==
  ASSUME Catalogued, NEW path \in Path, OpenFolder(path)
  PROVE  Tidy
<1> DEFINE known == ByKey(Key(path))
<1>1. Handler /\ Exists(path)
  BY DEF OpenFolder
<1>2. ASSUME NEW w \in 1..MaxWorkspaces
      PROVE  FolderProject(w) \in ProjectRow /\ FolderProject(w).ws = w
  BY DEF FolderProject, ProjectRow
<1>3. CASE known # 0
  <2>1. /\ ByWorkspace(known) = 0 /\ AddProject(FolderProject(known))
        /\ UNCHANGED <<workspaces, madeWorkspaces>>
    BY <1>3 DEF OpenFolder
  <2>2. known \in 1..MaxWorkspaces /\ Workspace' = Workspace
    BY <1>3, <2>1, ByKeyIs DEF Workspace
  <2> HIDE DEF known
  <2>3. Owners(known) = {}
    BY <2>1, ByWorkspaceIs
  <2>4. ASSUME NEW w \in Workspace, Owners(w) # {} PROVE Owners(w)' \subseteq Owners(w)
    BY <1>2, <2>1, <2>2, <2>3, <2>4, OwnersAdded
  <2> QED
    BY <2>2, <2>4 DEF Tidy
<1>4. CASE known = 0
  <2>1. AddWorkspace(LocalRow(path, NoRepo)) /\ AddProject(FolderProject(madeWorkspaces + 1))
    BY <1>4 DEF OpenFolder
  <2>2. LocalRow(path, NoRepo) \in WorkspaceRow
    BY <1>1, <1>4, LocalRowIs
  <2>3. PICK n : n = madeWorkspaces + 1
    OBVIOUS
  <2>4. n \in 1..MaxWorkspaces /\ n \notin Workspace /\ Workspace' = Workspace \cup {n}
    BY <2>1, <2>2, <2>3, AddedWorkspace
  <2>5. /\ Owners(n)' # {}
        /\ \A w : w # n => Owners(w)' \subseteq Owners(w)
    BY <1>2, <2>1, <2>3, <2>4, OwnersAdded
  <2> QED
    BY <2>4, <2>5 DEF Tidy
<1> QED
  BY <1>3, <1>4

LEMMA CreatedTidy ==
  ASSUME Catalogued,
         \/ \E path \in Path, repo \in Repo \cup {NoRepo} : CreateWorkspace(path, repo)
         \/ CreateConversation
         \/ \E env \in Remote, repo \in Repo : CreateRemote(env, repo)
         \/ \E p \in 1..MaxProjects : OpenProject(p)
  PROVE  Tidy
<1>1. ASSUME NEW path \in Path, NEW repo \in Repo \cup {NoRepo}, CreateWorkspace(path, repo)
      PROVE  Tidy
  <2>1. LocalRow(path, repo) \in WorkspaceRow
    BY <1>1, LocalRowIs DEF CreateWorkspace
  <2> QED
    BY <1>1, <2>1, MadeTidy DEF CreateWorkspace
<1>2. CASE CreateConversation
  <2>1. RemoteRow("conversation", NoRepo) \in WorkspaceRow
    BY RemoteRowIs
  <2> QED
    BY <1>2, <2>1, MadeTidy DEF CreateConversation
<1>3. ASSUME NEW env \in Remote, NEW repo \in Repo, CreateRemote(env, repo)
      PROVE  Tidy
  <2> DEFINE S == {w \in Workspace : workspaces[w].env = env /\ workspaces[w].repo = repo}
             row == RemoteRow(env, repo)
  <2>1. row \in WorkspaceRow /\ S \in SUBSET (1..MaxWorkspaces)
    BY RemoteRowIs DEF Workspace
  <2>2. CASE AddWorkspace(row) /\ EnsureProject(madeWorkspaces + 1, row)
    BY <2>1, <2>2, MadeTidy
  <2>3. CASE /\ Oldest(S) # 0 /\ EnsureProject(Oldest(S), workspaces[Oldest(S)])
             /\ UNCHANGED <<workspaces, madeWorkspaces>>
    <3> HIDE DEF S
    <3>1. Oldest(S) \in S
      BY <2>1, <2>3, OldestIs, WorkspacesAssumption
    <3>2. Oldest(S) \in Workspace
      BY <3>1 DEF S
    <3>3. /\ Oldest(S) \in 1..MaxWorkspaces
          /\ workspaces[Oldest(S)].repo \in Repo \cup {NoRepo}
      BY <3>2, RowTypes DEF Catalogued, WorkspaceRow
    <3>4. Workspace' = Workspace
      BY <2>3 DEF Workspace
    <3> QED
      BY <2>3, <3>3, <3>4, OwnersEnsured, NoneNewTidy
  <2> QED
    BY <1>3, <2>2, <2>3 DEF CreateRemote
<1>4. ASSUME NEW p \in 1..MaxProjects, OpenProject(p) PROVE Tidy
  <2>1. p \in Project
    BY <1>4 DEF OpenProject
  <2>2. projects[p].repo \in Repo \cup {NoRepo}
    BY <2>1, RowTypes DEF Catalogued, ProjectRow
  <2>3. RemoteRow("conversation", projects[p].repo) \in WorkspaceRow
    BY <2>2, RemoteRowIs
  <2> QED
    BY <1>4, <2>1, <2>3, MadeForTidy DEF OpenProject
<1> QED
  BY <1>1, <1>2, <1>3, <1>4

LEMMA RemovedTidy ==
  ASSUME Catalogued,
         \/ \E w \in 1..MaxWorkspaces : RemoveWorkspace(w)
         \/ \E p \in 1..MaxProjects : RemoveProject(p)
  PROVE  Tidy
<1>1. ASSUME NEW w \in 1..MaxWorkspaces, RemoveWorkspace(w) PROVE Tidy
  <2>1. /\ w \in Workspace /\ workspaces' = [workspaces EXCEPT ![w] = Gone]
        /\ Unpointed(w)
    BY <1>1 DEF RemoveWorkspace, Unpointed
  <2>2. Workspace' \subseteq Workspace
    BY <2>1 DEF Workspace, Catalogued, CatalogueTypeOK
  <2>3. ASSUME NEW v \in Workspace, NEW p \in Owners(v)' PROVE p \in Owners(v)
    <3>1. /\ p \in 1..MaxProjects /\ projects'[p] # Gone /\ projects'[p].ws = v
          /\ projects \in [1..MaxProjects -> ProjectRow \cup {Gone}] /\ v # 0
      BY <2>3 DEF Owners, Project, Catalogued, CatalogueTypeOK, Workspace
    <3>2. CASE p \in Project /\ projects[p].ws = w
      <4>1. projects'[p] = [projects[p] EXCEPT !.ws = 0] /\ projects[p] \in ProjectRow
        BY <2>1, <3>1, <3>2, RowTypes DEF Unpointed, Catalogued
      <4>2. projects'[p].ws = 0
        BY <4>1 DEF ProjectRow
      <4> QED
        BY <3>1, <4>2
    <3>3. CASE ~(p \in Project /\ projects[p].ws = w)
      <4>1. projects'[p] = projects[p]
        BY <2>1, <3>1, <3>3 DEF Unpointed
      <4> QED
        BY <3>1, <4>1 DEF Owners, Project
    <3> QED
      BY <3>2, <3>3
  <2> QED
    BY <2>2, <2>3, NoneNewTidy
<1>2. ASSUME NEW p \in 1..MaxProjects, RemoveProject(p) PROVE Tidy
  <2>1. projects' = [projects EXCEPT ![p] = Gone] /\ UNCHANGED workspaces
    BY <1>2 DEF RemoveProject
  <2>2. \A w : Owners(w)' \subseteq Owners(w)
    BY <2>1 DEF Owners, Project, Catalogued, CatalogueTypeOK
  <2>3. Workspace' = Workspace
    BY <2>1 DEF Workspace
  <2> QED
    BY <2>2, <2>3, NoneNewTidy
<1> QED
  BY <1>1, <1>2

LEMMA RepositoryTidy ==
  ASSUME Catalogued,
         \/ \E p \in 1..MaxProjects, repo \in Repo \cup {NoRepo} : SetRepository(p, repo)
         \/ \E repo \in Repo : OpenRepository(repo)
  PROVE  Tidy
<1>1. UNCHANGED workspaces /\ Workspace' = Workspace
  BY DEF SetRepository, OpenRepository, Workspace
<1>2. ASSUME NEW p \in 1..MaxProjects, NEW repo \in Repo \cup {NoRepo}, SetRepository(p, repo)
      PROVE  \A w : Owners(w)' = Owners(w)
  <2>1. p \in Project /\ projects[p] \in ProjectRow
    BY <1>2, RowTypes DEF Catalogued, SetRepository
  <2>2. PICK new : new = [projects[p] EXCEPT !.repo = repo]
    OBVIOUS
  <2>3. new \in ProjectRow /\ new.ws = projects[p].ws
    BY <2>1, <2>2 DEF ProjectRow
  <2>4. projects' = [projects EXCEPT ![p] = new]
    BY <1>2, <2>2 DEF SetRepository
  <2> QED
    BY <2>1, <2>3, <2>4, GoneIsNoRow DEF Owners, Project, Catalogued, CatalogueTypeOK
<1>3. ASSUME NEW repo \in Repo, OpenRepository(repo)
      PROVE  \A w \in Workspace : Owners(w)' \subseteq Owners(w)
  <2>1. PICK new : new = [ws |-> 0, repo |-> repo]
    OBVIOUS
  <2>2. new \in ProjectRow /\ new.ws = 0 /\ AddProject(new)
    BY <1>3, <2>1, WorkspacesAssumption DEF OpenRepository, ProjectRow
  <2>3. \A w \in Workspace : w # 0
    BY DEF Workspace
  <2> QED
    BY <2>2, <2>3, OwnersAdded
<1> QED
  BY <1>1, <1>2, <1>3, NoneNewTidy

LEMMA GitTidy ==
  ASSUME Catalogued,
         \/ \E p \in 1..MaxProjects, path \in Path : Associate(p, path)
         \/ \E c \in Call : EndAssociate(c) \/ EndClone(c)
  PROVE  Tidy
<1>1. ASSUME NEW p \in 1..MaxProjects, NEW path \in Path, Associate(p, path) PROVE Tidy
  BY <1>1, BindTidy DEF Associate
<1>2. ASSUME NEW c \in Call, calls[c].op \in {"cloned", "checking"}, End(c)
      PROVE  calls[c].project \in Project \/ Late
  BY <1>2, CallsEnd DEF Late
<1>3. ASSUME NEW c \in Call, EndAssociate(c) PROVE Tidy
  <2>1. Handler /\ calls[c].op = "checking" /\ End(c)
    BY <1>3 DEF EndAssociate
  <2>2. CASE UNCHANGED rows
    BY <2>2, QuietTidy
  <2>3. CASE /\ ~Blocks(calls[c].path, calls[c].repo)
             /\ Bind(calls[c].project, calls[c].path, calls[c].repo)
    <3>1. calls[c].path \in Path /\ calls[c].repo \in Repo /\ Exists(calls[c].path)
      BY <2>1, <2>3 DEF Catalogued, Waiting, Blocks
    <3> QED
      BY <1>2, <2>1, <2>3, <3>1, BindTidy
  <2> QED
    BY <1>3, <2>2, <2>3 DEF EndAssociate
<1>4. ASSUME NEW c \in Call, EndClone(c) PROVE Tidy
  <2> DEFINE p == calls[c].project
             row == LocalRow(calls[c].path, calls[c].repo)
  <2>1. Handler /\ calls[c].op = "cloned" /\ End(c)
    BY <1>4 DEF EndClone
  <2>2. calls[c].path \in Path /\ calls[c].repo \in Repo /\ row.key = Key(calls[c].path)
    BY <2>1 DEF Catalogued, Waiting, LocalRow
  <2>3. p \in Project \/ Late
    BY <1>2, <2>1
  <2>4. CASE UNCHANGED rows
    BY <2>4, QuietTidy
  <2>5. CASE /\ Exists(calls[c].path) /\ ByKey(row.key) = 0 /\ AddWorkspace(row)
             /\ \/ p = 0 /\ EnsureProject(madeWorkspaces + 1, row)
                \/ /\ p \in Project /\ SetWorkspaceOf(p, madeWorkspaces + 1)
                   /\ UNCHANGED madeProjects
                \/ /\ p # 0 /\ p \notin Project
                   /\ UNCHANGED <<projects, madeProjects>>
    <3>1. row \in WorkspaceRow
      BY <2>1, <2>2, <2>5, LocalRowIs
    <3> HIDE DEF row, p
    <3>2. CASE EnsureProject(madeWorkspaces + 1, row)
      BY <2>5, <3>1, <3>2, MadeTidy
    <3>3. CASE p \in Project /\ SetWorkspaceOf(p, madeWorkspaces + 1) /\ UNCHANGED madeProjects
      BY <2>5, <3>1, <3>3, MadeForTidy
    <3>4. CASE p \notin Project /\ UNCHANGED <<projects, madeProjects>>
      BY <2>3, <3>4, OwnersUnchanged DEF Tidy
    <3> QED
      BY <2>5, <3>2, <3>3, <3>4
  <2> QED
    BY <1>4, <2>4, <2>5 DEF EndClone
<1> QED
  BY <1>1, <1>3, <1>4

LEMMA OtherTidy ==
  ASSUME Catalogued,
         \/ \E c \in Call, p \in 0..MaxProjects, path \in Path, repo \in Repo : BeginClone(c, p, path, repo)
         \/ \E c \in Call : GitClones(c)
         \/ \E c \in Call, p \in 1..MaxProjects, path \in Path : BeginAssociate(c, p, path)
         \/ \E w \in 1..MaxWorkspaces : Reconcile(w)
         \/ \E f \in Folder : Unplug(f) \/ Plug(f)
         \/ StopApplication \/ StartApplication
  PROVE  Tidy
<1>1. ASSUME NEW w \in 1..MaxWorkspaces, Reconcile(w) PROVE Tidy
  <2>1. /\ w \in Workspace /\ workspaces' = [workspaces EXCEPT ![w] = Looked(w)]
        /\ EnsureProject(w, Looked(w)) /\ Looked(w) \in WorkspaceRow
    BY <1>1, ReconciledRow
  <2>2. Looked(w).repo \in Repo \cup {NoRepo} /\ Looked(w) # Gone
    BY <2>1, GoneIsNoRow DEF WorkspaceRow
  <2>3. Workspace' = Workspace
    BY <2>1, <2>2 DEF Workspace, Catalogued, CatalogueTypeOK
  <2> QED
    BY <2>1, <2>2, <2>3, OwnersEnsured, NoneNewTidy
<1>2. CASE \/ \E c \in Call, p \in 0..MaxProjects, path \in Path, repo \in Repo : BeginClone(c, p, path, repo)
           \/ \E c \in Call : GitClones(c)
           \/ \E c \in Call, p \in 1..MaxProjects, path \in Path : BeginAssociate(c, p, path)
  BY <1>2, QuietTidy DEF BeginClone, GitClones, BeginAssociate
<1>3. CASE \/ \E f \in Folder : Unplug(f) \/ Plug(f)
           \/ StopApplication \/ StartApplication
  BY <1>3, QuietTidy DEF Unplug, Plug, StopApplication, StartApplication
<1> QED
  BY <1>1, <1>2, <1>3

\* Every step is tidy but the two where the person names the workspace.
Named(w) ==
  \/ \E p \in Project : SetWorkspace(p, w)
  \/ \E repo \in Repo \cup {NoRepo} : CreateProject(w, repo)

LEMMA EveryTidy ==
  ASSUME Catalogued, CatalogueNext
  PROVE  \/ Tidy
         \/ /\ Workspace' = Workspace
            /\ \A w \in Workspace : Named(w) \/ Owners(w)' \subseteq Owners(w)
<1>1. ASSUME NEW p \in 1..MaxProjects, NEW v \in 0..MaxWorkspaces, SetWorkspace(p, v)
      PROVE  /\ Workspace' = Workspace
             /\ \A w \in Workspace : Named(w) \/ Owners(w)' \subseteq Owners(w)
  <2>1. /\ p \in Project /\ SetWorkspaceOf(p, v) /\ UNCHANGED <<workspaces, madeProjects>>
    BY <1>1 DEF SetWorkspace
  <2>2. Workspace' = Workspace
    BY <2>1 DEF Workspace
  <2>3. \A w \in Workspace : w = v \/ Owners(w)' \subseteq Owners(w)
    BY <2>1, OwnersPointed
  <2>4. Named(v)
    BY <1>1, <2>1 DEF Named
  <2> QED
    BY <2>2, <2>3, <2>4
<1>2. ASSUME NEW v \in 0..MaxWorkspaces, NEW repo \in Repo \cup {NoRepo}, CreateProject(v, repo)
      PROVE  /\ Workspace' = Workspace
             /\ \A w \in Workspace : Named(w) \/ Owners(w)' \subseteq Owners(w)
  <2>1. PICK new : new = [ws |-> v, repo |-> repo]
    OBVIOUS
  <2>2. new \in ProjectRow /\ new.ws = v /\ AddProject(new) /\ UNCHANGED workspaces
    BY <1>2, <2>1 DEF CreateProject, ProjectRow
  <2>3. Workspace' = Workspace
    BY <2>2 DEF Workspace
  <2>4. \A w \in Workspace : w = v \/ Owners(w)' \subseteq Owners(w)
    BY <2>2, OwnersAdded
  <2>5. Named(v)
    BY <1>2 DEF Named
  <2> QED
    BY <2>3, <2>4, <2>5
<1> QED
  BY <1>1, <1>2, OpenFolderTidy, CreatedTidy, RemovedTidy, RepositoryTidy, GitTidy, OtherTidy
     DEF CatalogueNext

\* A workspace that has a project gets a second one only where the person names
\* the workspace (workspace-service.ts:611-616), for any number of handlers that
\* wait for git while folders are opened, bound and cloned.
THEOREM FolderIsNotTakenCorrect == CatalogueSpec => FolderIsNotTaken
<1>1. Catalogued /\ [CatalogueNext]_catalogueVars =>
        [\A w \in Workspace :
            Owners(w) # {} /\ ~(Owners(w)' \subseteq Owners(w))
            => \/ \E p \in Project : SetWorkspace(p, w)
               \/ \E repo \in Repo \cup {NoRepo} : CreateProject(w, repo)]_catalogueVars
  BY EveryTidy DEF Tidy, Named
<1> QED
  BY <1>1, CataloguedHolds, PTL DEF CatalogueSpec, FolderIsNotTaken

\* A workspace is in nobody's sidebar only because its last project was removed
\* or pointed elsewhere, or was removed while a folder was being prepared for it
\* (ipc-router.ts:52-64): no order of handlers, restarts and answers of git makes
\* a workspace without a project otherwise.
THEOREM NothingVanishesCorrect == CatalogueSpec => NothingVanishes
<1>1. ASSUME Catalogued, CatalogueNext, NEW w \in Unseen' \ Unseen
      PROVE  \/ \E p \in Owners(w) : p \notin Project' \/ projects'[p].ws # w
             \/ \E c \in Call : /\ calls[c].op \in {"cloned", "checking"} /\ calls'[c] = Idle
                                /\ calls[c].project \notin Project
  <2>1. w \in Workspace' /\ Owners(w)' = {} /\ (w \notin Workspace \/ Owners(w) # {})
    BY <1>1 DEF Unseen
  <2>2. CASE Owners(w) # {}
    <3>1. PICK p \in Owners(w) : TRUE
      BY <2>2
    <3>2. p \notin Owners(w)'
      BY <2>1
    <3> QED
      BY <3>1, <3>2 DEF Owners
  <2>3. CASE w \notin Workspace
    <3>1. Tidy
      BY <1>1, <2>1, <2>3, EveryTidy
    <3> QED
      BY <2>1, <2>3, <3>1 DEF Tidy, Late
  <2> QED
    BY <2>1, <2>2, <2>3
<1>2. Catalogued /\ [CatalogueNext]_catalogueVars =>
        [\A w \in Unseen' \ Unseen :
            \/ \E p \in Owners(w) : p \notin Project' \/ projects'[p].ws # w
            \/ \E c \in Call : /\ calls[c].op \in {"cloned", "checking"} /\ calls'[c] = Idle
                               /\ calls[c].project \notin Project]_catalogueVars
  BY <1>1
<1> QED
  BY <1>2, CataloguedHolds, PTL DEF CatalogueSpec, NothingVanishes
=============================================================================
