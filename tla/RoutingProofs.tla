---------------------------- MODULE RoutingProofs ----------------------------
(***************************************************************************)
(* Proofs about Routing, for any accounts, agents, connections and tiers   *)
(* asked, with any number of refusals, pauses and changes of the policy.   *)
(***************************************************************************)
EXTENDS Routing, TLAPS, FiniteSetTheorems, WellFoundedInduction

-----------------------------------------------------------------------------
(* Least and greatest elements                                             *)

LEMMA LeastExists ==
    ASSUME NEW S \in SUBSET Nat, S # {}
    PROVE  \E i \in S : \A j \in S : i <= j
<1>1. PICK i \in S : \A j \in S : ~ (<<j, i>> \in OpToRel(<, Nat))
  BY NatLessThanWellFounded, WFMin
<1>2. \A j \in S : ~ (j < i)
  BY <1>1 DEF OpToRel
<1> QED
  BY <1>2

LEMMA GreatestExists ==
    ASSUME NEW S \in SUBSET Effort, S # {}
    PROVE  \E e \in S : \A f \in S : f <= e
<1> DEFINE M == {7 - e : e \in S}
<1>0. \A e \in S : e \in Nat /\ e <= 7
  BY DEF Effort
<1>1. M \in SUBSET Nat
  <2>1. \A e \in S : 7 - e \in Nat
    BY <1>0
  <2> QED
    BY <2>1, Zenon
<1>2. M # {}
  OBVIOUS
<1>3. PICK m \in M : \A n \in M : m <= n
  <2> HIDE DEF M
  <2> QED
    BY <1>1, <1>2, LeastExists
<1>4. PICK e \in S : m = 7 - e
  BY <1>3
<1>5. ASSUME NEW f \in S PROVE f <= e
  <2>1. 7 - f \in M
    OBVIOUS
  <2>2. m <= 7 - f
    BY <1>3, <2>1
  <2>3. 7 - e <= 7 - f
    BY <1>4, <2>2
  <2> QED
    BY <1>0, <2>3
<1> QED
  BY <1>5

LEMMA HighestIn ==
    ASSUME NEW S \in SUBSET Effort
    PROVE  /\ S # {} => Highest(S) \in S
           /\ S = {} => Highest(S) = None
  BY GreatestExists DEF Highest

-----------------------------------------------------------------------------
(* The helpers of the router                                               *)

LEMMA AcceptedType ==
    ASSUME TypeOK
    PROVE  Accepted \in SUBSET Effort
  BY DEF TypeOK, Taking, Accepted, UNIVERSAL_EFFORTS, Effort

LEMMA LimitsType ==
    ASSUME TypeOK
    PROVE  policyFor \in Policy
  BY NoneAssumption DEF TypeOK, policyFor, Policy, AgentConfig, Tier, Lower

LEMMA KnownModel ==
    ASSUME NEW m \in Model
    PROVE  modelCapability(m) \in Tier
  BY DEF modelCapability, Model, Tier

LEMMA CeilingType ==
    ASSUME NEW tiers \in Tiers, NEW policy \in Policy
    PROVE  /\ applyCeiling(tiers, policy) \in Tiers
           /\ Within(applyCeiling(tiers, policy).reasoning, policy.maxReasoning)
<1>1. /\ tiers.capability \in 0..3 /\ tiers.reasoning \in 0..3
      /\ policy.maxCapability \in 0..3 \cup {None}
      /\ policy.maxReasoning \in 0..3 \cup {None}
  BY DEF Tiers, Policy, Tier
<1>2. /\ Cap(tiers.capability, policy.maxCapability) \in 0..3
      /\ Cap(tiers.reasoning, policy.maxReasoning) \in 0..3
      /\ Within(Cap(tiers.reasoning, policy.maxReasoning), policy.maxReasoning)
  BY <1>1, NoneAssumption DEF Cap, Within
<1> QED
  BY <1>2 DEF applyCeiling, Tiers, Tier

LEMMA PromoteType ==
    ASSUME NEW t \in Int, NEW s \in Int
    PROVE  Promote(t, s) \in 0..3
  BY DEF Promote, Higher, Lower

LEMMA WantedType ==
    ASSUME TypeOK, NEW c \in Call, NEW streak \in Nat
    PROVE  Wanted(c, streak) \in Tiers
<1> DEFINE lean == CASE selection.mode = "quality" -> 1
                     [] selection.mode = "speed" /\ ~c.sensitive /\ streak = 0 -> -1
                     [] OTHER -> 0
           floor == IF c.sensitive THEN 2 ELSE 0
           given(tier, steps) == Promote(Promote(Higher(tier, floor), steps), lean)
<1>1. lean \in Int /\ floor \in Int
  OBVIOUS
<1>2. \A t, s \in Int : given(t, s) \in 0..3
  <2>1. \A t \in Int : Higher(t, floor) \in Int
    BY <1>1 DEF Higher
  <2>2. \A t, s \in Int : Promote(Higher(t, floor), s) \in Int
    BY <2>1, PromoteType
  <2> QED
    BY <1>1, <2>2, PromoteType
<1>3. c.asked.capability \in Int /\ c.asked.reasoning \in Int
  BY DEF Call, Tiers, Tier
<1>4. Lower(Higher(streak - 1, 0), 2) \in Int /\ Lower(streak, 2) \in Int
  BY DEF Lower, Higher
<1>5. Wanted(c, streak) =
        [capability |-> given(c.asked.capability, Lower(Higher(streak - 1, 0), 2)),
         reasoning  |-> given(c.asked.reasoning, Lower(streak, 2))]
  BY DEF Wanted
<1> HIDE DEF given
<1> QED
  BY <1>2, <1>3, <1>4, <1>5 DEF Tiers, Tier

LEMMA StreakType ==
    ASSUME NEW history \in Seq(Kind)
    PROVE  noProgressStreak(history) \in Nat
<1> DEFINE S == {i \in DOMAIN history :
                    /\ history[i] = "barren"
                    /\ \A j \in i..Len(history) : history[j] # "progress"}
<1>1. IsFiniteSet(1..Len(history))
  BY FS_Interval
<1>2. S \subseteq 1..Len(history)
  OBVIOUS
<1>3. IsFiniteSet(S)
  BY <1>1, <1>2, FS_Subset
<1> QED
  BY <1>3, FS_CardinalityType DEF noProgressStreak

-----------------------------------------------------------------------------
(* What the router gives respects the limits it was given                  *)

LEMMA FixedBelow ==
    ASSUME TypeOK, NEW saved \in Effort \cup {None}
    PROVE  /\ resolveFixedEffort(saved) \in Effort \cup {None}
           /\ resolveFixedEffort(saved) # None
                => saved # None /\ resolveFixedEffort(saved) <= saved
<1>1. CASE saved = None
  BY <1>1 DEF resolveFixedEffort
<1>2. CASE saved # None
  <2> DEFINE S == {e \in Accepted : e <= saved}
  <2>1. S \in SUBSET Effort
    BY AcceptedType
  <2>2. Highest(S) \in S \cup {None}
    BY <2>1, HighestIn
  <2>3. resolveFixedEffort(saved) = Highest(S)
    BY <1>2 DEF resolveFixedEffort
  <2> QED
    BY <1>2, <2>1, <2>2, <2>3
<1> QED
  BY <1>1, <1>2

LEMMA TierBelow ==
    ASSUME TypeOK, NEW tier \in Tier
    PROVE  /\ resolveEffortForTier(tier) \in Effort \cup {None}
           /\ resolveEffortForTier(tier) # None
                => resolveEffortForTier(tier) <= IF tier = 3 THEN 6 ELSE tier + 2
<1> DEFINE S == (IF tier = 3 THEN {4, 5, 6} ELSE {tier + 2}) \cap Accepted
<1>1. S \in SUBSET Effort
  BY AcceptedType
<1>2. Highest(S) \in S \cup {None}
  BY <1>1, HighestIn
<1>3. \A e \in S : e <= IF tier = 3 THEN 6 ELSE tier + 2
  BY DEF Tier
<1>4. resolveEffortForTier(tier) = Highest(S)
  BY DEF resolveEffortForTier
<1> HIDE DEF S
<1> QED
  BY <1>1, <1>2, <1>3, <1>4

LEMMA LadderModels ==
    ASSUME NEW tier \in Tier
    PROVE  Ladder(tier) \in Seq(Model)
<1>1. /\ CLAUDE_MODELS[1] \in Seq(Model) /\ CLAUDE_MODELS[2] \in Seq(Model)
      /\ CLAUDE_MODELS[3] \in Seq(Model) /\ CLAUDE_MODELS[4] \in Seq(Model)
  BY DEF CLAUDE_MODELS, Model
<1> DEFINE rank(i) == IF i <= 4 - tier THEN tier + i ELSE 5 - i
<1>2. /\ rank(1) \in 1..4 /\ rank(2) \in 1..4
      /\ rank(3) \in 1..4 /\ rank(4) \in 1..4
  BY DEF Tier
<1>3. \A i \in 1..4 : CLAUDE_MODELS[i] \in Seq(Model)
  <2> TAKE i \in 1..4
  <2>1. i = 1 \/ i = 2 \/ i = 3 \/ i = 4
    OBVIOUS
  <2> QED
    BY <1>1, <2>1
<1>4. /\ CLAUDE_MODELS[rank(1)] \in Seq(Model) /\ CLAUDE_MODELS[rank(2)] \in Seq(Model)
      /\ CLAUDE_MODELS[rank(3)] \in Seq(Model) /\ CLAUDE_MODELS[rank(4)] \in Seq(Model)
  BY <1>2, <1>3
<1>5. Ladder(tier) = CLAUDE_MODELS[rank(1)] \o CLAUDE_MODELS[rank(2)]
                     \o CLAUDE_MODELS[rank(3)] \o CLAUDE_MODELS[rank(4)]
  BY DEF Ladder
<1> HIDE DEF rank
<1> QED
  BY <1>4, <1>5

LEMMA CandidateFits ==
    ASSUME NEW tier \in Tier, NEW skip \in SUBSET Model, NEW policy \in Policy
    PROVE  LET found == candidateSequence(tier, skip, policy) IN
           /\ found.first \in Model \cup {None}
           /\ found.others \in BOOLEAN
           /\ found.first # None => Usable(found.first, skip, policy)
<1> DEFINE ladder == Ladder(tier)
           usable == {i \in DOMAIN ladder : Usable(ladder[i], skip, policy)}
           first == CHOOSE i \in usable : \A j \in usable : i <= j
<1>1. ladder \in Seq(Model)
  BY LadderModels
<1>2. CASE usable = {}
  BY <1>2 DEF candidateSequence
<1>3. CASE usable # {}
  <2>1. usable \in SUBSET Nat
    BY <1>1
  <2>2. \E i \in usable : \A j \in usable : i <= j
    <3> HIDE DEF usable
    <3> QED
      BY <1>3, <2>1, LeastExists
  <2>3. first \in usable
    <3> HIDE DEF usable
    <3> QED
      BY <2>2
  <2>4. ladder[first] \in Model /\ Usable(ladder[first], skip, policy)
    BY <1>1, <2>3
  <2>5. candidateSequence(tier, skip, policy) =
          [first |-> ladder[first],
           others |-> \E i \in usable : ladder[i] # ladder[first]]
    BY <1>3 DEF candidateSequence
  <2> HIDE DEF ladder, first, usable
  <2> QED
    BY <2>4, <2>5
<1> QED
  BY <1>2, <1>3

(* A typed model: what is not blocked is within the policy. *)
LEMMA ManualPermits ==
    ASSUME TypeOK, NEW typed \in Model \cup {None}, NEW saved \in Effort \cup {None},
           NEW tiers \in Tiers, NEW policy \in Policy
    PROVE  LET r == RouteManual(typed, saved, tiers, policy) IN
           /\ r \in Routed
           /\ ~r.blocked => Permits(policy, r.model, r.effort)
<1> DEFINE top == EffortCeiling(policy.maxReasoning, 6)
           request == IF top # None /\ (saved = None \/ saved > top)
                      THEN top ELSE saved
           effort == IF capabilities.effortFlag THEN resolveFixedEffort(request)
                     ELSE None
           known == modelCapability(typed)
           blocked ==
             \/ typed # None /\ refusesModel(typed, policy)
             \/ ~policy.premium /\ (typed = None \/ ~capabilities.modelFlag)
             \/ /\ policy.maxCapability # None
                /\ \/ known = None
                   \/ ~capabilities.modelFlag
                   \/ ~Within(known, policy.maxCapability)
             \/ policy.maxReasoning # None /\ effort = None
           wanted == [tiers EXCEPT !.capability = IF known = None THEN @ ELSE known]
           given == applyCeiling(wanted, policy)
           model == IF blocked \/ ~capabilities.modelFlag THEN None ELSE typed
<1>1. top \in Effort \cup {None}
  BY NoneAssumption DEF EffortCeiling, Policy, Tier, Effort
<1>2. request \in Effort \cup {None} /\ (top # None => request # None /\ request <= top)
  BY <1>1, NoneAssumption DEF Effort
<1>3. effort \in Effort \cup {None} /\ (effort # None => request # None /\ effort <= request)
  <2> HIDE DEF request
  <2> QED
    BY <1>2, FixedBelow
<1>4. typed = None => known = None
  BY NoneAssumption DEF modelCapability, Model
<1>5. known \in Tier \cup {None}
  BY <1>4, KnownModel
<1>6. wanted \in Tiers
  BY <1>5 DEF Tiers
<1>7. given \in Tiers
  <2> HIDE DEF wanted
  <2> QED
    BY <1>6, CeilingType
<1>8. model \in Model \cup {None}
  OBVIOUS
<1>9. RouteManual(typed, saved, tiers, policy) =
        [model |-> model, effort |-> effort, others |-> FALSE, blocked |-> blocked,
         capability |-> given.capability, reasoning |-> given.reasoning]
  BY Zenon DEF RouteManual
<1>10. blocked \in BOOLEAN
  OBVIOUS
<1>11. ASSUME ~blocked PROVE Within(effort, EffortCeiling(policy.maxReasoning, 7))
  <2>1. CASE policy.maxReasoning = None
    BY <2>1 DEF Within, EffortCeiling
  <2>2. CASE policy.maxReasoning # None
    <3>1. effort # None /\ top # None
      BY <1>11, <2>2, <1>1, NoneAssumption DEF EffortCeiling, Policy, Tier
    <3>2. effort <= top
      <4> HIDE DEF effort, request, top
      <4> QED
        BY <1>1, <1>2, <1>3, <3>1, NoneAssumption DEF Effort
    <3>3. /\ EffortCeiling(policy.maxReasoning, 7) \in Nat
          /\ top <= EffortCeiling(policy.maxReasoning, 7)
      BY <2>2 DEF EffortCeiling, Policy, Tier
    <3> HIDE DEF effort, top
    <3> QED
      BY <1>1, <1>3, <3>1, <3>2, <3>3 DEF Within, Effort
  <2> QED
    BY <2>1, <2>2
<1>12. ASSUME ~blocked PROVE Permits(policy, model, effort)
  <2>1. CASE model = None
    <3>1. typed = None \/ ~capabilities.modelFlag
      BY <1>12, <2>1
    <3>2. policy.premium /\ policy.maxCapability = None
      BY <1>4, <1>12, <3>1 DEF Policy
    <3> QED
      BY <1>11, <1>12, <2>1, <3>2 DEF Permits
  <2>2. CASE model # None
    <3>1. model = typed /\ typed # None /\ ~refusesModel(typed, policy)
      BY <1>12, <2>2
    <3>2. Within(known, policy.maxCapability)
      BY <1>12 DEF Within
    <3> QED
      BY <1>11, <1>12, <2>2, <3>1, <3>2 DEF Permits
  <2> QED
    BY <2>1, <2>2
<1> HIDE DEF model, effort, blocked, given
<1>13. RouteManual(typed, saved, tiers, policy) \in Routed
  BY <1>3, <1>7, <1>8, <1>9, <1>10 DEF Routed, Tiers
<1> QED
  BY <1>9, <1>12, <1>13

(* An automatic choice: the tier is clamped before a model is looked for, and *)
(* every stand-in is checked against the ceiling again.                       *)
LEMMA AutoPermits ==
    ASSUME TypeOK, NEW c \in Call, NEW skip \in SUBSET Model, NEW policy \in Policy
    PROVE  LET r == RouteAuto(c, skip, policy) IN
           /\ r \in Routed
           /\ ~r.blocked => Permits(policy, r.model, r.effort)
           /\ r.model # None => r.model \notin skip
<1> DEFINE streak == noProgressStreak(IF c.branch THEN <<>> ELSE attempts)
           given == applyCeiling(Wanted(c, streak), policy)
           found == IF capabilities.modelFlag
                    THEN candidateSequence(given.capability, skip, policy)
                    ELSE [first |-> None, others |-> FALSE]
           effort == IF capabilities.effortFlag
                     THEN resolveEffortForTier(given.reasoning) ELSE None
           blocked ==
             \/ capabilities.modelFlag /\ found.first = None
             \/ /\ ~capabilities.modelFlag
                /\ policy.maxCapability # None \/ ~policy.premium
             \/ policy.maxReasoning # None /\ effort = None
<1>1. streak \in Nat
  <2>1. (IF c.branch THEN <<>> ELSE attempts) \in Seq(Kind)
    BY DEF TypeOK
  <2> QED
    BY <2>1, StreakType
<1>2. Wanted(c, streak) \in Tiers
  <2> HIDE DEF streak
  <2> QED
    BY <1>1, WantedType
<1>3. given \in Tiers /\ Within(given.reasoning, policy.maxReasoning)
  <2> HIDE DEF streak
  <2> QED
    BY <1>2, CeilingType
<1>4. given.capability \in Tier /\ given.reasoning \in Tier
  BY <1>3 DEF Tiers
<1>5. /\ found.first \in Model \cup {None} /\ found.others \in BOOLEAN
      /\ found.first # None
           => capabilities.modelFlag /\ Usable(found.first, skip, policy)
  <2> HIDE DEF given
  <2> QED
    BY <1>4, CandidateFits
<1>6. /\ effort \in Effort \cup {None}
      /\ effort # None => effort <= IF given.reasoning = 3 THEN 6 ELSE given.reasoning + 2
  <2> HIDE DEF given
  <2> QED
    BY <1>4, TierBelow
<1>7. RouteAuto(c, skip, policy) =
        [model |-> found.first, effort |-> effort, others |-> found.others,
         blocked |-> blocked, capability |-> given.capability,
         reasoning |-> given.reasoning]
  BY Zenon DEF RouteAuto
<1>8. blocked \in BOOLEAN
  OBVIOUS
<1>9. ASSUME ~blocked PROVE Permits(policy, found.first, effort)
  <2>1. Within(effort, EffortCeiling(policy.maxReasoning, 7))
    <3>1. CASE policy.maxReasoning = None
      BY <3>1 DEF Within, EffortCeiling
    <3>2. CASE policy.maxReasoning # None
      <4>1. effort # None /\ effort \in Nat
        BY <1>6, <1>9, <3>2 DEF Effort
      <4>2. given.reasoning <= policy.maxReasoning
        BY <1>3, <3>2 DEF Within
      <4> HIDE DEF given, effort
      <4> QED
        BY <1>4, <1>6, <3>2, <4>1, <4>2 DEF Within, EffortCeiling, Policy, Tier, Effort
    <3> QED
      BY <3>1, <3>2
  <2>2. CASE found.first = None
    <3>1. policy.premium /\ policy.maxCapability = None
      BY <1>9, <2>2 DEF Policy
    <3> QED
      BY <2>1, <2>2, <3>1 DEF Permits
  <2>3. CASE found.first # None
    <3> HIDE DEF found
    <3> QED
      BY <1>5, <2>1, <2>3 DEF Permits, Usable
  <2> QED
    BY <2>2, <2>3
<1> HIDE DEF found, effort, blocked, given
<1>10. RouteAuto(c, skip, policy) \in Routed
  BY <1>4, <1>5, <1>6, <1>7, <1>8 DEF Routed
<1>11. found.first # None => found.first \notin skip
  BY <1>5 DEF Usable
<1> QED
  BY <1>7, <1>9, <1>10, <1>11

LEMMA RoutePermits ==
    ASSUME TypeOK, NEW c \in Call
    PROVE  /\ routeWorkerModel(c) \in Routed
           /\ ~routeWorkerModel(c).blocked
                => Permits(policyFor, routeWorkerModel(c).model,
                           routeWorkerModel(c).effort)
<1> DEFINE policy == policyFor
           auto == RouteAuto(c, Skipped(c), policy)
           fixed == RouteManual(auto.model, agent.effort, c.asked, policy)
           own == RouteManual(agent.model, agent.effort, c.asked, policy)
           typed == RouteManual(selection.model, selection.effort, c.asked, policy)
           over == RouteManual(typed.model, agent.effort, c.asked, policy)
<1>1. policy \in Policy /\ c.asked \in Tiers /\ Skipped(c) \in SUBSET Model
  BY LimitsType DEF Call, Skipped, TypeOK
<1>2. /\ agent.model \in Model \cup {None} /\ agent.effort \in Effort \cup {None}
      /\ selection.model \in Model \cup {None} /\ selection.effort \in Effort \cup {None}
  BY DEF TypeOK, AgentConfig, Choice
<1> HIDE DEF policy
<1>3. auto \in Routed /\ (~auto.blocked => Permits(policy, auto.model, auto.effort))
  BY <1>1, AutoPermits
<1>4. fixed \in Routed /\ (~fixed.blocked => Permits(policy, fixed.model, fixed.effort))
  <2>1. auto.model \in Model \cup {None}
    BY <1>3 DEF Routed
  <2> HIDE DEF auto
  <2> QED
    BY <1>1, <1>2, <2>1, ManualPermits
<1>5. own \in Routed /\ (~own.blocked => Permits(policy, own.model, own.effort))
  BY <1>1, <1>2, ManualPermits
<1>6. typed \in Routed /\ (~typed.blocked => Permits(policy, typed.model, typed.effort))
  BY <1>1, <1>2, ManualPermits
<1>7. over \in Routed /\ (~over.blocked => Permits(policy, over.model, over.effort))
  <2>1. typed.model \in Model \cup {None}
    BY <1>6 DEF Routed
  <2> HIDE DEF typed
  <2> QED
    BY <1>1, <1>2, <2>1, ManualPermits
<1>8. routeWorkerModel(c) =
        IF agent.model # None THEN own
        ELSE IF selection.mode = "manual"
        THEN IF typed.blocked \/ agent.effort = None THEN typed
             ELSE [typed EXCEPT !.effort = over.effort, !.blocked = over.blocked]
        ELSE IF auto.blocked \/ agent.effort = None THEN auto
             ELSE [auto EXCEPT !.effort = fixed.effort, !.blocked = fixed.blocked]
  BY DEF routeWorkerModel, policy
(* The agent's effort replaces that of a choice already allowed. *)
<1>9. ASSUME NEW r \in Routed, ~r.blocked, Permits(policy, r.model, r.effort),
             NEW s \in Routed, ~s.blocked => Permits(policy, s.model, s.effort)
      PROVE  LET t == [r EXCEPT !.effort = s.effort, !.blocked = s.blocked] IN
             /\ t \in Routed
             /\ ~t.blocked => Permits(policy, t.model, t.effort)
  BY <1>9 DEF Routed, Permits
<1> HIDE DEF auto, fixed, own, typed, over
<1>10. CASE agent.model # None
  BY <1>5, <1>8, <1>10 DEF policy
<1>11. CASE agent.model = None /\ selection.mode = "manual"
  <2>1. CASE typed.blocked \/ agent.effort = None
    BY <1>6, <1>8, <1>11, <2>1 DEF policy
  <2>2. CASE ~(typed.blocked \/ agent.effort = None)
    BY <1>6, <1>7, <1>8, <1>9, <1>11, <2>2 DEF policy
  <2> QED
    BY <2>1, <2>2
<1>12. CASE agent.model = None /\ selection.mode # "manual"
  <2>1. CASE auto.blocked \/ agent.effort = None
    BY <1>3, <1>8, <1>12, <2>1 DEF policy
  <2>2. CASE ~(auto.blocked \/ agent.effort = None)
    BY <1>3, <1>4, <1>8, <1>9, <1>12, <2>2 DEF policy
  <2> QED
    BY <2>1, <2>2
<1> QED
  BY <1>10, <1>11, <1>12

(* The policy of the agent: a call it lets through is within every ceiling, *)
(* whatever had been routed, and is one of the attempts the agent has left. *)
LEMMA OwnPermits ==
    ASSUME TypeOK, NEW r \in Routed
    PROVE  LET v == resolveAgentPolicy(r) IN
           /\ v.code = "RUNNING" =>
                /\ v.model \in Model /\ v.effort \in Effort \cup {None}
                /\ Permits(policyFor, v.model, v.effort)
                /\ agent.policy # None => spent < agent.policy.maxAttempts
                /\ v.model \notin turnedDown
           /\ v.code = "CONFIRMATION_REQUIRED" => v.model \in Model
<1> DEFINE policy == agentPolicy(r)
           fit == {i \in DOMAIN policy.candidates : allowed(policy.candidates[i])}
           first == CHOOSE i \in fit : \A j \in fit : i <= j
           model == policy.candidates[first]
           request == IF policy.effort # None THEN policy.effort ELSE r.effort
           top == EffortCeiling(policyFor.maxReasoning, 7)
           clamped == IF request = None THEN top ELSE Cap(request, top)
           effort == IF clamped = None THEN None
                     ELSE Highest({e \in capabilities.efforts : e <= clamped})
           refuse(code) == [model |-> None, effort |-> None, code |-> code]
<1>1. policy.candidates \in Seq(Model) /\ policy.effort \in Effort \cup {None}
  <2>1. CASE agent.policy # None
    <3>1. agent.policy \in OwnPolicy
      BY <2>1 DEF TypeOK, AgentConfig
    <3> QED
      BY <2>1, <3>1 DEF agentPolicy, OwnPolicy
  <2>2. CASE agent.policy = None
    <3> DEFINE m == IF r.model # None THEN r.model ELSE agent.model
    <3>1. m \in Model \cup {None}
      BY DEF Routed, TypeOK, AgentConfig
    <3>2. (IF m = None THEN <<>> ELSE <<m>>) \in Seq(Model)
      BY <3>1
    <3>3. policy = [candidates |-> IF m = None THEN <<>> ELSE <<m>>,
                    effort |-> None, maxAttempts |-> DefaultAttempts]
      BY <2>2 DEF agentPolicy
    <3> HIDE DEF m, policy
    <3> QED
      BY <3>2, <3>3
  <2> QED
    BY <2>1, <2>2
<1>2. agent.policy # None => policy = agent.policy
  BY DEF agentPolicy
<1> HIDE DEF policy
<1>3. ASSUME fit # {} PROVE model \in Model /\ allowed(model)
  <2>1. fit \in SUBSET Nat
    BY <1>1
  <2>2. first \in fit
    <3>1. \E i \in fit : \A j \in fit : i <= j
      <4> HIDE DEF fit
      <4> QED
        BY <1>3, <2>1, LeastExists
    <3> HIDE DEF fit
    <3> QED
      BY <3>1
  <2> HIDE DEF first
  <2> QED
    BY <1>1, <2>2
<1>4. request \in Effort \cup {None} /\ top \in Effort \cup {None}
  <2>1. policyFor.maxReasoning \in Tier \cup {None}
    BY LimitsType DEF Policy
  <2>2. top \in Effort \cup {None}
    BY <2>1, NoneAssumption DEF EffortCeiling, Tier, Effort
  <2> QED
    BY <1>1, <2>2 DEF Routed
<1>5. clamped \in Effort \cup {None} /\ (top # None => clamped # None /\ clamped <= top)
  <2> HIDE DEF request, top
  <2>1. CASE request = None
    BY <1>4, <2>1 DEF Effort
  <2>2. CASE request # None
    <3>1. clamped = Cap(request, top)
      BY <2>2
    <3>2. request \in 0..7 /\ (top \in 0..7 \/ top = None)
      BY <1>4, <2>2 DEF Effort
    <3>3. /\ Cap(request, top) \in 0..7
          /\ top # None => Cap(request, top) <= top
      BY <3>2, NoneAssumption DEF Cap, Within
    <3> QED
      BY <3>1, <3>3, NoneAssumption DEF Effort
  <2> QED
    BY <2>1, <2>2
<1>6. effort \in Effort \cup {None} /\ (effort # None => clamped # None /\ effort <= clamped)
  <2> HIDE DEF clamped
  <2> DEFINE S == {e \in capabilities.efforts : e <= clamped}
  <2>1. S \in SUBSET Effort
    BY DEF TypeOK, Taking
  <2>2. Highest(S) \in S \cup {None}
    BY <2>1, HighestIn
  <2> QED
    BY <2>1, <2>2
<1>7. resolveAgentPolicy(r) =
        IF fit = {} THEN refuse("MODEL_BLOCKED")
        ELSE IF model \in confirm /\ <<model, fingerprint>> \notin confirmed
        THEN [refuse("CONFIRMATION_REQUIRED") EXCEPT !.model = model]
        ELSE IF clamped # None /\ (~capabilities.effortFlag \/ effort = None)
        THEN refuse("REASONING")
        ELSE IF spent >= policy.maxAttempts THEN refuse("ATTEMPTS")
        ELSE [model |-> model, effort |-> effort, code |-> "RUNNING"]
  BY Zenon DEF resolveAgentPolicy, policy
<1> HIDE DEF fit, model, effort, clamped
<1>8. ASSUME resolveAgentPolicy(r).code = "RUNNING"
      PROVE  /\ fit # {} /\ resolveAgentPolicy(r).model = model
             /\ resolveAgentPolicy(r).effort = effort
             /\ clamped # None => effort # None
             /\ ~(spent >= policy.maxAttempts)
  BY <1>7, <1>8
<1>9. ASSUME resolveAgentPolicy(r).code = "RUNNING"
      PROVE  Permits(policyFor, model, effort)
  <2>1. model \in Model /\ allowed(model)
    BY <1>3, <1>8, <1>9
  <2>2. model # None
    BY <2>1, NoneAssumption
  <2>3. ~refusesModel(model, policyFor) /\ Within(modelCapability(model), policyFor.maxCapability)
    BY <2>1 DEF allowed, refusesModel, policyFor
  <2>4. Within(effort, top)
    <3> HIDE DEF top
    <3> QED
      BY <1>4, <1>5, <1>6, <1>8, <1>9, NoneAssumption DEF Within, Effort
  <2> QED
    BY <2>2, <2>3, <2>4 DEF Permits
<1>10. ASSUME resolveAgentPolicy(r).code = "RUNNING", agent.policy # None
       PROVE  spent < agent.policy.maxAttempts
  <2>1. agent.policy.maxAttempts \in Nat /\ spent \in Nat
    BY <1>10 DEF TypeOK, AgentConfig, OwnPolicy
  <2> QED
    BY <1>2, <1>8, <1>10, <2>1
<1>11. ASSUME resolveAgentPolicy(r).code = "CONFIRMATION_REQUIRED"
       PROVE  resolveAgentPolicy(r).model \in Model
  BY <1>3, <1>7, <1>11
<1>12. ASSUME resolveAgentPolicy(r).code = "RUNNING"
       PROVE  model \notin turnedDown
  BY <1>3, <1>8, <1>12 DEF allowed
<1> QED
  BY <1>3, <1>6, <1>8, <1>9, <1>10, <1>11, <1>12

-----------------------------------------------------------------------------
(* The inductive invariant                                                 *)

Inv == TypeOK /\ NothingOverTheCeiling /\ AttemptsAreCounted

(* What is known of the call under way and of the calls counted. *)
CallOK ==
    /\ call \in Call \cup {None}
    /\ Out => call.routed \in Routed /\ call.under \in Policy
    /\ NothingOverTheCeiling
LedgerOK ==
    /\ spent \in Nat /\ turnedDown \subseteq Model
    /\ pending \subseteq Model \X (AgentConfig \X Policy)
    /\ confirmed \subseteq Model \X (AgentConfig \X Policy)
    /\ AttemptsAreCounted
StatusOK == status \in {"RUNNING", "NEEDS_HUMAN", "FAILED"}

(* A call made through the policy of the agent, for the first time or again *)
(* for a session that is gone.                                              *)
LEMMA InvokeKeeps ==
    ASSUME Inv, NEW r \in Routed, NEW again \in BOOLEAN, call # None,
           ~restricted => Permits(policyFor, r.model, r.effort),
           invoke(r, again), UNCHANGED agent
    PROVE  CallOK' /\ LedgerOK' /\ StatusOK'
<1> DEFINE out(model, effort) ==
             [call EXCEPT !.phase = "out", !.model = model, !.effort = effort,
                          !.routed = r, !.under = policyFor, !.again = again]
           verdict == resolveAgentPolicy(r)
<1>1. call \in Call /\ policyFor \in Policy
  BY LimitsType DEF Inv, TypeOK
<1>2. LedgerOK /\ StatusOK
  BY DEF Inv, TypeOK, LedgerOK, StatusOK
<1>3. ASSUME NEW model \in Model \cup {None}, NEW effort \in Effort \cup {None},
             Permits(policyFor, model, effort), call' = out(model, effort)
      PROVE  CallOK'
  <2>1. /\ call' \in Call
        /\ call'.model = model /\ call'.effort = effort
        /\ call'.routed = r /\ call'.under = policyFor
    BY <1>1, <1>3 DEF Call
  <2> QED
    BY <1>1, <1>3, <2>1 DEF CallOK, NothingOverTheCeiling, Out
<1>4. CASE ~restricted
  <2>1. call' = out(r.model, r.effort) /\ UNCHANGED <<status, ledger>>
    BY <1>4 DEF invoke
  <2>2. CallOK'
    BY <1>3, <1>4, <2>1 DEF Routed
  <2>3. LedgerOK' /\ StatusOK'
    BY <1>2, <2>1 DEF LedgerOK, StatusOK, ledger, AttemptsAreCounted
  <2> QED
    BY <2>2, <2>3
<1>5. CASE restricted /\ verdict.code = "RUNNING"
  <2>1. /\ call' = out(verdict.model, verdict.effort) /\ spent' = spent + 1
        /\ UNCHANGED <<status, turnedDown, pending, confirmed>>
    BY <1>5 DEF invoke
  <2>2. /\ verdict.model \in Model /\ verdict.effort \in Effort \cup {None}
        /\ Permits(policyFor, verdict.model, verdict.effort)
        /\ agent.policy # None => spent < agent.policy.maxAttempts
    BY <1>5, OwnPermits DEF Inv
  <2>3. CallOK'
    <3> HIDE DEF verdict, out
    <3> QED
      BY <1>3, <2>1, <2>2
  <2>4. AttemptsAreCounted'
    <3> SUFFICES ASSUME agent.policy # None
                 PROVE  spent + 1 <= agent.policy.maxAttempts
      BY <2>1 DEF AttemptsAreCounted
    <3>1. agent.policy.maxAttempts \in Nat /\ spent \in Nat
      BY DEF Inv, TypeOK, AgentConfig, OwnPolicy
    <3> QED
      BY <2>2, <3>1
  <2>5. LedgerOK' /\ StatusOK'
    BY <1>2, <2>1, <2>4 DEF LedgerOK, StatusOK
  <2> QED
    BY <2>3, <2>5
<1>6. CASE restricted /\ verdict.code # "RUNNING"
  <2>1. /\ status' = IF verdict.code = "ATTEMPTS" THEN "FAILED" ELSE "NEEDS_HUMAN"
        /\ pending' = pending \cup
               IF verdict.code = "CONFIRMATION_REQUIRED"
               THEN {<<verdict.model, fingerprint>>} ELSE {}
        /\ call' = None
        /\ UNCHANGED <<spent, turnedDown, confirmed>>
    BY <1>6 DEF invoke
  <2>2. verdict.code = "CONFIRMATION_REQUIRED" => verdict.model \in Model
    BY OwnPermits DEF Inv
  <2>3. fingerprint \in AgentConfig \X Policy
    BY DEF Inv, TypeOK, fingerprint
  <2>4. pending' \subseteq Model \X (AgentConfig \X Policy)
    BY <1>2, <2>1, <2>2, <2>3 DEF LedgerOK
  <2>5. CallOK'
    BY <2>1 DEF CallOK, NothingOverTheCeiling, Out
  <2>6. LedgerOK' /\ StatusOK'
    BY <1>2, <2>1, <2>4 DEF LedgerOK, StatusOK, AttemptsAreCounted
  <2> QED
    BY <2>5, <2>6
<1> QED
  BY <1>4, <1>5, <1>6

(* The rest of the state: what the person and the loop have. *)
HostOK ==
    /\ account \in Policy /\ agent \in AgentConfig
    /\ selection \in Choice /\ capabilities \in Taking
    /\ confirm \subseteq Model
    /\ iteration \in Int
    /\ attempts \in Seq(Kind) /\ unavailable \subseteq Model
    /\ denied \in BOOLEAN
    /\ previous # None =>
           previous \in [asked : Tiers, limits : Policy, sensitive : BOOLEAN,
                         capability : Tier, reasoning : Tier]
    /\ edits \in Nat /\ pauses \in Nat

LEMMA InvParts ==
    /\ Inv <=> HostOK /\ CallOK /\ LedgerOK /\ StatusOK
    /\ Inv' <=> HostOK' /\ CallOK' /\ LedgerOK' /\ StatusOK'
  BY DEF Inv, TypeOK, HostOK, CallOK, LedgerOK, StatusOK

LEMMA InitInv ==
    Init => Inv
<1> SUFFICES ASSUME Init PROVE Inv
  OBVIOUS
<1>1. PICK s \in Setup : /\ agent = s.agent
                         /\ selection = s.selection
                         /\ capabilities = s.capabilities
                         /\ confirm = s.confirm
  BY DEF Init
<1>2. s \in [agent : AgentConfig, selection : Choice, capabilities : Taking,
             confirm : SUBSET Model]
  BY RoutingAssumption
<1>3. HostOK
  <2>1. /\ account \in Policy /\ agent \in AgentConfig
        /\ selection \in Choice /\ capabilities \in Taking
        /\ confirm \subseteq Model
    BY <1>1, <1>2, RoutingAssumption DEF Init
  <2>2. attempts = <<>> /\ attempts \in Seq(Kind)
    BY DEF Init
  <2>3. /\ iteration = 0 /\ unavailable = {} /\ denied = FALSE
        /\ previous = None /\ edits = 0 /\ pauses = 0
    BY DEF Init
  <2>4. edits \in Nat /\ pauses \in Nat /\ iteration \in Int
    BY <2>3
  <2> QED
    BY <2>1, <2>2, <2>3, <2>4, Zenon DEF HostOK
<1>4. CallOK
  BY DEF Init, CallOK, NothingOverTheCeiling, Out
<1>5. LedgerOK
  <2>1. agent.policy # None => agent.policy.maxAttempts \in Nat \ {0}
    BY <1>1, <1>2 DEF AgentConfig, OwnPolicy
  <2> QED
    BY <2>1 DEF Init, LedgerOK, AttemptsAreCounted
<1>6. StatusOK
  BY DEF Init, StatusOK
<1> QED
  BY <1>3, <1>4, <1>5, <1>6, InvParts

(* The parts of the invariant that a step leaves alone. *)
LEMMA Untouched ==
    ASSUME Inv
    PROVE  /\ UNCHANGED <<status>> => StatusOK'
           /\ UNCHANGED call => CallOK'
           /\ call' = None => CallOK'
           /\ UNCHANGED <<ledger, agent>> => LedgerOK'
<1>1. UNCHANGED call => CallOK'
  BY InvParts DEF CallOK, NothingOverTheCeiling, Out
<1>2. call' = None => CallOK'
  BY DEF CallOK, NothingOverTheCeiling, Out
<1>3. UNCHANGED <<ledger, agent>> => LedgerOK'
  BY InvParts DEF LedgerOK, ledger, AttemptsAreCounted
<1> QED
  BY <1>1, <1>2, <1>3, InvParts DEF StatusOK

LEMMA RouteKeeps ==
    Inv /\ Route => Inv'
<1> SUFFICES ASSUME Inv, Route PROVE Inv'
  OBVIOUS
<1> DEFINE r == routeWorkerModel(call)
<1>1. call # None /\ call \in Call
  BY DEF Inv, TypeOK, Route
<1>2. r \in Routed /\ (~r.blocked => Permits(policyFor, r.model, r.effort))
  BY <1>1, RoutePermits DEF Inv
<1> HIDE DEF r
<1>3. UNCHANGED <<account, chosen, iteration, memory, denied, edits, pauses>>
  BY DEF Route
<1>4. CASE r.blocked /\ agent.policy = None
  <2>1. /\ status' = "NEEDS_HUMAN" /\ call' = None
        /\ UNCHANGED <<ledger, previous>>
    BY <1>4 DEF Route, r
  <2>2. HostOK'
    BY <1>3, <2>1, InvParts DEF HostOK, chosen, memory
  <2> QED
    BY <1>3, <2>1, <2>2, Untouched, InvParts DEF StatusOK, chosen
<1>5. CASE ~(r.blocked /\ agent.policy = None)
  <2>1. /\ invoke(r, FALSE)
        /\ previous' = IF call.branch THEN previous
                       ELSE [asked |-> call.asked, limits |-> policyFor,
                             sensitive |-> call.sensitive,
                             capability |-> r.capability,
                             reasoning |-> r.reasoning]
    BY <1>5 DEF Route, r
  <2>2. ~restricted => Permits(policyFor, r.model, r.effort)
    BY <1>2, <1>5 DEF restricted
  <2>3. CallOK' /\ LedgerOK' /\ StatusOK'
    <3>1. UNCHANGED agent
      BY <1>3 DEF chosen
    <3> QED
      BY <1>1, <1>2, <2>1, <2>2, <3>1, InvokeKeeps
  <2>4. /\ call.asked \in Tiers /\ call.sensitive \in BOOLEAN
        /\ r.capability \in Tier /\ r.reasoning \in Tier
        /\ policyFor \in Policy
    BY <1>1, <1>2, LimitsType DEF Call, Routed, Inv
  <2>5. HostOK'
    BY <1>3, <2>1, <2>4, InvParts DEF HostOK, chosen, memory
  <2> QED
    BY <2>3, <2>5, InvParts
<1> QED
  BY <1>4, <1>5

LEMMA SessionGoneKeeps ==
    Inv /\ SessionGone => Inv'
<1> SUFFICES ASSUME Inv, SessionGone PROVE Inv'
  OBVIOUS
<1>1. /\ call # None /\ call \in Call /\ call.routed \in Routed
      /\ call.under \in Policy /\ Permits(call.under, call.model, call.effort)
      /\ Out
  BY DEF Inv, TypeOK, SessionGone, NothingOverTheCeiling, Out
<1>2. UNCHANGED <<account, chosen, iteration, memory, denied, previous, edits, pauses>>
  BY DEF SessionGone
<1>3. HostOK'
  BY <1>2, InvParts DEF HostOK, chosen, memory
<1>4. CASE restricted
  <2>1. invoke(call.routed, TRUE) /\ UNCHANGED agent
    BY <1>2, <1>4 DEF SessionGone, chosen
  <2> QED
    BY <1>1, <1>3, <1>4, <2>1, InvokeKeeps, InvParts
<1>5. CASE ~restricted
  <2>1. call' = [call EXCEPT !.again = TRUE] /\ UNCHANGED <<status, ledger>>
    BY <1>5 DEF SessionGone
  <2>2. call' \in Call
    BY <1>1, <2>1 DEF Call
  <2>3. /\ call'.model = call.model /\ call'.effort = call.effort
        /\ call'.routed = call.routed /\ call'.under = call.under
    BY <1>1, <2>1 DEF Call
  <2>4. CallOK'
    BY <1>1, <2>2, <2>3 DEF CallOK, NothingOverTheCeiling
  <2> QED
    BY <1>2, <1>3, <2>1, <2>4, Untouched, InvParts DEF chosen
<1> QED
  BY <1>4, <1>5

LEMMA RefusedKeeps ==
    ASSUME Inv, NEW named \in BOOLEAN, Refused(named)
    PROVE  Inv'
<1>1. /\ call # None /\ call \in Call /\ call.routed \in Routed
      /\ call.model \in Model
  BY DEF Inv, TypeOK, Refused, Out, Call
<1>2. UNCHANGED <<account, chosen, status, iteration, spent, pending,
                  confirmed, denied, previous, edits, pauses>>
  BY DEF Refused
<1>3. LedgerOK'
  <2>1. turnedDown' \subseteq Model
    BY <1>1 DEF Refused, Inv, TypeOK
  <2> QED
    BY <1>2, <2>1, InvParts DEF LedgerOK, AttemptsAreCounted, chosen
<1>4. CallOK' /\ attempts' \in Seq(Kind) /\ unavailable' \subseteq Model
  <2>1. CASE /\ named /\ call.routed.model # None /\ call.routed.others
             /\ call.tries < MODEL_RETRIES
    <3>1. /\ call' = [call EXCEPT !.phase = "routing", !.tries = @ + 1,
                                   !.refused = @ \cup {call.model},
                                   !.skip = IF call.branch
                                            THEN @ \cup {call.routed.model}
                                            ELSE @]
          /\ unavailable' = IF call.branch THEN unavailable
                            ELSE unavailable \cup {call.routed.model}
          /\ UNCHANGED attempts
      BY <2>1 DEF Refused
    <3>2. call.routed.model \in Model
      BY <1>1, <2>1 DEF Routed
    <3>3. call.tries + 1 \in 0..MODEL_RETRIES
      BY <1>1, <2>1 DEF Call, MODEL_RETRIES
    <3>4. call' \in Call
      BY <1>1, <3>1, <3>2, <3>3 DEF Call
    <3>5. call'.phase = "routing"
      BY <1>1, <3>1 DEF Call
    <3> QED
      BY <3>1, <3>2, <3>4, <3>5 DEF CallOK, NothingOverTheCeiling, Out, Inv, TypeOK
  <2>2. CASE ~(/\ named /\ call.routed.model # None /\ call.routed.others
               /\ call.tries < MODEL_RETRIES)
    <3>1. /\ call' = None
          /\ Remember(IF named /\ call.routed.model # None
                      THEN "refused" ELSE "barren")
          /\ UNCHANGED unavailable
      BY <2>2 DEF Refused
    <3>2. attempts' \in Seq(Kind)
      BY <3>1 DEF Remember, Inv, TypeOK, Kind
    <3> QED
      BY <3>1, <3>2, Untouched DEF Inv, TypeOK
  <2> QED
    BY <2>1, <2>2
<1>5. HostOK'
  BY <1>2, <1>4, InvParts DEF HostOK, chosen
<1> QED
  BY <1>2, <1>3, <1>4, <1>5, Untouched, InvParts

LEMMA StepInv ==
    Inv /\ [Next]_vars => Inv'
<1> SUFFICES ASSUME Inv, [Next]_vars PROVE Inv'
  OBVIOUS
<1>1. ASSUME NEW asked \in Asked, NEW s \in BOOLEAN, NEW b \in BOOLEAN,
             Delegate(asked, s, b)
      PROVE  Inv'
  <2>1. asked \in Tiers
    BY RoutingAssumption
  <2>2. /\ call' = [phase |-> "routing", asked |-> asked, sensitive |-> s,
                    branch |-> b, skip |-> {}, tries |-> 0, refused |-> {},
                    again |-> FALSE, model |-> None, effort |-> None,
                    routed |-> None, under |-> None]
        /\ iteration' = iteration + 1
        /\ UNCHANGED <<account, chosen, status, memory, ledger, denied, previous,
                       edits, pauses>>
    BY <1>1 DEF Delegate
  <2>3. call' \in Call
    BY <2>1, <2>2 DEF Call, MODEL_RETRIES
  <2>4. CallOK'
    BY <2>2, <2>3 DEF CallOK, NothingOverTheCeiling, Out
  <2>5. HostOK'
    BY <2>2, InvParts DEF HostOK, chosen, memory
  <2> QED
    BY <2>2, <2>4, <2>5, Untouched, InvParts DEF chosen
<1>2. ASSUME NEW kind \in {"progress", "barren", "mechanical"}, Answer(kind)
      PROVE  Inv'
  <2>1. /\ Remember(kind) /\ call' = None
        /\ UNCHANGED <<account, chosen, status, iteration, unavailable, ledger,
                       denied, previous, edits, pauses>>
    BY <1>2 DEF Answer
  <2>2. attempts' \in Seq(Kind)
    BY <2>1 DEF Remember, Inv, TypeOK, Kind
  <2>3. HostOK'
    BY <2>1, <2>2, InvParts DEF HostOK, chosen
  <2> QED
    BY <2>1, <2>3, Untouched, InvParts DEF chosen
<1>3. CASE ToolDenied
  <2>1. /\ status' = "NEEDS_HUMAN" /\ denied' = TRUE /\ call' = None
        /\ UNCHANGED <<account, chosen, iteration, memory, ledger, previous,
                       edits, pauses>>
    BY <1>3 DEF ToolDenied
  <2>2. HostOK'
    BY <2>1, InvParts DEF HostOK, chosen, memory
  <2> QED
    BY <2>1, <2>2, Untouched, InvParts DEF StatusOK, chosen
<1>4. CASE GateIsMechanical
  <2>1. /\ attempts # <<>>
        /\ attempts' = [attempts EXCEPT ![Len(attempts)] = "mechanical"]
        /\ UNCHANGED <<account, chosen, status, iteration, unavailable, call,
                       ledger, denied, previous, edits, pauses>>
    BY <1>4 DEF GateIsMechanical
  <2>2. attempts' \in Seq(Kind)
    BY <2>1 DEF Inv, TypeOK, Kind
  <2>3. HostOK'
    BY <2>1, <2>2, InvParts DEF HostOK, chosen
  <2> QED
    BY <2>1, <2>3, Untouched, InvParts DEF chosen
<1>5. ASSUME NEW a \in Account, setRoutingPolicy(a)
      PROVE  Inv'
  <2>1. a \in Policy
    BY RoutingAssumption
  <2>2. /\ account' = a /\ edits' = edits + 1
        /\ UNCHANGED <<chosen, status, iteration, memory, call, ledger, denied,
                       previous, pauses>>
    BY <1>5 DEF setRoutingPolicy
  <2>3. HostOK'
    BY <2>1, <2>2, InvParts DEF HostOK, chosen, memory
  <2> QED
    BY <2>2, <2>3, Untouched, InvParts DEF chosen
<1>6. ASSUME Relaunch, UNCHANGED <<account, chosen, call, previous, edits>>,
             denied' \in BOOLEAN
      PROVE  HostOK' /\ CallOK' /\ StatusOK'
  <2>1. HostOK'
    BY <1>6, InvParts DEF Relaunch, HostOK, chosen
  <2> QED
    BY <1>6, <2>1, Untouched DEF StatusOK, Relaunch
<1>7. ASSUME NEW m \in Model, ConfirmModel(m)
      PROVE  Inv'
  <2>1. /\ <<m, fingerprint>> \in pending
        /\ confirmed' = confirmed \cup {<<m, fingerprint>>}
        /\ pending' = pending \ {<<m, fingerprint>>}
        /\ Relaunch
        /\ UNCHANGED <<account, chosen, call, spent, turnedDown, denied, previous,
                       edits>>
    BY <1>7 DEF ConfirmModel
  <2>2. LedgerOK'
    BY <2>1, InvParts DEF LedgerOK, AttemptsAreCounted, chosen
  <2>3. denied' \in BOOLEAN
    BY <2>1 DEF Inv, TypeOK
  <2> QED
    BY <1>6, <2>1, <2>2, <2>3, InvParts
<1>8. CASE AnswerPermission
  <2>1. /\ denied' = FALSE /\ Relaunch
        /\ UNCHANGED <<account, chosen, call, ledger, previous, edits>>
    BY <1>8 DEF AnswerPermission
  <2> QED
    BY <1>6, <2>1, Untouched, InvParts DEF chosen
<1>9. CASE UNCHANGED vars
  <2>1. HostOK'
    BY <1>9, InvParts DEF HostOK, vars, chosen, memory
  <2> QED
    BY <1>9, <2>1, Untouched, InvParts DEF vars, chosen
<1> QED
  BY <1>1, <1>2, <1>3, <1>4, <1>5, <1>7, <1>8, <1>9, RouteKeeps, SessionGoneKeeps,
     RefusedKeeps DEF Next

LEMMA AlwaysInv ==
    Spec => []Inv
<1> QED
  BY InitInv, StepInv, PTL DEF Spec

-----------------------------------------------------------------------------
(* The theorems                                                            *)

\* Every variable keeps its type, and a call under way was routed under a
\* policy of the account (model-router.ts, agent-execution-policy.ts).
THEOREM TypeCorrect ==
    Spec => []TypeOK
<1>1. Inv => TypeOK
  BY DEF Inv
<1> QED
  BY <1>1, AlwaysInv, PTL

\* No call exceeds what the account and the agent allowed when it was made,
\* through the router and its stand-ins, a typed model, an escalation, the
\* policy of the agent or a second call for a lost session.
THEOREM NothingOverTheCeilingCorrect ==
    Spec => []NothingOverTheCeiling
<1>1. Inv => NothingOverTheCeiling
  BY DEF Inv
<1> QED
  BY <1>1, AlwaysInv, PTL

\* An agent with a policy never reaches its provider more often in a run than
\* the policy says, however the attempts end and however often the run is
\* resumed.
THEOREM AttemptsAreCountedCorrect ==
    Spec => []AttemptsAreCounted
<1>1. Inv => AttemptsAreCounted
  BY DEF Inv
<1> QED
  BY <1>1, AlwaysInv, PTL

-----------------------------------------------------------------------------
(* A refused model is not tried again                                      *)

(* The agent or the person has named the model: there is no other to try. *)
ByHand == agent.model # None \/ selection.mode = "manual"

(* The models refused for a call are known to whoever chooses the next: the *)
(* router leaves them out, or the policy of the agent has them turned down. *)
Known(c, gone, down) ==
    /\ ByHand => c.refused = {}
    /\ ~restricted => c.refused \subseteq IF c.branch THEN c.skip ELSE gone
    /\ restricted /\ capabilities.api => c.refused \subseteq down

(* What was called is what was routed, unless the agent has a policy. *)
Made(c) ==
    c.phase = "out" =>
        /\ ByHand => ~c.routed.others
        /\ ~restricted => c.model = c.routed.model

TryOK ==
    /\ status # "RUNNING" => call = None
    /\ call # None => Known(call, unavailable, turnedDown) /\ Made(call)
TryInv == Inv /\ TryOK

LEMMA TryNext ==
    ASSUME UNCHANGED chosen, status' # "RUNNING" => call' = None,
           call' # None => Known(call', unavailable', turnedDown') /\ Made(call')
    PROVE  TryOK'
  BY DEF TryOK, Known, Made, ByHand, restricted, chosen

(* What the router chooses: nothing it was told to leave out, and no others *)
(* to try where the model was named.                                        *)
LEMMA RouteFresh ==
    ASSUME TypeOK, NEW c \in Call
    PROVE  /\ ByHand => ~routeWorkerModel(c).others
           /\ ~ByHand /\ routeWorkerModel(c).model # None
                => routeWorkerModel(c).model \notin Skipped(c)
<1> DEFINE auto == RouteAuto(c, Skipped(c), policyFor)
           fixed == RouteManual(auto.model, agent.effort, c.asked, policyFor)
           own == RouteManual(agent.model, agent.effort, c.asked, policyFor)
           typed == RouteManual(selection.model, selection.effort, c.asked, policyFor)
           over == RouteManual(typed.model, agent.effort, c.asked, policyFor)
           free == [typed EXCEPT !.effort = over.effort, !.blocked = over.blocked]
           mixed == [auto EXCEPT !.effort = fixed.effort, !.blocked = fixed.blocked]
<1>1. policyFor \in Policy /\ Skipped(c) \in SUBSET Model
  BY LimitsType DEF Call, Skipped, TypeOK
<1>2. auto \in Routed /\ (auto.model # None => auto.model \notin Skipped(c))
  BY <1>1, AutoPermits
<1>3. ASSUME NEW m, NEW e PROVE RouteManual(m, e, c.asked, policyFor).others = FALSE
  BY DEF RouteManual
<1>4. own.others = FALSE /\ typed.others = FALSE
  BY <1>3
<1>5. routeWorkerModel(c) =
        IF agent.model # None THEN own
        ELSE IF selection.mode = "manual"
        THEN IF typed.blocked \/ agent.effort = None THEN typed ELSE free
        ELSE IF auto.blocked \/ agent.effort = None THEN auto ELSE mixed
  BY DEF routeWorkerModel
<1>6. free.others = typed.others
  <2>1. typed \in [{"model", "effort", "others", "blocked", "capability", "reasoning"}
                     -> {typed.model, typed.effort, typed.others, typed.blocked,
                         typed.capability, typed.reasoning}]
    BY DEF RouteManual
  <2> HIDE DEF typed, over
  <2> QED
    BY <2>1
<1>7. mixed.model = auto.model
  <2> HIDE DEF auto, fixed
  <2> QED
    BY <1>2 DEF Routed
<1> HIDE DEF auto, fixed, own, typed, over, free, mixed
<1> QED
  BY <1>2, <1>4, <1>5, <1>6, <1>7 DEF ByHand

(* A call that goes out keeps what it knows. *)
LEMMA InvokeMade ==
    ASSUME Inv, call # None, NEW r \in Routed, NEW again \in BOOLEAN, invoke(r, again)
    PROVE  /\ turnedDown' = turnedDown
           /\ call' = None => status' \in {status, "FAILED", "NEEDS_HUMAN"}
           /\ call' # None =>
                /\ status' = status
                /\ call'.phase = "out" /\ call'.routed = r
                /\ call'.refused = call.refused
                /\ call'.skip = call.skip /\ call'.branch = call.branch
                /\ ~restricted => call'.model = r.model
                /\ restricted => call'.model \notin turnedDown
<1> DEFINE out(model, effort) ==
             [call EXCEPT !.phase = "out", !.model = model, !.effort = effort,
                          !.routed = r, !.under = policyFor, !.again = again]
           verdict == resolveAgentPolicy(r)
<1>1. call \in Call
  BY DEF Inv, TypeOK
<1>2. ASSUME NEW model, NEW effort
      PROVE  LET c == out(model, effort) IN
             /\ c.phase = "out" /\ c.routed = r /\ c.refused = call.refused
             /\ c.skip = call.skip /\ c.branch = call.branch /\ c.model = model
  BY <1>1 DEF Call
<1>3. verdict.code = "RUNNING" => verdict.model \notin turnedDown
  BY OwnPermits DEF Inv
<1>4. CASE ~restricted
  <2>1. call' = out(r.model, r.effort) /\ UNCHANGED <<status, turnedDown>>
    BY <1>4 DEF invoke, ledger
  <2> HIDE DEF out
  <2> QED
    BY <1>2, <1>4, <2>1
<1>5. CASE restricted /\ verdict.code = "RUNNING"
  <2>1. call' = out(verdict.model, verdict.effort) /\ UNCHANGED <<status, turnedDown>>
    BY <1>5 DEF invoke
  <2> HIDE DEF out, verdict
  <2> QED
    BY <1>2, <1>3, <1>5, <2>1
<1>6. CASE restricted /\ verdict.code # "RUNNING"
  BY <1>6 DEF invoke
<1> QED
  BY <1>4, <1>5, <1>6

LEMMA InvokeTry ==
    ASSUME TryInv, call # None, NEW r \in Routed, NEW again \in BOOLEAN,
           invoke(r, again), ByHand => ~r.others,
           UNCHANGED <<chosen, unavailable>>
    PROVE  TryOK'
<1>1. Inv /\ status = "RUNNING" /\ Known(call, unavailable, turnedDown)
  BY DEF TryInv, TryOK
<1>2. call' # None => Known(call', unavailable', turnedDown') /\ Made(call')
  BY <1>1, InvokeMade DEF Known, Made
<1>3. status' # "RUNNING" => call' = None
  BY <1>1, InvokeMade
<1> QED
  BY <1>2, <1>3, TryNext

LEMMA RefusedTry ==
    ASSUME TryInv, NEW named \in BOOLEAN, Refused(named)
    PROVE  TryOK'
<1>1. /\ call # None /\ call \in Call /\ call.phase = "out" /\ status = "RUNNING"
      /\ Known(call, unavailable, turnedDown) /\ Made(call)
  BY DEF TryInv, TryOK, Inv, TypeOK, Refused, Out
<1>2. UNCHANGED <<chosen, status>>
  BY DEF Refused
<1>3. CASE call' = None
  BY <1>1, <1>2, <1>3, TryNext
<1>4. CASE call' # None
  <2>1. /\ call.routed.model # None /\ call.routed.others
        /\ call' = [call EXCEPT !.phase = "routing", !.tries = @ + 1,
                                !.refused = @ \cup {call.model},
                                !.skip = IF call.branch
                                         THEN @ \cup {call.routed.model}
                                         ELSE @]
        /\ unavailable' = IF call.branch THEN unavailable
                          ELSE unavailable \cup {call.routed.model}
        /\ turnedDown' = IF restricted /\ capabilities.api
                         THEN turnedDown \cup {call.model} ELSE turnedDown
    BY <1>4 DEF Refused
  <2>2. /\ call'.refused = call.refused \cup {call.model}
        /\ call'.phase = "routing" /\ call'.branch = call.branch
        /\ call'.skip = IF call.branch THEN call.skip \cup {call.routed.model} ELSE call.skip
    BY <1>1, <2>1 DEF Call
  <2>3. ~ByHand
    BY <1>1, <2>1 DEF Made
  <2>4. ~restricted => call.model = call.routed.model
    BY <1>1 DEF Made
  <2>5. Known(call', unavailable', turnedDown')
    BY <1>1, <2>1, <2>2, <2>3, <2>4 DEF Known
  <2>6. Made(call')
    BY <2>2 DEF Made
  <2> QED
    BY <1>1, <1>2, <2>5, <2>6, TryNext
<1> QED
  BY <1>3, <1>4

LEMMA StepTry ==
    TryInv /\ [Next]_vars => TryInv'
<1> SUFFICES ASSUME TryInv, [Next]_vars PROVE TryOK'
  BY StepInv DEF TryInv
<1>0. /\ Inv /\ TypeOK
      /\ status # "RUNNING" => call = None
      /\ call # None => Known(call, unavailable, turnedDown) /\ Made(call)
  BY DEF TryInv, TryOK, Inv
<1>1. ASSUME NEW asked \in Asked, NEW s \in BOOLEAN, NEW b \in BOOLEAN,
             Delegate(asked, s, b)
      PROVE  TryOK'
  <2>1. /\ status = "RUNNING" /\ UNCHANGED <<chosen, status>>
        /\ call'.refused = {} /\ call'.phase = "routing"
    BY <1>1 DEF Delegate
  <2> QED
    BY <2>1, TryNext DEF Known, Made
<1>2. CASE Route
  <2>1. /\ call # None /\ call \in Call /\ UNCHANGED <<chosen, unavailable>>
    BY <1>0, <1>2 DEF Route, memory, TypeOK
  <2>2. PICK r : r = routeWorkerModel(call)
    OBVIOUS
  <2>3. r \in Routed /\ (ByHand => ~r.others)
    BY <1>0, <2>1, <2>2, RoutePermits, RouteFresh
  <2>4. CASE call' = None
    BY <2>1, <2>4, TryNext
  <2>5. CASE invoke(r, FALSE)
    BY <2>1, <2>3, <2>5, InvokeTry
  <2> QED
    BY <1>2, <2>2, <2>4, <2>5 DEF Route
<1>3. CASE SessionGone
  <2>1. /\ call # None /\ call.phase = "out" /\ call.routed \in Routed
        /\ UNCHANGED <<chosen, unavailable>>
    BY <1>0, <1>3 DEF SessionGone, Out, memory, TypeOK
  <2>2. ByHand => ~call.routed.others
    BY <1>0, <2>1 DEF Made
  <2>3. CASE restricted
    BY <1>3, <2>1, <2>2, <2>3, InvokeTry DEF SessionGone
  <2>4. CASE ~restricted
    <3>1. call' = [call EXCEPT !.again = TRUE] /\ UNCHANGED <<status, turnedDown>>
      BY <1>3, <2>4 DEF SessionGone, ledger
    <3>2. /\ call'.refused = call.refused /\ call'.branch = call.branch
          /\ call'.skip = call.skip /\ call'.phase = call.phase
          /\ call'.routed = call.routed /\ call'.model = call.model
      BY <1>0, <2>1, <3>1 DEF TypeOK, Call
    <3>3. Known(call', unavailable', turnedDown') /\ Made(call')
      BY <1>0, <2>1, <3>1, <3>2 DEF Known, Made
    <3> QED
      BY <1>0, <2>1, <3>1, <3>3, TryNext
  <2> QED
    BY <2>3, <2>4
<1>4. CASE \E kind \in {"progress", "barren", "mechanical"} : Answer(kind)
  BY <1>4, TryNext DEF Answer
<1>5. CASE ToolDenied
  BY <1>5, TryNext DEF ToolDenied
<1>6. CASE call = None /\ call' = None /\ UNCHANGED chosen
  BY <1>6, TryNext
<1>7. CASE GateIsMechanical
  BY <1>6, <1>7 DEF GateIsMechanical
<1>8. CASE UNCHANGED <<chosen, status, memory, call, ledger>>
  <2>1. UNCHANGED <<chosen, status, unavailable, call, turnedDown>>
    BY <1>8 DEF memory, ledger
  <2> QED
    BY <1>0, <2>1, TryNext
<1>9. CASE \E a \in Account : setRoutingPolicy(a)
  BY <1>8, <1>9 DEF setRoutingPolicy
<1>10. CASE (\E m \in Model : ConfirmModel(m)) \/ AnswerPermission
  BY <1>0, <1>6, <1>10 DEF ConfirmModel, AnswerPermission
<1>11. CASE UNCHANGED vars
  BY <1>8, <1>11 DEF vars
<1> QED
  BY <1>1, <1>2, <1>3, <1>4, <1>5, <1>7, <1>9, <1>10, <1>11, RefusedTry DEF Next

LEMMA AlwaysTry ==
    Spec => []TryInv
<1>1. Init => TryOK
  BY DEF Init, TryOK
<1> QED
  BY <1>1, InitInv, StepTry, PTL DEF Spec, TryInv

(* Only the loop of delegate sends a routed call out. *)
LEMMA OnlyRoute ==
    ASSUME [Next]_vars, call # None, call.phase = "routing", Out'
    PROVE  Route
<1>1. call' # call
  BY DEF Out
<1>2. ~Out
  BY DEF Out
<1> QED
  BY <1>1, <1>2 DEF Next, Delegate, Answer, Refused, SessionGone, ToolDenied,
     GateIsMechanical, setRoutingPolicy, ConfirmModel, AnswerPermission, vars

LEMMA RouteNewModel ==
    ASSUME TryInv, Route, Out', ~restricted \/ capabilities.api
    PROVE  call'.model \notin call.refused
<1>1. /\ call # None /\ call \in Call /\ TypeOK /\ Inv
      /\ Known(call, unavailable, turnedDown)
  BY DEF TryInv, TryOK, Inv, TypeOK, Route
<1>2. PICK r : r = routeWorkerModel(call)
  OBVIOUS
<1>3. r \in Routed /\ invoke(r, FALSE) /\ call' # None
  BY <1>1, <1>2, RoutePermits DEF Route, Out
<1>4. /\ ~restricted => call'.model = r.model
      /\ restricted => call'.model \notin turnedDown
  BY <1>1, <1>3, InvokeMade
<1>5. CASE restricted
  BY <1>1, <1>4, <1>5 DEF Known
<1>6. CASE ~restricted
  <2>1. CASE ByHand
    BY <1>1, <2>1 DEF Known
  <2>2. CASE ~ByHand
    <3>1. call.refused \subseteq Skipped(call)
      BY <1>1, <1>6 DEF Known, Skipped
    <3>2. r.model # None => r.model \notin Skipped(call)
      BY <1>1, <1>2, <2>2, RouteFresh
    <3>3. None \notin call.refused
      BY <1>1, NoneAssumption DEF Call
    <3> QED
      BY <1>4, <1>6, <3>1, <3>2, <3>3
  <2> QED
    BY <2>1, <2>2
<1> QED
  BY <1>5, <1>6

(* A delegation that is tried again never goes to a model refused for it:   *)
(* the router leaves out what the loop or the task of the plan was refused, *)
(* and the policy of the agent what an API turned down.                     *)
THEOREM ANewModelEachTryCorrect ==
    Spec => ANewModelEachTry
<1>1. TryInv /\ [Next]_vars =>
        [(/\ call # None /\ call.phase = "routing" /\ Out'
          /\ ~restricted \/ capabilities.api)
            => call'.model \notin call.refused]_vars
  BY OnlyRoute, RouteNewModel
<1> QED
  BY <1>1, AlwaysTry, PTL DEF Spec, ANewModelEachTry

-----------------------------------------------------------------------------
(* An escalation is earned                                                 *)

(* The attempts that count towards the streak. *)
Barren(h) == {i \in DOMAIN h :
                 /\ h[i] = "barren"
                 /\ \A j \in i..Len(h) : h[j] # "progress"}

LEMMA StreakGrows ==
    ASSUME NEW g \in Seq(Kind), NEW h \in Seq(Kind), Barren(g) \subseteq Barren(h)
    PROVE  noProgressStreak(g) <= noProgressStreak(h)
<1>1. IsFiniteSet(1..Len(h))
  BY FS_Interval
<1>2. Barren(h) \subseteq 1..Len(h)
  BY DEF Barren
<1>3. IsFiniteSet(Barren(h))
  BY <1>1, <1>2, FS_Subset
<1>4. Cardinality(Barren(g)) <= Cardinality(Barren(h))
  BY <1>3, FS_Subset
<1> QED
  BY <1>4 DEF noProgressStreak, Barren

LEMMA NoStreakAtFirst == noProgressStreak(<<>>) = 0
<1>1. Barren(<<>>) = {}
  BY DEF Barren
<1> QED
  BY <1>1, FS_EmptySet DEF noProgressStreak, Barren

(* The gate takes the last attempt back. *)
Mended(h) == IF h = <<>> THEN h ELSE [h EXCEPT ![Len(h)] = "mechanical"]

(* The last attempt gives no reason to escalate. *)
Mild(h) == h = <<>> \/ h[Len(h)] # "barren"

LEMMA MendedIs ==
    ASSUME NEW h \in Seq(Kind)
    PROVE  /\ Mended(h) \in Seq(Kind) /\ Len(Mended(h)) = Len(h)
           /\ \A i \in 1..Len(h) :
                 Mended(h)[i] = IF i = Len(h) THEN "mechanical" ELSE h[i]
           /\ Mended(Mended(h)) = Mended(h)
<1>1. CASE h = <<>>
  BY <1>1 DEF Mended
<1>2. CASE h # <<>>
  <2> DEFINE g == [h EXCEPT ![Len(h)] = "mechanical"]
  <2>1. g \in Seq(Kind) /\ Len(g) = Len(h) /\ Len(h) \in 1..Len(h)
    BY <1>2 DEF Kind
  <2>2. \A i \in 1..Len(h) : g[i] = IF i = Len(h) THEN "mechanical" ELSE h[i]
    OBVIOUS
  <2>3. g # <<>> /\ [g EXCEPT ![Len(g)] = "mechanical"] = g
    <3>1. g \in [1..Len(h) -> Kind] /\ Len(g) = Len(h) /\ Len(h) \in 1..Len(h)
      BY <2>1
    <3>2. g[Len(h)] = "mechanical" /\ g # <<>>
      BY <1>2, <2>1, <2>2
    <3> HIDE DEF g
    <3> QED
      BY <3>1, <3>2
  <2>4. Mended(h) = g /\ Mended(g) = g
    BY <1>2, <2>3 DEF Mended
  <2> HIDE DEF g
  <2> QED
    BY <2>1, <2>2, <2>4
<1> QED
  BY <1>1, <1>2

LEMMA StreakOfAppended ==
    ASSUME NEW h \in Seq(Kind), NEW kind \in Kind \ {"barren"}
    PROVE  /\ Append(h, kind) \in Seq(Kind)
           /\ noProgressStreak(Append(h, kind)) <= noProgressStreak(h)
<1> DEFINE g == Append(h, kind)
<1>1. /\ g \in Seq(Kind) /\ Len(g) = Len(h) + 1 /\ g[Len(h) + 1] = kind
      /\ \A i \in 1..Len(h) : g[i] = h[i]
  OBVIOUS
<1> HIDE DEF g
<1>2. Barren(g) \subseteq Barren(h)
  BY <1>1 DEF Barren
<1> QED
  BY <1>1, <1>2, StreakGrows DEF g

LEMMA MendedAppended ==
    ASSUME NEW h \in Seq(Kind), NEW kind \in Kind
    PROVE  /\ noProgressStreak(Mended(Append(h, kind))) <= noProgressStreak(h)
           /\ Mild(Append(h, kind)) => kind # "barren"
<1> DEFINE g == Append(h, kind)
<1>1. /\ g \in Seq(Kind) /\ Len(g) = Len(h) + 1 /\ g[Len(h) + 1] = kind /\ g # <<>>
      /\ \A i \in 1..Len(h) : g[i] = h[i]
  OBVIOUS
<1> HIDE DEF g
<1>2. /\ Mended(g) \in Seq(Kind) /\ Len(Mended(g)) = Len(h) + 1
      /\ Mended(g)[Len(h) + 1] = "mechanical"
      /\ \A i \in 1..Len(h) : Mended(g)[i] = h[i]
  BY <1>1, MendedIs
<1>3. Barren(Mended(g)) \subseteq Barren(h)
  BY <1>2 DEF Barren
<1>4. noProgressStreak(Mended(g)) <= noProgressStreak(h)
  BY <1>2, <1>3, StreakGrows
<1>5. Mild(g) => kind # "barren"
  BY <1>1 DEF Mild
<1> QED
  BY <1>4, <1>5 DEF g

-----------------------------------------------------------------------------
(* A longer streak never asks for less                                     *)

LEMMA PromoteGrows ==
    ASSUME NEW t \in Int, NEW u \in Int, t <= u, NEW s \in Int, NEW p \in Int, s <= p
    PROVE  Promote(t, s) <= Promote(u, p)
  BY DEF Promote, Higher, Lower

LEMMA CapGrows ==
    ASSUME NEW x \in Tier, NEW y \in Tier, x <= y, NEW ceiling \in Tier \cup {None}
    PROVE  Cap(x, ceiling) <= Cap(y, ceiling)
  BY NoneAssumption DEF Cap, Within, Tier

LEMMA WantedGrows ==
    ASSUME NEW c, c.asked \in Tiers, NEW s \in Nat, NEW t \in Nat, s <= t
    PROVE  /\ Wanted(c, s) \in Tiers /\ Wanted(c, t) \in Tiers
           /\ Wanted(c, s).capability <= Wanted(c, t).capability
           /\ Wanted(c, s).reasoning <= Wanted(c, t).reasoning
<1> DEFINE lean(n) == CASE selection.mode = "quality" -> 1
                        [] selection.mode = "speed" /\ ~c.sensitive /\ n = 0 -> -1
                        [] OTHER -> 0
           floor == IF c.sensitive THEN 2 ELSE 0
           given(tier, steps, n) == Promote(Promote(Higher(tier, floor), steps), lean(n))
           more(n) == Lower(Higher(n - 1, 0), 2)
           deeper(n) == Lower(n, 2)
<1>1. lean(s) \in Int /\ lean(t) \in Int /\ lean(s) <= lean(t)
  OBVIOUS
<1>2. floor \in Int
  OBVIOUS
<1>3. /\ more(s) \in Int /\ more(t) \in Int /\ more(s) <= more(t)
      /\ deeper(s) \in Int /\ deeper(t) \in Int /\ deeper(s) <= deeper(t)
  BY DEF Lower, Higher
<1>4. c.asked.capability \in Int /\ c.asked.reasoning \in Int
  BY DEF Tiers, Tier
<1> HIDE DEF lean, floor, more, deeper
<1>5. ASSUME NEW tier \in Int, NEW x \in Int, NEW y \in Int, x <= y
      PROVE  /\ given(tier, x, s) \in 0..3 /\ given(tier, y, t) \in 0..3
             /\ given(tier, x, s) <= given(tier, y, t)
  <2>1. Higher(tier, floor) \in Int
    BY <1>2 DEF Higher
  <2>2. /\ Promote(Higher(tier, floor), x) \in Int /\ Promote(Higher(tier, floor), y) \in Int
        /\ Promote(Higher(tier, floor), x) <= Promote(Higher(tier, floor), y)
    BY <1>5, <2>1, PromoteGrows, PromoteType
  <2> QED
    BY <1>1, <2>2, PromoteGrows, PromoteType
<1>6. \A n \in Nat :
        Wanted(c, n) = [capability |-> given(c.asked.capability, more(n), n),
                        reasoning |-> given(c.asked.reasoning, deeper(n), n)]
  BY DEF Wanted, lean, floor, more, deeper
<1> HIDE DEF given
<1> QED
  BY <1>3, <1>4, <1>5, <1>6 DEF Tiers, Tier

-----------------------------------------------------------------------------
(* What a delegation is given                                              *)

(* The model the person or the agent has named sets the capability. *)
Named == IF agent.model # None THEN agent.model ELSE selection.model
ByName(tiers) ==
    [tiers EXCEPT !.capability = IF modelCapability(Named) = None THEN @
                                 ELSE modelCapability(Named)]

(* The tiers of a delegation, for a streak of n. *)
Given(c, limits, n) ==
    applyCeiling(IF ByHand THEN ByName(c.asked) ELSE Wanted(c, n), limits)

LEMMA GivenGrows ==
    ASSUME NEW c, c.asked \in Tiers, NEW limits \in Policy,
           NEW s \in Nat, NEW t \in Nat, s <= t
    PROVE  /\ Given(c, limits, s).capability <= Given(c, limits, t).capability
           /\ Given(c, limits, s).reasoning <= Given(c, limits, t).reasoning
<1>1. /\ limits.maxCapability \in Tier \cup {None} /\ limits.maxReasoning \in Tier \cup {None}
  BY DEF Policy
<1>2. ASSUME NEW x \in Tiers, NEW y \in Tiers,
             x.capability <= y.capability, x.reasoning <= y.reasoning
      PROVE  /\ applyCeiling(x, limits).capability <= applyCeiling(y, limits).capability
             /\ applyCeiling(x, limits).reasoning <= applyCeiling(y, limits).reasoning
  BY <1>1, <1>2, CapGrows DEF applyCeiling, Tiers
<1>3. CASE ByHand
  <2>1. Given(c, limits, s) = Given(c, limits, t) /\ Given(c, limits, s) = applyCeiling(ByName(c.asked), limits)
    BY <1>3 DEF Given
  <2>2. /\ modelCapability(Named) \in Tier \cup {None}
    BY NoneAssumption DEF modelCapability, Tier
  <2>3. ByName(c.asked) \in Tiers
    BY <2>2 DEF ByName, Tiers
  <2>4. applyCeiling(ByName(c.asked), limits) \in Tiers
    BY <2>3, CeilingType
  <2> QED
    BY <2>1, <2>4 DEF Tiers, Tier
<1>4. CASE ~ByHand
  BY <1>2, <1>4, WantedGrows DEF Given
<1> QED
  BY <1>3, <1>4

LEMMA RouteGives ==
    ASSUME TypeOK, NEW c \in Call, ~c.branch
    PROVE  LET r == routeWorkerModel(c)
               given == Given(c, policyFor, noProgressStreak(attempts))
           IN r.capability = given.capability /\ r.reasoning = given.reasoning
<1> DEFINE auto == RouteAuto(c, Skipped(c), policyFor)
           fixed == RouteManual(auto.model, agent.effort, c.asked, policyFor)
           own == RouteManual(agent.model, agent.effort, c.asked, policyFor)
           typed == RouteManual(selection.model, selection.effort, c.asked, policyFor)
           over == RouteManual(typed.model, agent.effort, c.asked, policyFor)
           free == [typed EXCEPT !.effort = over.effort, !.blocked = over.blocked]
           mixed == [auto EXCEPT !.effort = fixed.effort, !.blocked = fixed.blocked]
           given == Given(c, policyFor, noProgressStreak(attempts))
<1>1. policyFor \in Policy /\ Skipped(c) \in SUBSET Model
  BY LimitsType DEF Call, Skipped, TypeOK
<1>2. /\ agent.model \in Model \cup {None} /\ agent.effort \in Effort \cup {None}
      /\ selection.model \in Model \cup {None} /\ selection.effort \in Effort \cup {None}
      /\ c.asked \in Tiers
  BY DEF TypeOK, AgentConfig, Choice, Call
<1>3. auto \in Routed /\ own \in Routed /\ typed \in Routed
  BY <1>1, <1>2, AutoPermits, ManualPermits
<1>4. routeWorkerModel(c) =
        IF agent.model # None THEN own
        ELSE IF selection.mode = "manual"
        THEN IF typed.blocked \/ agent.effort = None THEN typed ELSE free
        ELSE IF auto.blocked \/ agent.effort = None THEN auto ELSE mixed
  BY DEF routeWorkerModel
<1>5. /\ free.capability = typed.capability /\ free.reasoning = typed.reasoning
      /\ mixed.capability = auto.capability /\ mixed.reasoning = auto.reasoning
  <2> HIDE DEF typed, auto, over, fixed
  <2> QED
    BY <1>3 DEF Routed
<1>6. ASSUME ~ByHand
      PROVE  auto.capability = given.capability /\ auto.reasoning = given.reasoning
  BY <1>6 DEF RouteAuto, Given
<1>7. ASSUME NEW m, NEW e
      PROVE  LET wanted == [c.asked EXCEPT !.capability =
                              IF modelCapability(m) = None THEN @ ELSE modelCapability(m)]
                 r == RouteManual(m, e, c.asked, policyFor)
             IN /\ r.capability = applyCeiling(wanted, policyFor).capability
                /\ r.reasoning = applyCeiling(wanted, policyFor).reasoning
  BY DEF RouteManual
<1>8. ASSUME agent.model # None
      PROVE  own.capability = given.capability /\ own.reasoning = given.reasoning
  BY <1>7, <1>8 DEF Given, ByHand, ByName, Named
<1>9. ASSUME agent.model = None, selection.mode = "manual"
      PROVE  typed.capability = given.capability /\ typed.reasoning = given.reasoning
  BY <1>7, <1>9 DEF Given, ByHand, ByName, Named
<1> HIDE DEF auto, fixed, own, typed, over, free, mixed, given
<1>10. LET r == routeWorkerModel(c)
       IN r.capability = given.capability /\ r.reasoning = given.reasoning
  BY <1>4, <1>5, <1>6, <1>8, <1>9 DEF ByHand
<1> QED
  BY <1>10 DEF given


-----------------------------------------------------------------------------
(* The invariant: what the last delegation was given, it was given for a   *)
(* streak that the attempts since then have not exceeded.                  *)

Earned(streak) ==
    /\ previous.capability = Given(previous, previous.limits, streak).capability
    /\ previous.reasoning = Given(previous, previous.limits, streak).reasoning
    /\ Mild(attempts) => noProgressStreak(attempts) <= streak
    /\ status = "RUNNING" /\ (call = None \/ call.branch)
         => noProgressStreak(Mended(attempts)) <= streak
    /\ Out /\ ~call.branch => noProgressStreak(attempts) <= streak

EscOK == previous # None => \E streak \in Nat : Earned(streak)
EscInv == TryInv /\ EscOK

LEMMA GivenStands ==
    ASSUME UNCHANGED chosen, NEW c, NEW limits, NEW n,
           previous'.asked = c.asked, previous'.sensitive = c.sensitive,
           previous'.limits = limits
    PROVE  Given(previous, previous.limits, n)' = Given(c, limits, n)
  BY DEF Given, ByHand, ByName, Named, Wanted, chosen

LEMMA EarnedStands ==
    ASSUME NEW n \in Nat, Earned(n), UNCHANGED <<chosen, previous>>,
           Mild(attempts') => noProgressStreak(attempts') <= n,
           status' = "RUNNING" /\ (call' = None \/ call'.branch)
             => noProgressStreak(Mended(attempts')) <= n,
           call' # None /\ call'.phase = "out" /\ ~call'.branch
             => noProgressStreak(attempts') <= n
    PROVE  Earned(n)'
<1>1. PICK p : p = previous
  OBVIOUS
<1>2. Given(previous, previous.limits, n)' = Given(p, p.limits, n)
  BY <1>1, GivenStands
<1> QED
  BY <1>1, <1>2 DEF Earned, Out

(* The attempts stay, and the loop does not come to a point where they count *)
(* for more than they did.                                                   *)
LEMMA EscNext ==
    ASSUME EscOK, UNCHANGED <<chosen, previous, attempts>>,
           status' = "RUNNING" /\ (call' = None \/ call'.branch)
             => status = "RUNNING" /\ (call = None \/ call.branch),
           call' # None /\ call'.phase = "out" /\ ~call'.branch => Out /\ ~call.branch
    PROVE  EscOK'
<1> SUFFICES ASSUME previous # None PROVE EscOK'
  BY DEF EscOK
<1>1. PICK n \in Nat : Earned(n)
  BY DEF EscOK
<1>2. /\ Mild(attempts') => noProgressStreak(attempts') <= n
      /\ status' = "RUNNING" /\ (call' = None \/ call'.branch)
           => noProgressStreak(Mended(attempts')) <= n
      /\ call' # None /\ call'.phase = "out" /\ ~call'.branch
           => noProgressStreak(attempts') <= n
  BY <1>1 DEF Earned
<1>3. Earned(n)'
  BY <1>1, <1>2, EarnedStands
<1> QED
  BY <1>3 DEF EscOK

(* The attempt of a delegation has ended. *)
LEMMA EscRemembered ==
    ASSUME EscInv, Out, NEW kind \in Kind, Remember(kind), call' = None,
           UNCHANGED <<chosen, previous, status>>
    PROVE  EscOK'
<1>1. attempts \in Seq(Kind)
  BY DEF EscInv, TryInv, Inv, TypeOK
<1>2. CASE call.branch
  <2>1. UNCHANGED attempts
    BY <1>2 DEF Remember
  <2> QED
    BY <1>2, <2>1, EscNext DEF EscInv
<1>3. CASE ~call.branch
  <2> SUFFICES ASSUME previous # None PROVE EscOK'
    BY DEF EscOK
  <2>1. PICK n \in Nat : Earned(n)
    BY DEF EscInv, EscOK
  <2>2. noProgressStreak(attempts) <= n /\ attempts' = Append(attempts, kind)
    BY <1>3, <2>1 DEF Earned, Remember
  <2>3. /\ attempts' \in Seq(Kind) /\ Mended(attempts') \in Seq(Kind)
    <3>1. PICK h : h = attempts'
      OBVIOUS
    <3>2. h \in Seq(Kind)
      BY <1>1, <2>2, <3>1
    <3> QED
      BY <3>1, <3>2, MendedIs
  <2>4. noProgressStreak(Mended(attempts')) <= noProgressStreak(attempts)
    BY <1>1, <2>2, MendedAppended
  <2>5. Mild(attempts') => noProgressStreak(attempts') <= noProgressStreak(attempts)
    BY <1>1, <2>2, MendedAppended, StreakOfAppended
  <2>6. /\ noProgressStreak(attempts) \in Nat /\ noProgressStreak(attempts') \in Nat
        /\ noProgressStreak(Mended(attempts')) \in Nat
    BY <1>1, <2>3, StreakType
  <2>7. /\ Mild(attempts') => noProgressStreak(attempts') <= n
        /\ noProgressStreak(Mended(attempts')) <= n
    BY <2>2, <2>4, <2>5, <2>6
  <2>8. Earned(n)'
    BY <2>1, <2>7, EarnedStands
  <2> QED
    BY <2>8 DEF EscOK
<1> QED
  BY <1>2, <1>3

(* A call that does not go out stops the run. *)
LEMMA InvokeStops ==
    ASSUME Inv, call # None, NEW r \in Routed, NEW again \in BOOLEAN, invoke(r, again),
           call' = None
    PROVE  status' \in {"FAILED", "NEEDS_HUMAN"}
<1> DEFINE out(model, effort) ==
             [call EXCEPT !.phase = "out", !.model = model, !.effort = effort,
                          !.routed = r, !.under = policyFor, !.again = again]
           verdict == resolveAgentPolicy(r)
<1>1. call \in Call /\ policyFor \in Policy
  BY LimitsType DEF Inv, TypeOK
<1>2. ASSUME NEW model \in Model \cup {None}, NEW effort \in Effort \cup {None}
      PROVE  call' # out(model, effort)
  <2>1. out(model, effort) \in Call
    BY <1>1 DEF Call
  <2> HIDE DEF out
  <2> QED
    BY <2>1, CallAssumption
<1>3. ~restricted => call' = out(r.model, r.effort)
  BY DEF invoke
<1>4. restricted
  BY <1>2, <1>3 DEF Routed
<1>5. CASE verdict.code = "RUNNING"
  <2>1. call' = out(verdict.model, verdict.effort)
    BY <1>4, <1>5 DEF invoke
  <2>2. verdict.model \in Model /\ verdict.effort \in Effort \cup {None}
    BY <1>5, OwnPermits DEF Inv
  <2> HIDE DEF verdict, out
  <2> QED
    BY <1>2, <2>1, <2>2
<1>6. CASE verdict.code # "RUNNING"
  BY <1>4, <1>6 DEF invoke
<1> QED
  BY <1>5, <1>6

(* A delegation of the loop is routed: the streak is the one it was given for. *)
LEMMA EscRouted ==
    ASSUME EscInv, Route
    PROVE  EscOK'
<1>1. /\ call # None /\ call \in Call /\ call.phase = "routing" /\ TypeOK /\ Inv
      /\ attempts \in Seq(Kind) /\ status = "RUNNING"
  BY DEF EscInv, TryInv, TryOK, Inv, TypeOK, Route
<1>2. UNCHANGED <<chosen, attempts>>
  BY DEF Route, memory
<1>3. PICK r : r = routeWorkerModel(call)
  OBVIOUS
<1>4. r \in Routed
  BY <1>1, <1>3, RoutePermits
<1>5. CASE status' = "NEEDS_HUMAN" /\ call' = None /\ UNCHANGED previous
  BY <1>2, <1>5, EscNext DEF EscInv
<1>6. ASSUME invoke(r, FALSE), previous' = previous, call.branch PROVE EscOK'
  <2>1. /\ call' = None => status' \in {status, "FAILED", "NEEDS_HUMAN"}
        /\ call' # None => call'.branch = call.branch
    BY <1>1, <1>4, <1>6, InvokeMade
  <2> QED
    BY <1>1, <1>2, <1>6, <2>1, EscNext DEF EscInv
<1>7. ASSUME invoke(r, FALSE), ~call.branch,
             previous' = [asked |-> call.asked, limits |-> policyFor,
                          sensitive |-> call.sensitive,
                          capability |-> r.capability, reasoning |-> r.reasoning]
      PROVE  EscOK'
  <2>1. PICK n \in Nat : n = noProgressStreak(attempts)
    BY <1>1, StreakType
  <2>2. PICK c, limits : c = call /\ limits = policyFor
    OBVIOUS
  <2>3. Given(previous, previous.limits, n)' = Given(c, limits, n)
    BY <1>2, <1>7, <2>2, GivenStands
  <2>4. r.capability = Given(c, limits, n).capability /\ r.reasoning = Given(c, limits, n).reasoning
    BY <1>1, <1>3, <1>7, <2>1, <2>2, RouteGives
  <2>5. call' # None => call'.branch = FALSE
    BY <1>1, <1>4, <1>7, InvokeMade DEF Call
  <2>6. status' = "RUNNING" => call' # None
    BY <1>1, <1>4, <1>7, InvokeStops
  <2>7. Earned(n)'
    BY <1>2, <1>7, <2>1, <2>3, <2>4, <2>5, <2>6 DEF Earned, Out
  <2> QED
    BY <2>7 DEF EscOK
<1> QED
  BY <1>3, <1>5, <1>6, <1>7 DEF Route


LEMMA EscRefused ==
    ASSUME EscInv, NEW named \in BOOLEAN, Refused(named)
    PROVE  EscOK'
<1>1. /\ Out /\ call \in Call /\ status = "RUNNING" /\ UNCHANGED <<chosen, previous, status>>
  BY DEF EscInv, TryInv, TryOK, Inv, TypeOK, Refused, Out
<1>2. CASE /\ call.model # None /\ call.routed.model # None /\ call.tries < MODEL_RETRIES
           /\ call' = [call EXCEPT !.phase = "routing", !.tries = @ + 1,
                                   !.refused = @ \cup {call.model},
                                   !.skip = IF call.branch
                                            THEN @ \cup {call.routed.model}
                                            ELSE @]
           /\ UNCHANGED attempts
  <2>1. call'.phase = "routing" /\ call'.branch = call.branch
    BY <1>1, <1>2 DEF Call
  <2>2. call' # None
    <3>1. call.routed.model \in Model /\ call.model \in Model
      BY <1>1, <1>2 DEF EscInv, TryInv, Inv, TypeOK, Routed, Call
    <3>2. call.tries + 1 \in 0..MODEL_RETRIES
      BY <1>1, <1>2 DEF Call, MODEL_RETRIES
    <3>3. call' \in Call
      BY <1>1, <1>2, <3>1, <3>2 DEF Call
    <3> QED
      BY <3>3, CallAssumption
  <2> QED
    BY <1>1, <1>2, <2>1, <2>2, EscNext DEF EscInv
<1>3. ASSUME NEW kind \in {"refused", "barren"}, Remember(kind), call' = None
      PROVE  EscOK'
  BY <1>1, <1>3, EscRemembered DEF Kind
<1> QED
  BY <1>2, <1>3 DEF Refused

(* The gate counts only between delegations, and takes back the last attempt. *)
LEMMA EscMended ==
    ASSUME EscInv, GateIsMechanical
    PROVE  EscOK'
<1>1. /\ call = None /\ call' = None /\ status = "RUNNING" /\ attempts \in Seq(Kind)
      /\ UNCHANGED <<chosen, previous, status>> /\ attempts' = Mended(attempts)
  BY DEF EscInv, TryInv, Inv, TypeOK, GateIsMechanical, Mended
<1> SUFFICES ASSUME previous # None PROVE EscOK'
  BY <1>1 DEF EscOK
<1>2. PICK n \in Nat : Earned(n)
  BY DEF EscInv, EscOK
<1>3. noProgressStreak(Mended(attempts)) <= n
  BY <1>1, <1>2 DEF Earned
<1>4. Mended(attempts') = attempts'
  BY <1>1, MendedIs
<1>5. Earned(n)'
  BY <1>1, <1>2, <1>3, <1>4, EarnedStands
<1> QED
  BY <1>5 DEF EscOK

(* A new loop has no attempts. *)
LEMMA EscRelaunched ==
    ASSUME EscInv, Relaunch, status = "NEEDS_HUMAN", UNCHANGED <<chosen, previous, call>>
    PROVE  EscOK'
<1> SUFFICES ASSUME previous # None PROVE EscOK'
  BY DEF EscOK
<1>1. PICK n \in Nat : Earned(n)
  BY DEF EscInv, EscOK
<1>2. attempts' = <<>> /\ call' = None
  BY DEF EscInv, TryInv, TryOK, Relaunch
<1>3. noProgressStreak(<<>>) <= n /\ Mended(<<>>) = <<>>
  BY NoStreakAtFirst DEF Mended
<1>4. Earned(n)'
  BY <1>1, <1>2, <1>3, EarnedStands
<1> QED
  BY <1>4 DEF EscOK

LEMMA StepEsc ==
    EscInv /\ [Next]_vars => EscInv'
<1> SUFFICES ASSUME EscInv, [Next]_vars PROVE EscOK'
  BY StepTry DEF EscInv
<1>0. /\ Inv /\ TypeOK /\ EscOK /\ (status # "RUNNING" => call = None)
  BY DEF EscInv, TryInv, TryOK, Inv
<1>1. ASSUME NEW asked \in Asked, NEW s \in BOOLEAN, NEW b \in BOOLEAN,
             Delegate(asked, s, b)
      PROVE  EscOK'
  <2>1. /\ status = "RUNNING" /\ call = None
        /\ UNCHANGED <<chosen, previous, attempts, status>>
        /\ call'.phase = "routing"
    BY <1>1 DEF Delegate, memory
  <2> QED
    BY <1>0, <2>1, EscNext
<1>2. ASSUME NEW kind \in {"progress", "barren", "mechanical"}, Answer(kind)
      PROVE  EscOK'
  BY <1>2, EscRemembered DEF Answer, Kind
<1>3. CASE SessionGone
  <2>1. /\ Out /\ call \in Call /\ call.routed \in Routed /\ status = "RUNNING"
        /\ UNCHANGED <<chosen, attempts, previous>>
    BY <1>0, <1>3 DEF SessionGone, Out, memory, TypeOK
  <2>2. CASE restricted
    <3>1. invoke(call.routed, TRUE)
      BY <1>3, <2>2 DEF SessionGone
    <3>2. /\ call' # None => call'.branch = call.branch
          /\ call' = None => status' # "RUNNING"
      BY <1>0, <2>1, <3>1, InvokeMade, InvokeStops DEF Out
    <3> QED
      BY <1>0, <2>1, <3>2, EscNext
  <2>3. CASE ~restricted
    <3>1. call' = [call EXCEPT !.again = TRUE] /\ UNCHANGED status
      BY <1>3, <2>3 DEF SessionGone
    <3>2. call' \in Call /\ call'.branch = call.branch /\ call'.phase = call.phase
      BY <2>1, <3>1 DEF Call
    <3> QED
      BY <1>0, <2>1, <3>1, <3>2, CallAssumption, EscNext
  <2> QED
    BY <2>2, <2>3
<1>4. CASE ToolDenied
  BY <1>0, <1>4, EscNext DEF ToolDenied, memory
<1>5. CASE UNCHANGED <<chosen, status, attempts, call, previous>>
  BY <1>0, <1>5, EscNext DEF Out
<1>6. CASE \E a \in Account : setRoutingPolicy(a)
  BY <1>5, <1>6 DEF setRoutingPolicy, memory
<1>7. CASE (\E m \in Model : ConfirmModel(m)) \/ AnswerPermission
  BY <1>7, EscRelaunched DEF ConfirmModel, AnswerPermission
<1>8. CASE UNCHANGED vars
  BY <1>5, <1>8 DEF vars, memory
<1> QED
  BY <1>1, <1>2, <1>3, <1>4, <1>6, <1>7, <1>8, EscRouted, EscRefused, EscMended DEF Next

(* Only routing a delegation of the loop changes what it was given. *)
LEMMA OnlyRouteGives ==
    ASSUME EscInv, [Next]_vars, previous # None, previous' # previous,
           previous'.asked = previous.asked, previous'.sensitive = previous.sensitive,
           previous'.limits = previous.limits, Mild(attempts)
    PROVE  /\ previous'.capability <= previous.capability
           /\ previous'.reasoning <= previous.reasoning
<1>1. Route
  BY DEF Next, Delegate, Answer, Refused, SessionGone, ToolDenied,
     GateIsMechanical, setRoutingPolicy, ConfirmModel, AnswerPermission, vars
<1>2. /\ call # None /\ call \in Call /\ TypeOK /\ attempts \in Seq(Kind)
      /\ previous.asked \in Tiers /\ previous.limits \in Policy
  BY <1>1 DEF EscInv, TryInv, Inv, TypeOK, Route
<1>3. PICK r : r = routeWorkerModel(call)
  OBVIOUS
<1>4. /\ ~call.branch
      /\ previous' = [asked |-> call.asked, limits |-> policyFor,
                      sensitive |-> call.sensitive,
                      capability |-> r.capability, reasoning |-> r.reasoning]
  BY <1>1, <1>3 DEF Route
<1> DEFINE now == noProgressStreak(attempts)
<1>5. /\ r.capability = Given(call, policyFor, now).capability
      /\ r.reasoning = Given(call, policyFor, now).reasoning
  BY <1>2, <1>3, <1>4, RouteGives
<1>6. Given(call, policyFor, now) = Given(previous, previous.limits, now)
  BY <1>4 DEF Given, Wanted
<1>7. PICK n \in Nat : Earned(n)
  BY DEF EscInv, EscOK
<1>8. now \in Nat /\ now <= n
  BY <1>2, <1>7, StreakType DEF Earned
<1>9. /\ previous.capability = Given(previous, previous.limits, n).capability
      /\ previous.reasoning = Given(previous, previous.limits, n).reasoning
  BY <1>7 DEF Earned
<1>10. /\ Given(previous, previous.limits, now).capability
            <= Given(previous, previous.limits, n).capability
       /\ Given(previous, previous.limits, now).reasoning
            <= Given(previous, previous.limits, n).reasoning
  BY <1>2, <1>8, GivenGrows
<1> QED
  BY <1>4, <1>5, <1>6, <1>9, <1>10

\* A worker asked for the same under the same limits is given a stronger tier
\* only after an attempt that failed for want of a better model
\* (model-router.ts:163-211 and 304-318, orchestration-service.ts:1163-1168).
THEOREM EscalationIsEarnedCorrect ==
    Spec => EscalationIsEarned
<1>1. Init => EscOK
  BY DEF Init, EscOK
<1>2. Spec => []EscInv
  BY <1>1, InitInv, StepEsc, AlwaysTry, PTL DEF Spec, EscInv
<1>3. EscInv /\ [Next]_vars =>
        [(/\ previous # None /\ previous' # previous
          /\ previous'.asked = previous.asked
          /\ previous'.sensitive = previous.sensitive
          /\ previous'.limits = previous.limits
          /\ attempts = <<>> \/ attempts[Len(attempts)] # "barren")
            => /\ previous'.capability <= previous.capability
               /\ previous'.reasoning <= previous.reasoning]_vars
  BY OnlyRouteGives DEF Mild
<1> QED
  BY <1>2, <1>3, PTL DEF Spec, EscalationIsEarned

=============================================================================
