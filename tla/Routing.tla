------------------------------- MODULE Routing -------------------------------
(***************************************************************************)
(* Which model and how much reasoning a worker is run with.  A delegation  *)
(* asks for a capability and a reasoning tier; model-router.ts turns them  *)
(* into a model and an effort under the policy of the account, and, where  *)
(* the agent or the application has a policy, agent-execution-policy.ts    *)
(* decides once more at the call itself.  A model the CLI refuses is       *)
(* replaced by the next; a pause resumes the run with its calls counted.   *)
(*                                                                         *)
(* Tiers are ranks (FAST or LOW is 0, MAX is 3), efforts are positions in  *)
(* EFFORT_ORDER.  The worker is a Claude one: OpenAI has no model table.   *)
(***************************************************************************)
EXTENDS Integers, Sequences, FiniteSets

CONSTANTS
    None,
    Account,        \* routing policies the person may give the account
    Setup,          \* what a run finds: the agent's configuration, how the
                    \* project chooses models, what the connection takes, and
                    \* the models the global policy asks to confirm
    Asked,          \* requirements of a decision, [capability, reasoning]
    MaxIterations,  \* DEFAULTS.maxIterations
    MaxEdits,       \* bound: changes of the account's policy
    MaxPauses       \* bound: resumptions after a pause

VARIABLES
    account,        \* accounts.max_capability, max_reasoning, allow_premium
    agent, selection, capabilities, confirm,   \* as in Setup, for the run
    status, iteration,
    attempts,       \* attemptsByWorker: how the attempts of the loop ended
    unavailable,    \* unavailableByWorker: models this loop was refused
    call,           \* the delegation under way
    spent,          \* rows of agent_policy_calls that reached the provider
    turnedDown,     \* models those rows report as unavailable
    pending,        \* rows CONFIRMATION_REQUIRED: model and fingerprint
    confirmed,      \* model_confirmations
    denied,         \* a question about a refused tool waits for the person
    previous,       \* the last delegation of the loop itself, as routed
    edits, pauses

chosen == <<agent, selection, capabilities, confirm>>
memory == <<attempts, unavailable>>
ledger == <<spent, turnedDown, pending, confirmed>>
vars == <<account, chosen, status, iteration, memory, call, ledger, denied,
          previous, edits, pauses>>

MODEL_RETRIES == 2
DefaultAttempts == 8
Tier == 0..3
Effort == 0..7
UNIVERSAL_EFFORTS == {2, 3, 4}
CLAUDE_MODELS == << <<"haiku", "sonnet">>, <<"sonnet">>, <<"opus">>,
                    <<"fable", "opus">> >>
Model == {"haiku", "sonnet", "opus", "fable"}
Premium == {"fable"}

Tiers == [capability : Tier, reasoning : Tier]
Policy == [maxCapability : Tier \cup {None}, maxReasoning : Tier \cup {None},
           premium : BOOLEAN]
OwnPolicy == [candidates : Seq(Model), effort : Effort \cup {None},
              maxAttempts : Nat \ {0}]
AgentConfig == [policy : OwnPolicy \cup {None}, model : Model \cup {None},
                effort : Effort \cup {None}, maxCapability : Tier \cup {None},
                maxReasoning : Tier \cup {None}]
Choice == [mode : {"auto", "speed", "quality", "manual"},
           model : Model \cup {None}, effort : Effort \cup {None}]
Taking == [modelFlag : BOOLEAN, effortFlag : BOOLEAN, efforts : SUBSET Effort,
           api : BOOLEAN]

ASSUME NoneAssumption ==
    /\ None \notin Nat /\ None \notin Model
    /\ None \notin OwnPolicy
ASSUME RoutingAssumption ==
    /\ Account \subseteq Policy
    /\ Setup \subseteq [agent : AgentConfig, selection : Choice,
                        capabilities : Taking, confirm : SUBSET Model]
    /\ Asked \subseteq Tiers

modelCapability(m) ==
    CASE m = "haiku" -> 0 [] m = "sonnet" -> 1 [] m = "opus" -> 2
      [] m = "fable" -> 3 [] OTHER -> None

Lower(a, b) == IF a <= b THEN a ELSE b
Higher(a, b) == IF a >= b THEN a ELSE b
Highest(S) == IF S = {} THEN None ELSE CHOOSE e \in S : \A f \in S : f <= e
Promote(tier, steps) == Higher(0, Lower(3, tier + steps))
Within(x, ceiling) == ceiling = None \/ (x # None /\ x <= ceiling)
Cap(x, ceiling) == IF Within(x, ceiling) THEN x ELSE ceiling

\* maxReasoning as an effort: the router lowers MAX to "max", the agent's
\* policy reads it as "ultra".
EffortCeiling(tier, top) ==
    IF tier = None THEN None ELSE IF tier = 3 THEN top ELSE tier + 2

Accepted == IF capabilities.efforts = {} THEN UNIVERSAL_EFFORTS
            ELSE capabilities.efforts
resolveEffortForTier(tier) ==
    Highest((IF tier = 3 THEN {4, 5, 6} ELSE {tier + 2}) \cap Accepted)
resolveFixedEffort(saved) ==
    IF saved = None THEN None ELSE Highest({e \in Accepted : e <= saved})

\* The account's ceilings, lowered by the agent's own.
policyFor ==
    LET least(a, b) == IF a = None THEN b ELSE IF b = None THEN a ELSE Lower(a, b)
    IN [maxCapability |-> least(account.maxCapability, agent.maxCapability),
        maxReasoning |-> least(account.maxReasoning, agent.maxReasoning),
        premium |-> account.premium]

refusesModel(m, policy) == m \in Premium /\ ~policy.premium

-----------------------------------------------------------------------------
(* The router                                                              *)

\* The streak as it would be with mechanical failures counted.
StreakOfEveryAttempt(history) ==
    Cardinality({i \in DOMAIN history :
                    \A j \in i..Len(history) : history[j] # "progress"})

\* Attempts without progress since the last progress; the mechanical ones
\* and the refused models do not count.
noProgressStreak(history) ==
    Cardinality({i \in DOMAIN history :
                    /\ history[i] = "barren"
                    /\ \A j \in i..Len(history) : history[j] # "progress"})

\* Steps 2 to 5 of the router: what the task is given before any ceiling.
Wanted(c, streak) ==
    LET lean == CASE selection.mode = "quality" -> 1
                  [] selection.mode = "speed" /\ ~c.sensitive /\ streak = 0 -> -1
                  [] OTHER -> 0
        floor == IF c.sensitive THEN 2 ELSE 0
        given(tier, steps) ==
            Promote(Promote(Higher(tier, floor), steps), lean)
    IN [capability |-> given(c.asked.capability,
                             Lower(Higher(streak - 1, 0), 2)),
        reasoning  |-> given(c.asked.reasoning, Lower(streak, 2))]

applyCeiling(tiers, policy) ==
    [capability |-> Cap(tiers.capability, policy.maxCapability),
     reasoning  |-> Cap(tiers.reasoning, policy.maxReasoning)]

\* The tier's own models, those above it, then those below it.
Ladder(tier) ==
    LET rank(i) == IF i <= 4 - tier THEN tier + i ELSE 5 - i
    IN CLAUDE_MODELS[rank(1)] \o CLAUDE_MODELS[rank(2)]
       \o CLAUDE_MODELS[rank(3)] \o CLAUDE_MODELS[rank(4)]

\* As it would be with the ceiling applied to the tier alone.
UsableByTier(m, skip, policy) == m \notin skip /\ ~refusesModel(m, policy)

Usable(m, skip, policy) ==
    /\ m \notin skip
    /\ ~refusesModel(m, policy)
    /\ Within(modelCapability(m), policy.maxCapability)

candidateSequence(tier, skip, policy) ==
    LET ladder == Ladder(tier)
        usable == {i \in DOMAIN ladder : Usable(ladder[i], skip, policy)}
        first == CHOOSE i \in usable : \A j \in usable : i <= j
    IN IF usable = {} THEN [first |-> None, others |-> FALSE]
       ELSE [first |-> ladder[first],
             others |-> \E i \in usable : ladder[i] # ladder[first]]

RouteManual(typed, saved, tiers, policy) ==
    LET top == EffortCeiling(policy.maxReasoning, 6)
        request == IF top # None /\ (saved = None \/ saved > top)
                   THEN top ELSE saved
        effort == IF capabilities.effortFlag THEN resolveFixedEffort(request)
                  ELSE None
        known == modelCapability(typed)
        blocked ==
            \/ typed # None /\ refusesModel(typed, policy)
            \/ ~policy.premium /\ (typed = None \/ ~capabilities.modelFlag)
            \/ /\ policy.maxCapability # None
               /\ \/ known = None
                  \/ ~capabilities.modelFlag
                  \/ ~Within(known, policy.maxCapability)
            \/ policy.maxReasoning # None /\ effort = None
        given == applyCeiling(
                    [tiers EXCEPT !.capability = IF known = None THEN @ ELSE known],
                    policy)
    IN [model |-> IF blocked \/ ~capabilities.modelFlag THEN None ELSE typed,
        effort |-> effort, others |-> FALSE, blocked |-> blocked,
        capability |-> given.capability, reasoning |-> given.reasoning]

RouteAuto(c, skip, policy) ==
    LET streak == noProgressStreak(IF c.branch THEN <<>> ELSE attempts)
        given == applyCeiling(Wanted(c, streak), policy)
        found == IF capabilities.modelFlag
                 THEN candidateSequence(given.capability, skip, policy)
                 ELSE [first |-> None, others |-> FALSE]
        effort == IF capabilities.effortFlag
                  THEN resolveEffortForTier(given.reasoning) ELSE None
        blocked ==
            \/ capabilities.modelFlag /\ found.first = None
            \/ /\ ~capabilities.modelFlag
               /\ policy.maxCapability # None \/ ~policy.premium
            \/ policy.maxReasoning # None /\ effort = None
    IN [model |-> found.first, effort |-> effort, others |-> found.others,
        blocked |-> blocked, capability |-> given.capability,
        reasoning |-> given.reasoning]

\* As it would be if refused models were not remembered.
SkippedNone(c) == {}

\* The models this delegation leaves out: a task of a plan starts with none.
Skipped(c) == IF c.branch THEN c.skip ELSE unavailable

\* What delegate makes of a call: the agent's own model is a manual choice,
\* and its own effort is applied over an automatic one.
routeWorkerModel(c) ==
    LET policy == policyFor
        auto == RouteAuto(c, Skipped(c), policy)
        fixed == RouteManual(auto.model, agent.effort, c.asked, policy)
    IN CASE agent.model # None ->
                RouteManual(agent.model, agent.effort, c.asked, policy)
         [] agent.model = None /\ selection.mode = "manual" ->
                LET typed == RouteManual(selection.model, selection.effort,
                                         c.asked, policy)
                    over == RouteManual(typed.model, agent.effort, c.asked, policy)
                IN IF typed.blocked \/ agent.effort = None THEN typed
                   ELSE [typed EXCEPT !.effort = over.effort,
                                      !.blocked = over.blocked]
         [] OTHER ->
                IF auto.blocked \/ agent.effort = None THEN auto
                ELSE [auto EXCEPT !.effort = fixed.effort,
                                  !.blocked = fixed.blocked]

-----------------------------------------------------------------------------
(* The policy of the agent, applied at the call                            *)

restricted == agent.policy # None \/ confirm # {}
fingerprint == <<agent, account>>

\* Without a policy of its own the agent gets one fixed to the routed model.
agentPolicy(r) ==
    IF agent.policy # None THEN agent.policy
    ELSE LET m == IF r.model # None THEN r.model ELSE agent.model
         IN [candidates |-> IF m = None THEN <<>> ELSE <<m>>,
             effort |-> None, maxAttempts |-> DefaultAttempts]

allowed(m) ==
    /\ capabilities.modelFlag
    /\ ~refusesModel(m, account)
    /\ Within(modelCapability(m), policyFor.maxCapability)
    /\ m \notin turnedDown

\* The model, the effort, and what stops the call: resolveAgentPolicy, then
\* the count of attempts.
resolveAgentPolicy(r) ==
    LET policy == agentPolicy(r)
        fit == {i \in DOMAIN policy.candidates : allowed(policy.candidates[i])}
        model == policy.candidates[CHOOSE i \in fit : \A j \in fit : i <= j]
        request == IF policy.effort # None THEN policy.effort ELSE r.effort
        top == EffortCeiling(policyFor.maxReasoning, 7)
        clamped == IF request = None THEN top ELSE Cap(request, top)
        effort == IF clamped = None THEN None
                  ELSE Highest({e \in capabilities.efforts : e <= clamped})
        refuse(code) == [model |-> None, effort |-> None, code |-> code]
    IN IF fit = {} THEN refuse("MODEL_BLOCKED")
       ELSE IF model \in confirm /\ <<model, fingerprint>> \notin confirmed
       THEN [refuse("CONFIRMATION_REQUIRED") EXCEPT !.model = model]
       ELSE IF clamped # None /\ (~capabilities.effortFlag \/ effort = None)
       THEN refuse("REASONING")
       ELSE IF spent >= policy.maxAttempts THEN refuse("ATTEMPTS")
       ELSE [model |-> model, effort |-> effort, code |-> "RUNNING"]

\* AgentExecutionPolicy.invoke up to the call, or to the refusal that ends
\* the delegation.
invoke(r, again) ==
    LET out(model, effort) ==
            [call EXCEPT !.phase = "out", !.model = model, !.effort = effort,
                         !.routed = r, !.under = policyFor, !.again = again]
        verdict == resolveAgentPolicy(r)
    IN IF ~restricted
       THEN /\ call' = out(r.model, r.effort)
            /\ UNCHANGED <<status, ledger>>
       ELSE \/ /\ verdict.code = "RUNNING"
               /\ call' = out(verdict.model, verdict.effort)
               /\ spent' = spent + 1
               /\ UNCHANGED <<status, turnedDown, pending, confirmed>>
            \/ /\ verdict.code # "RUNNING"
               /\ status' = IF verdict.code = "ATTEMPTS" THEN "FAILED"
                            ELSE "NEEDS_HUMAN"
               /\ pending' = pending \cup
                      IF verdict.code = "CONFIRMATION_REQUIRED"
                      THEN {<<verdict.model, fingerprint>>} ELSE {}
               /\ call' = None
               /\ UNCHANGED <<spent, turnedDown, confirmed>>

-----------------------------------------------------------------------------
(* The loop                                                                *)

Init ==
    /\ account \in Account
    /\ \E s \in Setup : /\ agent = s.agent
                         /\ selection = s.selection
                         /\ capabilities = s.capabilities
                         /\ confirm = s.confirm
    /\ status = "RUNNING" /\ iteration = 0
    /\ attempts = <<>> /\ unavailable = {}
    /\ call = None
    /\ spent = 0 /\ turnedDown = {} /\ pending = {} /\ confirmed = {}
    /\ denied = FALSE
    /\ previous = None
    /\ edits = 0 /\ pauses = 0

\* A decision hands a task over, on its own or as a task of a plan.
Delegate(asked, sensitive, branch) ==
    /\ status = "RUNNING" /\ call = None
    /\ iteration < MaxIterations
    /\ iteration' = iteration + 1
    /\ call' = [phase |-> "routing", asked |-> asked, sensitive |-> sensitive,
                branch |-> branch, skip |-> {}, tries |-> 0, refused |-> {},
                again |-> FALSE, model |-> None, effort |-> None,
                routed |-> None, under |-> None]
    /\ UNCHANGED <<account, chosen, status, memory, ledger, denied, previous,
                   edits, pauses>>

\* One turn of the loop of delegate: route, then call.
Route ==
    /\ call # None /\ call.phase = "routing"
    /\ LET r == routeWorkerModel(call) IN
       \/ /\ r.blocked /\ agent.policy = None
          /\ status' = "NEEDS_HUMAN"
          /\ call' = None
          /\ UNCHANGED <<ledger, previous>>
       \/ /\ ~(r.blocked /\ agent.policy = None)
          /\ invoke(r, FALSE)
          /\ previous' = IF call.branch THEN previous
                         ELSE [asked |-> call.asked, limits |-> policyFor,
                               sensitive |-> call.sensitive,
                               capability |-> r.capability,
                               reasoning |-> r.reasoning]
    /\ UNCHANGED <<account, chosen, iteration, memory, denied, edits, pauses>>

\* The attempts of a loop: a task of a plan adds none.
Remember(kind) ==
    attempts' = IF call.branch THEN attempts ELSE Append(attempts, kind)

Out == call # None /\ call.phase = "out"

\* The worker answered, and the evidence said whether the tree moved.
Answer(kind) ==
    /\ Out
    /\ Remember(kind)
    /\ call' = None
    /\ UNCHANGED <<account, chosen, status, iteration, unavailable, ledger,
                   denied, previous, edits, pauses>>

\* The model was refused.  Only an API classifies the failure, which is what
\* the policy of the agent remembers; only words that name the model make
\* delegate try the next one.
Refused(named) ==
    /\ Out /\ call.model # None
    /\ named \/ capabilities.api
    /\ turnedDown' = IF restricted /\ capabilities.api
                     THEN turnedDown \cup {call.model} ELSE turnedDown
    /\ IF /\ named /\ call.routed.model # None /\ call.routed.others
          /\ call.tries < MODEL_RETRIES
       THEN /\ call' = [call EXCEPT !.phase = "routing", !.tries = @ + 1,
                                    !.refused = @ \cup {call.model},
                                    !.skip = IF call.branch
                                             THEN @ \cup {call.routed.model}
                                             ELSE @]
            /\ unavailable' = IF call.branch THEN unavailable
                              ELSE unavailable \cup {call.routed.model}
            /\ UNCHANGED attempts
       ELSE /\ call' = None
            /\ Remember(IF named /\ call.routed.model # None
                        THEN "refused" ELSE "barren")
            /\ UNCHANGED unavailable
    /\ UNCHANGED <<account, chosen, status, iteration, spent, pending,
                   confirmed, denied, previous, edits, pauses>>

\* As it would be if the second call of an attempt were not counted again.
SessionGoneUncounted ==
    /\ Out /\ ~call.again
    /\ call' = [call EXCEPT !.again = TRUE]
    /\ spent' = IF restricted THEN spent + 1 ELSE spent
    /\ UNCHANGED <<account, chosen, status, iteration, memory, turnedDown,
                   pending, confirmed, denied, previous, edits, pauses>>

\* The session to continue is gone: the same delegation, once more, as it was
\* routed; only the agent's policy is applied anew.
SessionGone ==
    /\ Out /\ ~call.again
    /\ IF restricted THEN invoke(call.routed, TRUE)
       ELSE /\ call' = [call EXCEPT !.again = TRUE]
            /\ UNCHANGED <<status, ledger>>
    /\ UNCHANGED <<account, chosen, iteration, memory, denied, previous, edits,
                   pauses>>

\* A tool was refused: the run waits for the person.
ToolDenied ==
    /\ Out /\ ~call.branch
    /\ status' = "NEEDS_HUMAN" /\ denied' = TRUE
    /\ call' = None
    /\ UNCHANGED <<account, chosen, iteration, memory, ledger, previous, edits,
                   pauses>>

\* The done gate rejected on grounds no model can mend: stopRepeatedRejection
\* takes the last attempt back.
GateIsMechanical ==
    /\ status = "RUNNING" /\ call = None
    /\ attempts # <<>>
    /\ attempts' = [attempts EXCEPT ![Len(attempts)] = "mechanical"]
    /\ UNCHANGED <<account, chosen, status, iteration, unavailable, call,
                   ledger, denied, previous, edits, pauses>>

-----------------------------------------------------------------------------
(* The person                                                              *)

setRoutingPolicy(a) ==
    /\ edits < MaxEdits /\ a # account
    /\ account' = a
    /\ edits' = edits + 1
    /\ UNCHANGED <<chosen, status, iteration, memory, call, ledger, denied,
                   previous, pauses>>

\* A run that goes on is a new loop, at the iteration it stopped in.
Relaunch ==
    /\ pauses < MaxPauses
    /\ pauses' = pauses + 1
    /\ status' = "RUNNING"
    /\ attempts' = <<>> /\ unavailable' = {}
    /\ iteration' = iteration - 1

\* agents.confirmModel: the confirmation counts for the policy it was asked
\* under, and the run goes on.
ConfirmModel(m) ==
    /\ status = "NEEDS_HUMAN"
    /\ <<m, fingerprint>> \in pending
    /\ confirmed' = confirmed \cup {<<m, fingerprint>>}
    /\ pending' = pending \ {<<m, fingerprint>>}
    /\ Relaunch
    /\ UNCHANGED <<account, chosen, call, spent, turnedDown, denied, previous,
                   edits>>

AnswerPermission ==
    /\ status = "NEEDS_HUMAN" /\ denied
    /\ denied' = FALSE
    /\ Relaunch
    /\ UNCHANGED <<account, chosen, call, ledger, previous, edits>>

Next ==
    \/ \E asked \in Asked, s, b \in BOOLEAN : Delegate(asked, s, b)
    \/ Route
    \/ \E kind \in {"progress", "barren", "mechanical"} : Answer(kind)
    \/ \E named \in BOOLEAN : Refused(named)
    \/ SessionGone
    \/ ToolDenied
    \/ GateIsMechanical
    \/ \E a \in Account : setRoutingPolicy(a)
    \/ \E m \in Model : ConfirmModel(m)
    \/ AnswerPermission

Spec == Init /\ [][Next]_vars

-----------------------------------------------------------------------------
(* Properties                                                              *)

Kind == {"progress", "barren", "mechanical", "refused"}
Routed == [model : Model \cup {None}, effort : Effort \cup {None},
           others : BOOLEAN, blocked : BOOLEAN, capability : Tier,
           reasoning : Tier]
Call == [phase : {"routing", "out"}, asked : Tiers, sensitive : BOOLEAN,
         branch : BOOLEAN, skip : SUBSET Model, tries : 0..MODEL_RETRIES,
         refused : SUBSET Model, again : BOOLEAN, model : Model \cup {None},
         effort : Effort \cup {None}, routed : Routed \cup {None},
         under : Policy \cup {None}]
ASSUME CallAssumption == None \notin Call

\* The types of the variables; what was called was routed before.
TypeOK ==
    /\ account \in Policy /\ agent \in AgentConfig
    /\ selection \in Choice /\ capabilities \in Taking
    /\ confirm \subseteq Model
    /\ status \in {"RUNNING", "NEEDS_HUMAN", "FAILED"}
    /\ iteration \in Int
    /\ attempts \in Seq(Kind) /\ unavailable \subseteq Model
    /\ call \in Call \cup {None}
    /\ Out => call.routed \in Routed /\ call.under \in Policy
    /\ spent \in Nat /\ turnedDown \subseteq Model
    /\ pending \subseteq Model \X (AgentConfig \X Policy)
    /\ confirmed \subseteq Model \X (AgentConfig \X Policy)
    /\ denied \in BOOLEAN
    /\ previous # None =>
           previous \in [asked : Tiers, limits : Policy, sensitive : BOOLEAN,
                        capability : Tier, reasoning : Tier]
    /\ edits \in Nat /\ pauses \in Nat

\* The model and the effort are ones the policy lets this account use; no
\* model at all, the CLI's default, only where nothing is forbidden.
Permits(policy, model, effort) ==
    /\ IF model = None
       THEN policy.maxCapability = None /\ policy.premium
       ELSE /\ ~refusesModel(model, policy)
            /\ Within(modelCapability(model), policy.maxCapability)
    /\ Within(effort, EffortCeiling(policy.maxReasoning, 7))

\* Whatever was asked, escalated, refused before or typed, a call never
\* exceeds what the account and the agent allowed when it was made (the
\* ceiling clamps tiers, and the stand-ins above a tier must respect it too:
\* account-policy.ts:17-22), and a model to confirm was confirmed.
NothingOverTheCeiling ==
    Out => Permits(call.under, call.model, call.effort)

\* A delegation that is tried again is never sent to a model that was already
\* refused for it, by the router nor by the policy of the agent (which knows
\* only the refusals an API classified).
ANewModelEachTry ==
    [][(/\ call # None /\ call.phase = "routing" /\ Out'
        /\ ~restricted \/ capabilities.api)
         => call'.model \notin call.refused]_vars

\* A worker asked for the same as the time before, under the same limits, is
\* given a stronger tier only if its last attempt ended without progress for
\* a reason a better model could fix: never after a mechanical failure, a
\* refused model, a pause, or a gate that took the attempt back.
EscalationIsEarned ==
    [][(/\ previous # None /\ previous' # previous
        /\ previous'.asked = previous.asked
        /\ previous'.sensitive = previous.sensitive
        /\ previous'.limits = previous.limits
        /\ attempts = <<>> \/ attempts[Len(attempts)] # "barren")
         => /\ previous'.capability <= previous.capability
            /\ previous'.reasoning <= previous.reasoning]_vars

\* An agent with a policy reaches its provider at most as often in a run as
\* the policy says, session retries, refused models and resumed loops counted.
AttemptsAreCounted ==
    agent.policy # None => spent <= agent.policy.maxAttempts
=============================================================================
