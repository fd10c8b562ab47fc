------------------------------ MODULE MCRouting ------------------------------
EXTENDS Routing

MCAccount == {[maxCapability |-> None, maxReasoning |-> None, premium |-> TRUE],
              [maxCapability |-> None, maxReasoning |-> None, premium |-> FALSE],
              [maxCapability |-> 1, maxReasoning |-> 1, premium |-> FALSE]}

plain == [policy |-> None, model |-> None, effort |-> None,
          maxCapability |-> None, maxReasoning |-> None]
fixed == [plain EXCEPT !.policy = [candidates |-> <<"opus">>, effort |-> 5,
                                   maxAttempts |-> 2]]
controlled == [fixed EXCEPT !.policy.candidates = <<"opus", "sonnet">>,
                            !.maxReasoning = 2]

Chooses(mode) == [mode |-> mode, model |-> "fable", effort |-> None]
cli == [modelFlag |-> TRUE, effortFlag |-> TRUE, efforts |-> 2..6, api |-> FALSE]

Has(a, mode, takes, asks) ==
    [agent |-> a, selection |-> Chooses(mode), capabilities |-> takes,
     confirm |-> asks]
MCSetup ==
    {Has(plain, "quality", cli, {}),
     Has(plain, "speed", [cli EXCEPT !.api = TRUE], {}),
     Has(plain, "manual", cli, {}),
     Has(plain, "auto", [cli EXCEPT !.modelFlag = FALSE, !.efforts = {}], {}),
     Has([plain EXCEPT !.model = "opus", !.effort = 6], "auto", cli, {}),
     Has([plain EXCEPT !.effort = 7, !.maxCapability = 1], "auto", cli, {}),
     Has(plain, "auto", cli, {"opus"}),
     Has(fixed, "auto", cli, {"opus"}),
     Has(controlled, "auto", [cli EXCEPT !.api = TRUE], {})}

MCAsked == {[capability |-> 1, reasoning |-> 1]}
=============================================================================
