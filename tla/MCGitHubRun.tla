------------------------------ MODULE MCGitHubRun ------------------------------
EXTENDS GitHubRun

CONSTANTS a, b, f, g

\* Two tasks: the second needs the first, or they are independent on one account
\* or on two, or they need each other
MCPlan ==
  {[needs |-> <<{}, {1}>>, resource |-> <<a, b>>],
   [needs |-> <<{}, {}>>, resource |-> <<a, a>>],
   [needs |-> <<{}, {}>>, resource |-> <<a, b>>],
   [needs |-> <<{2}, {1}>>, resource |-> <<a, b>>]}

MCProposal == {{}, {f}, {g}}
=============================================================================
