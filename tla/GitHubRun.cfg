SPECIFICATION Spec
CONSTANTS
  a = a
  b = b
  f = f
  g = g
  Tasks = 2
  Resource = {a, b}
  Proposal <- MCProposal
  Plan <- MCPlan
  Limit = {0, 2}
  Width = 2
  ModelRetries = 1
  MaxRounds = 2
  MaxPushes = 1
  MaxResumes = 1
  NoPlan = NoPlan
  NoBranch = NoBranch
INVARIANTS
  OutcomeIsTrue
  DependentsSeeIt
  SpendingBounded
PROPERTIES
  NobodyIsOverwritten
CHECK_DEADLOCK FALSE
