SPECIFICATION Spec
CONSTANTS
  c1 = c1
  x = x
  y = y
  a1 = a1
  Criterion = {c1}
  Text = {x, y}
  Green = {x}
  Answer = {a1}
  Objective <- MCObjective
  Decision <- MCDecision
  AboutFile = {c1}
  Absent = Absent
  NoText = NoText
  NoCheck = NoCheck
  Open = Open
  MaxIterations = 2
  MaxResumes = 1
INVARIANTS
  DoneIsMeasured
PROPERTIES
  ProofIsNotRework
CHECK_DEADLOCK FALSE
