SPECIFICATION Spec
CONSTANTS
  IndexWidth = 5
  Tests <- MCTests
  Garbage <- MCGarbage
INVARIANTS
  NetworkAsRead
  AssertionsHold
  ReportedCostsRight
CHECK_DEADLOCK FALSE
