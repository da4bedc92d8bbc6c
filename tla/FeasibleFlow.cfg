SPECIFICATION Spec
CONSTANTS
  max_num_nodes = 4
  num_arcs = 5
  INFINITE = 100
  Graphs <- MCGraphs
  Capacities <- MCCapacities
  Terminals <- TwoEnds
  Amounts = {1, 3}
  Thresholds = {1, 2}
INVARIANTS
  AssertionsHold
  DiscoveryTreeShortest
  AnswerExact
PROPERTIES
  Implements
  EveryCallReturns
CHECK_DEADLOCK FALSE
