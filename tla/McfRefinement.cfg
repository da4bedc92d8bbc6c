SPECIFICATION Spec
CONSTANTS
  max_num_nodes = 4
  num_arcs = 5
  INFINITE = 100
  cap_threshold = 1
  Graphs <- MCGraphs
  Capacities <- MCCapacities
  Costs <- MCCosts
  Potentials <- MCPotentials
  Supplies <- MCSupplies
  Amounts = {1, 3}
  MaxCalls = 2
INVARIANTS
  ComplementarySlackness
  AugmentationFits
PROPERTIES
  RoutingMonotone
  Implements
  EveryCallReturns
CHECK_DEADLOCK FALSE
