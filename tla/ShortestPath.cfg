SPECIFICATION Spec
CONSTANTS
  max_num_nodes = 4
  num_arcs = 5
  INFINITE = 100
  cap_threshold = 1
  Graphs <- MCGraphs
  Capacities <- MCCapacities
  Costs <- MCCosts
  Potentials <- MCPotentials
  Sources = {0}
INVARIANTS
  SearchExact
  CappedDistancesFeasible
PROPERTIES
  PopsInOrder
  SearchEnds
CHECK_DEADLOCK FALSE
