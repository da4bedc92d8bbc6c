SPECIFICATION Spec
CONSTANTS
  max_num_nodes = 4
  num_arcs = 5
  INFINITE = 1000
  Graphs <- MCGraphs
  Capacities <- MCCapacities
  Costs <- MCCosts
  Supplies <- MCSupplies
  Orders <- MCOrders
INVARIANTS
  EpsilonOptimal
  CurrentArcSkipsNothing
  AdmissibleAcyclic
  PricesBounded
PROPERTIES
  PriceUpdateOpensPaths
  Implements
  EveryCallReturns
CHECK_DEADLOCK FALSE
