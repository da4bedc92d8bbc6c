SPECIFICATION Spec
CONSTANTS
  max_num_nodes = 1
  num_arcs = 1
  INFINITE = 1000
  Graphs <- LoopGraphs
  Capacities <- LoopCapacities
  Costs <- LoopCosts
  Supplies <- LoopSupplies
  Orders <- MCOrders
INVARIANTS
  SolvedIsOptimal
CHECK_DEADLOCK FALSE
