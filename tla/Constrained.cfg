SPECIFICATION Spec
CONSTANTS
  max_num_nodes = 4
  num_arcs = 5
  Graphs <- MCGraphs
  Capacities <- MCCapacities
  Supplies <- MCSupplies
  num_constraints = 2
  Problems <- MCProblems
  Iterations = {4}
  Tolerances = {5, 50}
  FCNFP_iterations = 2
  first_round_FCNFP_iterations = 4
  Unit = 10
  decay <- MCdecay
INVARIANTS
  AssertionsHold
  StopsAtFixedPoint
  ReturnsBest
PROPERTY
  BestOnlyImproves
CHECK_DEADLOCK FALSE
