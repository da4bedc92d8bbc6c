SPECIFICATION Spec
CONSTANTS
  max_num_nodes = 4
  num_arcs = 5
  INFINITE = 100
  Graphs <- MCGraphs
  Capacities <- MCCapacities
  Supplies <- MCSupplies
INVARIANTS
  LabelsValid
  MaxLabelMeansCutOff
PROPERTIES
  Implements
  EveryCallReturns
CHECK_DEADLOCK FALSE
