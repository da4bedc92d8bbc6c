SPECIFICATION Spec
CONSTANTS
  max_num_nodes = 2
  max_num_arcs = 7
  arc_dual_bit = 2
  IndexWidth = 4
  Garbage = {15}
INVARIANT FlowCostReadsInBounds
