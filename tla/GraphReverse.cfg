SPECIFICATION Spec
CONSTANTS
  max_num_nodes = 2
  max_num_arcs = 4
  arc_dual_bit = 1
  IndexWidth = 3
  Garbage = {7}
INVARIANT RevListsExact
