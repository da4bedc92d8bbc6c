SPECIFICATION Spec
CONSTANTS
  max_num_nodes = 3
  max_num_arcs = 7
  arc_dual_bit = 2
  IndexWidth = 4
  Garbage <- MCGarbage
INVARIANTS
  LinksOK
  ListsExact
  DualPairing
PROPERTY
  SecondAddIgnored
