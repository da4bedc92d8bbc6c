SPECIFICATION AnySpec
CONSTANTS
  max_num_elements = 4
  Value = {0, 1, 2}
  INFINITE = 2
  parent <- MCparent
  NULL = NULL
  Element = {"a", "b"}
  Fresh = "garbage"
  QUEUE_CACHE_SIZE = 3
  MaxQueue = 7
  STACK_CACHE_SIZE = 2
  MaxStack = 5
INVARIANTS
  RepresentationsSound
PROPERTIES
  Implements
  QueueImplements
  StackImplements
