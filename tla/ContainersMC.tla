---------------------------- MODULE ContainersMC ----------------------------
(* The containers for TLC: a behaviour picks one of them and uses it.  A   *)
(* priority queue of four keys, arranged as gheap does with fanout 2; a    *)
(* queue of up to seven elements, in three chunks or four; a stack of up   *)
(* to five elements, that grows twice and shrinks.                         *)
EXTENDS PriorityQueue

CONSTANTS Element, Fresh,   \* what they hold, what fresh memory holds
          QUEUE_CACHE_SIZE, STACK_CACHE_SIZE, MaxQueue, MaxStack

(* A chunk has room for one element at least, and the stack grows.         *)
ASSUME CachesAssumption ==
  QUEUE_CACHE_SIZE \in Nat \ {0} /\ STACK_CACHE_SIZE \in Nat \ {0}

VARIABLES
  container,                                \* the one that is used
  chunks, dequeued,                         \* the queue, what it gave last
  reserved, len, data, popped               \* the stack, what it gave last

queueVars == <<chunks, dequeued>>
stackVars == <<reserved, len, data, popped>>
anyVars == <<container, heapVars, queueVars, stackVars>>

Fifo == INSTANCE Queue WITH
  Garbage <- Fresh, MaxLength <- MaxQueue, popped <- dequeued
Lifo == INSTANCE Stack WITH Garbage <- Fresh, MaxLength <- MaxStack

MCparent == [i \in 1 .. max_num_elements - 1 |-> (i - 1) \div 2]

AnyInit ==
  /\ container \in {"priorityqueue", "queue", "stack"}
  /\ priorityqueue_new /\ Fifo!Init /\ Lifo!Init
  /\ container # "priorityqueue" => value = [k \in Key |-> INFINITE]

UsePriorityQueue ==
  /\ container = "priorityqueue" /\ HeapNext
  /\ UNCHANGED <<container, queueVars, stackVars>>

UseQueue ==
  /\ container = "queue" /\ Fifo!Next
  /\ UNCHANGED <<container, heapVars, stackVars>>

UseStack ==
  /\ container = "stack" /\ Lifo!Next
  /\ UNCHANGED <<container, heapVars, queueVars>>

AnyNext == UsePriorityQueue \/ UseQueue \/ UseStack

AnySpec == AnyInit /\ [][AnyNext]_anyVars
-----------------------------------------------------------------------------
(* What the operations take for granted of the arrays they find, after any *)
(* sequence of operations: the heap is in order and the places of its keys *)
(* are right, no chunk is empty and only the last has room, the array of   *)
(* the stack has a free place.                                             *)
RepresentationsSound ==
  PointersTrack /\ HeapOrdered /\ Fifo!ChunksInUse /\ Lifo!ReserveFollows

(* What comes out of a queue went in first, out of a stack last.           *)
QueueImplements == Fifo!Implements
StackImplements == Lifo!Implements
=============================================================================
