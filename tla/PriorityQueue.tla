--------------------------- MODULE PriorityQueue ---------------------------
(* The priority queue of src/mcf/mcf/priorityqueue.c: an array of keys     *)
(* that gheap arranges as a heap, with the value of every key in one array *)
(* and its place in the heap in another.                                   *)
(*                                                                         *)
(* gheap is not in the repository.  What the code relies on is modelled:   *)
(* the place "parent[i]" is above the place i; gheap_restore_heap_...      *)
(* repairs a heap with one item out of order, provided the item is out of  *)
(* order in the direction its name says; gheap_pop_heap moves the first    *)
(* item behind the others; item_mover is called for all items that move.   *)
(* How the items of a heap are arranged otherwise is left open.  Of base   *)
(* the first heapsize places are kept: nothing reads the others.           *)
EXTENDS Integers

CONSTANTS max_num_elements,
          Value,      \* priorities, of type s64
          INFINITE,   \* INT64_MAX
          parent,     \* places of the heap
          NULL

Key == 0 .. max_num_elements - 1

ASSUME KeysAssumption == max_num_elements \in Nat
ASSUME ValuesAssumption == Value \subseteq Int /\ INFINITE \in Value
ASSUME ParentAssumption ==
  /\ parent \in [1 .. max_num_elements - 1 -> Key]
  /\ \A i \in DOMAIN parent : parent[i] < i
ASSUME NullAssumption == NULL \notin Key

VARIABLES value,      \* of each key
          base,       \* the heap
          heapptr,    \* the place of a key in base, NULL if it has none
          heapsize
heapVars == <<value, base, heapptr, heapsize>>

Places(n) == 0 .. n - 1

HeapTypeOK ==
  /\ value \in [Key -> Value]
  /\ heapsize \in 0 .. max_num_elements
  /\ base \in [Places(heapsize) -> Key]
  /\ heapptr \in [Key -> Key \union {NULL}]
-----------------------------------------------------------------------------
(* priorityqueue_new clears heapptr and leaves value as it finds it.       *)
priorityqueue_new ==
  /\ value \in [Key -> Value]
  /\ base = [i \in Places(0) |-> 0] /\ heapsize = 0
  /\ heapptr = [k \in Key |-> NULL]

priorityqueue_init ==
  /\ value' = [k \in Key |-> INFINITE]
  /\ heapptr' = [k \in Key |-> NULL]
  /\ base' = [i \in Places(0) |-> 0] /\ heapsize' = 0

(* Mutant of less_comparer: the key of the greatest value is on top.       *)
less_comparer_max(v, a, b) == v[a] < v[b]

less_comparer(v, a, b) == v[a] > v[b]

(* Place i does not precede its parent.                                    *)
InOrder(v, b, i) == ~ less_comparer(v, b[parent[i]], b[i])

IsHeap(v, b, n) == \A i \in Places(n) \ {0} : InOrder(v, b, i)

(* The parent of a place does not follow the children of the place.        *)
GapInOrder(v, b, n, pos) ==
  pos # 0 => \A i \in Places(n) \ {0} :
               parent[i] = pos => ~ less_comparer(v, b[parent[pos]], b[i])

(* A heap but for the item at pos, which may have to go up, or down.       *)
UpIsEnough(v, b, n, pos) ==
  /\ \A i \in Places(n) \ {0, pos} : InOrder(v, b, i)
  /\ GapInOrder(v, b, n, pos)

DownIsEnough(v, b, n, pos) ==
  /\ \A i \in Places(n) \ {0} : parent[i] # pos => InOrder(v, b, i)
  /\ GapInOrder(v, b, n, pos)

(* What gheap makes of b: the same items, in a heap if one of its          *)
(* functions could repair it.                                              *)
Arranged(v, b, n, repairable) ==
  {[i \in Places(n) |-> b[p[i]]] : p \in {q \in [Places(n) -> Places(n)] :
     /\ \A i, j \in Places(n) : q[i] = q[j] => i = j
     /\ repairable => IsHeap(v, [i \in Places(n) |-> b[q[i]]], n)}}

(* heapptr after item_mover has been called for every item that moved.     *)
moved(ptr, b, c, n) ==
  [k \in Key |->
     IF \E i \in Places(n) : c[i] = k /\ b[i] # k
     THEN CHOOSE i \in Places(n) : c[i] = k ELSE ptr[k]]

Arrange(v, b, ptr, n, repairable) ==
  \E c \in Arranged(v, b, n, repairable) :
    base' = c /\ heapptr' = moved(ptr, b, c, n)

(* Mutant of decreases: the change is taken for its opposite.              *)
decreases_not(key, v) == value[key] <= v

in_heap(key) == heapptr[key] # NULL
decreases(key, v) == value[key] > v

(* A key that is not in the heap is appended and moved up; the value of    *)
(* one that is changes, and it is moved up or down.                        *)
priorityqueue_append(key, v) ==
  LET appended == [i \in Places(heapsize + 1) |->
                     IF i = heapsize THEN key ELSE base[i]]
  IN  /\ ~ in_heap(key)
      /\ value' = [value EXCEPT ![key] = v]
      /\ heapsize' = heapsize + 1
      /\ Arrange(value', appended, [heapptr EXCEPT ![key] = heapsize],
                 heapsize', UpIsEnough(value', appended, heapsize', heapsize))

priorityqueue_change(key, v) ==
  /\ in_heap(key)
  /\ value' = [value EXCEPT ![key] = v]
  /\ Arrange(value', base, heapptr, heapsize,
             IF decreases(key, v)
             THEN UpIsEnough(value', base, heapsize, heapptr[key])
             ELSE DownIsEnough(value', base, heapsize, heapptr[key]))
  /\ UNCHANGED heapsize

priorityqueue_update(key, v) ==
  priorityqueue_append(key, v) \/ priorityqueue_change(key, v)

priorityqueue_top == base[0]

cleared(ptr, key) == [ptr EXCEPT ![key] = NULL]

(* gheap_pop_heap leaves a heap of the other items if it was given one.    *)
priorityqueue_pop ==
  LET rest == [i \in Places(heapsize - 1) |-> base[i + 1]]
      top == priorityqueue_top
  IN  /\ heapsize > 0
      /\ heapsize' = heapsize - 1
      /\ \E c \in Arranged(value, rest, heapsize', FALSE) :
           /\ IsHeap(value, base, heapsize) => IsHeap(value, c, heapsize')
           /\ base' = c
           /\ heapptr' = cleared(moved([heapptr EXCEPT ![top] = heapsize'],
                                       base, c, heapsize'), top)
      /\ UNCHANGED value

HeapNext ==
  \/ priorityqueue_init
  \/ \E key \in Key, v \in Value : priorityqueue_update(key, v)
  \/ priorityqueue_pop

HeapSpec == priorityqueue_new /\ [][HeapNext]_heapVars
-----------------------------------------------------------------------------
(* heapptr leads from a key to its place and back, whatever gheap moved:   *)
(* the test of a key for membership and the repair of the heap around a    *)
(* key rely on it.                                                         *)
PointersTrack ==
  /\ \A i \in Places(heapsize) : heapptr[base[i]] = i
  /\ \A k \in Key : heapptr[k] # NULL =>
       heapptr[k] < heapsize /\ base[heapptr[k]] = k

(* No value is less than that of its parent, after any number of updates   *)
(* that raised and lowered values: gheap was always asked for the repair   *)
(* that is enough.                                                         *)
HeapOrdered ==
  \A i \in Places(heapsize) \ {0} : value[base[parent[i]]] <= value[base[i]]

(* The queue is a set of keys from which one of the least value leaves.    *)
Abstract == INSTANCE MinQueue WITH
  keys <- {k \in Key : heapptr[k] # NULL}
Implements == Abstract!Spec
=============================================================================
