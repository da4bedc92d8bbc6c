------------------------------- MODULE Graph -------------------------------
(* The graph's topology: src/mcf/mcf/graph.h and src/mcf/mcf/graph.c.      *)
(*                                                                         *)
(* A graph is three arrays.  Every arc has a dual, the arc in the opposite *)
(* direction, whose index is obtained by flipping one bit; only the tail   *)
(* of an arc is stored, its head is the tail of the dual.  The arcs that   *)
(* exit a node form an intrusive singly linked list, threaded through      *)
(* node_adjacency_next, to which graph_add_arc pushes at the front.        *)
EXTENDS Integers, Sequences, FiniteSets, SequencesExt

CONSTANTS
  max_num_nodes, max_num_arcs,   \* sizes given to graph_new
  arc_dual_bit,                  \* bit that must be flipped to obtain the dual
  IndexWidth,                    \* width of an index, u32 in the code
  Garbage                        \* values an uninitialized slot may hold

Index == 0 .. 2^IndexWidth - 1
INVALID_INDEX == 2^IndexWidth - 1
DualMask == 2^arc_dual_bit
NodeSlot == 0 .. max_num_nodes - 1
ArcSlot == 0 .. max_num_arcs - 1

(* Indices are u32, 0xffffffff is reserved, and flipping the dual bit      *)
(* stays within the u32.                                                   *)
ASSUME SizeAssumption ==
  /\ IndexWidth \in Nat /\ 2^IndexWidth \in Nat
  /\ arc_dual_bit \in 0 .. IndexWidth - 1 /\ 2^arc_dual_bit \in Nat \ {0}
  /\ max_num_nodes \in 0 .. INVALID_INDEX
  /\ max_num_arcs \in 0 .. INVALID_INDEX

(* graph_new writes node_adjacency_next[i] for every i < max_num_nodes: it *)
(* stays inside that array only under this condition.                      *)
ASSUME RoomAssumption == max_num_nodes <= max_num_arcs

ASSUME GarbageAssumption == Garbage \subseteq Index

VARIABLES arc_tail, node_adjacency_first, node_adjacency_next
vars == <<arc_tail, node_adjacency_first, node_adjacency_next>>

TypeOK ==
  /\ arc_tail \in [ArcSlot -> NodeSlot \union {INVALID_INDEX}]
  /\ node_adjacency_first \in [NodeSlot -> ArcSlot \union {INVALID_INDEX}]
  /\ node_adjacency_next \in [ArcSlot -> Index]
-----------------------------------------------------------------------------
is_dual(arc) == (arc \div DualMask) % 2 = 1

arc_dual(arc) == IF is_dual(arc) THEN arc - DualMask ELSE arc + DualMask

arc_head(arc) == arc_tail[arc_dual(arc)]

arc_enabled(arc) == arc_tail[arc] < max_num_nodes
-----------------------------------------------------------------------------
(* graph_new.  The loop that clears node_adjacency_next runs up to         *)
(* max_num_nodes, the other slots keep what the allocator left in them.    *)
Init ==
  /\ arc_tail = [i \in ArcSlot |-> INVALID_INDEX]
  /\ node_adjacency_first = [i \in NodeSlot |-> INVALID_INDEX]
  /\ \E g \in [ArcSlot \ NodeSlot -> Garbage] :
       node_adjacency_next =
         [i \in ArcSlot |-> IF i \in NodeSlot THEN INVALID_INDEX ELSE g[i]]

(* Mutants of graph_push_outbound_arc, for the runs: one does not skip an  *)
(* arc that is already there, one does not link the arc to the rest of the *)
(* list.                                                                   *)
push_again(t, arc, node) ==
  [tail  |-> [t.tail EXCEPT ![arc] = node],
   next  |-> [t.next EXCEPT ![arc] = t.first[node]],
   first |-> [t.first EXCEPT ![node] = arc]]

push_unlinked(t, arc, node) ==
  IF t.tail[arc] # INVALID_INDEX
  THEN t
  ELSE [t EXCEPT !.tail[arc] = node, !.first[node] = arc]

(* graph_push_outbound_arc, as a function on the topology [tail, first,    *)
(* next] so that graph_add_arc can call it twice.                          *)
graph_push_outbound_arc(t, arc, node) ==
  IF t.tail[arc] # INVALID_INDEX
  THEN t
  ELSE [tail  |-> [t.tail EXCEPT ![arc] = node],
        next  |-> [t.next EXCEPT ![arc] = t.first[node]],
        first |-> [t.first EXCEPT ![node] = arc]]

topology == [tail  |-> arc_tail,
             first |-> node_adjacency_first,
             next  |-> node_adjacency_next]

(* Mutant of graph_add_arc: the dual arc is left out.                      *)
add_arc_without_dual(arc, from, to) ==
  LET t == graph_push_outbound_arc(topology, arc, from)
  IN  /\ arc \in ArcSlot /\ arc_dual(arc) \in ArcSlot
      /\ arc_tail' = t.tail
      /\ node_adjacency_first' = t.first
      /\ node_adjacency_next' = t.next

graph_add_arc(arc, from, to) ==
  LET t == graph_push_outbound_arc(
             graph_push_outbound_arc(topology, arc, from), arc_dual(arc), to)
  IN  /\ arc \in ArcSlot /\ arc_dual(arc) \in ArcSlot
      /\ arc_tail' = t.tail
      /\ node_adjacency_first' = t.first
      /\ node_adjacency_next' = t.next

(* The call that returns false: the arc or its dual does not fit.          *)
graph_add_arc_fails(arc) ==
  /\ ~ (arc \in ArcSlot /\ arc_dual(arc) \in ArcSlot)
  /\ UNCHANGED vars

Next ==
  \E arc \in Index :
    \/ \E from, to \in NodeSlot : graph_add_arc(arc, from, to)
    \/ graph_add_arc_fails(arc)

Spec == Init /\ [][Next]_vars
-----------------------------------------------------------------------------
(* The loop of the library's callers,                                      *)
(*   for (a = begin(node); !end(a); a = next(a))                           *)
(* as the sequence of the first k arcs it visits.  It stops at             *)
(* INVALID_INDEX; an index that is outside of the array is kept as the     *)
(* last element, where next() would fail its assertion.                    *)
Walk(begin, Step(_)) ==
  LET walk[k \in Nat] ==
        IF k = 0
        THEN IF begin = INVALID_INDEX THEN <<>> ELSE <<begin>>
        ELSE LET w == walk[k - 1]
             IN  IF Len(w) < k \/ Last(w) \notin ArcSlot
                       \/ Step(Last(w)) = INVALID_INDEX
                 THEN w
                 ELSE Append(w, Step(Last(w)))
  IN  walk[max_num_arcs + 1]

node_adjacency_loop(node) ==
  Walk(node_adjacency_first[node], LAMBDA a : node_adjacency_next[a])

(* node_rev_adjacency_begin, _end and _next: the same list, every element  *)
(* replaced by its dual.                                                   *)
node_rev_adjacency_loop(node) ==
  Walk(arc_dual(node_adjacency_first[node]),
       LAMBDA a : arc_dual(node_adjacency_next[arc_dual(a)]))

(* The slots of capacity that flow_cost reads.                             *)
flow_cost_reads == {arc_dual(i) : i \in {a \in ArcSlot : ~ is_dual(a)}}
-----------------------------------------------------------------------------
(* The order of the lists, for the inductive invariant: in every list the  *)
(* depth of the arcs, a value of S, decreases.                             *)
AcyclicIn(S) ==
  \E depth \in [ArcSlot -> S] :
    \A i \in ArcSlot :
      (arc_enabled(i) /\ node_adjacency_next[i] # INVALID_INDEX)
        => depth[node_adjacency_next[i]] < depth[i]

(* What the links of the lists satisfy after every operation, whatever was *)
(* in the slots that were never written: a list of a node holds enabled    *)
(* arcs of that node only, no arc has two predecessors, and every enabled  *)
(* arc has one.                                                            *)
LinksOK ==
  /\ \A n \in NodeSlot :
       node_adjacency_first[n] # INVALID_INDEX
         => arc_tail[node_adjacency_first[n]] = n
  /\ \A i \in ArcSlot : (arc_enabled(i) /\ node_adjacency_next[i] # INVALID_INDEX)
       => /\ node_adjacency_next[i] \in ArcSlot
          /\ arc_tail[node_adjacency_next[i]] = arc_tail[i]
          /\ node_adjacency_next[i] # node_adjacency_first[arc_tail[i]]
  /\ \A i, j \in ArcSlot :
       (/\ arc_enabled(i) /\ arc_enabled(j)
        /\ node_adjacency_next[i] # INVALID_INDEX
        /\ node_adjacency_next[i] = node_adjacency_next[j]) => i = j
  /\ \A i \in ArcSlot : arc_enabled(i) =>
       \/ i = node_adjacency_first[arc_tail[i]]
       \/ \E j \in ArcSlot : arc_enabled(j) /\ node_adjacency_next[j] = i

(* Walking the list of a node ends, visits no arc twice, and visits        *)
(* exactly the enabled arcs whose tail is that node.                       *)
ListsExact ==
  \A n \in NodeSlot :
    LET w == node_adjacency_loop(n)
    IN  /\ IsInjective(w)
        /\ ToSet(w) = {i \in ArcSlot : arc_tail[i] = n}

(* An arc exists if and only if its dual does: arc_head never yields an    *)
(* invalid node for an arc of the graph.                                   *)
DualPairing ==
  \A i \in ArcSlot : arc_enabled(i) =>
    arc_dual(i) \in ArcSlot /\ arc_enabled(arc_dual(i))

(* "An arc cannot be added twice, if the caller tries to do add the same   *)
(* arc twice the second call is ignored": an arc keeps its tail, its head  *)
(* and its place in the list once it is in the graph.                      *)
SecondAddIgnored ==
  [][\A i \in ArcSlot : arc_enabled(i) =>
       /\ arc_tail'[i] = arc_tail[i]
       /\ node_adjacency_next'[i] = node_adjacency_next[i]]_vars

(* "Used to loop over the arcs that enter a node": the reverse loop visits *)
(* exactly the enabled arcs whose head is that node.                       *)
RevListsExact ==
  \A n \in NodeSlot :
    LET w == node_rev_adjacency_loop(n)
    IN  /\ IsInjective(w)
        /\ ToSet(w) = {i \in ArcSlot : arc_enabled(i) /\ arc_head(i) = n}

(* In a graph whose arcs and duals fit into max_num_arcs, flow_cost reads  *)
(* inside the array of capacities.                                         *)
FlowCostReadsInBounds ==
  (\E i \in ArcSlot : arc_enabled(i)) => flow_cost_reads \subseteq ArcSlot
=============================================================================
