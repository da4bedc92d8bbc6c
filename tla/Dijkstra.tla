------------------------------ MODULE Dijkstra ------------------------------
(* The two shortest path searches of src/mcf/mcf/algorithm.c:              *)
(* dijkstra_path, which looks for one destination, and                     *)
(* dijkstra_nearest_sink, which stops at the first node that is a sink.    *)
(* They are the same loop around a priority queue, and one model serves    *)
(* both: "sinks" holds the nodes at which the search finds its target.     *)
(*                                                                         *)
(* The queue is the set of its keys together with value, the array of      *)
(* priorities, which the queue keeps for nodes that left it as well and    *)
(* which the code uses as the array of distances.  One step pops a node,   *)
(* another relaxes one of its arcs, in any order: the order of the         *)
(* adjacency list is an accident of the order of graph_add_arc, and so is  *)
(* the node popped first among those of the same value.                    *)
EXTENDS ResidualNetwork

CONSTANTS INFINITE,         \* distance of a node that was not reached
          cap_threshold     \* an arc is traversable from this capacity on

ASSUME InfiniteAssumption == INFINITE \in Nat \ {0} /\ cap_threshold \in Nat

VARIABLES
  source, sinks, prune,  \* the arguments of the search
  tests_visited,         \* TRUE in dijkstra_path, see Pop
  queue,                 \* keys in the priority queue
  value,                 \* its priorities, the distances
  prev,                  \* the arc that led to a node
  visited,               \* nodes popped so far
  cur, todo,             \* last node popped, and its arcs still to relax
  target,                \* target found, NO_NODE if there is none
  searching              \* FALSE before and after the search

arguments == <<source, sinks, prune, tests_visited>>
searchVars == <<arguments, queue, value, prev, visited, cur, todo, target,
                searching>>

traversable(arc) == capacity[arc] >= cap_threshold

DijkstraTypeOK ==
  /\ source \in Node /\ sinks \subseteq Node
  /\ prune \in BOOLEAN /\ tests_visited \in BOOLEAN
  /\ queue \subseteq Node
  /\ value \in [Node -> Int]
  /\ prev \in [Node -> Arc \union {NO_ARC}]
  /\ visited \subseteq Node
  /\ cur \in Node /\ todo \subseteq Arc
  /\ target \in Node \union {NO_NODE}
  /\ searching \in BOOLEAN
-----------------------------------------------------------------------------
(* The state of the search variables before any search.                    *)
NoSearch ==
  /\ source = 0 /\ sinks = {} /\ prune = FALSE /\ tests_visited = FALSE
  /\ queue = {} /\ value = [n \in Node |-> INFINITE]
  /\ prev = [n \in Node |-> NO_ARC]
  /\ visited = {} /\ cur = 0 /\ todo = {}
  /\ target = NO_NODE /\ searching = FALSE

(* The beginning of both functions: prev and the queue are cleared, the    *)
(* source enters the queue at distance 0.                                  *)
Start(s, T, p, test) ==
  /\ ~ searching
  /\ source' = s /\ sinks' = T /\ prune' = p /\ tests_visited' = test
  /\ queue' = {s}
  /\ value' = [n \in Node |-> IF n = s THEN 0 ELSE INFINITE]
  /\ prev' = [n \in Node |-> NO_ARC]
  /\ visited' = {} /\ cur' = s /\ todo' = {}
  /\ target' = NO_NODE /\ searching' = TRUE

(* dijkstra_nearest_sink first looks at every arc that is not saturated    *)
(* and gives up if one has a negative reduced cost.                        *)
NegativeArc == \E arc \in Arc : traversable(arc) /\ reduced_cost(arc) < 0

StartNearestSink(s, T) == ~ NegativeArc /\ Start(s, T, TRUE, FALSE)

GiveUp ==
  /\ ~ searching
  /\ NegativeArc
  /\ target' = NO_NODE
  /\ UNCHANGED <<arguments, queue, value, prev, visited, cur, todo, searching>>

(* Mutant of Pop: any node of the queue leaves it.                         *)
pop_unordered ==
  /\ searching /\ todo = {}
  /\ \E n \in queue :
       /\ queue' = queue \ {n} /\ cur' = n
       /\ visited' = visited \union {n}
       /\ target' = IF n \in sinks THEN n ELSE target
       /\ searching' = (n \notin sinks \/ ~ prune)
       /\ todo' = IF n \in sinks /\ prune
                  THEN {} ELSE {a \in node_adjacency(n) : traversable(a)}
  /\ UNCHANGED <<arguments, value, prev>>

(* One round of the while loop up to the loop over the arcs: the node of   *)
(* the least value leaves the queue, unless it is a target the arcs that   *)
(* can be traversed from it are to be relaxed.  Only dijkstra_path tests   *)
(* visited, and a comment there wonders whether it is necessary.           *)
Pop ==
  /\ searching /\ todo = {}
  /\ \E n \in queue :
       /\ \A m \in queue : value[n] <= value[m]
       /\ queue' = queue \ {n}
       /\ cur' = n
       /\ IF tests_visited /\ n \in visited
          THEN UNCHANGED <<visited, target, searching, todo>>
          ELSE /\ visited' = visited \union {n}
               /\ target' = IF n \in sinks THEN n ELSE target
               /\ searching' = (n \notin sinks \/ ~ prune)
               /\ todo' = IF n \in sinks /\ prune
                          THEN {}
                          ELSE {a \in node_adjacency(n) : traversable(a)}
  /\ UNCHANGED <<arguments, value, prev>>

(* Mutants of Relax: the head keeps its distance under other conditions.   *)
relax_unless(arc, keep) ==
  LET next == arc_head(arc)
  IN  /\ searching /\ arc \in todo
      /\ todo' = todo \ {arc}
      /\ IF keep
         THEN UNCHANGED <<queue, value, prev>>
         ELSE /\ queue' = queue \union {next}
              /\ value' = [value EXCEPT
                             ![next] = value[cur] + reduced_cost(arc)]
              /\ prev' = [prev EXCEPT ![next] = arc]
      /\ UNCHANGED <<arguments, visited, cur, target, searching>>

relax_first(arc) == relax_unless(arc, value[arc_head(arc)] # INFINITE)

relax_ties(arc) ==
  relax_unless(arc, value[arc_head(arc)] < value[cur] + reduced_cost(arc))

(* The body of the loop over the arcs that exit the node: the head enters  *)
(* the queue, or moves up in it, if this arc brings it nearer.             *)
Relax(arc) ==
  LET next == arc_head(arc)
      distance == value[cur] + reduced_cost(arc)
  IN  /\ searching /\ arc \in todo
      /\ todo' = todo \ {arc}
      /\ IF value[next] <= distance
         THEN UNCHANGED <<queue, value, prev>>
         ELSE /\ queue' = queue \union {next}
              /\ value' = [value EXCEPT ![next] = distance]
              /\ prev' = [prev EXCEPT ![next] = arc]
      /\ UNCHANGED <<arguments, visited, cur, target, searching>>

(* The queue is empty: every node that can be reached was popped.          *)
Exhausted ==
  /\ searching /\ todo = {} /\ queue = {}
  /\ searching' = FALSE
  /\ UNCHANGED <<arguments, queue, value, prev, visited, cur, todo, target>>

SearchStep == Pop \/ (\E arc \in todo : Relax(arc)) \/ Exhausted
=============================================================================
