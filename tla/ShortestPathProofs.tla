------------------------- MODULE ShortestPathProofs -------------------------
(* Theorems about dijkstra_path and dijkstra_nearest_sink, for every       *)
(* network, every pair of costs and potentials, and every order in which   *)
(* equal nodes are popped and arcs are relaxed.  The second half shows     *)
(* that the answer of a search is exact: the search's values are a lower   *)
(* bound of each round of the reference, and the height of the tree of     *)
(* prev an upper bound of the last.                                        *)
EXTENDS ShortestPath, ResidualNetworkProofs

(* The searches of Dijkstra, which mcf_refinement uses as well.            *)
(* A step that leaves the network alone leaves its operators alone.        *)
LEMMA NetworkUnchanged ==
  ASSUME UNCHANGED networkVars
  PROVE  /\ \A a : /\ arc_tail(a)' = arc_tail(a)
                   /\ arc_head(a)' = arc_head(a)
                   /\ reduced_cost(a)' = reduced_cost(a)
                   /\ traversable(a)' = traversable(a)
         /\ NetworkTypeOK <=> NetworkTypeOK'
         /\ NegativeArc' <=> NegativeArc
  BY DEF networkVars, arc_tail, arc_head, reduced_cost, traversable,
         NetworkTypeOK, NegativeArc

(* The inductive invariant of a search.                                    *)

(* Distances: 0 at the source, finite exactly where the search has been.   *)
ValuesOK ==
  /\ value[source] = 0
  /\ \A n \in Node : 0 <= value[n] /\ value[n] <= INFINITE
  /\ \A n \in Node : value[n] < INFINITE <=> n \in queue \union visited

(* The frontier: no node that was popped is farther than one that was not, *)
(* nor than the last one popped.                                           *)
FrontierOK ==
  /\ queue \intersect visited = {}
  /\ \A v \in visited : \A n \in Node \ visited : value[v] <= value[n]
  /\ \A v \in visited : value[v] <= value[cur]
  /\ todo # {} => cur \in visited

(* The arcs still to relax are arcs of the last node popped.               *)
TodoOK == \A a \in todo : arc_tail(a) = cur /\ traversable(a)

(* Every other arc of a node that was popped has been relaxed, those of    *)
(* the target at which a search was pruned apart.                          *)
RelaxedOK ==
  \A a \in Arc :
    (/\ traversable(a) /\ arc_tail(a) \in visited
     /\ (prune => arc_tail(a) # target) /\ a \notin todo)
      => value[arc_head(a)] <= value[arc_tail(a)] + reduced_cost(a)

(* The arc that led to a node comes from a popped node and accounts for    *)
(* the distance.                                                           *)
PrevOK ==
  \A n \in Node \ {source} : value[n] < INFINITE =>
    /\ prev[n] \in Arc
    /\ traversable(prev[n]) /\ arc_head(prev[n]) = n
    /\ arc_tail(prev[n]) \in visited
    /\ value[n] = value[arc_tail(prev[n])] + reduced_cost(prev[n])

(* The arcs of prev close no cycle: some node of every set of popped nodes *)
(* was reached from outside of the set.                                    *)
TreeOK ==
  \A S \in SUBSET (visited \ {source}) :
    S # {} => \E n \in S : arc_tail(prev[n]) \notin S

(* The target is the first sink to be popped, unless the search goes on.   *)
TargetOK ==
  /\ target # NO_NODE => target \in sinks \intersect visited
  /\ (searching /\ prune) => target = NO_NODE
  /\ sinks \intersect visited # {} => target # NO_NODE
  /\ prune => sinks \intersect visited \subseteq {target}

SearchOK ==
  /\ ValuesOK /\ FrontierOK /\ TodoOK /\ RelaxedOK /\ PrevOK /\ TreeOK
  /\ TargetOK

LEMMA StartOK ==
  ASSUME NetworkTypeOK, NEW s \in Node, NEW T, T \subseteq Node,
         NEW p \in BOOLEAN, NEW test \in BOOLEAN,
         Start(s, T, p, test), UNCHANGED networkVars
  PROVE  DijkstraTypeOK' /\ SearchOK'
<1> USE InfiniteAssumption
<1>1. DijkstraTypeOK'
  BY DEF Start, DijkstraTypeOK
<1>2. ValuesOK'
  BY DEF Start, ValuesOK
<1>3. FrontierOK' /\ TodoOK' /\ TargetOK'
  BY DEF Start, FrontierOK, TodoOK, TargetOK
<1>4. RelaxedOK' /\ PrevOK' /\ TreeOK'
  BY DEF Start, RelaxedOK, PrevOK, TreeOK
<1> QED
  BY <1>1, <1>2, <1>3, <1>4 DEF SearchOK

(* A search on a network without negative arcs: the popped node is not one *)
(* that was popped before, and is the farthest of them.                    *)
LEMMA PopOK ==
  ASSUME NetworkTypeOK, DijkstraTypeOK, SearchOK, Pop, UNCHANGED networkVars
  PROVE  /\ DijkstraTypeOK' /\ SearchOK'
         /\ cur' \notin visited /\ visited' = visited \union {cur'}
         /\ \A v \in visited : value[v] <= value[cur']
<1> USE InfiniteAssumption
<1>1. PICK n \in queue :
             /\ searching /\ todo = {}
             /\ \A m \in queue : value[n] <= value[m]
             /\ queue' = queue \ {n} /\ cur' = n
             /\ IF tests_visited /\ n \in visited
                THEN UNCHANGED <<visited, target, searching, todo>>
                ELSE /\ visited' = visited \union {n}
                     /\ target' = IF n \in sinks THEN n ELSE target
                     /\ searching' = (n \notin sinks \/ ~ prune)
                     /\ todo' = IF n \in sinks /\ prune
                                THEN {}
                                ELSE {a \in node_adjacency(n) : traversable(a)}
  BY DEF Pop
<1>2. n \in Node /\ n \notin visited
  BY DEF DijkstraTypeOK, SearchOK, FrontierOK
<1>3. /\ visited' = visited \union {n}
      /\ target' = IF n \in sinks THEN n ELSE target
      /\ searching' = (n \notin sinks \/ ~ prune)
      /\ todo' = IF n \in sinks /\ prune
                 THEN {} ELSE {a \in node_adjacency(n) : traversable(a)}
      /\ UNCHANGED <<arguments, value, prev>>
  BY <1>1, <1>2 DEF Pop
<1>4. UNCHANGED <<source, sinks, prune, tests_visited, value, prev>>
  BY <1>3 DEF arguments
<1>5. \A v \in visited : value[v] <= value[n]
  BY <1>2 DEF SearchOK, FrontierOK
<1>6. /\ \A a \in Arc : /\ arc_tail(a)' = arc_tail(a)
                        /\ arc_head(a)' = arc_head(a)
                        /\ reduced_cost(a)' = reduced_cost(a)
                        /\ traversable(a)' = traversable(a)
  BY NetworkUnchanged
<1>7. todo' \subseteq Arc /\ \A a \in todo' : arc_tail(a) = n /\ traversable(a)
  BY <1>3 DEF node_adjacency
<1>8. DijkstraTypeOK'
  BY <1>1, <1>2, <1>3, <1>4, <1>7 DEF DijkstraTypeOK
<1>9. ValuesOK'
  BY <1>1, <1>2, <1>3, <1>4 DEF SearchOK, ValuesOK, DijkstraTypeOK
<1>10. FrontierOK'
  <2>1. (queue \intersect visited = {})'
    BY <1>1, <1>2, <1>3 DEF SearchOK, FrontierOK
  <2>2. \A m \in Node \ (visited \union {n}) : value[n] <= value[m]
    <3> SUFFICES ASSUME NEW m \in Node \ (visited \union {n})
                 PROVE  value[n] <= value[m]
      OBVIOUS
    <3>1. CASE m \in queue
      BY <1>1, <3>1
    <3>2. CASE m \notin queue
      <4>1. value[m] = INFINITE /\ value[n] <= INFINITE
        BY <1>2, <3>2 DEF SearchOK, ValuesOK, DijkstraTypeOK
      <4> QED
        BY <4>1
    <3> QED
      BY <3>1, <3>2
  <2>3. (\A v \in visited : \A m \in Node \ visited : value[v] <= value[m])'
    BY <1>3, <1>4, <2>2 DEF SearchOK, FrontierOK
  <2>4. (\A v \in visited : value[v] <= value[cur])'
    <3>1. value[n] \in Int
      BY <1>2 DEF DijkstraTypeOK
    <3> QED
      BY <1>1, <1>3, <1>4, <1>5, <3>1
  <2> QED
    BY <1>1, <1>3, <2>1, <2>3, <2>4 DEF FrontierOK
<1>11. TodoOK'
  BY <1>1, <1>6, <1>7 DEF TodoOK
<1>12. RelaxedOK'
  <2> SUFFICES ASSUME NEW a \in Arc, traversable(a),
                      arc_tail(a) \in visited \union {n},
                      prune => arc_tail(a) # target', a \notin todo'
               PROVE  value[arc_head(a)] <= value[arc_tail(a)] + reduced_cost(a)
    BY <1>3, <1>4, <1>6 DEF RelaxedOK
  <2>1. arc_tail(a) # n
    BY <1>3 DEF node_adjacency
  <2>2. prune => arc_tail(a) # target
    BY <1>1, <1>2 DEF SearchOK, TargetOK, DijkstraTypeOK, NO_NODE, Node
  <2> QED
    BY <1>1, <2>1, <2>2 DEF SearchOK, RelaxedOK
<1>13. PrevOK'
  <2> SUFFICES ASSUME NEW m \in Node \ {source}, value[m] < INFINITE
               PROVE  /\ prev[m] \in Arc
                      /\ traversable(prev[m])' /\ arc_head(prev[m])' = m
                      /\ arc_tail(prev[m])' \in visited'
                      /\ value[m] = value[arc_tail(prev[m])']
                                    + reduced_cost(prev[m])'
    BY <1>4 DEF PrevOK
  <2>1. /\ prev[m] \in Arc
        /\ traversable(prev[m]) /\ arc_head(prev[m]) = m
        /\ arc_tail(prev[m]) \in visited
        /\ value[m] = value[arc_tail(prev[m])] + reduced_cost(prev[m])
    BY DEF SearchOK, PrevOK
  <2> QED
    BY <1>3, <1>4, <1>6, <2>1
<1>14. TargetOK'
  <2>1. n # NO_NODE
    BY <1>2 DEF NO_NODE, Node
  <2> QED
    BY <1>1, <1>2, <1>3, <1>4, <2>1 DEF SearchOK, TargetOK
<1>15. TreeOK'
  <2> SUFFICES ASSUME NEW S \in SUBSET ((visited \union {n}) \ {source}),
                      S # {}
               PROVE  \E m \in S : arc_tail(prev[m]) \notin S
    BY <1>3, <1>4, <1>6 DEF TreeOK, arc_tail, networkVars
  <2>1. \A m \in S : arc_tail(prev[m]) \in visited /\ m \in Node
    <3> SUFFICES ASSUME NEW m \in S
                 PROVE  arc_tail(prev[m]) \in visited /\ m \in Node
      OBVIOUS
    <3>1. m \in Node \ {source} /\ m \in queue \union visited
      BY <1>1, <1>2 DEF DijkstraTypeOK
    <3>2. value[m] < INFINITE
      BY <3>1 DEF SearchOK, ValuesOK
    <3> QED
      BY <3>1, <3>2 DEF SearchOK, PrevOK
  <2>2. CASE S \ {n} = {}
    BY <1>2, <2>1, <2>2
  <2>3. CASE S \ {n} # {}
    <3>1. PICK m \in S \ {n} : arc_tail(prev[m]) \notin S \ {n}
      BY <2>3 DEF SearchOK, TreeOK
    <3> QED
      BY <1>2, <2>1, <3>1
  <2> QED
    BY <2>2, <2>3
<1> QED
  BY <1>1, <1>2, <1>3, <1>5, <1>8, <1>9, <1>10, <1>11, <1>12, <1>13, <1>14,
     <1>15 DEF SearchOK

(* Relaxing an arc never moves a node that was popped.                     *)
LEMMA RelaxOK ==
  ASSUME NetworkTypeOK, DijkstraTypeOK, SearchOK, ~ NegativeArc,
         NEW arc \in todo, Relax(arc), UNCHANGED networkVars
  PROVE  /\ DijkstraTypeOK' /\ SearchOK' /\ visited' = visited
         /\ \A v \in visited : value'[v] = value[v] /\ prev'[v] = prev[v]
<1> DEFINE next == arc_head(arc)
           distance == value[cur] + reduced_cost(arc)
<1> USE InfiniteAssumption
<1>1. /\ arc \in Arc /\ arc_tail(arc) = cur /\ traversable(arc)
      /\ cur \in visited /\ cur \in Node /\ visited \subseteq Node
      /\ todo' = todo \ {arc} /\ searching
      /\ UNCHANGED <<source, sinks, prune, tests_visited, visited, cur,
                     target, searching>>
  BY DEF DijkstraTypeOK, SearchOK, FrontierOK, TodoOK, Relax, arguments
<1>2. next \in Node /\ reduced_cost(arc) \in Nat
  BY <1>1, ArcFacts DEF NegativeArc
<1>3. value[cur] \in Int /\ distance \in Int /\ value[cur] <= distance
  BY <1>1, <1>2 DEF DijkstraTypeOK
<1>4. \A a \in Arc : /\ arc_tail(a)' = arc_tail(a)
                     /\ arc_head(a)' = arc_head(a)
                     /\ reduced_cost(a)' = reduced_cost(a)
                     /\ traversable(a)' = traversable(a)
  BY NetworkUnchanged
<1>5. \A a \in Arc : /\ arc_tail(a) \in Node /\ arc_head(a) \in Node
                     /\ reduced_cost(a) \in Int
  BY ArcFacts
<1>6. TodoOK' /\ TargetOK'
  BY <1>1, <1>4 DEF SearchOK, TodoOK, TargetOK, DijkstraTypeOK
<1>7. CASE value[next] <= distance
  <2>1. UNCHANGED <<queue, value, prev>>
    BY <1>7 DEF Relax
  <2>2. DijkstraTypeOK'
    BY <1>1, <2>1 DEF DijkstraTypeOK
  <2>3. ValuesOK' /\ FrontierOK'
    BY <1>1, <2>1 DEF SearchOK, ValuesOK, FrontierOK
  <2>4. RelaxedOK'
    <3> SUFFICES ASSUME NEW a \in Arc, traversable(a), arc_tail(a) \in visited,
                        prune => arc_tail(a) # target, a \notin todo'
                 PROVE  value[arc_head(a)]
                          <= value[arc_tail(a)] + reduced_cost(a)
      BY <1>1, <1>4, <2>1 DEF RelaxedOK
    <3>1. CASE a = arc
      BY <1>1, <1>7, <3>1
    <3>2. CASE a # arc
      BY <1>1, <3>2 DEF SearchOK, RelaxedOK
    <3> QED
      BY <3>1, <3>2
  <2>5. PrevOK'
    <3> SUFFICES ASSUME NEW m \in Node \ {source}, value[m] < INFINITE
                 PROVE  /\ prev[m] \in Arc
                        /\ traversable(prev[m])' /\ arc_head(prev[m])' = m
                        /\ arc_tail(prev[m])' \in visited
                        /\ value[m] = value[arc_tail(prev[m])']
                                      + reduced_cost(prev[m])'
      BY <1>1, <2>1 DEF PrevOK
    <3> QED
      BY <1>4, <2>1 DEF SearchOK, PrevOK
  <2>6. TreeOK'
    BY <1>1, <2>1 DEF SearchOK, TreeOK, arc_tail, networkVars
  <2> QED
    BY <1>1, <1>6, <2>1, <2>2, <2>3, <2>4, <2>5, <2>6 DEF SearchOK
<1>8. CASE ~ (value[next] <= distance)
  <2>1. /\ queue' = queue \union {next}
        /\ value' = [value EXCEPT ![next] = distance]
        /\ prev' = [prev EXCEPT ![next] = arc]
    BY <1>8 DEF Relax
  <2>2. value[next] \in Int /\ distance < value[next]
    BY <1>2, <1>3, <1>8 DEF DijkstraTypeOK
  <2>3. next \notin visited
    <3>1. next \in visited => value[next] <= value[cur]
      BY DEF SearchOK, FrontierOK
    <3> QED
      BY <1>3, <2>2, <3>1
  <2>4. /\ value'[next] = distance /\ prev'[next] = arc
        /\ \A n \in Node \ {next} :
             value'[n] = value[n] /\ prev'[n] = prev[n]
    BY <1>2, <2>1 DEF DijkstraTypeOK
  <2>5. DijkstraTypeOK'
    BY <1>1, <1>2, <1>3, <2>1 DEF DijkstraTypeOK
  <2>6. ValuesOK'
    <3>1. 0 <= distance /\ distance < INFINITE
      BY <1>1, <1>2, <1>3, <2>2 DEF SearchOK, ValuesOK
    <3>2. source # next
      BY <1>2, <1>3, <2>2, <3>1 DEF SearchOK, ValuesOK
    <3>3. source \in Node
      BY DEF DijkstraTypeOK
    <3> QED
      BY <1>1, <1>3, <2>1, <2>4, <3>1, <3>2, <3>3 DEF SearchOK, ValuesOK
  <2>7. FrontierOK'
    <3>1. (queue \intersect visited = {})' /\ (todo # {} => cur \in visited)'
      BY <1>1, <2>1, <2>3 DEF SearchOK, FrontierOK
    <3>2. \A v \in visited : value'[v] = value[v]
      BY <1>1, <2>3, <2>4
    <3>3. \A v \in visited : value[v] <= value[cur] /\ value[v] \in Int
      BY <1>1 DEF SearchOK, FrontierOK, DijkstraTypeOK
    <3>4. \A v \in visited : value[v] <= distance
      BY <1>3, <3>3
    <3>5. (\A v \in visited : \A n \in Node \ visited : value[v] <= value[n])'
      BY <1>1, <2>4, <3>2, <3>4 DEF SearchOK, FrontierOK
    <3>6. (\A v \in visited : value[v] <= value[cur])'
      BY <1>1, <3>2, <3>3
    <3> QED
      BY <3>1, <3>5, <3>6 DEF FrontierOK
  <2>8. RelaxedOK'
    <3> SUFFICES ASSUME NEW a \in Arc, traversable(a), arc_tail(a) \in visited,
                        prune => arc_tail(a) # target, a \notin todo'
                 PROVE  value'[arc_head(a)]
                          <= value'[arc_tail(a)] + reduced_cost(a)
      BY <1>1, <1>4 DEF RelaxedOK
    <3>1. value'[arc_tail(a)] = value[arc_tail(a)]
      BY <1>1, <2>3, <2>4
    <3>2. CASE a = arc
      BY <1>1, <2>4, <3>1, <3>2, <1>3
    <3>3. CASE a # arc
      <4>1. value[arc_head(a)] <= value[arc_tail(a)] + reduced_cost(a)
        BY <1>1, <3>3 DEF SearchOK, RelaxedOK
      <4>2. /\ value[arc_head(a)] \in Int /\ value[arc_tail(a)] \in Int
            /\ reduced_cost(a) \in Int /\ value'[arc_head(a)] \in Int
        BY <1>5, <2>5 DEF DijkstraTypeOK
      <4>3. value'[arc_head(a)] <= value[arc_head(a)]
        BY <1>5, <2>2, <2>4, <4>2
      <4> QED
        BY <3>1, <4>1, <4>2, <4>3
    <3> QED
      BY <3>2, <3>3
  <2>9. PrevOK'
    <3> SUFFICES ASSUME NEW m \in Node \ {source}, value'[m] < INFINITE
                 PROVE  /\ prev'[m] \in Arc
                        /\ traversable(prev'[m]) /\ arc_head(prev'[m]) = m
                        /\ arc_tail(prev'[m]) \in visited
                        /\ value'[m] = value'[arc_tail(prev'[m])]
                                       + reduced_cost(prev'[m])
      BY <1>1, <1>4 DEF PrevOK
    <3>1. CASE m = next
      <4>1. value'[cur] = value[cur]
        BY <1>1, <2>3, <2>4
      <4> QED
        BY <1>1, <2>4, <3>1, <4>1
    <3>2. CASE m # next
      <4>1. /\ prev[m] \in Arc
            /\ traversable(prev[m]) /\ arc_head(prev[m]) = m
            /\ arc_tail(prev[m]) \in visited
            /\ value[m] = value[arc_tail(prev[m])] + reduced_cost(prev[m])
        BY <2>4, <3>2 DEF SearchOK, PrevOK
      <4>2. value'[arc_tail(prev[m])] = value[arc_tail(prev[m])]
        BY <1>1, <2>3, <2>4, <4>1
      <4> QED
        BY <2>4, <3>2, <4>1, <4>2
    <3> QED
      BY <3>1, <3>2
  <2>10. TreeOK'
    <3>1. \A m \in visited : prev'[m] = prev[m]
      BY <1>1, <2>3, <2>4
    <3>2. \A m \in visited : arc_tail(prev[m])' = arc_tail(prev[m])
      BY <3>1 DEF arc_tail, arc_is_dual, arc_dual, networkVars
    <3> QED
      BY <1>1, <3>2 DEF SearchOK, TreeOK
  <2> QED
    BY <1>1, <1>6, <2>3, <2>4, <2>5, <2>6, <2>7, <2>8, <2>9, <2>10
       DEF SearchOK
<1> QED
  BY <1>7, <1>8

(* Every step of a search keeps the invariant.                             *)
LEMMA SearchStepOK ==
  ASSUME NetworkTypeOK, DijkstraTypeOK, SearchOK, ~ NegativeArc,
         SearchStep, UNCHANGED networkVars
  PROVE  DijkstraTypeOK' /\ SearchOK'
<1>1. CASE Exhausted
  <2>1. UNCHANGED <<source, sinks, prune, tests_visited, queue, value, prev,
                    visited, cur, todo, target>>
        /\ searching' = FALSE
    BY <1>1 DEF Exhausted, arguments
  <2>2. \A a : /\ arc_tail(a)' = arc_tail(a)
               /\ arc_head(a)' = arc_head(a)
               /\ reduced_cost(a)' = reduced_cost(a)
               /\ traversable(a)' = traversable(a)
    BY NetworkUnchanged
  <2>3. DijkstraTypeOK'
    BY <2>1 DEF DijkstraTypeOK
  <2>4. ValuesOK' /\ FrontierOK' /\ TargetOK' /\ TodoOK'
    BY <2>1, <2>2 DEF SearchOK, ValuesOK, FrontierOK, TargetOK, TodoOK
  <2>5. RelaxedOK'
    BY <2>1, <2>2 DEF SearchOK, RelaxedOK
  <2>6. PrevOK'
    BY <2>1, <2>2 DEF SearchOK, PrevOK
  <2>7. TreeOK'
    BY <2>1 DEF SearchOK, TreeOK, arc_tail, networkVars
  <2> QED
    BY <2>3, <2>4, <2>5, <2>6, <2>7 DEF SearchOK
<1> QED
  BY <1>1, PopOK, RelaxOK DEF SearchStep
-----------------------------------------------------------------------------
(* Page 323 of Ahuja-Magnanti-Orlin: at any time after the target was      *)
(* found, subtracting MIN(distance[target], distance[n]) from the          *)
(* potentials leaves no traversable arc with a negative reduced cost, and  *)
(* makes the reduced cost of the arcs of prev 0 up to the target.          *)
LEMMA CappedFeasible ==
  ASSUME NetworkTypeOK, DijkstraTypeOK, SearchOK, ~ NegativeArc,
         target # NO_NODE
  PROVE  /\ \A a \in Arc : traversable(a) =>
              reduced_cost(a) + capped(arc_tail(a)) - capped(arc_head(a)) >= 0
         /\ \A n \in Node \ {source} : value[n] <= value[target] =>
              /\ prev[n] \in Arc /\ traversable(prev[n])
              /\ arc_head(prev[n]) = n
              /\ value[arc_tail(prev[n])] <= value[target]
              /\ reduced_cost(prev[n]) + capped(arc_tail(prev[n])) - capped(n) = 0
<1>1. /\ target \in visited /\ visited \subseteq Node
      /\ \A n \in Node : value[n] \in Int
      /\ value[target] < INFINITE /\ value[target] \in Int
  BY InfiniteAssumption DEF SearchOK, TargetOK, ValuesOK, DijkstraTypeOK
<1>2. \A a \in Arc : /\ arc_tail(a) \in Node /\ arc_head(a) \in Node
                     /\ reduced_cost(a) \in Int
                     /\ traversable(a) => reduced_cost(a) >= 0
  BY ArcFacts DEF NegativeArc
<1>3. ASSUME NEW a \in Arc, traversable(a)
      PROVE  reduced_cost(a) + capped(arc_tail(a)) - capped(arc_head(a)) >= 0
  <2>1. CASE value[arc_tail(a)] >= value[target]
    BY <1>1, <1>2, <1>3, <2>1 DEF capped, MIN
  <2>2. CASE value[arc_tail(a)] < value[target]
    <3>1. arc_tail(a) \in visited /\ arc_tail(a) # target
      BY <1>1, <1>2, <2>2 DEF SearchOK, FrontierOK
    <3>2. CASE a \notin todo
      <4>1. value[arc_head(a)] <= value[arc_tail(a)] + reduced_cost(a)
        BY <1>3, <3>1, <3>2 DEF SearchOK, RelaxedOK
      <4> QED
        BY <1>1, <1>2, <2>2, <4>1 DEF capped, MIN
    <3>3. CASE a \in todo
      <4>1. arc_tail(a) = cur /\ value[target] <= value[cur]
        BY <1>1, <3>3 DEF SearchOK, TodoOK, FrontierOK
      <4> QED
        BY <1>1, <1>2, <2>2, <4>1 DEF capped, MIN
    <3> QED
      BY <3>2, <3>3
  <2> QED
    BY <1>1, <1>2, <2>1, <2>2
<1>4. ASSUME NEW n \in Node \ {source}, value[n] <= value[target]
      PROVE  /\ prev[n] \in Arc /\ traversable(prev[n])
             /\ arc_head(prev[n]) = n
             /\ value[arc_tail(prev[n])] <= value[target]
             /\ reduced_cost(prev[n]) + capped(arc_tail(prev[n]))
                  - capped(n) = 0
  <2>1. value[n] < INFINITE
    BY <1>1, <1>4, InfiniteAssumption
  <2>2. /\ prev[n] \in Arc
        /\ traversable(prev[n]) /\ arc_head(prev[n]) = n
        /\ value[n] = value[arc_tail(prev[n])] + reduced_cost(prev[n])
    BY <2>1 DEF SearchOK, PrevOK
  <2> QED
    BY <1>1, <1>2, <1>4, <2>2 DEF capped, MIN
<1> QED
  BY <1>3, <1>4
-----------------------------------------------------------------------------
(* Calls of the two functions.                                             *)
Started == searching \/ visited # {}

(* The inductive invariant: a search runs on a network without negative    *)
(* arcs and keeps SearchOK, also after it returned.                        *)
IInv ==
  /\ TypeOK
  /\ searching => ~ returned
  /\ (~ searching /\ ~ returned) => visited = {}
  /\ Started => (SearchOK /\ ~ NegativeArc)
  /\ Finished => \/ queue = {} /\ todo = {}
                 \/ prune /\ target # NO_NODE

LEMMA InitInvariant == Init => IInv
<1> SUFFICES ASSUME Init PROVE IInv
  OBVIOUS
<1>1. NetworkTypeOK
  <2>1. PICK c \in Costs : cost = antisymmetric(c)
    BY DEF Init
  <2>2. c \in [ProblemArc -> Int]
    BY NetworksAssumption
  <2>3. /\ cost \in [Arc -> Int]
        /\ \A arc \in Arc : cost[arc_dual(arc)] = - cost[arc]
    BY <2>1, <2>2, SizesAssumption
       DEF antisymmetric, Arc, ProblemArc, arc_dual, arc_is_dual
  <2> QED
    BY <2>3, NetworksAssumption DEF Init, NetworkTypeOK
<1>2. DijkstraTypeOK /\ ~ searching /\ visited = {}
  <2>1. 0 \in Node /\ INFINITE \in Int
    BY SizesAssumption, InfiniteAssumption DEF Node
  <2> QED
    BY <2>1 DEF Init, NoSearch, DijkstraTypeOK
<1> QED
  BY <1>1, <1>2 DEF Init, IInv, TypeOK, Started, Finished

LEMMA StepInvariant ==
  ASSUME IInv, [Next]_vars
  PROVE  IInv' /\ [ /\ \A n \in visited :
                         value'[n] = value[n] /\ prev'[n] = prev[n]
                    /\ \A n \in visited' \ visited :
                         \A m \in visited : value[m] <= value[n]
                  ]_<<searchVars, networkVars>>
<1> DEFINE Goal ==
      /\ \A n \in visited : value'[n] = value[n] /\ prev'[n] = prev[n]
      /\ \A n \in visited' \ visited : \A m \in visited : value[m] <= value[n]
<1>1. ASSUME NEW s \in Sources, NEW T, T \subseteq Node, NEW p \in BOOLEAN,
             NEW test \in BOOLEAN, Start(s, T, p, test), ~ NegativeArc,
             ~ returned, UNCHANGED <<networkVars, returned>>
      PROVE  IInv' /\ Goal
  <2>1. ~ searching /\ visited = {} /\ searching' /\ visited' = {}
    BY <1>1 DEF IInv, Start
  <2>2. DijkstraTypeOK' /\ SearchOK' /\ NetworkTypeOK' /\ ~ NegativeArc'
    BY <1>1, StartOK, NetworkUnchanged, NetworksAssumption DEF IInv, TypeOK
  <2> QED
    BY <1>1, <2>1, <2>2 DEF IInv, TypeOK, Started, Finished
<1>2. CASE \E s \in Sources, d \in Node \union {NO_NODE}, p \in BOOLEAN :
             dijkstra_path(s, d, p)
  BY <1>1, <1>2 DEF dijkstra_path
<1>3. CASE \E s \in Sources, T \in SUBSET Node : dijkstra_nearest_sink(s, T)
  BY <1>1, <1>3 DEF dijkstra_nearest_sink, StartNearestSink
<1>4. CASE dijkstra_nearest_sink_fails
  <2>1. /\ NegativeArc /\ ~ searching /\ ~ Started
        /\ target' = NO_NODE /\ returned'
        /\ UNCHANGED <<source, sinks, prune, tests_visited, queue, value, prev,
                       visited, cur, todo, searching, networkVars>>
    BY <1>4 DEF dijkstra_nearest_sink_fails, GiveUp, IInv, Started, arguments
  <2>2. DijkstraTypeOK' /\ NetworkTypeOK'
    BY <2>1, NetworkUnchanged DEF IInv, TypeOK, DijkstraTypeOK
  <2> QED
    BY <2>1, <2>2 DEF IInv, TypeOK, Started, Finished
<1>5. CASE Search
  <2>1. /\ SearchStep /\ UNCHANGED networkVars /\ searching
        /\ returned' = ~ searching'
    BY <1>5 DEF Search, SearchStep, Pop, Relax, Exhausted
  <2>2. SearchOK /\ ~ NegativeArc /\ NetworkTypeOK /\ DijkstraTypeOK
    BY <2>1 DEF IInv, Started, TypeOK
  <2>3. DijkstraTypeOK' /\ SearchOK' /\ NetworkTypeOK' /\ ~ NegativeArc'
    BY <2>1, <2>2, SearchStepOK, NetworkUnchanged
  <2>4. Goal
    <3>1. CASE Pop
      <4>1. UNCHANGED <<value, prev>>
        BY <3>1 DEF Pop
      <4>2. /\ visited' = visited \union {cur'}
            /\ \A v \in visited : value[v] <= value[cur']
        BY <2>1, <2>2, <3>1, PopOK
      <4> QED
        BY <4>1, <4>2
    <3>2. ASSUME NEW arc \in todo, Relax(arc) PROVE Goal
      BY <2>1, <2>2, <3>2, RelaxOK
    <3>3. CASE Exhausted
      BY <3>3 DEF Exhausted
    <3> QED
      BY <2>1, <3>1, <3>2, <3>3 DEF SearchStep
  <2>5. searching' \in BOOLEAN
    BY <2>3 DEF DijkstraTypeOK
  <2>6. ~ searching' =>
          \/ queue' = {} /\ todo' = {}
          \/ prune' /\ target' # NO_NODE
    <3>1. CASE Pop
      <4>1. \A n \in queue : n # NO_NODE
        BY <2>2 DEF DijkstraTypeOK, Node, NO_NODE
      <4> QED
        BY <2>1, <3>1, <4>1 DEF Pop, arguments
    <3>2. ASSUME NEW arc \in todo, Relax(arc) PROVE searching'
      BY <2>1, <3>2 DEF Relax
    <3>3. CASE Exhausted
      BY <3>3 DEF Exhausted
    <3> QED
      BY <2>1, <3>1, <3>2, <3>3 DEF SearchStep
  <2> QED
    BY <2>1, <2>3, <2>4, <2>5, <2>6 DEF IInv, TypeOK, Started, Finished
<1>6. CASE UNCHANGED vars
  <2>1. UNCHANGED <<networkVars, searchVars, returned>>
    BY <1>6 DEF vars
  <2>2. IInv'
    BY <2>1 DEF IInv, TypeOK, Started, Finished, networkVars, searchVars,
       arguments, NetworkTypeOK, DijkstraTypeOK, NegativeArc, SearchOK, ValuesOK,
       FrontierOK, TodoOK, RelaxedOK, PrevOK, TreeOK, TargetOK, traversable,
       reduced_cost, arc_tail, arc_head
  <2> QED
    BY <2>1, <2>2
<1> QED
  BY <1>2, <1>3, <1>4, <1>5, <1>6 DEF Next

LEMMA Invariant == Spec => []IInv
<1>1. IInv /\ [Next]_vars => IInv'
  BY StepInvariant
<1> QED
  BY InitInvariant, <1>1, PTL DEF Spec

THEOREM TypeCorrect == Spec => []TypeOK
<1>1. IInv => TypeOK
  BY DEF IInv
<1> QED
  BY Invariant, <1>1, PTL

(* The answer to the comment in dijkstra_path: its test of visited is not  *)
(* necessary, a node that was popped is never in the queue again; and the  *)
(* assertion of dijkstra_nearest_sink cannot fail.                         *)
THEOREM VisitedTestUnnecessary == Spec => []NeverReopened
<1>1. NeverReopened \/ Started
  BY DEF NeverReopened, Started
<1>2. IInv => NeverReopened
  BY <1>1 DEF IInv, NeverReopened, SearchOK, FrontierOK
<1> QED
  BY Invariant, <1>2, PTL

(* Distances are final once their node was popped, and nodes are popped in *)
(* the order of their distances.                                           *)
THEOREM DijkstraOrder == Spec => PopsInOrder
<1>1. IInv /\ [Next]_vars =>
        [ /\ \A n \in visited : value'[n] = value[n] /\ prev'[n] = prev[n]
          /\ \A n \in visited' \ visited :
               \A m \in visited : value[m] <= value[n]
        ]_<<searchVars, networkVars>>
  BY StepInvariant
<1> QED
  BY Invariant, <1>1, PTL DEF Spec, PopsInOrder

(* The potentials that mcf_refinement computes from a search keep every    *)
(* reduced cost of the residual network non-negative.                      *)
THEOREM PotentialsStayFeasible == Spec => []CappedDistancesFeasible
<1>1. IInv => CappedDistancesFeasible
  <2> SUFFICES ASSUME IInv, Finished, target # NO_NODE
               PROVE  /\ \A a \in Arc : traversable(a) =>
                           reduced_cost(a) + capped(arc_tail(a))
                             - capped(arc_head(a)) >= 0
                      /\ \A n \in Node \ {source} :
                           value[n] <= value[target] =>
                             reduced_cost(prev[n]) + capped(arc_tail(prev[n]))
                               - capped(n) = 0
    BY DEF CappedDistancesFeasible
  <2>1. NetworkTypeOK /\ DijkstraTypeOK /\ SearchOK /\ ~ NegativeArc
    BY DEF IInv, TypeOK, Finished, Started
  <2> QED
    BY <2>1, CappedFeasible DEF capped
<1> QED
  BY Invariant, <1>1, PTL
-----------------------------------------------------------------------------
(* The reference of the run, without the recursion that defines it: at     *)
(* round k + 1 a distance is the one of round k or that along one more     *)
(* arc, and no greater than any of them.                                   *)
Bellman(d) ==
  /\ d \in [Nat -> [Node -> Int]]
  /\ d[0][source] = 0 /\ \A n \in Node \ {source} : d[0][n] = INFINITE
  /\ \A k \in Nat : \A n \in Node : d[k + 1][n] <= d[k][n]
  /\ \A k \in Nat : \A a \in Arc :
       (traversable(a) /\ d[k][arc_tail(a)] # INFINITE)
         => d[k + 1][arc_head(a)] <= d[k][arc_tail(a)] + reduced_cost(a)
  /\ \A k \in Nat : \A n \in Node :
       \/ d[k + 1][n] = d[k][n]
       \/ \E a \in Arc :
            /\ traversable(a) /\ arc_head(a) = n
            /\ d[k][arc_tail(a)] # INFINITE
            /\ d[k + 1][n] = d[k][arc_tail(a)] + reduced_cost(a)

LEMMA ShortestIsBellman ==
  ASSUME NetworkTypeOK, DijkstraTypeOK
  PROVE  \E d : Bellman(d) /\ shortest = d[max_num_nodes - 1]
<1> DEFINE S == [Node -> Int]
           A == [n \in Node |-> IF n = source THEN 0 ELSE INFINITE]
           Via(e, n) == {a \in Arc : /\ traversable(a) /\ arc_head(a) = n
                                     /\ e[arc_tail(a)] # INFINITE}
           Lengths(e, n) == {e[n]} \union
                              {e[arc_tail(a)] + reduced_cost(a) : a \in Via(e, n)}
           Next1(e) == [n \in Node |-> Min(Lengths(e, n))]
           F == [e \in S |-> Next1(e)]
           Is(d) == d = [k \in Nat |-> IF k = 0 THEN A ELSE Next1(d[k - 1])]
           d == CHOOSE d : Is(d)
<1>1. \A a \in Arc : /\ arc_tail(a) \in Node /\ arc_head(a) \in Node
                     /\ reduced_cost(a) \in Int
  BY ArcFacts
<1>2. ASSUME NEW e \in S, NEW n \in Node
      PROVE  /\ Min(Lengths(e, n)) \in Lengths(e, n)
             /\ \A x \in Lengths(e, n) : Min(Lengths(e, n)) <= x
             /\ Lengths(e, n) \subseteq Int
  <2>1. IsFiniteSet(Lengths(e, n))
    <3>1. IsFiniteSet(Arc)
      BY SizesAssumption, FS_Interval DEF Arc
    <3>2. IsFiniteSet(Via(e, n))
      BY <3>1, FS_Subset
    <3>3. IsFiniteSet({e[arc_tail(a)] + reduced_cost(a) : a \in Via(e, n)})
      <4> DEFINE h == [a \in Arc |-> e[arc_tail(a)] + reduced_cost(a)]
      <4>1. {e[arc_tail(a)] + reduced_cost(a) : a \in Via(e, n)}
              = {h[a] : a \in Via(e, n)}
        OBVIOUS
      <4>2. IsFiniteSet({h[a] : a \in Via(e, n)})
        <5> HIDE DEF Via, h
        <5> QED  BY <3>2, ImageFinite
      <4> HIDE DEF h
      <4> QED  BY <4>1, <4>2
    <3>4. IsFiniteSet({e[n]})
      BY FS_Singleton
    <3> QED
      BY <3>3, <3>4, FS_Union
  <2>2. Lengths(e, n) \subseteq Int /\ Lengths(e, n) # {}
    BY <1>1
  <2> HIDE DEF Lengths
  <2>3. PICK m \in Lengths(e, n) : \A x \in Lengths(e, n) : m <= x
    BY <2>1, <2>2, LeastOfFinite
  <2> QED
    BY <2>2, <2>3, Zenon DEF Min
<1>3. A \in S
  BY InfiniteAssumption
<1>4. \A e \in S : F[e] \in S /\ F[e] = Next1(e)
  <2>1. \A e \in S : Next1(e) \in S
    <3> HIDE DEF Lengths
    <3> QED  BY <1>2
  <2> HIDE DEF Next1, S
  <2> QED  BY <2>1 DEF F
<1>5. \E f : Is(f)
  <2>1. PICK f : Iterates(f, S, A, F)
    <3> HIDE DEF A, F, S, Next1
    <3> QED  BY <1>3, <1>4, Iteration
  <2>2. \A k \in Nat : f[k] = IF k = 0 THEN A ELSE Next1(f[k - 1])
    <3> SUFFICES ASSUME NEW k \in Nat, k # 0 PROVE f[k] = Next1(f[k - 1])
      BY <2>1 DEF Iterates
    <3>1. k - 1 \in Nat /\ (k - 1) + 1 = k
      OBVIOUS
    <3> HIDE DEF S, F, Next1
    <3>2. f[k - 1] \in S /\ f[(k - 1) + 1] = F[f[k - 1]]
      BY <2>1, <3>1 DEF Iterates
    <3> QED  BY <1>4, <3>1, <3>2
  <2>3. Is(f)
    <3> HIDE DEF Next1, S, A, F
    <3> QED  BY <2>1, <2>2 DEF Iterates
  <2> HIDE DEF Is
  <2> QED  BY <2>3
<1>6. Is(d)
  <2> HIDE DEF Is
  <2> QED  BY <1>5
<1>7. shortest = d[max_num_nodes - 1]
  BY DEF shortest
<1> HIDE DEF d
<1>8. d \in [Nat -> S] /\ d[0] = A /\ \A k \in Nat : d[k + 1] = Next1(d[k])
  <2>1. d[0] = A /\ \A k \in Nat : d[k + 1] = Next1(d[k])
    <3> HIDE DEF A, Next1
    <3>1. \A k \in Nat : d[k] = IF k = 0 THEN A ELSE Next1(d[k - 1])
      BY <1>6
    <3>2. ASSUME NEW k \in Nat PROVE d[k + 1] = Next1(d[k])
      <4>1. k + 1 \in Nat /\ k + 1 # 0 /\ (k + 1) - 1 = k
        OBVIOUS
      <4>2. d[k + 1] = Next1(d[(k + 1) - 1])
        BY <3>1, <4>1
      <4> QED  BY <4>1, <4>2
    <3> QED  BY <3>1, <3>2
  <2>2. Nat \subseteq {k \in Nat : d[k] \in S}
    <3> DEFINE P == {k \in Nat : d[k] \in S}
    <3>1. 0 \in P
      BY <2>1, <1>3
    <3>2. ASSUME NEW k \in P \intersect Nat PROVE k + 1 \in P
      <4> HIDE DEF S, F, Next1
      <4> QED  BY <1>4, <2>1
    <3>3. Nat \subseteq P
      <4> HIDE DEF P
      <4> QED  BY <3>1, <3>2, SetInduction
    <3> QED  BY <3>3
  <2>3. DOMAIN d = Nat /\ d = [k \in Nat |-> d[k]]
    BY <1>6
  <2> HIDE DEF S, A, Next1
  <2> QED  BY <2>1, <2>2, <2>3
<1>9. ASSUME NEW k \in Nat, NEW n \in Node
      PROVE  /\ d[k + 1][n] \in Lengths(d[k], n)
             /\ \A x \in Lengths(d[k], n) : d[k + 1][n] <= x
  <2>1. d[k] \in S /\ d[k + 1][n] = Min(Lengths(d[k], n))
    <3> HIDE DEF Lengths
    <3> QED  BY <1>8
  <2> HIDE DEF Lengths, S
  <2> QED  BY <1>2, <2>1
<1>10. Bellman(d)
  <2>1. /\ d \in [Nat -> [Node -> Int]]
        /\ d[0][source] = 0 /\ \A n \in Node \ {source} : d[0][n] = INFINITE
    BY <1>8 DEF DijkstraTypeOK
  <2>2. \A k \in Nat : \A n \in Node : d[k + 1][n] <= d[k][n]
    BY <1>9
  <2>3. ASSUME NEW k \in Nat, NEW a \in Arc, traversable(a),
               d[k][arc_tail(a)] # INFINITE
        PROVE  d[k + 1][arc_head(a)] <= d[k][arc_tail(a)] + reduced_cost(a)
    <3>1. a \in Via(d[k], arc_head(a))
      BY <2>3
    <3>2. d[k][arc_tail(a)] + reduced_cost(a) \in Lengths(d[k], arc_head(a))
      BY <3>1
    <3> HIDE DEF Lengths
    <3> QED  BY <1>1, <1>9, <3>2
  <2>4. ASSUME NEW k \in Nat, NEW n \in Node, d[k + 1][n] # d[k][n]
        PROVE  \E a \in Arc :
                 /\ traversable(a) /\ arc_head(a) = n
                 /\ d[k][arc_tail(a)] # INFINITE
                 /\ d[k + 1][n] = d[k][arc_tail(a)] + reduced_cost(a)
    <3>1. d[k + 1][n] \in Lengths(d[k], n)
      <4> HIDE DEF Lengths
      <4> QED  BY <1>9
    <3>2. PICK a \in Via(d[k], n) :
            d[k + 1][n] = d[k][arc_tail(a)] + reduced_cost(a)
      BY <2>4, <3>1
    <3> QED  BY <3>2
  <2> QED  BY <2>1, <2>2, <2>3, <2>4 DEF Bellman
<1> QED
  BY <1>7, <1>10

(* Potentials that no traversable arc violates bound every round from      *)
(* below.                                                                  *)
LEMMA LowerBound ==
  ASSUME NetworkTypeOK, DijkstraTypeOK, NEW d, Bellman(d),
         NEW p \in [Node -> Int], p[source] = 0,
         \A n \in Node : p[n] <= INFINITE,
         \A a \in Arc : traversable(a) =>
           p[arc_head(a)] <= p[arc_tail(a)] + reduced_cost(a)
  PROVE  \A k \in Nat : \A n \in Node : p[n] <= d[k][n]
<1> DEFINE P == {k \in Nat : \A n \in Node : p[n] <= d[k][n]}
<1>1. 0 \in P
  BY DEF Bellman, DijkstraTypeOK
<1>2. ASSUME NEW k \in P \intersect Nat PROVE k + 1 \in P
  <2> SUFFICES ASSUME NEW n \in Node, d[k + 1][n] # d[k][n]
               PROVE  p[n] <= d[k + 1][n]
    BY <1>2
  <2>1. PICK a \in Arc : /\ traversable(a) /\ arc_head(a) = n
                         /\ d[k + 1][n] = d[k][arc_tail(a)] + reduced_cost(a)
    BY DEF Bellman
  <2>2. arc_tail(a) \in Node /\ reduced_cost(a) \in Int
    BY ArcFacts
  <2>3. p[n] <= p[arc_tail(a)] + reduced_cost(a)
    BY <2>1
  <2>4. p[arc_tail(a)] <= d[k][arc_tail(a)]
    BY <2>2
  <2>5. d[k][arc_tail(a)] \in Int /\ p[arc_tail(a)] \in Int /\ p[n] \in Int
    BY <2>2 DEF Bellman
  <2> QED
    BY <2>1, <2>2, <2>3, <2>4, <2>5
<1>3. Nat \subseteq P
  <2> HIDE DEF P
  <2> QED  BY <1>1, <1>2, SetInduction
<1> QED
  BY <1>3

(* A tree of n nodes is no higher than n - 1: sets of nodes that hold the  *)
(* root, then the children of their members, hold everything after n - 1   *)
(* rounds.                                                                 *)
LEMMA TreeHeight ==
  ASSUME NEW V, V \subseteq Node, NEW root \in V, NEW parent,
         \A S \in SUBSET (V \ {root}) :
           S # {} => \E n \in S : parent[n] \in V \ S,
         NEW L, root \in L[0],
         \A k \in Nat : L[k] \subseteq L[k + 1],
         \A k \in Nat : \A n \in V : parent[n] \in L[k] => n \in L[k + 1]
  PROVE  V \subseteq L[max_num_nodes - 1]
<1> DEFINE Left(k) == V \ L[k]
           P == {k \in Nat : \/ Left(k) = {}
                             \/ Cardinality(Left(k)) + k + 1 <= max_num_nodes}
<1>1. /\ IsFiniteSet(Node) /\ Cardinality(Node) = max_num_nodes
      /\ max_num_nodes \in Nat \ {0}
  <2>1. /\ max_num_nodes \in Nat \ {0} /\ 0 \in Int /\ max_num_nodes - 1 \in Int
        /\ ~ (0 > max_num_nodes - 1)
        /\ (max_num_nodes - 1) - 0 + 1 = max_num_nodes
    BY SizesAssumption
  <2>2. /\ IsFiniteSet(0 .. max_num_nodes - 1)
        /\ Cardinality(0 .. max_num_nodes - 1) = max_num_nodes
    BY <2>1, FS_Interval
  <2> QED  BY <2>1, <2>2 DEF Node
<1>2. \A S \in SUBSET V : IsFiniteSet(S) /\ Cardinality(S) \in Nat
  BY <1>1, FS_Subset, FS_CardinalityType
<1>3. \A k \in Nat : root \in L[k]
  <2> DEFINE R == {k \in Nat : root \in L[k]}
  <2>1. 0 \in R /\ \A k \in R \intersect Nat : k + 1 \in R
    OBVIOUS
  <2>2. Nat \subseteq R
    <3> HIDE DEF R
    <3> QED  BY <2>1, SetInduction
  <2> QED  BY <2>2
<1>4. 0 \in P
  <2>1. Left(0) \subseteq Node \ {root}
    OBVIOUS
  <2>2. /\ IsFiniteSet(Node \ {root})
        /\ Cardinality(Node \ {root}) = max_num_nodes - 1
    BY <1>1, FS_RemoveElement
  <2>3. Cardinality(Left(0)) <= max_num_nodes - 1
    BY <2>1, <2>2, FS_Subset
  <2>4. Cardinality(Left(0)) \in Nat
    BY <1>2
  <2> HIDE DEF Left
  <2> QED  BY <1>1, <2>3, <2>4
<1>5. ASSUME NEW k \in P \intersect Nat PROVE k + 1 \in P
  <2>1. Left(k + 1) \subseteq Left(k)
    OBVIOUS
  <2>2. CASE Left(k) = {}
    <3>1. Left(k + 1) = {}
      BY <2>1, <2>2
    <3> HIDE DEF Left
    <3> QED  BY <3>1
  <2>3. CASE Left(k) # {}
    <3>1. PICK n \in Left(k) : parent[n] \in V \ Left(k)
      <4>1. Left(k) \in SUBSET (V \ {root})
        BY <1>3
      <4> HIDE DEF Left
      <4> QED  BY <2>3, <4>1
    <3>2. n \in Left(k) \ Left(k + 1)
      BY <3>1
    <3> HIDE DEF Left
    <3>3. Left(k + 1) \subseteq Left(k) \ {n}
      BY <2>1, <3>2
    <3>4. /\ IsFiniteSet(Left(k)) /\ Cardinality(Left(k)) \in Nat
          /\ IsFiniteSet(Left(k + 1)) /\ Cardinality(Left(k + 1)) \in Nat
      BY <1>2 DEF Left
    <3>5. /\ IsFiniteSet(Left(k) \ {n})
          /\ Cardinality(Left(k) \ {n}) = Cardinality(Left(k)) - 1
      BY <3>2, <3>4, FS_RemoveElement
    <3>6. Cardinality(Left(k + 1)) <= Cardinality(Left(k)) - 1
      BY <3>3, <3>5, FS_Subset
    <3>7. Cardinality(Left(k)) + k + 1 <= max_num_nodes
      BY <2>3
    <3>8. Cardinality(Left(k + 1)) + (k + 1) + 1 <= max_num_nodes
      BY <1>1, <3>4, <3>6, <3>7
    <3> QED  BY <3>8
  <2> QED  BY <2>2, <2>3
<1>6. Nat \subseteq P
  <2> HIDE DEF P
  <2> QED  BY <1>4, <1>5, SetInduction
<1> DEFINE last == max_num_nodes - 1
<1>7. last \in P /\ last \in Nat
  BY <1>1, <1>6
<1>8. Left(last) = {}
  <2>1. /\ IsFiniteSet(Left(last)) /\ Cardinality(Left(last)) \in Nat
    BY <1>2
  <2>2. Left(last) = {} \/ Cardinality(Left(last)) + last + 1 <= max_num_nodes
    BY <1>7
  <2> HIDE DEF Left
  <2>3. Left(last) = {} \/ Cardinality(Left(last)) = 0
    BY <1>1, <2>1, <2>2
  <2> QED  BY <2>1, <2>3, FS_EmptySet
<1> QED
  BY <1>8

parents == [n \in Node |-> arc_tail(prev[n])]

(* The nodes that were reached are such a tree, and the arc into each of   *)
(* them accounts for its distance.                                         *)
LEMMA ReachedTree ==
  ASSUME NetworkTypeOK, DijkstraTypeOK, SearchOK
  PROVE  /\ source \in Reached /\ Reached \subseteq Node
         /\ \A S \in SUBSET (Reached \ {source}) :
              S # {} => \E n \in S : parents[n] \in Reached \ S
         /\ \A n \in Reached \ {source} :
              /\ prev[n] \in Arc /\ traversable(prev[n])
              /\ arc_head(prev[n]) = n
              /\ parents[n] = arc_tail(prev[n]) /\ parents[n] \in visited
              /\ parents[n] \in Reached
              /\ value[n] = value[parents[n]] + reduced_cost(prev[n])
<1>1. \A n \in Node : n \in Reached <=> value[n] < INFINITE
  BY InfiniteAssumption DEF Reached, SearchOK, ValuesOK, DijkstraTypeOK
<1>2. visited \subseteq Reached
  BY <1>1 DEF DijkstraTypeOK, SearchOK, ValuesOK
<1>3. source \in Reached
  BY InfiniteAssumption DEF Reached, SearchOK, ValuesOK, DijkstraTypeOK
<1>4. \A n \in Reached \ {source} :
        /\ prev[n] \in Arc /\ traversable(prev[n]) /\ arc_head(prev[n]) = n
        /\ parents[n] = arc_tail(prev[n]) /\ parents[n] \in visited
        /\ value[n] = value[parents[n]] + reduced_cost(prev[n])
  BY <1>1 DEF SearchOK, PrevOK, parents, Reached
<1>5. ASSUME NEW S \in SUBSET (Reached \ {source}), S # {}
      PROVE  \E n \in S : parents[n] \in Reached \ S
  <2>1. CASE S \intersect visited = {}
    BY <1>2, <1>4, <1>5, <2>1
  <2>2. CASE S \intersect visited # {}
    <3>1. PICK n \in S \intersect visited :
                 arc_tail(prev[n]) \notin S \intersect visited
      BY <2>2 DEF SearchOK, TreeOK
    <3> QED
      BY <1>2, <1>4, <3>1
  <2> QED
    BY <2>1, <2>2
<1> QED
  BY <1>2, <1>3, <1>4, <1>5 DEF Reached

(* What the search has found are lengths of paths of less than             *)
(* max_num_nodes arcs.                                                     *)
LEMMA UpperBound ==
  ASSUME NetworkTypeOK, DijkstraTypeOK, SearchOK, NEW d, Bellman(d)
  PROVE  \A n \in Reached : d[max_num_nodes - 1][n] <= value[n]
<1> DEFINE L == [k \in Nat |-> {n \in Reached : d[k][n] <= value[n]}]
<1>1. source \in L[0]
  <2>1. source \in Reached /\ d[0][source] = 0 /\ value[source] = 0
    BY ReachedTree DEF Bellman, SearchOK, ValuesOK
  <2> QED  BY <2>1
<1>2. /\ \A k \in Nat : \A n \in Node : d[k][n] \in Int
      /\ \A n \in Node : value[n] \in Int
  BY DEF Bellman, DijkstraTypeOK
<1>3. ASSUME NEW k \in Nat PROVE L[k] \subseteq L[k + 1]
  <2> SUFFICES ASSUME NEW n \in Reached, d[k][n] <= value[n]
               PROVE  d[k + 1][n] <= value[n]
    OBVIOUS
  <2>1. d[k + 1][n] <= d[k][n] /\ n \in Node /\ k + 1 \in Nat
    BY DEF Bellman, Reached
  <2> QED  BY <1>2, <2>1
<1>4. ASSUME NEW k \in Nat, NEW n \in Reached, parents[n] \in L[k]
      PROVE  n \in L[k + 1]
  <2>1. CASE n = source
    <3>1. \A j \in Nat : source \in L[j]
      <4> DEFINE R == {j \in Nat : source \in L[j]}
      <4>1. 0 \in R /\ \A j \in R \intersect Nat : j + 1 \in R
        <5> HIDE DEF L
        <5> QED  BY <1>1, <1>3
      <4>2. Nat \subseteq R
        <5> HIDE DEF R
        <5> QED  BY <4>1, SetInduction
      <4> QED  BY <4>2
    <3>2. k + 1 \in Nat
      OBVIOUS
    <3> HIDE DEF L
    <3> QED  BY <2>1, <3>1, <3>2
  <2>2. CASE n # source
    <3>1. /\ prev[n] \in Arc /\ traversable(prev[n])
          /\ arc_head(prev[n]) = n
          /\ parents[n] = arc_tail(prev[n]) /\ parents[n] \in Reached
          /\ value[n] = value[parents[n]] + reduced_cost(prev[n])
      BY <2>2, ReachedTree
    <3>2. d[k][parents[n]] <= value[parents[n]] /\ parents[n] \in Node
      BY <1>4, <3>1 DEF Reached
    <3>3. d[k][parents[n]] # INFINITE
      <4>1. value[parents[n]] < INFINITE
        BY <3>1, <3>2, InfiniteAssumption DEF SearchOK, ValuesOK, Reached,
           DijkstraTypeOK
      <4> QED  BY <1>2, <3>2, <4>1, InfiniteAssumption
    <3>4. d[k + 1][n] <= d[k][parents[n]] + reduced_cost(prev[n])
      BY <3>1, <3>3 DEF Bellman
    <3>5. reduced_cost(prev[n]) \in Int /\ n \in Node /\ k + 1 \in Nat
      BY <3>1, ArcFacts DEF Reached
    <3>6. d[k + 1][n] <= value[n]
      BY <1>2, <3>1, <3>2, <3>4, <3>5
    <3> QED  BY <3>5, <3>6
  <2> QED  BY <2>1, <2>2
<1>5. Reached \subseteq L[max_num_nodes - 1]
  <2> HIDE DEF L
  <2> QED  BY <1>1, <1>3, <1>4, ReachedTree, TreeHeight
<1>6. max_num_nodes - 1 \in Nat
  BY SizesAssumption
<1> QED
  BY <1>5, <1>6

(* The least distances that the run compares with, for a finished search.  *)
LEMMA FinishedSearch ==
  ASSUME IInv, Finished
  PROVE  /\ shortest \in [Node -> Int]
         /\ \A n \in Node : shortest[n] <= value[n]
         /\ IF target # NO_NODE /\ prune
            THEN \A n \in Node : capped(n) <= shortest[n]
            ELSE value = shortest
<1>1. /\ NetworkTypeOK /\ DijkstraTypeOK /\ SearchOK /\ ~ NegativeArc
      /\ \/ queue = {} /\ todo = {}
         \/ prune /\ target # NO_NODE
  BY DEF IInv, TypeOK, Finished, Started
<1>2. PICK d : Bellman(d) /\ shortest = d[max_num_nodes - 1]
  BY <1>1, ShortestIsBellman
<1>3. max_num_nodes - 1 \in Nat
  BY SizesAssumption
<1>4. shortest \in [Node -> Int]
  BY <1>2, <1>3 DEF Bellman
<1>5. /\ \A n \in Node : /\ value[n] \in Int /\ 0 <= value[n]
                         /\ value[n] <= INFINITE
                         /\ value[n] < INFINITE <=> n \in queue \union visited
      /\ value[source] = 0 /\ source \in Node
  BY <1>1 DEF DijkstraTypeOK, SearchOK, ValuesOK
<1>6. \A a \in Arc : /\ arc_tail(a) \in Node /\ arc_head(a) \in Node
                     /\ reduced_cost(a) \in Int
                     /\ traversable(a) => reduced_cost(a) >= 0
  BY <1>1, ArcFacts DEF NegativeArc
<1>7. \A n \in Node : shortest[n] <= value[n]
  <2>1. \A n \in Node : shortest[n] <= INFINITE
    <3> DEFINE P == {k \in Nat : \A n \in Node : d[k][n] <= INFINITE}
    <3>1. 0 \in P
      <4>1. d[0][source] = 0 /\ \A n \in Node \ {source} : d[0][n] = INFINITE
        BY <1>2 DEF Bellman
      <4> QED  BY <4>1, InfiniteAssumption
    <3>2. ASSUME NEW k \in P \intersect Nat PROVE k + 1 \in P
      <4> SUFFICES ASSUME NEW n \in Node PROVE d[k + 1][n] <= INFINITE
        OBVIOUS
      <4>1. /\ d[k + 1][n] <= d[k][n] /\ d[k][n] <= INFINITE
            /\ d[k + 1][n] \in Int /\ d[k][n] \in Int
        BY <1>2, <3>2 DEF Bellman
      <4> QED  BY <4>1, InfiniteAssumption
    <3>3. Nat \subseteq P
      <4> HIDE DEF P
      <4> QED  BY <3>1, <3>2, SetInduction
    <3> QED
      BY <1>2, <1>3, <3>3
  <2>2. \A n \in Reached : shortest[n] <= value[n]
    BY <1>1, <1>2, UpperBound
  <2> QED
    BY <2>1, <2>2 DEF Reached
<1>8. CASE target # NO_NODE /\ prune
  <2> DEFINE p == [n \in Node |-> capped(n)]
  <2>1. target \in Node /\ value[target] \in Int /\ 0 <= value[target]
    BY <1>1, <1>5, <1>8 DEF DijkstraTypeOK
  <2>2. /\ p \in [Node -> Int] /\ p[source] = 0
        /\ \A n \in Node : p[n] <= INFINITE
    BY <1>5, <2>1 DEF capped, MIN
  <2>3. ASSUME NEW a \in Arc, traversable(a)
        PROVE  p[arc_head(a)] <= p[arc_tail(a)] + reduced_cost(a)
    <3>1. reduced_cost(a) + capped(arc_tail(a)) - capped(arc_head(a)) >= 0
      BY <1>1, <1>8, <2>3, CappedFeasible DEF capped
    <3>2. /\ capped(arc_tail(a)) \in Int /\ capped(arc_head(a)) \in Int
      BY <1>5, <1>6, <2>1 DEF capped, MIN
    <3> QED
      BY <1>6, <3>1, <3>2
  <2>4. \A n \in Node : p[n] <= d[max_num_nodes - 1][n]
    <3> HIDE DEF p
    <3> QED  BY <1>1, <1>2, <1>3, <2>2, <2>3, LowerBound
  <2> QED
    BY <1>2, <1>4, <1>7, <1>8, <2>4
<1>9. CASE ~ (target # NO_NODE /\ prune)
  <2>1. queue = {} /\ todo = {}
    BY <1>1, <1>9
  <2>2. ASSUME NEW a \in Arc, traversable(a)
        PROVE  value[arc_head(a)] <= value[arc_tail(a)] + reduced_cost(a)
    <3>1. CASE arc_tail(a) \in visited
      <4>1. prune => arc_tail(a) # target
        BY <1>6, <1>9 DEF Node, NO_NODE
      <4> QED
        BY <1>1, <2>1, <2>2, <3>1, <4>1 DEF SearchOK, RelaxedOK
    <3>2. CASE arc_tail(a) \notin visited
      <4>1. ~ (value[arc_tail(a)] < INFINITE)
        BY <1>5, <1>6, <2>1, <3>2
      <4> QED
        BY <1>5, <1>6, <2>2, <4>1, InfiniteAssumption
    <3> QED
      BY <3>1, <3>2
  <2>3. value \in [Node -> Int]
    BY <1>1 DEF DijkstraTypeOK
  <2>4. \A n \in Node : value[n] <= shortest[n]
    BY <1>1, <1>2, <1>3, <1>5, <2>2, <2>3, LowerBound
  <2>5. value = shortest
    <3>1. \A n \in Node : value[n] = shortest[n]
      BY <1>4, <1>5, <1>7, <2>4
    <3> QED
      BY <1>4, <2>3, <3>1
  <2> QED
    BY <1>4, <1>7, <1>9, <2>5
<1> QED
  BY <1>8, <1>9

LEMMA Distances == IInv => DistancesExact
<1> SUFFICES ASSUME IInv, Finished
             PROVE  IF target # NO_NODE /\ prune
                    THEN \A n \in Node : capped(n) = MIN(value[target], shortest[n])
                    ELSE value = shortest
  BY DEF DistancesExact
<1>1. /\ NetworkTypeOK /\ DijkstraTypeOK /\ SearchOK
  BY DEF IInv, TypeOK, Finished, Started
<1>2. ASSUME target # NO_NODE, prune, NEW n \in Node
      PROVE  capped(n) = MIN(value[target], shortest[n])
  <2>1. value[target] \in Int /\ value[n] \in Int
    BY <1>1, <1>2 DEF DijkstraTypeOK
  <2>2. /\ shortest[n] \in Int /\ shortest[n] <= value[n]
        /\ capped(n) <= shortest[n]
    BY <1>2, FinishedSearch
  <2> QED
    BY <2>1, <2>2 DEF capped, MIN
<1> QED
  BY <1>2, FinishedSearch

LEMMA Targets == IInv => TargetExact
<1> SUFFICES ASSUME IInv, Finished
             PROVE  /\ target # NO_NODE <=>
                         \E n \in sinks : shortest[n] # INFINITE
                    /\ (target # NO_NODE /\ prune) =>
                         /\ target \in sinks
                         /\ \A n \in sinks : shortest[target] <= shortest[n]
  BY DEF TargetExact
<1>1. /\ NetworkTypeOK /\ DijkstraTypeOK /\ SearchOK
      /\ \/ queue = {} /\ todo = {}
         \/ prune /\ target # NO_NODE
  BY DEF IInv, TypeOK, Finished, Started
<1>2. /\ \A n \in Node : /\ value[n] \in Int /\ value[n] <= INFINITE
                         /\ value[n] < INFINITE <=> n \in queue \union visited
      /\ visited \subseteq Node /\ sinks \subseteq Node
  BY <1>1 DEF DijkstraTypeOK, SearchOK, ValuesOK
<1>3. \A n \in Node : shortest[n] \in Int /\ shortest[n] <= value[n]
  BY FinishedSearch
<1>4. ASSUME target # NO_NODE
      PROVE  /\ target \in sinks /\ target \in visited
             /\ shortest[target] # INFINITE
  <2>1. target \in sinks /\ target \in visited
    BY <1>1, <1>4 DEF SearchOK, TargetOK
  <2> QED
    BY <1>2, <1>3, <2>1, InfiniteAssumption
<1>5. ASSUME NEW n \in sinks, shortest[n] # INFINITE
      PROVE  target # NO_NODE
  <2> SUFFICES ASSUME target = NO_NODE PROVE FALSE
    OBVIOUS
  <2>1. value[n] # INFINITE /\ queue = {}
    BY <1>1, <1>5, FinishedSearch
  <2>2. n \in visited
    BY <1>2, <2>1, InfiniteAssumption
  <2> QED
    BY <1>1, <2>2 DEF SearchOK, TargetOK
<1>6. ASSUME target # NO_NODE, prune, NEW n \in sinks
      PROVE  shortest[target] <= shortest[n]
  <2> SUFFICES ASSUME n # target PROVE shortest[target] <= shortest[n]
    BY <1>2, <1>3
  <2>1. n \notin visited
    BY <1>1, <1>6 DEF SearchOK, TargetOK
  <2>2. value[target] <= value[n]
    BY <1>1, <1>2, <1>4, <1>6, <2>1 DEF SearchOK, FrontierOK
  <2>3. capped(n) <= shortest[n]
    BY <1>2, <1>6, FinishedSearch
  <2>4. capped(n) = value[target]
    BY <1>2, <1>4, <1>6, <2>2 DEF capped, MIN
  <2> QED
    BY <1>2, <1>3, <1>4, <1>6, <2>3, <2>4
<1> QED
  BY <1>4, <1>5, <1>6

(* Walking prev back from any node that was reached ends at the source.    *)
LEMMA Paths == IInv => PrevIsShortestPath
<1> SUFFICES ASSUME IInv, Finished PROVE PrevIsShortestPath
  BY DEF PrevIsShortestPath
<1>1. NetworkTypeOK /\ DijkstraTypeOK /\ SearchOK
  BY DEF IInv, TypeOK, Finished, Started
<1> DEFINE Up(b) == [n \in Node |-> IF b[n] = source \/ value[n] = INFINITE
                                    THEN b[n] ELSE arc_tail(prev[b[n]])]
           A == [n \in Node |-> n]
           Is(back) == back = [k \in Nat |-> IF k = 0 THEN A ELSE Up(back[k - 1])]
           back == CHOOSE b : Is(b)
           S == {b \in [Node -> Node] : \A n \in Reached : b[n] \in Reached}
           F == [b \in S |-> Up(b)]
<1>2. /\ source \in Reached /\ Reached \subseteq Node
      /\ \A n \in Reached \ {source} :
           /\ prev[n] \in Arc /\ traversable(prev[n]) /\ arc_head(prev[n]) = n
           /\ parents[n] = arc_tail(prev[n]) /\ parents[n] \in Reached
           /\ value[n] = value[parents[n]] + reduced_cost(prev[n])
  BY <1>1, ReachedTree
<1>3. A \in S
  BY <1>2
<1>4. \A b \in S : F[b] \in S /\ F[b] = Up(b)
  <2> SUFFICES ASSUME NEW b \in S PROVE Up(b) \in S
    OBVIOUS
  <2> DEFINE up(n) == IF b[n] = source \/ value[n] = INFINITE
                      THEN b[n] ELSE arc_tail(prev[b[n]])
  <2>1. ASSUME NEW n \in Node
        PROVE  up(n) \in Node /\ (n \in Reached => up(n) \in Reached)
    <3>1. n \in Reached <=> value[n] # INFINITE
      BY DEF Reached
    <3>2. n \in Reached /\ b[n] # source => arc_tail(prev[b[n]]) \in Reached
      BY <1>2
    <3> QED  BY <1>2, <3>1, <3>2
  <2>2. Up(b) = [n \in Node |-> up(n)]
    OBVIOUS
  <2> HIDE DEF Up, up
  <2>3. Up(b) \in [Node -> Node] /\ \A n \in Reached : Up(b)[n] \in Reached
    BY <1>2, <2>1, <2>2
  <2> QED  BY <2>3
<1>5. \E f : Is(f)
  <2>1. PICK f : Iterates(f, S, A, F)
    <3> HIDE DEF A, F, S, Up
    <3> QED  BY <1>3, <1>4, Iteration
  <2>2. \A k \in Nat : f[k] = IF k = 0 THEN A ELSE Up(f[k - 1])
    <3> SUFFICES ASSUME NEW k \in Nat, k # 0 PROVE f[k] = Up(f[k - 1])
      BY <2>1 DEF Iterates
    <3>1. k - 1 \in Nat /\ (k - 1) + 1 = k
      OBVIOUS
    <3> HIDE DEF S, F, Up
    <3>2. f[k - 1] \in S /\ f[(k - 1) + 1] = F[f[k - 1]]
      BY <2>1, <3>1 DEF Iterates
    <3> QED  BY <1>4, <3>1, <3>2
  <2>3. Is(f)
    <3> HIDE DEF Up, S, A, F
    <3> QED  BY <2>1, <2>2 DEF Iterates
  <2> HIDE DEF Is
  <2> QED  BY <2>3
<1>6. Is(back)
  <2> HIDE DEF Is
  <2> QED  BY <1>5
<1>7. PrevIsShortestPath <=>
        \A n \in Reached :
          /\ back[max_num_nodes - 1][n] = source
          /\ n # source =>
               /\ traversable(prev[n]) /\ arc_head(prev[n]) = n
               /\ value[n] = value[arc_tail(prev[n])] + reduced_cost(prev[n])
  BY DEF PrevIsShortestPath
<1> HIDE DEF back
<1>8. back[0] = A /\ \A k \in Nat : back[k + 1] = Up(back[k])
  <2> HIDE DEF A, Up
  <2>1. \A k \in Nat : back[k] = IF k = 0 THEN A ELSE Up(back[k - 1])
    BY <1>6
  <2>2. ASSUME NEW k \in Nat PROVE back[k + 1] = Up(back[k])
    <3>1. k + 1 \in Nat /\ k + 1 # 0 /\ (k + 1) - 1 = k
      OBVIOUS
    <3>2. back[k + 1] = Up(back[(k + 1) - 1])
      BY <2>1, <3>1
    <3> QED  BY <3>1, <3>2
  <2> QED  BY <2>1, <2>2
<1> DEFINE step(n) == IF n = source THEN n ELSE parents[n]
<1>9. \A n \in Reached : /\ step(n) \in Reached
                         /\ back[0][n] = n
                         /\ \A k \in Nat : back[k][n] \in Reached
                                           => back[k + 1][n] = step(back[k][n])
  <2> SUFFICES ASSUME NEW n \in Reached
               PROVE  /\ step(n) \in Reached
                      /\ back[0][n] = n
                      /\ \A k \in Nat : back[k][n] \in Reached
                                          => back[k + 1][n] = step(back[k][n])
    OBVIOUS
  <2>1. n \in Node /\ value[n] # INFINITE
    BY DEF Reached
  <2>2. step(n) \in Reached /\ back[0][n] = n
    BY <1>2, <1>8, <2>1
  <2>3. ASSUME NEW k \in Nat, back[k][n] \in Reached
        PROVE  back[k + 1][n] = step(back[k][n])
    <3>1. back[k + 1][n] = IF back[k][n] = source THEN back[k][n]
                           ELSE arc_tail(prev[back[k][n]])
      <4>1. back[k + 1] = Up(back[k])
        <5> HIDE DEF Up
        <5> QED  BY <1>8
      <4> QED  BY <2>1, <4>1
    <3> QED  BY <1>2, <2>3, <3>1
  <2> QED  BY <2>2, <2>3
<1> HIDE DEF A, Up, Is
<1>10. \A k \in Nat : \A n \in Reached :
         /\ back[k][n] \in Reached
         /\ back[k + 1][n] = back[k][step(n)]
  <2> DEFINE P == {k \in Nat : \A n \in Reached :
                     back[k][n] \in Reached /\ back[k + 1][n] = back[k][step(n)]}
  <2>1. 0 \in P
    <3> SUFFICES ASSUME NEW n \in Reached
                 PROVE  back[0][n] \in Reached /\ back[0 + 1][n] = back[0][step(n)]
      OBVIOUS
    <3>1. back[0][n] = n /\ step(n) \in Reached /\ back[0][step(n)] = step(n)
      BY <1>9
    <3>2. back[0 + 1][n] = step(back[0][n])
      BY <1>9, <3>1
    <3> QED  BY <3>1, <3>2
  <2>2. ASSUME NEW k \in P \intersect Nat PROVE k + 1 \in P
    <3> SUFFICES ASSUME NEW n \in Reached
                 PROVE  /\ back[k + 1][n] \in Reached
                        /\ back[(k + 1) + 1][n] = back[k + 1][step(n)]
      OBVIOUS
    <3>1. step(n) \in Reached
      BY <1>9
    <3>2. /\ back[k][n] \in Reached /\ back[k + 1][n] = back[k][step(n)]
          /\ back[k][step(n)] \in Reached
          /\ back[k + 1][step(n)] = back[k][step(step(n))]
      BY <3>1
    <3>3. back[(k + 1) + 1][n] = step(back[k + 1][n])
      BY <1>9, <3>2
    <3>4. back[k + 1][step(n)] = step(back[k][step(n)])
      BY <1>9, <3>1, <3>2
    <3> QED  BY <3>2, <3>3, <3>4
  <2>3. Nat \subseteq P
    <3> HIDE DEF P
    <3> QED  BY <2>1, <2>2, SetInduction
  <2> QED  BY <2>3
<1> DEFINE L == [k \in Nat |-> {n \in Reached : back[k][n] = source}]
<1>11. source \in L[0]
  BY <1>2, <1>9
<1>12. ASSUME NEW k \in Nat PROVE L[k] \subseteq L[k + 1]
  <2> SUFFICES ASSUME NEW n \in Reached, back[k][n] = source
               PROVE  back[k + 1][n] = source
    OBVIOUS
  <2> QED  BY <1>2, <1>9
<1>13. ASSUME NEW k \in Nat, NEW n \in Reached, parents[n] \in L[k]
       PROVE  n \in L[k + 1]
  <2>1. CASE n = source
    <3>1. step(source) = source
      OBVIOUS
    <3>2. \A j \in Nat : source \in L[j]
      <4> DEFINE R == {j \in Nat : source \in L[j]}
      <4>1. 0 \in R /\ \A j \in R \intersect Nat : j + 1 \in R
        <5> HIDE DEF L
        <5> QED  BY <1>11, <1>12
      <4>2. Nat \subseteq R
        <5> HIDE DEF R
        <5> QED  BY <4>1, SetInduction
      <4> QED  BY <4>2
    <3>3. k + 1 \in Nat
      OBVIOUS
    <3> HIDE DEF L
    <3> QED  BY <2>1, <3>2, <3>3
  <2>2. CASE n # source
    <3>1. back[k][parents[n]] = source /\ k + 1 \in Nat
      BY <1>13
    <3>2. back[k + 1][n] = back[k][step(n)]
      BY <1>10
    <3> QED  BY <2>2, <3>1, <3>2
  <2> QED  BY <2>1, <2>2
<1>14. Reached \subseteq L[max_num_nodes - 1]
  <2> HIDE DEF L
  <2> QED  BY <1>1, <1>11, <1>12, <1>13, ReachedTree, TreeHeight
<1>15. \A n \in Reached : back[max_num_nodes - 1][n] = source
  <2>1. max_num_nodes - 1 \in Nat
    BY SizesAssumption
  <2> QED  BY <1>14, <2>1
<1> QED
  BY <1>2, <1>7, <1>15

(* Both searches keep their promise: the distances are the least ones, a   *)
(* target is returned whenever one can be reached and is a nearest one,    *)
(* and prev holds a shortest path from the source to every node that was   *)
(* reached.                                                                *)
THEOREM SearchIsExact == Spec => []SearchExact
<1>1. IInv => SearchExact
  BY Distances, Targets, Paths DEF SearchExact
<1> QED
  BY Invariant, <1>1, PTL
=============================================================================
