---------------------------- MODULE ShortestPath ----------------------------
(* One call of dijkstra_path or of dijkstra_nearest_sink on any network,   *)
(* and what the two functions promise to their callers.                    *)
EXTENDS Dijkstra

CONSTANTS Graphs, Capacities, Costs, Potentials,   \* the networks to search
          Sources                                  \* and the nodes to start at

ASSUME NetworksAssumption ==
  /\ Graphs \subseteq [from : [ProblemArc -> Node], to : [ProblemArc -> Node]]
  /\ Capacities \subseteq [Arc -> Nat]
  /\ Costs \subseteq [ProblemArc -> Int]
  /\ Potentials \subseteq [Node -> Int]
  /\ Sources \subseteq Node

VARIABLE returned   \* the call is over

vars == <<networkVars, searchVars, returned>>

Init ==
  /\ graph \in Graphs
  /\ capacity \in Capacities
  /\ \E c \in Costs : cost = antisymmetric(c)
  /\ potential \in Potentials
  /\ NoSearch
  /\ returned = FALSE

(* dijkstra_path.  It asserts that the reduced cost of the arcs that it    *)
(* relaxes is not negative; its callers have to see to it.  A destination  *)
(* that is no node is allowed when prune is false.                         *)
dijkstra_path(s, destination, p) ==
  /\ ~ returned
  /\ ~ NegativeArc
  /\ destination \in Node \/ ~ p
  /\ Start(s, {destination} \intersect Node, p, TRUE)
  /\ UNCHANGED <<networkVars, returned>>

(* dijkstra_nearest_sink, for a set T of nodes of negative balance.        *)
dijkstra_nearest_sink(s, T) ==
  /\ ~ returned
  /\ StartNearestSink(s, T)
  /\ UNCHANGED <<networkVars, returned>>

dijkstra_nearest_sink_fails ==
  /\ ~ returned
  /\ GiveUp
  /\ returned' = TRUE
  /\ UNCHANGED networkVars

Search ==
  /\ SearchStep
  /\ returned' = ~ searching'
  /\ UNCHANGED networkVars

Next ==
  \/ \E s \in Sources, d \in Node \union {NO_NODE}, p \in BOOLEAN :
       dijkstra_path(s, d, p)
  \/ \E s \in Sources, T \in SUBSET Node : dijkstra_nearest_sink(s, T)
  \/ dijkstra_nearest_sink_fails
  \/ Search

Spec == Init /\ [][Next]_vars /\ WF_vars(Search)

TypeOK == NetworkTypeOK /\ DijkstraTypeOK /\ returned \in BOOLEAN
-----------------------------------------------------------------------------
(* Reference: the length of a shortest path of at most k arcs, from the    *)
(* equations of Bellman, and so the distance with k = max_num_nodes - 1.   *)
shortest ==
  LET d[k \in Nat] ==
        IF k = 0
        THEN [n \in Node |-> IF n = source THEN 0 ELSE INFINITE]
        ELSE LET e == d[k - 1]
                 Via(n) == {a \in Arc : /\ traversable(a) /\ arc_head(a) = n
                                        /\ e[arc_tail(a)] # INFINITE}
             IN  [n \in Node |->
                    Min({e[n]} \union
                        {e[arc_tail(a)] + reduced_cost(a) : a \in Via(n)})]
  IN  d[max_num_nodes - 1]

Reached == {n \in Node : value[n] # INFINITE}

(* The capped distances that mcf_refinement subtracts from the potentials. *)
capped(n) == MIN(value[target], value[n])

Finished == returned /\ visited # {}

(* The code asks in dijkstra_path whether the test of visited is           *)
(* necessary, and asserts in dijkstra_nearest_sink that it is not: a node  *)
(* that was popped never comes back to the queue.                          *)
NeverReopened == queue \intersect visited = {}

(* Nodes leave the queue in the order of their distance, and a distance is *)
(* final once its node left.                                               *)
PopsInOrder ==
  [][/\ \A n \in visited : value'[n] = value[n] /\ prev'[n] = prev[n]
     /\ \A n \in visited' \ visited : \A m \in visited : value[m] <= value[n]
    ]_<<searchVars, networkVars>>

(* The distances are the least ones, for every node when the search was    *)
(* not pruned and up to the distance of the target when it was.            *)
DistancesExact ==
  Finished =>
    IF target # NO_NODE /\ prune
    THEN LET least == shortest
         IN  \A n \in Node : capped(n) = MIN(value[target], least[n])
    ELSE value = shortest

(* The search returns a target if and only if one can be reached, and a    *)
(* pruned search returns a nearest one.                                    *)
TargetExact ==
  Finished =>
    LET least == shortest
    IN  /\ target # NO_NODE <=> \E n \in sinks : least[n] # INFINITE
        /\ (target # NO_NODE /\ prune) =>
             target \in sinks /\ \A n \in sinks : least[target] <= least[n]

(* The arcs of prev lead back from every node that was reached to the      *)
(* source, in fewer than max_num_nodes arcs, along traversable arcs whose  *)
(* costs add up to the distance: the path that get_augmenting_flow walks.  *)
PrevIsShortestPath ==
  Finished =>
    LET back[k \in Nat] ==
          IF k = 0 THEN [n \in Node |-> n]
          ELSE LET b == back[k - 1]
               IN  [n \in Node |-> IF b[n] = source \/ value[n] = INFINITE
                                   THEN b[n] ELSE arc_tail(prev[b[n]])]
        origin == back[max_num_nodes - 1]
    IN  \A n \in Reached :
          /\ origin[n] = source
          /\ n # source =>
               /\ traversable(prev[n]) /\ arc_head(prev[n]) = n
               /\ value[n] = value[arc_tail(prev[n])] + reduced_cost(prev[n])

(* What both searches promise: the least distances, a target whenever one  *)
(* can be reached and the nearest one when pruned, and in prev a shortest  *)
(* path back to the source.                                                *)
SearchExact == DistancesExact /\ TargetExact /\ PrevIsShortestPath

(* What mcf_refinement relies on (see page 323 of Ahuja-Magnanti-Orlin,    *)
(* "whether we prune or not the Dijkstra search"): once the capped         *)
(* distances are subtracted from the potentials no traversable arc has a   *)
(* negative reduced cost, and the arcs of the path have reduced cost 0.    *)
CappedDistancesFeasible ==
  (Finished /\ target # NO_NODE) =>
    /\ \A a \in Arc : traversable(a) =>
         reduced_cost(a) + capped(arc_tail(a)) - capped(arc_head(a)) >= 0
    /\ \A n \in Node \ {source} : value[n] <= value[target] =>
         reduced_cost(prev[n]) + capped(arc_tail(prev[n])) - capped(n) = 0

(* Every search ends.                                                      *)
SearchEnds == searching ~> returned
=============================================================================
