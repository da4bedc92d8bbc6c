---------------------------- MODULE FeasibleFlow ----------------------------
(* BFS_path and simple_feasibleflow of src/mcf/mcf/algorithm.c: a flow     *)
(* from one source to one destination, along augmenting paths that a       *)
(* breadth first search finds.  pc is the place in the code:               *)
(*   idle      no call runs                                                *)
(*   next      the loop of simple_feasibleflow, at the test of amount      *)
(*   search    inside BFS_path                                             *)
(*   found, missed   BFS_path returns true or false                        *)
(*   measure   inside get_augmenting_flow                                  *)
(*   commit    before augment_flow                                         *)
(*   aborted   an assertion of the code has failed                         *)
EXTENDS ResidualNetwork, Sequences

CONSTANTS Graphs, Capacities, Thresholds,
          Terminals,         \* pairs of a source and a destination to be asked
          Amounts,           \* and the amounts to be sent
          INFINITE           \* INT64_MAX

ASSUME NetworksAssumption ==
  /\ Graphs \subseteq [from : [ProblemArc -> Node], to : [ProblemArc -> Node]]
  /\ Capacities \subseteq [Arc -> Nat]
  /\ Amounts \subseteq Nat /\ Thresholds \subseteq Nat \ {0}
  /\ Terminals \subseteq Node \X Node
  /\ INFINITE \in Nat
  /\ \A u \in Capacities : \A a \in Arc : u[a] + u[arc_dual(a)] < INFINITE
  /\ \A x \in Amounts : x < INFINITE

VARIABLES
  pc,
  source, destination, cap_threshold,  \* arguments of BFS_path
  asked, amount,            \* what simple_feasibleflow is to send, and still is
  queue, queue_start,       \* the array of BFS_path and where it is read
  todo,                     \* arcs of the node read last that are still to visit
  prev,                     \* the arc that led to a node
  walk, path, flow,         \* get_augmenting_flow: node, arcs so far, capacity
  result                    \* "none" before the call has returned

arguments == <<graph, cost, potential, source, destination, cap_threshold, asked>>
search == <<queue, queue_start, todo, prev>>
measured == <<walk, path, flow>>
vars == <<arguments, capacity, pc, amount, search, measured, result>>

TypeOK ==
  /\ NetworkTypeOK
  /\ pc \in {"idle", "next", "search", "found", "missed", "measure", "commit",
             "aborted"}
  /\ source \in Node /\ destination \in Node \union {NO_NODE}
  /\ cap_threshold \in Thresholds \union {1}
  /\ asked \in Nat /\ amount \in 0 .. asked
  /\ queue \in Seq(Node) /\ queue_start \in 0 .. Len(queue)
  /\ todo \subseteq Arc
  /\ prev \in [Node -> Arc \union {NO_ARC}]
  /\ walk \in Node /\ path \subseteq Arc /\ flow \in 0 .. INFINITE
  /\ result \in {"none", "true", "false"}
-----------------------------------------------------------------------------
Init ==
  /\ graph \in Graphs /\ capacity \in Capacities
  /\ cost = [a \in Arc |-> 0] /\ potential = [n \in Node |-> 0]
  /\ pc = "idle" /\ source = 0 /\ destination = 0 /\ cap_threshold = 1
  /\ asked = 0 /\ amount = 0
  /\ queue = << >> /\ queue_start = 0 /\ todo = {}
  /\ prev = [n \in Node |-> NO_ARC]
  /\ walk = 0 /\ path = {} /\ flow = INFINITE
  /\ result = "none"

(* The beginning of BFS_path, from s.                                      *)
begin_search(s) ==
  /\ pc' = "search"
  /\ queue' = <<s>> /\ queue_start' = 0 /\ todo' = {}
  /\ prev' = [n \in Node |-> NO_ARC]

(* BFS_path, called on its own: a destination that is no node makes it     *)
(* search everything that can be reached.                                  *)
BFS_path(s, d, threshold) ==
  /\ pc = "idle" /\ result = "none"
  /\ source' = s /\ destination' = d /\ cap_threshold' = threshold
  /\ begin_search(s)
  /\ UNCHANGED <<graph, cost, potential, capacity, asked, amount, measured, result>>

simple_feasibleflow(s, d, x) ==
  /\ pc = "idle" /\ result = "none"
  /\ source' = s /\ destination' = d /\ cap_threshold' = 1
  /\ asked' = x /\ amount' = x
  /\ pc' = IF x > 0 THEN "next" ELSE "aborted"
  /\ UNCHANGED <<graph, cost, potential, capacity, search, measured, result>>

Return(answer) == pc' = "idle" /\ result' = answer

(* The loop of simple_feasibleflow.                                        *)
NextPath ==
  /\ pc = "next"
  /\ IF amount > 0
     THEN begin_search(source) /\ UNCHANGED result
     ELSE Return("true") /\ UNCHANGED search
  /\ UNCHANGED <<arguments, capacity, amount, measured>>
-----------------------------------------------------------------------------
(* Mutant of traversable: an arc of exactly the threshold is closed.       *)
traversable_above(arc) == capacity[arc] > cap_threshold
traversable(arc) == capacity[arc] >= cap_threshold

(* The loop of BFS_path: the next node of the queue is read.               *)
Visit ==
  /\ pc = "search" /\ todo = {} /\ queue_start < Len(queue)
  /\ queue_start' = queue_start + 1
  /\ LET cur == queue[queue_start + 1]
     IN  IF cur = destination
         THEN pc' = "found" /\ UNCHANGED todo
         ELSE /\ todo' = {a \in node_adjacency(cur) : traversable(a)}
              /\ UNCHANGED pc
  /\ UNCHANGED <<arguments, capacity, amount, queue, prev, measured, result>>

(* Mutants of seen: the source may be found again; the arcs of a node that *)
(* waits are not enough to know it.                                        *)
seen_not_source(n) == prev[n] # NO_ARC
seen_only_visited(n) ==
  n = source \/ \E i \in 1 .. queue_start : queue[i] = n

seen(n) == prev[n] # NO_ARC \/ n = source

(* The body of its loop over the arcs that exit the node, in any order: a  *)
(* node that was not seen before enters the array, which must have room.   *)
Discover(arc) ==
  LET next == arc_head(arc)
  IN  /\ pc = "search" /\ arc \in todo
      /\ todo' = todo \ {arc}
      /\ IF seen(next)
         THEN UNCHANGED <<pc, queue, prev>>
         ELSE /\ prev' = [prev EXCEPT ![next] = arc]
              /\ IF Len(queue) < max_num_nodes
                 THEN queue' = Append(queue, next) /\ UNCHANGED pc
                 ELSE pc' = "aborted" /\ UNCHANGED queue
      /\ UNCHANGED <<arguments, capacity, amount, queue_start, measured, result>>

Exhausted ==
  /\ pc = "search" /\ todo = {} /\ queue_start = Len(queue)
  /\ pc' = "missed"
  /\ UNCHANGED <<arguments, capacity, amount, search, measured, result>>

(* BFS_path returns, to its caller or to simple_feasibleflow, which gives  *)
(* up when there is no path.                                               *)
PathReturned ==
  /\ asked = 0 /\ pc \in {"found", "missed"}
  /\ Return(IF pc = "found" THEN "true" ELSE "false")
  /\ UNCHANGED <<arguments, capacity, amount, search, measured>>

NoPath ==
  /\ asked > 0 /\ pc = "missed"
  /\ Return("false")
  /\ UNCHANGED <<arguments, capacity, amount, search, measured>>
-----------------------------------------------------------------------------
BeginMeasure ==
  /\ asked > 0 /\ pc = "found"
  /\ pc' = "measure" /\ walk' = destination /\ path' = {} /\ flow' = INFINITE
  /\ UNCHANGED <<arguments, capacity, amount, search, result>>

(* get_augmenting_flow: one arc of the path, against its direction.        *)
Measure ==
  /\ pc = "measure" /\ walk # source
  /\ flow' = MIN(flow, capacity[prev[walk]])
  /\ path' = path \union {prev[walk]}
  /\ walk' = arc_tail(prev[walk])
  /\ UNCHANGED <<arguments, capacity, pc, amount, search, result>>

(* The source is reached: some finite flow must fit.                       *)
Measured ==
  /\ pc = "measure" /\ walk = source
  /\ pc' = IF flow < INFINITE /\ flow > 0 THEN "commit" ELSE "aborted"
  /\ UNCHANGED <<arguments, capacity, amount, search, measured, result>>

(* Mutant of delta: what remains to be sent is forgotten.                  *)
delta_whole_path == flow
delta == MIN(amount, flow)

augmented(a) ==
  capacity[a] - (IF a \in path THEN delta ELSE 0)
              + (IF arc_dual(a) \in path THEN delta ELSE 0)

(* augment_flow, without excess: delta is sent along the path.             *)
Augment ==
  /\ pc = "commit"
  /\ capacity' = [a \in Arc |-> augmented(a)]
  /\ amount' = amount - delta
  /\ pc' = "next"
  /\ UNCHANGED <<arguments, search, measured, result>>
-----------------------------------------------------------------------------
Running ==
  \/ NextPath \/ Visit \/ (\E arc \in todo : Discover(arc)) \/ Exhausted
  \/ PathReturned \/ NoPath
  \/ BeginMeasure \/ Measure \/ Measured \/ Augment

Next ==
  \/ \E s \in Node, d \in Node \union {NO_NODE}, t \in Thresholds : BFS_path(s, d, t)
  \/ \E ends \in Terminals, x \in Amounts :
       simple_feasibleflow(ends[1], ends[2], x)
  \/ Running

Spec == Init /\ [][Next]_vars /\ WF_vars(Running)
-----------------------------------------------------------------------------
(* The assertions of the code hold: the amount to send is positive, every  *)
(* path carries something finite, and "a maximum size of max_num_nodes is  *)
(* sufficient" for the array that serves as queue.                         *)
AssertionsHold == pc # "aborted"

(* How many arcs lead from the source to a node that was discovered.       *)
hops ==
  LET h[i \in 1 .. Len(queue)] ==
        IF queue[i] = source THEN 0
        ELSE 1 + h[CHOOSE j \in 1 .. i - 1 : queue[j] = arc_tail(prev[queue[i]])]
  IN  h

(* The nodes of S and those that one arc of enough capacity leads to.      *)
spread(S) ==
  S \union {arc_head(a) : a \in {b \in Arc : /\ capacity[b] >= cap_threshold
                                            /\ arc_tail(b) \in S}}

(* The nodes within k arcs of the source.                                  *)
within ==
  LET w[k \in Nat] == IF k = 0 THEN {source} ELSE spread(w[k - 1])
  IN  [k \in 0 .. max_num_nodes |-> w[k]]

SearchOver == pc \in {"found", "missed"}

(* The arcs of prev form a tree of paths with as few arcs as possible.     *)
DiscoveryTreeShortest ==
  SearchOver =>
    \A i \in DOMAIN queue :
      LET k == hops[i]
      IN  queue[i] \in within[k] /\ (k > 0 => queue[i] \notin within[k - 1])

(* The answer is right, and without a destination the tree holds all nodes *)
(* that can be reached.                                                    *)
AnswerExact ==
  SearchOver =>
    LET reachable == within[max_num_nodes]
    IN  /\ pc = "found" <=> destination \in reachable
        /\ pc = "missed" =>
             {queue[i] : i \in DOMAIN queue} = reachable

(* simple_feasibleflow finds a flow of the amount whenever there is one:   *)
(* it solves the minimum cost flow problem for costs 0, when the excess is *)
(* what remains to be sent.                                                *)
Abstract == INSTANCE MinCostFlow WITH
  excess <- [n \in Node |-> (IF n = source THEN amount ELSE 0)
                            - (IF n = destination THEN amount ELSE 0)],
  status <- IF pc # "idle" /\ asked > 0 THEN "working"
            ELSE IF asked = 0 \/ result = "none" THEN "idle"
            ELSE IF result = "true" THEN "solved" ELSE "failed"

Implements == Abstract!Init /\ [][Abstract!Next]_(Abstract!vars)

EveryCallReturns == pc # "idle" ~> pc = "idle"
=============================================================================
