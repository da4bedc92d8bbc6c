# mcf-algorithms in TLA+

The library under `src/mcf/mcf` solves network flow problems: it stores a graph
as linked adjacency lists, keeps the flow in an array of residual capacities,
and offers shortest path searches, feasible flows, minimum cost flows by
successive shortest paths and by cost scaling, and heuristics for fixed charge
problems.  Everything is sequential C.  What makes it hard is not concurrency
but the length of the loops: an answer is right only if an invariant of the
residual network, the potentials and a queue survives thousands of steps that
each look at stale or half-updated arrays.  A test sees the answer; the models
see the invariants.

## Inventory

| component | state it keeps | operations | what makes it correct |
|---|---|---|---|
| Graph topology, `graph.c`, `graph.h` | `arc_tail`, `node_adjacency_first`, `node_adjacency_next`; slots of memory that were never written | `graph_new`, `graph_add_arc`, the adjacency loops | a loop visits exactly the arcs of its node and ends; arcs and duals come in pairs; a second addition changes nothing |
| Residual network, `algorithm.c`, `graph.h` | residual capacities, costs, potentials, owned by the caller | duals, reduced costs, `node_balance`, `flow_cost` | an arc and its dual share one capacity; flow is neither created nor lost |
| Breadth first search and `simple_feasibleflow` | an array used as queue, `prev`, the amount left to send | `BFS_path`, `get_augmenting_flow`, `augment_flow` | paths of fewest arcs, found exactly when they exist; the array never overflows; the amount is sent if it can be |
| Shortest path searches | priority queue, distances, `prev`, `visited`, target | `dijkstra_path`, `dijkstra_nearest_sink` | nodes leave the queue in the order of final distances, once; the target is a nearest one; capped distances are valid potentials |
| Successive shortest paths | excess, capacities, potentials, loop counters | `mcf_refinement`, `simple_mcf`, `sendflow` | complementary slackness is kept; a path is simple and carries what is sent; the answer is optimal, and false only if nothing is feasible |
| Push-relabel feasible flow | excess, labels, queue of active nodes | `goldberg_tarjan_feasible`, `gt_discharge`, `gt_push` | labels are valid; a node is given up only when it is cut off from all sinks; every active node is queued once |
| Cost scaling | excess, potentials, current arcs, epsilon, queue, distances of the price update | `goldberg_tarjan_mcf`, `gt_refine`, `gt_mcf_discharge`, `gt_mcf_relabel`, `gt_set_relabel` | epsilon-optimality; no admissible arc before the current one; no admissible cycle; price updates open paths; the answer is optimal |
| Fixed charge and constrained flows | modified costs, previous and best flow, multipliers | `solve_fcnfp`, `solve_constrained_fcnfp` | the flow returned is feasible and the best that was seen; later rounds cannot fail |
| Priority queue, `priorityqueue.c` | heap array, values, places of the keys | update, top, pop, init | heap order and places stay right through any updates; a key of the least value leaves |
| Queue, `queue.h` | chunks with two indices | insert, pop, empty, front | first in first out; no chunk of the list is empty |
| Stack, `stack.h` | a growing and shrinking array | insert, pop, empty, top | last in first out; the array has a free place and follows its contents down |
| Validators, `ex-*-validate.c` | graph, capacities, costs, charges and excess of one case | reading a case, solving it once or twice, assertions, printed costs | the arrays hold the network the solvers take for granted; what is asserted follows from what the solvers promise |
| Example programs, scripts, build | none of their own | drivers with one fixed input, generators, plots | not modelled |
| ccan and gheap | external, the submodules are empty | tal, lqueue, gheap | what the code relies on is part of the models that use it |

The components meet through shared arrays.  A solver calls a search with the
residual capacities, the search returns `prev` and distances in arrays that the
solver reads after it: the path to augment, the amounts to subtract from the
potentials.  `solve_fcnfp` calls `mcf_refinement` again on the flow and the
potentials that it left.  `goldberg_tarjan_mcf` starts from the flow of
`goldberg_tarjan_feasible`.  gheap calls back into `priorityqueue.c` for every
comparison and every move.

Nothing is persisted, no message is sent and no thread is started: crashes,
lost calls, timeouts and interleavings of processes do not occur.  The
behaviours that are hard are

* values that are read, then something changes, then they are used: the least
  label of a scan after pushes, a reduced cost after the head was relabeled,
  tentative distances after an early stop, the current arc of another node;
* loops over arrays that the loop itself changes: saturating an arc opens its
  dual, before or behind the loop counter;
* loops that end only because some measure falls: ties at cost 0, relabels that
  raise nothing, walks back along `prev`;
* long sequences of legal calls: arcs added twice under either index, values of
  the priority queue raised and lowered, solvers called again;
* boundaries: the last index below the dual bit, the full chunk, the last path
  that carries too much, epsilon 1, networks of one node.

`PROJECT.json` lists each of them with its line and the properties about it.

## Modules

    MinCostFlow   (what a solver promises)
       ^  ^  ^  ^
       |  |  |  +--- FeasibleFlow      BFS_path, simple_feasibleflow
       |  |  +------ PushRelabel       goldberg_tarjan_feasible
       |  +--------- CostScaling       goldberg_tarjan_mcf
       +------------ McfRefinement     mcf_refinement, simple_mcf
                        | extends
                     Dijkstra          the loop of both searches
                        ^ extends
                     ShortestPath      one search on its own
    ResidualNetwork  is below all of them; Graph shows what it assumes
    MinCostFlow <- (uses) FixedCharge    solve_fcnfp
                             ^ extends
                          Constrained    solve_constrained_fcnfp
    Validators    uses Graph for the arrays it fills and MinCostFlow for what
                  it calls
    MinQueue <- PriorityQueue     FifoQueue <- Queue     LifoStack <- Stack

An arrow from a solver to MinCostFlow is a refinement, checked as the property
`Implements` of that module's run.

* **Graph** has the arrays of `struct graph` with the width of the indices and
  the garbage of the allocator as constants.  `graph_add_arc` is one action that
  pushes the arc and then its dual, by a function on the topology.  The loops of
  the callers are operators that follow the links.
* **ResidualNetwork** is the network as the algorithms see it: problem arcs
  `0 .. num_arcs-1`, duals after them, the list of a node a set of arcs.  Graph
  shows that the loops visit exactly that set.  Arcs are numbered densely; the
  unused indices below the dual bit exist in Graph only.
* **Dijkstra** is the `while` loop that `dijkstra_path` and
  `dijkstra_nearest_sink` share: `Start`, `Pop`, one `Relax` per arc,
  `Exhausted`.  The priority queue is a set with values (that is MinQueue, what
  PriorityQueue implements).  Ties are popped in any order and arcs relaxed in
  any order.
* **ShortestPath** runs one search of either kind on each network.
* **McfRefinement** is `mcf_refinement` with its two loops, the search inside,
  the walk along `prev` arc by arc, the change of potentials and the
  augmentation; `simple_mcf` and the repeated call of `solve_fcnfp` are other
  ways in.
* **FeasibleFlow** has `BFS_path` arc by arc, called alone or from
  `simple_feasibleflow`.  A failing assertion leads to the state `aborted`.
* **PushRelabel** is `goldberg_tarjan_feasible`: its loop over the nodes, the
  queue, and every arc of every scan as a step.
* **CostScaling** is `goldberg_tarjan_mcf` as it is built, with the macros
  `GOLDBERG_PRICE_UPDATE`, `_QUEUE`, `_PRICE_REFINEMENT`, `_MAX_RELABEL` and
  `_LOOKAHEAD`.  Adjacency lists have an order here (`order`), because the current
  arc depends on it.  `goldberg_tarjan_feasible` is one step that picks any
  feasible flow; PushRelabel shows that it returns one.  The flood of a price
  update goes arc by arc.
* **FixedCharge** is the loop of `solve_fcnfp`: refine, compare with the flow of
  the round before, stop or spread the charges over the new flow.
  `mcf_refinement` is one step that leaves any cheapest flow, or says that none
  is feasible and leaves any flow at all; McfRefinement shows that it does no
  more than that.  Charges are spread by the integer division of the code.
* **Constrained** is `solve_constrained_fcnfp` around those steps, and the direct
  call of `solve_fcnfp`.  A multiplier of the code is a double; it always is the
  sum of `scale_factor` times 2 or -1 over the square root of the round, so
  `weight` holds the sum in units of `1 / Unit` and the scale is applied where
  the multiplier is used.  The modified costs and the lower bound are cut to
  integers as in the code.
* **MinCostFlow** is the promise: flow only moves, no arc exceeds what it and
  its dual hold together, `solved` is said only of a feasible flow of least
  cost, `failed` only when no flow is feasible, and every call returns.
* **PriorityQueue** keeps the heap as an array of exactly `heapsize` keys.
  gheap appears as its contract: given a heap with one item out of place in the
  stated direction it leaves some heap of the same items, otherwise any order of
  them; the callback notes the place of every item that moved.  The layout of
  the heap is a constant function `parent`.
* **Queue** has the chunks with their indices; the cache size, 64 in the code,
  is a constant.
* **Stack** has the array with `reserved` and `len`; what `tal_resize` adds is
  garbage.  algorithm.c instantiates it when `GOLDBERG_QUEUE` is off.
* **Validators** is `solve_case` of the four programs that test the solvers.
  They are the one place of the repository where both views of a network meet:
  the program computes the bit of the duals and the size of the arrays, adds arc
  after arc to a graph of module Graph, and hands the arrays to solvers that
  work on the dense numbering of ResidualNetwork.  A solver is one step with
  the result its own module shows: a cheapest flow, or for the approximate
  solvers any feasible flow.  `ex-constrained-fcmcf-validate.c` calls a second
  solver on what the first left, `ex-fcmcf-approx-validate.c` a first one on
  copies.

Names of operations are those of the code.  Steps inside a function have names
of their own, and `map` in `PROJECT.json` says which lines each stands for.
Definitions whose comment begins with "Mutant of" are plausible mistakes in the
operator they are named after; they are used by no specification and serve to
show that a property notices the mistake.

## Runs

Networks have four nodes and five arcs (ten with duals), which is enough for a
diamond whose cross arc must be undone, a ring, parallel arcs, a loop, a dead
end and a way back; capacities are 0 to 3, costs -3 to 9.  Several of these
shapes are in each run, with capacities and supplies that are met by one path,
by two, only by undoing a path, or not at all.  All bounds are in the MC modules
and the `.cfg` files.  INFINITE stands for INT64_MAX and is above every value
that occurs; integers are unbounded, see below.

| run | shows |
|---|---|
| `graph` | `LinksOK`, `ListsExact`, `DualPairing`, `SecondAddIgnored` for every sequence of additions, with any index, in a graph of three nodes and seven slots for arcs: three pairs of an arc and its dual fit, a fourth does not |
| `shortest_path` | `SearchExact` (exact distances, a nearest target, `prev` a tree of shortest paths), `PopsInOrder`, `CappedDistancesFeasible`, `SearchEnds` for each kind of search, each set of sinks, arcs of cost 0, parallel, saturated and negative arcs |
| `mcf_refinement` | `Implements` and `EveryCallReturns` with the properties on the way: `ComplementarySlackness`, `AugmentationFits`, and `RoutingMonotone`: an augmentation only shrinks excess, potentials only fall, none by more than that of the sink, which ends below that of the source by at most the cost of a path; a second call starts from the flow and the potentials of the first, with other costs |
| `feasible_flow` | `AssertionsHold`, `DiscoveryTreeShortest`, `AnswerExact`, `Implements`, `EveryCallReturns` |
| `push_relabel` | `LabelsValid`, `MaxLabelMeansCutOff`, `Implements`, `EveryCallReturns` for every order of the arcs |
| `cost_scaling` | `EpsilonOptimal`, `CurrentArcSkipsNothing`, `AdmissibleAcyclic`, `PricesBounded`, `PriceUpdateOpensPaths`, `Implements`, `EveryCallReturns` with costs that need one and two rounds of refinement and enough relabels for a price update |
| `constrained` | `AssertionsHold`, `StopsAtFixedPoint`, `BestOnlyImproves`, `ReturnsBest` over two networks, supplies that can and cannot be met, an objective with one constraint that is met at once, after some rounds or never, a loose and a tight tolerance; `solve_fcnfp` is called once more on what either call left, as `ex-constrained-fcmcf-validate.c` does |
| `containers` | `RepresentationsSound`, `Implements`, `QueueImplements`, `StackImplements`: a behaviour picks one container and uses it.  A priority queue of four keys and three values has two levels of the heap and a last level that is not full; a queue of up to seven elements fills chunks of three; a stack of up to five elements with caches of two grows twice and shrinks |
| `validators` | `NetworkAsRead`, `AssertionsHold`, `ReportedCostsRight` for one to five arcs, so that their number is a power of two, one less and one more.  What is printed is compared with costs that are summed from the data of the case; every case can be solved, and the assertions require that every call on it succeeds, the second one included |

Three runs end in a violation.  Each shows that the code does something else than
its documentation says.

| run | shows |
|---|---|
| `graph_reverse` | the reverse adjacency loop does not end at the end mark, which it maps to its dual |
| `graph_flow_cost` | `flow_cost` reads beyond `capacity` when indices below the dual bit are unused, with the sizes that `ex-mcf-validate.c` computes for three arcs (there the cost of the unused index is 0, so only the read itself is wrong) |
| `cost_scaling_loop` | with one node the first epsilon may be 1, nothing is refined and a loop of negative cost stays empty |

Some things the models showed have no run of their own.  `graph_new` clears
`max_num_nodes` slots of `node_adjacency_next`, an array of `max_num_arcs`
(`graph.c:60`): the others keep what the allocator returned, `Init` of Graph
says so, and `ListsExact` shows that no forward loop reads one before it was
written.  That there are at least as many slots as nodes is an assumption of
Graph, `RoomAssumption`, which the code does not state; the problems that
`generate-fcnfp.sh` and `generate-cfcnfp.sh` ask for have more arcs than nodes.
`ex-fcmcf-approx-validate.c` fills `tmp_cost`, with charges divided by
capacities, and passes `cost` (line 75): the comment at its line 125 says that
charges are to be ignored, so the array is dead code and Validators leaves it
out.  `ReportedCostsRight` requires that what is printed is the cost of a flow
that is cheapest without charges; its mutant passes `tmp_cost` instead.  The programs do not look at the answer of `graph_add_arc`;
`NetworkAsRead` shows that it cannot be false with the sizes they compute.  With source and destination the same node the path of
`simple_feasibleflow` has no arc and fails the assertion at `algorithm.c:199`;
its run has two different ends.  An amount of 0, which `algorithm.h:96` allows,
fails the assertion at `algorithm.c:275`; its run has positive amounts.
`flow_satisfy_constraints` counts the objective among the constraints
(`bound[0]`), while the header bounds the cost functions from 1 on: a tight
`bound[0]` makes every flow fail, and the run gives a wide one.
`solve_constrained_fcnfp` returns the first flow whatever it costs when that
flow meets the constraints (`algorithm.c:874`), and its lower bound is the cost
of a flow that `solve_fcnfp` found, which need not be a bound; so `tolerance`
does not limit the distance from the optimum as `algorithm.h:245` says, and no
property claims it does.

In `constrained` the rounds of `solve_fcnfp` are 4 in the first call and 2 in the
others, instead of 100 and 10, and the outer loop has three rounds.  With these
both ways out of both loops are taken, the best flow is found, kept over worse
rounds and replaced.  The square roots are tenths.  Costs and charges are not
negative, as in the problems the repository generates.

### Fairness

The solvers and searches are single calls of sequential functions: as long as a
statement of the function is left the processor executes it.  Their
specifications therefore have weak fairness on the steps inside the call
(`Running`, `Search`), and none on the caller: calls need not come.  No strong
fairness is used, and nothing is assumed about which tie or which arc comes
first.  `SearchEnds` and `EveryCallReturns` then say that the loops end.  Graph,
the containers and Validators make one step per call and need no fairness.
Deadlock is checked for Graph and the containers; the other specifications stop when their call has
returned, their configurations say so.

## Proofs

TLAPS proves the following for every number of nodes and arcs, every network
and every value of the other constants.  Each result rests on an inductive
invariant, with a lemma for every action that says the action keeps it.

* **DataStructuresProofs**, about Graph: `TypeCorrect`, `ListsCorrect`
  (`LinksOK`), `DualsPaired` (`DualPairing`), `FirstAddWins`
  (`SecondAddIgnored`) and `ListsEnd`.  `IInv` is
  `TypeOK`, `LinksOK` and `AcyclicIn(Nat)`: along every list some ranking of the
  arcs falls.  LinksOK alone allows a ring of arcs that no first arc leads to;
  the ranking excludes it, and a new arc gets a rank above all others.  The
  proof does not use that fresh memory is clean.  `LoopsVisitAll` (`ListsExact`)
  follows from the invariant: the ranking makes the steps of a loop different
  arcs (`ChainInjective`), so by counting a loop ends (`ChainExact`), and an arc of
  the node that the loop missed would have a predecessor of higher rank in the
  same list that it missed as well (`Complete`).

  About PriorityQueue: `HeapTypesCorrect`, `PlacesRight` (`PointersTrack`),
  `HeapStaysOrdered` (`HeapOrdered`) and `ImplementsMinQueue` (`Implements`), for
  every layout `parent` in which a place is below an earlier one and every
  choice gheap has.  An update keeps the heap because the direction in which the
  value moved is the direction of the repair that is asked for (`AppendKeeps`,
  `ChangeKeeps`); the top is least because the first place with a lesser value
  would be below its parent (`TopIsLeast`).  This is what lets Dijkstra treat
  the queue as a set.

  About Queue and Stack: `QueueIsFifo` (`QueueImplements`) and `StackIsLifo`
  (`StackImplements`), for every size of the chunks, and `RepresentationsStaySound`
  (`RepresentationsSound`) for all containers.  The invariants are what `empty` and
  `front` rely on: no chunk is empty, the first is the only one that was read from
  and the last the only one with room (`InUse`); the array of the stack has a free
  place (`StackInv`).  The contents of a queue are the concatenation of its chunks;
  the recursive function that computes it is given its meaning by `JoinExists` and
  `Flattened`, and from that follow its values when a chunk is appended
  (`FlattenAppend`), the last one grows (`FlattenExtend`) and the first one
  shrinks or goes (`FlattenHead`).
* **ResidualNetworkProofs** is the library of the others: induction on sets and
  numbers from a least counterexample (`MinimalSubset`, `SetInduction`), iteration
  of a function (`Iteration`), sums over finite sets (`SumOver`, `SumByKey`), the
  facts about arcs and their duals, and a theory of flows.  A push, or an amount
  sent along a set of arcs, moves flow (`PushMoves`, `BalanceAlong`): arcs and duals
  hold together what they did, and the excess of a node changes by as much as its
  balance (`Moved`).  `Meets` says that a flow meets all supplies.  Where it exists,
  all excess sums to 0 (`TotalExcess`) and no set that no residual arc leaves has
  excess (`CutExcess`); where no excess is left and some prices give every residual
  arc a reduced cost that is not negative, no such flow is cheaper (`CheapestFlow`).
  These are the answers `false` and `true` of all four solvers.
* **ShortestPathProofs**: `TypeCorrect`, `DijkstraOrder` (`PopsInOrder`),
  `PotentialsStayFeasible` (`CappedDistancesFeasible`), `VisitedTestUnnecessary`
  and `SearchIsExact` (`SearchExact`).  The invariant `SearchOK` of the loop is
  shown to be kept by `Start`, `Pop`, `Relax` and `Exhausted` for any program
  around them: values in the queue are at least that of the current node
  (`FrontierOK`), arcs out of popped nodes are relaxed except those in `todo`
  (`RelaxedOK`, `TodoOK`), `prev` gives the value of every node that was reached
  (`PrevOK`) and closes no cycle among the nodes popped (`TreeOK`), and the target
  is the first sink popped (`TargetOK`).  `SearchExact` compares the answer with
  the rounds of Bellman's recursion.  The recursive function is given its meaning
  by the lemma on iteration.  The values of a finished search are potentials that
  no traversable arc violates, hence a lower bound of every round (`LowerBound`);
  the arcs of `prev` form a tree of at most `max_num_nodes` nodes, which the rounds
  climb one level at a time, hence an upper bound of the last round (`TreeHeight`,
  `UpperBound`).
* **McfRefinementProofs**: `TypeCorrect`, `SlacknessKept`
  (`ComplementarySlackness`), `AugmentationsFit` (`AugmentationFits`),
  `ImplementsMinCostFlow` (`Implements`) and `RoutingIsMonotone`
  (`RoutingMonotone`).  The
  search inside is the one of ShortestPathProofs, which is instantiated with the
  variables of the solver.  `IInv` adds to the properties that capacities of an arc
  and its dual stay below `INFINITE` together (`PairsOK`), what each place of the
  call knows of the search (`CallOK`), and that the flow of the walk back fits
  every arc walked so far, whose reduced cost the new potentials make 0
  (`MeasureOK`).

  The last two need a second invariant, `AccountOK`.  While a call runs all excess
  sums to 0, so that nothing is missing when no node has excess (`BooksOK`); the
  nodes the loop has passed stay without excess (`PassedOK`); a search knows all
  sinks and ends without one only when its queue is empty (`ServedOK`); and the walk
  back takes no arc twice and leads from where it stands to the target, because the
  arcs of `prev` close no cycle (`RouteOK`).  From the last follows that an
  augmentation changes the excess of the two ends only.  The visited nodes of a
  failed search are a cut with excess inside, the potentials of a call that returns
  true are the prices of `CheapestFlow`.  `ChargeOK` bounds how far the distances
  may move the potentials apart, arc by arc along the walk, and `PathShort` counts
  the arcs.

  `ImplementsMinCostFlow` supposes `DistancesFit`: while a search runs, no distance
  it adds up reaches `INFINITE`.  The code adds s64 values without a check and takes
  INT64_MAX for a node that was not reached; when a distance is not smaller, a node
  that can be reached is never entered and the call answers false although flow
  could be sent.  TLC finds `Implements` violated on the networks of the run when
  `INFINITE` is 3, and `DistancesFit` true in every state with the value of the run.
* **FeasibleFlowProofs**: `TypeCorrect`, `ImplementsMinCostFlow` (`Implements`) and `NoAssertionFails`
  (`AssertionsHold`), when something is to be sent between two different nodes
  (`CallsAllowed`; without it the code does abort).  `TreeOK` says that the nodes
  in the array of `BFS_path` are different ones that were seen, and that an arc
  of `prev` leaves a node that was seen and carries enough; the array then has
  room for a node that was not seen, by a pigeonhole argument.  `MeasureOK` says
  that the walk back stays on such nodes and that what it measures is positive,
  and finite as soon as the destination was left.  `ShortestDiscoveryTree`
  (`DiscoveryTreeShortest`) and `AnswersExact` (`AnswerExact`) need no assumption
  on the calls.  They rest on a second invariant, `BreadthOK`: every place of the
  array has a level, one more than that of the place an arc led from, levels do
  not fall along the array and span at most two values from the node read last,
  and the arcs of nodes that were read lead to levels at most one higher.
  `ImplementsMinCostFlow` needs no assumption on the calls either.  The walk back
  stands at earlier and earlier places of the array, so it takes no arc twice and
  what it collects leads to the destination (`RouteOK`); the array of a search that
  failed is a cut, and what is left at the source cannot leave it
  (`NothingFeasible`).
* **PushRelabelProofs**: `TypeCorrect`, `LabelsCorrect` (`LabelsValid`),
  `CutOff` (`MaxLabelMeansCutOff`), `ActiveNodesQueued` and
  `ImplementsMinCostFlow` (`Implements`).  `LabelsValid` is not inductive: a scan
  remembers the least label while its pushes open new arcs.  `ScanOK` says that
  while excess is left every arc already visited is saturated or leads neither
  below the node nor below `min_label`.  `CutOff` then is a pigeonhole argument:
  with a node at label `max_num_nodes` the other nodes leave one label empty,
  and no unsaturated arc crosses it.  `ActiveNodesQueued` says that a node with
  excess waits in the queue or is the one being discharged.  So an empty queue
  leaves no excess, and since all excess sums to 0 no deficit; and the set of
  `CutOff` is a cut with excess inside, which no flow can carry away.

* **CostScalingProofs**: `TypeCorrect`, `OptimalUpToEpsilon` (`EpsilonOptimal`),
  `NothingSkipped` (`CurrentArcSkipsNothing`), `NoAdmissibleCycle`
  (`AdmissibleAcyclic`), `PriceUpdatesOpenPaths` (`PriceUpdateOpensPaths`) and
  `PricesStayBounded` (`PricesBounded`).  The first three invariants
  need each other (`PricesOK`): that a relabel to the maximum extent stays
  epsilon-optimal follows from the fact that the scan left no admissible arc
  behind, and that its push does not bring back such an arc from the fact that no
  loop is admissible.  `SaturatedOK` says that the loop of `gt_refine` over the
  arcs leaves none of them admissible, although it opens their duals.  `FloodOK`
  is the invariant of Dijkstra's algorithm for the flood, by levels of epsilon,
  with a node being scanned; it gives that a price update keeps `PricesOK`.
  `TreeOK` says that a node the flood reached was reached through an arc that
  is tight.  The flood stops as soon as the excess it has met sums to 0;
  `ExcessOK` says that all excess does, so that no active node is outside then,
  and every set with excess has a least node of the tree whose arc leaves the set.

  `ImplementsMinCostFlow` (`Implements`) and `ReturnedFlowIsOptimal`
  (`SolvedIsOptimal`) say that the answer is right, and need the whole of the
  above.  Every push moves flow (`PushMoves`), so supplies never change.  `QueueOK` (`ActiveNodesQueued`) says
  that a node with excess waits in the queue or is being discharged; when the
  queue is empty nothing has excess, and since the excess sums to 0 nothing has a
  deficit (`RefinedBalanced`).  The last refinement leaves a flow that is 1-optimal
  in costs times the number of nodes and has no cycle of admissible arcs
  (`AnswerOK`).  `Rounded` turns its prices into prices in which no residual arc
  has a negative reduced cost: they are divided by the number of nodes and rounded
  down after a shift.  A shift is wrong if it takes the price of a node with an
  admissible arc out of it to a multiple of the number of nodes; some node has no
  such arc, so fewer shifts are wrong than there are nodes.  `CheapestFlow` with these
  prices is the optimality of the answer.

  `PricesStayBounded` rests on two more invariants, `LastOK` and `HeightOK`.  The
  latter compares every state of a refinement with the capacities `c0` and the
  prices `p0` of its beginning (`Grown`): no node had excess then, flow has moved
  since, and no price at a deficit has changed.  So an arc that gained capacity
  has a dual that had some, and along it prices have moved apart by at most
  `width`, twice the first epsilon.  Cut the nodes at a level of prices: if no arc that gained
  capacity leaves those above, they hold no excess together (`MovedCut`); one
  that leaves skips at most `width`.  With fewer than `max_num_nodes` levels to
  skip, a node with excess has risen by at most `max_num_nodes - 1` times `width`
  (`RiseBound`, `ActiveLow`).

  Nodes without excess get higher, in two ways.  Lookahead relabels them, to at
  most `width` above another node (`RelabeledHigh`); and a price update lifts the nodes
  its flood did not reach by as much as the one it reached last, which is active
  (`LastOK`), so that a node far above may rise every time.  No node has a bound of its
  own that is kept by every step; `Within` says that the highest price is paid
  for by all nodes together.  Each holds what it has risen, up to the limit of
  an active node, and `width` once it is above where an active node can be
  (`share`).  A price update lifts the last active node by as much as the
  highest (`WithinTogether`); a relabel that takes a node above that
  height takes it there for the first time in the refinement, since a node that is
  relabeled is active or the head of an arc that is admissible from an active node,
  and neither is that high (`WithinAlone`).  All shares together are at most `max_num_nodes` squared times `width`
  (`ShareBounds`), which with the height of active nodes gives `refinement_rise`.
  That the number of refinements is well defined, a recursion on epsilon divided by 8, is
  shown by iteration (`RefinementsFacts`).

* **ConstrainedProofs**, about Constrained and the FixedCharge it extends:
  `TypesCorrect`, `FixedPointFound` (`StopsAtFixedPoint`), `BestReturned`
  (`ReturnsBest`), `BestNeverLost` (`BestOnlyImproves`) and `AssertionsNeverFail`
  (`AssertionsHold`), for all bounds of the loops and all decays of the
  multipliers.  Once a call has found a flow, no node has excess (`BalancedOK`),
  so the flow in the network is one of the feasible flows (`CurrentFlow`), so
  `mcf_refinement` cannot fail any more, however the costs change (`RoundOK`).  The
  costs of a round are the slopes of the flow of the round before (`CostsOK`), and
  before the comparison the flow is the cheapest for them (`CheapOK`); when the
  flow is that of the round before, the two together are the fixed point.  A
  round only moves flow (`FlowMoves`), so the best flow stays a solution of the
  problem it was found in, at the cost that is remembered (`BestOK`); with that it
  may replace the flow of the last round.  That a cheapest flow exists needs costs
  that are not negative, which slopes and combined costs are (`SlopeNat`,
  `CombinedNat`).

The only assumptions are those the modules state about their constants: at
least one node, capacities that are natural numbers, costs, potentials and
supplies that are integers, `INFINITE` above what occurs where a module needs it.
The last two theorems about CostScaling assume in their statement that there are
two nodes or more.  With one node they are false, which `cost_scaling_loop` shows:
costs are then scaled by 1, and the loop over epsilon may end before it began.  `AssertionsNeverFail`
assumes that no user calls `solve_fcnfp` with `max_num_iterations` 0; such a call
makes no round and answers false, whatever flow is in the network.

What is left to TLC: liveness and everything about termination of searches and
solvers (`SearchEnds`, `EveryCallReturns`); and the three invariants of
Validators.  Validators instantiates Graph and MinCostFlow with a parameter, the
case at hand, because the sizes of the arrays depend on it; the prover hides what such an
instance provides and stops with an internal error at any obligation in a module that
extends it.  `HeightOK` speaks of some `c0` and `p0` among infinitely many, so TLC
cannot evaluate it; TLC checks `PricesBounded`.

## Assumptions and what is left out

* Integers are unbounded.  The code adds s64 values without checks; only
  `goldberg_tarjan_mcf` asserts something about the size of the costs, and no
  bound on inputs is documented.  Indices of Graph do have a width.  Two
  properties say what the sums may reach.  By `PricesBounded` no
  refinement of `goldberg_tarjan_mcf` adds more than `2 * N * (N + 1)` times the first
  epsilon to the highest price, with `N` nodes; `check_overflow`
  (`algorithm.c:1624`) asks only that the first epsilon itself fits, which is less
  than the prices may need.  The bound is not claimed to be the least.  About
  `9/7 * N` times the first epsilon, the sum over the refinements of what a node
  with excess may rise, is too low: there are networks of three nodes and nine arcs in which
  lookahead leaves a node without excess above it.  `RoutingMonotone` bounds
  how far below the potential of the source one search of `mcf_refinement` moves
  that of the sink, and by that all others; over the searches of many calls they
  keep falling.
* Allocation does not fail; freeing is not modelled.
* Callers meet the preconditions of the header that are assertions on array
  sizes and indices, and the positive amount `simple_feasibleflow` asserts.
* The order of adjacency lists is arbitrary in Dijkstra, FeasibleFlow and
  PushRelabel, which makes them cover every order of `graph_add_arc`, and two
  fixed orders in CostScaling.
* The code under `GOLDBERG_CHECKS` is not built; what it asserts are invariants
  of CostScaling.
* The global that the comparison of `priorityqueue.c` reads is set and cleared
  in each operation; two queues used at the same time by threads are outside.
* The multipliers of Constrained are exact in tenths where the code rounds doubles.
  The properties about the best flow do not depend on how the multipliers move.
* On an empty queue or stack `pop` returns whatever it finds; no
  caller does it, and the models have no such step.
* Cases of Validators can be solved, as those the generators write.

### Not modelled

The other example programs call one function of the library on one fixed input,
or time it: the models of those functions take many more inputs.  Scripts write
random problems, measure times and plot.  Build files, ccan and gheap are not
part of the program's logic; what the code expects of the last two is in the
models that use them.

## Plan

1. Graph, ResidualNetwork, Dijkstra, ShortestPath, McfRefinement, FeasibleFlow,
   PushRelabel, PriorityQueue: modelled, checked, with proofs.
2. CostScaling, FixedCharge, Constrained, Queue, Stack, Validators: modelled and
   checked.
3. CostScaling: the invariants of the refinement and the optimality of the answer
   proved, with a small library of facts about sums over finite sets; the exact
   answers of the searches and the adjacency loops of Graph proved with it.
4. With that library, extended to cuts and weak duality: all four solvers proved
   to implement MinCostFlow.
5. Queue and Stack proved to implement their sequences; the fixed points, the best
   flow and the assertions of Constrained proved.
6. The bound on the prices of CostScaling proved, from cuts between levels of
   prices and an account of all nodes together.
7. Open: the statements about the validators, which would need the sizes of a
   case to be constants of the module; a least bound on prices.  The project keeps
   its proofs in eight modules, one for each component with the longest arguments.
