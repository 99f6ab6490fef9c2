-------------------------- MODULE GraphAlgorithms ---------------------------
(***************************************************************************)
(* algorithms/graph.h.  Nodes are numbered from 0 as in the code;          *)
(* graph[u] is adjacency_[u], a sequence of <<neighbour, weight>>.         *)
(***************************************************************************)
EXTENDS Loops

Infinity == 1000   \* greater than the length of every path
None == -1         \* static_cast<size_t>(-1)

Nodes(graph) == DOMAIN graph
Neighbors(graph, u) == graph[u]

EmptyGraph == [u \in {} |-> <<>>]

AddNode(graph) ==
    LET n == Cardinality(Nodes(graph))
    IN  [u \in 0 .. n |-> IF u = n THEN <<>> ELSE graph[u]]

AddDirectedEdge(graph, from, to, weight) ==
    IF {from, to} \subseteq Nodes(graph)
    THEN [graph EXCEPT ![from] = Append(@, <<to, weight>>)] ELSE graph

AddUndirectedEdge(graph, from, to, weight) ==
    AddDirectedEdge(AddDirectedEdge(graph, from, to, weight), to, from, weight)
-----------------------------------------------------------------------------
\* A breadth first search until a node of stop is taken from the queue: the
\* nodes taken so far, and parent[v], from which v was reached.
RECURSIVE BfsLoop(_, _, _)
BfsLoop(graph, a, stop) ==
    LET current == Head(a.queue)
        discover(b, edge) ==
            IF edge[1] \in b.visited THEN b
            ELSE [b EXCEPT !.visited = @ \cup {edge[1]},
                           !.parent[edge[1]] = current,
                           !.queue = Append(@, edge[1])]
        taken == [a EXCEPT !.queue = Tail(@), !.order = Append(@, current)]
    IN  IF a.queue = <<>> THEN [a EXCEPT !.done = TRUE]
        ELSE IF current \in stop THEN taken
        ELSE BfsLoop(graph, FoldLeft(discover, taken, graph[current]), stop)

BfsFrom(graph, start, visited, stop) ==
    BfsLoop(graph, [queue |-> <<start>>, visited |-> visited \cup {start}, order |-> <<>>,
                    parent |-> [v \in Nodes(graph) |-> None], done |-> FALSE], stop)

\* A visitor that returns false at the nodes of stop ends the search.
Bfs(graph, start, stop) == start \in Nodes(graph) /\ BfsFrom(graph, start, {}, stop).done
BfsOrder(graph, start) ==
    IF start \in Nodes(graph) THEN BfsFrom(graph, start, {}, {}).order ELSE <<>>

RECURSIVE PathTo(_, _)
PathTo(parent, v) == IF v = None THEN <<>> ELSE Append(PathTo(parent, parent[v]), v)

BfsShortestPath(graph, start, end) ==
    LET parent == BfsFrom(graph, start, {}, {end}).parent
    IN  IF ~({start, end} \subseteq Nodes(graph)) \/ (parent[end] = None /\ start # end) THEN <<>>
        ELSE PathTo(parent, end)

\* The recursive search: a is the list of the nodes visited and whether a
\* visitor has said stop.
RECURSIVE DfsHelper(_, _, _, _)
DfsHelper(graph, a, current, stop) ==
    LET visit(b, edge) ==
            IF b.stopped \/ Contains(b.order, edge[1]) THEN b
            ELSE DfsHelper(graph, b, edge[1], stop)
        entered == [order |-> Append(a.order, current), stopped |-> current \in stop]
    IN  IF entered.stopped THEN entered ELSE FoldLeft(visit, entered, graph[current])

DfsSearch(graph, start, stop) ==
    DfsHelper(graph, [order |-> <<>>, stopped |-> FALSE], start, stop)
DfsOrder(graph, start) ==
    IF start \in Nodes(graph) THEN DfsSearch(graph, start, {}).order ELSE <<>>

\* The explicit stack, its top first; it may hold a node more than once.
RECURSIVE DfsLoop(_, _, _)
DfsLoop(graph, stack, order) ==
    LET current == Head(stack)
        seen == ToSet(order) \cup {current}
        fresh == SelectSeq([i \in DOMAIN graph[current] |-> graph[current][i][1]],
                           LAMBDA v : v \notin seen)
    IN  IF stack = <<>> THEN order
        ELSE IF current \in ToSet(order) THEN DfsLoop(graph, Tail(stack), order)
        ELSE DfsLoop(graph, fresh \o Tail(stack), Append(order, current))

DfsIterative(graph, start) ==
    IF start \in Nodes(graph) THEN DfsLoop(graph, <<start>>, <<>>) ELSE <<>>
-----------------------------------------------------------------------------
\* The node outside done with the least finite key, the first of several.
Nearest(key, done) ==
    LET open == {v \in DOMAIN key \ done : key[v] < Infinity}
        least == {v \in open : \A w \in open : key[v] <= key[w]}
    IN  IF open = {} THEN None ELSE Min(least)

\* Fault: the distance of u is not counted.
RelaxedLocally(a, u, edge) ==
    IF edge[2] < a.dist[edge[1]]
    THEN [a EXCEPT !.dist[edge[1]] = edge[2], !.parent[edge[1]] = u] ELSE a

Relaxed(a, u, edge) ==
    IF a.dist[u] + edge[2] < a.dist[edge[1]]
    THEN [a EXCEPT !.dist[edge[1]] = a.dist[u] + edge[2], !.parent[edge[1]] = u] ELSE a

RECURSIVE DijkstraLoop(_, _, _)
DijkstraLoop(graph, a, visited) ==
    LET u == Nearest(a.dist, visited)
    IN  IF u = None THEN a
        ELSE DijkstraLoop(graph, FoldLeft(LAMBDA b, edge : Relaxed(b, u, edge), a, graph[u]),
                          visited \cup {u})

\* dist and parent: dijkstra() answers the one, dijkstra_path() uses both.
DijkstraFrom(graph, start) ==
    DijkstraLoop(graph, [dist |-> [v \in Nodes(graph) |-> IF v = start THEN 0 ELSE Infinity],
                         parent |-> [v \in Nodes(graph) |-> None]], {})
Dijkstra(graph, start) == DijkstraFrom(graph, start).dist
DijkstraPath(graph, start, end) ==
    LET a == DijkstraFrom(graph, start)
    IN  IF a.dist[end] = Infinity THEN <<>> ELSE PathTo(a.parent, end)

RECURSIVE PrimLoop(_, _, _)
PrimLoop(graph, key, inMst) ==
    LET u == Nearest(key, inMst)
        lower(k, edge) ==
            IF edge[1] \notin inMst \cup {u} /\ edge[2] < k[edge[1]]
            THEN [k EXCEPT ![edge[1]] = edge[2]] ELSE k
    IN  IF u = None THEN 0
        ELSE key[u] + PrimLoop(graph, FoldLeft(lower, key, graph[u]), inMst \cup {u})

PrimMst(graph) == PrimLoop(graph, [v \in Nodes(graph) |-> IF v = 0 THEN 0 ELSE Infinity], {})

EdgesInto(graph, v) ==
    FoldFunction(LAMBDA edges, n : n + Len(SelectSeq(edges, LAMBDA e : e[1] = v)), 0, graph)

RECURSIVE TopologicalLoop(_, _, _, _)
TopologicalLoop(graph, queue, degree, result) ==
    LET u == Head(queue)
        drop(a, edge) ==
            [degree |-> [a.degree EXCEPT ![edge[1]] = @ - 1],
             queue |-> IF a.degree[edge[1]] = 1 THEN Append(a.queue, edge[1]) ELSE a.queue]
        a == FoldLeft(drop, [degree |-> degree, queue |-> Tail(queue)], graph[u])
    IN  IF queue = <<>> THEN result
        ELSE TopologicalLoop(graph, a.queue, a.degree, Append(result, u))

TopologicalSort(graph) ==
    LET degree == [v \in Nodes(graph) |-> EdgesInto(graph, v)]
        roots == SetToSortSeq({v \in Nodes(graph) : degree[v] = 0}, <)
        result == TopologicalLoop(graph, roots, degree, <<>>)
    IN  IF Len(result) # Cardinality(Nodes(graph)) THEN <<>> ELSE result

\* Each node not yet in a component starts one: it takes what it reaches.
FindConnectedComponents(graph) ==
    LET n == Cardinality(Nodes(graph))
        grow(a, start) ==
            IF start \in DOMAIN a.id THEN a
            ELSE LET found == ToSet(BfsFrom(graph, start, DOMAIN a.id, {}).order)
                 IN  [id |-> [v \in DOMAIN a.id \cup found |->
                                 IF v \in found THEN a.current ELSE a.id[v]],
                      current |-> a.current + 1]
    IN  Upto(grow, [id |-> [v \in {} |-> 0], current |-> 0], 0, n - 1).id

IsConnected(graph) ==
    \A v \in Nodes(graph) : FindConnectedComponents(graph)[v] = FindConnectedComponents(graph)[0]

\* Both cycle searches: the nodes visited, those on the recursion stack, and
\* whether a cycle was found.  An edge to a visited node closes a cycle when
\* the node is not the parent, or when it is on the stack.
RECURSIVE CycleFrom(_, _, _, _, _)
CycleFrom(graph, a, u, parent, directed) ==
    LET follow(b, edge) ==
            IF b.cycle THEN b
            ELSE IF edge[1] \notin b.visited THEN CycleFrom(graph, b, edge[1], u, directed)
            ELSE [b EXCEPT !.cycle = IF directed THEN edge[1] \in b.onStack ELSE edge[1] # parent]
        entered == [a EXCEPT !.visited = @ \cup {u}, !.onStack = @ \cup {u}]
        left == FoldLeft(follow, entered, graph[u])
    IN  IF left.cycle THEN left ELSE [left EXCEPT !.onStack = @ \ {u}]

HasCycle(graph, directed) ==
    LET search(a, start) ==
            IF a.cycle \/ start \in a.visited THEN a
            ELSE CycleFrom(graph, a, start, None, directed)
    IN  Upto(search, [visited |-> {}, onStack |-> {}, cycle |-> FALSE],
             0, Cardinality(Nodes(graph)) - 1).cycle

HasCycleDirected(graph) == HasCycle(graph, TRUE)
HasCycleUndirected(graph) == HasCycle(graph, FALSE)
-----------------------------------------------------------------------------
Arcs(graph) == UNION {{<<u, edge[1]>> : edge \in ToSet(graph[u])} : u \in Nodes(graph)}

\* The nodes that a walk of at most n arcs reaches from u.
RECURSIVE Within(_, _, _)
Within(graph, u, n) ==
    IF n = 0 THEN {u}
    ELSE LET near == Within(graph, u, n - 1)
         IN  near \cup {arc[2] : arc \in {x \in Arcs(graph) : x[1] \in near}}

Reach(graph, u) == Within(graph, u, Cardinality(Nodes(graph)))

\* The least weight of a walk of at most n arcs from u to v.
RECURSIVE WalkWeight(_, _, _, _)
WalkWeight(graph, u, v, n) ==
    IF n = 0 THEN IF u = v THEN 0 ELSE Infinity
    ELSE Min({WalkWeight(graph, u, v, n - 1)}
             \cup {edge[2] + WalkWeight(graph, edge[1], v, n - 1) : edge \in ToSet(graph[u])})

IsPath(graph, path, start, end) ==
    /\ path[1] = start /\ Last(path) = end
    /\ \A i \in 2 .. Len(path) : <<path[i - 1], path[i]>> \in Arcs(graph)

\* Every search visits what can be reached, each node once; breadth first
\* finds the shortest path, and the two depth first searches agree.
TraversalsRight(graph) ==
    \A u \in Nodes(graph) :
        /\ \A order \in {BfsOrder(graph, u), DfsOrder(graph, u), DfsIterative(graph, u)} :
              ToSet(order) = Reach(graph, u) /\ IsInjective(order)
        /\ DfsOrder(graph, u) = DfsIterative(graph, u)
        /\ \A v \in Nodes(graph) :
              LET path == BfsShortestPath(graph, u, v)
              IN  /\ path = <<>> <=> v \notin Reach(graph, u)
                  /\ path # <<>> => /\ IsPath(graph, path, u, v)
                                    /\ v \in Within(graph, u, Len(path) - 1)
                                    /\ Len(path) > 1 => v \notin Within(graph, u, Len(path) - 2)
                  /\ Bfs(graph, u, {v}) = (v \notin Reach(graph, u))
                  /\ DfsSearch(graph, u, {v}).stopped = (v \in Reach(graph, u))

\* dijkstra() finds the least weights and dijkstra_path() paths of them.
DistancesRight(graph) ==
    \A u, v \in Nodes(graph) :
        LET path == DijkstraPath(graph, u, v)
            n == Cardinality(Nodes(graph))
        IN  /\ Dijkstra(graph, u)[v] = Min({Infinity, WalkWeight(graph, u, v, n)})
            /\ path # <<>> => IsPath(graph, path, u, v) /\ IsInjective(path)

\* A directed graph has a cycle or a topological order.
OrdersRight(graph) ==
    LET order == TopologicalSort(graph)
        place(v) == CHOOSE i \in DOMAIN order : order[i] = v
    IN  /\ HasCycleDirected(graph) <=> \E arc \in Arcs(graph) : arc[1] \in Reach(graph, arc[2])
        /\ Nodes(graph) # {} => (order = <<>> <=> HasCycleDirected(graph))
        /\ order # <<>> => \A arc \in Arcs(graph) : place(arc[1]) < place(arc[2])

\* Of a graph with undirected edges only: components, cycles and the least
\* spanning tree of the component of node 0.
UndirectedRight(graph) ==
    LET id == FindConnectedComponents(graph)
        edges == {{arc[1], arc[2]} : arc \in Arcs(graph)}
        weight(e) == Min({edge[2] : edge \in UNION {{x \in ToSet(graph[u]) : {u, x[1]} = e} : u \in e}})
        spans(tree) ==
            LET sub == [u \in Nodes(graph) |->
                           SelectSeq(graph[u], LAMBDA x : {u, x[1]} \in tree)]
            IN  Reach(sub, 0) = Reach(graph, 0)
        times(u, v, w) == Len(SelectSeq(graph[u], LAMBDA edge : edge = <<v, w>>))
        undirected == \A u \in Nodes(graph) : \A edge \in ToSet(graph[u]) :
                          times(u, edge[1], edge[2]) = times(edge[1], u, edge[2])
        ends == FoldFunction(LAMBDA x, n : n + Len(x), 0, graph)
    IN  undirected /\ Nodes(graph) # {} =>
          /\ \A u, v \in Nodes(graph) : id[u] = id[v] <=> v \in Reach(graph, u)
          /\ IsConnected(graph) <=> Reach(graph, 0) = Nodes(graph)
          /\ HasCycleUndirected(graph)
             <=> ends > 2 * (Cardinality(Nodes(graph)) - Cardinality(Range(id)))
          /\ PrimMst(graph) = Min({MapThenSumSet(weight, tree) :
                                      tree \in {t \in SUBSET edges : spans(t)}})
=============================================================================
