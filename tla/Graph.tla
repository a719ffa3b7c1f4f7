-------------------------------- MODULE Graph --------------------------------
(***************************************************************************)
(* ocoms_graph_t (ocoms/util/ocoms_graph.c): a weighted directed graph as  *)
(* a list of vertices, each with the list of the edges that leave it, and  *)
(* Dijkstra's algorithm over it.                                           *)
(*                                                                         *)
(* The order of the vertices decides nothing but ties in qsort: they are a *)
(* set.  The order of the edges does: of parallel ones the first counts.   *)
(***************************************************************************)
EXTENDS Integers, Sequences, FiniteSets, SequencesExt

CONSTANTS Vertices,
          Edges,        \* [id, start, end, weight]: the edges callers make
          Infinity,     \* DISTANCE_INFINITY, 0x7fffffff
          Uint32,       \* 2^32, in which distances are added
          UncountedBound  \* bound on uncounted

VARIABLES vertices,            \* of the adjacency lists of the graph
          edges,               \* Vertices -> the edges that leave it, in order
          number_of_vertices, number_of_edges,
          uncounted,           \* history: edges a removal of a vertex took along
          loose                \* history: an edge was added to a vertex that is not there

graphVars == <<vertices, edges, number_of_vertices, number_of_edges, uncounted, loose>>

\* ocoms_graph_construct
GraphInit ==
    /\ vertices = {}
    /\ edges = [v \in Vertices |-> <<>>]
    /\ number_of_vertices = 0 /\ number_of_edges = 0
    /\ uncounted = 0 /\ loose = FALSE

Present == UNION {ToSet(edges[v]) : v \in Vertices}
Without(s, gone) == SelectSeq(s, LAMBDA e : e \notin gone)

\* ocoms_graph_add_vertex of a vertex that is not there
AddVertex(v) ==
    /\ v \notin vertices
    /\ vertices' = vertices \cup {v}
    /\ number_of_vertices' = number_of_vertices + 1
    /\ UNCHANGED <<edges, number_of_edges, uncounted, loose>>

\* ocoms_graph_add_edge: refused only when both vertices are missing.  (With
\* only the start missing the code follows a NULL list: not called.)
AddEdge(e) ==
    /\ e \notin Present /\ e.start \in vertices
    /\ edges' = [edges EXCEPT ![e.start] = Append(@, e)]
    /\ number_of_edges' = number_of_edges + 1
    /\ loose' = (loose \/ e.end \notin vertices)
    /\ UNCHANGED <<vertices, number_of_vertices, uncounted>>

\* ocoms_graph_remove_edge
RemoveEdge(e) ==
    /\ e \in Present
    /\ edges' = [edges EXCEPT ![e.start] = Without(@, {e})]
    /\ number_of_edges' = number_of_edges - 1
    /\ UNCHANGED <<vertices, number_of_vertices, uncounted, loose>>

\* Mutant: edges to the vertex are not looked for.
EdgesTouchingOut(v) == {e \in Present : e.start = v}

\* The edges that leave a vertex, and delete_all_edges_conceded_to_vertex
EdgesTouching(v) == {e \in Present : e.start = v \/ e.end = v}

\* ocoms_graph_remove_vertex, which leaves number_of_edges alone
RemoveVertex(v) ==
    /\ v \in vertices
    /\ uncounted + Cardinality(EdgesTouching(v)) <= UncountedBound
    /\ vertices' = vertices \ {v}
    /\ edges' = [w \in Vertices |-> Without(edges[w], EdgesTouching(v))]
    /\ number_of_vertices' = number_of_vertices - 1
    /\ uncounted' = uncounted + Cardinality(EdgesTouching(v))
    /\ UNCHANGED <<number_of_edges, loose>>

\* ocoms_graph_destruct and a new ocoms_graph_construct
Renew ==
    /\ vertices # {}
    /\ vertices' = {}
    /\ edges' = [v \in Vertices |-> <<>>]
    /\ number_of_vertices' = 0 /\ number_of_edges' = 0
    /\ uncounted' = 0 /\ loose' = FALSE

\* ocoms_graph_duplicate, where the copy takes the place of the original: every
\* vertex is its sibling, and the edges are added, and counted, anew.  (An edge
\* to a vertex that is not there has no sibling to end at: not called.)
Duplicate ==
    /\ ~loose
    /\ number_of_edges' = Cardinality(Present)
    /\ number_of_vertices' = Cardinality(vertices)
    /\ uncounted' = 0
    /\ UNCHANGED <<vertices, edges, loose>>

-----------------------------------------------------------------------------
\* ocoms_graph_adjacent of two vertices of the graph
Adjacent(v1, v2) ==
    LET to == SelectSeq(edges[v1], LAMBDA e : e.end = v2) IN
    IF v1 = v2 THEN 0 ELSE IF to = <<>> THEN Infinity ELSE to[1].weight

\* Mutant: the queue is sorted once, not after each turn.
NearestFirst(dist, queue, source) == IF source \in queue THEN source ELSE CHOOSE v \in queue : TRUE

\* The head of the sorted queue
Nearest(dist, queue, source) == CHOOSE v \in queue : \A w \in queue : dist[v] <= dist[w]

\* A turn of the loop of ocoms_graph_dijkstra: s.queue holds the vertices whose
\* distance may still change.
DijkstraTurn(s, source) ==
    LET u == Nearest(s.dist, s.queue, source)
        rest == s.queue \ {u}
        through(v) == (s.dist[u] + Adjacent(u, v)) % Uint32 IN
    [queue |-> rest,
     dist |-> [v \in vertices |->
                 IF v \in rest /\ through(v) < s.dist[v] THEN through(v) ELSE s.dist[v]]]

\* ocoms_graph_dijkstra
Dijkstra(source) ==
    LET turns[n \in Nat] ==
          IF n = 0
          THEN [queue |-> vertices,
                dist |-> [v \in vertices |-> IF v = source THEN 0 ELSE Infinity]]
          ELSE DijkstraTurn(turns[n - 1], source)
    IN turns[Cardinality(vertices)].dist

\* ocoms_graph_spf: the source itself is not in the array that is searched.
Spf(v1, v2) == IF v1 = v2 THEN Infinity ELSE Dijkstra(v1)[v2]

-----------------------------------------------------------------------------
GraphNext ==
    \/ \E v \in Vertices : AddVertex(v) \/ RemoveVertex(v)
    \/ \E e \in Edges : AddEdge(e) \/ RemoveEdge(e)
    \/ Renew \/ Duplicate

GraphSpec == GraphInit /\ [][GraphNext]_graphVars

-----------------------------------------------------------------------------
\* The weight of the ways without repetition from one vertex to another.
Ways(v1, v2) ==
    LET paths == {<<v1>> \o p \o <<v2>> :
                    p \in SetToAllKPermutations(vertices \ {v1, v2})}
        cost(p) == FoldLeftDomain(LAMBDA c, i : c + (IF i = Len(p) THEN 0
                                                     ELSE Adjacent(p[i], p[i + 1])), 0, p)
    IN {cost(p) : p \in paths}

\* After any additions and removals the distance Dijkstra's algorithm finds
\* between two vertices is the weight of the cheapest way between them,
\* DISTANCE_INFINITY when there is none.
SpfIsShortest ==
    \A v1, v2 \in vertices : v1 # v2 =>
       LET least == CHOOSE c \in Ways(v1, v2) : \A d \in Ways(v1, v2) : c <= d IN
       Spf(v1, v2) = IF least >= Infinity THEN Infinity ELSE least

\* Unless an edge was added to a vertex that is not in the graph, every edge
\* ends at a vertex of the graph: a removed vertex, which is freed, is reached
\* from none.  The graph counts its vertices, and its edges but for those that
\* were removed with a vertex.
EdgesStayInGraph ==
    /\ ~loose => \A e \in Present : e.start \in vertices /\ e.end \in vertices
    /\ number_of_vertices = Cardinality(vertices)
    /\ number_of_edges = Cardinality(Present) + uncounted
=============================================================================
