------------------------------- MODULE Graph ---------------------------------
(***************************************************************************)
(* The graphs of include/graph.hpp: undirected_graph, digraph, bigraph and *)
(* bigraph_continuous, and the traversals BFS, DFS and                     *)
(* connected_components.                                                   *)
(*                                                                         *)
(* A dict of dicts is a function from vertices to functions; the list of   *)
(* bags of bigraph_continuous maps a vertex to the number of copies of     *)
(* each pair of its bag.  operator[] inserts an absent key, also when it   *)
(* only reads.  A traversal works on a copy of the graph, takes neighbours *)
(* and vertices in the order of a hash table, any order here, and is gone  *)
(* when its results have been read.                                        *)
(***************************************************************************)
EXTENDS Integers, Sequences, FiniteSets

CONSTANTS
  N,         \* vertices are 0 .. N - 1
  Weight,
  Input,     \* the triples that may be added to a graph of each class
  Asked,     \* bound: the vertices that a graph of each class is asked for
  MaxCalls   \* bound: the calls of add_edge that a graph of each class counts

Vertex  == 0 .. (N - 1)
Classes == {"undirected", "digraph", "bigraph", "continuous"}
Dicts   == Classes \ {"continuous"}
Zero    == 0       \* double()
Weights == Weight \cup {Zero}

ASSUME GraphAssumption ==
  /\ N \in Nat \ {0} /\ MaxCalls \in [Classes -> Nat]
  /\ Input \in [Classes -> SUBSET (Vertex \X Vertex \X Weight)]
  /\ Asked \in [Classes -> SUBSET Vertex]

VARIABLES
  class,             \* the class of the graph, "none" before it is created
  adj, reverse_adj, v_sz, e_sz,
  task,              \* the traversal in progress: "idle", "bfs" or "cc"
  marked,            \* of BFS, or of the DFS in progress
  src, q, node, todo, edge_to, dist_to,       \* BFS
  vertexes, stack, identifier, count          \* connected_components and DFS

graph     == <<class, adj, reverse_adj, v_sz, e_sz>>
bfsVars   == <<src, q, node, todo, edge_to, dist_to>>
ccVars    == <<vertexes, stack, identifier, count>>
graphVars == <<graph, task, marked, bfsVars, ccVars>>

Empty == [x \in {} |-> x]

NoTraversal ==
  /\ task = "idle" /\ marked = {}
  /\ src = 0 /\ q = <<>> /\ node = 0 /\ todo = {} /\ edge_to = Empty /\ dist_to = Empty
  /\ vertexes = {} /\ stack = <<>> /\ identifier = Empty /\ count = 0

GraphInit ==
  /\ class \in Classes
  /\ adj = Empty /\ reverse_adj = Empty /\ v_sz = 0 /\ e_sz = 0
  /\ NoTraversal

-----------------------------------------------------------------------------
(***************************************************************************)
(* Building a graph.                                                       *)
(***************************************************************************)
Row(d, v) == IF v \in DOMAIN d THEN d[v] ELSE Empty

Assign(f, a, x) == [b \in DOMAIN f \cup {a} |-> IF b = a THEN x ELSE f[b]]

\* d[v], and d[v][w] = x.
Touch(d, v)     == Assign(d, v, Row(d, v))
Put(d, v, w, x) == Assign(d, v, Assign(Row(d, v), w, x))

Edge(d, v, w)      == v \in DOMAIN d /\ w \in DOMAIN d[v]
EdgeIs(d, v, w, x) == Edge(d, v, w) /\ d[v][w] = x

Building == task = "idle" /\ UNCHANGED <<class, task, marked, bfsVars, ccVars>>

Counted ==
  /\ e_sz < MaxCalls[class]
  /\ e_sz' = e_sz + 1
  /\ v_sz' = Cardinality(DOMAIN adj')

AddUndirected(v, w, x) ==
  /\ Building /\ class = "undirected"
  /\ adj' = Put(Put(adj, v, w, x), w, v, x)
  /\ Counted /\ UNCHANGED reverse_adj

\* Mutant: the reverse edge is made once and keeps its first weight.
AddDirectedOnce(v, w, x) ==
  /\ Building /\ class = "digraph"
  /\ adj' = Touch(Put(adj, v, w, x), w)
  /\ reverse_adj' = IF Edge(reverse_adj, w, v) THEN reverse_adj
                    ELSE Put(reverse_adj, w, v, x)
  /\ Counted

AddDirected(v, w, x) ==
  /\ Building /\ class = "digraph"
  /\ adj' = Touch(Put(adj, v, w, x), w)
  /\ reverse_adj' = Put(reverse_adj, w, v, x)
  /\ Counted

AddLeft(v, w, x) ==
  /\ Building /\ class = "bigraph"
  /\ adj' = Put(adj, v, w, x)
  /\ Counted /\ UNCHANGED reverse_adj

\* resize of the list of bags, which keeps the ones that stay.
Resized(n) == [u \in 0 .. (n - 1) |-> Row(adj, u)]

Copies(bag, p) == IF p \in DOMAIN bag THEN bag[p] ELSE 0

\* bigraph_continuous: v() refreshes v_sz, not add_edge.
AddContinuous(v, w, x) ==
  LET size == Cardinality(DOMAIN adj)
      big  == Resized(IF v >= size THEN v + 1 ELSE size)
  IN /\ Building /\ class = "continuous"
     /\ e_sz < MaxCalls[class] /\ Copies(big[v], <<w, x>>) < MaxCalls[class]
     /\ adj' = Assign(big, v, Assign(big[v], <<w, x>>, Copies(big[v], <<w, x>>) + 1))
     /\ e_sz' = e_sz + 1
     /\ UNCHANGED <<reverse_adj, v_sz>>

Resize(n) ==
  /\ Building /\ class = "continuous"
  /\ v_sz' = n /\ adj' = Resized(n) /\ e_sz' = 0
  /\ UNCHANGED reverse_adj

V ==
  /\ Building /\ class = "continuous"
  /\ v_sz' = Cardinality(DOMAIN adj)
  /\ UNCHANGED <<adj, reverse_adj, e_sz>>

Reset ==
  /\ Building /\ class = "bigraph"
  /\ adj' = Empty /\ v_sz' = 0 /\ e_sz' = 0
  /\ UNCHANGED reverse_adj

-----------------------------------------------------------------------------
(***************************************************************************)
(* Operations that look like queries and change the graph.                 *)
(***************************************************************************)

\* adjacent, outdegree and traverse of one vertex.
Adjacent(v) ==
  /\ Building /\ class = "digraph"
  /\ adj' = Touch(adj, v)
  /\ UNCHANGED <<reverse_adj, v_sz, e_sz>>

IsConnected(a) ==
  /\ Building /\ class = "bigraph"
  /\ adj' = Touch(adj, a)
  /\ UNCHANGED <<reverse_adj, v_sz, e_sz>>

ReverseAdjacent(v) ==
  /\ Building /\ class = "digraph"
  /\ reverse_adj' = Touch(reverse_adj, v)
  /\ UNCHANGED <<adj, v_sz, e_sz>>

\* adj[a][b]: a pair that was never added becomes an edge of weight 0.
GetWgt(a, b) ==
  /\ Building /\ class = "bigraph"
  /\ adj' = IF Edge(adj, a, b) THEN adj ELSE Put(adj, a, b, Zero)
  /\ UNCHANGED <<reverse_adj, v_sz, e_sz>>

Reverse ==
  /\ Building /\ class = "digraph"
  /\ adj' = reverse_adj /\ reverse_adj' = adj
  /\ UNCHANGED <<v_sz, e_sz>>

\* dump2triples, as the set of its triples, and dump2dict.
Dump(d) == {t \in Vertex \X Vertex \X Weights : EdgeIs(d, t[1], t[2], t[3])}

\* A digraph made of given triples, no pair twice, by its constructors.
From(ts) ==
  [v \in {t[1] : t \in ts} \cup {t[2] : t \in ts} |->
     [w \in {t[2] : t \in {u \in ts : u[1] = v}} |->
        CHOOSE x \in Weights : <<v, w, x>> \in ts]]

ReverseFrom(ts) ==
  [w \in {t[2] : t \in ts} |->
     [v \in {t[1] : t \in {u \in ts : u[2] = w}} |->
        CHOOSE x \in Weights : <<v, w, x>> \in ts]]

\* The graph is dumped and made again: vertices without an edge are gone, and
\* e_sz counts every edge once.
Reload ==
  /\ Building /\ class = "digraph"
  /\ LET ts == Dump(adj) IN
     /\ adj' = From(ts)
     /\ reverse_adj' = ReverseFrom(ts)
     /\ e_sz' = Cardinality(ts)
  /\ v_sz' = IF Dump(adj) = {} THEN 0 ELSE Cardinality(DOMAIN adj')

-----------------------------------------------------------------------------
(***************************************************************************)
(* BFS.                                                                    *)
(***************************************************************************)
Neighbours(v) == DOMAIN Row(adj, v)

Searching == task = "bfs" /\ UNCHANGED <<graph, task, src, ccVars>>

BFSStart(v) ==
  /\ task = "idle" /\ class \in Dicts
  /\ task' = "bfs" /\ src' = v
  /\ q' = <<v>> /\ marked' = {v} /\ dist_to' = Assign(Empty, v, 0)
  /\ node' = v /\ todo' = {} /\ edge_to' = Empty
  /\ UNCHANGED <<graph, ccVars>>

BFSPop ==
  /\ Searching /\ todo = {} /\ q # <<>>
  /\ node' = Head(q) /\ q' = Tail(q)
  /\ todo' = Neighbours(Head(q))
  /\ UNCHANGED <<marked, edge_to, dist_to>>

\* Mutant: a vertex is marked when it leaves the queue.
BFSVisitLate(w) ==
  /\ Searching /\ w \in todo
  /\ todo' = todo \ {w}
  /\ IF w \in marked /\ w \notin {q[i] : i \in 1..Len(q)}
     THEN UNCHANGED <<q, marked, edge_to, dist_to>>
     ELSE /\ q' = Append(q, w) /\ marked' = marked \cup {w}
          /\ edge_to' = Assign(edge_to, w, node)
          /\ dist_to' = Assign(dist_to, w, dist_to[node] + 1)
  /\ UNCHANGED node

\* One round of the loop over the neighbours of node.
BFSVisit(w) ==
  /\ Searching /\ w \in todo
  /\ todo' = todo \ {w}
  /\ IF w \in marked
     THEN UNCHANGED <<q, marked, edge_to, dist_to>>
     ELSE /\ q' = Append(q, w) /\ marked' = marked \cup {w}
          /\ edge_to' = Assign(edge_to, w, node)
          /\ dist_to' = Assign(dist_to, w, dist_to[node] + 1)
  /\ UNCHANGED node

BFSDone == task = "bfs" /\ todo = {} /\ q = <<>>

-----------------------------------------------------------------------------
(***************************************************************************)
(* connected_components: a DFS, with marks of its own, from every vertex   *)
(* that no earlier one has reached.  A frame of the stack is a call of dfs *)
(* with the neighbours it has not yet looked at.                           *)
(***************************************************************************)
Frame(v) == [v |-> v, todo |-> Neighbours(v)]
Top == stack[Len(stack)]
SetTop(frame) == [stack EXCEPT ![Len(stack)] = frame]

Counting == task = "cc" /\ UNCHANGED <<graph, task, bfsVars>>

CCStart ==
  /\ task = "idle" /\ class \in {"undirected", "digraph"}
  /\ task' = "cc" /\ vertexes' = DOMAIN adj
  /\ UNCHANGED <<graph, marked, bfsVars, stack, identifier, count>>

\* dfs is entered: marked[v] = true, and the handler's identifier[v] = count.
CCRoot(v) ==
  /\ Counting /\ stack = <<>> /\ v \in vertexes
  /\ vertexes' = vertexes \ {v}
  /\ IF v \in DOMAIN identifier
     THEN UNCHANGED <<marked, stack, identifier>>
     ELSE /\ marked' = {v} /\ stack' = <<Frame(v)>>
          /\ identifier' = Assign(identifier, v, count)
  /\ UNCHANGED count

\* Mutant: a call that returns gives its caller's neighbours up.
DFSCallDropsRest(w) ==
  /\ Counting /\ stack # <<>> /\ w \in Top.todo
  /\ LET rest == SetTop([Top EXCEPT !.todo = @ \ {w}]) IN
     IF w \in marked THEN stack' = rest /\ UNCHANGED <<marked, identifier>>
     ELSE /\ stack' = SetTop(Frame(w))
          /\ marked' = marked \cup {w}
          /\ identifier' = Assign(identifier, w, count)
  /\ UNCHANGED <<vertexes, count>>

DFSCall(w) ==
  /\ Counting /\ stack # <<>> /\ w \in Top.todo
  /\ LET rest == SetTop([Top EXCEPT !.todo = @ \ {w}]) IN
     IF w \in marked THEN stack' = rest /\ UNCHANGED <<marked, identifier>>
     ELSE /\ stack' = Append(rest, Frame(w))
          /\ marked' = marked \cup {w}
          /\ identifier' = Assign(identifier, w, count)
  /\ UNCHANGED <<vertexes, count>>

\* The last return ends the DFS of one component.
DFSReturn ==
  /\ Counting /\ stack # <<>> /\ Top.todo = {}
  /\ stack' = SubSeq(stack, 1, Len(stack) - 1)
  /\ count' = IF Len(stack) = 1 THEN count + 1 ELSE count
  /\ UNCHANGED <<marked, vertexes, identifier>>

CCDone == task = "cc" /\ vertexes = {} /\ stack = <<>>

Return ==
  /\ BFSDone \/ CCDone
  /\ task' = "idle" /\ marked' = {}
  /\ src' = 0 /\ q' = <<>> /\ node' = 0 /\ todo' = {} /\ edge_to' = Empty /\ dist_to' = Empty
  /\ vertexes' = {} /\ stack' = <<>> /\ identifier' = Empty /\ count' = 0
  /\ UNCHANGED graph

-----------------------------------------------------------------------------
\* The steps that a graph of the class takes when it is used.
Use ==
  \/ \E t \in Input[class] :
       \/ AddUndirected(t[1], t[2], t[3]) \/ AddDirected(t[1], t[2], t[3])
       \/ AddLeft(t[1], t[2], t[3]) \/ AddContinuous(t[1], t[2], t[3])
  \/ \E n \in 0 .. N : Resize(n)
  \/ V \/ Reset \/ Reverse \/ Reload \/ CCStart
  \/ \E v \in Asked[class] :
       Adjacent(v) \/ IsConnected(v) \/ ReverseAdjacent(v) \/ BFSStart(v)
  \/ \E v, w \in Asked[class] : GetWgt(v, w)

Traverse ==
  \/ BFSPop \/ DFSReturn \/ Return
  \/ \E v \in Vertex : BFSVisit(v) \/ CCRoot(v) \/ DFSCall(v)

GraphNext == Use \/ Traverse

GraphSpec == GraphInit /\ [][GraphNext]_graphVars

-----------------------------------------------------------------------------
(***************************************************************************)
(* Properties.                                                             *)
(***************************************************************************)

\* What digraph::indegree counts in adj, and outdegree in the reversed graph.
InDegree(v)         == Cardinality({u \in DOMAIN adj : v \in DOMAIN adj[u]})
ReverseOutDegree(v) == Cardinality(DOMAIN Row(reverse_adj, v))

\* Through repeated edges, reversals and queries that insert vertices, the two
\* tables of a digraph hold the same edges with the same weights, one the other
\* way round: reverse() turns the in-degrees, which are counted by scanning adj,
\* into out-degrees.  In an undirected graph every edge goes both ways.
Mirror ==
  /\ class = "digraph" =>
       /\ \A v, w \in Vertex, x \in Weights :
            EdgeIs(adj, v, w, x) <=> EdgeIs(reverse_adj, w, v, x)
       /\ \A v \in Vertex : InDegree(v) = ReverseOutDegree(v)
  /\ class = "undirected" =>
       \A v, w \in Vertex, x \in Weights : EdgeIs(adj, v, w, x) <=> EdgeIs(adj, w, v, x)

\* p goes from u along n edges to w.
IsWalk(p, n, u, w) ==
  /\ p[0] = u /\ p[n] = w
  /\ \A i \in 0 .. (n - 1) : p[i + 1] \in Neighbours(p[i])
Walk(n, u, w) == \E p \in [0..n -> Vertex] : IsWalk(p, n, u, w)

\* When BFS is done it has visited what can be reached, dist() is the least
\* number of edges, and edgeTo() is the last step of such a path.
ShortestPaths ==
  BFSDone =>
    /\ \A w \in Vertex : \A n \in 0 .. (N - 1) :
         Walk(n, src, w) => w \in marked /\ dist_to[w] <= n
    /\ \A w \in marked : Walk(dist_to[w], src, w)
    /\ \A w \in marked \ {src} :
         w \in Neighbours(edge_to[w]) /\ dist_to[w] = dist_to[edge_to[w]] + 1

\* w is in every set of vertices that holds u and the neighbours of its own.
Closed(S)     == \A a \in S : Neighbours(a) \subseteq S
Reaches(u, w) == \A S \in SUBSET Vertex : u \in S /\ Closed(S) => w \in S

\* Two vertices of an undirected graph get the same identifier exactly when one
\* reaches the other.  In a digraph, where a later DFS may overwrite the mark of
\* an earlier one, vertices with one identifier are reached from one vertex.
\* Every vertex has one of the first `count' identifiers.
Components ==
  CCDone =>
    /\ \A v \in DOMAIN adj : v \in DOMAIN identifier
    /\ \A v \in DOMAIN identifier : identifier[v] \in 0 .. (count - 1)
    /\ \A v, w \in DOMAIN identifier :
         IF class = "undirected" THEN identifier[v] = identifier[w] <=> Reaches(v, w)
         ELSE identifier[v] = identifier[w] =>
                \E u \in Vertex : Reaches(u, v) /\ Reaches(u, w)
=============================================================================
