----------------------------- MODULE GraphProofs -----------------------------
(***************************************************************************)
(* Proofs about Graph, for every number of vertices, every set of weights  *)
(* and every sequence of calls: the two tables of a digraph mirror each    *)
(* other, BFS finds shortest paths, and connected_components finds the     *)
(* components.                                                             *)
(***************************************************************************)
EXTENDS Graph, WellFoundedInduction, SequenceTheorems, TLAPS

-----------------------------------------------------------------------------
(***************************************************************************)
(* Induction over the naturals, with a set in place of the predicate.      *)
(***************************************************************************)

\* Every set of naturals that is not empty has a least element.
LEMMA LeastNat ==
  ASSUME NEW S, S \subseteq Nat, S # {}
  PROVE  \E n \in S : \A k \in S : n <= k
<1>1. PICK n \in S : \A k \in S : ~ (<<k, n>> \in OpToRel(<, Nat))
  BY NatLessThanWellFounded, WFMin, Zenon
<1>2. ASSUME NEW k \in S PROVE n <= k
  <2>1. ~ (k < n)
    BY <1>1 DEF OpToRel
  <2> QED BY <2>1
<1> QED BY <1>2

\* A set with 0 and the successor of each of its naturals has all naturals.
LEMMA SetInduction ==
  ASSUME NEW S, 0 \in S, \A n \in Nat : n \in S => n + 1 \in S
  PROVE  \A n \in Nat : n \in S
<1> SUFFICES ASSUME Nat \ S # {} PROVE FALSE OBVIOUS
<1>1. PICK n \in Nat \ S : \A k \in Nat \ S : n <= k
  BY LeastNat
<1>2. n # 0 /\ n - 1 \in Nat /\ n - 1 \in S
  BY <1>1
<1> QED BY <1>2

-----------------------------------------------------------------------------
(***************************************************************************)
(* The tables.                                                             *)
(***************************************************************************)
Table(d) ==
  /\ DOMAIN d \subseteq Vertex
  /\ \A v \in DOMAIN d : /\ DOMAIN d[v] \subseteq Vertex
                         /\ \A w \in DOMAIN d[v] : d[v][w] \in Weights

Tables ==
  /\ class \in Classes /\ task \in {"idle", "bfs", "cc"}
  /\ class \in Dicts => Table(adj)
  /\ class = "digraph" => Table(reverse_adj)
  /\ task # "idle" => class \in Dicts
  /\ task = "cc" => class \in {"undirected", "digraph"}

Converse ==
  /\ class = "digraph" => \A v, w \in Vertex, x \in Weights :
                            EdgeIs(adj, v, w, x) <=> EdgeIs(reverse_adj, w, v, x)
  /\ class = "undirected" => \A v, w \in Vertex, x \in Weights :
                               EdgeIs(adj, v, w, x) <=> EdgeIs(adj, w, v, x)

\* The empty table has no edge.
LEMMA EmptyTable ==
  /\ DOMAIN Empty = {}
  /\ Table(Empty)
  /\ \A v, w, x : ~EdgeIs(Empty, v, w, x)
BY DEF Empty, Table, EdgeIs, Edge

\* d[v][w] = x makes one edge and changes no other.
LEMMA PutEdge ==
  ASSUME NEW d, NEW v, NEW w, NEW x, NEW a, NEW b, NEW y
  PROVE  EdgeIs(Put(d, v, w, x), a, b, y)
           <=> IF a = v /\ b = w THEN y = x ELSE EdgeIs(d, a, b, y)
BY DEF EdgeIs, Edge, Put, Assign, Row, Empty

LEMMA PutTable ==
  ASSUME NEW d, Table(d), NEW v \in Vertex, NEW w \in Vertex, NEW x \in Weights
  PROVE  Table(Put(d, v, w, x))
BY DEF Table, Put, Assign, Row, Empty

\* Reading d[v] makes no edge.
LEMMA TouchEdge ==
  ASSUME NEW d, NEW v, NEW a, NEW b, NEW y
  PROVE  EdgeIs(Touch(d, v), a, b, y) <=> EdgeIs(d, a, b, y)
BY DEF EdgeIs, Edge, Touch, Assign, Row, Empty

LEMMA TouchTable ==
  ASSUME NEW d, Table(d), NEW v \in Vertex
  PROVE  Table(Touch(d, v))
BY DEF Table, Touch, Assign, Row, Empty

\* A table has the edges of its dump, and no others.
LEMMA DumpEdge ==
  ASSUME NEW d, NEW v \in Vertex, NEW w \in Vertex, NEW x \in Weights
  PROVE  <<v, w, x>> \in Dump(d) <=> EdgeIs(d, v, w, x)
BY DEF Dump

\* The triples of a dump, which has one for each pair, make the same table.
LEMMA ReloadEdge ==
  ASSUME NEW d, NEW v \in Vertex, NEW w \in Vertex, NEW x \in Weights
  PROVE  EdgeIs(From(Dump(d)), v, w, x) <=> EdgeIs(d, v, w, x)
<1> DEFINE ts == Dump(d)
<1>1. \A a, b \in Vertex, y \in Weights : <<a, b, y>> \in ts <=> EdgeIs(d, a, b, y)
  BY DumpEdge
<1>2. Edge(From(ts), v, w) <=> \E y \in Weights : <<v, w, y>> \in ts
  <2>1. ASSUME NEW t \in ts PROVE \E a, b \in Vertex, y \in Weights : t = <<a, b, y>>
    BY DEF Dump
  <2> HIDE DEF ts
  <2>2. Edge(From(ts), v, w) <=> \E t \in ts : t[1] = v /\ t[2] = w
    BY DEF Edge, From
  <2>3. ASSUME NEW t \in ts, t[1] = v, t[2] = w
        PROVE  \E y \in Weights : <<v, w, y>> \in ts
    BY <2>1, <2>3
  <2>4. ASSUME NEW y \in Weights, <<v, w, y>> \in ts
        PROVE  \E t \in ts : t[1] = v /\ t[2] = w
    BY <2>4
  <2> QED BY <2>2, <2>3, <2>4
<1>3. ASSUME Edge(From(ts), v, w)
      PROVE  From(ts)[v][w] = CHOOSE y \in Weights : <<v, w, y>> \in ts
  <2> HIDE DEF ts
  <2> QED BY <1>3 DEF Edge, From
<1> HIDE DEF ts
<1>4. ASSUME NEW y \in Weights, <<v, w, y>> \in ts, NEW z \in Weights, <<v, w, z>> \in ts
      PROVE  y = z
  BY <1>4, <1>1 DEF EdgeIs
<1>5. (\E y \in Weights : <<v, w, y>> \in ts) =>
         (CHOOSE y \in Weights : <<v, w, y>> \in ts) \in {y \in Weights : <<v, w, y>> \in ts}
  OBVIOUS
<1> QED BY <1>1, <1>2, <1>3, <1>4, <1>5 DEF EdgeIs, ts

LEMMA FromTable ==
  ASSUME NEW d
  PROVE  Table(From(Dump(d)))
<1> DEFINE ts == Dump(d)
<1>1. ASSUME NEW t \in ts
      PROVE  t[1] \in Vertex /\ t[2] \in Vertex /\ t[3] \in Weights /\ t = <<t[1], t[2], t[3]>>
  BY DEF Dump
<1> HIDE DEF ts
<1>2. DOMAIN From(ts) \subseteq Vertex
  BY <1>1 DEF From
<1>3. ASSUME NEW v \in DOMAIN From(ts), NEW w \in DOMAIN From(ts)[v]
      PROVE  w \in Vertex /\ From(ts)[v][w] \in Weights
  <2>1. PICK t \in ts : t[1] = v /\ t[2] = w
    BY <1>3 DEF From
  <2>2. <<v, w, t[3]>> \in ts /\ t[3] \in Weights
    BY <2>1, <1>1
  <2>3. From(ts)[v][w] = CHOOSE y \in Weights : <<v, w, y>> \in ts
    BY <1>3 DEF From
  <2> QED BY <2>1, <2>2, <2>3, <1>1
<1> QED BY <1>2, <1>3 DEF Table, ts

\* The same of the reverse table, whose edges go the other way.
LEMMA ReloadReverseEdge ==
  ASSUME NEW d, NEW v \in Vertex, NEW w \in Vertex, NEW x \in Weights
  PROVE  EdgeIs(ReverseFrom(Dump(d)), w, v, x) <=> EdgeIs(d, v, w, x)
<1> DEFINE ts == Dump(d)
<1>1. \A a, b \in Vertex, y \in Weights : <<a, b, y>> \in ts <=> EdgeIs(d, a, b, y)
  BY DumpEdge
<1>2. Edge(ReverseFrom(ts), w, v) <=> \E y \in Weights : <<v, w, y>> \in ts
  <2>1. ASSUME NEW t \in ts PROVE \E a, b \in Vertex, y \in Weights : t = <<a, b, y>>
    BY DEF Dump
  <2> HIDE DEF ts
  <2>2. Edge(ReverseFrom(ts), w, v) <=> \E t \in ts : t[1] = v /\ t[2] = w
    BY DEF Edge, ReverseFrom
  <2>3. ASSUME NEW t \in ts, t[1] = v, t[2] = w
        PROVE  \E y \in Weights : <<v, w, y>> \in ts
    BY <2>1, <2>3
  <2>4. ASSUME NEW y \in Weights, <<v, w, y>> \in ts
        PROVE  \E t \in ts : t[1] = v /\ t[2] = w
    BY <2>4
  <2> QED BY <2>2, <2>3, <2>4
<1>3. ASSUME Edge(ReverseFrom(ts), w, v)
      PROVE  ReverseFrom(ts)[w][v] = CHOOSE y \in Weights : <<v, w, y>> \in ts
  <2> HIDE DEF ts
  <2> QED BY <1>3 DEF Edge, ReverseFrom
<1> HIDE DEF ts
<1>4. ASSUME NEW y \in Weights, <<v, w, y>> \in ts, NEW z \in Weights, <<v, w, z>> \in ts
      PROVE  y = z
  BY <1>4, <1>1 DEF EdgeIs
<1>5. (\E y \in Weights : <<v, w, y>> \in ts) =>
         (CHOOSE y \in Weights : <<v, w, y>> \in ts) \in {y \in Weights : <<v, w, y>> \in ts}
  OBVIOUS
<1> QED BY <1>1, <1>2, <1>3, <1>4, <1>5 DEF EdgeIs, ts

LEMMA ReverseFromTable ==
  ASSUME NEW d
  PROVE  Table(ReverseFrom(Dump(d)))
<1> DEFINE ts == Dump(d)
<1>1. ASSUME NEW t \in ts
      PROVE  t[1] \in Vertex /\ t[2] \in Vertex /\ t[3] \in Weights /\ t = <<t[1], t[2], t[3]>>
  BY DEF Dump
<1> HIDE DEF ts
<1>2. DOMAIN ReverseFrom(ts) \subseteq Vertex
  BY <1>1 DEF ReverseFrom
<1>3. ASSUME NEW w \in DOMAIN ReverseFrom(ts), NEW v \in DOMAIN ReverseFrom(ts)[w]
      PROVE  v \in Vertex /\ ReverseFrom(ts)[w][v] \in Weights
  <2>1. PICK t \in ts : t[1] = v /\ t[2] = w
    BY <1>3 DEF ReverseFrom
  <2>2. <<v, w, t[3]>> \in ts /\ t[3] \in Weights
    BY <2>1, <1>1
  <2>3. ReverseFrom(ts)[w][v] = CHOOSE y \in Weights : <<v, w, y>> \in ts
    BY <1>3 DEF ReverseFrom
  <2> QED BY <2>1, <2>2, <2>3, <1>1
<1> QED BY <1>2, <1>3 DEF Table, ts

-----------------------------------------------------------------------------
(***************************************************************************)
(* The tables mirror each other.                                           *)
(***************************************************************************)
MirrorInv == Tables /\ Converse

\* A traversal leaves the graph alone.
LEMMA TraverseKeepsGraph ==
  ASSUME Traverse
  PROVE  UNCHANGED graph /\ task' \in {task, "idle"}
BY DEF Traverse, BFSPop, DFSReturn, Return, BFSVisit, CCRoot, DFSCall, Searching, Counting, graph

LEMMA MirrorInvInit == GraphInit => MirrorInv
BY EmptyTable DEF GraphInit, NoTraversal, MirrorInv, Tables, Converse, Classes, Dicts

LEMMA MirrorInvNext ==
  ASSUME MirrorInv, [GraphNext]_graphVars
  PROVE  MirrorInv'
<1> USE DEF MirrorInv
<1>1. CASE UNCHANGED graphVars
  BY <1>1 DEF graphVars, graph, Tables, Converse, Table, EdgeIs, Edge
<1>2. CASE Traverse
  <2>1. UNCHANGED <<class, adj, reverse_adj>> /\ task' \in {task, "idle"}
    BY <1>2, TraverseKeepsGraph DEF graph
  <2> QED BY <2>1 DEF Tables, Converse, Table, EdgeIs, Edge
<1>3. CASE Use
  <2>1. ASSUME NEW t \in Input[class]
        PROVE  /\ t[1] \in Vertex /\ t[2] \in Vertex
               /\ t[3] \in Weight /\ t[3] \in Weights
    <3>1. Input[class] \subseteq Vertex \X Vertex \X Weight
      BY GraphAssumption DEF Tables
    <3> QED BY <2>1, <3>1 DEF Weights
  <2>2. ASSUME NEW t \in Input[class], AddUndirected(t[1], t[2], t[3])
        PROVE  MirrorInv'
    <3>1. adj' = Put(Put(adj, t[1], t[2], t[3]), t[2], t[1], t[3]) /\ class = "undirected"
          /\ class' = class /\ task' = task
      BY <2>2 DEF AddUndirected, Building
    <3>2. Tables'
      BY <3>1, <2>1, PutTable DEF Tables, Dicts, Classes
    <3>3. Converse'
      BY <3>1, PutEdge DEF Converse
    <3> QED BY <3>2, <3>3
  <2>3. ASSUME NEW t \in Input[class], AddDirected(t[1], t[2], t[3])
        PROVE  MirrorInv'
    <3>1. /\ adj' = Touch(Put(adj, t[1], t[2], t[3]), t[2])
          /\ reverse_adj' = Put(reverse_adj, t[2], t[1], t[3]) 
          /\ class = "digraph" /\ class' = class /\ task' = task
      BY <2>3 DEF AddDirected, Building
    <3>2. Tables'
      BY <3>1, <2>1, PutTable, TouchTable DEF Tables, Dicts, Classes
    <3>3. Converse'
      BY <3>1, PutEdge, TouchEdge DEF Converse
    <3> QED BY <3>2, <3>3
  <2>4. ASSUME NEW t \in Input[class], AddLeft(t[1], t[2], t[3])
        PROVE  MirrorInv'
    <3>1. /\ adj' = Put(adj, t[1], t[2], t[3])
          /\ class = "bigraph" /\ class' = class /\ task' = task
      BY <2>4 DEF AddLeft, Building
    <3> QED BY <3>1, <2>1, PutTable DEF Tables, Converse, Dicts, Classes
  <2>5. ASSUME class = "continuous", class' = class, task' = task
        PROVE  MirrorInv'
    BY <2>5 DEF Tables, Converse, Dicts, Classes
  <2>6. CASE \E t \in Input[class] : AddContinuous(t[1], t[2], t[3])
    BY <2>6, <2>5 DEF AddContinuous, Building
  <2>7. CASE (\E n \in 0 .. N : Resize(n)) \/ V
    BY <2>7, <2>5 DEF Resize, V, Building
  <2>8. CASE Reset
    <3>1. adj' = Empty /\ class = "bigraph" /\ class' = class /\ task' = task
      BY <2>8 DEF Reset, Building
    <3> QED BY <3>1, EmptyTable DEF Tables, Converse, Dicts, Classes
  <2>9. CASE Reverse
    <3>1. adj' = reverse_adj /\ reverse_adj' = adj /\ class = "digraph"
          /\ class' = class /\ task' = task
      BY <2>9 DEF Reverse, Building
    <3>2. Tables'
      BY <3>1 DEF Tables, Dicts, Classes
    <3>3. Converse'
      BY <3>1 DEF Converse, EdgeIs, Edge
    <3> QED BY <3>2, <3>3
  <2>10. CASE Reload
    <3>1. adj' = From(Dump(adj)) /\ reverse_adj' = ReverseFrom(Dump(adj)) /\ class = "digraph"
          /\ class' = class /\ task' = task
      BY <2>10 DEF Reload, Building
    <3>2. Tables'
      BY <3>1, FromTable, ReverseFromTable DEF Tables
    <3>3. Converse'
      BY <3>1, ReloadEdge, ReloadReverseEdge DEF Converse
    <3> QED BY <3>2, <3>3
  <2>11. CASE CCStart \/ \E v \in Asked[class] : BFSStart(v)
    <3>1. UNCHANGED <<class, adj, reverse_adj>> /\ task' \in {"bfs", "cc"}
          /\ class \in Dicts /\ (task' = "cc" => class \in {"undirected", "digraph"})
      BY <2>11 DEF CCStart, BFSStart, graph, Dicts, Classes
    <3> QED BY <3>1 DEF Tables, Converse, Table, EdgeIs, Edge
  <2>12. ASSUME NEW v \in Asked[class] PROVE v \in Vertex
    BY GraphAssumption DEF Tables
  <2>13. ASSUME NEW v \in Asked[class], Adjacent(v) \/ IsConnected(v)
         PROVE  MirrorInv'
    <3>1. /\ adj' = Touch(adj, v) /\ class \in {"digraph", "bigraph"}
          /\ reverse_adj' = reverse_adj /\ class' = class /\ task' = task
      BY <2>13 DEF Adjacent, IsConnected, Building
    <3>2. Tables'
      BY <3>1, <2>12, TouchTable DEF Tables, Dicts, Classes, Table
    <3>3. Converse'
      BY <3>1, TouchEdge DEF Converse
    <3> QED BY <3>2, <3>3
  <2>14. ASSUME NEW v \in Asked[class], ReverseAdjacent(v)
         PROVE  MirrorInv'
    <3>1. /\ reverse_adj' = Touch(reverse_adj, v) /\ class = "digraph"
          /\ adj' = adj /\ class' = class /\ task' = task
      BY <2>14 DEF ReverseAdjacent, Building
    <3>2. Tables'
      BY <3>1, <2>12, TouchTable DEF Tables, Dicts, Classes, Table
    <3>3. Converse'
      BY <3>1, TouchEdge DEF Converse
    <3> QED BY <3>2, <3>3
  <2>15. ASSUME NEW v \in Asked[class], NEW w \in Asked[class], GetWgt(v, w)
         PROVE  MirrorInv'
    <3>1. /\ adj' \in {adj, Put(adj, v, w, Zero)} /\ class = "bigraph"
          /\ class' = class /\ task' = task
      BY <2>15 DEF GetWgt, Building
    <3>2. Zero \in Weights
      BY DEF Weights
    <3> QED BY <3>1, <3>2, <2>12, PutTable DEF Tables, Converse, Dicts, Classes
  <2> QED BY <1>3, <2>2, <2>3, <2>4, <2>6, <2>7, <2>8, <2>9, <2>10, <2>11, <2>13, <2>14, <2>15
       DEF Use
<1> QED BY <1>1, <1>2, <1>3 DEF GraphNext

\* The degrees that are counted agree: who has an edge to v is in its row of the
\* reverse table.
LEMMA MirrorFromInv == MirrorInv => Mirror
<1> SUFFICES ASSUME MirrorInv PROVE Mirror OBVIOUS
<1> USE DEF MirrorInv
<1>1. ASSUME class = "digraph", NEW v \in Vertex
      PROVE  InDegree(v) = ReverseOutDegree(v)
  <2>1. {u \in DOMAIN adj : v \in DOMAIN adj[u]} = DOMAIN Row(reverse_adj, v)
    <3>0. Table(adj) /\ Table(reverse_adj)
      BY <1>1 DEF Tables, Dicts, Classes
    <3>1. ASSUME NEW u \in DOMAIN adj, v \in DOMAIN adj[u]
          PROVE  u \in DOMAIN Row(reverse_adj, v)
      <4>1. u \in Vertex /\ adj[u][v] \in Weights /\ EdgeIs(adj, u, v, adj[u][v])
        BY <3>0, <3>1 DEF Table, EdgeIs, Edge
      <4>2. EdgeIs(reverse_adj, v, u, adj[u][v])
        BY <4>1, <1>1 DEF Converse
      <4> QED BY <4>2 DEF EdgeIs, Edge, Row
    <3>2. ASSUME NEW u \in DOMAIN Row(reverse_adj, v)
          PROVE  u \in DOMAIN adj /\ v \in DOMAIN adj[u]
      <4>1. v \in DOMAIN reverse_adj /\ u \in DOMAIN reverse_adj[v]
        BY <3>2 DEF Row, Empty
      <4>2. /\ u \in Vertex /\ reverse_adj[v][u] \in Weights
            /\ EdgeIs(reverse_adj, v, u, reverse_adj[v][u])
        BY <3>0, <4>1 DEF Table, EdgeIs, Edge
      <4>3. EdgeIs(adj, u, v, reverse_adj[v][u])
        BY <4>2, <1>1 DEF Converse
      <4> QED BY <4>3 DEF EdgeIs, Edge
    <3> QED BY <3>1, <3>2
  <2> QED BY <2>1 DEF InDegree, ReverseOutDegree
<1> QED BY <1>1 DEF Converse, Mirror

LEMMA MirrorInvHolds == GraphSpec => []MirrorInv
BY MirrorInvInit, MirrorInvNext, PTL DEF GraphSpec

\* The two tables of a digraph hold the same edges with the same weights, one
\* the other way round, and an undirected graph is symmetric, after any calls of
\* add_edge, reverse, the inserting queries, get_wgt and reset.
THEOREM TablesMirror == GraphSpec => []Mirror
BY MirrorInvHolds, MirrorFromInv, PTL

-----------------------------------------------------------------------------
(***************************************************************************)
(* BFS.  The distances in the queue do not decrease and reach at most one  *)
(* beyond the vertex that is being expanded, so that a vertex is marked    *)
(* with its least distance; every vertex that has left the queue has       *)
(* marked its neighbours.                                                  *)
(***************************************************************************)
Queued(u) == \E i \in 1..Len(q) : q[i] = u

BFSTyped ==
  /\ src \in marked /\ marked \subseteq Vertex /\ node \in marked
  /\ q \in Seq(marked) /\ todo \subseteq Neighbours(node)
  /\ dist_to \in [marked -> Nat] /\ dist_to[src] = 0
  /\ DOMAIN edge_to = marked \ {src}

TreeEdges ==
  \A w \in marked \ {src} : /\ edge_to[w] \in marked
                            /\ w \in Neighbours(edge_to[w])
                            /\ dist_to[w] = dist_to[edge_to[w]] + 1

QueueSorted ==
  /\ \A i, j \in 1..Len(q) : i <= j => dist_to[q[i]] <= dist_to[q[j]]
  /\ \A i \in 1..Len(q) : dist_to[node] <= dist_to[q[i]]
  /\ \A u \in marked : dist_to[u] <= dist_to[node] + 1

Expanded ==
  \A u \in marked : \A w \in Neighbours(u) :
    \/ Queued(u) \/ (u = node /\ w \in todo)
    \/ w \in marked /\ dist_to[w] <= dist_to[u] + 1

BFSInv == task = "bfs" => BFSTyped /\ TreeEdges /\ QueueSorted /\ Expanded

LEMMA NeighboursTyped ==
  ASSUME Tables, class \in Dicts, NEW v
  PROVE  Neighbours(v) \subseteq Vertex
BY DEF Tables, Table, Neighbours, Row, Empty

LEMMA BFSInvStart ==
  ASSUME MirrorInv, NEW v \in Vertex, BFSStart(v)
  PROVE  BFSInv'
<1>1. /\ q' = <<v>> /\ marked' = {v} /\ src' = v /\ node' = v /\ todo' = {}
      /\ dist_to' = Assign(Empty, v, 0) /\ edge_to' = Empty
  BY DEF BFSStart
<1>2. dist_to' \in [{v} -> Nat] /\ dist_to'[v] = 0
  BY <1>1 DEF Assign, Empty
<1>3. q' \in Seq({v}) /\ Len(q') = 1 /\ q'[1] = v
  BY <1>1
<1> QED BY <1>1, <1>2, <1>3, EmptyTable
      DEF BFSInv, BFSTyped, TreeEdges, QueueSorted, Expanded, Queued

LEMMA BFSInvPop ==
  ASSUME MirrorInv, BFSInv, BFSPop
  PROVE  BFSInv'
<1>1. /\ task = "bfs" /\ todo = {} /\ q # <<>> /\ node' = Head(q) /\ q' = Tail(q)
      /\ todo' = Neighbours(Head(q)) /\ adj' = adj /\ src' = src
      /\ marked' = marked /\ edge_to' = edge_to /\ dist_to' = dist_to
  BY DEF BFSPop, Searching, graph
<1>2. BFSTyped /\ TreeEdges /\ QueueSorted /\ Expanded
  BY <1>1 DEF BFSInv
<1>3. /\ Len(q) \in Nat \ {0} /\ Head(q) = q[1] /\ q[1] \in marked
      /\ q' \in Seq(marked) /\ Len(q') = Len(q) - 1
      /\ \A i \in 1..Len(q') : q'[i] = q[i + 1]
  BY <1>1, <1>2 DEF BFSTyped
<1>4. Neighbours(node)' = Neighbours(node') /\ \A u : Neighbours(u)' = Neighbours(u)
  BY <1>1 DEF Neighbours, Row
<1>5. BFSTyped'
  BY <1>1, <1>2, <1>3, <1>4 DEF BFSTyped
<1>6. TreeEdges'
  BY <1>1, <1>2, <1>4 DEF TreeEdges
<1>7. QueueSorted'
  <2> USE DEF QueueSorted, BFSTyped
  <2>1. dist_to[node] <= dist_to[node']
    BY <1>1, <1>2, <1>3
  <2>2. \A i \in 1..Len(q') : i + 1 \in 1..Len(q)
    BY <1>3
  <2>3. \A u \in marked : dist_to[u] <= dist_to[node'] + 1
    BY <2>1, <1>1, <1>2, <1>3
  <2>4. ASSUME NEW i \in 1..Len(q'), NEW j \in 1..Len(q'), i <= j
        PROVE  dist_to[q'[i]] <= dist_to[q'[j]]
    <3>1. i + 1 \in 1..Len(q) /\ j + 1 \in 1..Len(q) /\ i + 1 <= j + 1
      BY <2>2, <2>4, <1>3
    <3>2. dist_to[q[i + 1]] <= dist_to[q[j + 1]]
      BY <3>1, <1>2
    <3> QED BY <3>2, <1>3
  <2>5. \A i \in 1..Len(q') : dist_to[node'] <= dist_to[q'[i]]
    BY <2>2, <1>1, <1>2, <1>3
  <2> QED BY <2>3, <2>4, <2>5, <1>1
<1>8. Expanded'
  <2>1. \A u : Queued(u) => u = node' \/ Queued(u)'
    <3> SUFFICES ASSUME NEW i \in 1..Len(q)
                 PROVE  q[i] = node' \/ \E j \in 1..Len(q') : q'[j] = q[i]
      BY DEF Queued
    <3>1. CASE i = 1
      BY <3>1, <1>1, <1>3
    <3>2. CASE i # 1
      <4>1. i - 1 \in 1..Len(q') /\ q'[i - 1] = q[i]
        BY <3>2, <1>3
      <4> QED BY <4>1
    <3> QED BY <3>1, <3>2
  <2> QED BY <2>1, <1>1, <1>2, <1>4 DEF Expanded
<1> QED BY <1>5, <1>6, <1>7, <1>8 DEF BFSInv

LEMMA BFSInvVisit ==
  ASSUME MirrorInv, BFSInv, NEW w, BFSVisit(w)
  PROVE  BFSInv'
<1>1. /\ task = "bfs" /\ w \in todo /\ todo' = todo \ {w} /\ node' = node
      /\ adj' = adj /\ src' = src
  BY DEF BFSVisit, Searching, graph
<1>2. BFSTyped /\ TreeEdges /\ QueueSorted /\ Expanded
  BY <1>1 DEF BFSInv
<1>3. \A u : Neighbours(u)' = Neighbours(u)
  BY <1>1 DEF Neighbours, Row
<1>4. w \in Vertex /\ w \in Neighbours(node)
  BY <1>1, <1>2, NeighboursTyped DEF BFSTyped, MirrorInv, Tables
<1>5. CASE w \in marked
  <2>1. UNCHANGED <<q, marked, edge_to, dist_to>>
    BY <1>5 DEF BFSVisit
  <2>2. BFSTyped'
    BY <2>1, <1>1, <1>2, <1>3 DEF BFSTyped
  <2>3. TreeEdges' /\ QueueSorted'
    BY <2>1, <1>1, <1>2, <1>3 DEF TreeEdges, QueueSorted
  <2>4. Expanded'
    <3>1. dist_to[w] <= dist_to[node] + 1
      BY <1>5, <1>2 DEF QueueSorted
    <3> QED BY <3>1, <2>1, <1>1, <1>2, <1>3, <1>5 DEF Expanded, Queued
  <2> QED BY <2>2, <2>3, <2>4 DEF BFSInv
<1>6. CASE w \notin marked
  <2>1. /\ q' = Append(q, w) /\ marked' = marked \cup {w}
        /\ edge_to' = Assign(edge_to, w, node)
        /\ dist_to' = Assign(dist_to, w, dist_to[node] + 1)
    BY <1>6 DEF BFSVisit
  <2>2. /\ dist_to' \in [marked \cup {w} -> Nat]
        /\ dist_to'[w] = dist_to[node] + 1
        /\ \A u \in marked : dist_to'[u] = dist_to[u]
    <3>1. dist_to \in [marked -> Nat] /\ dist_to[node] + 1 \in Nat
      BY <1>2 DEF BFSTyped
    <3> DEFINE f == Assign(dist_to, w, dist_to[node] + 1)
    <3>2. /\ f \in [marked \cup {w} -> Nat] /\ f[w] = dist_to[node] + 1
          /\ \A u \in marked : u # w => f[u] = dist_to[u]
      BY <3>1 DEF Assign
    <3>3. dist_to' = f
      BY <2>1
    <3> HIDE DEF f
    <3> QED BY <3>2, <3>3, <1>6
  <2>3. /\ DOMAIN edge_to' = marked' \ {src'} /\ edge_to'[w] = node
        /\ \A u \in marked \ {src} : edge_to'[u] = edge_to[u]
    BY <2>1, <1>1, <1>2, <1>6 DEF Assign, BFSTyped
  <2>4. /\ Len(q) \in Nat /\ q' \in Seq(marked') /\ Len(q') = Len(q) + 1 /\ q'[Len(q')] = w
        /\ \A i \in 1..Len(q) : q'[i] = q[i] /\ q[i] \in marked
    <3>1. q \in Seq(marked') /\ w \in marked' /\ q \in Seq(marked)
      BY <2>1, <1>2 DEF BFSTyped
    <3> QED BY <3>1, <2>1
  <2>5. BFSTyped'
    BY <2>1, <2>2, <2>3, <2>4, <1>1, <1>2, <1>3, <1>4 DEF BFSTyped
  <2>6. TreeEdges'
    <3>1. ASSUME NEW u \in marked \ {src}
          PROVE  /\ edge_to'[u] \in marked' /\ u \in Neighbours(edge_to'[u])
                 /\ dist_to'[u] = dist_to'[edge_to'[u]] + 1
      BY <3>1, <2>1, <2>2, <2>3, <1>2 DEF TreeEdges
    <3>2. /\ edge_to'[w] \in marked' /\ w \in Neighbours(edge_to'[w])
          /\ dist_to'[w] = dist_to'[edge_to'[w]] + 1
      BY <2>1, <2>2, <2>3, <1>2, <1>4 DEF BFSTyped
    <3> QED BY <3>1, <3>2, <2>1, <1>1, <1>3 DEF TreeEdges
  <2>7. QueueSorted'
    <3>1. \A i \in 1..Len(q') : i = Len(q') \/ i \in 1..Len(q)
      BY <2>4
    <3>2. \A i \in 1..Len(q) : dist_to'[q'[i]] = dist_to[q[i]] /\ dist_to[q[i]] \in Nat
      BY <2>2, <2>4, <1>2 DEF BFSTyped
    <3>3. dist_to[node] \in Nat /\ dist_to'[node'] = dist_to[node]
          /\ dist_to'[q'[Len(q')]] = dist_to[node] + 1
      BY <2>2, <2>4, <1>1, <1>2 DEF BFSTyped
    <3>4. \A i \in 1..Len(q) : dist_to[node] <= dist_to[q[i]] /\ dist_to[q[i]] <= dist_to[node] + 1
      BY <2>4, <1>2 DEF QueueSorted
    <3>5. ASSUME NEW i \in 1..Len(q'), NEW j \in 1..Len(q'), i <= j
          PROVE  dist_to'[q'[i]] <= dist_to'[q'[j]]
      <4>1. CASE j = Len(q')
        BY <4>1, <3>1, <3>2, <3>3, <3>4
      <4>2. CASE j # Len(q')
        <5>1. i \in 1..Len(q) /\ j \in 1..Len(q)
          BY <4>2, <3>5, <2>4
        <5>2. dist_to[q[i]] <= dist_to[q[j]]
          BY <5>1, <3>5, <1>2 DEF QueueSorted
        <5> QED BY <5>1, <5>2, <3>2
      <4> QED BY <4>1, <4>2
    <3>6. \A i \in 1..Len(q') : dist_to'[node'] <= dist_to'[q'[i]]
      BY <3>1, <3>2, <3>3, <3>4
    <3>7. \A u \in marked' : dist_to'[u] <= dist_to'[node'] + 1
      BY <2>1, <2>2, <3>3, <1>2 DEF QueueSorted
    <3> QED BY <3>5, <3>6, <3>7 DEF QueueSorted
  <2>8. Expanded'
    <3>1. Queued(w)' /\ \A u : Queued(u) => Queued(u)'
      BY <2>4 DEF Queued
    <3>2. ASSUME NEW u \in marked, NEW x \in Neighbours(u), ~Queued(u)', ~(u = node /\ x \in todo')
          PROVE  x \in marked' /\ dist_to'[x] <= dist_to'[u] + 1
      <4>1. CASE u = node /\ x = w
        BY <4>1, <2>1, <2>2, <1>2 DEF BFSTyped
      <4>2. CASE ~(u = node /\ x = w)
        <5>1. x \in marked /\ dist_to[x] <= dist_to[u] + 1
          BY <4>2, <3>1, <3>2, <1>1, <1>2 DEF Expanded
        <5> QED BY <5>1, <2>1, <2>2
      <4> QED BY <4>1, <4>2
    <3> QED BY <3>1, <3>2, <2>1, <1>1, <1>3 DEF Expanded
  <2> QED BY <2>5, <2>6, <2>7, <2>8 DEF BFSInv
<1> QED BY <1>5, <1>6

LEMMA BFSInvHolds == GraphSpec => []BFSInv
<1>1. GraphInit => BFSInv
  BY DEF GraphInit, NoTraversal, BFSInv
<1>2. ASSUME MirrorInv, BFSInv, [GraphNext]_graphVars PROVE BFSInv'
  <2>1. CASE BFSPop
    BY <1>2, <2>1, BFSInvPop
  <2>2. CASE \E w \in Vertex : BFSVisit(w)
    BY <1>2, <2>2, BFSInvVisit
  <2>3. CASE \E v \in Asked[class] : BFSStart(v)
    <3>1. Asked[class] \subseteq Vertex
      BY <1>2, GraphAssumption DEF MirrorInv, Tables
    <3> QED BY <1>2, <2>3, <3>1, BFSInvStart
  <2>4. ASSUME task' # "bfs" PROVE BFSInv'
    BY <2>4 DEF BFSInv
  <2>5. CASE Return \/ CCStart \/ DFSReturn \/ \E v \in Vertex : CCRoot(v) \/ DFSCall(v)
    BY <2>5, <2>4 DEF Return, CCStart, DFSReturn, CCRoot, DFSCall, Counting
  <2>6. CASE Building
    BY <2>6, <2>4 DEF Building
  <2>7. CASE UNCHANGED graphVars
    <3>1. UNCHANGED <<adj, task, marked, src, q, node, todo, edge_to, dist_to>>
      BY <2>7 DEF graphVars, graph, bfsVars
    <3>2. \A u : Neighbours(u)' = Neighbours(u) /\ (Queued(u)' <=> Queued(u))
      BY <3>1 DEF Neighbours, Row, Queued
    <3> QED BY <1>2, <3>1, <3>2 DEF BFSInv, BFSTyped, TreeEdges, QueueSorted, Expanded
  <2>8. Use => Building \/ CCStart \/ \E v \in Asked[class] : BFSStart(v)
    BY DEF Use, AddUndirected, AddDirected, AddLeft, AddContinuous, Resize, V, Reset, Reverse,
           Reload, Adjacent, IsConnected, ReverseAdjacent, GetWgt
  <2> QED BY <1>2, <2>1, <2>2, <2>3, <2>5, <2>6, <2>7, <2>8 DEF GraphNext, Traverse
<1> QED BY <1>1, <1>2, MirrorInvHolds, PTL DEF GraphSpec

\* The tree of edge_to holds a walk of dist_to[w] edges from src to w.
LEMMA TreeWalks ==
  ASSUME BFSTyped, TreeEdges, NEW w \in marked
  PROVE  Walk(dist_to[w], src, w)
<1> DEFINE S == {n \in Nat : \A u \in marked : dist_to[u] = n => Walk(n, src, u)}
<1>1. 0 \in S
  <2>1. ASSUME NEW u \in marked, dist_to[u] = 0 PROVE Walk(0, src, u)
    <3>1. u = src
      <4> SUFFICES ASSUME u # src PROVE FALSE OBVIOUS
      <4>1. edge_to[u] \in marked /\ dist_to[u] = dist_to[edge_to[u]] + 1
        BY <2>1 DEF TreeEdges
      <4>2. dist_to[edge_to[u]] \in Nat
        BY <4>1 DEF BFSTyped
      <4> QED BY <4>1, <4>2, <2>1
    <3> DEFINE p == [i \in 0..0 |-> src]
    <3>2. p \in [0..0 -> Vertex] /\ p[0] = src
      BY DEF BFSTyped
    <3>3. IsWalk(p, 0, src, src)
      BY <3>2 DEF IsWalk
    <3> QED BY <3>1, <3>2, <3>3 DEF Walk
  <2> QED BY <2>1
<1>2. ASSUME NEW n \in Nat, n \in S PROVE n + 1 \in S
  <2>1. ASSUME NEW u \in marked, dist_to[u] = n + 1 PROVE Walk(n + 1, src, u)
    <3>1. u # src /\ dist_to[u] \in Nat
      BY <2>1 DEF BFSTyped
    <3> DEFINE x == edge_to[u]
    <3>2. x \in marked /\ u \in Neighbours(x) /\ dist_to[x] = n
      BY <2>1, <3>1 DEF TreeEdges, BFSTyped
    <3>3. PICK p \in [0..n -> Vertex] : IsWalk(p, n, src, x)
      BY <1>2, <3>2 DEF Walk
    <3> HIDE DEF x
    <3> DEFINE r == [i \in 0..(n + 1) |-> IF i = n + 1 THEN u ELSE p[i]]
    <3>4. r \in [0..(n + 1) -> Vertex]
      BY <2>1 DEF BFSTyped
    <3>5. r[0] = src /\ r[n + 1] = u
      BY <3>3 DEF IsWalk
    <3>6. ASSUME NEW i \in 0..((n + 1) - 1) PROVE r[i + 1] \in Neighbours(r[i])
      <4>1. CASE i = n
        <5>1. r[i + 1] = u /\ r[i] = p[n] /\ p[n] = x
          BY <4>1, <3>3 DEF IsWalk
        <5> QED BY <5>1, <3>2
      <4>2. CASE i # n
        <5>1. i \in 0..(n - 1) /\ r[i + 1] = p[i + 1] /\ r[i] = p[i]
          BY <4>2
        <5> QED BY <5>1, <3>3 DEF IsWalk
      <4> QED BY <4>1, <4>2
    <3> HIDE DEF r
    <3>7. IsWalk(r, n + 1, src, u)
      BY <3>5, <3>6 DEF IsWalk
    <3> QED BY <3>4, <3>7 DEF Walk
  <2> QED BY <2>1
<1> HIDE DEF S
<1>3. \A n \in Nat : n \in S
  BY <1>1, <1>2, SetInduction
<1>4. dist_to[w] \in Nat
  BY DEF BFSTyped
<1>5. dist_to[w] \in S
  BY <1>3, <1>4
<1> QED BY <1>5 DEF S

\* When the queue is empty no walk from src is shorter than the distance of its
\* end.
LEMMA NoShorterWalk ==
  ASSUME BFSTyped, Expanded, BFSDone, NEW n \in Nat, NEW w, Walk(n, src, w)
  PROVE  w \in marked /\ dist_to[w] <= n
<1>1. PICK p \in [0..n -> Vertex] : IsWalk(p, n, src, w)
  BY DEF Walk
<1>2. ASSUME NEW u \in marked, NEW x \in Neighbours(u)
      PROVE  x \in marked /\ dist_to[x] <= dist_to[u] + 1
  <2>1. ~Queued(u) /\ todo = {}
    BY DEF BFSDone, Queued
  <2> QED BY <2>1, <1>2 DEF Expanded
<1> DEFINE S == {i \in Nat : i <= n => p[i] \in marked /\ dist_to[p[i]] <= i}
<1>3. 0 \in S
  BY <1>1 DEF IsWalk, BFSTyped
<1>4. ASSUME NEW i \in Nat, i \in S PROVE i + 1 \in S
  <2> SUFFICES ASSUME i + 1 <= n
               PROVE  p[i + 1] \in marked /\ dist_to[p[i + 1]] <= i + 1
    OBVIOUS
  <2>1. p[i] \in marked /\ dist_to[p[i]] <= i
    BY <1>4
  <2>2. p[i + 1] \in Neighbours(p[i])
    BY <1>1 DEF IsWalk
  <2>3. p[i + 1] \in marked /\ dist_to[p[i + 1]] <= dist_to[p[i]] + 1
    BY <1>2, <2>1, <2>2
  <2>4. dist_to[p[i]] \in Nat /\ dist_to[p[i + 1]] \in Nat
    BY <2>1, <2>3 DEF BFSTyped
  <2> QED BY <2>1, <2>3, <2>4
<1> HIDE DEF S
<1>5. n \in S
  BY <1>3, <1>4, SetInduction
<1> QED BY <1>1, <1>5 DEF S, IsWalk

LEMMA ShortestFromInv == BFSInv => ShortestPaths
<1> SUFFICES ASSUME BFSInv, BFSDone
             PROVE  /\ \A w \in Vertex : \A n \in 0 .. (N - 1) :
                         Walk(n, src, w) => w \in marked /\ dist_to[w] <= n
                    /\ \A w \in marked : Walk(dist_to[w], src, w)
                    /\ \A w \in marked \ {src} :
                         w \in Neighbours(edge_to[w]) /\ dist_to[w] = dist_to[edge_to[w]] + 1
  BY DEF ShortestPaths
<1>1. BFSTyped /\ TreeEdges /\ Expanded
  BY DEF BFSInv, BFSDone
<1>2. \A n \in 0 .. (N - 1) : n \in Nat
  BY GraphAssumption
<1> QED BY <1>1, <1>2, TreeWalks, NoShorterWalk DEF TreeEdges

\* When BFS is done, what it has visited is what can be reached from src, dist()
\* is the length of a shortest walk, and edgeTo() is the last step of one, in
\* whatever order the hash tables give the neighbours.
THEOREM BFSShortest == GraphSpec => []ShortestPaths
BY BFSInvHolds, ShortestFromInv, PTL

-----------------------------------------------------------------------------
(***************************************************************************)
(* connected_components.                                                   *)
(***************************************************************************)
Busy == stack # <<>>
Frames == [v : Vertex, todo : SUBSET Vertex]

CCTyped ==
  /\ marked \subseteq DOMAIN identifier /\ DOMAIN identifier \subseteq Vertex
  /\ count \in Nat /\ stack \in Seq(Frames) /\ vertexes \subseteq Vertex
  /\ \A i \in 1..Len(stack) : /\ stack[i].v \in marked
                              /\ stack[i].todo \subseteq Neighbours(stack[i].v)
  /\ DOMAIN adj \subseteq vertexes \cup DOMAIN identifier
  /\ \A u \in DOMAIN identifier : identifier[u] \in 0..count

\* The DFS in progress gives the identifier `count', and nobody else has it.
Current == \A u \in DOMAIN identifier : identifier[u] = count <=> Busy /\ u \in marked

Rooted ==
  \A c \in Nat : \E r \in Vertex :
    \A u \in DOMAIN identifier : identifier[u] = c => Reaches(r, u)

Pending ==
  Busy => \A u \in marked : \A w \in Neighbours(u) :
            \/ w \in marked
            \/ \E i \in 1..Len(stack) : stack[i].v = u /\ w \in stack[i].todo

\* The components found so far are closed.
Apart ==
  class = "undirected" =>
    \A u \in DOMAIN identifier : ~(Busy /\ u \in marked) =>
      \A w \in Neighbours(u) : w \in DOMAIN identifier /\ identifier[w] = identifier[u]

CCInv ==
  /\ task = "cc" => CCTyped /\ Current /\ Rooted /\ Pending /\ Apart
  /\ task # "cc" => stack = <<>> /\ identifier = Empty /\ count = 0
  /\ task = "idle" => marked = {}

LEMMA ReachesSelf == \A u : Reaches(u, u)
BY DEF Reaches

LEMMA ReachesStep ==
  ASSUME NEW r, NEW u, Reaches(r, u), NEW w \in Neighbours(u)
  PROVE  Reaches(r, w)
BY DEF Reaches, Closed

LEMMA NeighboursSymmetric ==
  ASSUME MirrorInv, class = "undirected", NEW a \in Vertex, NEW b \in Neighbours(a)
  PROVE  b \in Vertex /\ a \in Neighbours(b)
<1>1. Table(adj)
  BY DEF MirrorInv, Tables, Dicts, Classes
<1>2. a \in DOMAIN adj /\ b \in DOMAIN adj[a]
  BY DEF Neighbours, Row, Empty
<1>3. b \in Vertex /\ adj[a][b] \in Weights /\ EdgeIs(adj, a, b, adj[a][b])
  BY <1>1, <1>2 DEF Table, EdgeIs, Edge
<1>4. EdgeIs(adj, b, a, adj[a][b])
  BY <1>3 DEF MirrorInv, Converse
<1> QED BY <1>3, <1>4 DEF EdgeIs, Edge, Neighbours, Row

\* In an undirected graph the vertices outside a closed set are a closed set.
LEMMA ReachesBack ==
  ASSUME MirrorInv, class = "undirected",
         NEW u \in Vertex, NEW w \in Vertex, Reaches(u, w)
  PROVE  Reaches(w, u)
<1> SUFFICES ASSUME NEW S \in SUBSET Vertex, w \in S, Closed(S), u \notin S PROVE FALSE
  BY DEF Reaches
<1> DEFINE T == Vertex \ S
<1>1. Closed(T)
  <2> SUFFICES ASSUME NEW a \in T, NEW b \in Neighbours(a) PROVE b \in T
    BY DEF Closed
  <2>1. b \in Vertex /\ a \in Neighbours(b)
    BY NeighboursSymmetric
  <2> QED BY <2>1 DEF Closed
<1>2. w \in T
  BY <1>1 DEF Reaches
<1> QED BY <1>2

LEMMA CCInvStart ==
  ASSUME MirrorInv, CCInv, CCStart
  PROVE  CCInv'
<1>1. /\ task = "idle" /\ task' = "cc" /\ vertexes' = DOMAIN adj /\ adj' = adj
      /\ UNCHANGED <<marked, stack, identifier, count>> /\ class \in Dicts
  BY DEF CCStart, graph, Dicts, Classes
<1>2. /\ stack' = <<>> /\ identifier' = Empty /\ count' = 0 /\ marked' = {} /\ DOMAIN identifier' = {}
  BY <1>1, EmptyTable DEF CCInv
<1>3. DOMAIN adj \subseteq Vertex
  BY <1>1 DEF MirrorInv, Tables, Table
<1>4. 0 \in Vertex
  BY GraphAssumption DEF Vertex
<1>5. stack' \in Seq(Frames) /\ Len(stack') = 0
  BY <1>2
<1>6. CCTyped'
  BY <1>1, <1>2, <1>3, <1>5 DEF CCTyped
<1>7. Rooted'
  BY <1>2, <1>4 DEF Rooted
<1>8. Current' /\ Pending' /\ Apart'
  BY <1>2 DEF Current, Pending, Apart, Busy
<1> QED BY <1>1, <1>6, <1>7, <1>8 DEF CCInv

\* What the steps of connected_components leave alone.
LEMMA CountingKeeps ==
  ASSUME Counting
  PROVE  /\ task = "cc" /\ task' = "cc" /\ adj' = adj /\ class' = class
         /\ \A u : Neighbours(u)' = Neighbours(u)
         /\ \A u, w : Reaches(u, w)' <=> Reaches(u, w)
<1>1. /\ task = "cc" /\ task' = "cc" /\ adj' = adj /\ class' = class
  BY DEF Counting, graph
<1>2. \A u : Neighbours(u)' = Neighbours(u)
  BY <1>1 DEF Neighbours, Row
<1>3. \A S : Closed(S)' <=> Closed(S)
  BY <1>2 DEF Closed
<1> QED BY <1>1, <1>2, <1>3 DEF Reaches

\* identifier[w] = count.
LEMMA AssignId ==
  ASSUME NEW w, identifier' = Assign(identifier, w, count)
  PROVE  /\ DOMAIN identifier' = DOMAIN identifier \cup {w}
         /\ identifier'[w] = count
         /\ \A u \in DOMAIN identifier : u # w => identifier'[u] = identifier[u]
BY DEF Assign

LEMMA FrameTyped ==
  ASSUME MirrorInv, class \in Dicts, NEW v \in Vertex
  PROVE  /\ Frame(v) \in Frames /\ Frame(v).v = v /\ Frame(v).todo = Neighbours(v)
BY NeighboursTyped DEF Frame, Frames, MirrorInv

LEMMA CCInvRoot ==
  ASSUME MirrorInv, CCInv, NEW v \in Vertex, CCRoot(v)
  PROVE  CCInv'
<1>1. /\ stack = <<>> /\ v \in vertexes /\ vertexes' = vertexes \ {v} /\ count' = count /\ Counting
  BY DEF CCRoot
<1>2. /\ task = "cc" /\ task' = "cc" /\ adj' = adj /\ class' = class
      /\ \A u : Neighbours(u)' = Neighbours(u)
      /\ \A u, w : Reaches(u, w)' <=> Reaches(u, w)
  BY <1>1, CountingKeeps
<1>3. CCTyped /\ Current /\ Rooted /\ Pending /\ Apart
  BY <1>2 DEF CCInv
<1>4. CASE v \in DOMAIN identifier
  <2>1. UNCHANGED <<marked, stack, identifier>>
    BY <1>4 DEF CCRoot
  <2>2. CCTyped'
    BY <2>1, <1>1, <1>2, <1>3, <1>4 DEF CCTyped
  <2>3. Current' /\ Pending' /\ Apart'
    BY <2>1, <1>1, <1>2, <1>3 DEF Current, Pending, Apart, Busy
  <2>4. Rooted'
    BY <2>1, <1>2, <1>3 DEF Rooted
  <2> QED BY <2>2, <2>3, <2>4, <1>2 DEF CCInv
<1>5. CASE v \notin DOMAIN identifier
  <2>1. marked' = {v} /\ stack' = <<Frame(v)>> /\ identifier' = Assign(identifier, v, count)
    BY <1>5 DEF CCRoot
  <2>2. /\ DOMAIN identifier' = DOMAIN identifier \cup {v}
        /\ identifier'[v] = count
        /\ \A u \in DOMAIN identifier : identifier'[u] = identifier[u]
    BY <2>1, <1>5, AssignId
  <2>3. Frame(v) \in Frames /\ Frame(v).v = v /\ Frame(v).todo = Neighbours(v)
    BY <1>2, FrameTyped DEF MirrorInv, Tables
  <2>4. stack' \in Seq(Frames) /\ Len(stack') = 1 /\ stack'[1] = Frame(v)
    BY <2>1, <2>3
  <2>5. Busy' /\ ~Busy
    <3>1. stack' # <<>>
      BY <2>1
    <3> QED BY <1>1, <3>1 DEF Busy
  <2>6. \A u \in DOMAIN identifier : identifier[u] # count
    BY <1>3, <2>5 DEF Current
  <2>7. CCTyped'
    BY <1>1, <1>2, <1>3, <2>1, <2>2, <2>3, <2>4 DEF CCTyped
  <2>8. Current'
    BY <1>1, <2>1, <2>2, <2>5, <2>6 DEF Current
  <2>9. Rooted'
    <3>1. ASSUME NEW c \in Nat
          PROVE  \E r \in Vertex : \A u \in DOMAIN identifier' : identifier'[u] = c => Reaches(r, u)
      <4>1. CASE c = count
        BY <4>1, <2>2, <2>6, ReachesSelf
      <4>2. CASE c # count
        <5>1. PICK r \in Vertex : \A u \in DOMAIN identifier : identifier[u] = c => Reaches(r, u)
          BY <1>3 DEF Rooted
        <5> QED BY <5>1, <4>2, <2>2
      <4> QED BY <4>1, <4>2
    <3> QED BY <3>1, <1>2 DEF Rooted
  <2>10. Pending'
    <3>1. ASSUME NEW w \in Neighbours(v)
          PROVE  \E i \in 1..Len(stack') : stack'[i].v = v /\ w \in stack'[i].todo
      BY <3>1, <2>3, <2>4
    <3> QED BY <3>1, <2>1, <1>2 DEF Pending
  <2>11. Apart'
    BY <1>2, <1>3, <2>1, <2>2, <2>5 DEF Apart
  <2> QED BY <2>7, <2>8, <2>9, <2>10, <2>11, <1>2 DEF CCInv
<1> QED BY <1>4, <1>5

LEMMA CCInvCall ==
  ASSUME MirrorInv, CCInv, NEW w \in Vertex, DFSCall(w)
  PROVE  CCInv'
<1> DEFINE L == Len(stack)
           rest == SetTop([Top EXCEPT !.todo = @ \ {w}])
<1>1. /\ stack # <<>> /\ w \in Top.todo /\ vertexes' = vertexes /\ count' = count /\ Counting
  BY DEF DFSCall
<1>2. /\ task = "cc" /\ task' = "cc" /\ adj' = adj /\ class' = class
      /\ \A u : Neighbours(u)' = Neighbours(u)
      /\ \A u, x : Reaches(u, x)' <=> Reaches(u, x)
  BY <1>1, CountingKeeps
<1>3. CCTyped /\ Current /\ Rooted /\ Pending /\ Apart
  BY <1>2 DEF CCInv
<1>4. L \in Nat \ {0} /\ Top = stack[L] /\ Top \in Frames /\ stack \in Seq(Frames)
  BY <1>1, <1>3 DEF CCTyped, Top
<1>5. /\ rest \in Seq(Frames) /\ Len(rest) = L
      /\ rest[L].v = Top.v /\ rest[L].todo = Top.todo \ {w}
      /\ \A i \in 1..L : i # L => rest[i] = stack[i]
  <2>1. [Top EXCEPT !.todo = @ \ {w}] \in Frames
    BY <1>4 DEF Frames
  <2> QED BY <1>4, <2>1 DEF SetTop, Frames
<1>6. Top.v \in marked /\ Top.v \in Vertex /\ w \in Neighbours(Top.v)
  BY <1>1, <1>3, <1>4 DEF CCTyped
<1>7. Busy
  BY <1>1 DEF Busy
<1> HIDE DEF rest
<1>8. CASE w \in marked
  <2>1. stack' = rest /\ UNCHANGED <<marked, identifier>>
    BY <1>8 DEF DFSCall, rest
  <2>2. Busy'
    BY <2>1, <1>4, <1>5 DEF Busy
  <2>3. CCTyped'
    <3>1. ASSUME NEW i \in 1..L
          PROVE  rest[i].v \in marked /\ rest[i].todo \subseteq Neighbours(rest[i].v)
      <4>1. CASE i = L
        BY <4>1, <1>3, <1>4, <1>5 DEF CCTyped
      <4>2. CASE i # L
        BY <4>2, <1>3, <1>5 DEF CCTyped
      <4> QED BY <4>1, <4>2
    <3> QED BY <3>1, <2>1, <1>1, <1>2, <1>3, <1>5 DEF CCTyped
  <2>4. Current' /\ Rooted' /\ Apart'
    BY <2>1, <2>2, <1>1, <1>2, <1>3, <1>7 DEF Current, Rooted, Apart
  <2>5. Pending'
    <3>1. ASSUME NEW u \in marked, NEW x \in Neighbours(u), x \notin marked
          PROVE  \E i \in 1..Len(rest) : rest[i].v = u /\ x \in rest[i].todo
      <4>1. PICK i \in 1..L : stack[i].v = u /\ x \in stack[i].todo
        BY <3>1, <1>3, <1>7 DEF Pending
      <4>2. rest[i].v = u /\ x \in rest[i].todo
        BY <4>1, <3>1, <1>4, <1>5, <1>8
      <4> QED BY <4>2, <1>5
    <3> QED BY <3>1, <2>1, <1>2 DEF Pending
  <2> QED BY <2>3, <2>4, <2>5, <1>2 DEF CCInv
<1>9. CASE w \notin marked
  <2>1. /\ stack' = Append(rest, Frame(w)) /\ marked' = marked \cup {w}
        /\ identifier' = Assign(identifier, w, count)
    BY <1>9 DEF DFSCall, rest
  <2>2. /\ DOMAIN identifier' = DOMAIN identifier \cup {w}
        /\ identifier'[w] = count
        /\ \A u \in DOMAIN identifier : u # w => identifier'[u] = identifier[u]
    BY <2>1, AssignId
  <2>3. Frame(w) \in Frames /\ Frame(w).v = w /\ Frame(w).todo = Neighbours(w)
    BY <1>2, FrameTyped DEF MirrorInv, Tables
  <2>4. /\ stack' \in Seq(Frames) /\ Len(stack') = L + 1 /\ stack'[L + 1] = Frame(w)
        /\ \A i \in 1..L : stack'[i] = rest[i]
    BY <2>1, <2>3, <1>4, <1>5
  <2>5. Busy'
    BY <2>4, <1>4 DEF Busy
  <2>6. CCTyped'
    <3>1. ASSUME NEW i \in 1..Len(stack')
          PROVE  stack'[i].v \in marked' /\ stack'[i].todo \subseteq Neighbours(stack'[i].v)
      <4>1. CASE i = L + 1
        BY <4>1, <2>1, <2>3, <2>4
      <4>2. CASE i = L
        BY <4>2, <2>1, <2>4, <1>3, <1>4, <1>5, SMTT(30) DEF CCTyped
      <4>3. CASE i # L /\ i # L + 1
        <5>1. i \in 1..L /\ stack'[i] = stack[i]
          BY <4>3, <2>4, <1>4, <1>5
        <5> QED BY <5>1, <2>1, <1>3 DEF CCTyped
      <4> QED BY <4>1, <4>2, <4>3
    <3>2. \A u \in DOMAIN identifier' : identifier'[u] \in 0..count'
      BY <2>2, <1>1, <1>3 DEF CCTyped
    <3> QED BY <3>1, <3>2, <2>1, <2>2, <2>4, <1>1, <1>2, <1>3 DEF CCTyped
  <2>7. Current'
    BY <2>1, <2>2, <2>5, <1>1, <1>3, <1>7 DEF Current
  <2>8. Rooted'
    <3>1. ASSUME NEW c \in Nat
          PROVE  \E r \in Vertex : \A u \in DOMAIN identifier' : identifier'[u] = c => Reaches(r, u)
      <4>1. PICK r \in Vertex : \A u \in DOMAIN identifier : identifier[u] = c => Reaches(r, u)
        BY <1>3 DEF Rooted
      <4>2. c = count => Reaches(r, w)
        <5>1. Top.v \in DOMAIN identifier /\ identifier[Top.v] = count
          BY <1>3, <1>6, <1>7 DEF Current, CCTyped
        <5> QED BY <5>1, <4>1, <1>6, ReachesStep
      <4> QED BY <4>1, <4>2, <2>2
    <3> QED BY <3>1, <1>2 DEF Rooted
  <2>9. Pending'
    <3>1. ASSUME NEW u \in marked', NEW x \in Neighbours(u), x \notin marked'
          PROVE  \E i \in 1..Len(stack') : stack'[i].v = u /\ x \in stack'[i].todo
      <4>1. CASE u = w
        <5>1. L + 1 \in 1..Len(stack')
          BY <2>4, <1>4
        <5> QED BY <5>1, <4>1, <3>1, <2>3, <2>4
      <4>2. CASE u # w
        <5>1. u \in marked /\ x \notin marked /\ x # w
          BY <4>2, <3>1, <2>1
        <5>2. PICK i \in 1..L : stack[i].v = u /\ x \in stack[i].todo
          BY <5>1, <3>1, <1>3, <1>7 DEF Pending
        <5>3. rest[i].v = u /\ x \in rest[i].todo
          BY <5>1, <5>2, <1>4, <1>5
        <5>4. i \in 1..Len(stack') /\ stack'[i] = rest[i]
          BY <2>4, <1>4
        <5> QED BY <5>3, <5>4
      <4> QED BY <4>1, <4>2
    <3> QED BY <3>1, <1>2 DEF Pending
  <2>10. Apart'
    <3> SUFFICES ASSUME class = "undirected",
                        NEW u \in DOMAIN identifier', u \notin marked',
                        NEW x \in Neighbours(u)
                 PROVE  x \in DOMAIN identifier' /\ identifier'[x] = identifier'[u]
      BY <2>5, <1>2 DEF Apart
    <3>1. w \notin DOMAIN identifier
      <4> SUFFICES ASSUME w \in DOMAIN identifier PROVE FALSE OBVIOUS
      <4>1. Top.v \in Neighbours(w)
        BY <1>6, NeighboursSymmetric
      <4>2. identifier[Top.v] = identifier[w]
        BY <4>1, <1>3, <1>9 DEF Apart
      <4>3. identifier[Top.v] = count /\ identifier[w] # count
        BY <1>3, <1>6, <1>7, <1>9 DEF Current, CCTyped
      <4> QED BY <4>2, <4>3
    <3>2. u \in DOMAIN identifier /\ u \notin marked /\ u # w
      BY <2>1, <2>2
    <3>3. x \in DOMAIN identifier /\ identifier[x] = identifier[u]
      BY <3>2, <1>3 DEF Apart
    <3> QED BY <3>1, <3>2, <3>3, <2>2
  <2> QED BY <2>6, <2>7, <2>8, <2>9, <2>10, <1>2 DEF CCInv
<1> QED BY <1>8, <1>9

LEMMA CCInvReturn ==
  ASSUME MirrorInv, CCInv, DFSReturn
  PROVE  CCInv'
<1> DEFINE L == Len(stack)
<1>1. /\ stack # <<>> /\ Top.todo = {} /\ stack' = SubSeq(stack, 1, L - 1)
      /\ count' = (IF L = 1 THEN count + 1 ELSE count) /\ Counting
      /\ UNCHANGED <<marked, vertexes, identifier>>
  BY DEF DFSReturn
<1>2. /\ task = "cc" /\ task' = "cc" /\ adj' = adj /\ class' = class
      /\ \A u : Neighbours(u)' = Neighbours(u)
      /\ \A u, x : Reaches(u, x)' <=> Reaches(u, x)
  BY <1>1, CountingKeeps
<1>3. CCTyped /\ Current /\ Rooted /\ Pending /\ Apart
  BY <1>2 DEF CCInv
<1>4. L \in Nat \ {0} /\ Top = stack[L] /\ stack \in Seq(Frames)
  BY <1>1, <1>3 DEF CCTyped, Top
<1>5. /\ stack' \in Seq(Frames) /\ Len(stack') = L - 1
      /\ \A i \in 1..(L - 1) : stack'[i] = stack[i]
  <2> DEFINE t == SubSeq(stack, 1, L - 1)
  <2>1. \A i \in 1..(L - 1) : stack[i] \in Frames
    BY <1>4
  <2>2. /\ t \in Seq(Frames) /\ Len(t) = (IF 1 <= L - 1 THEN (L - 1) - 1 + 1 ELSE 0)
        /\ \A i \in 1..((L - 1) - 1 + 1) : t[i] = stack[1 + i - 1]
    BY <2>1, <1>4, SubSeqProperties
  <2>3. stack' = t
    BY <1>1
  <2> HIDE DEF t
  <2> QED BY <2>2, <2>3, <1>4
<1>6. Busy /\ (Busy' <=> L # 1)
  <2>1. L - 1 \in Nat /\ (stack' = <<>> <=> Len(stack') = 0)
    BY <1>4, <1>5
  <2> QED BY <1>1, <1>4, <1>5, <2>1 DEF Busy
<1>7. CCTyped'
  <2>1. \A i \in 1..Len(stack') : i \in 1..L /\ stack'[i] = stack[i]
    BY <1>4, <1>5
  <2>2. count' \in Nat /\ count <= count'
    BY <1>1, <1>3 DEF CCTyped
  <2> QED BY <2>1, <2>2, <1>1, <1>2, <1>3, <1>5 DEF CCTyped
<1>8. Rooted'
  BY <1>1, <1>2, <1>3 DEF Rooted
<1>9. \A u \in marked : \A w \in Neighbours(u) :
         w \in marked \/ \E i \in 1..(L - 1) : stack[i].v = u /\ w \in stack[i].todo
  <2> SUFFICES ASSUME NEW u \in marked, NEW w \in Neighbours(u), w \notin marked
               PROVE  \E i \in 1..(L - 1) : stack[i].v = u /\ w \in stack[i].todo
    OBVIOUS
  <2>1. PICK i \in 1..L : stack[i].v = u /\ w \in stack[i].todo
    BY <1>3, <1>6 DEF Pending
  <2>2. i # L
    BY <2>1, <1>1, <1>4
  <2>3. i \in 1..(L - 1)
    BY <2>2, <1>4
  <2> QED BY <2>1, <2>3
<1>10. Pending'
  BY <1>1, <1>2, <1>5, <1>9 DEF Pending
<1>11. Current'
  BY <1>1, <1>3, <1>6 DEF Current, CCTyped
<1>12. Apart'
  <2> SUFFICES ASSUME class = "undirected",
                      NEW u \in DOMAIN identifier, ~(Busy' /\ u \in marked),
                      NEW w \in Neighbours(u)
               PROVE  w \in DOMAIN identifier /\ identifier[w] = identifier[u]
    BY <1>1, <1>2 DEF Apart
  <2>1. CASE u \in marked
    <3>1. L = 1
      BY <2>1, <1>6
    <3>2. w \in marked
      BY <3>1, <2>1, <1>9
    <3> QED BY <3>2, <2>1, <1>3, <1>6 DEF Current, CCTyped
  <2>2. CASE u \notin marked
    BY <2>2, <1>3 DEF Apart
  <2> QED BY <2>1, <2>2
<1> QED BY <1>2, <1>7, <1>8, <1>10, <1>11, <1>12 DEF CCInv

LEMMA CCInvHolds == GraphSpec => []CCInv
<1>1. GraphInit => CCInv
  BY DEF GraphInit, NoTraversal, CCInv
<1>2. ASSUME MirrorInv, CCInv, [GraphNext]_graphVars PROVE CCInv'
  <2>1. CASE CCStart
    BY <1>2, <2>1, CCInvStart
  <2>2. CASE \E v \in Vertex : CCRoot(v)
    BY <1>2, <2>2, CCInvRoot
  <2>3. CASE \E w \in Vertex : DFSCall(w)
    BY <1>2, <2>3, CCInvCall
  <2>4. CASE DFSReturn
    BY <1>2, <2>4, CCInvReturn
  <2>5. CASE Return
    BY <2>5 DEF Return, CCInv
  <2>6. CASE BFSPop \/ \E v \in Vertex : BFSVisit(v)
    <3>1. task = "bfs" /\ task' = "bfs" /\ UNCHANGED ccVars
      BY <2>6 DEF BFSPop, BFSVisit, Searching
    <3> QED BY <1>2, <3>1 DEF CCInv, ccVars
  <2>7. CASE \E v \in Asked[class] : BFSStart(v)
    <3>1. task = "idle" /\ task' = "bfs" /\ UNCHANGED ccVars
      BY <2>7 DEF BFSStart
    <3> QED BY <1>2, <3>1 DEF CCInv, ccVars
  <2>8. CASE Building
    <3>1. task = "idle" /\ task' = task /\ marked' = marked /\ UNCHANGED ccVars
      BY <2>8 DEF Building
    <3> QED BY <1>2, <3>1 DEF CCInv, ccVars
  <2>9. CASE UNCHANGED graphVars
    <3>1. UNCHANGED <<class, adj, task, marked, vertexes, stack, identifier, count>>
      BY <2>9 DEF graphVars, graph, ccVars
    <3>2. \A u : Neighbours(u)' = Neighbours(u)
      BY <3>1 DEF Neighbours, Row
    <3>3. \A S : Closed(S)' <=> Closed(S)
      BY <3>2 DEF Closed
    <3>4. \A u, w : Reaches(u, w)' <=> Reaches(u, w)
      BY <3>3 DEF Reaches
    <3>5. Busy' <=> Busy
      BY <3>1 DEF Busy
    <3>6. CCTyped' <=> CCTyped
      BY <3>1, <3>2 DEF CCTyped
    <3>7. Rooted' <=> Rooted
      BY <3>1, <3>4 DEF Rooted
    <3>8. (Current' <=> Current) /\ (Pending' <=> Pending) /\ (Apart' <=> Apart)
      BY <3>1, <3>2, <3>5 DEF Current, Pending, Apart
    <3> QED BY <1>2, <3>1, <3>6, <3>7, <3>8 DEF CCInv
  <2>10. Use => Building \/ CCStart \/ \E v \in Asked[class] : BFSStart(v)
    BY DEF Use, AddUndirected, AddDirected, AddLeft, AddContinuous, Resize, V, Reset, Reverse,
           Reload, Adjacent, IsConnected, ReverseAdjacent, GetWgt
  <2> QED BY <1>2, <2>1, <2>2, <2>3, <2>4, <2>5, <2>6, <2>7, <2>8, <2>9, <2>10
          DEF GraphNext, Traverse
<1> QED BY <1>1, <1>2, MirrorInvHolds, PTL DEF GraphSpec

LEMMA ComponentsFromInv == MirrorInv /\ CCInv => Components
<1> SUFFICES ASSUME MirrorInv, CCInv, CCDone
             PROVE  /\ \A v \in DOMAIN adj : v \in DOMAIN identifier
                    /\ \A v \in DOMAIN identifier : identifier[v] \in 0 .. (count - 1)
                    /\ \A v, w \in DOMAIN identifier :
                         IF class = "undirected"
                         THEN identifier[v] = identifier[w] <=> Reaches(v, w)
                         ELSE identifier[v] = identifier[w] =>
                                \E u \in Vertex : Reaches(u, v) /\ Reaches(u, w)
  BY DEF Components
<1>1. CCTyped /\ Current /\ Rooted /\ Apart /\ ~Busy /\ vertexes = {}
  BY DEF CCInv, CCDone, Busy
<1>2. \A v \in DOMAIN adj : v \in DOMAIN identifier
  BY <1>1 DEF CCTyped
<1>3. \A v \in DOMAIN identifier : identifier[v] \in 0 .. (count - 1) /\ identifier[v] \in Nat
  BY <1>1 DEF CCTyped, Current
<1>4. ASSUME NEW v \in DOMAIN identifier, NEW w \in DOMAIN identifier, identifier[v] = identifier[w]
      PROVE  \E u \in Vertex : Reaches(u, v) /\ Reaches(u, w)
  BY <1>1, <1>3, <1>4 DEF Rooted
<1>5. ASSUME class = "undirected", NEW v \in DOMAIN identifier, NEW w \in DOMAIN identifier
      PROVE  identifier[v] = identifier[w] <=> Reaches(v, w)
  <2>1. ASSUME identifier[v] = identifier[w] PROVE Reaches(v, w)
    <3>1. PICK u \in Vertex : Reaches(u, v) /\ Reaches(u, w)
      BY <2>1, <1>4
    <3>2. Reaches(v, u)
      BY <3>1, <1>1, <1>5, ReachesBack DEF CCTyped
    <3> QED BY <3>1, <3>2 DEF Reaches
  <2>2. ASSUME Reaches(v, w) PROVE identifier[v] = identifier[w]
    <3> DEFINE S == {u \in DOMAIN identifier : identifier[u] = identifier[v]}
    <3>1. S \in SUBSET Vertex /\ v \in S
      BY <1>1 DEF CCTyped
    <3>2. Closed(S)
      BY <1>1, <1>5 DEF Closed, Apart
    <3>3. w \in S
      BY <2>2, <3>1, <3>2 DEF Reaches
    <3> QED BY <3>3
  <2> QED BY <2>1, <2>2
<1> QED BY <1>2, <1>3, <1>4, <1>5

\* When connected_components is done, two vertices of an undirected graph have
\* the same identifier exactly when one reaches the other, and in a digraph
\* vertices with the same identifier are reached from one vertex, in whatever
\* order the hash tables give vertices and neighbours.
THEOREM ComponentsFound == GraphSpec => []Components
BY MirrorInvHolds, CCInvHolds, ComponentsFromInv, PTL
=============================================================================
