---------------------------- MODULE MCContainers -----------------------------
(* The two data structures that a process keeps for itself: the ring of the   *)
(* client, with all hash functions without a collision and those onto two     *)
(* values, or a graph.                                                        *)
EXTENDS Ring, Graph, Functions

MCHashFuncs == Injection(Points, Hashes) \cup [Points -> {1, 4}]

\* Bound: every undirected graph of four vertices, of one weight; digraphs of
\* three vertices, where two edges come with either weight.
MCInput ==
  [c \in Classes |->
     CASE c = "undirected" -> {p \in Vertex \X Vertex \X {1} : p[1] <= p[2]}
       [] c = "digraph"    -> (0..2) \X (0..2) \X {1} \cup {<<0, 1, 2>>, <<1, 1, 2>>}
       [] OTHER            -> {<<0, 1, 1>>, <<0, 1, 2>>, <<0, 2, 1>>, <<2, 1, 1>>}]
MCAsked ==
  [c \in Classes |-> CASE c = "digraph" -> {2} [] c = "bigraph" -> {0, 2} [] OTHER -> {0}]
MCMaxCalls == [c \in Classes |-> IF c = "undirected" THEN 4 ELSE 3]

NoGraph ==
  /\ class = "none" /\ adj = Empty /\ reverse_adj = Empty /\ v_sz = 0 /\ e_sz = 0
  /\ NoTraversal
NoRing == hfunc = [p \in Points |-> 1]

MCInit == Init /\ (NoGraph \/ (NoRing /\ GraphInit))

MCNext ==
  \/ class = "none" /\ Next /\ UNCHANGED graphVars
  \/ class # "none" /\ GraphNext /\ UNCHANGED vars

MCSpec == MCInit /\ [][MCNext]_<<vars, graphVars>>
                 /\ WF_vars(class = "none" /\ (Probe \/ ProbeEnd \/ Lookup) /\ UNCHANGED graphVars)
=============================================================================
