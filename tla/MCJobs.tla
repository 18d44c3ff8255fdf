------------------------------- MODULE MCJobs -------------------------------
(***************************************************************************)
(* Two workers, two servers.  The graphs have an edge into every vertex    *)
(* that a worker keeps; in the second, vertex 1 reaches neither 3 nor      *)
(* itself by a path of one edge.                                           *)
(***************************************************************************)
EXTENDS Jobs

MCServerOf(k) == IF k[1] \in {"theta", "kmeans_result", "H"} THEN 2
                 ELSE IF Len(k) = 1 THEN 1 ELSE 1 + (k[2] % NS)

Input(a, b) == [w \in Worker |-> IF w = 0 THEN a ELSE b]
Job(name, in) == [name |-> name, rounds |-> 2, debug |-> FALSE, in |-> in]

Samples == Input({<<1>>, <<2>>}, {<<3>>})
Text == Input({<<1, 1>>, <<2, 2>>, <<1, 3>>}, {<<2, 1>>, <<3, 2>>})
Cycle == Input({<<1, 2>>, <<3, 1>>}, {<<2, 3>>})
Tail2 == Input({<<1, 2>>, <<3, 3>>, <<3, 2>>}, {<<2, 1>>})
Ratings == Input({<<1, 1>>}, {<<2, 1>>})

MCJobs ==
  {Job(name, Samples) : name \in {"lg_dgd", "lg_ipm", "lg_agd", "lg_ssp_dgd", "lg_ssp_ipm",
                                  "lg_ssp_agd", "lg_ssp_slow_agd", "kmeans", "sim", "sim_douban"}}
    \cup {[Job(name, Input({<<1>>}, {<<2>>})) EXCEPT !.debug = TRUE] :
            name \in {"lg_dgd", "lg_agd", "lg_ssp_slow_agd"}}
    \cup {Job(name, Text) : name \in {"wc_normal", "wc_normal_with_combine", "wc_optimized"}}
    \cup {Job(name, g) : name \in {"pagerank", "pregel", "mvv"}, g \in {Cycle, Tail2}}
    \cup {Job("hostname", Input({}, {})),
          Job("cos_sim_sparse", Input({<<1, 1>>, <<2, 1>>}, {<<3, 2>>, <<4, 1>>}))}
    \cup {[Job("mf", Ratings) EXCEPT !.rounds = 1],
          Job("cbr", Input({<<1, 1>>, <<1, 2>>}, {<<2, 2>>, <<2, 3>>}))}
=============================================================================
