-------------------------------- MODULE Jobs --------------------------------
(***************************************************************************)
(* The algorithms of alg/ and the Pregel vertices, as the sequences of     *)
(* requests that a worker makes.  What they compute between two requests   *)
(* is left out: a contribution names the worker that made it and its       *)
(* round.  Keys are taken in ascending order where the code walks through  *)
(* an unordered_map.                                                       *)
(*                                                                         *)
(* job.in[w] is the part of the input that w has loaded: tuples of numbers *)
(* (samples, words of the text, edges, ratings, items).  job.rounds and     *)
(* job.debug are parameters of the algorithms.                             *)
(***************************************************************************)
EXTENDS WorkerAPI

CONSTANTS KeyCount,     \* dct_sz of word_count
          FactorLimit,  \* ifactor.size() beyond which cbr forgets its factors
          BlockRows     \* rows of a block of cos_sim_sparse (1000 in the code)

Sorted(S) == [i \in 1..Cardinality(S) |->
                CHOOSE x \in S : Cardinality({y \in S : y < x}) = i - 1]
Each(S, R(_)) == FlattenSeq([i \in 1..Cardinality(S) |-> R(Sorted(S)[i])])
EachRound(j, R(_)) == FlattenSeq([rd \in 1..j.rounds |-> R(rd)])
First(S) == {x[1] : x \in S}
Second(S) == {x[2] : x \in S}
OnlyIn(part1, n) == IF n = 1 THEN part1 ELSE <<>>

(***************************************************************************)
(* alg/logistic_regression: lg.cpp, and lg_ssp.cpp with the clock.         *)
(***************************************************************************)
Theta == <<"theta">>

\* Every worker writes its random start value and trains with the others.
Trained(j, w, Round(_)) ==
  sync \o paracel_write(Theta, {<<w, 0>>}) \o paracel_register_bupdate("lg_theta_update")
    \o EachRound(j, Round) \o paracel_read(Theta) \o sync \o dump_result

calc_loss(j) == IF j.debug THEN allreduce({}) \o allreduce({}) ELSE <<>>

dgd_learning(j, w) ==
  Trained(j, w, LAMBDA rd :
    paracel_read(Theta) \o Each(First(j.in[w]), LAMBDA i : calc_loss(j))
      \o sync \o paracel_bupdate(Theta, {<<w, rd>>}, "") \o sync)

\* The same requests; delta is the mean of what the workers moved theta by.
ipm_learning(j, w) == dgd_learning(j, w)

\* A sample is the cnt-th of n: theta is read and written for every batch-th
\* and the last.
InBatch(cnt, n) ==
  LET batch == IF n \div 100 = 0 THEN 10 ELSE n \div 100
  IN  cnt % batch = 0 \/ cnt = n - 1

agd_learning(j, w) ==
  LET n == Cardinality(j.in[w])
      Sample(cnt, rd) ==
        (IF InBatch(cnt, n) THEN paracel_read(Theta) ELSE <<>>) \o calc_loss(j)
          \o (IF InBatch(cnt, n) THEN paracel_bupdate(Theta, {<<w, rd>>}, "") ELSE <<>>)
  IN  Trained(j, w, LAMBDA rd :
        paracel_read(Theta) \o Each(0..(n - 1), LAMBDA cnt : Sample(cnt, rd)) \o sync)

ssp_dgd_learning(j, w) ==
  Trained(j, w, LAMBDA rd :
    paracel_read(Theta) \o Each(First(j.in[w]), LAMBDA i : calc_loss(j))
      \o paracel_bupdate(Theta, {<<w, rd>>}, "") \o iter_commit)

ssp_ipm_learning(j, w) == ssp_dgd_learning(j, w)

\* Never commits: its clock stays 0 and it reads from the servers.
ssp_agd_learning(j, w) == agd_learning(j, w)

slow_agd_learning(j, w) ==
  Trained(j, w, LAMBDA rd :
    paracel_read(Theta) \o Each(First(j.in[w]), LAMBDA i :
      paracel_read(Theta) \o calc_loss(j)
        \o paracel_bupdate(Theta, {<<w, rd>>}, "") \o iter_commit))

(***************************************************************************)
(* alg/word_count.  The text of w has the word x[1] at position x[2].      *)
(***************************************************************************)
Word(x) == <<"word", x>>
Occurs(j, w, x) == {<<o[1], w, o[2]>> : o \in {p \in j.in[w] : p[1] = x}}

normal_learning(j, w) ==
  Each(Second(j.in[w]), LAMBDA i :
    LET x == CHOOSE x \in First(j.in[w]) : <<x, i>> \in j.in[w]
    IN  paracel_bupdate(Word(x), {<<x, w, i>>}, "wc_updater"))
    \o sync \o paracel_read_topk \o dump_result

noraml_learning_with_combine(j, w) ==
  Each(First(j.in[w]), LAMBDA x : paracel_bupdate(Word(x), Occurs(j, w, x), ""))
    \o sync \o paracel_read_topk \o dump_result

\* A dictionary of counts for each of KeyCount keys, by the hash of the word.
optimized_learning(j, w) ==
  sync
    \o Each(0..(KeyCount - 1), LAMBDA k :
         paracel_bupdate(<<"key", k>>,
           UNION {Occurs(j, w, x) : x \in {y \in First(j.in[w]) : y % KeyCount = k}},
           "wc_updater2"))
    \o sync \o paracel_read_special_handle("key") \o dump_result

(***************************************************************************)
(* alg/clustering/kmeans.hpp.  clusters_-1 is <<"clusters", 0>> here.      *)
(***************************************************************************)
Clusters(rd) == <<"clusters", rd>>
Result == <<"kmeans_result">>

kmeans_init(w) ==
  paracel_load_as_matrix
    \o (IF w = 0 THEN paracel_write(Clusters(0), {<<w, 0>>}) ELSE <<>>)
    \o paracel_sync

\* Mutant: no barrier at the end of a round.
LearnUnsynced(j, w) ==
  paracel_register_bupdate("local_update_kmeans_clusters")
    \o EachRound(j, LAMBDA rd :
         paracel_read(Clusters(rd - 1)) \o allreduce({<<w, rd>>})
           \o paracel_bupdate(Clusters(rd), {<<w, rd>>}, ""))
    \o paracel_read(Clusters(j.rounds))
    \o paracel_bupdate(Result, {<<w, 0>>}, "local_update_kmeans_groups")
    \o paracel_sync \o paracel_read(Result)

kmeans_learning(j, w) ==
  paracel_register_bupdate("local_update_kmeans_clusters")
    \o EachRound(j, LAMBDA rd :
         paracel_read(Clusters(rd - 1)) \o allreduce({<<w, rd>>})
           \o paracel_bupdate(Clusters(rd), {<<w, rd>>}, "") \o paracel_sync)
    \o paracel_read(Clusters(j.rounds))
    \o paracel_bupdate(Result, {<<w, 0>>}, "local_update_kmeans_groups")
    \o paracel_sync \o paracel_read(Result)

kmeans(j, w) == kmeans_init(w) \o paracel_sync \o kmeans_learning(j, w) \o dump_result

(***************************************************************************)
(* alg/matrix_factorization/mf.hpp, method ipm.                            *)
(***************************************************************************)
WKey(u) == <<"W", u>>
UB(u) == <<"usr_bias", u>>
HKey(i) == <<"H", i>>
IB(i) == <<"item_bias", i>>
UCnt(u) == <<"u_cnt", u>>
ICnt(i) == <<"i_cnt", i>>
Keys(K(_), S) == {K(x) : x \in S}
Starts(w, keys) == [k \in keys |-> {<<w, 0>>}]

init_parameters(j, w) ==
  LET us == First(j.in[w])
      is == Second(j.in[w])
  IN  paracel_load_as_graph \o sync \o allreduce({}) \o allreduce({})
        \o paracel_register_bupdate("cnt_updater")
        \o Each(us, LAMBDA u : paracel_bupdate(UCnt(u), {<<w, 0>>}, ""))
        \o paracel_write_multi(Starts(w, Keys(WKey, us)))
        \o paracel_write_multi(Starts(w, Keys(UB, us)))
        \o Each(is, LAMBDA i : paracel_bupdate(ICnt(i), {<<w, 0>>}, ""))
        \o paracel_write_multi(Starts(w, Keys(HKey, is)))
        \o paracel_write_multi(Starts(w, Keys(IB, is)))
        \o sync
        \o paracel_read_multi(Keys(UCnt, us)) \o paracel_read_multi(Keys(ICnt, is)) \o sync

read_mf_paras(j, w) ==
  Each(First(j.in[w]), LAMBDA u : paracel_read(WKey(u)) \o paracel_read(UB(u)))
    \o Each(Second(j.in[w]), LAMBDA i : paracel_read(HKey(i)) \o paracel_read(IB(i)))

update_mf_fac(j, w, rd) ==
  Each(First(j.in[w]), LAMBDA u : paracel_bupdate(WKey(u), {<<w, rd>>}, "mf_fac_updater"))
    \o Each(Second(j.in[w]), LAMBDA i : paracel_bupdate(HKey(i), {<<w, rd>>}, "mf_fac_updater"))

update_mf_bias(j, w, rd) ==
  Each(First(j.in[w]), LAMBDA u : paracel_bupdate(UB(u), {<<w, rd>>}, "mf_bias_updater"))
    \o Each(Second(j.in[w]), LAMBDA i : paracel_bupdate(IB(i), {<<w, rd>>}, "mf_bias_updater"))

mf_learning(j, w) ==
  EachRound(j, LAMBDA rd : read_mf_paras(j, w) \o update_mf_fac(j, w, rd) \o sync
                          \o update_mf_bias(j, w, rd) \o sync \o iter_commit)
    \o read_mf_paras(j, w)

mf_dump_result(w) ==
  allreduce({})
    \o (IF w # 0 THEN <<>>
        ELSE paracel_read_special("usr_bias") \o paracel_read_special("item_bias")
               \o paracel_read_special("W") \o paracel_read_special("H"))
    \o dump_result

mf(j, w) == init_parameters(j, w) \o sync \o mf_learning(j, w) \o sync \o mf_dump_result(w)

(***************************************************************************)
(* alg/pagerank/pr.hpp.  An edge <<a, b>> of w has its source a at w.  The *)
(* second part needs the links that the first has read.                    *)
(***************************************************************************)
Links(a) == <<"links", a>>
PR(a) == <<"pr", a>>

pr_push_links(j, w) ==
  paracel_load_as_graph \o paracel_register_bupdate("init_updater")
    \o Each(Second(j.in[w]), LAMBDA b :
         paracel_bupdate(Links(b), {<<e[1], w>> : e \in {d \in j.in[w] : d[2] = b}}, ""))

pr_init(j, w) ==
  pr_push_links(j, w)
    \o Each(First(j.in[w]), LAMBDA a : paracel_read(Links(a)))
    \o allreduce({})
    \o Each(First(j.in[w]), LAMBDA a : paracel_write(PR(a), {<<w, 0>>}))
    \o sync

pr_learning(j, w, m) ==
  LET stale == UNION {First(m.got[Links(a)]) : a \in First(j.in[w])}
      ReadStale == Each(stale, LAMBDA a : paracel_read(PR(a)))
  IN  ReadStale
        \o EachRound(j, LAMBDA rd : ReadStale \o sync
             \o Each(First(j.in[w]), LAMBDA a : paracel_write(PR(a), {<<w, rd>>})) \o sync)
        \o paracel_read_special("pr") \o dump_result

(***************************************************************************)
(* include/pregel/vertex.hpp with the vertices of max_vertex_value_pregel, *)
(* and max_vertex_value.hpp.  A vertex is the source of an edge of w; its  *)
(* value is the number of a vertex.                                        *)
(***************************************************************************)
Vertex(v) == <<"vertex", v>>
Vertices(j, w) == First(j.in[w])
init_vars(j, w) == [k \in Keys(Vertex, Vertices(j, w)) |-> {<<k[2], 0>>}]

\* vertex_active_map: true at first, then whether the last vote saw a change.
Active(m, v) == Vertex(v) \notin DOMAIN m.was \/ m.got[Vertex(v)] # m.was[Vertex(v)]

compute(neighbor, val) == paracel_bupdate(Vertex(neighbor), val, "max_updater")

Computes(j, w, m) ==
  Each({v \in Vertices(j, w) : Active(m, v)}, LAMBDA v :
    Each({e[2] : e \in {d \in j.in[w] : d[1] = v}}, LAMBDA n : compute(n, m.got[Vertex(v)])))

vote_to_halt(j, w) == Each(Vertices(j, w), LAMBDA v : paracel_read(Vertex(v)))

\* The flag is set before the vote.
halt_flag(j, w, m) == IF \E v \in Vertices(j, w) : Active(m, v) THEN {} ELSE {<<w, 1>>}

\* Mutant: one worker too many is waited for.
MoreThanAllHalted(m) == Cardinality(m.sum) > NW

AllHalted(m) == Cardinality(m.sum) = NW

\* Mutant: a vertex may vote while messages for it are on their way.
SuperstepUnsynced(j, w, m) ==
  Computes(j, w, m) \o vote_to_halt(j, w) \o allreduce(halt_flag(j, w, m))

Superstep(j, w, m) ==
  Computes(j, w, m) \o paracel_sync \o vote_to_halt(j, w) \o allreduce(halt_flag(j, w, m))

run_supersteps(j, w, n, m) ==
  IF n = 1 THEN paracel_load_as_graph \o Superstep(j, w, m)
  ELSE IF AllHalted(m) THEN paracel_sync \o dump_result
  ELSE paracel_sync \o Superstep(j, w, m)

\* The same with sync(), after a superstep in which a vertex sends itself its
\* own value.
mvv_superstep(j, w, m) ==
  Computes(j, w, m) \o sync \o vote_to_halt(j, w) \o sync \o allreduce(halt_flag(j, w, m))

max_vertex_value(j, w, n, m) ==
  IF n = 1
  THEN paracel_load_as_graph
         \o Each(Vertices(j, w), LAMBDA v : compute(v, m.got[Vertex(v)])) \o sync
         \o mvv_superstep(j, w, m)
  ELSE IF AllHalted(m) THEN sync \o dump_result
  ELSE sync \o mvv_superstep(j, w, m)

(***************************************************************************)
(* alg/similarity/sim.hpp and sim_douban.hpp, method limit_storage.  A     *)
(* worker compares its items with those of the others, one worker after    *)
(* the other.                                                              *)
(***************************************************************************)
Item(i) == <<"item", i>>
Bag(w) == <<"item_bag", w>>
Others(w) == Sorted(Worker \ {w})

\* Mutant: the list of the items is there before the items.
BagFirst(j, w) ==
  paracel_write(Bag(w), {<<i, w>> : i \in First(j.in[w])})
    \o Each(First(j.in[w]), LAMBDA i : paracel_write(Item(i), {<<w, 0>>}))

init_paras(j, w) ==
  Each(First(j.in[w]), LAMBDA i : paracel_write(Item(i), {<<w, 0>>}))
    \o paracel_write(Bag(w), {<<i, w>> : i \in First(j.in[w])})

NextBag(w, n) == IF n > NW - 1 THEN sync \o dump_result ELSE paracel_read(Bag(Others(w)[n]))

mls_learning(j, w, n, m) ==
  IF n = 1 THEN init_paras(j, w) \o sync \o NextBag(w, 1)
  ELSE LET bag == m.got[Bag(Others(w)[n - 1])]
       IN  Each(First(j.in[w]), LAMBDA i : Each(First(bag), LAMBDA k : paracel_read(Item(k))))
             \o NextBag(w, n)

\* Another measure of similarity, the same requests.
douban_mls_learning(j, w, n, m) == mls_learning(j, w, n, m)

(***************************************************************************)
(* alg/cos_sim_sparse.  An entry <<r, c>> of w has its row r at w; by      *)
(* columns every worker has a part of all rows.                            *)
(***************************************************************************)
Wgt(r) == <<"wgt", r>>
ResultOf(k) == <<"result", k>>
Blocks(j) ==
  LET rows == Cardinality(UNION {First(j.in[w]) : w \in Worker})
  IN  0..(Max({1, rows \div BlockRows}) - 1)

normalize(j, w) ==
  paracel_load_as_matrix \o Each(First(j.in[w]), LAMBDA r : paracel_write(Wgt(r), {<<w, 0>>}))
    \o sync \o paracel_read_special("wgt") \o sync

cos_dump(j, w) ==
  (IF w = 0 THEN Each(Blocks(j), LAMBDA k : paracel_read(ResultOf(k))) ELSE <<>>) \o dump_result

cos_sim_sparse(j, w) ==
  paracel_load_as_matrix \o normalize(j, w)
    \o Each(Blocks(j), LAMBDA k :
         paracel_bupdate(ResultOf(k), {<<w, 0>>}, "cos_sim_sparse_updater"))
    \o sync \o cos_dump(j, w)

(***************************************************************************)
(* alg/hostname.                                                           *)
(***************************************************************************)
Names == <<"names">>

hostname(w) ==
  paracel_bupdate(Names, {<<w, 0>>}, "hostname_updater") \o sync
    \o (IF w = 0 THEN paracel_read(Names) ELSE <<>>) \o dump_result

(***************************************************************************)
(* alg/cbr/cbr.hpp.  A factor that was read is kept until there are too    *)
(* many.                                                                   *)
(***************************************************************************)
IFactor(i) == <<"ifactor", i>>
Items(j) == UNION {Second(j.in[w]) : w \in Worker}

cbr_init(j, w) ==
  (IF w = 0 THEN Each(Items(j), LAMBDA i : paracel_write(IFactor(i), {<<w, 0>>})) ELSE <<>>)
    \o sync \o paracel_load_as_graph

\* The items of the ratings of w, user by user.
Rated(j, w) ==
  Each(First(j.in[w]), LAMBDA u : Sorted({e[2] : e \in {d \in j.in[w] : d[1] = u}}))

\* The items that are read: those not in ifactor, which is cleared when it
\* has more than FactorLimit.
Reads(items) ==
  LET fac[n \in 0..Len(items)] ==    \* what is kept after n ratings
        IF n = 0 THEN {}
        ELSE LET now == fac[n - 1] \cup {items[n]}
             IN  IF Cardinality(now) > FactorLimit THEN {} ELSE now
  IN  FlattenSeq([n \in 1..Len(items) |->
        IF items[n] \in fac[n - 1] THEN <<>> ELSE paracel_read(IFactor(items[n]))])

learning_1d(j, w) ==
  cbr_init(j, w) \o sync \o Reads(EachRound(j, LAMBDA rd : Rated(j, w))) \o dump_result

(***************************************************************************)
(* The programs.                                                           *)
(***************************************************************************)
Solve(j, w, n, m) ==
  CASE j.name = "lg_dgd" -> OnlyIn(dgd_learning(j, w), n)
    [] j.name = "lg_ipm" -> OnlyIn(ipm_learning(j, w), n)
    [] j.name = "lg_agd" -> OnlyIn(agd_learning(j, w), n)
    [] j.name = "lg_ssp_dgd" -> OnlyIn(ssp_dgd_learning(j, w), n)
    [] j.name = "lg_ssp_ipm" -> OnlyIn(ssp_ipm_learning(j, w), n)
    [] j.name = "lg_ssp_agd" -> OnlyIn(ssp_agd_learning(j, w), n)
    [] j.name = "lg_ssp_slow_agd" -> OnlyIn(slow_agd_learning(j, w), n)
    [] j.name = "wc_normal" -> OnlyIn(normal_learning(j, w), n)
    [] j.name = "wc_normal_with_combine" -> OnlyIn(noraml_learning_with_combine(j, w), n)
    [] j.name = "wc_optimized" -> OnlyIn(optimized_learning(j, w), n)
    [] j.name = "kmeans" -> OnlyIn(kmeans(j, w), n)
    [] j.name = "mf" -> OnlyIn(mf(j, w), n)
    [] j.name = "pagerank" -> IF n = 1 THEN pr_init(j, w) ELSE pr_learning(j, w, m)
    [] j.name = "pregel" -> run_supersteps(j, w, n, m)
    [] j.name = "mvv" -> max_vertex_value(j, w, n, m)
    [] j.name = "sim" -> mls_learning(j, w, n, m)
    [] j.name = "sim_douban" -> douban_mls_learning(j, w, n, m)
    [] j.name = "cos_sim_sparse" -> OnlyIn(cos_sim_sparse(j, w), n)
    [] j.name = "hostname" -> OnlyIn(hostname(w), n)
    [] j.name = "cbr" -> OnlyIn(learning_1d(j, w), n)

StartValues(j, w) == IF j.name \in {"pregel", "mvv"} THEN init_vars(j, w) ELSE Empty

TotalIters(j, w) ==
  CASE j.name \in {"lg_ssp_dgd", "lg_ssp_ipm", "lg_ssp_agd", "mf", "pagerank", "cbr"} -> j.rounds
    [] j.name = "lg_ssp_slow_agd" -> j.rounds * Cardinality(j.in[w])
    [] OTHER -> 0

-----------------------------------------------------------------------------
(***************************************************************************)
(* What must hold.                                                         *)
(***************************************************************************)

(***************************************************************************)
(* No value is ever combined by the update function of another type.  The  *)
(* function of a server's bupdate thread is whichever was registered or    *)
(* named last by any worker, so this rests on the barriers between the     *)
(* phases of a program.  matrix_factorization has none there (sync() does  *)
(* not wait) and is left out: a slow worker's counts meet the function     *)
(* that a fast one has named for its factors.                              *)
(***************************************************************************)
NoWrongUpdater ==
  job.name # "mf" => \A s \in Server : \A k \in DOMAIN kv[s] : kv[s][k] # Garbage

(***************************************************************************)
(* No worker reads a key that is not there yet, from a server or, between  *)
(* its first and last clock, from its cache: a server answers such a read  *)
(* with "nokey" and the program ends.  pagerank and similarity have only   *)
(* sync() between the writes of one worker and the reads of another:       *)
(* pagerank may miss the links or ranks of a page, similarity the list of  *)
(* the items of a worker, but never an item of a list.                     *)
(***************************************************************************)
NoMissingKey ==
  \A k \in missing : \/ job.name = "pagerank"
                     \/ job.name \in {"sim", "sim_douban"} /\ k[1] = "item_bag"

(***************************************************************************)
(* The clusters of a round and the groups of kmeans, when a worker reads   *)
(* them, have the share of every worker, and so have the counts that they  *)
(* were divided by.                                                        *)
(***************************************************************************)
RoundsComplete ==
  job.name = "kmeans" =>
    \A w \in Worker :
      /\ \A k \in DOMAIN mem[w].got :
           k # Clusters(0) => First(mem[w].got[k]) = Worker
      /\ mem[w].sum # {} => First(mem[w].sum) = Worker

(***************************************************************************)
(* The list of the most frequent words that a worker of word_count makes,  *)
(* while others may still be counting: no word is twice in it, no count is *)
(* above the occurrences in the whole text or below those in the worker's  *)
(* own part, and a word that is not in it occurs in that part no more      *)
(* often than the least word of the list counts.                           *)
(***************************************************************************)
TopkRight ==
  LET OwnCount(w, x) == Cardinality(Occurs(job, w, x))
      AllCount(x) == Cardinality(UNION {Occurs(job, w, x) : w \in Worker})
  IN  job.name \in {"wc_normal", "wc_normal_with_combine", "wc_optimized"} =>
        \A w \in Worker : todo[w] = <<>> =>
          LET top == mem[w].top IN
          /\ \A c, d \in top : c[1] = d[1] => c = d
          /\ \A c \in top : OwnCount(w, c[1]) <= c[2] /\ c[2] <= AllCount(c[1])
          /\ \A x \in First(job.in[w]) \ First(top) :
               Cardinality(top) = KTop /\ \A c \in top : OwnCount(w, x) <= c[2]

(***************************************************************************)
(* When the supersteps of the Pregel vertices have ended, the value of     *)
(* each vertex is the largest of all vertices from which a path leads to   *)
(* it: nobody halts while a message is on its way.                         *)
(***************************************************************************)
Reaches(j) ==
  LET edges == UNION {j.in[w] : w \in Worker}
      step[n \in 1..Cardinality(edges)] ==
        IF n = 1 THEN edges
        ELSE step[n - 1] \cup {<<a, b>> \in First(edges) \X Second(edges) :
               \E c \in Second(edges) : <<a, c>> \in step[n - 1] /\ <<c, b>> \in edges}
  IN  step[Cardinality(edges)]

PregelMax ==
  job.name = "pregel" =>
    \A w \in Worker : todo[w] = <<>> =>
      \A v \in Vertices(job, w) :
        First(mem[w].got[Vertex(v)]) = {Max({e[1] : e \in {d \in Reaches(job) : d[2] = v}})}

(***************************************************************************)
(* Every job comes to its end on every worker, or is aborted because of a  *)
(* missing key: no worker waits in a barrier or a reduction that another   *)
(* does not enter, and the supersteps end.                                 *)
(***************************************************************************)
JobEnds == <>(Finished \/ Aborted)
=============================================================================
