----------------------------- MODULE WorkerAPI -----------------------------
(***************************************************************************)
(* The calls that an algorithm makes (class paralg, include/ps.hpp) and    *)
(* the requests that they become: paracel_read, paracel_write,             *)
(* paracel_bupdate and the others go to the server of the key, calls over  *)
(* many keys to one server after the other, and paracel_sync and allreduce *)
(* to MPI.  A request is atomic at its server (ParamServer refines         *)
(* SafeKV); between two requests of a worker anything of the other workers *)
(* may happen.                                                             *)
(*                                                                         *)
(* A value is the set of the contributions that are in it: a write puts    *)
(* its own there, a bupdate adds its own to what is there.                 *)
(***************************************************************************)
EXTENDS Integers, Sequences, SequencesExt, FiniteSetsExt

CONSTANTS NW,             \* get_worker_size()
          NS,             \* srv_sz
          ServerOf(_),    \* p_ring->get_server(key)
          Jobs,           \* the programs with their inputs, name and data
          Program(_, _, _, _),
                          \* the requests of part n of worker w, which knows m
          Own(_, _),      \* the values that w starts with
          Total(_, _),    \* total_iters, or 0 without ssp_switch
          KTop            \* the length of the list that read_topk makes

Worker == 0..(NW - 1)
Server == 1..NS
LastPart == Max({3, NW + 1})

VARIABLES job,      \* the program that all workers run
          todo,     \* todo[w]: the requests that w has in front of it
          part,     \* part[w]: how often w has looked what to do next
          mem,      \* mem[w]: what w has got and had before, the last sum, the top
          cache,    \* cached_para
          clock,
          kv,       \* kv[s]: the table of server s
          reg,      \* reg[s]: the function in the bupdate thread of server s
          missing   \* keys that were read and are not there: the job aborts

vars == <<job, todo, part, mem, cache, clock, kv, reg, missing>>

Empty == [k \in {} |-> {}]
One(k, v) == [x \in {k} |-> v]
Put(f, g) == [k \in DOMAIN f \cup DOMAIN g |-> IF k \in DOMAIN g THEN g[k] ELSE f[k]]

(***************************************************************************)
(* The calls.  val holds the keys with what is sent for each.              *)
(***************************************************************************)
Request(op, s, val, f) == [op |-> op, s |-> s, val |-> val, f |-> f]
EachServer(R(_)) == [s \in Server |-> R(s)]
At(dct, s) == [k \in {x \in DOMAIN dct : ServerOf(x) = s} |-> dct[k]]

paracel_read(k) == <<Request("pull", ServerOf(k), One(k, {}), "")>>

\* One pull_multi for each server, also without keys.
paracel_read_multi(keys) ==
  EachServer(LAMBDA s : Request("pull", s, At([k \in keys |-> {}], s), ""))

\* The keys of a kind, from one server after the other; the filters of the
\* algorithms tell the kinds apart by how a key begins or ends.
paracel_read_special(kind) == EachServer(LAMBDA s : Request("pullall", s, Empty, kind))

\* All keys, or the keys that the filter takes; what a server gives goes into
\* a heap before the next server is asked.
paracel_read_topk == EachServer(LAMBDA s : Request("topk", s, Empty, "word"))
paracel_read_special_handle(kind) == EachServer(LAMBDA s : Request("topk", s, Empty, kind))

paracel_write(k, v) == <<Request("push", ServerOf(k), One(k, v), "")>>

paracel_write_multi(dct) ==
  SelectSeq(EachServer(LAMBDA s : Request("push", s, At(dct, s), "")),
            LAMBDA r : r.val # Empty)

\* With f = "" the function that the server has.
paracel_bupdate(k, v, f) == <<Request("bupdate", ServerOf(k), One(k, v), f)>>

\* Mutant: only the first server is told.
RegisterFirst(f) == <<Request("register", 1, Empty, f)>>

paracel_register_bupdate(f) == EachServer(LAMBDA s : Request("register", s, Empty, f))

paracel_sync == <<Request("barrier", 0, Empty, "")>>
allreduce(v) == <<Request("allreduce", 0, One(<<"all">>, v), "")>>
iter_commit == <<Request("commit", 0, Empty, "")>>

\* The results are written and the program ends.
dump_result == <<Request("dump", 0, Empty, "")>>

\* The algorithms call sync(), which is no member of paralg but the function
\* of POSIX that flushes the file system: no worker waits.
sync == <<>>

\* The barrier with which each of the loads ends (Loading has the rest).
paracel_load_as_graph == paracel_sync
paracel_load_as_matrix == paracel_sync

(***************************************************************************)
(* The update functions of alg/*/update.cpp, by the type they work on.     *)
(* What a function makes of a value of another type is garbage.            *)
(***************************************************************************)
Works(f) ==
  CASE f \in {"default_incr_i", "wc_updater", "cnt_updater"} -> "int"
    [] f \in {"lg_theta_update", "mf_fac_updater", "cos_sim_sparse_updater"} -> "vector"
    [] f \in {"max_updater", "mf_bias_updater"} -> "double"
    [] f = "local_update_kmeans_clusters" -> "vectors"
    [] f = "local_update_kmeans_groups" -> "groups"
    [] f = "wc_updater2" -> "counts"
    [] f = "init_updater" -> "links"
    [] f = "hostname_updater" -> "string"

TypeOf(k) ==
  CASE k[1] \in {"word", "u_cnt", "i_cnt"} -> "int"
    [] k[1] \in {"theta", "W", "H", "ifactor", "item", "result"} -> "vector"
    [] k[1] \in {"vertex", "usr_bias", "item_bias", "pr", "wgt"} -> "double"
    [] k[1] = "clusters" -> "vectors"
    [] k[1] = "kmeans_result" -> "groups"
    [] k[1] = "key" -> "counts"
    [] k[1] = "links" -> "links"
    [] k[1] = "item_bag" -> "strings"
    [] k[1] = "names" -> "string"

Garbage == {<<-1, -1>>}
Largest(S) == {x \in S : \A y \in S : y[1] <= x[1]}

kv_update(f, k, table, delta) ==
  IF k \notin DOMAIN table THEN delta
  ELSE IF Works(f) # TypeOf(k) \/ table[k] = Garbage THEN Garbage
  ELSE IF f = "max_updater" THEN Largest(table[k] \cup delta)
  ELSE table[k] \cup delta

(***************************************************************************)
(* The words of a table with their counts, and the k largest of them: each *)
(* word is pushed on a heap, and the smallest goes when the heap is full.  *)
(***************************************************************************)
OfKind(table, kind) == [k \in {x \in DOMAIN table : x[1] = kind} |-> table[k]]

Counted(table) ==
  LET all == UNION {table[k] : k \in DOMAIN table}
  IN  {<<x, Cardinality({c \in all : c[1] = x})>> : x \in {c[1] : c \in all}}

\* Mutant: the largest goes.
DropLargest(heap, new) ==
  {S \in SUBSET (heap \cup new) :
     /\ Cardinality(S) = Min({KTop, Cardinality(heap \cup new)})
     /\ \A x \in S, y \in (heap \cup new) \ S : x[2] <= y[2]}

Topk(heap, new) ==
  {S \in SUBSET (heap \cup new) :
     /\ Cardinality(S) = Min({KTop, Cardinality(heap \cup new)})
     /\ \A x \in S, y \in (heap \cup new) \ S : x[2] >= y[2]}

(***************************************************************************)
(* A worker goes on with its next request, or looks what to do next.       *)
(***************************************************************************)
JobInit ==
  /\ job \in Jobs
  /\ mem = [w \in Worker |-> [got |-> Own(job, w), was |-> Empty, sum |-> {}, top |-> {}]]
  /\ todo = [w \in Worker |-> Program(job, w, 1, mem[w])]
  /\ part = [w \in Worker |-> 1]
  /\ cache = [w \in Worker |-> Empty]
  /\ clock = [w \in Worker |-> 0]
  /\ kv = [s \in Server |-> Empty]
  /\ reg = [s \in Server |-> "default_incr_i"]
  /\ missing = {}

Is(w, op) == missing = {} /\ todo[w] # <<>> /\ todo[w][1].op = op
Req(w) == todo[w][1]

Later(w) == IF part[w] = LastPart THEN LastPart ELSE part[w] + 1

Rest(w, m) == IF Len(todo[w]) > 1 THEN Tail(todo[w]) ELSE Program(job, w, Later(w), m)

\* The workers of W have done their first request and know m[w] now.
Done(W, m) ==
  /\ mem' = [w \in Worker |-> IF w \in W THEN m[w] ELSE mem[w]]
  /\ todo' = [w \in Worker |-> IF w \in W THEN Rest(w, m[w]) ELSE todo[w]]
  /\ part' = [w \in Worker |-> IF w \in W /\ Len(todo[w]) = 1 THEN Later(w) ELSE part[w]]
  /\ UNCHANGED job

Learn(w, new) ==
  [mem EXCEPT ![w].got = Put(@, new),
              ![w].was = Put(@, [k \in DOMAIN new \cap DOMAIN mem[w].got |-> mem[w].got[k]])]

Ssp(w) == Total(job, w) > 0
Caches(w, new) == cache' = IF Ssp(w) THEN [cache EXCEPT ![w] = Put(@, new)] ELSE cache

\* Between the first and the last clock of a worker the value of the cache
\* may be taken; SSPClock models when it is.
MayUseCache(w) == Ssp(w) /\ clock[w] \notin {0, Total(job, w)}

\* What is asked for and what is there, from a server or from the cache.
Fetch(w, table) ==
  LET keys == DOMAIN Req(w).val
      new == [k \in keys |-> table[k]]
  IN  IF keys \subseteq DOMAIN table
      THEN Done({w}, Learn(w, new)) /\ Caches(w, new) /\ UNCHANGED missing
      ELSE missing' = keys \ DOMAIN table /\ UNCHANGED <<job, todo, part, mem, cache>>

Pull(w) ==
  /\ Is(w, "pull")
  /\ \/ Fetch(w, kv[Req(w).s])
     \/ MayUseCache(w) /\ Fetch(w, cache[w])
  /\ UNCHANGED <<clock, kv, reg>>

Pullall(w) ==
  /\ Is(w, "pullall")
  /\ Done({w}, Learn(w, OfKind(kv[Req(w).s], Req(w).f)))
  /\ UNCHANGED <<cache, clock, kv, reg, missing>>

PullTop(w) ==
  /\ Is(w, "topk")
  /\ \E top \in Topk(mem[w].top, Counted(OfKind(kv[Req(w).s], Req(w).f))) :
       Done({w}, [mem EXCEPT ![w].top = top])
  /\ UNCHANGED <<cache, clock, kv, reg, missing>>

Push(w) ==
  /\ Is(w, "push")
  /\ kv' = [kv EXCEPT ![Req(w).s] = Put(@, Req(w).val)]
  /\ Caches(w, Req(w).val)
  /\ Done({w}, mem)
  /\ UNCHANGED <<clock, reg, missing>>

\* A function that is named in the request stays in the thread.
Bupdate(w) ==
  /\ Is(w, "bupdate")
  /\ LET r == Req(w)
         f == IF r.f = "" THEN reg[r.s] ELSE r.f
         new == [k \in DOMAIN r.val |-> kv_update(f, k, kv[r.s], r.val[k])]
     IN  /\ kv' = [kv EXCEPT ![r.s] = Put(@, new)]
         /\ reg' = [reg EXCEPT ![r.s] = f]
         /\ Caches(w, new)
  /\ Done({w}, mem)
  /\ UNCHANGED <<clock, missing>>

Register(w) ==
  /\ Is(w, "register")
  /\ reg' = [reg EXCEPT ![Req(w).s] = Req(w).f]
  /\ Done({w}, mem)
  /\ UNCHANGED <<cache, clock, kv, missing>>

IterCommit(w) ==
  /\ Is(w, "commit")
  /\ clock' = [clock EXCEPT ![w] = @ + 1]
  /\ Done({w}, mem)
  /\ UNCHANGED <<cache, kv, reg, missing>>

Dump(w) ==
  /\ Is(w, "dump")
  /\ todo' = [todo EXCEPT ![w] = <<>>]
  /\ UNCHANGED <<job, part, mem, cache, clock, kv, reg, missing>>

\* A barrier or a reduction: nobody leaves before all are there.
Meet(op) ==
  /\ \A w \in Worker : Is(w, op)
  /\ LET all == UNION {UNION {Req(w).val[k] : k \in DOMAIN Req(w).val} : w \in Worker}
     IN  Done(Worker, IF op = "barrier" THEN mem
                      ELSE [w \in Worker |-> [mem[w] EXCEPT !.sum = all]])
  /\ UNCHANGED <<cache, clock, kv, reg, missing>>

Finished == \A w \in Worker : todo[w] = <<>>
Aborted == missing # {}

JobOver == (Finished \/ Aborted) /\ UNCHANGED vars

Step(w) == \/ Pull(w) \/ Pullall(w) \/ PullTop(w) \/ Push(w) \/ Bupdate(w) \/ Register(w)
           \/ IterCommit(w) \/ Dump(w)

JobNext ==
  \/ \E w \in Worker : Step(w)
  \/ \E op \in {"barrier", "allreduce"} : Meet(op)
  \/ JobOver

JobSpec ==
  /\ JobInit /\ [][JobNext]_vars
  /\ \A w \in Worker : WF_vars(Step(w))
  /\ \A op \in {"barrier", "allreduce"} : WF_vars(Meet(op))
=============================================================================
