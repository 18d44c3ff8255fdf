-------------------------------- MODULE KVOps --------------------------------
(***************************************************************************)
(* The operations of the parameter store, as functions of the store: what  *)
(* the handlers of thrd_exec (include/server.hpp) read, write and answer,  *)
(* on the hash table of include/kv.hpp.                                    *)
(*                                                                         *)
(* A store is a function from the keys it holds to their values.  Values,  *)
(* deltas and loaded functions (dlsym of a std::function) are opaque:      *)
(* Apply and Passes are parameters.                                        *)
(***************************************************************************)
EXTENDS Integers, Sequences

CONSTANTS
  Keys,                \* the keys of this server's part of the ring
  Values,              \* values and deltas that requests carry
  Funcs,               \* names of update and filter functions
  Loadable,            \* those that dlopen and dlsym find
  DefaultIncr,         \* "default_incr_i", the server's default updater
  Apply(_, _, _),      \* Apply(f, val, delta): an update function's result
  Passes(_, _, _),     \* Passes(f, key, val): a filter function's result
  NoFunc               \* an empty std::function, or no function in a request

ReadOps     == {"contains", "pull", "pull_multi", "pullall", "pullall_special"}
RegisterOps == {"register_pullall_special", "register_remove_special",
                "register_update", "register_bupdate"}
UpdateOps   == {"update", "bupdate", "bupdate_multi"}
WriteOps    == {"push", "push_multi", "remove", "remove_special", "clear"}
                 \cup UpdateOps
AsyncOps    == {"update", "register_update"}     \* PUSH, no reply
FuncOps     == RegisterOps \cup UpdateOps \cup {"pullall_special", "remove_special"}
Operations  == ReadOps \cup RegisterOps \cup WriteOps

\* The single-key requests carry one key, the others any number.
Request == [op: Operations, keys: SUBSET Keys, val: Values,
            f: Funcs \cup {NoFunc}]

\* The port, hence the server thread, of a request (include/client.hpp).
Port(op) ==
  IF op \in {"push", "push_multi"} THEN 1
  ELSE IF op \in AsyncOps THEN 2
  ELSE IF op \in {"bupdate", "bupdate_multi", "register_bupdate"} THEN 3
  ELSE 0

-----------------------------------------------------------------------------
\* kvs::get / get_multi / getall restricted to ks.
Get(store, ks) == [k \in ks \cap DOMAIN store |-> store[k]]

Answer(ok, vals) == [ok |-> ok, vals |-> vals]

\* "nokey", or false.
NoKey == Answer(FALSE, <<>>)

\* What a read answers.  f is the filter in force for pullall_special.
ReadAnswer(store, r, f) ==
  CASE r.op = "contains" ->
         Answer(r.keys \subseteq DOMAIN store, <<>>)
    [] r.op = "pull" ->
         IF r.keys \subseteq DOMAIN store THEN Answer(TRUE, Get(store, r.keys))
                                          ELSE NoKey
    [] r.op = "pull_multi" -> Answer(TRUE, Get(store, r.keys))
    [] r.op = "pullall" -> Answer(TRUE, store)
    [] r.op = "pullall_special" ->
         Answer(TRUE, Get(store, {k \in DOMAIN store : Passes(f, k, store[k])}))

\* The dlopen lambdas abort.  What a thread has kept was loaded before.
LoadFails(r, f) == r.op \in FuncOps /\ f \notin Loadable \cup {NoFunc}

\* kvdct.at throws for an absent key, an empty std::function when it is called
\* on the first entry: nothing catches it, and the server process terminates.
ReadThrows(store, r, f) ==
  \/ LoadFails(r, f)
  \/ r.op = "pull_multi" /\ ~(r.keys \subseteq DOMAIN store)
  \/ r.op = "pullall_special" /\ f = NoFunc /\ DOMAIN store # {}

WriteThrows(store, r, f) ==
  \/ LoadFails(r, f)
  \/ r.op = "remove_special" /\ f = NoFunc /\ DOMAIN store # {}

-----------------------------------------------------------------------------
\* kv_update, the value it stores and returns.
kv_update(store, k, v_or_delta, f) ==
  IF k \in DOMAIN store THEN Apply(f, store[k], v_or_delta) ELSE v_or_delta

\* The entries a request sets, and those it erases.
Sets(store, r, f) ==
  CASE r.op \in {"push", "push_multi"} -> [k \in r.keys |-> r.val]
    [] r.op \in UpdateOps ->
         [k \in r.keys |-> kv_update(store, k, r.val, f)]
    [] OTHER -> <<>>

Erases(store, r, f) ==
  CASE r.op = "remove" -> r.keys \cap DOMAIN store
    [] r.op = "remove_special" ->
         {k \in DOMAIN store : Passes(f, k, store[k])}
    [] r.op = "clear" -> DOMAIN store
    [] OTHER -> {}

\* What it answers: the new values of a bupdate, whether remove found the key.
WriteAnswer(store, r, f) ==
  CASE r.op \in UpdateOps -> Answer(TRUE, Sets(store, r, f))
    [] r.op = "remove"    -> Answer(r.keys \subseteq DOMAIN store, <<>>)
    [] OTHER              -> Answer(TRUE, <<>>)

Plan(store, r, f) ==
  [sets |-> Sets(store, r, f), erases |-> Erases(store, r, f),
   ans |-> WriteAnswer(store, r, f)]

\* kvs::set and kvs::del for each entry of a plan.
Perform(store, p) ==
  [k \in (DOMAIN store \cup DOMAIN p.sets) \ p.erases |->
     IF k \in DOMAIN p.sets THEN p.sets[k] ELSE store[k]]

-----------------------------------------------------------------------------
\* The function a request runs with: its own, else the one the thread kept from
\* an earlier request of any client, else (updates only) the default.
InForce(r, kept) ==
  IF r.f # NoFunc THEN r.f
  ELSE IF kept = NoFunc /\ r.op \in UpdateOps THEN DefaultIncr
  ELSE kept
=============================================================================
