---------------------------- MODULE MCParamServer ----------------------------
(* Small instances of ParamServer.                                          *)
EXTENDS ParamServer, TLC

CONSTANTS k1, k2

MCValues   == {1, 2}
MCLoadable == {"default_incr_i", "max", "big"}
MCFuncs    == MCLoadable \cup {"lost"}

\* Update functions of integers, and "big", a filter on the value.
MCApply(f, val, delta) ==
  IF f = "max" THEN (IF val > delta THEN val ELSE delta) ELSE val + delta

MCPasses(f, key, val) == val > 1

R(op, ks, v, f) == [op |-> op, keys |-> ks, val |-> v, f |-> f]

\* Two threads that add 1 to the same key.
CountMenu ==
  {R("update", {k1}, 1, NoFunc), R("bupdate", {k1}, 1, NoFunc)}

\* Writers on all four threads, with functions that stick to a thread.
WriteMenu ==
  { R("register_update", {}, 1, "max"), R("register_bupdate", {}, 1, "max"),
    R("push", {k1}, 2, NoFunc),
    R("update", {k1}, 1, NoFunc),       R("update", {k1}, 2, "max"),
    R("bupdate", {k1}, 1, NoFunc),      R("bupdate_multi", {k1, k2}, 1, "max"),
    R("register_update", {}, 1, "lost"),
    R("remove", {k1}, 1, NoFunc),       R("clear", {}, 1, NoFunc) }

\* Readers and filters against a few writers.
ReadMenu ==
  { R("contains", {k1}, 1, NoFunc),     R("pull", {k1}, 1, NoFunc),
    R("pull_multi", {k1, k2}, 1, NoFunc), R("pullall", Keys, 1, NoFunc),
    R("pullall_special", Keys, 1, NoFunc), R("pullall_special", Keys, 1, "big"),
    R("pullall_special", Keys, 1, "lost"),
    R("register_pullall_special", {}, 1, "big"),
    R("register_remove_special", {}, 1, "big"),
    R("push_multi", {k1, k2}, 2, NoFunc),
    R("remove_special", {}, 1, NoFunc), R("remove_special", {}, 1, "big") }
=============================================================================
