------------------------------ MODULE SSPClock ------------------------------
(***************************************************************************)
(* The stale-synchronous-parallel (SSP) clock of paracel.                  *)
(*                                                                         *)
(* Worker side (include/ps.hpp): the paralg constructor, paracel_read with *)
(* its staleness gate and cache, paracel_bupdate as far as it refreshes    *)
(* the cache, iter_commit.  Server side (include/server.hpp): the thread   *)
(* thrd_exec_ssp that owns the table ssp_tbl.  In between, one REQ/REP     *)
(* socket per worker (p_ssp_sock of include/client.hpp): lock-step, so     *)
(* each worker has at most one message under way.                          *)
(*                                                                         *)
(* Data is abstracted to what the staleness properties tell apart: a       *)
(* parameter value is the value server_clock had when it left the server.  *)
(***************************************************************************)
EXTENDS Integers, FiniteSets

CONSTANTS Workers,      \* the MPI ranks of worker_comm
          Rank0,        \* the rank that publishes "worker_sz"
          Keys,         \* the parameters the algorithm reads every round
          LimitS,       \* limit_s
          TotalIters    \* total_iters: the rounds of the algorithm

ASSUME WorkersAssumption == IsFiniteSet(Workers) /\ Rank0 \in Workers
ASSUME KeysAssumption    == Keys # {}
ASSUME LimitSAssumption  == LimitS \in Nat
ASSUME ItersAssumption   == TotalIters \in Nat \ {0}

VARIABLES
  server_clock,   \* ssp_tbl["server_clock"]
  worker_sz,      \* ssp_tbl["worker_sz"]
  client_clock,   \* ssp_tbl["client_clock_<i>"], by slot i
  sock,           \* the message on each worker's p_ssp_sock
  pc,             \* where each worker is
  clock,          \* paralg::clock
  stale_cache,    \* paralg::stale_cache
  cached_para,    \* version of each parameter in paralg::cached_para
  todo,           \* keys the algorithm has not read yet in this round
  rkey,           \* the key of the paracel_read under way or last returned
  seen            \* the version that paracel_read returned last

ssp_tbl    == <<server_clock, worker_sz, client_clock>>
workerVars == <<pc, clock, stale_cache, cached_para, todo, rkey, seen>>
vars       == <<ssp_tbl, sock, workerVars>>

\* An absent table entry.  kvs::get returns boost::none for it, which compares
\* below every stored value; so does -1, since only naturals are stored.
NoKey == -1

N == Cardinality(Workers)

\* The suffixes that iter_commit can put after "client_clock_".
Slots == IF LimitS = 0 THEN {0} ELSE 0 .. (LimitS - 1)

PCs == {"ctor", "push_int", "sync", "body", "gate", "pull_int", "commit",
        "retire", "done"}

Ops == {"idle", "push_int", "incr_int", "pull_int", "reply"}

Message == [op: Ops, key: {"server_clock", "worker_sz", "client_clock"},
            slot: Slots, val: Int]

Msg(op, key, slot, val) ==
  [op |-> op, key |-> key, slot |-> slot, val |-> val]

Idle     == Msg("idle", "server_clock", 0, 0)
Reply(v) == Msg("reply", "server_clock", 0, v)

-----------------------------------------------------------------------------
Init ==
  /\ server_clock = 0           \* thrd_exec_ssp, before its first recv
  /\ worker_sz = NoKey
  /\ client_clock = [i \in Slots |-> NoKey]
  /\ sock = [w \in Workers |-> Idle]
  /\ pc = [w \in Workers |-> "ctor"]
  /\ clock = [w \in Workers |-> 0]
  /\ stale_cache = [w \in Workers |-> 0]
  /\ cached_para = [w \in Workers |-> [k \in Keys |-> NoKey]]
  /\ todo = [w \in Workers |-> Keys]
  /\ rkey = [w \in Workers |-> CHOOSE k \in Keys : TRUE]
  /\ seen = [w \in Workers |-> NoKey]

Goto(w, label) == pc' = [pc EXCEPT ![w] = label]
Send(w, m)     == sock' = [sock EXCEPT ![w] = m]
Receive(w)     == sock[w].op = "reply" /\ Send(w, Idle)

-----------------------------------------------------------------------------
(***************************************************************************)
(* The paralg constructor: rank 0 publishes the number of workers, then    *)
(* everyone meets in paracel_sync.                                         *)
(***************************************************************************)
Construct(w) ==
  /\ pc[w] = "ctor"
  /\ IF w = Rank0
     THEN Send(w, Msg("push_int", "worker_sz", 0, N)) /\ Goto(w, "push_int")
     ELSE UNCHANGED sock /\ Goto(w, "sync")
  /\ UNCHANGED <<ssp_tbl, clock, stale_cache, cached_para, todo, rkey, seen>>

ConstructReply(w) ==
  /\ pc[w] = "push_int"
  /\ Receive(w)
  /\ Goto(w, "sync")
  /\ UNCHANGED <<ssp_tbl, clock, stale_cache, cached_para, todo, rkey, seen>>

\* Mutant: a barrier that does not wait for rank 0's push_int.
ParacelSyncEarly ==
  /\ \E w \in Workers : pc[w] = "sync"
  /\ pc' = [w \in Workers |-> IF pc[w] = "sync" THEN "body" ELSE pc[w]]
  /\ UNCHANGED <<ssp_tbl, sock, clock, stale_cache, cached_para, todo, rkey,
                 seen>>

\* MPI_Barrier: nobody leaves before everybody has come.
ParacelSync ==
  /\ \A w \in Workers : pc[w] = "sync"
  /\ pc' = [w \in Workers |-> "body"]
  /\ UNCHANGED <<ssp_tbl, sock, clock, stale_cache, cached_para, todo, rkey,
                 seen>>

-----------------------------------------------------------------------------
(***************************************************************************)
(* paracel_read.  The algorithm reads each key at most once per round.     *)
(***************************************************************************)

\* The value the parameter threads of the server would send now.
Pull(w, k) ==
  /\ cached_para' = [cached_para EXCEPT ![w][k] = server_clock]
  /\ seen' = [seen EXCEPT ![w] = server_clock]

\* stale_cache + limit_s > clock: the cached copy is used without asking.
CacheHit(w) == stale_cache[w] + LimitS > clock[w]

\* Mutant: the gate lets a worker through one clock too early.
TooFarAheadByOne(w) == stale_cache[w] + LimitS + 1 < clock[w]

\* The condition of the while loop around pull_int("server_clock").
TooFarAhead(w) == stale_cache[w] + LimitS < clock[w]

ParacelRead(w, k) ==
  /\ pc[w] = "body" /\ k \in todo[w]
  /\ todo' = [todo EXCEPT ![w] = @ \ {k}]
  /\ rkey' = [rkey EXCEPT ![w] = k]
  /\ \/ /\ clock[w] \in {0, TotalIters}
        /\ Pull(w, k)
        /\ UNCHANGED pc
     \/ /\ clock[w] \notin {0, TotalIters} /\ CacheHit(w)
        /\ seen' = [seen EXCEPT ![w] = cached_para[w][k]]
        /\ UNCHANGED <<pc, cached_para>>
     \/ /\ clock[w] \notin {0, TotalIters} /\ ~CacheHit(w)
        /\ Goto(w, "gate")
        /\ UNCHANGED <<cached_para, seen>>
  /\ UNCHANGED <<ssp_tbl, sock, clock, stale_cache>>

\* Mutant: after the loop the cached copy is returned without a fresh pull.
GateNoPull(w) ==
  /\ pc[w] = "gate"
  /\ IF TooFarAhead(w)
     THEN /\ Send(w, Msg("pull_int", "server_clock", 0, 0))
          /\ Goto(w, "pull_int")
          /\ UNCHANGED seen
     ELSE /\ seen' = [seen EXCEPT ![w] = cached_para[w][rkey[w]]]
          /\ Goto(w, "body")
          /\ UNCHANGED sock
  /\ UNCHANGED <<ssp_tbl, clock, stale_cache, cached_para, todo, rkey>>

\* One evaluation of the loop condition: ask for the server clock, or leave
\* the loop and pull the parameter.
Gate(w) ==
  /\ pc[w] = "gate"
  /\ IF TooFarAhead(w)
     THEN /\ Send(w, Msg("pull_int", "server_clock", 0, 0))
          /\ Goto(w, "pull_int")
          /\ UNCHANGED <<cached_para, seen>>
     ELSE /\ Pull(w, rkey[w])
          /\ Goto(w, "body")
          /\ UNCHANGED sock
  /\ UNCHANGED <<ssp_tbl, clock, stale_cache, todo, rkey>>

GateReply(w) ==
  /\ pc[w] = "pull_int"
  /\ Receive(w)
  /\ stale_cache' = [stale_cache EXCEPT ![w] = sock[w].val]
  /\ Goto(w, "gate")
  /\ UNCHANGED <<ssp_tbl, clock, cached_para, todo, rkey, seen>>

\* paracel_bupdate: the reply carries the new value, which replaces the
\* cached copy.
BUpdate(w, k) ==
  /\ pc[w] = "body" /\ todo[w] # Keys /\ clock[w] < TotalIters
  /\ cached_para' = [cached_para EXCEPT ![w][k] = server_clock]
  /\ UNCHANGED <<ssp_tbl, sock, pc, clock, stale_cache, todo, rkey, seen>>

-----------------------------------------------------------------------------
(***************************************************************************)
(* iter_commit.  An algorithm reads at least once per round, and every key *)
(* in round 0, before it commits (alg/logistic_regression/lg_ssp.cpp).     *)
(***************************************************************************)
ClockSlot(c) == IF LimitS = 0 THEN 0 ELSE c % LimitS

\* Mutant: the algorithm's loop runs one round too many.
IterCommitPastEnd(w) ==
  /\ pc[w] = "body" /\ clock[w] <= TotalIters
  /\ todo[w] # Keys /\ (clock[w] = 0 => todo[w] = {})
  /\ Send(w, Msg("incr_int", "client_clock", ClockSlot(clock[w]), 1))
  /\ Goto(w, "commit")
  /\ UNCHANGED <<ssp_tbl, clock, stale_cache, cached_para, todo, rkey, seen>>

IterCommit(w) ==
  /\ pc[w] = "body" /\ clock[w] < TotalIters
  /\ todo[w] # Keys /\ (clock[w] = 0 => todo[w] = {})
  /\ Send(w, Msg("incr_int", "client_clock", ClockSlot(clock[w]), 1))
  /\ Goto(w, "commit")
  /\ UNCHANGED <<ssp_tbl, clock, stale_cache, cached_para, todo, rkey, seen>>

\* Mutant: total_iters is compared with the clock before its increment.
CommitReplyNoRetire(w) ==
  /\ pc[w] = "commit"
  /\ sock[w].op = "reply"
  /\ clock' = [clock EXCEPT ![w] = @ + 1]
  /\ todo' = [todo EXCEPT ![w] = Keys]
  /\ IF clock[w] = TotalIters
     THEN Send(w, Msg("incr_int", "worker_sz", 0, -1)) /\ Goto(w, "retire")
     ELSE Send(w, Idle) /\ Goto(w, "body")
  /\ UNCHANGED <<ssp_tbl, stale_cache, cached_para, rkey, seen>>

\* Mutant: the clock itself wraps around with the slots.
CommitReplyWrap(w) ==
  /\ pc[w] = "commit"
  /\ sock[w].op = "reply"
  /\ clock' = [clock EXCEPT ![w] = (@ + 1) % (LimitS + 1)]
  /\ todo' = [todo EXCEPT ![w] = Keys]
  /\ Send(w, Idle) /\ Goto(w, "body")
  /\ UNCHANGED <<ssp_tbl, stale_cache, cached_para, rkey, seen>>

\* The commit is acknowledged: clock += 1; the last one also retires the
\* worker from worker_sz.
CommitReply(w) ==
  /\ pc[w] = "commit"
  /\ sock[w].op = "reply"
  /\ clock' = [clock EXCEPT ![w] = @ + 1]
  /\ todo' = [todo EXCEPT ![w] = Keys]
  /\ IF clock[w] + 1 = TotalIters
     THEN Send(w, Msg("incr_int", "worker_sz", 0, -1)) /\ Goto(w, "retire")
     ELSE Send(w, Idle) /\ Goto(w, "body")
  /\ UNCHANGED <<ssp_tbl, stale_cache, cached_para, rkey, seen>>

RetireReply(w) ==
  /\ pc[w] = "retire"
  /\ Receive(w)
  /\ Goto(w, "body")
  /\ UNCHANGED <<ssp_tbl, clock, stale_cache, cached_para, todo, rkey, seen>>

\* After the last pull the algorithm returns.
Finish(w) ==
  /\ pc[w] = "body" /\ clock[w] = TotalIters /\ todo[w] = {}
  /\ Goto(w, "done")
  /\ UNCHANGED <<ssp_tbl, sock, clock, stale_cache, cached_para, todo, rkey,
                 seen>>

-----------------------------------------------------------------------------
(***************************************************************************)
(* thrd_exec_ssp: one request at a time, from any worker.                  *)
(***************************************************************************)
PushInt(w) ==
  /\ sock[w].op = "push_int"
  /\ worker_sz' = sock[w].val
  /\ Send(w, Reply(1))
  /\ UNCHANGED <<server_clock, client_clock, workerVars>>

\* Mutant: the slot is compared with worker_sz for equality, which the extra
\* increment jumps over.
IncrClientClockEq(w) ==
  LET i     == sock[w].slot
      count == IF client_clock[i] # NoKey THEN client_clock[i] + 1 ELSE 1
      full  == count = worker_sz
  IN /\ sock[w].op = "incr_int" /\ sock[w].key = "client_clock"
     /\ server_clock' = IF full THEN server_clock + 1 ELSE server_clock
     /\ client_clock' = [client_clock EXCEPT
                           ![i] = (IF full THEN 0 ELSE count) + sock[w].val]
     /\ Send(w, Reply(1))
     /\ UNCHANGED <<worker_sz, workerVars>>

\* "client_clock_<i>": count the commit, advance server_clock when the slot
\* has reached worker_sz, then fall through to the increment by delta.
IncrClientClock(w) ==
  LET i     == sock[w].slot
      count == IF client_clock[i] # NoKey THEN client_clock[i] + 1 ELSE 1
      full  == count >= worker_sz
  IN /\ sock[w].op = "incr_int" /\ sock[w].key = "client_clock"
     /\ server_clock' = IF full THEN server_clock + 1 ELSE server_clock
     /\ client_clock' = [client_clock EXCEPT
                           ![i] = (IF full THEN 0 ELSE count) + sock[w].val]
     /\ Send(w, Reply(1))
     /\ UNCHANGED <<worker_sz, workerVars>>

\* Any other key: kvs::incr, which does nothing when the key is absent.
IncrWorkerSz(w) ==
  /\ sock[w].op = "incr_int" /\ sock[w].key = "worker_sz"
  /\ worker_sz' = IF worker_sz = NoKey THEN NoKey ELSE worker_sz + sock[w].val
  /\ Send(w, Reply(1))
  /\ UNCHANGED <<server_clock, client_clock, workerVars>>

PullInt(w) ==
  /\ sock[w].op = "pull_int"
  /\ Send(w, Reply(server_clock))
  /\ UNCHANGED <<ssp_tbl, workerVars>>

-----------------------------------------------------------------------------
WorkerStep(w) ==
  \/ Construct(w) \/ ConstructReply(w)
  \/ \E k \in Keys : ParacelRead(w, k)
  \/ Gate(w) \/ GateReply(w)
  \/ IterCommit(w) \/ CommitReply(w) \/ RetireReply(w) \/ Finish(w)

ServerStep(w) ==
  PushInt(w) \/ IncrClientClock(w) \/ IncrWorkerSz(w) \/ PullInt(w)

Terminated == /\ \A w \in Workers : pc[w] = "done"
              /\ UNCHANGED vars

Next ==
  \/ ParacelSync
  \/ \E w \in Workers : WorkerStep(w) \/ ServerStep(w)
  \/ \E w \in Workers, k \in Keys : BUpdate(w, k)
  \/ Terminated

\* Workers and the server thread run; zmq fair-queues the requests of the
\* workers, so none of them waits at the server for ever.
Fairness ==
  /\ WF_vars(ParacelSync)
  /\ \A w \in Workers : WF_vars(WorkerStep(w)) /\ WF_vars(ServerStep(w))

Safety == Init /\ [][Next]_vars
Spec == Safety /\ Fairness

-----------------------------------------------------------------------------
(***************************************************************************)
(* Properties.                                                             *)
(***************************************************************************)

TypeOK ==
  /\ server_clock \in Nat
  /\ worker_sz \in Int
  /\ client_clock \in [Slots -> Int]
  /\ sock \in [Workers -> Message]
  /\ pc \in [Workers -> PCs]
  /\ clock \in [Workers -> 0 .. TotalIters]
  /\ stale_cache \in [Workers -> Int]
  /\ cached_para \in [Workers -> [Keys -> Int]]
  /\ todo \in [Workers -> SUBSET Keys]
  /\ rkey \in [Workers -> Keys]
  /\ seen \in [Workers -> Int]

\* In the middle of a round the gate applies to: some paracel_read of the
\* round has returned, and it was neither in round 0 nor the last pull.
PastGate(w) ==
  /\ pc[w] = "body" /\ todo[w] # Keys
  /\ clock[w] \notin {0, TotalIters}

\* How many commits of worker w the server has counted.
Committed(w) ==
  IF pc[w] = "commit" /\ sock[w].op = "reply" THEN clock[w] + 1 ELSE clock[w]

\* A worker whose paracel_read has returned is at most limit_s clocks ahead of
\* server_clock (the gate of paracel_read, with the stale value it compares).
LeadBound ==
  \A w \in Workers : PastGate(w) => clock[w] <= server_clock + LimitS

\* The value a paracel_read returned is at most limit_s clocks old: it left the
\* server when server_clock was at least clock - limit_s.
FreshRead ==
  \A w \in Workers : PastGate(w) => clock[w] <= seen[w] + LimitS

\* ps.hpp: "pull from server until leading slowest less than s clocks" (weakly
\* read, as: at most s clocks): after a paracel_read nobody leads the slowest
\* worker by more than limit_s.
BoundedStaleness ==
  \A w, v \in Workers : PastGate(w) => clock[w] <= Committed(v) + LimitS

\* server_clock never falls behind the slowest worker: the slots reused by
\* different rounds, the increments after a reset and the retirement of workers
\* never lose a round.  Otherwise a worker would spin in the gate for ever.
ServerKeepsUp ==
  \E w \in Workers : Committed(w) <= server_clock

\* worker_sz counts exactly the workers whose retirement the server has not yet
\* seen, from the barrier in the constructor on; and a commit on its way finds a
\* threshold it can count up to: worker_sz was published and the committing
\* worker is still counted in it.
Retired(w) == /\ clock[w] = TotalIters
              /\ pc[w] = "retire" => sock[w].op = "reply"

WorkerSzCounts ==
  /\ (\A w \in Workers : pc[w] \notin {"ctor", "push_int"})
       => worker_sz = Cardinality({w \in Workers : ~Retired(w)})
  /\ \A w \in Workers : sock[w].key = "client_clock" => worker_sz >= 1

\* A step never takes server_clock, a worker's clock or its stale_cache back.
ClocksMonotone ==
  [][ /\ server_clock' >= server_clock
      /\ \A w \in Workers : /\ clock'[w] >= clock[w]
                            /\ stale_cache'[w] >= stale_cache[w] ]_vars

\* Every worker gets through all its rounds and its last pull: nobody spins in
\* the gate of paracel_read for ever.
EveryoneFinishes == <>(\A w \in Workers : pc[w] = "done")
=============================================================================
