--------------------------- MODULE SSPClockProofs ---------------------------
(***************************************************************************)
(* TLAPS proofs about SSPClock, for any number of workers, keys, rounds    *)
(* and any limit_s.                                                        *)
(***************************************************************************)
EXTENDS SSPClock, FiniteSetTheorems, TLAPS

LEMMA SlotZero == 0 \in Slots
  BY LimitSAssumption DEF Slots

LEMMA ClockSlotType == \A c \in Nat : ClockSlot(c) \in Slots
  BY LimitSAssumption DEF ClockSlot, Slots

LEMMA NType == N \in Nat /\ N >= 1
<1>1. N \in Nat
  BY WorkersAssumption, FS_CardinalityType DEF N
<1>2. N # 0
  BY WorkersAssumption, FS_EmptySet DEF N
<1> QED  BY <1>1, <1>2

LEMMA MessageTypes ==
  /\ Idle \in Message
  /\ \A v \in Int : Reply(v) \in Message
  /\ Msg("push_int", "worker_sz", 0, N) \in Message
  /\ Msg("pull_int", "server_clock", 0, 0) \in Message
  /\ Msg("incr_int", "worker_sz", 0, -1) \in Message
  /\ \A c \in Nat : Msg("incr_int", "client_clock", ClockSlot(c), 1) \in Message
  BY SlotZero, ClockSlotType, NType DEF Message, Msg, Idle, Reply, Ops

(***************************************************************************)
(* Type correctness.  TypeOK bounds clock by total_iters; what keeps a     *)
(* commit from overshooting is that it starts below total_iters.           *)
(***************************************************************************)
CommitBelow == \A w \in Workers : pc[w] = "commit" => clock[w] < TotalIters

TInv == TypeOK /\ CommitBelow

LEMMA InitTInv == Init => TInv
  BY SlotZero, MessageTypes, KeysAssumption, ItersAssumption
  DEF Init, TInv, TypeOK, CommitBelow, PCs, NoKey

LEMMA StepCommitBelow == TInv /\ [Next]_vars => CommitBelow'
<1> SUFFICES ASSUME TypeOK, CommitBelow, [Next]_vars PROVE CommitBelow'
  BY DEF TInv
<1> USE DEF TypeOK, CommitBelow
<1>1. CASE ParacelSync
  BY <1>1 DEF ParacelSync
<1>2. ASSUME NEW w \in Workers, WorkerStep(w) PROVE CommitBelow'
  BY <1>2 DEF WorkerStep, Construct, ConstructReply, ParacelRead, Gate,
              GateReply, IterCommit, CommitReply, RetireReply, Finish, Goto
<1>3. ASSUME NEW w \in Workers, ServerStep(w) PROVE CommitBelow'
  BY <1>3 DEF ServerStep, PushInt, IncrClientClock, IncrWorkerSz, PullInt,
              workerVars
<1>4. ASSUME NEW w \in Workers, NEW k \in Keys, BUpdate(w, k)
      PROVE  CommitBelow'
  BY <1>4 DEF BUpdate
<1>5. CASE UNCHANGED vars
  BY <1>5 DEF vars, workerVars
<1> QED
  BY <1>1, <1>2, <1>3, <1>4, <1>5 DEF Next, Terminated

LEMMA StepTypeOK == TInv /\ [Next]_vars => TypeOK'
<1> SUFFICES ASSUME TypeOK, CommitBelow, [Next]_vars PROVE TypeOK'
  BY DEF TInv
<1> USE DEF TypeOK
<1>1. CASE ParacelSync
  BY <1>1 DEF ParacelSync, ssp_tbl, PCs
<1>2. ASSUME NEW w \in Workers, Construct(w) PROVE TypeOK'
  BY <1>2, MessageTypes DEF Construct, Send, Goto, ssp_tbl, PCs
<1>3. ASSUME NEW w \in Workers, ConstructReply(w) PROVE TypeOK'
  BY <1>3, MessageTypes DEF ConstructReply, Receive, Send, Goto, ssp_tbl, PCs
<1>4. ASSUME NEW w \in Workers, NEW k \in Keys, ParacelRead(w, k) PROVE TypeOK'
  <2>1. seen' \in [Workers -> Int]
    BY <1>4 DEF ParacelRead, Pull
  <2>3. cached_para' \in [Workers -> [Keys -> Int]]
    <3>1. CASE Pull(w, k)
      BY <3>1 DEF Pull
    <3>2. CASE UNCHANGED cached_para
      BY <3>2
    <3> QED  BY <1>4, <3>1, <3>2 DEF ParacelRead
  <2>2. pc' \in [Workers -> PCs]
    BY <1>4 DEF ParacelRead, Goto, PCs
  <2> QED  BY <1>4, <2>1, <2>2, <2>3 DEF ParacelRead, ssp_tbl
<1>5. ASSUME NEW w \in Workers, Gate(w) PROVE TypeOK'
  <2>1. CASE TooFarAhead(w)
    BY <1>5, <2>1, MessageTypes DEF Gate, Send, Goto, ssp_tbl, PCs
  <2>2. CASE ~TooFarAhead(w)
    <3>1. /\ cached_para' \in [Workers -> [Keys -> Int]]
          /\ seen' \in [Workers -> Int]
      BY <1>5, <2>2 DEF Gate, Pull
    <3> QED  BY <1>5, <2>2, <3>1 DEF Gate, Goto, ssp_tbl, PCs
  <2> QED  BY <2>1, <2>2
<1>6. ASSUME NEW w \in Workers, GateReply(w) PROVE TypeOK'
  BY <1>6, MessageTypes DEF GateReply, Receive, Send, Goto, ssp_tbl, PCs, Message
<1>7. ASSUME NEW w \in Workers, NEW k \in Keys, BUpdate(w, k) PROVE TypeOK'
  BY <1>7 DEF BUpdate, ssp_tbl
<1>8. ASSUME NEW w \in Workers, IterCommit(w) PROVE TypeOK'
  BY <1>8, MessageTypes DEF IterCommit, Send, Goto, ssp_tbl, PCs
<1>9. ASSUME NEW w \in Workers, CommitReply(w) PROVE TypeOK'
  <2>1. clock[w] + 1 \in 0 .. TotalIters
    BY <1>9, ItersAssumption DEF CommitReply, CommitBelow
  <2>2. sock' \in [Workers -> Message]
    BY <1>9, MessageTypes DEF CommitReply, Send
  <2>3. pc' \in [Workers -> PCs]
    BY <1>9 DEF CommitReply, Goto, PCs
  <2>4. clock' \in [Workers -> 0 .. TotalIters]
    BY <1>9, <2>1 DEF CommitReply
  <2> QED  BY <1>9, <2>2, <2>3, <2>4 DEF CommitReply, ssp_tbl
<1>10. ASSUME NEW w \in Workers, RetireReply(w) PROVE TypeOK'
  BY <1>10, MessageTypes DEF RetireReply, Receive, Send, Goto, ssp_tbl, PCs
<1>11. ASSUME NEW w \in Workers, Finish(w) PROVE TypeOK'
  BY <1>11 DEF Finish, Goto, ssp_tbl, PCs
<1>12. ASSUME NEW w \in Workers, PushInt(w) PROVE TypeOK'
  <2>1. sock' \in [Workers -> Message]
    BY <1>12, MessageTypes DEF PushInt, Send
  <2>2. worker_sz' \in Int
    BY <1>12 DEF PushInt, Message
  <2> QED  BY <1>12, <2>1, <2>2 DEF PushInt, workerVars
<1>13. ASSUME NEW w \in Workers, IncrClientClock(w) PROVE TypeOK'
  <2>1. sock' \in [Workers -> Message]
    BY <1>13, MessageTypes DEF IncrClientClock, Send
  <2>2. sock[w].val \in Int /\ sock[w].slot \in Slots
    BY DEF Message
  <2>3. server_clock' \in Nat /\ client_clock' \in [Slots -> Int]
    BY <1>13, <2>2 DEF IncrClientClock
  <2> QED  BY <1>13, <2>1, <2>3 DEF IncrClientClock, workerVars
<1>14. ASSUME NEW w \in Workers, IncrWorkerSz(w) PROVE TypeOK'
  <2>1. sock' \in [Workers -> Message]
    BY <1>14, MessageTypes DEF IncrWorkerSz, Send
  <2>2. worker_sz' \in Int
    BY <1>14 DEF IncrWorkerSz, Message, NoKey
  <2> QED  BY <1>14, <2>1, <2>2 DEF IncrWorkerSz, workerVars
<1>15. ASSUME NEW w \in Workers, PullInt(w) PROVE TypeOK'
  <2>1. sock' \in [Workers -> Message]
    BY <1>15, MessageTypes DEF PullInt, Send
  <2> QED  BY <1>15, <2>1 DEF PullInt, workerVars, ssp_tbl
<1>16. CASE UNCHANGED vars
  BY <1>16 DEF vars, ssp_tbl, workerVars
<1> QED
  BY <1>1, <1>2, <1>3, <1>4, <1>5, <1>6, <1>7, <1>8, <1>9, <1>10, <1>11,
     <1>12, <1>13, <1>14, <1>15, <1>16
  DEF Next, WorkerStep, ServerStep, Terminated

\* The state of the clock protocol keeps its types; in particular no worker
\* counts more rounds than total_iters.
THEOREM TypeCorrect == Safety => []TypeOK
<1>1. Init => TInv
  BY InitTInv
<1>2. TInv /\ [Next]_vars => TInv'
  BY StepTypeOK, StepCommitBelow DEF TInv
<1>3. TInv => TypeOK
  BY DEF TInv
<1> QED  BY <1>1, <1>2, <1>3, PTL DEF Safety

LEMMA TypeInvariant == Safety => []TInv
<1>1. TInv /\ [Next]_vars => TInv'
  BY StepTypeOK, StepCommitBelow DEF TInv
<1> QED  BY <1>1, InitTInv, PTL DEF Safety

-----------------------------------------------------------------------------
(***************************************************************************)
(* The lock-step of the REQ socket: while a worker waits, its socket holds *)
(* the request that its program counter tells, or the answer; otherwise    *)
(* nothing.                                                                *)
(***************************************************************************)
SockInv ==
  \A w \in Workers :
    /\ pc[w] \notin {"push_int", "pull_int", "commit", "retire"}
         => sock[w] = Idle
    /\ pc[w] = "push_int"
         => \/ sock[w] = Msg("push_int", "worker_sz", 0, N)
            \/ sock[w].op = "reply" /\ sock[w].key = "server_clock"
    /\ pc[w] = "pull_int"
         => \/ sock[w] = Msg("pull_int", "server_clock", 0, 0)
            \/ sock[w].op = "reply" /\ sock[w].key = "server_clock"
    /\ pc[w] = "commit"
         => \/ sock[w] = Msg("incr_int", "client_clock", ClockSlot(clock[w]), 1)
            \/ sock[w].op = "reply" /\ sock[w].key = "server_clock"
    /\ pc[w] = "retire"
         => \/ sock[w] = Msg("incr_int", "worker_sz", 0, -1)
            \/ sock[w].op = "reply" /\ sock[w].key = "server_clock"

LEMMA StepSockInv == TInv /\ SockInv /\ [Next]_vars => SockInv'
<1> SUFFICES ASSUME TypeOK, SockInv, [Next]_vars PROVE SockInv'
  BY DEF TInv
<1> USE DEF TypeOK, SockInv
<1>1. CASE ParacelSync
  BY <1>1 DEF ParacelSync
<1>2. ASSUME NEW w \in Workers, WorkerStep(w) PROVE SockInv'
  <2>1. CASE Construct(w)
    <3>1. CASE w = Rank0
      <4>1. /\ pc' = [pc EXCEPT ![w] = "push_int"] /\ UNCHANGED clock
            /\ sock' = [sock EXCEPT ![w] = Msg("push_int", "worker_sz", 0, N)]
        BY <2>1, <3>1 DEF Construct, Send, Goto
      <4> QED  BY <4>1
    <3>2. CASE w # Rank0
      BY <2>1, <3>2 DEF Construct, Goto
    <3> QED  BY <3>1, <3>2
  <2>2. CASE ConstructReply(w)
    BY <2>2 DEF ConstructReply, Receive, Send, Goto
  <2>3. CASE \E k \in Keys : ParacelRead(w, k)
    <3>1. /\ pc[w] = "body" /\ pc'[w] \in {"body", "gate"}
          /\ \A v \in Workers \ {w} : pc'[v] = pc[v]
          /\ UNCHANGED <<sock, clock>>
      BY <2>3 DEF ParacelRead, Goto
    <3> HIDE DEF TypeOK
    <3> QED  BY <3>1
  <2>4. CASE Gate(w)
    BY <2>4 DEF Gate, Send, Goto
  <2>5. CASE GateReply(w)
    BY <2>5 DEF GateReply, Receive, Send, Goto
  <2>6. CASE IterCommit(w)
    BY <2>6 DEF IterCommit, Send, Goto
  <2>7. CASE CommitReply(w)
    BY <2>7 DEF CommitReply, Send, Goto
  <2>8. CASE RetireReply(w)
    BY <2>8 DEF RetireReply, Receive, Send, Goto
  <2>9. CASE Finish(w)
    BY <2>9 DEF Finish, Goto
  <2> QED  BY <1>2, <2>1, <2>2, <2>3, <2>4, <2>5, <2>6, <2>7, <2>8, <2>9
           DEF WorkerStep
<1>3. ASSUME NEW w \in Workers, ServerStep(w) PROVE SockInv'
  <2>1. \E v : sock' = [sock EXCEPT ![w] = Reply(v)]
    BY <1>3 DEF ServerStep, PushInt, IncrClientClock, IncrWorkerSz, PullInt, Send
  <2>2. UNCHANGED <<pc, clock>>
    BY <1>3 DEF ServerStep, PushInt, IncrClientClock, IncrWorkerSz, PullInt,
                workerVars
  <2>3. sock[w] # Idle
    BY <1>3 DEF ServerStep, PushInt, IncrClientClock, IncrWorkerSz, PullInt,
                Idle, Msg
  <2> QED  BY <2>1, <2>2, <2>3 DEF Reply, Msg
<1>4. ASSUME NEW w \in Workers, NEW k \in Keys, BUpdate(w, k) PROVE SockInv'
  BY <1>4 DEF BUpdate
<1>5. CASE UNCHANGED vars
  BY <1>5 DEF vars, workerVars
<1> QED
  BY <1>1, <1>2, <1>3, <1>4, <1>5 DEF Next, Terminated

-----------------------------------------------------------------------------
(***************************************************************************)
(* What the gate of paracel_read maintains.  stale_cache is an old value   *)
(* of server_clock, hence a lower bound of it; an answer on its way is a   *)
(* newer one; and a worker past the gate is within limit_s of it.          *)
(***************************************************************************)
GateInv ==
  \A w \in Workers :
    /\ 0 <= stale_cache[w] /\ stale_cache[w] <= server_clock
    /\ pc[w] = "pull_int" /\ sock[w].op = "reply"
         => stale_cache[w] <= sock[w].val /\ sock[w].val <= server_clock
    /\ pc[w] \in {"gate", "pull_int"} => clock[w] \notin {0, TotalIters}
    /\ pc[w] \in {"ctor", "push_int", "sync"} => clock[w] = 0
    /\ pc[w] = "retire" => clock[w] = TotalIters
    /\ clock[w] = 0 => stale_cache[w] = 0
    /\ PastGate(w) => clock[w] <= stale_cache[w] + LimitS

LEMMA StepGateInv == TInv /\ SockInv /\ GateInv /\ [Next]_vars => GateInv'
<1> SUFFICES ASSUME TypeOK, CommitBelow, SockInv, GateInv, [Next]_vars
             PROVE  GateInv'
  BY DEF TInv
<1> USE LimitSAssumption, ItersAssumption DEF TypeOK, GateInv, PastGate
<1>1. CASE ParacelSync
  BY <1>1 DEF ParacelSync, ssp_tbl
<1>2. ASSUME NEW w \in Workers, WorkerStep(w) PROVE GateInv'
  <2>1. CASE Construct(w)
    BY <2>1 DEF Construct, Send, Goto, ssp_tbl
  <2>2. CASE ConstructReply(w)
    BY <2>2 DEF ConstructReply, Receive, Send, Goto, ssp_tbl
  <2>3. ASSUME NEW k \in Keys, ParacelRead(w, k) PROVE GateInv'
    BY <2>3 DEF ParacelRead, CacheHit, Goto, ssp_tbl
  <2>4. CASE Gate(w)
    BY <2>4 DEF Gate, TooFarAhead, Send, Goto, ssp_tbl, Msg
  <2>5. CASE GateReply(w)
    BY <2>5 DEF GateReply, Receive, Send, Goto, ssp_tbl, Message, Idle, Msg
  <2>6. CASE IterCommit(w)
    BY <2>6 DEF IterCommit, Send, Goto, ssp_tbl
  <2>7. CASE CommitReply(w)
    BY <2>7 DEF CommitReply, Send, Goto, ssp_tbl
  <2>8. CASE RetireReply(w)
    BY <2>8 DEF RetireReply, Receive, Send, Goto, ssp_tbl
  <2>9. CASE Finish(w)
    BY <2>9 DEF Finish, Goto, ssp_tbl
  <2> QED  BY <1>2, <2>1, <2>2, <2>3, <2>4, <2>5, <2>6, <2>7, <2>8, <2>9
           DEF WorkerStep
<1>3. ASSUME NEW w \in Workers, PushInt(w) PROVE GateInv'
  BY <1>3 DEF PushInt, SockInv, Send, workerVars, Reply, Msg
<1>4. ASSUME NEW w \in Workers, IncrClientClock(w) PROVE GateInv'
  <2>1. server_clock' \in Int /\ server_clock <= server_clock'
    BY <1>4 DEF IncrClientClock
  <2>2. pc[w] # "pull_int"
    BY <1>4 DEF IncrClientClock, SockInv, Msg
  <2>3. /\ \A v \in Workers \ {w} : sock'[v] = sock[v]
        /\ UNCHANGED workerVars
    BY <1>4 DEF IncrClientClock, Send
  <2>4. \A v \in Workers : sock[v].val \in Int
    BY DEF Message
  <2>5. UNCHANGED <<pc, clock, stale_cache, todo>>
    BY <2>3 DEF workerVars
  <2>6. ASSUME NEW v \in Workers
        PROVE  /\ stale_cache[v] <= server_clock'
               /\ pc[v] = "pull_int" /\ sock'[v].op = "reply"
                    => /\ stale_cache[v] <= sock'[v].val
                       /\ sock'[v].val <= server_clock'
    BY <2>1, <2>2, <2>3, <2>4
  <2> QED  BY <2>5, <2>6
<1>5. ASSUME NEW w \in Workers, IncrWorkerSz(w) PROVE GateInv'
  BY <1>5 DEF IncrWorkerSz, SockInv, Send, workerVars, Reply, Msg
<1>6. ASSUME NEW w \in Workers, PullInt(w) PROVE GateInv'
  BY <1>6 DEF PullInt, Send, workerVars, ssp_tbl, Reply, Msg
<1>7. ASSUME NEW w \in Workers, NEW k \in Keys, BUpdate(w, k) PROVE GateInv'
  BY <1>7 DEF BUpdate, ssp_tbl
<1>8. CASE UNCHANGED vars
  BY <1>8 DEF vars, ssp_tbl, workerVars
<1> QED
  BY <1>1, <1>2, <1>3, <1>4, <1>5, <1>6, <1>7, <1>8
  DEF Next, ServerStep, Terminated

IInv == TInv /\ SockInv /\ GateInv

LEMMA IInvInvariant == Safety => []IInv
<1>1. Init => SockInv /\ GateInv
  BY LimitSAssumption, ItersAssumption DEF Init, SockInv, GateInv, PastGate
<1>2. IInv /\ [Next]_vars => IInv'
  BY StepTypeOK, StepCommitBelow, StepSockInv, StepGateInv DEF IInv, TInv
<1>3. Init => IInv
  BY <1>1, InitTInv DEF IInv
<1> QED  BY <1>2, <1>3, PTL DEF Safety

\* Once a paracel_read has returned in the middle of the run, its worker is at
\* most limit_s clocks ahead of the server clock, although the gate compares
\* with a copy of that clock that may be arbitrarily old.
THEOREM LeadBoundHolds == Safety => []LeadBound
<1>1. IInv => LeadBound
  BY LimitSAssumption DEF IInv, TInv, TypeOK, GateInv, LeadBound, PastGate
<1> QED  BY <1>1, IInvInvariant, PTL

\* No step takes the server clock, a worker's clock or its copy of the server
\* clock back, whatever answers are under way.
THEOREM ClocksNeverGoBack == Safety => ClocksMonotone
<1> DEFINE Step == /\ server_clock' >= server_clock
                   /\ \A w \in Workers : /\ clock'[w] >= clock[w]
                                         /\ stale_cache'[w] >= stale_cache[w]
<1>1. IInv /\ [Next]_vars => [Step]_vars
  <2> SUFFICES ASSUME TypeOK, GateInv, Next PROVE Step
    BY DEF IInv, TInv
  <2> USE DEF TypeOK
  <2>1. CASE UNCHANGED <<server_clock, clock, stale_cache>>
    BY <2>1
  <2>2. ASSUME NEW w \in Workers, GateReply(w) PROVE Step
    BY <2>2 DEF GateReply, GateInv, Receive, Message, ssp_tbl
  <2>3. ASSUME NEW w \in Workers, CommitReply(w) PROVE Step
    BY <2>3 DEF CommitReply, ssp_tbl
  <2>4. ASSUME NEW w \in Workers, IncrClientClock(w) PROVE Step
    BY <2>4 DEF IncrClientClock, workerVars
  <2> QED
    BY <2>1, <2>2, <2>3, <2>4
    DEF Next, WorkerStep, ServerStep, Terminated, ParacelSync, Construct,
        ConstructReply, ParacelRead, Gate, IterCommit, RetireReply, Finish,
        PushInt, IncrWorkerSz, PullInt, BUpdate, vars, ssp_tbl, workerVars
<1> QED  BY <1>1, IInvInvariant, PTL DEF Safety, ClocksMonotone

-----------------------------------------------------------------------------
(***************************************************************************)
(* Freshness of what paracel_read returns, for an algorithm with a single  *)
(* key.  The invariant: a cached copy is never older than stale_cache, so  *)
(* that a hit decided on stale_cache returns a copy that is fresh enough.  *)
(* With two keys it breaks, because a miss on one of them moves the        *)
(* stale_cache they share (run ssp_two_keys).                              *)
(***************************************************************************)
FreshInv ==
  \A w \in Workers :
    /\ pc[w] \notin {"gate", "pull_int"}
         => \A k \in Keys : clock[w] > 0 \/ k \notin todo[w]
                             => cached_para[w][k] >= stale_cache[w]
    /\ pc[w] = "commit" /\ clock[w] = 0 => todo[w] = {}
    /\ PastGate(w) => clock[w] <= seen[w] + LimitS

LEMMA StepFreshInv ==
  ASSUME \A j, k \in Keys : j = k
  PROVE  IInv /\ FreshInv /\ [Next]_vars => FreshInv'
<1> SUFFICES ASSUME TypeOK, GateInv, SockInv, FreshInv, [Next]_vars
             PROVE  FreshInv'
  BY DEF IInv, TInv
<1> USE LimitSAssumption, ItersAssumption DEF TypeOK, FreshInv, PastGate
<1>1. CASE ParacelSync
  BY <1>1 DEF ParacelSync, GateInv, ssp_tbl
<1>2. ASSUME NEW w \in Workers, WorkerStep(w) PROVE FreshInv'
  <2>1. CASE Construct(w)
    BY <2>1 DEF Construct, Goto
  <2>2. CASE ConstructReply(w)
    BY <2>2 DEF ConstructReply, Goto
  <2>3. ASSUME NEW k \in Keys, ParacelRead(w, k) PROVE FreshInv'
    <3>1. CASE clock[w] \in {0, TotalIters} /\ Pull(w, k) /\ UNCHANGED pc
      BY <2>3, <3>1 DEF ParacelRead, Pull, GateInv
    <3>2. CASE /\ clock[w] \notin {0, TotalIters} /\ CacheHit(w)
               /\ seen' = [seen EXCEPT ![w] = cached_para[w][k]]
               /\ UNCHANGED <<pc, cached_para>>
      BY <2>3, <3>2 DEF ParacelRead, CacheHit
    <3>3. CASE Goto(w, "gate") /\ UNCHANGED <<cached_para, seen>>
      BY <2>3, <3>3 DEF ParacelRead, Goto
    <3> QED  BY <2>3, <3>1, <3>2, <3>3 DEF ParacelRead
  <2>4. CASE Gate(w)
    <3>1. CASE TooFarAhead(w)
      BY <2>4, <3>1 DEF Gate, Goto
    <3>2. CASE ~TooFarAhead(w)
      <4>1. \A k \in Keys : k = rkey[w]
        OBVIOUS
      <4>2. clock[w] <= server_clock + LimitS /\ stale_cache[w] <= server_clock
        BY <3>2 DEF TooFarAhead, GateInv
      <4>3. \A k \in Keys : cached_para'[w][k] = server_clock
        BY <2>4, <3>2, <4>1 DEF Gate, Pull
      <4>4. seen'[w] = server_clock
        BY <2>4, <3>2 DEF Gate, Pull
      <4>5. \A v \in Workers \ {w} :
              /\ pc'[v] = pc[v] /\ seen'[v] = seen[v]
              /\ cached_para'[v] = cached_para[v]
        BY <2>4, <3>2 DEF Gate, Pull, Goto
      <4>6. pc'[w] = "body" /\ UNCHANGED <<clock, stale_cache, todo>>
        BY <2>4, <3>2 DEF Gate, Goto
      <4> QED  BY <4>2, <4>3, <4>4, <4>5, <4>6
    <3> QED  BY <3>1, <3>2
  <2>5. CASE GateReply(w)
    BY <2>5 DEF GateReply, Goto
  <2>6. CASE IterCommit(w)
    BY <2>6 DEF IterCommit, Goto
  <2>7. CASE CommitReply(w)
    <3>0. pc[w] = "commit"
      BY <2>7 DEF CommitReply
    <3>1. \A k \in Keys : cached_para[w][k] >= stale_cache[w]
      <4>1. clock[w] > 0 \/ todo[w] = {}
        BY <3>0
      <4> QED  BY <3>0, <4>1
    <3>2. /\ pc'[w] \in {"body", "retire"} /\ todo'[w] = Keys
          /\ UNCHANGED <<stale_cache, cached_para, seen>>
      BY <2>7 DEF CommitReply, Goto
    <3>3. \A v \in Workers \ {w} :
            pc'[v] = pc[v] /\ todo'[v] = todo[v] /\ clock'[v] = clock[v]
      BY <2>7 DEF CommitReply, Goto
    <3> QED  BY <3>1, <3>2, <3>3
  <2>8. CASE RetireReply(w)
    BY <2>8 DEF RetireReply, Goto, GateInv
  <2>9. CASE Finish(w)
    BY <2>9 DEF Finish, Goto
  <2> QED  BY <1>2, <2>1, <2>2, <2>3, <2>4, <2>5, <2>6, <2>7, <2>8, <2>9
           DEF WorkerStep
<1>3. ASSUME NEW w \in Workers, ServerStep(w) PROVE FreshInv'
  BY <1>3 DEF ServerStep, PushInt, IncrClientClock, IncrWorkerSz, PullInt,
              workerVars
<1>4. ASSUME NEW w \in Workers, NEW k \in Keys, BUpdate(w, k) PROVE FreshInv'
  BY <1>4 DEF BUpdate, GateInv
<1>5. CASE UNCHANGED vars
  BY <1>5 DEF vars, workerVars
<1> QED
  BY <1>1, <1>2, <1>3, <1>4, <1>5 DEF Next, Terminated

\* With one key, what paracel_read returns left the server when server_clock was
\* at least clock - limit_s, whether it came from the cache or from the server.
THEOREM SingleKeyFreshRead ==
  ASSUME \A j, k \in Keys : j = k
  PROVE  Safety => []FreshRead
<1>1. Init => FreshInv
  BY LimitSAssumption, ItersAssumption DEF Init, FreshInv, PastGate
<1>2. IInv /\ FreshInv /\ [Next]_vars => FreshInv'
  BY StepFreshInv
<1>3. FreshInv => FreshRead
  BY DEF FreshInv, FreshRead
<1> QED  BY <1>1, <1>2, <1>3, IInvInvariant, PTL DEF Safety

-----------------------------------------------------------------------------
(***************************************************************************)
(* The bookkeeping of worker_sz.  BarrierInv: paracel_sync keeps everybody *)
(* in the constructor until rank 0 has its answer.  SzInv: from the        *)
(* server's handling of rank 0's push_int on, worker_sz is the number of   *)
(* workers that have not retired at the server.                            *)
(***************************************************************************)
Constructing == {"ctor", "push_int", "sync"}

BarrierInv ==
  /\ \A w \in Workers : pc[w] = "push_int" => w = Rank0
  /\ \A v, w \in Workers : pc[v] \in Constructing => pc[w] \in Constructing

Unpublished == pc[Rank0] = "ctor" \/ sock[Rank0].op = "push_int"

Live == {w \in Workers : ~Retired(w)}

SzInv == Unpublished \/ worker_sz = Cardinality(Live)

LEMMA PushIntByConstructor ==
  ASSUME IInv, NEW w \in Workers, sock[w].op = "push_int"
  PROVE  pc[w] = "push_int"
  BY DEF IInv, TInv, TypeOK, SockInv, Msg, Idle

LEMMA StepBarrierInv == IInv /\ BarrierInv /\ [Next]_vars => BarrierInv'
<1> SUFFICES ASSUME TypeOK, BarrierInv, [Next]_vars PROVE BarrierInv'
  BY DEF IInv, TInv
<1> USE DEF TypeOK, BarrierInv, Constructing
<1>1. CASE ParacelSync
  BY <1>1 DEF ParacelSync
<1>2. ASSUME NEW w \in Workers, WorkerStep(w) PROVE BarrierInv'
  BY <1>2 DEF WorkerStep, Construct, ConstructReply, ParacelRead, Gate,
              GateReply, IterCommit, CommitReply, RetireReply, Finish, Goto
<1>3. ASSUME NEW w \in Workers, ServerStep(w) PROVE BarrierInv'
  BY <1>3 DEF ServerStep, PushInt, IncrClientClock, IncrWorkerSz, PullInt,
              workerVars
<1>4. ASSUME NEW w \in Workers, NEW k \in Keys, BUpdate(w, k)
      PROVE  BarrierInv'
  BY <1>4 DEF BUpdate
<1>5. CASE UNCHANGED vars
  BY <1>5 DEF vars, workerVars
<1> QED
  BY <1>1, <1>2, <1>3, <1>4, <1>5 DEF Next, Terminated

LEMMA StepSzInv == IInv /\ BarrierInv /\ SzInv /\ [Next]_vars => SzInv'
<1> SUFFICES ASSUME TypeOK, CommitBelow, SockInv, GateInv, BarrierInv, SzInv,
                    [Next]_vars
             PROVE  SzInv'
  BY DEF IInv, TInv
<1> USE WorkersAssumption, ItersAssumption DEF TypeOK
<1>a. ASSUME Live' = Live, worker_sz' = worker_sz, Unpublished => Unpublished'
      PROVE  SzInv'
  BY <1>a DEF SzInv
<1>1. CASE ParacelSync
  <2>1. Live' = Live
    BY <1>1 DEF ParacelSync, Live, Retired
  <2>2. Unpublished => Unpublished'
    BY <1>1 DEF ParacelSync, Unpublished
  <2> QED  BY <1>1, <1>a, <2>1, <2>2 DEF ParacelSync, ssp_tbl
<1>2. ASSUME NEW w \in Workers, WorkerStep(w) PROVE SzInv'
  <2>1. \A v \in Workers : Retired(v)' <=> Retired(v)
    <3> USE DEF Retired, Goto, Send
    <3>1. CASE Construct(w)
      BY <3>1 DEF Construct, GateInv
    <3>2. CASE ConstructReply(w)
      BY <3>2 DEF ConstructReply, Receive, GateInv
    <3>3. CASE \E k \in Keys : ParacelRead(w, k)
      BY <3>3 DEF ParacelRead
    <3>4. CASE Gate(w)
      BY <3>4 DEF Gate
    <3>5. CASE GateReply(w)
      BY <3>5 DEF GateReply, Receive
    <3>6. CASE IterCommit(w)
      BY <3>6 DEF IterCommit
    <3>7. CASE CommitReply(w)
      BY <3>7 DEF CommitReply, CommitBelow, Msg
    <3>8. CASE RetireReply(w)
      BY <3>8 DEF RetireReply, Receive
    <3>9. CASE Finish(w)
      BY <3>9 DEF Finish
    <3> QED  BY <1>2, <3>1, <3>2, <3>3, <3>4, <3>5, <3>6, <3>7, <3>8, <3>9
             DEF WorkerStep
  <2>2. Unpublished => Unpublished'
    BY <1>2 DEF Unpublished, SockInv, WorkerStep, Construct, ConstructReply,
                ParacelRead, Gate, GateReply, IterCommit, CommitReply,
                RetireReply, Finish, Receive, Send, Goto, Idle, Msg
  <2>3. worker_sz' = worker_sz
    BY <1>2 DEF WorkerStep, Construct, ConstructReply, ParacelRead, Gate,
                GateReply, IterCommit, CommitReply, RetireReply, Finish, ssp_tbl
  <2>4. Live' = Live
    BY <2>1 DEF Live
  <2> QED  BY <1>a, <2>2, <2>3, <2>4
<1>3. ASSUME NEW w \in Workers, PushInt(w) PROVE SzInv'
  <2>1. pc[w] = "push_int" /\ sock[w].val = N
    BY <1>3 DEF PushInt, SockInv, Msg, Idle
  <2>2. \A v \in Workers : clock[v] = 0
    BY <2>1 DEF BarrierInv, Constructing, GateInv
  <2>3. Live' = Workers
    BY <1>3, <2>2 DEF PushInt, Live, Retired, workerVars
  <2>4. worker_sz' = N
    BY <1>3, <2>1 DEF PushInt
  <2> QED  BY <2>3, <2>4 DEF SzInv, N
<1>4. ASSUME NEW w \in Workers, IncrWorkerSz(w) PROVE SzInv'
  <2>1. pc[w] = "retire" /\ sock[w].val = -1 /\ clock[w] = TotalIters
    BY <1>4 DEF IncrWorkerSz, SockInv, GateInv, Msg, Idle
  <2>2. ~Unpublished
    BY <1>4, <2>1 DEF Unpublished, BarrierInv, Constructing, SockInv, Msg, Idle,
                     IncrWorkerSz
  <2>3. w \in Live
    BY <1>4, <2>1 DEF IncrWorkerSz, Live, Retired
  <2>4. Live' = Live \ {w}
    BY <1>4, <2>1 DEF IncrWorkerSz, Live, Retired, workerVars, Send, Reply, Msg
  <2>5. IsFiniteSet(Live)
    BY FS_Subset DEF Live
  <2>6. Cardinality(Live \ {w}) = Cardinality(Live) - 1
    BY <2>3, <2>5, FS_RemoveElement
  <2>7. worker_sz = Cardinality(Live) /\ worker_sz \in Nat
    BY <2>2, <2>5, FS_CardinalityType DEF SzInv
  <2>8. worker_sz' = worker_sz - 1
    BY <1>4, <2>1, <2>7 DEF IncrWorkerSz, NoKey
  <2> QED  BY <2>4, <2>6, <2>7, <2>8 DEF SzInv
<1>5. ASSUME NEW w \in Workers, IncrClientClock(w) \/ PullInt(w) PROVE SzInv'
  <2>1. pc[w] \in {"commit", "pull_int"}
    BY <1>5 DEF IncrClientClock, PullInt, SockInv, Msg, Idle
  <2>2. Live' = Live
    BY <1>5, <2>1 DEF IncrClientClock, PullInt, Live, Retired, workerVars, Send
  <2>3. Unpublished => Unpublished'
    BY <1>5, <2>1 DEF IncrClientClock, PullInt, Unpublished, workerVars, Send
  <2> QED  BY <1>5, <1>a, <2>2, <2>3 DEF IncrClientClock, PullInt, ssp_tbl
<1>6. ASSUME NEW w \in Workers, NEW k \in Keys, BUpdate(w, k) PROVE SzInv'
  BY <1>6 DEF BUpdate, ssp_tbl, SzInv, Unpublished, Live, Retired
<1>7. CASE UNCHANGED vars
  BY <1>7 DEF vars, ssp_tbl, workerVars, SzInv, Unpublished, Live, Retired
<1> QED
  BY <1>1, <1>2, <1>3, <1>4, <1>5, <1>6, <1>7 DEF Next, ServerStep, Terminated

LEMMA SzInvariant == Safety => [](BarrierInv /\ SzInv)
<1>1. Init => BarrierInv /\ SzInv
  BY WorkersAssumption
  DEF Init, BarrierInv, SzInv, Unpublished, Constructing
<1>2. IInv /\ (BarrierInv /\ SzInv) /\ [Next]_vars => (BarrierInv /\ SzInv)'
  BY StepBarrierInv, StepSzInv
<1> QED  BY <1>1, <1>2, IInvInvariant, PTL DEF Safety

\* worker_sz is exactly the number of workers that have not retired at the
\* server, from the end of the constructors on.  When a commit reaches the server,
\* worker_sz has been published and still counts the committing worker, so the
\* comparison in thrd_exec_ssp never runs against an absent or a zero threshold.
THEOREM WorkerSzAccounting == Safety => []WorkerSzCounts
<1>1. ASSUME IInv, SzInv, \A w \in Workers : pc[w] \notin {"ctor", "push_int"}
      PROVE  worker_sz = Cardinality({w \in Workers : ~Retired(w)})
  <2>1. ~Unpublished
    BY <1>1, WorkersAssumption, PushIntByConstructor DEF Unpublished
  <2> QED  BY <1>1, <2>1 DEF SzInv, Live
<1>2. ASSUME IInv, BarrierInv, SzInv, NEW w \in Workers, sock[w].key = "client_clock"
      PROVE  worker_sz >= 1
  <2>1. pc[w] = "commit" /\ clock[w] < TotalIters
    BY <1>2 DEF IInv, TInv, TypeOK, PCs, CommitBelow, SockInv, Idle, Msg
  <2>2. ~Unpublished
    BY <1>2, <2>1, WorkersAssumption, PushIntByConstructor
    DEF Unpublished, BarrierInv, Constructing
  <2>3. w \in Live /\ IsFiniteSet(Live)
    BY <2>1, FS_Subset, WorkersAssumption, ItersAssumption DEF Live, Retired
  <2>4. Cardinality(Live) \in Nat /\ Cardinality(Live) # 0
    BY <2>3, FS_CardinalityType, FS_EmptySet
  <2> QED  BY <1>2, <2>2, <2>4 DEF SzInv
<1>3. IInv /\ BarrierInv /\ SzInv => WorkerSzCounts
  BY <1>1, <1>2 DEF WorkerSzCounts
<1> QED  BY <1>3, IInvInvariant, SzInvariant, PTL
-----------------------------------------------------------------------------
(***************************************************************************)
(* server_clock keeps up with the slowest worker.  The slots are reused by *)
(* the rounds that agree modulo limit_s and count the increments after a   *)
(* reset twice, so no slot tells a round.  What holds is an account: f[i]  *)
(* is how often slot i was full, the credits of all slots together are     *)
(* server_clock, and the commits counted in slot i are covered by N        *)
(* commits a credit and what the slot holds, which is less than N more.    *)
(***************************************************************************)
S == IF LimitS = 0 THEN 1 ELSE LimitS

Held(i) == IF client_clock[i] = NoKey THEN 0 ELSE client_clock[i]

Credits(f) == {x \in Slots \X Nat : x[2] < f[x[1]]}

\* The commits counted in slot i: the worker, and which of its rounds of slot i.
Commits(i) ==
  {x \in Workers \X (0 .. TotalIters) : S * x[2] + i < Committed(x[1])}

Covers(f) ==
  \A i \in Slots : /\ Cardinality(Commits(i)) <= f[i] * N + Held(i)
                   /\ Cardinality(Commits(i)) <= f[i] * N + (N - 1)

KeepInv ==
  /\ \A i \in Slots : client_clock[i] >= NoKey
  /\ \E f \in [Slots -> Nat] :
       /\ IsFiniteSet(Credits(f)) /\ Cardinality(Credits(f)) = server_clock
       /\ Covers(f)

LEMMA SlotsAre == /\ S \in Nat \ {0} /\ Slots = 0 .. (S - 1)
                  /\ \A c \in Nat : ClockSlot(c) = c % S
<1>1. S \in Nat \ {0} /\ Slots = 0 .. (S - 1)
  BY LimitSAssumption DEF S, Slots
<1>2. ASSUME NEW c \in Nat PROVE ClockSlot(c) = c % S
  <2>1. CASE LimitS = 0
    <3>1. c % 1 = 0
      OBVIOUS
    <3> QED BY <2>1, <3>1 DEF ClockSlot, S
  <2>2. CASE LimitS # 0
    BY <2>2 DEF ClockSlot, S
  <2> QED BY <2>1, <2>2
<1> QED BY <1>1, <1>2

LEMMA DivMod ==
  ASSUME NEW c \in Nat, NEW m \in Nat \ {0}
  PROVE  /\ c \div m \in Nat /\ c % m \in 0 .. (m - 1)
         /\ c = m * (c \div m) + (c % m)
         /\ c \div m <= c
<1>1. c \div m \in Int /\ c % m \in 0 .. (m - 1) /\ c = m * (c \div m) + (c % m)
  BY Z3T(30)
<1> DEFINE q == c \div m
<1> HIDE DEF q
<1>2. q \in Int /\ m * q > c - m
  BY <1>1 DEF q
<1>3. q >= 0
  <2> SUFFICES ASSUME q <= -1 PROVE FALSE BY <1>2
  <2>1. m * q <= m * (-1)
    BY <1>2, Z3T(30)
  <2> QED BY <2>1, <1>2
<1>4. q <= m * q
  BY <1>2, <1>3, Z3T(30)
<1>5. m * q <= c
  BY <1>1 DEF q
<1> QED BY <1>1, <1>2, <1>3, <1>4, <1>5 DEF q

\* A round is told by its slot and its number among the rounds of that slot.
LEMMA DivModUnique ==
  ASSUME NEW m \in Nat \ {0}, NEW i \in 0 .. (m - 1), NEW l \in 0 .. (m - 1),
         NEW j \in Nat, NEW q \in Nat, m * j + i = m * q + l
  PROVE  i = l /\ j = q
<1>1. ~(j < q)
  <2> SUFFICES ASSUME j + 1 <= q PROVE FALSE OBVIOUS
  <2>1. m * (j + 1) <= m * q
    BY Z3T(30)
  <2>2. m * (j + 1) = m * j + m
    BY Z3T(30)
  <2>3. m * j \in Int /\ m * q \in Int
    OBVIOUS
  <2> QED BY <2>1, <2>2, <2>3
<1>2. ~(q < j)
  <2> SUFFICES ASSUME q + 1 <= j PROVE FALSE OBVIOUS
  <2>1. m * (q + 1) <= m * j
    BY Z3T(30)
  <2>2. m * (q + 1) = m * q + m
    BY Z3T(30)
  <2>3. m * j \in Int /\ m * q \in Int
    OBVIOUS
  <2> QED BY <2>1, <2>2, <2>3
<1>3. j = q
  BY <1>1, <1>2
<1>4. m * j \in Int
  OBVIOUS
<1> QED BY <1>3, <1>4

LEMMA CommittedType ==
  ASSUME TInv
  PROVE  \A w \in Workers : Committed(w) \in 0 .. TotalIters
  BY ItersAssumption DEF TInv, TypeOK, CommitBelow, Committed

LEMMA CommitsFinite ==
  ASSUME NEW i \in Slots
  PROVE  IsFiniteSet(Commits(i)) /\ Cardinality(Commits(i)) \in Nat
<1>1. IsFiniteSet(Workers \X (0 .. TotalIters))
  <2>1. IsFiniteSet(0 .. TotalIters)
    BY ItersAssumption, FS_Interval
  <2> QED BY <2>1, WorkersAssumption, FS_Product
<1> QED BY <1>1, FS_Subset, FS_CardinalityType DEF Commits

\* Steps that count no commit at the server.
LEMMA KeepKept ==
  ASSUME KeepInv, UNCHANGED <<server_clock, client_clock>>,
         \A w \in Workers : Committed(w)' = Committed(w)
  PROVE  KeepInv'
<1>1. ASSUME NEW i \in Slots PROVE Commits(i)' = Commits(i) /\ Held(i)' = Held(i)
  BY DEF Commits, Held
<1> QED BY <1>1 DEF KeepInv, Covers
LEMMA WorkerSzAtMostN ==
  ASSUME IInv, BarrierInv, SzInv, NEW w \in Workers, sock[w].key = "client_clock"
  PROVE  worker_sz \in Nat /\ worker_sz <= N
<1>1. pc[w] = "commit"
  BY SMTT(30) DEF IInv, TInv, TypeOK, PCs, SockInv, Idle, Msg
<1>2. ~Unpublished
  BY <1>1, WorkersAssumption, PushIntByConstructor DEF Unpublished, BarrierInv, Constructing
<1>3. Live \in SUBSET Workers
  BY DEF Live
<1>4. IsFiniteSet(Live) /\ Cardinality(Live) <= Cardinality(Workers)
  BY <1>3, WorkersAssumption, FS_Subset
<1>5. Cardinality(Live) \in Nat
  BY <1>4, FS_CardinalityType
<1> QED BY <1>2, <1>4, <1>5 DEF SzInv, N

\* A commit that the server counts is one more in its slot and none in another.
LEMMA CommitCounted ==
  ASSUME IInv, NEW w \in Workers, IncrClientClock(w)
  PROVE  \E s \in Slots :
           /\ sock[w].slot = s /\ sock[w].val = 1
           /\ Cardinality(Commits(s)') = Cardinality(Commits(s)) + 1
           /\ \A i \in Slots : i # s => Commits(i)' = Commits(i)
<1>1. /\ pc[w] = "commit" /\ clock[w] \in Nat /\ clock[w] < TotalIters
      /\ sock[w] = Msg("incr_int", "client_clock", ClockSlot(clock[w]), 1)
  BY DEF IInv, TInv, TypeOK, PCs, CommitBelow, SockInv, Idle, Msg, IncrClientClock
<1>a. PICK s, q : s = clock[w] % S /\ q = clock[w] \div S
  OBVIOUS
<1> DEFINE p == <<w, q>>
<1>2. sock[w].slot = s /\ sock[w].val = 1
  <2>1. ClockSlot(clock[w]) = s
    BY <1>a, <1>1, SlotsAre
  <2> QED BY <1>1, <2>1 DEF Msg
<1>3. /\ q \in Nat /\ s \in 0 .. (S - 1) /\ clock[w] = S * q + s /\ q <= clock[w]
  BY <1>a, <1>1, SlotsAre, DivMod
<1>4. /\ sock' = [sock EXCEPT ![w] = Reply(1)] /\ UNCHANGED workerVars
  BY DEF IncrClientClock, Send
<1>5. Committed(w) = clock[w] /\ Committed(w)' = clock[w] + 1
  <2>1. sock[w].op = "incr_int" /\ sock'[w].op = "reply" /\ pc'[w] = "commit" /\ clock'[w] = clock[w]
    BY <1>1, <1>4 DEF Msg, Reply, workerVars, IInv, TInv, TypeOK
  <2> QED BY <1>1, <2>1 DEF Committed
<1>6. ASSUME NEW v \in Workers, v # w PROVE Committed(v)' = Committed(v)
  BY <1>4, <1>6 DEF Committed, workerVars, IInv, TInv, TypeOK
<1>7. ASSUME NEW i \in Slots, NEW v \in Workers, NEW j \in 0 .. TotalIters
      PROVE  S * j + i < Committed(v)' <=> S * j + i < Committed(v) \/ (i = s /\ <<v, j>> = p)
  <2>1. CASE v # w
    BY <2>1, <1>6
  <2>2. CASE v = w
    <3>1. S * j \in Int /\ S * q \in Int /\ i \in 0 .. (S - 1) /\ j \in Nat
      BY SlotsAre, ItersAssumption, <1>3
    <3>2. S * j + i = S * q + s => i = s /\ j = q
      <4>1. S \in Nat \ {0} /\ s \in 0 .. (S - 1) /\ q \in Nat
        BY <1>3, SlotsAre
      <4> HIDE DEF S
      <4> QED BY <4>1, <3>1, DivModUnique
    <3>3. S * j + i < clock[w] + 1 <=> S * j + i < clock[w] \/ S * j + i = clock[w]
      BY <3>1, <1>1
    <3> QED BY <1>3, <1>5, <2>2, <3>2, <3>3
  <2> QED BY <2>1, <2>2
<1>8. ASSUME NEW i \in Slots, i # s PROVE Commits(i)' = Commits(i)
  BY <1>7, <1>8 DEF Commits
<1>9. s \in Slots
  BY <1>3, SlotsAre
<1>10. p \in Workers \X (0 .. TotalIters)
  BY <1>1, <1>3, ItersAssumption
<1>11. Commits(s)' = Commits(s) \cup {p} /\ p \notin Commits(s)
  <2>1. p \notin Commits(s)
    <3>1. S * q + s = Committed(w)
      BY <1>3, <1>5
    <3> QED BY <3>1, <1>1, <1>5 DEF Commits
  <2>2. ASSUME NEW x \in Workers \X (0 .. TotalIters)
        PROVE  x \in Commits(s)' <=> x \in Commits(s) \/ x = p
    <3>1. x[1] \in Workers /\ x[2] \in 0 .. TotalIters /\ x = <<x[1], x[2]>>
      OBVIOUS
    <3> HIDE DEF p
    <3>2. S * x[2] + s < Committed(x[1])' <=> S * x[2] + s < Committed(x[1]) \/ x = p
      BY <3>1, <1>7, <1>9
    <3> QED BY <3>2 DEF Commits
  <2> QED BY <2>1, <2>2, <1>10 DEF Commits
<1>12. Cardinality(Commits(s)') = Cardinality(Commits(s)) + 1
  BY <1>9, <1>11, CommitsFinite, FS_AddElement
<1> QED BY <1>2, <1>8, <1>9, <1>12
\* A slot that fills up earns a credit.
LEMMA CreditAdded ==
  ASSUME NEW f \in [Slots -> Nat], NEW s \in Slots, IsFiniteSet(Credits(f))
  PROVE  LET g == [f EXCEPT ![s] = @ + 1]
         IN /\ g \in [Slots -> Nat] /\ IsFiniteSet(Credits(g))
            /\ Cardinality(Credits(g)) = Cardinality(Credits(f)) + 1
<1> DEFINE g == [f EXCEPT ![s] = @ + 1]
           p == <<s, f[s]>>
<1>1. g \in [Slots -> Nat] /\ g[s] = f[s] + 1 /\ \A i \in Slots : i # s => g[i] = f[i]
  OBVIOUS
<1> HIDE DEF g
<1>2. p \notin Credits(f) /\ p \in Slots \X Nat
  BY DEF Credits
<1>3. ASSUME NEW x \in Slots \X Nat PROVE x[2] < g[x[1]] <=> x[2] < f[x[1]] \/ x = p
  <2>1. x[1] \in Slots /\ x[2] \in Nat /\ x = <<x[1], x[2]>>
    OBVIOUS
  <2>2. CASE x[1] = s
    BY <1>1, <2>1, <2>2
  <2>3. CASE x[1] # s
    BY <1>1, <2>1, <2>3
  <2> QED BY <2>2, <2>3
<1>4. Credits(g) = Credits(f) \cup {p}
  <2> HIDE DEF p
  <2>1. ASSUME NEW x PROVE x \in Credits(g) <=> x \in Credits(f) \/ x = p
    <3>1. CASE x \in Slots \X Nat
      BY <1>3, <3>1 DEF Credits
    <3>2. CASE x \notin Slots \X Nat
      BY <1>2, <3>2, Zenon DEF Credits
    <3> QED BY <3>1, <3>2
  <2> QED BY <2>1, Zenon
<1>5. IsFiniteSet(Credits(g)) /\ Cardinality(Credits(g)) = Cardinality(Credits(f)) + 1
  BY <1>2, <1>4, FS_AddElement
<1> QED BY <1>1, <1>5 DEF g

LEMMA StepKeepInv ==
  ASSUME IInv, BarrierInv, SzInv, KeepInv, [Next]_vars
  PROVE  KeepInv'
<1>0. TypeOK /\ CommitBelow /\ SockInv
  BY DEF IInv, TInv
<1>1. ASSUME NEW w \in Workers, IncrClientClock(w) PROVE KeepInv'
  <2>1. PICK s \in Slots : /\ sock[w].slot = s /\ sock[w].val = 1
                           /\ Cardinality(Commits(s)') = Cardinality(Commits(s)) + 1
                           /\ \A i \in Slots : i # s => Commits(i)' = Commits(i)
    BY <1>1, CommitCounted
  <2>2. PICK f \in [Slots -> Nat] :
          /\ IsFiniteSet(Credits(f)) /\ Cardinality(Credits(f)) = server_clock /\ Covers(f)
    BY DEF KeepInv
  <2> DEFINE count == Held(s) + 1
             card == Cardinality(Commits(s))
  <2>3. /\ worker_sz \in Nat /\ worker_sz <= N
    BY <1>1, WorkerSzAtMostN DEF IncrClientClock
  <2>4. /\ Held(s) \in Nat /\ client_clock \in [Slots -> Int]
        /\ \A i \in Slots : client_clock[i] >= NoKey
    BY <1>0 DEF KeepInv, Held, NoKey, TypeOK
  <2>5. /\ server_clock' = (IF count >= worker_sz THEN server_clock + 1 ELSE server_clock)
        /\ client_clock' = [client_clock EXCEPT
                              ![s] = (IF count >= worker_sz THEN 0 ELSE count) + 1]
    <3>1. (IF client_clock[s] # NoKey THEN client_clock[s] + 1 ELSE 1) = count
      BY <2>4 DEF Held
    <3> QED BY <1>1, <2>1, <3>1 DEF IncrClientClock
  <2>6. card \in Nat /\ f[s] * N \in Nat /\ N \in Nat /\ N >= 1 /\ f[s] \in Nat
    BY CommitsFinite, NType
  <2>7. card <= f[s] * N + Held(s) /\ card <= f[s] * N + (N - 1)
    BY <2>2 DEF Covers
  <2>8. ASSUME NEW i \in Slots, i # s PROVE Held(i)' = Held(i) /\ client_clock'[i] = client_clock[i]
    BY <2>4, <2>5, <2>8 DEF Held
  <2> HIDE DEF count, card
  <2>9. CASE count >= worker_sz
    <3> DEFINE g == [f EXCEPT ![s] = @ + 1]
    <3>1. /\ g \in [Slots -> Nat] /\ IsFiniteSet(Credits(g))
          /\ Cardinality(Credits(g)) = server_clock + 1
      BY <2>2, CreditAdded
    <3>2. g[s] = f[s] + 1 /\ \A i \in Slots : i # s => g[i] = f[i]
      OBVIOUS
    <3> HIDE DEF g
    <3>3. server_clock' = server_clock + 1 /\ client_clock'[s] = 1
      BY <2>4, <2>5, <2>9
    <3>4. g[s] * N = f[s] * N + N
      BY <2>6, <3>2
    <3>5. Held(s)' = 1
      BY <3>3 DEF Held, NoKey
    <3>6. /\ Cardinality(Commits(s)') <= g[s] * N + Held(s)'
          /\ Cardinality(Commits(s)') <= g[s] * N + (N - 1)
      <4>1. Cardinality(Commits(s)') = card + 1
        BY <2>1 DEF card
      <4> QED BY <4>1, <3>4, <3>5, <2>6, <2>7
    <3>7. ASSUME NEW i \in Slots
          PROVE  /\ Cardinality(Commits(i)') <= g[i] * N + Held(i)'
                 /\ Cardinality(Commits(i)') <= g[i] * N + (N - 1)
      <4>1. CASE i # s
        BY <4>1, <2>1, <2>2, <2>8, <3>2 DEF Covers
      <4> QED BY <4>1, <3>6
    <3>8. \A i \in Slots : client_clock'[i] >= NoKey
      BY <2>4, <2>8, <3>3 DEF NoKey
    <3> QED BY <3>1, <3>3, <3>7, <3>8 DEF KeepInv, Covers
  <2>10. CASE ~(count >= worker_sz)
    <3>1. server_clock' = server_clock /\ client_clock'[s] = count + 1
      BY <2>4, <2>5, <2>10
    <3>2. Held(s)' = count + 1 /\ client_clock'[s] >= NoKey
      BY <2>4, <3>1 DEF Held, NoKey, count
    <3>3. /\ Cardinality(Commits(s)') <= f[s] * N + Held(s)'
          /\ Cardinality(Commits(s)') <= f[s] * N + (N - 1)
      <4>1. Cardinality(Commits(s)') = card + 1
        BY <2>1 DEF card
      <4>2. card + 1 <= f[s] * N + count /\ count <= N - 1 /\ count \in Nat
        BY <2>3, <2>4, <2>6, <2>7, <2>10 DEF count
      <4> QED BY <4>1, <4>2, <3>2, <2>6
    <3>4. ASSUME NEW i \in Slots
          PROVE  /\ Cardinality(Commits(i)') <= f[i] * N + Held(i)'
                 /\ Cardinality(Commits(i)') <= f[i] * N + (N - 1)
      <4>1. CASE i # s
        BY <4>1, <2>1, <2>2, <2>8 DEF Covers
      <4> QED BY <4>1, <3>3
    <3>5. \A i \in Slots : client_clock'[i] >= NoKey
      BY <2>4, <2>8, <3>2
    <3> QED BY <2>2, <3>1, <3>4, <3>5 DEF KeepInv, Covers
  <2> QED BY <2>9, <2>10
<1>2. ASSUME NEW w \in Workers, PushInt(w) \/ IncrWorkerSz(w) \/ PullInt(w) PROVE KeepInv'
  <2>1. UNCHANGED <<server_clock, client_clock, pc, clock>>
    BY <1>2 DEF PushInt, IncrWorkerSz, PullInt, workerVars, ssp_tbl
  <2>2. pc[w] # "commit"
    BY <1>0, <1>2 DEF SockInv, TypeOK, PushInt, IncrWorkerSz, PullInt, Msg
  <2>3. \A v \in Workers : v # w => sock'[v] = sock[v]
    BY <1>0, <1>2 DEF TypeOK, PushInt, IncrWorkerSz, PullInt, Send
  <2>4. \A v \in Workers : Committed(v)' = Committed(v)
    BY <2>1, <2>2, <2>3 DEF Committed
  <2> QED BY <2>1, <2>4, KeepKept
<1>3. ASSUME NEW w \in Workers, WorkerStep(w) PROVE KeepInv'
  <2>1. UNCHANGED <<server_clock, client_clock>>
    BY <1>3 DEF WorkerStep, Construct, ConstructReply, ParacelRead, Gate, GateReply,
                IterCommit, CommitReply, RetireReply, Finish, ssp_tbl
  <2>2. \A v \in Workers : Committed(v)' = Committed(v)
    <3>1. CASE CommitReply(w)
      <4>1. /\ pc[w] = "commit" /\ sock[w].op = "reply" /\ clock'[w] = clock[w] + 1
            /\ pc'[w] # "commit"
            /\ \A v \in Workers : v # w => pc'[v] = pc[v] /\ sock'[v] = sock[v] /\ clock'[v] = clock[v]
        BY <1>0, <3>1 DEF CommitReply, TypeOK, Goto, Send
      <4> QED BY <4>1 DEF Committed
    <3>2. CASE IterCommit(w)
      <4>1. /\ pc[w] = "body" /\ UNCHANGED clock /\ sock'[w].op = "incr_int"
            /\ \A v \in Workers : v # w => pc'[v] = pc[v] /\ sock'[v] = sock[v]
        BY <1>0, <3>2 DEF IterCommit, TypeOK, Goto, Send, Msg
      <4> QED BY <4>1 DEF Committed
    <3>3. CASE ~CommitReply(w) /\ ~IterCommit(w)
      <4>1. /\ pc[w] # "commit" /\ pc'[w] # "commit" /\ UNCHANGED clock
            /\ \A v \in Workers : v # w => pc'[v] = pc[v] /\ sock'[v] = sock[v]
        BY <1>0, <1>3, <3>3 DEF WorkerStep, Construct, ConstructReply, ParacelRead, Gate, GateReply,
               RetireReply, Finish, Goto, Send, Receive, TypeOK
      <4> QED BY <4>1 DEF Committed
    <3> QED BY <3>1, <3>2, <3>3
  <2> QED BY <2>1, <2>2, KeepKept
<1>4. CASE ParacelSync
  <2>1. UNCHANGED <<server_clock, client_clock, clock, sock>>
        /\ \A v \in Workers : pc[v] # "commit" /\ pc'[v] # "commit"
    BY <1>4 DEF ParacelSync, ssp_tbl
  <2>2. \A v \in Workers : Committed(v)' = Committed(v)
    BY <2>1 DEF Committed
  <2> QED BY <2>1, <2>2, KeepKept
<1>5. ASSUME NEW w \in Workers, NEW k \in Keys, BUpdate(w, k) PROVE KeepInv'
  <2>1. UNCHANGED <<server_clock, client_clock, clock, sock, pc>>
    BY <1>5 DEF BUpdate, ssp_tbl
  <2>2. \A v \in Workers : Committed(v)' = Committed(v)
    BY <2>1 DEF Committed
  <2> QED BY <2>1, <2>2, KeepKept
<1>6. CASE UNCHANGED vars
  <2>1. UNCHANGED <<server_clock, client_clock, clock, sock, pc>>
    BY <1>6 DEF vars, workerVars, ssp_tbl
  <2>2. \A v \in Workers : Committed(v)' = Committed(v)
    BY <2>1 DEF Committed
  <2> QED BY <2>1, <2>2, KeepKept
<1> QED BY <1>1, <1>2, <1>3, <1>4, <1>5, <1>6 DEF Next, ServerStep, Terminated
LEMMA InitKeepInv == Init => KeepInv
<1> SUFFICES ASSUME Init PROVE KeepInv OBVIOUS
<1> DEFINE f == [i \in Slots |-> 0]
<1>1. f \in [Slots -> Nat] /\ Credits(f) = {}
  BY DEF Credits
<1>2. ASSUME NEW i \in Slots PROVE Commits(i) = {} /\ Held(i) = 0 /\ client_clock[i] = NoKey
  <2>1. \A w \in Workers : Committed(w) = 0
    BY DEF Init, Committed
  <2>2. \A j \in 0 .. TotalIters : ~(S * j + i < 0)
    <3>1. i \in Nat /\ \A j \in 0 .. TotalIters : S * j \in Nat
      BY SlotsAre, ItersAssumption
    <3> QED BY <3>1
  <2> QED BY <2>1, <2>2 DEF Commits, Held, Init
<1> HIDE DEF f
<1>3. Covers(f)
  <2>1. Cardinality({}) = 0
    BY FS_EmptySet
  <2>2. ASSUME NEW i \in Slots
        PROVE  /\ Cardinality(Commits(i)) <= f[i] * N + Held(i)
               /\ Cardinality(Commits(i)) <= f[i] * N + (N - 1)
    <3>1. f[i] * N = 0 /\ f[i] = 0
      BY NType DEF f
    <3>2. Cardinality(Commits(i)) = 0 /\ Held(i) = 0
      BY <2>1, <1>2
    <3> QED BY <3>1, <3>2, NType
  <2> QED BY <2>2 DEF Covers
<1>4. IsFiniteSet(Credits(f)) /\ Cardinality(Credits(f)) = server_clock
  BY <1>1, FS_EmptySet DEF Init
<1> QED BY <1>1, <1>2, <1>3, <1>4 DEF KeepInv, NoKey

\* All N workers have committed a round: its slot has a credit for it.
LEMMA RoundCredited ==
  ASSUME TInv, NEW f \in [Slots -> Nat], Covers(f), NEW r \in Nat,
         \A w \in Workers : r < Committed(w)
  PROVE  <<r % S, r \div S>> \in Credits(f)
<1> DEFINE i == r % S
           q == r \div S
<1>1. i \in Slots /\ q \in Nat /\ r = S * q + i /\ q <= r
  BY SlotsAre, DivMod
<1> HIDE DEF i, q
<1>2. r <= TotalIters /\ TotalIters \in Nat
  BY CommittedType, WorkersAssumption, ItersAssumption
<1>3. Workers \X (0 .. q) \subseteq Commits(i)
  <2> SUFFICES ASSUME NEW w \in Workers, NEW j \in 0 .. q
               PROVE  j \in 0 .. TotalIters /\ S * j + i < Committed(w)
    BY DEF Commits
  <2>1. S * j <= S * q
    BY <1>1, SlotsAre, Z3T(30)
  <2>2. S * j \in Int /\ S * q \in Int /\ i \in Int
    BY <1>1, SlotsAre
  <2>3. S * j + i <= r
    BY <1>1, <2>1, <2>2
  <2> QED BY <1>1, <1>2, <2>2, <2>3, CommittedType
<1>4. Cardinality(Workers \X (0 .. q)) = N * (q + 1)
  <2>1. IsFiniteSet(0 .. q) /\ Cardinality(0 .. q) = q + 1
    BY <1>1, FS_Interval
  <2> QED BY <2>1, WorkersAssumption, FS_Product DEF N
<1>5. N * (q + 1) <= Cardinality(Commits(i)) /\ Cardinality(Commits(i)) \in Nat
  BY <1>1, <1>3, <1>4, CommitsFinite, FS_Subset
<1>6. Cardinality(Commits(i)) <= f[i] * N + (N - 1) /\ f[i] \in Nat
  BY <1>1 DEF Covers
<1>7. q < f[i]
  <2> SUFFICES ASSUME f[i] <= q PROVE FALSE
    BY <1>1, <1>6
  <2>1. f[i] * N <= q * N
    BY <1>1, <1>6, NType, Z3T(30)
  <2>2. N * (q + 1) = q * N + N /\ q * N \in Int /\ f[i] * N \in Int
    BY <1>1, <1>6, NType
  <2> QED BY <1>5, <1>6, <2>1, <2>2, NType
<1> QED BY <1>1, <1>7 DEF Credits, i, q

\* server_clock never falls behind the slowest worker, for any number of workers
\* and rounds and any limit_s: neither the reuse of the slots client_clock_<i>,
\* nor the increments after a reset, nor the retirement of workers lets
\* thrd_exec_ssp lose a round, which would leave workers in the gate for ever.
THEOREM ServerClockKeepsUp == Safety => []ServerKeepsUp
<1>1. TInv /\ KeepInv => ServerKeepsUp
  <2> SUFFICES ASSUME TInv, KeepInv, \A w \in Workers : ~(Committed(w) <= server_clock)
               PROVE  FALSE
    BY DEF ServerKeepsUp
  <2>1. server_clock \in Nat /\ \A w \in Workers : server_clock < Committed(w) /\ Committed(w) \in Nat
    BY CommittedType, ItersAssumption DEF TInv, TypeOK
  <2>2. PICK f \in [Slots -> Nat] :
          /\ IsFiniteSet(Credits(f)) /\ Cardinality(Credits(f)) = server_clock /\ Covers(f)
    BY DEF KeepInv
  <2> DEFINE rounds == 0 .. server_clock
             g == [r \in rounds |-> <<r % S, r \div S>>]
  <2>3. ASSUME NEW r \in rounds PROVE g[r] \in Credits(f)
    BY <2>1, <2>2, RoundCredited
  <2>4. ASSUME NEW r \in rounds, NEW u \in rounds, g[r] = g[u] PROVE r = u
    <3>1. r = S * (r \div S) + (r % S) /\ u = S * (u \div S) + (u % S)
      <4>1. r \in Nat /\ u \in Nat /\ S \in Nat \ {0}
        BY <2>1, SlotsAre
      <4> HIDE DEF S
      <4> QED BY <4>1, DivMod
    <3>2. r % S = u % S /\ r \div S = u \div S
      BY <2>4
    <3> QED BY <3>1, <3>2
  <2>5. g \in Injection(rounds, Credits(f))
    BY <2>3, <2>4 DEF Injection, IsInjective
  <2> HIDE DEF g
  <2>6. Cardinality(rounds) <= Cardinality(Credits(f))
    BY <2>2, <2>5, FS_Injection
  <2>7. Cardinality(rounds) = server_clock + 1
    BY <2>1, FS_Interval
  <2> QED BY <2>1, <2>2, <2>6, <2>7
<1>2. IInv /\ BarrierInv /\ SzInv /\ KeepInv /\ [Next]_vars => KeepInv'
  BY StepKeepInv
<1>3. IInv => TInv
  BY DEF IInv
<1> QED BY <1>1, <1>2, <1>3, InitKeepInv, IInvInvariant, SzInvariant, PTL DEF Safety
=============================================================================
