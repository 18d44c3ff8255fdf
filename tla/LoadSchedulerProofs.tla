------------------------- MODULE LoadSchedulerProofs -------------------------
(***************************************************************************)
(* TLAPS proofs about LoadScheduler, for any number of ranks and any block *)
(* size: every block of the input is loaded exactly once, and the leader   *)
(* answers exactly as many requests as are made.                           *)
(***************************************************************************)
EXTENDS LoadScheduler, FiniteSetTheorems, SequenceTheorems, TLAPS

-----------------------------------------------------------------------------
(***************************************************************************)
(* The inductive invariant.                                                *)
(***************************************************************************)
Serving(w) == pc[Leader] \in {"send_cnt", "send_flag"} /\ src = w

LeaderPCs == {"load", "serve", "send_cnt", "send_flag", "barrier", "done"}
WorkerPCs == {"loop", "recv_cnt", "recv_flag", "barrier", "done"}

TypeInv ==
  /\ pc \in [Ranks -> LeaderPCs \cup WorkerPCs]
  /\ pc[Leader] \in LeaderPCs /\ \A w \in Workers : pc[w] \in WorkerPCs
  /\ cnt \in [Ranks -> Tasks] /\ flag \in [Ranks -> {0, 1}]
  /\ cnt_control \in Nat /\ src \in Ranks /\ inbox \subseteq Workers
  /\ chan \in [Ranks -> Seq(Nat)]
  /\ copies \in [Tasks -> Nat]

\* A worker's request is in one place: its inbox entry, the leader's hands, or
\* the answer under way.
Quiet(w)     == w \notin inbox /\ ~Serving(w)
Waiting(w)   == w \in inbox /\ ~Serving(w) /\ chan[w] = <<>>
Received(w)  == w \notin inbox /\ Serving(w) /\ pc[Leader] = "send_cnt"
                /\ chan[w] = <<>>
HalfSent(w)  == w \notin inbox /\ Serving(w) /\ pc[Leader] = "send_flag"
Answered(w)  == Quiet(w) /\ \E c \in Tasks, f \in {0, 1} :
                  chan[w] = <<c, f>> /\ (f = 1 => c = ntasks - 1)

Protocol(w) ==
  /\ pc[w] \in {"loop", "barrier", "done"} => Quiet(w) /\ chan[w] = <<>>
  /\ pc[w] = "recv_cnt" =>
       \/ Waiting(w) \/ Received(w) \/ Answered(w)
       \/ HalfSent(w) /\ chan[w] = <<cnt[Leader]>>
  /\ pc[w] = "recv_flag" =>
       \/ HalfSent(w) /\ chan[w] = <<>> /\ cnt[w] = cnt[Leader]
       \/ Quiet(w) /\ \E f \in {0, 1} :
            chan[w] = <<f>> /\ (f = 1 => cnt[w] = ntasks - 1)
  /\ flag[w] = 1 => cnt[w] = ntasks - 1
  /\ pc[w] \in {"barrier", "done"} => cnt[w] = ntasks - 1
  /\ pc[w] = "recv_cnt" => cnt[w] # ntasks - 1

ProtocolInv == \A w \in Workers : Protocol(w)

LeaderInv ==
  /\ cnt[Leader] >= blk_sz - 1
  /\ flag[Leader] = 0 => cnt[Leader] = cnt_control - 1
  /\ flag[Leader] = 0 /\ Workers # {} /\ pc[Leader] \notin {"send_cnt", "send_flag"}
       => cnt[Leader] < ntasks - 1
  /\ flag[Leader] = 1 => cnt[Leader] = ntasks - 1 /\ cnt_control >= ntasks
  /\ pc[Leader] = "load" => flag[Leader] = 0 /\ cnt_control = blk_sz
  /\ pc[Leader] \in {"send_cnt", "send_flag"} => src \in Workers
  /\ pc[Leader] \in {"barrier", "done"} =>
       cnt[Leader] = ntasks - 1 /\ cnt_control >= bnd

\* The task on its way to worker w.
Held(w, i) ==
  \/ Serving(w) /\ flag[Leader] = 0 /\ i = cnt[Leader]
  \/ pc[w] = "recv_cnt" /\ chan[w] = <<i, 0>>
  \/ pc[w] = "recv_flag" /\ chan[w] = <<0>> /\ i = cnt[w]

CopiesInv ==
  \A i \in Tasks :
    /\ i < blk_sz => copies[i] = IF pc[Leader] = "load" THEN 0 ELSE 1
    /\ i >= blk_sz /\ i > cnt[Leader] => copies[i] = 0
    /\ i >= blk_sz /\ i <= cnt[Leader] =>
         \/ copies[i] = 0 /\ \E w \in Workers : Held(w, i)
         \/ copies[i] = 1 /\ \A w \in Workers : ~Held(w, i)
    /\ \A w \in Workers : Held(w, i) => i >= blk_sz /\ i <= cnt[Leader]
    /\ \A w, v \in Workers : Held(w, i) /\ Held(v, i) => w = v

\* Nobody is past the barrier before everybody is at it.
BarrierInv ==
  (\E p \in Ranks : pc[p] = "done") => \A p \in Ranks : pc[p] = "done"

\* The workers that will ask once more: the leader's loop runs once for each.
Asks(w) == /\ LastSent(w) # ntasks - 1
           /\ ~(Serving(w) /\ cnt[Leader] = ntasks - 1)
Asking  == {w \in Workers : Asks(w)}

CountInv ==
  /\ cnt[Leader] = ntasks - 1 /\ Workers # {} =>
       Cardinality(Asking) = bnd - cnt_control
  /\ cnt[Leader] < ntasks - 1 => Asking = Workers

Inv == TypeInv /\ ProtocolInv /\ LeaderInv /\ CopiesInv /\ BarrierInv /\ CountInv

-----------------------------------------------------------------------------
(***************************************************************************)
(* Arithmetic of the constants, and the two-message channel.               *)
(***************************************************************************)
LEMMA Consts ==
  /\ ntasks \in Nat /\ ntasks >= blk_sz /\ bnd \in Int /\ Leader \in Ranks
  /\ Workers # {} => sz >= 2 /\ ntasks > blk_sz /\ bnd >= ntasks
<1>1. sz * blk_sz \in Nat /\ sz * blk_sz >= blk_sz
  BY SzAssumption, BlkAssumption
<1>2. sz >= 2 => sz * blk_sz > blk_sz
  <2> SUFFICES ASSUME sz >= 2 PROVE sz * blk_sz > blk_sz
    OBVIOUS
  <2>1. sz * blk_sz = blk_sz + (sz - 1) * blk_sz
    BY SzAssumption, BlkAssumption
  <2>2. (sz - 1) * blk_sz >= 1
    BY SzAssumption, BlkAssumption
  <2> QED  BY <2>1, <2>2, SzAssumption, BlkAssumption
<1>3. Workers # {} => sz >= 2
  BY SzAssumption DEF Workers, Ranks, Leader
<1> QED
  BY <1>1, <1>2, <1>3, SzAssumption, BlkAssumption
  DEF ntasks, bnd, Leader, Ranks

LEMMA Channel ==
  ASSUME NEW c, NEW f
  PROVE  /\ Append(<<>>, c) = <<c>> /\ Append(<<c>>, f) = <<c, f>>
         /\ Head(<<c, f>>) = c /\ Tail(<<c, f>>) = <<f>>
         /\ Head(<<f>>) = f /\ Tail(<<f>>) = <<>>
         /\ <<f>> # <<>> /\ <<c, f>> # <<>> /\ <<c, f>> # <<f>>
<1>1. Append(<<>>, c) = <<c>>
  OBVIOUS
<1>2. Append(<<c>>, f) = <<c, f>>
  <2> DEFINE S == {c, f}
             s == Append(<<c>>, f)
  <2>1. s \in Seq(S) /\ Len(s) = 2 /\ s[1] = c /\ s[2] = f
    OBVIOUS
  <2>2. <<c, f>> \in Seq(S) /\ Len(<<c, f>>) = 2
    OBVIOUS
  <2>3. \A i \in 1 .. Len(s) : s[i] = <<c, f>>[i]
    BY <2>1
  <2> DEFINE t == <<c, f>>
  <2>4. t \in Seq(S) /\ Len(s) = Len(t) /\ \A i \in 1 .. Len(s) : s[i] = t[i]
    BY <2>1, <2>2, <2>3
  <2> HIDE DEF s, t, S
  <2>5. s = t
    BY <2>1, <2>4, SeqEqual
  <2> QED  BY <2>5 DEF s, t
<1>3. Head(<<c, f>>) = c /\ Head(<<f>>) = f
  OBVIOUS
<1>4. Tail(<<c, f>>) = <<f>>
  OBVIOUS
<1>5. Tail(<<f>>) = <<>>
  OBVIOUS
<1>6. <<f>> # <<>> /\ <<c, f>> # <<>> /\ <<c, f>> # <<f>>
  OBVIOUS
<1> QED  BY <1>1, <1>2, <1>3, <1>4, <1>5, <1>6

LEMMA InitInv == Init => Inv
<1> SUFFICES ASSUME Init PROVE Inv
  OBVIOUS
<1> USE Consts, BlkAssumption DEF Init
<1>1. \A w \in Workers : w # Leader /\ w \in Ranks
  BY DEF Workers
<1>2. TypeInv
  BY <1>1 DEF TypeInv, LeaderPCs, WorkerPCs, Tasks
<1>3. ProtocolInv
  BY <1>1 DEF ProtocolInv, Protocol, Quiet, Serving
<1>4. LeaderInv
  BY DEF LeaderInv
<1>5. \A w \in Workers, i \in Tasks : ~Held(w, i)
  BY <1>1 DEF Held, Serving
<1>6. CopiesInv
  BY <1>5 DEF CopiesInv, Tasks
<1>7. BarrierInv
  BY DEF BarrierInv
<1>8. CountInv
  <2>1. Workers = {} \/ cnt[Leader] < ntasks - 1
    BY DEF LeaderInv
  <2>2. cnt[Leader] < ntasks - 1 => Asking = Workers
    BY <1>1 DEF Asking, Asks, LastSent, Serving
  <2> QED  BY <2>1, <2>2 DEF CountInv
<1> QED  BY <1>2, <1>3, <1>4, <1>6, <1>7, <1>8 DEF Inv

-----------------------------------------------------------------------------
(***************************************************************************)
(* What the leader and the workers find when they act.                     *)
(***************************************************************************)
LEMMA InboxWorker ==
  ASSUME TypeInv, ProtocolInv, NEW w \in inbox
  PROVE  w \in Workers /\ pc[w] = "recv_cnt" /\ Waiting(w)
<1>1. w \in Workers /\ pc[w] \in WorkerPCs /\ Protocol(w)
  BY DEF TypeInv, ProtocolInv
<1> QED
  BY <1>1 DEF WorkerPCs, Protocol, Quiet, Received, Answered, HalfSent

LEMMA RecvCntFinds ==
  ASSUME TypeInv, ProtocolInv, NEW w \in Workers, WorkerRecvCnt(w)
  PROVE  \/ HalfSent(w) /\ chan[w] = <<cnt[Leader]>>
         \/ Answered(w)
  BY DEF WorkerRecvCnt, ProtocolInv, Protocol, Waiting, Received

LEMMA RecvFlagFinds ==
  ASSUME TypeInv, ProtocolInv, NEW w \in Workers, WorkerRecvFlag(w)
  PROVE  Quiet(w) /\ \E f \in {0, 1} :
                       chan[w] = <<f>> /\ (f = 1 => cnt[w] = ntasks - 1)
  BY DEF WorkerRecvFlag, ProtocolInv, Protocol

LEMMA NextTask ==
  ASSUME TypeInv, LeaderInv, NEW w \in Workers, LeaderRecv(w)
  PROVE  /\ cnt'[Leader] \in Tasks /\ cnt'[Leader] >= cnt[Leader]
         /\ flag[Leader] = 0 => cnt'[Leader] = cnt[Leader] + 1
         /\ flag[Leader] = 1 => cnt'[Leader] = cnt[Leader]
         /\ \A v \in Workers : cnt'[v] = cnt[v]
         /\ cnt' \in [Ranks -> Tasks]
<1> USE Consts DEF TypeInv
<1>0. \A v \in Workers : v # Leader /\ v \in Ranks
  BY DEF Workers
<1>1. CASE flag[Leader] = 0
  <2>1. cnt[Leader] \in Tasks /\ cnt[Leader] < ntasks - 1
    BY <1>1 DEF LeaderInv, LeaderRecv
  <2>2. cnt[Leader] + 1 \in Tasks
    BY SMTT(30), <2>1 DEF Tasks
  <2>3. cnt' = [cnt EXCEPT ![Leader] = cnt[Leader] + 1]
    BY <1>1 DEF LeaderRecv
  <2>4. /\ cnt' \in [Ranks -> Tasks] /\ cnt'[Leader] = cnt[Leader] + 1
        /\ \A v \in Workers : cnt'[v] = cnt[v]
    BY <1>0, <2>2, <2>3
  <2>5. cnt[Leader] + 1 >= cnt[Leader]
    BY <2>1 DEF Tasks
  <2> QED  BY <1>1, <2>2, <2>4, <2>5
<1>2. CASE flag[Leader] = 1
  BY <1>2 DEF LeaderRecv, Tasks
<1> QED  BY <1>1, <1>2

LEMMA StepTypeInv == Inv /\ [Next]_vars => TypeInv'
<1> SUFFICES ASSUME TypeInv, ProtocolInv, LeaderInv, [Next]_vars
             PROVE  TypeInv'
  BY DEF Inv
<1> USE Consts DEF TypeInv, Goto, LeaderPCs, WorkerPCs
<1>0. \A v \in Workers : v # Leader /\ v \in Ranks
  BY DEF Workers
<1>1. CASE LeaderLoad
  BY <1>0, <1>1 DEF LeaderLoad
<1>2. ASSUME NEW w \in Workers, LeaderRecv(w) PROVE TypeInv'
  BY SMTT(30), <1>0, <1>2, NextTask DEF LeaderRecv
<1>3. CASE LeaderSendCnt
  <2>1. cnt[Leader] \in Nat /\ chan[src] \in Seq(Nat)
    BY DEF Tasks
  <2>2. chan' \in [Ranks -> Seq(Nat)]
    BY <1>3, <2>1 DEF LeaderSendCnt
  <2> QED  BY <1>0, <1>3, <2>2 DEF LeaderSendCnt
<1>4. CASE LeaderSendFlag
  <2>0. flag[Leader] \in {0, 1}
    OBVIOUS
  <2>1. flag[Leader] \in Nat /\ chan[src] \in Seq(Nat)
    BY <2>0
  <2>2. chan' \in [Ranks -> Seq(Nat)]
    BY <1>4, <2>1 DEF LeaderSendFlag
  <2>3. flag' \in [Ranks -> {0, 1}]
    BY <1>4 DEF LeaderSendFlag
  <2> QED  BY <1>0, <1>4, <2>2, <2>3 DEF LeaderSendFlag
<1>5. CASE LeaderLeave
  BY <1>0, <1>5 DEF LeaderLeave
<1>6. ASSUME NEW w \in Workers, WorkerRequest(w) PROVE TypeInv'
  BY <1>0, <1>6 DEF WorkerRequest
<1>7. ASSUME NEW w \in Workers, WorkerRecvCnt(w) PROVE TypeInv'
  <2>1. Head(chan[w]) \in Tasks
    <3>1. CASE chan[w] = <<cnt[Leader]>>
      BY <3>1, Channel
    <3>2. CASE Answered(w)
      <4>1. PICK c \in Tasks, f \in {0, 1} : chan[w] = <<c, f>>
        BY <3>2 DEF Answered
      <4> QED  BY <4>1, Channel
    <3> QED  BY <1>7, <3>1, <3>2, RecvCntFinds
  <2>2. chan[w] \in Seq(Nat) /\ chan[w] # <<>>
    BY <1>0, <1>7 DEF WorkerRecvCnt
  <2>3. Tail(chan[w]) \in Seq(Nat)
    BY <2>2
  <2> QED  BY <1>0, <1>7, <2>1, <2>3 DEF WorkerRecvCnt
<1>8. ASSUME NEW w \in Workers, WorkerRecvFlag(w) PROVE TypeInv'
  <2>1. Head(chan[w]) \in {0, 1}
    <3>1. PICK f \in {0, 1} : chan[w] = <<f>>
      BY <1>8, RecvFlagFinds
    <3> QED  BY <3>1, Channel
  <2>2. chan[w] \in Seq(Nat) /\ chan[w] # <<>>
    BY <1>0, <1>8 DEF WorkerRecvFlag
  <2>3. Tail(chan[w]) \in Seq(Nat)
    BY <2>2
  <2>4. copies' \in [Tasks -> Nat]
    <3>1. cnt[w] \in Tasks
      BY <1>0
    <3>2. copies' = copies \/ copies' = [copies EXCEPT ![cnt[w]] = copies[cnt[w]] + 1]
      BY <1>8 DEF WorkerRecvFlag, Load
    <3>3. copies[cnt[w]] + 1 \in Nat
      BY <3>1
    <3> QED  BY <3>1, <3>2, <3>3
  <2> QED  BY <1>0, <1>8, <2>1, <2>3, <2>4 DEF WorkerRecvFlag
<1>9. ASSUME NEW w \in Workers, WorkerLeave(w) PROVE TypeInv'
  BY <1>0, <1>9 DEF WorkerLeave
<1>10. CASE Synchronize
  BY <1>0, <1>10 DEF Synchronize
<1>11. CASE Terminated \/ UNCHANGED vars
  BY <1>11 DEF Terminated, vars
<1> QED
  BY <1>1, <1>2, <1>3, <1>4, <1>5, <1>6, <1>7, <1>8, <1>9, <1>10, <1>11
  DEF Next, LeaderStep, WorkerStep

LEMMA StepLeaderInv == Inv /\ [Next]_vars => LeaderInv'
<1> SUFFICES ASSUME TypeInv, ProtocolInv, LeaderInv, BarrierInv, [Next]_vars
             PROVE  LeaderInv'
  BY DEF Inv
<1> USE Consts, BlkAssumption DEF TypeInv, Goto, Tasks
<1>0. \A v \in Workers : v # Leader /\ v \in Ranks
  BY DEF Workers
<1>1. CASE LeaderLoad
  BY <1>1 DEF LeaderLoad, LeaderInv
<1>2. ASSUME NEW w \in Workers, LeaderRecv(w) PROVE LeaderInv'
  <2>1. pc'[Leader] = "send_cnt" /\ src' = w /\ cnt_control' = cnt_control + 1
        /\ UNCHANGED flag
    BY <1>2 DEF LeaderRecv
  <2>2. /\ cnt[Leader] \in 0 .. (ntasks - 1) /\ flag[Leader] \in {0, 1}
        /\ cnt'[Leader] \in 0 .. (ntasks - 1) /\ cnt_control \in Nat
    BY <1>2, NextTask
  <2>3. CASE flag[Leader] = 0
    <3>1. cnt'[Leader] = cnt[Leader] + 1
      BY <1>2, <2>3, NextTask
    <3> QED  BY <2>1, <2>2, <2>3, <3>1 DEF LeaderInv
  <2>4. CASE flag[Leader] = 1
    <3>1. cnt'[Leader] = cnt[Leader]
      BY <1>2, <2>4, NextTask
    <3> QED  BY <2>1, <2>2, <2>4, <3>1 DEF LeaderInv
  <2> QED  BY <2>2, <2>3, <2>4
<1>3. CASE LeaderSendCnt
  BY <1>3 DEF LeaderSendCnt, LeaderInv
<1>4. CASE LeaderSendFlag
  <2>1. pc'[Leader] = "serve" /\ UNCHANGED <<cnt, cnt_control>>
    BY <1>4 DEF LeaderSendFlag
  <2>2. flag'[Leader] = IF cnt[Leader] = ntasks - 1 THEN 1 ELSE flag[Leader]
    BY <1>4 DEF LeaderSendFlag
  <2>3. cnt[Leader] \in 0 .. (ntasks - 1) /\ flag[Leader] \in {0, 1}
    OBVIOUS
  <2>4. CASE cnt[Leader] = ntasks - 1
    <3>1. flag'[Leader] = 1 /\ cnt_control >= ntasks
      BY <2>2, <2>3, <2>4 DEF LeaderInv
    <3> QED  BY <2>1, <2>4, <3>1 DEF LeaderInv
  <2>5. CASE cnt[Leader] # ntasks - 1
    <3>1. flag[Leader] = 0 /\ flag'[Leader] = 0
      BY <2>2, <2>3, <2>5 DEF LeaderInv
    <3>2. cnt[Leader] < ntasks - 1
      BY <2>3, <2>5
    <3> QED  BY <2>1, <3>1, <3>2 DEF LeaderInv
  <2> QED  BY <2>4, <2>5
<1>5. CASE LeaderLeave
  <2>1. pc'[Leader] = "barrier" /\ UNCHANGED <<cnt, flag, cnt_control>>
        /\ cnt_control >= bnd
    BY <1>5 DEF LeaderLeave
  <2>2. cnt[Leader] = ntasks - 1
    <3>1. CASE Workers # {}
      BY <1>5, <3>1 DEF LeaderInv, LeaderLeave
    <3>2. CASE Workers = {}
      <4>1. sz = 1
        <5>1. sz >= 2 => 1 \in Workers
          BY SzAssumption DEF Workers, Ranks, Leader
        <5> QED  BY <3>2, <5>1, SzAssumption
      <4>2. ntasks = blk_sz
        BY <4>1 DEF ntasks
      <4> QED  BY <4>2 DEF LeaderInv
    <3> QED  BY <3>1, <3>2
  <2> QED  BY <1>5, <2>1, <2>2 DEF LeaderInv, LeaderLeave
<1>6. ASSUME NEW w \in Workers, WorkerStep(w) PROVE LeaderInv'
  <2>1. pc'[Leader] = pc[Leader] /\ cnt'[Leader] = cnt[Leader]
        /\ flag'[Leader] = flag[Leader] /\ UNCHANGED <<cnt_control, src>>
    BY <1>0, <1>6 DEF WorkerStep, WorkerRequest, WorkerRecvCnt, WorkerRecvFlag,
                      WorkerLeave
  <2> QED  BY <2>1 DEF LeaderInv
<1>7. CASE Synchronize
  BY <1>7 DEF Synchronize, LeaderInv
<1>8. CASE Terminated \/ UNCHANGED vars
  BY <1>8 DEF Terminated, vars, LeaderInv
<1> QED
  BY <1>1, <1>2, <1>3, <1>4, <1>5, <1>6, <1>7, <1>8 DEF Next, LeaderStep

LEMMA StepBarrierInv == Inv /\ [Next]_vars => BarrierInv'
<1> SUFFICES ASSUME TypeInv, BarrierInv, [Next]_vars PROVE BarrierInv'
  BY DEF Inv
<1> USE Consts DEF TypeInv, Goto, BarrierInv
<1>0. \A v \in Workers : v # Leader /\ v \in Ranks
  BY DEF Workers
<1>1. CASE Synchronize
  BY <1>1 DEF Synchronize
<1>2. CASE LeaderStep
  BY <1>2 DEF LeaderStep, LeaderLoad, LeaderRecv, LeaderSendCnt, LeaderSendFlag,
              LeaderLeave
<1>3. ASSUME NEW w \in Workers, WorkerStep(w) PROVE BarrierInv'
  BY <1>0, <1>3 DEF WorkerStep, WorkerRequest, WorkerRecvCnt, WorkerRecvFlag,
                    WorkerLeave
<1>4. CASE Terminated \/ UNCHANGED vars
  BY <1>4 DEF Terminated, vars
<1> QED  BY <1>1, <1>2, <1>3, <1>4 DEF Next

-----------------------------------------------------------------------------
(***************************************************************************)
(* The request-answer protocol.                                            *)
(***************************************************************************)
LEMMA ProtocolKept ==
  ASSUME NEW v \in Workers, Protocol(v),
         pc'[v] = pc[v], chan'[v] = chan[v], cnt'[v] = cnt[v],
         flag'[v] = flag[v], (v \in inbox)' <=> v \in inbox,
         Serving(v)' <=> Serving(v),
         Serving(v) => pc'[Leader] = pc[Leader] /\ cnt'[Leader] = cnt[Leader]
  PROVE  Protocol(v)'
<1>1. /\ Quiet(v)' <=> Quiet(v)
      /\ Waiting(v)' <=> Waiting(v)
      /\ Received(v)' <=> Received(v)
      /\ HalfSent(v)' <=> HalfSent(v)
  BY DEF Quiet, Waiting, Received, HalfSent
<1>2. Answered(v)' <=> Answered(v)
  BY <1>1 DEF Answered
<1>3. HalfSent(v) => cnt'[Leader] = cnt[Leader]
  BY DEF HalfSent
<1> QED  BY <1>1, <1>2, <1>3 DEF Protocol

\* The worker the leader is answering.
LEMMA ServedWorker ==
  ASSUME TypeInv, ProtocolInv, NEW v \in Workers, Serving(v)
  PROVE  /\ v \notin inbox
         /\ pc[Leader] = "send_cnt" => pc[v] = "recv_cnt" /\ chan[v] = <<>>
         /\ pc[Leader] = "send_flag" =>
              \/ pc[v] = "recv_cnt" /\ chan[v] = <<cnt[Leader]>>
              \/ pc[v] = "recv_flag" /\ chan[v] = <<>> /\ cnt[v] = cnt[Leader]
<1>1. pc[v] \in WorkerPCs /\ Protocol(v)
  BY DEF TypeInv, ProtocolInv
<1> QED
  BY <1>1 DEF WorkerPCs, Protocol, Quiet, Waiting, Received, HalfSent, Answered

LEMMA StepProtocolInv == Inv /\ [Next]_vars => ProtocolInv'
<1> SUFFICES ASSUME TypeInv, ProtocolInv, LeaderInv, [Next]_vars,
                    NEW v \in Workers
             PROVE  Protocol(v)'
  BY DEF Inv, ProtocolInv
<1> USE Consts DEF TypeInv, Goto
<1>0. /\ v # Leader /\ v \in Ranks /\ Protocol(v)
      /\ \A w \in Workers : w # Leader /\ w \in Ranks
  BY DEF Workers, ProtocolInv
<1>1. CASE LeaderLoad
  BY <1>0, <1>1, ProtocolKept DEF LeaderLoad, Serving
<1>2. ASSUME NEW w \in Workers, LeaderRecv(w) PROVE Protocol(v)'
  <2>1. /\ pc'[Leader] = "send_cnt" /\ src' = w /\ inbox' = inbox \ {w}
        /\ pc'[v] = pc[v] /\ cnt'[v] = cnt[v] /\ UNCHANGED <<flag, chan>>
        /\ ~Serving(v)
    BY <1>0, <1>2, NextTask DEF LeaderRecv, Serving
  <2>2. CASE v # w
    BY <1>0, <2>1, <2>2, ProtocolKept DEF Serving
  <2>3. CASE v = w
    <3>1. pc[v] = "recv_cnt" /\ chan[v] = <<>>
      BY <1>2, <2>3, InboxWorker DEF LeaderRecv, Waiting
    <3>2. Received(v)'
      BY <2>1, <2>3, <3>1 DEF Received, Serving
    <3> QED  BY <1>0, <2>1, <3>1, <3>2 DEF Protocol
  <2> QED  BY <2>2, <2>3
<1>3. CASE LeaderSendCnt
  <2>1. /\ pc'[Leader] = "send_flag" /\ pc'[v] = pc[v]
        /\ UNCHANGED <<cnt, flag, inbox, src>> /\ Serving(src)
    BY <1>0, <1>3 DEF LeaderSendCnt, Serving
  <2>2. CASE v # src
    BY <1>0, <1>3, <2>1, <2>2, ProtocolKept DEF Serving, LeaderSendCnt
  <2>3. CASE v = src
    <3>1. pc[v] = "recv_cnt" /\ chan[v] = <<>> /\ v \notin inbox
      BY <1>3, <2>1, <2>3, ServedWorker DEF LeaderSendCnt
    <3>2. chan'[v] = <<cnt'[Leader]>>
      BY <1>3, <2>1, <2>3, <3>1, Channel DEF LeaderSendCnt
    <3>3. HalfSent(v)'
      BY <2>1, <2>3, <3>1 DEF HalfSent, Serving
    <3> QED  BY <1>0, <2>1, <3>1, <3>2, <3>3 DEF Protocol
  <2> QED  BY <2>2, <2>3
<1>4. CASE LeaderSendFlag
  <2>1. /\ pc'[Leader] = "serve" /\ pc'[v] = pc[v] /\ flag'[v] = flag[v]
        /\ UNCHANGED <<cnt, inbox, src>> /\ Serving(src)
    BY <1>0, <1>4 DEF LeaderSendFlag, Serving
  <2>2. CASE v # src
    BY <1>0, <1>4, <2>1, <2>2, ProtocolKept DEF Serving, LeaderSendFlag
  <2>3. CASE v = src
    <3> DEFINE c == cnt[Leader]
               f == flag[Leader]
    <3>0. c \in Tasks /\ f \in {0, 1} /\ (f = 1 => c = ntasks - 1)
      BY DEF LeaderInv
    <3>1. Quiet(v)'
      BY <2>1, <2>3, ServedWorker DEF Quiet, Serving
    <3>2. CASE pc[v] = "recv_cnt"
      <4>1. chan[v] = <<c>>
        BY <1>4, <2>1, <2>3, <3>2, ServedWorker DEF LeaderSendFlag
      <4>2. chan'[v] = <<c, f>>
        <5>1. chan'[v] = Append(chan[v], f)
          BY <1>0, <1>4, <2>3 DEF LeaderSendFlag
        <5>2. Append(<<c>>, f) = <<c, f>>
          BY Channel
        <5> QED  BY <4>1, <5>1, <5>2
      <4>3. Answered(v)'
        BY <3>0, <3>1, <4>2 DEF Answered
      <4> QED  BY <1>0, <2>1, <3>2, <4>3 DEF Protocol
    <3>3. CASE pc[v] = "recv_flag"
      <4>1. chan[v] = <<>> /\ cnt[v] = c
        BY <1>4, <2>1, <2>3, <3>3, ServedWorker DEF LeaderSendFlag
      <4>2. chan'[v] = <<f>>
        BY <1>0, <1>4, <2>3, <4>1, Channel DEF LeaderSendFlag
      <4>3. \E g \in {0, 1} : chan'[v] = <<g>> /\ (g = 1 => cnt'[v] = ntasks - 1)
        BY <2>1, <3>0, <4>1, <4>2
      <4> QED  BY <1>0, <2>1, <3>1, <3>3, <4>3 DEF Protocol
    <3> QED  BY <1>4, <2>1, <2>3, <3>2, <3>3, ServedWorker DEF LeaderSendFlag
  <2> QED  BY <2>2, <2>3
<1>5. CASE LeaderLeave
  BY <1>0, <1>5, ProtocolKept DEF LeaderLeave, Serving
<1>6. ASSUME NEW w \in Workers, WorkerStep(w), v # w PROVE Protocol(v)'
  <2>1. /\ pc'[v] = pc[v] /\ pc'[Leader] = pc[Leader] /\ chan'[v] = chan[v]
        /\ cnt'[v] = cnt[v] /\ cnt'[Leader] = cnt[Leader] /\ flag'[v] = flag[v]
        /\ (v \in inbox' <=> v \in inbox) /\ UNCHANGED src
    BY <1>0, <1>6 DEF WorkerStep, WorkerRequest, WorkerRecvCnt, WorkerRecvFlag,
                      WorkerLeave
  <2> QED  BY <1>0, <2>1, ProtocolKept DEF Serving
<1>7. CASE WorkerRequest(v)
  <2>1. /\ pc'[v] = "recv_cnt" /\ pc'[Leader] = pc[Leader] /\ v \in inbox'
        /\ UNCHANGED <<cnt, flag, src, chan>> /\ cnt[v] # ntasks - 1
    BY <1>0, <1>7 DEF WorkerRequest, NoMore
  <2>2. Waiting(v)'
    BY <1>0, <1>7, <2>1 DEF Waiting, WorkerRequest, Protocol, Quiet, Serving
  <2> QED  BY <1>0, <2>1, <2>2 DEF Protocol
<1>8. CASE WorkerRecvCnt(v)
  <2>1. /\ pc'[v] = "recv_flag" /\ pc'[Leader] = pc[Leader]
        /\ UNCHANGED <<flag, src, inbox>> /\ cnt'[Leader] = cnt[Leader]
        /\ cnt'[v] = Head(chan[v]) /\ chan'[v] = Tail(chan[v])
        /\ cnt[v] # ntasks - 1
    BY <1>0, <1>8 DEF WorkerRecvCnt, Protocol
  <2>2. flag'[v] # 1
    BY <1>0, <2>1 DEF Protocol
  <2>3. CASE HalfSent(v) /\ chan[v] = <<cnt[Leader]>>
    <3>1. chan'[v] = <<>> /\ cnt'[v] = cnt'[Leader] /\ HalfSent(v)'
      BY <2>1, <2>3, Channel DEF HalfSent, Serving
    <3> QED  BY <2>1, <2>2, <3>1 DEF Protocol
  <2>4. CASE Answered(v)
    <3>1. PICK c \in Tasks, f \in {0, 1} :
            chan[v] = <<c, f>> /\ (f = 1 => c = ntasks - 1)
      BY <2>4 DEF Answered
    <3>2. chan'[v] = <<f>> /\ cnt'[v] = c
      BY <2>1, <3>1, Channel
    <3>3. Quiet(v)'
      BY <2>1, <2>4 DEF Answered, Quiet, Serving
    <3> QED  BY <2>1, <2>2, <3>1, <3>2, <3>3 DEF Protocol
  <2> QED  BY <1>8, <2>3, <2>4, RecvCntFinds
<1>9. CASE WorkerRecvFlag(v)
  <2>1. PICK f \in {0, 1} : chan[v] = <<f>> /\ (f = 1 => cnt[v] = ntasks - 1)
    BY <1>9, RecvFlagFinds
  <2>2. /\ pc'[v] = "loop" /\ pc'[Leader] = pc[Leader]
        /\ UNCHANGED <<cnt, src, inbox>> /\ flag'[v] = f /\ chan'[v] = <<>>
    BY <1>0, <1>9, <2>1, Channel DEF WorkerRecvFlag
  <2>3. Quiet(v)'
    BY <1>9, <2>2, RecvFlagFinds DEF Quiet, Serving
  <2> QED  BY <2>1, <2>2, <2>3 DEF Protocol
<1>10. CASE WorkerLeave(v)
  <2>1. /\ pc'[v] = "barrier" /\ pc'[Leader] = pc[Leader]
        /\ UNCHANGED <<cnt, flag, src, inbox, chan>>
    BY <1>0, <1>10 DEF WorkerLeave
  <2>2. cnt[v] = ntasks - 1
    BY <1>0, <1>10 DEF WorkerLeave, NoMore, Protocol
  <2>3. Quiet(v)' /\ chan[v] = <<>>
    BY <1>0, <1>10, <2>1 DEF WorkerLeave, Protocol, Quiet, Serving
  <2> QED  BY <2>1, <2>2, <2>3 DEF Protocol
<1>11. CASE Synchronize
  <2>1. /\ pc[v] = "barrier" /\ pc'[v] = "done" /\ pc'[Leader] = "done"
        /\ UNCHANGED <<cnt, flag, src, inbox, chan>>
    BY <1>0, <1>11 DEF Synchronize
  <2>2. Quiet(v)' /\ chan[v] = <<>> /\ cnt[v] = ntasks - 1
    BY <1>0, <2>1 DEF Protocol, Quiet, Serving
  <2> QED  BY <2>1, <2>2 DEF Protocol
<1>12. CASE Terminated \/ UNCHANGED vars
  BY <1>0, <1>12, ProtocolKept DEF Terminated, vars, Serving
<1> QED
  BY <1>1, <1>2, <1>3, <1>4, <1>5, <1>6, <1>7, <1>8, <1>9, <1>10, <1>11, <1>12
  DEF Next, LeaderStep, WorkerStep

-----------------------------------------------------------------------------
(***************************************************************************)
(* Every task handed out is either on its way to one worker or loaded.     *)
(***************************************************************************)
LEMMA Pairs ==
  ASSUME NEW c, NEW f, NEW i
  PROVE  /\ <<c, f>> = <<i, 0>> <=> c = i /\ f = 0
         /\ <<f>> = <<0>> <=> f = 0
         /\ <<c>> # <<i, 0>> /\ <<>> # <<i, 0>> /\ <<>> # <<0>>
  OBVIOUS

LEMMA CopiesKept ==
  ASSUME CopiesInv, \A w \in Workers, i \in Tasks : Held(w, i)' <=> Held(w, i),
         cnt'[Leader] = cnt[Leader], UNCHANGED copies,
         pc'[Leader] = "load" <=> pc[Leader] = "load"
  PROVE  CopiesInv'
  BY DEF CopiesInv

\* A step that changes nothing about worker w but perhaps the leader's flag.
LEMMA HeldKept ==
  ASSUME NEW w \in Workers, NEW i \in Tasks,
         pc'[w] = pc[w], chan'[w] = chan[w], cnt'[w] = cnt[w],
         Serving(w)' <=> Serving(w),
         Serving(w) => cnt'[Leader] = cnt[Leader] /\ flag'[Leader] = flag[Leader]
  PROVE  Held(w, i)' <=> Held(w, i)
  BY DEF Held

\* Nothing is on its way to a worker in its loop, or that waits.
LEMMA NothingHeld ==
  ASSUME NEW w \in Workers, NEW i \in Tasks, chan[w] = <<>>, ~Serving(w)
  PROVE  ~Held(w, i)
  BY Pairs DEF Held

LEMMA StepCopiesInv == Inv /\ [Next]_vars => CopiesInv'
<1> SUFFICES ASSUME TypeInv, ProtocolInv, LeaderInv, CopiesInv, [Next]_vars
             PROVE  CopiesInv'
  BY DEF Inv
<1> USE Consts DEF TypeInv, Goto
<1>0. \A w \in Workers : w # Leader /\ w \in Ranks /\ Protocol(w)
  BY DEF Workers, ProtocolInv
<1>1. CASE LeaderLoad
  <2>1. /\ pc[Leader] = "load" /\ pc'[Leader] = "serve"
        /\ UNCHANGED <<cnt, flag, src, inbox, chan>>
    BY <1>1 DEF LeaderLoad
  <2>2. ASSUME NEW w \in Workers, NEW i \in Tasks PROVE Held(w, i)' <=> Held(w, i)
    BY <1>0, <1>1, <2>1, HeldKept DEF LeaderLoad, Serving
  <2>3. cnt[Leader] = blk_sz - 1
    BY <2>1 DEF LeaderInv
  <2>4. \A i \in Tasks : copies'[i] = IF i < blk_sz THEN copies[i] + 1 ELSE copies[i]
    BY <1>1 DEF LeaderLoad
  <2>5. ASSUME NEW i \in Tasks
        PROVE  /\ i \in Int /\ (i <= cnt[Leader] => i < blk_sz)
               /\ i < blk_sz => copies[i] = 0
    BY <2>1, <2>3, BlkAssumption DEF CopiesInv, Tasks
  <2> QED  BY <2>1, <2>2, <2>3, <2>4, <2>5, BlkAssumption DEF CopiesInv
<1>2. ASSUME NEW w \in Workers, LeaderRecv(w) PROVE CopiesInv'
  <2>1. /\ pc[Leader] = "serve" /\ pc'[Leader] = "send_cnt" /\ src' = w
        /\ UNCHANGED <<flag, chan, copies>>
        /\ \A v \in Workers : pc'[v] = pc[v] /\ cnt'[v] = cnt[v]
    BY <1>0, <1>2, NextTask DEF LeaderRecv
  <2>0. /\ flag[Leader] = 0 => cnt'[Leader] = cnt[Leader] + 1
        /\ flag[Leader] = 1 => cnt'[Leader] = cnt[Leader]
        /\ cnt'[Leader] \in Tasks
    BY <1>2, NextTask
  <2>9. cnt[Leader] \in Int /\ cnt[Leader] >= blk_sz - 1
    BY DEF LeaderInv, Tasks
  <2>2. CASE flag[Leader] = 0
    <3> DEFINE n == cnt[Leader] + 1
    <3> HIDE DEF TypeInv
    <3>1. cnt'[Leader] = n /\ n \in Tasks /\ n >= blk_sz
      BY <2>0, <2>2, <2>9, BlkAssumption
    <3>2. ASSUME NEW v \in Workers, NEW i \in Tasks
          PROVE  Held(v, i)' <=> Held(v, i) \/ (v = w /\ i = n)
      BY <2>1, <2>2, <3>1 DEF Held, Serving
    <3>3. ASSUME NEW v \in Workers PROVE ~Held(v, n) /\ copies[n] = 0
      BY <2>9, <3>1, BlkAssumption DEF CopiesInv
    <3>4. ASSUME NEW i \in Tasks
          PROVE  /\ i <= n <=> (i <= cnt[Leader] \/ i = n)
                 /\ i > n => i > cnt[Leader]
                 /\ i = n => ~(i <= cnt[Leader])
      BY <2>9 DEF Tasks
    <3> HIDE DEF n
    <3>5. \A i \in Tasks : (\E v \in Workers : Held(v, i)')
                           <=> (\E v \in Workers : Held(v, i)) \/ i = n
      BY <3>2
    <3> QED  BY <2>1, <3>1, <3>2, <3>3, <3>4, <3>5 DEF CopiesInv
  <2>3. CASE flag[Leader] = 1
    <3>1. cnt'[Leader] = cnt[Leader]
      BY <2>0, <2>3
    <3>2. ASSUME NEW v \in Workers, NEW i \in Tasks PROVE Held(v, i)' <=> Held(v, i)
      BY SMTT(30), <2>1, <2>3, <3>1 DEF Held, Serving
    <3> QED  BY <2>1, <3>1, <3>2, CopiesKept
  <2> QED  BY <2>2, <2>3
<1>3. CASE LeaderSendCnt
  <2>1. /\ pc[Leader] = "send_cnt" /\ pc'[Leader] = "send_flag"
        /\ UNCHANGED <<cnt, flag, src, copies>>
        /\ \A v \in Workers : pc'[v] = pc[v]
    BY <1>0, <1>3 DEF LeaderSendCnt
  <2>2. ASSUME NEW v \in Workers, NEW i \in Tasks PROVE Held(v, i)' <=> Held(v, i)
    <3>1. CASE v # src
      <4>1. chan'[v] = chan[v]
        BY <1>0, <1>3, <3>1 DEF LeaderSendCnt
      <4> QED  BY <2>1, <3>1, <4>1, HeldKept DEF Serving
    <3>2. CASE v = src
      <4>1. Serving(v) /\ Serving(v)' /\ pc[v] = "recv_cnt" /\ chan[v] = <<>>
        BY <2>1, <3>2, ServedWorker DEF Serving
      <4>2. chan'[v] = <<cnt[Leader]>>
        BY <1>0, <1>3, <3>2, <4>1, Channel DEF LeaderSendCnt
      <4> QED  BY <2>1, <4>1, <4>2, Pairs DEF Held
    <3> QED  BY <3>1, <3>2
  <2> QED  BY <2>1, <2>2, CopiesKept
<1>4. CASE LeaderSendFlag
  <2>1. /\ pc[Leader] = "send_flag" /\ pc'[Leader] = "serve"
        /\ UNCHANGED <<cnt, src, copies>>
        /\ \A v \in Workers : pc'[v] = pc[v] /\ ~Serving(v)'
    BY <1>0, <1>4 DEF LeaderSendFlag, Serving
  <2>2. ASSUME NEW v \in Workers, NEW i \in Tasks PROVE Held(v, i)' <=> Held(v, i)
    <3>1. CASE v # src
      <4>1. chan'[v] = chan[v]
        BY <1>0, <1>4, <3>1 DEF LeaderSendFlag
      <4> QED  BY <2>1, <3>1, <4>1, HeldKept DEF Serving
    <3>2. CASE v = src
      <4> DEFINE c == cnt[Leader]
                 f == flag[Leader]
      <4>1. Serving(v) /\ chan'[v] = Append(chan[v], f)
        BY <1>0, <1>4, <2>1, <3>2 DEF LeaderSendFlag, Serving
      <4>2. CASE pc[v] = "recv_cnt" /\ chan[v] = <<c>>
        <5>1. chan'[v] = <<c, f>>
          <6>1. Append(<<c>>, f) = <<c, f>>
            BY Channel
          <6> QED  BY <4>1, <4>2, <6>1
        <5>2. Held(v, i)' <=> c = i /\ f = 0
          BY <2>1, <4>2, <5>1, Pairs DEF Held
        <5>3. Held(v, i) <=> c = i /\ f = 0
          BY <4>1, <4>2, Pairs DEF Held
        <5> QED  BY <5>2, <5>3
      <4>3. CASE pc[v] = "recv_flag" /\ chan[v] = <<>> /\ cnt[v] = c
        <5>1. chan'[v] = <<f>>
          BY <4>1, <4>3, Channel
        <5>2. Held(v, i)' <=> c = i /\ f = 0
          BY <2>1, <4>3, <5>1, Pairs DEF Held
        <5>3. Held(v, i) <=> c = i /\ f = 0
          BY <4>1, <4>3, Pairs DEF Held
        <5> QED  BY <5>2, <5>3
      <4> QED  BY <2>1, <4>1, <4>2, <4>3, ServedWorker
    <3> QED  BY <3>1, <3>2
  <2> QED  BY <2>1, <2>2, CopiesKept
<1>5. CASE LeaderLeave
  <2>1. ASSUME NEW v \in Workers, NEW i \in Tasks PROVE Held(v, i)' <=> Held(v, i)
    BY <1>0, <1>5, HeldKept DEF LeaderLeave, Serving
  <2> QED  BY <1>5, <2>1, CopiesKept DEF LeaderLeave
<1>6. ASSUME NEW w \in Workers, WorkerStep(w)
      PROVE  \A v \in Workers \ {w}, i \in Tasks : Held(v, i)' <=> Held(v, i)
  <2> SUFFICES ASSUME NEW v \in Workers \ {w}, NEW i \in Tasks
               PROVE  Held(v, i)' <=> Held(v, i)
    OBVIOUS
  <2>1. /\ pc'[v] = pc[v] /\ pc'[Leader] = pc[Leader] /\ chan'[v] = chan[v]
        /\ cnt'[v] = cnt[v] /\ cnt'[Leader] = cnt[Leader]
        /\ flag'[Leader] = flag[Leader] /\ UNCHANGED src
    BY <1>0, <1>6 DEF WorkerStep, WorkerRequest, WorkerRecvCnt, WorkerRecvFlag,
                      WorkerLeave
  <2> QED  BY <2>1, HeldKept DEF Serving
<1>7. ASSUME NEW w \in Workers, WorkerRequest(w) \/ WorkerLeave(w)
      PROVE  CopiesInv'
  <2>1. /\ pc'[Leader] = pc[Leader] /\ UNCHANGED <<cnt, flag, src, chan, copies>>
        /\ pc[w] = "loop"
    BY <1>0, <1>7 DEF WorkerRequest, WorkerLeave
  <2>2. chan[w] = <<>> /\ ~Serving(w) /\ ~Serving(w)'
    BY <1>0, <2>1 DEF Protocol, Quiet, Serving
  <2>3. \A i \in Tasks : ~Held(w, i) /\ ~Held(w, i)'
    BY <2>1, <2>2, Pairs DEF Held
  <2>4. \A v \in Workers, i \in Tasks : Held(v, i)' <=> Held(v, i)
    BY <1>6, <1>7, <2>3 DEF WorkerStep
  <2> QED  BY <2>1, <2>4, CopiesKept
<1>8. ASSUME NEW w \in Workers, WorkerRecvCnt(w) PROVE CopiesInv'
  <2>1. /\ pc[w] = "recv_cnt" /\ pc'[w] = "recv_flag" /\ pc'[Leader] = pc[Leader]
        /\ UNCHANGED <<flag, src, copies>> /\ cnt'[Leader] = cnt[Leader]
        /\ cnt'[w] = Head(chan[w]) /\ chan'[w] = Tail(chan[w])
    BY <1>0, <1>8 DEF WorkerRecvCnt
  <2>2. ASSUME NEW i \in Tasks PROVE Held(w, i)' <=> Held(w, i)
    <3>1. CASE HalfSent(w) /\ chan[w] = <<cnt[Leader]>>
      <4>1. chan'[w] = <<>>
        BY <2>1, <3>1, Channel
      <4> QED  BY <2>1, <3>1, <4>1, Pairs DEF Held, Serving
    <3>2. CASE Answered(w)
      <4>1. PICK c \in Tasks, f \in {0, 1} : chan[w] = <<c, f>>
        BY <3>2 DEF Answered
      <4>2. chan'[w] = <<f>> /\ cnt'[w] = c
        BY <2>1, <4>1, Channel
      <4>3. ~Serving(w) /\ ~Serving(w)'
        BY <2>1, <3>2 DEF Answered, Quiet, Serving
      <4>4. Held(w, i) <=> c = i /\ f = 0
        BY <2>1, <4>1, <4>3, Pairs DEF Held
      <4>5. Held(w, i)' <=> c = i /\ f = 0
        BY <2>1, <4>2, <4>3, Pairs DEF Held
      <4> QED  BY <4>4, <4>5
    <3> QED  BY <1>8, <3>1, <3>2, RecvCntFinds
  <2>3. \A v \in Workers, i \in Tasks : Held(v, i)' <=> Held(v, i)
    BY <1>6, <1>8, <2>2 DEF WorkerStep
  <2> QED  BY <2>1, <2>3, CopiesKept
<1>9. ASSUME NEW w \in Workers, WorkerRecvFlag(w) PROVE CopiesInv'
  <2>1. PICK f \in {0, 1} : chan[w] = <<f>>
    BY <1>9, RecvFlagFinds
  <2>2. /\ pc[w] = "recv_flag" /\ pc'[w] = "loop" /\ pc'[Leader] = pc[Leader]
        /\ UNCHANGED <<cnt, src>> /\ chan'[w] = <<>> /\ Head(chan[w]) = f
    BY <1>0, <1>9, <2>1, Channel DEF WorkerRecvFlag
  <2>3. ~Serving(w) /\ ~Serving(w)'
    BY <1>9, <2>2, RecvFlagFinds DEF Quiet, Serving
  <2>4. \A i \in Tasks : ~Held(w, i)'
    BY <2>2, <2>3, Pairs DEF Held
  <2>5. \A i \in Tasks : Held(w, i) <=> f = 0 /\ i = cnt[w]
    BY <2>1, <2>2, <2>3, Pairs DEF Held
  <2>6. \A v \in Workers \ {w}, i \in Tasks : Held(v, i)' <=> Held(v, i)
    BY <1>6, <1>9 DEF WorkerStep
  <2>7. CASE f = 1
    <3>1. UNCHANGED copies
      BY <1>9, <2>2, <2>7 DEF WorkerRecvFlag
    <3>2. ASSUME NEW v \in Workers, NEW i \in Tasks
          PROVE  Held(v, i)' <=> Held(v, i)
      <4>1. ~Held(w, i)' /\ ~Held(w, i)
        BY <2>4, <2>5, <2>7
      <4>2. CASE v = w
        BY <4>1, <4>2
      <4>3. CASE v # w
        BY <2>6, <4>3
      <4> QED  BY <4>2, <4>3
    <3> QED  BY <2>2, <3>1, <3>2, CopiesKept
  <2>8. CASE f = 0
    <3>0. PICK n \in Tasks : n = cnt[w]
      BY <1>0
    <3>1. n \in Tasks /\ Held(w, n)
      BY <2>5, <2>8, <3>0
    <3>2. copies' = [copies EXCEPT ![n] = copies[n] + 1]
      BY <1>9, <2>2, <2>8, <3>0 DEF WorkerRecvFlag, Load
    <3>3. n >= blk_sz /\ n <= cnt[Leader] /\ copies[n] = 0
      BY <3>1 DEF CopiesInv
    <3>4. copies'[n] = 1 /\ \A i \in Tasks \ {n} : copies'[i] = copies[i]
      BY <3>1, <3>2, <3>3
    <3>5. ASSUME NEW v \in Workers PROVE ~Held(v, n)'
      <4>1. CASE v = w
        BY <2>4, <3>1, <4>1
      <4>2. CASE v # w
        <5>1. ~Held(v, n)
          BY <3>1, <4>2 DEF CopiesInv
        <5> QED  BY <2>6, <3>1, <4>2, <5>1
      <4> QED  BY <4>1, <4>2
    <3>6. ASSUME NEW v \in Workers, NEW i \in Tasks \ {n}
          PROVE  Held(v, i)' <=> Held(v, i)
      <4>1. CASE v = w
        BY <2>4, <2>5, <3>0, <4>1
      <4>2. CASE v # w
        BY <2>6, <4>2
      <4> QED  BY <4>1, <4>2
    <3>7. n \in Int /\ cnt[Leader] \in Int /\ blk_sz \in Int
      BY <3>1, BlkAssumption DEF Tasks
    <3>8. ~(n < blk_sz) /\ ~(n > cnt[Leader])
      BY <3>3, <3>7
    <3> SUFFICES ASSUME NEW i \in Tasks
        PROVE  /\ i < blk_sz => copies'[i] = IF pc'[Leader] = "load" THEN 0 ELSE 1
               /\ i >= blk_sz /\ i > cnt'[Leader] => copies'[i] = 0
               /\ i >= blk_sz /\ i <= cnt'[Leader] =>
                    \/ copies'[i] = 0 /\ \E v \in Workers : Held(v, i)'
                    \/ copies'[i] = 1 /\ \A v \in Workers : ~Held(v, i)'
               /\ \A v \in Workers : Held(v, i)' => i >= blk_sz /\ i <= cnt'[Leader]
               /\ \A v, u \in Workers : Held(v, i)' /\ Held(u, i)' => v = u
      BY DEF CopiesInv
    <3>9. CASE i = n
      BY <2>2, <3>3, <3>4, <3>5, <3>8, <3>9
    <3>10. CASE i # n
      BY <2>2, <3>4, <3>6, <3>10 DEF CopiesInv
    <3> QED  BY <3>9, <3>10
  <2> QED  BY <2>7, <2>8
<1>10. CASE Synchronize
  <2>1. /\ pc[Leader] = "barrier" /\ pc'[Leader] = "done"
        /\ UNCHANGED <<cnt, flag, src, chan, copies>>
    BY <1>10 DEF Synchronize
  <2>2. ASSUME NEW v \in Workers, NEW i \in Tasks PROVE Held(v, i)' <=> Held(v, i)
    <3>1. pc[v] = "barrier" /\ pc'[v] = "done" /\ chan[v] = <<>>
      BY <1>0, <1>10 DEF Synchronize, Protocol
    <3> QED  BY <2>1, <3>1 DEF Held, Serving
  <2> QED  BY <2>1, <2>2, CopiesKept
<1>11. CASE Terminated \/ UNCHANGED vars
  <2>1. UNCHANGED vars
    BY <1>11 DEF Terminated
  <2>2. ASSUME NEW v \in Workers, NEW i \in Tasks PROVE Held(v, i)' <=> Held(v, i)
    BY <2>1, HeldKept DEF vars, Serving
  <2> QED  BY <2>1, <2>2, CopiesKept DEF vars
<1> QED
  BY <1>1, <1>2, <1>3, <1>4, <1>5, <1>7, <1>8, <1>9, <1>10, <1>11
  DEF Next, LeaderStep, WorkerStep

-----------------------------------------------------------------------------
(***************************************************************************)
(* The leader's loop runs once more for each worker that will ask again.   *)
(***************************************************************************)
LEMMA WorkersFinite == IsFiniteSet(Workers) /\ Cardinality(Workers) = sz - 1
<1>1. IsFiniteSet(0 .. (sz - 1)) /\ Cardinality(0 .. (sz - 1)) = sz
  BY FS_Interval, SzAssumption
<1>2. Leader \in 0 .. (sz - 1)
  BY Consts DEF Ranks
<1> DEFINE S == 0 .. (sz - 1)
<1> HIDE DEF S
<1>3. IsFiniteSet(S \ {Leader}) /\ Cardinality(S \ {Leader}) = Cardinality(S) - 1
  BY <1>1, <1>2, FS_RemoveElement DEF S
<1> QED  BY <1>1, <1>3 DEF S, Workers, Ranks

LEMMA CountKept ==
  ASSUME CountInv, \A v \in Workers : Asks(v)' <=> Asks(v),
         cnt'[Leader] = cnt[Leader], UNCHANGED cnt_control
  PROVE  CountInv'
<1>1. Asking' = Asking
  BY DEF Asking
<1> QED  BY <1>1 DEF CountInv

LEMMA AsksKept ==
  ASSUME NEW v \in Workers, LastSent(v)' = LastSent(v),
         Serving(v)' <=> Serving(v), Serving(v) => cnt'[Leader] = cnt[Leader]
  PROVE  Asks(v)' <=> Asks(v)
  BY DEF Asks

LEMMA StepCountInv == Inv /\ [Next]_vars => CountInv'
<1> SUFFICES ASSUME TypeInv, ProtocolInv, LeaderInv, CountInv, [Next]_vars
             PROVE  CountInv'
  BY DEF Inv
<1> USE Consts DEF TypeInv, Goto
<1>0. \A w \in Workers : w # Leader /\ w \in Ranks /\ Protocol(w)
  BY DEF Workers, ProtocolInv
<1>1. CASE LeaderLoad \/ LeaderLeave
  <2>1. /\ UNCHANGED <<cnt, cnt_control, src, chan>>
        /\ \A v \in Workers : pc'[v] = pc[v] /\ ~Serving(v) /\ ~Serving(v)'
    BY <1>0, <1>1 DEF LeaderLoad, LeaderLeave, Serving
  <2>2. \A v \in Workers : Asks(v)' <=> Asks(v)
    BY <2>1 DEF Asks, LastSent
  <2> QED  BY <2>1, <2>2, CountKept
<1>2. ASSUME NEW w \in Workers, LeaderRecv(w) PROVE CountInv'
  <2>1. /\ pc'[Leader] = "send_cnt" /\ pc[Leader] = "serve" /\ src' = w
        /\ UNCHANGED <<flag, chan>> /\ cnt_control' = cnt_control + 1
        /\ \A v \in Workers : pc'[v] = pc[v] /\ cnt'[v] = cnt[v]
    BY <1>0, <1>2, NextTask DEF LeaderRecv
  <2>2. \A v \in Workers : ~Serving(v) /\ (Serving(v)' <=> v = w)
    BY <2>1 DEF Serving
  <2>3. \A v \in Workers : LastSent(v)' = LastSent(v)
    BY <2>1 DEF LastSent
  <2>4. cnt[Leader] \in 0 .. (ntasks - 1) /\ cnt_control \in Nat /\ ntasks \in Nat
    BY DEF Tasks
  <2>5. CASE flag[Leader] = 0 /\ cnt'[Leader] < ntasks - 1
    <3>1. Asking = Workers
      BY <1>2, <2>4, <2>5, NextTask DEF CountInv
    <3>2. \A v \in Workers : Asks(v)'
      BY <2>3, <2>5, <3>1 DEF Asks, Asking
    <3> QED  BY <2>5, <3>2 DEF CountInv, Asking
  <2>6. CASE flag[Leader] = 0 /\ cnt'[Leader] = ntasks - 1
    <3>1. cnt[Leader] < ntasks - 1 /\ cnt_control' = ntasks
      BY <1>2, <2>1, <2>4, <2>6, NextTask DEF LeaderInv
    <3>2. Asking = Workers
      BY <3>1 DEF CountInv
    <3>3. \A v \in Workers : Asks(v)' <=> v # w
      BY <2>2, <2>3, <2>6, <3>2 DEF Asks, Asking
    <3>4. Asking' = Workers \ {w}
      BY <3>3 DEF Asking
    <3>5. Cardinality(Workers \ {w}) = sz - 2
      <4>1. Cardinality(Workers \ {w}) = Cardinality(Workers) - 1
        BY WorkersFinite, FS_RemoveElement
      <4> QED  BY <4>1, WorkersFinite, SzAssumption
    <3>6. sz - 2 = bnd - ntasks
      BY <2>4, SzAssumption DEF bnd
    <3> QED  BY <2>6, <3>1, <3>4, <3>5, <3>6 DEF CountInv
  <2>7. CASE flag[Leader] = 1
    <3>1. cnt'[Leader] = cnt[Leader] /\ cnt[Leader] = ntasks - 1
      BY <1>2, <2>7, NextTask DEF LeaderInv
    <3>2. w \in inbox /\ pc[w] = "recv_cnt" /\ chan[w] = <<>>
      BY <1>2, InboxWorker DEF LeaderRecv, Waiting
    <3>3. w \in Asking
      BY <1>0, <2>2, <3>2 DEF Asking, Asks, LastSent, Protocol
    <3>4. \A v \in Workers : Asks(v)' <=> Asks(v) /\ v # w
      BY <2>2, <2>3, <3>1 DEF Asks
    <3>5. Asking' = Asking \ {w}
      BY <3>4 DEF Asking
    <3>6. IsFiniteSet(Asking)
      BY WorkersFinite, FS_Subset DEF Asking
    <3>7. Cardinality(Asking \ {w}) = Cardinality(Asking) - 1
          /\ Cardinality(Asking) \in Nat
      BY <3>3, <3>6, FS_RemoveElement, FS_CardinalityType
    <3> QED  BY SMTT(30), <2>1, <2>4, <3>1, <3>5, <3>7 DEF CountInv
  <2>8. flag[Leader] \in {0, 1} /\ cnt'[Leader] \in 0 .. (ntasks - 1)
    BY <1>2, NextTask DEF Tasks
  <2> QED  BY <2>4, <2>5, <2>6, <2>7, <2>8
<1>3. CASE LeaderSendCnt
  <2>1. /\ pc[Leader] = "send_cnt" /\ pc'[Leader] = "send_flag"
        /\ UNCHANGED <<cnt, src, cnt_control>>
        /\ \A v \in Workers : pc'[v] = pc[v]
    BY <1>0, <1>3 DEF LeaderSendCnt
  <2>2. ASSUME NEW v \in Workers PROVE Asks(v)' <=> Asks(v)
    <3>1. CASE v # src
      <4>1. chan'[v] = chan[v]
        BY <1>0, <1>3, <3>1 DEF LeaderSendCnt
      <4> QED  BY <2>1, <3>1, <4>1, AsksKept DEF Serving, LastSent
    <3>2. CASE v = src
      <4>1. Serving(v) /\ Serving(v)' /\ pc[v] = "recv_cnt" /\ chan[v] = <<>>
        BY <2>1, <3>2, ServedWorker DEF Serving
      <4>2. chan'[v] = <<cnt[Leader]>>
        BY <1>0, <1>3, <3>2, <4>1, Channel DEF LeaderSendCnt
      <4>3. LastSent(v)' = cnt[Leader]
        BY <2>1, <4>1, <4>2, Channel DEF LastSent
      <4>4. LastSent(v) # ntasks - 1
        BY <1>0, <4>1 DEF LastSent, Protocol
      <4> QED  BY <2>1, <4>1, <4>3, <4>4 DEF Asks
    <3> QED  BY <3>1, <3>2
  <2> QED  BY <2>1, <2>2, CountKept
<1>4. CASE LeaderSendFlag
  <2>1. /\ pc[Leader] = "send_flag" /\ pc'[Leader] = "serve"
        /\ UNCHANGED <<cnt, src, cnt_control>>
        /\ \A v \in Workers : pc'[v] = pc[v] /\ ~Serving(v)'
    BY <1>0, <1>4 DEF LeaderSendFlag, Serving
  <2>2. ASSUME NEW v \in Workers PROVE Asks(v)' <=> Asks(v)
    <3>1. CASE v # src
      <4>1. chan'[v] = chan[v]
        BY <1>0, <1>4, <3>1 DEF LeaderSendFlag
      <4> QED  BY <2>1, <3>1, <4>1, AsksKept DEF Serving, LastSent
    <3>2. CASE v = src
      <4> DEFINE c == cnt[Leader]
                 f == flag[Leader]
      <4>1. Serving(v) /\ chan'[v] = Append(chan[v], f)
        BY <1>0, <1>4, <2>1, <3>2 DEF LeaderSendFlag, Serving
      <4>2. CASE pc[v] = "recv_cnt" /\ chan[v] = <<c>>
        <5>1. Append(<<c>>, f) = <<c, f>>
          BY Channel
        <5>2. chan'[v] = <<c, f>>
          BY <4>1, <4>2, <5>1
        <5>3. LastSent(v)' = c /\ LastSent(v) = c
          BY <2>1, <4>2, <5>2, Channel DEF LastSent
        <5> QED  BY <2>1, <4>1, <5>3 DEF Asks
      <4>3. CASE pc[v] = "recv_flag" /\ cnt[v] = c
        BY <2>1, <4>1, <4>3 DEF Asks, LastSent
      <4> QED  BY <2>1, <4>1, <4>2, <4>3, ServedWorker
    <3> QED  BY <3>1, <3>2
  <2> QED  BY <2>1, <2>2, CountKept
<1>5. ASSUME NEW w \in Workers, WorkerStep(w) PROVE CountInv'
  <2>1. /\ pc'[Leader] = pc[Leader] /\ cnt'[Leader] = cnt[Leader]
        /\ UNCHANGED <<src, cnt_control>>
    BY <1>0, <1>5 DEF WorkerStep, WorkerRequest, WorkerRecvCnt, WorkerRecvFlag,
                      WorkerLeave
  <2>2. LastSent(w)' = LastSent(w)
    <3>1. CASE WorkerRequest(w)
      BY <1>0, <3>1 DEF WorkerRequest, LastSent, Protocol
    <3>2. CASE WorkerRecvCnt(w)
      BY <1>0, <3>2 DEF WorkerRecvCnt, LastSent
    <3>3. CASE WorkerRecvFlag(w)
      BY <1>0, <3>3 DEF WorkerRecvFlag, LastSent
    <3>4. CASE WorkerLeave(w)
      BY <1>0, <3>4 DEF WorkerLeave, LastSent
    <3> QED  BY <1>5, <3>1, <3>2, <3>3, <3>4 DEF WorkerStep
  <2>3. \A v \in Workers \ {w} :
          pc'[v] = pc[v] /\ chan'[v] = chan[v] /\ cnt'[v] = cnt[v]
    BY <1>0, <1>5 DEF WorkerStep, WorkerRequest, WorkerRecvCnt, WorkerRecvFlag,
                      WorkerLeave
  <2>4. \A v \in Workers : LastSent(v)' = LastSent(v)
    BY <2>2, <2>3 DEF LastSent
  <2>5. ASSUME NEW v \in Workers PROVE Asks(v)' <=> Asks(v)
    BY <2>1, <2>4, AsksKept DEF Serving
  <2> QED  BY <2>1, <2>5, CountKept
<1>6. CASE Synchronize
  <2>1. /\ pc[Leader] = "barrier" /\ pc'[Leader] = "done"
        /\ UNCHANGED <<cnt, src, chan, cnt_control>>
        /\ \A v \in Workers : pc[v] = "barrier" /\ pc'[v] = "done"
    BY <1>0, <1>6 DEF Synchronize
  <2>2. \A v \in Workers : Asks(v)' <=> Asks(v)
    BY <2>1 DEF Asks, LastSent, Serving
  <2> QED  BY <2>1, <2>2, CountKept
<1>7. CASE Terminated \/ UNCHANGED vars
  <2>1. UNCHANGED vars
    BY <1>7 DEF Terminated
  <2>2. \A v \in Workers : Asks(v)' <=> Asks(v)
    BY <2>1 DEF vars, Asks, LastSent, Serving
  <2> QED  BY <2>1, <2>2, CountKept DEF vars
<1> QED
  BY <1>1, <1>2, <1>3, <1>4, <1>5, <1>6, <1>7 DEF Next, LeaderStep

-----------------------------------------------------------------------------
(***************************************************************************)
(* The theorems.                                                           *)
(***************************************************************************)

\* The protocol of schedule_load, its counters and the tasks under way are
\* always consistent.
THEOREM Invariance == Safety => []Inv
<1>1. Inv /\ [Next]_vars => Inv'
  BY StepTypeInv, StepProtocolInv, StepLeaderInv, StepCopiesInv, StepBarrierInv,
     StepCountInv DEF Inv
<1> QED  BY InitInv, <1>1, PTL DEF Safety

\* Every block of the input is loaded at most once, and exactly once when
\* load() returns, for any number of ranks and any block size (schedule_load).
THEOREM LoadsExactlyOnce == Safety => []ExactlyOnce
<1>1. Inv => ExactlyOnce
  <2> SUFFICES ASSUME Inv PROVE ExactlyOnce
    OBVIOUS
  <2> USE Consts, BlkAssumption DEF Inv
  <2>1. ASSUME NEW i \in Tasks
        PROVE  i \in Int /\ cnt[Leader] \in Int /\ i <= ntasks - 1
    BY DEF Tasks, TypeInv
  <2>2. ASSUME NEW i \in Tasks PROVE copies[i] <= 1
    <3>1. copies[i] \in {0, 1}
      BY <2>1 DEF CopiesInv
    <3> QED  BY <3>1
  <2>3. ASSUME NEW p \in Ranks, pc[p] = "done", NEW i \in Tasks
        PROVE  copies[i] = 1
    <3>1. \A q \in Ranks : pc[q] = "done"
      BY <2>3 DEF BarrierInv
    <3>2. cnt[Leader] = ntasks - 1
      BY <3>1 DEF LeaderInv
    <3>3. ASSUME NEW w \in Workers PROVE ~Held(w, i)
      <4>1. pc[w] = "done" /\ pc[Leader] = "done"
        BY <3>1 DEF Workers
      <4> QED  BY <4>1 DEF Held, Serving
    <3>4. CASE i < blk_sz
      BY <3>1, <3>4 DEF CopiesInv
    <3>5. CASE i >= blk_sz
      BY <2>1, <3>2, <3>3, <3>5 DEF CopiesInv
    <3> QED  BY <2>1, <3>4, <3>5
  <2> QED  BY <2>2, <2>3 DEF ExactlyOnce
<1> QED  BY <1>1, Invariance, PTL

\* The bound ntasks + sz - 2 of the leader's loop is exact: when the leader
\* leaves it every worker has been told to stop and none waits (schedule_load).
THEOREM LeaderAnswersAll == Safety => []NobodyStranded
<1>1. Inv => NobodyStranded
  <2> SUFFICES ASSUME Inv, pc[Leader] \in {"barrier", "done"}
               PROVE  inbox = {} /\ \A w \in Workers : LastSent(w) = ntasks - 1
    BY DEF NobodyStranded
  <2> USE Consts DEF Inv
  <2>1. cnt[Leader] = ntasks - 1 /\ cnt_control >= bnd /\ cnt_control \in Nat
    BY DEF LeaderInv, TypeInv
  <2>2. Asking = {}
    <3>1. CASE Workers = {}
      BY <3>1 DEF Asking
    <3>2. CASE Workers # {}
      <4>1. IsFiniteSet(Asking)
        BY WorkersFinite, FS_Subset DEF Asking
      <4>2. Cardinality(Asking) = bnd - cnt_control /\ Cardinality(Asking) \in Nat
        BY <2>1, <3>2, <4>1, FS_CardinalityType DEF CountInv
      <4>3. Cardinality(Asking) = 0
        BY <2>1, <4>2
      <4> QED  BY <4>1, <4>3, FS_EmptySet
    <3> QED  BY <3>1, <3>2
  <2>3. ASSUME NEW w \in Workers PROVE LastSent(w) = ntasks - 1
    BY <2>2 DEF Asking, Asks, Serving
  <2>4. ASSUME NEW w \in inbox PROVE FALSE
    <3>1. w \in Workers /\ pc[w] = "recv_cnt" /\ chan[w] = <<>>
      BY InboxWorker DEF Waiting
    <3>2. LastSent(w) = cnt[w] /\ cnt[w] # ntasks - 1
      BY <3>1 DEF LastSent, ProtocolInv, Protocol
    <3> QED  BY <2>3, <3>1, <3>2
  <2> QED  BY <2>3, <2>4
<1> QED  BY <1>1, Invariance, PTL

=============================================================================
