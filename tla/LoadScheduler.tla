---------------------------- MODULE LoadScheduler ----------------------------
(***************************************************************************)
(* Dynamic distribution of the input blocks: scheduler::schedule_load      *)
(* (src/scheduler.cpp) as loader::load (include/load/loader.hpp) calls it. *)
(* The input is cut into sz * blk_sz tasks.  The leader loads the first    *)
(* blk_sz itself and then hands out the others, one per request; each      *)
(* answer is two messages, a task number and a flag "no more tasks".       *)
(* Everybody meets in a barrier before the lines are used.                 *)
(* schedule_load_handle is the same protocol, with a callback for the      *)
(* lines.                                                                  *)
(*                                                                         *)
(* Messages are MPI_Send / MPI_Recv: in order per sender and receiver; the *)
(* leader receives from any source.                                        *)
(***************************************************************************)
EXTENDS Integers, Sequences

CONSTANTS sz,        \* size of the communicator
          blk_sz     \* BLK_SZ, or 1 for "fvec" and "linesplit"

ASSUME SzAssumption  == sz \in Nat \ {0}
ASSUME BlkAssumption == blk_sz \in Nat \ {0}

Leader  == 0
Ranks   == 0 .. (sz - 1)
Workers == Ranks \ {Leader}

ntasks == sz * blk_sz
bnd    == ntasks + sz - 2
Tasks  == 0 .. (ntasks - 1)

VARIABLES
  pc,            \* where each rank is
  cnt,           \* each rank's cnt
  flag,          \* each rank's flag
  cnt_control,   \* the leader's count of answered requests, from blk_sz on
  src,           \* the worker the leader is answering
  inbox,         \* the workers whose request is waiting at the leader
  chan,          \* the messages from the leader to each worker, oldest first
  copies         \* how often the lines of each task were put in some result

vars == <<pc, cnt, flag, cnt_control, src, inbox, chan, copies>>

Init ==
  /\ pc = [p \in Ranks |-> IF p = Leader THEN "load" ELSE "loop"]
  /\ cnt = [p \in Ranks |-> blk_sz - 1]
  /\ flag = [p \in Ranks |-> 0]
  /\ cnt_control = blk_sz
  /\ src = Leader
  /\ inbox = {}
  /\ chan = [p \in Ranks |-> <<>>]
  /\ copies = [i \in Tasks |-> 0]

Goto(p, label) == pc' = [pc EXCEPT ![p] = label]

\* files_load_lines_impl of task i, appended to the result.
Load(i) == copies' = [copies EXCEPT ![i] = @ + 1]

-----------------------------------------------------------------------------
(***************************************************************************)
(* The leader.                                                             *)
(***************************************************************************)

\* Mutant: the leader's own blocks are [0, blk_sz], one too many.
LeaderLoadTooMany ==
  /\ pc[Leader] = "load"
  /\ copies' = [i \in Tasks |-> IF i <= blk_sz THEN copies[i] + 1 ELSE copies[i]]
  /\ Goto(Leader, "serve")
  /\ UNCHANGED <<cnt, flag, cnt_control, src, inbox, chan>>

\* Tasks [0, blk_sz - 1], before the leader answers anyone.
LeaderLoad ==
  /\ pc[Leader] = "load"
  /\ copies' = [i \in Tasks |-> IF i < blk_sz THEN copies[i] + 1 ELSE copies[i]]
  /\ Goto(Leader, "serve")
  /\ UNCHANGED <<cnt, flag, cnt_control, src, inbox, chan>>

\* Mutant: the task number grows with every request, also after the last task.
LeaderRecvCounts(w) ==
  /\ pc[Leader] = "serve" /\ cnt_control < bnd
  /\ w \in inbox
  /\ cnt_control' = cnt_control + 1
  /\ inbox' = inbox \ {w}
  /\ src' = w
  /\ cnt' = [cnt EXCEPT ![Leader] = @ + 1]
  /\ Goto(Leader, "send_cnt")
  /\ UNCHANGED <<flag, chan, copies>>

\* recv(tmp, any_source, any_tag), and the next task unless there is none.
LeaderRecv(w) ==
  /\ pc[Leader] = "serve" /\ cnt_control < bnd
  /\ w \in inbox
  /\ cnt_control' = cnt_control + 1
  /\ inbox' = inbox \ {w}
  /\ src' = w
  /\ cnt' = IF flag[Leader] = 0 THEN [cnt EXCEPT ![Leader] = @ + 1] ELSE cnt
  /\ Goto(Leader, "send_cnt")
  /\ UNCHANGED <<flag, chan, copies>>

LeaderSendCnt ==
  /\ pc[Leader] = "send_cnt"
  /\ chan' = [chan EXCEPT ![src] = Append(@, cnt[Leader])]
  /\ Goto(Leader, "send_flag")
  /\ UNCHANGED <<cnt, flag, cnt_control, src, inbox, copies>>

\* Mutant: the flag is raised before it is sent with the last task.
LeaderSendFlagEarly ==
  /\ pc[Leader] = "send_flag"
  /\ flag' = [flag EXCEPT ![Leader] = IF cnt[Leader] = ntasks - 1 THEN 1 ELSE @]
  /\ chan' = [chan EXCEPT ![src] = Append(@, flag'[Leader])]
  /\ Goto(Leader, "serve")
  /\ UNCHANGED <<cnt, cnt_control, src, inbox, copies>>

\* The flag goes out as it was; after the last task it is raised.
LeaderSendFlag ==
  /\ pc[Leader] = "send_flag"
  /\ chan' = [chan EXCEPT ![src] = Append(@, flag[Leader])]
  /\ flag' = [flag EXCEPT ![Leader] = IF cnt[Leader] = ntasks - 1 THEN 1 ELSE @]
  /\ Goto(Leader, "serve")
  /\ UNCHANGED <<cnt, cnt_control, src, inbox, copies>>

\* Mutant: the loop ends with the last task, without telling the others.
LeaderLeaveEarly ==
  /\ pc[Leader] = "serve" /\ cnt_control >= ntasks
  /\ Goto(Leader, "barrier")
  /\ UNCHANGED <<cnt, flag, cnt_control, src, inbox, chan, copies>>

LeaderLeave ==
  /\ pc[Leader] = "serve" /\ cnt_control >= bnd
  /\ Goto(Leader, "barrier")
  /\ UNCHANGED <<cnt, flag, cnt_control, src, inbox, chan, copies>>

-----------------------------------------------------------------------------
(***************************************************************************)
(* The other ranks.                                                        *)
(***************************************************************************)
NoMore(w) == flag[w] # 0 \/ cnt[w] = ntasks - 1

WorkerRequest(w) ==
  /\ pc[w] = "loop" /\ ~NoMore(w)
  /\ inbox' = inbox \cup {w}
  /\ Goto(w, "recv_cnt")
  /\ UNCHANGED <<cnt, flag, cnt_control, src, chan, copies>>

WorkerRecvCnt(w) ==
  /\ pc[w] = "recv_cnt" /\ chan[w] # <<>>
  /\ cnt' = [cnt EXCEPT ![w] = Head(chan[w])]
  /\ chan' = [chan EXCEPT ![w] = Tail(@)]
  /\ Goto(w, "recv_flag")
  /\ UNCHANGED <<flag, cnt_control, src, inbox, copies>>

\* The flag, and the lines of the task if there is one.
WorkerRecvFlag(w) ==
  /\ pc[w] = "recv_flag" /\ chan[w] # <<>>
  /\ flag' = [flag EXCEPT ![w] = Head(chan[w])]
  /\ chan' = [chan EXCEPT ![w] = Tail(@)]
  /\ IF Head(chan[w]) = 0 THEN Load(cnt[w]) ELSE UNCHANGED copies
  /\ Goto(w, "loop")
  /\ UNCHANGED <<cnt, cnt_control, src, inbox>>

WorkerLeave(w) ==
  /\ pc[w] = "loop" /\ NoMore(w)
  /\ Goto(w, "barrier")
  /\ UNCHANGED <<cnt, flag, cnt_control, src, inbox, chan, copies>>

\* m_comm.synchronize() in loader::load.
Synchronize ==
  /\ \A p \in Ranks : pc[p] = "barrier"
  /\ pc' = [p \in Ranks |-> "done"]
  /\ UNCHANGED <<cnt, flag, cnt_control, src, inbox, chan, copies>>

-----------------------------------------------------------------------------
LeaderStep ==
  \/ LeaderLoad \/ (\E w \in Workers : LeaderRecv(w))
  \/ LeaderSendCnt \/ LeaderSendFlag \/ LeaderLeave

WorkerStep(w) ==
  WorkerRequest(w) \/ WorkerRecvCnt(w) \/ WorkerRecvFlag(w) \/ WorkerLeave(w)

Terminated == /\ \A p \in Ranks : pc[p] = "done"
              /\ UNCHANGED vars

Next == \/ LeaderStep
        \/ \E w \in Workers : WorkerStep(w)
        \/ Synchronize \/ Terminated

Safety == Init /\ [][Next]_vars

\* Every process runs; MPI delivers what was sent.  Nothing is assumed about
\* whose request the leader receives first.
Spec ==
  Safety /\ WF_vars(LeaderStep) /\ WF_vars(Synchronize)
         /\ \A w \in Workers : WF_vars(WorkerStep(w))

-----------------------------------------------------------------------------
(***************************************************************************)
(* Properties.                                                             *)
(***************************************************************************)
TypeOK ==
  /\ pc \in [Ranks -> {"load", "serve", "send_cnt", "send_flag", "loop",
                       "recv_cnt", "recv_flag", "barrier", "done"}]
  /\ cnt \in [Ranks -> Tasks] /\ flag \in [Ranks -> {0, 1}]
  /\ cnt_control \in Nat /\ src \in Ranks /\ inbox \subseteq Workers
  /\ chan \in [Ranks -> Seq(Nat)]
  /\ copies \in [Tasks -> Nat]

\* No block of the input is loaded twice, whoever asks the leader in which
\* order, and when load() returns on any rank every block has been loaded.
ExactlyOnce ==
  /\ \A i \in Tasks : copies[i] <= 1
  /\ (\E p \in Ranks : pc[p] = "done") => \A i \in Tasks : copies[i] = 1

\* The task number the leader sent to worker w last.
LastSent(w) ==
  IF pc[w] = "recv_cnt" /\ chan[w] # <<>> THEN Head(chan[w]) ELSE cnt[w]

\* The bound of the leader's loop is exact: when the leader leaves the loop no
\* request is left, and every worker has been sent the number of the last task,
\* on which it stops asking.
NobodyStranded ==
  pc[Leader] \in {"barrier", "done"} =>
    inbox = {} /\ \A w \in Workers : LastSent(w) = ntasks - 1

\* load() returns on every rank.
EveryoneReturns == <>(\A p \in Ranks : pc[p] = "done")
=============================================================================
