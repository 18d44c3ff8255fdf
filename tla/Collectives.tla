---------------------------- MODULE Collectives ----------------------------
(***************************************************************************)
(* The collective operations that paracel builds itself out of MPI         *)
(* point-to-point calls (include/utils/comm.hpp): bcastring, alltoall and  *)
(* alltoallring (turns of sendrecv around a ring) and treereduce, with     *)
(* synchronize (MPI_Barrier).  Every rank runs the same list of calls and  *)
(* all messages carry tag 2014: without a barrier in between, a fast rank  *)
(* may be in the next call while a slow one is still in the last.          *)
(*                                                                         *)
(* A container travels as two messages, its size and its elements.         *)
(* MPI_Isend either copies the buffer (eager) or leaves it where it is     *)
(* until the receiver takes it (rendezvous): MPI allows both.              *)
(***************************************************************************)
EXTENDS Naturals, Sequences, SequencesExt

CONSTANTS N,        \* number of ranks (m_sz)
          Calls,    \* lists of collectives that the program may make
          Inputs,   \* sbuf[r][t]: the containers that r has for t
          Root      \* the rank that treereduce returns the result to

ASSUME NAssumption == N \in Nat \ {0}
ASSUME RootAssumption == Root \in 0..(N - 1)

Rank == 0..(N - 1)
RingOps == {"bcastring", "alltoall", "alltoallring"}
Item == Nat \X Nat   \* the elements of the containers

ASSUME CallsAssumption == Calls \subseteq Seq(RingOps \cup {"treereduce", "synchronize"})
ASSUME InputsAssumption == Inputs \subseteq [Rank -> [Rank -> Seq(Item)]]

VARIABLES eager,    \* does MPI_Isend copy the buffer?
          prog,     \* the calls of the program, the same for every rank
          sbuf,     \* the argument of the ring operations
          at,       \* at[r]: the call rank r is in
          pc,       \* place inside the call
          i,        \* turn around the ring
          size,     \* the size message that was received last
          tmpr,     \* the data message that was received last
          out,      \* what the call gives to its caller
          data,     \* data[r]: the buffer that treereduce works on
          tree,     \* rk, num and depth of treereduce
          chan      \* chan[<<s, d>>]: messages from s to d, in order

vars == <<eager, prog, sbuf, at, pc, i, size, tmpr, out, data, tree, chan>>

Op(r) == prog[at[r]]
Blank == [t \in Rank |-> <<>>]
Message(kind, val, byref) ==
  [kind |-> kind, n |-> Len(val), val |-> val, byref |-> byref]

Init ==
  /\ eager \in BOOLEAN
  /\ prog \in Calls
  /\ sbuf \in Inputs
  /\ at = [r \in Rank |-> 1]
  /\ pc = [r \in Rank |-> "call"]
  /\ i = [r \in Rank |-> 1]
  /\ size = [r \in Rank |-> Message("none", <<>>, FALSE)]
  /\ tmpr = size
  /\ out = [r \in Rank |-> Blank]
  /\ data = [r \in Rank |-> << <<r, N>> >>]
  /\ tree = [r \in Rank |-> [rk |-> r, num |-> N, depth |-> 1]]
  /\ chan = [p \in Rank \X Rank |-> <<>>]

Go(r, place) == pc' = [pc EXCEPT ![r] = place]

\* Mutant: the elements overtake their size.
FramesSwapped(s, byref) ==
  <<Message("data", s, byref), Message("size", s, FALSE)>>

\* isend of a container: its size from a heap copy, then its elements.
Frames(s, byref) ==
  <<Message("size", s, FALSE), Message("data", s, byref)>>

Post(s, d, v, byref) == chan' = [chan EXCEPT ![<<s, d>>] = @ \o Frames(v, byref)]

(***************************************************************************)
(* recv of a container: its size, then that many elements.  A message that *)
(* was left where it is (byref) is read from the sender's buffer only now. *)
(***************************************************************************)
Contents(s, m) == IF m.byref /\ ~eager THEN [m EXCEPT !.val = data[s]] ELSE m

RecvSize(r, s, next) ==
  /\ chan[<<s, r>>] # <<>>
  /\ size' = [size EXCEPT ![r] = Head(chan[<<s, r>>])]
  /\ chan' = [chan EXCEPT ![<<s, r>>] = Tail(@)]
  /\ Go(r, next)
  /\ UNCHANGED <<eager, prog, sbuf, at, i, tmpr, out, data, tree>>

RecvData(r, s, next) ==
  /\ chan[<<s, r>>] # <<>>
  /\ tmpr' = [tmpr EXCEPT ![r] = Contents(s, Head(chan[<<s, r>>]))]
  /\ chan' = [chan EXCEPT ![<<s, r>>] = Tail(@)]
  /\ Go(r, next)
  /\ UNCHANGED <<eager, prog, sbuf, at, i, size, out, data, tree>>

(***************************************************************************)
(* The ring: in turn k a rank sends to the rank k before it and receives   *)
(* from the rank k after it.                                               *)
(***************************************************************************)
From(r) == (r + i[r]) % N
To(r) == (r + N - i[r]) % N

\* bcastring gives everybody the same container.
Outgoing(op, r, t) == IF op = "bcastring" THEN sbuf[r][r] ELSE sbuf[r][t]

\* Mutant: what a turn brings is filed under the rank itself.
SlotOwn(r) == r

\* alltoall appends what it received to rbuf[t]; the others call func on it,
\* in the order of the turns.
Slot(r) == IF Op(r) = "alltoall" THEN To(r) ELSE i[r]

\* Before the loop: the rank's own container.
EnterRing(r) ==
  /\ pc[r] = "call" /\ at[r] <= Len(prog) /\ Op(r) \in RingOps
  /\ out' = [out EXCEPT ![r] =
       [Blank EXCEPT ![IF Op(r) = "alltoall" THEN r ELSE 0] = sbuf[r][r]]]
  /\ i' = [i EXCEPT ![r] = 1]
  /\ Go(r, IF N = 1 THEN "return" ELSE "isend")
  /\ UNCHANGED <<eager, prog, sbuf, at, size, tmpr, data, tree, chan>>

RingIsend(r) ==
  /\ pc[r] = "isend"
  /\ Post(r, To(r), Outgoing(Op(r), r, To(r)), FALSE)
  /\ Go(r, "size")
  /\ UNCHANGED <<eager, prog, sbuf, at, i, size, tmpr, out, data, tree>>

\* Mutant: the blocking send of the commented-out body of sendrecv; it
\* returns only when the receiver has taken both messages.
BlockingRingRecvSize(r) ==
  pc[r] = "size" /\ (eager \/ chan[<<r, To(r)>>] = <<>>) /\ RecvSize(r, From(r), "data")

RingRecvSize(r) == pc[r] = "size" /\ RecvSize(r, From(r), "data")
RingRecvData(r) == pc[r] = "data" /\ RecvData(r, From(r), "wait")

\* wait(v_req) of sendrecv, then the received container is handed over.
RingWait(r) ==
  /\ pc[r] = "wait"
  /\ eager \/ chan[<<r, To(r)>>] = <<>>
  /\ out' = [out EXCEPT ![r][Slot(r)] = @ \o tmpr[r].val]
  /\ i' = [i EXCEPT ![r] = @ + 1]
  /\ Go(r, IF i[r] + 1 < N THEN "isend" ELSE "return")
  /\ UNCHANGED <<eager, prog, sbuf, at, size, tmpr, data, tree, chan>>

(***************************************************************************)
(* treereduce: of two neighbouring nodes of the tree the odd one sends its *)
(* data to the even one and stops.                                         *)
(***************************************************************************)
Node(r) == tree[r].rk
Place(n, r) == n * tree[r].depth

\* Mutant: the node that stays alone in an odd level is forgotten.
UpForgetsOdd(r) ==
  [rk |-> Node(r) \div 2, num |-> tree[r].num \div 2, depth |-> 2 * tree[r].depth]

Up(r) ==
  [rk |-> Node(r) \div 2, num |-> (tree[r].num \div 2) + (tree[r].num % 2),
   depth |-> 2 * tree[r].depth]

EnterTree(r) ==
  /\ pc[r] = "call" /\ at[r] <= Len(prog) /\ Op(r) = "treereduce"
  /\ out' = [out EXCEPT ![r] = Blank]
  /\ tree' = [tree EXCEPT ![r] = [rk |-> r, num |-> N, depth |-> 1]]
  /\ Go(r, "tree")
  /\ UNCHANGED <<eager, prog, sbuf, at, i, size, tmpr, data, chan>>

\* An odd node: isend without wait, and out of the loop.
TreeSend(r) ==
  /\ pc[r] = "tree" /\ tree[r].num > 1 /\ Node(r) % 2 # 0
  /\ Post(r, Place(Node(r) - 1, r), data[r], TRUE)
  /\ Go(r, "result")
  /\ UNCHANGED <<eager, prog, sbuf, at, i, size, tmpr, out, data, tree>>

\* An even node without a neighbour goes up alone.
TreeAlone(r) ==
  /\ pc[r] = "tree" /\ tree[r].num > 1
  /\ Node(r) % 2 = 0 /\ Node(r) = tree[r].num - 1
  /\ tree' = [tree EXCEPT ![r] = Up(r)]
  /\ UNCHANGED <<eager, prog, sbuf, at, pc, i, size, tmpr, out, data, chan>>

TreeRecvSize(r) ==
  /\ pc[r] = "tree" /\ tree[r].num > 1
  /\ Node(r) % 2 = 0 /\ Node(r) # tree[r].num - 1
  /\ RecvSize(r, Place(Node(r) + 1, r), "treedata")

TreeRecvData(r) ==
  pc[r] = "treedata" /\ RecvData(r, Place(Node(r) + 1, r), "func")

\* func(recvbuf, data): here data collects the ranks it was made from.
TreeFunc(r) ==
  /\ pc[r] = "func"
  /\ data' = [data EXCEPT ![r] = @ \o tmpr[r].val]
  /\ tree' = [tree EXCEPT ![r] = Up(r)]
  /\ Go(r, "tree")
  /\ UNCHANGED <<eager, prog, sbuf, at, i, size, tmpr, out, chan>>

\* After the loop: rank 0 has the result and sends it on to Root.
TreeResult(r) ==
  /\ pc[r] = "result" \/ (pc[r] = "tree" /\ tree[r].num = 1)
  /\ out' = IF r = 0 THEN [out EXCEPT ![r][0] = data[r]] ELSE out
  /\ IF r = 0 /\ Root # 0 THEN Post(0, Root, data[r], TRUE) ELSE UNCHANGED chan
  /\ Go(r, IF r = Root /\ Root # 0 THEN "rootsize" ELSE "return")
  /\ UNCHANGED <<eager, prog, sbuf, at, i, size, tmpr, data, tree>>

RootRecvSize(r) == pc[r] = "rootsize" /\ RecvSize(r, 0, "rootdata")
RootRecvData(r) == pc[r] = "rootdata" /\ RecvData(r, 0, "rootout")

RootOut(r) ==
  /\ pc[r] = "rootout"
  /\ out' = [out EXCEPT ![r][0] = tmpr[r].val]
  /\ Go(r, "return")
  /\ UNCHANGED <<eager, prog, sbuf, at, i, size, tmpr, data, tree, chan>>

(***************************************************************************)
(* synchronize, and the way back to the caller.                            *)
(***************************************************************************)
EnterBarrier(r) ==
  /\ pc[r] = "call" /\ at[r] <= Len(prog) /\ Op(r) = "synchronize"
  /\ Go(r, "barrier")
  /\ UNCHANGED <<eager, prog, sbuf, at, i, size, tmpr, out, data, tree, chan>>

LeaveBarrier(r) ==
  /\ pc[r] = "barrier"
  /\ \A s \in Rank : at[s] > at[r] \/ (at[s] = at[r] /\ pc[s] \in {"barrier", "return"})
  /\ Go(r, "return")
  /\ UNCHANGED <<eager, prog, sbuf, at, i, size, tmpr, out, data, tree, chan>>

Return(r) ==
  /\ pc[r] = "return"
  /\ at' = [at EXCEPT ![r] = @ + 1]
  /\ Go(r, "call")
  /\ UNCHANGED <<eager, prog, sbuf, i, size, tmpr, out, data, tree, chan>>

Done == \A r \in Rank : at[r] > Len(prog)

RankStep(r) ==
  \/ EnterRing(r) \/ RingIsend(r) \/ RingRecvSize(r) \/ RingRecvData(r) \/ RingWait(r)
  \/ EnterTree(r) \/ TreeSend(r) \/ TreeAlone(r) \/ TreeRecvSize(r)
  \/ TreeRecvData(r) \/ TreeFunc(r) \/ TreeResult(r)
  \/ RootRecvSize(r) \/ RootRecvData(r) \/ RootOut(r)
  \/ EnterBarrier(r) \/ LeaveBarrier(r) \/ Return(r)

Next == (\E r \in Rank : RankStep(r)) \/ (Done /\ UNCHANGED vars)

Spec == Init /\ [][Next]_vars /\ \A r \in Rank : WF_vars(RankStep(r))

-----------------------------------------------------------------------------
\* Framing: a rank that asks for a size gets a size and the elements that
\* follow are as many, although the calls of the two sides may be different
\* collectives and nothing but the order of the messages tells them apart.
Framing ==
  \A r \in Rank :
    /\ pc[r] \in {"data", "treedata", "rootdata"} => size[r].kind = "size"
    /\ pc[r] \in {"wait", "func", "rootout"} =>
         tmpr[r].kind = "data" /\ Len(tmpr[r].val) = size[r].n

\* A ring operation hands over the container of every rank exactly once:
\* func sees them in the order of the ranks after its own, and the slots of
\* alltoall hold together what all ranks had for this one.
RingDelivers ==
  \A r \in Rank : pc[r] = "return" =>
    /\ Op(r) \in {"bcastring", "alltoallring"} =>
         \A k \in Rank : out[r][k] = Outgoing(Op(r), (r + k) % N, r)
    /\ Op(r) = "alltoall" =>
         \A s \in Rank : out[r][(2 * r + N - s) % N] = sbuf[s][r]

\* treereduce returns to Root the data of every rank, each exactly once.
TreeReduceTotal ==
  pc[Root] = "return" /\ Op(Root) = "treereduce" =>
    /\ Len(out[Root][0]) = N
    /\ ToSet(out[Root][0]) = {<<r, N>> : r \in Rank}

\* All ranks get through all calls, whether or not MPI buffers.
EveryoneReturns == <>Done
=============================================================================
