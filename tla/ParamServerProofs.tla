-------------------------- MODULE ParamServerProofs --------------------------
(***************************************************************************)
(* TLAPS proof that the threads of ParamServer implement SafeKV, for any   *)
(* clients, keys, requests and update functions.                           *)
(***************************************************************************)
EXTENDS ParamServer, FiniteSetTheorems, TLAPS

-----------------------------------------------------------------------------
(***************************************************************************)
(* The inductive invariant.                                                *)
(***************************************************************************)
Labels == {"recv", "unlocked", "lock", "locked", "write"}

AsyncRequest == {r \in Request : r.op \in AsyncOps}

TypeInv ==
  /\ at \in [Threads -> Labels]
  /\ client \in [Threads -> Clients]
  /\ DOMAIN req = Threads /\ DOMAIN plan = Threads /\ DOMAIN kept_f = Threads
  /\ DOMAIN call = Clients
  /\ \A c \in Clients : call[c].st = "sent" => call[c].r.op \notin AsyncOps
  /\ posted \in [Clients -> Seq(AsyncRequest)]

\* Inside the locked section a thread owns the mutex.
MutexInv == \A t \in Threads : at[t] \in {"locked", "write"} => mutex = t

\* The request a thread is working on is still that of its client.
Current(t) ==
  IF t = 2
  THEN posted[client[t]] # <<>> /\ req[t] = Head(posted[client[t]])
  ELSE /\ call[client[t]].st = "sent" /\ req[t] = call[client[t]].r
       /\ Port(req[t].op) = t

CurrentInv ==
  \A t \in Threads :
    /\ at[t] = "unlocked" => Current(t)
    /\ at[t] \in {"lock", "locked", "write"} /\ req[t].op \in WriteOps
         => Current(t)

WriteInv ==
  \A t \in Threads :
    at[t] = "write" => /\ req[t].op \in WriteOps
                       /\ ~WriteThrows(tbl_store, req[t], WriteFunc(t))
                       /\ plan[t] = Plan(tbl_store, req[t], WriteFunc(t))

Inv == TypeInv /\ MutexInv /\ CurrentInv /\ WriteInv

-----------------------------------------------------------------------------
LEMMA InitInv == Init => Inv
<1> SUFFICES ASSUME Init PROVE Inv
  OBVIOUS
<1>1. AnyCli \in Clients
  BY MenuAssumption DEF AnyCli
<1>2. TypeInv
  BY <1>1 DEF Init, TypeInv, Labels
<1> QED  BY <1>2 DEF Init, Inv, MutexInv, CurrentInv, WriteInv

LEMMA TailPosted ==
  ASSUME posted \in [Clients -> Seq(AsyncRequest)], NEW c \in Clients,
         posted[c] # <<>>
  PROVE  [posted EXCEPT ![c] = Tail(posted[c])] \in [Clients -> Seq(AsyncRequest)]
<1>1. Tail(posted[c]) \in Seq(AsyncRequest)
  OBVIOUS
<1> QED  BY <1>1

LEMMA HeadAppend ==
  ASSUME NEW S, NEW q \in Seq(S), NEW x, q # <<>>
  PROVE  Append(q, x) # <<>> /\ Head(Append(q, x)) = Head(q)
<1>1. Len(q) \in Nat \ {0}
  OBVIOUS
<1>2. Append(q, x)[1] = q[1] /\ Len(Append(q, x)) > 0
  BY <1>1
<1> QED  BY <1>2

LEMMA ReplyCall ==
  ASSUME TypeInv, NEW c \in Clients, NEW a, ReplyTo(c, a)
  PROVE  /\ DOMAIN call' = Clients
         /\ call'[c].st = "done"
         /\ \A d \in Clients \ {c} : call'[d] = call[d]
  BY DEF TypeInv, ReplyTo

LEMMA StepTypeInv == Inv /\ [Next]_vars => TypeInv'
<1> SUFFICES ASSUME TypeInv, CurrentInv, WriteInv, [Next]_vars PROVE TypeInv'
  BY DEF Inv
<1> USE DEF TypeInv, Labels, serverVars, clientVars
<1>1. ASSUME NEW c \in Clients, NEW r \in Menu, ClientSend(c, r) PROVE TypeInv'
  <2>1. r \in Request
    BY MenuAssumption
  <2>2. CASE r.op \in AsyncOps
    <3>1. r \in AsyncRequest
      BY <2>1, <2>2 DEF AsyncRequest
    <3>2. posted' = [posted EXCEPT ![c] = Append(posted[c], r)]
      BY <1>1, <2>2 DEF ClientSend
    <3>3. posted' \in [Clients -> Seq(AsyncRequest)]
      BY <3>1, <3>2
    <3> QED  BY <1>1, <2>2, <3>3 DEF ClientSend
  <2>3. CASE r.op \notin AsyncOps
    <3>1. \A d \in Clients \ {c} : call'[d] = call[d]
      BY <1>1, <2>3 DEF ClientSend
    <3>2. call'[c].r = r /\ DOMAIN call' = Clients
      BY <1>1, <2>3 DEF ClientSend
    <3>3. \A d \in Clients : call'[d].st = "sent" => call'[d].r.op \notin AsyncOps
      BY <2>3, <3>1, <3>2
    <3> QED  BY <1>1, <2>3, <3>2, <3>3 DEF ClientSend
  <2> QED  BY <2>2, <2>3
<1>2. ASSUME NEW t \in Threads, NEW c \in Clients, Recv(t, c) PROVE TypeInv'
  BY <1>2 DEF Recv, Goto
<1>3. ASSUME NEW t \in Threads, HandleRead(t) PROVE TypeInv'
  <2>1. PICK a : ReplyTo(client[t], a)
    BY <1>3 DEF HandleRead
  <2> QED  BY <1>3, <2>1 DEF HandleRead, ReplyTo, Goto
<1>4. ASSUME NEW t \in Threads, HandleRegister(t) PROVE TypeInv'
  <2>1. t = 2 => posted[client[t]] # <<>>
    BY <1>4 DEF HandleRegister, CurrentInv, Current
  <2>2. posted' \in [Clients -> Seq(AsyncRequest)]
    <3>1. CASE t = 2
      <4>1. posted' = [posted EXCEPT ![client[t]] = Tail(posted[client[t]])]
        BY <1>4, <3>1 DEF HandleRegister
      <4>2. client[t] \in Clients
        OBVIOUS
      <4> QED  BY <2>1, <3>1, <4>1, <4>2, TailPosted
    <3>2. CASE t # 2
      BY <1>4, <3>2 DEF HandleRegister
    <3> QED  BY <3>1, <3>2
  <2>3. DOMAIN kept_f' = Threads
    BY <1>4 DEF HandleRegister
  <2>4. /\ DOMAIN call' = Clients
        /\ \A c \in Clients : call'[c].st = "sent" => call'[c] = call[c]
    <3>1. CASE t = 2
      BY <1>4, <3>1 DEF HandleRegister
    <3>2. CASE t # 2
      BY <1>4, <3>2, ReplyCall DEF HandleRegister
    <3> QED  BY <3>1, <3>2
  <2> QED  BY <1>4, <2>2, <2>3, <2>4 DEF HandleRegister, Goto
<1>5. ASSUME NEW t \in Threads, SkipUnlocked(t) PROVE TypeInv'
  BY <1>5 DEF SkipUnlocked, Goto
<1>6. ASSUME NEW t \in Threads, Lock(t) PROVE TypeInv'
  BY <1>6 DEF Lock, Goto
<1>7. ASSUME NEW t \in Threads, ReadForWrite(t) PROVE TypeInv'
  BY <1>7 DEF ReadForWrite, Goto
<1>8. ASSUME NEW t \in Threads, PerformWrite(t) PROVE TypeInv'
  <2>1. t = 2 => posted[client[t]] # <<>>
    BY <1>8 DEF PerformWrite, CurrentInv, Current, WriteInv
  <2>2. posted' \in [Clients -> Seq(AsyncRequest)]
    <3>1. CASE t = 2
      <4>1. posted' = [posted EXCEPT ![client[t]] = Tail(posted[client[t]])]
        BY <1>8, <3>1 DEF PerformWrite
      <4>2. client[t] \in Clients
        OBVIOUS
      <4> QED  BY <2>1, <3>1, <4>1, <4>2, TailPosted
    <3>2. CASE t # 2
      BY <1>8, <3>2 DEF PerformWrite
    <3> QED  BY <3>1, <3>2
  <2>3. DOMAIN kept_f' = Threads
    BY <1>8 DEF PerformWrite
  <2>4. /\ DOMAIN call' = Clients
        /\ \A c \in Clients : call'[c].st = "sent" => call'[c] = call[c]
    <3>1. CASE t = 2
      BY <1>8, <3>1 DEF PerformWrite
    <3>2. CASE t # 2
      BY <1>8, <3>2, ReplyCall DEF PerformWrite
    <3> QED  BY <3>1, <3>2
  <2> QED  BY <1>8, <2>2, <2>3, <2>4 DEF PerformWrite, Goto
<1>9. ASSUME NEW t \in Threads, Unlock(t) PROVE TypeInv'
  BY <1>9 DEF Unlock, Goto
<1>10. ASSUME NEW t \in Threads, Die(t) PROVE TypeInv'
  BY <1>10 DEF Die
<1>11. CASE UNCHANGED vars
  BY <1>11 DEF vars
<1> QED
  BY <1>1, <1>2, <1>3, <1>4, <1>5, <1>6, <1>7, <1>8, <1>9, <1>10, <1>11
  DEF Next, ThreadStep

-----------------------------------------------------------------------------
LEMMA StepMutexInv == Inv /\ [Next]_vars => MutexInv'
<1> SUFFICES ASSUME TypeInv, MutexInv, [Next]_vars PROVE MutexInv'
  BY DEF Inv
<1> USE DEF TypeInv, MutexInv, Goto, serverVars
<1>1. ASSUME NEW c \in Clients, NEW r \in Menu, ClientSend(c, r) PROVE MutexInv'
  BY <1>1 DEF ClientSend
<1>2. ASSUME NEW t \in Threads, ThreadStep(t) PROVE MutexInv'
  <2>1. CASE \E c \in Clients : Recv(t, c)
    BY <2>1 DEF Recv
  <2>2. CASE HandleRead(t)
    BY <2>2 DEF HandleRead
  <2>3. CASE HandleRegister(t)
    BY <2>3 DEF HandleRegister
  <2>4. CASE SkipUnlocked(t)
    BY <2>4 DEF SkipUnlocked
  <2>5. CASE Lock(t)
    BY <2>5 DEF Lock, Free, Threads
  <2>6. CASE ReadForWrite(t)
    BY <2>6 DEF ReadForWrite
  <2>7. CASE PerformWrite(t)
    BY <2>7 DEF PerformWrite, Labels
  <2>8. CASE Unlock(t)
    BY <2>8 DEF Unlock, Labels
  <2> QED  BY <1>2, <2>1, <2>2, <2>3, <2>4, <2>5, <2>6, <2>7, <2>8 DEF ThreadStep
<1>3. ASSUME NEW t \in Threads, Die(t) PROVE MutexInv'
  BY <1>3 DEF Die
<1>4. CASE UNCHANGED vars
  BY <1>4 DEF vars
<1> QED  BY <1>1, <1>2, <1>3, <1>4 DEF Next

-----------------------------------------------------------------------------
(***************************************************************************)
(* A thread's answer does not disturb the other threads' requests: two     *)
(* threads never serve the same blocking request, since it has one port.   *)
(***************************************************************************)
LEMMA OpsDisjoint ==
  /\ ReadOps \cap WriteOps = {} /\ RegisterOps \cap WriteOps = {}
  /\ ReadOps \cap AsyncOps = {} /\ ReadOps \cap RegisterOps = {}
  BY DEF ReadOps, WriteOps, RegisterOps, AsyncOps, UpdateOps

LEMMA ReplyKeepsOthers ==
  ASSUME TypeInv, NEW t \in Threads \ {2}, Current(t), NEW a,
         ReplyTo(client[t], a), UNCHANGED <<posted, client, req>>,
         NEW u \in Threads \ {t}, Current(u)
  PROVE  Current(u)'
<1>1. CASE u = 2
  BY <1>1 DEF Current
<1>2. CASE u # 2
  <2>1. client[u] # client[t]
    BY <1>2 DEF Current
  <2>2. call'[client[u]] = call[client[u]]
    BY <2>1, ReplyCall DEF TypeInv
  <2> QED  BY <1>2, <2>2 DEF Current
<1> QED  BY <1>1, <1>2

LEMMA AsyncThread ==
  ASSUME TypeInv, Current(2) PROVE req[2].op \in AsyncOps
<1>1. client[2] \in Clients /\ posted[client[2]] # <<>>
  BY DEF TypeInv, Current, Threads
<1>2. Head(posted[client[2]]) \in AsyncRequest
  BY <1>1 DEF TypeInv
<1> QED  BY <1>2 DEF Current, AsyncRequest

\* A step that leaves the clients' requests alone and moves only thread t.
LEMMA CurrentKept ==
  ASSUME CurrentInv, TypeInv, NEW t \in Threads, NEW label,
         UNCHANGED <<call, posted, client, req>>, Goto(t, label),
         at[t] = "unlocked" \/ at[t] \in {"lock", "locked"},
         label \in {"lock", "locked", "write", "recv"},
         at[t] = "unlocked" => req[t].op \in WriteOps
  PROVE  CurrentInv'
<1> SUFFICES ASSUME NEW u \in Threads,
                    \/ at'[u] = "unlocked"
                    \/ at'[u] \in {"lock", "locked", "write"}
                       /\ req'[u].op \in WriteOps
             PROVE  Current(u)'
  BY DEF CurrentInv
<1>1. Current(u)
  BY DEF CurrentInv, TypeInv, Goto
<1> QED  BY <1>1 DEF Current

LEMMA StepCurrentInv == Inv /\ [Next]_vars => CurrentInv'
<1> SUFFICES ASSUME TypeInv, CurrentInv, WriteInv, [Next]_vars PROVE CurrentInv'
  BY DEF Inv
<1> USE DEF TypeInv
<1>1. ASSUME NEW c \in Clients, NEW r \in Menu, ClientSend(c, r)
      PROVE  CurrentInv'
  <2>1. ASSUME NEW u \in Threads, Current(u) PROVE Current(u)'
    <3>1. UNCHANGED <<client, req>>
      BY <1>1 DEF ClientSend, serverVars
    <3>2. CASE u = 2
      <4>1. CASE r.op \in AsyncOps
        <5>1. posted' = [posted EXCEPT ![c] = Append(posted[c], r)]
          BY <1>1, <4>1 DEF ClientSend
        <5>2. posted[c] # <<>> => /\ Append(posted[c], r) # <<>>
                                 /\ Head(Append(posted[c], r)) = Head(posted[c])
          BY HeadAppend, posted[c] \in Seq(AsyncRequest)
        <5> QED  BY <2>1, <3>1, <3>2, <5>1, <5>2 DEF Current
      <4>2. CASE r.op \notin AsyncOps
        BY <1>1, <2>1, <3>1, <3>2, <4>2 DEF ClientSend, Current
      <4> QED  BY <4>1, <4>2
    <3>3. CASE u # 2
      <4>1. client[u] # c
        BY <1>1, <2>1, <3>3 DEF ClientSend, Current
      <4>2. call'[client[u]] = call[client[u]]
        BY <1>1, <4>1 DEF ClientSend
      <4> QED  BY <2>1, <3>1, <3>3, <4>2 DEF Current
    <3> QED  BY <3>2, <3>3
  <2> QED  BY <1>1, <2>1 DEF ClientSend, serverVars, CurrentInv
<1>2. ASSUME NEW t \in Threads, NEW c \in Clients, Recv(t, c) PROVE CurrentInv'
  <2>1. Current(t)'
    BY <1>2 DEF Recv, Current, clientVars
  <2>2. ASSUME NEW u \in Threads \ {t}, Current(u) PROVE Current(u)'
    BY <1>2, <2>2 DEF Recv, Current, clientVars
  <2> QED  BY <1>2, <2>1, <2>2 DEF Recv, Goto, CurrentInv
<1>3. ASSUME NEW t \in Threads, HandleRead(t) PROVE CurrentInv'
  <2>1. Current(t) /\ t # 2
    BY <1>3, AsyncThread, OpsDisjoint DEF HandleRead, CurrentInv
  <2>2. ASSUME NEW u \in Threads \ {t}, Current(u) PROVE Current(u)'
    BY <1>3, <2>1, <2>2, ReplyKeepsOthers DEF HandleRead
  <2> QED  BY <1>3, <2>2, OpsDisjoint DEF HandleRead, Goto, CurrentInv
<1>4. ASSUME NEW t \in Threads, HandleRegister(t) PROVE CurrentInv'
  <2>1. Current(t)
    BY <1>4 DEF HandleRegister, CurrentInv
  <2>2. ASSUME NEW u \in Threads \ {t}, Current(u) PROVE Current(u)'
    <3>1. CASE t = 2
      BY <1>4, <2>2, <3>1 DEF HandleRegister, Current
    <3>2. CASE t # 2
      BY <1>4, <2>1, <2>2, <3>2, ReplyKeepsOthers DEF HandleRegister
    <3> QED  BY <3>1, <3>2
  <2> QED  BY <1>4, <2>2, OpsDisjoint DEF HandleRegister, Goto, CurrentInv
<1>5. ASSUME NEW t \in Threads, SkipUnlocked(t) PROVE CurrentInv'
  BY <1>5, CurrentKept DEF SkipUnlocked, clientVars
<1>6. ASSUME NEW t \in Threads, Lock(t) PROVE CurrentInv'
  BY <1>6, CurrentKept DEF Lock, clientVars
<1>7. ASSUME NEW t \in Threads, ReadForWrite(t) PROVE CurrentInv'
  BY <1>7, CurrentKept DEF ReadForWrite, clientVars
<1>8. ASSUME NEW t \in Threads, PerformWrite(t) PROVE CurrentInv'
  <2>1. Current(t)
    BY <1>8 DEF PerformWrite, CurrentInv, WriteInv
  <2>2. ASSUME NEW u \in Threads \ {t}, Current(u) PROVE Current(u)'
    <3>1. CASE t = 2
      BY <1>8, <2>2, <3>1 DEF PerformWrite, Current
    <3>2. CASE t # 2
      BY <1>8, <2>1, <2>2, <3>2, ReplyKeepsOthers DEF PerformWrite
    <3> QED  BY <3>1, <3>2
  <2> QED  BY <1>8, <2>2 DEF PerformWrite, Goto, CurrentInv
<1>9. ASSUME NEW t \in Threads, Unlock(t) PROVE CurrentInv'
  BY <1>9, CurrentKept DEF Unlock, clientVars
<1>10. ASSUME NEW t \in Threads, Die(t) PROVE CurrentInv'
  BY <1>10 DEF Die, serverVars, clientVars, CurrentInv, Current
<1>11. CASE UNCHANGED vars
  BY <1>11 DEF vars, serverVars, clientVars, CurrentInv, Current
<1> QED
  BY <1>1, <1>2, <1>3, <1>4, <1>5, <1>6, <1>7, <1>8, <1>9, <1>10, <1>11
  DEF Next, ThreadStep

-----------------------------------------------------------------------------
(***************************************************************************)
(* What a thread has planned stays current: tables change only under the   *)
(* mutex, and a thread's kept functions are its own.                       *)
(***************************************************************************)
WriteReady(t) ==
  /\ req[t].op \in WriteOps
  /\ ~WriteThrows(tbl_store, req[t], WriteFunc(t))
  /\ plan[t] = Plan(tbl_store, req[t], WriteFunc(t))

LEMMA WriteReadyKept ==
  ASSUME NEW u \in Threads, WriteReady(u), UNCHANGED tbl_store,
         req'[u] = req[u], plan'[u] = plan[u], kept_f'[u] = kept_f[u],
         req[u].op = "remove_special" => remove_f' = remove_f
  PROVE  WriteReady(u)'
<1>1. WriteFunc(u)' = WriteFunc(u)
  BY DEF WriteFunc
<1> QED  BY <1>1 DEF WriteReady

LEMMA RemoveOnThread0 ==
  ASSUME TypeInv, NEW u \in Threads, Current(u),
         req[u].op \in {"remove_special", "register_remove_special"}
  PROVE  u = 0
<1>1. u # 2
  BY AsyncThread DEF AsyncOps
<1> QED  BY <1>1 DEF Current, Port, AsyncOps

LEMMA ReadOnThread0 ==
  ASSUME TypeInv, NEW u \in Threads, Current(u), req[u].op \in ReadOps
  PROVE  u = 0
<1>1. u # 2
  BY AsyncThread, OpsDisjoint
<1> QED  BY <1>1 DEF Current, Port, AsyncOps, ReadOps

LEMMA StepWriteInv == Inv /\ [Next]_vars => WriteInv'
<1> SUFFICES ASSUME TypeInv, MutexInv, CurrentInv, WriteInv, [Next]_vars,
                    NEW u \in Threads, at'[u] = "write"
             PROVE  WriteReady(u)'
  BY DEF Inv, WriteInv, WriteReady
<1>0. at[u] = "write" => WriteReady(u)
  BY DEF WriteInv, WriteReady
<1>1. ASSUME NEW c \in Clients, NEW r \in Menu, ClientSend(c, r)
      PROVE  WriteReady(u)'
  BY <1>0, <1>1, WriteReadyKept DEF ClientSend, serverVars
<1>2. ASSUME NEW t \in Threads, NEW c \in Clients, Recv(t, c)
      PROVE  WriteReady(u)'
  <2>1. u # t /\ at[u] = "write"
    BY <1>2 DEF Recv, Goto, TypeInv
  <2>2. req'[u] = req[u]
    BY <1>2, <2>1 DEF Recv, TypeInv
  <2> QED  BY <1>0, <1>2, <2>1, <2>2, WriteReadyKept DEF Recv
<1>3. ASSUME NEW t \in Threads, HandleRead(t) PROVE WriteReady(u)'
  <2>1. u # t /\ at[u] = "write"
    BY <1>3 DEF HandleRead, Goto, TypeInv
  <2>2. t = 0
    BY <1>3, ReadOnThread0 DEF HandleRead, CurrentInv
  <2>3. kept_f'[u] = kept_f[u]
    BY <1>3, <2>1, <2>2 DEF HandleRead, TypeInv
  <2> QED  BY <1>0, <1>3, <2>1, <2>3, WriteReadyKept DEF HandleRead
<1>4. ASSUME NEW t \in Threads, HandleRegister(t) PROVE WriteReady(u)'
  <2>1. u # t /\ at[u] = "write"
    BY <1>4 DEF HandleRegister, Goto, TypeInv
  <2>2. kept_f'[u] = kept_f[u]
    BY <1>4, <2>1 DEF HandleRegister, TypeInv
  <2>3. Current(t) /\ Current(u)
    BY <1>0, <1>4, <2>1 DEF HandleRegister, CurrentInv, WriteReady
  <2>4. req[u].op = "remove_special" => remove_f' = remove_f
    <3> SUFFICES ASSUME req[u].op = "remove_special"
                 PROVE  req[t].op # "register_remove_special"
      BY <1>4 DEF HandleRegister
    <3> QED  BY <2>1, <2>3, RemoveOnThread0
  <2> QED  BY <1>0, <1>4, <2>1, <2>2, <2>4, WriteReadyKept DEF HandleRegister
<1>5. ASSUME NEW t \in Threads, SkipUnlocked(t) PROVE WriteReady(u)'
  <2>1. at[u] = "write"
    BY <1>5 DEF SkipUnlocked, Goto, TypeInv
  <2> QED  BY <1>0, <1>5, <2>1, WriteReadyKept DEF SkipUnlocked
<1>6. ASSUME NEW t \in Threads, Lock(t) PROVE WriteReady(u)'
  <2>1. at[u] = "write"
    BY <1>6 DEF Lock, Goto, TypeInv
  <2> QED  BY <1>0, <1>6, <2>1, WriteReadyKept DEF Lock
<1>7. ASSUME NEW t \in Threads, ReadForWrite(t) PROVE WriteReady(u)'
  <2>1. WriteFunc(u)' = WriteFunc(u) /\ UNCHANGED <<tbl_store, req>>
    BY <1>7 DEF ReadForWrite, WriteFunc
  <2>2. CASE u = t
    <3>1. plan'[t] = Plan(tbl_store, req[t], WriteFunc(t))
      BY <1>7 DEF ReadForWrite, TypeInv
    <3> QED  BY <1>7, <2>1, <2>2, <3>1 DEF ReadForWrite, WriteReady
  <2>3. CASE u # t
    <3>1. at[u] = "write"
      BY <1>7, <2>3 DEF ReadForWrite, Goto, TypeInv
    <3>2. plan'[u] = plan[u]
      BY <1>7, <2>3 DEF ReadForWrite, TypeInv
    <3> QED  BY <1>0, <1>7, <3>1, <3>2, WriteReadyKept DEF ReadForWrite
  <2> QED  BY <2>2, <2>3
<1>8. ASSUME NEW t \in Threads, PerformWrite(t) PROVE WriteReady(u)'
  <2>1. u # t /\ at[u] = "write"
    BY <1>8 DEF PerformWrite, Goto, TypeInv
  <2>2. mutex = t /\ mutex = u
    BY <1>8, <2>1 DEF PerformWrite, MutexInv
  <2> QED  BY <2>1, <2>2
<1>9. ASSUME NEW t \in Threads, Unlock(t) PROVE WriteReady(u)'
  <2>1. at[u] = "write"
    BY <1>9 DEF Unlock, Goto, TypeInv
  <2> QED  BY <1>0, <1>9, <2>1, WriteReadyKept DEF Unlock
<1>10. ASSUME NEW t \in Threads, Die(t) PROVE WriteReady(u)'
  BY <1>0, <1>10, WriteReadyKept DEF Die, serverVars
<1>11. CASE UNCHANGED vars
  BY <1>0, <1>11, WriteReadyKept DEF vars, serverVars
<1> QED
  BY <1>1, <1>2, <1>3, <1>4, <1>5, <1>6, <1>7, <1>8, <1>9, <1>10, <1>11
  DEF Next, ThreadStep

-----------------------------------------------------------------------------
\* A request under way is still its client's, whoever holds the mutex owns the
\* table, and what a thread plans under the mutex stays current (thrd_exec).
THEOREM Invariance == Safety => []Inv
<1>1. Inv /\ [Next]_vars => Inv'
  BY StepTypeInv, StepMutexInv, StepCurrentInv, StepWriteInv DEF Inv
<1> QED  BY InitInv, <1>1, PTL DEF Safety

\* The get and the set of kv_update, and of every other locked branch of
\* thrd_exec, are one atomic step for the other writers.
THEOREM WritersAtomic == Safety => []PlanIsCurrent
<1>1. Inv => PlanIsCurrent
  BY DEF Inv, WriteInv, PlanIsCurrent
<1> QED  BY <1>1, Invariance, PTL

-----------------------------------------------------------------------------
(***************************************************************************)
(* The refinement.  SafeKV extends KVOps, so the instance has its own copy *)
(* of the operations; the copies are equal.                                *)
(***************************************************************************)
LEMMA SameOps ==
  /\ Abstract!ReadOps = ReadOps /\ Abstract!RegisterOps = RegisterOps
  /\ Abstract!UpdateOps = UpdateOps /\ Abstract!WriteOps = WriteOps
  /\ Abstract!AsyncOps = AsyncOps /\ Abstract!NoKey = NoKey
  /\ Abstract!FuncOps = FuncOps
  BY DEF Abstract!ReadOps, ReadOps, Abstract!RegisterOps, RegisterOps,
         Abstract!UpdateOps, UpdateOps, Abstract!WriteOps, WriteOps,
         Abstract!AsyncOps, AsyncOps, Abstract!NoKey, NoKey,
         Abstract!Answer, Answer, Abstract!FuncOps, FuncOps

LEMMA SameCommon ==
  ASSUME NEW s, NEW r, NEW f, NEW ok, NEW ks
  PROVE  /\ Abstract!Answer(ok, s) = Answer(ok, s)
         /\ Abstract!Get(s, ks) = Get(s, ks)
         /\ Abstract!Port(r.op) = Port(r.op)
         /\ Abstract!InForce(r, f) = InForce(r, f)
         /\ Abstract!LoadFails(r, f) = LoadFails(r, f)
         /\ Abstract!ReadThrows(s, r, f) = ReadThrows(s, r, f)
         /\ Abstract!WriteThrows(s, r, f) = WriteThrows(s, r, f)
<1>1. Abstract!Answer(ok, s) = Answer(ok, s)
  BY DEF Abstract!Answer, Answer
<1>2. Abstract!Get(s, ks) = Get(s, ks)
  BY DEF Abstract!Get, Get
<1>3. Abstract!Port(r.op) = Port(r.op)
  BY SameOps DEF Abstract!Port, Port
<1>4. Abstract!InForce(r, f) = InForce(r, f)
  BY SameOps DEF Abstract!InForce, InForce
<1>5. Abstract!LoadFails(r, f) = LoadFails(r, f)
  BY SameOps DEF Abstract!LoadFails, LoadFails
<1>6. Abstract!ReadThrows(s, r, f) = ReadThrows(s, r, f)
  BY <1>5 DEF Abstract!ReadThrows, ReadThrows
<1>7. Abstract!WriteThrows(s, r, f) = WriteThrows(s, r, f)
  BY <1>5 DEF Abstract!WriteThrows, WriteThrows
<1> QED  BY <1>1, <1>2, <1>3, <1>4, <1>5, <1>6, <1>7

LEMMA SameReadAnswer ==
  ASSUME NEW s, NEW r, NEW f
  PROVE  Abstract!ReadAnswer(s, r, f) = ReadAnswer(s, r, f)
  BY DEF Abstract!ReadAnswer, ReadAnswer, Abstract!Answer, Answer,
         Abstract!Get, Get, Abstract!NoKey, NoKey

LEMMA SamePlan ==
  ASSUME NEW s, NEW r, NEW f, NEW p
  PROVE  /\ Abstract!WriteAnswer(s, r, f) = WriteAnswer(s, r, f)
         /\ Abstract!Plan(s, r, f) = Plan(s, r, f)
         /\ Abstract!Perform(s, p) = Perform(s, p)
<1>1. Abstract!Sets(s, r, f) = Sets(s, r, f)
  BY DEF Abstract!Sets, Sets, Abstract!kv_update, kv_update, Abstract!UpdateOps,
         UpdateOps
<1>2. Abstract!Erases(s, r, f) = Erases(s, r, f)
  BY DEF Abstract!Erases, Erases
<1>3. Abstract!WriteAnswer(s, r, f) = WriteAnswer(s, r, f)
  BY <1>1, SameOps DEF Abstract!WriteAnswer, WriteAnswer, Abstract!Answer, Answer
<1>4. Abstract!Plan(s, r, f) = Plan(s, r, f)
  BY <1>1, <1>2, <1>3 DEF Abstract!Plan, Plan
<1>5. Abstract!Perform(s, p) = Perform(s, p)
  BY DEF Abstract!Perform, Perform
<1> QED  BY <1>3, <1>4, <1>5

\* The requests at which SafeKV's server terminates, and the function that it
\* runs a write with, are those of thread t.
LEMMA SameFatal ==
  ASSUME NEW r
  PROVE  Abstract!Fatal(r)
           <=> \/ r.op \in ReadOps /\ ReadThrows(tbl_store, r, InForce(r, kept_f[0]))
               \/ r.op \in RegisterOps /\ LoadFails(r, r.f)
               \/ r.op \in WriteOps /\ WriteThrows(tbl_store, r, Abstract!Func(r))
  BY SameOps, SameCommon DEF Abstract!Fatal

LEMMA SameFunc ==
  ASSUME NEW t \in Threads, Port(req[t].op) = t
  PROVE  Abstract!Func(req[t]) = WriteFunc(t)
  BY SameCommon DEF Abstract!Func, WriteFunc

\* Every request under way is at the port of its thread.
LEMMA AtItsPort ==
  ASSUME TypeInv, NEW t \in Threads, Current(t)
  PROVE  Port(req[t].op) = t
<1>1. CASE t = 2
  BY <1>1, AsyncThread DEF Port, AsyncOps
<1>2. CASE t # 2
  BY <1>2 DEF Current
<1> QED  BY <1>1, <1>2

-----------------------------------------------------------------------------
LEMMA InitRefines == Init => Abstract!Init
<1> SUFFICES ASSUME Init PROVE Abstract!Init
  OBVIOUS
<1>1. AnyReq \in Menu
  BY MenuAssumption DEF AnyReq
<1>2. call = [c \in Clients |-> [st |-> "idle", r |-> AnyReq, ans |-> NoKey]]
  BY DEF Init
<1> QED  BY <1>1, <1>2, SameOps DEF Init, Abstract!Init, Threads

LEMMA SendRefines ==
  ASSUME NEW c \in Clients, NEW r \in Menu, ClientSend(c, r)
  PROVE  Abstract!Send(c, r)
  BY SameOps DEF ClientSend, Abstract!Send, serverVars

\* A thread about to write shows up as a pending write of another client, or
\* as an asynchronous one.
LEMMA RaceIsPendingWrite ==
  ASSUME Inv, NEW t \in Threads \ {2}, Current(t), Racing(t)
  PROVE  Abstract!WritePending(client[t])
<1>1. PICK u \in Threads \ {t} : at[u] = "write"
  BY DEF Racing
<1>2. req[u].op \in WriteOps /\ Current(u) /\ client[u] \in Clients
  BY <1>1 DEF Inv, WriteInv, CurrentInv, TypeInv
<1>3. CASE u = 2
  BY <1>2, <1>3, SameOps DEF Current, Abstract!WritePending
<1>4. CASE u # 2
  <2>1. client[u] # client[t]
    BY <1>2, <1>4 DEF Current
  <2> QED  BY <1>2, <1>4, <2>1, SameOps DEF Current, Abstract!WritePending
<1> QED  BY <1>3, <1>4

LEMMA ReadRefines ==
  ASSUME Inv, NEW t \in Threads, HandleRead(t)
  PROVE  Abstract!Read(client[t])
<1> DEFINE c == client[t]
           r == req[t]
           f == InForce(r, kept_f[0])
<1>1. Current(t)
  BY DEF HandleRead, Inv, CurrentInv
<1>2. t = 0
  BY <1>1, ReadOnThread0 DEF HandleRead, Inv
<1>3. call[c].st = "sent" /\ call[c].r = r
  BY <1>1, <1>2 DEF Current
<1>4. Abstract!InForce(r, kept_f[0]) = f
  BY SameCommon
<1>5. \/ ~ReadThrows(tbl_store, r, f) /\ Abstract!Done(c, ReadAnswer(tbl_store, r, f))
      \/ /\ Abstract!WritePending(c) /\ ~LoadFails(r, f)
         /\ Abstract!Done(c, call'[c].ans)
  <2>1. CASE ~Racing(t)
    BY <2>1 DEF HandleRead, ReplyTo, Abstract!Done
  <2>2. CASE Racing(t)
    <3>1. ~LoadFails(r, f) /\ \E a \in RaceAnswers(t) : ReplyTo(c, a)
      BY <2>2 DEF HandleRead
    <3>2. PICK a : ReplyTo(c, a)
      BY <3>1
    <3>3. c \in Clients /\ DOMAIN call = Clients
      BY DEF Inv, TypeInv
    <3>4. call'[c].ans = a
      BY <3>2, <3>3 DEF ReplyTo
    <3>5. Abstract!Done(c, call'[c].ans)
      BY <3>2, <3>4 DEF ReplyTo, Abstract!Done
    <3> QED  BY <1>1, <1>2, <2>2, <3>1, <3>5, RaceIsPendingWrite
  <2> QED  BY <2>1, <2>2
<1>6. /\ Abstract!ReadThrows(tbl_store, r, f) = ReadThrows(tbl_store, r, f)
      /\ Abstract!ReadAnswer(tbl_store, r, f) = ReadAnswer(tbl_store, r, f)
      /\ Abstract!LoadFails(r, f) = LoadFails(r, f)
  BY SameCommon, SameReadAnswer
<1> QED
  BY <1>3, <1>4, <1>5, <1>6, SameOps DEF HandleRead, Abstract!Read

LEMMA RegisterRefines ==
  ASSUME Inv, NEW t \in Threads, HandleRegister(t)
  PROVE  Abstract!Register(client[t]) \/ Abstract!Deliver(client[t])
<1> DEFINE c == client[t]
           r == req[t]
<1>1. Current(t)
  BY DEF HandleRegister, Inv, CurrentInv
<1> ~Abstract!Fatal(r)
  BY SameFatal, OpsDisjoint DEF HandleRegister
<1>2. CASE t = 2
  <2>1. r.op = "register_update"
    BY <1>1, <1>2, AsyncThread DEF HandleRegister, Inv, RegisterOps, AsyncOps
  <2>2. posted[c] # <<>> /\ r = Head(posted[c])
    BY <1>1, <1>2 DEF Current
  <2> QED  BY <1>2, <2>1, <2>2 DEF HandleRegister, Abstract!Deliver
<1>3. CASE t # 2
  <2>1. call[c].st = "sent" /\ call[c].r = r /\ Port(r.op) = t
    BY <1>1, <1>3 DEF Current
  <2>2. Abstract!Port(r.op) = t
    BY <2>1, SameCommon
  <2>3. Abstract!Done(c, Abstract!Answer(TRUE, <<>>))
    BY <1>3, SameCommon DEF HandleRegister, ReplyTo, Abstract!Done
  <2> QED
    BY <1>3, <2>1, <2>2, <2>3, SameOps DEF HandleRegister, Abstract!Register
<1> QED  BY <1>2, <1>3

LEMMA WriteRefines ==
  ASSUME Inv, NEW t \in Threads, PerformWrite(t)
  PROVE  Abstract!Write(client[t]) \/ Abstract!Deliver(client[t])
<1> DEFINE c == client[t]
           r == req[t]
           f == WriteFunc(t)
<1>1. /\ r.op \in WriteOps /\ ~WriteThrows(tbl_store, r, f)
      /\ plan[t] = Plan(tbl_store, r, f) /\ Current(t)
  BY DEF PerformWrite, Inv, WriteInv, CurrentInv
<1> f = Abstract!Func(r)
  BY <1>1, AtItsPort, SameFunc DEF Inv
<1> ~Abstract!Fatal(r)
  BY <1>1, SameFatal, OpsDisjoint
<1>2. ASSUME Abstract!Port(r.op) = t PROVE Abstract!Effect(r, f)
  <2>1. Abstract!Perform(tbl_store, Abstract!Plan(tbl_store, r, f)) = tbl_store'
    BY <1>1, SamePlan DEF PerformWrite
  <2> QED  BY <1>2, <2>1, SameOps DEF PerformWrite, Abstract!Effect
<1>3. CASE t = 2
  <2>1. r.op = "update"
    BY <1>1, <1>3, AsyncThread DEF Inv, WriteOps, UpdateOps, AsyncOps
  <2>2. Abstract!Port(r.op) = t
    BY <1>3, <2>1 DEF Abstract!Port, Abstract!AsyncOps
  <2>3. posted[c] # <<>> /\ r = Head(posted[c])
    BY <1>1, <1>3 DEF Current
  <2> QED
    BY <1>2, <1>3, <2>1, <2>2, <2>3 DEF PerformWrite, Abstract!Deliver
<1>4. CASE t # 2
  <2>1. call[c].st = "sent" /\ call[c].r = r /\ Port(r.op) = t
    BY <1>1, <1>4 DEF Current
  <2>2. Abstract!Port(r.op) = t
    BY <2>1, SameCommon
  <2>3. plan[t].ans = Abstract!WriteAnswer(tbl_store, r, f)
    BY <1>1, SamePlan DEF Plan
  <2>4. Abstract!Done(c, Abstract!WriteAnswer(tbl_store, r, f))
    BY <1>4, <2>3 DEF PerformWrite, ReplyTo, Abstract!Done
  <2>5. alive /\ UNCHANGED <<posted, alive>>
    BY <1>4 DEF PerformWrite
  <2> QED
    BY <1>1, <1>2, <2>1, <2>2, <2>4, <2>5, SameOps DEF Abstract!Write
<1> QED  BY <1>3, <1>4

LEMMA DieRefines ==
  ASSUME Inv, NEW t \in Threads, Die(t)
  PROVE  Abstract!Terminate(client[t])
<1> DEFINE c == client[t]
           r == req[t]
<1>1. Current(t)
  BY DEF Die, Inv, CurrentInv
<1>2. alive /\ ~alive' /\ UNCHANGED <<tbl_store, kept_f, remove_f, call, posted>>
  BY DEF Die, serverVars, clientVars
<1>3. CASE Abstract!Fatal(r)
  BY <1>1, <1>2, <1>3 DEF Current, Abstract!Terminate, Die
<1>4. CASE r.op \in ReadOps /\ Racing(t)
  <2>1. t = 0
    BY <1>1, <1>4, ReadOnThread0 DEF Inv
  <2>2. call[c].st = "sent" /\ call[c].r = r /\ Abstract!WritePending(c)
    BY <1>1, <1>4, <2>1, RaceIsPendingWrite DEF Current
  <2> QED  BY <1>2, <1>4, <2>2, SameOps DEF Abstract!Terminate, Die
<1>5. Abstract!Fatal(r) \/ (r.op \in ReadOps /\ Racing(t))
  <2>1. Abstract!Func(r) = WriteFunc(t)
    BY <1>1, AtItsPort, SameFunc DEF Inv
  <2> QED  BY <2>1, SameFatal DEF Die
<1> QED  BY <1>3, <1>4, <1>5

LEMMA StepRefines == Inv /\ [Next]_vars => [Abstract!Next]_(Abstract!vars)
<1> SUFFICES ASSUME Inv, [Next]_vars
             PROVE  Abstract!Next \/ UNCHANGED Abstract!vars
  OBVIOUS
<1> USE DEF Abstract!vars, Abstract!Next, clientVars
<1>1. ASSUME NEW c \in Clients, NEW r \in Menu, ClientSend(c, r)
      PROVE  Abstract!Next
  BY <1>1, SendRefines
<1>2. ASSUME NEW t \in Threads, HandleRead(t) PROVE Abstract!Next
  BY <1>2, ReadRefines DEF Inv, TypeInv
<1>3. ASSUME NEW t \in Threads, HandleRegister(t) PROVE Abstract!Next
  BY <1>3, RegisterRefines DEF Inv, TypeInv
<1>4. ASSUME NEW t \in Threads, PerformWrite(t) PROVE Abstract!Next
  BY <1>4, WriteRefines DEF Inv, TypeInv
<1>5. ASSUME NEW t \in Threads, Die(t) PROVE Abstract!Next
  BY <1>5, DieRefines DEF Inv, TypeInv
<1>6. ASSUME NEW t \in Threads,
             \/ \E c \in Clients : Recv(t, c)
             \/ SkipUnlocked(t) \/ Lock(t) \/ ReadForWrite(t) \/ Unlock(t)
      PROVE  UNCHANGED Abstract!vars
  BY <1>6 DEF Recv, SkipUnlocked, Lock, ReadForWrite, Unlock
<1>7. CASE UNCHANGED vars
  BY <1>7 DEF vars, serverVars
<1> QED  BY <1>1, <1>2, <1>3, <1>4, <1>5, <1>6, <1>7 DEF Next, ThreadStep

\* The four threads of a server, with reads outside the mutex and writes in two
\* steps inside it, implement the store of SafeKV: atomic writes, per-client
\* order of the asynchronous ones, reads that are safe (thrd_exec).
THEOREM ServerRefinesSafeKV == Safety => Refinement
<1>1. Inv /\ [Next]_vars => [Abstract!Next]_(Abstract!vars)
  BY StepRefines
<1> QED
  BY InitRefines, <1>1, Invariance, PTL DEF Safety, Refinement, Abstract!Spec

-----------------------------------------------------------------------------
(***************************************************************************)
(* Counting.  Clients that only add to one key: blocking (bupdate, thread  *)
(* 3) or not (update, thread 2), with the default function, while others   *)
(* read and register filters.                                              *)
(***************************************************************************)
CountsUp(k) ==
  /\ \A r \in Menu :
       /\ r.op \in WriteOps => /\ r.op \in {"update", "bupdate"}
                               /\ r.keys = {k} /\ r.val \in Nat \ {0} /\ r.f = NoFunc
       /\ r.op \notin {"register_update", "register_bupdate"}
  /\ \A n, d \in Nat : Apply(DefaultIncr, n, d) = n + d

\* Every request adds 1.
CountsOnly(k) ==
  /\ CountsUp(k) /\ IsFiniteSet(Clients)
  /\ \A r \in Menu : r.op \in WriteOps /\ r.val = 1

InMenu ==
  /\ req \in [Threads -> Menu] /\ \A c \in Clients : call[c].r \in Menu
  /\ posted \in [Clients -> Seq(Menu)]

\* The functions that the two writing threads keep.
KeptDefault == kept_f[2] \in {NoFunc, DefaultIncr} /\ kept_f[3] \in {NoFunc, DefaultIncr}

Counter(k) ==
  DOMAIN tbl_store \subseteq {k} /\ \A x \in DOMAIN tbl_store : tbl_store[x] \in Nat \ {0}

\* A ticket is a count that the table has reached.
Tickets(k) ==
  /\ DOMAIN got = Clients
  /\ \A c \in Clients :
       /\ got[c] \in Seq([{k} -> Nat])
       /\ \A i \in DOMAIN got[c] : k \in DOMAIN tbl_store /\ got[c][i][k] <= tbl_store[k]

TicketInv(k) == InMenu /\ KeptDefault /\ Counter(k) /\ Tickets(k) /\ TicketsUnique

LEMMA TicketInit ==
  ASSUME NEW k, CountsUp(k), Init
  PROVE  TicketInv(k)
<1>1. AnyReq \in Menu
  BY MenuAssumption DEF AnyReq
<1>2. InMenu /\ KeptDefault /\ Counter(k)
  BY <1>1 DEF Init, InMenu, KeptDefault, Counter, Threads
<1>3. Tickets(k) /\ TicketsUnique
  BY DEF Init, Tickets, TicketsUnique
<1> QED BY <1>2, <1>3 DEF TicketInv

LEMMA ElementOf ==
  ASSUME NEW S, NEW q \in Seq(S), NEW i \in DOMAIN q
  PROVE  q[i] \in S
OBVIOUS

LEMMA Appended ==
  ASSUME NEW S, NEW q \in Seq(S), NEW x \in S
  PROVE  /\ Append(q, x) \in Seq(S) /\ Len(q) \in Nat /\ DOMAIN q = 1 .. Len(q)
         /\ DOMAIN Append(q, x) = 1 .. (Len(q) + 1)
         /\ Append(q, x)[Len(q) + 1] = x
         /\ \A i \in 1 .. Len(q) : Append(q, x)[i] = q[i]
OBVIOUS

\* A request on its way is from the menu.
LEMMA MenuKept ==
  ASSUME Inv, InMenu, [Next]_vars
  PROVE  InMenu'
<1> USE DEF InMenu, TypeInv
<1>1. TypeInv /\ CurrentInv /\ WriteInv
  BY DEF Inv
<1>2. ASSUME NEW c \in Clients, NEW r \in Menu, ClientSend(c, r) PROVE InMenu'
  <2>1. CASE r.op \in AsyncOps
    <3>1. posted' = [posted EXCEPT ![c] = Append(posted[c], r)] /\ UNCHANGED <<call, req>>
      BY <1>2, <2>1 DEF ClientSend, serverVars
    <3> QED BY <3>1
  <2>2. CASE r.op \notin AsyncOps
    <3>1. call' = [call EXCEPT ![c] = [st |-> "sent", r |-> r, ans |-> NoKey]] /\ UNCHANGED <<posted, req>>
      BY <1>2, <2>2 DEF ClientSend, serverVars
    <3> QED BY <3>1, <1>1
  <2> QED BY <2>1, <2>2
<1>3. ASSUME NEW t \in Threads, NEW c \in Clients, Recv(t, c) PROVE InMenu'
  <2>1. (IF t = 2 THEN Head(posted[c]) ELSE call[c].r) \in Menu
    BY <1>3 DEF Recv
  <2> QED BY <2>1, <1>3 DEF Recv, clientVars
<1>4. ASSUME NEW c \in Clients, NEW a, ReplyTo(c, a) PROVE \A d \in Clients : call'[d].r = call[d].r
  BY <1>1, <1>4 DEF ReplyTo
<1>5. ASSUME NEW t \in Threads, HandleRead(t) PROVE InMenu'
  BY <1>1, <1>4, <1>5 DEF HandleRead
<1>6. ASSUME NEW t \in Threads, HandleRegister(t) \/ PerformWrite(t) PROVE InMenu'
  <2>1. UNCHANGED req /\ client[t] \in Clients
    BY <1>1, <1>6 DEF HandleRegister, PerformWrite
  <2>2. CASE t = 2
    <3>1. posted[client[t]] # <<>>
      BY <1>1, <1>6, <2>2 DEF HandleRegister, PerformWrite, CurrentInv, Current, WriteInv
    <3>2. Tail(posted[client[t]]) \in Seq(Menu)
      BY <2>1, <3>1
    <3> QED BY <1>6, <2>1, <2>2, <3>2 DEF HandleRegister, PerformWrite
  <2>3. CASE t # 2
    BY <1>4, <1>6, <2>1, <2>3 DEF HandleRegister, PerformWrite
  <2> QED BY <2>2, <2>3
<1>7. ASSUME NEW t \in Threads, SkipUnlocked(t) \/ Lock(t) \/ ReadForWrite(t) \/ Unlock(t) \/ Die(t)
      PROVE  InMenu'
  BY <1>7 DEF SkipUnlocked, Lock, ReadForWrite, Unlock, Die, clientVars, serverVars
<1>8. CASE UNCHANGED vars
  BY <1>8 DEF vars, serverVars, clientVars
<1> QED BY <1>2, <1>3, <1>5, <1>6, <1>7, <1>8 DEF Next, ThreadStep

\* What a write does: the next count is stored, and it is the ticket.
LEMMA WriteCounts ==
  ASSUME NEW k, CountsUp(k), Inv, InMenu, KeptDefault, Counter(k), NEW t \in Threads, PerformWrite(t)
  PROVE  /\ \/ t = 2 /\ req[t].op = "update"
            \/ t = 3 /\ req[t].op = "bupdate"
         /\ req[t] \in Menu /\ req[t].val \in Nat \ {0}
         /\ DOMAIN tbl_store' = {k}
         /\ tbl_store'[k] = (IF k \in DOMAIN tbl_store THEN tbl_store[k] ELSE 0) + req[t].val
         /\ plan[t].ans.vals = [x \in {k} |-> tbl_store'[k]]
         /\ KeptDefault'
<1>1. at[t] = "write" /\ TypeInv /\ CurrentInv /\ WriteInv
  BY DEF PerformWrite, Inv
<1>2. /\ req[t] \in Menu /\ req[t].op \in WriteOps
      /\ plan[t] = Plan(tbl_store, req[t], WriteFunc(t)) /\ Current(t)
  BY <1>1 DEF WriteInv, InMenu, CurrentInv
<1>3. /\ req[t].op \in {"update", "bupdate"} /\ req[t].keys = {k}
      /\ req[t].val \in Nat \ {0} /\ req[t].f = NoFunc
  BY <1>2 DEF CountsUp
<1>4. \/ t = 2 /\ req[t].op = "update"
      \/ t = 3 /\ req[t].op = "bupdate"
  <2>1. CASE t = 2
    BY <2>1, <1>1, <1>2, <1>3, AsyncThread DEF AsyncOps
  <2>2. CASE t # 2
    BY <2>2, <1>2, <1>3 DEF Current, Port, AsyncOps
  <2> QED BY <2>1, <2>2
<1>5. req[t].op \in UpdateOps /\ req[t].op # "remove_special"
  BY <1>3 DEF UpdateOps
<1>6. WriteFunc(t) = DefaultIncr
  BY <1>3, <1>4, <1>5 DEF WriteFunc, InForce, KeptDefault
<1> DEFINE v == (IF k \in DOMAIN tbl_store THEN tbl_store[k] ELSE 0) + req[t].val
           sets == Sets(tbl_store, req[t], DefaultIncr)
<1>7. kv_update(tbl_store, k, req[t].val, DefaultIncr) = v
  BY <1>3 DEF kv_update, Counter, CountsUp
<1>8. sets = [x \in {k} |-> v]
  <2>1. sets = [x \in {k} |-> kv_update(tbl_store, x, req[t].val, DefaultIncr)]
    BY <1>3, <1>5 DEF Sets, UpdateOps
  <2> HIDE DEF sets, v
  <2> QED BY <2>1, <1>7
<1>9. Erases(tbl_store, req[t], DefaultIncr) = {}
  BY <1>3 DEF Erases
<1>10. WriteAnswer(tbl_store, req[t], DefaultIncr).vals = sets
  <2>1. WriteAnswer(tbl_store, req[t], DefaultIncr) = Answer(TRUE, sets)
    <3> HIDE DEF sets
    <3>1. Sets(tbl_store, req[t], DefaultIncr) = sets
      BY DEF sets
    <3> QED BY <3>1, <1>3, <1>5 DEF WriteAnswer
  <2> QED BY <2>1 DEF Answer
<1>11. plan[t].sets = sets /\ plan[t].erases = {} /\ plan[t].ans.vals = sets
  BY <1>2, <1>6, <1>9, <1>10 DEF Plan
<1> HIDE DEF sets, v
<1>12. DOMAIN tbl_store' = {k} /\ tbl_store'[k] = v
  <2>1. tbl_store' = Perform(tbl_store, plan[t])
    BY DEF PerformWrite
  <2>2. DOMAIN sets = {k} /\ sets[k] = v
    BY <1>8
  <2>3. (DOMAIN tbl_store \cup DOMAIN sets) \ {} = {k}
    BY <2>2 DEF Counter
  <2> QED BY <2>1, <2>2, <2>3, <1>11 DEF Perform
<1>13. KeptDefault'
  <2>1. kept_f' = [kept_f EXCEPT ![t] = DefaultIncr]
    BY <1>5, <1>6 DEF PerformWrite
  <2> QED BY <2>1, <1>1, <1>4 DEF KeptDefault, TypeInv, Threads
<1> QED BY <1>2, <1>3, <1>4, <1>8, <1>11, <1>12, <1>13 DEF v

LEMMA TicketStep ==
  ASSUME NEW k, CountsUp(k), Inv, TicketInv(k), [Next]_vars
  PROVE  TicketInv(k)'
<1>1. InMenu /\ KeptDefault /\ Counter(k) /\ Tickets(k) /\ TicketsUnique /\ InMenu'
  BY MenuKept DEF TicketInv
<1>2. ASSUME UNCHANGED <<tbl_store, got>>, KeptDefault' PROVE TicketInv(k)'
  <2>1. Counter(k)' /\ TicketsUnique'
    BY <1>1, <1>2 DEF Counter, TicketsUnique
  <2>2. Tickets(k)'
    BY <1>1, <1>2 DEF Tickets
  <2> QED BY <2>1, <2>2, <1>1, <1>2 DEF TicketInv
<1>3. ASSUME NEW t \in Threads, HandleRead(t) PROVE KeptDefault'
  BY <1>1, <1>3 DEF HandleRead, KeptDefault, Inv, TypeInv
<1>4. ASSUME NEW t \in Threads, HandleRegister(t) PROVE KeptDefault'
  <2>1. req[t].op \in RegisterOps /\ req[t].op \notin {"register_update", "register_bupdate"}
    BY <1>1, <1>4 DEF HandleRegister, CountsUp, InMenu
  <2>2. Current(t)
    BY <1>4 DEF HandleRegister, Inv, CurrentInv
  <2>3. t # 2
    BY <2>1, <2>2, AsyncThread DEF AsyncOps, RegisterOps, Inv
  <2>4. t = 0
    BY <2>1, <2>2, <2>3 DEF Current, Port, RegisterOps, AsyncOps
  <2>5. kept_f' = kept_f \/ \E f : kept_f' = [kept_f EXCEPT ![0] = f]
    BY <1>4, <2>4 DEF HandleRegister
  <2>6. DOMAIN kept_f = Threads /\ 2 \in Threads /\ 3 \in Threads
    BY DEF Inv, TypeInv, Threads
  <2> QED BY <1>1, <2>5, <2>6 DEF KeptDefault
<1>5. ASSUME NEW t \in Threads, PerformWrite(t) PROVE TicketInv(k)'
  <2> DEFINE old == IF k \in DOMAIN tbl_store THEN tbl_store[k] ELSE 0
             new == old + req[t].val
  <2>1. /\ \/ t = 2 /\ req[t].op = "update"
           \/ t = 3 /\ req[t].op = "bupdate"
        /\ req[t].val \in Nat \ {0} /\ DOMAIN tbl_store' = {k} /\ tbl_store'[k] = new
        /\ plan[t].ans.vals = [x \in {k} |-> tbl_store'[k]] /\ KeptDefault'
    BY <1>1, <1>5, WriteCounts, SMTT(30)
  <2>2. old \in Nat /\ new \in Nat \ {0} /\ old < new
    BY <1>1, <2>1 DEF Counter
  <2>3. /\ DOMAIN got = Clients
        /\ \A c \in Clients : /\ got[c] \in Seq([{k} -> Nat])
                              /\ \A i \in DOMAIN got[c] : got[c][i] \in [{k} -> Nat] /\ got[c][i][k] <= old
    <3>1. ASSUME NEW c \in Clients, NEW i \in DOMAIN got[c]
          PROVE  got[c][i] \in [{k} -> Nat] /\ got[c][i][k] <= old
      <4>1. got[c] \in Seq([{k} -> Nat]) /\ k \in DOMAIN tbl_store /\ got[c][i][k] <= tbl_store[k]
        BY <1>1 DEF Tickets
      <4>2. got[c][i] \in [{k} -> Nat]
        BY <4>1, ElementOf
      <4> QED BY <4>1, <4>2
    <3> HIDE DEF old
    <3> QED BY <3>1, <1>1 DEF Tickets
  <2> HIDE DEF old, new
  <2>4. Counter(k)'
    BY <2>1, <2>2 DEF Counter
  <2>5. CASE t = 2
    <3>1. got' = got
      BY <1>5, <2>5 DEF PerformWrite
    <3>2. TicketsUnique'
      BY <3>1, <1>1 DEF TicketsUnique
    <3>3. ASSUME NEW c \in Clients, NEW i \in DOMAIN got[c]
          PROVE  got[c][i][k] <= new
      <4>1. got[c][i][k] \in Nat /\ got[c][i][k] <= old
        BY <2>3
      <4> QED BY <4>1, <2>2
    <3>4. Tickets(k)'
      BY <3>1, <3>3, <2>1, <2>3 DEF Tickets
    <3> QED BY <3>2, <3>4, <2>1, <2>4, <1>1 DEF TicketInv
  <2>6. CASE t = 3 /\ req[t].op = "bupdate"
    <3> DEFINE c == client[t]
               tk == [x \in {k} |-> new]
    <3>1. got' = [got EXCEPT ![c] = Append(@, plan[t].ans.vals)]
      BY <1>5, <2>6 DEF PerformWrite
    <3>2. plan[t].ans.vals = tk /\ tk \in [{k} -> Nat] /\ tk[k] = new
      BY <2>1, <2>2
    <3>3. c \in Clients
      BY DEF Inv, TypeInv
    <3> HIDE DEF c, tk
    <3>4. /\ DOMAIN got' = Clients /\ got'[c] = Append(got[c], tk)
          /\ \A d \in Clients : d # c => got'[d] = got[d]
      BY <3>1, <3>2, <3>3, <2>3
    <3>5. /\ got[c] \in Seq([{k} -> Nat]) /\ Len(got[c]) \in Nat
          /\ got'[c] \in Seq([{k} -> Nat]) /\ DOMAIN got[c] = 1 .. Len(got[c])
          /\ DOMAIN got'[c] = 1 .. (Len(got[c]) + 1) /\ got'[c][Len(got[c]) + 1] = tk
          /\ \A i \in 1 .. Len(got[c]) : got'[c][i] = got[c][i]
      <4> DEFINE S == [{k} -> Nat]
      <4>1. got[c] \in Seq(S) /\ tk \in S
        BY <3>2, <3>3, <2>3
      <4> HIDE DEF S
      <4>2. /\ Append(got[c], tk) \in Seq(S) /\ Len(got[c]) \in Nat /\ DOMAIN got[c] = 1 .. Len(got[c])
            /\ DOMAIN Append(got[c], tk) = 1 .. (Len(got[c]) + 1)
            /\ Append(got[c], tk)[Len(got[c]) + 1] = tk
            /\ \A i \in 1 .. Len(got[c]) : Append(got[c], tk)[i] = got[c][i]
        BY <4>1, Appended
      <4> QED BY <4>1, <4>2, <3>4 DEF S
    <3> DEFINE Last(d, i) == d = c /\ i = Len(got[c]) + 1
    <3>6. ASSUME NEW d \in Clients, NEW i \in DOMAIN got'[d]
          PROVE  \/ Last(d, i) /\ got'[d][i][k] = new
                 \/ /\ ~Last(d, i) /\ i \in DOMAIN got[d] /\ got'[d][i] = got[d][i]
                    /\ got'[d][i][k] \in Nat /\ got'[d][i][k] < new
      <4>1. CASE Last(d, i)
        BY <4>1, <3>2, <3>5
      <4>2. CASE ~Last(d, i)
        <5>1. i \in DOMAIN got[d] /\ got'[d][i] = got[d][i]
          BY <4>2, <3>4, <3>5, SMTT(30)
        <5>2. got[d][i][k] \in Nat /\ got[d][i][k] <= old
          BY <5>1, <2>3
        <5> QED BY <4>2, <5>1, <5>2, <2>2
      <4> QED BY <4>1, <4>2
    <3>7. TicketsUnique'
      <4> SUFFICES ASSUME NEW d \in Clients, NEW b \in Clients, NEW i \in DOMAIN got'[d],
                          NEW j \in DOMAIN got'[b], got'[d][i] = got'[b][j]
                   PROVE  d = b /\ i = j
        BY DEF TicketsUnique
      <4>1. got'[d][i][k] = got'[b][j][k]
        OBVIOUS
      <4>2. Last(d, i) <=> Last(b, j)
        BY <4>1, <3>6, <2>2
      <4>3. CASE Last(d, i)
        BY <4>2, <4>3
      <4>4. CASE ~Last(d, i)
        <5>1. i \in DOMAIN got[d] /\ j \in DOMAIN got[b] /\ got[d][i] = got[b][j]
          BY <4>2, <4>4, <3>6
        <5> QED BY <5>1, <1>1 DEF TicketsUnique
      <4> QED BY <4>3, <4>4
    <3>8. Tickets(k)'
      <4>1. \A d \in Clients : got'[d] \in Seq([{k} -> Nat])
        BY <3>4, <3>5, <2>3
      <4>2. \A d \in Clients : \A i \in DOMAIN got'[d] : got'[d][i][k] <= new
        BY <3>6, <2>2
      <4> QED BY <4>1, <4>2, <3>4, <2>1 DEF Tickets
    <3> QED BY <3>7, <3>8, <2>1, <2>4, <1>1 DEF TicketInv
  <2> QED BY <2>1, <2>5, <2>6
<1>6. ASSUME NEW t \in Threads, NEW c \in Clients, Recv(t, c) PROVE TicketInv(k)'
  BY <1>1, <1>2, <1>6 DEF Recv, clientVars, KeptDefault
<1>7. ASSUME NEW c \in Clients, NEW r \in Menu, ClientSend(c, r) PROVE TicketInv(k)'
  BY <1>1, <1>2, <1>7 DEF ClientSend, serverVars, KeptDefault
<1>8. ASSUME NEW t \in Threads, SkipUnlocked(t) \/ Lock(t) \/ ReadForWrite(t) \/ Unlock(t) \/ Die(t)
      PROVE  TicketInv(k)'
  BY <1>1, <1>2, <1>8 DEF SkipUnlocked, Lock, ReadForWrite, Unlock, Die, clientVars, serverVars, KeptDefault
<1>9. CASE UNCHANGED vars
  BY <1>1, <1>2, <1>9 DEF vars, serverVars, clientVars, KeptDefault
<1>10. ASSUME NEW t \in Threads, HandleRead(t) \/ HandleRegister(t) PROVE TicketInv(k)'
  BY <1>2, <1>3, <1>4, <1>10 DEF HandleRead, HandleRegister
<1> QED BY <1>5, <1>6, <1>7, <1>8, <1>9, <1>10 DEF Next, ThreadStep

\* bupdate is a fetch-and-add (kv_update under the mutex, threads 2 and 3 of
\* thrd_exec): for any number of clients that add to a key, by bupdate or update,
\* while others read, no two bupdates return the same count.
THEOREM TicketsAreUnique ==
  ASSUME NEW CONSTANT k, CountsUp(k)
  PROVE  Safety => []TicketsUnique
<1>1. Init => TicketInv(k)
  BY TicketInit
<1>2. Inv /\ TicketInv(k) /\ [Next]_vars => TicketInv(k)'
  BY TicketStep
<1>3. TicketInv(k) => TicketsUnique
  BY DEF TicketInv
<1> QED BY <1>1, <1>2, <1>3, Invariance, PTL DEF Safety
-----------------------------------------------------------------------------
(***************************************************************************)
(* Every request counts once.                                              *)
(***************************************************************************)
CountInv ==
  /\ issued \in [Clients -> 0 .. MaxOps]
  /\ \A c \in Clients : Performed(c) \in Nat
  /\ NoLostUpdate

LEMMA ActsFinite ==
  ASSUME Inv, CountInv, IsFiniteSet(Clients)
  PROVE  IsFiniteSet(Acts) /\ Cardinality(Acts) \in Nat
<1>1. IsFiniteSet(Clients \X (1 .. MaxOps))
  <2>1. IsFiniteSet(1 .. MaxOps)
    BY OpsAssumption, FS_Interval
  <2> QED BY <2>1, FS_Product
<1>2. ASSUME NEW c \in Clients PROVE Performed(c) <= MaxOps
  <2>1. Len(posted[c]) \in Nat /\ issued[c] \in 0 .. MaxOps
    BY DEF Inv, TypeInv, CountInv
  <2> QED BY <2>1, OpsAssumption DEF Performed
<1>3. Acts \subseteq Clients \X (1 .. MaxOps)
  BY <1>2, OpsAssumption DEF Acts, CountInv
<1> QED BY <1>1, <1>3, FS_Subset, FS_CardinalityType

\* Steps that finish no request.
LEMMA CountKept ==
  ASSUME CountInv, UNCHANGED tbl_store, issued' \in [Clients -> 0 .. MaxOps],
         \A c \in Clients : Performed(c)' = Performed(c)
  PROVE  CountInv'
<1>1. Acts' = Acts
  BY DEF Acts
<1> QED BY <1>1 DEF CountInv, NoLostUpdate

LEMMA CountStep ==
  ASSUME NEW k, CountsOnly(k), Inv, TicketInv(k), CountInv, [Next]_vars
  PROVE  CountInv'
<1>1. /\ TypeInv /\ CurrentInv /\ WriteInv /\ InMenu /\ KeptDefault /\ Counter(k) /\ CountsUp(k)
      /\ issued \in [Clients -> 0 .. MaxOps] /\ \A r \in Menu : r.op \in WriteOps /\ r.val = 1
      /\ posted \in [Clients -> Seq(AsyncRequest)] /\ DOMAIN call = Clients
  BY DEF Inv, TypeInv, TicketInv, CountsOnly, CountInv
<1>2. ASSUME UNCHANGED <<tbl_store, issued, posted, call>> PROVE CountInv'
  BY <1>1, <1>2, CountKept DEF Performed
<1>3. ASSUME NEW c \in Clients, NEW r \in Menu, ClientSend(c, r) PROVE CountInv'
  <2>1. /\ issued[c] < MaxOps /\ issued' = [issued EXCEPT ![c] = @ + 1] /\ UNCHANGED tbl_store
        /\ call[c].st # "sent"
    BY <1>3 DEF ClientSend, serverVars
  <2>2. issued' \in [Clients -> 0 .. MaxOps] /\ issued'[c] = issued[c] + 1 /\ issued[c] \in Nat
        /\ \A d \in Clients : d # c => issued'[d] = issued[d]
    BY <1>1, <2>1, OpsAssumption
  <2>3. CASE r.op \in AsyncOps
    <3>1. posted' = [posted EXCEPT ![c] = Append(posted[c], r)] /\ UNCHANGED call
      BY <1>3, <2>3 DEF ClientSend
    <3>2. Len(Append(posted[c], r)) = Len(posted[c]) + 1 /\ Len(posted[c]) \in Nat
      BY <1>1
    <3>3. Performed(c)' = Performed(c)
      BY <3>1, <3>2, <2>1, <2>2, <1>1 DEF Performed
    <3>4. \A d \in Clients : d # c => Performed(d)' = Performed(d)
      BY <3>1, <2>2, <1>1 DEF Performed
    <3> QED BY <3>3, <3>4, <2>1, <2>2, CountKept
  <2>4. CASE r.op \notin AsyncOps
    <3>1. /\ call' = [call EXCEPT ![c] = [st |-> "sent", r |-> r, ans |-> NoKey]]
          /\ UNCHANGED posted
      BY <1>3, <2>4 DEF ClientSend
    <3>2. call'[c].st = "sent" /\ \A d \in Clients : d # c => call'[d] = call[d]
      BY <3>1, <1>1
    <3>3. Len(posted[c]) \in Nat
      BY <1>1
    <3>4. Performed(c)' = Performed(c)
      BY <3>1, <3>2, <3>3, <2>1, <2>2 DEF Performed
    <3>5. \A d \in Clients : d # c => Performed(d)' = Performed(d)
      BY <3>1, <3>2, <2>2 DEF Performed
    <3> QED BY <3>4, <3>5, <2>1, <2>2, CountKept
  <2> QED BY <2>3, <2>4
<1>4. ASSUME NEW t \in Threads, PerformWrite(t) PROVE CountInv'
  <2> DEFINE n == Cardinality(Acts)
  <2>0. PICK c \in Clients : c = client[t]
    BY <1>1 DEF TypeInv
  <2>1. c \in Clients /\ Current(t) /\ UNCHANGED issued
    BY <1>1, <1>4 DEF TypeInv, CurrentInv, WriteInv, PerformWrite
  <2>2. /\ t \in {2, 3} /\ DOMAIN tbl_store' = {k}
        /\ tbl_store'[k] = (IF k \in DOMAIN tbl_store THEN tbl_store[k] ELSE 0) + 1
    <3>1. /\ t = 2 \/ t = 3
          /\ req[t] \in Menu /\ DOMAIN tbl_store' = {k}
          /\ tbl_store'[k] = (IF k \in DOMAIN tbl_store THEN tbl_store[k] ELSE 0) + req[t].val
      BY <1>1, <1>4, WriteCounts
    <3> QED BY <3>1, <1>1
  <2>3. /\ Performed(c)' = Performed(c) + 1
        /\ \A d \in Clients : d # c => Performed(d)' = Performed(d)
    <3>1. issued[c] \in Nat /\ Len(posted[c]) \in Nat
      BY <2>1, <1>1
    <3>2. CASE t = 2
      <4>1. posted' = [posted EXCEPT ![c] = Tail(@)] /\ UNCHANGED call
        BY <1>4, <2>0, <3>2 DEF PerformWrite
      <4>2. posted[c] # <<>>
        BY <2>0, <2>1, <3>2 DEF Current
      <4>3. posted[c] \in Seq(AsyncRequest)
        BY <2>1, <1>1
      <4>4. Len(Tail(posted[c])) = Len(posted[c]) - 1
        BY <4>2, <4>3
      <4>5. posted'[c] = Tail(posted[c]) /\ \A d \in Clients : d # c => posted'[d] = posted[d]
        BY <4>1, <2>1, <1>1
      <4>6. /\ Len(posted'[c]) = Len(posted[c]) - 1 /\ issued'[c] = issued[c]
            /\ call'[c].st = call[c].st
        BY <4>1, <4>4, <4>5, <2>1
      <4>7. Performed(c)' = Performed(c) + 1
        BY <4>6, <3>1 DEF Performed
      <4>8. ASSUME NEW d \in Clients, d # c PROVE Performed(d)' = Performed(d)
        <5>1. posted'[d] = posted[d] /\ issued'[d] = issued[d] /\ call'[d] = call[d]
          BY <4>1, <4>5, <4>8, <2>1
        <5> QED BY <5>1 DEF Performed
      <4> QED BY <4>7, <4>8
    <3>3. CASE t = 3
      <4>1. ReplyTo(c, plan[t].ans) /\ UNCHANGED posted
        BY <1>4, <2>0, <3>3 DEF PerformWrite
      <4>2. call'[c].st = "done" /\ \A d \in Clients \ {c} : call'[d] = call[d]
        BY <4>1, <2>1, <1>1, ReplyCall
      <4>3. call[c].st = "sent"
        BY <2>0, <2>1, <3>3 DEF Current
      <4>4. Performed(c)' = Performed(c) + 1
        BY <4>1, <4>2, <4>3, <3>1, <2>1 DEF Performed
      <4>5. ASSUME NEW d \in Clients, d # c PROVE Performed(d)' = Performed(d)
        <5>1. posted'[d] = posted[d] /\ issued'[d] = issued[d] /\ call'[d] = call[d]
          BY <4>1, <4>2, <4>5, <2>1
        <5> QED BY <5>1 DEF Performed
      <4> QED BY <4>4, <4>5
    <3> QED BY <2>2, <3>2, <3>3
  <2> DEFINE p == <<c, Performed(c) + 1>>
  <2>4. Performed(c) \in Nat /\ \A d \in Clients : Performed(d) \in Nat
    BY <2>1 DEF CountInv
  <2>5. Acts' = Acts \cup {p} /\ p \notin Acts
    <3>1. p \notin Acts
      BY <2>4 DEF Acts
    <3>2. ASSUME NEW x PROVE x \in Acts' <=> x \in Acts \/ x = p
      <4>1. x \in Acts' <=> \E d \in Clients : x \in {d} \X (1 .. Performed(d)')
        BY DEF Acts
      <4>2. x \in Acts <=> \E d \in Clients : x \in {d} \X (1 .. Performed(d))
        BY DEF Acts
      <4>3. \A d \in Clients : d # c => {d} \X (1 .. Performed(d)') = {d} \X (1 .. Performed(d))
        BY <2>3
      <4>4. x \in {c} \X (1 .. Performed(c)') <=> x \in {c} \X (1 .. Performed(c)) \/ x = p
        <5>1. \A i : i \in 1 .. (Performed(c) + 1) <=> i \in 1 .. Performed(c) \/ i = Performed(c) + 1
          BY <2>4
        <5> QED BY <5>1, <2>3
      <4>5. ASSUME NEW d \in Clients
            PROVE  x \in {d} \X (1 .. Performed(d)')
                     <=> x \in {d} \X (1 .. Performed(d)) \/ (d = c /\ x = p)
        <5>1. CASE d = c
          BY <5>1, <4>4
        <5>2. CASE d # c
          BY <5>2, <4>3
        <5> QED BY <5>1, <5>2
      <4> HIDE DEF p
      <4> QED BY <4>1, <4>2, <4>5, <2>1
    <3> QED BY <3>1, <3>2
  <2>6. IsFiniteSet(Acts) /\ n \in Nat
    BY ActsFinite DEF CountsOnly
  <2> HIDE DEF p
  <2>7. Cardinality(Acts') = n + 1
    BY <2>5, <2>6, FS_AddElement
  <2>8. (IF k \in DOMAIN tbl_store THEN tbl_store[k] ELSE 0) = n
    <3>1. CASE k \in DOMAIN tbl_store
      BY <3>1 DEF CountInv, NoLostUpdate
    <3>2. CASE k \notin DOMAIN tbl_store
      <4>1. DOMAIN tbl_store = {}
        BY <3>2, <1>1 DEF Counter
      <4>2. Acts = {}
        BY <4>1 DEF CountInv, NoLostUpdate
      <4> QED BY <4>2, <3>2, FS_EmptySet
    <3> QED BY <3>1, <3>2
  <2> HIDE DEF n
  <2>9. NoLostUpdate'
    <3>1. tbl_store'[k] = Cardinality(Acts') /\ DOMAIN tbl_store' = {k} /\ Acts' # {}
      BY <2>2, <2>5, <2>7, <2>8
    <3> QED BY <3>1 DEF NoLostUpdate
  <2>10. ASSUME NEW d \in Clients PROVE Performed(d)' \in Nat
    <3>1. CASE d = c
      BY <3>1, <2>3, <2>4
    <3>2. CASE d # c
      BY <3>2, <2>3, <2>4
    <3> QED BY <3>1, <3>2
  <2> QED BY <2>1, <2>9, <2>10, <1>1 DEF CountInv
<1>5. ASSUME NEW t \in Threads, HandleRead(t) \/ HandleRegister(t) PROVE FALSE
  BY <1>1, <1>5 DEF HandleRead, HandleRegister, InMenu, ReadOps, RegisterOps, WriteOps, UpdateOps
<1>6. ASSUME NEW t \in Threads, NEW c \in Clients, Recv(t, c) PROVE CountInv'
  BY <1>2, <1>6 DEF Recv, clientVars
<1>7. ASSUME NEW t \in Threads, SkipUnlocked(t) \/ Lock(t) \/ ReadForWrite(t) \/ Unlock(t) \/ Die(t)
      PROVE  CountInv'
  BY <1>2, <1>7 DEF SkipUnlocked, Lock, ReadForWrite, Unlock, Die, clientVars, serverVars
<1>8. CASE UNCHANGED vars
  BY <1>2, <1>8 DEF vars, serverVars, clientVars
<1> QED BY <1>3, <1>4, <1>5, <1>6, <1>7, <1>8 DEF Next, ThreadStep

\* No update is lost or applied twice by the two threads that update a key
\* (kv_update of update and bupdate): when every request of any number of clients
\* adds 1, the stored value is the number of requests performed.
THEOREM CountsAreExact ==
  ASSUME NEW CONSTANT k, CountsOnly(k)
  PROVE  Safety => []NoLostUpdate
<1>1. Init => TicketInv(k) /\ CountInv
  <2> SUFFICES ASSUME Init PROVE TicketInv(k) /\ CountInv OBVIOUS
  <2>1. ASSUME NEW c \in Clients PROVE Performed(c) = 0
    <3>1. issued[c] = 0 /\ posted[c] = <<>> /\ call[c].st = "idle"
      BY DEF Init
    <3>2. Len(posted[c]) = 0 /\ issued[c] = 0 /\ call[c].st # "sent"
      BY <3>1
    <3>3. Performed(c) = issued[c] - Len(posted[c]) - 0
      BY <3>2 DEF Performed
    <3> QED BY <3>2, <3>3
  <2>2. Acts = {}
    BY <2>1 DEF Acts
  <2>3. DOMAIN tbl_store = {} /\ issued \in [Clients -> 0 .. MaxOps]
    BY OpsAssumption DEF Init
  <2>4. CountInv
    BY <2>1, <2>2, <2>3 DEF CountInv, NoLostUpdate
  <2> QED BY <2>4, TicketInit DEF CountsOnly
<1>2. Inv /\ TicketInv(k) /\ CountInv /\ [Next]_vars => TicketInv(k)' /\ CountInv'
  BY TicketStep, CountStep DEF CountsOnly
<1>3. CountInv => NoLostUpdate
  BY DEF CountInv
<1> QED BY <1>1, <1>2, <1>3, Invariance, PTL DEF Safety
=============================================================================
