----------------------------- MODULE ParamServer -----------------------------
(***************************************************************************)
(* One parameter server process (include/server.hpp) and its clients       *)
(* (include/client.hpp).  Four threads run thrd_exec, one per port, on the *)
(* shared table tbl_store.  A thread receives a request, handles reads and *)
(* registrations WITHOUT the mutex, then takes the global mutex for the    *)
(* writes, reading and writing the table in separate steps.                *)
(*                                                                         *)
(* A client is a worker's kvclt: it waits for the answer of a blocking     *)
(* request (REQ/REP), and streams asynchronous ones to port 2 (PUSH/PULL,  *)
(* FIFO per client, no answer).                                            *)
(***************************************************************************)
EXTENDS KVOps, FiniteSets

CONSTANTS Clients,     \* the workers
          Menu,        \* the requests they may issue
          MaxOps,      \* bound on the number of requests of a client
          Garbage      \* a torn value, from reading during a write

ASSUME MenuAssumption == Menu \subseteq Request /\ Menu # {} /\ Clients # {}
ASSUME OpsAssumption  == MaxOps \in Nat

Threads == 0 .. 3
Free    == 4           \* no thread holds the mutex

VARIABLES
  tbl_store,    \* the shared table
  mutex,        \* the thread holding paracel::mutex, or Free
  kept_f,       \* per thread: update_f (threads 2, 3), pullall_special_f (0)
  remove_f,     \* remove_special_f (thread 0)
  at,           \* where each thread is
  client,       \* the client of the request each thread is working on
  req,          \* that request
  plan,         \* what it will write, computed from the values it has read
  call,         \* the blocking request of each client
  posted,       \* the asynchronous requests of each client, oldest first
  issued,       \* number of requests each client has made
  got,          \* the values each client's bupdates returned, in order
  alive         \* the process has not terminated

serverVars == <<tbl_store, mutex, kept_f, remove_f, at, client, req, plan>>
clientVars == <<call, posted, issued, got>>
vars       == <<serverVars, clientVars, alive>>

NoPlan  == [sets |-> <<>>, erases |-> {}, ans |-> NoKey]
AnyReq  == CHOOSE r \in Menu : TRUE
AnyCli  == CHOOSE c \in Clients : TRUE

Init ==
  /\ tbl_store = <<>>
  /\ mutex = Free
  /\ kept_f = [t \in Threads |-> NoFunc] /\ remove_f = NoFunc
  /\ at = [t \in Threads |-> "recv"]
  /\ client = [t \in Threads |-> AnyCli]
  /\ req = [t \in Threads |-> AnyReq]
  /\ plan = [t \in Threads |-> NoPlan]
  /\ call = [c \in Clients |-> [st |-> "idle", r |-> AnyReq, ans |-> NoKey]]
  /\ posted = [c \in Clients |-> <<>>]
  /\ issued = [c \in Clients |-> 0]
  /\ got = [c \in Clients |-> <<>>]
  /\ alive = TRUE

-----------------------------------------------------------------------------
(***************************************************************************)
(* Clients.                                                                *)
(***************************************************************************)

\* req_send_recv* blocks until the answer; push_send returns at once.
ClientSend(c, r) ==
  /\ call[c].st # "sent" /\ issued[c] < MaxOps
  /\ issued' = [issued EXCEPT ![c] = @ + 1]
  /\ IF r.op \in AsyncOps
     THEN posted' = [posted EXCEPT ![c] = Append(@, r)] /\ UNCHANGED call
     ELSE /\ call' = [call EXCEPT ![c] = [st |-> "sent", r |-> r, ans |-> NoKey]]
          /\ UNCHANGED posted
  /\ UNCHANGED <<serverVars, got, alive>>

-----------------------------------------------------------------------------
(***************************************************************************)
(* Server threads.                                                         *)
(***************************************************************************)
Goto(t, label) == at' = [at EXCEPT ![t] = label]

ReplyTo(c, a) ==
  call' = [call EXCEPT ![c] = [st |-> "done", r |-> call[c].r, ans |-> a]]

\* Mutant: the thread of port 2 is never started.
RecvNoAsync(t, c) ==
  /\ alive /\ at[t] = "recv" /\ t # 2
  /\ call[c].st = "sent" /\ Port(call[c].r.op) = t
  /\ req' = [req EXCEPT ![t] = call[c].r]
  /\ client' = [client EXCEPT ![t] = c]
  /\ Goto(t, "unlocked")
  /\ UNCHANGED <<tbl_store, mutex, kept_f, remove_f, plan, clientVars, alive>>

\* sock.recv.  The request of a client stays where it is until the thread is
\* through with it; every port has one thread, so nobody else takes it.
Recv(t, c) ==
  /\ alive /\ at[t] = "recv"
  /\ IF t = 2 THEN posted[c] # <<>>
              ELSE call[c].st = "sent" /\ Port(call[c].r.op) = t
  /\ req' = [req EXCEPT ![t] = IF t = 2 THEN Head(posted[c]) ELSE call[c].r]
  /\ client' = [client EXCEPT ![t] = c]
  /\ Goto(t, "unlocked")
  /\ UNCHANGED <<tbl_store, mutex, kept_f, remove_f, plan, clientVars, alive>>

\* Another thread is changing the table at this moment.
Racing(t) == \E u \in Threads \ {t} : at[u] = "write"

\* What a read that races with a write may return: the table before or after
\* the write, nothing, or a torn value.
RaceAnswers(t) ==
  LET r == req[t]
      f == InForce(r, kept_f[0])
  IN {ReadAnswer(tbl_store, r, f), NoKey, Answer(TRUE, [k \in r.keys |-> Garbage])}
       \cup {ReadAnswer(Perform(tbl_store, plan[u]), r, f) :
               u \in {v \in Threads : at[v] = "write"}}

\* contains, pull, pull_multi, pullall, pullall_special: no lock is held.
HandleRead(t) ==
  LET r == req[t]
      f == InForce(r, kept_f[0])
  IN /\ alive /\ at[t] = "unlocked" /\ r.op \in ReadOps
     /\ kept_f' = IF r.op = "pullall_special" THEN [kept_f EXCEPT ![0] = f]
                                              ELSE kept_f
     /\ \/ /\ ~Racing(t) /\ ~ReadThrows(tbl_store, r, f)
           /\ ReplyTo(client[t], ReadAnswer(tbl_store, r, f))
        \/ /\ Racing(t) /\ ~LoadFails(r, f)
           /\ \E a \in RaceAnswers(t) : ReplyTo(client[t], a)
     /\ Goto(t, "lock")
     /\ UNCHANGED <<tbl_store, mutex, remove_f, client, req, plan, posted,
                    issued, got, alive>>

\* Mutant: both filters of thread 0 are kept in the same variable.
HandleRegisterShared(t) ==
  LET r == req[t]
      c == client[t]
  IN /\ alive /\ at[t] = "unlocked" /\ r.op \in RegisterOps /\ ~LoadFails(r, r.f)
     /\ kept_f' = [kept_f EXCEPT ![t] = r.f]
     /\ IF t = 2
        THEN posted' = [posted EXCEPT ![c] = Tail(@)] /\ UNCHANGED call
        ELSE ReplyTo(c, Answer(TRUE, <<>>)) /\ UNCHANGED posted
     /\ Goto(t, "lock")
     /\ UNCHANGED <<tbl_store, mutex, remove_f, client, req, plan, issued, got,
                    alive>>

\* register_*: keep the function in the thread; register_update has no reply.
HandleRegister(t) ==
  LET r == req[t]
      c == client[t]
  IN /\ alive /\ at[t] = "unlocked" /\ r.op \in RegisterOps /\ ~LoadFails(r, r.f)
     /\ IF r.op = "register_remove_special"
        THEN remove_f' = r.f /\ UNCHANGED kept_f
        ELSE kept_f' = [kept_f EXCEPT ![t] = r.f] /\ UNCHANGED remove_f
     /\ IF t = 2
        THEN posted' = [posted EXCEPT ![c] = Tail(@)] /\ UNCHANGED call
        ELSE ReplyTo(c, Answer(TRUE, <<>>)) /\ UNCHANGED posted
     /\ Goto(t, "lock")
     /\ UNCHANGED <<tbl_store, mutex, client, req, plan, issued, got, alive>>

\* None of the unlocked branches applies to a write.
SkipUnlocked(t) ==
  /\ alive /\ at[t] = "unlocked" /\ req[t].op \in WriteOps
  /\ Goto(t, "lock")
  /\ UNCHANGED <<tbl_store, mutex, kept_f, remove_f, client, req, plan,
                 clientVars, alive>>

\* Mutant: the locked branches run without the mutex.
LockNoWait(t) ==
  /\ alive /\ at[t] = "lock"
  /\ mutex' = t
  /\ Goto(t, "locked")
  /\ UNCHANGED <<tbl_store, kept_f, remove_f, client, req, plan, clientVars,
                 alive>>

\* mutex.lock(), which every request reaches.
Lock(t) ==
  /\ alive /\ at[t] = "lock" /\ mutex = Free
  /\ mutex' = t
  /\ Goto(t, "locked")
  /\ UNCHANGED <<tbl_store, kept_f, remove_f, client, req, plan, clientVars,
                 alive>>

\* The function in force for the write request of thread t.
WriteFunc(t) ==
  InForce(req[t], IF req[t].op = "remove_special" THEN remove_f ELSE kept_f[t])

\* The first half of a locked branch: read the table and compute what to write.
ReadForWrite(t) ==
  /\ alive /\ at[t] = "locked" /\ req[t].op \in WriteOps
  /\ ~WriteThrows(tbl_store, req[t], WriteFunc(t))
  /\ plan' = [plan EXCEPT ![t] = Plan(tbl_store, req[t], WriteFunc(t))]
  /\ Goto(t, "write")
  /\ UNCHANGED <<tbl_store, mutex, kept_f, remove_f, client, req, clientVars,
                 alive>>

\* The second half: change the table, keep the function, answer, unlock.
PerformWrite(t) ==
  LET r == req[t]
      c == client[t]
  IN /\ alive /\ at[t] = "write"
     /\ tbl_store' = Perform(tbl_store, plan[t])
     /\ kept_f' = IF r.op \in UpdateOps
                  THEN [kept_f EXCEPT ![t] = WriteFunc(t)] ELSE kept_f
     /\ remove_f' = IF r.op = "remove_special" THEN WriteFunc(t) ELSE remove_f
     /\ IF t = 2
        THEN posted' = [posted EXCEPT ![c] = Tail(@)] /\ UNCHANGED <<call, got>>
        ELSE /\ ReplyTo(c, plan[t].ans)
             /\ got' = IF r.op = "bupdate"
                       THEN [got EXCEPT ![c] = Append(@, plan[t].ans.vals)]
                       ELSE got
             /\ UNCHANGED posted
     /\ mutex' = Free
     /\ Goto(t, "recv")
     /\ UNCHANGED <<client, req, plan, issued, alive>>

\* Reads and registrations find nothing to do under the mutex.
Unlock(t) ==
  /\ alive /\ at[t] = "locked" /\ req[t].op \notin WriteOps
  /\ mutex' = Free
  /\ Goto(t, "recv")
  /\ UNCHANGED <<tbl_store, kept_f, remove_f, client, req, plan, clientVars,
                 alive>>

\* An exception that nobody catches, a function that cannot be loaded, or a race
\* terminates the process.
Die(t) ==
  /\ alive
  /\ \/ /\ at[t] = "unlocked" /\ req[t].op \in ReadOps
        /\ \/ Racing(t)
           \/ ReadThrows(tbl_store, req[t], InForce(req[t], kept_f[0]))
     \/ /\ at[t] = "unlocked" /\ req[t].op \in RegisterOps
        /\ LoadFails(req[t], req[t].f)
     \/ /\ at[t] = "locked" /\ req[t].op \in WriteOps
        /\ WriteThrows(tbl_store, req[t], WriteFunc(t))
  /\ alive' = FALSE
  /\ UNCHANGED <<serverVars, clientVars>>

-----------------------------------------------------------------------------
ThreadStep(t) ==
  \/ \E c \in Clients : Recv(t, c)
  \/ HandleRead(t) \/ HandleRegister(t) \/ SkipUnlocked(t)
  \/ Lock(t) \/ ReadForWrite(t) \/ PerformWrite(t) \/ Unlock(t)

Next ==
  \/ \E c \in Clients, r \in Menu : ClientSend(c, r)
  \/ \E t \in Threads : ThreadStep(t) \/ Die(t)

Safety == Init /\ [][Next]_vars

\* The threads run.  A thread keeps competing for the mutex, which the others
\* release again; with finitely many requests it gets it.
Spec == Safety /\ \A t \in Threads : WF_vars(ThreadStep(t))

-----------------------------------------------------------------------------
(***************************************************************************)
(* Properties.                                                             *)
(***************************************************************************)
TypeOK ==
  /\ DOMAIN tbl_store \subseteq Keys
  /\ mutex \in Threads \cup {Free}
  /\ kept_f \in [Threads -> Funcs \cup {NoFunc}]
  /\ remove_f \in Funcs \cup {NoFunc}
  /\ at \in [Threads -> {"recv", "unlocked", "lock", "locked", "write"}]
  /\ client \in [Threads -> Clients]
  /\ req \in [Threads -> Request]
  /\ \A c \in Clients : /\ call[c].st \in {"idle", "sent", "done"}
                        /\ call[c].r \in Request
  /\ posted \in [Clients -> Seq(Request)]
  /\ issued \in [Clients -> 0 .. MaxOps]
  /\ alive \in BOOLEAN

\* The server behaves like a store on which every write takes effect at one
\* instant, and which is safe for readers.
Abstract == INSTANCE SafeKV WITH
  store <- tbl_store, kept <- kept_f, kept_rm <- remove_f

Refinement == Abstract!Spec

\* What a thread has read under the mutex is still what the table holds when it
\* writes: get and set of kv_update are one atomic step for the other writers.
PlanIsCurrent ==
  \A t \in Threads :
    at[t] = "write" => plan[t] = Plan(tbl_store, req[t], WriteFunc(t))

\* bupdate is a fetch-and-add: no two bupdates ever return the same count.
TicketsUnique ==
  \A c, d \in Clients : \A i \in DOMAIN got[c], j \in DOMAIN got[d] :
    got[c][i] = got[d][j] => c = d /\ i = j

\* How many requests of client c the server has finished, and a pair for each.
Performed(c) ==
  issued[c] - Len(posted[c]) - (IF call[c].st = "sent" THEN 1 ELSE 0)

Acts == UNION {{c} \X (1 .. Performed(c)) : c \in Clients}

\* No update is lost or applied twice, however threads 2 and 3 interleave on the
\* same key: when every request adds 1 to one key, the stored value is exactly the
\* number of requests performed.
NoLostUpdate ==
  /\ DOMAIN tbl_store = {} <=> Acts = {}
  /\ \A k \in DOMAIN tbl_store : tbl_store[k] = Cardinality(Acts)

\* Every blocking request is answered, and every asynchronous one performed,
\* unless the process terminates.
EveryRequestServed ==
  \A c \in Clients :
    (call[c].st = "sent" \/ posted[c] # <<>>)
      ~> (call[c].st # "sent" /\ posted[c] = <<>>) \/ ~alive
=============================================================================
