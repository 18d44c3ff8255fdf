-------------------------------- MODULE SafeKV --------------------------------
(***************************************************************************)
(* What a paracel server promises its clients, without threads or locks:   *)
(* every write request takes effect at one instant between its call and    *)
(* its answer, asynchronous updates of one client take effect in the order *)
(* they were sent, and a read is "safe": it returns the store's contents   *)
(* unless a write of another client is pending, in which case nothing is   *)
(* promised about it, not even that the server survives it.                *)
(***************************************************************************)
EXTENDS KVOps

CONSTANTS Clients,   \* the workers
          Menu       \* the requests they may issue

VARIABLES store,     \* the parameters
          kept,      \* kept[p]: the function port p keeps between requests
          kept_rm,   \* the filter port 0 keeps for remove_special
          call,      \* call[c]: the blocking request of client c
          posted,    \* posted[c]: its asynchronous requests, oldest first
          alive      \* the server process has not terminated

vars == <<store, kept, kept_rm, call, posted, alive>>

Init ==
  /\ store = <<>>
  /\ kept = [p \in 0 .. 3 |-> NoFunc] /\ kept_rm = NoFunc
  /\ \E r \in Menu :
       call = [c \in Clients |-> [st |-> "idle", r |-> r, ans |-> NoKey]]
  /\ posted = [c \in Clients |-> <<>>]
  /\ alive = TRUE

Send(c, r) ==
  /\ call[c].st # "sent"
  /\ IF r.op \in AsyncOps
     THEN posted' = [posted EXCEPT ![c] = Append(@, r)] /\ UNCHANGED call
     ELSE /\ call' = [call EXCEPT ![c] = [st |-> "sent", r |-> r, ans |-> NoKey]]
          /\ UNCHANGED posted
  /\ UNCHANGED <<store, kept, kept_rm, alive>>

Done(c, a) ==
  call' = [call EXCEPT ![c] = [st |-> "done", r |-> call[c].r, ans |-> a]]

\* Some write that could overlap a read of client c.
WritePending(c) ==
  \/ \E d \in Clients \ {c} : call[d].st = "sent" /\ call[d].r.op \in WriteOps
  \/ \E d \in Clients : posted[d] # <<>> /\ Head(posted[d]).op \in WriteOps

\* The function that a write request uses.
Func(r) == InForce(r, IF r.op = "remove_special" THEN kept_rm ELSE kept[Port(r.op)])

\* A request at which the server terminates: an exception nobody catches, or a
\* function that cannot be loaded.
Fatal(r) ==
  \/ r.op \in ReadOps /\ ReadThrows(store, r, InForce(r, kept[0]))
  \/ r.op \in RegisterOps /\ LoadFails(r, r.f)
  \/ r.op \in WriteOps /\ WriteThrows(store, r, Func(r))

Read(c) ==
  LET r == call[c].r
      f == InForce(r, kept[0])
  IN /\ alive /\ call[c].st = "sent" /\ r.op \in ReadOps
     /\ \/ ~ReadThrows(store, r, f) /\ Done(c, ReadAnswer(store, r, f))
        \/ WritePending(c) /\ ~LoadFails(r, f) /\ Done(c, call'[c].ans)
     /\ kept' = IF r.op = "pullall_special" THEN [kept EXCEPT ![0] = f] ELSE kept
     /\ UNCHANGED <<store, kept_rm, posted, alive>>

Register(c) ==
  LET r == call[c].r
  IN /\ alive /\ call[c].st = "sent" /\ r.op \in RegisterOps /\ ~Fatal(r)
     /\ Done(c, Answer(TRUE, <<>>))
     /\ IF r.op = "register_remove_special"
        THEN kept_rm' = r.f /\ UNCHANGED kept
        ELSE kept' = [kept EXCEPT ![Port(r.op)] = r.f] /\ UNCHANGED kept_rm
     /\ UNCHANGED <<store, posted, alive>>

\* The effect of a write request r on the store and on the kept functions.
Effect(r, f) ==
  /\ store' = Perform(store, Plan(store, r, f))
  /\ kept' = IF r.op \in UpdateOps THEN [kept EXCEPT ![Port(r.op)] = f] ELSE kept
  /\ kept_rm' = IF r.op = "remove_special" THEN f ELSE kept_rm

Write(c) ==
  LET r == call[c].r
      f == Func(r)
  IN /\ alive /\ call[c].st = "sent" /\ r.op \in WriteOps
     /\ ~Fatal(r)
     /\ Effect(r, f)
     /\ Done(c, WriteAnswer(store, r, f))
     /\ UNCHANGED <<posted, alive>>

\* The oldest asynchronous request of client c.
Deliver(c) ==
  LET r == Head(posted[c])
  IN /\ alive /\ posted[c] # <<>> /\ ~Fatal(r)
     /\ IF r.op = "register_update"
        THEN kept' = [kept EXCEPT ![2] = r.f] /\ UNCHANGED <<store, kept_rm>>
        ELSE Effect(r, Func(r))
     /\ posted' = [posted EXCEPT ![c] = Tail(@)]
     /\ UNCHANGED <<call, alive>>

\* The server terminates, also at a read that races.
Terminate(c) ==
  /\ alive
  /\ \/ call[c].st = "sent" /\ Fatal(call[c].r)
     \/ call[c].st = "sent" /\ call[c].r.op \in ReadOps /\ WritePending(c)
     \/ posted[c] # <<>> /\ Fatal(Head(posted[c]))
  /\ alive' = FALSE
  /\ UNCHANGED <<store, kept, kept_rm, call, posted>>

Next ==
  \E c \in Clients :
    \/ \E r \in Menu : Send(c, r)
    \/ Read(c) \/ Register(c) \/ Write(c) \/ Deliver(c) \/ Terminate(c)

Spec == Init /\ [][Next]_vars
=============================================================================
