-------------------------- MODULE MPISchedulerProofs --------------------------
(***************************************************************************)
(* Proofs about MPIScheduler, for every set of hosts and slots, every      *)
(* number of processes and faults, and every order of offers, updates,     *)
(* timeouts and published messages.                                        *)
(***************************************************************************)
EXTENDS MPIScheduler, FiniteSetTheorems, TLAPS

Bad   == {"TASK_LOST", "TASK_FAILED"}
Words == Bad \cup {"TASK_RUNNING", "TASK_FINISHED"}
TableEntry == [host : Host, state : {"launched", "running", "failed", "finished"}]

Typed ==
  /\ DOMAIN used_hosts \subseteq Host
  /\ \A h \in DOMAIN used_hosts : used_hosts[h] \in 1..Tasks
  /\ IsFiniteSet(Task) /\ DOMAIN host = Task /\ DOMAIN updates = Task
  /\ \A t \in Task : host[t] \in Host /\ updates[t] \in Seq(Words)
  /\ DOMAIN task_launched \subseteq Task
  /\ \A t \in DOMAIN task_launched : task_launched[t] \in TableEntry
  /\ started \in BOOLEAN /\ stopped \in BOOLEAN

\* The table of tasks knows where they run.
TableTrue == \A t \in DOMAIN task_launched : task_launched[t].host = host[t]

\* Before the start every host in use has one task of the table, and no other
\* task of the table has it.
OnePerHost ==
  ~started =>
    /\ \A t \in DOMAIN task_launched : host[t] \in DOMAIN used_hosts
    /\ \A h \in DOMAIN used_hosts : \E t \in DOMAIN task_launched : host[t] = h
    /\ \A t, u \in DOMAIN task_launched : host[t] = host[u] => t = u

SlotsFit == Sum(used_hosts) <= Tasks /\ (started => Sum(used_hosts) = Tasks)

\* The last words of an executor that has given up say so, and TASK_FINISHED is
\* only said by one whose command has exited with 0.
LastWords ==
  \A t \in Task :
    /\ executor[t] = "ended" /\ updates[t] # <<>> => updates[t][Len(updates[t])] \in Bad
    /\ \A i \in 1..Len(updates[t]) : updates[t][i] = "TASK_FINISHED" => executor[t] = "finished"

\* After the start a host is done or still has a task in the table.
NoneForgotten ==
  started => \A h \in DOMAIN used_hosts : \E t \in Task :
    host[t] = h /\ (t \in DOMAIN task_launched \/ executor[t] = "finished")

LauncherInv ==
  Typed /\ TableTrue /\ OnePerHost /\ SlotsFit /\ LastWords /\ NoneForgotten /\ StatusTrue

-----------------------------------------------------------------------------
(***************************************************************************)
(* The numbers of slots and of tasks.                                      *)
(***************************************************************************)
SlotTable(f) == DOMAIN f \subseteq Host /\ \A h \in DOMAIN f : f[h] \in 1..Tasks

LEMMA UnitsFinite ==
  ASSUME NEW f, SlotTable(f)
  PROVE  IsFiniteSet(Units(f)) /\ Sum(f) \in Nat
<1>1. IsFiniteSet(Host \X (1..Tasks))
  <2>1. IsFiniteSet(1..Tasks)
    BY TasksAssumption, FS_Interval
  <2> QED BY <2>1, HostAssumption, FS_Product
<1>2. Units(f) \subseteq Host \X (1..Tasks)
  BY TasksAssumption DEF Units, SlotTable
<1> QED BY <1>1, <1>2, FS_Subset, FS_CardinalityType DEF Sum

\* Another host adds its slots.
LEMMA SumWith ==
  ASSUME NEW f, SlotTable(f), NEW h \in Host, h \notin DOMAIN f, NEW n \in 1..Tasks
  PROVE  SlotTable(With(f, h, n)) /\ Sum(With(f, h, n)) = Sum(f) + n
<1>1. SlotTable(With(f, h, n))
  BY DEF With, SlotTable
<1> DEFINE B == {h} \X (1..n)
<1>2. IsFiniteSet(B) /\ Cardinality(B) = n
  <2>1. IsFiniteSet({h}) /\ Cardinality({h}) = 1
    BY FS_Singleton
  <2>2. IsFiniteSet(1..n) /\ Cardinality(1..n) = n
    BY FS_Interval, TasksAssumption
  <2>3. IsFiniteSet(B) /\ Cardinality(B) = Cardinality({h}) * Cardinality(1..n)
    BY <2>1, <2>2, FS_Product
  <2> QED BY <2>1, <2>2, <2>3, TasksAssumption
<1>3. Units(With(f, h, n)) = Units(f) \cup B
  BY DEF Units, With
<1>4. Units(f) \cap B = {}
  BY DEF Units
<1>5. IsFiniteSet(Units(f)) /\ Sum(f) \in Nat
  BY UnitsFinite
<1> HIDE DEF B
<1>6. Cardinality(Units(f) \cup B) = Cardinality(Units(f)) + Cardinality(B) - Cardinality(Units(f) \cap B)
  BY <1>2, <1>5, FS_Union
<1>7. Cardinality({}) = 0
  BY FS_EmptySet
<1>8. Cardinality(Units(f) \cup B) = Sum(f) + n
  <2>1. n \in Nat /\ Cardinality(Units(f) \cap B) = 0
    BY <1>4, <1>7, TasksAssumption
  <2> QED BY <2>1, <1>2, <1>5, <1>6 DEF Sum
<1> QED BY <1>1, <1>3, <1>8 DEF Sum

\* A host that is given up takes its slots away.
LEMMA SumWithout ==
  ASSUME NEW f, SlotTable(f), NEW h
  PROVE  SlotTable(Without(f, h)) /\ Sum(Without(f, h)) <= Sum(f)
<1>1. SlotTable(Without(f, h))
  BY DEF Without, SlotTable
<1>2. Units(Without(f, h)) \subseteq Units(f)
  BY DEF Units, Without
<1>3. IsFiniteSet(Units(f))
  BY UnitsFinite
<1> QED BY <1>1, <1>2, <1>3, FS_Subset DEF Sum

LEMMA EmptySum == SlotTable(Empty) /\ Sum(Empty) = 0
<1>1. Units(Empty) = {}
  BY DEF Units, Empty
<1> QED BY <1>1, FS_EmptySet DEF Sum, SlotTable, Empty

\* There is a number that no task has.
LEMMA NewTaskIsNew ==
  ASSUME IsFiniteSet(Task)
  PROVE  NewTask \notin Task
<1> DEFINE n == Cardinality(Task)
<1>1. n \in Nat
  BY FS_CardinalityType
<1>2. IsFiniteSet(0..n) /\ Cardinality(0..n) = n + 1
  BY <1>1, FS_Interval
<1>3. ~(0..n \subseteq Task)
  <2> SUFFICES ASSUME 0..n \subseteq Task PROVE FALSE OBVIOUS
  <2>1. Cardinality(0..n) <= Cardinality(Task)
    BY FS_Subset
  <2> QED BY <2>1, <1>1, <1>2
<1> QED BY <1>3 DEF NewTask

-----------------------------------------------------------------------------
(***************************************************************************)
(* The scheduler's steps.                                                  *)
(***************************************************************************)
LEMMA TypedSlots == Typed => SlotTable(used_hosts) /\ Sum(used_hosts) \in Nat
BY UnitsFinite DEF Typed, SlotTable

LEMMA LauncherInit == Init => LauncherInv
<1> SUFFICES ASSUME Init PROVE LauncherInv OBVIOUS
<1>1. /\ used_hosts = Empty /\ task_launched = Empty /\ executor = Empty /\ host = Empty
      /\ updates = Empty /\ started = FALSE /\ stopped = FALSE
  BY DEF Init
<1>2. DOMAIN Empty = {}
  BY DEF Empty
<1>3. IsFiniteSet({})
  BY FS_EmptySet
<1>4. Typed
  BY <1>1, <1>2, <1>3 DEF Typed, Task
<1>5. SlotsFit
  BY <1>1, EmptySum, TasksAssumption DEF SlotsFit
<1> QED BY <1>1, <1>2, <1>4, <1>5
      DEF LauncherInv, TableTrue, OnePerHost, LastWords, NoneForgotten, StatusTrue, Task

\* An offer is taken: the host and its new task are in the tables.
LEMMA OfferKeeps ==
  ASSUME LauncherInv, NEW h \in Host, resourceOffers(h)
  PROVE  LauncherInv'
<1> DEFINE t == NewTask
           left == Tasks - Sum(used_hosts)
           slots == IF Slots(h) <= left THEN Slots(h) ELSE left
<1>1. /\ Sum(used_hosts) < Tasks /\ h \notin DOMAIN used_hosts
      /\ used_hosts' = With(used_hosts, h, slots)
      /\ task_launched' = With(task_launched, t, [host |-> h, state |-> "launched"])
      /\ executor' = With(executor, t, "launched")
      /\ host' = With(host, t, h)
      /\ updates' = With(updates, t, <<>>)
      /\ UNCHANGED <<started, stopped, status>>
  BY DEF resourceOffers, Takes, start_task
<1>2. SlotTable(used_hosts) /\ Sum(used_hosts) \in Nat
  BY TypedSlots DEF LauncherInv
<1>3. slots \in 1..Tasks /\ slots <= left
  BY <1>1, <1>2, HostAssumption, TasksAssumption
<1> HIDE DEF slots
<1>4. SlotTable(used_hosts') /\ Sum(used_hosts') = Sum(used_hosts) + slots
  BY <1>1, <1>2, <1>3, SumWith
<1>5. ~started /\ ~started'
  BY <1>1, <1>2, TasksAssumption DEF LauncherInv, SlotsFit, Typed
<1>6. t \notin Task
  BY NewTaskIsNew DEF LauncherInv, Typed
<1> HIDE DEF t
<1>7. /\ Task' = Task \cup {t} /\ executor'[t] = "launched"
      /\ \A u \in Task : executor'[u] = executor[u]
  BY <1>1, <1>6 DEF Task, With
<1>8. /\ DOMAIN host' = Task' /\ host'[t] = h
      /\ \A u \in Task : host'[u] = host[u]
  BY <1>1, <1>6, <1>7 DEF LauncherInv, Typed, With
<1>9. /\ DOMAIN updates' = Task' /\ updates'[t] = <<>>
      /\ \A u \in Task : updates'[u] = updates[u]
  BY <1>1, <1>6, <1>7 DEF LauncherInv, Typed, With
<1>10. /\ DOMAIN task_launched' = DOMAIN task_launched \cup {t} /\ task_launched'[t].host = h
       /\ \A u \in DOMAIN task_launched : u # t /\ u \in Task /\ task_launched'[u] = task_launched[u]
  BY <1>1, <1>6 DEF LauncherInv, Typed, With
<1>11. DOMAIN used_hosts' = DOMAIN used_hosts \cup {h}
  BY <1>1 DEF With
<1>12. Typed'
  <2>1. IsFiniteSet(Task')
    BY <1>7, FS_AddElement DEF LauncherInv, Typed
  <2>2. \A u \in Task' : host'[u] \in Host /\ updates'[u] \in Seq(Words)
    <3>1. <<>> \in Seq(Words)
      OBVIOUS
    <3> QED BY <3>1, <1>7, <1>8, <1>9 DEF LauncherInv, Typed
  <2>3. \A u \in DOMAIN task_launched' : task_launched'[u] \in TableEntry
    <3>1. task_launched'[t] = [host |-> h, state |-> "launched"]
      BY <1>1 DEF With
    <3> QED BY <3>1, <1>10 DEF LauncherInv, Typed, TableEntry
  <2> QED BY <2>1, <2>2, <2>3, <1>1, <1>4, <1>7, <1>8, <1>9, <1>10 DEF LauncherInv, Typed, SlotTable
<1>13. TableTrue'
  BY <1>8, <1>10 DEF LauncherInv, TableTrue
<1>14. OnePerHost'
  BY <1>1, <1>5, <1>8, <1>10, <1>11 DEF LauncherInv, OnePerHost
<1>15. SlotsFit'
  BY <1>2, <1>3, <1>4, <1>5, TasksAssumption DEF SlotsFit
<1>16. LastWords'
  BY <1>7, <1>9 DEF LauncherInv, LastWords
<1>17. NoneForgotten' /\ StatusTrue'
  BY <1>1, <1>5 DEF LauncherInv, NoneForgotten, StatusTrue
<1> QED BY <1>12, <1>13, <1>14, <1>15, <1>16, <1>17 DEF LauncherInv

\* Steps that leave the scheduler's tables alone and let executors go on: no
\* task comes or goes, who has finished stays so, and the words are in order.
LEMMA ExecutorsKeep ==
  ASSUME LauncherInv, UNCHANGED <<used_hosts, task_launched, started, stopped, status, host>>,
         Task' = Task, DOMAIN updates' = Task,
         \A t \in Task : updates'[t] \in Seq(Words),
         \A t \in Task : executor[t] = "finished" => executor'[t] = "finished",
         LastWords'
  PROVE  LauncherInv'
<1>1. Typed'
  BY DEF LauncherInv, Typed
<1>2. TableTrue' /\ OnePerHost' /\ SlotsFit'
  BY DEF LauncherInv, TableTrue, OnePerHost, SlotsFit
<1>3. NoneForgotten' /\ StatusTrue'
  BY DEF LauncherInv, NoneForgotten, StatusTrue
<1> QED BY <1>1, <1>2, <1>3 DEF LauncherInv

\* A word is appended: it is the last one.
LEMMA Appended ==
  ASSUME NEW S, NEW q \in Seq(S), NEW x \in S
  PROVE  /\ Append(q, x) \in Seq(S) /\ Append(q, x) # <<>>
         /\ Len(q) \in Nat /\ Len(Append(q, x)) = Len(q) + 1
         /\ Append(q, x)[Len(q) + 1] = x
         /\ \A i \in 1..Len(q) : Append(q, x)[i] = q[i]
OBVIOUS

\* What an executor does and says in one of its steps.
Says(t, now, st) ==
  /\ executor' = [executor EXCEPT ![t] = now]
  /\ updates' = [updates EXCEPT ![t] = Append(@, st)]
  /\ UNCHANGED <<sched, host>>
  /\ executor[t] \notin {"ended", "finished"}
  /\ now = "ended" => st \in Bad
  /\ st = "TASK_FINISHED" => now = "finished"

LEMMA ExecutorKeeps ==
  ASSUME LauncherInv, NEW t \in Task, Executor(t)
  PROVE  LauncherInv'
<1>1. PICK now \in {"waiting", "ended", "finished"}, st \in Words : Says(t, now, st)
  <2> DEFINE goal == \E now \in {"waiting", "ended", "finished"}, st \in Words : Says(t, now, st)
  <2>1. CASE launchTask(t)
    <3>1. Says(t, "waiting", "TASK_RUNNING")
      BY <2>1 DEF launchTask, reply_status, Says
    <3> QED BY <3>1 DEF Words
  <2>2. ASSUME NEW st \in Bad, reply_status(t, "ended", st), executor[t] \notin {"ended", "finished"}
        PROVE  goal
    <3>1. Says(t, "ended", st)
      BY <2>2 DEF reply_status, Says, Bad
    <3> QED BY <3>1 DEF Words
  <2>3. "TASK_LOST" \in Bad /\ "TASK_FAILED" \in Bad
    BY DEF Bad
  <2>4. CASE PollTimeout(t)
    BY <2>2, <2>3, <2>4 DEF PollTimeout
  <2>5. CASE Exit(t)
    <3>1. CASE reply_status(t, "finished", "TASK_FINISHED")
      <4>1. Says(t, "finished", "TASK_FINISHED")
        BY <2>5, <3>1 DEF Exit, reply_status, Says
      <4> QED BY <4>1 DEF Words
    <3>2. CASE reply_status(t, "ended", "TASK_FAILED")
      BY <2>2, <2>3, <2>5, <3>2 DEF Exit
    <3> QED BY <2>5, <3>1, <3>2 DEF Exit
  <2>6. CASE HostLost(t)
    BY <2>2, <2>3, <2>6 DEF HostLost
  <2> QED BY <2>1, <2>4, <2>5, <2>6 DEF Executor
<1>2. /\ executor' = [executor EXCEPT ![t] = now]
      /\ updates' = [updates EXCEPT ![t] = Append(@, st)]
      /\ UNCHANGED <<used_hosts, task_launched, started, stopped, status, host>>
  BY <1>1 DEF Says, sched
<1>3. /\ Task' = Task /\ executor'[t] = now
      /\ \A u \in Task : u # t => executor'[u] = executor[u]
  BY <1>2 DEF Task
<1>4. /\ DOMAIN updates' = Task /\ updates'[t] = Append(updates[t], st)
      /\ \A u \in Task : u # t => updates'[u] = updates[u]
  BY <1>2 DEF LauncherInv, Typed
<1>5. \A u \in Task : updates[u] \in Seq(Words)
  BY DEF LauncherInv, Typed
<1>6. \A u \in Task : updates'[u] \in Seq(Words)
  BY <1>1, <1>4, <1>5, Appended
<1>7. \A u \in Task : executor[u] = "finished" => executor'[u] = "finished"
  BY <1>1, <1>3 DEF Says
<1>8. LastWords'
  <2>1. ASSUME NEW u \in Task, u # t
        PROVE  /\ executor'[u] = "ended" /\ updates'[u] # <<>> => updates'[u][Len(updates'[u])] \in Bad
               /\ \A i \in 1..Len(updates'[u]) : updates'[u][i] = "TASK_FINISHED" => executor'[u] = "finished"
    BY <2>1, <1>3, <1>4 DEF LauncherInv, LastWords
  <2> DEFINE q == updates[t]
             r == updates'[t]
  <2>2. /\ Len(q) \in Nat /\ Len(r) = Len(q) + 1 /\ r[Len(q) + 1] = st
        /\ \A i \in 1..Len(q) : r[i] = q[i]
    BY <1>1, <1>4, <1>5, Appended
  <2>3. \A i \in 1..Len(q) : q[i] # "TASK_FINISHED"
    BY <1>1 DEF LauncherInv, LastWords, Says
  <2>4. /\ executor'[t] = "ended" => r[Len(r)] \in Bad
        /\ \A i \in 1..Len(r) : r[i] = "TASK_FINISHED" => executor'[t] = "finished"
    <3> HIDE DEF q, r
    <3>1. \A i \in 1..Len(r) : i \in 1..Len(q) \/ i = Len(q) + 1
      BY <2>2
    <3> QED BY <3>1, <2>2, <2>3, <1>1, <1>3 DEF Says
  <2> QED BY <2>1, <2>4, <1>3 DEF LastWords
<1> QED BY <1>2, <1>3, <1>4, <1>6, <1>7, <1>8, ExecutorsKeep

\* A published message reaches some of those that listen.
LEMMA PublishKeeps ==
  ASSUME LauncherInv, repeat_pub
  PROVE  LauncherInv'
<1>1. PICK msg \in published, hear \in SUBSET {t \in Task : Listens(t)} :
        LET gets == {t \in hear : host[t] \in msg[1]}
            last == msg[2] = 1
        IN  /\ executor' = [t \in Task |->
                 IF t \in gets THEN "runs" ELSE IF t \in hear THEN "ended"
                 ELSE IF Listens(t) /\ last THEN "late" ELSE executor[t]]
            /\ updates' = [t \in Task |->
                 IF t \in hear \ gets THEN Append(updates[t], "TASK_FAILED") ELSE updates[t]]
            /\ UNCHANGED <<sched, host, faults>>
  BY DEF repeat_pub
<1> DEFINE gets == {t \in hear : host[t] \in msg[1]}
<1>2. UNCHANGED <<used_hosts, task_launched, started, stopped, status, host>>
  BY <1>1 DEF sched
<1>3. /\ Task' = Task /\ DOMAIN updates' = Task
  BY <1>1 DEF Task
<1>4. ASSUME NEW t \in Task
      PROVE  \/ /\ t \in hear \ gets /\ Listens(t) /\ executor'[t] = "ended"
                /\ updates'[t] = Append(updates[t], "TASK_FAILED")
             \/ /\ t \notin hear \ gets /\ updates'[t] = updates[t]
                /\ \/ Listens(t) /\ executor'[t] \in {"runs", "late"}
                   \/ executor'[t] = executor[t]
  BY <1>1
<1> HIDE DEF gets
<1>5. \A u \in Task : updates[u] \in Seq(Words)
  BY DEF LauncherInv, Typed
<1>6. ASSUME NEW u \in Task PROVE updates'[u] \in Seq(Words)
  <2>1. Append(updates[u], "TASK_FAILED") \in Seq(Words)
    <3>1. "TASK_FAILED" \in Words
      BY DEF Words, Bad
    <3> QED BY <3>1, <1>5, Appended
  <2> QED BY <2>1, <1>4, <1>5
<1>7. \A u \in Task : executor[u] = "finished" => executor'[u] = "finished"
  BY <1>4 DEF Listens
<1>8. LastWords'
  <2> SUFFICES ASSUME NEW t \in Task
               PROVE  /\ executor'[t] = "ended" /\ updates'[t] # <<>> => updates'[t][Len(updates'[t])] \in Bad
                      /\ \A i \in 1..Len(updates'[t]) : updates'[t][i] = "TASK_FINISHED" => executor'[t] = "finished"
    BY <1>3 DEF LastWords
  <2>1. CASE t \in hear \ gets
    <3> DEFINE q == updates[t]
               r == updates'[t]
    <3>1. executor'[t] = "ended" /\ r = Append(q, "TASK_FAILED") /\ q \in Seq(Words) /\ Listens(t)
      BY <2>1, <1>4, <1>5
    <3>2. /\ Len(q) \in Nat /\ Len(r) = Len(q) + 1 /\ r[Len(q) + 1] = "TASK_FAILED"
          /\ \A i \in 1..Len(q) : r[i] = q[i]
      <4>1. "TASK_FAILED" \in Words
        BY DEF Words, Bad
      <4> QED BY <4>1, <3>1, Appended
    <3>3. \A i \in 1..Len(q) : q[i] # "TASK_FINISHED"
      BY <3>1 DEF LauncherInv, LastWords, Listens
    <3> HIDE DEF q, r
    <3>4. \A i \in 1..Len(r) : i \in 1..Len(q) \/ i = Len(q) + 1
      BY <3>2
    <3>5. r[Len(r)] \in Bad /\ \A i \in 1..Len(r) : r[i] # "TASK_FINISHED"
      BY <3>2, <3>3, <3>4 DEF Bad
    <3> QED BY <3>5 DEF r
  <2>2. CASE t \notin hear \ gets
    <3>1. updates'[t] = updates[t] /\ (executor'[t] \in {"runs", "late"} \/ executor'[t] = executor[t])
      BY <2>2, <1>4
    <3>2. executor[t] = "finished" => executor'[t] = "finished"
      BY <1>7
    <3> QED BY <3>1, <3>2 DEF LauncherInv, LastWords
  <2> QED BY <2>1, <2>2
<1> QED BY <1>2, <1>3, <1>6, <1>7, <1>8, ExecutorsKeep
-----------------------------------------------------------------------------
(***************************************************************************)
(* A status update reaches the scheduler.                                  *)
(***************************************************************************)
LEMMA Consumed ==
  ASSUME NEW S, NEW q \in Seq(S), q # <<>>
  PROVE  /\ Len(q) \in Nat \ {0} /\ Head(q) = q[1] /\ Head(q) \in S
         /\ Tail(q) \in Seq(S) /\ Len(Tail(q)) = Len(q) - 1
         /\ \A i \in 1..Len(Tail(q)) : Tail(q)[i] = q[i + 1]
OBVIOUS

\* What becomes of the executors: the task whose last word was heard before the
\* start is forgotten, and that word said that it had given up.
LEMMA UpdateHeard ==
  ASSUME LauncherInv, NEW t \in Task, statusUpdate(t)
  PROVE  /\ \/ Task' = Task
            \/ Task' = Task \ {t} /\ ~started /\ Head(updates[t]) \in Bad
         /\ DOMAIN host' = Task' /\ DOMAIN updates' = Task'
         /\ \A u \in Task' : /\ executor'[u] = executor[u] /\ host'[u] = host[u]
                             /\ updates'[u] \in Seq(Words)
         /\ LastWords'
         /\ Head(updates[t]) \in Words
         /\ Head(updates[t]) = "TASK_FINISHED" => executor[t] = "finished"
<1> DEFINE q == updates[t]
<1>1. q \in Seq(Words) /\ q # <<>>
  BY DEF LauncherInv, Typed, statusUpdate
<1>2. /\ Len(q) \in Nat \ {0} /\ Head(q) = q[1] /\ Head(q) \in Words
      /\ Tail(q) \in Seq(Words) /\ Len(Tail(q)) = Len(q) - 1
      /\ \A i \in 1..Len(Tail(q)) : Tail(q)[i] = q[i + 1]
  BY <1>1, Consumed
<1>3. /\ executor[t] = "ended" => q[Len(q)] \in Bad
      /\ \A i \in 1..Len(q) : q[i] = "TASK_FINISHED" => executor[t] = "finished"
  BY <1>1 DEF LauncherInv, LastWords
<1>4. DOMAIN host = Task /\ DOMAIN updates = Task /\ \A u \in Task : updates[u] \in Seq(Words)
  BY DEF LauncherInv, Typed
<1>5. Head(q) = "TASK_FINISHED" => executor[t] = "finished"
  BY <1>2, <1>3
<1>6. CASE executor[t] = "ended" /\ Len(q) = 1 /\ ~started
  <2>1. /\ executor' = Without(executor, t) /\ host' = Without(host, t) /\ updates' = Without(updates, t)
    BY <1>6 DEF statusUpdate
  <2>2. /\ Task' = Task \ {t} /\ DOMAIN host' = Task' /\ DOMAIN updates' = Task'
        /\ \A u \in Task' : /\ executor'[u] = executor[u] /\ host'[u] = host[u]
                            /\ updates'[u] = updates[u]
    BY <2>1, <1>4 DEF Task, Without
  <2>3. Head(q) \in Bad
    BY <1>2, <1>3, <1>6
  <2>4. LastWords'
    BY <2>2 DEF LauncherInv, LastWords
  <2> QED BY <2>2, <2>3, <2>4, <1>2, <1>4, <1>5, <1>6
<1>7. CASE ~(executor[t] = "ended" /\ Len(q) = 1 /\ ~started)
  <2>1. updates' = [updates EXCEPT ![t] = Tail(@)] /\ UNCHANGED <<executor, host>>
    BY <1>7 DEF statusUpdate
  <2>2. /\ Task' = Task /\ DOMAIN host' = Task' /\ DOMAIN updates' = Task'
        /\ executor' = executor /\ host' = host
        /\ updates'[t] = Tail(q) /\ \A u \in Task : u # t => updates'[u] = updates[u]
    BY <2>1, <1>4 DEF Task
  <2>3. LastWords'
    <3>1. ASSUME NEW u \in Task, u # t
          PROVE  /\ executor[u] = "ended" /\ updates'[u] # <<>> => updates'[u][Len(updates'[u])] \in Bad
                 /\ \A i \in 1..Len(updates'[u]) : updates'[u][i] = "TASK_FINISHED" => executor[u] = "finished"
      BY <3>1, <2>2 DEF LauncherInv, LastWords
    <3> DEFINE r == Tail(q)
    <3>2. /\ executor[t] = "ended" /\ r # <<>> => r[Len(r)] \in Bad
          /\ \A i \in 1..Len(r) : r[i] = "TASK_FINISHED" => executor[t] = "finished"
      <4>1. r # <<>> => Len(r) \in 1..Len(r) /\ Len(r) + 1 = Len(q)
        BY <1>2
      <4>2. \A i \in 1..Len(r) : i + 1 \in 1..Len(q) /\ r[i] = q[i + 1]
        BY <1>2
      <4> HIDE DEF r, q
      <4> QED BY <4>1, <4>2, <1>3
    <3> QED BY <3>1, <3>2, <2>2 DEF LastWords
  <2> QED BY <2>2, <2>3, <1>2, <1>4, <1>5
<1> QED BY <1>6, <1>7

\* The tables keep their entries, but for their states.
LEMMA StateSet ==
  ASSUME Typed, TableTrue, NEW t \in DOMAIN task_launched, NEW st \in {"running", "failed", "finished"},
         task_launched' = [task_launched EXCEPT ![t].state = st]
  PROVE  /\ DOMAIN task_launched' = DOMAIN task_launched
         /\ \A u \in DOMAIN task_launched : task_launched'[u] \in TableEntry /\ task_launched'[u].host = host[u]
<1>1. task_launched[t] \in TableEntry
  BY DEF Typed
<1>2. task_launched'[t] = [task_launched[t] EXCEPT !.state = st]
  OBVIOUS
<1>3. task_launched'[t] \in TableEntry /\ task_launched'[t].host = task_launched[t].host
  BY <1>1, <1>2 DEF TableEntry
<1>4. \A u \in DOMAIN task_launched : u # t => task_launched'[u] = task_launched[u]
  OBVIOUS
<1> QED BY <1>3, <1>4 DEF Typed, TableTrue

\* The scheduler's tables after an update, whatever has become of the executors
\* but for the task of a host that was given up.
LEMMA UpdateKeeps ==
  ASSUME LauncherInv, NEW t \in Task, statusUpdate(t)
  PROVE  LauncherInv'
<1>1. /\ \/ Task' = Task
         \/ Task' = Task \ {t} /\ ~started /\ Head(updates[t]) \in Bad
      /\ DOMAIN host' = Task' /\ DOMAIN updates' = Task'
      /\ \A u \in Task' : /\ executor'[u] = executor[u] /\ host'[u] = host[u]
                          /\ updates'[u] \in Seq(Words)
      /\ LastWords'
      /\ Head(updates[t]) \in Words
      /\ Head(updates[t]) = "TASK_FINISHED" => executor[t] = "finished"
  BY UpdateHeard
<1>2. Task' \subseteq Task /\ IsFiniteSet(Task')
  BY <1>1, FS_Subset DEF LauncherInv, Typed
<1>3. /\ Typed /\ TableTrue /\ OnePerHost /\ SlotsFit /\ NoneForgotten /\ StatusTrue
      /\ DOMAIN task_launched \subseteq Task
  BY DEF LauncherInv, Typed
<1>4. SUFFICES /\ SlotTable(used_hosts') /\ started' \in BOOLEAN /\ stopped' \in BOOLEAN
               /\ DOMAIN task_launched' \subseteq Task'
               /\ \A u \in DOMAIN task_launched' :
                    task_launched'[u] \in TableEntry /\ task_launched'[u].host = host[u]
               /\ OnePerHost' /\ SlotsFit' /\ NoneForgotten' /\ StatusTrue'
  <2>1. Typed'
    BY <1>1, <1>2, <1>3, <1>4 DEF Typed, SlotTable
  <2>2. TableTrue'
    BY <1>1, <1>4 DEF TableTrue
  <2> QED BY <2>1, <2>2, <1>1, <1>4 DEF LauncherInv
<1>5. SlotTable(used_hosts)
  BY <1>3, TypedSlots
<1>6. CASE t \notin DOMAIN task_launched
  <2>1. UNCHANGED <<used_hosts, task_launched, started, stopped, status>>
    BY <1>6 DEF statusUpdate
  <2>2. DOMAIN task_launched' \subseteq Task'
    BY <2>1, <1>1, <1>3, <1>6
  <2>3. \A u \in DOMAIN task_launched' : task_launched'[u] \in TableEntry /\ task_launched'[u].host = host[u]
    BY <2>1, <1>3 DEF Typed, TableTrue
  <2>4. OnePerHost' /\ SlotsFit'
    BY <2>1, <2>2, <1>1, <1>3 DEF OnePerHost, SlotsFit
  <2>5. NoneForgotten' /\ StatusTrue'
    BY <2>1, <2>2, <1>1, <1>3, SMTT(30) DEF NoneForgotten, StatusTrue
  <2> QED BY <2>1, <2>2, <2>3, <2>4, <2>5, <1>3, <1>5 DEF Typed
<1>7. CASE t \in DOMAIN task_launched /\ Head(updates[t]) = "TASK_RUNNING"
  <2>1. Running(t) /\ Task' = Task
    BY <1>7, <1>1 DEF statusUpdate, Bad
  <2>2. /\ task_launched' = [task_launched EXCEPT ![t].state = "running"]
        /\ UNCHANGED <<used_hosts, stopped, status>>
        /\ \/ started' = started
           \/ started' = TRUE /\ Sum(used_hosts) = Tasks
    BY <2>1 DEF Running, start_mpi, Ready
  <2>3. /\ DOMAIN task_launched' = DOMAIN task_launched
        /\ \A u \in DOMAIN task_launched : task_launched'[u] \in TableEntry /\ task_launched'[u].host = host[u]
    BY <2>2, <1>3, <1>7, StateSet
  <2>4. started \in BOOLEAN /\ started' \in BOOLEAN /\ stopped' \in BOOLEAN /\ (started => started')
    BY <2>2, <1>3 DEF Typed
  <2>5. \A u \in Task : host'[u] = host[u] /\ executor'[u] = executor[u]
    BY <2>1, <1>1
  <2>6. OnePerHost' /\ SlotsFit'
    <3>1. SlotsFit'
      BY <2>2, <1>3 DEF SlotsFit
    <3>2. CASE started'
      BY <3>1, <3>2 DEF OnePerHost
    <3>3. CASE ~started'
      BY <3>1, <3>3, <2>2, <2>3, <2>4, <2>5, <1>3 DEF OnePerHost
    <3> QED BY <3>2, <3>3
  <2>7. NoneForgotten'
    <3>1. CASE started
      BY <3>1, <2>1, <2>2, <2>3, <2>4, <2>5, <1>3 DEF NoneForgotten
    <3>2. CASE ~started
      <4>1. \A h \in DOMAIN used_hosts : \E u \in Task : host'[u] = h /\ u \in DOMAIN task_launched'
        BY <3>2, <2>3, <2>5, <1>3 DEF OnePerHost
      <4> QED BY <4>1, <2>1, <2>2 DEF NoneForgotten
    <3> QED BY <3>1, <3>2
  <2>8. StatusTrue'
    BY <2>1, <2>2, <2>4, <1>1, <1>3 DEF StatusTrue
  <2> QED BY <2>1, <2>2, <2>3, <2>4, <2>6, <2>7, <2>8, <1>3, <1>5
<1>8. CASE t \in DOMAIN task_launched /\ Head(updates[t]) \in Bad /\ started
  <2>1. LostOrFailed(t) /\ Task' = Task
    BY <1>8, <1>1 DEF statusUpdate, Bad
  <2>2. /\ task_launched' = [task_launched EXCEPT ![t].state = "failed"]
        /\ UNCHANGED <<used_hosts, started>>
        /\ stopped' = TRUE /\ status' = IF stopped THEN status ELSE 1
    BY <2>1, <1>8 DEF LostOrFailed, stop
  <2>3. /\ DOMAIN task_launched' = DOMAIN task_launched
        /\ \A u \in DOMAIN task_launched : task_launched'[u] \in TableEntry /\ task_launched'[u].host = host[u]
    BY <2>2, <1>3, <1>8, StateSet
  <2>4. OnePerHost' /\ SlotsFit'
    BY <2>2, <1>3, <1>8 DEF OnePerHost, SlotsFit
  <2>5. NoneForgotten'
    BY <2>1, <2>2, <2>3, <1>1, <1>3 DEF NoneForgotten
  <2>6. StatusTrue'
    BY <2>1, <2>2, <1>1, <1>3 DEF StatusTrue
  <2> QED BY <2>1, <2>2, <2>3, <2>4, <2>5, <2>6, <1>3, <1>5, <1>8
<1>9. CASE t \in DOMAIN task_launched /\ Head(updates[t]) \in Bad /\ ~started
  <2>1. LostOrFailed(t)
    BY <1>9 DEF statusUpdate, Bad
  <2>2. /\ used_hosts' = Without(used_hosts, host[t]) /\ task_launched' = Without(task_launched, t)
        /\ UNCHANGED <<started, stopped, status>>
    BY <2>1, <1>3, <1>9 DEF LostOrFailed, TableTrue
  <2>3. /\ DOMAIN task_launched' = DOMAIN task_launched \ {t}
        /\ \A u \in DOMAIN task_launched' : task_launched'[u] = task_launched[u]
        /\ DOMAIN used_hosts' = DOMAIN used_hosts \ {host[t]}
    BY <2>2 DEF Without
  <2>4. SlotTable(used_hosts') /\ Sum(used_hosts') <= Sum(used_hosts)
    BY <2>2, <1>5, SumWithout
  <2>5. /\ Sum(used_hosts) \in Nat /\ Sum(used_hosts') \in Nat
    BY <2>4, <1>5, UnitsFinite
  <2>6. SlotsFit'
    BY <2>2, <2>4, <2>5, <1>3, <1>9, TasksAssumption DEF SlotsFit
  <2>7. DOMAIN task_launched' \subseteq Task' /\ t \notin DOMAIN task_launched'
    BY <2>3, <1>1, <1>3
  <2>8. OnePerHost'
    <3>1. ASSUME NEW u \in DOMAIN task_launched'
          PROVE  host'[u] \in DOMAIN used_hosts' /\ host'[u] = host[u]
      BY <2>3, <2>7, <1>1, <1>3, <1>9 DEF OnePerHost
    <3>2. ASSUME NEW h \in DOMAIN used_hosts'
          PROVE  \E u \in DOMAIN task_launched' : host'[u] = h
      <4>1. PICK u \in DOMAIN task_launched : host[u] = h
        BY <2>3, <1>3, <1>9 DEF OnePerHost
      <4>2. u # t
        BY <4>1, <2>3
      <4> QED BY <4>1, <4>2, <2>3, <3>1
    <3>3. \A u, v \in DOMAIN task_launched' : host'[u] = host'[v] => u = v
      BY <3>1, <2>3, <1>3, <1>9 DEF OnePerHost
    <3> QED BY <3>1, <3>2, <3>3 DEF OnePerHost
  <2>9. NoneForgotten' /\ StatusTrue'
    BY <2>2, <1>3, <1>9 DEF NoneForgotten, StatusTrue
  <2>10. \A u \in DOMAIN task_launched' : task_launched'[u] \in TableEntry /\ task_launched'[u].host = host[u]
    BY <2>3, <1>3 DEF Typed, TableTrue
  <2> QED BY <2>2, <2>4, <2>6, <2>7, <2>8, <2>9, <2>10, <1>3 DEF Typed
<1>10. CASE t \in DOMAIN task_launched /\ Head(updates[t]) = "TASK_FINISHED" /\ started
  <2>1. Finished(t) /\ Task' = Task /\ executor[t] = "finished"
    BY <1>10, <1>1 DEF statusUpdate, Bad
  <2>2. /\ task_launched' = Without(task_launched, t)
        /\ UNCHANGED <<used_hosts, started>>
        /\ \/ task_launched' = Empty /\ stop(0)
           \/ UNCHANGED <<stopped, status>>
    BY <2>1, <1>10 DEF Finished
  <2>3. /\ DOMAIN task_launched' = DOMAIN task_launched \ {t}
        /\ \A u \in DOMAIN task_launched' : task_launched'[u] = task_launched[u]
    BY <2>2 DEF Without
  <2>4. stopped' \in BOOLEAN
    BY <2>2, <1>3 DEF stop, Typed
  <2>5. OnePerHost' /\ SlotsFit'
    BY <2>2, <1>3, <1>10 DEF OnePerHost, SlotsFit
  <2>6. ASSUME NEW h \in DOMAIN used_hosts
        PROVE  \E u \in Task : host[u] = h /\ (u \in DOMAIN task_launched' \/ executor[u] = "finished")
    <3>1. PICK u \in Task : host[u] = h /\ (u \in DOMAIN task_launched \/ executor[u] = "finished")
      BY <1>3, <1>10 DEF NoneForgotten
    <3> QED BY <3>1, <2>1, <2>3
  <2>7. NoneForgotten'
    BY <2>1, <2>2, <2>6, <1>1 DEF NoneForgotten
  <2>8. StatusTrue'
    <3>1. CASE task_launched' = Empty /\ stop(0)
      <4>1. DOMAIN task_launched' = {}
        BY <3>1 DEF Empty
      <4> QED BY <4>1, <2>1, <2>2, <2>6, <1>1, <1>10 DEF StatusTrue
    <3>2. CASE UNCHANGED <<stopped, status>>
      BY <3>2, <2>1, <2>2, <1>1, <1>3 DEF StatusTrue
    <3> QED BY <3>1, <3>2, <2>2
  <2>9. \A u \in DOMAIN task_launched' : task_launched'[u] \in TableEntry /\ task_launched'[u].host = host[u]
    BY <2>3, <1>3 DEF Typed, TableTrue
  <2> QED BY <2>1, <2>2, <2>3, <2>4, <2>5, <2>7, <2>8, <2>9, <1>3, <1>5, <1>10
<1>11. CASE t \in DOMAIN task_launched /\ Head(updates[t]) = "TASK_FINISHED" /\ ~started
  <2>1. Finished(t) /\ Task' = Task
    BY <1>11, <1>1 DEF statusUpdate, Bad
  <2>2. /\ task_launched' = [task_launched EXCEPT ![t].state = "finished"]
        /\ UNCHANGED <<used_hosts, started, stopped, status>>
    BY <2>1, <1>11 DEF Finished
  <2>3. /\ DOMAIN task_launched' = DOMAIN task_launched
        /\ \A u \in DOMAIN task_launched : task_launched'[u] \in TableEntry /\ task_launched'[u].host = host[u]
    BY <2>2, <1>3, <1>11, StateSet
  <2>4. OnePerHost' /\ SlotsFit'
    <3>1. \A u \in DOMAIN task_launched : host'[u] = host[u]
      BY <2>1, <1>1, <1>3
    <3>2. OnePerHost'
      BY <3>1, <2>2, <2>3, <1>3, <1>11 DEF OnePerHost
    <3> QED BY <3>2, <2>2, <1>3 DEF SlotsFit
  <2>5. NoneForgotten' /\ StatusTrue'
    BY <2>2, <1>3, <1>11 DEF NoneForgotten, StatusTrue
  <2> QED BY <2>1, <2>2, <2>3, <2>4, <2>5, <1>3, <1>5 DEF Typed
<1> QED BY <1>1, <1>6, <1>7, <1>8, <1>9, <1>10, <1>11 DEF Words

-----------------------------------------------------------------------------
(***************************************************************************)
(* The invariant of the launcher, and what follows from it.                *)
(***************************************************************************)
LEMMA LauncherStep == LauncherInv /\ [Next]_vars => LauncherInv'
<1> SUFFICES ASSUME LauncherInv, [Next]_vars PROVE LauncherInv' OBVIOUS
<1>1. ASSUME UNCHANGED <<used_hosts, task_launched, started, executor, host, updates>>,
             stopped' \in BOOLEAN, stopped' /\ status' = 0 => stopped /\ status = 0
      PROVE  LauncherInv'
  <2>1. Typed' /\ TableTrue' /\ LastWords'
    BY <1>1 DEF LauncherInv, Typed, TableTrue, LastWords, Task
  <2>2. OnePerHost' /\ SlotsFit' /\ NoneForgotten' /\ StatusTrue'
    BY <1>1 DEF LauncherInv, OnePerHost, SlotsFit, NoneForgotten, StatusTrue, Task
  <2> QED BY <2>1, <2>2 DEF LauncherInv
<1>2. stopped \in BOOLEAN
  BY DEF LauncherInv, Typed
<1>3. CASE UNCHANGED vars
  BY <1>1, <1>2, <1>3 DEF vars, sched
<1>4. CASE Quit
  BY <1>1, <1>4 DEF Quit, stop
<1>5. CASE Leave
  BY <1>1, <1>2, <1>5 DEF Leave
<1> QED BY <1>3, <1>4, <1>5, OfferKeeps, UpdateKeeps, ExecutorKeeps, PublishKeeps DEF Next, JobOver

\* The scheduler's tables, the executors and the words between them fit together
\* in every state (LauncherInv): the invariant that the other theorems rest on.
THEOREM LauncherCorrect == Spec => []LauncherInv
BY LauncherInit, LauncherStep, PTL DEF Spec

\* The table of hosts in use and the table of tasks agree until mpirun has
\* started (resourceOffers, statusUpdate and start_task of the scheduler): a
\* host in use is the host of exactly one task, whatever was lost, and the slots
\* are as many as the processes when mpirun starts.
THEOREM HostsAgree == Spec => []HostsMatch
<1>1. LauncherInv => HostsMatch
  <2> SUFFICES ASSUME LauncherInv PROVE HostsMatch OBVIOUS
  <2>1. SUFFICES ASSUME ~started
                 PROVE  /\ DOMAIN used_hosts = {task_launched[t].host : t \in DOMAIN task_launched}
                        /\ Cardinality(DOMAIN used_hosts) = Cardinality(DOMAIN task_launched)
    BY DEF LauncherInv, SlotsFit, HostsMatch
  <2> DEFINE D == DOMAIN task_launched
             f == [t \in D |-> host[t]]
  <2>2. /\ \A t \in D : host[t] \in DOMAIN used_hosts
        /\ \A h \in DOMAIN used_hosts : \E t \in D : host[t] = h
        /\ \A t, u \in D : host[t] = host[u] => t = u
        /\ \A t \in D : task_launched[t].host = host[t]
    BY <2>1 DEF LauncherInv, OnePerHost, TableTrue
  <2>3. IsFiniteSet(D)
    BY FS_Subset DEF LauncherInv, Typed
  <2>4. f \in Bijection(D, DOMAIN used_hosts)
    BY <2>2 DEF Bijection, Injection, Surjection, IsInjective
  <2>5. Cardinality(DOMAIN used_hosts) = Cardinality(D)
    BY <2>3, <2>4, FS_Bijection DEF ExistsBijection
  <2> QED BY <2>2, <2>5, SMTT(30)
<1> QED BY <1>1, LauncherCorrect, PTL

\* Status 0 tells the truth (stop, and TASK_FINISHED in statusUpdate): mpirun was
\* started and the command of every host of the job has exited with 0, for every
\* order of losses, timeouts, missed messages and late updates.
THEOREM StatusIsTrue == Spec => []StatusTrue
<1>1. LauncherInv => StatusTrue
  BY DEF LauncherInv
<1> QED BY <1>1, LauncherCorrect, PTL
=============================================================================
