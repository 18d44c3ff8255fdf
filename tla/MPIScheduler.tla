---------------------------- MODULE MPIScheduler ----------------------------
(***************************************************************************)
(* The launcher of an MPI job on Mesos: class MPIScheduler of              *)
(* mesos_scheduler.py, the executor that runs on each host                 *)
(* (mesos_executor.py), and between them Mesos, which brings offers and    *)
(* status updates, and a publisher whose messages may be missed.           *)
(*                                                                         *)
(* The scheduler takes one offer of a host after the other until the       *)
(* job's processes have a slot each, waits until the executors of all      *)
(* these hosts are running, starts mpirun, which prints a command for each *)
(* host, and publishes the commands; the executors run them.               *)
(*                                                                         *)
(* The callbacks of the scheduler hold one lock and are steps.  Time is    *)
(* left out: what a refused host does for ten minutes, and the calls of    *)
(* reviveOffers that end this, are left to when an offer comes.            *)
(***************************************************************************)
EXTENDS Integers, Sequences, FiniteSets

CONSTANTS Host,
          Slots(_),     \* the slots that a host offers
          Tasks,        \* options.tasks
          Repeats,      \* bound: how often a message is published (10 in the code)
          MaxFaults     \* bound: losses, failures and timeouts too early

ASSUME HostAssumption == IsFiniteSet(Host) /\ \A h \in Host : Slots(h) \in Nat \ {0}
ASSUME TasksAssumption == Tasks \in Nat \ {0}

VARIABLES used_hosts,      \* the slots in use, by host
          task_launched,   \* task_launched with used_tasks: host and state, by task
          started,
          stopped,
          status,
          over,            \* the main loop has left
          executor,        \* executor[t]: what the executor of task t does
          host,            \* host[t]: where
          updates,         \* updates[t]: the status updates on their way
          published,       \* the messages that are being published: the hosts that they
                           \* have a command for, and how often they will be sent
          faults

sched == <<used_hosts, task_launched, started, stopped, status, over>>
vars == <<sched, executor, host, updates, published, faults>>

Empty == [x \in {} |-> 0]
Without(f, x) == [y \in DOMAIN f \ {x} |-> f[y]]
With(f, x, v) == [y \in DOMAIN f \cup {x} |-> IF y = x THEN v ELSE f[y]]

\* The sum of the numbers of f, as the number of their units.
Units(f) == UNION {{x} \X (1..f[x]) : x \in DOMAIN f}
Sum(f) == Cardinality(Units(f))

Task == DOMAIN executor

\* Numbers of tasks are used again when nothing is left of a task.
NewTask == CHOOSE t \in 0..Cardinality(Task) : t \notin Task
Fault == faults < MaxFaults /\ faults' = faults + 1

Init ==
  /\ used_hosts = Empty
  /\ task_launched = Empty
  /\ started = FALSE /\ stopped = FALSE /\ over = FALSE
  /\ status = 0
  /\ executor = Empty
  /\ host = Empty
  /\ updates = Empty
  /\ published = {}
  /\ faults = 0

(***************************************************************************)
(* The scheduler.                                                          *)
(***************************************************************************)
start_task(h) ==
  LET t == NewTask IN
  /\ task_launched' = With(task_launched, t, [host |-> h, state |-> "launched"])
  /\ executor' = With(executor, t, "launched")
  /\ host' = With(host, t, h)
  /\ updates' = With(updates, t, <<>>)

\* Mutant: a host may be taken twice.
TakesAnyHost(h) == Sum(used_hosts) < Tasks

Takes(h) == Sum(used_hosts) < Tasks /\ h \notin DOMAIN used_hosts

\* An offer of h that is not refused.
resourceOffers(h) ==
  /\ ~over /\ Takes(h)
  /\ LET left  == Tasks - Sum(used_hosts)
         slots == IF Slots(h) <= left THEN Slots(h) ELSE left
     IN  /\ used_hosts' = With(used_hosts, h, slots)
         /\ start_task(h)
  /\ UNCHANGED <<started, stopped, status, over, published, faults>>

\* The first call decides.
stop(st) ==
  /\ stopped' = TRUE
  /\ status' = IF stopped THEN status ELSE st

Ready(launched) ==
  /\ Sum(used_hosts) = Tasks
  /\ \A t \in DOMAIN launched : launched[t].state = "running"

\* mpirun prints a command for each host, or it does not and all are told to
\* give up.
start_mpi ==
  \/ /\ published' = published \cup {<<DOMAIN used_hosts, Repeats>>}
     /\ started' = TRUE
     /\ UNCHANGED faults
  \/ /\ Fault
     /\ published' = published \cup {<<{}, Repeats>>}
     /\ UNCHANGED started

Running(t) ==
  LET launched == [task_launched EXCEPT ![t].state = "running"]
  IN  /\ task_launched' = launched
      /\ IF Ready(launched) THEN start_mpi ELSE UNCHANGED <<started, published, faults>>
      /\ UNCHANGED <<used_hosts, stopped, status>>

\* Mutant: the slots of the host stay in use.
KeepsHost(t) ==
  /\ IF started
     THEN stop(1) /\ UNCHANGED <<task_launched, used_hosts>>
     ELSE task_launched' = Without(task_launched, t) /\ UNCHANGED <<used_hosts, stopped, status>>
  /\ UNCHANGED <<started, published, faults>>

\* Before mpirun has started the host is given up and another is looked for.
LostOrFailed(t) ==
  /\ IF started
     THEN /\ stop(1)
          /\ task_launched' = [task_launched EXCEPT ![t].state = "failed"]
          /\ UNCHANGED used_hosts
     ELSE /\ used_hosts' = Without(used_hosts, task_launched[t].host)
          /\ task_launched' = Without(task_launched, t)
          /\ UNCHANGED <<stopped, status>>
  /\ UNCHANGED <<started, published, faults>>

\* Mutant: the first that has finished ends the job.
FirstFinished(t) ==
  /\ task_launched' = Without(task_launched, t)
  /\ stop(0)
  /\ UNCHANGED <<used_hosts, started, published, faults>>

\* A task that finishes before the start keeps its place and its state.
Finished(t) ==
  /\ IF started
     THEN /\ task_launched' = Without(task_launched, t)
          /\ IF task_launched' = Empty THEN stop(0) ELSE UNCHANGED <<stopped, status>>
     ELSE /\ task_launched' = [task_launched EXCEPT ![t].state = "finished"]
          /\ UNCHANGED <<stopped, status>>
  /\ UNCHANGED <<used_hosts, started, published, faults>>

statusUpdate(t) ==
  /\ ~over /\ updates[t] # <<>>
  /\ IF t \notin DOMAIN task_launched
     THEN UNCHANGED <<used_hosts, task_launched, started, stopped, status, published, faults>>
     ELSE CASE Head(updates[t]) = "TASK_RUNNING" -> Running(t)
            [] Head(updates[t]) \in {"TASK_LOST", "TASK_FAILED"} -> LostOrFailed(t)
            [] Head(updates[t]) = "TASK_FINISHED" -> Finished(t)
  /\ IF executor[t] = "ended" /\ Len(updates[t]) = 1 /\ ~started
     THEN /\ executor' = Without(executor, t)
          /\ host' = Without(host, t)
          /\ updates' = Without(updates, t)
     ELSE updates' = [updates EXCEPT ![t] = Tail(@)] /\ UNCHANGED <<executor, host>>
  /\ UNCHANGED over

\* The timeout of the job; a signal (3) or the keyboard (4) do the same.
Quit ==
  /\ ~stopped
  /\ stop(2)
  /\ UNCHANGED <<used_hosts, task_launched, started, over, executor, host,
                 updates, published, faults>>

\* The main loop sees that the scheduler has stopped and stops the driver.
Leave ==
  /\ stopped /\ ~over
  /\ over' = TRUE
  /\ UNCHANGED <<used_hosts, task_launched, started, stopped, status, executor, host,
                 updates, published, faults>>

(***************************************************************************)
(* The executor of a task (launch_task).                                   *)
(***************************************************************************)
reply_status(t, now, st) ==
  /\ executor' = [executor EXCEPT ![t] = now]
  /\ updates' = [updates EXCEPT ![t] = Append(@, st)]
  /\ UNCHANGED <<sched, host, published>>

Listens(t) == executor[t] \in {"waiting", "late"}

launchTask(t) ==
  /\ executor[t] = "launched"
  /\ reply_status(t, "waiting", "TASK_RUNNING")
  /\ UNCHANGED faults

\* Sixty seconds without a message; before the publisher has come and gone
\* only because others are slow.
PollTimeout(t) ==
  /\ \/ executor[t] = "late" /\ UNCHANGED faults
     \/ executor[t] = "waiting" /\ Fault
  /\ reply_status(t, "ended", "TASK_FAILED")

Exit(t) ==
  /\ executor[t] = "runs"
  /\ \/ reply_status(t, "finished", "TASK_FINISHED") /\ UNCHANGED faults
     \/ reply_status(t, "ended", "TASK_FAILED") /\ Fault

(***************************************************************************)
(* Mesos loses a host.  The publisher sends its message once more: some of *)
(* those that listen hear it, and it has a command for their host or it    *)
(* has not; who has not heard it the last time is late.                    *)
(***************************************************************************)
HostLost(t) ==
  /\ executor[t] \notin {"ended", "finished"}
  /\ reply_status(t, "ended", "TASK_LOST")
  /\ Fault

repeat_pub ==
  \E msg \in published, hear \in SUBSET {t \in Task : Listens(t)} :
    LET gets == {t \in hear : host[t] \in msg[1]}
        last == msg[2] = 1
    IN  /\ published' = (published \ {msg}) \cup (IF last THEN {} ELSE {<<msg[1], msg[2] - 1>>})
        /\ executor' = [t \in Task |->
             IF t \in gets THEN "runs" ELSE IF t \in hear THEN "ended"
             ELSE IF Listens(t) /\ last THEN "late" ELSE executor[t]]
        /\ updates' = [t \in Task |->
             IF t \in hear \ gets THEN Append(updates[t], "TASK_FAILED") ELSE updates[t]]
        /\ UNCHANGED <<sched, host, faults>>

-----------------------------------------------------------------------------
Executor(t) == launchTask(t) \/ PollTimeout(t) \/ Exit(t) \/ HostLost(t)

JobOver == over /\ UNCHANGED vars

Next ==
  \/ \E h \in Host : resourceOffers(h)
  \/ \E t \in Task : statusUpdate(t)
  \/ ~over /\ \E t \in Task : Executor(t)
  \/ ~stopped /\ repeat_pub
  \/ Quit \/ Leave \/ JobOver

(***************************************************************************)
(* Offers come as long as the scheduler revives them, which its main loop  *)
(* does every minute before the start; Mesos delivers every update; an     *)
(* executor goes on, and a publisher ends.                                 *)
(***************************************************************************)
Spec ==
  /\ Init /\ [][Next]_vars
  /\ \A h \in Host : WF_vars(resourceOffers(h))
  /\ WF_vars(\E t \in Task : statusUpdate(t))
  /\ WF_vars(~over /\ \E t \in Task : launchTask(t) \/ PollTimeout(t) \/ Exit(t))
  /\ WF_vars(~stopped /\ repeat_pub)

(***************************************************************************)
(* Before mpirun has started, every host whose slots are counted has       *)
(* exactly one task in the table, and every task of the table has its host *)
(* counted; the slots never exceed the processes of the job, and when      *)
(* mpirun has started they are as many.                                    *)
(***************************************************************************)
HostsMatch ==
  /\ Sum(used_hosts) <= Tasks
  /\ started => Sum(used_hosts) = Tasks
  /\ ~started =>
       /\ DOMAIN used_hosts = {task_launched[t].host : t \in DOMAIN task_launched}
       /\ Cardinality(DOMAIN used_hosts) = Cardinality(DOMAIN task_launched)

(***************************************************************************)
(* The job ends with status 0 only if mpirun was started and the command   *)
(* of every host that it was started on has exited with 0, whatever other  *)
(* tasks were lost or given up before, and whatever comes after the stop.  *)
(***************************************************************************)
StatusTrue ==
  stopped /\ status = 0 =>
    /\ started
    /\ \A h \in DOMAIN used_hosts : \E t \in Task : host[t] = h /\ executor[t] = "finished"

(***************************************************************************)
(* If faults do not go on for ever the job comes to an end by itself: no   *)
(* lost or given-up task leaves the scheduler waiting for an answer that   *)
(* does not come.                                                          *)
(***************************************************************************)
JobStops == <>stopped
=============================================================================
