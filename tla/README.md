# A TLA+ verification of paracel

Paracel runs iterative machine-learning jobs on two groups of processes: MPI
*workers*, which load the input and compute, and *parameter servers*, which hold
a distributed key-value table.  This directory keeps TLA+ models of the parts
whose correctness depends on several actors or on boundary cases, the TLC runs
that check them on small instances, and TLAPS proofs of the results that matter
most.  Paths below are relative to the repository.

## 1. The system

| part | state | operations | talks to |
|---|---|---|---|
| **SSP clock**: `paralg` (`include/ps.hpp`), `thrd_exec_ssp` (`include/server.hpp`) | worker: `clock`, `stale_cache`, `cached_para`; server 0: `server_clock`, `worker_sz`, `client_clock_<i>` | constructor, `paracel_read`, `paracel_bupdate`, `iter_commit`; `push_int`, `incr_int`, `pull_int` | REQ/REP on the fifth port of server 0; MPI barrier |
| **Parameter server**: `thrd_exec` (`include/server.hpp`), `kvs` (`include/kv.hpp`), `kvclt` (`include/client.hpp`) | `tbl_store`, one global mutex, a loaded function per thread | 17 requests on four ports | REQ/REP, and PUSH/PULL for `update` |
| **Ring** (`include/ring.hpp`, `ring_bsearch` in `include/utils.hpp`) | sorted list of hashes, map from hash to server | `add_server`, `remove_server`, `get_server` | called by `paralg` for every key |
| **Block distribution**: `scheduler::schedule_load` (`src/scheduler.cpp`), `loader::load` | leader: `cnt`, `flag`, `cnt_control`; worker: `cnt`, `flag` | leader loop, worker loop | MPI messages, any source |
| **Partition**: `include/load/partition.hpp`, `structure_load` | `displs`, `slst`, `elst`, stream positions | `files_partition`, `files_load_lines_impl` | files |
| **Line exchange**: `include/load/scheduler.hpp`, `include/load/loader.hpp` | send and receive buffers, index maps | `lines_organize`, `exchange`, `index_mapping`, `create_*` | `alltoall`, `bcastring` |
| **Process grid**: `include/utils/decomp.hpp` | - | `npfact2d`, `npfactx`, `npfacty` | used by the exchange |
| **Communicator**: `include/utils/comm.hpp`, `src/comm.cpp` | requests in flight | `isend`, `recv`, `sendrecv`, `bcastring`, `alltoall`, `alltoallring`, `treereduce` | MPI |
| **Worker API**: the rest of `paralg` | the servers' addresses, the cache | `paracel_read*`, `paracel_write*`, `paracel_bupdate`, `paracel_register_bupdate`, `paracel_sync` | servers chosen by the ring, MPI |
| **Pregel**: `include/pregel/vertex.hpp` | vertex values and activity | supersteps, vote | worker API, barrier, allreduce |
| **Algorithms**: `alg/` | parameters of the model they train | `solve` | worker API |
| **Mesos launcher**: `mesos_scheduler.py`, `mesos_executor.py` | hosts in use, tasks and their states | offers, status updates, start, stop | Mesos, mpirun, ZeroMQ publisher |
| **Graph containers**: `include/graph.hpp` | `adj`, `reverse_adj`, `v_sz`, `e_sz`; marks, queue and stack of a traversal | `add_edge`, `reverse`, queries that insert, dump and construct; `BFS`, `DFS`, `connected_components` | filled by the loader, used by the algorithms |
| Local launcher: `prun.py`, `src/start_server.cpp` | - | starts the processes | ssh, mpirun |

What is hard in it:

* the SSP protocol: rounds of different workers share a few counter slots, the
  threshold changes when workers retire, and the gate compares with stale values;
* the server: four threads on one hash table, of which the readers take no lock,
  and functions loaded by one client's request stay for everybody;
* the input: blocks are handed out to whoever asks first and then cut at byte
  positions in the middle of lines; the entries then travel between ranks that
  have to number rows and columns alike without talking about the numbers;
* the collectives: hand-made out of point-to-point messages that carry one tag,
  so that only their order tells two calls apart, and MPI may buffer or not;
* the algorithms: what separates two phases is a barrier in some and only
  `sync()` in others, which is the function of POSIX and waits for nobody;
* the launcher: hosts are lost, executors give up and messages are missed while
  the next attempt is already under way;
* index arithmetic on unsigned numbers in the ring's binary search;
* graphs that are kept in two tables, with queries that change them.

`PROJECT.json` lists these hazards one by one, at the line where they bite, with
the properties that cover them.

## 2. Modules

| module | models | extends / uses |
|---|---|---|
| `SSPClock` | workers and the clock thread of server 0 | - |
| `SSPClockProofs` | theorems about `SSPClock` | `SSPClock`, TLAPS |
| `MCSSPClock` | symmetry for TLC | `SSPClock` |
| `KVOps` | what each request reads, writes and answers, as operators on a table | - |
| `SafeKV` | abstract store: each write happens at one instant | `KVOps` |
| `ParamServer` | four threads, mutex, clients | `KVOps`, instance of `SafeKV` |
| `ParamServerProofs` | theorems about `ParamServer` | `ParamServer`, TLAPS |
| `MCParamServer`, `MCParamServerOps` | request menus, update functions on integers; all requests in one run | `ParamServer` |
| `LoadScheduler` | leader and workers of `schedule_load` | - |
| `LoadSchedulerProofs` | theorems about `LoadScheduler` | `LoadScheduler`, TLAPS |
| `Partition` | byte ranges and line loading | - |
| `Wire` | how lists of triples and strings travel as text | - |
| `Exchange` | from the lines of the ranks to the blocks of a matrix or graph, with the process grid | `Wire` |
| `Loading`, `MCLoading` | the composition: files to blocks; all small files, inputs with contents | `Partition`, `Exchange` |
| `LoadingProofs` | theorems about `Loading`, with `Partition`, `Wire` and `Exchange` | `Loading`, TLAPS |
| `Collectives`, `MCCollectives` | the ring operations and `treereduce` over MPI messages | - |
| `CollectivesProofs` | theorems about `Collectives` | `Collectives`, TLAPS |
| `WorkerAPI` | the calls of `paralg` as requests to several servers, and the steps they make | - |
| `Jobs`, `MCJobs` | the algorithms and Pregel vertices as programs of `WorkerAPI` | `WorkerAPI` |
| `MPIScheduler`, `MCMPIScheduler` | the scheduler of an MPI job on Mesos and its executors | - |
| `MPISchedulerProofs` | theorems about `MPIScheduler` | `MPIScheduler`, TLAPS |
| `Ring` | consistent-hash ring with its binary search | - |
| `RingProofs` | theorems about `Ring` | `Ring`, TLAPS |
| `Graph` | the four graph classes, BFS, DFS and connected components | - |
| `GraphProofs` | theorems about `Graph` | `Graph`, TLAPS |
| `MCContainers` | hash functions and small graphs; a behaviour uses a ring or a graph | `Ring`, `Graph` |

Operators whose comment begins with "Mutant" stand before the definition they
vary; each is a plausible bug that one property of a run detects
(`PROJECT.json`, "mutants").  They are used nowhere else.

### SSPClock

A worker is a sequential program: `pc[w]` is its place, `sock[w]` its REQ socket
(idle, a request on its way or at the server, or a reply).  Each request is
handled by the server in one step (`PushInt`, `IncrClientClock`, `IncrWorkerSz`,
`PullInt`), since one thread serves them; sending, serving and receiving are
separate steps, so that requests of several workers interleave and answers get
old.  A parameter is represented by the value of `server_clock` when it left the
server: what matters is how old a copy is.  `ParacelRead` has the three branches
of the code (round 0 or last pull; cache hit; gate), `Gate` and `GateReply` are
one turn of the `while` loop.  `IncrClientClock` keeps the code's fall-through:
after counting the commit, and after a reset, the slot is incremented again.

Algorithms call `paracel_read` and then `iter_commit` each round, and read every
key in round 0 (`alg/logistic_regression/lg_ssp.cpp`); the guards of `IterCommit`
say so.

### KVOps, ParamServer, SafeKV

A request goes through `recv`, `unlocked` (reads and registrations), `lock`,
`locked` (read the table and compute the writes: `ReadForWrite`) and `write`
(`PerformWrite`).  The unlocked reads race with a thread in `write`; that is a
data race on an `unordered_map`, and the model lets such a read return the old
or the new contents, nothing, or a torn value, or end the process (`Die`).
Exceptions nobody catches (`at` of an absent key in `pull_multi`, calling an
empty function; `ERROR_ABORT` only prints) also end it.  Values and loaded
functions are parameters (`Apply`, `Passes`).  A library or function that cannot be
loaded makes the server abort (`include/server.hpp:179`): `Loadable` names those that
can, and a request that names another ends the process (`LoadFails`), at the place
where its branch calls `dlopen`: without the mutex for a registration or
`pullall_special`, with it for the others.  A request that sets
or erases several keys does it in the one `write` step; readers that see a part of
it are among the outcomes of a race.

`SafeKV` has one action per request and no threads; its `Read` may return
anything while a write of another client is pending, because the code gives no
meaning to a read that races.  `Refinement` therefore says nothing about the answers
of such reads: it says that writes are atomic and in order, that functions stick to
their thread, that a read beside no write is exact, and when the server may end.
`ParamServer` implements it with the table, the kept functions and the calls mapped
to themselves.

### LoadScheduler

Each MPI call is a step.  Requests of workers wait in `inbox` (the leader
receives from any source); answers wait in `chan[w]`, in order.  `copies[i]`
counts how often block `i` was put in some rank's result.

### Partition

A file is a sequence of booleans, true for a newline; a line is named by its file
and first byte.  `pos` is where the stream is and `offset` where the program
thinks it is.  The ranks only read, so they run one after the other.
`std::getline` is the external definition `LineEnd`/`AfterLine`.  The build
that is modelled keeps assertions.

### Ring

The hash function is a variable that `Init` chooses and nothing changes, so a run
covers many.  `std::sort` is `Sort`, a definition without recursion.  Indices
wrap at `SizeLimit` as `size_t` does.  `remove_server` erases, for each point of
the server, the first equal entry, which `Stays` expresses by counting.

### Graph

A dict of dicts is a function to functions.  `operator[]` inserts what it does not
find, so `adjacent`, `is_connected`, `reverse_adjacent` and `get_wgt` are actions
that change a table (`Touch`, `Put`), as far as the class has them.  The
constructors are sequences of `add_edge`; `Reload` is a digraph that is dumped and
constructed again.  `bigraph_continuous` maps a vertex to the number of copies of
each pair in its bag; it has a list of bags and no second table, so that no property
singles it out, and it is modelled because the loader makes such graphs and
`add_edge`, `resize` and `v` change it like no other class.  BFS takes one neighbour
per step and DFS keeps its calls on a stack, each with the neighbours it has not yet
looked at; the next neighbour is any of them, since the order is that of a hash
table.  A traversal gets the graph by value and leaves the original alone.  The
`marked` of `connected_components` has the same keys as `identifier`, which stands
for both.

### Collectives

Each MPI call of a rank is a step.  A container is two messages, `size` and
`data`, in the order of `isend`; `chan[<<s, d>>]` is the channel between two ranks of
one tag, which MPI keeps in order.  `eager` decides whether `MPI_Isend` copies:
if it does not, `wait` blocks until the receiver has taken the message, and the
receiver of `treereduce`'s unwaited `isend` sees the sender's buffer as it is
*then*.  In `alltoall` a rank files what it receives from rank `r + i` under rank
`r - i`; `Slot` keeps this, `RingDelivers` states what the slots hold because of
it, and `Exchange` concatenates the slots in this order (`Sender`).  A program that
writes the argument of `treereduce` after the call, as `test/test_tree_reduce.cpp:39`
does, is not modelled: if MPI has not copied the buffer by then, the receiver sees
the new value, and the code has nothing against it.

### Wire, Exchange, Loading

A parsed line is a sequence of fields; of a field the model keeps what
`lines_organize` looks at: how many pieces `str_split` makes of it (none of an empty
field), the id of the first piece or of the whole, the weight, and whether the
conversions that the code calls throw.  A line of the wrong length, a field that is no
number, and an empty field where pieces are read (`include/load/scheduler.hpp:168`)
end the program (`OrganizeFails`).

`Wire` packs lists of triples and strings into text, a sequence of tokens, and splits
it again: six decimals, separators of three tokens, and `str_split_by_word` dropping
an empty last piece.  A name may be empty, have underscores, hold a separator or form
one with what stands beside it; then the list comes apart differently, and `recv`
throws, or writes past the end of its list, which may end the program (`RecvFails`) or
not (`Undefined`).  The code asks for nothing of names, and the properties suppose
`GoodIds`: names in which the words `ps` and `PARACEL` do not stand alone between
underscores or ends (`Plain`), and numbers that an `int` holds, because `index_mapping`
puts numeric ids through lists of `int` (`Narrow`, `Sooner`).

In `Exchange` a rank goes through the phases of `create_matrix` and `create_graph`,
with the barriers between them; a collective is one step per rank that needs the
partners in the same call, with the result that `Collectives` establishes.  Both
dense overloads of `create_matrix` are modelled: with numeric ids the first line gives
the number of values, with names each line its own (`DenseFits`).  A dictionary of
dictionaries keeps the weight that comes last, by the order of the slots and of the
lines (`WeightFits`); the other products add weights up.  `Loading` runs `Partition` and
gives each rank the lines it has loaded.

### WorkerAPI, Jobs

A call becomes requests (`paracel_read` one, `paracel_read_multi` one per
server), a program is a sequence of them, and a worker that comes to its end
looks what to do next (`Solve`), knowing what it has read: this is how the
supersteps, the lists of items and the links of pages come in.  A request is one
atomic step at its server, which `ParamServer` justifies by implementing
`SafeKV`; between requests everything interleaves.  A barrier or a reduction is a
joint step of all workers (`Meet`).  A value is the set of the contributions in
it, each named by its worker and round; what an update function makes of a value
of another type is `Garbage`.  Keys are visited in ascending order where the code
walks through a hash map.  Between the first and the last clock of a worker a read
may come from the cache or from the server; when exactly is the subject of
`SSPClock`.  `sync()` is no request at all.

### MPIScheduler

The callbacks of the scheduler hold one lock and are steps; each executor is a
small state machine; status updates of a task arrive in order and each once.
`repeat_pub` sends a message up to `Repeats` times to any subset of those that
listen.  `MaxFaults` bounds losses, failures and early timeouts.  Time is left
out, and so are a refused host's ten minutes.  Numbers of tasks are used again
when nothing is left of a task, which keeps the state finite.  `check()` is not a
step: it looks for tasks in state `TASK_STARTING`, which no executor reports.

## 3. Runs

| run | instance | checks | distinct states |
|---|---|---|---|
| `ssp_three` | 3 workers, 1 key, s = 0, 3 rounds; symmetric in the workers other than rank 0 | `TypeOK FreshRead LeadBound WorkerSzCounts` | 670 k |
| `ssp_slots` | 2 workers, s = 2, 5 rounds | `ServerKeepsUp ClocksMonotone EveryoneFinishes` | 96 k |
| `ssp_bounded_staleness` | 2 workers, s = 1, 4 rounds | `BoundedStaleness`: **violated** | - |
| `ssp_two_keys` | 2 workers, 2 keys, s = 1, 4 rounds | `FreshRead`: **violated** | - |
| `ps_count` | 3 clients, 2 requests each | `NoLostUpdate TicketsUnique EveryRequestServed` | 154 k |
| `ps_ops` | 2 clients, all kinds of requests, those in sight from a menu of readers or of writers (`OneMenu`) | `PlanIsCurrent Refinement` | 1.07 M |
| `containers` | a ring of 3 servers, 2 points each, 6 hash values, all injective hash functions and those onto two values; or a graph: undirected ones of 4 vertices and edges, digraphs of 3 vertices, edges with either weight | `SearchExact RoutesToOwner MinimalDisruption SearchEnds Mirror ShortestPaths Components` | 492 k |
| `load_schedule` | 4 ranks, 2 blocks per rank | `ExactlyOnce NobodyStranded EveryoneReturns` | 67 k |
| `loading` | all lists of 1 or 2 files of up to 4 bytes, 1 or 2 ranks, 1 or 2 blocks; inputs with contents on 1 to 6 ranks, as sparse and dense matrices and graphs | `LinesInOrder LoadsEveryLine RowsAgree CellsAtOwners BlocksAreInput` | 118 k |
| `collectives` | 3 ranks, 4 programs of two or three calls, empty and longer containers, with and without buffering | `Framing RingDelivers TreeReduceTotal EveryoneReturns` | 13 k |
| `jobs` | 2 workers, 2 servers, the 20 programs, 2 rounds | `NoWrongUpdater NoMissingKey RoundsComplete TopkRight PregelMax JobEnds` | 75 k |
| `mesos` | 3 hosts with 2, 1 and 1 slots, 3 processes, 3 faults, 2 repeats | `HostsMatch StatusTrue JobStops` | 120 k |

Bounds.  Three rounds with s = 0 and five with s = 2 let every slot be used at
least twice with counts left in it, and three workers are the least for which a
slot can be filled by two of them twice.  The run with three workers uses s = 0,
where the gate matters most: since commits count twice, with a larger s
`server_clock` follows a single fast worker closely enough that the gate never has
to stop it; the theorems cover the other cases.  Two requests per client put a
writer behind every other writer and a reader beside one; the third client of
`ps_count` queues behind both threads.  Four ranks let two workers ask again while
the last one waits.  Files of four bytes have lines that are empty, whole, cut in
two or three, and without a final newline; with up to four ranges every byte is a
seam in some case.  The inputs with contents have repeated entries, weights with
a seventh decimal, empty names and fields, names with parts of a separator, with one
or with a whole name between two, numbers beyond an `int`, lines that are too short,
too long or without a number, and grids of 1, 2 and 3 columns.  A ring of six points
takes the search through three turns.  Four edges on four vertices make trees,
cycles and two components; three calls on a digraph, with reversals and inserting
queries between them, let an edge be added twice and vertices exist in one table
only.  Three ranks are the least for which a ring has two turns and the tree an odd
level.  Two workers are enough for every race between a fast and a slow one; the
graphs are a cycle over both workers and one with a vertex that not all others
reach.  Three hosts, of which two or three are needed, let a lost one be replaced or
come back; three faults let this happen twice and the start fail once.

Fairness.  `SSPClock` assumes that every worker and the server thread keep
running and that ZeroMQ serves each waiting request (fair queueing), and nothing
about `paracel_bupdate`.  `ParamServer` assumes that each thread keeps running;
a thread that waits for the mutex gets it because there are finitely many
requests.  `LoadScheduler`, `Ring`, `Collectives` and `WorkerAPI` assume that
processes keep running, and that a barrier or reduction that all have entered
ends.  `MPIScheduler` assumes that offers of every host come again (the main loop
revives them), that Mesos delivers status updates, that executors and publishers
go on; nothing is assumed about the timeout of the job, so `JobStops` does not
rest on it.  `ParamServer` runs do not check deadlock: clients stop after `MaxOps`
requests, and a server that died answers nobody.

### Findings

* `incr_int` counts a commit twice (`include/server.hpp:151`): `server_clock`
  runs ahead of the slowest worker and the staleness bound against the slowest
  worker does not hold.  What does hold is the bound against `server_clock`
  (`LeadBound`) and that `server_clock` never falls behind everyone
  (`ServerKeepsUp`), so nobody hangs.
* `stale_cache` is shared by all keys (`include/ps.hpp:405`): with two keys a
  read returns a copy older than the bound.  With one key it does not.

Seen while modelling, and left in the models as the code has it; no document says
otherwise in words a run could check:

* `sync()` (`alg/logistic_regression/lg.cpp:105` and most algorithms) waits for
  nobody.  In `logistic_regression` a slow worker's start value may overwrite a
  trained one; in `pagerank` links or ranks, and in `similarity` the list of
  another worker, may be missing when they are read, which ends the program
  (`NoMissingKey` names these exceptions); in `matrix_factorization` counts may
  meet the update function of the factors (`NoWrongUpdater` leaves it out); and
  `max_vertex_value.hpp` may halt early, which `PregelMax` excludes only for the
  vertices of `vertex.hpp`, with their real barriers.
* `calc_loss` reduces once per sample (`lg.cpp:227`): with different numbers of
  samples a debug run does not end.  The run has equal numbers.
* A Pregel vertex into which no edge leads is never written and its first vote
  ends the program (`include/pregel/vertex.hpp:99`); the graphs of the run have an
  edge into every vertex.
* `index_mapping` collects numeric ids as `int` (`include/load/scheduler.hpp:294`),
  names may contain the separators of the messages (`include/utils/comm.hpp:459`), and an
  empty field makes `lines_organize` read an empty vector
  (`include/load/scheduler.hpp:168`).  All three are in the model and in the inputs
  of the run `loading`; the properties suppose `GoodIds` and speak of ranks that
  have finished.
* An unlocked read may race with a write (`include/server.hpp:232`); no property says
  what it then returns.

## 4. Proofs

All theorems hold for every value of the constants, under the assumptions named
in the modules (finite nonempty set of workers with rank 0 among them, natural
staleness and number of rounds, and so on), and some under a hypothesis that the
theorem states.  Eight modules, one per component; in each a chain of lemmas, one
for each action or group of actions, shows that an invariant is inductive, and the
theorems draw the properties of the runs from it.

* `SSPClockProofs`.  `LeadBound` is not inductive: that a worker past the gate is
  close to `server_clock` needs that `stale_cache` and every answer in a socket
  is at most `server_clock` (`SockInv`), and that a worker past the gate has
  `clock <= stale_cache + LimitS` (`GateInv`).  Freshness needs that the copy of
  the only key is at least as new as `stale_cache` (`FreshInv`), which is exactly
  what fails with two keys.  `WorkerSzCounts` rests on the
  barrier (`BarrierInv`) and on counting retirements one by one (`SzInv`).
  `ServerKeepsUp` needs an account of the past that no variable holds: there is a
  function `f` from slots to how often each was full (`KeepInv`), whose sum is
  `server_clock`, and the commits that were ever counted in a slot are at most
  what `f` and the present count explain (`Covers`).  The sum is the size of a set
  (`Credits`), so that a reset adds one element to it.  If every worker were ahead
  of `server_clock`, each slot would have been filled for every round that uses
  it, and `server_clock` would be larger (`RoundCredited`).
* `ParamServerProofs`.  Mutual exclusion (`MutexInv`) gives that the plan of a
  thread in `write` is what the current table would give (`CurrentInv`); with
  that, `PerformWrite` is the abstract write, and each other step is an abstract
  step or a stutter.  Two theorems are about clients that count: `TicketsAreUnique`
  for a set of requests that write one key only by adding to it, with readers
  beside them (`CountsUp`), where every answer given is at most the stored value
  (`Tickets`) and, the plan being current, the next one is beyond it; and
  `CountsAreExact`, where every request adds 1 (`CountsOnly`), by showing that the
  set of performed requests grows by one element exactly when the value does.  The
  menu of the run `ps_count` satisfies both.
* `LoadSchedulerProofs`.  The protocol invariant ties each worker's place to what
  is in its channel and in the inbox; the block numbers up to the leader's `cnt`
  are loaded, on their way or owned by one rank (`CopiesInv`); and the number of
  requests still to come equals what is left of the loop's bound (`CountInv`,
  over the set of workers that will ask again).
* `LoadingProofs`.  Reading: a byte of the input has one position over all files
  (`Global`), and `Mark` is the one up to which the reading has come.  The loaded
  lines increase in it and lie below `Mark` and below the end of the range
  (`LinesInv`), and without empty lines every line below `Mark` has been loaded
  (`AllInv`); the ranges join without gaps (`RangeInv`).  What makes it inductive is
  `CursorInv`: between two `getline`s the stream stands at a line, and `offset`
  agrees with it but for the newline that a file may lack at its end.
  Packing: `Pieces` takes a text token by token (`CutAs`, `CutNext`); a text without the
  word of the separator (`Without`) can complete none, also not with the underscores
  around it, and only makes the last piece longer.  So what was joined with separators
  comes apart into the same pieces (`ClosedPieces`), for strings and for the triples with
  their inner separator; a weight comes back as it was printed.  `TriplesArrive` and
  `StringsArrive` have the hypothesis `Plain` for every name.
  Exchange (`XInv`): the slots and the received triples of a rank are entries that
  the hash grid gives to their destination (`DataInv`), and from `index_mapping` on
  `rm[r]` lists the ids of the rank's row of the grid, whose ranks have all left
  `exchange` and so do not change them any more (`PhaseInv`).  `Ordered` lists a set
  without repetition because the number of smaller elements tells its elements
  apart and takes each value below the size of the set (`PlacesTaken`); that no id is
  numbered in two rows of the grid follows from the owner's row being a function of
  the id (`OwnerRow`).
  `CellsAtOwners`, from the files to the blocks, needs an account of what a rank holds
  in each phase (`ExactInv`): its lines until `lines_organize`, in its slots the cells
  of its lines by owner (`HeldSlots`), after `exchange` the cells that it owns of the
  lines of all ranks (`HeldEntries`; the ring brings the slot of every rank, and all
  are filled because everyone has passed the barrier), after `index_mapping` the same
  under numbers that lead back to the ids (`HeldNumbers`, `IndexIs`), at the end one
  entry for each cell (`HeldBlock`).  That the lines of all ranks are the input takes
  `LoadsEveryLine` and that the place of a line among all lines is the number of its
  parsed line (`GivenCovers`).  Both invariants hold for the inputs with `GoodIds`
  (`ExchangeCorrect`, `HoldsItsPart`), the hypothesis that `RowsAgree` and
  `CellsAtOwners` have: what a rank is sent then fits the size that was announced.
* `CollectivesProofs`.  All messages have one tag, so what a receiver takes is
  what the other side has posted next.  `Posted` and `Taken` compute, from the
  call and the turn or the depth in which a rank is, how many messages it has put
  into a channel and taken out; the channel has their difference, and each message
  in it is the one that its place in this count tells (`PairInv`), however far apart
  the two ranks are.  With that the first message is the one of the receiver's own
  call (`NextMessage`), and the slots of a ring operation fill turn by turn
  (`Filled`).  In the tree a rank sends once, at the depth where its number is odd
  (`OddOnce`, which rests on the powers of two, `Pow`), and the data of a node is
  that of the ranks below it (`NodeOk`, `Run`), also where the last node of a level
  has no neighbour.  A message that MPI may read late from the sender's buffer is
  read as it was sent because a rank that has sent does not write its buffer any
  more (`RefInv`, `Through`).  The hypothesis `OneReduce` says that a program calls
  `treereduce` at most once: `data` is one argument per rank, the buffer of one
  call.  The programs of the run satisfy it.
* `RingProofs`.  The ring is sorted and has each hash as often as the servers
  have points at it (`Ordered`, `Counted`), which needs that `Sort` permutes and
  that `Stays` removes exactly one entry per point; the search keeps the points
  before `s` below the key and those after `e` above it, and `m` beside one of
  the two ends (`Probing`), so that the index does not wrap or leave the ring; without
  collisions the map knows exactly the points of the servers (`Known`).
* `GraphProofs`.  `Mirror` is inductive together with the shape of the tables.
  For BFS, the distances in the queue do not decrease and span at most one level
  (`QueueSorted`), and a vertex that has left the queue has marked its neighbours
  (`Expanded`); that no walk is shorter than `dist_to` is an induction over its
  length.  For the components, what the current DFS has marked is reached from
  its root, what still has to be looked at is on the stack (`Rooted`, `Pending`),
  and no edge leaves a finished component of an undirected graph (`Apart`).
* `MPISchedulerProofs`.  Before the start every host in use has exactly one task
  of the table (`OnePerHost`) and the slots fit (`SlotsFit`); an executor that has
  ended leaves a failure as its last word and `TASK_FINISHED` is only said by one
  that has finished (`LastWords`); after the start each host either has a task in
  the table or is done (`NoneForgotten`), which is what an empty table and status 0
  then mean.

Inductions over numbers use that a nonempty set of naturals has a least element
(`WellFoundedInduction`), with a set in place of the predicate; this is also how the
running sum `displs` and the recursive functions of `Wire` and `Exchange` are shown
to exist.

Only model-checked: liveness under fairness (`EveryoneFinishes`,
`EveryRequestServed`, `EveryoneReturns`, `SearchEnds`, `JobEnds`, `JobStops`),
which the prover does not handle; `BlocksAreInput`, whose sums of weights and of row
counts are folds over sets with an operator as argument; and the properties of `Jobs`,
which are about the particular programs that the algorithms are and not about
their parameters.

## 5. Not modelled, and what is left

Left out: serialisation with msgpack (`packer.hpp`, `proxy.hpp`), type traits and
hash functions (values are opaque, hashes are parameters), parsers and string
helpers other than `str_split_by_word`, the bootstrap (`prun.py`,
`start_server.cpp`: one request and one reply), the dense and sparse matrices, which
are Eigen's, and the writing of files.  Of `paralg`: `paracel_update`,
`paracel_bupdate_multi`, `paracel_remove`, `paracel_contains`, `paracel_readall`
(the server's side of them is in `ParamServer`).  Of the communicator: the calls
that pass straight to MPI.  Of the launcher: `SubmitScheduler`, whose `create_task`
uses a name that is defined nowhere.  Of `alg/`: spectral clustering, decision
trees, `sim_tricky`, `sim_artist`, `tiny_url`, `lasso`, and the serial programs of
`tool/`; they are serial, unfinished or variants of what is modelled.

What could still be proved: that the requests of a worker in `WorkerAPI` are served
in the order of its program, and with it `RoundsComplete` for programs of any length;
and the weights of `BlocksAreInput`, with sums written as recursive functions.
