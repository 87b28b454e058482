# FTHP-MPI: specifications, model checking and proofs

FTHP-MPI is an MPI library that survives the death of processes. Some of the
computational ranks have a *replica*, a second process that executes the same
rank. When a process dies, the survivors shrink the communicator and the replica
of a lost rank takes its place. When a rank has no replica left the job is given
up and restarted from a checkpoint. A coordinator server on every node detects
deaths, announces them and synchronises checkpoints.

This directory holds TLA+ modules of the parts where concurrency and failures make
the code hard to test, configurations for TLC, and proofs for TLAPS.

## Inventory

### Parts, state, operations

| Part | State | Operations |
|---|---|---|
| Rank tables (`client_thread.c`, `mpiProfiler.c`) | `eworldComm`, `nC`, `nR`, `cmpToRepMap`, `repToCmpMap`, `parep_mpi_failed_group`, `aborting`, `ctrmap`/`rtcmap`, `parep_mpi_pred_list` | creation in `empi_comm_creation`; `INFORM_PROC_FAILED`; `comm_shrink`; `SHRINK_PERFORMED`; `INFORM_PREDICT(_NODE)`; `MPI_Replica_rearrange` |
| Coordinator barrier and notices (`tools/parep_mpi_ckpt_coordinator.c`) | barrier count, `recv_rank`, `global_failed_proc_reached_barrier`, process states, `num_failed`, `num_inform_failed`, `fail_ready`, `barrier_running`, four mutexes and their conditions, client and daemon sockets | `BARRIER`, `REMOTE_BARRIER`, `INFORM_BARRIER_RUNNING`, `PROC_STATE_UPDATE`, death of a child, `polling_server` |
| Message logs (`mpiProfiler.c`) | `first_peertopeer`, collective log, received-data list, counters | `Isend`, `Irecv`, collectives, `parep_mpi_restore_messages`, `cleanup_marked_logs` |
| Log clean-up (`client_thread.c`, coordinator) | `rem_recv_recvd`, `rem_recv_running`, `parep_mpi_store_buf_sz` | `REM_RECV`, `REM_RECV_FINISHED`, `failed_proc_check` |
| Request progress (`request_handler.c`) | request list, `reqListLock` | `test_all_requests`, probes |
| Checkpoint and restart (`mpiProfiler.c`, `wrappers.c`, coordinator) | `ckpt_active`, flags of the SIGUSR1 handler | `CREATE_CKPT`, `CKPT_CREATED`, signal handler, `checkpoint_init` |
| Image I/O (`full_context.c`, `mmanager.c`) | the process image | read and write of mappings |
| Coordinator: exit, groups, key store, prediction, threads | exit flags, group leaders, stored keys, `block_predict`, socket queue | `EXIT`, leader change, `STORE`/`QUERY`, `INFORM_PREDICT`, `handle_connection` |
| Heap allocator, buffer cache | free lists, size bins | malloc family, `get_commbuf_node`, `return_commbuf_node` |
| InfiniBand interception | virtual identifiers | verbs wrappers |
| Launchers, daemon, injector | none kept | process start-up and kills |

### How they interact

A client has three threads that matter: the application thread, the polling thread
that reads commands from the coordinator socket, and `comm_shrink`, started for
each shrink. The polling thread keeps `reqListLock` from a failure notice to
`SHRINK_PERFORMED`. Rearrangements are prepared by the polling thread and installed
by the application thread on SIGUSR1.

A coordinator serves every connection by a thread of its pool and watches its
children with another. The server of node 0 is the *main server*; the others report
to it on short-lived connections, so their messages may be handled in any order, and
hear from it on one long-lived connection, which keeps order.

### What is hard

- failures that coincide with the recovery of another failure;
- in-place index arithmetic over tables that two sides of a message read;
- a failure notice and a barrier answer travelling on the same socket;
- counts that must follow a death, wherever the dead process was;
- condition variables signalled without their mutex, mutexes taken in two orders;
- messages of one node handled out of order by the main server.

`PROJECT.json` lists the hazards, each at its line, with the properties that cover it.

## Modules

| Module | Models |
|---|---|
| `ReplicaSets` | abstract: each rank has a set of carriers; failures remove members, replicas move |
| `RankMaps` | the tables, the shrink and the rearrangement; implements `ReplicaSets` |
| `RankMapsShrink` | lemmas about the arithmetic of the shrink |
| `RankMapsProofs` | the inductive invariant of `RankMaps` and the theorems that follow from it |
| `RankMapsRefinement` | `RankMaps` implements `ReplicaSets`; ranks do not change |
| `CoordBarrier` | the barrier and the failure notices of the coordinators |

### RankMaps

All clients receive the same notices and compute the same tables, so the module has
one copy. Processes are named by their rank at `MPI_Init`. `eworld` maps positions to
processes; `ctr` and `rtc` are the two tables; `image` is a history variable that
records which rank's memory a process carries, and is what makes "the right replica
was promoted" a statement about the tables. `image` changes only where the code sends
an image (`transfer_to_replicas`).

| Action | Code |
|---|---|
| `InformProcFailed` | `CMD_INFORM_PROC_FAILED` of `polling_daemon`, `client_thread.c:2580` |
| `CreateGroup`, `SendShrinkPerformed` | `comm_shrink`, `client_thread.c:245` |
| `ShrinkPerformed` | `CMD_SHRINK_PERFORMED`, `client_thread.c:3119` |
| `InformPredict`, `RemapRank`, `EndPredict` | `CMD_INFORM_PREDICT_NODE`, one action per iteration, `client_thread.c:2165` |
| `InstallTables` | `MPI_Replica_rearrange`, under `procmaplock` only, `mpiProfiler.c:5177` |
| `BeginTransfer`, `EndTransfer` | `transfer_to_replicas`, which takes `reqListLock` and sends the images, `mpiProfiler.c:4726`, `4788` |
| `Crash` | environment |

The loop over `failed_ranks` and the compaction after it are written in closed form
(`Slot`, `RankAdjRep`, `WorldCommRanks`, `Compact`, `ShrunkCtr`, `ShrunkRtc`). The
failed ranks come in ascending order, so every computational rank is handled before
any replica. `rankadj` and `nCdiff` are always 0 in the code and are left out. Draining
of messages and rebuilding of sub-communicators inside the handlers belong to the
message logs and do not touch this state. `failed_proc_check` holds a second copy of the
failure handler, for notices read during a log clean-up; the formulas are the same, but
that path is not an action of this module.

`FaultModel` names the coincidences the environment may produce:

| Switch | Allows |
|---|---|
| `pair` | a rank and its replica named by one notice, of failures or of a prediction |
| `overlap` | deaths during a recovery, notices that split a batch |
| `swap` | a death between a prediction and the end of its rearrangement |

With `FaultModel = {}` failures come one batch at a time. Each switch has a run that
shows what it does to failures. For predictions `pair` matters too: when one prediction
names a rank and its replica (a node that holds both), each asks for an exchange at the
same rank and the second overwrites what the first has written. With three ranks and
three replicas TLC then refutes `DraftInverse` in four steps: a prediction of processes
0 and 3 leaves both copies as (2, 0, 0). With two replicas there is no second candidate
and nothing shows. The repository states nowhere that the copies are inverse, so this
is a hazard in `PROJECT.json` and not a run.

Three more coincidences are excluded throughout, and listed as hazards: a prediction
during a recovery, a second prediction before the rearrangement of the first has ended,
and a prediction that names a process which has left the world. The coordinator sends
all processes of the predicted node, dead ones included; the client translates the rank
of such a process to `MPI_UNDEFINED` and indexes its tables with it, which has no
meaning in the model.

### CoordBarrier

`NN` nodes with `NS` clients each, one node group. A client sends `CMD_BARRIER`
(`Arrive`) and reads its socket (`ReadBarrier`, `AwaitNotice`, `ReadNotice`). The server
of a node collects its clients (`NodeArrival`, `NodeSleep`, `NodeWake`, `NodeReport`)
and forwards what the main server sends (`NodeForwardBarrier`, `NodeForwardNotice`). The
main server counts (`ClientArrival`, `ReportArrival`, `Open`, `Sleep`, `Wake`) and
answers (`Release`, `EndBarrier`). Each death has an informer thread: `DetectLocal` or
`HandleUpdate`, then `RaiseFailReady`, `LockInform`, `TestRunning`, `InformerWoken`,
`Relock`, `SendNotices`. A mutex whose holder can block has a variable for its owner;
the critical sections of the others are single actions. `pthread_cond_wait` is split
into the test, the sleep and the wake-up, so a signal can be lost where the code allows
it.

The switches name the timings under which one death is not handled well. Each was
checked alone (two nodes of two, two barriers, one death); the third column is what
TLC then refutes. With none of them on every property holds.

| Switch | Allows | Refutes, when it is the only one |
|---|---|---|
| `race` | `CMD_BARRIER` sent while a notice is on its way to the client | `AnswerIsBarrier` (run `barrier_notice_race`), `EventuallyReleased`, `EventuallyTold` |
| `sole` | the death of a process in the barrier before its server has handled its `CMD_BARRIER` and counted another process | `EventuallyReleased`, `EventuallyTold`: the servers stop `Jammed` or in a `Ghost` barrier |
| `wakeup` | a signal between a waiter's test and its wait | `EventuallyReleased`, `EventuallyTold`: the servers stop `Overslept` |
| `late` | messages of one node handled out of order by the main server | `ReportConsistent` (run `barrier_late_running`), `CountExact`, `ReleasedTogether`, `EventuallyReleased`, `EventuallyTold`: the servers stop with `StaleRunning` |
| `window` | a barrier released between `num_failed++` and `fail_ready = 1` | `AbsenceAnnounced` |
| `order` | the informer's and the next barrier's locks taken in opposite orders | nothing: with one death the next barrier cannot fill up before the notice is out. Together with `late` or `reset`, or with a second death, the servers stop in a `LockCycle` |
| `reset` | the end of a barrier overwriting the next one's `barrier_running` | `ReportConsistent`, `CountExact`, `ReleasedTogether` |

So `EventuallyReleased` and `EventuallyTold` do not say that no signal is lost or that
no mutex is held for ever. They say that this happens under the named timings only.
`EndsOnlyInNamedStates`, checked with all seven on, is the converse: where everything
stops and something is left to do, a client has read a notice instead of an answer or
the servers are in one of five states (`Overslept`, `Jammed`, `Ghost`, `LockCycle`,
`StaleRunning`), each defined by what the handlers wait for.

`AnswerIsBarrier` is weaker on node 0 than on the others. There the guard that `race`
lifts keeps a notice off the socket of a client that is in the barrier; what is left to
check is the hand-over between the barrier and the informers. On the other nodes the
server holds notices back by itself (`performing`), and the property checks that it does.

One waitpid output may report several deaths; they share one informer and one notice.
A server whose clients are all dead drops the notices it receives. Not modelled:
`local_procs_term` of the main server, by which it stops announcing after the last of
its own clients, and the error path of `perform_barrier` (`ibvctx.c:783`).

## Runs

Passing runs:

| Run | Instance | Shows |
|---|---|---|
| `rank_tables_predict` | 3 ranks, 3 replicas, 1 failure, predictions of up to 2 processes, not a rank and its replica | tables inverse, drafts inverse, positions held by processes with the right image |
| `rank_tables_recovery` | 3 ranks, 2 replicas, 2 failures, predictions of 1 process, fairness | abort when a rank has no carrier, no failed member in a new world, recovery ends, `RankMaps` implements `ReplicaSets` |
| `rank_tables_overlap` | 4 ranks, 3 replicas, 4 failures at any moment | tables inverse, ranks kept and no wrong abort, even when notices meet a recovery |
| `barrier_one_failure` | 2 nodes of 2, 2 barriers, 1 death, fairness | count exact, nobody released early, no notice read as an answer, consistent reports, absence announced; every client leaves the barrier, every survivor hears of the death |
| `barrier_all_timings` | same, every switch on, no fairness | types, and the complete list of the states in which clients and servers can wait for ever |

Runs that show a disagreement between the code and what it says of itself:

| Run | Shows |
|---|---|
| `shrink_overlapping_notices` | a notice during a shrink: the polling thread waits for the mutex it holds |
| `shrink_pair_lost` | rank and replica in one notice: the dead replica is promoted instead of "NO REPLICA ABORT" |
| `shrink_before_rearrange` | tables prepared before a shrink replace those it has written |
| `barrier_notice_race` | `assert(out == CMD_BARRIER)` meets a notice |
| `barrier_late_running` | `assert(lfail >= fprb)` fails when the failure update overtakes `INFORM_BARRIER_RUNNING` |
| `barrier_two_failures` | `assert(parep_mpi_barrier_count == parep_mpi_size - nfailed)` fails after two remote deaths |
| `barrier_two_notices` | `assert(tempcmd == CMD_BARRIER)` meets a second notice |

Two more facts came out of `CoordBarrier` that no line of the repository contradicts
literally: with two deaths, a local one and a remote one, `ReleasedTogether` fails, and
so it does with one death when `late` or `reset` is on.

Deadlock is not checked: clients stop after `Rounds` barriers, an aborted client spins,
and the switches let threads block. `EventuallyRecovered`, `EventuallyReleased` and
`EventuallyTold` say what must not stop.

### Bounds

Two replicas suffice for an index to move past another one, three for an index to move
by two and for a replica and a rank to be lost in one batch. `rank_tables_overlap` has
three, without predictions; its behaviours include those without overlap. `AbortWithoutReplica`,
`NoDeadMember`, `EventuallyRecovered` and the refinement, which do not hold or are not
claimed under `overlap`, are checked with two. A prediction of two
processes makes two exchanges, and with three replicas each of them finds a candidate. Two nodes of two clients
give a main server with local and remote clients, a node that waits for its second
client, and a death before, between and after arrivals; two barriers let the end of one
meet the beginning of the next. Predictions of two
processes and more than one death are explored in different runs, because their product
is large. The theorems have no such bounds.

### Fairness

`RankMaps!FairSpec`: the coordinator reports every death, the polling thread and
`comm_shrink` run, and the group creation completes when all members are alive.
`CoordBarrier!FairSpec`: as long as some thread can step, one does. Behaviours are
finite up to stuttering (rounds and deaths are bounded), so this brings every thread
that is not blocked for good to its end. Nobody is obliged to die.

## Proofs

For any `NC >= 1`, any `NR` up to `NC`, any bounds, and `FaultModel = {}`,
`RankMapsProofs` proves all but the last two of the following, `RankMapsRefinement`
those two:

| Theorem | Statement |
|---|---|
| `Invariance` | the inductive invariant `IInv` |
| `TypeCorrect` | `TypeOK` |
| `TablesStayInverse` | `MapsInverse` and `DraftInverse` |
| `RolesStayMatched` | `RolesMatchImages` |
| `ShrinkExcludesFailed` | `NoDeadMember` |
| `AbortIsJustified` | `AbortOnlyWithoutReplica` |
| `AbortIsNotMissed` | `AbortWithoutReplica` |
| `TablesImplementReplicaSets` | `ImplementsReplicaSets`, the refinement without fairness |
| `RanksNeverChange` | `SurvivorsKeepRank` |

`FaultModel = {}` means: no notice names a rank together with its replica, no process
dies during a recovery or between a prediction and the end of its rearrangement. The
guard of `InformPredict` adds that predictions name members of the world, come outside
recoveries and one at a time. "Every rearrangement" in what follows is to be read so.

The assumption `FaultModel = {}` cannot be dropped for all of them. With `pair`
`AbortWithoutReplica` fails (`shrink_pair_lost`) and, with three replicas, `DraftInverse`
and then `MapsInverse`; with `swap` `MapsInverse` fails
(`shrink_before_rearrange`). With `overlap`, on the instance of `rank_tables_overlap`,
TLC refutes `NoDeadMember` and `AbortWithoutReplica` (a notice adds to the failed group
and then blocks) and finds no violation of `TypeOK`, `MapsInverse`, `DraftInverse`,
`RolesMatchImages` and `AbortOnlyWithoutReplica`; for these the theorems are stated
more narrowly than the runs suggest is possible.

`MapsInverse` is not inductive by itself. `IInv` adds:

- `Types`, the types of everything the arithmetic reads, including `alive` and `newcomm`;
- `ShrinkOK`: the world under construction is the one `SHRINK_PERFORMED` adopts and
  holds no failed process;
- `TablesOK`: the tables are inverse, the world is injective, contains exactly the
  processes not reported failed, and each carries its position's image. Only with the
  last part is it known that the promoted replica is the right one;
- `NoPairDying`: no rank waits for a notice together with its replica, so each slot the
  loop vacates belongs to one failed position;
- `DraftOK`: the entries of ranks still to be looked at, and of replicas still to be
  taken, are those of the current tables. This is why reading the old tables while
  writing the copies is sound, and where "no rank with its replica" is needed;
- `AbortOnlyWithoutReplica` itself.

The heart is the shrink. `SlotInjective` shows that distinct failed positions vacate
distinct slots. `NewIndexOrder` and `NewIndexOnto` show that `k - rankadjrep[k]` is a
strictly increasing bijection from the replicas that stay to `0..nR' - 1`.
`ShrunkTables`, `ShrunkWorldAt` and `ShrunkSource` turn this into the new tables and the
new world. There is one lemma per action.

The copies are installed before the images are sent. In between (`Moving`) a replica may
carry the image of another rank than its position says, which is why `RolesMatchImages`
and the part of `TablesOK` about images except it.

`RankMapsRefinement` takes `IInv` as given and shows, action by action, that a step of
`RankMaps` is a step of `ReplicaSets` or leaves the carriers alone: the notice is the
abstract failure, the installation of the tables the abstract move, and everything else
a stutter.

Only model-checked: liveness, and everything about `CoordBarrier`. Liveness under
fairness, and `ENABLED`, are outside what TLAPS proves here.

## Plan

1. `MessageLog`: `Isend`/`Irecv` logs of a rank and its replica, failure at any point,
   `parep_mpi_restore_messages`; abstract specification: every message is delivered once
   and in order. Then `REM_RECV` clean-up on top of it and the progress engine.
2. `CkptGate`: the coordinator's `ckpt_active`, `rem_recv_running`, `finalize_reached`,
   with the SIGUSR1 handler and predictions, including predictions during a recovery.
3. `ExitProtocol`, `NodeGroups` (leader change, death of a node, the leader's branch of
   the barrier) and `KeyStore`.
4. `CommbufCache` and `HeapAllocator`, data structures checked against a reference.
5. Proofs: an inductive invariant for `CoordBarrier`'s count; the buffer cache's lists.

## Not modelled

Image I/O, verbs wrappers, launchers and the failure injector: they move data or start
processes and hold no state whose interleavings matter. `mpiProfilerslurm.c`,
`mpiProfiler_multiOMPI.c` and `mpiProfiler_withOMPIshrink.c` are not built. The parts of
the plan are listed as `not_modelled` in `PROJECT.json` until their module exists.
