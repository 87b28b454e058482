---------------------------- MODULE CoordBarrier ----------------------------
(***************************************************************************)
(* The coordinators' barrier and the failure notices that race it.         *)
(*                                                                         *)
(* Each node runs a coordinator server.  A client enters the barrier by    *)
(* sending CMD_BARRIER to the server of its node and then blocks on its    *)
(* coordinator socket.  A server collects its clients, the other nodes     *)
(* report theirs to the main server (node 0) with CMD_REMOTE_BARRIER, and  *)
(* the main server answers CMD_BARRIER to everyone.  A process that dies   *)
(* is subtracted from the expected count and announced with                *)
(* CMD_INFORM_PROC_FAILED, which the main server holds back while a        *)
(* barrier is going on.                                                    *)
(*                                                                         *)
(* One node group: every server is connected to the main server.  Each     *)
(* pthread mutex whose holder can block has a variable for its owner; the  *)
(* critical sections of the others are single actions.                     *)
(***************************************************************************)
EXTENDS Integers, FiniteSets, Sequences, FiniteSetsExt

CONSTANTS NN,         \* parep_mpi_node_num
          NS,         \* parep_mpi_node_size, the same on every node
          Rounds,     \* bound: barriers a client enters
          MaxCrashes, \* bound: processes that may die
          FaultModel  \* which timings the environment may produce

ASSUME SizeAssumption == NN \in Nat \ {0} /\ NS \in Nat \ {0}
ASSUME FaultAssumption ==
  FaultModel \subseteq {"race", "sole", "wakeup", "late", "window", "order", "reset"}

Nodes     == 0..(NN - 1)
Remote    == 1..(NN - 1)
Size      == NN * NS
Ranks     == 0..(Size - 1)
NodeOf(r) == r \div NS
RanksOf(n) == {r \in Ranks : NodeOf(r) = n}
Free      == -1

VARIABLES
  \* clients and their connections
  cl,        \* "run", "wait": sent CMD_BARRIER, "await": told a notice follows
  round,     \* barriers entered so far
  inbox,     \* parep_mpi_coordinator_socket of each client
  told,      \* failures the client has been notified of
  dead,
  req,       \* CMD_BARRIER connections no server thread has handled yet
  runMsg,    \* CMD_INFORM_BARRIER_RUNNING on their way, by sender
  remoteMsg, \* CMD_REMOTE_BARRIER on their way, by sender
  update,    \* CMD_PROC_STATE_UPDATE on their way
  stream,    \* daemon_client_socket: what the main server sent to each node
  \* the servers of the other nodes
  node,
  \* the main server
  phase, count, recvd, gfprb, seen, first, jam,
  term, informed, failReady, running, infOwner, runOwner, inf, batch

clientVars == <<cl, round, inbox, told, dead>>
mainVars   == <<phase, count, recvd, gfprb, seen, first, jam>>
failVars   == <<term, informed, failReady, running, infOwner, runOwner, inf, batch>>
netVars    == <<req, runMsg, remoteMsg, update, stream>>
vars == <<clientVars, netVars, node, mainVars, failVars>>

NoReport == [bcount |-> -1, fprb |-> 0]
Barrier(fr) == [cmd |-> "BARRIER", ready |-> fr]
Failed(S)   == [cmd |-> "INFORM_PROC_FAILED", ranks |-> S]

Init ==
  /\ cl = [r \in Ranks |-> "run"] /\ round = [r \in Ranks |-> 0]
  /\ inbox = [r \in Ranks |-> <<>>] /\ told = [r \in Ranks |-> {}]
  /\ dead = {} /\ req = {} /\ update = {}
  /\ runMsg = [n \in Remote |-> 0]
  /\ remoteMsg = [n \in Remote |-> NoReport]
  /\ stream = [n \in Remote |-> <<>>]
  /\ node = [n \in Remote |->
               [phase |-> "idle", arrived |-> {}, fprb |-> 0, seen |-> 0,
                term |-> {}, informed |-> {}, performing |-> FALSE, jam |-> FALSE]]
  /\ phase = "idle" /\ count = 0 /\ recvd = {} /\ gfprb = -1 /\ seen = 0
  /\ first = {} /\ jam = FALSE
  /\ term = {} /\ informed = {} /\ failReady = FALSE /\ running = FALSE
  /\ infOwner = Free /\ runOwner = Free
  /\ inf = [r \in Ranks |-> "none"] /\ batch = [r \in Ranks |-> {}]

-----------------------------------------------------------------------------
(***************************************************************************)
(* Clients: the write barrier of parep_mpi_checkpoint_init and             *)
(* perform_barrier.  Nothing keeps a client from sending CMD_BARRIER while *)
(* a notice is on its way to it ("race"); without "race" it has read what  *)
(* its server sent and the main server is not about to send more.          *)
(***************************************************************************)
NoticesRead(r) ==
  /\ inbox[r] = <<>>
  /\ NodeOf(r) = 0 => /\ phase # "ending"
                      /\ \A q \in Ranks : inf[q] \notin {"test", "woken", "relock", "send"}

\* Clients of node n that wait and have no answer on its way from their server.
Unanswered(n) ==
  {r \in RanksOf(n) \ dead : /\ cl[r] = "wait"
                            /\ \A i \in 1..Len(inbox[r]) : inbox[r][i].cmd # "BARRIER"}

Arrive(r) ==
  /\ r \notin dead /\ cl[r] = "run" /\ round[r] < Rounds
  /\ "race" \in FaultModel \/ NoticesRead(r)
  /\ cl' = [cl EXCEPT ![r] = "wait"]
  /\ round' = [round EXCEPT ![r] = @ + 1]
  /\ req' = req \cup {r}
  /\ UNCHANGED <<inbox, told, dead, runMsg, remoteMsg, update, stream, node,
                 mainVars, failVars>>

\* The answer; fail_ready makes the client wait for the notice that follows.
ReadBarrier(r) ==
  /\ r \notin dead /\ cl[r] = "wait"
  /\ inbox[r] # <<>> /\ Head(inbox[r]).cmd = "BARRIER"
  /\ cl' = [cl EXCEPT ![r] = IF Head(inbox[r]).ready THEN "await" ELSE "run"]
  /\ inbox' = [inbox EXCEPT ![r] = Tail(@)]
  /\ UNCHANGED <<round, told, dead, netVars, node, mainVars, failVars>>

AwaitNotice(r) ==
  /\ r \notin dead /\ cl[r] = "await" /\ inbox[r] # <<>>
  /\ cl' = [cl EXCEPT ![r] = "run"]
  /\ UNCHANGED <<round, inbox, told, dead, netVars, node, mainVars, failVars>>

ReadNotice(r) ==
  /\ r \notin dead /\ cl[r] = "run"
  /\ inbox[r] # <<>> /\ Head(inbox[r]).cmd = "INFORM_PROC_FAILED"
  /\ told' = [told EXCEPT ![r] = @ \cup Head(inbox[r]).ranks]
  /\ inbox' = [inbox EXCEPT ![r] = Tail(@)]
  /\ UNCHANGED <<cl, round, dead, netVars, node, mainVars, failVars>>

\* If r waits for an answer, its server has handled its CMD_BARRIER and has counted
\* somebody else too.  (A node that has reported needs no more than the first half.)
NotSole(r) ==
  LET n == NodeOf(r) IN
  r \in Unanswered(n) =>
    /\ r \notin req
    /\ IF n = 0 THEN r \in recvd /\ recvd # {r}
       ELSE r \in node[n].arrived => node[n].arrived # {r}

Crash(r) ==
  /\ r \notin dead /\ Cardinality(dead) < MaxCrashes
  /\ "sole" \in FaultModel \/ NotSole(r)
  /\ dead' = dead \cup {r}
  /\ UNCHANGED <<cl, round, inbox, told, netVars, node, mainVars, failVars>>

-----------------------------------------------------------------------------
(***************************************************************************)
(* The server of node n # 0: handle_barrier and perform_local_barrier.     *)
(* The handler of the first arrival keeps inform_failed locked and waits   *)
(* on a condition variable: "checked" is the moment between reading        *)
(* num_failed and sleeping, when a signal is lost.  An arrival that finds  *)
(* the count at zero takes itself for the first; if it is not, it blocks   *)
(* on inform_failed with the count's mutex held, and so does everything    *)
(* after it (jam).                                                         *)
(***************************************************************************)
\* The count's mutex can be had.
NodeFree(n) == node[n].phase \in {"idle", "waiting", "woken"} /\ ~node[n].jam

\* num_failed is read, failed processes that had arrived are taken out, and the
\* loop condition is evaluated.
NodeCheck(nd) ==
  LET out  == IF Cardinality(nd.term) > Cardinality(nd.informed)
              THEN nd.arrived \cap nd.term ELSE {}
      here == nd.arrived \ out
  IN  [nd EXCEPT !.arrived = here, !.fprb = @ + Cardinality(out),
                 !.seen = Cardinality(nd.term),
                 !.phase = IF Cardinality(here) < NS - Cardinality(nd.term)
                           THEN "checked" ELSE "full"]

NodeSignal(nd) == [nd EXCEPT !.phase = IF @ = "waiting" THEN "woken" ELSE @]

NodeArrival(r) ==
  LET n == NodeOf(r)
      nd == node[n]
      counted == [nd EXCEPT !.arrived = IF r \in nd.term THEN @ ELSE @ \cup {r}]
  IN
  /\ r \in req /\ n # 0 /\ NodeFree(n)
  /\ req' = req \ {r}
  /\ IF nd.arrived = {}
     THEN /\ runMsg' = [runMsg EXCEPT ![n] = @ + 1]
          /\ node' = [node EXCEPT ![n] =
                        IF nd.phase = "idle" THEN NodeCheck(counted)
                        ELSE [nd EXCEPT !.jam = TRUE]]
     ELSE /\ node' = [node EXCEPT ![n] =
                        IF /\ r \notin nd.term
                           /\ Cardinality(counted.arrived) >= NS - Cardinality(nd.term)
                        THEN NodeSignal(counted) ELSE counted]
          /\ UNCHANGED runMsg
  /\ UNCHANGED <<clientVars, remoteMsg, update, stream, mainVars, failVars>>

NodeSleep(n) ==
  /\ node[n].phase = "checked"
  /\ node' = [node EXCEPT ![n].phase = "waiting"]
  /\ UNCHANGED <<clientVars, netVars, mainVars, failVars>>

NodeWake(n) ==
  /\ node[n].phase = "woken" /\ NodeFree(n)
  /\ node' = [node EXCEPT ![n] = NodeCheck(@)]
  /\ UNCHANGED <<clientVars, netVars, mainVars, failVars>>

\* Mutant: parep_mpi_performing_barrier is not set.
NodeReport_NotPerforming(n) ==
  /\ node[n].phase = "full"
  /\ remoteMsg' = [remoteMsg EXCEPT ![n] = [bcount |-> Cardinality(node[n].arrived),
                                           fprb |-> node[n].fprb]]
  /\ node' = [node EXCEPT ![n] = [@ EXCEPT !.phase = "idle", !.arrived = {}, !.fprb = 0]]
  /\ UNCHANGED <<clientVars, req, runMsg, update, stream, mainVars, failVars>>

\* All live clients of the node are here: report them to the main server.
NodeReport(n) ==
  /\ node[n].phase = "full"
  /\ remoteMsg' = [remoteMsg EXCEPT ![n] = [bcount |-> Cardinality(node[n].arrived),
                                           fprb |-> node[n].fprb]]
  /\ node' = [node EXCEPT ![n] = [@ EXCEPT !.phase = "idle", !.arrived = {},
                                           !.fprb = 0, !.performing = TRUE]]
  /\ UNCHANGED <<clientVars, req, runMsg, update, stream, mainVars, failVars>>

\* waitpid: handle_waitpid_output.  One output may name several clients, which then
\* share one CMD_PROC_STATE_UPDATE.
NodeDetect(n, S) ==
  /\ S # {} /\ S \subseteq (dead \cap RanksOf(n)) \ node[n].term
  /\ "wakeup" \in FaultModel \/ node[n].phase # "checked"
  /\ node' = [node EXCEPT ![n] = NodeSignal([@ EXCEPT !.term = @ \cup S])]
  /\ update' = update \cup {S}
  /\ UNCHANGED <<clientVars, req, runMsg, remoteMsg, stream, mainVars, failVars>>

\* A message appended to the socket of every live client of node n.
ToClients(box, alive, msg) ==
  [r \in Ranks |-> IF r \in alive THEN Append(box[r], msg) ELSE box[r]]

LiveAt(n) == RanksOf(n) \ node[n].term

\* polling_server on CMD_BARRIER: takes inform_failed, so no barrier is open here.
NodeForwardBarrier(n) ==
  /\ stream[n] # <<>> /\ Head(stream[n]).cmd = "BARRIER"
  /\ node[n].phase = "idle"
  /\ node' = [node EXCEPT ![n].performing = FALSE]
  /\ inbox' = ToClients(inbox, LiveAt(n), Head(stream[n]))
  /\ stream' = [stream EXCEPT ![n] = Tail(@)]
  /\ UNCHANGED <<cl, round, told, dead, req, runMsg, remoteMsg, update, mainVars,
                 failVars>>

\* polling_server on CMD_INFORM_PROC_FAILED.  A node that has lost all its clients
\* (local_procs_term) drops it at once.  While the node's clients are in the barrier the next
\* message is read first, it must be their answer, and it is passed on before the
\* notice.
NodeForwardNotice(n) ==
  LET nd == node[n]
      notice == Head(stream[n])
      held == nd.performing
      after == IF held THEN ToClients(inbox, LiveAt(n), stream[n][2]) ELSE inbox
  IN
  /\ stream[n] # <<>> /\ notice.cmd = "INFORM_PROC_FAILED"
  /\ IF nd.term = RanksOf(n)
     THEN /\ stream' = [stream EXCEPT ![n] = Tail(@)]
          /\ UNCHANGED <<inbox, node>>
     ELSE /\ nd.phase = "idle"
          /\ held => Len(stream[n]) >= 2 /\ stream[n][2].cmd = "BARRIER"
          /\ "race" \in FaultModel \/ req \cap RanksOf(n) = {}
          /\ stream' = [stream EXCEPT ![n] = IF held THEN Tail(Tail(@)) ELSE Tail(@)]
          /\ inbox' = ToClients(after, LiveAt(n), notice)
          /\ node' = [node EXCEPT ![n] = [@ EXCEPT !.performing = FALSE,
                         !.informed = @ \cup (notice.ranks \cap RanksOf(n))]]
  /\ UNCHANGED <<cl, round, told, dead, req, runMsg, remoteMsg, update, mainVars,
                 failVars>>

-----------------------------------------------------------------------------
(***************************************************************************)
(* The main server: handle_barrier and handle_remote_barrier.  An arrival  *)
(* is one of its own clients or the report of a node.  The handler of the  *)
(* first one holds inform_failed until everybody has been answered.        *)
(***************************************************************************)
Handler == Size      \* inform_failed is held by the open barrier

Own(r)    == [node |-> 0, who |-> {r}, bcount |-> 1, fprb |-> 0]
Report(n) == [node |-> n, who |-> RanksOf(n), bcount |-> remoteMsg[n].bcount,
              fprb |-> remoteMsg[n].fprb]

\* Clients of a.node that are missing from its report and not yet announced.
LFail(a) == NS - a.bcount - Cardinality(informed \cap RanksOf(a.node))

\* global_failed_proc_reached_barrier: -1 unknown, 1 every unannounced failure
\* reached this barrier, 0 one did not.
Reached(g) == IF g = 0 THEN 0 ELSE 1

\* A client that is known to be dead is ignored; a report never is.
Ignored(a) == a.node = 0 /\ a.who \subseteq term

Register(a, b) ==
  IF Ignored(a) THEN b
  ELSE [count |-> b.count + a.bcount, recvd |-> b.recvd \cup a.who,
        g |-> IF a.node = 0 \/ LFail(a) <= 0 THEN b.g
              ELSE IF LFail(a) = a.fprb THEN Reached(b.g) ELSE 0]

\* Mutant: a remote failure is noted and not taken off the count.
Discount_Kept(b) ==
  IF (term \ informed) \cap b.recvd # {} /\ b.g = -1
  THEN [b EXCEPT !.g = 1] ELSE b

\* Mutant: the count is compared before the failures are taken off it.
Discount_AfterTest(b) ==
  LET local  == (term \ informed) \cap RanksOf(0)
      remote == (term \ informed) \cap b.recvd
  IN
  IF b.count = Size - Cardinality(term) THEN b
  ELSE IF local # {}
  THEN [count |-> b.count - Cardinality(local \cap b.recvd),
        recvd |-> b.recvd \ local,
        g |-> IF local \subseteq b.recvd THEN Reached(b.g) ELSE 0]
  ELSE IF remote # {}
  THEN [count |-> b.count - 1, recvd |-> b.recvd \ remote, g |-> 1]
  ELSE b

\* Mutant: a local failure that never arrived counts as one that did.
Discount_NoFound(b) ==
  IF (term \ informed) \cap RanksOf(0) # {}
  THEN [count |-> b.count - Cardinality((term \ informed) \cap RanksOf(0) \cap b.recvd),
        recvd |-> b.recvd \ (term \ informed), g |-> Reached(b.g)]
  ELSE b

\* The loops over global_proc_state that follow every read of num_failed.
Discount(b) ==
  LET new    == IF Cardinality(term) > Cardinality(informed) THEN term \ informed
                ELSE {}
      local  == new \cap RanksOf(0)
      remote == new \cap b.recvd
  IN
  IF local # {}
  THEN [count |-> b.count - Cardinality(local \cap b.recvd),
        recvd |-> b.recvd \ local,
        g |-> IF local \subseteq b.recvd THEN Reached(b.g) ELSE 0]
  ELSE IF remote # {} /\ b.g = -1
  THEN [count |-> b.count - 1, recvd |-> b.recvd \ {Min(remote)}, g |-> 1]
  ELSE b

\* num_failed is read, failures are discounted, the loop condition is evaluated.
Check(b) ==
  LET d == Discount(b) IN
  /\ count' = d.count /\ recvd' = d.recvd /\ gfprb' = d.g
  /\ seen' = Cardinality(term)
  /\ phase' = IF d.count < Size - Cardinality(term) THEN "checked" ELSE "full"

Here == [count |-> count, recvd |-> recvd, g |-> gfprb]
CountFree == phase \in {"idle", "waiting", "woken"} /\ ~jam
Signal == phase' = IF phase = "waiting" THEN "woken" ELSE phase

Arrival(a) ==
  /\ CountFree
  /\ \/ /\ count = 0 /\ phase = "idle"
        /\ phase' = "locking" /\ first' = {a}
        /\ UNCHANGED <<count, recvd, gfprb, jam>>
     \/ /\ count = 0 /\ phase # "idle"
        /\ jam' = TRUE
        /\ UNCHANGED <<phase, first, count, recvd, gfprb>>
     \/ /\ count # 0
        /\ LET b == Register(a, Here) IN
             /\ count' = b.count /\ recvd' = b.recvd /\ gfprb' = b.g
             /\ IF ~Ignored(a) /\ b.count >= Size - Cardinality(term)
                THEN Signal ELSE UNCHANGED phase
        /\ UNCHANGED <<first, jam>>
  /\ UNCHANGED <<clientVars, runMsg, update, stream, node, seen, failVars>>

ClientArrival(r) ==
  /\ r \in req /\ NodeOf(r) = 0
  /\ Arrival(Own(r))
  /\ req' = req \ {r}
  /\ UNCHANGED remoteMsg

\* Without "late" the threads of the main server take a node's connections in the
\* order in which the node made them.
ReportArrival(n) ==
  /\ remoteMsg[n] # NoReport
  /\ "late" \in FaultModel \/ runMsg[n] = 0
  /\ Arrival(Report(n))
  /\ remoteMsg' = [remoteMsg EXCEPT ![n] = NoReport]
  /\ UNCHANGED req

\* The first arrival gets inform_failed and opens the barrier.  Without "order" an
\* informer woken by the end of the previous barrier is faster.
Open ==
  /\ phase = "locking" /\ infOwner = Free
  /\ "order" \in FaultModel \/ \A r \in Ranks : inf[r] \notin {"woken", "relock"}
  /\ infOwner' = Handler /\ first' = {}
  /\ LET a == CHOOSE a \in first : TRUE IN
       Check(Register(a, [count |-> 0, recvd |-> {}, g |-> -1]))
  /\ UNCHANGED <<clientVars, netVars, node, jam, term, informed, failReady, running,
                 runOwner, inf, batch>>

Sleep ==
  /\ phase = "checked" /\ phase' = "waiting"
  /\ UNCHANGED <<clientVars, netVars, node, count, recvd, gfprb, seen, first, jam,
                 failVars>>

Wake ==
  /\ phase = "woken" /\ ~jam
  /\ Check(Here)
  /\ UNCHANGED <<clientVars, netVars, node, first, jam, failVars>>

\* Everyone is here: CMD_BARRIER to the nodes and to the clients of this one.
Release ==
  LET msg == Barrier(failReady /\ gfprb # 1) IN
  /\ phase = "full" /\ phase' = "ending"
  /\ "window" \in FaultModel \/ \A r \in Ranks : inf[r] # "counted"
  /\ stream' = [n \in Remote |-> Append(stream[n], msg)]
  /\ inbox' = ToClients(inbox, RanksOf(0) \ term, msg)
  /\ UNCHANGED <<cl, round, told, dead, req, runMsg, remoteMsg, update, node, count,
                 recvd, gfprb, seen, first, jam, failVars>>

\* Mutant: the count is left as it is.
EndBarrier_NoReset ==
  /\ phase = "ending" /\ runOwner = Free
  /\ phase' = "idle" /\ gfprb' = -1 /\ recvd' = {}
  /\ running' = FALSE /\ infOwner' = Free
  /\ inf' = [r \in Ranks |-> IF inf[r] = "rwait" THEN "woken" ELSE inf[r]]
  /\ UNCHANGED <<clientVars, netVars, node, count, seen, first, jam, term, informed,
                 failReady, runOwner, batch>>

\* Mutant: no broadcast on parep_mpi_barrier_running_cond.
EndBarrier_NoBroadcast ==
  /\ phase = "ending" /\ runOwner = Free
  /\ phase' = "idle" /\ count' = 0 /\ gfprb' = -1 /\ recvd' = {}
  /\ running' = FALSE /\ infOwner' = Free
  /\ UNCHANGED <<clientVars, netVars, node, seen, first, jam, term, informed,
                 failReady, runOwner, inf, batch>>

EndBarrier ==
  /\ phase = "ending" /\ runOwner = Free
  /\ phase' = "idle" /\ count' = 0 /\ gfprb' = -1 /\ recvd' = {}
  /\ running' = FALSE /\ infOwner' = Free
  /\ inf' = [r \in Ranks |-> IF inf[r] = "rwait" THEN "woken" ELSE inf[r]]
  /\ UNCHANGED <<clientVars, netVars, node, seen, first, jam, term, informed,
                 failReady, runOwner, batch>>

\* handle_inform_barrier_running.  With "reset" it can be about the next barrier and
\* come before EndBarrier clears the flag for this one.
BarrierRunning(n) ==
  /\ runMsg[n] > 0 /\ runOwner = Free
  /\ "reset" \in FaultModel \/ phase # "ending"
  /\ runMsg' = [runMsg EXCEPT ![n] = @ - 1]
  /\ running' = TRUE
  /\ UNCHANGED <<clientVars, req, remoteMsg, update, stream, node, mainVars, term,
                 informed, failReady, infOwner, runOwner, inf, batch>>

-----------------------------------------------------------------------------
(***************************************************************************)
(* The main server's informers: the thread that learns of a death counts   *)
(* it, wakes the barrier, and announces it once it holds inform_failed and *)
(* no node has said that a barrier is running.                             *)
(*   none -> [counted ->] lock -> test -> send -> done                     *)
(*                                 test -> rwait -> woken -> relock -> send *)
(***************************************************************************)
\* handle_waitpid_output: one thread, so one local notice at a time, for all the
\* deaths of one waitpid output.
DetectLocal(S) ==
  /\ S # {} /\ S \subseteq (dead \cap RanksOf(0)) \ term
  /\ \A q \in RanksOf(0) : inf[q] \in {"none", "done"}
  /\ "wakeup" \in FaultModel \/ phase # "checked"
  /\ term' = term \cup S /\ failReady' = TRUE
  /\ inf' = [inf EXCEPT ![Min(S)] = "lock"] /\ batch' = [batch EXCEPT ![Min(S)] = S]
  /\ Signal
  /\ UNCHANGED <<clientVars, netVars, node, count, recvd, gfprb, seen, first, jam,
                 informed, running, infOwner, runOwner>>

\* Mutant: the waiting barrier handler is not signalled.
HandleUpdate_NoSignal(S) ==
  /\ S \in update
  /\ "late" \in FaultModel \/ runMsg[NodeOf(Min(S))] = 0
  /\ update' = update \ {S}
  /\ term' = term \cup S
  /\ inf' = [inf EXCEPT ![Min(S)] = "counted"] /\ batch' = [batch EXCEPT ![Min(S)] = S]
  /\ UNCHANGED <<clientVars, req, runMsg, remoteMsg, stream, node, mainVars, informed,
                 failReady, running, infOwner, runOwner>>

\* handle_proc_state_update, up to the first unlock of proc_state_mutex.
HandleUpdate(S) ==
  /\ S \in update
  /\ "late" \in FaultModel \/ runMsg[NodeOf(Min(S))] = 0
  /\ "wakeup" \in FaultModel \/ phase # "checked"
  /\ update' = update \ {S}
  /\ term' = term \cup S
  /\ inf' = [inf EXCEPT ![Min(S)] = "counted"] /\ batch' = [batch EXCEPT ![Min(S)] = S]
  /\ Signal
  /\ UNCHANGED <<clientVars, req, runMsg, remoteMsg, stream, node, count, recvd, gfprb,
                 seen, first, jam, informed, failReady, running, infOwner, runOwner>>

RaiseFailReady(r) ==
  /\ inf[r] = "counted"
  /\ failReady' = TRUE
  /\ inf' = [inf EXCEPT ![r] = "lock"]
  /\ UNCHANGED <<clientVars, netVars, node, mainVars, term, informed, running,
                 infOwner, runOwner, batch>>

LockInform(r) ==
  /\ inf[r] = "lock" /\ infOwner = Free
  /\ "race" \in FaultModel \/ Unanswered(0) = {}
  /\ infOwner' = r
  /\ inf' = [inf EXCEPT ![r] = "test"]
  /\ UNCHANGED <<clientVars, netVars, node, mainVars, term, informed, failReady,
                 running, runOwner, batch>>

\* Mutant: the notice goes out whatever the nodes have said.
TestRunning_Ignored(r) ==
  /\ inf[r] = "test" /\ runOwner = Free
  /\ inf' = [inf EXCEPT ![r] = "send"]
  /\ UNCHANGED <<clientVars, netVars, node, mainVars, term, informed, failReady,
                 running, infOwner, runOwner, batch>>

TestRunning(r) ==
  /\ inf[r] = "test" /\ runOwner = Free
  /\ infOwner' = IF running THEN Free ELSE infOwner
  /\ inf' = [inf EXCEPT ![r] = IF running THEN "rwait" ELSE "send"]
  /\ UNCHANGED <<clientVars, netVars, node, mainVars, term, informed, failReady,
                 running, runOwner, batch>>

\* Back from pthread_cond_wait.  When another barrier is running by now the loop
\* unlocks inform_failed again, which this thread no longer holds.
InformerWoken(r) ==
  /\ inf[r] = "woken" /\ runOwner = Free
  /\ infOwner' = IF running THEN Free ELSE infOwner
  /\ runOwner' = IF running THEN Free ELSE r
  /\ inf' = [inf EXCEPT ![r] = IF running THEN "rwait" ELSE "relock"]
  /\ UNCHANGED <<clientVars, netVars, node, mainVars, term, informed, failReady, running, batch>>

Relock(r) ==
  /\ inf[r] = "relock" /\ infOwner = Free
  /\ infOwner' = r /\ runOwner' = Free
  /\ inf' = [inf EXCEPT ![r] = "send"]
  /\ UNCHANGED <<clientVars, netVars, node, mainVars, term, informed, failReady, running, batch>>

SendNotices(r) ==
  /\ inf[r] = "send"
  /\ stream' = [n \in Remote |-> Append(stream[n], Failed(batch[r]))]
  /\ inbox' = ToClients(inbox, RanksOf(0) \ term, Failed(batch[r]))
  /\ informed' = informed \cup batch[r] /\ failReady' = FALSE
  /\ infOwner' = Free
  /\ inf' = [inf EXCEPT ![r] = "done"]
  /\ UNCHANGED <<cl, round, told, dead, req, runMsg, remoteMsg, update, node, mainVars,
                 term, running, runOwner, batch>>

-----------------------------------------------------------------------------
ClientStep(r) == Arrive(r) \/ ReadBarrier(r) \/ AwaitNotice(r) \/ ReadNotice(r)

NodeStep(n) == \/ NodeSleep(n) \/ NodeWake(n) \/ NodeReport(n)
               \/ NodeForwardBarrier(n) \/ NodeForwardNotice(n)

MainStep == Open \/ Sleep \/ Wake \/ Release \/ EndBarrier

InformStep(r) == \/ RaiseFailReady(r) \/ LockInform(r) \/ TestRunning(r)
                 \/ InformerWoken(r) \/ Relock(r) \/ SendNotices(r)

Step ==
  \/ \E r \in Ranks : \/ ClientStep(r) \/ NodeArrival(r) \/ ClientArrival(r)
                      \/ InformStep(r)
  \/ \E n \in Remote : NodeStep(n) \/ ReportArrival(n) \/ BarrierRunning(n)
  \/ \E S \in SUBSET Ranks : \/ \E n \in Remote : NodeDetect(n, S)
                             \/ DetectLocal(S) \/ HandleUpdate(S)
  \/ MainStep

Next == Step \/ \E r \in Ranks : Crash(r)

Spec == Init /\ [][Next]_vars

\* While some thread of a server or of a client can take a step, one is taken.  No
\* thread is favoured (a behaviour has finitely many steps, so this is enough to
\* bring every one that does not block forever to its end), and nobody has to die.
FairSpec == Spec /\ WF_vars(Step)

-----------------------------------------------------------------------------
\* Type invariant.  Whatever the timings, the count stays within the number of
\* processes, and a process is announced only after it was counted as failed.
TypeOK ==
  /\ cl \in [Ranks -> {"run", "wait", "await"}] /\ round \in [Ranks -> 0..Rounds]
  /\ dead \subseteq Ranks /\ req \subseteq Ranks /\ update \subseteq SUBSET Ranks
  /\ told \in [Ranks -> SUBSET Ranks] /\ batch \in [Ranks -> SUBSET Ranks]
  /\ runMsg \in [Remote -> Nat]
  /\ \A n \in Remote : /\ remoteMsg[n] = NoReport \/ remoteMsg[n].bcount \in 0..NS
                       /\ node[n].arrived \subseteq RanksOf(n)
                       /\ node[n].informed \subseteq node[n].term
                       /\ node[n].phase \in {"idle", "checked", "waiting", "woken", "full"}
  /\ phase \in {"idle", "locking", "checked", "waiting", "woken", "full", "ending"}
  /\ count \in 0..Size /\ gfprb \in -1..1 /\ informed \subseteq term
  /\ infOwner \in Ranks \cup {Free, Handler} /\ runOwner \in Ranks \cup {Free}

\* handle_barrier and handle_remote_barrier, when their loop ends:
\* assert(parep_mpi_barrier_count == parep_mpi_size - nfailed), and
\* perform_local_barrier: assert(parep_mpi_barrier_count == barrier_size - nfailed).
\* Arrivals, reports and discounted failures add up to exactly the processes not
\* known to have failed.
CountExact ==
  /\ phase \in {"full", "ending"} => count = Size - seen
  /\ \A n \in Remote : node[n].phase = "full" =>
                         Cardinality(node[n].arrived) = NS - node[n].seen

\* The barrier is one: a client that has its answer, or has left, is not ahead of a
\* live process that has yet to enter.  A process that dies after it was counted
\* must not stand in for one that is late.
ReleasedTogether ==
  \A r, q \in Ranks \ dead :
    (\E i \in 1..Len(inbox[r]) : inbox[r][i].cmd = "BARRIER") \/ cl[r] # "wait"
      => round[q] >= round[r]

\* parep_mpi_checkpoint_init, waiting for the barrier: assert(out == CMD_BARRIER).
\* What a client in the barrier reads first is its answer, never a notice: a node holds
\* a notice back until the answer of the barrier its clients are in (polling_server),
\* the main server until inform_failed and barrier_running say that none is open.
AnswerIsBarrier ==
  \A r \in Ranks \ dead :
    cl[r] = "wait" /\ inbox[r] # <<>> => Head(inbox[r]).cmd = "BARRIER"

\* polling_server: assert(tempcmd == CMD_BARRIER).  Behind a notice that a node holds
\* back because its clients are in the barrier comes the answer of that barrier.
AnswerFollowsNotice ==
  \A n \in Remote :
    /\ node[n].performing /\ node[n].phase = "idle" /\ Len(stream[n]) >= 2
    /\ stream[n][1].cmd = "INFORM_PROC_FAILED"
    => stream[n][2].cmd = "BARRIER"

\* handle_remote_barrier: assert(lfail >= fprb).  The failed clients a node reports as
\* having reached the barrier are not announced while its report is on the way.
ReportConsistent ==
  \A n \in Remote :
    remoteMsg[n] # NoReport => LFail(Report(n)) >= remoteMsg[n].fprb

\* fail_ready: a client that leaves the barrier after writing its checkpoint, and is
\* not told to wait for a notice, may count on every process that died without
\* reaching this barrier having been announced.
AbsenceAnnounced ==
  [][\A r \in Ranks : ReadBarrier(r) /\ cl'[r] = "run" =>
        \A q \in dead : round[q] >= round[r] \/ q \in informed]_vars

(***************************************************************************)
(* Where the coordinators can stop for good.                               *)
(***************************************************************************)
\* A handler sleeps although its loop would end if it looked again: the death that
\* ends it was signalled between its test and its wait.
Overslept ==
  \/ phase = "waiting" /\ Discount(Here).count >= Size - Cardinality(term)
  \/ \E n \in Remote : node[n].phase = "waiting" /\ NodeCheck(node[n]).phase = "full"

\* A second handler took itself for the first and keeps the count's mutex.
Jammed == jam \/ \E n \in Remote : node[n].jam

\* A handler waits in a barrier in which nobody is counted: it was opened by the
\* CMD_BARRIER of a client that has died.
Ghost ==
  \/ phase = "waiting" /\ recvd = {}
  \/ \E n \in Remote : node[n].phase = "waiting" /\ node[n].arrived = {}

\* An informer holds barrier_running and waits for inform_failed, which is held.
LockCycle == runOwner # Free /\ infOwner # Free

\* barrier_running is set although no barrier goes on, and an informer waits for its
\* end: CMD_INFORM_BARRIER_RUNNING was handled after the barrier it is about.
StaleRunning ==
  /\ running /\ phase = "idle" /\ \E r \in Ranks : inf[r] = "rwait"
  /\ \A n \in Remote : node[n].phase = "idle" /\ ~node[n].performing

\* The barrier is over for everybody and every survivor knows of every death.
Settled ==
  \A r \in Ranks \ dead : cl[r] = "run" /\ dead \subseteq told[r]

\* Whatever the timings: when no thread of a server or a client can go on, everything
\* is done, or one of six things has happened: a client read a notice where it
\* asserts an answer, or the handlers of the barrier and of the notices are in one of
\* the five states above.  Signals, mutexes, held notices and late messages leave
\* no other way to wait for ever.
EndsOnlyInNamedStates ==
  \/ ENABLED Step \/ Settled
  \/ ~AnswerIsBarrier \/ Overslept \/ Jammed \/ Ghost \/ LockCycle \/ StaleRunning

\* Every client that sends CMD_BARRIER is answered and, if told to, gets its notice,
\* unless one of the timings of FaultModel occurs: the signal of handle_waitpid_output
\* and handle_proc_state_update, the reset of the count and the hand-over of
\* inform_failed and barrier_running bring every waiting handler to its end.
EventuallyReleased ==
  \A r \in Ranks : cl[r] # "run" ~> (cl[r] = "run" \/ r \in dead)

\* Every failure is announced to every survivor, though its informer may have to
\* wait for barriers to end.
EventuallyTold ==
  \A r \in Ranks : r \in dead ~> \A q \in Ranks \ dead : r \in told[q]
=============================================================================
