------------------------------- MODULE Plugin -------------------------------
(***************************************************************************)
(* One plugin object of the bot (source/plugin.cpp): the incoming queue    *)
(* with its mutex, the worker thread that runs Plugin::run, and the calls  *)
(* that other threads make on the object: receive, spawn and stop.         *)
(*                                                                         *)
(* Threads.  "main" is the thread of program/ircbot.cpp, which spawns the  *)
(* plugin in Core::startPlugins.  "io" is the only thread of the asio      *)
(* context: it routes messages (receive), executes restartPlugin for the   *)
(* admin port, and runs Core::stop after a connection error or an admin    *)
(* shutdown.  Core::stop also runs on "main" when a signal arrives; the    *)
(* constant Stoppers says which threads may do so.  The worker is the      *)
(* std::thread in m_thread.                                                *)
(*                                                                         *)
(* A message is represented by its arrival number.  A condition-variable   *)
(* wait may end at any time (notify_all, the 500 ms deadline or a spurious *)
(* wake-up), so notify_all itself needs no state.                          *)
(***************************************************************************)
EXTENDS Integers, Sequences

CONSTANTS
  Stoppers,     \* threads that may call stop() as part of Core::stop
  MaxMessages,  \* bound: messages routed to the plugin
  MaxRestarts   \* bound: restartPlugin calls

ASSUME PluginAssumption ==
  /\ Stoppers \subseteq {"main", "io"}
  /\ MaxMessages \in Nat
  /\ MaxRestarts \in Nat

VARIABLES
  m_running,         \* std::atomic<bool> m_running
  m_incoming,        \* std::deque of messages
  m_incoming_mtx,    \* holder of the mutex: "none", "io" or "worker"
  m_command_parser,  \* TRUE iff a CommandParser is installed (by the constructor)
  joinable,          \* m_thread.joinable()
  worker,            \* where the worker thread is in Plugin::run
  pc,                \* where "main" and "io" are in their calls
  restarting,        \* the stop() in progress on "io" belongs to restartPlugin
  restarts,          \* restartPlugin calls so far
  received,          \* messages pushed so far
  taken,             \* messages popped so far
  stopMark           \* value of taken when stop() last cleared m_running

vars == <<m_running, m_incoming, m_incoming_mtx, m_command_parser, joinable,
          worker, pc, restarting, restarts, received, taken, stopMark>>

Threads == {"main", "io"}

WorkerStates == {"none", "entry", "init", "check", "lock", "pred", "wait",
                 "timeout", "handle", "exited"}

PcStates == {"idle", "recvLock", "recvPush", "recvUnlock", "stopCheck",
             "stopSet", "stopJoin", "shutdown", "gone", "spawnSet",
             "spawnThread"}

(***************************************************************************)
(* The object after its constructor and Core::addPlugin: m_running is      *)
(* already TRUE although no thread exists, and messages may be routed to   *)
(* it before main reaches startPlugins.                                    *)
(***************************************************************************)
Init ==
  /\ m_running = TRUE
  /\ m_incoming = <<>>
  /\ m_incoming_mtx = "none"
  /\ m_command_parser \in BOOLEAN
  /\ joinable = FALSE
  /\ worker = "none"
  /\ pc = [t \in Threads |-> IF t = "main" THEN "spawnSet" ELSE "idle"]
  /\ restarting = FALSE
  /\ restarts = 0
  /\ received = 0
  /\ taken = 0
  /\ stopMark = 0

Goto(t, from, to) ==
  /\ pc[t] = from
  /\ pc' = [pc EXCEPT ![t] = to]

WorkerGoto(from, to) ==
  /\ worker = from
  /\ worker' = to

\* Core::stop has destroyed the plugin (m_plugins.clear()).
Gone == \E t \in Threads : pc[t] = "gone"

\* startPlugins has spawned the worker.
Started == pc["main"] \notin {"spawnSet", "spawnThread"}

-----------------------------------------------------------------------------
(* receive(), on the io thread *)

BeginReceive ==
  /\ ~Gone
  /\ received < MaxMessages
  /\ Goto("io", "idle", "recvLock")
  /\ UNCHANGED <<m_running, m_incoming, m_incoming_mtx, m_command_parser,
                 joinable, worker, restarting, restarts, received, taken,
                 stopMark>>

\* Mutant: the queue is used without its mutex.
ReceiveLock_Unlocked ==
  /\ Goto("io", "recvLock", "recvPush")
  /\ UNCHANGED <<m_running, m_incoming, m_incoming_mtx, m_command_parser,
                 joinable, worker, restarting, restarts, received, taken,
                 stopMark>>

ReceiveLock ==
  /\ Goto("io", "recvLock", "recvPush")
  /\ m_incoming_mtx = "none"
  /\ m_incoming_mtx' = "io"
  /\ UNCHANGED <<m_running, m_incoming, m_command_parser, joinable, worker,
                 restarting, restarts, received, taken, stopMark>>

\* Mutant: push_front.
ReceivePush_Front ==
  /\ Goto("io", "recvPush", "recvUnlock")
  /\ m_incoming' = <<received + 1>> \o m_incoming
  /\ received' = received + 1
  /\ UNCHANGED <<m_running, m_incoming_mtx, m_command_parser, joinable,
                 worker, restarting, restarts, taken, stopMark>>

ReceivePush ==
  /\ Goto("io", "recvPush", "recvUnlock")
  /\ m_incoming' = Append(m_incoming, received + 1)
  /\ received' = received + 1
  /\ UNCHANGED <<m_running, m_incoming_mtx, m_command_parser, joinable,
                 worker, restarting, restarts, taken, stopMark>>

\* lock.unlock() and notify_all().
ReceiveUnlock ==
  /\ Goto("io", "recvUnlock", "idle")
  /\ m_incoming_mtx' = "none"
  /\ UNCHANGED <<m_running, m_incoming, m_command_parser, joinable, worker,
                 restarting, restarts, received, taken, stopMark>>

-----------------------------------------------------------------------------
(* stop(), called by thread t from Core::stop or, on io, restartPlugin *)

\* Core::stopPlugins followed by m_plugins.clear(), on thread t.  (A stop that
\* overlaps main's startup is the subject of module Core.)
BeginStop(t) ==
  /\ t \in Stoppers /\ Started /\ ~Gone
  /\ Goto(t, "idle", "stopCheck")
  /\ UNCHANGED <<m_running, m_incoming, m_incoming_mtx, m_command_parser,
                 joinable, worker, restarting, restarts, received, taken,
                 stopMark>>

\* restartPlugin: the admin port is started after startPlugins.
BeginRestart ==
  /\ Started /\ ~Gone
  /\ restarts < MaxRestarts
  /\ Goto("io", "idle", "stopCheck")
  /\ restarting' = TRUE
  /\ restarts' = restarts + 1
  /\ UNCHANGED <<m_running, m_incoming, m_incoming_mtx, m_command_parser,
                 joinable, worker, received, taken, stopMark>>

\* What thread t does when its stop() call returns.
AfterStop(t) == IF t = "io" /\ restarting THEN "spawnSet" ELSE "gone"

\* if (not m_running) return;
StopCheck(t) ==
  /\ Goto(t, "stopCheck", IF m_running THEN "stopSet" ELSE AfterStop(t))
  /\ UNCHANGED <<m_running, m_incoming, m_incoming_mtx, m_command_parser,
                 joinable, worker, restarting, restarts, received, taken,
                 stopMark>>

\* m_running = false;
StopSet(t) ==
  /\ Goto(t, "stopSet", "stopJoin")
  /\ m_running' = FALSE
  /\ stopMark' = taken
  /\ UNCHANGED <<m_incoming, m_incoming_mtx, m_command_parser, joinable,
                 worker, restarting, restarts, received, taken>>

\* Mutant: detach() in place of join().
StopJoin_Detach(t) ==
  /\ Goto(t, "stopJoin", "shutdown")
  /\ joinable' = FALSE
  /\ UNCHANGED <<m_running, m_incoming, m_incoming_mtx, m_command_parser,
                 worker, restarting, restarts, received, taken, stopMark>>

\* if (m_thread.joinable()) m_thread.join();  blocks until the worker is done.
StopJoin(t) ==
  /\ Goto(t, "stopJoin", "shutdown")
  /\ joinable => worker = "exited"
  /\ joinable' = FALSE
  /\ worker' = IF joinable THEN "none" ELSE worker
  /\ UNCHANGED <<m_running, m_incoming, m_incoming_mtx, m_command_parser,
                 restarting, restarts, received, taken, stopMark>>

\* onShutdown(), then the return of stop().
Shutdown(t) ==
  /\ Goto(t, "shutdown", AfterStop(t))
  /\ UNCHANGED <<m_running, m_incoming, m_incoming_mtx, m_command_parser,
                 joinable, worker, restarting, restarts, received, taken,
                 stopMark>>

-----------------------------------------------------------------------------
(* spawn(), called by main in startPlugins and by io in restartPlugin *)

SpawnSet(t) ==
  /\ Goto(t, "spawnSet", "spawnThread")
  /\ m_running' = TRUE
  /\ UNCHANGED <<m_incoming, m_incoming_mtx, m_command_parser, joinable,
                 worker, restarting, restarts, received, taken, stopMark>>

\* m_thread = std::thread(plugin_call), which terminates the process when
\* m_thread is joinable: that step is not taken (see QuiescentOutsideRun).
SpawnThread(t) ==
  /\ Goto(t, "spawnThread", "idle")
  /\ ~joinable
  /\ joinable' = TRUE
  /\ worker' = "entry"
  /\ restarting' = (restarting /\ t # "io")
  /\ UNCHANGED <<m_running, m_incoming, m_incoming_mtx, m_command_parser,
                 restarts, received, taken, stopMark>>

-----------------------------------------------------------------------------
(* run(), on the worker thread *)

\* m_running = true;  on entry, in addition to the assignment in spawn().
RunEntry ==
  /\ WorkerGoto("entry", "init")
  /\ m_running' = TRUE
  /\ UNCHANGED <<m_incoming, m_incoming_mtx, m_command_parser, joinable, pc,
                 restarting, restarts, received, taken, stopMark>>

\* onInit() returns, or throws out of run() into the handler in spawn().
OnInit ==
  /\ \/ WorkerGoto("init", "check")
     \/ WorkerGoto("init", "exited")
  /\ UNCHANGED <<m_running, m_incoming, m_incoming_mtx, m_command_parser,
                 joinable, pc, restarting, restarts, received, taken, stopMark>>

\* Mutant: while (true)
LoopCheck_Forever ==
  /\ WorkerGoto("check", "lock")
  /\ UNCHANGED <<m_running, m_incoming, m_incoming_mtx, m_command_parser,
                 joinable, pc, restarting, restarts, received, taken, stopMark>>

\* while (isRunning())
LoopCheck ==
  /\ WorkerGoto("check", IF m_running THEN "lock" ELSE "exited")
  /\ UNCHANGED <<m_running, m_incoming, m_incoming_mtx, m_command_parser,
                 joinable, pc, restarting, restarts, received, taken, stopMark>>

\* std::unique_lock<std::mutex> lock{m_incoming_mtx};
RunLock ==
  /\ WorkerGoto("lock", "pred")
  /\ m_incoming_mtx = "none"
  /\ m_incoming_mtx' = "worker"
  /\ UNCHANGED <<m_running, m_incoming, m_command_parser, joinable, pc,
                 restarting, restarts, received, taken, stopMark>>

\* Mutant: the queue is emptied although one message is returned.
GetCommand_DropsBacklog(from) ==
  /\ WorkerGoto(from, "handle")
  /\ m_incoming # <<>>
  /\ m_incoming' = <<>>
  /\ taken' = received
  /\ UNCHANGED <<m_running, m_incoming_mtx, m_command_parser, joinable, pc,
                 restarting, restarts, received, stopMark>>

\* getCommand(): front() and pop_front(); the mutex stays locked.
GetCommand(from) ==
  /\ WorkerGoto(from, "handle")
  /\ m_incoming # <<>>
  /\ m_incoming' = Tail(m_incoming)
  /\ taken' = taken + 1
  /\ UNCHANGED <<m_running, m_incoming_mtx, m_command_parser, joinable, pc,
                 restarting, restarts, received, stopMark>>

\* wait_for with an empty queue: release the mutex and block.
WaitBlock ==
  /\ WorkerGoto("pred", "wait")
  /\ m_incoming = <<>>
  /\ m_incoming_mtx' = "none"
  /\ UNCHANGED <<m_running, m_incoming, m_command_parser, joinable, pc,
                 restarting, restarts, received, taken, stopMark>>

\* A notification or a spurious wake-up: the mutex is locked again and the
\* predicate is tested again.
WaitWake ==
  /\ WorkerGoto("wait", "pred")
  /\ m_incoming_mtx = "none"
  /\ m_incoming_mtx' = "worker"
  /\ UNCHANGED <<m_running, m_incoming, m_command_parser, joinable, pc,
                 restarting, restarts, received, taken, stopMark>>

\* The 500 ms are over: the mutex is locked again and wait_for returns the
\* value of the predicate.
WaitDeadline ==
  /\ WorkerGoto("wait", "timeout")
  /\ m_incoming_mtx = "none"
  /\ m_incoming_mtx' = "worker"
  /\ UNCHANGED <<m_running, m_incoming, m_command_parser, joinable, pc,
                 restarting, restarts, received, taken, stopMark>>

\* Mutant: the wait is repeated without a look at isRunning().
WaitTimeout_Stay ==
  /\ WorkerGoto("timeout", "lock")
  /\ m_incoming = <<>>
  /\ m_incoming_mtx' = "none"
  /\ UNCHANGED <<m_running, m_incoming, m_command_parser, joinable, pc,
                 restarting, restarts, received, taken, stopMark>>

\* wait_for returns false: the lock leaves its scope and the loop goes on.
WaitTimeout ==
  /\ WorkerGoto("timeout", "check")
  /\ m_incoming = <<>>
  /\ m_incoming_mtx' = "none"
  /\ UNCHANGED <<m_running, m_incoming, m_command_parser, joinable, pc,
                 restarting, restarts, received, taken, stopMark>>

\* Mutant: the lock is not released on the way to the next iteration.
Handle_LockLeaked ==
  /\ WorkerGoto("handle", "check")
  /\ UNCHANGED <<m_running, m_incoming, m_incoming_mtx, m_command_parser,
                 joinable, pc, restarting, restarts, received, taken, stopMark>>

(***************************************************************************)
(* onMessage or onCommand, run with m_incoming_mtx locked.  With a command *)
(* parser every exception of parsing or of the command function is caught  *)
(* in the loop; without one an exception of onMessage ends the thread and  *)
(* leaves m_running TRUE.  The lock is released on every path.             *)
(***************************************************************************)
Handle ==
  /\ \/ WorkerGoto("handle", "check")
     \/ ~m_command_parser /\ WorkerGoto("handle", "exited")
  /\ m_incoming_mtx' = "none"
  /\ UNCHANGED <<m_running, m_incoming, m_command_parser, joinable, pc,
                 restarting, restarts, received, taken, stopMark>>

-----------------------------------------------------------------------------
Receive == BeginReceive \/ ReceiveLock \/ ReceivePush \/ ReceiveUnlock

Stop(t) == StopCheck(t) \/ StopSet(t) \/ StopJoin(t) \/ Shutdown(t)

Spawn(t) == SpawnSet(t) \/ SpawnThread(t)

Run == \/ RunEntry \/ OnInit \/ LoopCheck \/ RunLock
       \/ GetCommand("pred") \/ GetCommand("timeout")
       \/ WaitBlock \/ WaitWake \/ WaitDeadline \/ WaitTimeout \/ Handle

Next ==
  \/ Receive
  \/ BeginRestart
  \/ \E t \in Threads : BeginStop(t) \/ Stop(t) \/ Spawn(t)
  \/ Run

Spec == Init /\ [][Next]_vars

(***************************************************************************)
(* Threads inside a call and the worker keep running; nobody has to send a *)
(* message or to ask for a stop.  The deadline of wait_for is an absolute  *)
(* time computed once, so it cannot be postponed for ever by wake-ups:     *)
(* strong fairness of WaitDeadline.                                        *)
(***************************************************************************)
Fairness ==
  /\ WF_vars(ReceivePush) /\ WF_vars(ReceiveUnlock)
  /\ \A t \in Threads : WF_vars(Stop(t)) /\ WF_vars(Spawn(t))
  /\ WF_vars(Run) /\ SF_vars(WaitDeadline)

FairSpec == Spec /\ Fairness

-----------------------------------------------------------------------------
(* Properties *)

\* The variables keep their types.
TypeOK ==
  /\ m_running \in BOOLEAN
  /\ m_incoming \in Seq(Nat)
  /\ m_incoming_mtx \in {"none", "io", "worker"}
  /\ m_command_parser \in BOOLEAN
  /\ joinable \in BOOLEAN
  /\ worker \in WorkerStates
  /\ pc \in [Threads -> PcStates]
  /\ restarting \in BOOLEAN
  /\ restarts \in Nat
  /\ received \in Nat
  /\ taken \in Nat
  /\ stopMark \in Nat

\* receive() and run(): the queue holds exactly the messages that arrived and
\* were not popped yet, in arrival order, across any number of restarts:
\* nothing is lost, duplicated or reordered between the two threads.
QueueFifo ==
  /\ Len(m_incoming) = received - taken
  /\ \A i \in 1..Len(m_incoming) : m_incoming[i] = taken + i

\* m_incoming_mtx: io never touches the deque while the worker does.
QueueExclusive ==
  ~(pc["io"] \in {"recvPush", "recvUnlock"}
      /\ worker \in {"pred", "timeout", "handle"})

\* stop(): onShutdown, the destruction of the plugin and a new spawn only
\* happen when no worker thread exists.  (A spawn over a joinable m_thread
\* and the destruction of one both terminate the process.)
QuiescentOutsideRun ==
  \A t \in Threads :
    pc[t] \in {"shutdown", "gone", "spawnSet", "spawnThread"}
      => worker = "none" /\ ~joinable

\* stop(): once m_running is cleared, the worker pops at most one more
\* message before it terminates.
AtMostOneAfterStop ==
  worker # "none" /\ ~m_running => taken <= stopMark + 1

\* run(): a message in the queue is popped, unless the plugin is destroyed or
\* its worker was ended by an exception.
QueueServed ==
  \A n \in 1..MaxMessages :
    received >= n ~> \/ taken >= n
                     \/ pc["io"] = "gone"
                     \/ worker = "exited" /\ m_running

\* stop(): the join ends if the worker is past its first statement when
\* m_running is cleared.
StopReturnsOnceStarted ==
  (pc["io"] = "stopJoin" /\ ~m_running /\ worker # "entry")
    ~> pc["io"] # "stopJoin"

-----------------------------------------------------------------------------
(* Refinement *)

contractPhase ==
  IF worker = "none" THEN "off" ELSE IF m_running THEN "on" ELSE "stopping"

contractGrace ==
  IF contractPhase = "stopping" THEN stopMark + 1 - taken ELSE 1

Contract == INSTANCE PluginContract WITH
  phase <- contractPhase, queue <- m_incoming, accepted <- received,
  grace <- contractGrace

\* receive, spawn, stop and run together implement the contract of a plugin:
\* delivery in arrival order, exactly once, only between spawn and the end of
\* stop, and at most one delivery after m_running is cleared.
ImplementsContract == Contract!Spec

=============================================================================
