---------------------------- MODULE PluginProofs ----------------------------
(***************************************************************************)
(* Theorems about Plugin, for every bound on messages and restarts.        *)
(*                                                                         *)
(* QueueFifo and QueueExclusive hold whichever threads call Core::stop;    *)
(* they rest on SafeInv.  What stop() promises holds when only the io      *)
(* thread stops plugins, and rests on StopInv.                             *)
(***************************************************************************)
EXTENDS Plugin, TLAPS

\* Who holds m_incoming_mtx is determined by where the two threads are.
MutexInv ==
  /\ m_incoming_mtx = "io" <=> pc["io"] \in {"recvPush", "recvUnlock"}
  /\ m_incoming_mtx = "worker" <=> worker \in {"pred", "timeout", "handle"}

\* m_thread is joinable exactly as long as there is a worker to join.
JoinInv == joinable <=> worker # "none"

\* Inductive for every set of stopping threads.
SafeInv == TypeOK /\ MutexInv /\ JoinInv /\ QueueFifo

\* main only starts the plugin, and the io thread does nothing but receive
\* before that is done.
StartInv ==
  /\ pc["main"] \in {"idle", "spawnSet", "spawnThread"}
  /\ pc["main"] # "idle" =>
       /\ worker = "none"
       /\ m_running
       /\ pc["io"] \in {"idle", "recvLock", "recvPush", "recvUnlock"}

\* Between the join and the next std::thread there is no worker, and
\* m_running is FALSE only from StopSet to the next SpawnSet.
IoInv ==
  /\ pc["io"] \in {"shutdown", "gone", "spawnSet", "spawnThread"}
       => worker = "none"
  /\ ~m_running => pc["io"] \in {"stopJoin", "shutdown", "gone", "spawnSet"}

\* The one message after stop() is taken by a worker that had already tested
\* isRunning(); after it the worker can only leave the loop.
GraceInv ==
  worker # "none" /\ ~m_running =>
    \/ taken = stopMark
    \/ taken = stopMark + 1 /\ worker \in {"handle", "check", "exited"}

\* Inductive when only the io thread stops plugins.
StopInv == SafeInv /\ StartInv /\ IoInv /\ GraceInv

-----------------------------------------------------------------------------
\* Queue operations of receive() and getCommand(): pushing the next arrival
\* keeps the deque a contiguous run of arrival numbers.
LEMMA PushKeepsFifo ==
  ASSUME NEW q \in Seq(Nat), NEW r \in Nat, NEW k \in Nat,
         Len(q) = r - k,
         \A i \in 1..Len(q) : q[i] = k + i
  PROVE  /\ Append(q, r + 1) \in Seq(Nat)
         /\ Len(Append(q, r + 1)) = (r + 1) - k
         /\ \A i \in 1..Len(Append(q, r + 1)) : Append(q, r + 1)[i] = k + i
  OBVIOUS

\* Popping the front keeps the deque a contiguous run of arrival numbers.
LEMMA PopKeepsFifo ==
  ASSUME NEW q \in Seq(Nat), NEW r \in Nat, NEW k \in Nat, q # <<>>,
         Len(q) = r - k,
         \A i \in 1..Len(q) : q[i] = k + i
  PROVE  /\ Tail(q) \in Seq(Nat)
         /\ Len(Tail(q)) = r - (k + 1)
         /\ \A i \in 1..Len(Tail(q)) : Tail(q)[i] = (k + 1) + i
  OBVIOUS

\* The constructor establishes SafeInv.
LEMMA SafeInit == Init => SafeInv
<1> SUFFICES ASSUME Init PROVE SafeInv
  OBVIOUS
<1>1. TypeOK
  <2>1. pc \in [Threads -> PcStates]
    BY DEF Init, Threads, PcStates
  <2>2. m_incoming \in Seq(Nat)
    BY DEF Init
  <2> QED
    BY <2>1, <2>2 DEF Init, TypeOK, WorkerStates
<1>2. MutexInv /\ JoinInv
  BY DEF Init, MutexInv, JoinInv, Threads
<1>3. QueueFifo
  BY DEF Init, QueueFifo
<1> QED
  BY <1>1, <1>2, <1>3 DEF SafeInv

\* Every step of every thread preserves SafeInv.
LEMMA SafeStep == SafeInv /\ [Next]_vars => SafeInv'
<1> SUFFICES ASSUME SafeInv, [Next]_vars PROVE SafeInv'
  OBVIOUS
<1> USE DEF SafeInv, TypeOK, MutexInv, JoinInv, Threads, WorkerStates,
            PcStates, Goto, WorkerGoto
<1>1. CASE BeginReceive
  BY <1>1 DEF BeginReceive, QueueFifo
<1>2. CASE ReceiveLock
  BY <1>2 DEF ReceiveLock, QueueFifo
<1>3. CASE ReceivePush
  <2>1. /\ m_incoming' = Append(m_incoming, received + 1)
        /\ received' = received + 1
        /\ taken' = taken
    BY <1>3 DEF ReceivePush
  <2>2. /\ m_incoming \in Seq(Nat) /\ received \in Nat /\ taken \in Nat
        /\ Len(m_incoming) = received - taken
        /\ \A i \in 1..Len(m_incoming) : m_incoming[i] = taken + i
    BY DEF QueueFifo
  <2>3. /\ m_incoming' \in Seq(Nat)
        /\ Len(m_incoming') = received' - taken'
        /\ \A i \in 1..Len(m_incoming') : m_incoming'[i] = taken' + i
    BY <2>1, <2>2, PushKeepsFifo
  <2>4. QueueFifo' /\ m_incoming' \in Seq(Nat)
    BY <2>3 DEF QueueFifo
  <2> QED
    BY <1>3, <2>4 DEF ReceivePush
<1>4. CASE ReceiveUnlock
  BY <1>4 DEF ReceiveUnlock, QueueFifo
<1>5. CASE BeginRestart
  BY <1>5 DEF BeginRestart, QueueFifo
<1>6. ASSUME NEW t \in Threads, BeginStop(t) PROVE SafeInv'
  BY <1>6 DEF BeginStop, QueueFifo
<1>7. ASSUME NEW t \in Threads, Stop(t) PROVE SafeInv'
  <2>1. CASE StopCheck(t)
    BY <2>1 DEF StopCheck, AfterStop, QueueFifo
  <2>2. CASE StopSet(t)
    BY <2>2 DEF StopSet, QueueFifo
  <2>3. CASE StopJoin(t)
    BY <2>3 DEF StopJoin, QueueFifo
  <2>4. CASE Shutdown(t)
    BY <2>4 DEF Shutdown, AfterStop, QueueFifo
  <2> QED
    BY <1>7, <2>1, <2>2, <2>3, <2>4 DEF Stop
<1>8. ASSUME NEW t \in Threads, Spawn(t) PROVE SafeInv'
  <2>1. CASE SpawnSet(t)
    BY <2>1 DEF SpawnSet, QueueFifo
  <2>2. CASE SpawnThread(t)
    BY <2>2 DEF SpawnThread, QueueFifo
  <2> QED
    BY <1>8, <2>1, <2>2 DEF Spawn
<1>9. CASE Run
  <2>1. CASE RunEntry
    BY <2>1 DEF RunEntry, QueueFifo
  <2>2. CASE OnInit
    BY <2>2 DEF OnInit, QueueFifo
  <2>3. CASE LoopCheck
    BY <2>3 DEF LoopCheck, QueueFifo
  <2>4. CASE RunLock
    BY <2>4 DEF RunLock, QueueFifo
  <2>5. ASSUME NEW from \in {"pred", "timeout"}, GetCommand(from)
        PROVE  SafeInv'
    <3>1. QueueFifo' /\ m_incoming' \in Seq(Nat)
      BY <2>5, PopKeepsFifo DEF GetCommand, QueueFifo
    <3> QED
      BY <2>5, <3>1 DEF GetCommand
  <2>6. CASE WaitBlock
    BY <2>6 DEF WaitBlock, QueueFifo
  <2>7. CASE WaitWake
    BY <2>7 DEF WaitWake, QueueFifo
  <2>8. CASE WaitDeadline
    BY <2>8 DEF WaitDeadline, QueueFifo
  <2>9. CASE WaitTimeout
    BY <2>9 DEF WaitTimeout, QueueFifo
  <2>10. CASE Handle
    BY <2>10 DEF Handle, QueueFifo
  <2> QED
    BY <1>9, <2>1, <2>2, <2>3, <2>4, <2>5, <2>6, <2>7, <2>8, <2>9, <2>10
       DEF Run
<1>10. CASE UNCHANGED vars
  BY <1>10 DEF vars, QueueFifo
<1> QED
  BY <1>1, <1>2, <1>3, <1>4, <1>5, <1>6, <1>7, <1>8, <1>9, <1>10
     DEF Next, Receive

\* SafeInv is an invariant, whichever threads stop plugins.
LEMMA SafeInvariant == Spec => []SafeInv
  BY SafeInit, SafeStep, PTL DEF Spec

\* The constructor establishes StopInv.
LEMMA StopInit == Init => StopInv
<1> SUFFICES ASSUME Init PROVE StopInv
  OBVIOUS
<1>1. SafeInv
  BY SafeInit
<1>2. StartInv /\ IoInv /\ GraceInv
  BY DEF Init, StartInv, IoInv, GraceInv, Threads
<1> QED
  BY <1>1, <1>2 DEF StopInv

\* With the io thread as the only one that stops plugins, every step
\* preserves StopInv.
LEMMA StopStep ==
  ASSUME Stoppers \subseteq {"io"}
  PROVE  StopInv /\ [Next]_vars => StopInv'
<1> SUFFICES ASSUME StopInv, [Next]_vars PROVE StopInv'
  OBVIOUS
<1>0. SafeInv'
  BY SafeStep DEF StopInv
<1> SUFFICES StartInv' /\ IoInv' /\ GraceInv'
  BY <1>0 DEF StopInv
<1> USE DEF StopInv, SafeInv, TypeOK, MutexInv, JoinInv, StartInv, IoInv,
            GraceInv, Threads, WorkerStates, PcStates, Goto, WorkerGoto
<1>1. CASE BeginReceive
  BY <1>1 DEF BeginReceive
<1>2. CASE ReceiveLock
  BY <1>2 DEF ReceiveLock
<1>3. CASE ReceivePush
  BY <1>3 DEF ReceivePush
<1>4. CASE ReceiveUnlock
  BY <1>4 DEF ReceiveUnlock
<1>5. CASE BeginRestart
  BY <1>5 DEF BeginRestart, Started
<1>6. ASSUME NEW t \in Threads, BeginStop(t)
      PROVE  StartInv' /\ IoInv' /\ GraceInv'
  <2>1. t = "io"
    BY <1>6 DEF BeginStop
  <2> QED
    BY <1>6, <2>1 DEF BeginStop, Started
<1>7. ASSUME NEW t \in Threads, Stop(t)
      PROVE  StartInv' /\ IoInv' /\ GraceInv'
  <2>0. t = "io"
    BY <1>7 DEF Stop, StopCheck, StopSet, StopJoin, Shutdown
  <2>1. CASE StopCheck(t)
    BY <2>0, <2>1 DEF StopCheck, AfterStop
  <2>2. CASE StopSet(t)
    BY <2>0, <2>2 DEF StopSet
  <2>3. CASE StopJoin(t)
    BY <2>0, <2>3 DEF StopJoin
  <2>4. CASE Shutdown(t)
    BY <2>0, <2>4 DEF Shutdown, AfterStop
  <2> QED
    BY <1>7, <2>1, <2>2, <2>3, <2>4 DEF Stop
<1>8. ASSUME NEW t \in Threads, Spawn(t)
      PROVE  StartInv' /\ IoInv' /\ GraceInv'
  <2>1. CASE SpawnSet(t)
    BY <2>1 DEF SpawnSet
  <2>2. CASE SpawnThread(t)
    BY <2>2 DEF SpawnThread
  <2> QED
    BY <1>8, <2>1, <2>2 DEF Spawn
<1>9. CASE Run
  <2>1. CASE RunEntry
    BY <2>1 DEF RunEntry
  <2>2. CASE OnInit
    BY <2>2 DEF OnInit
  <2>3. CASE LoopCheck
    BY <2>3 DEF LoopCheck
  <2>4. CASE RunLock
    BY <2>4 DEF RunLock
  <2>5. ASSUME NEW from \in {"pred", "timeout"}, GetCommand(from)
        PROVE  StartInv' /\ IoInv' /\ GraceInv'
    BY <2>5 DEF GetCommand
  <2>6. CASE WaitBlock
    BY <2>6 DEF WaitBlock
  <2>7. CASE WaitWake
    BY <2>7 DEF WaitWake
  <2>8. CASE WaitDeadline
    BY <2>8 DEF WaitDeadline
  <2>9. CASE WaitTimeout
    BY <2>9 DEF WaitTimeout
  <2>10. CASE Handle
    BY <2>10 DEF Handle
  <2> QED
    BY <1>9, <2>1, <2>2, <2>3, <2>4, <2>5, <2>6, <2>7, <2>8, <2>9, <2>10
       DEF Run
<1>10. CASE UNCHANGED vars
  BY <1>10 DEF vars
<1> QED
  BY <1>1, <1>2, <1>3, <1>4, <1>5, <1>6, <1>7, <1>8, <1>9, <1>10
     DEF Next, Receive

\* StopInv is an invariant when only the io thread stops plugins.
LEMMA StopInvariant ==
  ASSUME Stoppers \subseteq {"io"}
  PROVE  Spec => []StopInv
  BY StopInit, StopStep, PTL DEF Spec

-----------------------------------------------------------------------------
\* The variables keep their types in every run of the plugin.
THEOREM TypeCorrect == Spec => []TypeOK
<1>1. SafeInv => TypeOK
  BY DEF SafeInv
<1> QED
  BY <1>1, SafeInvariant, PTL

\* Between receive() on the io thread and the worker no message is lost,
\* duplicated or reordered, for any number of messages, restarts and stops.
THEOREM QueueIsFifo == Spec => []QueueFifo
<1>1. SafeInv => QueueFifo
  BY DEF SafeInv
<1> QED
  BY <1>1, SafeInvariant, PTL

\* The io thread and the worker are never both inside the critical sections
\* of m_incoming_mtx.
THEOREM QueueIsExclusive == Spec => []QueueExclusive
<1>1. SafeInv => QueueExclusive
  BY DEF SafeInv, MutexInv, QueueExclusive
<1> QED
  BY <1>1, SafeInvariant, PTL

\* When only the io thread stops plugins, onShutdown, the destruction of the
\* plugin and the next std::thread never meet a worker that still exists.
THEOREM StopIsQuiescent ==
  ASSUME Stoppers \subseteq {"io"}
  PROVE  Spec => []QuiescentOutsideRun
<1>1. StopInv => QuiescentOutsideRun
  BY DEF StopInv, SafeInv, JoinInv, StartInv, IoInv, QuiescentOutsideRun,
         Threads
<1> QED
  BY <1>1, StopInvariant, PTL

\* When only the io thread stops plugins, at most one message is handed to
\* the plugin after stop() has cleared m_running.
THEOREM StopLimitsDelivery ==
  ASSUME Stoppers \subseteq {"io"}
  PROVE  Spec => []AtMostOneAfterStop
<1>1. StopInv => AtMostOneAfterStop
  BY DEF StopInv, SafeInv, TypeOK, GraceInv, AtMostOneAfterStop
<1> QED
  BY <1>1, StopInvariant, PTL

-----------------------------------------------------------------------------
\* The state after the constructor is an initial state of the contract.
LEMMA ContractInit == Init => Contract!Init
  BY DEF Init, Contract!Init, contractPhase, contractGrace

\* A step that leaves alone what the contract is mapped to is a stutter of it.
LEMMA ContractStutter ==
  ASSUME UNCHANGED <<worker, m_running, m_incoming, received, taken, stopMark>>
  PROVE  UNCHANGED Contract!cvars
  BY DEF Contract!cvars, contractPhase, contractGrace

\* A worker step between two places of run() that are not "none" and that
\* touches neither the queue nor the flags is a stutter of the contract.
LEMMA ContractWorkerStutter ==
  ASSUME worker # "none", worker' # "none",
         UNCHANGED <<m_running, m_incoming, received, taken, stopMark>>
  PROVE  UNCHANGED Contract!cvars
  BY DEF Contract!cvars, contractPhase, contractGrace

\* Every step of the threads is a step of the contract or a stutter.
LEMMA ContractStep ==
  ASSUME Stoppers \subseteq {"io"}
  PROVE  StopInv /\ [Next]_vars => [Contract!Next]_Contract!cvars
<1> SUFFICES ASSUME StopInv, [Next]_vars
             PROVE  [Contract!Next]_Contract!cvars
  OBVIOUS
<1>t. /\ TypeOK /\ JoinInv /\ QueueFifo
      /\ StartInv /\ IoInv /\ GraceInv
  BY DEF StopInv, SafeInv
<1>1. CASE BeginReceive \/ ReceiveLock \/ ReceiveUnlock \/ BeginRestart
  BY <1>1, ContractStutter
     DEF BeginReceive, ReceiveLock, ReceiveUnlock, BeginRestart
<1>2. CASE ReceivePush
  <2>1. UNCHANGED <<contractPhase, contractGrace>>
    BY <1>2 DEF ReceivePush, contractPhase, contractGrace
  <2>2. Contract!Accept
    BY <1>2, <2>1 DEF ReceivePush, Contract!Accept
  <2> QED
    BY <2>2 DEF Contract!Next
<1>3. ASSUME NEW t \in Threads, BeginStop(t) \/ StopCheck(t) \/ Shutdown(t)
      PROVE  [Contract!Next]_Contract!cvars
  BY <1>3, ContractStutter DEF BeginStop, StopCheck, Shutdown
<1>4. ASSUME NEW t \in Threads, StopSet(t)
      PROVE  [Contract!Next]_Contract!cvars
  <2>1. m_running /\ ~m_running' /\ stopMark' = taken /\ taken' = taken
    BY <1>4, <1>t DEF StopSet, Goto, IoInv, StartInv, Threads
  <2>2. CASE worker = "none"
    BY <1>4, <2>2 DEF StopSet, Contract!cvars, contractPhase, contractGrace
  <2>3. CASE worker # "none"
    <3>1. contractPhase = "on" /\ contractPhase' = "stopping"
      BY <1>4, <2>1, <2>3 DEF StopSet, contractPhase
    <3>2. contractGrace' = 1
      BY <2>1, <3>1, <1>t DEF contractGrace, TypeOK
    <3>3. Contract!RequestStop
      BY <1>4, <3>1, <3>2 DEF StopSet, Contract!RequestStop
    <3> QED
      BY <3>3 DEF Contract!Next
  <2> QED
    BY <2>2, <2>3
<1>5. ASSUME NEW t \in Threads, StopJoin(t)
      PROVE  [Contract!Next]_Contract!cvars
  <2>1. CASE ~joinable
    BY <1>5, <2>1, ContractStutter DEF StopJoin
  <2>2. CASE joinable
    <3>1. /\ contractPhase \in {"on", "stopping"}
          /\ contractPhase' = "off"
          /\ contractGrace' = 1
      BY <1>5, <2>2 DEF StopJoin, contractPhase, contractGrace
    <3>2. Contract!Stopped
      BY <1>5, <3>1 DEF StopJoin, Contract!Stopped
    <3> QED
      BY <3>2 DEF Contract!Next
  <2> QED
    BY <2>1, <2>2
<1>6. ASSUME NEW t \in Threads, SpawnSet(t)
      PROVE  [Contract!Next]_Contract!cvars
  <2>1. worker = "none"
    BY <1>6, <1>t DEF SpawnSet, Goto, StartInv, IoInv, Threads
  <2> QED
    BY <1>6, <2>1
       DEF SpawnSet, Contract!cvars, contractPhase, contractGrace
<1>7. ASSUME NEW t \in Threads, SpawnThread(t)
      PROVE  [Contract!Next]_Contract!cvars
  <2>1. m_running
    BY <1>7, <1>t DEF SpawnThread, Goto, StartInv, IoInv, Threads
  <2>2. worker = "none"
    BY <1>7, <1>t DEF SpawnThread, JoinInv
  <2>3. /\ contractPhase = "off" /\ contractPhase' = "on"
        /\ contractGrace = 1 /\ contractGrace' = 1
    BY <1>7, <2>1, <2>2 DEF SpawnThread, contractPhase, contractGrace
  <2>4. Contract!Start
    BY <1>7, <2>3 DEF SpawnThread, Contract!Start
  <2> QED
    BY <2>4 DEF Contract!Next
<1>8. CASE RunEntry
  <2>1. worker # "none" /\ worker' # "none" /\ m_running'
    BY <1>8 DEF RunEntry, WorkerGoto
  <2>2. CASE m_running
    BY <1>8, <2>1, <2>2, ContractWorkerStutter, <1>t DEF RunEntry, TypeOK
  <2>3. CASE ~m_running
    <3>1. taken = stopMark
      BY <1>8, <1>t, <2>3 DEF RunEntry, WorkerGoto, GraceInv
    <3>2. contractGrace = 1 /\ contractGrace' = 1
      BY <1>8, <1>t, <2>1, <2>3, <3>1
         DEF RunEntry, TypeOK, contractGrace, contractPhase
    <3>3. contractPhase = "stopping" /\ contractPhase' = "on"
      BY <2>1, <2>3 DEF contractPhase
    <3>4. Contract!ForgetStop
      BY <1>8, <3>2, <3>3 DEF RunEntry, Contract!ForgetStop
    <3> QED
      BY <3>4 DEF Contract!Next
  <2> QED
    BY <2>2, <2>3
<1>9. CASE \/ OnInit \/ LoopCheck \/ RunLock \/ WaitBlock \/ WaitWake
           \/ WaitDeadline \/ WaitTimeout \/ Handle
  BY <1>9, ContractWorkerStutter
     DEF OnInit, LoopCheck, RunLock, WaitBlock, WaitWake, WaitDeadline,
         WaitTimeout, Handle, WorkerGoto
<1>10. ASSUME NEW from \in {"pred", "timeout"}, GetCommand(from)
       PROVE  [Contract!Next]_Contract!cvars
  <2>1. /\ worker # "none" /\ worker' # "none" /\ m_running' = m_running
        /\ taken' = taken + 1 /\ stopMark' = stopMark
    BY <1>10 DEF GetCommand, WorkerGoto
  <2>2. contractPhase' = contractPhase /\ contractPhase \in {"on", "stopping"}
    BY <2>1 DEF contractPhase
  <2>3. CASE contractPhase = "on"
    BY <1>10, <2>2, <2>3
       DEF GetCommand, contractGrace, Contract!Deliver, Contract!Next
  <2>4. CASE contractPhase = "stopping"
    <3>1. taken = stopMark
      BY <1>10, <1>t, <2>1, <2>4
         DEF GetCommand, WorkerGoto, GraceInv, contractPhase
    <3>2. contractGrace = 1 /\ contractGrace' = 0
      BY <1>t, <2>1, <2>2, <2>4, <3>1 DEF contractGrace, TypeOK
    <3> QED
      BY <1>10, <2>2, <2>4, <3>2
         DEF GetCommand, Contract!Deliver, Contract!Next
  <2> QED
    BY <2>2, <2>3, <2>4
<1>11. CASE UNCHANGED vars
  BY <1>11, ContractStutter DEF vars
<1> QED
  BY <1>1, <1>2, <1>3, <1>4, <1>5, <1>6, <1>7, <1>8, <1>9, <1>10, <1>11
     DEF Next, Receive, Stop, Spawn, Run

\* The threads of a plugin that only the io thread stops implement the
\* contract: in-order, exactly-once delivery between spawn and the end of
\* stop, with at most one delivery after the stop request.
THEOREM PluginImplementsContract ==
  ASSUME Stoppers \subseteq {"io"}
  PROVE  Spec => ImplementsContract
<1>1. Init => Contract!Init
  BY ContractInit
<1>2. StopInv /\ [Next]_vars => [Contract!Next]_Contract!cvars
  BY ContractStep
<1>3. Spec => []StopInv
  BY StopInvariant
<1> QED
  BY <1>1, <1>2, <1>3, PTL DEF Spec, ImplementsContract, Contract!Spec

=============================================================================
