----------------------------- MODULE CoreProofs -----------------------------
(***************************************************************************)
(* Theorems about Core, for every configuration, number of plugins and     *)
(* number of runs, with and without a fork.                                *)
(*                                                                         *)
(* The types and the back-off hold in every behaviour.  What a stop and a  *)
(* run promise holds when no stop begins before main waits; it rests on    *)
(* CoreInv, which says that a process without a crash is in one of four    *)
(* phases: its first run, the end of the one stop that gets past the TCP   *)
(* plugin server, the time after it, and a second run that no stop leaves  *)
(* without a crash.                                                        *)
(***************************************************************************)
EXTENDS Core, SequenceTheorems, TLAPS

Stoppers == {"io", "sig"}

\* stop() before and after it has closed the TCP plugin server.
EarlyPcs == {"stopAsyncReceive", "disconnect", "stopPlugins", "join",
             "onShutdown", "stopTcpPluginServer"}
LatePcs == {"deinitializePlugins", "stopAdminPort", "setValue"}

LoopPcs == {"contextStop", "contextJoin", "exit", "hung"}
UnconnectedPcs == {"contextRun", "fork", "run", "resolve", "connect"}
ConnectedPcs == {"initializePlugins", "startPlugins", "startTcpPluginServer",
                 "startAdminPort", "wait"}

\* Each thread of control stays in its own part of the code.
WhereInv ==
  /\ pc["main"] \in UnconnectedPcs \cup ConnectedPcs \cup LoopPcs
                     \cup {"failed"}
  /\ pc["io"] \in EarlyPcs \cup LatePcs \cup {"idle", "route", "refused"}
  /\ pc["sig"] \in EarlyPcs \cup LatePcs \cup {"idle"}

\* Only the chain of the current run is ever busy.
ChainInv ==
  /\ \A c \in Chains : receive[c] # "none" => c = runs
  /\ pc["io"] = "route" =>
       chain = runs /\ runs \in Chains /\ receive[runs] = "none"
  /\ m_socket = "closed" => \A c \in Chains : receive[c] # "pending"

\* An error that is handled was the last event of its chain.
ErrorInv ==
  m_result = "CONNECTION_ERROR" /\ runs <= 1 =>
    pc["io"] # "route" /\ \A c \in Chains : receive[c] = "none"

\* Before the server is closed: no stop has begun until main waits, and one
\* that is past disconnect() has closed the socket.
FirstRun ==
  /\ runs <= 1 /\ m_stop_promise = "unset"
  /\ \A t \in Stoppers : pc[t] \notin LatePcs
  /\ pc["main"] \notin LoopPcs
  /\ runs = 0 <=> pc["main"] \in {"contextRun", "fork", "run"}
  /\ pc["main"] \in UnconnectedPcs =>
       /\ m_plugins = <<>> /\ m_socket = "closed" /\ pc["io"] # "route"
       /\ \A c \in Chains : receive[c] = "none"
  /\ pc["main"] \notin {"wait", "failed"} =>
       \A c \in Chains : receive[c] # "error"
  /\ pc["main"] # "wait" =>
       /\ \A t \in Stoppers : pc[t] \notin EarlyPcs
       /\ m_result = "OK"
       /\ ~m_admin_port
  /\ pc["main"] \in {"startAdminPort", "wait"} => m_tcp_plugin_server # "null"
  /\ \A t \in Stoppers :
       pc[t] \in {"stopPlugins", "join", "onShutdown", "stopTcpPluginServer"} =>
         m_socket = "closed"

\* One stop has closed the server and takes the rest down.
Finishing ==
  /\ runs = 1 /\ m_stop_promise = "unset" /\ pc["main"] = "wait"
  /\ m_socket = "closed"
  /\ ~(pc["io"] \in LatePcs /\ pc["sig"] \in LatePcs)
  /\ \A t \in Stoppers :
       /\ pc[t] \in {"stopAdminPort", "setValue"} => m_plugins = <<>>
       /\ pc[t] = "setValue" => ~m_admin_port

\* That stop has told main.
Finished ==
  /\ runs = 1 /\ pc["main"] \in LoopPcs \cup {"wait", "run"}
  /\ m_plugins = <<>> /\ m_socket = "closed" /\ ~m_admin_port
  /\ m_stop_promise # "OK" =>
       m_result = "CONNECTION_ERROR" /\ pc["main"] \in {"wait", "run"}
  /\ m_stop_promise = "OK" => pc["main"] # "run"

\* main has gone round again.
SecondRun ==
  /\ runs = 2
  /\ pc["main"] \in {"resolve", "connect", "failed"} \cup ConnectedPcs
  /\ pc["main"] \in {"resolve", "connect"} =>
       /\ m_plugins = <<>> /\ pc["io"] # "route"
       /\ \A c \in Chains : receive[c] = "none"

Closed == m_tcp_plugin_server = "closed"
Ending == \E t \in Stoppers : pc[t] \in LatePcs

PhaseInv ==
  /\ ~Closed => FirstRun
  /\ Closed /\ Ending => Finishing
  /\ Closed /\ ~Ending /\ m_stop_promise # "unset" => Finished
  /\ Closed /\ ~Ending /\ m_stop_promise = "unset" => SecondRun

\* Plugins that are up, and plugins under a stop() that has not joined.
Begun == {"spawned", "running"}
Leaving == {"early", "stopping"}

\* No plugin has a thread before main spawns it.
UnspawnedInv ==
  /\ pc["main"] = "initializePlugins" =>
       \A i \in 1..Len(m_plugins) : m_plugins[i] \notin Threaded
  /\ pc["main"] = "startPlugins" =>
       \A i \in 1..Len(m_plugins) : i >= at["main"] => m_plugins[i] \notin Threaded

\* What main has set up stays up as long as no stop has begun.
ServingInv ==
  (\A t \in Stoppers : pc[t] \notin StopPcs) /\ m_stop_promise = "unset" =>
    /\ pc["main"] \in ConnectedPcs =>
         /\ m_socket = "open"
         /\ receive[runs] \in {"pending", "ready", "error"} \/ pc["io"] = "route"
    /\ pc["main"] = "startPlugins" =>
         \A i \in 1..Len(m_plugins) : i < at["main"] => m_plugins[i] \in Begun
    /\ pc["main"] \in {"startTcpPluginServer", "startAdminPort", "wait"} =>
         \A i \in 1..Len(m_plugins) : m_plugins[i] \in Begun
    /\ pc["main"] = "wait" => m_admin_port

\* The only stop so far is the one under way or it has ended; it has joined the
\* plugins it has passed, and is about to join the one it is at.
FirstStopInv ==
  /\ stops = 0 =>
       /\ ~Closed /\ \A t \in Stoppers : pc[t] \notin StopPcs
       /\ \A i \in 1..Len(m_plugins) : m_plugins[i] \notin Leaving
  /\ stops = 1 =>
       /\ ~(pc["io"] \in StopPcs /\ pc["sig"] \in StopPcs)
       /\ Closed => \A t \in Stoppers : pc[t] \notin EarlyPcs
       /\ \A t \in Stoppers :
            /\ pc[t] \in {"stopAsyncReceive", "disconnect", "stopPlugins"} =>
                 \A i \in 1..Len(m_plugins) : m_plugins[i] \notin Leaving
            /\ pc[t] = "join" =>
                 /\ at[t] <= Len(m_plugins) /\ at[t] >= 1
                 /\ m_plugins[at[t]] \in Leaving \cup {"running"}
                 /\ \A i \in 1..Len(m_plugins) : i # at[t] => m_plugins[i] \notin Leaving
            /\ pc[t] \in {"stopPlugins", "join"} =>
                 \A i \in 1..Len(m_plugins) :
                   i < at[t] => m_plugins[i] \notin Threaded
            /\ pc[t] = "stopPlugins" => at[t] >= 1
            /\ pc[t] \in {"onShutdown", "stopTcpPluginServer",
                         "deinitializePlugins"} =>
                 \A i \in 1..Len(m_plugins) : m_plugins[i] \notin Threaded

\* Inductive when no stop begins before main waits.
LiveInv ==
  ChainInv /\ ErrorInv /\ PhaseInv /\ UnspawnedInv /\ ServingInv /\ FirstStopInv

CoreInv ==
  /\ TypeOK /\ WhereInv /\ FirstStopIsSafe /\ CleanStop
  /\ ~crashed => LiveInv

-----------------------------------------------------------------------------
(* Types and back-off, in every behaviour *)

\* startPlugins() and stopPlugins() overwrite one element of the vector.
LEMMA UpdateSeq ==
  ASSUME NEW S, NEW q \in Seq(S), NEW i \in Nat, NEW v \in S
  PROVE  /\ [q EXCEPT ![i] = v] \in Seq(S)
         /\ Len([q EXCEPT ![i] = v]) = Len(q)
         /\ \A j \in 1..Len(q) :
              [q EXCEPT ![i] = v][j] = IF j = i THEN v ELSE q[j]
<1>1. CASE i \in 1..Len(q)
  BY <1>1, ExceptSeq
<1>2. CASE i \notin 1..Len(q)
  <2>1. DOMAIN q = 1..Len(q) /\ q = [j \in 1..Len(q) |-> q[j]]
    OBVIOUS
  <2>2. [q EXCEPT ![i] = v] = q
    BY <1>2, <2>1, Zenon
  <2> QED
    BY <1>2, <2>2
<1> QED
  BY <1>1, <1>2

\* connect(): doubling and capping stays within the width of the interval.
LEMMA NextIntervalType ==
  ASSUME NEW i \in 0..(UIntModulus - 1)
  PROVE  NextInterval(i) \in 0..(UIntModulus - 1)
<1>1. (2 * i) % UIntModulus \in 0..(UIntModulus - 1)
  BY CoreAssumption
<1> QED
  BY <1>1, CoreAssumption DEF NextInterval

LEMMA TypeInit == Init => TypeOK
<1> SUFFICES ASSUME Init PROVE TypeOK
  OBVIOUS
<1>1. pc \in [Controls -> PcStates] /\ at \in [Controls -> Nat]
  BY DEF Init, Controls, PcStates
<1>2. receive \in [Chains -> {"none", "pending", "ready", "error", "aborted"}]
  BY DEF Init
<1>3. /\ interval \in 0..(UIntModulus - 1) /\ chain \in 0..MaxRuns
      /\ runs \in 0..MaxRuns /\ stops \in Nat
  BY CoreAssumption DEF Init
<1>4. /\ m_admin_port \in BOOLEAN /\ m_running \in BOOLEAN
      /\ signalled \in BOOLEAN /\ raced \in BOOLEAN /\ crashed \in BOOLEAN
  BY Zenon DEF Init
<1>5. m_plugins \in Seq(PluginStates)
  BY DEF Init
<1> QED
  BY <1>1, <1>2, <1>3, <1>4, <1>5 DEF Init, TypeOK, Results

\* Every step of every thread keeps the types.
LEMMA TypeStep == TypeOK /\ [Next]_vars => TypeOK'
<1> SUFFICES ASSUME TypeOK, [Next]_vars PROVE TypeOK'
  OBVIOUS
<1> USE CoreAssumption DEF TypeOK, Controls, Chains, Results, PcStates,
    StartupPcs, StopPcs, Goto, receiving, objects, outcome, history, PluginStates
<1>1. CASE ContextRun
  BY <1>1 DEF ContextRun
<1>2. CASE Fork
  BY <1>2 DEF Fork
<1>3. CASE Run
  BY <1>3 DEF Run
<1>4. CASE Resolve
  BY <1>4 DEF Resolve
<1>5. CASE LoadPlugin
  <2>1. m_plugins' \in Seq(PluginStates)
    <3>1. m_plugins' \in {m_plugins, Append(m_plugins, "loaded")}
      BY <1>5, Zenon DEF LoadPlugin, ChangeVector
    <3>2. m_plugins \in Seq(PluginStates)
      OBVIOUS
    <3>3. Append(m_plugins, "loaded") \in Seq(PluginStates)
      BY ONLY <3>2
    <3> QED
      BY ONLY <3>1, <3>2, <3>3
  <2>2. raced' \in BOOLEAN /\ crashed' \in BOOLEAN
    BY <1>5, Zenon DEF LoadPlugin, ChangeVector
  <2> QED
    BY <1>5, <2>1, <2>2 DEF LoadPlugin
<1>6. CASE LoadedAll
  BY <1>6 DEF LoadedAll
<1>7. CASE SpawnPlugin
  <2>1. m_plugins' \in Seq(PluginStates)
    BY <1>7, UpdateSeq DEF SpawnPlugin, PluginStates
  <2> QED
    BY <1>7, <2>1 DEF SpawnPlugin
<1>8. CASE SpawnedAll
  BY <1>8 DEF SpawnedAll
<1>9. CASE StartTcpPluginServer
  BY <1>9 DEF StartTcpPluginServer
<1>10. CASE StartAdminPort
  <2>1. m_admin_port' \in BOOLEAN
    BY <1>10, Zenon DEF StartAdminPort
  <2> QED
    BY <1>10, <2>1 DEF StartAdminPort
<1>11. CASE ConnectFails
  <2>1. interval' \in 0..(UIntModulus - 1)
    BY <1>11, NextIntervalType DEF ConnectFails
  <2> QED
    BY <1>11, <2>1 DEF ConnectFails
<1>12. CASE Connect
  <2>1. receive' \in [Chains -> {"none", "pending", "ready", "error", "aborted"}]
    BY <1>12 DEF Connect
  <2> QED
    BY <1>12, <2>1 DEF Connect
<1>13. CASE WaitForStop
  BY <1>13 DEF WaitForStop
<1>14. CASE ContextStop
  BY <1>14 DEF ContextStop
<1>15. CASE ContextJoin
  BY <1>15 DEF ContextJoin
<1>16. CASE ReceiveAgain
  <2>1. receive' \in [Chains -> {"none", "pending", "ready", "error", "aborted"}]
    BY <1>16 DEF ReceiveAgain
  <2> QED
    BY <1>16, <2>1 DEF ReceiveAgain
<1>17. CASE Signal
  BY <1>17 DEF Signal
<1>18. ASSUME NEW c \in Chains, HandleData(c) PROVE TypeOK'
  BY <1>18 DEF HandleData
<1>19. ASSUME NEW c \in Chains, HandleError(c) PROVE TypeOK'
  BY <1>19 DEF HandleError
<1>20. ASSUME NEW c \in Chains, HandleAborted(c) PROVE TypeOK'
  BY <1>20 DEF HandleAborted
<1>21. ASSUME NEW c \in Chains, DataArrives(c) PROVE TypeOK'
  BY <1>21 DEF DataArrives
<1>22. ASSUME NEW c \in Chains, PeerFails(c) PROVE TypeOK'
  BY <1>22 DEF PeerFails
<1>23. ASSUME NEW t \in Stoppers, StopAsyncReceive(t) PROVE TypeOK'
  BY <1>23 DEF StopAsyncReceive, Stoppers, Aborted
<1>24. ASSUME NEW t \in Stoppers, Disconnect(t) PROVE TypeOK'
  <2>1. receive' \in [Chains -> {"none", "pending", "ready", "error", "aborted"}]
    BY <1>24 DEF Disconnect, Aborted
  <2>2. /\ pc' \in [Controls -> PcStates] /\ at' \in [Controls -> Nat]
        /\ m_socket' = "closed" /\ m_running' = FALSE
    BY <1>24 DEF Disconnect, Stoppers
  <2>3. /\ UNCHANGED <<interval, m_context_thread, chain, m_result, m_stop_promise>>
        /\ UNCHANGED <<m_plugins, m_tcp_plugin_server, m_admin_port>>
        /\ UNCHANGED <<runs, stops, signalled, raced, crashed>>
    BY <1>24 DEF Disconnect
  <2> HIDE DEF Controls, Chains, Results, PcStates, StartupPcs, StopPcs,
      PluginStates
  <2> QED
    BY <2>1, <2>2, <2>3
<1>25. ASSUME NEW t \in Stoppers, StopPlugin(t) PROVE TypeOK'
  <2>1. m_plugins' \in Seq(PluginStates)
    BY <1>25, UpdateSeq DEF StopPlugin, PluginStates, Stoppers
  <2> QED
    BY <1>25, <2>1 DEF StopPlugin, Stoppers
<1>26. ASSUME NEW t \in Stoppers, StoppedAll(t) PROVE TypeOK'
  BY <1>26 DEF StoppedAll, Stoppers
<1>27. ASSUME NEW t \in Stoppers, StopTcpPluginServer(t) PROVE TypeOK'
  BY <1>27 DEF StopTcpPluginServer, Stoppers
<1>28. ASSUME NEW t \in Stoppers, DeinitializePlugins(t) PROVE TypeOK'
  <2>1. m_plugins' = <<>>
    BY <1>28 DEF DeinitializePlugins, ChangeVector
  <2>2. raced' \in BOOLEAN /\ crashed' \in BOOLEAN
    BY <1>28, Zenon DEF DeinitializePlugins, ChangeVector
  <2> QED
    BY <1>28, <2>1, <2>2 DEF DeinitializePlugins, Stoppers
<1>29. ASSUME NEW t \in Stoppers, StopAdminPort(t) PROVE TypeOK'
  <2>1. m_admin_port' \in BOOLEAN
    BY <1>29, Zenon DEF StopAdminPort
  <2> QED
    BY <1>29, <2>1 DEF StopAdminPort, Stoppers
<1>30. ASSUME NEW t \in Stoppers, SetValue(t) PROVE TypeOK'
  BY <1>30 DEF SetValue, Stoppers
<1>31. CASE UNCHANGED vars
  BY <1>31 DEF vars
<1>32. ASSUME NEW i \in 1..Len(m_plugins), RunEntry(i) PROVE TypeOK'
  BY <1>32, UpdateSeq DEF RunEntry, PluginStates, Threaded
<1>33. CASE HandleRefused
  BY <1>33 DEF HandleRefused, TcpPluginConnected, IoRuns
<1>34. ASSUME NEW t \in Stoppers, JoinPlugin(t) PROVE TypeOK'
  BY <1>34, UpdateSeq DEF JoinPlugin, PluginStates, Threaded
<1>35. ASSUME NEW t \in Stoppers, StopTcpPlugin(t) PROVE TypeOK'
  BY <1>35 DEF StopTcpPlugin, Stoppers
<1>36. CASE TcpPluginGone
  BY <1>36 DEF TcpPluginGone
<1> QED
  BY <1>1, <1>2, <1>3, <1>4, <1>5, <1>6, <1>7, <1>8, <1>9, <1>10, <1>11,
     <1>12, <1>13, <1>14, <1>15, <1>16, <1>17, <1>18, <1>19, <1>20, <1>21,
     <1>22, <1>23, <1>24, <1>25, <1>26, <1>27, <1>28, <1>29, <1>30, <1>31,
     <1>32, <1>33, <1>34, <1>35, <1>36
  DEF Next, Startup, Environment, Handler, Stop, Worker, Stoppers

\* The variables of Core, of main's loop and of the io thread keep their types.
THEOREM TypeCorrect == Spec => []TypeOK
  BY TypeInit, TypeStep, PTL DEF Spec

\* Between two trials the interval lies between the shorter and the longer of
\* the two configured ones.
BackoffInv ==
  pc["main"] = "connect" =>
    /\ interval >= ReconnectInterval \/ interval >= MaxReconnectInterval
    /\ interval <= ReconnectInterval \/ interval <= MaxReconnectInterval

\* Twice an interval that fits is not reduced by the width of the integer.
LEMMA NextIntervalBounds ==
  ASSUME 2 * ReconnectInterval < UIntModulus,
         2 * MaxReconnectInterval < UIntModulus,
         NEW i \in 0..(UIntModulus - 1),
         i >= ReconnectInterval \/ i >= MaxReconnectInterval,
         i <= ReconnectInterval \/ i <= MaxReconnectInterval
  PROVE  /\ NextInterval(i) >= ReconnectInterval
              \/ NextInterval(i) >= MaxReconnectInterval
         /\ NextInterval(i) <= MaxReconnectInterval
<1>1. 2 * i < UIntModulus /\ 2 * i \in Nat
  BY CoreAssumption
<1>2. (2 * i) % UIntModulus = 2 * i
  BY <1>1, CoreAssumption
<1> QED
  BY <1>2, CoreAssumption DEF NextInterval

\* connect(): with intervals below half the range of uint32_t the doubling does
\* not overflow, and no pause is shorter than the configured interval, or the
\* configured maximum if that is shorter.
THEOREM BackoffCorrect ==
  ASSUME 2 * ReconnectInterval < UIntModulus,
         2 * MaxReconnectInterval < UIntModulus
  PROVE  Spec => []BackoffNeverShrinks
<1>1. Init => BackoffInv
  BY DEF Init, BackoffInv, Controls
<1>2. TypeOK /\ BackoffInv /\ [Next]_vars => BackoffInv'
  <2> SUFFICES ASSUME TypeOK, BackoffInv, [Next]_vars PROVE BackoffInv'
    OBVIOUS
  <2>1. CASE ConnectFails
    BY <2>1, NextIntervalBounds, CoreAssumption
       DEF ConnectFails, TypeOK, BackoffInv, Goto, Controls
  <2>2. CASE Resolve
    BY <2>2, CoreAssumption DEF Resolve, BackoffInv, TypeOK, Controls
  <2>3. CASE /\ interval' = interval
             /\ pc'["main"] = "connect" => pc["main"] = "connect"
    BY <2>3 DEF BackoffInv
  <2>4. \/ ConnectFails \/ Resolve
        \/ /\ interval' = interval
           /\ pc'["main"] = "connect" => pc["main"] = "connect"
    <3> USE DEF Goto, TypeOK, Controls
    <3>1. CASE Startup
      BY <3>1 DEF Startup, ContextRun, Fork, Run, LoadPlugin, LoadedAll,
         SpawnPlugin, SpawnedAll, StartTcpPluginServer, StartAdminPort
    <3>2. CASE Connect \/ WaitForStop \/ ContextStop \/ ContextJoin
      BY <3>2 DEF Connect, WaitForStop, ContextStop, ContextJoin
    <3>3. CASE Environment \/ Handler \/ Signal
      BY <3>3 DEF Environment, Handler, Signal, DataArrives, PeerFails,
         HandleData, HandleError, HandleAborted, ReceiveAgain, HandleRefused,
         TcpPluginGone
    <3>4. ASSUME NEW t \in {"io", "sig"}, Stop(t)
          PROVE  /\ interval' = interval
                 /\ pc'["main"] = "connect" => pc["main"] = "connect"
      BY <3>4 DEF Stop, StopAsyncReceive, Disconnect, StopPlugin, JoinPlugin,
         StopTcpPlugin, StoppedAll,
         StopTcpPluginServer, DeinitializePlugins, StopAdminPort, SetValue
    <3>5. CASE Worker
      BY <3>5 DEF Worker, RunEntry
    <3>6. CASE UNCHANGED vars
      BY <3>6 DEF vars
    <3> QED
      BY <3>1, <3>2, <3>3, <3>4, <3>5, <3>6 DEF Next
  <2> QED
    BY <2>1, <2>2, <2>3, <2>4
<1>3. BackoffInv => BackoffNeverShrinks
  BY DEF BackoffInv, BackoffNeverShrinks
<1> QED
  BY <1>1, <1>2, <1>3, TypeCorrect, PTL DEF Spec


-----------------------------------------------------------------------------
(* What a stop and a run promise, if no stop begins before main waits *)

LEMMA CoreInvInit == Init => CoreInv
<1> SUFFICES ASSUME Init PROVE CoreInv
  OBVIOUS
<1>1. TypeOK
  BY TypeInit
<1>2. WhereInv /\ FirstStopIsSafe /\ CleanStop
  BY DEF Init, WhereInv, FirstStopIsSafe, CleanStop, Controls, UnconnectedPcs
<1>3. ChainInv /\ ErrorInv
  BY DEF Init, ChainInv, ErrorInv, Controls
<1>4. PhaseInv
  BY DEF Init, PhaseInv, Closed, FirstRun, Controls, Stoppers, EarlyPcs, LatePcs,
     LoopPcs, UnconnectedPcs
<1>5. UnspawnedInv /\ ServingInv /\ FirstStopInv
  BY DEF Init, UnspawnedInv, ServingInv, FirstStopInv, Closed, Controls, Stoppers, StopPcs,
     ConnectedPcs, EarlyPcs
<1> QED
  BY <1>1, <1>2, <1>3, <1>4, <1>5 DEF CoreInv, LiveInv

\* No step takes a thread of control out of its part of the code.
LEMMA WhereStep ==
  ASSUME ~StopDuringStartup, CoreInv, ~crashed, Next, TypeOK'
  PROVE  WhereInv'
<1> USE DEF TypeOK, CoreInv, LiveInv, Controls, Chains, Goto, Stoppers,
    StopPcs, StartupPcs, EarlyPcs, LatePcs, LoopPcs, UnconnectedPcs,
    ConnectedPcs, receiving, objects, outcome, history, WhereInv
<1>1. CASE ContextRun \/ Fork \/ Resolve \/ ConnectFails
  BY <1>1 DEF ContextRun, Fork, Resolve, ConnectFails
<1>2. CASE LoadedAll \/ SpawnedAll
  <2>1. CASE LoadedAll
    BY <2>1 DEF LoadedAll
  <2>2. CASE SpawnedAll
    BY <2>2 DEF SpawnedAll
  <2> QED
    BY <1>2, <2>1, <2>2
<1>3. CASE ContextStop \/ ContextJoin \/ WaitForStop
  <2>1. CASE ContextStop
    BY <2>1 DEF ContextStop
  <2>2. CASE ContextJoin
    BY <2>2 DEF ContextJoin
  <2>3. CASE WaitForStop
    BY <2>3 DEF WaitForStop
  <2> QED
    BY <1>3, <2>1, <2>2, <2>3
<1>4. CASE Run
  BY <1>4 DEF Run
<1>5. CASE Connect
  BY <1>5 DEF Connect
<1>6. CASE LoadPlugin
  BY <1>6 DEF LoadPlugin, ChangeVector, OthersUseVector, UsesVector, Waits
<1>7. CASE SpawnPlugin
  BY <1>7, UpdateSeq DEF SpawnPlugin, PluginStates
<1>8. CASE StartTcpPluginServer \/ StartAdminPort
  BY <1>8 DEF StartTcpPluginServer, StartAdminPort
<1>9. ASSUME NEW c \in Chains, HandleData(c) \/ HandleAborted(c) \/
             DataArrives(c) \/ PeerFails(c)
      PROVE  WhereInv'
  BY <1>9 DEF HandleData, HandleAborted, DataArrives, PeerFails, IoRuns
<1>10. CASE ReceiveAgain
  BY <1>10 DEF ReceiveAgain
<1>11. ASSUME NEW c \in Chains, HandleError(c) PROVE WhereInv'
  BY <1>11 DEF HandleError, IoRuns
<1>12. CASE Signal
  BY <1>12 DEF Signal
<1>13. ASSUME NEW t \in Stoppers, StopAsyncReceive(t) \/ Disconnect(t)
      PROVE  WhereInv'
  BY <1>13 DEF StopAsyncReceive, Disconnect, Aborted
<1>14. ASSUME NEW t \in Stoppers, StopPlugin(t) \/ StoppedAll(t)
      PROVE  WhereInv'
  <2>1. CASE StopPlugin(t)
    BY <2>1, UpdateSeq DEF StopPlugin, PluginStates
  <2>2. CASE StoppedAll(t)
    BY <2>2 DEF StoppedAll
  <2> QED
    BY <1>14, <2>1, <2>2
<1>15. ASSUME NEW t \in Stoppers, StopTcpPluginServer(t) PROVE WhereInv'
  BY <1>15 DEF StopTcpPluginServer
<1>16. ASSUME NEW t \in Stoppers, DeinitializePlugins(t) PROVE WhereInv'
  BY <1>16 DEF DeinitializePlugins, ChangeVector, OthersUseVector, UsesVector, Waits
<1>17. ASSUME NEW t \in Stoppers, StopAdminPort(t) PROVE WhereInv'
  BY <1>17 DEF StopAdminPort
<1>18. ASSUME NEW t \in Stoppers, SetValue(t) PROVE WhereInv'
  BY <1>18 DEF SetValue
<1>19. ASSUME NEW i \in 1..Len(m_plugins), RunEntry(i) PROVE WhereInv'
  BY <1>19, UpdateSeq DEF RunEntry, PluginStates, Threaded
<1>20. CASE HandleRefused
  BY <1>20 DEF HandleRefused, TcpPluginConnected, IoRuns
<1>21. ASSUME NEW t \in Stoppers, JoinPlugin(t) PROVE WhereInv'
  BY <1>21, UpdateSeq DEF JoinPlugin, PluginStates, Threaded
<1>22. ASSUME NEW t \in Stoppers, StopTcpPlugin(t) PROVE WhereInv'
  BY <1>22 DEF StopTcpPlugin
<1>23. CASE TcpPluginGone
  BY <1>23 DEF TcpPluginGone
<1> HIDE DEF TypeOK, CoreInv, LiveInv, Controls, Chains, Goto,
    StopPcs, StartupPcs, EarlyPcs, LatePcs, LoopPcs, UnconnectedPcs,
    ConnectedPcs, receiving, objects, outcome, history, WhereInv
<1> QED
  BY <1>1, <1>2, <1>3, <1>4, <1>5, <1>6, <1>7, <1>8, <1>9, <1>10, <1>11,
     <1>12, <1>13, <1>14, <1>15, <1>16, <1>17, <1>18,
     <1>19, <1>20, <1>21, <1>22, <1>23
     DEF Next, Startup, Environment, Handler, Stop, Worker

\* Only a second stop or a race on the vector terminates the process.
LEMMA FirstStopSafeStep ==
  ASSUME ~StopDuringStartup, CoreInv, ~crashed, Next, TypeOK'
  PROVE  FirstStopIsSafe'
<1> USE DEF TypeOK, CoreInv, LiveInv, Controls, Chains, Goto, Stoppers,
    StopPcs, StartupPcs, EarlyPcs, LatePcs, LoopPcs, UnconnectedPcs,
    ConnectedPcs, receiving, objects, outcome, history, FirstStopIsSafe,
    FirstStopInv, PhaseInv, Closed, Ending, FirstRun, Finishing, Finished,
    SecondRun, WhereInv, UnspawnedInv, Threaded, Begun, Leaving
<1>1. CASE LoadPlugin
  <2>1. CASE ChangeVector("main", Append(m_plugins, "loaded"))
    BY <1>1, <2>1 DEF LoadPlugin, ChangeVector, OthersUseVector, UsesVector, Waits
  <2>2. CASE UNCHANGED <<m_plugins, raced, crashed>>
    BY <1>1, <2>2 DEF LoadPlugin
  <2> QED
    BY <1>1, <2>1, <2>2 DEF LoadPlugin
<1>2. CASE ContextRun \/ Fork \/ Run \/ Resolve \/ LoadedAll \/ SpawnPlugin \/
           SpawnedAll \/ StartTcpPluginServer \/ StartAdminPort \/
           ConnectFails \/ Connect \/ WaitForStop \/ ContextStop \/
           ContextJoin
  <2>1. CASE SpawnPlugin
    <3>1. m_plugins[at["main"]] \notin Threaded
      BY <2>1 DEF SpawnPlugin, UnspawnedInv
    <3> QED
      BY <2>1, <3>1 DEF SpawnPlugin
  <2>2. CASE ~SpawnPlugin
    BY <1>2, <2>2 DEF ContextRun, Fork, Run, Resolve, LoadedAll, SpawnedAll,
       StartTcpPluginServer, StartAdminPort, ConnectFails, Connect,
       WaitForStop, ContextStop, ContextJoin
  <2> QED
    BY <2>1, <2>2
<1>3. CASE ReceiveAgain \/ Signal
  BY <1>3 DEF ReceiveAgain, Signal
<1>4. ASSUME NEW c \in Chains, HandleData(c) \/ HandleAborted(c) \/
             HandleError(c) \/ DataArrives(c) \/ PeerFails(c)
      PROVE  FirstStopIsSafe'
  BY <1>4 DEF HandleData, HandleAborted, HandleError, DataArrives, PeerFails,
     IoRuns
<1>5. ASSUME NEW t \in Stoppers, StopTcpPluginServer(t) PROVE FirstStopIsSafe'
  BY <1>5 DEF StopTcpPluginServer
<1>6. ASSUME NEW t \in Stoppers, DeinitializePlugins(t) PROVE FirstStopIsSafe'
  BY <1>6 DEF DeinitializePlugins, ChangeVector, OthersUseVector, UsesVector, Waits
<1>7. ASSUME NEW t \in Stoppers, SetValue(t) PROVE FirstStopIsSafe'
  BY <1>7 DEF SetValue
<1>8. ASSUME NEW t \in Stoppers, StopAsyncReceive(t) \/ Disconnect(t) \/
             StopPlugin(t) \/ StoppedAll(t) \/ StopAdminPort(t)
      PROVE  FirstStopIsSafe'
  BY <1>8, UpdateSeq DEF PluginStates, StopAsyncReceive, Disconnect, StopPlugin, StoppedAll,
     StopAdminPort, Aborted
<1>9. ASSUME NEW i \in 1..Len(m_plugins), RunEntry(i) PROVE FirstStopIsSafe'
  BY <1>9, UpdateSeq DEF RunEntry, PluginStates, Threaded
<1>10. CASE HandleRefused
  BY <1>10 DEF HandleRefused, TcpPluginConnected, IoRuns
<1>11. ASSUME NEW t \in Stoppers, JoinPlugin(t) PROVE FirstStopIsSafe'
  BY <1>11, UpdateSeq DEF JoinPlugin, PluginStates, Threaded
<1>12. ASSUME NEW t \in Stoppers, StopTcpPlugin(t) PROVE FirstStopIsSafe'
  BY <1>12 DEF StopTcpPlugin
<1>13. CASE TcpPluginGone
  BY <1>13 DEF TcpPluginGone
<1> HIDE DEF TypeOK, CoreInv, LiveInv, Controls, Chains, Goto,
    StopPcs, StartupPcs, EarlyPcs, LatePcs, LoopPcs, UnconnectedPcs,
    ConnectedPcs, receiving, objects, outcome, history, FirstStopIsSafe,
    FirstStopInv, PhaseInv, Closed, Ending, FirstRun, Finishing, Finished,
    SecondRun, WhereInv, UnspawnedInv, Threaded, Begun, Leaving
<1> QED
  BY <1>1, <1>2, <1>3, <1>4, <1>5, <1>6, <1>7, <1>8,
     <1>9, <1>10, <1>11, <1>12, <1>13
     DEF Next, Startup, Environment, Handler, Stop, Worker

\* main passes its wait only when the run is taken down.
LEMMA CleanStopStep ==
  ASSUME ~StopDuringStartup, CoreInv, ~crashed, Next, TypeOK'
  PROVE  CleanStop'
<1> USE DEF TypeOK, CoreInv, LiveInv, Controls, Chains, Goto, Stoppers,
    StopPcs, StartupPcs, EarlyPcs, LatePcs, LoopPcs, UnconnectedPcs,
    ConnectedPcs, receiving, objects, outcome, history, CleanStop, PhaseInv,
    ChainInv, Closed, Ending, FirstRun, Finishing, Finished, SecondRun,
    WhereInv
<1>1. CASE Fork
  BY <1>1 DEF Fork
<1>2. CASE WaitForStop
  BY <1>2 DEF WaitForStop
<1>3. CASE ContextStop \/ ContextJoin
  BY <1>3 DEF ContextStop, ContextJoin
<1>4. CASE ContextRun
  BY <1>4 DEF ContextRun
<1>5. CASE Run
  BY <1>5 DEF Run
<1>6. CASE Resolve
  BY <1>6 DEF Resolve
<1>7. CASE LoadPlugin
  BY <1>7 DEF LoadPlugin, ChangeVector, OthersUseVector, UsesVector, Waits
<1>8. CASE LoadedAll
  BY <1>8 DEF LoadedAll
<1>9. CASE SpawnPlugin
  BY <1>9, UpdateSeq DEF SpawnPlugin, PluginStates
<1>10. CASE SpawnedAll
  BY <1>10 DEF SpawnedAll
<1>11. CASE StartTcpPluginServer
  BY <1>11 DEF StartTcpPluginServer
<1>12. CASE StartAdminPort
  BY <1>12 DEF StartAdminPort
<1>13. CASE ConnectFails
  BY <1>13 DEF ConnectFails
<1>14. CASE Connect
  BY <1>14 DEF Connect
<1>15. CASE ReceiveAgain \/ Signal
  BY <1>15 DEF ReceiveAgain, Signal
<1>16. ASSUME NEW c \in Chains, HandleData(c) \/ HandleAborted(c) \/
             HandleError(c) \/ DataArrives(c) \/ PeerFails(c)
      PROVE  CleanStop'
  <2>1. CASE HandleData(c)
    BY <2>1 DEF HandleData, IoRuns
  <2>2. CASE HandleAborted(c)
    BY <2>2 DEF HandleAborted, IoRuns
  <2>3. CASE HandleError(c)
    BY <2>3 DEF HandleError, IoRuns
  <2>4. CASE DataArrives(c)
    BY <2>4 DEF DataArrives
  <2>5. CASE PeerFails(c)
    BY <2>5 DEF PeerFails
  <2> QED
    BY <1>16, <2>1, <2>2, <2>3, <2>4, <2>5
<1>17. ASSUME NEW t \in Stoppers, StopAsyncReceive(t) \/ Disconnect(t) \/
             StopPlugin(t) \/ StoppedAll(t) \/ StopTcpPluginServer(t) \/
             DeinitializePlugins(t) \/ StopAdminPort(t) \/ SetValue(t)
      PROVE  CleanStop'
  <2>1. CASE StopAsyncReceive(t)
    BY <2>1 DEF StopAsyncReceive, Aborted
  <2>2. CASE Disconnect(t)
    BY <2>2 DEF Disconnect, Aborted
  <2>3. CASE StopPlugin(t)
    BY <2>3, UpdateSeq DEF StopPlugin, PluginStates
  <2>4. CASE StoppedAll(t)
    BY <2>4 DEF StoppedAll
  <2>5. CASE StopTcpPluginServer(t)
    BY <2>5 DEF StopTcpPluginServer
  <2>6. CASE DeinitializePlugins(t)
    BY <2>6 DEF DeinitializePlugins, ChangeVector, OthersUseVector, UsesVector, Waits
  <2>7. CASE StopAdminPort(t)
    BY <2>7 DEF StopAdminPort
  <2>8. CASE SetValue(t)
    BY <2>8 DEF SetValue
  <2> QED
    BY <1>17, <2>1, <2>2, <2>3, <2>4, <2>5, <2>6, <2>7, <2>8
<1>18. ASSUME NEW i \in 1..Len(m_plugins), RunEntry(i) PROVE CleanStop'
  BY <1>18, UpdateSeq DEF RunEntry, PluginStates, Threaded
<1>19. CASE HandleRefused
  BY <1>19 DEF HandleRefused, TcpPluginConnected, IoRuns
<1>20. ASSUME NEW t \in Stoppers, JoinPlugin(t) PROVE CleanStop'
  BY <1>20, UpdateSeq DEF JoinPlugin, PluginStates, Threaded
<1>21. ASSUME NEW t \in Stoppers, StopTcpPlugin(t) PROVE CleanStop'
  BY <1>21 DEF StopTcpPlugin
<1>22. CASE TcpPluginGone
  BY <1>22 DEF TcpPluginGone
<1> HIDE DEF TypeOK, CoreInv, LiveInv, Controls, Chains, Goto,
    StopPcs, StartupPcs, EarlyPcs, LatePcs, LoopPcs, UnconnectedPcs,
    ConnectedPcs, receiving, objects, outcome, history, CleanStop, PhaseInv,
    ChainInv, Closed, Ending, FirstRun, Finishing, Finished, SecondRun,
    WhereInv
<1> QED
  BY <1>1, <1>2, <1>3, <1>4, <1>5, <1>6, <1>7, <1>8, <1>9, <1>10, <1>11,
     <1>12, <1>13, <1>14, <1>15, <1>16, <1>17,
     <1>18, <1>19, <1>20, <1>21, <1>22
     DEF Next, Startup, Environment, Handler, Stop, Worker

\* No step makes two chains busy, or one while its data is routed.
LEMMA ChainStep ==
  ASSUME ~StopDuringStartup, CoreInv, ~crashed, Next, TypeOK', ~crashed'
  PROVE  ChainInv'
<1> USE DEF TypeOK, CoreInv, LiveInv, Controls, Chains, Goto, Stoppers,
    StopPcs, StartupPcs, EarlyPcs, LatePcs, LoopPcs, UnconnectedPcs,
    ConnectedPcs, receiving, objects, outcome, history, ChainInv, PhaseInv,
    ErrorInv, Closed, Ending, FirstRun, Finishing, Finished, SecondRun,
    WhereInv
<1>1. CASE ContextRun
  BY <1>1 DEF ContextRun
<1>2. CASE Fork
  BY <1>2 DEF Fork
<1>3. CASE Resolve
  BY <1>3 DEF Resolve
<1>4. CASE ConnectFails
  BY <1>4 DEF ConnectFails
<1>5. CASE LoadedAll \/ SpawnedAll
  <2>1. CASE LoadedAll
    BY <2>1 DEF LoadedAll
  <2>2. CASE SpawnedAll
    BY <2>2 DEF SpawnedAll
  <2> QED
    BY <1>5, <2>1, <2>2
<1>6. CASE ContextStop \/ ContextJoin \/ WaitForStop
  <2>1. CASE ContextStop
    BY <2>1 DEF ContextStop
  <2>2. CASE ContextJoin
    BY <2>2 DEF ContextJoin
  <2>3. CASE WaitForStop
    BY <2>3 DEF WaitForStop
  <2> QED
    BY <1>6, <2>1, <2>2, <2>3
<1>7. CASE Run
  BY <1>7 DEF Run
<1>8. CASE Connect
  BY <1>8 DEF Connect
<1>9. CASE LoadPlugin
  BY <1>9 DEF LoadPlugin, ChangeVector, OthersUseVector, UsesVector, Waits
<1>10. CASE SpawnPlugin
  BY <1>10, UpdateSeq DEF SpawnPlugin, PluginStates
<1>11. CASE StartTcpPluginServer \/ StartAdminPort
  BY <1>11 DEF StartTcpPluginServer, StartAdminPort
<1>12. ASSUME NEW c \in Chains, HandleData(c) PROVE ChainInv'
  BY <1>12 DEF HandleData, IoRuns
<1>13. ASSUME NEW c \in Chains, HandleAborted(c) PROVE ChainInv'
  BY <1>13 DEF HandleAborted, IoRuns
<1>14. ASSUME NEW c \in Chains, DataArrives(c) PROVE ChainInv'
  BY <1>14 DEF DataArrives
<1>15. ASSUME NEW c \in Chains, PeerFails(c) PROVE ChainInv'
  BY <1>15 DEF PeerFails
<1>16. CASE ReceiveAgain
  BY <1>16 DEF ReceiveAgain
<1>17. ASSUME NEW c \in Chains, HandleError(c) PROVE ChainInv'
  BY <1>17 DEF HandleError, IoRuns
<1>18. CASE Signal
  BY <1>18 DEF Signal
<1>19. ASSUME NEW t \in Stoppers, StopAsyncReceive(t) \/ Disconnect(t)
      PROVE  ChainInv'
  <2>1. CASE StopAsyncReceive(t)
    BY <2>1 DEF StopAsyncReceive, Aborted
  <2>2. CASE Disconnect(t)
    BY <2>2 DEF Disconnect, Aborted
  <2> QED
    BY <1>19, <2>1, <2>2
<1>20. ASSUME NEW t \in Stoppers, StopPlugin(t) \/ StoppedAll(t)
      PROVE  ChainInv'
  <2>1. CASE StopPlugin(t)
    BY <2>1, UpdateSeq DEF StopPlugin, PluginStates
  <2>2. CASE StoppedAll(t)
    BY <2>2 DEF StoppedAll
  <2> QED
    BY <1>20, <2>1, <2>2
<1>21. ASSUME NEW t \in Stoppers, StopTcpPluginServer(t) PROVE ChainInv'
  BY <1>21 DEF StopTcpPluginServer
<1>22. ASSUME NEW t \in Stoppers, DeinitializePlugins(t) PROVE ChainInv'
  BY <1>22 DEF DeinitializePlugins, ChangeVector, OthersUseVector, UsesVector, Waits
<1>23. ASSUME NEW t \in Stoppers, StopAdminPort(t) PROVE ChainInv'
  BY <1>23 DEF StopAdminPort
<1>24. ASSUME NEW t \in Stoppers, SetValue(t) PROVE ChainInv'
  BY <1>24 DEF SetValue
<1>25. ASSUME NEW i \in 1..Len(m_plugins), RunEntry(i) PROVE ChainInv'
  BY <1>25, UpdateSeq DEF RunEntry, PluginStates, Threaded
<1>26. CASE HandleRefused
  BY <1>26 DEF HandleRefused, TcpPluginConnected, IoRuns
<1>27. ASSUME NEW t \in Stoppers, JoinPlugin(t) PROVE ChainInv'
  BY <1>27, UpdateSeq DEF JoinPlugin, PluginStates, Threaded
<1>28. ASSUME NEW t \in Stoppers, StopTcpPlugin(t) PROVE ChainInv'
  BY <1>28 DEF StopTcpPlugin
<1>29. CASE TcpPluginGone
  BY <1>29 DEF TcpPluginGone
<1> HIDE DEF TypeOK, CoreInv, LiveInv, Controls, Chains, Goto,
    StopPcs, StartupPcs, EarlyPcs, LatePcs, LoopPcs, UnconnectedPcs,
    ConnectedPcs, receiving, objects, outcome, history, ChainInv, PhaseInv,
    ErrorInv, Closed, Ending, FirstRun, Finishing, Finished, SecondRun,
    WhereInv
<1> QED
  BY <1>1, <1>2, <1>3, <1>4, <1>5, <1>6, <1>7, <1>8, <1>9, <1>10, <1>11,
     <1>12, <1>13, <1>14, <1>15, <1>16, <1>17, <1>18, <1>19, <1>20, <1>21,
     <1>22, <1>23, <1>24,
     <1>25, <1>26, <1>27, <1>28, <1>29
     DEF Next, Startup, Environment, Handler, Stop, Worker

\* Nothing follows on a chain that has reported its error.
LEMMA ErrorStep ==
  ASSUME ~StopDuringStartup, CoreInv, ~crashed, Next, TypeOK', ~crashed'
  PROVE  ErrorInv'
<1> USE DEF TypeOK, CoreInv, LiveInv, Controls, Chains, Goto, Stoppers,
    StopPcs, StartupPcs, EarlyPcs, LatePcs, LoopPcs, UnconnectedPcs,
    ConnectedPcs, receiving, objects, outcome, history, ErrorInv, ChainInv,
    PhaseInv, Closed, Ending, FirstRun, Finishing, Finished, SecondRun,
    WhereInv
<1>1. CASE ContextRun \/ Fork \/ Resolve \/ ConnectFails
  BY <1>1 DEF ContextRun, Fork, Resolve, ConnectFails
<1>2. CASE LoadedAll \/ SpawnedAll
  <2>1. CASE LoadedAll
    BY <2>1 DEF LoadedAll
  <2>2. CASE SpawnedAll
    BY <2>2 DEF SpawnedAll
  <2> QED
    BY <1>2, <2>1, <2>2
<1>3. CASE ContextStop \/ ContextJoin \/ WaitForStop
  <2>1. CASE ContextStop
    BY <2>1 DEF ContextStop
  <2>2. CASE ContextJoin
    BY <2>2 DEF ContextJoin
  <2>3. CASE WaitForStop
    BY <2>3 DEF WaitForStop
  <2> QED
    BY <1>3, <2>1, <2>2, <2>3
<1>4. CASE Run
  BY <1>4 DEF Run
<1>5. CASE Connect
  BY <1>5 DEF Connect
<1>6. CASE LoadPlugin
  BY <1>6 DEF LoadPlugin, ChangeVector, OthersUseVector, UsesVector, Waits
<1>7. CASE SpawnPlugin
  BY <1>7, UpdateSeq DEF SpawnPlugin, PluginStates
<1>8. CASE StartTcpPluginServer \/ StartAdminPort
  BY <1>8 DEF StartTcpPluginServer, StartAdminPort
<1>9. ASSUME NEW c \in Chains, HandleData(c) \/ HandleAborted(c) \/
             DataArrives(c) \/ PeerFails(c)
      PROVE  ErrorInv'
  BY <1>9 DEF HandleData, HandleAborted, DataArrives, PeerFails, IoRuns
<1>10. CASE ReceiveAgain
  BY <1>10 DEF ReceiveAgain
<1>11. ASSUME NEW c \in Chains, HandleError(c) PROVE ErrorInv'
  BY <1>11 DEF HandleError, IoRuns
<1>12. CASE Signal
  BY <1>12 DEF Signal
<1>13. ASSUME NEW t \in Stoppers, StopAsyncReceive(t) \/ Disconnect(t)
      PROVE  ErrorInv'
  <2>1. CASE StopAsyncReceive(t)
    BY <2>1 DEF StopAsyncReceive, Aborted
  <2>2. CASE Disconnect(t)
    BY <2>2 DEF Disconnect, Aborted
  <2> QED
    BY <1>13, <2>1, <2>2
<1>14. ASSUME NEW t \in Stoppers, StopPlugin(t) \/ StoppedAll(t)
      PROVE  ErrorInv'
  <2>1. CASE StopPlugin(t)
    BY <2>1, UpdateSeq DEF StopPlugin, PluginStates
  <2>2. CASE StoppedAll(t)
    BY <2>2 DEF StoppedAll
  <2> QED
    BY <1>14, <2>1, <2>2
<1>15. ASSUME NEW t \in Stoppers, StopTcpPluginServer(t) PROVE ErrorInv'
  BY <1>15 DEF StopTcpPluginServer
<1>16. ASSUME NEW t \in Stoppers, DeinitializePlugins(t) PROVE ErrorInv'
  BY <1>16 DEF DeinitializePlugins, ChangeVector, OthersUseVector, UsesVector, Waits
<1>17. ASSUME NEW t \in Stoppers, StopAdminPort(t) PROVE ErrorInv'
  BY <1>17 DEF StopAdminPort
<1>18. ASSUME NEW t \in Stoppers, SetValue(t) PROVE ErrorInv'
  BY <1>18 DEF SetValue
<1>19. ASSUME NEW i \in 1..Len(m_plugins), RunEntry(i) PROVE ErrorInv'
  BY <1>19, UpdateSeq DEF RunEntry, PluginStates, Threaded
<1>20. CASE HandleRefused
  BY <1>20 DEF HandleRefused, TcpPluginConnected, IoRuns
<1>21. ASSUME NEW t \in Stoppers, JoinPlugin(t) PROVE ErrorInv'
  BY <1>21, UpdateSeq DEF JoinPlugin, PluginStates, Threaded
<1>22. ASSUME NEW t \in Stoppers, StopTcpPlugin(t) PROVE ErrorInv'
  BY <1>22 DEF StopTcpPlugin
<1>23. CASE TcpPluginGone
  BY <1>23 DEF TcpPluginGone
<1> HIDE DEF TypeOK, CoreInv, LiveInv, Controls, Chains, Goto,
    StopPcs, StartupPcs, EarlyPcs, LatePcs, LoopPcs, UnconnectedPcs,
    ConnectedPcs, receiving, objects, outcome, history, ErrorInv, ChainInv,
    PhaseInv, Closed, Ending, FirstRun, Finishing, Finished, SecondRun,
    WhereInv
<1> QED
  BY <1>1, <1>2, <1>3, <1>4, <1>5, <1>6, <1>7, <1>8, <1>9, <1>10, <1>11,
     <1>12, <1>13, <1>14, <1>15, <1>16, <1>17, <1>18,
     <1>19, <1>20, <1>21, <1>22, <1>23
     DEF Next, Startup, Environment, Handler, Stop, Worker

\* The process goes through its phases in order.
LEMMA PhaseStep ==
  ASSUME ~StopDuringStartup, CoreInv, ~crashed, Next, TypeOK', ~crashed'
  PROVE  PhaseInv'
<1> USE DEF TypeOK, CoreInv, LiveInv, Controls, Chains, Goto, Stoppers,
    StopPcs, StartupPcs, EarlyPcs, LatePcs, LoopPcs, UnconnectedPcs,
    ConnectedPcs, receiving, objects, outcome, history, PhaseInv, ErrorInv,
    Closed, Ending, FirstRun, Finishing, Finished, SecondRun, WhereInv
<1>1. CASE ContextRun
  BY <1>1 DEF ContextRun
<1>2. CASE Fork
  BY <1>2 DEF Fork
<1>3. CASE Resolve
  BY <1>3 DEF Resolve
<1>4. CASE ConnectFails
  BY <1>4 DEF ConnectFails
<1>5. CASE LoadedAll
  BY <1>5 DEF LoadedAll
<1>6. CASE SpawnedAll
  BY <1>6 DEF SpawnedAll
<1>7. CASE ContextStop
  BY <1>7 DEF ContextStop
<1>8. CASE ContextJoin
  BY <1>8 DEF ContextJoin
<1>9. CASE WaitForStop
  BY <1>9 DEF WaitForStop
<1>10. CASE Run
  BY <1>10 DEF Run
<1>11. CASE Connect
  BY <1>11 DEF Connect
<1>12. CASE LoadPlugin
  <2>1. CASE Goto("main", "initializePlugins", "initializePlugins")
    <3>1. pc["main"] = "initializePlugins" /\ pc' = pc
      BY <2>1
    <3>2. UNCHANGED <<interval, m_context_thread, m_socket, receive, chain>>
      BY <1>12 DEF LoadPlugin
    <3>3. UNCHANGED <<m_tcp_plugin_server, m_admin_port, m_running, m_result,
                      m_stop_promise, runs, stops, signalled>>
      BY <1>12 DEF LoadPlugin
    <3> QED
      BY <3>1, <3>2, <3>3
  <2>2. CASE UNCHANGED <<m_plugins, raced, crashed>>
    BY <1>12, <2>2 DEF LoadPlugin
  <2> QED
    BY <1>12, <2>1, <2>2, Zenon DEF LoadPlugin
<1>13. CASE SpawnPlugin
  BY <1>13, UpdateSeq DEF SpawnPlugin, PluginStates
<1>14. CASE StartTcpPluginServer \/ StartAdminPort
  BY <1>14 DEF StartTcpPluginServer, StartAdminPort
<1>15. ASSUME NEW c \in Chains, HandleData(c) PROVE PhaseInv'
  BY <1>15 DEF HandleData, IoRuns
<1>16. ASSUME NEW c \in Chains, HandleAborted(c) PROVE PhaseInv'
  BY <1>16 DEF HandleAborted, IoRuns
<1>17. ASSUME NEW c \in Chains, DataArrives(c) PROVE PhaseInv'
  BY <1>17 DEF DataArrives
<1>18. ASSUME NEW c \in Chains, PeerFails(c) PROVE PhaseInv'
  BY <1>18 DEF PeerFails
<1>19. CASE ReceiveAgain
  BY <1>19 DEF ReceiveAgain, ServingInv
<1>20. ASSUME NEW c \in Chains, HandleError(c) PROVE PhaseInv'
  BY <1>20 DEF HandleError, IoRuns
<1>21. CASE Signal
  BY <1>21 DEF Signal
<1>22. ASSUME NEW t \in Stoppers, StopAsyncReceive(t) \/ Disconnect(t)
      PROVE  PhaseInv'
  <2>1. CASE StopAsyncReceive(t)
    BY <2>1 DEF StopAsyncReceive, Aborted
  <2>2. CASE Disconnect(t)
    BY <2>2 DEF Disconnect, Aborted
  <2> QED
    BY <1>22, <2>1, <2>2
<1>23. ASSUME NEW t \in Stoppers, StopPlugin(t) PROVE PhaseInv'
  BY <1>23, UpdateSeq DEF StopPlugin, PluginStates
<1>24. ASSUME NEW t \in Stoppers, StoppedAll(t) PROVE PhaseInv'
  BY <1>24 DEF StoppedAll
<1>25. ASSUME NEW t \in Stoppers, StopTcpPluginServer(t) PROVE PhaseInv'
  <2>1. m_tcp_plugin_server # "closed"
    BY <1>25, Zenon DEF StopTcpPluginServer
  <2>2. FirstRun /\ pc[t] = "stopTcpPluginServer"
    BY <1>25, <2>1, Zenon DEF StopTcpPluginServer
  <2>3. /\ m_tcp_plugin_server' = "closed"
        /\ pc' = [pc EXCEPT ![t] = "deinitializePlugins"]
    BY <1>25, <2>2 DEF StopTcpPluginServer
  <2>4. Finishing'
    BY <1>25, <2>2, <2>3 DEF StopTcpPluginServer
  <2> QED
    BY <1>25, <2>3, <2>4
<1>26. ASSUME NEW t \in Stoppers, DeinitializePlugins(t) PROVE PhaseInv'
  BY <1>26 DEF DeinitializePlugins, ChangeVector, OthersUseVector, UsesVector, Waits
<1>27. ASSUME NEW t \in Stoppers, StopAdminPort(t) PROVE PhaseInv'
  BY <1>27 DEF StopAdminPort
<1>28. ASSUME NEW t \in Stoppers, SetValue(t) PROVE PhaseInv'
  <2>1. m_stop_promise = "unset"
    BY <1>28, Zenon DEF SetValue
  <2>2. Closed /\ Finishing
    BY <1>28, <2>1 DEF SetValue
  <2>3. Finished' /\ Closed' /\ ~Ending' /\ m_stop_promise' # "unset"
    BY <1>28, <2>2 DEF SetValue, Results
  <2> QED
    BY <2>3
<1>29. ASSUME NEW i \in 1..Len(m_plugins), RunEntry(i) PROVE PhaseInv'
  BY <1>29, UpdateSeq DEF RunEntry, PluginStates, Threaded
<1>30. CASE HandleRefused
  BY <1>30 DEF HandleRefused, TcpPluginConnected, IoRuns
<1>31. ASSUME NEW t \in Stoppers, JoinPlugin(t) PROVE PhaseInv'
  BY <1>31, UpdateSeq DEF JoinPlugin, PluginStates, Threaded
<1>32. ASSUME NEW t \in Stoppers, StopTcpPlugin(t) PROVE PhaseInv'
  BY <1>32 DEF StopTcpPlugin
<1>33. CASE TcpPluginGone
  BY <1>33 DEF TcpPluginGone
<1> HIDE DEF TypeOK, CoreInv, LiveInv, Controls, Chains, Goto,
    StopPcs, StartupPcs, EarlyPcs, LatePcs, LoopPcs, UnconnectedPcs,
    ConnectedPcs, receiving, objects, outcome, history, PhaseInv, ErrorInv,
    Closed, Ending, FirstRun, Finishing, Finished, SecondRun, WhereInv
<1> QED
  BY <1>1, <1>2, <1>3, <1>4, <1>5, <1>6, <1>7, <1>8, <1>9, <1>10, <1>11,
     <1>12, <1>13, <1>14, <1>15, <1>16, <1>17, <1>18, <1>19, <1>20, <1>21,
     <1>22, <1>23, <1>24, <1>25, <1>26, <1>27, <1>28,
     <1>29, <1>30, <1>31, <1>32, <1>33
     DEF Next, Startup, Environment, Handler, Stop, Worker

\* Only main's spawn() gives a plugin a thread.
LEMMA UnspawnedStep ==
  ASSUME ~StopDuringStartup, CoreInv, ~crashed, Next, TypeOK', ~crashed'
  PROVE  UnspawnedInv'
<1> USE DEF TypeOK, CoreInv, LiveInv, Controls, Chains, Goto, Stoppers,
    StopPcs, StartupPcs, EarlyPcs, LatePcs, LoopPcs, UnconnectedPcs,
    ConnectedPcs, receiving, objects, outcome, history, ChainInv,
    PhaseInv, Closed, Ending, FirstRun, Finishing, Finished, SecondRun,
    WhereInv, UnspawnedInv, Threaded, Begun, Leaving
<1>1. CASE ContextRun
  BY <1>1 DEF ContextRun
<1>2. CASE Fork
  BY <1>2 DEF Fork
<1>3. CASE Resolve
  BY <1>3 DEF Resolve
<1>4. CASE ConnectFails
  BY <1>4 DEF ConnectFails
<1>5. CASE LoadedAll \/ SpawnedAll
  <2>1. CASE LoadedAll
    BY <2>1 DEF LoadedAll
  <2>2. CASE SpawnedAll
    BY <2>2 DEF SpawnedAll
  <2> QED
    BY <1>5, <2>1, <2>2
<1>6. CASE ContextStop \/ ContextJoin \/ WaitForStop
  <2>1. CASE ContextStop
    BY <2>1 DEF ContextStop
  <2>2. CASE ContextJoin
    BY <2>2 DEF ContextJoin
  <2>3. CASE WaitForStop
    BY <2>3 DEF WaitForStop
  <2> QED
    BY <1>6, <2>1, <2>2, <2>3
<1>7. CASE Run
  BY <1>7 DEF Run
<1>8. CASE Connect
  BY <1>8 DEF Connect
<1>9. CASE LoadPlugin
  <2>1. CASE ChangeVector("main", Append(m_plugins, "loaded"))
    BY <1>9, <2>1, AppendProperties DEF LoadPlugin, ChangeVector, PluginStates
  <2>2. CASE UNCHANGED <<m_plugins, raced, crashed>>
    BY <1>9, <2>2 DEF LoadPlugin
  <2> QED
    BY <1>9, <2>1, <2>2, Zenon DEF LoadPlugin
<1>10. CASE SpawnPlugin
  BY <1>10, UpdateSeq DEF SpawnPlugin, PluginStates
<1>11. CASE StartTcpPluginServer \/ StartAdminPort
  BY <1>11 DEF StartTcpPluginServer, StartAdminPort
<1>12. ASSUME NEW c \in Chains, HandleData(c) PROVE UnspawnedInv'
  BY <1>12 DEF HandleData, IoRuns
<1>13. ASSUME NEW c \in Chains, HandleAborted(c) PROVE UnspawnedInv'
  BY <1>13 DEF HandleAborted, IoRuns
<1>14. ASSUME NEW c \in Chains, DataArrives(c) PROVE UnspawnedInv'
  BY <1>14 DEF DataArrives
<1>15. ASSUME NEW c \in Chains, PeerFails(c) PROVE UnspawnedInv'
  BY <1>15 DEF PeerFails
<1>16. CASE ReceiveAgain
  BY <1>16 DEF ReceiveAgain
<1>17. ASSUME NEW c \in Chains, HandleError(c) PROVE UnspawnedInv'
  BY <1>17 DEF HandleError, IoRuns
<1>18. CASE Signal
  BY <1>18 DEF Signal
<1>19. ASSUME NEW t \in Stoppers, StopAsyncReceive(t) \/ Disconnect(t)
      PROVE  UnspawnedInv'
  <2>1. CASE StopAsyncReceive(t)
    BY <2>1 DEF StopAsyncReceive, Aborted
  <2>2. CASE Disconnect(t)
    BY <2>2 DEF Disconnect, Aborted
  <2> QED
    BY <1>19, <2>1, <2>2
<1>20. ASSUME NEW t \in Stoppers, StopPlugin(t) \/ StoppedAll(t)
      PROVE  UnspawnedInv'
  <2>1. CASE StopPlugin(t)
    BY <2>1, UpdateSeq DEF StopPlugin, PluginStates
  <2>2. CASE StoppedAll(t)
    BY <2>2 DEF StoppedAll
  <2> QED
    BY <1>20, <2>1, <2>2
<1>21. ASSUME NEW t \in Stoppers, StopTcpPluginServer(t) PROVE UnspawnedInv'
  BY <1>21 DEF StopTcpPluginServer
<1>22. ASSUME NEW t \in Stoppers, DeinitializePlugins(t) PROVE UnspawnedInv'
  BY <1>22 DEF DeinitializePlugins, ChangeVector, OthersUseVector, UsesVector, Waits
<1>23. ASSUME NEW t \in Stoppers, StopAdminPort(t) PROVE UnspawnedInv'
  BY <1>23 DEF StopAdminPort
<1>24. ASSUME NEW t \in Stoppers, SetValue(t) PROVE UnspawnedInv'
  BY <1>24 DEF SetValue
<1>25. ASSUME NEW i \in 1..Len(m_plugins), RunEntry(i) PROVE UnspawnedInv'
  BY <1>25, UpdateSeq DEF RunEntry, PluginStates, Threaded
<1>26. CASE HandleRefused
  BY <1>26 DEF HandleRefused, TcpPluginConnected, IoRuns
<1>27. ASSUME NEW t \in Stoppers, JoinPlugin(t) PROVE UnspawnedInv'
  BY <1>27, UpdateSeq DEF JoinPlugin, PluginStates, Threaded
<1>28. ASSUME NEW t \in Stoppers, StopTcpPlugin(t) PROVE UnspawnedInv'
  BY <1>28 DEF StopTcpPlugin
<1>29. CASE TcpPluginGone
  BY <1>29 DEF TcpPluginGone
<1> HIDE DEF TypeOK, CoreInv, LiveInv, Controls, Chains, Goto,
    StopPcs, StartupPcs, EarlyPcs, LatePcs, LoopPcs, UnconnectedPcs,
    ConnectedPcs, receiving, objects, outcome, history, ChainInv,
    PhaseInv, Closed, Ending, FirstRun, Finishing, Finished, SecondRun,
    WhereInv, UnspawnedInv, Threaded, Begun, Leaving
<1> QED
  BY <1>1, <1>2, <1>3, <1>4, <1>5, <1>6, <1>7, <1>8, <1>9, <1>10, <1>11,
     <1>12, <1>13, <1>14, <1>15, <1>16, <1>17, <1>18, <1>19, <1>20, <1>21,
     <1>22, <1>23, <1>24,
     <1>25, <1>26, <1>27, <1>28, <1>29
     DEF Next, Startup, Environment, Handler, Stop, Worker

\* What is up stays up until a stop begins.
LEMMA ServingStep ==
  ASSUME ~StopDuringStartup, CoreInv, ~crashed, Next, TypeOK', ~crashed'
  PROVE  ServingInv'
<1> USE DEF TypeOK, CoreInv, LiveInv, Controls, Chains, Goto, Stoppers,
    StopPcs, StartupPcs, EarlyPcs, LatePcs, LoopPcs, UnconnectedPcs,
    ConnectedPcs, receiving, objects, outcome, history, ServingInv, ChainInv,
    PhaseInv, Closed, Ending, FirstRun, Finishing, Finished, SecondRun,
    WhereInv, UnspawnedInv, Threaded, Begun, Leaving
<1>1. CASE ContextRun
  BY <1>1 DEF ContextRun
<1>2. CASE Fork
  BY <1>2 DEF Fork
<1>3. CASE Resolve
  BY <1>3 DEF Resolve
<1>4. CASE ConnectFails
  BY <1>4 DEF ConnectFails
<1>5. CASE LoadedAll \/ SpawnedAll
  <2>1. CASE LoadedAll
    BY <2>1 DEF LoadedAll
  <2>2. CASE SpawnedAll
    BY <2>2 DEF SpawnedAll
  <2> QED
    BY <1>5, <2>1, <2>2
<1>6. CASE ContextStop \/ ContextJoin \/ WaitForStop
  <2>1. CASE ContextStop
    BY <2>1 DEF ContextStop
  <2>2. CASE ContextJoin
    BY <2>2 DEF ContextJoin
  <2>3. CASE WaitForStop
    BY <2>3 DEF WaitForStop
  <2> QED
    BY <1>6, <2>1, <2>2, <2>3
<1>7. CASE Run
  BY <1>7 DEF Run
<1>8. CASE Connect
  BY <1>8 DEF Connect
<1>9. CASE LoadPlugin
  <2>1. pc["main"] = "initializePlugins"
    BY <1>9, Zenon DEF LoadPlugin
  <2>2. /\ pc'["main"] \in {"initializePlugins", "failed"}
        /\ \A t \in Stoppers : pc'[t] = pc[t]
    BY <1>9, <2>1 DEF LoadPlugin
  <2>3. UNCHANGED <<m_socket, receive, runs, m_stop_promise>>
    BY <1>9 DEF LoadPlugin
  <2> QED
    BY <2>1, <2>2, <2>3
<1>10. CASE SpawnPlugin
  BY <1>10, UpdateSeq DEF SpawnPlugin, PluginStates
<1>11. CASE StartTcpPluginServer \/ StartAdminPort
  BY <1>11 DEF StartTcpPluginServer, StartAdminPort
<1>12. ASSUME NEW c \in Chains, HandleData(c) PROVE ServingInv'
  BY <1>12 DEF HandleData, IoRuns
<1>13. ASSUME NEW c \in Chains, HandleAborted(c) PROVE ServingInv'
  BY <1>13 DEF HandleAborted, IoRuns
<1>14. ASSUME NEW c \in Chains, DataArrives(c) PROVE ServingInv'
  BY <1>14 DEF DataArrives
<1>15. ASSUME NEW c \in Chains, PeerFails(c) PROVE ServingInv'
  BY <1>15 DEF PeerFails
<1>16. CASE ReceiveAgain
  BY <1>16 DEF ReceiveAgain
<1>17. ASSUME NEW c \in Chains, HandleError(c) PROVE ServingInv'
  BY <1>17 DEF HandleError, IoRuns
<1>18. CASE Signal
  BY <1>18 DEF Signal
<1>19. ASSUME NEW t \in Stoppers, StopAsyncReceive(t) \/ Disconnect(t)
      PROVE  ServingInv'
  <2>1. CASE StopAsyncReceive(t)
    BY <2>1 DEF StopAsyncReceive, Aborted
  <2>2. CASE Disconnect(t)
    BY <2>2 DEF Disconnect, Aborted
  <2> QED
    BY <1>19, <2>1, <2>2
<1>20. ASSUME NEW t \in Stoppers, StopPlugin(t) \/ StoppedAll(t)
      PROVE  ServingInv'
  <2>1. CASE StopPlugin(t)
    BY <2>1, UpdateSeq DEF StopPlugin, PluginStates
  <2>2. CASE StoppedAll(t)
    BY <2>2 DEF StoppedAll
  <2> QED
    BY <1>20, <2>1, <2>2
<1>21. ASSUME NEW t \in Stoppers, StopTcpPluginServer(t) PROVE ServingInv'
  BY <1>21 DEF StopTcpPluginServer
<1>22. ASSUME NEW t \in Stoppers, DeinitializePlugins(t) PROVE ServingInv'
  BY <1>22 DEF DeinitializePlugins, ChangeVector, OthersUseVector, UsesVector, Waits
<1>23. ASSUME NEW t \in Stoppers, StopAdminPort(t) PROVE ServingInv'
  BY <1>23 DEF StopAdminPort
<1>24. ASSUME NEW t \in Stoppers, SetValue(t) PROVE ServingInv'
  <2>1. m_stop_promise' # "unset"
    BY <1>24 DEF SetValue, Results
  <2> QED
    BY <2>1
<1>25. ASSUME NEW i \in 1..Len(m_plugins), RunEntry(i) PROVE ServingInv'
  BY <1>25, UpdateSeq DEF RunEntry, PluginStates, Threaded
<1>26. CASE HandleRefused
  BY <1>26 DEF HandleRefused, TcpPluginConnected, IoRuns
<1>27. ASSUME NEW t \in Stoppers, JoinPlugin(t) PROVE ServingInv'
  BY <1>27, UpdateSeq DEF JoinPlugin, PluginStates, Threaded
<1>28. ASSUME NEW t \in Stoppers, StopTcpPlugin(t) PROVE ServingInv'
  BY <1>28 DEF StopTcpPlugin
<1>29. CASE TcpPluginGone
  BY <1>29 DEF TcpPluginGone
<1> HIDE DEF TypeOK, CoreInv, LiveInv, Controls, Chains, Goto,
    StopPcs, StartupPcs, EarlyPcs, LatePcs, LoopPcs, UnconnectedPcs,
    ConnectedPcs, receiving, objects, outcome, history, ServingInv, ChainInv,
    PhaseInv, Closed, Ending, FirstRun, Finishing, Finished, SecondRun,
    WhereInv, UnspawnedInv, Threaded, Begun, Leaving
<1> QED
  BY <1>1, <1>2, <1>3, <1>4, <1>5, <1>6, <1>7, <1>8, <1>9, <1>10, <1>11,
     <1>12, <1>13, <1>14, <1>15, <1>16, <1>17, <1>18, <1>19, <1>20, <1>21,
     <1>22, <1>23, <1>24,
     <1>25, <1>26, <1>27, <1>28, <1>29
     DEF Next, Startup, Environment, Handler, Stop, Worker

\* The first stop passes no plugin without stopping it.
LEMMA FirstStopStep ==
  ASSUME ~StopDuringStartup, CoreInv, ~crashed, Next, TypeOK', ~crashed'
  PROVE  FirstStopInv'
<1> USE DEF TypeOK, CoreInv, LiveInv, Controls, Chains, Goto, Stoppers,
    StopPcs, StartupPcs, EarlyPcs, LatePcs, LoopPcs, UnconnectedPcs,
    ConnectedPcs, receiving, objects, outcome, history, FirstStopInv,
    PhaseInv, Closed, Ending, FirstRun, Finishing, Finished, SecondRun,
    WhereInv, UnspawnedInv, Threaded, Begun, Leaving
<1>1. CASE ContextRun
  BY <1>1 DEF ContextRun
<1>2. CASE Fork
  BY <1>2 DEF Fork
<1>3. CASE Resolve
  BY <1>3 DEF Resolve
<1>4. CASE ConnectFails
  BY <1>4 DEF ConnectFails
<1>5. CASE LoadedAll \/ SpawnedAll
  <2>1. CASE LoadedAll
    BY <2>1 DEF LoadedAll
  <2>2. CASE SpawnedAll
    BY <2>2 DEF SpawnedAll
  <2> QED
    BY <1>5, <2>1, <2>2
<1>6. CASE ContextStop \/ ContextJoin \/ WaitForStop
  <2>1. CASE ContextStop
    BY <2>1 DEF ContextStop
  <2>2. CASE ContextJoin
    BY <2>2 DEF ContextJoin
  <2>3. CASE WaitForStop
    BY <2>3 DEF WaitForStop
  <2> QED
    BY <1>6, <2>1, <2>2, <2>3
<1>7. CASE Run
  BY <1>7 DEF Run
<1>8. CASE Connect
  BY <1>8 DEF Connect
<1>9. CASE LoadPlugin
  <2>1. CASE ChangeVector("main", Append(m_plugins, "loaded"))
    <3>1. /\ UNCHANGED <<m_tcp_plugin_server, stops>>
          /\ \A t \in Stoppers : pc'[t] = pc[t] /\ at'[t] = at[t]
      BY <1>9 DEF LoadPlugin
    <3>2. m_plugins' = Append(m_plugins, "loaded")
      BY <2>1, Zenon DEF ChangeVector
    <3>3. /\ Len(m_plugins) \in Nat /\ Len(m_plugins') = Len(m_plugins) + 1
          /\ \A k \in 1..Len(m_plugins) : m_plugins'[k] = m_plugins[k]
          /\ m_plugins'[Len(m_plugins) + 1] = "loaded"
      <4>1. m_plugins \in Seq(PluginStates) /\ "loaded" \in PluginStates
        BY DEF PluginStates
      <4> QED
        BY ONLY <3>2, <4>1, AppendProperties
    <3>4. \A k \in 1..Len(m_plugins') :
            \/ k \in 1..Len(m_plugins) /\ m_plugins'[k] = m_plugins[k]
            \/ m_plugins'[k] = "loaded"
      BY ONLY <3>3
    <3>5. "loaded" \notin Threaded /\ "loaded" \notin Leaving
      OBVIOUS
    <3>6. stops \in {0, 1} => \A t \in Stoppers : pc[t] \notin StopPcs
      <4>1. pc["main"] = "initializePlugins"
        BY <1>9 DEF LoadPlugin
      <4> QED
        BY <4>1
    <3>7. stops' \in {0, 1} => \A t \in Stoppers : pc'[t] \notin StopPcs
      BY <3>1, <3>6
    <3>8. stops' = 0 => /\ ~Closed'
                        /\ \A k \in 1..Len(m_plugins') : m_plugins'[k] \notin Leaving
      BY <3>1, <3>4, <3>5
    <3> QED
      BY ONLY <3>7, <3>8
         DEF FirstStopInv, StopPcs, EarlyPcs, Stoppers
  <2>2. CASE UNCHANGED <<m_plugins, raced, crashed>>
    BY <1>9, <2>2 DEF LoadPlugin
  <2> QED
    BY <1>9, <2>1, <2>2, Zenon DEF LoadPlugin
<1>10. CASE SpawnPlugin
  BY <1>10, UpdateSeq DEF SpawnPlugin, PluginStates
<1>11. CASE StartTcpPluginServer \/ StartAdminPort
  BY <1>11 DEF StartTcpPluginServer, StartAdminPort
<1>12. ASSUME NEW c \in Chains, HandleData(c) PROVE FirstStopInv'
  BY <1>12 DEF HandleData, IoRuns
<1>13. ASSUME NEW c \in Chains, HandleAborted(c) PROVE FirstStopInv'
  BY <1>13 DEF HandleAborted, IoRuns
<1>14. ASSUME NEW c \in Chains, DataArrives(c) PROVE FirstStopInv'
  BY <1>14 DEF DataArrives
<1>15. ASSUME NEW c \in Chains, PeerFails(c) PROVE FirstStopInv'
  BY <1>15 DEF PeerFails
<1>16. CASE ReceiveAgain
  BY <1>16 DEF ReceiveAgain
<1>17. ASSUME NEW c \in Chains, HandleError(c) PROVE FirstStopInv'
  BY <1>17 DEF HandleError, IoRuns
<1>18. CASE Signal
  BY <1>18 DEF Signal
<1>19. ASSUME NEW t \in Stoppers, StopAsyncReceive(t) \/ Disconnect(t)
      PROVE  FirstStopInv'
  <2>1. CASE StopAsyncReceive(t)
    BY <2>1 DEF StopAsyncReceive, Aborted
  <2>2. CASE Disconnect(t)
    BY <2>2 DEF Disconnect, Aborted
  <2> QED
    BY <1>19, <2>1, <2>2
<1>20. ASSUME NEW t \in Stoppers, StopPlugin(t) \/ StoppedAll(t)
      PROVE  FirstStopInv'
  <2>1. CASE StopPlugin(t)
    BY <2>1, UpdateSeq DEF StopPlugin, PluginStates
  <2>2. CASE StoppedAll(t)
    BY <2>2 DEF StoppedAll
  <2> QED
    BY <1>20, <2>1, <2>2
<1>21. ASSUME NEW t \in Stoppers, StopTcpPluginServer(t) PROVE FirstStopInv'
  BY <1>21 DEF StopTcpPluginServer
<1>22. ASSUME NEW t \in Stoppers, DeinitializePlugins(t) PROVE FirstStopInv'
  BY <1>22 DEF DeinitializePlugins, ChangeVector, OthersUseVector, UsesVector, Waits
<1>23. ASSUME NEW t \in Stoppers, StopAdminPort(t) PROVE FirstStopInv'
  BY <1>23 DEF StopAdminPort
<1>24. ASSUME NEW t \in Stoppers, SetValue(t) PROVE FirstStopInv'
  BY <1>24 DEF SetValue
<1>25. ASSUME NEW i \in 1..Len(m_plugins), RunEntry(i) PROVE FirstStopInv'
  BY <1>25, UpdateSeq DEF RunEntry, PluginStates, Threaded
<1>26. CASE HandleRefused
  BY <1>26 DEF HandleRefused, TcpPluginConnected, IoRuns
<1>27. ASSUME NEW t \in Stoppers, JoinPlugin(t) PROVE FirstStopInv'
  BY <1>27, UpdateSeq DEF JoinPlugin, PluginStates, Threaded
<1>28. ASSUME NEW t \in Stoppers, StopTcpPlugin(t) PROVE FirstStopInv'
  BY <1>28 DEF StopTcpPlugin
<1>29. CASE TcpPluginGone
  BY <1>29 DEF TcpPluginGone
<1> HIDE DEF TypeOK, CoreInv, LiveInv, Controls, Chains, Goto,
    StopPcs, StartupPcs, EarlyPcs, LatePcs, LoopPcs, UnconnectedPcs,
    ConnectedPcs, receiving, objects, outcome, history, FirstStopInv,
    PhaseInv, Closed, Ending, FirstRun, Finishing, Finished, SecondRun,
    WhereInv, UnspawnedInv, Threaded, Begun, Leaving
<1> QED
  BY <1>1, <1>2, <1>3, <1>4, <1>5, <1>6, <1>7, <1>8, <1>9, <1>10, <1>11,
     <1>12, <1>13, <1>14, <1>15, <1>16, <1>17, <1>18, <1>19, <1>20, <1>21,
     <1>22, <1>23, <1>24,
     <1>25, <1>26, <1>27, <1>28, <1>29
     DEF Next, Startup, Environment, Handler, Stop, Worker

\* A process that has been terminated takes no step.
LEMMA CrashedIsFinal == Next => ~crashed
<1> SUFFICES ASSUME Next PROVE ~crashed
  OBVIOUS
<1> USE DEF Goto
<1>1. CASE Startup
  BY <1>1 DEF Startup, ContextRun, Fork, Run, Resolve, LoadPlugin, LoadedAll,
     SpawnPlugin, SpawnedAll, StartTcpPluginServer, StartAdminPort
<1>2. CASE ConnectFails \/ Connect \/ WaitForStop \/ ContextStop \/ ContextJoin
  BY <1>2 DEF ConnectFails, Connect, WaitForStop, ContextStop, ContextJoin
<1>3. CASE Environment \/ Handler \/ Signal
  BY <1>3 DEF Environment, DataArrives, PeerFails, Handler, ReceiveAgain,
     HandleData, HandleError, HandleAborted, Signal, HandleRefused, TcpPluginGone
<1>4. ASSUME NEW t \in {"io", "sig"}, Stop(t) PROVE ~crashed
  BY <1>4 DEF Stop, StopAsyncReceive, Disconnect, StopPlugin, JoinPlugin,
     StopTcpPlugin, StoppedAll, StopTcpPluginServer, DeinitializePlugins,
     StopAdminPort, SetValue
<1>5. CASE Worker
  BY <1>5 DEF Worker, RunEntry
<1> QED
  BY <1>1, <1>2, <1>3, <1>4, <1>5 DEF Next

\* Every step preserves CoreInv.
LEMMA CoreInvStep ==
  ASSUME ~StopDuringStartup, CoreInv, [Next]_vars
  PROVE  CoreInv'
<1>1. TypeOK'
  BY TypeStep DEF CoreInv
<1>2. CASE UNCHANGED vars
  BY <1>2 DEF CoreInv, LiveInv, vars, receiving, objects, outcome, history,
     Chains, TypeOK, WhereInv, FirstStopIsSafe, CleanStop, ChainInv, ErrorInv,
     PhaseInv, Closed, Ending, FirstRun, Finishing, Finished, SecondRun,
     UnspawnedInv, ServingInv, FirstStopInv
<1>3. CASE Next
  <2>1. ~crashed
    BY <1>3, CrashedIsFinal
  <2>2. WhereInv' /\ FirstStopIsSafe' /\ CleanStop'
    BY <1>1, <1>3, <2>1, WhereStep, FirstStopSafeStep, CleanStopStep
  <2>3. ASSUME ~crashed' PROVE LiveInv'
    BY <1>1, <1>3, <2>1, <2>3, ChainStep, ErrorStep, PhaseStep, UnspawnedStep,
       ServingStep, FirstStopStep DEF LiveInv
  <2> QED
    BY <1>1, <2>2, <2>3 DEF CoreInv
<1> QED
  BY <1>2, <1>3

\* CoreInv is an invariant of the specification.
LEMMA CoreInvHolds ==
  ASSUME ~StopDuringStartup
  PROVE  Spec => []CoreInv
<1>1. CoreInv /\ [Next]_vars => CoreInv'
  BY CoreInvStep
<1> QED
  BY <1>1, CoreInvInit, PTL DEF Spec

\* stop()/waitForStop(): whenever main passes its wait, the run it waited for
\* is taken down, whichever threads called stop() and in whatever order.
THEOREM CleanStopCorrect ==
  ASSUME ~StopDuringStartup
  PROVE  Spec => []CleanStop
<1>1. CoreInv => CleanStop
  BY DEF CoreInv
<1> QED
  BY <1>1, CoreInvHolds, PTL

\* run(): as long as nobody stops the client, what main has set up serves.
THEOREM ServingCorrect ==
  ASSUME ~StopDuringStartup
  PROVE  Spec => []UpMeansServing
<1>1. CoreInv => UpMeansServing
  BY DEF CoreInv, LiveInv, ServingInv, ChainInv, UpMeansServing, Stopping, Begun,
     Stoppers, ConnectedPcs
<1> QED
  BY <1>1, CoreInvHolds, PTL

\* stop(): the first stop of a process does not terminate it, unless the vector
\* of plugins was changed while another thread used it.
THEOREM FirstStopCorrect ==
  ASSUME ~StopDuringStartup
  PROVE  Spec => []FirstStopIsSafe
<1>1. CoreInv => FirstStopIsSafe
  BY DEF CoreInv
<1> QED
  BY <1>1, CoreInvHolds, PTL

\* startTcpPluginServer() keeps a server that is closed, and the next stop throws
\* on it: a process reconnects at most once and is then terminated or stays.
OneReconnection == ~crashed => runs <= 2

\* main's loop: no process calls Core::run a third time, whatever stops it.
THEOREM OneReconnectionOnly ==
  ASSUME ~StopDuringStartup
  PROVE  Spec => []OneReconnection
<1>1. CoreInv => OneReconnection
  BY DEF CoreInv, LiveInv, PhaseInv, FirstRun, Finishing, Finished, SecondRun,
     OneReconnection, TypeOK
<1> QED
  BY <1>1, CoreInvHolds, PTL

=============================================================================
