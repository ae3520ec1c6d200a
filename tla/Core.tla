-------------------------------- MODULE Core --------------------------------
(***************************************************************************)
(* The life of the bot: main's loop over Core::run and Core::waitForStop   *)
(* (program/ircbot.cpp, source/core.cpp), the io thread of ContextProvider *)
(* and the receive handler on it, and Core::stop, which runs on the io     *)
(* thread after a connection error and inside the signal handler, on       *)
(* main's stack, after SIGINT or SIGTERM.                                  *)
(*                                                                         *)
(* Threads of control: "main", "io" and "sig", the signal handler, which   *)
(* suspends main while it runs.                                            *)
(*                                                                         *)
(* A plugin is reduced to its flag and its thread: "loaded" (m_running is  *)
(* set, no thread), "spawned" (a thread that has not begun run()),         *)
(* "running", "early" (m_running was cleared before run() began),          *)
(* "stopping" (it was cleared in run()), "stopped"; module Plugin has the  *)
(* rest.  At most one TcpPlugin is connected behind them; of it there is   *)
(* only the wait in onShutdown, for what a handler on the io thread has to *)
(* do first; module TcpPlugin has the rest.                                *)
(*                                                                         *)
(* asio (external): an asynchronous receive is pending, or its completion  *)
(* is queued for the io thread with success, an error or operation_aborted.*)
(* cancel() and close() abort what is pending and do not touch a           *)
(* completion that is already queued; a receive on a closed socket         *)
(* completes with an error other than operation_aborted; cancel() on a     *)
(* closed acceptor throws.  An exception that leaves a handler on the io   *)
(* thread or the signal handler terminates the process: crashed.           *)
(* fork() (external): the child has main's thread and no other; joining a  *)
(* thread of the parent from the child is undefined.                       *)
(***************************************************************************)
EXTENDS Integers, Sequences

CONSTANTS
  Daemon,                \* the option "daemon"
  NPlugins,              \* entries of "plugins" in the configuration
  TcpPlugins,            \* may a TcpPlugin connect?
  Sources,               \* what may stop the client: "error", "signal"
  Traffic,               \* does the server send data?
  StopDuringStartup,     \* may a stop begin before main waits?
  ReconnectInterval,     \* configuration, milliseconds
  MaxReconnectInterval,  \* configuration, milliseconds
  UIntModulus,           \* 2^32, the width of connect()'s interval
  MaxRuns                \* bound: calls of Core::run

ASSUME CoreAssumption ==
  /\ Daemon \in BOOLEAN
  /\ NPlugins \in Nat
  /\ TcpPlugins \in BOOLEAN
  /\ Sources \subseteq {"error", "signal"}
  /\ Traffic \in BOOLEAN /\ StopDuringStartup \in BOOLEAN
  /\ UIntModulus \in Nat \ {0}
  /\ ReconnectInterval \in 0..(UIntModulus - 1)
  /\ MaxReconnectInterval \in 0..(UIntModulus - 1)
  /\ MaxRuns \in Nat

VARIABLES
  pc,                   \* where "main", "io" and "sig" are
  at,                   \* position of each in its loop over the plugins
  m_context_thread,     \* ContextProvider's thread: "none", "running",
                        \* "stopping", "ended", or "absent" after a fork
  interval,             \* connect(): local interval
  m_socket,             \* "closed" or "open"
  receive,              \* per chain of receives, one per connect(): its state
  chain,                \* chain whose handler the io thread runs
  m_plugins,            \* vector of plugins, by state
  m_tcp_plugin_server,  \* "null", "listening" or "closed"
  m_admin_port,         \* m_admin_port != nullptr
  m_running,
  m_result,
  m_stop_promise,       \* "unset" or the value that was set
  runs,                 \* calls of run() so far
  stops,                \* calls of stop() so far
  signalled,            \* a signal has been delivered
  raced,                \* the vector, or a plugin in it, was changed or destroyed
                        \* while another thread used it
  crashed               \* the process has been terminated

receiving == <<m_context_thread, m_socket, receive, chain>>
objects == <<m_plugins, m_tcp_plugin_server, m_admin_port>>
outcome == <<m_running, m_result, m_stop_promise>>
history == <<runs, stops, signalled, raced, crashed>>
vars == <<pc, at, interval, receiving, objects, outcome, history>>

Controls == {"main", "io", "sig"}
Chains == 1..MaxRuns
Results == {"OK", "CONNECTION_ERROR"}

PluginStates == {"loaded", "spawned", "running", "early", "stopping", "stopped"}
Threaded == {"spawned", "running", "early", "stopping"}

StopPcs == {"stopAsyncReceive", "disconnect", "stopPlugins", "join", "onShutdown",
            "stopTcpPluginServer", "deinitializePlugins", "stopAdminPort",
            "setValue"}
StartupPcs == {"run", "resolve", "connect", "initializePlugins",
               "startPlugins", "startTcpPluginServer", "startAdminPort"}
PcStates == StopPcs \cup StartupPcs
              \cup {"contextRun", "fork", "wait", "contextStop", "contextJoin",
                    "exit", "failed", "hung", "idle", "route", "refused"}

Init ==
  /\ pc = [t \in Controls |-> IF t = "main" THEN "contextRun" ELSE "idle"]
  /\ at = [t \in Controls |-> 1]
  /\ m_context_thread = "none"
  /\ interval = ReconnectInterval
  /\ m_socket = "closed"
  /\ receive = [c \in Chains |-> "none"]
  /\ chain = 0
  /\ m_plugins = <<>>
  /\ m_tcp_plugin_server = "null"
  /\ m_admin_port = FALSE
  /\ m_running = FALSE
  /\ m_result = "OK"
  /\ m_stop_promise = "unset"
  /\ runs = 0
  /\ stops = 0
  /\ signalled = FALSE
  /\ raced = FALSE
  /\ crashed = FALSE

\* Control t moves on; main only while no signal handler sits on its stack.
Goto(t, from, to) ==
  /\ ~crashed
  /\ t = "main" => pc["sig"] = "idle"
  /\ pc[t] = from
  /\ pc' = [pc EXCEPT ![t] = to]

\* Control t waits in the onShutdown() of a TcpPlugin.
Waits(t) == pc[t] \in {"onShutdown", "refused"}

\* A control other than t iterates over, fills or clears m_plugins, which no
\* mutex protects, or is in a call of a plugin in it.
UsesVector == {"route", "stopPlugins", "join", "onShutdown", "refused",
               "deinitializePlugins"}

OthersUseVector(t) ==
  \/ t # "main" /\ pc["main"] \in {"initializePlugins", "startPlugins"}
  \/ \E u \in {"io", "sig"} \ {t} : pc[u] \in UsesVector

\* Control t changes the vector: a data race, if another one uses it, either
\* goes well or terminates the process.  Destroying a plugin that owns a thread
\* does so in any case, and so does destroying the promise that another control
\* waits for.
ChangeVector(t, new) ==
  /\ m_plugins' = new
  /\ raced' = (raced \/ OthersUseVector(t))
  /\ \/ crashed' = (new = <<>>
                      /\ \/ \E i \in 1..Len(m_plugins) : m_plugins[i] \in Threaded
                         \/ \E u \in {"io", "sig"} \ {t} : Waits(u))
     \/ OthersUseVector(t) /\ crashed' = TRUE

Stopping == \E t \in {"io", "sig"} : pc[t] \in StopPcs

-----------------------------------------------------------------------------
(* main around its loop: ContextProvider and the fork *)

\* Mutant: no work keeps the empty context from returning.
ContextRun_NoWork ==
  /\ Goto("main", "contextRun", "fork")
  /\ m_context_thread' = "ended"
  /\ UNCHANGED <<at, interval, m_socket, receive, chain, objects, outcome, history>>

\* ctx.run(): the thread runs handlers, and its work keeps it when there are none.
ContextRun ==
  /\ Goto("main", "contextRun", "fork")
  /\ m_context_thread' = "running"
  /\ UNCHANGED <<at, interval, m_socket, receive, chain, objects, outcome, history>>

\* if (daemon): the child goes on, or this process when there is no child.
Fork ==
  /\ Goto("main", "fork", "run")
  /\ \E child \in IF Daemon THEN BOOLEAN ELSE {FALSE} :
       m_context_thread' = IF child THEN "absent" ELSE m_context_thread
  /\ UNCHANGED <<at, interval, m_socket, receive, chain, objects, outcome, history>>

\* ctx.stop(): m_context.stop(), the thread ends after the handler it is in.
ContextStop ==
  /\ Goto("main", "contextStop", "contextJoin")
  /\ m_context_thread' = IF m_context_thread = "running" THEN "stopping"
                         ELSE m_context_thread
  /\ UNCHANGED <<at, interval, m_socket, receive, chain, objects, outcome, history>>

\* ctx.stop(): m_context_thread.join()
ContextJoin ==
  /\ m_context_thread # "running" /\ pc["io"] = "idle"
  /\ \E to \in IF m_context_thread = "absent" THEN {"exit", "hung"} ELSE {"exit"} :
       Goto("main", "contextJoin", to)
  /\ m_context_thread' = "ended"
  /\ UNCHANGED <<at, interval, m_socket, receive, chain, objects, outcome, history>>

-----------------------------------------------------------------------------
(* Core::run, on main *)

Run ==
  /\ Goto("main", "run", "resolve")
  /\ runs < MaxRuns
  /\ runs' = runs + 1
  /\ m_running' = TRUE
  /\ m_stop_promise' = "unset"
  /\ UNCHANGED <<at, interval, receiving, objects, m_result, stops, signalled,
                 raced, crashed>>

\* connect(): resolving the host; a failure leaves main with an exception.
Resolve ==
  /\ \/ Goto("main", "resolve", "connect")
     \/ Goto("main", "resolve", "failed")
  /\ interval' = ReconnectInterval
  /\ UNCHANGED <<at, receiving, objects, outcome, history>>

\* Mutants: the interval is not capped; it is kept in a narrower integer.
NextInterval_NoCap(i) == 2 * i

NextInterval_Narrow(i) ==
  LET j == (2 * i) % (UIntModulus \div 8)
  IN  IF j < MaxReconnectInterval THEN j ELSE MaxReconnectInterval

\* interval *= 2;  interval = (interval < maximum_interval) ? ...;  uint32_t
NextInterval(i) ==
  LET j == (2 * i) % UIntModulus
  IN  IF j < MaxReconnectInterval THEN j ELSE MaxReconnectInterval

\* A trial of connect() fails: sleep, double the interval, try again.
ConnectFails ==
  /\ Goto("main", "connect", "connect")
  /\ interval' = NextInterval(interval)
  /\ UNCHANGED <<at, receiving, objects, outcome, history>>

\* A trial succeeds, and startAsyncReceive() begins the chain of this run.
Connect ==
  /\ Goto("main", "connect", "initializePlugins")
  /\ m_socket' = "open"
  /\ receive' = [receive EXCEPT ![runs] = "pending"]
  /\ at' = [at EXCEPT !["main"] = 1]
  /\ UNCHANGED <<interval, m_context_thread, chain, objects, outcome, history>>

\* initializePlugins(): one entry of the configuration; loadPlugin adds it to
\* the vector, omits it, or throws (no path in the entry, a constructor).
LoadPlugin ==
  /\ at["main"] <= NPlugins
  /\ at' = [at EXCEPT !["main"] = @ + 1]
  /\ \/ /\ Goto("main", "initializePlugins", "initializePlugins")
        /\ ChangeVector("main", Append(m_plugins, "loaded"))
     \/ /\ \/ Goto("main", "initializePlugins", "initializePlugins")
           \/ Goto("main", "initializePlugins", "failed")
        /\ UNCHANGED <<m_plugins, raced, crashed>>
  /\ UNCHANGED <<interval, receiving, m_tcp_plugin_server, m_admin_port,
                 outcome, runs, stops, signalled>>

LoadedAll ==
  /\ at["main"] > NPlugins
  /\ Goto("main", "initializePlugins", "startPlugins")
  /\ at' = [at EXCEPT !["main"] = 1]
  /\ UNCHANGED <<interval, receiving, objects, outcome, history>>

\* startPlugins(): spawn() of one plugin; assigning to a thread that is joinable
\* terminates.
SpawnPlugin ==
  /\ at["main"] <= Len(m_plugins)
  /\ Goto("main", "startPlugins", "startPlugins")
  /\ at' = [at EXCEPT !["main"] = @ + 1]
  /\ m_plugins' = [m_plugins EXCEPT ![at["main"]] = "spawned"]
  /\ crashed' = (m_plugins[at["main"]] \in Threaded)
  /\ UNCHANGED <<interval, receiving, m_tcp_plugin_server, m_admin_port,
                 outcome, runs, stops, signalled, raced>>

\* The thread of a plugin begins run(), which sets m_running again.
RunEntry(i) ==
  /\ ~crashed /\ pc["main"] # "failed"
  /\ m_plugins[i] \in {"spawned", "early"}
  /\ m_plugins' = [m_plugins EXCEPT ![i] = "running"]
  /\ UNCHANGED <<pc, at, interval, receiving, m_tcp_plugin_server, m_admin_port,
                 outcome, history>>

SpawnedAll ==
  /\ at["main"] > Len(m_plugins)
  /\ Goto("main", "startPlugins", "startTcpPluginServer")
  /\ UNCHANGED <<at, interval, receiving, objects, outcome, history>>

\* startTcpPluginServer(): logs an error and returns if there is a server
\* object; the constructor of a new one may throw.
StartTcpPluginServer ==
  /\ \/ /\ Goto("main", "startTcpPluginServer", "startAdminPort")
        /\ m_tcp_plugin_server' =
             IF m_tcp_plugin_server = "null" THEN "listening"
             ELSE m_tcp_plugin_server
     \/ /\ m_tcp_plugin_server = "null"
        /\ Goto("main", "startTcpPluginServer", "failed")
        /\ UNCHANGED m_tcp_plugin_server
  /\ UNCHANGED <<at, interval, receiving, m_plugins, m_admin_port, outcome,
                 history>>

\* startAdminPort(), with the same shape.
StartAdminPort ==
  /\ \/ /\ Goto("main", "startAdminPort", "wait")
        /\ m_admin_port' = TRUE
     \/ /\ ~m_admin_port
        /\ Goto("main", "startAdminPort", "failed")
        /\ UNCHANGED m_admin_port
  /\ UNCHANGED <<at, interval, receiving, m_plugins, m_tcp_plugin_server,
                 outcome, history>>

\* Mutants: main does not run again after an error; OK is not waited for.
WaitForStop_ErrorExits ==
  /\ m_stop_promise # "unset"
  /\ Goto("main", "wait", "contextStop")
  /\ UNCHANGED <<at, interval, receiving, objects, outcome, history>>

WaitForStop_IgnoresOk ==
  /\ m_stop_promise = "CONNECTION_ERROR"
  /\ Goto("main", "wait", "run")
  /\ UNCHANGED <<at, interval, receiving, objects, outcome, history>>

\* waitForStop() returns and main's loop ends or goes round again.
WaitForStop ==
  /\ m_stop_promise # "unset"
  /\ Goto("main", "wait", IF m_stop_promise = "OK" THEN "contextStop" ELSE "run")
  /\ UNCHANGED <<at, interval, receiving, objects, outcome, history>>

-----------------------------------------------------------------------------
(* The socket and the receive handler of startAsyncReceive, on io *)

\* The io thread may begin another handler.
IoRuns == m_context_thread = "running" /\ pc["main"] # "failed"

\* The server sends data.
DataArrives(c) ==
  /\ Traffic /\ ~crashed
  /\ m_socket = "open" /\ receive[c] = "pending"
  /\ receive' = [receive EXCEPT ![c] = "ready"]
  /\ UNCHANGED <<pc, at, interval, m_context_thread, m_socket, chain, objects, outcome, history>>

\* The server closes the connection or it breaks.
PeerFails(c) ==
  /\ "error" \in Sources /\ ~crashed
  /\ StopDuringStartup \/ pc["main"] = "wait"
  /\ m_socket = "open" /\ receive[c] = "pending"
  /\ receive' = [receive EXCEPT ![c] = "error"]
  /\ UNCHANGED <<pc, at, interval, m_context_thread, m_socket, chain, objects, outcome, history>>

\* Mutant: the handler returns without receiving again.
HandleData_NotRearmed(c) ==
  /\ IoRuns
  /\ Goto("io", "idle", "idle")
  /\ receive[c] = "ready"
  /\ receive' = [receive EXCEPT ![c] = "none"]
  /\ UNCHANGED <<at, interval, m_context_thread, m_socket, chain, objects, outcome, history>>

\* The handler is called with data: parse it and route the messages.
HandleData(c) ==
  /\ IoRuns
  /\ Goto("io", "idle", "route")
  /\ receive[c] = "ready"
  /\ receive' = [receive EXCEPT ![c] = "none"]
  /\ chain' = c
  /\ UNCHANGED <<at, interval, m_context_thread, m_socket, objects, outcome, history>>

\* The end of that handler: startAsyncReceive() on the socket as it is now.
ReceiveAgain ==
  /\ Goto("io", "route", "idle")
  /\ receive' = [receive EXCEPT ![chain] =
                   IF m_socket = "open" THEN "pending" ELSE "error"]
  /\ UNCHANGED <<at, interval, m_context_thread, m_socket, chain, objects, outcome, history>>

\* The handler is called with an error: stop().
HandleError(c) ==
  /\ IoRuns
  /\ Goto("io", "idle", "stopAsyncReceive")
  /\ receive[c] = "error"
  /\ receive' = [receive EXCEPT ![c] = "none"]
  /\ m_result' = "CONNECTION_ERROR"
  /\ stops' = stops + 1
  /\ UNCHANGED <<at, interval, m_context_thread, m_socket, chain, objects, m_running,
                 m_stop_promise, runs, signalled, raced, crashed>>

\* The handler is called with operation_aborted.
HandleAborted(c) ==
  /\ IoRuns
  /\ Goto("io", "idle", "idle")
  /\ receive[c] = "aborted"
  /\ receive' = [receive EXCEPT ![c] = "none"]
  /\ UNCHANGED <<at, interval, m_context_thread, m_socket, chain, objects, outcome, history>>

\* A TcpPlugin may be connected, with m_running set.
TcpPluginConnected ==
  /\ TcpPlugins /\ m_tcp_plugin_server = "listening"
  /\ \A t \in Controls : ~Waits(t)

\* A handler stops a TcpPlugin that is refused or too late, and waits in
\* onShutdown() for another handler on the same thread.
HandleRefused ==
  /\ TcpPluginConnected /\ IoRuns
  /\ Goto("io", "idle", "refused")
  /\ UNCHANGED <<at, interval, receiving, objects, outcome, history>>

-----------------------------------------------------------------------------
(* The signal handler *)

\* SIGINT or SIGTERM is delivered to main, once.
Signal ==
  /\ "signal" \in Sources /\ ~signalled
  /\ pc["main"] \in StartupPcs \cup {"wait"}
  /\ StopDuringStartup \/ pc["main"] = "wait"
  /\ Goto("sig", "idle", "stopAsyncReceive")
  /\ signalled' = TRUE
  /\ stops' = stops + 1
  /\ UNCHANGED <<at, interval, receiving, objects, outcome, runs, raced,
                 crashed>>

-----------------------------------------------------------------------------
(* Core::stop, on t = "io" or t = "sig" *)

\* cancel() and close() on the socket abort what is pending.
Aborted == [c \in Chains |->
              IF receive[c] = "pending" THEN "aborted" ELSE receive[c]]

StopAsyncReceive(t) ==
  /\ Goto(t, "stopAsyncReceive", "disconnect")
  /\ receive' = Aborted
  /\ UNCHANGED <<at, interval, m_context_thread, m_socket, chain, objects, outcome, history>>

Disconnect(t) ==
  /\ Goto(t, "disconnect", "stopPlugins")
  /\ m_running' = FALSE
  /\ m_socket' = "closed"
  /\ receive' = Aborted
  /\ at' = [at EXCEPT ![t] = 1]
  /\ UNCHANGED <<interval, m_context_thread, chain, objects, m_result, m_stop_promise, history>>

\* stopPlugins(): stop() of one plugin, up to the join.  It returns at once if
\* m_running is not set, and joins nothing if there is no thread.
StopPlugin(t) ==
  /\ at[t] <= Len(m_plugins)
  /\ LET p == m_plugins[at[t]] IN
     \/ /\ p \in {"spawned", "running"}
        /\ Goto(t, "stopPlugins", "join")
        /\ m_plugins' = [m_plugins EXCEPT ![at[t]] =
                           IF p = "spawned" THEN "early" ELSE "stopping"]
        /\ UNCHANGED at
     \/ /\ p \notin {"spawned", "running"}
        /\ Goto(t, "stopPlugins", "stopPlugins")
        /\ m_plugins' = [m_plugins EXCEPT ![at[t]] =
                           IF p = "loaded" THEN "stopped" ELSE p]
        /\ at' = [at EXCEPT ![t] = @ + 1]
  /\ UNCHANGED <<interval, receiving, m_tcp_plugin_server, m_admin_port,
                 outcome, history>>

\* m_thread.join(): the worker leaves its loop if m_running is not set.  Joining
\* what another control has joined or destroyed is undefined.
JoinPlugin(t) ==
  /\ Goto(t, "join", "stopPlugins")
  /\ at' = [at EXCEPT ![t] = @ + 1]
  /\ \/ /\ at[t] <= Len(m_plugins) /\ m_plugins[at[t]] = "stopping"
        /\ m_plugins' = [m_plugins EXCEPT ![at[t]] = "stopped"]
        /\ UNCHANGED crashed
     \/ /\ at[t] <= Len(m_plugins) => m_plugins[at[t]] \notin Threaded
        /\ crashed' \in BOOLEAN
        /\ UNCHANGED m_plugins
  /\ UNCHANGED <<interval, receiving, m_tcp_plugin_server, m_admin_port,
                 outcome, runs, stops, signalled, raced>>

\* stop() of a TcpPlugin, the last in the vector: onShutdown() waits.
StopTcpPlugin(t) ==
  /\ TcpPluginConnected
  /\ at[t] > Len(m_plugins)
  /\ Goto(t, "stopPlugins", "onShutdown")
  /\ UNCHANGED <<at, interval, receiving, objects, outcome, history>>

\* The plugin has closed its connection, a handler on the io thread says so, and
\* main removes the plugin, which that handler is not done with.
TcpPluginGone ==
  /\ IoRuns /\ pc["io"] = "idle"
  /\ Goto("sig", "onShutdown", "stopTcpPluginServer")
  /\ raced' = TRUE /\ crashed' \in BOOLEAN
  /\ UNCHANGED <<at, interval, receiving, objects, outcome, runs, stops, signalled>>

\* Mutant: the loop ends one plugin early.
StoppedAll_LastMissed(t) ==
  /\ at[t] >= Len(m_plugins)
  /\ Goto(t, "stopPlugins", "stopTcpPluginServer")
  /\ UNCHANGED <<at, interval, receiving, objects, outcome, history>>

StoppedAll(t) ==
  /\ at[t] > Len(m_plugins)
  /\ Goto(t, "stopPlugins", "stopTcpPluginServer")
  /\ UNCHANGED <<at, interval, receiving, objects, outcome, history>>

\* stopTcpPluginServer(): the object is closed but kept, and m_acceptor.cancel()
\* throws when the acceptor is closed already.
StopTcpPluginServer(t) ==
  /\ Goto(t, "stopTcpPluginServer", "deinitializePlugins")
  /\ m_tcp_plugin_server' =
       IF m_tcp_plugin_server = "null" THEN "null" ELSE "closed"
  /\ crashed' = (m_tcp_plugin_server = "closed")
  /\ UNCHANGED <<at, interval, receiving, m_plugins, m_admin_port, outcome,
                 runs, stops, signalled, raced>>

\* m_plugins.clear(): destroying a plugin that owns a thread terminates.
DeinitializePlugins(t) ==
  /\ Goto(t, "deinitializePlugins", "stopAdminPort")
  /\ ChangeVector(t, <<>>)
  /\ UNCHANGED <<at, interval, receiving, m_tcp_plugin_server, m_admin_port,
                 outcome, runs, stops, signalled>>

\* Mutant: m_admin_port is not reset.
StopAdminPort_Kept(t) ==
  /\ Goto(t, "stopAdminPort", "setValue")
  /\ UNCHANGED <<at, interval, receiving, objects, outcome, history>>

StopAdminPort(t) ==
  /\ Goto(t, "stopAdminPort", "setValue")
  /\ m_admin_port' = FALSE
  /\ UNCHANGED <<at, interval, receiving, m_plugins, m_tcp_plugin_server,
                 outcome, history>>

\* m_stop_promise.set_value(m_result);  throws when a value is set already.
SetValue(t) ==
  /\ Goto(t, "setValue", "idle")
  /\ m_stop_promise' =
       IF m_stop_promise = "unset" THEN m_result ELSE m_stop_promise
  /\ crashed' = (m_stop_promise # "unset")
  /\ UNCHANGED <<at, interval, receiving, objects, m_running, m_result, runs,
                 stops, signalled, raced>>

-----------------------------------------------------------------------------
Startup ==
  \/ ContextRun \/ Fork \/ Run \/ Resolve \/ LoadPlugin \/ LoadedAll \/ SpawnPlugin \/ SpawnedAll
  \/ StartTcpPluginServer \/ StartAdminPort

Handler ==
  \/ ReceiveAgain
  \/ \E c \in Chains : HandleData(c) \/ HandleError(c) \/ HandleAborted(c)

Stop(t) ==
  \/ StopAsyncReceive(t) \/ Disconnect(t) \/ StopPlugin(t) \/ JoinPlugin(t)
  \/ StopTcpPlugin(t) \/ StoppedAll(t)
  \/ StopTcpPluginServer(t) \/ DeinitializePlugins(t) \/ StopAdminPort(t)
  \/ SetValue(t)

Worker == \E i \in 1..Len(m_plugins) : RunEntry(i)

Environment ==
  \/ \E c \in Chains : DataArrives(c) \/ PeerFails(c)
  \/ HandleRefused \/ TcpPluginGone

Next ==
  \/ Startup \/ ConnectFails \/ Connect \/ WaitForStop \/ ContextStop \/ ContextJoin
  \/ Environment \/ Handler \/ Signal \/ Worker
  \/ \E t \in {"io", "sig"} : Stop(t)

Spec == Init /\ [][Next]_vars

(***************************************************************************)
(* Every thread that can move keeps moving; connect() keeps trying.        *)
(* Nothing is assumed of the server and of TcpPlugins: the one may never   *)
(* accept a connection (no fairness of Connect), the others never go away. *)
(***************************************************************************)
Fairness ==
  /\ WF_vars(Startup) /\ WF_vars(ConnectFails)
  /\ WF_vars(WaitForStop \/ ContextStop \/ ContextJoin)
  /\ WF_vars(Handler) /\ WF_vars(Worker)
  /\ \A t \in {"io", "sig"} : WF_vars(Stop(t))

FairSpec == Spec /\ Fairness

-----------------------------------------------------------------------------
(* Properties *)

\* The variables keep their types.
TypeOK ==
  /\ pc \in [Controls -> PcStates]
  /\ at \in [Controls -> Nat]
  /\ m_context_thread \in {"none", "running", "stopping", "ended", "absent"}
  /\ interval \in 0..(UIntModulus - 1)
  /\ m_socket \in {"closed", "open"}
  /\ receive \in [Chains -> {"none", "pending", "ready", "error", "aborted"}]
  /\ chain \in 0..MaxRuns
  /\ m_plugins \in Seq(PluginStates)
  /\ m_tcp_plugin_server \in {"null", "listening", "closed"}
  /\ m_admin_port \in BOOLEAN
  /\ m_running \in BOOLEAN
  /\ m_result \in Results
  /\ m_stop_promise \in Results \cup {"unset"}
  /\ runs \in 0..MaxRuns
  /\ stops \in Nat
  /\ signalled \in BOOLEAN
  /\ raced \in BOOLEAN
  /\ crashed \in BOOLEAN

\* stop()/waitForStop(): main learns of the stop only when everything the run
\* had set up is taken down: no plugin is left, the socket is closed, nothing
\* is pending on it and the admin port is gone.
CleanStop ==
  pc["main"] \in {"run", "contextStop", "contextJoin", "exit"} =>
    /\ m_plugins = <<>>
    /\ m_socket = "closed"
    /\ \A c \in Chains : receive[c] # "pending"
    /\ ~m_admin_port

\* run(): while main waits and nobody stops the client, every plugin in the
\* vector has its thread, which runs or will, the socket is open, the admin port
\* accepts, and exactly one receive, the one this run began, is outstanding.
UpMeansServing ==
  pc["main"] = "wait" /\ ~Stopping /\ m_stop_promise = "unset" /\ ~crashed =>
    /\ \A i \in 1..Len(m_plugins) : m_plugins[i] \in {"spawned", "running"}
    /\ m_socket = "open"
    /\ m_admin_port
    /\ receive[runs] # "none" \/ pc["io"] = "route"
    /\ \A c \in Chains \ {runs} : receive[c] = "none"

\* stop(): the first stop of a process, on whatever thread, throws nothing and
\* destroys no running plugin; only a race on the vector can terminate it.
FirstStopIsSafe == stops <= 1 /\ ~raced => ~crashed

\* connect(): the doubling of the interval never leads to a shorter pause than
\* the configured one, or than the configured maximum if that is shorter.
BackoffNeverShrinks ==
  pc["main"] = "connect" =>
    \/ interval >= ReconnectInterval
    \/ interval >= MaxReconnectInterval

\* A stop() that does not return: in the join of a plugin whose run() has set
\* m_running back, or in the onShutdown() of a TcpPlugin.
Stuck ==
  \E t \in {"io", "sig"} :
    \/ Waits(t)
    \/ pc[t] = "join" /\ at[t] <= Len(m_plugins) /\ m_plugins[at[t]] = "running"

\* main's loop: the first connection error leads to another run(), unless a
\* signal interferes or the stop of a plugin hangs for ever.
ErrorReconnects ==
  (pc["io"] = "stopAsyncReceive" /\ runs = 1) ~> (runs = 2 \/ stops > 1 \/ []Stuck)

\* signal() and ContextProvider::stop: SIGINT and SIGTERM end the process,
\* whatever handler or stop they meet on the io thread, which main joins, unless
\* the stop of a plugin hangs for ever.
SignalEnds ==
  signalled ~> (pc["main"] \in {"exit", "failed"} \/ crashed \/ []Stuck)

\* startAsyncReceive/ContextProvider::run: what the socket reports is handled by
\* the io thread until main leaves its loop, unless the stop of a plugin hangs
\* for ever.  (It does not hold in a daemon, which has no such thread.)
ServerIsHeard ==
  \A c \in Chains :
    receive[c] \in {"ready", "error"} ~>
      \/ receive[c] \notin {"ready", "error"}
      \/ pc["main"] \in {"contextStop", "contextJoin", "exit", "failed"}
      \/ crashed
      \/ []Stuck

\* "Connection error. Restarting client..." (program/ircbot.cpp): every
\* connection error leads to another run().
EveryErrorRestarts ==
  \A r \in 1..(MaxRuns - 1) :
    (pc["io"] = "stopAsyncReceive" /\ runs = r) ~> runs = r + 1

=============================================================================
