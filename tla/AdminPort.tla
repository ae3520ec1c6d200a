----------------------------- MODULE AdminPort ------------------------------
(***************************************************************************)
(* The admin port (source/admin_port.cpp) and the operations on plugins    *)
(* that its commands call in Core (source/core.cpp): clients connect to a  *)
(* unix socket and send restartPlugin, reloadPlugin and shutdown.          *)
(*                                                                         *)
(* All of it runs in handlers on the io thread; each plugin has a worker.  *)
(* What a worker does between its start and its end is in module Plugin    *)
(* (one that has thrown ends like one that is stopped, but at once), and   *)
(* the steps of Core::run and of a Core::stop on another thread are in     *)
(* module Core: run() is one step here.  The order of the vector of        *)
(* plugins matters to nothing in this module.                              *)
(*                                                                         *)
(* dlopen and dlclose (external): a file that is mapped already is not     *)
(* read again, its count goes up; it is unmapped when the count is zero.   *)
(* std::vector (external): push_back on a full vector doubles its capacity *)
(* and moves the elements.  asio (external): a receive keeps the addresses *)
(* it was given; closing its socket aborts it, unless its completion is    *)
(* queued already.  What a handler does with an object that was moved or   *)
(* destroyed is undefined: the process survives it, or not.                *)
(***************************************************************************)
EXTENDS Naturals, Sequences, FiniteSets

CONSTANTS
  Clients,      \* connections to the admin port
  Plugins,      \* ids
  Files,        \* shared libraries
  Scenarios,    \* bound: the clients that ever connect, the configuration and
                \* the files that ever change
  MaxVersion,   \* bound: versions of a file on disk
  MaxCommands,  \* bound: commands sent
  MaxRuns       \* bound: calls of Core::run

ASSUME AdminAssumption ==
  /\ IsFiniteSet(Plugins)
  /\ Clients \cap {"none", "pending"} = {} /\ "none" \notin Files
  /\ Scenarios \subseteq [clients : SUBSET Clients,
                          path : [Plugins -> Files \cup {"none"}],
                          files : SUBSET Files]
  /\ MaxVersion \in Nat \ {0} /\ MaxCommands \in Nat /\ MaxRuns \in Nat \ {0}

VARIABLES
  io,         \* what the io thread executes
  main,       \* "wait", "restart" or "exit"
  runs,       \* calls of Core::run
  fatal,      \* what terminated the process, "no" as long as it runs
  m_admin_port,  \* m_admin_port != nullptr
  accept,     \* the asynchronous accept: "none", "pending" or the new client
  m_clients,  \* clients in the vector
  receive,    \* per client, its receive: "none" or "pending"; "stale" or
              \* "accepted" if its completion, or that of the accept, was queued
              \* when the AdminPort was destroyed
  moved,      \* clients whose object the receive no longer points to
  peer,       \* "new", "open" or "closed"
  wire,       \* commands sent and not yet received
  sent,       \* commands sent so far
  path,       \* configuration: the file of a plugin, or "none" if it is not there
  changing,   \* files that may be replaced
  disk,       \* version of a file, 0 if it cannot be loaded
  opened,     \* dlopen: count of a file
  mapped,     \* dlopen: version that is mapped
  worker,     \* "none" (no plugin), "starting", "running" or "ended"
  m_running,  \* of a plugin
  version     \* of the code of a plugin

process == <<main, runs, fatal, m_admin_port>>
sessions == <<accept, m_clients, receive, moved>>
remote == <<peer, wire, sent>>
files == <<path, changing, disk>>
library == <<opened, mapped>>
plugins == <<worker, m_running, version>>
vars == <<io, process, sessions, remote, files, library, plugins>>

Idle == [pc |-> "idle"]

\* Plugins that Core holds.
m_plugins == {p \in Plugins : worker[p] # "none"}

Users(f) == {p \in Plugins : path[p] = f}

\* A running Core with the plugins of its configuration and a new admin port.
\* (Those of Clients that never connect are "closed" from the start.)
Init ==
  /\ io = Idle
  /\ main = "wait" /\ runs = 1 /\ fatal = "no" /\ m_admin_port = TRUE
  /\ accept = "pending" /\ m_clients = {}
  /\ receive = [c \in Clients |-> "none"]
  /\ moved = {}
  /\ \E s \in Scenarios :
       /\ path = s.path /\ changing = s.files
       /\ peer = [c \in Clients |-> IF c \in s.clients THEN "new" ELSE "closed"]
  /\ wire = [c \in Clients |-> <<>>]
  /\ sent = 0
  /\ disk = [f \in Files |-> 1]
  /\ opened = [f \in Files |-> Cardinality(Users(f))]
  /\ mapped = [f \in Files |-> IF opened[f] = 0 THEN 0 ELSE 1]
  /\ worker = [p \in Plugins |-> IF path[p] = "none" THEN "none" ELSE "running"]
  /\ m_running = [p \in Plugins |-> TRUE]
  /\ version = [p \in Plugins |-> 1]

Alive == fatal = "no" /\ main # "exit"

\* The io thread goes from one place to another.
At(pc) == Alive /\ io.pc = pc

Goto(pc) == io' = [io EXCEPT !.pc = pc]

-----------------------------------------------------------------------------
(* Commands *)

PerPlugin == {"restartPlugin", "reloadPlugin"}

\* What one client writes at once: a name and arguments.  "malformed" has a
\* character in its name that CommandParser rejects.
Commands ==
  [op : PerPlugin, ids : {<<p>> : p \in Plugins}]
    \cup [op : {"shutdown", "malformed"}, ids : {<<>>}]

\* CommandParser::parse on two commands that one receive returned.  After a
\* name with arguments a line end only ends the argument, and the words of the
\* second command become arguments; after a name without arguments a line end
\* is ignored, and the two names become one that nobody knows.
Merge(a, b) ==
  IF a.ids = <<>>
  THEN [op |-> IF "malformed" \in {a.op, b.op} THEN "malformed" ELSE "unknown",
        ids |-> b.ids]
  ELSE [op |-> a.op, ids |-> (a.ids \o <<b.op>>) \o b.ids]

\* processCommand on what a receive returned, the first n commands of c.
Received(c, n) ==
  IF n = 1 THEN wire[c][1] ELSE Merge(wire[c][1], wire[c][2])

-----------------------------------------------------------------------------
(* The clients and the files, which are the environment *)

\* A client connects, and the accept that is pending completes.
ConnectClient(c) ==
  /\ Alive /\ peer[c] = "new" /\ accept = "pending"
  /\ peer' = [peer EXCEPT ![c] = "open"]
  /\ accept' = c
  /\ UNCHANGED <<io, process, m_clients, receive, moved, wire, sent, files,
                 library, plugins>>

SendCommand(c) ==
  /\ Alive /\ peer[c] = "open" /\ sent < MaxCommands
  /\ \E command \in Commands : wire' = [wire EXCEPT ![c] = Append(@, command)]
  /\ sent' = sent + 1
  /\ UNCHANGED <<io, process, sessions, peer, files, library, plugins>>

\* A client leaves; what it has sent can still be read.
Disconnect(c) ==
  /\ Alive /\ peer[c] = "open"
  /\ peer' = [peer EXCEPT ![c] = "closed"]
  /\ UNCHANGED <<io, process, sessions, wire, sent, files, library, plugins>>

\* A new version of a file is installed, or the file is damaged for good.
ReplaceFile(f) ==
  /\ Alive /\ f \in changing /\ disk[f] # 0
  /\ \E v \in {0, disk[f] + 1} :
       /\ v <= MaxVersion
       /\ disk' = [disk EXCEPT ![f] = v]
  /\ UNCHANGED <<io, process, sessions, remote, path, changing, library, plugins>>

-----------------------------------------------------------------------------
(* Accepting *)

\* acceptConnections() and startReceiving() as the thread leaves a handler.
Rearm(c) == receive' = [receive EXCEPT ![c] = IF c \in moved' THEN "none"
                                              ELSE "pending"]

PowersOfTwo == {1, 2, 4, 8, 16, 32}

\* Mutant: the client starts receiving before it is moved into the vector.
HandleAccept_ReceiveFirst ==
  LET c == accept IN
  /\ At("idle") /\ m_admin_port /\ c \in Clients
  /\ m_clients' = m_clients \cup {c}
  /\ moved' = moved \cup {c}
  /\ receive' = [receive EXCEPT ![c] = "pending"]
  /\ accept' = "pending"
  /\ UNCHANGED <<io, process, remote, files, library, plugins>>

\* The handler of acceptConnections(): addClient() moves the socket into a new
\* element of the vector.  A full vector grows, and the receives of the
\* elements it had keep pointing to where they were.
HandleAccept ==
  LET c == accept
      full == Cardinality(m_clients) \in PowersOfTwo
  IN
  /\ At("idle") /\ m_admin_port /\ c \in Clients
  /\ m_clients' = m_clients \cup {c}
  /\ moved' = IF full THEN moved \cup m_clients
              ELSE moved
  /\ Rearm(c)
  /\ accept' = "pending"
  /\ UNCHANGED <<io, process, remote, files, library, plugins>>

\* The same handler, queued with success when stop() closed the acceptor: its
\* AdminPort is gone, and the client with it.
HandleStaleAccept(c) ==
  /\ At("idle") /\ receive[c] = "accepted"
  /\ receive' = [receive EXCEPT ![c] = "none"]
  /\ peer' = [peer EXCEPT ![c] = "closed"]
  /\ fatal' \in {"no", "undefined"}
  /\ UNCHANGED <<io, main, runs, m_admin_port, accept, m_clients, moved, wire,
                 sent, files, library, plugins>>

-----------------------------------------------------------------------------
(* Receiving *)

\* A receive can complete: there is data, or the client has left.
Completes(c) == receive[c] = "pending" /\ (wire[c] # <<>> \/ peer[c] = "closed")

\* The handler of startReceiving() with data: processCommand().  What parse()
\* throws leaves the handler and the io thread.  If the object of the client
\* was moved or destroyed, the data may also be lost.  (Bound: a receive
\* returns one command or two.)
HandleReceive(c) ==
  /\ At("idle") /\ wire[c] # <<>>
  /\ Completes(c) \/ receive[c] = "stale"
  /\ receive' = [receive EXCEPT ![c] = "none"]
  /\ \E n \in 1..Len(wire[c]) :
       LET command == Received(c, n) IN
       /\ n <= 2
       /\ wire' = [wire EXCEPT ![c] = SubSeq(@, n + 1, Len(@))]
       /\ \/ /\ command.op # "malformed"
             /\ io' = [pc |-> "command", client |-> c, op |-> command.op,
                       ids |-> command.ids]
             /\ UNCHANGED fatal
          \/ /\ command.op = "malformed"
             /\ fatal' = "exception"
             /\ UNCHANGED io
          \/ /\ c \in moved
             /\ fatal' \in {"no", "undefined"}
             /\ UNCHANGED io
  /\ UNCHANGED <<main, runs, m_admin_port, accept, m_clients, moved, peer, sent,
                 files, library, plugins>>

\* The same handler at the end of the stream: no receive is started again, and
\* the client stays in the vector.
HandleEnd(c) ==
  /\ At("idle") /\ wire[c] = <<>>
  /\ Completes(c) \/ receive[c] = "stale"
  /\ receive' = [receive EXCEPT ![c] = "none"]
  /\ UNCHANGED <<io, process, accept, m_clients, moved, remote, files,
                 library, plugins>>

\* Mutant: the handler returns without receiving again.
EndCommand_NotRearmed ==
  /\ At("command")
  /\ io.op = "unknown" \/ (io.op \in PerPlugin /\ io.ids = <<>>)
  /\ io' = Idle
  /\ UNCHANGED <<process, sessions, remote, files, library, plugins>>

\* processCommand() returns, for an unknown command at once: startReceiving().
EndCommand ==
  /\ At("command")
  /\ io.op = "unknown" \/ (io.op \in PerPlugin /\ io.ids = <<>>)
  /\ moved' = moved
  /\ Rearm(io.client)
  /\ io' = Idle
  /\ UNCHANGED <<process, accept, m_clients, remote, files, library,
                 plugins>>

-----------------------------------------------------------------------------
(* restartPlugin and reloadPlugin, for each argument of a command *)

\* findPlugin() does not find the id.
SkipUnknown ==
  /\ At("command")
  /\ io.op \in PerPlugin /\ io.ids # <<>> /\ Head(io.ids) \notin m_plugins
  /\ io' = [io EXCEPT !.ids = Tail(@)]
  /\ UNCHANGED <<process, sessions, remote, files, library, plugins>>

\* (*it)->stop() up to the join.  m_running is true whenever a command finds
\* the plugin, as spawn() sets it and nothing but a stop() resets it.
StopPlugin ==
  LET p == Head(io.ids) IN
  /\ At("command")
  /\ io.op \in PerPlugin /\ io.ids # <<>> /\ p \in m_plugins
  /\ m_running' = [m_running EXCEPT ![p] = FALSE]
  /\ Goto("join")
  /\ UNCHANGED <<process, sessions, remote, files, library, worker, version>>

\* restartPlugin(): the join returns, and spawn() starts a new worker.
RestartPlugin ==
  LET p == Head(io.ids) IN
  /\ At("join") /\ io.op = "restartPlugin" /\ worker[p] = "ended"
  /\ worker' = [worker EXCEPT ![p] = "starting"]
  /\ m_running' = [m_running EXCEPT ![p] = TRUE]
  /\ io' = [io EXCEPT !.pc = "command", !.ids = Tail(@)]
  /\ UNCHANGED <<process, sessions, remote, files, library, version>>

\* Mutant: the library is closed before the object is destroyed.
RemovePlugin_AfterClose ==
  LET f == path[Head(io.ids)] IN
  /\ At("join") /\ io.op = "reloadPlugin" /\ worker[Head(io.ids)] = "ended"
  /\ opened' = [opened EXCEPT ![f] = @ - 1]
  /\ mapped' = [mapped EXCEPT ![f] = IF opened[f] = 1 THEN 0 ELSE @]
  /\ Goto("close")
  /\ UNCHANGED <<process, sessions, remote, files, plugins>>

\* reloadPlugin(): the join returns, and removePlugin() destroys the object.
RemovePlugin ==
  LET p == Head(io.ids) IN
  /\ At("join") /\ io.op = "reloadPlugin" /\ worker[p] = "ended"
  /\ worker' = [worker EXCEPT ![p] = "none"]
  /\ Goto("close")
  /\ UNCHANGED <<process, sessions, remote, files, library, m_running,
                 version>>

\* Mutant: dlclose is forgotten.
CloseLibrary_Leaked ==
  /\ At("close")
  /\ Goto("load")
  /\ UNCHANGED <<process, sessions, remote, files, library, plugins>>

\* dlclose(so_lib), the handle that loadSoPlugin kept for the id.
CloseLibrary ==
  LET f == path[Head(io.ids)] IN
  /\ At("close")
  /\ opened' = [opened EXCEPT ![f] = @ - 1]
  /\ mapped' = [mapped EXCEPT ![f] = IF opened[f] = 1 THEN 0 ELSE @]
  /\ Goto("load")
  /\ UNCHANGED <<process, sessions, remote, files, plugins>>

\* dlopen of f finds a file.  (A library without getPlugin fails as well and stays
\* open; every file here has one.)
Loadable(f) == opened[f] > 0 \/ disk[f] # 0

\* The version that is mapped after it.
Loaded(f) == IF opened[f] > 0 THEN mapped[f] ELSE disk[f]

\* loadPlugin(pluginId) and spawn() of what it added.
LoadPlugin ==
  LET p == Head(io.ids)
      f == path[p]
  IN
  /\ At("load") /\ Loadable(f)
  /\ opened' = [opened EXCEPT ![f] = @ + 1]
  /\ mapped' = [mapped EXCEPT ![f] = Loaded(f)]
  /\ version' = [version EXCEPT ![p] = Loaded(f)]
  /\ worker' = [worker EXCEPT ![p] = "starting"]
  /\ m_running' = [m_running EXCEPT ![p] = TRUE]
  /\ io' = [io EXCEPT !.pc = "command", !.ids = Tail(@)]
  /\ UNCHANGED <<process, sessions, remote, files>>

\* loadPlugin(pluginId) returns m_plugins.end(), which is dereferenced: undefined,
\* and the end of the model.
LoadFails ==
  /\ At("load") /\ ~Loadable(path[Head(io.ids)])
  /\ fatal' = "undefined"
  /\ UNCHANGED <<io, main, runs, m_admin_port, sessions, remote, files,
                 library, plugins>>

-----------------------------------------------------------------------------
(* The workers *)

\* run() begins, with m_running = true.
WorkerBegins(p) ==
  /\ Alive /\ worker[p] = "starting"
  /\ worker' = [worker EXCEPT ![p] = "running"]
  /\ m_running' = [m_running EXCEPT ![p] = TRUE]
  /\ UNCHANGED <<io, process, sessions, remote, files, library, version>>

\* run() sees that m_running is false.
WorkerEnds(p) ==
  /\ Alive /\ worker[p] = "running" /\ ~m_running[p]
  /\ worker' = [worker EXCEPT ![p] = "ended"]
  /\ UNCHANGED <<io, process, sessions, remote, files, library, m_running,
                 version>>

-----------------------------------------------------------------------------
(* Core::stop and Core::run *)

\* Mutant: the name is not recognised.
Shutdown_Unknown ==
  /\ At("command") /\ io.op = "shutdown"
  /\ io' = [io EXCEPT !.op = "unknown"]
  /\ UNCHANGED <<process, sessions, remote, files, library, plugins>>

\* processCommand() calls stop() for shutdown.
Shutdown ==
  /\ At("command") /\ io.op = "shutdown"
  /\ Goto("stop")
  /\ UNCHANGED <<process, sessions, remote, files, library, plugins>>

\* The handler of startAsyncReceive() gets an error and calls stop().
ConnectionError ==
  /\ At("idle") /\ main = "wait"
  /\ io' = [pc |-> "stop", op |-> "error"]
  /\ UNCHANGED <<process, sessions, remote, files, library, plugins>>

\* stopPlugins(): stop() of one more plugin, up to its join.
StopNext ==
  /\ At("stop")
  /\ \E p \in m_plugins :
       /\ m_running[p]
       /\ m_running' = [m_running EXCEPT ![p] = FALSE]
       /\ io' = [pc |-> "joinForStop", op |-> io.op, ids |-> <<p>>]
  /\ UNCHANGED <<process, sessions, remote, files, library, worker, version>>

\* The join returns.
StopNextReturns ==
  /\ At("joinForStop") /\ worker[Head(io.ids)] = "ended"
  /\ io' = [pc |-> "stop", op |-> io.op]
  /\ UNCHANGED <<process, sessions, remote, files, library, plugins>>

\* No Core::stop has been carried out before.
FirstStop == runs = 1 /\ main = "wait"

\* What is left of the asynchronous operations when an AdminPort is destroyed:
\* completions that are queued already keep their success.
Aborted ==
  {r \in [Clients -> {"none", "stale", "accepted"}] :
     \A c \in Clients :
       /\ (r[c] = "accepted") = (c = accept \/ receive[c] = "accepted")
       /\ r[c] = "stale" => Completes(c) \/ receive[c] = "stale"
       /\ receive[c] = "stale" => r[c] = "stale"}

\* What was sent and not received is lost with the socket.
Discarded ==
  [c \in Clients |-> IF c \in m_clients /\ receive'[c] # "stale" THEN <<>>
                     ELSE wire[c]]

\* The rest of the first stop(): the plugins are destroyed, without a
\* dlclose of their libraries; the AdminPort is destroyed, in the middle of its
\* own processCommand() if it is executing shutdown; main is told the result.
\* What then is queued, or goes on, uses objects that are destroyed.
StopEnds ==
  /\ At("stop") /\ \A p \in m_plugins : ~m_running[p]
  /\ FirstStop
  /\ worker' = [p \in Plugins |-> "none"]
  /\ m_admin_port' = FALSE
  /\ accept' = "none"
  /\ receive' \in Aborted
  /\ moved' = moved \cup m_clients
  /\ m_clients' = {}
  /\ peer' = [c \in Clients |-> IF c \in m_clients THEN "closed" ELSE peer[c]]
  /\ \/ io.op = "error" /\ main' = "restart" /\ UNCHANGED fatal
     \/ io.op = "shutdown" /\ main' = "exit" /\ fatal' \in {"no", "undefined"}
  /\ io' = Idle
  /\ wire' = Discarded
  /\ UNCHANGED <<runs, sent, files, library, m_running, version>>

\* In any other the TCP plugin server is closed already, and its stop() throws
\* (module Core).
StopThrows ==
  /\ At("stop") /\ \A p \in m_plugins : ~m_running[p]
  /\ ~FirstStop
  /\ fatal' = "exception"
  /\ UNCHANGED <<io, main, runs, m_admin_port, sessions, remote, files,
                 library, plugins>>

\* Core::run() on main: the plugins that can be loaded are, and spawned; the
\* table of handles and the libraries are those of the runs before.
Run ==
  LET loaded == {p \in Plugins : path[p] # "none" /\ Loadable(path[p])} IN
  /\ Alive /\ main = "restart" /\ runs < MaxRuns
  /\ main' = "wait" /\ runs' = runs + 1
  /\ opened' = [f \in Files |->
                  opened[f] + Cardinality(Users(f) \cap loaded)]
  /\ mapped' = [f \in Files |-> IF Users(f) \cap loaded = {} THEN mapped[f]
                                ELSE Loaded(f)]
  /\ version' = [p \in Plugins |-> IF p \in loaded THEN Loaded(path[p])
                                   ELSE version[p]]
  /\ worker' = [p \in Plugins |-> IF p \in loaded THEN "starting" ELSE "none"]
  /\ m_running' = [p \in Plugins |-> TRUE]
  /\ m_admin_port' = TRUE /\ m_clients' = {}
  /\ accept' = "pending"
  /\ UNCHANGED <<io, fatal, receive, moved, remote, files>>

-----------------------------------------------------------------------------
Environment ==
  \/ \E c \in Clients : ConnectClient(c) \/ SendCommand(c) \/ Disconnect(c)
  \/ \E f \in Files : ReplaceFile(f)

Handler ==
  \/ HandleAccept
  \/ \E c \in Clients :
       HandleStaleAccept(c) \/ HandleReceive(c) \/ HandleEnd(c)
  \/ EndCommand \/ SkipUnknown \/ StopPlugin \/ RestartPlugin \/ RemovePlugin
  \/ CloseLibrary \/ LoadPlugin \/ LoadFails
  \/ Shutdown \/ StopNext \/ StopNextReturns \/ StopEnds \/ StopThrows

Worker(p) == WorkerBegins(p) \/ WorkerEnds(p)

Next ==
  \/ Environment \/ Handler \/ ConnectionError \/ Run
  \/ \E p \in Plugins : Worker(p)

Spec == Init /\ [][Next]_vars

(***************************************************************************)
(* The io thread executes what completes and what it has begun, the        *)
(* workers get to run and look at m_running every 500 ms, and main runs    *)
(* again.  Nothing is assumed of the clients, of the files and of the      *)
(* connection to the server.                                               *)
(***************************************************************************)
FairSpec ==
  /\ Spec
  /\ WF_vars(Handler) /\ WF_vars(Run)
  /\ \A p \in Plugins : WF_vars(Worker(p))

-----------------------------------------------------------------------------
(* Properties *)

\* The io thread waits for a worker that has set m_running to true again.
Hung ==
  /\ io.pc \in {"join", "joinForStop"}
  /\ worker[Head(io.ids)] = "running" /\ m_running[Head(io.ids)]

\* The arguments that processCommand may see.
Words == Plugins \cup PerPlugin \cup {"shutdown", "malformed"}

\* What the io thread executes: nothing, a command or a stop().
IoStates ==
  [pc : {"idle"}]
    \cup [pc : {"command", "join", "close", "load"}, client : Clients,
          op : PerPlugin \cup {"shutdown", "unknown"}, ids : Seq(Words)]
    \cup [pc : {"stop"}, client : Clients, op : {"shutdown"}, ids : Seq(Words)]
    \cup [pc : {"stop"}, op : {"error", "shutdown"}]
    \cup [pc : {"joinForStop"}, op : {"error", "shutdown"}, ids : Seq(Words)]

\* The variables keep their types.
TypeOK ==
  /\ io \in IoStates
  /\ main \in {"wait", "restart", "exit"}
  /\ runs \in 1..MaxRuns
  /\ fatal \in {"no", "undefined", "exception"}
  /\ m_admin_port \in BOOLEAN
  /\ accept \in {"none", "pending"} \cup Clients
  /\ m_clients \subseteq Clients /\ moved \subseteq Clients
  /\ receive \in [Clients -> {"none", "pending", "stale", "accepted"}]
  /\ peer \in [Clients -> {"new", "open", "closed"}]
  /\ wire \in [Clients -> Seq(Commands)]
  /\ sent \in 0..MaxCommands
  /\ path \in [Plugins -> Files \cup {"none"}] /\ changing \subseteq Files
  /\ disk \in [Files -> 0..MaxVersion]
  /\ opened \in [Files -> Nat]
  /\ mapped \in [Files -> 0..MaxVersion]
  /\ worker \in [Plugins -> {"none", "starting", "running", "ended"}]
  /\ m_running \in [Plugins -> BOOLEAN]
  /\ version \in [Plugins -> 0..MaxVersion]

\* reloadPlugin(): dlclose of one plugin's handle unmaps no code that another
\* plugin, or the object that is just being destroyed, runs; every plugin runs
\* the version that is mapped.
NoUnmappedCode ==
  \A p \in m_plugins :
    opened[path[p]] > 0 /\ mapped[path[p]] = version[p]

\* "Lets us to safely close (dlclose) them when plugins are reloaded"
\* (core.hpp:255): a reload runs the version on disk.  It does so only if no
\* other plugin has the same file and no earlier run has opened it, as neither
\* stop() nor removePlugin() closes a library.
ReloadTakesNewVersion ==
  [][\A p \in Plugins :
       io.pc = "load" /\ worker[p] = "none" /\ worker'[p] = "starting" =>
         \/ version'[p] = disk[path[p]]
         \/ Users(path[p]) # {p}
         \/ runs > 1]_vars

\* addClient(), stop() in processCommand(), loadPlugin() in reloadPlugin():
\* destroyed objects are used only if the vector of clients has grown, a file
\* cannot be loaded, or the AdminPort has been destroyed.
SafeAlone ==
  fatal = "undefined" =>
    \/ Cardinality(m_clients) > 1
    \/ \E f \in Files : disk[f] = 0
    \/ main # "wait" \/ runs > 1

\* startReceiving(): what a client sends is read, whatever other clients do,
\* as long as its object stays where it is, the AdminPort lives and the io
\* thread is not caught in a join.
ClientsAreHeard ==
  \A c \in Clients :
    (c \in m_clients /\ wire[c] # <<>>) ~>
      (wire[c] = <<>> \/ c \notin m_clients \/ c \in moved \/ ~Alive \/ Hung)

\* shutdown: if no other command follows it, it ends the process, unless the
\* same misfortunes or a connection error come first.
ShutdownEnds ==
  (\E c \in m_clients : wire[c] = <<[op |-> "shutdown", ids |-> <<>>]>>) ~>
    (~Alive \/ m_clients = {} \/ moved # {} \/ Hung
       \/ \E c \in Clients : Len(wire[c]) > 1)

=============================================================================
