----------------------------- MODULE TcpPlugin -----------------------------
(***************************************************************************)
(* Plugins in processes of their own: TcpPluginServer accepts them, a      *)
(* TcpPlugin object serves each (source/tcp_plugin_server.cpp,             *)
(* source/tcp_plugin.cpp, on top of source/plugin.cpp), and pyircbot's Bot *)
(* is the other end of the connection (pyircbot/bot.cpp).                  *)
(*                                                                         *)
(* Threads: the io thread of the bot, which runs every handler, a worker   *)
(* per initialised plugin, one thread per Bot, and main, on whose stack    *)
(* the signal handler calls Core::stop.  The queue between io thread and   *)
(* worker is modelled in module Plugin and reduced to a sequence here.     *)
(*                                                                         *)
(* The stream (external): TCP keeps order and loses nothing; a receive     *)
(* returns one message or several that were sent one after another, and    *)
(* the end of the stream once everything has been read.  Protobuf          *)
(* (external): parsing concatenated messages merges them.                  *)
(***************************************************************************)
EXTENDS Naturals, Sequences, FiniteSets, SequencesExt

CONSTANTS
  Sessions,     \* connections of plugins
  Tokens,       \* what a plugin may present: "good", "bad" or "empty"
  PluginTokens, \* "plugin_token" in the configuration: "good", "empty" or "unset"
  TimerFires,   \* sessions that may take five seconds to be initialised
  Stops,        \* may Core::stop be called in a behaviour?
  MaxMessages,  \* bound: messages routed to the plugins or sent by them,
  MaxBusyStop   \* and the same in a behaviour with a Core::stop

ASSUME TcpPluginAssumption ==
  /\ Tokens \subseteq {"good", "bad", "empty"}
  /\ PluginTokens \subseteq {"good", "empty", "unset"}
  /\ TimerFires \subseteq Sessions
  /\ Stops \subseteq BOOLEAN
  /\ MaxMessages \in Nat /\ MaxBusyStop \in Nat

VARIABLES
  io,                    \* where the io thread is, and for which session
  main,                  \* where main is in Core::stop
  stops,                 \* may Core::stop be called in this behaviour?
  plugin_token,          \* of the configuration
  raced,                 \* did both threads add, start or stop plugins?
  m_plugins,             \* Core's vector: its TcpPlugins
  object,                \* "none", "alive" or "destroyed"
  m_socket,              \* "closed" or "open"
  receive,               \* asynchronous receive: "none", "pending", "aborted"
  m_init_timer,          \* "off", "waiting" or "expired": its handler is queued
  m_ready_for_shutdown,  \* is the promise fulfilled?
  m_running,
  m_thread,              \* "none" or where the worker is; "exited": to be joined
  m_incoming,            \* messages the worker has yet to send
  toBot, fromBot,        \* the two directions of the stream
  bot,                   \* "off", "started" or "stopped"
  routed,                \* messages routed so far
  replies,               \* messages the plugins have sent
  forwarded,             \* what processIrcMessage passed to Core::send
  received,              \* calls of the plugin's onMessage
  fatal                  \* what terminated the process, "no" as long as it runs

session == <<object, m_socket, receive, m_init_timer, m_ready_for_shutdown>>
worker == <<m_running, m_thread, m_incoming>>
stream == <<toBot, fromBot>>
botVars == <<bot, replies, received>>
config == <<stops, plugin_token>>
core == <<main, config, raced>>
vars == <<io, core, m_plugins, session, worker, stream, botVars, routed, forwarded,
          fatal>>

Init ==
  /\ io = [pc |-> "idle"]
  /\ main = [pc |-> "wait"] /\ raced = FALSE
  /\ stops \in Stops /\ plugin_token \in PluginTokens
  /\ m_plugins = <<>>
  /\ object = [s \in Sessions |-> "none"]
  /\ m_socket = [s \in Sessions |-> "closed"]
  /\ receive = [s \in Sessions |-> "none"]
  /\ m_init_timer = [s \in Sessions |-> "off"]
  /\ m_ready_for_shutdown = [s \in Sessions |-> FALSE]
  /\ m_running = [s \in Sessions |-> TRUE]
  /\ m_thread = [s \in Sessions |-> "none"]
  /\ m_incoming = [s \in Sessions |-> <<>>]
  /\ toBot = [s \in Sessions |-> <<>>] /\ fromBot = [s \in Sessions |-> <<>>]
  /\ bot = [s \in Sessions |-> "off"]
  /\ routed = 0
  /\ replies = 0
  /\ forwarded = [s \in Sessions |-> <<>>]
  /\ received = [s \in Sessions |-> <<>>]
  /\ fatal = "no"

Alive == fatal = "no" /\ main.pc # "exit"

\* A message may still be sent.
Room == routed + replies < IF stops THEN MaxBusyStop ELSE MaxMessages

-----------------------------------------------------------------------------
(* PluginProtocol::Message *)

\* A message with its type and the member of its oneof; params are the words
\* that tell messages of a kind apart.
Message(type, oneof, params) ==
  [type |-> type, oneof |-> oneof, params |-> params]

InitRequest(token) == Message("INIT_REQUEST", "init_req", <<token>>)
InitResponse(status) == Message("INIT_RESPONSE", "init_resp", <<status>>)
IrcMessage(n) == Message("IRC_MESSAGE", "irc_msg", <<n>>)
ShutdownRequest == Message("CONTROL_REQUEST", "ctrl_req", <<"SHUTDOWN">>)

\* TcpPlugin::onInit() sends a ControlRequest that is not wrapped in a Message.
\* Its only field has the number and, for INIT, the value that make it a
\* Message of type INIT_REQUEST with nothing in the oneof.
BareInitRequest == Message("INIT_REQUEST", "none", <<>>)

\* Parsing b behind a: the type is b's; so is the member of the oneof if b has
\* one, merged with a's if that is of the same kind (a repeated field is
\* appended to, others are overwritten).
Merge(a, b) ==
  Message(b.type,
          IF b.oneof = "none" THEN a.oneof ELSE b.oneof,
          IF b.oneof = "none" THEN a.params
          ELSE IF b.oneof = "irc_msg" /\ a.oneof = "irc_msg"
               THEN a.params \o b.params ELSE b.params)

\* ParseFromString of what one receive returned.
ParseFromString(data) ==
  LET parsed[k \in 1..Len(data)] ==
        IF k = 1 THEN data[1] ELSE Merge(parsed[k - 1], data[k])
  IN  parsed[Len(data)]

\* What a receive may return of the messages that wait in the stream.
Chunks(wire) == {SubSeq(wire, 1, n) : n \in 1..Len(wire)}

Rest(wire, chunk) == SubSeq(wire, Len(chunk) + 1, Len(wire))

\* m_socket.send towards the plugin of s; what a stopped Bot does not read is
\* lost (sendToPlugin swallows the exception).
SendToPlugin(s, m) ==
  toBot' = IF bot[s] = "stopped" THEN toBot
           ELSE [toBot EXCEPT ![s] = Append(@, m)]

-----------------------------------------------------------------------------
(* The io thread *)

IoIdle == io.pc = "idle" /\ Alive

\* Core::stop iterates over the vector or is about to clear it.
InLoop ==
  \/ main.pc = "next" /\ main.at <= main.end
  \/ main.pc \in {"join", "onShutdown", "ready", "closed"}

\* The accept handler is called for session s; once the acceptor is closed, only
\* for the one whose completion had been queued before.
Accepted(s) ==
  /\ IoIdle
  /\ object[s] = "none" /\ bot[s] # "off"
  /\ main.pc \in {"closed", "cleared"} => s \in main.accepted

\* m_socket.remote_endpoint() throws if the plugin has reset the connection.
AcceptReset(s) ==
  /\ Accepted(s)
  /\ bot[s] = "stopped"
  /\ fatal' = "endpoint"
  /\ UNCHANGED <<core, io, m_plugins, session, worker, stream, botVars, routed,
                 forwarded>>

\* acceptConnections and initializePlugin: the constructor starts receiving and
\* the initialisation timer, and Core::addPlugin appends the plugin, which may
\* move the vector away from a loop over it.
AcceptConnection(s) ==
  /\ Accepted(s)
  /\ object' = [object EXCEPT ![s] = "alive"]
  /\ m_socket' = [m_socket EXCEPT ![s] = "open"]
  /\ receive' = [receive EXCEPT ![s] = "pending"]
  /\ m_init_timer' = [m_init_timer EXCEPT ![s] = "waiting"]
  /\ m_plugins' = Append(m_plugins, s)
  /\ fatal' \in IF InLoop THEN {"no", "iterator"} ELSE {"no"}
  /\ raced' = (raced \/ main.pc # "wait")
  /\ UNCHANGED <<main, config, io, m_ready_for_shutdown, worker, stream, botVars, routed,
                 forwarded>>

\* Core's receive handler routes a message to every plugin; a TcpPlugin's
\* filters let everything pass.  (Core::stop closes the socket first.)
Route ==
  /\ IoIdle /\ main.pc = "wait"
  /\ Room
  /\ routed' = routed + 1
  /\ m_incoming' = [s \in Sessions |->
                      IF Contains(m_plugins, s)
                      THEN Append(m_incoming[s], routed + 1)
                      ELSE m_incoming[s]]
  /\ UNCHANGED <<core, io, m_plugins, session, m_running, m_thread, stream, botVars,
                 forwarded, fatal>>

\* The io thread in a stop() of session s, called by the handler h.
Stopping(pc, s, h) == [pc |-> pc, s |-> s, handler |-> h]

\* Plugin::stop(), called by the handler h, up to the join.
BeginStop(s, h) ==
  /\ m_running' = [m_running EXCEPT ![s] = FALSE]
  /\ io' = IF m_running[s] THEN Stopping("join", s, h) ELSE [pc |-> "idle"]
  /\ raced' = (raced \/ (m_running[s] /\ main.pc # "wait"))

\* The receive handler is called with the data of one receive.
Receives(s, data) ==
  /\ IoIdle
  /\ receive[s] = "pending"
  /\ data \in Chunks(fromBot[s])
  /\ fromBot' = [fromBot EXCEPT ![s] = Rest(@, data)]

\* processInitRequest() is called: an INIT_REQUEST that shows the token.
Presents(s, data, token) ==
  Receives(s, data) /\ ParseFromString(data) = InitRequest(token)

\* Core::authenticatePlugin, when the configuration has a plugin_token.
authenticatePlugin(token) == plugin_token # "empty" /\ token = plugin_token

\* When it has none, the conversion of m_cfg["plugin_token"] throws.
TokenUnset(s, data) ==
  /\ plugin_token = "unset"
  /\ \E token \in Tokens : Presents(s, data, token)
  /\ fatal' = "token"
  /\ UNCHANGED <<core, io, m_plugins, session, worker, toBot, botVars, routed,
                 forwarded>>

\* INIT_REQUEST with the right token: the timer is cancelled, unless its
\* handler is queued already, the plugin is told and its worker is spawned.
\* Assigning to a thread that is joinable terminates.
HandleInitRequest(s, data) ==
  /\ plugin_token # "unset"
  /\ \E token \in Tokens : Presents(s, data, token) /\ authenticatePlugin(token)
  /\ m_init_timer' = [m_init_timer EXCEPT ![s] =
                        IF @ = "waiting" THEN "off" ELSE @]
  /\ SendToPlugin(s, InitResponse("OK"))
  /\ m_running' = [m_running EXCEPT ![s] = TRUE]
  /\ m_thread' = [m_thread EXCEPT ![s] = "entry"]
  /\ fatal' = IF m_thread[s] = "none" THEN "no" ELSE "joinable thread"
  /\ raced' = (raced \/ main.pc # "wait")
  /\ UNCHANGED <<main, config, io, m_plugins, object, m_socket, receive,
                 m_ready_for_shutdown, m_incoming, botVars, routed, forwarded>>

\* INIT_REQUEST with another token: the plugin is told and stop() is called;
\* startReceiving() comes after it, at once if the plugin is being stopped.
RefuseInitRequest(s, data) ==
  /\ plugin_token # "unset"
  /\ \E token \in Tokens : Presents(s, data, token) /\ ~authenticatePlugin(token)
  /\ SendToPlugin(s, InitResponse("ERROR"))
  /\ BeginStop(s, "init")
  /\ receive' = [receive EXCEPT ![s] = IF m_running[s] THEN "none" ELSE @]
  /\ UNCHANGED <<main, config, m_plugins, object, m_socket, m_init_timer,
                 m_ready_for_shutdown, m_thread, m_incoming, botVars, routed,
                 forwarded, fatal>>

\* IRC_MESSAGE: processIrcMessage passes it to Core::send.
HandleIrcMessage(s, data) ==
  /\ Receives(s, data)
  /\ ParseFromString(data).type = "IRC_MESSAGE"
  /\ forwarded' = [forwarded EXCEPT ![s] =
                     Append(@, ParseFromString(data).params)]
  /\ UNCHANGED <<core, io, m_plugins, session, worker, toBot, botVars, routed,
                 fatal>>

\* Mutant: the promise is not fulfilled.
HandleEof_NotReady(s) ==
  /\ IoIdle
  /\ receive[s] = "pending"
  /\ bot[s] = "stopped" /\ fromBot[s] = <<>>
  /\ receive' = [receive EXCEPT ![s] = "none"]
  /\ io' = Stopping("stop", s, "error")
  /\ UNCHANGED <<core, m_plugins, object, m_socket, m_init_timer,
                 m_ready_for_shutdown, worker, stream, botVars, routed,
                 forwarded, fatal>>

\* The receive handler is called with an error: the plugin has gone.  A promise
\* that is fulfilled already throws.
HandleEof(s) ==
  /\ IoIdle
  /\ receive[s] = "pending"
  /\ bot[s] = "stopped" /\ fromBot[s] = <<>>
  /\ receive' = [receive EXCEPT ![s] = "none"]
  /\ m_ready_for_shutdown' = [m_ready_for_shutdown EXCEPT ![s] = TRUE]
  /\ fatal' = IF m_ready_for_shutdown[s] THEN "promise" ELSE "no"
  /\ io' = Stopping("stop", s, "error")
  /\ UNCHANGED <<core, m_plugins, object, m_socket, m_init_timer, worker, stream,
                 botVars, routed, forwarded>>

\* The end of that handler: stop().
StopAfterEof(s) ==
  /\ Alive /\ io = Stopping("stop", s, "error") /\ object[s] = "alive"
  /\ BeginStop(s, "error")
  /\ UNCHANGED <<main, config, m_plugins, session, m_thread, m_incoming, stream, botVars,
                 routed, forwarded, fatal>>

\* The handler of Core's receive is called with an error: stopPlugins() begins
\* with the first plugin.
ConnectionError ==
  /\ stops /\ IoIdle /\ main.pc = "wait" /\ m_plugins # <<>>
  /\ BeginStop(Head(m_plugins), "core")
  /\ UNCHANGED <<main, config, m_plugins, session, m_thread, m_incoming, stream, botVars,
                 routed, forwarded, fatal>>

\* Five seconds pass.
TimerExpires(s) ==
  /\ s \in TimerFires /\ Alive
  /\ m_init_timer[s] = "waiting"
  /\ m_init_timer' = [m_init_timer EXCEPT ![s] = "expired"]
  /\ UNCHANGED <<core, io, m_plugins, object, m_socket, receive,
                 m_ready_for_shutdown, worker, stream, botVars, routed,
                 forwarded, fatal>>

\* The timer's handler: stop(), of a plugin that exists.
HandleTimer(s) ==
  /\ IoIdle
  /\ m_init_timer[s] = "expired" /\ object[s] = "alive"
  /\ m_init_timer' = [m_init_timer EXCEPT ![s] = "off"]
  /\ BeginStop(s, "timer")
  /\ UNCHANGED <<main, config, m_plugins, object, m_socket, receive, m_ready_for_shutdown,
                 m_thread, m_incoming, stream, botVars, routed, forwarded,
                 fatal>>

\* The same handler when the plugin has been destroyed: undefined, it goes
\* unnoticed or terminates the process.
HandleTimerTooLate(s) ==
  /\ IoIdle
  /\ m_init_timer[s] = "expired" /\ object[s] = "destroyed"
  /\ m_init_timer' = [m_init_timer EXCEPT ![s] = "off"]
  /\ fatal' \in {"no", "late timer"}
  /\ UNCHANGED <<core, io, m_plugins, object, m_socket, receive,
                 m_ready_for_shutdown, worker, stream, botVars, routed,
                 forwarded>>

-----------------------------------------------------------------------------
(* Plugin::stop and onShutdown on the thread t, "io" or "main" *)

Where(t) == IF t = "io" THEN io ELSE main

At(t, pc, s) ==
  Alive /\ Where(t).pc = pc /\ Where(t).s = s /\ object[s] = "alive"

\* t goes to pc, or out of stop().
Goto(t, pc) ==
  IF t = "io" THEN io' = [io EXCEPT !.pc = pc] /\ UNCHANGED main
              ELSE main' = [main EXCEPT !.pc = pc] /\ UNCHANGED io

Return(t) ==
  IF t = "io" THEN io' = [pc |-> "idle"] /\ UNCHANGED main ELSE Goto(t, "next")

\* stop(): if (m_thread.joinable()) m_thread.join();
Join(t, s) ==
  /\ At(t, "join", s)
  /\ m_thread[s] \in {"none", "exited"}
  /\ m_thread' = [m_thread EXCEPT ![s] = "none"]
  /\ Goto(t, "onShutdown")
  /\ UNCHANGED <<config, raced, m_plugins, session, m_running, m_incoming, stream, botVars,
                 routed, forwarded, fatal>>

\* onShutdown(), up to the wait for the promise, whose future can be had once.
OnShutdown(t, s) ==
  /\ At(t, "onShutdown", s)
  /\ m_init_timer' = [m_init_timer EXCEPT ![s] =
                        IF @ = "waiting" THEN "off" ELSE @]
  /\ IF m_socket[s] = "open" THEN SendToPlugin(s, ShutdownRequest) /\ Goto(t, "ready")
     ELSE UNCHANGED toBot /\ Return(t)
  /\ fatal' = IF \E u \in {"io", "main"} \ {t} : At(u, "ready", s) THEN "promise"
              ELSE "no"
  /\ UNCHANGED <<config, raced, m_plugins, object, m_socket, receive, m_ready_for_shutdown,
                 worker, fromBot, botVars, routed, forwarded>>

\* Mutant: the vector keeps the plugin.
RemovePlugin_Kept(t, s) ==
  /\ At(t, "ready", s)
  /\ m_ready_for_shutdown[s]
  /\ receive' = [receive EXCEPT ![s] = IF @ = "pending" THEN "aborted" ELSE @]
  /\ m_socket' = [m_socket EXCEPT ![s] = "closed"]
  /\ object' = [object EXCEPT ![s] = "destroyed"]
  /\ fatal' = IF m_thread[s] = "none" THEN "no" ELSE "joinable thread"
  /\ Return(t)
  /\ UNCHANGED <<config, raced, m_plugins, m_init_timer, m_ready_for_shutdown, worker, stream,
                 botVars, routed, forwarded>>

\* The rest of onShutdown(), once the promise is fulfilled: the socket is
\* closed, what is pending on it aborted, and removePlugin destroys the plugin;
\* a thread that is still joinable terminates.
RemovePlugin(t, s) ==
  /\ At(t, "ready", s)
  /\ m_ready_for_shutdown[s]
  /\ receive' = [receive EXCEPT ![s] = IF @ = "pending" THEN "aborted" ELSE @]
  /\ m_socket' = [m_socket EXCEPT ![s] = "closed"]
  /\ m_plugins' = RemoveFirst(m_plugins, s)
  /\ object' = [object EXCEPT ![s] = "destroyed"]
  /\ fatal' = IF m_thread[s] = "none" THEN "no" ELSE "joinable thread"
  /\ Return(t)
  /\ UNCHANGED <<config, raced, m_init_timer, m_ready_for_shutdown, worker, stream, botVars,
                 routed, forwarded>>

\* The other thread has destroyed the plugin under t: undefined.
UseDestroyed(t, s) ==
  /\ Alive
  /\ Where(t).pc \in {"stop", "join", "onShutdown", "ready"}
  /\ Where(t).s = s /\ object[s] = "destroyed"
  /\ Return(t)
  /\ fatal' \in {"no", "dangling"}
  /\ UNCHANGED <<config, raced, m_plugins, session, worker, stream, botVars, routed,
                 forwarded>>

-----------------------------------------------------------------------------
(* Core::stop in the signal handler, on main *)

\* The signal: stopPlugins() iterates from begin to the end as it is now.
Signal ==
  /\ stops /\ Alive /\ main.pc = "wait"
  /\ main' = [pc |-> "next", at |-> 1, end |-> Len(m_plugins)]
  /\ raced' = (io.pc # "idle")
  /\ UNCHANGED <<config, io, m_plugins, session, worker, stream, botVars, routed,
                 forwarded, fatal>>

\* One iteration: stop() of the plugin at this place up to its join.  A place
\* behind the end of a vector that has shrunk holds a null pointer.
StopNext ==
  /\ Alive /\ main.pc = "next" /\ main.at <= main.end
  /\ IF main.at > Len(m_plugins)
     THEN fatal' = "iterator" /\ UNCHANGED <<main, m_running>>
     ELSE LET s == m_plugins[main.at] IN
          /\ m_running' = [m_running EXCEPT ![s] = FALSE]
          /\ main' = [pc |-> IF m_running[s] THEN "join" ELSE "next",
                      s |-> s, at |-> main.at + 1, end |-> main.end]
          /\ UNCHANGED fatal
  /\ UNCHANGED <<config, raced, io, m_plugins, session, m_thread, m_incoming, stream,
                 botVars, routed, forwarded>>

\* stopTcpPluginServer() closes the acceptor; one accept may have completed.
CloseServer ==
  /\ Alive /\ main.pc = "next" /\ main.at > main.end
  /\ \E late \in {{}} \cup {{s} : s \in {u \in Sessions : object[u] = "none"
                                                       /\ bot[u] # "off"}} :
       main' = [pc |-> "closed", at |-> main.at, end |-> main.end, accepted |-> late]
  /\ UNCHANGED <<config, raced, io, m_plugins, session, worker, stream, botVars, routed,
                 forwarded, fatal>>

\* deinitializePlugins(): what is left is destroyed, with a thread or without,
\* and its aborted receive calls back.
Deinitialize ==
  /\ Alive /\ main.pc = "closed"
  /\ main' = [main EXCEPT !.pc = "cleared"]
  /\ m_plugins' = <<>>
  /\ object' = [s \in Sessions |->
                  IF object[s] = "alive" THEN "destroyed" ELSE object[s]]
  /\ m_socket' = [s \in Sessions |-> "closed"]
  /\ receive' = [s \in Sessions |-> "none"]
  /\ fatal' \in IF \E s \in Sessions : object[s] = "alive" /\ m_thread[s] # "none"
                THEN {"joinable thread"}
                ELSE IF m_plugins # <<>> THEN {"no", "dangling"} ELSE {"no"}
  /\ UNCHANGED <<config, raced, io, m_init_timer, m_ready_for_shutdown, worker, stream,
                 botVars, routed, forwarded>>

\* main leaves its loop and joins the io thread.
Exit ==
  /\ IoIdle /\ main.pc = "cleared"
  /\ main' = [main EXCEPT !.pc = "exit"]
  /\ UNCHANGED <<config, raced, io, m_plugins, session, worker, stream, botVars, routed,
                 forwarded, fatal>>

-----------------------------------------------------------------------------
(* The worker of a plugin: Plugin::run *)

\* run() sets m_running and calls onInit(), whose send may fail when the plugin
\* has gone; the exception ends the thread.
RunEntry(s) ==
  /\ Alive
  /\ m_thread[s] = "entry"
  /\ m_running' = [m_running EXCEPT ![s] = TRUE]
  /\ \/ /\ m_thread' = [m_thread EXCEPT ![s] = "wait"]
        /\ SendToPlugin(s, BareInitRequest)
     \/ /\ bot[s] = "stopped"
        /\ m_thread' = [m_thread EXCEPT ![s] = "exited"]
        /\ UNCHANGED toBot
  /\ UNCHANGED <<core, io, m_plugins, session, m_incoming, fromBot, botVars, routed,
                 forwarded, fatal>>

\* while (isRunning()), at the end of an iteration.
LoopCheck(s) ==
  m_thread' = [m_thread EXCEPT ![s] = IF m_running[s] THEN "wait" ELSE "exited"]

\* Mutant: the message stays at the front of the queue.
OnMessage_NotPopped(s) ==
  /\ Alive
  /\ m_thread[s] = "wait" /\ m_incoming[s] # <<>>
  /\ SendToPlugin(s, IrcMessage(Head(m_incoming[s])))
  /\ LoopCheck(s)
  /\ UNCHANGED <<core, io, m_plugins, session, m_running, m_incoming, fromBot,
                 botVars, routed, forwarded, fatal>>

\* A message is popped and onMessage() sends it.
OnMessage(s) ==
  /\ Alive
  /\ m_thread[s] = "wait" /\ m_incoming[s] # <<>>
  /\ m_incoming' = [m_incoming EXCEPT ![s] = Tail(@)]
  /\ SendToPlugin(s, IrcMessage(Head(m_incoming[s])))
  /\ LoopCheck(s)
  /\ UNCHANGED <<core, io, m_plugins, session, m_running, fromBot, botVars, routed,
                 forwarded, fatal>>

\* Half a second passes without a message, and the worker ends if it is to; as
\* long as it is not, it waits again.
WaitTimeout(s) ==
  /\ Alive
  /\ m_thread[s] = "wait" /\ m_incoming[s] = <<>>
  /\ ~m_running[s]
  /\ LoopCheck(s)
  /\ UNCHANGED <<core, io, m_plugins, session, m_running, m_incoming, stream,
                 botVars, routed, forwarded, fatal>>

-----------------------------------------------------------------------------
(* pyircbot: Bot *)

\* Mutant: the request may be sent again.
BotStart_Again(s, token) ==
  /\ bot[s] \in {"off", "started"} /\ fromBot[s] = <<>>
  /\ bot' = [bot EXCEPT ![s] = "started"]
  /\ fromBot' = [fromBot EXCEPT ![s] = Append(@, InitRequest(token))]
  /\ UNCHANGED <<core, io, m_plugins, session, worker, toBot, replies, received,
                 routed, forwarded, fatal>>

\* start(): connect(), initialize() and receive().
BotStart(s, token) ==
  /\ bot[s] = "off"
  /\ bot' = [bot EXCEPT ![s] = "started"]
  /\ fromBot' = [fromBot EXCEPT ![s] = Append(@, InitRequest(token))]
  /\ UNCHANGED <<core, io, m_plugins, session, worker, toBot, replies, received,
                 routed, forwarded, fatal>>

\* sendIrcMessage()
BotSend(s) ==
  /\ bot[s] = "started"
  /\ Room
  /\ replies' = replies + 1
  /\ fromBot' = [fromBot EXCEPT ![s] = Append(@, IrcMessage(replies + 1))]
  /\ UNCHANGED <<core, io, m_plugins, session, worker, toBot, bot, received, routed,
                 forwarded, fatal>>

\* stop(), called by the plugin, or the end of its process, which may come
\* between connect() and initialize().
BotStop(s) ==
  /\ bot[s] # "stopped"
  /\ bot' = [bot EXCEPT ![s] = "stopped"]
  /\ toBot' = [toBot EXCEPT ![s] = <<>>]
  /\ UNCHANGED <<core, io, m_plugins, session, worker, fromBot, replies, received,
                 routed, forwarded, fatal>>

\* receive() and parse(): onMessage for an IRC_MESSAGE, stop() for SHUTDOWN,
\* and nothing that lasts for the others.
BotReceive(s, data) ==
  LET msg == ParseFromString(data) IN
  /\ bot[s] = "started"
  /\ data \in Chunks(toBot[s])
  /\ received' = IF msg.type = "IRC_MESSAGE"
                 THEN [received EXCEPT ![s] = Append(@, msg.params)]
                 ELSE received
  /\ bot' = IF msg.type = "CONTROL_REQUEST"
            THEN [bot EXCEPT ![s] = "stopped"] ELSE bot
  /\ toBot' = [toBot EXCEPT ![s] =
                 IF msg.type = "CONTROL_REQUEST" THEN <<>> ELSE Rest(@, data)]
  /\ UNCHANGED <<core, io, m_plugins, session, worker, fromBot, replies, routed,
                 forwarded, fatal>>

-----------------------------------------------------------------------------
Handler(s) ==
  \/ AcceptConnection(s) \/ AcceptReset(s)
  \/ \E data \in Chunks(fromBot[s]) :
       \/ TokenUnset(s, data) \/ HandleInitRequest(s, data) \/ RefuseInitRequest(s, data)
       \/ HandleIrcMessage(s, data)
  \/ HandleEof(s) \/ StopAfterEof(s) \/ HandleTimer(s) \/ HandleTimerTooLate(s)

Stop(t, s) ==
  Join(t, s) \/ OnShutdown(t, s) \/ RemovePlugin(t, s) \/ UseDestroyed(t, s)

Main ==
  \/ StopNext \/ CloseServer \/ Deinitialize \/ Exit
  \/ \E s \in Sessions : Stop("main", s)

Worker(s) == RunEntry(s) \/ OnMessage(s) \/ WaitTimeout(s)

BotStep(s) ==
  \/ BotSend(s) \/ BotStop(s)
  \/ \E token \in Tokens : BotStart(s, token)

BotReceives(s) == \E data \in Chunks(toBot[s]) : BotReceive(s, data)

Next ==
  \/ Route \/ ConnectionError \/ Signal \/ Main
  \/ \E s \in Sessions :
       \/ Handler(s) \/ Stop("io", s) \/ TimerExpires(s) \/ Worker(s)
       \/ BotStep(s) \/ BotReceives(s)

Spec == Init /\ [][Next]_vars

(***************************************************************************)
(* The io thread runs what is queued for it as long as it can move, and so *)
(* do main, once it stops, and every worker.  Nothing makes a plugin       *)
(* connect, speak, read or stop.                                           *)
(***************************************************************************)
Fairness ==
  /\ WF_vars(\E s \in Sessions : Handler(s) \/ Stop("io", s)) /\ WF_vars(Main)
  /\ \A s \in Sessions : WF_vars(Worker(s))

FairSpec == Spec /\ Fairness

-----------------------------------------------------------------------------
(* Properties *)

\* The two ways in which a thread hangs: a handler other than the one that
\* fulfils the promise waits for it in onShutdown(), or a worker has set
\* m_running back and stop(), on the io thread or on main, waits for it.
Hangs ==
  \/ io.pc = "ready" /\ io.handler # "error"
  \/ \E t \in {"io", "main"} : Where(t).pc = "join" /\ m_running[Where(t).s]

\* The numbers in the calls, one call after another, strictly increase.
InOrder(calls) ==
  \A i, j \in 1..Len(calls) :
    \A a \in 1..Len(calls[i]), b \in 1..Len(calls[j]) :
      i < j \/ (i = j /\ a < b) => calls[i][a] < calls[j][b]

\* onShutdown()/removePlugin(): the vector holds exactly the plugins that
\* exist, each once, and what is destroyed has no worker, no open socket and no
\* receive that could still call back.
RemovedClean == fatal = "no" =>
  /\ {m_plugins[i] : i \in 1..Len(m_plugins)}
       = {s \in Sessions : object[s] = "alive"}
  /\ Len(m_plugins) = Cardinality({s \in Sessions : object[s] = "alive"})
  /\ \A s \in Sessions : object[s] = "destroyed" =>
       m_thread[s] = "none" /\ m_socket[s] = "closed" /\ receive[s] = "none"

\* What terminates the process is what its cause allows.  A plugin that asks
\* for initialisation does if plugin_token is not configured, one that is
\* accepted if it has reset its connection, a timer if it had expired when its
\* plugin was destroyed, and the use of a destroyed plugin once Core::stop has
\* begun.  All else that plugins do, coming, going and failing, cannot (a second
\* worker, a promise fulfilled twice, a joinable thread destroyed, the end of a
\* loop over the vector missed), and Core::stop only if it meets several plugins,
\* or the io thread adds, starts or stops one at the same time.
FatalIsExplained ==
  /\ fatal = "token" => plugin_token = "unset"
  /\ fatal = "endpoint" => \E s \in Sessions : bot[s] = "stopped" /\ object[s] = "none"
  /\ fatal = "late timer" => \E s \in TimerFires : object[s] = "destroyed"
  /\ fatal = "dangling" => main.pc # "wait"
  /\ fatal \notin {"no", "token", "endpoint", "late timer", "dangling"} =>
       raced \/ (main.pc # "wait" /\ main.end > 1)

\* Route/onMessage()/processIrcMessage(): what either end takes from the stream
\* is what the other one sent, in order and nothing twice, however receives merge
\* messages; two messages in one receive arrive as one (ParseFromString).
NothingInvented ==
  \A s \in Sessions :
    /\ InOrder(received[s]) /\ InOrder(forwarded[s])
    /\ \A i \in 1..Len(received[s]) : received[s][i] \in Seq(1..routed) \ {<<>>}
    /\ \A i \in 1..Len(forwarded[s]) : forwarded[s][i] \in Seq(1..replies) \ {<<>>}

\* The receive handler: "error during receiving message! Stopping!": in the end
\* no plugin that has gone away is left, unless a thread hangs in the stop() of
\* one that was refused or too late, or lost the race with its worker.
SessionEnds ==
  <>[](\/ Hangs \/ ~Alive
       \/ \A s \in Sessions : bot[s] = "stopped" => object[s] = "destroyed")

\* processInitRequest(): "failed to authenticate! Stopping.": a plugin that is
\* refused is removed.
RefusedIsRemoved ==
  \A s \in Sessions :
    (io = Stopping("join", s, "init")) ~> (object[s] = "destroyed")

=============================================================================
