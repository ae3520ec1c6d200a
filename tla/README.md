# A TLA+ verification project for ircbot

ircbot is a C++14 IRC client whose behaviour comes from plugins: shared
libraries loaded into the process, and separate programs that connect over TCP
(written in Python on top of `pyircbot`). This directory holds TLA+ models of
the parts of it that have a protocol, the TLC configurations that check them on
small instances, and TLAPS proofs of the results that matter most.

`PROJECT.json` gives, for each definition, the source lines it translates, and
lists the components, runs, mutants, findings, hazards and theorems.

## 1. The system

Threads: **main** (`program/ircbot.cpp`), **io** (the only thread of the asio
context, `source/network/context_provider.cpp`), and one **worker** per plugin
(`Plugin::run`). SIGINT and SIGTERM call `Core::stop` inside the signal
handler, on main's stack.

| Component | State | Operations | Talks to |
|---|---|---|---|
| Core (`core.cpp`) | socket, parser, `m_plugins`, `m_plugins_mtx`, tcp plugin server, admin port, `m_result`, `m_stop_promise` | run, connect, startAsyncReceive, stop, waitForStop, signal, send, (re)load/restart/remove plugin | everything |
| main (`program/ircbot.cpp`) | loop over run and waitForStop | – | Core, ContextProvider |
| ContextProvider (`network/context_provider.cpp`) | asio context, its work, its thread | run, stop | runs every handler |
| Plugin (`plugin.cpp`) | `m_running`, `m_incoming` with mutex and condition variable, `m_thread` | receive, filter, spawn, stop, run, onInit/onMessage/onShutdown | Core: receive and stop from io, spawn from main |
| IRCParser (`irc_parser.cpp`) | lexer state, token queue, message under construction, parsed messages | parse, getMessage, messagesCount | called by Core's receive handler |
| IRCMessage (`irc_message.cpp`) | fields of a message | toString, fromProtobuf | Core::send, TcpPlugin |
| TcpPluginServer (`tcp_plugin_server.cpp`) | acceptor, waiting socket | acceptConnections, stop, initializePlugin | Core::addPlugin |
| TcpPlugin (`tcp_plugin.cpp`) | socket, receive buffer, initialisation timer, token, shutdown promise, on top of Plugin | startReceiving, process{InitRequest,IrcMessage,...}, sendToPlugin, onInit, onMessage, onShutdown | Core, the plugin's process |
| Bot (`pyircbot/bot.cpp`) | socket, thread | start, receive, parse, sendIrcMessage, stop | the other end of a TcpPlugin |
| AdminPort (`admin_port.cpp`) | acceptor, vector of clients | accept, receive, processCommand | Core's plugin operations and stop |
| dynamic loading (`core.cpp`, `so_plugin.hpp`) | `m_dl_plugins`, the counts of dlopen | loadSoPlugin, reloadPlugin | the files of the plugins |
| CommandParser (`command_parser.cpp`) | state machine over one line | parse | Plugin (IRC commands), AdminPort |
| Init, Join, Ping (`plugins/`) | nicks tried, channels tried | onInit, onMessage, filter | Core::send, the IRC server |
| other bundled plugins (`plugins/`) | Clipboard has texts | onMessage | Core::send |
| network library (`source/network`) | buffers, timers, client, server | used by its tests only | – |
| Config, Logger, Helpers | no protocol state | – | – |

### What is hard about it

* A plugin is used by three threads (main spawns, io feeds and restarts, io or
  the signal handler stops), with an atomic flag, a mutex and a deadline between
  them, and `m_running` is written in three places.
* `Core::stop` may be called by a connection error, a signal and the admin
  port, in any combination, while main is anywhere in `run`, and `run` is called
  again on the same object after an error.
* Asio completions that are already queued are not revoked by `cancel()` or by
  the destruction of the timer they belong to.
* The IRC grammar is encoded twice, in the lexer and in `parser()`; chunks end
  anywhere; the parser object survives reconnections.
* The protocol of the TCP plugins has no framing, and the io thread waits
  inside handlers. A TcpPlugin removes itself from the vector that `Core::stop`
  iterates over.
* The admin port keeps its clients in a vector that moves them when it grows,
  is destroyed by one of its own commands, and loads code that other plugins
  may share.
* Every worker calls `Core::send`, which hands asio a pointer to a local string.

What makes each component correct is stated with the module that models it
(section 3).

## 2. Modules

| Module | Models | EXTENDS / INSTANCE |
|---|---|---|
| `Plugin` | one Plugin object and its threads | – |
| `PluginContract` | what a plugin promises, without threads | instantiated by `Plugin` |
| `PluginProofs` | proofs about `Plugin` | `Plugin` |
| `IRCParser` | lexer, parser and message queue, character by character | – |
| `IRCParserProofs` | proofs about `IRCParser` | `IRCParser` |
| `MCIRCParser` | texts reduced to empty / not empty | `IRCParser` |
| `IRCStream` | toString, the socket, Core's receive loop, reconnection | instantiates `IRCParser` |
| `IRCStreamProofs` | proofs about `IRCStream` | `IRCStream`, instantiates `IRCParserProofs` |
| `MCIRCStream` | the lines the server sends | `IRCStream` |
| `CommandParser` | parse() character by character | – |
| `CommandLine` | a writer of command lines, the reference for the parser | `CommandParser` |
| `CommandLineProofs` | proofs about `CommandLine` and `CommandParser` | `CommandLine` |
| `TcpPlugin` | TcpPluginServer, TcpPlugin and the Bot at the other end | – |
| `TcpPluginProofs` | proofs about `TcpPlugin` | `TcpPlugin` |
| `Core` | main's loop, ContextProvider, fork, run, connect, stop, the receive handler, signals | – |
| `CoreProofs` | proofs about `Core` | `Core` |
| `AdminPort` | AdminPort, restartPlugin, reloadPlugin, dlopen and dlclose | – |
| `AdminPortProofs` | proofs about `AdminPort` | `AdminPort` |
| `MCAdminPort` | clients, plugins and files that go together | `AdminPort` |
| `Login` | Init, Join and Ping, Core::send, the server's side of a login | – |
| `LoginProofs` | proofs about `Login` | `Login` |
| `MCLogin` | a nick and two alternatives | `Login` |

Definitions whose name ends in `_Something` (for example `StopJoin_Detach`) are
mutants: plausible mistakes in the code, used to see that the properties notice
them. No specification uses them.

## 3. What is modelled and checked

### Plugin

State: `m_running`, `m_incoming` (messages as arrival numbers),
`m_incoming_mtx` (its holder), `joinable`, the place of the worker in `run()`
(`worker`) and of main and io in their calls (`pc`); `received`, `taken` and
`stopMark` only record history. Every statement of `receive`, `stop`, `spawn`
and `run` that touches shared state is an action of its own. A
condition-variable wait may end at any time, so `notify_all` has no state: a
missed notification is one of the behaviours. `onInit` and `onMessage` may
throw; the exception ends the worker and leaves `m_running` set, as the handler
in `spawn` does.

Run **plugin** (`Stoppers = {"io"}`, 3 messages, 2 restarts: a backlog of
two, a message that arrives in each phase of a stop and a restart, and a second
restart that meets what the first left behind):

* `QueueFifo`: the queue holds exactly what arrived and was not popped, in
  order, across restarts; `QueueExclusive`: the mutex protects it.
* `QuiescentOutsideRun`: onShutdown, destruction and a new spawn find no
  worker; `AtMostOneAfterStop`: at most one message is delivered after the flag
  is cleared.
* `QueueServed`, `StopReturnsOnceStarted`: queued messages are served, unless an
  exception of `onMessage` has ended the worker, and `stop()` of a worker that
  has begun `run()` returns, although it notifies nobody.
* `ImplementsContract`: refinement of `PluginContract`.

"Begun `run()`" cannot be left out: a `stop()` between `spawn()` and the first
statement of `run()` is undone by it (`plugin.cpp:45`), and `join()` never
returns, while `plugin.hpp:62` says that `stop()` "Stops plugin". Modules `Core`
(`Stuck`), `AdminPort` (`Hung`) and `TcpPlugin` (`Hangs`) meet the same race on
their own paths and name it.

With `Stoppers = {"main", "io"}` (a signal while io stops) `QuiescentOutsideRun`
is false: the second `stop()` returns at once because the flag is cleared already
(`plugin.cpp:24`), and Core destroys a plugin whose worker runs, although the
comment of the destructor says that it waits for it (`plugin.hpp:42`).

Fairness: the thread inside a call and the worker keep running (weak
fairness); nobody has to send or stop. `wait_for` computes an absolute
deadline once, so spurious wake-ups cannot postpone it for ever: strong
fairness of `WaitDeadline`, which covers a worker that loses the mutex to io
again and again.

### IRCParser and IRCStream

`IRCParser` has one action per character class of a lexer state, grouped per
`case` of the switch, and one action per token for `parser()`. Characters are
the seven separators the code tests for, digits, letters and others. The text
of a token is `Texts`/`Put`: in `IRCStream` a sequence of characters, in
`MCIRCParser` just "empty or not" (all that the lexer asks), which keeps all
inputs of 14 characters within reach. The local stringstream of `lexer()` is
the variable `token`, which `EndOfChunk` empties.

Run **irc_parser** (any input of up to 14 characters over nine character
classes plus NUL, any chunking; a message with a full user prefix, a command
and a parameter takes 12): `NoParserError` (the error branches of `parser()`
are unreachable), `CleanBetweenMessages`, `OneMessagePerLine`.

`IRCStream` adds `IRCMessage::toString` as the server's writer and Core's
receive loop. `origin` records, for each message parsed, the line it comes from.
`StreamAssumption` asks that the lines sent are `WellFormed`, which is what
toString and the lexer agree on; it leaves out lines that the lexer reads as
something else: a nick without user and host (it is taken for a server
name), a colon inside a parameter that is not the last (it starts the trailing
one), and a command of one character without a prefix (`COMMAND` looks at the
character behind it).

Run **irc_stream** (five lines that differ in prefix, kind of command and
parameters, two of them without any; 3 messages per connection, 2 connections,
`MaxBroken = 2`: a connection breaks after at most two messages, so that the third
is a line that has to be right): chunks end between tokens only
(`CutAnywhere = FALSE`).

* `StreamDelivered`: what arrives is what was sent, field by field, as long as
  every line has parameters.
* `OnlyNextLineDamaged`: a line without parameters damages at most itself and the
  next line; no other line is damaged, and every line with parameters has its
  message.
* `ResyncAfterReconnect`: a connection lost inside a line damages at most the
  first two lines of the next one; from the third on a line is right and present
  if the two before it had parameters.
* `EventuallyTaken`: nothing stays in the parser. Fairness: the io thread works
  on what has arrived, and a chunk is finite.

Run **irc_stream_no_params** (violation of `EveryLineDelivered`): RFC 1459, with
which `irc_parser.hpp:13` says the parser complies, lets a message have no
parameters. The line end behind such a command is taken for a part of it
(`irc_parser.cpp:95-114`), the message is lost and the next line damaged.

Run **irc_stream_cut** (violation of `StreamDelivered`): when a chunk ends inside a
token, the first part of the token is lost.

### CommandParser

`parse()` one character per step, with the escape counter as the code has it.
`CommandLine` writes a command and its arguments in any mixture of the ways the
class comment offers: each character plain or escaped, areas of an argument in
quotes or double quotes. It remembers what the user means (`name`, `args`,
`word`) and the parser reads each piece of text before the next is written:
`parse()` never looks ahead, so a line that is complete before makes no
difference, and writer and parser can be compared at every step.

Run **command_line** (names of up to two characters, three arguments of up to
one character out of letter, other, prefix and the special ones, two quoted
areas, prefix or none, three line ends): `ReadsWhatWasWritten`,
`ThrowsIffMalformed`. Two areas and three arguments show the state that one
leaves to the next; longer words are the subject of the proofs, which have no
bounds.

### TcpPlugin

One session per connection: acceptance, INIT_REQUEST, timer, worker, messages
in both directions, the end of the stream, `stop()` on the io thread and the
removal from `m_plugins`. The queue between io and worker is a sequence here
(module `Plugin` has the details), and the test of the loop is part of the
worker's step. TCP keeps order; a receive returns one message or several sent
in a row; protobuf merges concatenated messages, as `ParseFromString` says:
type and oneof of the last one, repeated fields appended. Receives that cut
*inside* a message are not modelled: parsing half a protobuf message has no
small abstraction, and `Bot::parse` ignores that it failed (`bot.cpp:111`), so
a cut message would be delivered in part.

`authenticatePlugin` compares with the configured `plugin_token`, which is
"good", "empty" or "unset" in a behaviour; unset, as in `config/local.json`, its
conversion throws (`TokenUnset`): the first INIT_REQUEST terminates the process,
where the code means to refuse the plugin and log "Token for TCP plugins has not
been set or is empty!" (`core.cpp:363-366`). `remote_endpoint()` throws for a peer that has
reset its connection before it was accepted (`AcceptReset`). When
`stopTcpPluginServer` closes the acceptor, the completion of one accept may be
queued already (`accepted`); its handler still adds a plugin. That the accept
handler then calls itself again for ever, as every error but `operation_aborted`
makes it (`tcp_plugin_server.cpp:46`), keeps the io thread busy between other
handlers and is not a step of the model.

`Core::stop` is part of the model, as the signal handler calls it on main
(`Signal`, `StopNext`, `CloseServer`, `Deinitialize`, `Exit`) and as the io
thread calls it after a connection error (`ConnectionError`). `Join`,
`OnShutdown` and `RemovePlugin` are the same code on either thread and take the
thread as a parameter. The iterators of `stopPlugins` are a position and the end
it was started with, the vector is the real one. A step on an object that the
other thread has destroyed (`UseDestroyed`) and an element that moved under the
loop have an outcome that goes well and one that is fatal.

Run **tcp_plugin** (two sessions, good and bad tokens, a configured `plugin_token`
or none, one session whose timer may expire, two messages in total; two messages are what a merge needs, two
sessions what the vector and a shared io thread need; behaviours with a
`Core::stop` have no messages, `MaxBusyStop = 0`, as messages and the stop meet
only in the worker, which module `Plugin` covers):

* `RemovedClean`: the vector holds exactly the living plugins, and what is
  destroyed has no worker, socket or pending receive, also when main and the io
  thread stop plugins at the same time.
* `FatalIsExplained`: whatever terminates the process has the cause that this end
  needs. An INIT_REQUEST does only if `plugin_token` is not configured, an
  acceptance only if the peer has reset its connection, a timer only if its
  plugin was slow and is destroyed (its handler was queued), the use of a
  destroyed plugin only once main is in `Core::stop` (the receive handler fulfils
  the promise and then calls `stop()`, while main may already have removed the
  plugin, `tcp_plugin.cpp:37`). A second worker, a promise fulfilled twice, a
  joinable thread destroyed and the end of a loop over the vector missed need a
  `Core::stop` that meets several plugins (the first erases itself and the loop
  runs past the end, `tcp_plugin.cpp:131`, `core.cpp:408`) or two threads that
  add, start or stop plugins at the same moment (`raced`). So none of these
  happens to a bot that nobody stops, in whatever order its plugins come, go and
  fail.
* `NothingInvented`: each end takes only what the other one sent, in order and
  nothing twice, in spite of merging.
* `SessionEnds`: the end of a plugin is noticed, and the plugin removed, unless
  a thread hangs in one of the two ways `Hangs` names. One of them is a
  connection error while a TcpPlugin is connected: `stopPlugins` on the io
  thread waits for a promise that the same thread would have to fulfil.

Run **tcp_plugin_refused** (violation of `RefusedIsRemoved`; one session, tokens
good, bad and empty on either side): the `stop()` of a
plugin with a wrong token waits on the io thread for a promise that only the
io thread fulfils.

Fairness: the io thread runs what is queued for it, each worker runs. Nothing
is assumed of the plugins.

### Core

Controls `main`, `io` and `sig` (which suspends main). Each function called by
`run()` and by `stop()` is a step, loops over the plugins take a step per
plugin, and an asynchronous receive is one of none, pending, ready, error,
aborted, per connection. `crashed` records an exception that leaves a handler, a
joinable thread that is destroyed, and one outcome of a data race on the vector
of plugins (`raced`); the other outcome is that it goes well.

A plugin in the vector is its flag and its thread: "loaded", "spawned" (its
thread has not begun `run()`), "running", "early" (the flag was cleared before
`run()` began), "stopping", "stopped". `StopPlugin` is `Plugin::stop` with its
early return, `JoinPlugin` its join, which waits for the worker; `RunEntry` sets
the flag again, so a plugin stopped "early" makes the join wait for ever. With
`TcpPlugins` the loop may also meet a TcpPlugin and wait in `onShutdown`
(`StopTcpPlugin`): for ever on the io thread, and on main until the plugin goes
away and the io thread handles it (`TcpPluginGone`). The io thread hangs in the
same way in a handler that refuses a TcpPlugin (`HandleRefused`). `Stuck` names
these waits, and the liveness properties except one that lasts (`[]Stuck`).

ContextProvider is `m_context_thread`: `ContextRun` starts it, `ContextStop`
stops it once it has left its handler, `ContextJoin` is main's join. With
`Daemon` the fork comes between, and in the child the thread is "absent":
joining it there is undefined, it may return or hang. A `failed` main (an
exception out of `run()`) is where the model ends. That parent and child share
an epoll descriptor is not modelled.

Run **core** (`Daemon = FALSE`, two plugins, a TcpPlugin, errors, one signal,
traffic, three runs; a stop begins only while main waits): `CleanStop`,
`UpMeansServing`, `FirstStopIsSafe`, `BackoffNeverShrinks`, `ErrorReconnects`,
`ServerIsHeard` (what the socket reports is handled), `SignalEnds` (the process
ends, its io thread joined). Three runs show what the second and the third find
of the ones before. The interval is checked with `UIntModulus = 4096` in the
place of 2^32 and a maximum of 1000 ms, so that doubling stays below the modulus
as the default configuration does.

Run **core_error_twice** (violation of `EveryErrorRestarts`): the second connection
error terminates the process, because the acceptor of the tcp plugin server is
closed and kept.

What the properties do not hold for, found by changing a constant or a
precondition of them:

* A second stop in the same run, a signal while the io thread stops the client or
  the reverse, terminates the process: it calls `cancel()` on the closed acceptor
  or fulfils the promise again. That is why `FirstStopIsSafe` is about the first
  one. Data that was queued before a signal's `cancel()` is a way to it as well:
  its handler receives again on the closed socket, and that error is a second
  `Core::stop` (`core.cpp:169`).
* `CleanStop` with `StopDuringStartup = TRUE`: the receive begins in `connect()`, so
  an error may stop the client while main still loads and starts plugins and
  servers (`core.cpp:73`); what main starts behind the stop is left, although the
  stop has said "Client is stopped. Ready to exit." (`core.cpp:303`). Both threads
  change `m_plugins` then (`raced`).
* `SignalEnds` with `StopDuringStartup = TRUE`: a signal before `run()` replaces the
  promise, or while `connect()` retries, is forgotten (`core.cpp:56`, `272`).
* `ServerIsHeard` with `Daemon = TRUE`: the io thread is started (`ctx.run()`,
  `ircbot.cpp:78`) before `fork()` (`:113`), the child has no thread that runs
  handlers, and what the server sends is never read.

Fairness: each thread that can move moves, workers included, and `connect()`
keeps trying; the server need not accept and a TcpPlugin need not go away.

### AdminPort

State: `io` is the place of the io thread in a command, with the arguments that
are left; `accept`, `m_clients`, `receive` and `moved` (clients whose pending
receive points to where the object was) are the port; `disk`, `opened` and
`mapped` are the files, dlopen's counts and what is mapped; `worker`,
`m_running` and `version` are the plugins, which are SoPlugins here. Commands
that arrive in one receive are merged as `CommandParser` does (`Merge`).
`restartPlugin` and `reloadPlugin` take a step for the stop, the join, the
destruction, dlclose and loading, `Core::stop` one per plugin and one for the
rest; `Core::run` is one step, as `Core` has its parts.

Run **admin_port** (two clients and one plugin, or one client, a file that is
replaced or damaged, and one or two plugins in it; two commands, two runs: two
clients make the vector grow, two plugins share a library, the second run meets
handles of the first):

* `NoUnmappedCode`: no plugin's code is unmapped or replaced under it by a
  reload of another plugin, or of itself.
* `ReloadTakesNewVersion`: a reload runs the version on disk, if the plugin is
  alone in its file and this is the first run. Otherwise the old code stays
  mapped: `Core::stop` closes no library, while `core.hpp:255` speaks of
  libraries closed "when plugins are reloaded or removed".
* `SafeAlone`: a moved or destroyed object is used only after the vector has
  grown (`admin_port.cpp:49`), after a file could not be loaded
  (`core.cpp:441`), or after `Core::stop` has destroyed the port, possibly inside
  its own command (`admin_port.cpp:74`).
* `ClientsAreHeard`: what a client sends is read; `ShutdownEnds`: a shutdown
  that arrives on its own ends the process. Both except the cases that the
  formulas name (a moved client, a connection error, a lost stop).

Fairness: the io thread runs what completes and goes on with what it has begun,
workers run, main runs again. Nothing is assumed of clients, files and server.

### Login

Init, Join and Ping on their workers, the socket with room for `Room` messages,
and a server that knows which nicks are free, in use or not allowed. `Send` is
`Core::send`: with room the text is written at once, otherwise asio keeps a
pointer to a string that is gone, and what is written later is the text or
garbage (`WriteWaiting`). A restart keeps the object and calls `onInit` again; a
reconnection replaces everything.

Run **login** (a nick, two alternatives, each free, in use or erroneous; one
channel, one restart and one PING per connection, or no restart and two PINGs,
whose answers can be missing, doubled or out of order; two connections; room for three
messages and one that waits, so that the socket gets full when Init, Join and
Ping all send):

* `IndexStaysInside`: if an alternative is free, `m_alt_nicks[m_alt_nicks_index]`
  stays in the list in spite of restarts, which append to it. If none is free, it
  is read past its end (`init.cpp:28`).
* `FirstFreeNick`, `Registers`: the bot gets the first free nick of its
  configuration, and registers if those before it are in use. A nick that is
  answered by another code than 433 ends the attempts (`init.cpp:23`).
* `PingsAreAnswered`: each PING of a connection that lasts is answered, once and in
  order, whatever the other workers send.
* `JoinsOnceRegistered`: a Join that starts after the registration joins its
  channels. One that starts before is refused and not repeated, not even by a
  restart of the plugin, because `m_channels` has the channel (`join.cpp:15`).

The liveness properties except a socket that was full. Fairness: the three
workers, the io thread and the server keep going.

### Known from the models, without a run of their own

* A worker that has ended by an exception of `onMessage` leaves `m_running` set
  (`plugin.cpp:55`): messages pile up in its queue until a restart. `QueueServed`
  names the case.
* `TcpPlugin::onInit` sends a bare ControlRequest, which the Bot reads as a
  Message of type INIT_REQUEST and ignores (`tcp_plugin.cpp:60`).

## 4. What is proved

With TLAPS, for every value of the constants.

**PluginProofs.** `SafeInv` is the type invariant with `MutexInv` (who holds the
mutex is exactly who is in a critical section), `JoinInv` (`m_thread` is
joinable exactly as long as there is a worker to join) and
`QueueFifo`. It is inductive for any `Stoppers` and gives **TypeCorrect**,
**QueueIsFifo** and **QueueIsExclusive**: `QueueFifo` is inductive as it stands,
and exclusion needs the mutex's holder tied to program counters.
`StopInv` adds `StartInv` (main only starts the plugin, and io only receives before that),
`IoInv` (what io's place in stop and restart says of the flag and the worker) and
`GraceInv` (how many messages were popped since the flag was cleared, by the
place of the worker in its loop). It is inductive under
`Stoppers \subseteq {"io"}` and gives **StopIsQuiescent**,
**StopLimitsDelivery** and, with a step per action,
**PluginImplementsContract**. The assumption is needed: see the two stoppers
above.

**IRCParserProofs.** For any sets of characters and any representation of texts
that satisfies `TextAssumption`, and for every input and chunking,
`ParserInv` is inductive: types, `LexInv` (the type of the last token queued, for
each state of the lexer: the link between the two encodings of the grammar),
`RestInv` (inside a line `parser()` is at rest, and no text is left where no
token has begun), `LfInv` (while `parser()`
runs the queue ends in its only LF), `MessageInv` (which fields the message
under construction may have after each token). It gives
**ParserTypeCorrect**, **ParserNeverErrs**, **NoLeakBetweenMessages**,
**LinesAreMessages** and **PrefixesAreExclusive** (a message has a server name
or a user prefix, never both).

**CoreProofs.** **TypeCorrect** holds in every behaviour. **BackoffCorrect**
assumes that twice each interval is below `UIntModulus`: the code doubles before
it takes the minimum, in `uint32_t`, and an interval of 25 days would overflow.
The other four assume `~StopDuringStartup`; with it they are false, as section 3
says. They rest on `CoreInv`, whose central part `PhaseInv` says that a
process that has not crashed is in one of four phases: its first run, the end of
the one stop that gets past the TCP plugin server, the time after it, and a
second run that no stop leaves without a crash. `ChainInv` (one receive per
connection, and which of them may still complete), `ErrorInv` and `ServingInv`
tie the receives, the socket and the plugins to the phase. `UnspawnedInv` (no
plugin has a thread before main spawns it) keeps `spawn()` from meeting a joinable
thread, and `FirstStopInv` (the first stop has joined every plugin it has passed
and is about to join the one it is at) keeps the vector from being cleared over
one. It gives
**CleanStopCorrect**, **ServingCorrect**, **FirstStopCorrect** and
**OneReconnectionOnly**: a process never calls `Core::run` a third time,
whatever `MaxRuns` is, so three runs in the run **core** are enough for these
properties.

**AdminPortProofs.** `LibraryInv` is inductive for any clients, plugins, files,
versions, commands and runs. `CountInv` is the heart of it: `opened[f]` is at
least the number of plugins that hold a handle of `f`, where the one between
`removePlugin` and `dlclose` counts, and exactly that number in the first run. So a
`dlclose` unmaps only what no plugin uses (**MappedCode**), and in the first run
it does unmap what one plugin alone uses (**ReloadCorrect**). `BusyInv` keeps the
plugin of the current command known and out of the vector, `VersionInv` ties
what runs to what is mapped. `ClientInv` adds that a client enters the vector once and is moved
only when there is another (**SafeAloneCorrect**). Assumed: finitely many
plugins, and names of clients and files that differ from the model's markers.

**TcpPluginProofs.** For any number of sessions and messages. `CleanInv`:
the vector is free of duplicates and holds what is alive (`VectorInv`), and a
fulfilled promise means that no receive is left (`SessionInv`), which is what
makes destroying the object safe: **RemovedCleanCorrect**. `RaceInv` adds
`HandlerInv` (a timer expires only for a slow plugin, and what the io thread stops
is alive until main stops everything),
`StreamInv` (an INIT_REQUEST comes first and is gone before a worker exists, so
no second worker is spawned), `StopInv` (what a thread in `stop()` may rely on
while the other one stays out) and `LoopInv` (how far `stopPlugins` has come when
it met at most one plugin): **FatalIsExplainedCorrect**. `OrderInv` follows the
messages along their way, from Core into the queue of the plugin, onto the stream
and to the Bot, and back: the numbers along the whole way ascend and were all
handed out. The step that needs an argument of its own is a receive that merges:
what `ParseFromString` returns has the contents of its pieces in order, by induction
over their number. It gives **NothingInventedCorrect**, for any number of pieces
in a receive.

**IRCStreamProofs.** For every alphabet, every set of well-formed messages with
fields of any length and any number of parameters, and any number of messages and
connections. Assumed is `~CutAnywhere`: the run **irc_stream_cut** shows that the
theorems are false without it. `StreamInv` is inductive, and about the line in
progress rather than about what was delivered:

* `LineInv` is the heart of it. A line that begins in state NONE goes through
  twelve stages (`CleanLine`: in the server name, in the nick, at the command, in
  the j-th parameter, ..., in the parser after p tokens); each says which tokens of
  the line are queued (`TokenOf`), that what is read of the current field and what
  is still on the wire make up the field and the rest of toString (`Reading`), and
  what the message holds after p tokens (`Partial`). A line that begins behind its
  prefix (`MidLine`) still finds a command and a parameter, so it ends. Which of
  the two a line is follows from the lines before it (`Good`, `HalfGood`).
* `WireInv` says what holds of a line in whatever state it began: the text ends in
  its only line end, and a prefix state that a broken connection left behind is
  over by the line's first space. `LineOver` concludes that a line with parameters
  leaves the lexer in NONE, which is why damage ends.
* `OriginInv`, `RightInv` and `EveryInv` tie the messages to the lines.

This gives **StreamDeliveredCorrect**, **OnlyNextLineDamagedCorrect** and
**ResyncAfterReconnectCorrect**. The facts about the parser alone (types, grammar,
which token ends a message) come from `IRCParserProofs`, instantiated. All seven
parts of `StreamInv` were checked with TLC on the states of **irc_stream** before they
were proved.

Induction over data is done in both modules as a least counterexample
(`LeastNat`): the library's induction theorems take an operator as a parameter and cannot
be used, but that the proper subsets of finite sets are well-founded can, and
1..m is a proper subset of 1..n exactly if m < n.

**LoginProofs.** For every list of alternatives, every status of the nicks,
any number of restarts, connections and sends that wait. `IndexStaysInside` is
not about the index alone: several 433s may be under way at once after restarts.
`CreditInv` counts them: the NICKs that may be refused and the 433s that Init
has not seen are together at most as many as the free alternatives ahead of the
index, so each chain ends at one of its own (**IndexInside**). `ChainInv` says
that without restarts there is one chain, whose latest nick is on its way,
refused or accepted, with nothing free before it (**FirstFree**).

**CommandLineProofs.** For commands, arguments and lines of any length.
Writer and parser
move in turns, so the induction over the text is one over the steps of `LineSpec`. `LineInv` says
for each place in a line (after the space, within a word, at a quote, after a
character or an escape, at the end) how `token`, `arguments`, the quote flags
and the escape counter relate to what has been written; in between, when the
parser has caught up, `token` is the written word. It gives **ReadsBack**,
**ThrowsForMalformed** and, for any text, **ParserTypes**.

Only model-checked is everything under fairness (`QueueServed`,
`StopReturnsOnceStarted`, `EventuallyTaken`, `SessionEnds`, `ErrorReconnects`,
`SignalEnds`, `ServerIsHeard`, `ClientsAreHeard`, `ShutdownEnds`, `Registers`,
`PingsAreAnswered`, `JoinsOnceRegistered`), which is out of the prover's reach. Every
invariant and every other action property of a passing run has a theorem.

## 5. Not modelled

* Config, Logger, Helpers, version: file access, output and formatting.
* Python plugins: web scraping and replies, no protocol state.
* Clipboard: one sequence of texts per name, edited by one worker. A text that
  is no number after `!clip-rm` throws and ends that worker as module `Plugin`
  has it; `onNewConfiguration` is called by nobody. HelloWorld, Uptime and
  SimpleCommands keep no state.
* The network library (Buffer, Timer, TcpClient, TcpServer): only its own tests
  use it, so there is no system for a model of it to be about.
* The command line and the log outputs of `main`, and the tests.
* Filters and the table of command functions of Plugin: read only once set up.
* `restartPlugin` of a TcpPlugin: its `stop()` on the io thread hangs like that
  of a refused plugin.
* Receives that cut inside a protobuf message, and Bot's join of its thread.

## 6. Plan

Done: Plugin with its contract, IRCParser, IRCStream, CommandParser, TcpPlugin
with Core::stop, Core with ContextProvider, AdminPort and Login, and proofs of
the safety properties of all of them. Next:

1. `IRCStream` with `CutAnywhere`: what is still true when a chunk ends inside a
   token (how much of which line is lost), as an invariant of its own.
2. `TcpPlugin`: receives that cut inside a message, once there is an abstraction
   of a message that is parsed in half.
