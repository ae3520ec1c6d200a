------------------------------- MODULE Login --------------------------------
(***************************************************************************)
(* Logging in to an IRC server: the bundled plugins Init, Join and Ping    *)
(* (plugins/init, plugins/join, plugins/ping), each on its own worker, and *)
(* Core::send, which all of them call (source/core.cpp), against a server. *)
(*                                                                         *)
(* A worker is in its onInit or between two messages; module Plugin has    *)
(* its queue and its loop.  restartPlugin keeps the object and its queue   *)
(* and calls onInit again; a connection that breaks leads to new objects   *)
(* (module Core) and is one step here.                                     *)
(*                                                                         *)
(* IRC server (external): it accepts a nick that is free, answers 433 to   *)
(* one that is in use and 432 to one it does not like, and refuses         *)
(* everything but NICK, USER and PONG before it has got a nick and a user. *)
(* asio (external): async_send writes at once if nothing waits before it   *)
(* and the socket has room; otherwise it keeps a pointer to the text, and  *)
(* send()'s parameter is gone by the time there is room.                   *)
(***************************************************************************)
EXTENDS Naturals, Sequences

CONSTANTS
  Nick,          \* configuration of Init: "nick"
  Alternatives,  \* configuration of Init: "alternative_nicks", in order
  Channels,      \* configuration of Join: "channels"
  Room,          \* messages that the socket takes before it is full
  MaxWaiting,    \* bound: sends that wait at once
  MaxPings,      \* bound: PINGs of a connection and restarts, together
  MaxRestarts,   \* bound: restartPlugin commands
  MaxConnections \* bound: connections

ASSUME LoginAssumption ==
  /\ Room \in Nat \ {0} /\ MaxWaiting \in Nat /\ MaxPings \in Nat
  /\ MaxRestarts \in Nat /\ MaxConnections \in Nat
  /\ Alternatives \in Seq({Alternatives[i] : i \in DOMAIN Alternatives})

VARIABLES
  init,      \* the Init plugin: worker, m_alt_nicks, m_alt_nicks_index, m_incoming
  join,      \* the Join plugin: worker, m_channels, channels left, m_incoming
  ping,      \* the Ping plugin: m_incoming
  outgoing,  \* messages in the socket
  waiting,   \* messages whose asynchronous send waits for room
  full,      \* has a send had to wait on this connection?
  server,    \* nick, user, joined channels and PONGs of this connection
  pings,     \* PINGs of this connection
  status,    \* of a nick: "free" for the bot, "inuse" or "erroneous"
  restarts,  \* restartPlugin commands so far
  conn,      \* number of the connection
  crashed    \* a read past the end of m_alt_nicks: undefined, the model ends

wires == <<outgoing, waiting, full>>
counters == <<restarts, conn, crashed>>
vars == <<init, join, ping, wires, server, pings, status, counters>>

Nicks == {Nick} \cup {Alternatives[i] : i \in DOMAIN Alternatives}

\* Objects as their constructors and spawn() leave them.
NewInit == [pc |-> "start", alt |-> <<>>, index |-> 0, incoming |-> <<>>]
NewJoin == [pc |-> "start", channels |-> {}, left |-> {}, incoming |-> 0]
NewServer == [nick |-> "none", user |-> FALSE, joined |-> {}, pongs |-> <<>>]

Init ==
  /\ init = NewInit /\ join = NewJoin /\ ping = <<>>
  /\ outgoing = <<>> /\ waiting = <<>> /\ full = FALSE
  /\ server = NewServer /\ pings = 0
  /\ status \in [Nicks -> {"free", "inuse", "erroneous"}]
  /\ restarts = 0 /\ conn = 1 /\ crashed = FALSE

Registered == server.nick # "none" /\ server.user

\* A PING or a restart may still come.
More == pings + restarts < MaxPings

-----------------------------------------------------------------------------
(* Core::send *)

\* m_socket.async_send(const_buf, write_handler)
Send(m) ==
  IF waiting = <<>> /\ Len(outgoing) < Room
  THEN outgoing' = Append(outgoing, m) /\ UNCHANGED <<waiting, full>>
  ELSE /\ Len(waiting) < MaxWaiting
       /\ waiting' = Append(waiting, m) /\ full' = TRUE /\ UNCHANGED outgoing

\* There is room again: what is written is whatever the memory of the text
\* holds by now.
WriteWaiting ==
  /\ ~crashed /\ waiting # <<>> /\ Len(outgoing) < Room
  /\ \E m \in {Head(waiting), [op |-> "garbage"]} : outgoing' = Append(outgoing, m)
  /\ waiting' = Tail(waiting)
  /\ UNCHANGED <<init, join, ping, full, server, pings, status, counters>>

-----------------------------------------------------------------------------
(* Init *)

\* Mutant: onInit fills the list only once.
InitStart_Once ==
  /\ ~crashed /\ init.pc = "start"
  /\ Send([op |-> "NICK", nick |-> Nick])
  /\ init' = [init EXCEPT !.pc = "user",
                          !.alt = IF @ = <<>> THEN Alternatives ELSE @]
  /\ UNCHANGED <<join, ping, server, pings, status, counters>>

\* onInit: the alternatives are appended, the first nick is sent.
InitStart ==
  /\ ~crashed /\ init.pc = "start"
  /\ Send([op |-> "NICK", nick |-> Nick])
  /\ init' = [init EXCEPT !.pc = "user", !.alt = @ \o Alternatives]
  /\ UNCHANGED <<join, ping, server, pings, status, counters>>

\* onInit: USER.
InitUser ==
  /\ ~crashed /\ init.pc = "user"
  /\ Send([op |-> "USER"])
  /\ init' = [init EXCEPT !.pc = "loop"]
  /\ UNCHANGED <<join, ping, server, pings, status, counters>>

\* Mutants: the index is advanced first; the nick is logged but not sent.
InitNext_IndexFirst ==
  /\ ~crashed /\ init.pc = "loop" /\ init.incoming # <<>>
  /\ Head(init.incoming) = "433"
  /\ IF init.index + 1 < Len(init.alt)
     THEN /\ Send([op |-> "NICK", nick |-> init.alt[init.index + 2]])
          /\ init' = [init EXCEPT !.index = @ + 1, !.incoming = Tail(@)]
          /\ UNCHANGED crashed
     ELSE crashed' = TRUE /\ UNCHANGED <<init, wires>>
  /\ UNCHANGED <<join, ping, server, pings, status, restarts, conn>>

InitNext_NotSent ==
  /\ ~crashed /\ init.pc = "loop" /\ init.incoming # <<>>
  /\ Head(init.incoming) = "433"
  /\ init' = [init EXCEPT !.index = @ + 1, !.incoming = Tail(@)]
  /\ UNCHANGED <<join, ping, wires, server, pings, status, counters>>

\* onMessage with 433: m_alt_nicks[m_alt_nicks_index], whatever the index is.
InitNext ==
  /\ ~crashed /\ init.pc = "loop" /\ init.incoming # <<>>
  /\ Head(init.incoming) = "433"
  /\ IF init.index < Len(init.alt)
     THEN /\ Send([op |-> "NICK", nick |-> init.alt[init.index + 1]])
          /\ init' = [init EXCEPT !.index = @ + 1, !.incoming = Tail(@)]
          /\ UNCHANGED crashed
     ELSE crashed' = TRUE /\ UNCHANGED <<init, wires>>
  /\ UNCHANGED <<join, ping, server, pings, status, restarts, conn>>

\* onMessage with another reply that filter() lets through.
InitIgnore ==
  /\ ~crashed /\ init.pc = "loop" /\ init.incoming # <<>>
  /\ Head(init.incoming) # "433"
  /\ init' = [init EXCEPT !.incoming = Tail(@)]
  /\ UNCHANGED <<join, ping, wires, server, pings, status, counters>>

-----------------------------------------------------------------------------
(* Join and Ping *)

\* Mutant: the test of m_channels is inverted.
JoinStart_Inverted ==
  /\ ~crashed /\ join.pc = "start"
  /\ join' = [join EXCEPT !.pc = "init", !.left = Channels \cap join.channels]
  /\ UNCHANGED <<init, ping, wires, server, pings, status, counters>>

\* onInit: the channels that this object has not tried before.
JoinStart ==
  /\ ~crashed /\ join.pc = "start"
  /\ join' = [join EXCEPT !.pc = "init", !.left = Channels \ join.channels]
  /\ UNCHANGED <<init, ping, wires, server, pings, status, counters>>

JoinSend(c) ==
  /\ ~crashed /\ join.pc = "init" /\ c \in join.left
  /\ Send([op |-> "JOIN", channel |-> c])
  /\ join' = [join EXCEPT !.channels = @ \cup {c}, !.left = @ \ {c}]
  /\ UNCHANGED <<init, ping, server, pings, status, counters>>

JoinSent ==
  /\ ~crashed /\ join.pc = "init" /\ join.left = {}
  /\ join' = [join EXCEPT !.pc = "loop"]
  /\ UNCHANGED <<init, ping, wires, server, pings, status, counters>>

\* onMessage logs the reply.
JoinReply ==
  /\ ~crashed /\ join.pc = "loop" /\ join.incoming > 0
  /\ join' = [join EXCEPT !.incoming = @ - 1]
  /\ UNCHANGED <<init, ping, wires, server, pings, status, counters>>

\* Mutant: the worker takes the newest message from its queue.
PingReply_Newest ==
  /\ ~crashed /\ ping # <<>>
  /\ Send([op |-> "PONG", token |-> ping[Len(ping)]])
  /\ ping' = SubSeq(ping, 1, Len(ping) - 1)
  /\ UNCHANGED <<init, join, server, pings, status, counters>>

\* onMessage: PONG with the parameter of the PING.
PingReply ==
  /\ ~crashed /\ ping # <<>>
  /\ Send([op |-> "PONG", token |-> Head(ping)])
  /\ ping' = Tail(ping)
  /\ UNCHANGED <<init, join, server, pings, status, counters>>

-----------------------------------------------------------------------------
(* The server *)

\* NICK: the reply, if any, passes the filter of Init.
ServerNick ==
  LET nick == Head(outgoing).nick IN
  /\ ~crashed /\ outgoing # <<>> /\ Head(outgoing).op = "NICK"
  /\ outgoing' = Tail(outgoing)
  /\ IF status[nick] = "free"
     THEN server' = [server EXCEPT !.nick = nick] /\ UNCHANGED init
     ELSE /\ init' = [init EXCEPT !.incoming =
                        Append(@, IF status[nick] = "inuse" THEN "433" ELSE "432")]
          /\ UNCHANGED server
  /\ UNCHANGED <<join, ping, waiting, full, pings, status, counters>>

\* JOIN: before the registration the reply is 451, which no plugin wants.
ServerJoin ==
  LET channel == Head(outgoing).channel IN
  /\ ~crashed /\ outgoing # <<>> /\ Head(outgoing).op = "JOIN"
  /\ outgoing' = Tail(outgoing)
  /\ IF Registered
     THEN /\ server' = [server EXCEPT !.joined = @ \cup {channel}]
          /\ join' = [join EXCEPT !.incoming = @ + 1]
     ELSE UNCHANGED <<server, join>>
  /\ UNCHANGED <<init, ping, waiting, full, pings, status, counters>>

\* USER, PONG and what it does not understand.
ServerOther ==
  LET m == Head(outgoing) IN
  /\ ~crashed /\ outgoing # <<>> /\ m.op \in {"USER", "PONG", "garbage"}
  /\ outgoing' = Tail(outgoing)
  /\ server' = CASE m.op = "USER" -> [server EXCEPT !.user = TRUE]
                 [] m.op = "PONG" -> [server EXCEPT !.pongs = Append(@, m.token)]
                 [] OTHER -> server
  /\ UNCHANGED <<init, join, ping, waiting, full, pings, status, counters>>

ServerPing ==
  /\ ~crashed /\ More
  /\ pings' = pings + 1
  /\ ping' = Append(ping, pings + 1)
  /\ UNCHANGED <<init, join, wires, server, status, counters>>

-----------------------------------------------------------------------------
(* Restarts *)

\* restartPlugin: the worker ends between two messages and a new one starts
\* with the same object.  (Ping has no onInit.)
RestartInit ==
  /\ ~crashed /\ restarts < MaxRestarts /\ More /\ init.pc = "loop"
  /\ init' = [init EXCEPT !.pc = "start"]
  /\ restarts' = restarts + 1
  /\ UNCHANGED <<join, ping, wires, server, pings, status, conn, crashed>>

RestartJoin ==
  /\ ~crashed /\ restarts < MaxRestarts /\ More /\ join.pc = "loop"
  /\ join' = [join EXCEPT !.pc = "start"]
  /\ restarts' = restarts + 1
  /\ UNCHANGED <<init, ping, wires, server, pings, status, conn, crashed>>

\* The connection breaks: Core::stop destroys the plugins with their queues,
\* and Core::run connects and loads them again.
Reconnect ==
  /\ ~crashed /\ conn < MaxConnections
  /\ conn' = conn + 1
  /\ init' = NewInit /\ join' = NewJoin /\ ping' = <<>>
  /\ outgoing' = <<>> /\ waiting' = <<>> /\ full' = FALSE
  /\ server' = NewServer /\ pings' = 0
  /\ UNCHANGED <<status, restarts, crashed>>

-----------------------------------------------------------------------------
InitWorker == InitStart \/ InitUser \/ InitNext \/ InitIgnore

JoinWorker == JoinStart \/ (\E c \in Channels : JoinSend(c)) \/ JoinSent \/ JoinReply

Server == ServerNick \/ ServerJoin \/ ServerOther

Next ==
  \/ InitWorker \/ JoinWorker \/ PingReply \/ WriteWaiting \/ Server
  \/ ServerPing \/ RestartInit \/ RestartJoin \/ Reconnect

Spec == Init /\ [][Next]_vars

(***************************************************************************)
(* Each worker, the io thread and the server keep going; nobody has to     *)
(* restart anything, and the server need not send a PING.                  *)
(***************************************************************************)
FairSpec ==
  /\ Spec
  /\ WF_vars(InitWorker) /\ WF_vars(JoinWorker) /\ WF_vars(PingReply)
  /\ WF_vars(WriteWaiting) /\ WF_vars(Server)

-----------------------------------------------------------------------------
(* Properties *)

\* Init::onMessage: as long as one alternative is free the unchecked index
\* stays inside the list, however many restarts append the list again and
\* however their 433s mix: every round of the list ends one chain of retries.
IndexStaysInside ==
  (\E i \in DOMAIN Alternatives : status[Alternatives[i]] = "free") => ~crashed

\* Init: without restarts the bot gets the first free nick of its
\* configuration, in the configured order.
FirstFreeNick ==
  LET order == <<Nick>> \o Alternatives IN
  server.nick # "none" /\ restarts = 0 =>
    \E i \in DOMAIN order :
      /\ server.nick = order[i]
      /\ \A j \in 1..(i - 1) : status[order[j]] # "free"

\* Init: on a connection that lasts the bot registers when the nicks before a
\* free one are all in use, unless the socket was full.
Registers ==
  LET order == <<Nick>> \o Alternatives
      reachable == \E i \in DOMAIN order :
                     /\ status[order[i]] = "free"
                     /\ \A j \in 1..(i - 1) : status[order[j]] = "inuse"
  IN  []<>(reachable => Registered \/ full)

\* Ping: on a connection that lasts every PING is answered, once and in order,
\* whatever the other workers send, unless the socket was full.
PingsAreAnswered ==
  []<>(server.pongs = [i \in 1..pings |-> i] \/ full \/ crashed)

\* Join: what onInit sends after the registration is joined, unless the
\* connection breaks.  (Sent earlier it is refused, and neither a reply nor a
\* restart of the plugin repeats it.)
JoinsOnceRegistered ==
  (Registered /\ join.pc = "start" /\ join.channels = {}) ~>
    (server.joined = Channels \/ full \/ crashed \/ ~Registered)

=============================================================================
