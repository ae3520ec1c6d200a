-------------------------- MODULE TcpPluginProofs ---------------------------
(***************************************************************************)
(* Theorems about TcpPlugin, for any number of plugins and messages.       *)
(***************************************************************************)
EXTENDS TcpPlugin, FiniteSetTheorems, SequenceTheorems, WellFoundedInduction, TLAPS

\* Where the io thread and main are.
IoStates ==
  [pc : {"idle"}]
    \cup [pc : {"stop", "join", "onShutdown", "ready"}, s : Sessions,
          handler : {"init", "error", "core", "timer"}]

MainStates ==
  [pc : {"wait"}]
    \cup [pc : {"next"}, at : Nat \ {0}, end : Nat]
    \cup [pc : {"next", "join", "onShutdown", "ready"}, s : Sessions,
          at : Nat \ {0}, end : Nat]
    \cup [pc : {"closed", "cleared", "exit"}, at : Nat \ {0}, end : Nat,
          accepted : SUBSET Sessions]

\* What a plugin sends.
BotMessages == {InitRequest(token) : token \in Tokens} \cup {IrcMessage(n) : n \in Nat}

TypeOK ==
  /\ io \in IoStates /\ main \in MainStates
  /\ raced \in BOOLEAN
  /\ m_plugins \in Seq(Sessions)
  /\ object \in [Sessions -> {"none", "alive", "destroyed"}]
  /\ m_socket \in [Sessions -> {"closed", "open"}]
  /\ receive \in [Sessions -> {"none", "pending", "aborted"}]
  /\ m_ready_for_shutdown \in [Sessions -> BOOLEAN]
  /\ m_running \in [Sessions -> BOOLEAN]
  /\ m_thread \in [Sessions -> {"none", "entry", "wait", "exited"}]
  /\ fromBot \in [Sessions -> Seq(BotMessages)]
  /\ bot \in [Sessions -> {"off", "started", "stopped"}]
  /\ replies \in Nat

\* Core's vector holds every plugin that is alive, once.
VectorInv ==
  /\ \A i, j \in 1..Len(m_plugins) : m_plugins[i] = m_plugins[j] => i = j
  /\ \A i \in 1..Len(m_plugins) : object[m_plugins[i]] = "alive"
  /\ \A s \in Sessions :
       object[s] = "alive" => \E i \in 1..Len(m_plugins) : m_plugins[i] = s

\* A promise that is fulfilled leaves no receive behind, so that the object can
\* be destroyed; until it is, its socket is open.
SessionInv ==
  \A s \in Sessions :
    /\ object[s] = "none" => receive[s] = "none" /\ m_running[s]
    /\ object[s] = "alive" => m_socket[s] = "open" /\ receive[s] # "aborted"
    /\ object[s] = "destroyed" =>
         m_thread[s] = "none" /\ m_socket[s] = "closed" /\ receive[s] = "none"
    /\ m_ready_for_shutdown[s] => receive[s] = "none" /\ object[s] # "none"

\* A Bot sends INIT_REQUEST once, before everything else, so that it is gone
\* from the stream when the worker has been spawned.
StreamInv ==
  \A s \in Sessions :
    /\ bot[s] = "off" => fromBot[s] = <<>> /\ m_thread[s] = "none"
    /\ \A i \in 1..Len(fromBot[s]) :
         fromBot[s][i].type = "INIT_REQUEST" => i = 1 /\ m_thread[s] = "none"

InStop == {"join", "onShutdown", "ready"}

\* What the threads in stop() may rely on as long as they do not race.
StopInv ==
  /\ io.pc \in InStop /\ main.pc # "wait" => raced
  /\ io.pc \in {"onShutdown", "ready"} => m_thread[io.s] = "none"
  /\ main.pc = "wait" =>
       \A s \in Sessions :
         object[s] = "alive" => m_running[s] \/ (io.pc \in InStop /\ io.s = s)
  /\ main.pc \in {"onShutdown", "ready"} /\ ~raced => m_thread[main.s] = "none"

\* How far Core::stop has come, if it is not raced and met at most one plugin.
LoopInv ==
  /\ main.pc \in InStop => main.at >= 2
  /\ main.pc = "closed" => main.at > main.end
  /\ main.pc = "next" /\ main.at = 1 /\ ~raced =>
       /\ Len(m_plugins) = main.end
       /\ \A s \in Sessions : object[s] = "alive" => m_running[s]
  /\ main.pc \in InStop /\ main.end <= 1 /\ ~raced =>
       \A s \in Sessions : object[s] = "alive" => s = main.s
  /\ main.pc \in {"next", "closed"} /\ main.at > main.end /\ main.end <= 1
       /\ ~raced =>
       \A s \in Sessions : object[s] # "alive"

\* Inductive; implies RemovedClean.
CleanInv == TypeOK /\ (fatal = "no" => VectorInv /\ SessionInv)

\* Only a session with a slow Bot has its timer expire, and the io thread is in
\* stop() of a plugin that is alive until Core::stop is called.
HandlerInv ==
  /\ m_init_timer \in [Sessions -> {"off", "waiting", "expired"}]
  /\ \A s \in Sessions : m_init_timer[s] = "expired" => s \in TimerFires
  /\ main.pc = "wait" /\ io.pc # "idle" => object[io.s] = "alive"

\* Inductive; implies FatalIsExplained.
RaceInv ==
  /\ CleanInv /\ FatalIsExplained
  /\ fatal = "no" => StreamInv /\ StopInv /\ LoopInv /\ HandlerInv

-----------------------------------------------------------------------------
(* Types *)

LEMMA TypeInit == Init => TypeOK
<1> SUFFICES ASSUME Init PROVE TypeOK
  OBVIOUS
<1>1. io \in IoStates /\ main \in MainStates
  BY DEF Init, IoStates, MainStates
<1>2. m_plugins \in Seq(Sessions) /\ fromBot \in [Sessions -> Seq(BotMessages)]
  BY DEF Init
<1>3. /\ raced \in BOOLEAN /\ m_running \in [Sessions -> BOOLEAN]
      /\ m_ready_for_shutdown \in [Sessions -> BOOLEAN]
  BY DEF Init
<1> QED
  BY <1>1, <1>2, <1>3 DEF Init, TypeOK

\* What a receive takes is a prefix of the stream, and not empty.
LEMMA ChunkRest ==
  ASSUME NEW S, NEW wire \in Seq(S), NEW chunk \in Chunks(wire)
  PROVE  /\ Rest(wire, chunk) \in Seq(S)
         /\ Len(chunk) \in 1..Len(wire) /\ chunk \in Seq(S)
         /\ \A i \in 1..Len(chunk) : chunk[i] = wire[i]
         /\ Len(Rest(wire, chunk)) = Len(wire) - Len(chunk)
         /\ \A i \in 1..Len(Rest(wire, chunk)) :
              Rest(wire, chunk)[i] = wire[Len(chunk) + i]
<1>1. PICK n \in 1..Len(wire) : chunk = SubSeq(wire, 1, n)
  BY DEF Chunks
<1>2. /\ chunk \in Seq(S) /\ Len(chunk) = n
      /\ \A i \in 1..n : chunk[i] = wire[i]
  BY <1>1
<1>3. Rest(wire, chunk) = SubSeq(wire, n + 1, Len(wire))
  BY <1>2 DEF Rest
<1> QED
  BY <1>2, <1>3

\* Plugin::stop(), called on the io thread.
LEMMA BeginStopType ==
  ASSUME TypeOK, NEW s \in Sessions, NEW h \in {"init", "error", "core", "timer"},
         BeginStop(s, h)
  PROVE  /\ io' \in IoStates /\ raced' \in BOOLEAN
         /\ m_running' \in [Sessions -> BOOLEAN]
<1>1. io' \in IoStates
  BY DEF BeginStop, Stopping, IoStates
<1>2. raced' \in BOOLEAN /\ m_running' \in [Sessions -> BOOLEAN]
  BY DEF BeginStop, TypeOK
<1> QED
  BY <1>1, <1>2

\* Going on in stop(), or out of it.
LEMMA GotoType ==
  ASSUME TypeOK, NEW t \in {"io", "main"}, NEW pc \in {"onShutdown", "ready"},
         Where(t).pc \in {"stop", "join", "onShutdown", "ready"},
         Goto(t, pc) \/ Return(t)
  PROVE  io' \in IoStates /\ main' \in MainStates
<1>1. CASE t = "io"
  <2>1. io \in [pc : {"stop", "join", "onShutdown", "ready"}, s : Sessions,
                handler : {"init", "error", "core", "timer"}]
    BY <1>1 DEF TypeOK, IoStates, Where
  <2>2. io' = [io EXCEPT !.pc = pc] \/ io' = [pc |-> "idle"]
    BY <1>1 DEF Goto, Return
  <2>3. main' = main
    BY <1>1 DEF Goto, Return
  <2>4. io' \in IoStates
    BY <2>1, <2>2 DEF IoStates
  <2> QED
    BY <2>3, <2>4 DEF TypeOK
<1>2. CASE t = "main"
  <2>1. main \in [pc : {"next", "join", "onShutdown", "ready"}, s : Sessions,
                  at : Nat \ {0}, end : Nat]
    BY <1>2 DEF TypeOK, MainStates, Where
  <2>2. main' = [main EXCEPT !.pc = pc] \/ main' = [main EXCEPT !.pc = "next"]
    BY <1>2 DEF Goto, Return
  <2>3. io' = io
    BY <1>2 DEF Goto, Return
  <2>4. main' \in MainStates
    BY <2>1, <2>2 DEF MainStates
  <2> QED
    BY <2>3, <2>4 DEF TypeOK
<1> QED
  BY <1>1, <1>2

\* removePlugin(): the vector without s.
LEMMA Erased ==
  ASSUME NEW S, NEW q \in Seq(S), NEW k \in 1..Len(q),
         \A i \in 1..Len(q) : q[i] = q[k] => i = k
  PROVE  /\ RemoveFirst(q, q[k]) \in Seq(S)
         /\ Len(RemoveFirst(q, q[k])) = Len(q) - 1
         /\ \A i \in 1..(Len(q) - 1) :
              RemoveFirst(q, q[k])[i] = IF i < k THEN q[i] ELSE q[i + 1]
<1>1. SelectInSeq(q, LAMBDA v : v = q[k]) = k
  <2> DEFINE I == {i \in 1..Len(q) : q[i] = q[k]}
  <2>1. I = {k}
    OBVIOUS
  <2>2. Min(I) = k
    BY <2>1 DEF Min
  <2> QED
    BY <2>1, <2>2 DEF SelectInSeq
<1>2. RemoveFirst(q, q[k]) = RemoveAt(q, k)
  BY <1>1 DEF RemoveFirst
<1> DEFINE a == SubSeq(q, 1, k - 1)
           b == SubSeq(q, k + 1, Len(q))
<1>3. RemoveAt(q, k) = a \o b
  BY DEF RemoveAt
<1>4. a \in Seq(S) /\ Len(a) = k - 1 /\ \A i \in 1..(k - 1) : a[i] = q[i]
  OBVIOUS
<1>5. /\ b \in Seq(S) /\ Len(b) = Len(q) - k
      /\ \A i \in 1..(Len(q) - k) : b[i] = q[k + i]
  OBVIOUS
<1> HIDE DEF a, b
<1>6. /\ a \o b \in Seq(S) /\ Len(a \o b) = Len(q) - 1
      /\ \A i \in 1..(Len(q) - 1) :
           (a \o b)[i] = IF i < k THEN a[i] ELSE b[i - (k - 1)]
  <2>1. /\ a \o b \in Seq(S) /\ Len(a \o b) = Len(a) + Len(b)
        /\ \A i \in 1..(Len(a) + Len(b)) :
             (a \o b)[i] = IF i <= Len(a) THEN a[i] ELSE b[i - Len(a)]
    BY <1>4, <1>5, ConcatProperties
  <2>2. Len(q) \in Nat /\ k \in Int /\ Len(a) + Len(b) = Len(q) - 1
    BY <1>4, <1>5
  <2>3. \A i \in 1..(Len(q) - 1) : i <= Len(a) <=> i < k
    BY ONLY <1>4, <2>2, k \in 1..Len(q)
  <2> QED
    BY ONLY <1>4, <2>1, <2>2, <2>3
<1>7. ASSUME NEW i \in 1..(Len(q) - 1)
      PROVE  (a \o b)[i] = IF i < k THEN q[i] ELSE q[i + 1]
  <2>1. CASE i < k
    BY <1>4, <1>6, <2>1
  <2>2. CASE i >= k
    <3>1. i - (k - 1) \in 1..(Len(q) - k) /\ k + (i - (k - 1)) = i + 1
      BY <2>2
    <3> QED
      BY <1>5, <1>6, <2>2, <3>1
  <2>3. Len(q) \in Nat
    OBVIOUS
  <2>4. i < k \/ i >= k
    BY <2>3
  <2> QED
    BY <2>1, <2>2, <2>4
<1> QED
  BY <1>2, <1>3, <1>6, <1>7

\* An INIT_REQUEST is received before it is answered, or not.
LEMMA InitReceived ==
  ASSUME NEW s, NEW data,
         HandleInitRequest(s, data) \/ RefuseInitRequest(s, data) \/ TokenUnset(s, data)
  PROVE  /\ Receives(s, data)
         /\ \E token \in Tokens : ParseFromString(data) = InitRequest(token)
BY DEF HandleInitRequest, RefuseInitRequest, TokenUnset, Presents

\* Every step keeps the types.
LEMMA TypeStep ==
  ASSUME TypeOK, fatal = "no" => VectorInv, [Next]_vars
  PROVE  TypeOK'
<1> USE DEF IoIdle, Alive, config, core, session, worker, stream, botVars
<1>1. ASSUME NEW s \in Sessions, AcceptConnection(s) PROVE TypeOK'
  BY <1>1 DEF AcceptConnection, TypeOK
<1>2. ASSUME NEW s \in Sessions, NEW data \in Chunks(fromBot[s]), Receives(s, data)
      PROVE  fromBot' \in [Sessions -> Seq(BotMessages)]
  <2>1. Rest(fromBot[s], data) \in Seq(BotMessages)
    BY ChunkRest DEF TypeOK
  <2> QED
    BY <1>2, <2>1 DEF Receives, TypeOK
<1>3. ASSUME NEW s \in Sessions, NEW data \in Chunks(fromBot[s]),
             HandleInitRequest(s, data)
      PROVE  TypeOK'
  BY <1>2, <1>3, InitReceived DEF HandleInitRequest, TypeOK
<1>4. ASSUME NEW s \in Sessions, NEW data \in Chunks(fromBot[s]),
             RefuseInitRequest(s, data)
      PROVE  TypeOK'
  BY <1>2, <1>4, InitReceived, BeginStopType DEF RefuseInitRequest, TypeOK
<1>5. ASSUME NEW s \in Sessions, NEW data \in Chunks(fromBot[s]),
             HandleIrcMessage(s, data)
      PROVE  TypeOK'
  BY <1>2, <1>5 DEF HandleIrcMessage, TypeOK
<1>6. ASSUME NEW s \in Sessions, HandleEof(s) PROVE TypeOK'
  BY <1>6 DEF HandleEof, Stopping, TypeOK, IoStates
<1>7. ASSUME NEW s \in Sessions, StopAfterEof(s) PROVE TypeOK'
  BY <1>7, BeginStopType DEF StopAfterEof, TypeOK
<1>8. ASSUME NEW s \in Sessions, HandleTimer(s) PROVE TypeOK'
  BY <1>8, BeginStopType DEF HandleTimer, TypeOK
<1>9. ASSUME NEW s \in Sessions, HandleTimerTooLate(s) \/ TimerExpires(s)
      PROVE TypeOK'
  <2>1. CASE HandleTimerTooLate(s)
    BY <2>1 DEF HandleTimerTooLate, TypeOK
  <2>2. CASE TimerExpires(s)
    BY <2>2 DEF TimerExpires, TypeOK
  <2> QED
    BY <1>9, <2>1, <2>2
<1>10. CASE Route
  BY <1>10 DEF Route, TypeOK
<1>11. CASE ConnectionError
  <2>1. Head(m_plugins) \in Sessions
    BY <1>11 DEF ConnectionError, TypeOK
  <2> QED
    BY <1>11, <2>1, BeginStopType DEF ConnectionError, TypeOK
<1>12. CASE Signal
  <2>1. main' \in MainStates
    BY <1>12 DEF Signal, TypeOK, MainStates
  <2> QED
    BY <1>12, <2>1 DEF Signal, TypeOK
<1>13. CASE StopNext
  <2>1. main \in [pc : {"next"}, at : Nat \ {0}, end : Nat]
                 \cup [pc : {"next"}, s : Sessions, at : Nat \ {0}, end : Nat]
    BY <1>13 DEF StopNext, TypeOK, MainStates
  <2>2. CASE main.at > Len(m_plugins)
    BY <1>13, <2>2 DEF StopNext, TypeOK
  <2>3. CASE ~(main.at > Len(m_plugins))
    <3> DEFINE s == m_plugins[main.at]
    <3>1. main.at \in 1..Len(m_plugins) /\ s \in Sessions
      BY <2>1, <2>3 DEF TypeOK
    <3>2. /\ main' = [pc |-> IF m_running[s] THEN "join" ELSE "next",
                      s |-> s, at |-> main.at + 1, end |-> main.end]
          /\ m_running' = [m_running EXCEPT ![s] = FALSE]
      BY <1>13, <2>3 DEF StopNext
    <3>3. main' \in MainStates
      BY <2>1, <3>1, <3>2 DEF MainStates
    <3> QED
      BY <1>13, <3>1, <3>2, <3>3 DEF StopNext, TypeOK
  <2> QED
    BY <2>2, <2>3
<1>14. CASE CloseServer
  <2>1. PICK late \in SUBSET Sessions :
          main' = [pc |-> "closed", at |-> main.at, end |-> main.end, accepted |-> late]
    BY <1>14 DEF CloseServer
  <2>2. main.at \in Nat \ {0} /\ main.end \in Nat
    BY <1>14 DEF CloseServer, TypeOK, MainStates
  <2>3. main' \in MainStates
    BY <2>1, <2>2 DEF MainStates
  <2> QED
    BY <1>14, <2>3 DEF CloseServer, TypeOK
<1>15. CASE Deinitialize
  <2>1. main' \in MainStates
    BY <1>15 DEF Deinitialize, TypeOK, MainStates
  <2>2. /\ object' \in [Sessions -> {"none", "alive", "destroyed"}]
        /\ m_socket' \in [Sessions -> {"closed", "open"}]
        /\ receive' \in [Sessions -> {"none", "pending", "aborted"}]
    BY <1>15 DEF Deinitialize, TypeOK
  <2>3. m_plugins' \in Seq(Sessions)
    <3>1. m_plugins' = <<>>
      BY <1>15 DEF Deinitialize
    <3> QED
      BY ONLY <3>1
  <2> QED
    BY <1>15, <2>1, <2>2, <2>3 DEF Deinitialize, TypeOK
<1>16. CASE Exit
  <2>1. main' \in MainStates
    BY <1>16 DEF Exit, TypeOK, MainStates
  <2> QED
    BY <1>16, <2>1 DEF Exit, TypeOK
<1>17. ASSUME NEW s \in Sessions, NEW t \in {"io", "main"}, Join(t, s)
       PROVE  TypeOK'
  <2>1. io' \in IoStates /\ main' \in MainStates
    BY <1>17, GotoType DEF Join, At
  <2> QED
    BY <1>17, <2>1 DEF Join, TypeOK
<1>18. ASSUME NEW s \in Sessions, NEW t \in {"io", "main"}, OnShutdown(t, s)
       PROVE  TypeOK'
  <2>1. io' \in IoStates /\ main' \in MainStates
    BY <1>18, GotoType DEF OnShutdown, At
  <2> QED
    BY <1>18, <2>1 DEF OnShutdown, TypeOK
<1>19. ASSUME NEW s \in Sessions, NEW t \in {"io", "main"}, RemovePlugin(t, s)
       PROVE  TypeOK'
  <2>1. io' \in IoStates /\ main' \in MainStates
    BY <1>19, GotoType DEF RemovePlugin, At
  <2>2. m_plugins' \in Seq(Sessions)
    <3>1. VectorInv /\ object[s] = "alive"
      BY <1>19 DEF RemovePlugin, At
    <3>2. PICK k \in 1..Len(m_plugins) : m_plugins[k] = s
      BY <3>1 DEF VectorInv
    <3>3. \A i \in 1..Len(m_plugins) : m_plugins[i] = m_plugins[k] => i = k
      BY <3>1 DEF VectorInv
    <3>4. RemoveFirst(m_plugins, m_plugins[k]) \in Seq(Sessions)
      BY <3>3, Erased DEF TypeOK
    <3> QED
      BY <1>19, <3>2, <3>4 DEF RemovePlugin
  <2> QED
    BY <1>19, <2>1, <2>2 DEF RemovePlugin, TypeOK
<1>20. ASSUME NEW s \in Sessions, NEW t \in {"io", "main"}, UseDestroyed(t, s)
       PROVE  TypeOK'
  <2>1. io' \in IoStates /\ main' \in MainStates
    BY <1>20, GotoType DEF UseDestroyed
  <2> QED
    BY <1>20, <2>1 DEF UseDestroyed, TypeOK
<1>21. ASSUME NEW s \in Sessions, Worker(s) PROVE TypeOK'
  <2>1. CASE RunEntry(s)
    BY <2>1 DEF RunEntry, TypeOK
  <2>2. CASE OnMessage(s)
    BY <2>2 DEF OnMessage, LoopCheck, TypeOK
  <2>3. CASE WaitTimeout(s)
    BY <2>3 DEF WaitTimeout, LoopCheck, TypeOK
  <2> QED
    BY <1>21, <2>1, <2>2, <2>3 DEF Worker
<1>22. ASSUME NEW s \in Sessions, NEW token \in Tokens, BotStart(s, token)
       PROVE TypeOK'
  <2>1. InitRequest(token) \in BotMessages
    BY DEF BotMessages
  <2> QED
    BY <1>22, <2>1 DEF BotStart, TypeOK
<1>23. ASSUME NEW s \in Sessions, BotSend(s) PROVE TypeOK'
  <2>1. replies + 1 \in Nat /\ IrcMessage(replies + 1) \in BotMessages
    BY DEF BotMessages, TypeOK
  <2> QED
    BY <1>23, <2>1 DEF BotSend, TypeOK
<1>24. ASSUME NEW s \in Sessions, BotStop(s) \/ BotReceives(s) PROVE TypeOK'
  <2>1. CASE BotStop(s)
    BY <2>1 DEF BotStop, TypeOK
  <2>2. CASE BotReceives(s)
    BY <2>2 DEF BotReceives, BotReceive, TypeOK
  <2> QED
    BY <1>24, <2>1, <2>2
<1>25. CASE UNCHANGED vars
  BY <1>25 DEF vars, TypeOK
<1>26. ASSUME NEW s \in Sessions, AcceptReset(s) PROVE TypeOK'
  BY <1>26 DEF AcceptReset, TypeOK
<1>27. ASSUME NEW s \in Sessions, NEW data \in Chunks(fromBot[s]), TokenUnset(s, data)
       PROVE  TypeOK'
  BY <1>2, <1>27, InitReceived DEF TokenUnset, TypeOK
<1> QED
  BY <1>1, <1>3, <1>4, <1>5, <1>6, <1>7, <1>8, <1>9, <1>10, <1>11, <1>12, <1>13,
     <1>14, <1>15, <1>16, <1>17, <1>18, <1>19, <1>20, <1>21, <1>22, <1>23, <1>24,
     <1>25, <1>26, <1>27 DEF Next, Main, Handler, Stop, BotStep

-----------------------------------------------------------------------------
(* Sessions *)

LEMMA CleanInit == Init => CleanInv
<1> SUFFICES ASSUME Init PROVE CleanInv
  OBVIOUS
<1>1. TypeOK
  BY TypeInit
<1>2. Len(m_plugins) = 0
  BY DEF Init
<1> QED
  BY <1>1, <1>2 DEF Init, CleanInv, VectorInv, SessionInv

\* A process that has terminated does not run again.
LEMMA StillAlive ==
  ASSUME [Next]_vars, fatal' = "no"
  PROVE  fatal = "no"
<1> USE DEF IoIdle, Alive, At
<1>1. ASSUME NEW s \in Sessions, NEW t \in {"io", "main"}, Stop(t, s)
      PROVE  fatal = "no"
  BY <1>1 DEF Stop, Join, OnShutdown, RemovePlugin, UseDestroyed
<1>2. ASSUME NEW s \in Sessions, Handler(s) \/ TimerExpires(s) \/ Worker(s)
      PROVE  fatal = "no"
  BY <1>2, InitReceived DEF Handler, Accepted, AcceptConnection, AcceptReset, Receives,
     HandleIrcMessage, HandleEof, StopAfterEof, HandleTimer, HandleTimerTooLate,
     TimerExpires, Worker, RunEntry, OnMessage, WaitTimeout
<1>3. ASSUME NEW s \in Sessions, BotStep(s) \/ BotReceives(s)
      PROVE  fatal = "no"
  BY <1>3 DEF BotStep, BotSend, BotStop, BotStart, BotReceives, BotReceive
<1>4. ASSUME \/ Route \/ ConnectionError \/ Signal \/ StopNext \/ CloseServer
             \/ Deinitialize \/ Exit \/ UNCHANGED vars
      PROVE  fatal = "no"
  BY <1>4 DEF Route, ConnectionError, Signal, StopNext, CloseServer, Deinitialize,
     Exit, vars
<1> QED
  BY <1>1, <1>2, <1>3, <1>4 DEF Next, Main

\* The vector changes with the objects.
LEMMA VectorStep ==
  ASSUME TypeOK, VectorInv, fatal = "no", [Next]_vars
  PROVE  VectorInv'
<1> USE DEF IoIdle, Alive, config, core, session, worker, stream, botVars
<1>1. ASSUME NEW s \in Sessions, AcceptConnection(s) PROVE VectorInv'
  <2>1. /\ object[s] = "none" /\ object' = [object EXCEPT ![s] = "alive"]
        /\ m_plugins' = Append(m_plugins, s)
    BY <1>1 DEF AcceptConnection, Accepted
  <2>2. /\ Len(m_plugins') = Len(m_plugins) + 1 /\ Len(m_plugins) \in Nat
        /\ m_plugins'[Len(m_plugins) + 1] = s
        /\ \A i \in 1..Len(m_plugins) : m_plugins'[i] = m_plugins[i]
    BY <2>1 DEF TypeOK
  <2>3. \A i \in 1..Len(m_plugins) : m_plugins[i] # s /\ m_plugins[i] \in Sessions
    BY <2>1 DEF VectorInv, TypeOK
  <2>4. \A i \in 1..Len(m_plugins') :
          i \in 1..Len(m_plugins) \/ i = Len(m_plugins) + 1
    BY <2>2
  <2>5. Len(m_plugins) + 1 \in 1..Len(m_plugins')
        /\ \A i \in 1..Len(m_plugins) : i \in 1..Len(m_plugins')
    BY <2>2
  <2>6. \A i, j \in 1..Len(m_plugins') : m_plugins'[i] = m_plugins'[j] => i = j
    BY <2>2, <2>3, <2>4 DEF VectorInv
  <2>7. \A i \in 1..Len(m_plugins') : object'[m_plugins'[i]] = "alive"
    BY <2>1, <2>2, <2>3, <2>4 DEF VectorInv, TypeOK
  <2>8. ASSUME NEW r \in Sessions, object'[r] = "alive"
        PROVE  \E i \in 1..Len(m_plugins') : m_plugins'[i] = r
    <3>1. CASE r = s
      BY <2>2, <2>5, <3>1
    <3>2. CASE r # s
      <4>1. object[r] = "alive"
        BY <2>1, <2>8, <3>2 DEF TypeOK
      <4> QED
        BY <2>2, <2>5, <4>1 DEF VectorInv
    <3> QED
      BY <3>1, <3>2
  <2> QED
    BY <2>6, <2>7, <2>8 DEF VectorInv
<1>2. ASSUME NEW s \in Sessions, NEW t \in {"io", "main"}, RemovePlugin(t, s)
      PROVE  VectorInv'
  <2>1. /\ object[s] = "alive" /\ object' = [object EXCEPT ![s] = "destroyed"]
        /\ m_plugins' = RemoveFirst(m_plugins, s)
    BY <1>2 DEF RemovePlugin, At
  <2>2. PICK k \in 1..Len(m_plugins) : m_plugins[k] = s
    BY <2>1 DEF VectorInv
  <2> DEFINE before(i) == IF i < k THEN i ELSE i + 1
  <2>3. /\ Len(m_plugins') = Len(m_plugins) - 1 /\ Len(m_plugins) \in Nat
        /\ \A i \in 1..Len(m_plugins') : m_plugins'[i] = m_plugins[before(i)]
    <3>1. \A i \in 1..Len(m_plugins) : m_plugins[i] = m_plugins[k] => i = k
      BY DEF VectorInv
    <3> QED
      <4>1. /\ Len(RemoveFirst(m_plugins, m_plugins[k])) = Len(m_plugins) - 1
            /\ \A i \in 1..(Len(m_plugins) - 1) :
                 RemoveFirst(m_plugins, m_plugins[k])[i]
                   = IF i < k THEN m_plugins[i] ELSE m_plugins[i + 1]
        <5>1. m_plugins \in Seq(Sessions) /\ k \in 1..Len(m_plugins)
          BY DEF TypeOK
        <5> QED
          BY ONLY <3>1, <5>1, Erased, Zenon
      <4>2. Len(m_plugins) \in Nat
        BY DEF TypeOK
      <4> QED
        BY ONLY <2>1, <2>2, <4>1, <4>2
  <2>4. \A i \in 1..Len(m_plugins') :
          before(i) \in 1..Len(m_plugins) /\ before(i) # k
    BY <2>3
  <2>5. \A i, j \in 1..Len(m_plugins') : before(i) = before(j) => i = j
    BY <2>3
  <2>6. \A j \in 1..Len(m_plugins) :
          j # k => \E i \in 1..Len(m_plugins') : before(i) = j
    <3> SUFFICES ASSUME NEW j \in 1..Len(m_plugins), j # k
                 PROVE  \E i \in 1..Len(m_plugins') : before(i) = j
      OBVIOUS
    <3> DEFINE i == IF j < k THEN j ELSE j - 1
    <3>1. i \in 1..Len(m_plugins') /\ before(i) = j
      BY <2>3
    <3> QED
      BY <3>1
  <2> HIDE DEF before
  <2>7. \A i, j \in 1..Len(m_plugins') : m_plugins'[i] = m_plugins'[j] => i = j
    BY <2>3, <2>4, <2>5 DEF VectorInv
  <2>8. \A i \in 1..Len(m_plugins') : object'[m_plugins'[i]] = "alive"
    <3> SUFFICES ASSUME NEW i \in 1..Len(m_plugins')
                 PROVE  object'[m_plugins'[i]] = "alive"
      OBVIOUS
    <3>1. m_plugins[before(i)] # s /\ object[m_plugins[before(i)]] = "alive"
      BY <2>2, <2>4 DEF VectorInv
    <3>2. m_plugins[before(i)] \in Sessions
      BY <2>4 DEF TypeOK
    <3> QED
      BY <2>1, <2>3, <3>1, <3>2 DEF TypeOK
  <2>9. ASSUME NEW r \in Sessions, object'[r] = "alive"
        PROVE  \E i \in 1..Len(m_plugins') : m_plugins'[i] = r
    <3>1. r # s /\ object[r] = "alive"
      BY <2>1, <2>9 DEF TypeOK
    <3>2. PICK j \in 1..Len(m_plugins) : m_plugins[j] = r
      BY <3>1 DEF VectorInv
    <3> QED
      BY <2>2, <2>3, <2>6, <3>1, <3>2
  <2> QED
    BY <2>7, <2>8, <2>9 DEF VectorInv
<1>3. CASE Deinitialize
  <2>1. m_plugins' = <<>> /\ \A s \in Sessions : object'[s] # "alive"
    BY <1>3 DEF Deinitialize
  <2>2. 1..Len(m_plugins') = {}
    BY <2>1
  <2> QED
    BY <2>1, <2>2 DEF VectorInv
<1>4. ASSUME UNCHANGED <<m_plugins, object>> PROVE VectorInv'
  BY <1>4 DEF VectorInv
<1>5. ASSUME NEW s \in Sessions, Handler(s), ~AcceptConnection(s)
      PROVE  UNCHANGED <<m_plugins, object>>
  BY <1>5 DEF Handler, AcceptReset, TokenUnset, HandleInitRequest, RefuseInitRequest,
     HandleIrcMessage, HandleEof, StopAfterEof, HandleTimer, HandleTimerTooLate
<1>6. ASSUME NEW s \in Sessions, NEW t \in {"io", "main"}, Stop(t, s),
             ~RemovePlugin(t, s)
      PROVE  UNCHANGED <<m_plugins, object>>
  BY <1>6 DEF Stop, Join, OnShutdown, UseDestroyed
<1>7. ASSUME NEW s \in Sessions,
             TimerExpires(s) \/ Worker(s) \/ BotStep(s) \/ BotReceives(s)
      PROVE  UNCHANGED <<m_plugins, object>>
  BY <1>7 DEF TimerExpires, Worker, RunEntry, OnMessage, WaitTimeout, BotStep,
     BotSend, BotStop, BotStart, BotReceives, BotReceive
<1>8. ASSUME \/ Route \/ ConnectionError \/ Signal \/ StopNext \/ CloseServer
             \/ Exit \/ UNCHANGED vars
      PROVE  UNCHANGED <<m_plugins, object>>
  BY <1>8 DEF Route, ConnectionError, Signal, StopNext, CloseServer, Exit, vars
<1> QED
  BY <1>1, <1>2, <1>3, <1>4, <1>5, <1>6, <1>7, <1>8 DEF Next, Main

\* Every step that the process survives keeps the sessions in order.
LEMMA SessionStep ==
  ASSUME TypeOK, VectorInv, SessionInv, fatal = "no", fatal' = "no", [Next]_vars
  PROVE  SessionInv'
<1> USE DEF IoIdle, Alive, config, core, session, worker, stream, botVars, TypeOK
<1>1. ASSUME NEW s \in Sessions, AcceptConnection(s) PROVE SessionInv'
  BY <1>1 DEF AcceptConnection, Accepted, SessionInv
<1>2. ASSUME NEW s \in Sessions, NEW data, HandleInitRequest(s, data)
      PROVE  SessionInv'
  <2>1. receive[s] = "pending"
    BY <1>2, InitReceived DEF Receives
  <2> QED
    BY <1>2, <2>1 DEF HandleInitRequest, SessionInv
<1>3. ASSUME NEW s \in Sessions, NEW data, RefuseInitRequest(s, data)
      PROVE  SessionInv'
  <2>1. receive[s] = "pending"
    BY <1>3, InitReceived DEF Receives
  <2> QED
    BY <1>3, <2>1 DEF RefuseInitRequest, BeginStop, SessionInv
<1>4. ASSUME NEW s \in Sessions, HandleEof(s) PROVE SessionInv'
  BY <1>4 DEF HandleEof, SessionInv
<1>5. ASSUME NEW s \in Sessions, StopAfterEof(s) \/ HandleTimer(s)
      PROVE  SessionInv'
  <2>1. /\ object[s] = "alive" /\ m_running' = [m_running EXCEPT ![s] = FALSE]
        /\ UNCHANGED <<object, m_socket, receive, m_ready_for_shutdown, m_thread>>
    BY <1>5 DEF StopAfterEof, HandleTimer, BeginStop
  <2> QED
    BY <2>1 DEF SessionInv
<1>6. CASE ConnectionError
  <2>1. Head(m_plugins) \in Sessions /\ object[Head(m_plugins)] = "alive"
    BY <1>6 DEF ConnectionError, VectorInv
  <2> QED
    BY <1>6, <2>1 DEF ConnectionError, BeginStop, SessionInv
<1>7. CASE StopNext
  <2>1. CASE main.at > Len(m_plugins)
    BY <1>7, <2>1 DEF StopNext
  <2>2. CASE ~(main.at > Len(m_plugins))
    <3>1. main.at \in 1..Len(m_plugins)
      BY <1>7, <2>2 DEF StopNext, MainStates
    <3>2. object[m_plugins[main.at]] = "alive"
      BY <3>1 DEF VectorInv
    <3>3. /\ m_running' = [m_running EXCEPT ![m_plugins[main.at]] = FALSE]
          /\ UNCHANGED <<object, m_socket, receive, m_ready_for_shutdown, m_thread>>
      BY <1>7, <2>2 DEF StopNext, session
    <3> QED
      BY ONLY <3>2, <3>3, SessionInv DEF SessionInv
  <2> QED
    BY <2>1, <2>2
<1>8. ASSUME NEW s \in Sessions, NEW t \in {"io", "main"}, Join(t, s)
      PROVE  SessionInv'
  BY <1>8 DEF Join, SessionInv
<1>9. ASSUME NEW s \in Sessions, NEW t \in {"io", "main"}, RemovePlugin(t, s)
      PROVE  SessionInv'
  <2>1. m_thread[s] = "none" /\ receive[s] = "none"
    BY <1>9 DEF RemovePlugin, SessionInv
  <2> QED
    BY <1>9, <2>1 DEF RemovePlugin, SessionInv
<1>10. CASE Deinitialize
  <2>1. \A s \in Sessions : object[s] = "alive" => m_thread[s] = "none"
    BY <1>10 DEF Deinitialize
  <2> QED
    BY <1>10, <2>1 DEF Deinitialize, SessionInv
<1>11. ASSUME NEW s \in Sessions, Worker(s) PROVE SessionInv'
  <2>1. /\ m_thread[s] # "none"
        /\ \A r \in Sessions : r # s => m_thread'[r] = m_thread[r]
        /\ \A r \in Sessions : m_running[r] => m_running'[r]
        /\ UNCHANGED <<object, m_socket, receive, m_ready_for_shutdown>>
    <3>1. CASE RunEntry(s)
      BY <3>1 DEF RunEntry
    <3>2. CASE OnMessage(s)
      BY <3>2 DEF OnMessage, LoopCheck
    <3>3. CASE WaitTimeout(s)
      BY <3>3 DEF WaitTimeout, LoopCheck
    <3> QED
      BY <1>11, <3>1, <3>2, <3>3 DEF Worker
  <2> QED
    BY <2>1 DEF SessionInv
<1>12. ASSUME UNCHANGED <<object, m_socket, receive, m_ready_for_shutdown,
                          m_running, m_thread>>
       PROVE  SessionInv'
  BY <1>12 DEF SessionInv
<1>13. ASSUME NEW s \in Sessions,
              \/ HandleTimerTooLate(s) \/ TimerExpires(s) \/ BotStep(s)
              \/ BotReceives(s) \/ \E data : HandleIrcMessage(s, data)
              \/ \E t \in {"io", "main"} : OnShutdown(t, s) \/ UseDestroyed(t, s)
       PROVE  SessionInv'
  BY <1>12, <1>13 DEF HandleTimerTooLate, TimerExpires, BotStep, BotSend, BotStop,
     BotStart, BotReceives, BotReceive, HandleIrcMessage, OnShutdown, UseDestroyed
<1>14. ASSUME Route \/ Signal \/ CloseServer \/ Exit \/ UNCHANGED vars
       PROVE  SessionInv'
  BY <1>12, <1>14 DEF Route, Signal, CloseServer, Exit, vars
<1> QED
  BY <1>1, <1>2, <1>3, <1>4, <1>5, <1>6, <1>7, <1>8, <1>9, <1>10, <1>11, <1>13,
     <1>14 DEF Next, Main, Handler, AcceptReset, TokenUnset, Stop

\* The three parts together.
LEMMA CleanStep == CleanInv /\ [Next]_vars => CleanInv'
BY TypeStep, StillAlive, VectorStep, SessionStep DEF CleanInv

\* Plugins that are removed leave nothing behind.
THEOREM RemovedCleanCorrect == Spec => []RemovedClean
<1>1. CleanInv => RemovedClean
  <2> SUFFICES ASSUME CleanInv, fatal = "no" PROVE RemovedClean
    BY DEF RemovedClean
  <2> DEFINE alive == {s \in Sessions : object[s] = "alive"}
             n == Len(m_plugins)
  <2>1. {m_plugins[i] : i \in 1..n} = alive
    <3>1. \A i \in 1..n : m_plugins[i] \in Sessions
      BY DEF CleanInv, TypeOK
    <3> QED
      BY <3>1 DEF CleanInv, VectorInv
  <2>2. n = Cardinality(alive)
    <3> DEFINE f == [i \in 1..n |-> m_plugins[i]]
    <3>1. n \in Nat
      BY DEF CleanInv, TypeOK
    <3>2. f \in Bijection(1..n, alive)
      BY <2>1 DEF CleanInv, VectorInv, Bijection, Injection, Surjection, IsInjective
    <3>3. ExistsBijection(1..n, alive)
      BY <3>2 DEF ExistsBijection
    <3> HIDE DEF n
    <3>4. /\ IsFiniteSet(1..n)
          /\ Cardinality(1..n) = IF 1 > n THEN 0 ELSE n - 1 + 1
      BY <3>1, FS_Interval
    <3>5. Cardinality(1..n) = n
      BY <3>1, <3>4
    <3> QED
      BY <3>3, <3>4, <3>5, FS_Bijection
  <2> QED
    BY <2>1, <2>2 DEF RemovedClean, CleanInv, SessionInv
<1> QED
  BY <1>1, CleanInit, CleanStep, PTL DEF Spec

-----------------------------------------------------------------------------
(* What one receive is parsed to *)

\* Induction over the natural numbers, as the least counterexample: m < n if
\* 1..m is a proper subset of 1..n, which is well-founded on finite sets.
LEMMA LeastNat ==
  ASSUME NEW T, T \subseteq Nat, T # {}
  PROVE  \E n \in T : \A k \in T : n <= k
<1> DEFINE U == {1..k : k \in T}
<1>1. U \subseteq FiniteSubsetsOf(Nat)
  <2> SUFFICES ASSUME NEW k \in T PROVE 1..k \in FiniteSubsetsOf(Nat)
    OBVIOUS
  <2>1. IsFiniteSet(1..k)
    BY FS_Interval
  <2>2. 1..k \in SUBSET Nat
    OBVIOUS
  <2> QED
    BY <2>1, <2>2 DEF FiniteSubsetsOf
<1>2. U # {}
  OBVIOUS
<1>3. IsWellFoundedOn(StrictSubsetOrdering(Nat), FiniteSubsetsOf(Nat))
  BY FS_StrictSubsetOrderingWellFounded
<1> HIDE DEF U
<1>4. PICK x \in U : \A y \in U : ~(<<y, x>> \in StrictSubsetOrdering(Nat))
  BY <1>1, <1>2, <1>3, WFMin
<1> USE DEF U
<1>5. PICK n \in T : x = 1..n
  OBVIOUS
<1>6. ASSUME NEW k \in T, k < n PROVE FALSE
  <2>1. 1..k \in SUBSET Nat /\ 1..n \in SUBSET Nat /\ 1..k \subseteq 1..n
    BY <1>6
  <2>2. n \in 1..n /\ n \notin 1..k
    BY <1>6
  <2>3. <<1..k, 1..n>> \in StrictSubsetOrdering(Nat)
    BY <2>1, <2>2 DEF StrictSubsetOrdering
  <2> QED
    BY <2>3, <1>4, <1>5
<1> QED
  BY <1>6

\* What merging the messages of one receive one by one has come to.
Merging(f, data, n) ==
  f = [k \in 1..n |-> IF k = 1 THEN data[1] ELSE Merge(f[k - 1], data[k])]

LEMMA MergingExists ==
  ASSUME NEW data, NEW n \in Nat
  PROVE  \E f : Merging(f, data, n)
<1> DEFINE T == {k \in Nat : ~\E f : Merging(f, data, k)}
<1> SUFFICES ASSUME T # {} PROVE FALSE
  OBVIOUS
<1>1. PICK k \in T : \A j \in T : k <= j
  BY LeastNat
<1>2. CASE k = 0
  <2> DEFINE f == [i \in 1..0 |-> data[1]]
  <2>1. Merging(f, data, 0)
    BY DEF Merging
  <2> QED
    BY <1>2, <2>1
<1>3. CASE k # 0
  <2>1. k - 1 \in Nat /\ k - 1 \notin T
    BY <1>1, <1>3
  <2>2. PICK f : Merging(f, data, k - 1)
    BY <2>1
  <2> DEFINE g == [i \in 1..k |-> IF i = 1 THEN data[1] ELSE Merge(f[i - 1], data[i])]
  <2>3. \A i \in 1..(k - 1) : g[i] = f[i]
    BY <1>3, <2>1, <2>2 DEF Merging
  <2>4. Merging(g, data, k)
    <3>1. \A i \in 1..k : i # 1 => i - 1 \in 1..(k - 1)
      BY <1>3, <2>1
    <3> QED
      BY <2>3, <3>1 DEF Merging
  <2> QED
    BY <2>4
<1> QED
  BY <1>2, <1>3

LEMMA Parsed ==
  ASSUME NEW data, Len(data) \in Nat \ {0}
  PROVE  \E f : Merging(f, data, Len(data)) /\ ParseFromString(data) = f[Len(data)]
<1> DEFINE f == CHOOSE f : Merging(f, data, Len(data))
<1>1. Merging(f, data, Len(data))
  BY MergingExists
<1>2. ParseFromString(data) = f[Len(data)]
  BY DEF ParseFromString, Merging
<1> QED
  BY <1>1, <1>2

\* What travels in either direction.
Messages ==
  {InitRequest(token) : token \in Tokens} \cup {InitResponse(r) : r \in {"OK", "ERROR"}}
    \cup {IrcMessage(n) : n \in Nat} \cup {BareInitRequest, ShutdownRequest}

IsIrc(m) == m.type = "IRC_MESSAGE"
Number(m) == m.params[1]

LEMMA MessageKinds ==
  ASSUME NEW m \in Messages
  PROVE  /\ IsIrc(m) => m = IrcMessage(Number(m)) /\ Number(m) \in Nat
         /\ ~IsIrc(m) => m.oneof # "irc_msg"
<1>1. CASE \E n \in Nat : m = IrcMessage(n)
  BY <1>1 DEF IrcMessage, Message, IsIrc, Number
<1>2. CASE \E token \in Tokens : m = InitRequest(token)
  BY <1>2 DEF InitRequest, Message, IsIrc
<1>3. CASE \E r \in {"OK", "ERROR"} : m = InitResponse(r)
  BY <1>3 DEF InitResponse, Message, IsIrc
<1>4. CASE m \in {BareInitRequest, ShutdownRequest}
  BY <1>4 DEF BareInitRequest, ShutdownRequest, Message, IsIrc
<1> QED
  BY <1>1, <1>2, <1>3, <1>4 DEF Messages

\* The numbers of the messages in a stream increase.
Ascending(wire) ==
  \A i, j \in 1..Len(wire) :
    i < j /\ IsIrc(wire[i]) /\ IsIrc(wire[j]) => Number(wire[i]) < Number(wire[j])

\* m is what the first k messages of a receive merge to.
MergedOf(m, data, k) ==
  /\ m.type = data[k].type
  /\ IsIrc(data[k]) => m.oneof = "irc_msg"
  /\ m.oneof = "irc_msg" =>
       /\ m.params \in Seq(Nat) /\ m.params # <<>>
       /\ \A a, b \in 1..Len(m.params) : a < b => m.params[a] < m.params[b]
       /\ \A a \in 1..Len(m.params) :
            \E i \in 1..k : IsIrc(data[i]) /\ m.params[a] = Number(data[i])

LEMMA MergeStep ==
  ASSUME NEW data \in Seq(Messages), Ascending(data),
         NEW k \in 1..Len(data), k + 1 <= Len(data),
         NEW m, MergedOf(m, data, k)
  PROVE  MergedOf(Merge(m, data[k + 1]), data, k + 1)
<1> DEFINE b == data[k + 1]
           r == Merge(m, b)
<1> SUFFICES MergedOf(r, data, k + 1)
  OBVIOUS
<1>1. b \in Messages /\ k + 1 \in 1..Len(data) /\ 1..k \subseteq 1..(k + 1)
  OBVIOUS
<1>2. r.type = b.type
  BY DEF Merge, Message
<1>3. CASE ~IsIrc(b)
  <2>1. b.oneof # "irc_msg"
    BY <1>1, <1>3, MessageKinds
  <2>2. r.oneof = "irc_msg" => m.oneof = "irc_msg" /\ r.params = m.params
    BY <2>1 DEF Merge, Message
  <2> HIDE DEF r
  <2> QED
    BY <1>1, <1>2, <1>3, <2>2 DEF MergedOf
<1>4. CASE IsIrc(b)
  <2> DEFINE n == Number(b)
  <2>1. b = IrcMessage(n) /\ n \in Nat
    BY <1>1, <1>4, MessageKinds
  <2>2. b.oneof = "irc_msg" /\ b.params = <<n>>
    BY <2>1 DEF IrcMessage, Message
  <2>3. r.oneof = "irc_msg"
    BY <2>2 DEF Merge, Message
  <2>4. CASE m.oneof # "irc_msg"
    <3>1. r.params = <<n>>
      BY <2>2, <2>4 DEF Merge, Message
    <3> HIDE DEF r, n
    <3>2. r.params \in Seq(Nat) /\ r.params # <<>> /\ Len(r.params) = 1 /\ r.params[1] = n
      BY <2>1, <3>1
    <3> QED
      BY <1>1, <1>2, <1>4, <2>3, <3>2 DEF MergedOf, n
  <2>5. CASE m.oneof = "irc_msg"
    <3>1. r.params = m.params \o <<n>>
      BY <2>2, <2>5 DEF Merge, Message
    <3>2. /\ m.params \in Seq(Nat) /\ m.params # <<>>
          /\ \A x, y \in 1..Len(m.params) : x < y => m.params[x] < m.params[y]
          /\ \A x \in 1..Len(m.params) :
               \E i \in 1..k : IsIrc(data[i]) /\ m.params[x] = Number(data[i])
      BY <2>5 DEF MergedOf
    <3>3. \A x \in 1..Len(m.params) : m.params[x] < n
      <4> SUFFICES ASSUME NEW x \in 1..Len(m.params) PROVE m.params[x] < n
        OBVIOUS
      <4>1. PICK i \in 1..k : IsIrc(data[i]) /\ m.params[x] = Number(data[i])
        BY <3>2
      <4>2. i \in 1..Len(data) /\ i < k + 1
        OBVIOUS
      <4> QED
        BY <1>1, <1>4, <4>1, <4>2 DEF Ascending
    <3> HIDE DEF r, n
    <3>4. /\ r.params \in Seq(Nat) /\ r.params # <<>>
          /\ Len(r.params) = Len(m.params) + 1 /\ r.params[Len(m.params) + 1] = n
          /\ \A x \in 1..Len(m.params) : r.params[x] = m.params[x]
      BY <2>1, <3>1, <3>2
    <3>5. Len(m.params) \in Nat
      BY <3>2
    <3>6. \A x, y \in 1..Len(r.params) : x < y => r.params[x] < r.params[y]
      <4> SUFFICES ASSUME NEW x \in 1..Len(r.params), NEW y \in 1..Len(r.params), x < y
                   PROVE  r.params[x] < r.params[y]
        OBVIOUS
      <4>0. Len(r.params) = Len(m.params) + 1
        BY <3>4
      <4>1. x \in 1..Len(m.params) /\ (y \in 1..Len(m.params) \/ y = Len(m.params) + 1)
        BY <3>5, <4>0
      <4> QED
        BY <3>2, <3>3, <3>4, <4>1
    <3>7. \A x \in 1..Len(r.params) :
            \E i \in 1..(k + 1) : IsIrc(data[i]) /\ r.params[x] = Number(data[i])
      <4> SUFFICES ASSUME NEW x \in 1..Len(r.params)
                   PROVE  \E i \in 1..(k + 1) :
                            IsIrc(data[i]) /\ r.params[x] = Number(data[i])
        OBVIOUS
      <4>1. CASE x \in 1..Len(m.params)
        BY <1>1, <3>2, <3>4, <4>1
      <4>2. CASE x = Len(m.params) + 1
        BY <1>1, <1>4, <3>4, <4>2 DEF n
      <4> QED
        BY <3>4, <3>5, <4>1, <4>2
    <3> QED
      BY <1>2, <2>3, <3>4, <3>6, <3>7 DEF MergedOf
  <2> QED
    BY <2>4, <2>5
<1> QED
  BY <1>3, <1>4

\* What one receive is parsed to.
LEMMA ParseMerges ==
  ASSUME NEW data \in Seq(Messages), data # <<>>
  PROVE  /\ ParseFromString(data).type = data[Len(data)].type
         /\ Ascending(data) => MergedOf(ParseFromString(data), data, Len(data))
<1> DEFINE n == Len(data)
<1>1. n \in Nat \ {0}
  OBVIOUS
<1>2. PICK f : Merging(f, data, n) /\ ParseFromString(data) = f[n]
  BY <1>1, Parsed
<1>3. f[1] = data[1] /\ \A k \in 2..n : f[k] = Merge(f[k - 1], data[k])
  <2> HIDE DEF n
  <2>1. 1 \in 1..n /\ \A k \in 2..n : k \in 1..n /\ k # 1
    BY <1>1
  <2> QED
    BY <1>1, <1>2, <2>1 DEF Merging
<1>4. f[n].type = data[n].type
  <2>1. CASE n = 1
    BY <1>3, <2>1
  <2>2. CASE n # 1
    <3>1. f[n] = Merge(f[n - 1], data[n])
      <4> HIDE DEF n
      <4> QED
        BY <1>1, <1>3, <2>2
    <3> QED
      BY <3>1 DEF Merge, Message
  <2> QED
    BY <2>1, <2>2
<1>5. ASSUME Ascending(data) PROVE MergedOf(f[n], data, n)
  <2> DEFINE T == {k \in 1..n : ~MergedOf(f[k], data, k)}
  <2> SUFFICES ASSUME T # {} PROVE FALSE
    BY <1>1
  <2>1. PICK k \in T : \A j \in T : k <= j
    <3>1. T \subseteq Nat
      OBVIOUS
    <3> HIDE DEF T
    <3> QED
      BY <3>1, LeastNat
  <2>2. CASE k = 1
    <3>1. data[1] \in Messages /\ 1 \in 1..1
      BY <1>1
    <3>2. MergedOf(data[1], data, 1)
      <4>1. CASE IsIrc(data[1])
        <5> DEFINE x == Number(data[1])
        <5>1. data[1] = IrcMessage(x) /\ x \in Nat
          BY <3>1, <4>1, MessageKinds
        <5>2. data[1].oneof = "irc_msg" /\ data[1].params = <<x>>
          BY <5>1 DEF IrcMessage, Message
        <5>3. /\ data[1].params \in Seq(Nat) /\ data[1].params # <<>>
              /\ Len(data[1].params) = 1 /\ data[1].params[1] = x
          <6> HIDE DEF x
          <6> QED
            BY <5>1, <5>2
        <5> QED
          BY <3>1, <4>1, <5>2, <5>3 DEF MergedOf
      <4>2. CASE ~IsIrc(data[1])
        BY <3>1, <4>2, MessageKinds DEF MergedOf
      <4> QED
        BY <4>1, <4>2
    <3> QED
      BY <1>3, <2>2, <3>2
  <2>3. CASE k # 1
    <3>1. k \in 2..n /\ k - 1 \in 1..n /\ k - 1 \notin T /\ (k - 1) + 1 = k
      BY <1>1, <2>1, <2>3
    <3>2. MergedOf(f[k - 1], data, k - 1)
      BY <3>1
    <3>3. MergedOf(Merge(f[k - 1], data[k]), data, k)
      BY <1>5, <3>1, <3>2, MergeStep
    <3> QED
      BY <1>3, <3>1, <3>3
  <2> QED
    BY <2>2, <2>3
<1> QED
  BY <1>2, <1>4, <1>5

-----------------------------------------------------------------------------
(* The stream from a plugin *)

\* A message that is taken for INIT_REQUEST was the only one of its receive, and
\* no worker has been spawned.  Whatever is received, no INIT_REQUEST remains.
LEMMA InitRequestFirst ==
  ASSUME TypeOK, StreamInv, NEW s \in Sessions, NEW data \in Chunks(fromBot[s])
  PROVE  /\ ParseFromString(data).type = "INIT_REQUEST" => m_thread[s] = "none"
         /\ \A i \in 1..Len(Rest(fromBot[s], data)) :
              Rest(fromBot[s], data)[i].type # "INIT_REQUEST"
<1> DEFINE n == Len(data)
           rest == Rest(fromBot[s], data)
<1>1. fromBot[s] \in Seq(BotMessages) /\ Len(fromBot[s]) \in Nat
  BY DEF TypeOK
<1>2. /\ n \in 1..Len(fromBot[s]) /\ data[n] = fromBot[s][n]
      /\ Len(rest) = Len(fromBot[s]) - n
      /\ \A i \in 1..Len(rest) : rest[i] = fromBot[s][n + i]
  <2>1. /\ n \in 1..Len(fromBot[s]) /\ \A i \in 1..n : data[i] = fromBot[s][i]
        /\ Len(rest) = Len(fromBot[s]) - n
        /\ \A i \in 1..Len(rest) : rest[i] = fromBot[s][n + i]
    <3>1. \A wire \in Seq(BotMessages) : \A chunk \in Chunks(wire) :
            /\ Len(chunk) \in 1..Len(wire)
            /\ \A i \in 1..Len(chunk) : chunk[i] = wire[i]
            /\ Len(Rest(wire, chunk)) = Len(wire) - Len(chunk)
            /\ \A i \in 1..Len(Rest(wire, chunk)) :
                 Rest(wire, chunk)[i] = wire[Len(chunk) + i]
      BY ChunkRest
    <3> QED
      BY <1>1, <3>1
  <2> QED
    BY <1>1, <2>1
<1>3. ParseFromString(data).type = data[n].type
  <2>1. data \in Seq(BotMessages) /\ data # <<>>
    <3>1. data \in Seq(BotMessages) /\ Len(data) \in 1..Len(fromBot[s])
      BY <1>1, ChunkRest
    <3> QED
      BY <3>1
  <2>2. BotMessages \subseteq Messages
    BY DEF BotMessages, Messages
  <2>3. data \in Seq(Messages)
    BY <2>1, <2>2
  <2> QED
    BY <2>1, <2>3, ParseMerges
<1>4. \A i \in 1..Len(rest) : n + i \in 1..Len(fromBot[s]) /\ n + i # 1
  BY <1>1, <1>2
<1> HIDE DEF n, rest
<1>5. \A i \in 1..Len(rest) : rest[i].type # "INIT_REQUEST"
  BY <1>2, <1>4 DEF StreamInv
<1>6. ParseFromString(data).type = "INIT_REQUEST" => m_thread[s] = "none"
  BY <1>2, <1>3 DEF StreamInv
<1> QED
  BY <1>5, <1>6 DEF rest

\* So no worker has been spawned when processInitRequest() is called.
LEMMA NoWorkerYet ==
  ASSUME TypeOK, StreamInv, NEW s \in Sessions, NEW data \in Chunks(fromBot[s]),
         HandleInitRequest(s, data)
  PROVE  m_thread[s] = "none"
<1>1. PICK token \in Tokens : ParseFromString(data) = InitRequest(token)
  BY InitReceived
<1>2. InitRequest(token).type = "INIT_REQUEST"
  BY DEF InitRequest, Message
<1>3. ParseFromString(data).type = "INIT_REQUEST"
  BY <1>1, <1>2
<1> QED
  BY <1>3, InitRequestFirst

LEMMA StreamStep ==
  ASSUME TypeOK, StreamInv, fatal = "no", fatal' = "no", [Next]_vars
  PROVE  StreamInv'
<1> USE DEF config, core, session, worker, stream, botVars
<1>1. ASSUME NEW s \in Sessions, NEW data \in Chunks(fromBot[s]),
             Receives(s, data), bot' = bot,
             \A r \in Sessions : r # s => m_thread'[r] = m_thread[r],
             m_thread'[s] = m_thread[s] \/ m_thread[s] = "none"
      PROVE  StreamInv'
  <2>1. fromBot' = [fromBot EXCEPT ![s] = Rest(@, data)]
    BY <1>1 DEF Receives
  <2>2. bot[s] # "off"
    <3>1. fromBot[s] # <<>>
      BY ChunkRest DEF TypeOK
    <3> QED
      BY <3>1 DEF StreamInv
  <2>3. \A i \in 1..Len(fromBot'[s]) : fromBot'[s][i].type # "INIT_REQUEST"
    BY <2>1, InitRequestFirst DEF TypeOK
  <2>4. \A r \in Sessions : r # s => fromBot'[r] = fromBot[r]
    BY <2>1 DEF TypeOK
  <2> QED
    BY <1>1, <2>2, <2>3, <2>4 DEF StreamInv
<1>2. ASSUME NEW s \in Sessions, NEW data \in Chunks(fromBot[s]),
             HandleInitRequest(s, data)
      PROVE  StreamInv'
  <2>1. m_thread[s] = "none"
    BY <1>2, NoWorkerYet
  <2>2. /\ Receives(s, data) /\ bot' = bot
        /\ \A r \in Sessions : r # s => m_thread'[r] = m_thread[r]
    BY <1>2, InitReceived DEF HandleInitRequest, TypeOK
  <2> QED
    BY <1>1, <2>1, <2>2
<1>3. ASSUME NEW s \in Sessions, NEW data \in Chunks(fromBot[s]),
             RefuseInitRequest(s, data) \/ HandleIrcMessage(s, data)
      PROVE  StreamInv'
  BY <1>1, <1>3, InitReceived DEF RefuseInitRequest, HandleIrcMessage
<1>4. ASSUME NEW s \in Sessions, NEW token \in Tokens, BotStart(s, token)
      PROVE  StreamInv'
  <2>1. fromBot[s] = <<>> /\ m_thread[s] = "none"
    BY <1>4 DEF BotStart, StreamInv
  <2>2. /\ fromBot'[s] = <<InitRequest(token)>> /\ bot'[s] # "off"
        /\ \A r \in Sessions : r # s => fromBot'[r] = fromBot[r] /\ bot'[r] = bot[r]
        /\ m_thread' = m_thread
    BY <1>4, <2>1 DEF BotStart, TypeOK
  <2>3. \A i \in 1..Len(fromBot'[s]) : i = 1
    BY <2>2
  <2> QED
    BY <2>1, <2>2, <2>3 DEF StreamInv
<1>5. ASSUME NEW s \in Sessions, BotSend(s) PROVE StreamInv'
  <2> DEFINE m == IrcMessage(replies + 1)
  <2>1. /\ fromBot' = [fromBot EXCEPT ![s] = Append(@, m)]
        /\ bot[s] # "off" /\ bot' = bot /\ m_thread' = m_thread
    BY <1>5 DEF BotSend
  <2>2. m.type # "INIT_REQUEST"
    BY DEF IrcMessage, Message
  <2> HIDE DEF m
  <2>3. \A r \in Sessions : r # s => fromBot'[r] = fromBot[r]
    BY <2>1 DEF TypeOK
  <2>4. /\ fromBot'[s] = Append(fromBot[s], m)
        /\ Len(fromBot[s]) \in Nat /\ Len(fromBot'[s]) = Len(fromBot[s]) + 1
        /\ fromBot'[s][Len(fromBot[s]) + 1] = m
        /\ \A i \in 1..Len(fromBot[s]) : fromBot'[s][i] = fromBot[s][i]
    BY <2>1 DEF TypeOK
  <2>5. \A i \in 1..Len(fromBot'[s]) :
          i \in 1..Len(fromBot[s]) \/ i = Len(fromBot[s]) + 1
    BY <2>4
  <2> QED
    BY <2>1, <2>2, <2>3, <2>4, <2>5 DEF StreamInv
<1>6. ASSUME fromBot' = fromBot,
             \A r \in Sessions : bot'[r] = "off" => bot[r] = "off",
             \A r \in Sessions : m_thread[r] = "none" => m_thread'[r] = "none"
      PROVE  StreamInv'
  BY <1>6 DEF StreamInv
<1>7. ASSUME NEW s \in Sessions, BotStop(s) \/ BotReceives(s) PROVE StreamInv'
  BY <1>6, <1>7 DEF BotStop, BotReceives, BotReceive, TypeOK
<1>8. ASSUME NEW s \in Sessions, Worker(s) PROVE StreamInv'
  BY <1>6, <1>8 DEF Worker, RunEntry, OnMessage, WaitTimeout, LoopCheck, TypeOK
<1>9. ASSUME NEW s \in Sessions, NEW t \in {"io", "main"}, Join(t, s)
      PROVE  StreamInv'
  BY <1>6, <1>9 DEF Join, TypeOK
<1>10. ASSUME UNCHANGED <<fromBot, bot, m_thread>> PROVE StreamInv'
  BY <1>10 DEF StreamInv
<1>11. ASSUME NEW s \in Sessions, NEW t \in {"io", "main"},
              OnShutdown(t, s) \/ RemovePlugin(t, s) \/ UseDestroyed(t, s)
       PROVE  StreamInv'
  BY <1>10, <1>11 DEF OnShutdown, RemovePlugin, UseDestroyed
<1>12. ASSUME NEW s \in Sessions,
              \/ AcceptConnection(s) \/ HandleEof(s) \/ StopAfterEof(s)
              \/ HandleTimer(s) \/ HandleTimerTooLate(s) \/ TimerExpires(s)
       PROVE  StreamInv'
  BY <1>10, <1>12 DEF AcceptConnection, HandleEof, StopAfterEof, HandleTimer,
     HandleTimerTooLate, TimerExpires
<1>13. ASSUME \/ Route \/ ConnectionError \/ Signal \/ StopNext \/ CloseServer
              \/ Deinitialize \/ Exit \/ UNCHANGED vars
       PROVE  StreamInv'
  BY <1>10, <1>13 DEF Route, ConnectionError, Signal, StopNext, CloseServer,
     Deinitialize, Exit, vars
<1>14. ASSUME NEW s \in Sessions PROVE ~AcceptReset(s) /\ \A data : ~TokenUnset(s, data)
  BY DEF AcceptReset, TokenUnset
<1> QED
  BY <1>2, <1>3, <1>4, <1>5, <1>7, <1>8, <1>9, <1>11, <1>12, <1>13, <1>14
     DEF Next, Main, Handler, Stop, BotStep

-----------------------------------------------------------------------------
(* Threads in stop() *)

\* What the step lemmas start from.
LiveInv ==
  /\ TypeOK /\ VectorInv /\ SessionInv /\ StopInv /\ LoopInv
  /\ fatal = "no"

\* Steps that move neither the io thread nor main and end no worker's silence.
LEMMA UnmovedStep ==
  ASSUME LiveInv, UNCHANGED <<io, main, raced, m_plugins, object>>,
         \A r \in Sessions : m_thread[r] = "none" => m_thread'[r] = "none",
         \A r \in Sessions : m_running[r] => m_running'[r]
  PROVE  StopInv' /\ LoopInv'
<1>1. io.pc # "idle" => io.s \in Sessions
  BY DEF LiveInv, TypeOK, IoStates
<1>2. main.pc \in InStop => main.s \in Sessions
  BY DEF LiveInv, TypeOK, MainStates, InStop
<1>3. StopInv'
  BY <1>1, <1>2 DEF LiveInv, StopInv, InStop
<1>4. LoopInv'
  BY DEF LiveInv, LoopInv
<1> QED
  BY <1>3, <1>4

\* Plugin::stop(), called on the io thread for a plugin that is alive.
LEMMA BeginStopStep ==
  ASSUME LiveInv, NEW s \in Sessions, object[s] = "alive",
         NEW h, BeginStop(s, h), io.pc \notin InStop,
         UNCHANGED <<main, m_plugins, object, m_thread>>
  PROVE  StopInv' /\ LoopInv'
<1>1. /\ m_running' = [m_running EXCEPT ![s] = FALSE]
      /\ io' = IF m_running[s] THEN Stopping("join", s, h) ELSE [pc |-> "idle"]
      /\ raced' = (raced \/ (m_running[s] /\ main.pc # "wait"))
  BY DEF BeginStop
<1>2. \A r \in Sessions : r # s => m_running'[r] = m_running[r]
  BY <1>1 DEF LiveInv, TypeOK
<1>3. CASE m_running[s]
  <2>1. io'.pc = "join" /\ io'.s = s
    BY <1>1, <1>3 DEF Stopping
  <2>2. main.pc # "wait" => raced'
    BY <1>1, <1>3
  <2>3. StopInv'
    BY <1>2, <2>1, <2>2 DEF LiveInv, StopInv, InStop
  <2>4. LoopInv'
    BY <2>2 DEF LiveInv, LoopInv, InStop
  <2> QED
    BY <2>3, <2>4
<1>4. CASE ~m_running[s]
  <2>1. io'.pc = "idle" /\ raced' = raced
    BY <1>1, <1>4 DEF LiveInv, TypeOK
  <2>2. main.pc # "wait"
    BY <1>4 DEF LiveInv, StopInv
  <2>3. StopInv'
    BY <2>1, <2>2 DEF LiveInv, StopInv, InStop
  <2>4. LoopInv'
    BY <1>4, <2>1 DEF LiveInv, LoopInv
  <2> QED
    BY <2>3, <2>4
<1> QED
  BY <1>3, <1>4

\* What the io thread does in stop().
LEMMA IoStopStep ==
  ASSUME LiveInv, NEW s \in Sessions, Stop("io", s)
  PROVE  StopInv' /\ LoopInv'
<1> USE DEF At, Where, Alive, session, worker
<1>1. CASE Join("io", s)
  <2>1. /\ io.pc = "join" /\ io.s = s /\ io' = [io EXCEPT !.pc = "onShutdown"]
        /\ m_thread' = [m_thread EXCEPT ![s] = "none"]
        /\ UNCHANGED <<main, raced, m_plugins, object, m_running>>
    BY <1>1 DEF Join, Goto
  <2>2. io'.pc = "onShutdown" /\ io'.s = s
    BY <2>1 DEF LiveInv, TypeOK, IoStates
  <2>3. \A r \in Sessions : m_thread'[r] = IF r = s THEN "none" ELSE m_thread[r]
    BY <2>1 DEF LiveInv, TypeOK
  <2>4. main.pc \in InStop => main.s \in Sessions
    BY DEF LiveInv, TypeOK, MainStates, InStop
  <2>5. StopInv'
    BY <2>1, <2>2, <2>3, <2>4 DEF LiveInv, StopInv, InStop
  <2>6. LoopInv'
    BY <2>1 DEF LiveInv, LoopInv
  <2> QED
    BY <2>5, <2>6
<1>2. CASE OnShutdown("io", s)
  <2>1. /\ io.pc = "onShutdown" /\ io.s = s /\ io' = [io EXCEPT !.pc = "ready"]
        /\ UNCHANGED <<main, raced, m_plugins, object, m_running, m_thread>>
    BY <1>2 DEF OnShutdown, Goto, LiveInv, SessionInv
  <2>2. io'.pc = "ready" /\ io'.s = s
    BY <2>1 DEF LiveInv, TypeOK, IoStates
  <2>3. StopInv'
    BY <2>1, <2>2 DEF LiveInv, StopInv, InStop
  <2>4. LoopInv'
    BY <2>1 DEF LiveInv, LoopInv
  <2> QED
    BY <2>3, <2>4
<1>3. CASE RemovePlugin("io", s)
  <2>1. /\ io.pc = "ready" /\ io.s = s /\ io' = [pc |-> "idle"]
        /\ object' = [object EXCEPT ![s] = "destroyed"]
        /\ UNCHANGED <<main, raced, m_running, m_thread>>
    BY <1>3 DEF RemovePlugin, Return
  <2>2. \A r \in Sessions : object'[r] = "alive" => object[r] = "alive" /\ r # s
    BY <2>1 DEF LiveInv, TypeOK
  <2>3. main.pc # "wait" => raced
    BY <2>1 DEF LiveInv, StopInv, InStop
  <2>4. StopInv'
    BY <2>1, <2>2, <2>3 DEF LiveInv, StopInv, InStop
  <2>5. LoopInv'
    BY <2>1, <2>2, <2>3 DEF LiveInv, LoopInv, InStop
  <2> QED
    BY <2>4, <2>5
<1>4. CASE UseDestroyed("io", s)
  <2>1. /\ io.s = s /\ object[s] = "destroyed" /\ io' = [pc |-> "idle"]
        /\ UNCHANGED <<main, raced, m_plugins, object, m_running, m_thread>>
    BY <1>4 DEF UseDestroyed, Return
  <2>2. StopInv'
    BY <2>1 DEF LiveInv, StopInv, InStop
  <2>3. LoopInv'
    BY <2>1 DEF LiveInv, LoopInv
  <2> QED
    BY <2>2, <2>3
<1> QED
  BY <1>1, <1>2, <1>3, <1>4 DEF Stop

\* What main does in stop().
LEMMA MainStopStep ==
  ASSUME LiveInv, NEW s \in Sessions, Stop("main", s)
  PROVE  StopInv' /\ LoopInv'
<1> USE DEF At, Where, Alive, session, worker
<1>1. ASSUME main.pc \in InStop
      PROVE  main \in [pc : InStop, s : Sessions, at : Nat \ {0}, end : Nat]
  BY <1>1 DEF LiveInv, TypeOK, MainStates, InStop
<1>2. io.pc # "idle" => io.s \in Sessions
  BY DEF LiveInv, TypeOK, IoStates
<1>3. CASE Join("main", s)
  <2>1. /\ main.pc = "join" /\ main.s = s /\ main' = [main EXCEPT !.pc = "onShutdown"]
        /\ m_thread' = [m_thread EXCEPT ![s] = "none"]
        /\ UNCHANGED <<io, raced, m_plugins, object, m_running>>
    BY <1>3 DEF Join, Goto
  <2>2. /\ main'.pc = "onShutdown" /\ main'.s = s
        /\ main'.at = main.at /\ main'.end = main.end
    BY <1>1, <2>1 DEF InStop
  <2>3. \A r \in Sessions : m_thread'[r] = IF r = s THEN "none" ELSE m_thread[r]
    BY <2>1 DEF LiveInv, TypeOK
  <2>4. StopInv'
    BY <1>2, <2>1, <2>2, <2>3 DEF LiveInv, StopInv, InStop
  <2>5. LoopInv'
    BY <2>1, <2>2 DEF LiveInv, LoopInv, InStop
  <2> QED
    BY <2>4, <2>5
<1>4. CASE OnShutdown("main", s)
  <2>1. /\ main.pc = "onShutdown" /\ main.s = s /\ main' = [main EXCEPT !.pc = "ready"]
        /\ UNCHANGED <<io, raced, m_plugins, object, m_running, m_thread>>
    BY <1>4 DEF OnShutdown, Goto, LiveInv, SessionInv
  <2>2. /\ main'.pc = "ready" /\ main'.s = s
        /\ main'.at = main.at /\ main'.end = main.end
    BY <1>1, <2>1 DEF InStop
  <2>3. StopInv'
    BY <2>1, <2>2 DEF LiveInv, StopInv, InStop
  <2>4. LoopInv'
    BY <2>1, <2>2 DEF LiveInv, LoopInv, InStop
  <2> QED
    BY <2>3, <2>4
<1>5. CASE RemovePlugin("main", s) \/ UseDestroyed("main", s)
  <2>1. /\ main.pc \in InStop /\ main.s = s /\ main' = [main EXCEPT !.pc = "next"]
        /\ UNCHANGED <<io, raced, m_running, m_thread>>
    BY <1>5 DEF RemovePlugin, UseDestroyed, Return, Goto, InStop, LiveInv, TypeOK,
                MainStates
  <2>2. /\ main'.pc = "next" /\ main'.at = main.at /\ main'.end = main.end
        /\ main.at >= 2 /\ main.at \in Nat
    BY <1>1, <2>1 DEF LiveInv, LoopInv
  <2>3. \A r \in Sessions : object'[r] = "alive" => object[r] = "alive" /\ r # s
    <3>1. CASE RemovePlugin("main", s)
      BY <3>1 DEF RemovePlugin, LiveInv, TypeOK
    <3>2. CASE UseDestroyed("main", s)
      BY <3>2 DEF UseDestroyed
    <3> QED
      BY <1>5, <3>1, <3>2
  <2>4. StopInv'
    BY <2>1, <2>2 DEF LiveInv, StopInv, InStop
  <2>5. LoopInv'
    BY <2>1, <2>2, <2>3 DEF LiveInv, LoopInv, InStop
  <2> QED
    BY <2>4, <2>5
<1> QED
  BY <1>3, <1>4, <1>5 DEF Stop

\* Core::stop outside of the plugins' stop().
LEMMA CoreStopStep ==
  ASSUME LiveInv, fatal' = "no",
         Signal \/ StopNext \/ CloseServer \/ Deinitialize \/ Exit
  PROVE  StopInv' /\ LoopInv'
<1> USE DEF session, worker, IoIdle, Alive
<1>1. CASE Signal
  <2>1. /\ main.pc = "wait" /\ main' = [pc |-> "next", at |-> 1, end |-> Len(m_plugins)]
        /\ raced' = (io.pc # "idle")
        /\ UNCHANGED <<io, m_plugins, object, m_running, m_thread>>
    BY <1>1 DEF Signal
  <2>2. main'.pc = "next" /\ main'.at = 1 /\ main'.end = Len(m_plugins)
    BY <2>1
  <2>3. ~raced' => \A s \in Sessions : object[s] = "alive" => m_running[s]
    BY <2>1 DEF LiveInv, StopInv, InStop
  <2>4. Len(m_plugins) < 1 => \A s \in Sessions : object[s] # "alive"
    BY DEF LiveInv, VectorInv, TypeOK
  <2>5. StopInv'
    BY <2>1, <2>2 DEF LiveInv, StopInv, InStop
  <2>6. LoopInv'
    BY <2>1, <2>2, <2>3, <2>4 DEF LoopInv, InStop
  <2> QED
    BY <2>5, <2>6
<1>2. CASE StopNext
  <2> DEFINE s == m_plugins[main.at]
  <2>1. /\ main.pc = "next" /\ main.at \in Nat \ {0} /\ main.end \in Nat
        /\ main.at <= main.end
    BY <1>2 DEF StopNext, LiveInv, TypeOK, MainStates
  <2>2. main.at \in 1..Len(m_plugins)
    BY <1>2, <2>1 DEF StopNext, LiveInv, TypeOK
  <2>3. s \in Sessions /\ object[s] = "alive"
    BY <2>2 DEF LiveInv, TypeOK, VectorInv
  <2>4. /\ m_running' = [m_running EXCEPT ![s] = FALSE]
        /\ main' = [pc |-> IF m_running[s] THEN "join" ELSE "next",
                    s |-> s, at |-> main.at + 1, end |-> main.end]
        /\ UNCHANGED <<io, raced, m_plugins, object, m_thread>>
    BY <1>2, <2>2 DEF StopNext, LiveInv, TypeOK
  <2>5. /\ main'.pc = IF m_running[s] THEN "join" ELSE "next"
        /\ main'.s = s /\ main'.at = main.at + 1 /\ main'.end = main.end
    BY <2>4
  <2>6. ASSUME main.end <= 1, ~raced
        PROVE  m_running[s] /\ \A r \in Sessions : object[r] = "alive" => r = s
    <3>1. main.at = 1 /\ main.end = 1
      BY <2>1, <2>6
    <3>2. Len(m_plugins) = 1 /\ m_running[s]
      BY <2>1, <2>3, <2>6, <3>1 DEF LiveInv, LoopInv
    <3>3. \A i \in 1..Len(m_plugins) : m_plugins[i] = s
      BY <3>1, <3>2
    <3> QED
      BY <3>2, <3>3 DEF LiveInv, VectorInv
  <2> HIDE DEF s
  <2>7. StopInv'
    BY <2>1, <2>4, <2>5 DEF LiveInv, StopInv, InStop
  <2>8. LoopInv'
    BY <2>1, <2>4, <2>5, <2>6 DEF LoopInv, InStop
  <2> QED
    BY <2>7, <2>8
<1>3. CASE CloseServer
  <2>1. /\ main.pc = "next" /\ main.at > main.end
        /\ UNCHANGED <<io, raced, m_plugins, object, m_running, m_thread>>
    BY <1>3 DEF CloseServer
  <2>2. main'.pc = "closed" /\ main'.at = main.at /\ main'.end = main.end
    BY <1>3 DEF CloseServer
  <2>3. StopInv'
    BY <2>1, <2>2 DEF LiveInv, StopInv, InStop
  <2>4. LoopInv'
    BY <2>1, <2>2 DEF LiveInv, LoopInv, InStop
  <2> QED
    BY <2>3, <2>4
<1>4. CASE Deinitialize \/ Exit
  <2>1. /\ main.pc # "wait" /\ main'.pc \in {"cleared", "exit"}
        /\ UNCHANGED <<io, raced, m_running, m_thread>>
    BY <1>4 DEF Deinitialize, Exit, LiveInv, TypeOK, MainStates
  <2>2. StopInv'
    BY <2>1 DEF LiveInv, StopInv, InStop
  <2>3. LoopInv'
    BY <2>1 DEF LoopInv, InStop
  <2> QED
    BY <2>2, <2>3
<1> QED
  BY <1>1, <1>2, <1>3, <1>4

\* The handlers, the workers and the plugins.
LEMMA StopLoopStep ==
  ASSUME LiveInv, fatal' = "no", [Next]_vars
  PROVE  StopInv' /\ LoopInv'
<1> USE DEF IoIdle, Alive, config, core, session, worker, stream, botVars
<1>1. ASSUME NEW s \in Sessions, AcceptConnection(s) PROVE StopInv' /\ LoopInv'
  <2>1. /\ io.pc = "idle" /\ object[s] = "none"
        /\ object' = [object EXCEPT ![s] = "alive"]
        /\ main.pc # "wait" => raced'
        /\ UNCHANGED <<io, main, m_running, m_thread>>
    BY <1>1 DEF AcceptConnection, Accepted
  <2>2. m_running[s]
    BY <2>1 DEF LiveInv, SessionInv
  <2>3. \A r \in Sessions : r # s => object'[r] = object[r]
    BY <2>1 DEF LiveInv, TypeOK
  <2>4. StopInv'
    BY <2>1, <2>2, <2>3 DEF LiveInv, StopInv, InStop
  <2>5. LoopInv'
    BY <2>1 DEF LiveInv, LoopInv, InStop
  <2> QED
    BY <2>4, <2>5
<1>2. ASSUME NEW s \in Sessions, NEW data, HandleInitRequest(s, data)
      PROVE  StopInv' /\ LoopInv'
  <2>1. /\ main.pc # "wait" => raced'
        /\ \A r \in Sessions : m_running[r] => m_running'[r]
        /\ UNCHANGED <<io, main, m_plugins, object>>
    BY <1>2 DEF HandleInitRequest, LiveInv, TypeOK
  <2>2. io.pc = "idle"
    BY <1>2, InitReceived DEF Receives
  <2>3. StopInv'
    BY <2>1, <2>2 DEF LiveInv, StopInv, InStop
  <2>4. LoopInv'
    BY <1>2, <2>1 DEF HandleInitRequest, LiveInv, LoopInv, InStop
  <2> QED
    BY <2>3, <2>4
<1>3. ASSUME NEW s \in Sessions, NEW data, RefuseInitRequest(s, data)
      PROVE  StopInv' /\ LoopInv'
  <2>1. object[s] = "alive"
    BY <1>3, InitReceived DEF Receives, LiveInv, SessionInv, TypeOK
  <2> QED
    BY <1>3, <2>1, InitReceived, BeginStopStep DEF RefuseInitRequest, Receives, InStop
<1>4. ASSUME NEW s \in Sessions, HandleEof(s) PROVE StopInv' /\ LoopInv'
  <2>1. /\ io.pc = "idle" /\ io' = Stopping("stop", s, "error")
        /\ UNCHANGED <<main, raced, m_plugins, object, m_running, m_thread>>
    BY <1>4 DEF HandleEof
  <2>2. io'.pc = "stop"
    BY <2>1 DEF Stopping
  <2>3. StopInv'
    BY <2>1, <2>2 DEF LiveInv, StopInv, InStop
  <2>4. LoopInv'
    BY <2>1 DEF LiveInv, LoopInv
  <2> QED
    BY <2>3, <2>4
<1>5. ASSUME NEW s \in Sessions, StopAfterEof(s) PROVE StopInv' /\ LoopInv'
  BY <1>5, BeginStopStep DEF StopAfterEof, Stopping, InStop
<1>6. ASSUME NEW s \in Sessions, HandleTimer(s) PROVE StopInv' /\ LoopInv'
  BY <1>6, BeginStopStep DEF HandleTimer, InStop
<1>7. CASE ConnectionError
  <2>1. Head(m_plugins) \in Sessions /\ object[Head(m_plugins)] = "alive"
    BY <1>7 DEF ConnectionError, LiveInv, TypeOK, VectorInv
  <2> QED
    BY <1>7, <2>1, BeginStopStep DEF ConnectionError, InStop
<1>8. ASSUME NEW s \in Sessions, Worker(s) PROVE StopInv' /\ LoopInv'
  <2>1. /\ UNCHANGED <<io, main, raced, m_plugins, object>>
        /\ \A r \in Sessions : m_thread[r] = "none" => m_thread'[r] = "none"
        /\ \A r \in Sessions : m_running[r] => m_running'[r]
    <3>1. CASE RunEntry(s)
      BY <3>1 DEF RunEntry, LiveInv, TypeOK
    <3>2. CASE OnMessage(s)
      BY <3>2 DEF OnMessage, LoopCheck, LiveInv, TypeOK
    <3>3. CASE WaitTimeout(s)
      BY <3>3 DEF WaitTimeout, LoopCheck, LiveInv, TypeOK
    <3> QED
      BY <1>8, <3>1, <3>2, <3>3 DEF Worker
  <2> QED
    BY <2>1, UnmovedStep
<1>9. ASSUME UNCHANGED <<io, main, raced, m_plugins, object, m_thread, m_running>>
      PROVE  StopInv' /\ LoopInv'
  BY <1>9, UnmovedStep
<1>10. ASSUME NEW s \in Sessions,
              \/ HandleTimerTooLate(s) \/ TimerExpires(s) \/ BotStep(s)
              \/ BotReceives(s) \/ \E data : HandleIrcMessage(s, data)
       PROVE  StopInv' /\ LoopInv'
  BY <1>9, <1>10 DEF HandleTimerTooLate, TimerExpires, BotStep, BotSend, BotStop,
     BotStart, BotReceives, BotReceive, HandleIrcMessage
<1>11. CASE Route \/ UNCHANGED vars
  BY <1>9, <1>11 DEF Route, vars
<1>12. ASSUME NEW s \in Sessions PROVE ~AcceptReset(s) /\ \A data : ~TokenUnset(s, data)
  BY DEF AcceptReset, TokenUnset
<1> QED
  BY <1>1, <1>2, <1>3, <1>4, <1>5, <1>6, <1>7, <1>8, <1>10, <1>11, <1>12, CoreStopStep,
     IoStopStep, MainStopStep DEF Next, Main, Handler

-----------------------------------------------------------------------------
(* What terminates the process *)

\* Timers and the io thread's plugin.
LEMMA HandlerStep ==
  ASSUME LiveInv, HandlerInv, [Next]_vars
  PROVE  HandlerInv'
<1> USE DEF IoIdle, Alive, config, core, session, worker, stream, botVars
<1> DEFINE TimerInv ==
             /\ m_init_timer \in [Sessions -> {"off", "waiting", "expired"}]
             /\ \A s \in Sessions : m_init_timer[s] = "expired" => s \in TimerFires
           WaitInv == main.pc = "wait" /\ io.pc # "idle" => object[io.s] = "alive"
<1>1. TimerInv /\ WaitInv
  BY DEF HandlerInv
<1>2. ASSUME m_init_timer' = m_init_timer PROVE TimerInv'
  BY <1>1, <1>2
<1>3. ASSUME NEW s \in Sessions, NEW v, m_init_timer' = [m_init_timer EXCEPT ![s] = v],
             v \in {m_init_timer[s], "off", "waiting"} \/ (v = "expired" /\ s \in TimerFires)
      PROVE  TimerInv'
  <2>1. v \in {"off", "waiting", "expired"} /\ (v = "expired" => s \in TimerFires)
    BY <1>1, <1>3
  <2>2. m_init_timer' \in [Sessions -> {"off", "waiting", "expired"}]
    BY <1>1, <1>3, <2>1
  <2>3. \A r \in Sessions : m_init_timer'[r] = IF r = s THEN v ELSE m_init_timer[r]
    BY <1>1, <1>3
  <2> QED
    BY <1>1, <2>1, <2>2, <2>3
<1>4. ASSUME io'.pc = "idle" PROVE WaitInv'
  BY <1>4
<1>5. ASSUME main'.pc # "wait" PROVE WaitInv'
  BY <1>5
<1>6. ASSUME UNCHANGED <<io, main, object>> PROVE WaitInv'
  BY <1>1, <1>6
<1>7. ASSUME NEW s \in Sessions, NEW h, object[s] = "alive", BeginStop(s, h),
             UNCHANGED object
      PROVE  WaitInv'
  <2>1. io'.pc = "idle" \/ io' = Stopping("join", s, h)
    BY <1>7 DEF BeginStop
  <2>2. io'.pc = "idle" \/ io'.s = s
    BY <2>1 DEF Stopping
  <2> QED
    BY <1>7, <2>2
<1>8. ASSUME NEW s \in Sessions, NEW data, Receives(s, data) PROVE object[s] = "alive"
  BY <1>8 DEF Receives, LiveInv, SessionInv, TypeOK
<1>9. ASSUME NEW s \in Sessions, AcceptConnection(s) PROVE TimerInv' /\ WaitInv'
  <2>1. io'.pc = "idle"
    BY <1>9 DEF AcceptConnection, Accepted
  <2> QED
    BY <1>3, <1>4, <1>9, <2>1 DEF AcceptConnection
<1>10. ASSUME NEW s \in Sessions, NEW data, HandleInitRequest(s, data)
       PROVE  TimerInv' /\ WaitInv'
  BY <1>3, <1>6, <1>10 DEF HandleInitRequest
<1>11. ASSUME NEW s \in Sessions, NEW data, RefuseInitRequest(s, data)
       PROVE  TimerInv' /\ WaitInv'
  BY <1>2, <1>7, <1>8, <1>11, InitReceived DEF RefuseInitRequest
<1>12. ASSUME NEW s \in Sessions, HandleEof(s) PROVE TimerInv' /\ WaitInv'
  <2>1. object[s] = "alive" /\ io'.s = s /\ UNCHANGED <<object, m_init_timer>>
    BY <1>12 DEF HandleEof, Stopping, LiveInv, SessionInv, TypeOK
  <2> QED
    BY <1>2, <2>1
<1>13. ASSUME NEW s \in Sessions, StopAfterEof(s) PROVE TimerInv' /\ WaitInv'
  BY <1>2, <1>7, <1>13 DEF StopAfterEof
<1>14. ASSUME NEW s \in Sessions, HandleTimer(s) PROVE TimerInv' /\ WaitInv'
  BY <1>3, <1>7, <1>14 DEF HandleTimer
<1>15. ASSUME NEW s \in Sessions, HandleTimerTooLate(s) \/ TimerExpires(s)
       PROVE  TimerInv' /\ WaitInv'
  BY <1>3, <1>6, <1>15 DEF HandleTimerTooLate, TimerExpires
<1>16. ASSUME ConnectionError PROVE TimerInv' /\ WaitInv'
  <2>1. PICK s \in Sessions : s = Head(m_plugins) /\ object[s] = "alive"
    BY <1>16 DEF ConnectionError, LiveInv, TypeOK, VectorInv
  <2>2. UNCHANGED <<object, m_init_timer>> /\ BeginStop(s, "core")
    BY <1>16, <2>1 DEF ConnectionError
  <2> QED
    BY <1>2, <1>7, <2>1, <2>2
<1>17. ASSUME NEW s \in Sessions, Stop("io", s) PROVE TimerInv' /\ WaitInv'
  <2> USE DEF At, Where
  <2>1. CASE Join("io", s) \/ OnShutdown("io", s)
    <3>1. io.s = s /\ object[s] = "alive" /\ object' = object
      BY <2>1 DEF Join, OnShutdown
    <3>2. io'.pc = "idle" \/ io'.s = s
      BY <2>1, <3>1 DEF Join, OnShutdown, Goto, Return, LiveInv, TypeOK, IoStates
    <3>3. WaitInv'
      BY <3>1, <3>2
    <3>4. TimerInv'
      BY <1>2, <1>3, <2>1 DEF Join, OnShutdown
    <3> QED
      BY <3>3, <3>4
  <2>2. CASE RemovePlugin("io", s) \/ UseDestroyed("io", s)
    <3>1. Return("io") /\ m_init_timer' = m_init_timer
      BY <2>2 DEF RemovePlugin, UseDestroyed
    <3>2. io'.pc = "idle"
      BY <3>1 DEF Return
    <3> QED
      BY <1>2, <1>4, <3>1, <3>2
  <2> QED
    BY <1>17, <2>1, <2>2 DEF Stop
<1>18. ASSUME NEW s \in Sessions, Stop("main", s) PROVE TimerInv' /\ WaitInv'
  <2>1. main'.pc # "wait"
    <3>1. /\ main.pc \in {"stop", "join", "onShutdown", "ready"}
          /\ \/ Return("main")
             \/ \E pc \in {"onShutdown", "ready"} : Goto("main", pc)
      BY <1>18 DEF Stop, Join, OnShutdown, RemovePlugin, UseDestroyed, At, Where
    <3>2. main' = [main EXCEPT !.pc = "next"]
          \/ \E pc \in {"onShutdown", "ready"} : main' = [main EXCEPT !.pc = pc]
      BY <3>1 DEF Return, Goto
    <3> QED
      BY <3>1, <3>2 DEF LiveInv, TypeOK, MainStates
  <2>2. TimerInv'
    BY <1>2, <1>3, <1>18 DEF Stop, Join, OnShutdown, RemovePlugin, UseDestroyed
  <2> QED
    BY <1>5, <2>1, <2>2
<1>19. ASSUME Signal \/ StopNext \/ CloseServer \/ Deinitialize \/ Exit
       PROVE  TimerInv' /\ WaitInv'
  <2>1. main'.pc # "wait"
    <3>1. CASE Signal \/ CloseServer
      BY <3>1 DEF Signal, CloseServer
    <3>2. CASE StopNext
      BY <3>2 DEF StopNext
    <3>3. CASE Deinitialize \/ Exit
      <4>1. main \in MainStates
        BY DEF LiveInv, TypeOK
      <4>2. main.pc \in {"closed", "cleared"}
        BY <3>3 DEF Deinitialize, Exit
      <4>3. main' = [main EXCEPT !.pc = "cleared"] \/ main' = [main EXCEPT !.pc = "exit"]
        BY <3>3 DEF Deinitialize, Exit
      <4> QED
        BY ONLY <4>1, <4>2, <4>3 DEF MainStates
    <3> QED
      BY <1>19, <3>1, <3>2, <3>3
  <2>2. m_init_timer' = m_init_timer
    BY <1>19 DEF Signal, StopNext, CloseServer, Deinitialize, Exit
  <2> QED
    BY <1>2, <1>5, <2>1, <2>2
<1>20. ASSUME NEW s \in Sessions,
              \/ AcceptReset(s)
              \/ \E data : TokenUnset(s, data) \/ HandleIrcMessage(s, data)
              \/ Worker(s) \/ BotStep(s) \/ BotReceives(s)
       PROVE  TimerInv' /\ WaitInv'
  BY <1>2, <1>6, <1>20 DEF AcceptReset, TokenUnset, HandleIrcMessage, Worker, RunEntry, OnMessage,
     WaitTimeout, BotStep, BotSend, BotStop, BotStart, BotReceives, BotReceive
<1>21. ASSUME Route \/ UNCHANGED vars PROVE TimerInv' /\ WaitInv'
  BY <1>2, <1>6, <1>21 DEF Route, vars
<1> HIDE DEF TimerInv, WaitInv
<1>22. TimerInv' /\ WaitInv'
  BY <1>9, <1>10, <1>11, <1>12, <1>13, <1>14, <1>15, <1>16, <1>17, <1>18,
     <1>19, <1>20, <1>21 DEF Next, Main, Handler
<1> QED
  BY <1>22 DEF TimerInv, WaitInv, HandlerInv

\* Whatever terminates the process has one of the causes of FatalIsExplained.
LEMMA FatalStep ==
  ASSUME LiveInv, StreamInv, HandlerInv, [Next]_vars
  PROVE  FatalIsExplained'
<1> USE DEF IoIdle, Alive, config, core, session, worker, stream, botVars, LiveInv
<1>1. ASSUME fatal' = "no" PROVE FatalIsExplained'
  BY <1>1 DEF FatalIsExplained
<1>2. ASSUME fatal' \in {"no", "iterator", "promise", "joinable thread"},
             fatal' # "no" => raced' \/ (main'.pc # "wait" /\ main'.end > 1)
      PROVE  FatalIsExplained'
  BY <1>2 DEF FatalIsExplained
<1>3. ASSUME NEW s \in Sessions, AcceptConnection(s) PROVE FatalIsExplained'
  <2>1. fatal' \in {"no", "iterator"} /\ (fatal' # "no" => raced')
    BY <1>3 DEF AcceptConnection, InLoop
  <2> QED
    BY <1>2, <2>1
<1>4. ASSUME NEW s \in Sessions, AcceptReset(s) PROVE FatalIsExplained'
  <2>1. fatal' = "endpoint" /\ bot'[s] = "stopped" /\ object'[s] = "none"
    BY <1>4 DEF AcceptReset, Accepted
  <2> QED
    BY <2>1 DEF FatalIsExplained
<1>5. ASSUME NEW s \in Sessions, NEW data, TokenUnset(s, data) PROVE FatalIsExplained'
  <2>1. fatal' = "token" /\ plugin_token' = "unset"
    BY <1>5 DEF TokenUnset
  <2> QED
    BY <2>1 DEF FatalIsExplained
<1>6. ASSUME NEW s \in Sessions, NEW data \in Chunks(fromBot[s]),
             HandleInitRequest(s, data)
      PROVE  fatal' = "no"
  BY <1>6, NoWorkerYet DEF HandleInitRequest
<1>7. ASSUME NEW s \in Sessions, HandleEof(s) PROVE fatal' = "no"
  BY <1>7 DEF HandleEof, SessionInv
<1>8. ASSUME NEW s \in Sessions, HandleTimerTooLate(s) PROVE FatalIsExplained'
  <2>1. /\ fatal' \in {"no", "late timer"} /\ object'[s] = "destroyed"
        /\ m_init_timer[s] = "expired"
    BY <1>8 DEF HandleTimerTooLate
  <2>2. s \in TimerFires
    BY <2>1 DEF HandlerInv
  <2> QED
    BY <2>1, <2>2 DEF FatalIsExplained
<1>9. ASSUME NEW s \in Sessions, NEW t \in {"io", "main"}, OnShutdown(t, s)
      PROVE  FatalIsExplained'
  <2>1. CASE \E u \in {"io", "main"} \ {t} : At(u, "ready", s)
    <3>1. io.pc \in InStop /\ main.pc # "wait"
      BY <1>9, <2>1 DEF OnShutdown, At, Where, InStop
    <3>2. raced' /\ fatal' = "promise"
      BY <1>9, <2>1, <3>1 DEF OnShutdown, StopInv
    <3> QED
      BY <1>2, <3>2
  <2>2. CASE ~\E u \in {"io", "main"} \ {t} : At(u, "ready", s)
    BY <1>1, <1>9, <2>2 DEF OnShutdown
  <2> QED
    BY <2>1, <2>2
<1>10. ASSUME NEW s \in Sessions, NEW t \in {"io", "main"}, RemovePlugin(t, s)
       PROVE  FatalIsExplained'
  <2>1. m_thread[s] = "none" \/ raced
    BY <1>10 DEF RemovePlugin, At, Where, StopInv
  <2>2. fatal' \in {"no", "joinable thread"} /\ (fatal' # "no" => raced')
    BY <1>10, <2>1 DEF RemovePlugin
  <2> QED
    BY <1>2, <2>2
<1>11. ASSUME NEW s \in Sessions, NEW t \in {"io", "main"}, UseDestroyed(t, s)
       PROVE  FatalIsExplained'
  <2>1. main.pc # "wait"
    BY <1>11 DEF UseDestroyed, Where, HandlerInv
  <2>2. main'.pc # "wait"
    BY <1>11, <2>1 DEF UseDestroyed, Return, Goto, TypeOK, MainStates
  <2>3. fatal' \in {"no", "dangling"}
    BY <1>11 DEF UseDestroyed
  <2> QED
    BY <2>2, <2>3 DEF FatalIsExplained
<1>12. CASE StopNext
  <2>1. /\ main.pc = "next" /\ main.at \in Nat \ {0} /\ main.end \in Nat
        /\ main.at <= main.end
    BY <1>12 DEF StopNext, TypeOK, MainStates
  <2>2. CASE main.at > Len(m_plugins)
    <3>1. raced \/ main.end > 1
      BY <2>1, <2>2 DEF LoopInv
    <3>2. fatal' = "iterator" /\ UNCHANGED <<main, raced>>
      BY <1>12, <2>2 DEF StopNext
    <3> QED
      BY <1>2, <2>1, <3>1, <3>2
  <2>3. CASE ~(main.at > Len(m_plugins))
    BY <1>1, <1>12, <2>3 DEF StopNext
  <2> QED
    BY <2>2, <2>3
<1>13. CASE Deinitialize
  <2>1. /\ main.pc = "closed" /\ main'.pc # "wait" /\ main'.end = main.end
        /\ main.end \in Nat /\ raced' = raced
    BY <1>13 DEF Deinitialize, TypeOK, MainStates
  <2>2. CASE \E s \in Sessions : object[s] = "alive" /\ m_thread[s] # "none"
    <3>1. raced \/ main.end > 1
      BY <2>1, <2>2 DEF LoopInv
    <3>2. fatal' = "joinable thread"
      BY <1>13, <2>2 DEF Deinitialize
    <3> QED
      BY <1>2, <2>1, <3>1, <3>2
  <2>3. CASE ~\E s \in Sessions : object[s] = "alive" /\ m_thread[s] # "none"
    <3>1. fatal' \in {"no", "dangling"}
      BY <1>13, <2>3 DEF Deinitialize
    <3> QED
      BY <2>1, <3>1 DEF FatalIsExplained
  <2> QED
    BY <2>2, <2>3
<1>14. ASSUME NEW s \in Sessions,
             \/ StopAfterEof(s) \/ HandleTimer(s) \/ TimerExpires(s) \/ Worker(s)
             \/ \E data \in Chunks(fromBot[s]) :
                  RefuseInitRequest(s, data) \/ HandleIrcMessage(s, data)
             \/ BotStep(s) \/ BotReceives(s)
             \/ \E t \in {"io", "main"} : Join(t, s)
      PROVE  fatal' = "no"
  BY <1>14 DEF StopAfterEof, HandleTimer, TimerExpires, Worker, RunEntry, OnMessage,
     WaitTimeout, RefuseInitRequest, HandleIrcMessage, BotStep, BotSend, BotStop,
     BotStart, BotReceives, BotReceive, Join
<1>15. ASSUME \/ Route \/ ConnectionError \/ Signal \/ CloseServer \/ Exit
              \/ UNCHANGED vars
       PROVE  fatal' = "no"
  BY <1>15 DEF Route, ConnectionError, Signal, CloseServer, Exit, vars
<1> QED
  BY <1>1, <1>3, <1>4, <1>5, <1>6, <1>7, <1>8, <1>9, <1>10, <1>11, <1>12, <1>13,
     <1>14, <1>15 DEF Next, Main, Handler, Stop

\* Afterwards only the plugins go on, and one that has stopped does not start again.
LEMMA TerminatedStep ==
  ASSUME TypeOK, fatal # "no", [Next]_vars
  PROVE  /\ UNCHANGED <<fatal, main, raced, plugin_token, object>>
         /\ \A s \in Sessions : bot[s] = "stopped" => bot'[s] = "stopped"
<1> USE DEF IoIdle, Alive, At, config, core, session, botVars
<1>1. ASSUME NEW s \in Sessions, NEW t \in {"io", "main"} PROVE ~Stop(t, s)
  BY DEF Stop, Join, OnShutdown, RemovePlugin, UseDestroyed
<1>2. ASSUME NEW s \in Sessions PROVE ~(Handler(s) \/ TimerExpires(s) \/ Worker(s))
  <2>1. ASSUME NEW data
        PROVE  /\ ~Receives(s, data) /\ ~HandleInitRequest(s, data)
               /\ ~RefuseInitRequest(s, data) /\ ~TokenUnset(s, data)
    BY InitReceived DEF Receives
  <2> QED
    BY <2>1 DEF Handler, Accepted, AcceptConnection, AcceptReset, HandleIrcMessage,
       HandleEof, StopAfterEof, HandleTimer, HandleTimerTooLate, TimerExpires, Worker,
       RunEntry, OnMessage, WaitTimeout
<1>3. ASSUME NEW s \in Sessions, BotStep(s) \/ BotReceives(s)
      PROVE  /\ UNCHANGED <<fatal, main, raced, plugin_token, object>>
             /\ \A r \in Sessions : bot[r] = "stopped" => bot'[r] = "stopped"
  BY <1>3 DEF BotStep, BotSend, BotStop, BotStart, BotReceives, BotReceive, TypeOK
<1>4. ~(\/ Route \/ ConnectionError \/ Signal \/ StopNext \/ CloseServer
        \/ Deinitialize \/ Exit)
  BY DEF Route, ConnectionError, Signal, StopNext, CloseServer, Deinitialize, Exit
<1>5. CASE UNCHANGED vars
  BY <1>5 DEF vars
<1> QED
  BY <1>1, <1>2, <1>3, <1>4, <1>5 DEF Next, Main

LEMMA RaceInit == Init => RaceInv
<1> SUFFICES ASSUME Init PROVE RaceInv
  OBVIOUS
<1>1. CleanInv
  BY CleanInit
<1>2. StreamInv
  <2>1. \A s \in Sessions : fromBot[s] = <<>> /\ m_thread[s] = "none"
    BY DEF Init
  <2> QED
    BY <2>1 DEF StreamInv
<1>3. StopInv /\ LoopInv
  BY DEF Init, StopInv, LoopInv, InStop
<1>4. HandlerInv /\ FatalIsExplained
  BY DEF Init, HandlerInv, FatalIsExplained
<1> QED
  BY <1>1, <1>2, <1>3, <1>4 DEF RaceInv

LEMMA RaceStep == RaceInv /\ [Next]_vars => RaceInv'
<1> SUFFICES ASSUME RaceInv, [Next]_vars PROVE RaceInv'
  OBVIOUS
<1>1. CleanInv' /\ TypeOK
  BY CleanStep DEF RaceInv, CleanInv
<1>2. CASE fatal = "no"
  <2>1. LiveInv /\ StreamInv /\ HandlerInv
    BY <1>2 DEF RaceInv, CleanInv, LiveInv
  <2>2. FatalIsExplained'
    BY <2>1, FatalStep
  <2>3. fatal' = "no" => StreamInv'
    BY <1>1, <1>2, <2>1, StreamStep
  <2>4. fatal' = "no" => StopInv' /\ LoopInv'
    BY <2>1, StopLoopStep
  <2>5. HandlerInv'
    BY <2>1, HandlerStep
  <2> QED
    BY <1>1, <2>2, <2>3, <2>4, <2>5 DEF RaceInv
<1>3. CASE fatal # "no"
  <2>1. /\ UNCHANGED <<fatal, main, raced, plugin_token, object>>
        /\ \A s \in Sessions : bot[s] = "stopped" => bot'[s] = "stopped"
    BY <1>1, <1>3, TerminatedStep
  <2>2. FatalIsExplained'
    <3>1. FatalIsExplained
      BY DEF RaceInv
    <3> QED
      BY <2>1, <3>1 DEF FatalIsExplained
  <2> QED
    BY <1>1, <1>3, <2>1, <2>2 DEF RaceInv
<1> QED
  BY <1>2, <1>3

\* The process is terminated by an INIT_REQUEST only if no plugin_token is
\* configured, by a connection only if the peer has reset it before it was
\* accepted, by a timer only if it belongs to a plugin that took five seconds and
\* is destroyed, by a pointer to a destroyed plugin only once Core::stop was
\* called, and by a promise, an iterator or a joinable thread only if the two
\* threads race or Core::stop meets several plugins.
THEOREM FatalIsExplainedCorrect == Spec => []FatalIsExplained
<1>1. RaceInv => FatalIsExplained
  BY DEF RaceInv
<1> QED
  BY <1>1, RaceInit, RaceStep, PTL DEF Spec

-----------------------------------------------------------------------------
(* What passes through the streams *)

\* The messages in a stream come after those that were taken from it.
Ordered(wire, calls) ==
  /\ Ascending(wire) /\ InOrder(calls)
  /\ \A i \in 1..Len(calls) : calls[i] # <<>>
  /\ \A i \in 1..Len(calls) : \A a \in 1..Len(calls[i]) :
       \A j \in 1..Len(wire) : IsIrc(wire[j]) => calls[i][a] < Number(wire[j])

\* Their numbers go up to n.
UpTo(n, wire, calls) ==
  /\ \A i \in 1..Len(calls) : \A a \in 1..Len(calls[i]) : calls[i][a] \in 1..n
  /\ \A j \in 1..Len(wire) : IsIrc(wire[j]) => Number(wire[j]) \in 1..n

\* What waits in the queue comes after what has been sent.
Queued(n, queue, wire, calls) ==
  /\ \A i, j \in 1..Len(queue) : i < j => queue[i] < queue[j]
  /\ \A i \in 1..Len(queue) :
       queue[i] \in 1..n /\ UpTo(queue[i] - 1, wire, calls)

LEMMA UpToMore ==
  ASSUME NEW n \in Nat, NEW m \in Nat, n <= m, NEW wire, NEW calls, UpTo(n, wire, calls)
  PROVE  UpTo(m, wire, calls)
<1>1. 1..n \subseteq 1..m
  OBVIOUS
<1> QED
  BY <1>1 DEF UpTo

LEMMA SentIrc ==
  ASSUME NEW wire \in Seq(Messages), NEW calls \in Seq(Seq(Nat)), NEW n \in Nat \ {0},
         Ordered(wire, calls), UpTo(n - 1, wire, calls)
  PROVE  /\ Append(wire, IrcMessage(n)) \in Seq(Messages)
         /\ Ordered(Append(wire, IrcMessage(n)), calls)
         /\ UpTo(n, Append(wire, IrcMessage(n)), calls)
<1> DEFINE m == IrcMessage(n)
           w == Append(wire, m)
<1>1. m \in Messages /\ IsIrc(m) /\ Number(m) = n
  BY DEF Messages, IrcMessage, Message, IsIrc, Number
<1> SUFFICES w \in Seq(Messages) /\ Ordered(w, calls) /\ UpTo(n, w, calls)
  OBVIOUS
<1> HIDE DEF m
<1>2. /\ w \in Seq(Messages) /\ Len(w) = Len(wire) + 1 /\ Len(wire) \in Nat
      /\ w[Len(wire) + 1] = m /\ \A i \in 1..Len(wire) : w[i] = wire[i]
  BY <1>1
<1> HIDE DEF w
<1>3. \A i \in 1..Len(w) : i \in 1..Len(wire) \/ i = Len(wire) + 1
  BY <1>2
<1>4. \A i \in 1..Len(wire) : IsIrc(wire[i]) => Number(wire[i]) \in 1..n /\ Number(wire[i]) < n
  BY DEF UpTo
<1>5. Ascending(w)
  <2> SUFFICES ASSUME NEW i \in 1..Len(w), NEW j \in 1..Len(w), i < j,
                      IsIrc(w[i]), IsIrc(w[j])
               PROVE  Number(w[i]) < Number(w[j])
    BY DEF Ascending
  <2>1. i \in 1..Len(wire)
    BY <1>2
  <2>2. CASE j \in 1..Len(wire)
    BY <1>2, <2>1, <2>2 DEF Ordered, Ascending
  <2>3. CASE j = Len(wire) + 1
    BY <1>1, <1>2, <1>4, <2>1, <2>3
  <2> QED
    BY <1>3, <2>2, <2>3
<1>6. \A i \in 1..Len(calls) : \A a \in 1..Len(calls[i]) :
        calls[i][a] \in 1..n /\ calls[i][a] < n
  BY DEF UpTo
<1>7. Ordered(w, calls)
  BY <1>1, <1>2, <1>3, <1>5, <1>6 DEF Ordered
<1>8. n \in 1..n
  OBVIOUS
<1>9. UpTo(n, w, calls)
  BY <1>1, <1>2, <1>3, <1>4, <1>6, <1>8 DEF UpTo
<1> QED
  BY <1>2, <1>7, <1>9

LEMMA SentOther ==
  ASSUME NEW wire \in Seq(Messages), NEW calls, NEW m \in Messages, ~IsIrc(m)
  PROVE  /\ Append(wire, m) \in Seq(Messages)
         /\ Ordered(wire, calls) => Ordered(Append(wire, m), calls)
         /\ \A n : UpTo(n, wire, calls) => UpTo(n, Append(wire, m), calls)
<1> DEFINE w == Append(wire, m)
<1>1. /\ w \in Seq(Messages) /\ Len(w) = Len(wire) + 1 /\ Len(wire) \in Nat
      /\ w[Len(wire) + 1] = m /\ \A i \in 1..Len(wire) : w[i] = wire[i]
  OBVIOUS
<1> SUFFICES /\ Ordered(wire, calls) => Ordered(w, calls)
             /\ \A n : UpTo(n, wire, calls) => UpTo(n, w, calls)
  BY <1>1
<1> HIDE DEF w
<1>2. \A i \in 1..Len(w) : IsIrc(w[i]) => i \in 1..Len(wire)
  BY <1>1
<1>3. Ascending(wire) => Ascending(w)
  BY <1>1, <1>2 DEF Ascending
<1>4. Ordered(wire, calls) => Ordered(w, calls)
  BY <1>1, <1>2, <1>3 DEF Ordered
<1>5. \A n : UpTo(n, wire, calls) => UpTo(n, w, calls)
  BY <1>1, <1>2 DEF UpTo
<1> QED
  BY <1>4, <1>5

\* A receive whose message is not passed on.
LEMMA Skipped ==
  ASSUME NEW wire \in Seq(Messages), NEW calls, NEW data \in Chunks(wire),
         Ordered(wire, calls)
  PROVE  /\ Rest(wire, data) \in Seq(Messages) /\ Ordered(Rest(wire, data), calls)
         /\ \A n : UpTo(n, wire, calls) => UpTo(n, Rest(wire, data), calls)
<1> DEFINE w == Rest(wire, data)
           k == Len(data)
<1>1. /\ w \in Seq(Messages) /\ Len(w) = Len(wire) - k /\ k \in 1..Len(wire)
      /\ Len(wire) \in Nat
      /\ \A i \in 1..Len(w) : w[i] = wire[k + i]
  BY ChunkRest
<1> SUFFICES Ordered(w, calls) /\ \A n : UpTo(n, wire, calls) => UpTo(n, w, calls)
  BY <1>1
<1> HIDE DEF w, k
<1>2. \A i \in 1..Len(w) : k + i \in 1..Len(wire)
  BY <1>1
<1>3. Ascending(w)
  <2> SUFFICES ASSUME NEW i \in 1..Len(w), NEW j \in 1..Len(w), i < j,
                      IsIrc(w[i]), IsIrc(w[j])
               PROVE  Number(w[i]) < Number(w[j])
    BY DEF Ascending
  <2>1. k + i < k + j
    BY <1>1
  <2> QED
    BY <1>1, <1>2, <2>1 DEF Ordered, Ascending
<1>4. Ordered(w, calls)
  BY <1>1, <1>2, <1>3 DEF Ordered
<1>5. \A n : UpTo(n, wire, calls) => UpTo(n, w, calls)
  BY <1>1, <1>2 DEF UpTo
<1> QED
  BY <1>4, <1>5

\* A receive whose message is passed on.
LEMMA Taken ==
  ASSUME NEW wire \in Seq(Messages), NEW calls \in Seq(Seq(Nat)), NEW data \in Chunks(wire),
         Ordered(wire, calls), ParseFromString(data).type = "IRC_MESSAGE"
  PROVE  /\ Append(calls, ParseFromString(data).params) \in Seq(Seq(Nat))
         /\ Ordered(Rest(wire, data), Append(calls, ParseFromString(data).params))
         /\ \A n : UpTo(n, wire, calls) =>
              UpTo(n, Rest(wire, data), Append(calls, ParseFromString(data).params))
<1> DEFINE w == Rest(wire, data)
           k == Len(data)
           p == ParseFromString(data).params
           c == Append(calls, p)
<1>1. /\ Len(w) = Len(wire) - k /\ k \in 1..Len(wire) /\ Len(wire) \in Nat
      /\ \A i \in 1..Len(w) : w[i] = wire[k + i]
      /\ \A i \in 1..k : data[i] = wire[i]
      /\ data \in Seq(Messages) /\ data # <<>>
  <2>1. /\ Len(w) = Len(wire) - k /\ k \in 1..Len(wire) /\ Len(wire) \in Nat
        /\ \A i \in 1..Len(w) : w[i] = wire[k + i]
        /\ \A i \in 1..k : data[i] = wire[i]
        /\ data \in Seq(Messages)
    BY ChunkRest
  <2> QED
    BY <2>1
<1>2. Ordered(w, calls) /\ \A n : UpTo(n, wire, calls) => UpTo(n, w, calls)
  BY Skipped
<1>3. MergedOf(ParseFromString(data), data, k) /\ IsIrc(data[k])
  <2>1. Ascending(data)
    <3> HIDE DEF w
    <3>1. 1..k \subseteq 1..Len(wire)
      BY <1>1
    <3> QED
      BY <1>1, <3>1 DEF Ordered, Ascending
  <2> QED
    BY <1>1, <2>1, ParseMerges DEF IsIrc
<1>4. /\ p \in Seq(Nat) /\ p # <<>>
      /\ \A a, b \in 1..Len(p) : a < b => p[a] < p[b]
      /\ \A a \in 1..Len(p) : \E i \in 1..k : IsIrc(data[i]) /\ p[a] = Number(data[i])
  BY <1>3 DEF MergedOf
<1> SUFFICES /\ c \in Seq(Seq(Nat)) /\ Ordered(w, c)
             /\ \A n : UpTo(n, wire, calls) => UpTo(n, w, c)
  OBVIOUS
<1> HIDE DEF p
<1>5. /\ c \in Seq(Seq(Nat)) /\ Len(c) = Len(calls) + 1 /\ Len(calls) \in Nat
      /\ c[Len(calls) + 1] = p /\ \A i \in 1..Len(calls) : c[i] = calls[i]
  BY <1>4
<1> HIDE DEF c, w
<1>6. \A i \in 1..Len(c) : i \in 1..Len(calls) \/ i = Len(calls) + 1
  BY <1>5
<1>7. \A a \in 1..Len(p) : \E i \in 1..k :
        i \in 1..Len(wire) /\ IsIrc(wire[i]) /\ p[a] = Number(wire[i])
  <2>1. \A i \in 1..k : i \in 1..Len(wire) /\ data[i] = wire[i]
    BY <1>1
  <2> QED
    BY <1>4, <2>1
<1>8. \A i \in 1..Len(calls) : \A a \in 1..Len(calls[i]) :
        \A b \in 1..Len(p) : calls[i][a] < p[b]
  BY <1>7 DEF Ordered
<1>9. InOrder(c)
  <2> SUFFICES ASSUME NEW i \in 1..Len(c), NEW j \in 1..Len(c),
                      NEW a \in 1..Len(c[i]), NEW b \in 1..Len(c[j]),
                      i < j \/ (i = j /\ a < b)
               PROVE  c[i][a] < c[j][b]
    BY DEF InOrder
  <2>1. CASE j \in 1..Len(calls)
    <3>1. i \in 1..Len(calls)
      BY <1>5, <2>1
    <3> QED
      BY <1>5, <2>1, <3>1 DEF Ordered, InOrder
  <2>2. CASE i \in 1..Len(calls) /\ j = Len(calls) + 1
    BY <1>5, <1>8, <2>2
  <2>3. CASE i = Len(calls) + 1 /\ j = Len(calls) + 1
    <3>1. a < b
      BY <1>5, <2>3
    <3> QED
      BY <1>4, <1>5, <2>3, <3>1
  <2> QED
    BY <1>5, <1>6, <2>1, <2>2, <2>3
<1>10. \A b \in 1..Len(p) : \A j \in 1..Len(w) : IsIrc(w[j]) => p[b] < Number(w[j])
  <2> SUFFICES ASSUME NEW b \in 1..Len(p), NEW j \in 1..Len(w), IsIrc(w[j])
               PROVE  p[b] < Number(w[j])
    OBVIOUS
  <2>1. PICK i \in 1..k : i \in 1..Len(wire) /\ IsIrc(wire[i]) /\ p[b] = Number(wire[i])
    BY <1>7
  <2>2. k + j \in 1..Len(wire) /\ i < k + j
    BY <1>1
  <2> QED
    BY <1>1, <2>1, <2>2 DEF Ordered, Ascending
<1>11. Ordered(w, c)
  BY <1>2, <1>4, <1>5, <1>6, <1>9, <1>10 DEF Ordered
<1>12. ASSUME NEW n, UpTo(n, wire, calls) PROVE UpTo(n, w, c)
  <2>1. UpTo(n, w, calls)
    BY <1>2, <1>12
  <2>2. \A a \in 1..Len(p) : p[a] \in 1..n
    BY <1>7, <1>12 DEF UpTo
  <2> QED
    BY <1>5, <1>6, <2>1, <2>2 DEF UpTo
<1> QED
  BY <1>5, <1>11, <1>12

\* The queue of the worker, the stream to the Bot and the calls it has led to.
ToPluginInv ==
  /\ routed \in Nat
  /\ m_incoming \in [Sessions -> Seq(Nat)]
  /\ toBot \in [Sessions -> Seq(Messages)]
  /\ received \in [Sessions -> Seq(Seq(Nat))]
  /\ \A s \in Sessions :
       /\ Ordered(toBot[s], received[s]) /\ UpTo(routed, toBot[s], received[s])
       /\ Queued(routed, m_incoming[s], toBot[s], received[s])

\* The stream from the Bot and what was passed on from it.
FromPluginInv ==
  /\ forwarded \in [Sessions -> Seq(Seq(Nat))]
  /\ \A s \in Sessions :
       Ordered(fromBot[s], forwarded[s]) /\ UpTo(replies, fromBot[s], forwarded[s])

\* Inductive; implies NothingInvented.
OrderInv == CleanInv /\ ToPluginInv /\ FromPluginInv

LEMMA OrderInit == Init => OrderInv
<1> SUFFICES ASSUME Init PROVE OrderInv
  OBVIOUS
<1>1. \A n : Ordered(<<>>, <<>>) /\ UpTo(n, <<>>, <<>>) /\ Queued(n, <<>>, <<>>, <<>>)
  BY DEF Ordered, Ascending, InOrder, UpTo, Queued
<1>2. \A s \in Sessions :
        /\ toBot[s] = <<>> /\ received[s] = <<>> /\ m_incoming[s] = <<>>
        /\ fromBot[s] = <<>> /\ forwarded[s] = <<>>
  BY DEF Init
<1>3. ToPluginInv
  BY <1>1, <1>2 DEF Init, ToPluginInv
<1>4. FromPluginInv
  BY <1>1, <1>2 DEF Init, FromPluginInv
<1> QED
  BY <1>3, <1>4, CleanInit DEF OrderInv

\* Something other than an IRC_MESSAGE is sent to the plugin of s.
LEMMA ToPluginOther ==
  ASSUME ToPluginInv, NEW s \in Sessions, NEW m \in Messages, ~IsIrc(m),
         SendToPlugin(s, m), UNCHANGED <<routed, m_incoming, received>>
  PROVE  ToPluginInv'
<1> DEFINE w == Append(toBot[s], m)
<1>1. CASE bot[s] = "stopped"
  BY <1>1 DEF SendToPlugin, ToPluginInv
<1>2. CASE bot[s] # "stopped"
  <2>1. toBot' = [toBot EXCEPT ![s] = w]
    BY <1>2 DEF SendToPlugin
  <2>2. toBot[s] \in Seq(Messages)
    BY DEF ToPluginInv
  <2>3. /\ w \in Seq(Messages)
        /\ Ordered(toBot[s], received[s]) => Ordered(w, received[s])
        /\ \A n : UpTo(n, toBot[s], received[s]) => UpTo(n, w, received[s])
    BY <2>2, SentOther
  <2> HIDE DEF w
  <2>4. Queued(routed, m_incoming[s], w, received[s])
    BY <2>3 DEF ToPluginInv, Queued
  <2>5. /\ toBot' \in [Sessions -> Seq(Messages)] /\ toBot'[s] = w
        /\ \A r \in Sessions : r # s => toBot'[r] = toBot[r]
    BY <2>1, <2>3 DEF ToPluginInv
  <2> QED
    BY <2>3, <2>4, <2>5 DEF ToPluginInv
<1> QED
  BY <1>1, <1>2

\* The messages of the bot are not taken for IRC_MESSAGEs.
LEMMA OtherMessages ==
  /\ \A r \in {"OK", "ERROR"} : InitResponse(r) \in Messages /\ ~IsIrc(InitResponse(r))
  /\ BareInitRequest \in Messages /\ ~IsIrc(BareInitRequest)
  /\ ShutdownRequest \in Messages /\ ~IsIrc(ShutdownRequest)
  /\ \A token \in Tokens : InitRequest(token) \in Messages /\ ~IsIrc(InitRequest(token))
<1>1. \A r \in {"OK", "ERROR"} : InitResponse(r) \in Messages /\ ~IsIrc(InitResponse(r))
  BY DEF Messages, InitResponse, Message, IsIrc
<1>2. BareInitRequest \in Messages /\ ~IsIrc(BareInitRequest)
  BY DEF Messages, BareInitRequest, Message, IsIrc
<1>3. ShutdownRequest \in Messages /\ ~IsIrc(ShutdownRequest)
  BY DEF Messages, ShutdownRequest, Message, IsIrc
<1>4. \A token \in Tokens : InitRequest(token) \in Messages /\ ~IsIrc(InitRequest(token))
  BY DEF Messages, InitRequest, Message, IsIrc
<1> QED
  BY <1>1, <1>2, <1>3, <1>4

LEMMA RouteOrder ==
  ASSUME ToPluginInv, Route
  PROVE  ToPluginInv'
<1> DEFINE n == routed + 1
<1>1. routed \in Nat /\ routed' = n /\ UNCHANGED <<toBot, received>>
  BY DEF Route, ToPluginInv, stream, botVars
<1>2. \A s \in Sessions :
        /\ m_incoming[s] \in Seq(Nat)
        /\ m_incoming'[s] \in {m_incoming[s], Append(m_incoming[s], n)}
  BY DEF Route, ToPluginInv
<1>3. m_incoming' \in [Sessions -> Seq(Nat)]
  <2>1. n \in Nat
    BY <1>1
  <2>3. ASSUME NEW s \in Sessions PROVE m_incoming'[s] \in Seq(Nat)
    <3> HIDE DEF n
    <3>1. Append(m_incoming[s], n) \in Seq(Nat)
      BY <1>2, <2>1
    <3> QED
      BY <1>2, <3>1
  <2>2. m_incoming' = [s \in Sessions |-> m_incoming'[s]]
    BY DEF Route
  <2> QED
    BY <2>2, <2>3
<1>4. ASSUME NEW s \in Sessions
      PROVE  /\ UpTo(n, toBot[s], received[s])
             /\ Queued(n, m_incoming'[s], toBot[s], received[s])
  <2> DEFINE q == m_incoming[s]
             r == m_incoming'[s]
             U(i) == UpTo(i, toBot[s], received[s])
  <2>1. q \in Seq(Nat) /\ Len(q) \in Nat
    BY <1>2
  <2>2. U(routed) /\ U(n)
    <3>1. U(routed)
      BY DEF ToPluginInv
    <3> QED
      BY <1>1, <3>1, UpToMore
  <2>3. /\ \A i, j \in 1..Len(q) : i < j => q[i] < q[j]
        /\ \A i \in 1..Len(q) : q[i] \in 1..routed /\ U(q[i] - 1)
    BY DEF ToPluginInv, Queued
  <2>4. CASE r = q
    <3>1. \A i \in 1..Len(q) : q[i] \in 1..n
      BY <1>1, <2>3
    <3> QED
      BY <2>2, <2>3, <2>4, <3>1 DEF Queued
  <2>5. CASE r = Append(q, n)
    <3> HIDE DEF q, r, U
    <3>1. /\ Len(r) = Len(q) + 1 /\ r[Len(q) + 1] = n
          /\ \A i \in 1..Len(q) : r[i] = q[i]
      BY <1>1, <2>1, <2>5
    <3>2. n - 1 = routed /\ n \in 1..n
      BY <1>1
    <3>3. \A i \in 1..Len(r) : i \in 1..Len(q) \/ i = Len(q) + 1
      BY <2>1, <3>1
    <3>4. \A i \in 1..Len(r) : r[i] \in 1..n /\ U(r[i] - 1)
      <4> SUFFICES ASSUME NEW i \in 1..Len(r) PROVE r[i] \in 1..n /\ U(r[i] - 1)
        OBVIOUS
      <4>1. CASE i \in 1..Len(q)
        BY <1>1, <2>3, <3>1, <4>1
      <4>2. CASE i = Len(q) + 1
        BY <2>2, <3>1, <3>2, <4>2
      <4> QED
        BY <3>3, <4>1, <4>2
    <3>5. \A i, j \in 1..Len(r) : i < j => r[i] < r[j]
      <4> SUFFICES ASSUME NEW i \in 1..Len(r), NEW j \in 1..Len(r), i < j
                   PROVE  r[i] < r[j]
        OBVIOUS
      <4>1. i \in 1..Len(q)
        BY <2>1, <3>1
      <4>2. CASE j \in 1..Len(q)
        BY <2>3, <3>1, <4>1, <4>2
      <4>3. CASE j = Len(q) + 1
        BY <1>1, <2>3, <3>1, <4>1, <4>3
      <4> QED
        BY <3>3, <4>2, <4>3
    <3> QED
      BY <2>2, <3>4, <3>5 DEF Queued, U, r
  <2> QED
    BY <1>2, <2>4, <2>5
<1> QED
  BY <1>1, <1>3, <1>4 DEF ToPluginInv

LEMMA OnMessageOrder ==
  ASSUME ToPluginInv, NEW s \in Sessions, OnMessage(s)
  PROVE  ToPluginInv'
<1> DEFINE q == m_incoming[s]
           n == q[1]
           w == Append(toBot[s], IrcMessage(n))
           r == Tail(q)
<1>1. q \in Seq(Nat) /\ q # <<>> /\ toBot[s] \in Seq(Messages)
        /\ received[s] \in Seq(Seq(Nat)) /\ routed \in Nat
  BY DEF OnMessage, ToPluginInv
<1>2. /\ r \in Seq(Nat) /\ Len(r) = Len(q) - 1 /\ Len(q) \in Nat \ {0}
      /\ \A i \in 1..Len(r) : r[i] = q[i + 1]
  BY <1>1
<1>3. /\ m_incoming' = [m_incoming EXCEPT ![s] = r]
      /\ UNCHANGED <<routed, received>>
      /\ toBot' = toBot \/ toBot' = [toBot EXCEPT ![s] = w]
  BY <1>1 DEF OnMessage, SendToPlugin, botVars
<1>4. /\ \A i, j \in 1..Len(q) : i < j => q[i] < q[j]
      /\ \A i \in 1..Len(q) : q[i] \in 1..routed /\ UpTo(q[i] - 1, toBot[s], received[s])
      /\ Ordered(toBot[s], received[s]) /\ UpTo(routed, toBot[s], received[s])
  BY DEF ToPluginInv, Queued
<1> HIDE DEF r, w, q
<1>5. n \in 1..routed /\ n \in Nat \ {0} /\ UpTo(n - 1, toBot[s], received[s])
  <2>1. 1 \in 1..Len(q)
    BY <1>2
  <2>2. n \in 1..routed
    BY <1>4, <2>1
  <2> QED
    BY <1>1, <1>4, <2>1, <2>2
<1> HIDE DEF n
<1>6. w \in Seq(Messages) /\ Ordered(w, received[s]) /\ UpTo(n, w, received[s])
  BY <1>1, <1>4, <1>5, SentIrc DEF w
<1>7. UpTo(routed, w, received[s])
  BY <1>1, <1>5, <1>6, UpToMore
<1>8. \A i \in 1..Len(r) : i + 1 \in 1..Len(q) /\ r[i] = q[i + 1] /\ r[i] \in 1..routed
  BY <1>2, <1>4
<1>9. \A i, j \in 1..Len(r) : i < j => r[i] < r[j]
  <2> SUFFICES ASSUME NEW i \in 1..Len(r), NEW j \in 1..Len(r), i < j
               PROVE  r[i] < r[j]
    OBVIOUS
  <2>1. i + 1 < j + 1
    OBVIOUS
  <2> QED
    BY <1>4, <1>8, <2>1
<1>10. Queued(routed, r, toBot[s], received[s])
  BY <1>4, <1>8, <1>9 DEF Queued
<1>11. Queued(routed, r, w, received[s])
  <2> SUFFICES ASSUME NEW i \in 1..Len(r) PROVE UpTo(r[i] - 1, w, received[s])
    BY <1>8, <1>9 DEF Queued
  <2>1. 1 < i + 1 /\ 1 \in 1..Len(q)
    BY <1>2
  <2>2. n < r[i]
    BY <1>4, <1>8, <2>1 DEF n
  <2>3. r[i] \in Nat /\ n \in Nat
    <3>1. r[i] \in 1..routed
      BY <1>8
    <3> QED
      BY <1>1, <1>5, <3>1
  <2>4. r[i] - 1 \in Nat /\ n <= r[i] - 1
    BY <2>2, <2>3
  <2> QED
    BY <1>6, <2>3, <2>4, UpToMore
<1>12. /\ m_incoming' \in [Sessions -> Seq(Nat)] /\ m_incoming'[s] = r
       /\ \A t \in Sessions : t # s => m_incoming'[t] = m_incoming[t]
  BY <1>2, <1>3 DEF ToPluginInv
<1>13. CASE toBot' = toBot
  BY <1>3, <1>10, <1>12, <1>13 DEF ToPluginInv
<1>14. CASE toBot' = [toBot EXCEPT ![s] = w]
  <2>1. /\ toBot' \in [Sessions -> Seq(Messages)] /\ toBot'[s] = w
        /\ \A t \in Sessions : t # s => toBot'[t] = toBot[t]
    BY <1>6, <1>14 DEF ToPluginInv
  <2> QED
    BY <1>3, <1>6, <1>7, <1>11, <1>12, <2>1 DEF ToPluginInv
<1> QED
  BY <1>3, <1>13, <1>14

\* What is in the stream is lost.
LEMMA StreamLost ==
  ASSUME ToPluginInv, NEW s \in Sessions, toBot' = [toBot EXCEPT ![s] = <<>>],
         UNCHANGED <<routed, m_incoming, received>>
  PROVE  ToPluginInv'
<1>1. /\ toBot' \in [Sessions -> Seq(Messages)] /\ toBot'[s] = <<>>
      /\ \A t \in Sessions : t # s => toBot'[t] = toBot[t]
  BY DEF ToPluginInv
<1>2. \A c, n : UpTo(n, toBot[s], c) => UpTo(n, <<>>, c)
  BY DEF UpTo
<1>3. \A c : Ordered(toBot[s], c) => Ordered(<<>>, c)
  BY DEF Ordered, Ascending
<1>4. Queued(routed, m_incoming[s], <<>>, received[s])
  BY <1>2 DEF Queued, ToPluginInv
<1> QED
  BY <1>1, <1>2, <1>3, <1>4 DEF ToPluginInv

LEMMA BotReceiveOrder ==
  ASSUME ToPluginInv, NEW s \in Sessions, NEW data \in Chunks(toBot[s]),
         BotReceive(s, data)
  PROVE  ToPluginInv'
<1> DEFINE m == ParseFromString(data)
           w == Rest(toBot[s], data)
           c == Append(received[s], m.params)
<1>1. UNCHANGED <<routed, m_incoming>>
  BY DEF BotReceive, worker
<1>2. CASE m.type = "CONTROL_REQUEST"
  <2>1. toBot' = [toBot EXCEPT ![s] = <<>>] /\ UNCHANGED received
    BY <1>2 DEF BotReceive
  <2> QED
    BY <1>1, <2>1, StreamLost
<1>3. CASE m.type # "CONTROL_REQUEST"
  <2>1. toBot' = [toBot EXCEPT ![s] = w]
    BY <1>3 DEF BotReceive
  <2>2. toBot[s] \in Seq(Messages) /\ received[s] \in Seq(Seq(Nat))
          /\ Ordered(toBot[s], received[s])
    BY DEF ToPluginInv
  <2>3. /\ w \in Seq(Messages) /\ Ordered(w, received[s])
        /\ \A n : UpTo(n, toBot[s], received[s]) => UpTo(n, w, received[s])
    BY <2>2, Skipped
  <2>4. /\ toBot' \in [Sessions -> Seq(Messages)] /\ toBot'[s] = w
        /\ \A t \in Sessions : t # s => toBot'[t] = toBot[t]
    BY <2>1, <2>3 DEF ToPluginInv
  <2>5. CASE m.type # "IRC_MESSAGE"
    <3>1. received' = received
      BY <2>5 DEF BotReceive
    <3> HIDE DEF w
    <3>2. Queued(routed, m_incoming[s], w, received[s])
      BY <2>3 DEF Queued, ToPluginInv
    <3> QED
      BY <1>1, <2>3, <2>4, <3>1, <3>2 DEF ToPluginInv
  <2>6. CASE m.type = "IRC_MESSAGE"
    <3>1. received' = [received EXCEPT ![s] = c]
      BY <2>6 DEF BotReceive
    <3>2. /\ c \in Seq(Seq(Nat)) /\ Ordered(w, c)
          /\ \A n : UpTo(n, toBot[s], received[s]) => UpTo(n, w, c)
      BY <2>2, <2>6, Taken
    <3> HIDE DEF w, c
    <3>3. Queued(routed, m_incoming[s], w, c)
      BY <3>2 DEF Queued, ToPluginInv
    <3>4. /\ received' \in [Sessions -> Seq(Seq(Nat))] /\ received'[s] = c
          /\ \A t \in Sessions : t # s => received'[t] = received[t]
      BY <3>1, <3>2 DEF ToPluginInv
    <3> QED
      BY <1>1, <2>4, <3>2, <3>3, <3>4 DEF ToPluginInv
  <2> QED
    BY <2>5, <2>6
<1> QED
  BY <1>2, <1>3

LEMMA ToPluginStep ==
  ASSUME ToPluginInv, [Next]_vars
  PROVE  ToPluginInv'
<1> USE DEF session, worker, stream, botVars, config, core
<1>1. ASSUME UNCHANGED <<routed, m_incoming, toBot, received>> PROVE ToPluginInv'
  BY <1>1 DEF ToPluginInv
<1>2. ASSUME NEW s \in Sessions, NEW data \in Chunks(fromBot[s]),
             HandleInitRequest(s, data)
      PROVE  ToPluginInv'
  BY <1>2, ToPluginOther, OtherMessages DEF HandleInitRequest
<1>3. ASSUME NEW s \in Sessions, NEW data \in Chunks(fromBot[s]),
             RefuseInitRequest(s, data)
      PROVE  ToPluginInv'
  BY <1>3, ToPluginOther, OtherMessages DEF RefuseInitRequest
<1>4. ASSUME NEW s \in Sessions, NEW t \in {"io", "main"}, OnShutdown(t, s)
      PROVE  ToPluginInv'
  <2>1. CASE m_socket[s] = "open"
    BY <1>4, <2>1, ToPluginOther, OtherMessages DEF OnShutdown
  <2>2. CASE m_socket[s] # "open"
    BY <1>1, <1>4, <2>2 DEF OnShutdown
  <2> QED
    BY <2>1, <2>2
<1>5. ASSUME NEW s \in Sessions, RunEntry(s) PROVE ToPluginInv'
  BY <1>1, <1>5, ToPluginOther, OtherMessages DEF RunEntry
<1>6. ASSUME NEW s \in Sessions, BotStop(s) PROVE ToPluginInv'
  BY <1>6, StreamLost DEF BotStop
<1>7. ASSUME NEW s \in Sessions,
             \/ AcceptConnection(s) \/ HandleEof(s) \/ StopAfterEof(s)
             \/ HandleTimer(s) \/ HandleTimerTooLate(s)
             \/ AcceptReset(s)
             \/ \E data \in Chunks(fromBot[s]) :
                  TokenUnset(s, data) \/ HandleIrcMessage(s, data)
      PROVE  ToPluginInv'
  BY <1>1, <1>7 DEF AcceptConnection, AcceptReset, TokenUnset, HandleEof, StopAfterEof,
     HandleTimer, HandleTimerTooLate, HandleIrcMessage
<1>8. ASSUME NEW s \in Sessions, NEW t \in {"io", "main"},
             Join(t, s) \/ RemovePlugin(t, s) \/ UseDestroyed(t, s)
      PROVE  ToPluginInv'
  BY <1>1, <1>8 DEF Join, RemovePlugin, UseDestroyed
<1>9. ASSUME NEW s \in Sessions,
             \/ TimerExpires(s) \/ WaitTimeout(s) \/ BotSend(s)
             \/ \E token \in Tokens : BotStart(s, token)
      PROVE  ToPluginInv'
  BY <1>1, <1>9 DEF TimerExpires, WaitTimeout, BotSend, BotStart
<1>10. ASSUME \/ ConnectionError \/ Signal \/ StopNext \/ CloseServer
              \/ Deinitialize \/ Exit \/ UNCHANGED vars
       PROVE  ToPluginInv'
  BY <1>1, <1>10 DEF ConnectionError, Signal, StopNext, CloseServer, Deinitialize,
     Exit, vars
<1> QED
  BY <1>2, <1>3, <1>4, <1>5, <1>6, <1>7, <1>8, <1>9, <1>10, RouteOrder,
     OnMessageOrder, BotReceiveOrder
     DEF Next, Main, Handler, Stop, Worker, BotStep, BotReceives

\* The stream from the plugin of s and what has been taken from it change.
LEMMA FromPluginChange ==
  ASSUME TypeOK, FromPluginInv, NEW s \in Sessions, NEW w, NEW c \in Seq(Seq(Nat)),
         fromBot' = [fromBot EXCEPT ![s] = w],
         forwarded' = [forwarded EXCEPT ![s] = c],
         Ordered(w, c), UpTo(replies', w, c),
         replies \in Nat, replies' \in Nat, replies <= replies'
  PROVE  FromPluginInv'
<1>1. /\ fromBot'[s] = w /\ forwarded'[s] = c
      /\ forwarded' \in [Sessions -> Seq(Seq(Nat))]
      /\ \A r \in Sessions : r # s => fromBot'[r] = fromBot[r] /\ forwarded'[r] = forwarded[r]
  BY DEF TypeOK, FromPluginInv
<1>2. \A r \in Sessions : UpTo(replies', fromBot[r], forwarded[r])
  BY UpToMore DEF FromPluginInv
<1> QED
  BY <1>1, <1>2 DEF FromPluginInv

LEMMA FromPluginStep ==
  ASSUME TypeOK, FromPluginInv, [Next]_vars
  PROVE  FromPluginInv'
<1> USE DEF session, worker, stream, botVars, config, core
<1>1. ASSUME UNCHANGED <<replies, fromBot, forwarded>> PROVE FromPluginInv'
  BY <1>1 DEF FromPluginInv
<1>2. ASSUME NEW s \in Sessions
      PROVE  /\ fromBot[s] \in Seq(Messages) /\ forwarded[s] \in Seq(Seq(Nat))
             /\ Ordered(fromBot[s], forwarded[s])
             /\ UpTo(replies, fromBot[s], forwarded[s]) /\ replies \in Nat
             /\ forwarded = [forwarded EXCEPT ![s] = forwarded[s]]
  <2>1. BotMessages \subseteq Messages
    BY DEF BotMessages, Messages
  <2> QED
    BY <2>1 DEF TypeOK, FromPluginInv
<1>3. ASSUME NEW s \in Sessions, NEW data \in Chunks(fromBot[s]), Receives(s, data),
             UNCHANGED <<replies, forwarded>>
      PROVE  FromPluginInv'
  <2> DEFINE w == Rest(fromBot[s], data)
  <2>1. fromBot' = [fromBot EXCEPT ![s] = w]
    BY <1>3 DEF Receives
  <2>2. Ordered(w, forwarded[s]) /\ UpTo(replies, w, forwarded[s])
    BY <1>2, Skipped
  <2> HIDE DEF w
  <2>3. replies' = replies /\ forwarded' = [forwarded EXCEPT ![s] = forwarded[s]]
    BY <1>2, <1>3
  <2>4. UpTo(replies', w, forwarded[s]) /\ replies <= replies'
    BY <1>2, <2>2, <2>3
  <2> QED
    BY <1>2, <2>1, <2>2, <2>3, <2>4, FromPluginChange
<1>4. ASSUME NEW s \in Sessions, NEW data \in Chunks(fromBot[s]),
             \/ HandleInitRequest(s, data) \/ RefuseInitRequest(s, data)
             \/ TokenUnset(s, data)
      PROVE  FromPluginInv'
  BY <1>3, <1>4, InitReceived DEF HandleInitRequest, RefuseInitRequest, TokenUnset
<1>5. ASSUME NEW s \in Sessions, NEW data \in Chunks(fromBot[s]),
             HandleIrcMessage(s, data)
      PROVE  FromPluginInv'
  <2> DEFINE w == Rest(fromBot[s], data)
             c == Append(forwarded[s], ParseFromString(data).params)
  <2>1. /\ fromBot' = [fromBot EXCEPT ![s] = w]
        /\ forwarded' = [forwarded EXCEPT ![s] = c] /\ replies' = replies
    BY <1>5 DEF HandleIrcMessage, Receives
  <2>2. c \in Seq(Seq(Nat)) /\ Ordered(w, c) /\ UpTo(replies, w, c)
    BY <1>2, <1>5, Taken DEF HandleIrcMessage
  <2> HIDE DEF w, c
  <2>3. UpTo(replies', w, c) /\ replies <= replies'
    BY <1>2, <2>1, <2>2
  <2> QED
    BY <1>2, <2>1, <2>2, <2>3, FromPluginChange
<1>6. ASSUME NEW s \in Sessions, NEW token \in Tokens, BotStart(s, token)
      PROVE  FromPluginInv'
  <2> DEFINE w == Append(fromBot[s], InitRequest(token))
  <2>1. fromBot' = [fromBot EXCEPT ![s] = w] /\ UNCHANGED <<replies, forwarded>>
    BY <1>6 DEF BotStart
  <2>2. Ordered(w, forwarded[s]) /\ UpTo(replies, w, forwarded[s])
    BY <1>2, SentOther, OtherMessages
  <2> HIDE DEF w
  <2>3. /\ UpTo(replies', w, forwarded[s]) /\ replies <= replies'
        /\ forwarded' = [forwarded EXCEPT ![s] = forwarded[s]]
    BY <1>2, <2>1, <2>2
  <2> QED
    BY <1>2, <2>1, <2>2, <2>3, FromPluginChange
<1>7. ASSUME NEW s \in Sessions, BotSend(s) PROVE FromPluginInv'
  <2> DEFINE n == replies + 1
             w == Append(fromBot[s], IrcMessage(n))
  <2>1. fromBot' = [fromBot EXCEPT ![s] = w] /\ UNCHANGED forwarded /\ replies' = n
    BY <1>7 DEF BotSend
  <2>2. n \in Nat \ {0} /\ n - 1 = replies /\ replies <= n
    BY <1>2
  <2> HIDE DEF n
  <2>3. Ordered(w, forwarded[s]) /\ UpTo(n, w, forwarded[s])
    BY <1>2, <2>2, SentIrc
  <2> QED
    BY <1>2, <2>1, <2>2, <2>3, FromPluginChange
<1>8. ASSUME NEW s \in Sessions,
             \/ AcceptConnection(s) \/ HandleEof(s) \/ StopAfterEof(s)
             \/ HandleTimer(s) \/ HandleTimerTooLate(s) \/ AcceptReset(s)
      PROVE  FromPluginInv'
  BY <1>1, <1>8 DEF AcceptConnection, AcceptReset, HandleEof, StopAfterEof, HandleTimer,
     HandleTimerTooLate
<1>9. ASSUME NEW s \in Sessions, NEW t \in {"io", "main"}, Stop(t, s)
      PROVE  FromPluginInv'
  BY <1>1, <1>9 DEF Stop, Join, OnShutdown, RemovePlugin, UseDestroyed
<1>10. ASSUME NEW s \in Sessions,
              TimerExpires(s) \/ Worker(s) \/ BotStop(s) \/ BotReceives(s)
      PROVE  FromPluginInv'
  BY <1>1, <1>10 DEF TimerExpires, Worker, RunEntry, OnMessage, WaitTimeout, BotStop,
     BotReceives, BotReceive
<1>11. ASSUME \/ Route \/ ConnectionError \/ Signal \/ StopNext \/ CloseServer
              \/ Deinitialize \/ Exit \/ UNCHANGED vars
       PROVE  FromPluginInv'
  BY <1>1, <1>11 DEF Route, ConnectionError, Signal, StopNext, CloseServer,
     Deinitialize, Exit, vars
<1> QED
  BY <1>4, <1>5, <1>6, <1>7, <1>8, <1>9, <1>10, <1>11 DEF Next, Main, Handler, BotStep

LEMMA OrderStep == OrderInv /\ [Next]_vars => OrderInv'
  BY CleanStep, ToPluginStep, FromPluginStep DEF OrderInv, CleanInv

\* Whatever the threads do and however receives merge messages, what a plugin
\* and what Core::send is given are messages that were sent, in order and none
\* of them twice, and no call comes without one.
THEOREM NothingInventedCorrect == Spec => []NothingInvented
<1>1. OrderInv => NothingInvented
  <2> SUFFICES ASSUME OrderInv, NEW s \in Sessions
               PROVE  /\ InOrder(received[s]) /\ InOrder(forwarded[s])
                      /\ \A i \in 1..Len(received[s]) :
                           received[s][i] \in Seq(1..routed) \ {<<>>}
                      /\ \A i \in 1..Len(forwarded[s]) :
                           forwarded[s][i] \in Seq(1..replies) \ {<<>>}
    BY DEF NothingInvented
  <2>1. ASSUME NEW n, NEW wire, NEW calls \in Seq(Seq(Nat)), Ordered(wire, calls),
               UpTo(n, wire, calls), NEW i \in 1..Len(calls)
        PROVE  calls[i] \in Seq(1..n) \ {<<>>}
    <3>1. calls[i] \in Seq(Nat) /\ calls[i] # <<>>
      BY <2>1 DEF Ordered
    <3>2. \A a \in 1..Len(calls[i]) : calls[i][a] \in 1..n
      BY <2>1 DEF UpTo
    <3>3. Len(calls[i]) \in Nat /\ calls[i] \in [1..Len(calls[i]) -> 1..n]
      BY <3>1, <3>2
    <3>4. calls[i] \in UNION {[1..k -> 1..n] : k \in Nat}
      BY <3>3
    <3>5. calls[i] \in Seq(1..n)
      BY <3>4, SeqDef, Zenon
    <3> QED
      BY <3>1, <3>5
  <2>2. /\ received[s] \in Seq(Seq(Nat)) /\ forwarded[s] \in Seq(Seq(Nat))
        /\ Ordered(toBot[s], received[s]) /\ UpTo(routed, toBot[s], received[s])
        /\ Ordered(fromBot[s], forwarded[s]) /\ UpTo(replies, fromBot[s], forwarded[s])
    BY DEF OrderInv, ToPluginInv, FromPluginInv
  <2>3. InOrder(received[s]) /\ InOrder(forwarded[s])
    BY <2>2 DEF Ordered
  <2> QED
    BY <2>1, <2>2, <2>3
<1> QED
  BY <1>1, OrderInit, OrderStep, PTL DEF Spec

=============================================================================
