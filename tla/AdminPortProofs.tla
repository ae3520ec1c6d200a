-------------------------- MODULE AdminPortProofs ---------------------------
(***************************************************************************)
(* Theorems about AdminPort, for any number of clients, plugins, files,    *)
(* versions, commands and runs.                                            *)
(***************************************************************************)
EXTENDS AdminPort, FiniteSetTheorems, TLAPS

\* The plugin that the command works on.
Current == Head(io.ids)

\* While a plugin is restarted or reloaded it is one of the configuration, and
\* main waits; from removePlugin() to loadPlugin() Core does not hold it.
BusyInv ==
  /\ io.pc \in {"join", "close", "load"} =>
       /\ main = "wait" /\ io.ids # <<>>
       /\ Current \in Plugins /\ path[Current] \in Files
  /\ io.pc = "join" => worker[Current] # "none"
  /\ io.pc \in {"close", "load"} => worker[Current] = "none"
  /\ main = "restart" => \A p \in Plugins : worker[p] = "none"

\* Only plugins of the configuration are held.
PathInv == \A p \in m_plugins : path[p] \in Files

\* The plugins whose handles of f are open: those that Core holds, and the one
\* between its removal and dlclose.
Holders(f) ==
  {p \in Plugins : /\ path[p] = f
                   /\ worker[p] # "none" \/ (io.pc = "close" /\ Current = p)}

\* The count of dlopen covers the holders; in the first run it has no others.
CountInv ==
  \A f \in Files :
    /\ Cardinality(Holders(f)) <= opened[f]
    /\ main = "wait" /\ runs = 1 => opened[f] = Cardinality(Holders(f))

\* A plugin runs what is mapped.
VersionInv == \A p \in m_plugins : mapped[path[p]] = version[p]

\* Inductive; implies NoUnmappedCode and ReloadTakesNewVersion.
LibraryInv == TypeOK /\ BusyInv /\ PathInv /\ CountInv /\ VersionInv

\* A client enters the vector once, and until the first stop its object is
\* moved only when there is another one.
ClientInv ==
  /\ IsFiniteSet(m_clients)
  /\ \A c \in m_clients : peer[c] # "new"
  /\ accept \in Clients => peer[accept] # "new" /\ accept \notin m_clients
  /\ main = "wait" /\ runs = 1 =>
       /\ moved # {} => Cardinality(m_clients) > 1
       /\ \A c \in Clients : receive[c] \in {"none", "pending"}

\* Inductive; implies SafeAlone.
SafeInv == LibraryInv /\ ClientInv /\ SafeAlone

-----------------------------------------------------------------------------
(* Counting *)

\* A set with an element is counted, one with another element twice.
LEMMA CountMembers ==
  ASSUME NEW S, IsFiniteSet(S), NEW x \in S
  PROVE  /\ Cardinality(S) \in Nat /\ Cardinality(S) >= 1
         /\ \A y \in S : y # x => Cardinality(S) >= 2
<1>1. Cardinality(S) \in Nat /\ Cardinality(S) >= 1
  BY FS_CardinalityType, FS_EmptySet
<1>2. ASSUME NEW y \in S, y # x PROVE Cardinality(S) >= 2
  <2>1. IsFiniteSet(S \ {x}) /\ Cardinality(S \ {x}) = Cardinality(S) - 1
    BY FS_RemoveElement
  <2>2. Cardinality(S \ {x}) \in Nat
    BY <2>1, FS_CardinalityType
  <2>3. S \ {x} # {}
    BY <1>2
  <2>4. Cardinality(S \ {x}) # 0
    BY <2>1, <2>3, FS_EmptySet
  <2> QED
    BY <1>1, <2>1, <2>2, <2>4
<1> QED
  BY <1>1, <1>2

\* The holders of a file are finitely many, and each of them counts.
LEMMA HolderCounts ==
  ASSUME NEW f
  PROVE  /\ IsFiniteSet(Holders(f)) /\ Cardinality(Holders(f)) \in Nat
         /\ \A p \in Holders(f) :
              /\ Cardinality(Holders(f)) >= 1
              /\ \A q \in Holders(f) : q # p => Cardinality(Holders(f)) >= 2
<1>1. IsFiniteSet(Holders(f))
  BY AdminAssumption, FS_Subset DEF Holders
<1> QED
  BY <1>1, CountMembers, FS_CardinalityType

-----------------------------------------------------------------------------
(* Types *)

\* processCommand() sees a known or an unknown name and a list of words.
LEMMA ReceivedType ==
  ASSUME TypeOK, NEW c \in Clients, NEW n \in 1..Len(wire[c]), n <= 2
  PROVE  /\ Received(c, n).op
              \in PerPlugin \cup {"shutdown", "malformed", "unknown"}
         /\ Received(c, n).ids \in Seq(Words)
<1>1. ASSUME NEW x \in Commands
      PROVE  /\ x.op \in PerPlugin \cup {"shutdown", "malformed"}
             /\ x.ids \in Seq(Words)
  <2>1. CASE x \in [op : PerPlugin, ids : {<<p>> : p \in Plugins}]
    <3>1. PICK p \in Plugins : x.ids = <<p>>
      BY <2>1
    <3>2. p \in Words
      BY DEF Words
    <3> QED
      BY <2>1, <3>1, <3>2
  <2>2. CASE x \in [op : {"shutdown", "malformed"}, ids : {<<>>}]
    <3>1. x.ids = <<>> /\ x.op \in {"shutdown", "malformed"}
      BY <2>2
    <3> QED
      BY <3>1
  <2> QED
    BY <2>1, <2>2 DEF Commands
<1>2. ASSUME NEW a \in Commands, NEW b \in Commands
      PROVE  /\ Merge(a, b).op
                  \in PerPlugin \cup {"shutdown", "malformed", "unknown"}
             /\ Merge(a, b).ids \in Seq(Words)
  <2>1. CASE a.ids = <<>>
    BY <2>1, <1>1 DEF Merge
  <2>2. CASE a.ids # <<>>
    <3>1. b.op \in Words /\ a.ids \in Seq(Words) /\ b.ids \in Seq(Words)
      BY <1>1 DEF Words
    <3>2. (a.ids \o <<b.op>>) \o b.ids \in Seq(Words)
      BY <3>1
    <3> QED
      BY <1>1, <2>2, <3>2 DEF Merge
  <2> QED
    BY <2>1, <2>2
<1>3. wire[c] \in Seq(Commands)
  BY DEF TypeOK
<1>4. wire[c][1] \in Commands /\ (n # 1 => wire[c][2] \in Commands)
  BY <1>3
<1> QED
  BY <1>1, <1>2, <1>4 DEF Received

\* The io thread in a command: the fields of io, and what Goto() and the end of
\* one argument make of them.
LEMMA CommandState ==
  ASSUME TypeOK, io.pc \in {"command", "join", "close", "load"},
         NEW to \in {"command", "join", "close", "load"}
  PROVE  /\ io.ids \in Seq(Words) /\ io.client \in Clients
         /\ [io EXCEPT !.pc = to] \in IoStates
         /\ [io EXCEPT !.pc = to].pc = to
         /\ [io EXCEPT !.pc = to].ids = io.ids
         /\ io.ids # <<>> =>
              /\ [io EXCEPT !.pc = to, !.ids = Tail(@)] \in IoStates
              /\ [io EXCEPT !.pc = to, !.ids = Tail(@)].pc = to
<1>1. io \in [pc : {"command", "join", "close", "load"}, client : Clients,
             op : PerPlugin \cup {"shutdown", "unknown"}, ids : Seq(Words)]
  BY DEF TypeOK, IoStates
<1>2. io.ids \in Seq(Words) /\ (io.ids # <<>> => Tail(io.ids) \in Seq(Words))
  BY <1>1
<1> QED
  BY <1>1, <1>2 DEF IoStates

LEMMA TypeInit == Init => TypeOK
<1> SUFFICES ASSUME Init PROVE TypeOK
  OBVIOUS
<1> USE AdminAssumption
<1>1. io \in IoStates
  BY DEF Init, Idle, IoStates
<1>2. path \in [Plugins -> Files \cup {"none"}] /\ changing \subseteq Files
  BY DEF Init
<1>3. opened \in [Files -> Nat]
  <2>1. \A f \in Files : Cardinality(Users(f)) \in Nat
    BY FS_Subset, FS_CardinalityType DEF Users
  <2> QED
    BY <2>1 DEF Init
<1>4. m_admin_port \in BOOLEAN /\ m_running \in [Plugins -> BOOLEAN]
  BY DEF Init
<1>5. wire \in [Clients -> Seq(Commands)]
  BY DEF Init
<1>6. /\ receive \in [Clients -> {"none", "pending", "stale", "accepted"}]
      /\ peer \in [Clients -> {"new", "open", "closed"}]
      /\ worker \in [Plugins -> {"none", "starting", "running", "ended"}]
  BY DEF Init
<1>7. /\ disk \in [Files -> 0..MaxVersion] /\ mapped \in [Files -> 0..MaxVersion]
      /\ version \in [Plugins -> 0..MaxVersion]
  BY DEF Init
<1> QED
  BY <1>1, <1>2, <1>3, <1>4, <1>5, <1>6, <1>7 DEF Init, TypeOK

\* Every step keeps the types.
LEMMA TypeStep ==
  ASSUME LibraryInv, Next
  PROVE  TypeOK'
<1> USE AdminAssumption DEF LibraryInv, TypeOK, At, Alive, Goto, process,
    sessions, remote, files, library, plugins
<1>1. CASE HandleAccept
  BY <1>1 DEF HandleAccept, Rearm
<1>2. CASE EndCommand
  BY <1>2 DEF EndCommand, Rearm, IoStates, Idle
<1>3. CASE SkipUnknown
  <2>1. io' \in IoStates
    <3>1. [io EXCEPT !.ids = Tail(@)] = [io EXCEPT !.pc = "command", !.ids = Tail(@)]
      BY <1>3 DEF SkipUnknown, IoStates
    <3> QED
      BY <1>3, <3>1, CommandState DEF SkipUnknown
  <2> QED
    BY <1>3, <2>1 DEF SkipUnknown
<1>4. CASE StopPlugin
  BY <1>4 DEF StopPlugin, IoStates
<1>5. CASE RestartPlugin
  <2>1. io' \in IoStates
    BY <1>5, CommandState DEF RestartPlugin, BusyInv
  <2> QED
    BY <1>5, <2>1 DEF RestartPlugin
<1>6. CASE RemovePlugin
  BY <1>6 DEF RemovePlugin, IoStates
<1>7. CASE CloseLibrary
  <2>1. io' \in IoStates
    BY <1>7, CommandState DEF CloseLibrary
  <2>2. opened[path[Current]] > 0
    <3>1. Current \in Holders(path[Current]) /\ path[Current] \in Files
      BY <1>7 DEF CloseLibrary, Holders, BusyInv
    <3> QED
      BY <3>1, HolderCounts DEF CountInv
  <2>3. opened' \in [Files -> Nat]
    <3>1. opened' = [opened EXCEPT ![path[Current]] = @ - 1]
      BY <1>7 DEF CloseLibrary, Current
    <3>2. path[Current] \in Files /\ opened[path[Current]] - 1 \in Nat
      BY <1>7, <2>2 DEF CloseLibrary, BusyInv
    <3> QED
      BY ONLY <3>1, <3>2, opened \in [Files -> Nat]
  <2>4. mapped' \in [Files -> 0..MaxVersion]
    <3>1. mapped' = [mapped EXCEPT ![path[Current]] =
                       IF opened[path[Current]] = 1 THEN 0 ELSE @]
      BY <1>7 DEF CloseLibrary, Current
    <3>2. 0 \in 0..MaxVersion
      OBVIOUS
    <3> QED
      BY ONLY <3>1, <3>2, mapped \in [Files -> 0..MaxVersion]
  <2> QED
    BY <1>7, <2>1, <2>3, <2>4 DEF CloseLibrary
<1>8. CASE LoadPlugin
  <2>1. io' \in IoStates
    BY <1>8, CommandState DEF LoadPlugin, BusyInv
  <2>2. path[Current] \in Files /\ Loaded(path[Current]) \in 0..MaxVersion
    BY <1>8 DEF LoadPlugin, Loaded, BusyInv
  <2> QED
    <3>1. opened' \in [Files -> Nat]
      <4>1. opened' = [opened EXCEPT ![path[Current]] = @ + 1]
        BY <1>8 DEF LoadPlugin, Current
      <4> QED
        BY ONLY <2>2, <4>1, opened \in [Files -> Nat]
    <3>2. /\ mapped' \in [Files -> 0..MaxVersion]
          /\ version' \in [Plugins -> 0..MaxVersion]
      BY <1>8, <2>2 DEF LoadPlugin, Current
    <3> QED
      BY <1>8, <2>1, <3>1, <3>2 DEF LoadPlugin
<1>9. CASE LoadFails
  BY <1>9 DEF LoadFails
<1>10. CASE Shutdown
  BY <1>10 DEF Shutdown, IoStates
<1>11. CASE StopNext
  <2>1. PICK p \in m_plugins :
          /\ m_running' = [m_running EXCEPT ![p] = FALSE]
          /\ io' = [pc |-> "joinForStop", op |-> io.op, ids |-> <<p>>]
    BY <1>11 DEF StopNext
  <2>2. p \in Plugins /\ p \in Words
    BY DEF m_plugins, Words
  <2>3. io' \in IoStates
    <3>1. io.op \in {"error", "shutdown"}
      BY <1>11 DEF StopNext, IoStates
    <3> QED
      BY <2>1, <2>2, <3>1 DEF IoStates
  <2> QED
    BY <1>11, <2>1, <2>2, <2>3 DEF StopNext
<1>12. CASE StopNextReturns
  BY <1>12 DEF StopNextReturns, IoStates
<1>13. CASE StopEnds
  <2>1. io' \in IoStates
    BY <1>13 DEF StopEnds, Idle, IoStates
  <2>2. receive' \in [Clients -> {"none", "pending", "stale", "accepted"}]
    BY <1>13 DEF StopEnds, Aborted
  <2>3. wire' \in [Clients -> Seq(Commands)]
    BY <1>13 DEF StopEnds, Discarded
  <2> QED
    BY <1>13, <2>1, <2>2, <2>3 DEF StopEnds
<1>14. CASE StopThrows
  BY <1>14 DEF StopThrows
<1>15. CASE ConnectionError
  BY <1>15 DEF ConnectionError, IoStates
<1>16. CASE Run
  <2>1. opened' \in [Files -> Nat]
    <3> DEFINE loaded == {p \in Plugins : path[p] # "none" /\ Loadable(path[p])}
    <3>1. \A f \in Files : Cardinality(Users(f) \cap loaded) \in Nat
      BY FS_Subset, FS_CardinalityType DEF Users
    <3>2. opened' = [f \in Files |-> opened[f] + Cardinality(Users(f) \cap loaded)]
      BY <1>16 DEF Run
    <3> HIDE DEF loaded
    <3> QED
      BY ONLY <3>1, <3>2, opened \in [Files -> Nat]
  <2>2. \A f \in Files : Loaded(f) \in 0..MaxVersion
    BY DEF Loaded
  <2>3. mapped' \in [Files -> 0..MaxVersion] /\ version' \in [Plugins -> 0..MaxVersion]
    BY <1>16, <2>2 DEF Run
  <2> QED
    BY <1>16, <2>1, <2>3 DEF Run
<1>17. ASSUME NEW c \in Clients, ConnectClient(c) PROVE TypeOK'
  BY <1>17 DEF ConnectClient
<1>18. ASSUME NEW c \in Clients, SendCommand(c) PROVE TypeOK'
  BY <1>18 DEF SendCommand
<1>19. ASSUME NEW c \in Clients, Disconnect(c) PROVE TypeOK'
  BY <1>19 DEF Disconnect
<1>20. ASSUME NEW c \in Clients, HandleStaleAccept(c) PROVE TypeOK'
  BY <1>20 DEF HandleStaleAccept
<1>21. ASSUME NEW c \in Clients, HandleReceive(c) PROVE TypeOK'
  <2>1. io' \in IoStates
    BY <1>21, ReceivedType DEF HandleReceive, IoStates
  <2> QED
    BY <1>21, <2>1 DEF HandleReceive
<1>22. ASSUME NEW c \in Clients, HandleEnd(c) PROVE TypeOK'
  BY <1>22 DEF HandleEnd
<1>23. ASSUME NEW f \in Files, ReplaceFile(f) PROVE TypeOK'
  BY <1>23 DEF ReplaceFile
<1>24. ASSUME NEW p \in Plugins, WorkerBegins(p) PROVE TypeOK'
  BY <1>24 DEF WorkerBegins
<1>25. ASSUME NEW p \in Plugins, WorkerEnds(p) PROVE TypeOK'
  BY <1>25 DEF WorkerEnds
<1> QED
  BY <1>1, <1>2, <1>3, <1>4, <1>5, <1>6, <1>7, <1>8, <1>9, <1>10, <1>11, <1>12,
     <1>13, <1>14, <1>15, <1>16, <1>17, <1>18, <1>19, <1>20, <1>21, <1>22, <1>23,
     <1>24, <1>25 DEF Next, Environment, Handler, Worker

-----------------------------------------------------------------------------
(* Libraries *)

LEMMA LibraryInit == Init => LibraryInv
<1> SUFFICES ASSUME Init PROVE LibraryInv
  OBVIOUS
<1> USE AdminAssumption
<1>1. TypeOK
  BY TypeInit
<1>2. BusyInv
  BY DEF Init, Idle, BusyInv
<1>3. PathInv
  BY <1>1 DEF Init, PathInv, m_plugins, TypeOK
<1>4. ASSUME NEW f \in Files PROVE Holders(f) = Users(f)
  BY DEF Init, Holders, Users, Idle
<1>5. ASSUME NEW f \in Files
      PROVE  opened[f] = Cardinality(Holders(f)) /\ Cardinality(Holders(f)) \in Nat
  BY <1>4, HolderCounts DEF Init
<1>6. CountInv
  BY <1>5 DEF CountInv
<1>7. ASSUME NEW p \in m_plugins PROVE mapped[path[p]] = version[p]
  <2>1. path[p] \in Files /\ p \in Holders(path[p]) /\ p \in Plugins
    BY <1>3 DEF PathInv, Holders, m_plugins
  <2>2. opened[path[p]] # 0
    BY <2>1, <1>5, HolderCounts
  <2> QED
    BY <2>1, <2>2 DEF Init
<1> QED
  BY <1>1, <1>2, <1>3, <1>6, <1>7 DEF LibraryInv, VersionInv

\* The steps of the io thread that begin and end no use of a library, and all
\* steps of others: what Core holds and the counts stay as they are.
LEMMA SameHolders ==
  ASSUME LibraryInv, UNCHANGED <<path, main, runs, library, version>>,
         \A p \in Plugins : (worker'[p] = "none") <=> (worker[p] = "none"),
         \/ io' = io
         \/ io.pc # "close" /\ io'.pc \notin {"join", "close", "load"}
  PROVE  (BusyInv /\ PathInv /\ CountInv /\ VersionInv)'
<1>1. m_plugins' = m_plugins
  BY DEF m_plugins
<1>2. BusyInv'
  BY DEF LibraryInv, BusyInv, Current
<1>3. PathInv' /\ VersionInv'
  BY <1>1 DEF LibraryInv, PathInv, VersionInv, library
<1>4. ASSUME NEW f \in Files PROVE Holders(f)' = Holders(f)
  BY DEF Holders, Current
<1>5. CountInv'
  BY <1>4 DEF LibraryInv, CountInv, library
<1> QED
  BY <1>2, <1>3, <1>5

\* (*it)->stop(): the io thread enters the join, on a plugin that Core holds.
LEMMA StopPluginHolders ==
  ASSUME LibraryInv, StopPlugin
  PROVE  (BusyInv /\ PathInv /\ CountInv /\ VersionInv)'
<1> USE DEF StopPlugin, At, Goto, process, files, library
<1>1. io'.pc = "join" /\ io'.ids = io.ids /\ io.ids # <<>>
  BY CommandState DEF LibraryInv
<1>2. m_plugins' = m_plugins
  BY DEF m_plugins
<1>3. Current' = Current /\ Current \in m_plugins /\ Current \in Plugins
  BY <1>1 DEF Current, m_plugins
<1>4. BusyInv'
  <2>1. main = "wait"
    BY <1>3 DEF LibraryInv, BusyInv, TypeOK, Alive, m_plugins
  <2>2. path[Current] \in Files
    BY <1>3 DEF LibraryInv, PathInv
  <2> QED
    BY <1>1, <1>3, <2>1, <2>2 DEF LibraryInv, BusyInv, m_plugins
<1>5. PathInv' /\ VersionInv'
  BY <1>2 DEF LibraryInv, PathInv, VersionInv
<1>6. ASSUME NEW f \in Files PROVE Holders(f)' = Holders(f)
  BY <1>1 DEF Holders
<1>7. CountInv'
  BY <1>6 DEF LibraryInv, CountInv
<1> QED
  BY <1>4, <1>5, <1>7

\* removePlugin(): the object goes, its handle is still open.
LEMMA RemovePluginHolders ==
  ASSUME LibraryInv, RemovePlugin
  PROVE  (BusyInv /\ PathInv /\ CountInv /\ VersionInv)'
<1> USE DEF RemovePlugin, At, Goto, process, files, library
<1>1. io.pc = "join" /\ io'.pc = "close" /\ io'.ids = io.ids
  BY CommandState DEF LibraryInv
<1>2. /\ Current' = Current /\ Current \in Plugins /\ path[Current] \in Files
      /\ main = "wait" /\ io.ids # <<>> /\ worker[Current] # "none"
  BY <1>1 DEF LibraryInv, BusyInv, Current
<1>3. worker' = [worker EXCEPT ![Current] = "none"]
  BY DEF Current
<1>4. m_plugins' = m_plugins \ {Current}
  BY <1>2, <1>3 DEF m_plugins, LibraryInv, TypeOK
<1>5. BusyInv'
  BY <1>1, <1>2, <1>3 DEF LibraryInv, BusyInv, TypeOK
<1>6. PathInv' /\ VersionInv'
  BY <1>4 DEF LibraryInv, PathInv, VersionInv
<1>7. ASSUME NEW f \in Files PROVE Holders(f)' = Holders(f)
  BY <1>1, <1>2, <1>3 DEF Holders, LibraryInv, TypeOK
<1>8. CountInv'
  BY <1>7 DEF LibraryInv, CountInv
<1> QED
  BY <1>5, <1>6, <1>8

\* dlclose(): one holder less.  If the file is unmapped, no other holds it.
LEMMA CloseLibraryHolders ==
  ASSUME LibraryInv, CloseLibrary
  PROVE  (BusyInv /\ PathInv /\ CountInv /\ VersionInv)'
<1> USE DEF CloseLibrary, At, Goto, process, files, plugins
<1> DEFINE g == path[Current]
<1>1. io.pc = "close" /\ io'.pc = "load" /\ io'.ids = io.ids
  BY CommandState DEF LibraryInv
<1>2. /\ Current' = Current /\ Current \in Plugins /\ g \in Files
      /\ main = "wait" /\ io.ids # <<>> /\ worker[Current] = "none"
  BY <1>1 DEF LibraryInv, BusyInv, Current
<1>3. /\ opened' = [opened EXCEPT ![g] = @ - 1]
      /\ mapped' = [mapped EXCEPT ![g] = IF opened[g] = 1 THEN 0 ELSE @]
  BY DEF Current
<1>4. m_plugins' = m_plugins
  BY DEF m_plugins
<1>5. BusyInv' /\ PathInv'
  BY <1>1, <1>2, <1>4 DEF LibraryInv, BusyInv, PathInv
<1>6. ASSUME NEW f \in Files PROVE Holders(f)' = Holders(f) \ {Current}
  BY <1>1, <1>2 DEF Holders
<1>7. Current \in Holders(g)
  BY <1>1, <1>2 DEF Holders
<1>8. CountInv'
  <2> SUFFICES ASSUME NEW f \in Files
               PROVE  /\ Cardinality(Holders(f))' <= opened'[f]
                      /\ runs = 1 => opened'[f] = Cardinality(Holders(f))'
    BY <1>2 DEF CountInv
  <2>1. opened[f] \in Nat /\ opened \in [Files -> Nat]
    BY DEF LibraryInv, TypeOK
  <2>2. /\ Cardinality(Holders(f)) <= opened[f]
        /\ runs = 1 => opened[f] = Cardinality(Holders(f))
        /\ Cardinality(Holders(f)) \in Nat /\ IsFiniteSet(Holders(f))
    BY <1>2, HolderCounts DEF LibraryInv, CountInv
  <2>3. CASE f = g
    <3>1. Cardinality(Holders(f) \ {Current}) = Cardinality(Holders(f)) - 1
      BY <1>7, <2>2, <2>3, FS_RemoveElement
    <3>2. opened'[f] = opened[f] - 1
      BY <1>3, <2>1, <2>3
    <3>3. Holders(f)' = Holders(f) \ {Current}
      BY <1>6
    <3> QED
      BY ONLY <2>1, <2>2, <3>1, <3>2, <3>3
  <2>4. CASE f # g
    <3>1. Holders(f)' = Holders(f)
      BY <1>6, <2>4 DEF Holders
    <3>2. opened'[f] = opened[f]
      BY <1>3, <2>1, <2>4
    <3> QED
      BY <2>2, <3>1, <3>2
  <2> QED
    BY <2>3, <2>4
<1>9. VersionInv'
  <2> SUFFICES ASSUME NEW p \in m_plugins PROVE mapped'[path[p]] = version[p]
    BY <1>4 DEF VersionInv
  <2>1. mapped[path[p]] = version[p] /\ path[p] \in Files /\ p # Current
    BY <1>2 DEF LibraryInv, VersionInv, PathInv, m_plugins
  <2>2. CASE path[p] = g
    <3>1. p \in Holders(g)
      BY <2>2 DEF Holders, m_plugins
    <3>2. opened[g] >= 2
      BY <1>2, <1>7, <2>1, <3>1, HolderCounts DEF LibraryInv, CountInv, TypeOK
    <3> QED
      BY <1>3, <2>1, <2>2, <3>2 DEF LibraryInv, TypeOK
  <2>3. CASE path[p] # g
    BY <1>3, <2>1, <2>3 DEF LibraryInv, TypeOK
  <2> QED
    BY <2>2, <2>3
<1> QED
  BY <1>5, <1>8, <1>9

\* loadPlugin(): one holder more.
LEMMA LoadPluginHolders ==
  ASSUME LibraryInv, LoadPlugin
  PROVE  (BusyInv /\ PathInv /\ CountInv /\ VersionInv)'
<1> USE DEF LoadPlugin, At, process, files
<1> DEFINE g == path[Current]
<1>1. io.pc = "load" /\ io'.pc = "command"
  BY CommandState DEF LibraryInv, BusyInv
<1>2. /\ Current \in Plugins /\ g \in Files
      /\ main = "wait" /\ worker[Current] = "none"
  BY <1>1 DEF LibraryInv, BusyInv
<1>3. /\ opened' = [opened EXCEPT ![g] = @ + 1]
      /\ mapped' = [mapped EXCEPT ![g] = Loaded(g)]
      /\ version' = [version EXCEPT ![Current] = Loaded(g)]
      /\ worker' = [worker EXCEPT ![Current] = "starting"]
  BY DEF Current
<1>4. m_plugins' = m_plugins \cup {Current}
  BY <1>2, <1>3 DEF m_plugins, LibraryInv, TypeOK
<1>5. BusyInv' /\ PathInv'
  BY <1>1, <1>2, <1>4 DEF LibraryInv, BusyInv, PathInv
<1>6. ASSUME NEW f \in Files
      PROVE  Holders(f)' = IF f = g THEN Holders(f) \cup {Current} ELSE Holders(f)
  BY <1>1, <1>2, <1>3 DEF Holders, LibraryInv, TypeOK
<1>7. Current \notin Holders(g)
  BY <1>1, <1>2 DEF Holders
<1>8. CountInv'
  <2> SUFFICES ASSUME NEW f \in Files
               PROVE  /\ Cardinality(Holders(f))' <= opened'[f]
                      /\ runs = 1 => opened'[f] = Cardinality(Holders(f))'
    BY <1>2 DEF CountInv
  <2>1. opened[f] \in Nat /\ opened \in [Files -> Nat]
    BY DEF LibraryInv, TypeOK
  <2>2. /\ Cardinality(Holders(f)) <= opened[f]
        /\ runs = 1 => opened[f] = Cardinality(Holders(f))
        /\ Cardinality(Holders(f)) \in Nat /\ IsFiniteSet(Holders(f))
    BY <1>2, HolderCounts DEF LibraryInv, CountInv
  <2>3. CASE f = g
    <3>1. Cardinality(Holders(f) \cup {Current}) = Cardinality(Holders(f)) + 1
      BY <1>7, <2>2, <2>3, FS_AddElement
    <3>2. opened'[f] = opened[f] + 1
      BY <1>3, <2>1, <2>3
    <3>3. Holders(f)' = Holders(f) \cup {Current}
      BY <1>6, <2>3
    <3> QED
      BY ONLY <2>1, <2>2, <3>1, <3>2, <3>3
  <2>4. CASE f # g
    <3>1. opened'[f] = opened[f]
      BY <1>3, <2>1, <2>4
    <3> QED
      BY <1>6, <2>2, <2>4, <3>1
  <2> QED
    BY <2>3, <2>4
<1>9. VersionInv'
  <2> SUFFICES ASSUME NEW p \in m_plugins \cup {Current}
               PROVE  mapped'[path[p]] = version'[p]
    BY <1>4 DEF VersionInv
  <2>1. CASE p = Current
    BY <1>2, <1>3, <2>1 DEF LibraryInv, TypeOK
  <2>2. CASE p # Current
    <3>1. p \in m_plugins /\ mapped[path[p]] = version[p] /\ path[p] \in Files
      BY <2>2 DEF LibraryInv, VersionInv, PathInv
    <3>2. CASE path[p] = g
      <4>1. p \in Holders(g)
        BY <3>1, <3>2 DEF Holders, m_plugins
      <4>2. opened[g] > 0
        BY <1>2, <4>1, HolderCounts DEF LibraryInv, CountInv, TypeOK
      <4> QED
        BY <1>2, <1>3, <2>2, <3>1, <3>2, <4>2 DEF LibraryInv, TypeOK, Loaded, m_plugins
    <3>3. CASE path[p] # g
      BY <1>2, <1>3, <2>2, <3>1, <3>3 DEF LibraryInv, TypeOK, m_plugins
    <3> QED
      BY <3>2, <3>3
  <2> QED
    BY <2>1, <2>2
<1> QED
  BY <1>5, <1>8, <1>9

\* stop(): every plugin is destroyed, and the counts stay.
LEMMA StopEndsHolders ==
  ASSUME LibraryInv, StopEnds
  PROVE  (BusyInv /\ PathInv /\ CountInv /\ VersionInv)'
<1> USE DEF StopEnds, At, library
<1>1. io'.pc = "idle" /\ main' # "wait" /\ \A p \in Plugins : worker'[p] = "none"
  BY DEF Idle
<1>2. m_plugins' = {}
  BY <1>1 DEF m_plugins
<1>3. BusyInv' /\ PathInv' /\ VersionInv'
  BY <1>1, <1>2 DEF BusyInv, PathInv, VersionInv
<1>4. ASSUME NEW f \in Files PROVE Cardinality(Holders(f)') <= opened'[f]
  <2>1. Holders(f)' = {}
    BY <1>1 DEF Holders
  <2> QED
    BY <2>1, FS_EmptySet DEF LibraryInv, TypeOK
<1>5. CountInv'
  BY <1>1, <1>4 DEF CountInv
<1> QED
  BY <1>3, <1>5

\* Core::run() opens the libraries once more, for each plugin it loads.
LEMMA RunHolders ==
  ASSUME LibraryInv, Run
  PROVE  (BusyInv /\ PathInv /\ CountInv /\ VersionInv)'
<1> DEFINE loaded == {p \in Plugins : path[p] # "none" /\ Loadable(path[p])}
<1>1. /\ io' = io /\ path' = path /\ main = "restart" /\ main' = "wait"
      /\ runs' = runs + 1
      /\ opened' = [f \in Files |-> opened[f] + Cardinality(Users(f) \cap loaded)]
      /\ mapped' = [f \in Files |-> IF Users(f) \cap loaded = {} THEN mapped[f]
                                    ELSE Loaded(f)]
      /\ version' = [p \in Plugins |-> IF p \in loaded THEN Loaded(path[p])
                                       ELSE version[p]]
      /\ worker' = [p \in Plugins |-> IF p \in loaded THEN "starting" ELSE "none"]
  BY DEF Run, files
<1>2. io.pc \notin {"join", "close", "load"} /\ runs' > 1
  BY <1>1 DEF LibraryInv, BusyInv, TypeOK
<1>3. m_plugins' = loaded
  BY <1>1 DEF m_plugins
<1>4. ASSUME NEW p \in loaded PROVE p \in Plugins /\ path[p] \in Files
  BY DEF LibraryInv, TypeOK
<1>5. ASSUME NEW f \in Files PROVE Holders(f)' = Users(f) \cap loaded
  BY <1>1, <1>2 DEF Holders, Users
<1> HIDE DEF loaded
<1>6. BusyInv' /\ PathInv'
  BY <1>1, <1>2, <1>3, <1>4 DEF BusyInv, PathInv
<1>7. VersionInv'
  <2> SUFFICES ASSUME NEW p \in loaded PROVE mapped'[path[p]] = version'[p]
    BY <1>1, <1>3 DEF VersionInv
  <2>1. p \in Users(path[p]) \cap loaded
    BY <1>4 DEF Users
  <2> QED
    BY <1>1, <1>4, <2>1
<1>8. ASSUME NEW f \in Files PROVE Cardinality(Holders(f)') <= opened'[f]
  <2>1. Cardinality(Users(f) \cap loaded) \in Nat
    BY AdminAssumption, FS_Subset, FS_CardinalityType DEF Users
  <2>2. opened[f] \in Nat
    BY DEF LibraryInv, TypeOK
  <2>3. Holders(f)' = Users(f) \cap loaded
    BY <1>5
  <2>4. opened'[f] = opened[f] + Cardinality(Users(f) \cap loaded)
    BY <1>1
  <2> QED
    BY ONLY <2>1, <2>2, <2>3, <2>4
<1>9. CountInv'
  BY <1>2, <1>8 DEF CountInv
<1> QED
  BY <1>6, <1>7, <1>9

\* Every step keeps the invariant of the libraries.
LEMMA LibraryStep == LibraryInv /\ [Next]_vars => LibraryInv'
<1> SUFFICES ASSUME LibraryInv, [Next]_vars PROVE LibraryInv'
  OBVIOUS
<1> USE DEF At, Alive, process, files, plugins
<1> DEFINE Held == (BusyInv /\ PathInv /\ CountInv /\ VersionInv)'
<1> DEFINE Same == UNCHANGED <<path, main, runs, library, version>>
<1>1. ASSUME Next PROVE TypeOK'
  BY <1>1, TypeStep
<1>2. ASSUME Environment PROVE Held
  <2>1. UNCHANGED <<io, path, main, runs, library, version, worker>>
    BY <1>2 DEF Environment, ConnectClient, SendCommand, Disconnect, ReplaceFile
  <2> QED
    BY <2>1, SameHolders
<1>3. ASSUME NEW p \in Plugins, Worker(p) PROVE Held
  <2>1. io' = io /\ Same
    BY <1>3 DEF Worker, WorkerBegins, WorkerEnds
  <2>2. \A q \in Plugins : (worker'[q] = "none") <=> (worker[q] = "none")
    BY <1>3 DEF Worker, WorkerBegins, WorkerEnds, LibraryInv, TypeOK
  <2> QED
    BY <2>1, <2>2, SameHolders
<1>4. ASSUME Run PROVE Held
  BY <1>4, RunHolders
<1>5. ASSUME StopEnds PROVE Held
  BY <1>5, StopEndsHolders
<1>6. ASSUME LoadPlugin PROVE Held
  BY <1>6, LoadPluginHolders
<1>7. ASSUME CloseLibrary PROVE Held
  BY <1>7, CloseLibraryHolders
<1>8. ASSUME RemovePlugin PROVE Held
  BY <1>8, RemovePluginHolders
<1>9. ASSUME StopPlugin PROVE Held
  BY <1>9, StopPluginHolders
<1>10. ASSUME RestartPlugin PROVE Held
  <2>1. io.pc = "join" /\ io'.pc = "command" /\ Same
    BY <1>10, CommandState DEF RestartPlugin, LibraryInv, BusyInv
  <2>2. \A q \in Plugins : (worker'[q] = "none") <=> (worker[q] = "none")
    BY <1>10 DEF RestartPlugin, LibraryInv, TypeOK
  <2> QED
    BY <2>1, <2>2, SameHolders
<1>11. ASSUME SkipUnknown PROVE Held
  <2>1. io.pc = "command" /\ io'.pc = "command" /\ Same /\ worker' = worker
    BY <1>11 DEF SkipUnknown, LibraryInv, TypeOK, IoStates
  <2> QED
    BY <2>1, SameHolders
<1>12. ASSUME HandleAccept PROVE Held
  BY <1>12, SameHolders DEF HandleAccept
<1>13. ASSUME EndCommand PROVE Held
  <2>1. io.pc = "command" /\ io'.pc = "idle" /\ Same /\ worker' = worker
    BY <1>13 DEF EndCommand, Idle
  <2> QED
    BY <2>1, SameHolders
<1>14. ASSUME LoadFails \/ StopThrows PROVE Held
  BY <1>14, SameHolders DEF LoadFails, StopThrows
<1>15. ASSUME Shutdown PROVE Held
  <2>1. io.pc = "command" /\ io'.pc = "stop" /\ Same /\ worker' = worker
    BY <1>15 DEF Shutdown, Goto, LibraryInv, TypeOK, IoStates
  <2> QED
    BY <2>1, SameHolders
<1>16. ASSUME StopNext \/ StopNextReturns \/ ConnectionError PROVE Held
  <2>1. /\ io.pc \in {"stop", "joinForStop", "idle"}
        /\ io'.pc \in {"stop", "joinForStop"} /\ Same /\ worker' = worker
    BY <1>16 DEF StopNext, StopNextReturns, ConnectionError
  <2> QED
    BY <2>1, SameHolders
<1>17. ASSUME NEW c \in Clients,
              HandleStaleAccept(c) \/ HandleReceive(c) \/ HandleEnd(c)
       PROVE  Held
  <2>1. Same /\ worker' = worker
    BY <1>17 DEF HandleStaleAccept, HandleReceive, HandleEnd
  <2>2. io' = io \/ (io.pc = "idle" /\ io'.pc = "command")
    BY <1>17 DEF HandleStaleAccept, HandleReceive, HandleEnd
  <2> QED
    BY <2>1, <2>2, SameHolders
<1>18. CASE UNCHANGED vars
  <2>1. TypeOK'
    BY <1>18 DEF LibraryInv, TypeOK, vars, sessions, remote, library
  <2>2. Held
    BY <1>18, SameHolders DEF vars
  <2> QED
    BY <2>1, <2>2 DEF LibraryInv
<1>19. CASE Next
  <2>1. Held
    BY <1>2, <1>3, <1>4, <1>5, <1>6, <1>7, <1>8, <1>9, <1>10, <1>11, <1>12,
       <1>13, <1>14, <1>15, <1>16, <1>17, <1>19 DEF Next, Handler
  <2> QED
    BY <1>1, <1>19, <2>1 DEF LibraryInv
<1> QED
  BY <1>18, <1>19

\* The counts of dlopen, what is mapped and what Core holds agree.
THEOREM LibraryInvariant == Spec => []LibraryInv
BY LibraryInit, LibraryStep, PTL DEF Spec

\* The variables keep their types: no command is stuck without a plugin, and no
\* count of dlopen goes below zero.
THEOREM TypeCorrect == Spec => []TypeOK
BY LibraryInvariant, PTL DEF LibraryInv

\* reloadPlugin() never unmaps code of a plugin that Core holds.
THEOREM MappedCode == Spec => []NoUnmappedCode
<1>1. LibraryInv => NoUnmappedCode
  <2> SUFFICES ASSUME LibraryInv, NEW p \in m_plugins
               PROVE  opened[path[p]] > 0 /\ mapped[path[p]] = version[p]
    BY DEF NoUnmappedCode
  <2>1. path[p] \in Files /\ p \in Holders(path[p])
    BY DEF LibraryInv, PathInv, Holders, m_plugins
  <2>2. opened[path[p]] > 0
    BY <2>1, HolderCounts DEF LibraryInv, CountInv, TypeOK
  <2> QED
    BY <2>2 DEF LibraryInv, VersionInv
<1> QED
  BY <1>1, LibraryInvariant, PTL

\* A reload in the first run of a plugin that has its file for itself loads the
\* version on disk.
THEOREM ReloadCorrect == Spec => ReloadTakesNewVersion
<1> DEFINE A == \A p \in Plugins :
       io.pc = "load" /\ worker[p] = "none" /\ worker'[p] = "starting" =>
         \/ version'[p] = disk[path[p]]
         \/ Users(path[p]) # {p}
         \/ runs > 1
<1>1. LibraryInv /\ [Next]_vars => [A]_vars
  <2> SUFFICES ASSUME LibraryInv, Next, NEW p \in Plugins, io.pc = "load",
                      worker[p] = "none", worker'[p] = "starting",
                      Users(path[p]) = {p}, runs <= 1
               PROVE  version'[p] = disk[path[p]]
    BY DEF LibraryInv, TypeOK
  <2>1. main = "wait" /\ path[Current] \in Files /\ Current \in Plugins
    BY DEF LibraryInv, BusyInv
  <2>2. LoadPlugin /\ p = Current
    <3>1. ASSUME NEW q \in Plugins, Worker(q) PROVE FALSE
      BY <3>1 DEF Worker, WorkerBegins, WorkerEnds, LibraryInv, TypeOK
    <3>2. CASE LoadPlugin
      BY <2>1, <3>2 DEF LoadPlugin, Current, LibraryInv, TypeOK
    <3>3. ASSUME Environment PROVE FALSE
      BY <3>3 DEF Environment, ConnectClient, SendCommand, Disconnect,
                  ReplaceFile, plugins
    <3>4. ASSUME Handler, ~LoadPlugin PROVE FALSE
      BY <3>4 DEF Handler, At, HandleAccept, HandleStaleAccept, HandleReceive,
                  HandleEnd, EndCommand, SkipUnknown, StopPlugin, RestartPlugin,
                  RemovePlugin, CloseLibrary, LoadFails, Shutdown, StopNext,
                  StopNextReturns, StopEnds, StopThrows, plugins
    <3>5. ~ConnectionError /\ ~Run
      BY <2>1 DEF ConnectionError, At, Run
    <3> QED
      BY <3>1, <3>2, <3>3, <3>4, <3>5 DEF Next
  <2>3. Holders(path[p]) = {}
    <3>1. ASSUME NEW q \in Holders(path[p]) PROVE FALSE
      BY <3>1 DEF Holders, Users
    <3> QED
      BY <3>1
  <2>4. opened[path[p]] = 0
    <3>1. runs = 1 /\ path[p] \in Files
      BY <2>1, <2>2 DEF LibraryInv, TypeOK
    <3> QED
      BY <2>1, <2>3, <3>1, FS_EmptySet DEF LibraryInv, CountInv
  <2>5. version' = [version EXCEPT ![p] = Loaded(path[p])]
    BY <2>2 DEF LoadPlugin, Current
  <2> QED
    BY <2>4, <2>5 DEF Loaded, LibraryInv, TypeOK
<1>2. Spec => [][A]_vars
  BY <1>1, LibraryInvariant, PTL DEF Spec
<1> QED
  BY <1>2 DEF ReloadTakesNewVersion

-----------------------------------------------------------------------------
(* Clients *)

LEMMA ClientInit == Init => ClientInv /\ SafeAlone
<1> SUFFICES ASSUME Init PROVE ClientInv /\ SafeAlone
  OBVIOUS
<1>1. IsFiniteSet(m_clients)
  BY FS_EmptySet DEF Init
<1> QED
  BY <1>1, AdminAssumption DEF Init, ClientInv, SafeAlone

\* Every step keeps the invariant of the clients.
LEMMA ClientStep ==
  ASSUME LibraryInv, ClientInv, [Next]_vars
  PROVE  ClientInv'
<1> USE DEF At, Alive, process, sessions, remote
<1>1. TypeOK
  BY DEF LibraryInv
<1>2. ASSUME NEW c \in Clients, ConnectClient(c) PROVE ClientInv'
  <2>1. c \notin m_clients
    BY <1>2 DEF ConnectClient, ClientInv
  <2> QED
    BY <1>1, <1>2, <2>1 DEF ConnectClient, ClientInv, TypeOK
<1>3. ASSUME NEW c \in Clients, SendCommand(c) PROVE ClientInv'
  BY <1>3 DEF SendCommand, ClientInv
<1>4. ASSUME NEW c \in Clients, Disconnect(c) PROVE ClientInv'
  BY <1>1, <1>4 DEF Disconnect, ClientInv, TypeOK
<1>5. CASE HandleAccept
  <2>1. /\ accept \in Clients /\ accept \notin m_clients /\ accept' = "pending"
        /\ m_clients' = m_clients \cup {accept}
        /\ receive' = [receive EXCEPT ![accept] =
                         IF accept \in moved' THEN "none" ELSE "pending"]
    BY <1>5 DEF HandleAccept, ClientInv, Rearm
  <2>2. /\ IsFiniteSet(m_clients') /\ Cardinality(m_clients) \in Nat
        /\ Cardinality(m_clients') = Cardinality(m_clients) + 1
    BY <2>1, FS_AddElement, FS_CardinalityType DEF ClientInv
  <2>3. \A c \in m_clients' : peer'[c] # "new"
    BY <1>5, <2>1 DEF HandleAccept, ClientInv
  <2>4. accept' \notin Clients
    BY <2>1, AdminAssumption
  <2>5. ASSUME main = "wait", runs = 1, moved' # {}
        PROVE  Cardinality(m_clients') > 1
    <3>1. CASE Cardinality(m_clients) \in PowersOfTwo
      BY <2>2, <3>1 DEF PowersOfTwo
    <3>2. CASE moved # {}
      BY <2>2, <2>5, <3>2 DEF ClientInv
    <3> QED
      BY <1>5, <2>5, <3>1, <3>2 DEF HandleAccept
  <2>6. main = "wait" /\ runs = 1 =>
          \A c \in Clients : receive'[c] \in {"none", "pending"}
    BY <1>1, <2>1 DEF ClientInv, TypeOK
  <2>7. main' = main /\ runs' = runs
    BY <1>5 DEF HandleAccept
  <2> QED
    BY <2>2, <2>3, <2>4, <2>5, <2>6, <2>7 DEF ClientInv
<1>6. ASSUME NEW c \in Clients, HandleStaleAccept(c) PROVE ClientInv'
  BY <1>1, <1>6 DEF HandleStaleAccept, ClientInv, TypeOK
<1>7. ASSUME NEW c \in Clients, HandleReceive(c) \/ HandleEnd(c) PROVE ClientInv'
  <2>1. /\ receive' = [receive EXCEPT ![c] = "none"]
        /\ UNCHANGED <<main, runs, accept, m_clients, moved, peer>>
    BY <1>7 DEF HandleReceive, HandleEnd
  <2> QED
    BY <1>1, <2>1 DEF ClientInv, TypeOK
<1>8. CASE EndCommand
  <2>1. /\ receive' = [receive EXCEPT ![io.client] =
                         IF io.client \in moved' THEN "none" ELSE "pending"]
        /\ UNCHANGED <<main, runs, accept, m_clients, moved, peer>>
    BY <1>8 DEF EndCommand, Rearm
  <2> QED
    BY <1>1, <2>1 DEF ClientInv, TypeOK
<1>9. CASE StopEnds
  <2>1. m_clients' = {} /\ accept' = "none" /\ main' # "wait"
    BY <1>9 DEF StopEnds
  <2> QED
    BY <2>1, AdminAssumption, FS_EmptySet DEF ClientInv
<1>10. CASE Run
  <2>1. m_clients' = {} /\ accept' = "pending" /\ runs' # 1
    BY <1>1, <1>10 DEF Run, TypeOK
  <2> QED
    BY <2>1, AdminAssumption, FS_EmptySet DEF ClientInv
<1>11. ASSUME UNCHANGED <<main, runs, accept, m_clients, receive, moved, peer>>
       PROVE  ClientInv'
  BY <1>11 DEF ClientInv
<1>12. ASSUME \/ \E f \in Files : ReplaceFile(f)
              \/ \E p \in Plugins : Worker(p)
              \/ SkipUnknown \/ StopPlugin \/ RestartPlugin \/ RemovePlugin
              \/ CloseLibrary \/ LoadPlugin \/ LoadFails \/ Shutdown \/ StopNext
              \/ StopNextReturns \/ StopThrows \/ ConnectionError
              \/ UNCHANGED vars
       PROVE  UNCHANGED <<main, runs, accept, m_clients, receive, moved, peer>>
  BY <1>12 DEF ReplaceFile, Worker, WorkerBegins, WorkerEnds, SkipUnknown,
     StopPlugin, RestartPlugin, RemovePlugin, CloseLibrary, LoadPlugin, LoadFails,
     Shutdown, StopNext, StopNextReturns, StopThrows, ConnectionError, vars
<1> QED
  BY <1>2, <1>3, <1>4, <1>5, <1>6, <1>7, <1>8, <1>9, <1>10, <1>11, <1>12
     DEF Next, Environment, Handler

\* A step that ends in undefined behaviour has one of the three causes.
LEMMA SafeStep ==
  ASSUME SafeInv, [Next]_vars
  PROVE  SafeAlone'
<1> USE DEF SafeInv
<1>1. TypeOK
  BY DEF LibraryInv
<1>2. ASSUME Next, fatal' = "undefined" PROVE SafeAlone'
  <2> USE DEF At, Alive, process, sessions
  <2>1. fatal = "no"
    BY <1>2 DEF Next, Environment, Handler, Worker, ConnectClient, SendCommand,
       Disconnect, ReplaceFile, HandleAccept, HandleStaleAccept, HandleReceive,
       HandleEnd, EndCommand, SkipUnknown, StopPlugin, RestartPlugin,
       RemovePlugin, CloseLibrary, LoadPlugin, LoadFails, Shutdown, StopNext,
       StopNextReturns, StopEnds, StopThrows, ConnectionError, Run,
       WorkerBegins, WorkerEnds
  <2>2. CASE StopEnds
    BY <2>2 DEF StopEnds, SafeAlone
  <2>3. CASE LoadFails
    <3>1. path[Current] \in Files
      BY <2>3 DEF LoadFails, LibraryInv, BusyInv
    <3>2. disk[path[Current]] = 0 /\ disk' = disk
      BY <2>3 DEF LoadFails, Loadable, Current, files
    <3> QED
      BY <3>1, <3>2 DEF SafeAlone
  <2>4. ASSUME NEW c \in Clients, HandleStaleAccept(c) PROVE SafeAlone'
    <3>1. main # "wait" \/ runs # 1
      BY <2>4 DEF HandleStaleAccept, ClientInv
    <3>2. main' # "wait" \/ runs' > 1
      BY <1>1, <2>4, <3>1 DEF HandleStaleAccept, TypeOK
    <3> QED
      BY <3>2 DEF SafeAlone
  <2>5. ASSUME NEW c \in Clients, HandleReceive(c) PROVE SafeAlone'
    <3>1. c \in moved
      BY <1>2, <2>1, <2>5 DEF HandleReceive
    <3>2. \/ main # "wait" \/ runs # 1
          \/ Cardinality(m_clients) > 1
      BY <3>1 DEF ClientInv
    <3> QED
      BY <1>1, <2>5, <3>2 DEF HandleReceive, SafeAlone, TypeOK
  <2>6. ASSUME \/ Environment \/ ConnectionError \/ Run
               \/ \E p \in Plugins : Worker(p)
        PROVE  fatal' = fatal
    BY <2>6 DEF Environment, Worker, ConnectClient, SendCommand, Disconnect,
       ReplaceFile, ConnectionError, Run, WorkerBegins, WorkerEnds
  <2>7. ASSUME \/ HandleAccept \/ EndCommand \/ SkipUnknown \/ StopPlugin
               \/ RestartPlugin \/ RemovePlugin \/ CloseLibrary \/ LoadPlugin
               \/ Shutdown \/ StopNext \/ StopNextReturns
               \/ \E c \in Clients : HandleEnd(c)
        PROVE  fatal' = fatal
    BY <2>7 DEF HandleAccept, EndCommand, SkipUnknown, StopPlugin,
       RestartPlugin, RemovePlugin, CloseLibrary, LoadPlugin, Shutdown,
       StopNext, StopNextReturns, HandleEnd
  <2>8. ~StopThrows
    BY <1>2 DEF StopThrows
  <2> QED
    BY <1>2, <2>1, <2>2, <2>3, <2>4, <2>5, <2>6, <2>7, <2>8 DEF Next, Handler
<1>3. CASE UNCHANGED vars
  BY <1>3 DEF vars, process, sessions, files, SafeAlone
<1>4. CASE Next /\ fatal' # "undefined"
  BY <1>4 DEF SafeAlone
<1> QED
  BY <1>2, <1>3, <1>4

\* Destroyed or moved objects are used only after the vector of clients has
\* grown, a file cannot be loaded or the AdminPort has been destroyed.
THEOREM SafeAloneCorrect == Spec => []SafeAlone
<1>1. Init => SafeInv
  BY LibraryInit, ClientInit DEF SafeInv
<1>2. SafeInv /\ [Next]_vars => SafeInv'
  BY LibraryStep, ClientStep, SafeStep DEF SafeInv
<1>3. SafeInv => SafeAlone
  BY DEF SafeInv
<1> QED
  BY <1>1, <1>2, <1>3, PTL DEF Spec

=============================================================================
