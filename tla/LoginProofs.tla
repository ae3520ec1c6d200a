---------------------------- MODULE LoginProofs -----------------------------
(***************************************************************************)
(* Theorems about Login, for every list of nicks and channels and any      *)
(* number of restarts, connections and sends that wait.                    *)
(***************************************************************************)
EXTENDS Login, FiniteSetTheorems, SequenceTheorems, TLAPS

NickMessages == [op : {"NICK"}, nick : Nicks]

Messages ==
  NickMessages \cup [op : {"USER", "garbage"}]
    \cup [op : {"JOIN"}, channel : Channels] \cup [op : {"PONG"}, token : Nat]

InitStates ==
  [pc : {"start", "user", "loop"}, alt : Seq(Nicks), index : Nat,
   incoming : Seq({"432", "433"})]

JoinStates ==
  [pc : {"start", "init", "loop"}, channels : SUBSET Channels,
   left : SUBSET Channels, incoming : Nat]

ServerStates ==
  [nick : Nicks \cup {"none"}, user : BOOLEAN, joined : SUBSET Channels,
   pongs : Seq(Nat)]

TypeOK ==
  /\ init \in InitStates /\ join \in JoinStates /\ server \in ServerStates
  /\ ping \in Seq(Nat) /\ pings \in Nat
  /\ outgoing \in Seq(Messages) /\ waiting \in Seq(Messages)
  /\ status \in [Nicks -> {"free", "inuse", "erroneous"}]
  /\ restarts \in Nat /\ conn \in Nat
  /\ full \in BOOLEAN /\ crashed \in BOOLEAN

\* How often a sequence has a member of S.
Places(q, S) == {i \in 1..Len(q) : q[i] \in S}
Count(q, S) == Cardinality(Places(q, S))

\* How many messages of S are on their way to the server.
InFlight(S) == Count(outgoing, S) + Count(waiting, S)

\* 433s that Init has not seen yet.
Refusals == Count(init.incoming, {"433"})

\* An alternative is free.
FreeAlternative == \E i \in DOMAIN Alternatives : status[Alternatives[i]] = "free"

\* NICKs that may come back as 433.
Refusable == {m \in NickMessages : status[m.nick] # "free"}

\* Free nicks that Init has yet to send.
Ahead == {i \in (init.index + 1)..Len(init.alt) : status[init.alt[i]] = "free"}

\* Every NICK or 433 that may ask for one more alternative has a free one ahead
\* of it, which ends its chain.
CreditInv ==
  /\ init.index <= Len(init.alt)
  /\ FreeAlternative =>
       ~crashed /\ InFlight(Refusable) + Refusals <= Cardinality(Ahead)

\* The nicks in the order in which they are tried; the one that was sent last.
Order == <<Nick>> \o Alternatives
Latest == Order[init.index + 1]

\* Without restarts there is one chain: the latest nick is on its way, refused
\* or accepted, and none before it is free.
ChainInv ==
  restarts = 0 =>
    /\ init.pc = "start" =>
         /\ init.alt = <<>> /\ init.index = 0 /\ server.nick = "none"
         /\ InFlight(NickMessages) + Refusals = 0
    /\ init.pc # "start" => init.alt = Alternatives
    /\ init.index <= Len(Alternatives)
    /\ InFlight(NickMessages) + Refusals <= 1
    /\ InFlight({m \in NickMessages : m.nick # Latest}) = 0
    /\ Refusals # 0 => status[Latest] # "free"
    /\ server.nick # "none" =>
         /\ server.nick = Latest
         /\ InFlight(NickMessages) + Refusals = 0
    /\ \A j \in 1..init.index : status[Order[j]] # "free"

-----------------------------------------------------------------------------
(* Counting in sequences *)

\* A count is a number, and 0 only if there is nothing to count.
LEMMA CountType ==
  ASSUME NEW T, NEW q \in Seq(T), NEW S
  PROVE  /\ IsFiniteSet(Places(q, S)) /\ Count(q, S) \in Nat
         /\ Count(q, S) = 0 <=> Places(q, S) = {}
<1>1. Len(q) \in Nat
  OBVIOUS
<1>2. IsFiniteSet(1..Len(q))
  BY <1>1, FS_Interval
<1>3. IsFiniteSet(Places(q, S))
  BY <1>2, FS_Subset DEF Places
<1> QED
  BY <1>3, FS_CardinalityType, FS_EmptySet DEF Count

LEMMA CountEmpty ==
  ASSUME NEW S
  PROVE  Count(<<>>, S) = 0
<1>1. Places(<<>>, S) = {}
  BY DEF Places
<1> QED
  BY <1>1, FS_EmptySet DEF Count

\* One element more at the end.
LEMMA CountAppend ==
  ASSUME NEW T, NEW q \in Seq(T), NEW m \in T, NEW S
  PROVE  Count(Append(q, m), S) = Count(q, S) + IF m \in S THEN 1 ELSE 0
<1> DEFINE n == Len(q) + 1
<1>1. /\ Len(q) \in Nat /\ Len(Append(q, m)) = n
      /\ \A i \in 1..Len(q) : Append(q, m)[i] = q[i]
      /\ Append(q, m)[n] = m
  OBVIOUS
<1>2. n \notin Places(q, S)
  BY <1>1 DEF Places
<1>3. IsFiniteSet(Places(q, S)) /\ Count(q, S) \in Nat
  BY CountType
<1>4. CASE m \in S
  <2>1. Places(Append(q, m), S) = Places(q, S) \cup {n}
    BY <1>1, <1>4 DEF Places
  <2> QED
    BY <1>2, <1>3, <1>4, <2>1, FS_AddElement DEF Count
<1>5. CASE m \notin S
  <2>1. Places(Append(q, m), S) = Places(q, S)
    BY <1>1, <1>5 DEF Places
  <2> QED
    BY <1>3, <1>5, <2>1 DEF Count
<1> QED
  BY <1>4, <1>5

\* One element less at the beginning.
LEMMA CountTail ==
  ASSUME NEW T, NEW q \in Seq(T), q # <<>>, NEW S
  PROVE  Count(Tail(q), S) = Count(q, S) - IF Head(q) \in S THEN 1 ELSE 0
<1> DEFINE P == Places(Tail(q), S)
           Q == Places(q, S) \ {1}
           f == [i \in P |-> i + 1]
<1>1. /\ Len(q) \in Nat /\ Len(q) > 0 /\ Len(Tail(q)) = Len(q) - 1
      /\ \A i \in 1..(Len(q) - 1) : Tail(q)[i] = q[i + 1]
      /\ Head(q) = q[1]
  OBVIOUS
<1>2. \A i \in P : i \in 1..(Len(q) - 1) /\ i + 1 \in Q
  BY <1>1 DEF Places
<1>3. \A j \in Q : j - 1 \in P /\ f[j - 1] = j
  BY <1>1 DEF Places
<1>4. f \in Bijection(P, Q)
  <2>1. f \in [P -> Q]
    BY <1>2
  <2>2. \A a, b \in P : f[a] = f[b] => a = b
    BY <1>1, <1>2
  <2>3. \A j \in Q : \E i \in P : f[i] = j
    BY <1>3
  <2> QED
    BY <2>1, <2>2, <2>3 DEF Bijection, Injection, Surjection, IsInjective
<1>5. IsFiniteSet(P)
  <2>1. Tail(q) \in Seq(T)
    OBVIOUS
  <2> QED
    BY <2>1, CountType
<1>6. Cardinality(Q) = Cardinality(P)
  <2>1. ExistsBijection(P, Q)
    BY <1>4 DEF ExistsBijection
  <2> QED
    BY <1>5, <2>1, FS_Bijection
<1>7. /\ IsFiniteSet(Places(q, S))
      /\ Cardinality(Q) = IF 1 \in Places(q, S) THEN Cardinality(Places(q, S)) - 1
                          ELSE Cardinality(Places(q, S))
  BY CountType, FS_RemoveElement
<1>8. 1 \in Places(q, S) <=> Head(q) \in S
  BY <1>1 DEF Places
<1>9. Count(q, S) \in Nat
  BY CountType
<1> QED
  BY <1>6, <1>7, <1>8, <1>9 DEF Count

\* What is counted is there, and what is there is counted.
LEMMA CountMember ==
  ASSUME NEW T, NEW q \in Seq(T), NEW S, NEW R
  PROVE  /\ q # <<>> /\ Head(q) \in S => Count(q, S) >= 1
         /\ R \subseteq S => Count(q, R) <= Count(q, S)
<1>1. /\ IsFiniteSet(Places(q, S)) /\ Count(q, S) \in Nat
      /\ Count(q, S) = 0 <=> Places(q, S) = {}
  BY CountType
<1>2. ASSUME q # <<>>, Head(q) \in S PROVE Count(q, S) >= 1
  <2>1. 1 \in Places(q, S)
    BY <1>2 DEF Places
  <2> QED
    BY <1>1, <2>1
<1>3. ASSUME R \subseteq S PROVE Count(q, R) <= Count(q, S)
  <2>1. Places(q, R) \subseteq Places(q, S)
    BY <1>3 DEF Places
  <2> QED
    BY <1>1, <2>1, FS_Subset DEF Count
<1> QED
  BY <1>2, <1>3

-----------------------------------------------------------------------------
(* Types *)

\* The nicks and the order in which they are tried.
LEMMA NickTypes ==
  /\ Nick \in Nicks /\ Alternatives \in Seq(Nicks)
  /\ Order \in Seq(Nicks) /\ Len(Order) = Len(Alternatives) + 1
  /\ Order[1] = Nick
  /\ \A i \in 1..Len(Alternatives) : Order[i + 1] = Alternatives[i]
<1> DEFINE A == {Alternatives[i] : i \in DOMAIN Alternatives}
<1>1. Alternatives \in Seq(A)
  BY LoginAssumption
<1>2. A \subseteq Nicks /\ Nick \in Nicks
  BY DEF Nicks
<1> HIDE DEF A
<1>3. Alternatives \in Seq(Nicks)
  BY <1>1, <1>2
<1>4. <<Nick>> \in Seq(Nicks) /\ Len(<<Nick>>) = 1 /\ <<Nick>>[1] = Nick
  BY <1>2
<1>5. /\ Order \in Seq(Nicks) /\ Len(Order) = 1 + Len(Alternatives)
      /\ \A i \in 1..(1 + Len(Alternatives)) :
           Order[i] = IF i <= 1 THEN <<Nick>>[i] ELSE Alternatives[i - 1]
  BY <1>3, <1>4, ConcatProperties DEF Order
<1>6. Len(Alternatives) \in Nat
  BY <1>3
<1> HIDE DEF Order
<1> QED
  BY <1>2, <1>3, <1>4, <1>5, <1>6

\* async_send: one message more on its way.
LEMMA SendStep ==
  ASSUME TypeOK, NEW m \in Messages, Send(m)
  PROVE  /\ outgoing' \in Seq(Messages) /\ waiting' \in Seq(Messages)
         /\ full' \in BOOLEAN
         /\ \A S : InFlight(S)' = InFlight(S) + IF m \in S THEN 1 ELSE 0
<1>1. outgoing \in Seq(Messages) /\ waiting \in Seq(Messages) /\ full \in BOOLEAN
  BY DEF TypeOK
<1>2. \A S : Count(outgoing, S) \in Nat /\ Count(waiting, S) \in Nat
  BY <1>1, CountType
<1>3. CASE waiting = <<>> /\ Len(outgoing) < Room
  <2>1. outgoing' = Append(outgoing, m) /\ waiting' = waiting /\ full' = full
    BY <1>3 DEF Send
  <2>2. \A S : Count(outgoing', S) = Count(outgoing, S) + IF m \in S THEN 1 ELSE 0
    BY <1>1, <2>1, CountAppend
  <2> QED
    BY <1>1, <1>2, <2>1, <2>2 DEF InFlight
<1>4. CASE ~(waiting = <<>> /\ Len(outgoing) < Room)
  <2>1. waiting' = Append(waiting, m) /\ outgoing' = outgoing /\ full' = TRUE
    BY <1>4 DEF Send
  <2>2. \A S : Count(waiting', S) = Count(waiting, S) + IF m \in S THEN 1 ELSE 0
    BY <1>1, <2>1, CountAppend
  <2> QED
    BY <1>1, <1>2, <2>1, <2>2 DEF InFlight
<1> QED
  BY <1>3, <1>4

\* What waited is written or garbled.
LEMMA WriteStep ==
  ASSUME TypeOK, WriteWaiting
  PROVE  /\ outgoing' \in Seq(Messages) /\ waiting' \in Seq(Messages)
         /\ \A S : [op |-> "garbage"] \notin S => InFlight(S)' <= InFlight(S)
<1>1. outgoing \in Seq(Messages) /\ waiting \in Seq(Messages) /\ waiting # <<>>
  BY DEF TypeOK, WriteWaiting
<1>2. PICK m \in {Head(waiting), [op |-> "garbage"]} :
        outgoing' = Append(outgoing, m) /\ waiting' = Tail(waiting)
  BY DEF WriteWaiting
<1>3. m \in Messages
  BY <1>1, <1>2 DEF Messages
<1>4. \A S : Count(outgoing, S) \in Nat /\ Count(waiting, S) \in Nat
  BY <1>1, CountType
<1>5. ASSUME NEW S, [op |-> "garbage"] \notin S PROVE InFlight(S)' <= InFlight(S)
  <2>1. Count(outgoing', S) = Count(outgoing, S) + IF m \in S THEN 1 ELSE 0
    BY <1>1, <1>2, <1>3, CountAppend
  <2>2. Count(waiting', S) = Count(waiting, S) - IF Head(waiting) \in S THEN 1 ELSE 0
    BY <1>1, <1>2, CountTail
  <2>3. m \in S => Head(waiting) \in S
    BY <1>2, <1>5
  <2> QED
    BY <1>4, <2>1, <2>2, <2>3 DEF InFlight
<1> QED
  BY <1>1, <1>2, <1>3, <1>5

\* The server reads one message.
LEMMA ReadStep ==
  ASSUME TypeOK, outgoing # <<>>, outgoing' = Tail(outgoing), waiting' = waiting
  PROVE  /\ Head(outgoing) \in Messages /\ outgoing' \in Seq(Messages)
         /\ \A S : InFlight(S)' = InFlight(S)
                                    - IF Head(outgoing) \in S THEN 1 ELSE 0
<1>1. outgoing \in Seq(Messages) /\ waiting \in Seq(Messages)
  BY DEF TypeOK
<1>2. \A S : Count(outgoing, S) \in Nat /\ Count(waiting, S) \in Nat
  BY <1>1, CountType
<1>3. \A S : Count(outgoing', S)
               = Count(outgoing, S) - IF Head(outgoing) \in S THEN 1 ELSE 0
  BY <1>1, CountTail
<1> QED
  BY <1>1, <1>2, <1>3 DEF InFlight

LEMMA TypeInit == Init => TypeOK
<1> SUFFICES ASSUME Init PROVE TypeOK
  OBVIOUS
<1>1. init \in InitStates
  BY DEF Init, NewInit, InitStates
<1>2. join \in JoinStates
  BY DEF Init, NewJoin, JoinStates
<1>3. server \in ServerStates
  BY DEF Init, NewServer, ServerStates
<1>4. full \in BOOLEAN /\ crashed \in BOOLEAN
  BY DEF Init
<1> QED
  BY <1>1, <1>2, <1>3, <1>4 DEF Init, TypeOK

\* Every step keeps the types.
LEMMA TypeStep ==
  ASSUME TypeOK, [Next]_vars
  PROVE  TypeOK'
<1> USE DEF wires, counters
<1>1. CASE InitStart
  <2>1. [op |-> "NICK", nick |-> Nick] \in Messages
    BY NickTypes DEF Messages, NickMessages
  <2>2. init.alt \o Alternatives \in Seq(Nicks)
    BY NickTypes, ConcatProperties DEF TypeOK, InitStates
  <2>3. init' \in InitStates
    BY <1>1, <2>2 DEF InitStart, TypeOK, InitStates
  <2> QED
    BY <1>1, <2>1, <2>3, SendStep DEF InitStart, TypeOK
<1>2. CASE InitUser
  <2>1. [op |-> "USER"] \in Messages
    BY DEF Messages
  <2>2. init' \in InitStates
    BY <1>2 DEF InitUser, TypeOK, InitStates
  <2> QED
    BY <1>2, <2>1, <2>2, SendStep DEF InitUser, TypeOK
<1>3. CASE InitNext
  <2>1. CASE init.index < Len(init.alt)
    <3>1. init.alt[init.index + 1] \in Nicks
      BY <2>1 DEF TypeOK, InitStates
    <3>2. [op |-> "NICK", nick |-> init.alt[init.index + 1]] \in Messages
      BY <3>1 DEF Messages, NickMessages
    <3>3. init' \in InitStates
      <4>1. /\ init' = [init EXCEPT !.index = @ + 1, !.incoming = Tail(@)]
            /\ init.incoming # <<>>
        BY <1>3, <2>1 DEF InitNext
      <4>2. init.index + 1 \in Nat /\ Tail(init.incoming) \in Seq({"432", "433"})
        BY <4>1 DEF TypeOK, InitStates
      <4> QED
        BY <4>1, <4>2 DEF TypeOK, InitStates
    <3> QED
      BY <1>3, <2>1, <3>2, <3>3, SendStep DEF InitNext, TypeOK
  <2>2. CASE ~(init.index < Len(init.alt))
    BY <1>3, <2>2 DEF InitNext, TypeOK
  <2> QED
    BY <2>1, <2>2
<1>4. CASE InitIgnore
  <2>1. Tail(init.incoming) \in Seq({"432", "433"})
    BY <1>4 DEF InitIgnore, TypeOK, InitStates
  <2>2. init' \in InitStates
    BY <1>4, <2>1 DEF InitIgnore, TypeOK, InitStates
  <2> QED
    BY <1>4, <2>2 DEF InitIgnore, TypeOK
<1>5. CASE JoinStart \/ JoinSent \/ JoinReply
  <2>1. join' \in JoinStates
    <3>1. CASE JoinStart
      <4>1. Channels \ join.channels \in SUBSET Channels
        OBVIOUS
      <4> QED
        BY <3>1, <4>1 DEF JoinStart, TypeOK, JoinStates
    <3>2. CASE JoinSent
      BY <3>2 DEF JoinSent, TypeOK, JoinStates
    <3>3. CASE JoinReply
      <4>1. join.incoming - 1 \in Nat
        BY <3>3 DEF JoinReply, TypeOK, JoinStates
      <4> QED
        BY <3>3, <4>1 DEF JoinReply, TypeOK, JoinStates
    <3> QED
      BY <1>5, <3>1, <3>2, <3>3
  <2> QED
    BY <1>5, <2>1 DEF JoinStart, JoinSent, JoinReply, TypeOK
<1>6. ASSUME NEW c \in Channels, JoinSend(c) PROVE TypeOK'
  <2>1. [op |-> "JOIN", channel |-> c] \in Messages
    BY DEF Messages
  <2>2. join' \in JoinStates
    BY <1>6 DEF JoinSend, TypeOK, JoinStates
  <2> QED
    BY <1>6, <2>1, <2>2, SendStep DEF JoinSend, TypeOK
<1>7. CASE PingReply
  <2>1. [op |-> "PONG", token |-> Head(ping)] \in Messages /\ Tail(ping) \in Seq(Nat)
    BY <1>7 DEF PingReply, Messages, TypeOK
  <2> QED
    BY <1>7, <2>1, SendStep DEF PingReply, TypeOK
<1>8. CASE WriteWaiting
  BY <1>8, WriteStep DEF WriteWaiting, TypeOK
<1>9. CASE ServerNick
  <2>1. Head(outgoing) \in Messages /\ outgoing' \in Seq(Messages)
    BY <1>9, ReadStep DEF ServerNick
  <2>2. Head(outgoing).nick \in Nicks
    BY <1>9, <2>1 DEF ServerNick, Messages, NickMessages
  <2>3. server' \in ServerStates
    BY <1>9, <2>2 DEF ServerNick, TypeOK, ServerStates
  <2>4. init' \in InitStates
    <3>1. CASE init' = init
      BY <3>1 DEF TypeOK
    <3>2. CASE init' # init
      <4>1. PICK r \in {"432", "433"} :
              init' = [init EXCEPT !.incoming = Append(@, r)]
        BY <1>9, <3>2 DEF ServerNick
      <4>2. Append(init.incoming, r) \in Seq({"432", "433"})
        BY DEF TypeOK, InitStates
      <4> QED
        BY <4>1, <4>2 DEF TypeOK, InitStates
    <3> QED
      BY <3>1, <3>2
  <2> QED
    BY <1>9, <2>1, <2>3, <2>4 DEF ServerNick, TypeOK
<1>10. CASE ServerJoin
  <2>1. Head(outgoing) \in Messages /\ outgoing' \in Seq(Messages)
    BY <1>10, ReadStep DEF ServerJoin
  <2>2. Head(outgoing).channel \in Channels
    BY <1>10, <2>1 DEF ServerJoin, Messages, NickMessages
  <2>3. server' \in ServerStates
    <3>1. server.joined \cup {Head(outgoing).channel} \in SUBSET Channels
      BY <2>2 DEF TypeOK, ServerStates
    <3>2. \/ server' = server
          \/ server' = [server EXCEPT !.joined = @ \cup {Head(outgoing).channel}]
      BY <1>10 DEF ServerJoin
    <3> QED
      BY <3>1, <3>2 DEF TypeOK, ServerStates
  <2>4. join' \in JoinStates
    <3>1. join' = join \/ join' = [join EXCEPT !.incoming = @ + 1]
      BY <1>10 DEF ServerJoin
    <3> QED
      <4>1. join.incoming + 1 \in Nat
        BY DEF TypeOK, JoinStates
      <4>2. join \in JoinStates
        BY DEF TypeOK
      <4> QED
        BY ONLY <3>1, <4>1, <4>2 DEF JoinStates
  <2> QED
    BY <1>10, <2>1, <2>3, <2>4 DEF ServerJoin, TypeOK
<1>11. CASE ServerOther
  <2>1. Head(outgoing) \in Messages /\ outgoing' \in Seq(Messages)
    BY <1>11, ReadStep DEF ServerOther
  <2>2. Head(outgoing).op = "PONG" => Head(outgoing).token \in Nat
    BY <2>1 DEF Messages, NickMessages
  <2>3. server' \in ServerStates
    <3>1. CASE Head(outgoing).op = "USER"
      BY <1>11, <3>1 DEF ServerOther, TypeOK, ServerStates
    <3>2. CASE Head(outgoing).op = "PONG"
      <4>1. server' = [server EXCEPT !.pongs = Append(@, Head(outgoing).token)]
        BY <1>11, <3>2 DEF ServerOther
      <4>2. Append(server.pongs, Head(outgoing).token) \in Seq(Nat)
        BY <2>2, <3>2 DEF TypeOK, ServerStates
      <4> QED
        BY <4>1, <4>2 DEF TypeOK, ServerStates
    <3>3. CASE Head(outgoing).op = "garbage"
      BY <1>11, <3>3 DEF ServerOther, TypeOK
    <3> QED
      BY <1>11, <3>1, <3>2, <3>3 DEF ServerOther
  <2> QED
    BY <1>11, <2>1, <2>3 DEF ServerOther, TypeOK
<1>12. CASE ServerPing
  BY <1>12 DEF ServerPing, TypeOK
<1>13. CASE RestartInit
  <2>1. init' \in InitStates
    BY <1>13 DEF RestartInit, TypeOK, InitStates
  <2> QED
    BY <1>13, <2>1 DEF RestartInit, TypeOK
<1>14. CASE RestartJoin
  <2>1. join' \in JoinStates
    BY <1>14 DEF RestartJoin, TypeOK, JoinStates
  <2> QED
    BY <1>14, <2>1 DEF RestartJoin, TypeOK
<1>15. CASE Reconnect
  <2>1. init' \in InitStates
    BY <1>15 DEF Reconnect, NewInit, InitStates
  <2>2. join' \in JoinStates
    BY <1>15 DEF Reconnect, NewJoin, JoinStates
  <2>3. server' \in ServerStates
    BY <1>15 DEF Reconnect, NewServer, ServerStates
  <2>4. full' \in BOOLEAN
    BY <1>15 DEF Reconnect
  <2>5. conn' \in Nat /\ pings' \in Nat
    BY <1>15 DEF Reconnect, TypeOK
  <2>6. ping' \in Seq(Nat) /\ outgoing' \in Seq(Messages) /\ waiting' \in Seq(Messages)
    BY <1>15 DEF Reconnect
  <2> QED
    BY <1>15, <2>1, <2>2, <2>3, <2>4, <2>5, <2>6 DEF Reconnect, TypeOK
<1>16. CASE UNCHANGED vars
  BY <1>16 DEF vars, TypeOK
<1> QED
  BY <1>1, <1>2, <1>3, <1>4, <1>5, <1>6, <1>7, <1>8, <1>9, <1>10, <1>11, <1>12,
     <1>13, <1>14, <1>15, <1>16 DEF Next, InitWorker, JoinWorker, Server

-----------------------------------------------------------------------------
(* Chains of retries *)

\* The counts are numbers.
Numeric ==
  /\ Refusals \in Nat /\ IsFiniteSet(Ahead) /\ Cardinality(Ahead) \in Nat
  /\ \A S : InFlight(S) \in Nat
  /\ \A R, S : R \subseteq S => InFlight(R) <= InFlight(S)

LEMMA Numbers ==
  ASSUME TypeOK
  PROVE  Numeric
<1>1. /\ outgoing \in Seq(Messages) /\ waiting \in Seq(Messages)
      /\ init.incoming \in Seq({"432", "433"}) /\ init.alt \in Seq(Nicks)
      /\ init.index \in Nat
  BY DEF TypeOK, InitStates
<1>2. Refusals \in Nat
  BY <1>1, CountType DEF Refusals
<1>3. \A S : Count(outgoing, S) \in Nat /\ Count(waiting, S) \in Nat
  BY <1>1, CountType
<1>4. \A R, S : R \subseteq S => /\ Count(outgoing, R) <= Count(outgoing, S)
                                 /\ Count(waiting, R) <= Count(waiting, S)
  BY <1>1, CountMember
<1>5. \A R, S : R \subseteq S => InFlight(R) <= InFlight(S)
  BY <1>3, <1>4 DEF InFlight
<1>6. IsFiniteSet((init.index + 1)..Len(init.alt))
  <2>1. init.index + 1 \in Int /\ Len(init.alt) \in Int
    BY <1>1
  <2> QED
    BY <2>1, FS_Interval
<1>7. IsFiniteSet(Ahead)
  BY <1>6, FS_Subset DEF Ahead
<1> QED
  BY <1>2, <1>3, <1>5, <1>7, FS_CardinalityType DEF InFlight, Numeric

\* The same of the next state.
LEMMA NumbersNext == TypeOK' => Numeric'
<1>1. TypeOK => Numeric
  BY Numbers
<1> QED
  BY <1>1, PTL

\* Init takes a reply from its queue.
LEMMA TakeReply ==
  ASSUME TypeOK, init.incoming # <<>>, init'.incoming = Tail(init.incoming)
  PROVE  /\ Head(init.incoming) = "433" =>
              Refusals >= 1 /\ Refusals' = Refusals - 1
         /\ Head(init.incoming) # "433" => Refusals' = Refusals
<1>1. init.incoming \in Seq({"432", "433"})
  BY DEF TypeOK, InitStates
<1>2. Count(Tail(init.incoming), {"433"})
        = Count(init.incoming, {"433"})
            - IF Head(init.incoming) \in {"433"} THEN 1 ELSE 0
  BY <1>1, CountTail
<1>3. Head(init.incoming) \in {"433"} => Count(init.incoming, {"433"}) >= 1
  BY <1>1, CountMember
<1>4. Count(init.incoming, {"433"}) \in Nat
  BY <1>1, CountType
<1> QED
  BY <1>2, <1>3, <1>4 DEF Refusals

\* A step that neither sends nor refuses a nick.
Quiet ==
  /\ \A S \in SUBSET NickMessages : InFlight(S)' <= InFlight(S)
  /\ Refusals' = Refusals
  /\ init'.alt = init.alt /\ init'.index = init.index
  /\ server'.nick = server.nick
  /\ UNCHANGED <<status, crashed>>

\* What the steps other than NICK, 433 and a new connection have in common.
LEMMA QuietStep ==
  ASSUME TypeOK, [Next]_vars, ~InitStart, ~InitNext, ~ServerNick, ~Reconnect
  PROVE  /\ Quiet
         /\ restarts' = 0 => /\ restarts = 0
                             /\ init'.pc = "start" <=> init.pc = "start"
<1> DEFINE Goal == /\ Quiet
                   /\ restarts' = 0 => /\ restarts = 0
                                       /\ init'.pc = "start" <=> init.pc = "start"
<1> USE DEF wires, counters
<1>1. \A S : InFlight(S) \in Nat
  BY Numbers DEF Numeric
<1>2. ASSUME NEW m \in Messages, m.op # "NICK", Send(m)
      PROVE  \A S \in SUBSET NickMessages : InFlight(S)' <= InFlight(S)
  <2>1. m \notin NickMessages
    BY <1>2 DEF NickMessages
  <2>2. \A S : InFlight(S)' = InFlight(S) + IF m \in S THEN 1 ELSE 0
    BY <1>2, SendStep
  <2> QED
    BY <1>1, <2>1, <2>2
<1>3. ASSUME outgoing' = outgoing, waiting' = waiting
      PROVE  \A S \in SUBSET NickMessages : InFlight(S)' <= InFlight(S)
  BY <1>1, <1>3 DEF InFlight
<1>4. ASSUME outgoing # <<>>, outgoing' = Tail(outgoing), waiting' = waiting
      PROVE  \A S \in SUBSET NickMessages : InFlight(S)' <= InFlight(S)
  <2>1. \A S : InFlight(S)' = InFlight(S) - IF Head(outgoing) \in S THEN 1 ELSE 0
    BY <1>4, ReadStep
  <2> QED
    BY <1>1, <2>1
<1>5. CASE InitUser
  <2>1. [op |-> "USER"] \in Messages
    BY DEF Messages
  <2>2. /\ init'.alt = init.alt /\ init'.index = init.index
        /\ init'.incoming = init.incoming
        /\ init'.pc # "start" /\ init.pc # "start"
    BY <1>5 DEF InitUser, TypeOK, InitStates
  <2> QED
    BY <1>2, <1>5, <2>1, <2>2 DEF InitUser, Quiet, Refusals
<1>6. CASE InitIgnore
  <2>1. /\ init'.alt = init.alt /\ init'.index = init.index
        /\ init'.incoming = Tail(init.incoming) /\ init'.pc = init.pc
    BY <1>6 DEF InitIgnore, TypeOK, InitStates
  <2>2. Refusals' = Refusals
    BY <1>6, <2>1, TakeReply DEF InitIgnore
  <2> QED
    BY <1>3, <1>6, <2>1, <2>2 DEF InitIgnore, Quiet
<1>7. CASE JoinStart \/ JoinSent \/ JoinReply \/ ServerPing \/ RestartJoin
           \/ UNCHANGED vars
  <2>1. /\ UNCHANGED <<init, outgoing, waiting, server, status, crashed>>
        /\ restarts' = restarts \/ restarts' = restarts + 1
    BY <1>7 DEF JoinStart, JoinSent, JoinReply, ServerPing, RestartJoin, vars
  <2> QED
    BY <1>3, <2>1 DEF Quiet, Refusals, TypeOK
<1>8. ASSUME NEW c \in Channels, JoinSend(c) PROVE Goal
  <2>1. [op |-> "JOIN", channel |-> c] \in Messages
    BY DEF Messages
  <2> QED
    BY <1>2, <1>8, <2>1 DEF JoinSend, Quiet, Refusals
<1>9. CASE PingReply
  <2>1. [op |-> "PONG", token |-> Head(ping)] \in Messages
    BY <1>9 DEF PingReply, Messages, TypeOK
  <2> QED
    BY <1>2, <1>9, <2>1 DEF PingReply, Quiet, Refusals
<1>10. CASE WriteWaiting
  <2>1. [op |-> "garbage"] \notin NickMessages
    BY DEF NickMessages
  <2> QED
    BY <1>10, <2>1, WriteStep DEF WriteWaiting, Quiet, Refusals
<1>11. CASE ServerJoin \/ ServerOther
  <2>1. /\ outgoing # <<>> /\ outgoing' = Tail(outgoing)
        /\ UNCHANGED <<init, waiting, status, restarts, crashed>>
    BY <1>11 DEF ServerJoin, ServerOther
  <2>2. server'.nick = server.nick
    BY <1>11 DEF ServerJoin, ServerOther, TypeOK, ServerStates
  <2> QED
    BY <1>4, <2>1, <2>2 DEF Quiet, Refusals
<1>12. CASE RestartInit
  <2>1. /\ init'.alt = init.alt /\ init'.index = init.index
        /\ init'.incoming = init.incoming /\ restarts' # 0
    BY <1>12 DEF RestartInit, TypeOK, InitStates
  <2> QED
    BY <1>3, <1>12, <2>1 DEF RestartInit, Quiet, Refusals
<1> QED
  BY <1>5, <1>6, <1>7, <1>8, <1>9, <1>10, <1>11, <1>12
     DEF Next, InitWorker, JoinWorker, Server

\* While status stays, Refusable is a constant set.
LEMMA RefusableFixed ==
  ASSUME status' = status
  PROVE  /\ FreeAlternative' = FreeAlternative
         /\ \E r \in SUBSET NickMessages :
              /\ \A m : m \in r <=> m \in NickMessages /\ status[m.nick] # "free"
              /\ InFlight(Refusable) = InFlight(r)
              /\ InFlight(Refusable)' = InFlight(r)'
<1>1. Refusable' = Refusable /\ Refusable \in SUBSET NickMessages
  BY DEF Refusable
<1>2. PICK r \in SUBSET NickMessages : r = Refusable
  BY <1>1
<1>3. InFlight(Refusable) = InFlight(r) /\ InFlight(Refusable)' = InFlight(r)'
  BY <1>1, <1>2 DEF InFlight
<1>4. \A m : m \in r <=> m \in NickMessages /\ status[m.nick] # "free"
  BY <1>2 DEF Refusable
<1> QED
  BY <1>3, <1>4 DEF FreeAlternative

LEMMA CreditInit == Init => CreditInv
<1> SUFFICES ASSUME Init PROVE CreditInv
  OBVIOUS
<1>1. InFlight(Refusable) = 0 /\ Refusals = 0
  BY CountEmpty DEF InFlight, Refusals, Init, NewInit
<1>2. TypeOK
  BY TypeInit
<1>3. Cardinality(Ahead) \in Nat
  BY <1>2, Numbers DEF Numeric
<1> QED
  BY <1>1, <1>3 DEF CreditInv, Init, NewInit

\* Every step keeps a free alternative ahead of every chain.
LEMMA CreditStep ==
  ASSUME TypeOK, CreditInv, [Next]_vars
  PROVE  CreditInv'
<1> USE DEF wires, counters
<1>1. TypeOK'
  BY TypeStep
<1>2. /\ Refusals \in Nat /\ Refusals' \in Nat
      /\ \A S : InFlight(S) \in Nat
      /\ \A S : InFlight(S)' \in Nat
      /\ IsFiniteSet(Ahead) /\ IsFiniteSet(Ahead')
      /\ Cardinality(Ahead) \in Nat /\ Cardinality(Ahead') \in Nat
  BY <1>1, Numbers, NumbersNext DEF Numeric
<1>3. /\ init.alt \in Seq(Nicks) /\ init.index \in Nat /\ Len(init.alt) \in Nat
      /\ init.index <= Len(init.alt)
  BY DEF TypeOK, InitStates, CreditInv
<1>4. ASSUME ~InitStart, ~InitNext, ~ServerNick, ~Reconnect PROVE CreditInv'
  <2>1. Quiet
    BY <1>4, QuietStep
  <2>2. status' = status
    BY <2>1 DEF Quiet
  <2>3. FreeAlternative' = FreeAlternative
    BY <2>2, RefusableFixed
  <2>4. PICK r \in SUBSET NickMessages :
          InFlight(Refusable) = InFlight(r) /\ InFlight(Refusable)' = InFlight(r)'
    BY <2>2, RefusableFixed
  <2>5. InFlight(Refusable)' <= InFlight(Refusable)
    BY <2>1, <2>4 DEF Quiet
  <2>6. Ahead' = Ahead
    BY <2>1 DEF Quiet, Ahead
  <2>7. InFlight(Refusable) \in Nat /\ InFlight(Refusable)' \in Nat
    BY <1>2, <2>4
  <2> QED
    BY <1>2, <2>1, <2>3, <2>5, <2>6, <2>7 DEF CreditInv, Quiet
<1>5. CASE InitStart
  <2>1. /\ init'.alt = init.alt \o Alternatives /\ init'.index = init.index
        /\ init'.incoming = init.incoming
        /\ status' = status /\ crashed' = crashed
        /\ Send([op |-> "NICK", nick |-> Nick])
    BY <1>5 DEF InitStart, TypeOK, InitStates
  <2>2. PICK r \in SUBSET NickMessages :
          InFlight(Refusable) = InFlight(r) /\ InFlight(Refusable)' = InFlight(r)'
    BY <2>1, RefusableFixed
  <2>3. InFlight(r)' <= InFlight(r) + 1
    <3>1. [op |-> "NICK", nick |-> Nick] \in Messages
      BY NickTypes DEF Messages, NickMessages
    <3>2. InFlight(r)' = InFlight(r)
                           + IF [op |-> "NICK", nick |-> Nick] \in r THEN 1 ELSE 0
      BY <2>1, <3>1, SendStep
    <3> QED
      BY <1>2, <3>2
  <2>4. Refusals' = Refusals
    BY <2>1 DEF Refusals
  <2>5. /\ Len(init'.alt) = Len(init.alt) + Len(Alternatives)
        /\ Len(Alternatives) \in Nat
        /\ \A i \in 1..Len(init.alt) : init'.alt[i] = init.alt[i]
        /\ \A f \in 1..Len(Alternatives) :
             init'.alt[Len(init.alt) + f] = Alternatives[f]
    <3>1. /\ Len(init'.alt) = Len(init.alt) + Len(Alternatives)
          /\ \A i \in 1..(Len(init.alt) + Len(Alternatives)) :
               init'.alt[i] = IF i <= Len(init.alt) THEN init.alt[i]
                              ELSE Alternatives[i - Len(init.alt)]
      BY <1>3, <2>1, NickTypes, ConcatProperties
    <3>2. Len(Alternatives) \in Nat
      BY NickTypes
    <3>3. ASSUME NEW f \in 1..Len(Alternatives)
          PROVE  init'.alt[Len(init.alt) + f] = Alternatives[f]
      <4> DEFINE i == Len(init.alt) + f
      <4>1. /\ i \in 1..(Len(init.alt) + Len(Alternatives))
            /\ ~(i <= Len(init.alt)) /\ i - Len(init.alt) = f
        BY <1>3, <3>2
      <4> HIDE DEF i
      <4>2. init'.alt[i] = Alternatives[i - Len(init.alt)]
        BY <3>1, <4>1
      <4> QED
        BY <4>1, <4>2 DEF i
    <3>4. ASSUME NEW i \in 1..Len(init.alt) PROVE init'.alt[i] = init.alt[i]
      BY <1>3, <3>1, <3>2
    <3> QED
      BY <3>1, <3>2, <3>3, <3>4
  <2>6. ASSUME FreeAlternative PROVE Cardinality(Ahead) + 1 <= Cardinality(Ahead')
    <3>1. PICK f \in 1..Len(Alternatives) : status[Alternatives[f]] = "free"
      BY <2>6, NickTypes DEF FreeAlternative
    <3> DEFINE n == Len(init.alt) + f
    <3>2. n \notin Ahead
      BY <1>3, <3>1 DEF Ahead
    <3>3. n \in Ahead'
      BY <1>3, <2>1, <2>5, <3>1 DEF Ahead
    <3>4. Ahead \subseteq Ahead'
      BY <1>3, <2>1, <2>5 DEF Ahead
    <3>5. Cardinality(Ahead \cup {n}) = Cardinality(Ahead) + 1
      BY <1>2, <3>2, FS_AddElement
    <3>6. Ahead \cup {n} \subseteq Ahead'
      BY <3>3, <3>4
    <3>7. Cardinality(Ahead \cup {n}) <= Cardinality(Ahead')
      BY <1>2, <3>6, FS_Subset
    <3> QED
      BY <3>5, <3>7
  <2>7. FreeAlternative' = FreeAlternative
    BY <2>1, RefusableFixed
  <2>8. init'.index <= Len(init'.alt)
    BY <1>3, <2>1, <2>5
  <2>9. InFlight(r) \in Nat /\ InFlight(r)' \in Nat
    BY <1>2
  <2> QED
    BY <1>2, <2>1, <2>2, <2>3, <2>4, <2>6, <2>7, <2>8, <2>9 DEF CreditInv
<1>6. CASE InitNext
  <2>1. /\ init.incoming # <<>> /\ Head(init.incoming) = "433" /\ status' = status
    BY <1>6 DEF InitNext
  <2>2. FreeAlternative' = FreeAlternative
    BY <2>1, RefusableFixed
  <2>3. PICK r \in SUBSET NickMessages :
          /\ \A m : m \in r <=> m \in NickMessages /\ status[m.nick] # "free"
          /\ InFlight(Refusable) = InFlight(r) /\ InFlight(Refusable)' = InFlight(r)'
    BY <2>1, RefusableFixed
  <2>4. CASE init.index < Len(init.alt)
    <3> DEFINE next == init.alt[init.index + 1]
               m == [op |-> "NICK", nick |-> next]
    <3>1. /\ init'.alt = init.alt /\ init'.index = init.index + 1
          /\ init'.incoming = Tail(init.incoming)
          /\ crashed' = crashed /\ Send(m)
      BY <1>6, <2>4 DEF InitNext, TypeOK, InitStates
    <3>2. Refusals >= 1 /\ Refusals' = Refusals - 1
      BY <2>1, <3>1, TakeReply
    <3>3. m \in NickMessages /\ m.nick = next
      BY <1>3, <2>4 DEF NickMessages
    <3>4. InFlight(r)' = InFlight(r) + IF m \in r THEN 1 ELSE 0
      <4>1. m \in Messages
        BY <3>3 DEF Messages
      <4> QED
        BY <3>1, <4>1, SendStep
    <3>5. CASE status[next] = "free"
      <4>1. InFlight(r)' = InFlight(r)
        BY <1>2, <2>3, <3>3, <3>4, <3>5
      <4>2. init.index + 1 \in Ahead
        BY <1>3, <2>4, <3>5 DEF Ahead
      <4>3. Ahead' = Ahead \ {init.index + 1}
        BY <1>3, <2>1, <3>1 DEF Ahead
      <4>4. Cardinality(Ahead') = Cardinality(Ahead) - 1
        BY <1>2, <4>2, <4>3, FS_RemoveElement
      <4>5. InFlight(r) \in Nat
        BY <1>2
      <4>6. ASSUME FreeAlternative
            PROVE  ~crashed /\ InFlight(r) + Refusals <= Cardinality(Ahead)
        BY <2>3, <4>6 DEF CreditInv
      <4>7. ASSUME FreeAlternative
            PROVE  ~crashed' /\ InFlight(r)' + Refusals' <= Cardinality(Ahead')
        BY <1>2, <3>1, <3>2, <4>1, <4>4, <4>5, <4>6, <4>7
      <4>8. init'.index <= Len(init'.alt)
        BY <1>3, <2>4, <3>1
      <4> QED
        BY <2>2, <2>3, <4>7, <4>8 DEF CreditInv
    <3>6. CASE status[next] # "free"
      <4>1. Ahead' = Ahead
        BY <1>3, <2>1, <3>1, <3>6 DEF Ahead
      <4>2. /\ InFlight(r)' <= InFlight(r) + 1
            /\ InFlight(r) \in Nat /\ InFlight(r)' \in Nat
        BY <1>2, <3>4
      <4> QED
        BY <1>2, <1>3, <2>2, <2>3, <2>4, <3>1, <3>2, <4>1, <4>2 DEF CreditInv
    <3> QED
      BY <3>5, <3>6
  <2>5. CASE ~(init.index < Len(init.alt))
    <3>1. init' = init
      BY <1>6, <2>5 DEF InitNext
    <3>2. Refusals >= 1
      <4>1. init.incoming \in Seq({"432", "433"})
        BY DEF TypeOK, InitStates
      <4> QED
        BY <2>1, <4>1, CountMember DEF Refusals
    <3>3. Ahead = {}
      BY <1>3, <2>5 DEF Ahead
    <3>4. ~FreeAlternative
      <4>1. Cardinality(Ahead) = 0
        BY <3>3, FS_EmptySet
      <4>2. InFlight(r) \in Nat
        BY <1>2
      <4> QED
        BY <1>2, <2>3, <3>2, <4>1, <4>2 DEF CreditInv
    <3> QED
      BY <1>3, <2>2, <3>1, <3>4 DEF CreditInv
  <2> QED
    BY <2>4, <2>5
<1>7. CASE ServerNick
  <2> DEFINE m == Head(outgoing)
  <2>1. /\ outgoing # <<>> /\ m.op = "NICK" /\ outgoing' = Tail(outgoing)
        /\ UNCHANGED <<waiting, status, crashed>>
    BY <1>7 DEF ServerNick
  <2>2. FreeAlternative' = FreeAlternative
    BY <2>1, RefusableFixed
  <2>3. PICK r \in SUBSET NickMessages :
          /\ \A x : x \in r <=> x \in NickMessages /\ status[x.nick] # "free"
          /\ InFlight(Refusable) = InFlight(r) /\ InFlight(Refusable)' = InFlight(r)'
    BY <2>1, RefusableFixed
  <2>4. /\ m \in Messages
        /\ InFlight(r)' = InFlight(r) - IF m \in r THEN 1 ELSE 0
    BY <2>1, ReadStep
  <2>5. m \in NickMessages
    BY <2>1, <2>4 DEF Messages
  <2>6. init'.alt = init.alt /\ init'.index = init.index
    BY <1>7 DEF ServerNick, TypeOK, InitStates
  <2>7. Ahead' = Ahead
    BY <2>1, <2>6 DEF Ahead
  <2>8. InFlight(r) \in Nat /\ InFlight(r)' \in Nat
    BY <1>2
  <2>9. InFlight(r)' + Refusals' <= InFlight(r) + Refusals
    <3>1. CASE status[m.nick] = "free"
      <4>1. init' = init
        BY <1>7, <3>1 DEF ServerNick
      <4>2. Refusals' = Refusals
        BY <4>1 DEF Refusals
      <4> QED
        BY <1>2, <2>4, <2>8, <4>2
    <3>2. CASE status[m.nick] # "free"
      <4>1. m \in r
        BY <2>3, <2>5, <3>2
      <4>2. Refusals' <= Refusals + 1
        <5>1. PICK reply \in {"432", "433"} :
                init'.incoming = Append(init.incoming, reply)
          BY <1>7, <3>2 DEF ServerNick, TypeOK, InitStates
        <5>2. init.incoming \in Seq({"432", "433"})
          BY DEF TypeOK, InitStates
        <5>3. Count(init'.incoming, {"433"})
                = Count(init.incoming, {"433"}) + IF reply \in {"433"} THEN 1 ELSE 0
          BY <5>1, <5>2, CountAppend
        <5> QED
          BY <1>2, <5>3 DEF Refusals
      <4> QED
        BY <1>2, <2>4, <2>8, <4>1, <4>2
    <3> QED
      BY <3>1, <3>2
  <2> QED
    BY <1>2, <1>3, <2>1, <2>2, <2>3, <2>6, <2>7, <2>8, <2>9 DEF CreditInv
<1>8. CASE Reconnect
  <2>1. /\ init' = NewInit /\ outgoing' = <<>> /\ waiting' = <<>>
        /\ UNCHANGED <<status, crashed>>
    BY <1>8 DEF Reconnect
  <2>2. FreeAlternative' = FreeAlternative
    BY <2>1, RefusableFixed
  <2>3. InFlight(Refusable)' = 0
    BY <2>1, CountEmpty DEF InFlight
  <2>4. Refusals' = 0
    BY <2>1, CountEmpty DEF Refusals, NewInit
  <2> QED
    BY <1>2, <2>1, <2>2, <2>3, <2>4 DEF CreditInv, NewInit
<1> QED
  BY <1>4, <1>5, <1>6, <1>7, <1>8

LEMMA ChainInit == Init => ChainInv
<1> SUFFICES ASSUME Init PROVE ChainInv
  OBVIOUS
<1>1. \A S : InFlight(S) = 0
  BY CountEmpty DEF InFlight, Init
<1>2. Refusals = 0
  BY CountEmpty DEF Refusals, Init, NewInit
<1>3. Len(Alternatives) \in Nat
  BY NickTypes
<1> QED
  BY <1>1, <1>2, <1>3 DEF ChainInv, Init, NewInit, NewServer

\* Every step keeps the chain.
LEMMA ChainStep ==
  ASSUME TypeOK, ChainInv, [Next]_vars
  PROVE  ChainInv'
<1> USE DEF wires, counters
<1> SUFFICES ASSUME restarts' = 0 PROVE ChainInv'
  BY DEF ChainInv
<1> DEFINE Others(n) == {m \in NickMessages : m.nick # n}
<1>1. TypeOK'
  BY TypeStep
<1>2. /\ Refusals \in Nat /\ Refusals' \in Nat
      /\ \A S : InFlight(S) \in Nat
      /\ \A S : InFlight(S)' \in Nat
  BY <1>1, Numbers, NumbersNext DEF Numeric
<1>3. /\ Len(Alternatives) \in Nat /\ Order \in Seq(Nicks)
      /\ Len(Order) = Len(Alternatives) + 1
      /\ \A i \in 1..Len(Alternatives) : Order[i + 1] = Alternatives[i]
  BY NickTypes
<1>4. /\ init.index \in Nat /\ init.alt \in Seq(Nicks)
      /\ server.nick \in Nicks \cup {"none"}
  BY DEF TypeOK, InitStates, ServerStates
<1>5. ASSUME ~InitStart, ~InitNext, ~ServerNick, ~Reconnect PROVE ChainInv'
  <2>1. Quiet /\ restarts = 0 /\ (init'.pc = "start" <=> init.pc = "start")
    BY <1>5, QuietStep
  <2>2. PICK n : n = Latest
    OBVIOUS
  <2>3. n = Latest'
    BY <2>1, <2>2 DEF Latest, Quiet
  <2>4. /\ InFlight(NickMessages)' <= InFlight(NickMessages)
        /\ InFlight(Others(n))' <= InFlight(Others(n))
    BY <2>1 DEF Quiet
  <2>5. /\ InFlight({m \in NickMessages : m.nick # Latest}) = InFlight(Others(n))
        /\ InFlight({m \in NickMessages : m.nick # Latest})' = InFlight(Others(n))'
    BY <2>2, <2>3 DEF InFlight
  <2>6. /\ InFlight(NickMessages) \in Nat /\ InFlight(NickMessages)' \in Nat
        /\ InFlight(Others(n)) \in Nat /\ InFlight(Others(n))' \in Nat
    BY <1>2
  <2> HIDE DEF Others
  <2> QED
    BY <1>2, <2>1, <2>2, <2>3, <2>4, <2>5, <2>6 DEF ChainInv, Quiet
<1>6. CASE InitStart
  <2> DEFINE m == [op |-> "NICK", nick |-> Nick]
  <2>1. /\ init.pc = "start" /\ restarts = 0 /\ Send(m)
        /\ UNCHANGED <<server, status>>
    BY <1>6 DEF InitStart
  <2>2. /\ init.alt = <<>> /\ init.index = 0 /\ server.nick = "none"
        /\ InFlight(NickMessages) + Refusals = 0
        /\ InFlight({x \in NickMessages : x.nick # Latest}) = 0
    BY <2>1 DEF ChainInv
  <2>3. /\ init'.pc = "user" /\ init'.alt = <<>> \o Alternatives
        /\ init'.index = 0 /\ init'.incoming = init.incoming
    BY <1>6, <2>2 DEF InitStart, TypeOK, InitStates
  <2>4. init'.alt = Alternatives
    BY <2>3, NickTypes
  <2>5. Latest = Nick /\ Latest' = Nick
    BY <2>2, <2>3, NickTypes DEF Latest
  <2>6. m \in NickMessages /\ m \notin Others(Nick) /\ m \in Messages
    BY NickTypes DEF NickMessages, Messages
  <2>7. \A S : InFlight(S)' = InFlight(S) + IF m \in S THEN 1 ELSE 0
    BY <2>1, <2>6, SendStep
  <2>8. /\ InFlight(NickMessages)' = InFlight(NickMessages) + 1
        /\ InFlight(Others(Nick))' = InFlight(Others(Nick)) + 0
    BY <2>6, <2>7
  <2>9. /\ InFlight(NickMessages) = 0 /\ Refusals = 0 /\ InFlight(Others(Nick)) = 0
    <3>1. InFlight(NickMessages) \in Nat
      BY <1>2
    <3> QED
      BY <1>2, <2>2, <2>5, <3>1
  <2>10. InFlight({x \in NickMessages : x.nick # Latest})' = InFlight(Others(Nick))'
    BY <2>5 DEF InFlight
  <2>11. Refusals' = Refusals
    BY <2>3 DEF Refusals
  <2> HIDE DEF Others
  <2> QED
    BY <1>3, <2>1, <2>2, <2>3, <2>4, <2>8, <2>9, <2>10, <2>11 DEF ChainInv
<1>7. CASE InitNext
  <2>1. /\ init.pc = "loop" /\ init.incoming # <<>> /\ Head(init.incoming) = "433"
        /\ restarts = 0 /\ UNCHANGED <<server, status>>
    BY <1>7 DEF InitNext
  <2>2. /\ init.alt = Alternatives /\ init.index <= Len(Alternatives)
        /\ InFlight(NickMessages) + Refusals <= 1
        /\ Refusals # 0 => status[Latest] # "free"
        /\ server.nick # "none" => InFlight(NickMessages) + Refusals = 0
        /\ \A j \in 1..init.index : status[Order[j]] # "free"
    BY <2>1 DEF ChainInv
  <2>3. CASE init.index < Len(init.alt)
    <3> DEFINE next == init.alt[init.index + 1]
    <3>1. PICK n : n = next
      OBVIOUS
    <3> DEFINE m == [op |-> "NICK", nick |-> n]
    <3>2. /\ init'.pc = "loop" /\ init'.alt = init.alt
          /\ init'.index = init.index + 1
          /\ init'.incoming = Tail(init.incoming) /\ Send(m)
      BY <1>7, <2>1, <2>3, <3>1 DEF InitNext, TypeOK, InitStates
    <3>3. Refusals >= 1 /\ Refusals' = Refusals - 1
      BY <2>1, <3>2, TakeReply
    <3>4. n \in Nicks
      BY <1>4, <2>3, <3>1
    <3>5. m \in NickMessages /\ m \notin Others(n) /\ m \in Messages
      BY <3>4 DEF NickMessages, Messages
    <3>6. \A S : InFlight(S)' = InFlight(S) + IF m \in S THEN 1 ELSE 0
      BY <3>2, <3>5, SendStep
    <3>7. /\ InFlight(NickMessages)' = InFlight(NickMessages) + 1
          /\ InFlight(Others(n))' = InFlight(Others(n)) + 0
      BY <3>5, <3>6
    <3>8. /\ InFlight(NickMessages) \in Nat /\ InFlight(Others(n)) \in Nat
          /\ InFlight(Others(n)) <= InFlight(NickMessages)
      <4>1. Others(n) \subseteq NickMessages
        OBVIOUS
      <4> QED
        BY <4>1, Numbers DEF Numeric
    <3>9. Refusals = 1 /\ InFlight(NickMessages) = 0 /\ InFlight(Others(n)) = 0
      BY <1>2, <2>2, <3>3, <3>8
    <3>10. Latest' = n
      <4>1. init.index + 1 \in 1..Len(Alternatives)
        BY <1>3, <1>4, <2>2, <2>3
      <4>2. Order[init.index + 1 + 1] = Alternatives[init.index + 1]
        BY <1>3, <4>1
      <4>3. Latest' = Order[init.index + 1 + 1]
        BY <3>2 DEF Latest, Order
      <4> QED
        BY <2>2, <3>1, <4>2, <4>3
    <3>11. InFlight({x \in NickMessages : x.nick # Latest})' = InFlight(Others(n))'
      BY <3>10 DEF InFlight
    <3>12. \A j \in 1..init'.index : status'[Order[j]] # "free"
      <4>1. status[Order[init.index + 1]] # "free"
        BY <2>2, <3>9 DEF Latest
      <4>2. \A j \in 1..(init.index + 1) : j \in 1..init.index \/ j = init.index + 1
        BY <1>4
      <4> QED
        BY <2>1, <2>2, <3>2, <4>1, <4>2
    <3>13. server.nick = "none"
      BY <2>2, <3>9
    <3>14. Order' = Order
      BY DEF Order
    <3> HIDE DEF Others
    <3> QED
      BY <1>3, <1>4, <2>1, <2>2, <2>3, <3>2, <3>3, <3>7, <3>9, <3>11, <3>12, <3>13,
         <3>14 DEF ChainInv
  <2>4. CASE ~(init.index < Len(init.alt))
    <3>1. UNCHANGED <<init, outgoing, waiting, server, status, restarts>>
      BY <1>7, <2>4 DEF InitNext
    <3> QED
      BY <3>1 DEF ChainInv, InFlight, Refusals, Latest
  <2> QED
    BY <2>3, <2>4
<1>8. CASE ServerNick
  <2> DEFINE m == Head(outgoing)
  <2>1. /\ outgoing # <<>> /\ m.op = "NICK" /\ outgoing' = Tail(outgoing)
        /\ restarts = 0 /\ UNCHANGED <<waiting, status>>
    BY <1>8 DEF ServerNick
  <2>2. PICK n : n = Latest
    OBVIOUS
  <2>3. /\ m \in Messages
        /\ \A S : InFlight(S)' = InFlight(S) - IF m \in S THEN 1 ELSE 0
    BY <2>1, ReadStep
  <2>4. m \in NickMessages
    BY <2>1, <2>3 DEF Messages
  <2>5. /\ InFlight(NickMessages)' = InFlight(NickMessages) - 1
        /\ InFlight(NickMessages) \in Nat /\ InFlight(NickMessages)' \in Nat
        /\ InFlight(Others(n))' = InFlight(Others(n))
                                    - IF m \in Others(n) THEN 1 ELSE 0
        /\ InFlight(Others(n)) \in Nat /\ InFlight(Others(n))' \in Nat
    BY <1>2, <2>3, <2>4
  <2>6. InFlight({x \in NickMessages : x.nick # Latest}) = InFlight(Others(n))
    BY <2>2
  <2>7. InFlight(Others(n)) = 0 /\ InFlight(NickMessages) + Refusals <= 1
    BY <2>1, <2>6 DEF ChainInv
  <2>8. /\ InFlight(NickMessages) = 1 /\ InFlight(NickMessages)' = 0 /\ Refusals = 0
        /\ InFlight(Others(n))' = 0 /\ m \notin Others(n)
    BY <1>2, <2>5, <2>7
  <2>9. m.nick = Latest
    BY <2>2, <2>4, <2>8
  <2>10. init.pc # "start" /\ server.nick = "none"
    BY <1>2, <2>1, <2>8 DEF ChainInv
  <2>11. /\ init'.pc = init.pc /\ init'.alt = init.alt /\ init'.index = init.index
    BY <1>8 DEF ServerNick, TypeOK, InitStates
  <2>12. Latest' = Latest
    BY <2>11 DEF Latest
  <2>13. InFlight({x \in NickMessages : x.nick # Latest})' = InFlight(Others(n))'
    BY <2>2, <2>12 DEF InFlight
  <2> HIDE DEF Others
  <2>14. CASE status[m.nick] = "free"
    <3>1. init' = init /\ server'.nick = m.nick
      BY <1>8, <2>14 DEF ServerNick, TypeOK, ServerStates
    <3>2. Refusals' = 0
      BY <2>8, <3>1 DEF Refusals
    <3> QED
      BY <2>1, <2>8, <2>9, <2>10, <2>11, <2>12, <2>13, <3>1, <3>2 DEF ChainInv
  <2>15. CASE status[m.nick] # "free"
    <3>1. server' = server
      BY <1>8, <2>15 DEF ServerNick
    <3>2. Refusals' \in {0, 1}
      <4>1. PICK reply \in {"432", "433"} :
              init'.incoming = Append(init.incoming, reply)
        BY <1>8, <2>15 DEF ServerNick, TypeOK, InitStates
      <4>2. init.incoming \in Seq({"432", "433"})
        BY DEF TypeOK, InitStates
      <4>3. Count(init'.incoming, {"433"})
              = Count(init.incoming, {"433"}) + IF reply \in {"433"} THEN 1 ELSE 0
        BY <4>1, <4>2, CountAppend
      <4> QED
        BY <1>2, <2>8, <4>3 DEF Refusals
    <3>3. status'[Latest'] # "free"
      BY <2>1, <2>9, <2>12, <2>15
    <3>4. InFlight(NickMessages)' + Refusals' <= 1
      <4>1. \A k \in {0, 1} : 0 + k <= 1
        OBVIOUS
      <4>2. InFlight(NickMessages)' = 0
        BY <2>8
      <4> QED
        BY <3>2, <4>1, <4>2, Zenon
    <3>5. \A j \in 1..init'.index : status'[Order[j]] # "free"
      BY <2>1, <2>11 DEF ChainInv
    <3> QED
      BY <2>1, <2>8, <2>10, <2>11, <2>13, <3>1, <3>3, <3>4, <3>5 DEF ChainInv
  <2> QED
    BY <2>14, <2>15
<1>9. CASE Reconnect
  <2>1. /\ init' = NewInit /\ outgoing' = <<>> /\ waiting' = <<>>
        /\ server' = NewServer
    BY <1>9 DEF Reconnect
  <2>2. \A S : InFlight(S)' = 0
    BY <2>1, CountEmpty DEF InFlight
  <2>3. Refusals' = 0
    BY <2>1, CountEmpty DEF Refusals, NewInit
  <2>4. InFlight({x \in NickMessages : x.nick # Latest})' = 0
    BY <2>1, CountEmpty DEF InFlight
  <2> QED
    BY <1>3, <2>1, <2>2, <2>3, <2>4 DEF ChainInv, NewInit, NewServer
<1> QED
  BY <1>5, <1>6, <1>7, <1>8, <1>9

-----------------------------------------------------------------------------
(* Theorems *)

\* Every variable keeps its type: the queues of Init, Join and Ping and the
\* socket hold only messages that the program or the server makes.
THEOREM TypeCorrect == Spec => []TypeOK
<1>1. TypeOK /\ [Next]_vars => TypeOK'
  BY TypeStep
<1> QED
  BY TypeInit, <1>1, PTL DEF Spec

\* Init::onMessage: while an alternative is free, m_alt_nicks_index stays inside
\* m_alt_nicks, for every list and any number of restarts, although the code
\* does not test it.
THEOREM IndexInside == Spec => []IndexStaysInside
<1>1. Init => TypeOK /\ CreditInv
  BY TypeInit, CreditInit
<1>2. TypeOK /\ CreditInv /\ [Next]_vars => (TypeOK /\ CreditInv)'
  BY TypeStep, CreditStep
<1>3. TypeOK /\ CreditInv => IndexStaysInside
  BY DEF CreditInv, IndexStaysInside, FreeAlternative
<1> QED
  BY <1>1, <1>2, <1>3, PTL DEF Spec

\* Init: a bot that was not restarted has the first free nick of its
\* configuration, for every list of alternatives.
THEOREM FirstFree == Spec => []FirstFreeNick
<1>1. Init => TypeOK /\ ChainInv
  BY TypeInit, ChainInit
<1>2. TypeOK /\ ChainInv /\ [Next]_vars => (TypeOK /\ ChainInv)'
  BY TypeStep, ChainStep
<1>3. TypeOK /\ ChainInv => FirstFreeNick
  <2> SUFFICES ASSUME TypeOK, ChainInv, server.nick # "none", restarts = 0
               PROVE  \E i \in DOMAIN Order :
                        /\ server.nick = Order[i]
                        /\ \A j \in 1..(i - 1) : status[Order[j]] # "free"
    BY DEF FirstFreeNick, Order
  <2>1. /\ init.index \in Nat /\ init.index <= Len(Alternatives)
        /\ server.nick = Order[init.index + 1]
        /\ \A j \in 1..init.index : status[Order[j]] # "free"
    BY DEF TypeOK, InitStates, ChainInv, Latest
  <2>2. init.index + 1 \in DOMAIN Order /\ init.index + 1 - 1 = init.index
    BY <2>1, NickTypes
  <2> QED
    BY <2>1, <2>2
<1> QED
  BY <1>1, <1>2, <1>3, PTL DEF Spec

=============================================================================
