----------------------------- MODULE IRCStream ------------------------------
(***************************************************************************)
(* The path of a message from the server to Core: the server writes lines  *)
(* in the format of IRCMessage::toString, the socket delivers them cut     *)
(* into chunks, the receive handler of Core::startAsyncReceive passes each *)
(* chunk to IRCParser and then takes every parsed message.  The same       *)
(* IRCParser object serves all connections: Core::run does not reset it.   *)
(***************************************************************************)
EXTENDS Integers, SequencesExt

CONSTANTS
  Digits, Letters, Others,  \* the characters besides the separators
  Lines,          \* the messages the server may send
  CutAnywhere,    \* may a chunk end inside a token?
  MaxMessages,    \* bound: messages sent per connection
  MaxBroken,      \* bound: messages sent on a connection that breaks
  MaxConnections  \* bound: connections

VARIABLES
  m_state, token, m_tokens, m_last_token, m_message, m_messages,
  parsing, lexed, lines, fetched

\* Here a text is kept character by character, as in std::stringstream.
Texts ==
  Seq({":", " ", "!", "@", "CR", "LF", "NUL"}
        \cup Digits \cup Letters \cup Others)

Put(t, x) == Append(t, x)

INSTANCE IRCParser WITH MaxInput <- 0

\* Nothing in the text t is one of xs.
Without(t, xs) == \A i \in 1..Len(t) : t[i] \notin xs

EndOfLine == {"NUL", "CR", "LF"}

\* What a line can say in the protocol the lexer reads: a prefix is a server's
\* or a nick with a user or a host, a command is a number or a word, and only
\* the last parameter may be empty or hold spaces and colons.
WellFormed(m) ==
  /\ \/ m.SERVERNAME # <<>> /\ m.NICK = <<>> /\ m.USER = <<>> /\ m.HOST = <<>>
     \/ m.SERVERNAME = <<>> /\ m.NICK # <<>> /\ (m.USER # <<>> \/ m.HOST # <<>>)
     \/ /\ m.SERVERNAME = <<>> /\ m.NICK = <<>> /\ m.USER = <<>> /\ m.HOST = <<>>
        /\ Len(m.COMMAND) > 1
  /\ Without(m.SERVERNAME, {" ", "!", "@"} \cup EndOfLine)
  /\ Without(m.NICK, {" ", "!", "@"} \cup EndOfLine)
  /\ Without(m.USER, {" ", "@"} \cup EndOfLine)
  /\ Without(m.HOST, {" "} \cup EndOfLine)
  /\ m.COMMAND \in (Seq(Digits) \cup Seq(Letters)) \ {<<>>}
  /\ \A i \in 1..Len(m.params) :
       IF i < Len(m.params)
       THEN m.params[i] # <<>> /\ Without(m.params[i], {":", " "} \cup EndOfLine)
       ELSE Without(m.params[i], EndOfLine)

ASSUME AlphabetAssumption ==
  /\ Separators \cap (Digits \cup Letters \cup Others) = {}
  /\ Digits \cap Letters = {}
  /\ Others \cap (Digits \cup Letters) = {}

ASSUME StreamAssumption ==
  /\ Lines \subseteq IRCMessage /\ \A m \in Lines : WellFormed(m)
  /\ CutAnywhere \in BOOLEAN
  /\ MaxMessages \in Nat /\ MaxBroken \in Nat
  /\ MaxConnections \in Nat \ {0}

VARIABLES
  wire,        \* characters sent and not yet lexed
  sent,        \* messages sent on the current connection
  got,         \* messages Core has taken on the current connection
  origin,      \* and the line each message parsed so far comes from
  dirty,       \* the connection began in the middle of an old line
  connections  \* connections so far

ircParser == <<m_state, token, m_tokens, m_last_token, m_message, m_messages,
               parsing, lexed, lines, fetched>>
streamVars == <<wire, sent, got, origin, dirty, connections>>
allVars == <<ircParser, streamVars>>

-----------------------------------------------------------------------------
(* IRCMessage::toString *)

UserPrefix(m) ==
  <<":">> \o m.NICK
    \o (IF m.USER = <<>> THEN <<>> ELSE <<"!">> \o m.USER)
    \o (IF m.HOST = <<>> THEN <<>> ELSE <<"@">> \o m.HOST) \o <<" ">>

Prefix(m) ==
  IF m.SERVERNAME # <<>> THEN <<":">> \o m.SERVERNAME \o <<" ">>
  ELSE IF m.NICK # <<>> THEN UserPrefix(m)
  ELSE <<>>

\* The parameters from the i-th on, and all of them.
Parameters(ps) ==
  LET text[i \in 1..Len(ps)] ==
        IF i = Len(ps) THEN <<" ", ":">> \o ps[i]
        ELSE <<" ">> \o ps[i] \o text[i + 1]
  IN  IF ps = <<>> THEN <<>> ELSE text[1]

\* Mutant: the last parameter is written like the others.
ToString_NoColon(m) ==
  Prefix(m) \o m.COMMAND
    \o FlattenSeq([i \in 1..Len(m.params) |-> <<" ">> \o m.params[i]])
    \o <<"CR", "LF">>

toString(m) == Prefix(m) \o m.COMMAND \o Parameters(m.params) \o <<"CR", "LF">>

-----------------------------------------------------------------------------
StreamInit ==
  /\ Init
  /\ wire = <<>>
  /\ sent = <<>>
  /\ got = <<>> /\ origin = <<>>
  /\ dirty = FALSE
  /\ connections = 1

\* The server sends a line.  When it was sent does not matter to the lexer, so
\* the next line waits until the last one is lexed and parsed; a chunk may span
\* both.
ServerSend(m) ==
  /\ wire = <<>> /\ m_state # "LF"
  /\ Len(sent) < MaxMessages
  /\ wire' = toString(m)
  /\ sent' = Append(sent, m)
  /\ UNCHANGED <<ircParser, got, origin, dirty, connections>>

\* lexer() takes the next character of the chunk, or the first one of a new
\* chunk once the messages of the last one are taken.
LexNext ==
  /\ wire # <<>>
  /\ parsing \/ m_messages = <<>>
  /\ Lex(Head(wire))
  /\ wire' = Tail(wire)
  /\ UNCHANGED <<sent, got, origin, dirty, connections>>

\* The chunk ends here: after a line, between two tokens, or anywhere.
CutChunk ==
  /\ CutAnywhere \/ token = <<>> \/ wire = <<>>
  /\ EndOfChunk
  /\ UNCHANGED streamVars

RunParser ==
  /\ ParseToken \/ ParserReturn
  /\ origin' = IF m_messages' = m_messages THEN origin
               ELSE Append(origin, Len(sent))
  /\ UNCHANGED <<wire, sent, got, dirty, connections>>

\* Mutant: while (m_parser.messagesCount() > 1)
TakeMessage_KeepsLast ==
  /\ Len(m_messages) > 1
  /\ GetMessage
  /\ got' = Append(got, Head(m_messages))
  /\ UNCHANGED <<wire, sent, origin, dirty, connections>>

\* while (m_parser.messagesCount() > 0) auto msg = m_parser.getMessage();
TakeMessage ==
  /\ GetMessage
  /\ got' = Append(got, Head(m_messages))
  /\ UNCHANGED <<wire, sent, origin, dirty, connections>>

\* A connection error ends the connection and main's loop opens another one;
\* what was on the wire is lost, the parser stays as it is.
Reconnect ==
  /\ ~parsing /\ m_messages = <<>>
  /\ connections < MaxConnections /\ Len(sent) <= MaxBroken
  /\ wire' = <<>> /\ sent' = <<>> /\ got' = <<>> /\ origin' = <<>>
  /\ dirty' = (m_state # "NONE")
  /\ connections' = connections + 1
  /\ UNCHANGED ircParser

StreamNext ==
  \/ \E m \in Lines : ServerSend(m)
  \/ LexNext \/ CutChunk \/ RunParser \/ TakeMessage
  \/ Reconnect

StreamSpec == StreamInit /\ [][StreamNext]_allVars

\* The io thread keeps working on what has arrived.
StreamFairness ==
  /\ WF_allVars(LexNext) /\ WF_allVars(RunParser)
  /\ WF_allVars(CutChunk) /\ WF_allVars(TakeMessage)

StreamFairSpec == StreamSpec /\ StreamFairness

-----------------------------------------------------------------------------
(* Properties *)

\* Everything parsed on this connection, taken by Core or waiting.
Parsed == got \o m_messages

AllLexed == wire = <<>> /\ m_state # "LF"

\* A line with parameters ends in a message; the lexer takes the line end of
\* one without for a part of its command.
HasParams(m) == m.params # <<>>

AllHaveParams == \A i \in 1..Len(sent) : HasParams(sent[i])

\* IRCParser: "can be delivered in parts [...] Many messages can also be
\* delivered in one buffer" (include/ircbot/irc_parser.hpp): Core gets the
\* messages the server sent, field by field, in order, none missing and none
\* invented, as long as each has parameters.
StreamDelivered ==
  ~dirty /\ AllHaveParams =>
    /\ IsPrefix(Parsed, sent)
    /\ AllLexed => Parsed = sent

\* At most one message comes from a line, in the order of the lines.
OneEach ==
  /\ Len(Parsed) = Len(origin)
  /\ \A k, l \in 1..Len(origin) : k < l => origin[k] < origin[l]

\* Every message from one of the lines good is what the server sent.
Right(good) ==
  \A k \in 1..Len(origin) : origin[k] \in good => Parsed[k] = sent[origin[k]]

\* Once everything is lexed, every line of some with parameters has a message.
Complete(some) ==
  AllLexed =>
    \A i \in some : HasParams(sent[i]) => \E k \in 1..Len(origin) : origin[k] = i

\* IRCParser::lexer, COMMAND_NUM and COMMAND_LETTER: a line without parameters
\* damages at most itself and the next line (the run that violates
\* EveryLineDelivered shows that it does).  Every line that has parameters gives
\* a message, and it is right unless the line before had none.
OnlyNextLineDamaged ==
  ~dirty =>
    /\ OneEach
    /\ Right({i \in 1..Len(sent) : i > 1 => HasParams(sent[i - 1])})
    /\ Complete(1..Len(sent))

\* IRCParser: "State machine for parsing IRC messages (RFC 1459 compliant)"
\* (include/ircbot/irc_parser.hpp), where parameters are optional: Core gets
\* every message the server sent, with parameters or without.
EveryLineDelivered == ~dirty /\ AllLexed => Parsed = sent

\* Core::run keeps the IRCParser of the old connection: after a connection was
\* lost inside a line, lines of the new one are damaged or missing, but from the
\* third on every message is right that follows two lines with parameters.
ResyncAfterReconnect ==
  LET after == {i \in 3..Len(sent) : HasParams(sent[i - 1]) /\ HasParams(sent[i - 2])}
  IN  dirty => OneEach /\ Right(after) /\ Complete(after)

\* The receive handler: once the server falls silent, every character of it is
\* lexed and every message has reached Core's routing loop.  (The server falls
\* silent in the end, as MaxMessages and MaxConnections bound what it sends.)
EventuallyTaken == <>[](AllLexed /\ m_messages = <<>>)

=============================================================================
