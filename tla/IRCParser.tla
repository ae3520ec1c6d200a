----------------------------- MODULE IRCParser ------------------------------
(***************************************************************************)
(* The parser of the IRC stream (source/irc_parser.cpp): a lexer that      *)
(* consumes one character per step and queues tokens, and parser(), which  *)
(* runs at every line feed and turns the queued tokens into an IRCMessage. *)
(*                                                                         *)
(* A character is a separator the lexer tests for, a digit, a letter, or   *)
(* one of the others, which it never tells apart.  A text is a sequence of *)
(* characters; the constant operator Put is std::stringstream::put, left   *)
(* as a parameter because the lexer only asks whether a text is empty.     *)
(* lexer() has a local stringstream, so the text of an unfinished token is *)
(* gone when parse() returns: EndOfChunk.                                  *)
(***************************************************************************)
EXTENDS Integers, Sequences

CONSTANTS
  Digits, Letters, Others,  \* the characters besides the separators
  Texts,                    \* the values of the local stringstream
  Put(_, _),                \* Put(text, x): the text after token.put(x)
  MaxInput                  \* bound: characters lexed

Separators == {":", " ", "!", "@", "CR", "LF", "NUL"}

Chars == Separators \cup Digits \cup Letters \cup Others

ASSUME CharsAssumption ==
  /\ Separators \cap (Digits \cup Letters \cup Others) = {}
  /\ Digits \cap Letters = {}
  /\ Others \cap (Digits \cup Letters) = {}

ASSUME TextAssumption ==
  /\ <<>> \in Texts
  /\ \A t \in Texts, x \in Chars : Put(t, x) \in Texts \ {<<>>}

ASSUME BoundAssumption == MaxInput \in Nat

VARIABLES
  m_state,       \* State of the lexer; "LF" while parser() runs
  token,         \* the lexer's local stringstream
  m_tokens,      \* queue of tokens, records of type and value
  m_last_token,  \* type of the token parser() handled last
  m_message,     \* the IRCMessage under construction
  m_messages,    \* parsed messages waiting for getMessage()
  parsing,       \* a call of parse() is in progress
  lexed,         \* characters lexed so far
  lines,         \* lines the lexer has completed
  fetched        \* messages returned by getMessage() so far

lexVars == <<m_state, token, m_tokens, parsing, lexed, lines>>
parserVars == <<m_last_token, m_message, m_messages, fetched>>
vars == <<lexVars, parserVars>>

States == {"NONE", "SERVERNAME_NICK", "USER", "HOST", "COMMAND",
           "COMMAND_NUM", "COMMAND_LETTER", "PARAMS", "TRAILING", "CR", "LF"}

\* The token types whose value becomes a field of the message.
FieldTypes == {"SERVERNAME", "NICK", "USER", "HOST", "COMMAND"}

TokenTypes == FieldTypes \cup {"PARAM", "CR", "LF"}

Token == [type : TokenTypes, value : Texts]

IRCMessage == [SERVERNAME : Texts, NICK : Texts, USER : Texts, HOST : Texts,
               COMMAND : Texts, params : Seq(Texts)]

\* IRCMessage{}
EmptyMessage == [SERVERNAME |-> <<>>, NICK |-> <<>>, USER |-> <<>>,
                 HOST |-> <<>>, COMMAND |-> <<>>, params |-> <<>>]

Init ==
  /\ m_state = "NONE"
  /\ token = <<>>
  /\ m_tokens = <<>>
  /\ m_last_token = "LF"
  /\ m_message = EmptyMessage
  /\ m_messages = <<>>
  /\ parsing = FALSE
  /\ lexed = 0
  /\ lines = 0
  /\ fetched = 0

-----------------------------------------------------------------------------
(* lexer(): one action per state, for the next character x *)

\* token.put(x), staying in the same state or going to state s.
Collect(x, s) ==
  /\ token' = Put(token, x)
  /\ m_state' = s
  /\ UNCHANGED m_tokens

\* The character is dropped.
Skip(s) ==
  /\ m_state' = s
  /\ UNCHANGED <<token, m_tokens>>

\* Mutant: the state is queued as the type.
PutToken_StateAsType(type, s) ==
  /\ m_tokens' = Append(m_tokens, [type |-> m_state, value |-> token])
  /\ token' = <<>>
  /\ m_state' = s

\* putToken(type, token) and a change to state s.
PutToken(type, s) ==
  /\ m_tokens' = Append(m_tokens, [type |-> type, value |-> token])
  /\ token' = <<>>
  /\ m_state' = s

LexNone(x) ==
  /\ m_state = "NONE"
  /\ \/ x = ":" /\ Skip("SERVERNAME_NICK")
     \/ x # ":" /\ Collect(x, "COMMAND")

\* Mutant: a name that ends in '@' is taken for a server's.
LexServernameNick_TypeByLast(x) ==
  /\ m_state = "SERVERNAME_NICK"
  /\ \/ x \notin {" ", "!", "@"} /\ Collect(x, m_state)
     \/ x = " " /\ PutToken("SERVERNAME", "COMMAND")
     \/ x = "!" /\ PutToken("NICK", "USER")
     \/ x = "@" /\ PutToken("SERVERNAME", "HOST")

LexServernameNick(x) ==
  /\ m_state = "SERVERNAME_NICK"
  /\ \/ x \notin {" ", "!", "@"} /\ Collect(x, m_state)
     \/ x = " " /\ PutToken("SERVERNAME", "COMMAND")
     \/ x = "!" /\ PutToken("NICK", "USER")
     \/ x = "@" /\ PutToken("NICK", "HOST")

\* Mutant: a user name is expected to have a host behind it.
LexUser_NeedsHost(x) ==
  /\ m_state = "USER"
  /\ \/ x # "@" /\ Collect(x, m_state)
     \/ x = "@" /\ PutToken("USER", "HOST")

LexUser(x) ==
  /\ m_state = "USER"
  /\ \/ x \notin {" ", "@"} /\ Collect(x, m_state)
     \/ x = " " /\ PutToken("USER", "COMMAND")
     \/ x = "@" /\ PutToken("USER", "HOST")

LexHost(x) ==
  /\ m_state = "HOST"
  /\ \/ x # " " /\ Collect(x, m_state)
     \/ x = " " /\ PutToken("HOST", "COMMAND")

LexCommand(x) ==
  /\ m_state = "COMMAND"
  /\ \/ x \in Digits /\ Collect(x, "COMMAND_NUM")
     \/ x \in Letters /\ Collect(x, "COMMAND_LETTER")
     \/ x \notin Digits \cup Letters /\ Skip(m_state)

\* COMMAND_NUM and COMMAND_LETTER: any other character, the line end too, is
\* the "error report!" branch, which does nothing.
LexCommandWord(x) ==
  /\ \/ m_state = "COMMAND_NUM" /\ x \in Digits /\ Collect(x, m_state)
     \/ m_state = "COMMAND_LETTER" /\ x \in Letters /\ Collect(x, m_state)
     \/ /\ m_state \in {"COMMAND_NUM", "COMMAND_LETTER"}
        /\ x = " " /\ PutToken("COMMAND", "PARAMS")
     \/ m_state = "COMMAND_NUM" /\ x \notin Digits \cup {" "} /\ Skip(m_state)
     \/ /\ m_state = "COMMAND_LETTER"
        /\ x \notin Letters \cup {" "} /\ Skip(m_state)

\* putToken(CR) or putToken(LF) behind the tokens q, and the state of that name.
LineEnd(q, x) ==
  /\ m_tokens' = Append(q, [type |-> x, value |-> <<>>])
  /\ token' = <<>>
  /\ m_state' = x

\* The queue once the text collected so far has become a parameter.
WithParam == Append(m_tokens, [type |-> "PARAM", value |-> token])

LexParams(x) ==
  /\ m_state = "PARAMS"
  /\ \/ x \notin {":", " ", "NUL", "CR", "LF"} /\ Collect(x, m_state)
     \/ x = ":" /\ Skip("TRAILING")
     \/ x = " " /\ token # <<>> /\ PutToken("PARAM", m_state)
     \/ x = " " /\ token = <<>> /\ Skip(m_state)
     \/ x \in {"CR", "LF"} /\ token # <<>> /\ LineEnd(WithParam, x)
     \/ x \in {"CR", "LF"} /\ token = <<>> /\ LineEnd(m_tokens, x)
     \/ x = "NUL" /\ Skip(m_state)

LexTrailing(x) ==
  /\ m_state = "TRAILING"
  /\ \/ x \notin {"NUL", "CR", "LF"} /\ Collect(x, m_state)
     \/ x \in {"CR", "LF"} /\ LineEnd(WithParam, x)
     \/ x = "NUL" /\ Skip(m_state)

LexCr(x) ==
  /\ m_state = "CR"
  /\ \/ x = "LF" /\ LineEnd(m_tokens, "LF")
     \/ x # "LF" /\ Skip(m_state)

Lex(x) ==
  /\ \/ LexNone(x) \/ LexServernameNick(x) \/ LexUser(x) \/ LexHost(x)
     \/ LexCommand(x) \/ LexCommandWord(x)
     \/ LexParams(x) \/ LexTrailing(x) \/ LexCr(x)
  /\ parsing' = TRUE
  /\ lexed' = lexed + 1
  /\ lines' = IF m_state' = "LF" THEN lines + 1 ELSE lines
  /\ UNCHANGED parserVars

\* parse() returns: the text of an unfinished token is lost.  (Between two
\* characters of a call the lexer is never in state LF.)
EndOfChunk ==
  /\ parsing /\ m_state # "LF"
  /\ parsing' = FALSE
  /\ token' = <<>>
  /\ UNCHANGED <<m_state, m_tokens, lexed, lines, parserVars>>

-----------------------------------------------------------------------------
(* parser() *)

\* The token types parser() accepts after the last token; for the others it
\* is in a "report error!" branch.
Follows(last) ==
  CASE last = "LF"               -> {"SERVERNAME", "NICK", "COMMAND"}
    [] last = "SERVERNAME"       -> {"COMMAND"}
    [] last = "NICK"             -> {"USER", "HOST", "COMMAND"}
    [] last = "USER"             -> {"HOST", "COMMAND"}
    [] last = "HOST"             -> {"COMMAND"}
    [] last \in {"COMMAND", "PARAM"} -> {"PARAM", "CR", "LF"}
    [] last = "CR"               -> {"LF"}

\* Mutants: m_message is not reset; a message without parameters is dropped.
StoreToken_NoReset(t) ==
  \/ /\ t.type \in FieldTypes
     /\ m_message' = [m_message EXCEPT ![t.type] = t.value]
     /\ UNCHANGED m_messages
  \/ /\ t.type = "PARAM"
     /\ m_message' = [m_message EXCEPT !.params = Append(@, t.value)]
     /\ UNCHANGED m_messages
  \/ /\ t.type = "CR"
     /\ UNCHANGED <<m_message, m_messages>>
  \/ /\ t.type = "LF"
     /\ m_messages' = Append(m_messages, m_message)
     /\ UNCHANGED m_message

StoreToken_NeedsParams(t) ==
  \/ /\ t.type \in FieldTypes
     /\ m_message' = [m_message EXCEPT ![t.type] = t.value]
     /\ UNCHANGED m_messages
  \/ /\ t.type = "PARAM"
     /\ m_message' = [m_message EXCEPT !.params = Append(@, t.value)]
     /\ UNCHANGED m_messages
  \/ /\ t.type = "CR"
     /\ UNCHANGED <<m_message, m_messages>>
  \/ /\ t.type = "LF"
     /\ m_messages' = IF m_message.params = <<>> THEN m_messages
                      ELSE Append(m_messages, m_message)
     /\ m_message' = EmptyMessage

\* The assignment parser() makes for token t when it is acceptable.
StoreToken(t) ==
  \/ /\ t.type \in FieldTypes
     /\ m_message' = [m_message EXCEPT ![t.type] = t.value]
     /\ UNCHANGED m_messages
  \/ /\ t.type = "PARAM"
     /\ m_message' = [m_message EXCEPT !.params = Append(@, t.value)]
     /\ UNCHANGED m_messages
  \/ /\ t.type = "CR"
     /\ UNCHANGED <<m_message, m_messages>>
  \/ /\ t.type = "LF"
     /\ m_messages' = Append(m_messages, m_message)
     /\ m_message' = EmptyMessage

\* Pop one token; one that is not acceptable changes nothing but m_last_token.
ParseToken ==
  /\ m_state = "LF"
  /\ m_tokens # <<>>
  /\ m_tokens' = Tail(m_tokens)
  /\ m_last_token' = Head(m_tokens).type
  /\ IF Head(m_tokens).type \in Follows(m_last_token)
       THEN StoreToken(Head(m_tokens))
       ELSE UNCHANGED <<m_message, m_messages>>
  /\ UNCHANGED <<m_state, token, parsing, lexed, lines, fetched>>

\* parser() returns and the lexer starts the next line.
ParserReturn ==
  /\ m_state = "LF"
  /\ m_tokens = <<>>
  /\ m_state' = "NONE"
  /\ UNCHANGED <<token, m_tokens, parsing, lexed, lines, parserVars>>

\* getMessage(), which the receive handler calls when parse() has returned.
GetMessage ==
  /\ ~parsing
  /\ m_messages # <<>>
  /\ m_messages' = Tail(m_messages)
  /\ fetched' = fetched + 1
  /\ UNCHANGED <<lexVars, m_last_token, m_message>>

-----------------------------------------------------------------------------
Next ==
  \/ lexed < MaxInput /\ \E x \in Chars : Lex(x)
  \/ EndOfChunk
  \/ ParseToken
  \/ ParserReturn
  \/ GetMessage

Spec == Init /\ [][Next]_vars

-----------------------------------------------------------------------------
(* Properties, for every input *)

\* The variables keep their types.
TypeOK ==
  /\ m_state \in States
  /\ token \in Texts
  /\ m_tokens \in Seq(Token)
  /\ m_last_token \in TokenTypes
  /\ m_message \in IRCMessage
  /\ m_messages \in Seq(IRCMessage)
  /\ parsing \in BOOLEAN
  /\ lexed \in Nat /\ lines \in Nat /\ fetched \in Nat

\* The types of the tokens q, read after a token of type last, are acceptable.
Chained(last, q) ==
  /\ q # <<>> => q[1].type \in Follows(last)
  /\ \A i \in 1..(Len(q) - 1) : q[i + 1].type \in Follows(q[i].type)

\* parser(): whatever the server sends and however it is cut, the tokens the
\* lexer queues follow the grammar parser() expects, so that none of its
\* "report error!" branches is ever taken.
NoParserError == Chained(m_last_token, m_tokens)

\* lexer()/parser(): nothing of a line is left over when the next one begins;
\* no field, parameter or token of one message leaks into the next.
CleanBetweenMessages ==
  m_state = "NONE" =>
    /\ token = <<>>
    /\ m_tokens = <<>>
    /\ m_message = EmptyMessage
    /\ m_last_token = "LF"

\* lexer()/parser(): every completed line gives exactly one message, for every
\* input.
OneMessagePerLine ==
  fetched + Len(m_messages) =
    IF m_state = "LF" /\ m_tokens # <<>> THEN lines - 1 ELSE lines

\* parser(): a message with a server name has no nick, user or host, which
\* IRCMessage::toString relies on.
PrefixIsServerOrUser ==
  \A i \in 1..Len(m_messages) :
    m_messages[i].SERVERNAME # <<>> =>
      /\ m_messages[i].NICK = <<>>
      /\ m_messages[i].USER = <<>>
      /\ m_messages[i].HOST = <<>>

=============================================================================
