-------------------------- MODULE IRCParserProofs ---------------------------
(***************************************************************************)
(* Theorems about IRCParser, for every input, every way of cutting it into *)
(* chunks, every alphabet and every length of the input.                   *)
(***************************************************************************)
EXTENDS IRCParser, TLAPS

\* The type of the token queued or handled last.
LastType(last, q) == IF q = <<>> THEN last ELSE q[Len(q)].type

\* What the state of the lexer says about the token it queued last.
LexInv ==
  LET t == LastType(m_last_token, m_tokens) IN
  /\ m_state \in {"NONE", "SERVERNAME_NICK"} => m_tokens = <<>>
  /\ m_state = "USER" => t = "NICK"
  /\ m_state = "HOST" => t \in {"NICK", "USER"}
  /\ m_state \in {"COMMAND", "COMMAND_NUM", "COMMAND_LETTER"}
       => t \in {"LF", "SERVERNAME", "USER", "HOST"}
  /\ m_state \in {"PARAMS", "TRAILING"} => t \in {"COMMAND", "PARAM"}
  /\ m_state = "CR" => t = "CR"
  /\ m_state = "LF" => t = "LF"

\* While the lexer is inside a line parser() is at rest, and the text is empty
\* where no token has been begun.
RestInv ==
  /\ m_state # "LF" => m_last_token = "LF"
  /\ m_state \in {"NONE", "CR", "LF"} => token = <<>>

\* A line feed is only ever the last token, and only when parser() runs.
LfInv ==
  /\ m_state # "LF" =>
       \A i \in 1..Len(m_tokens) : m_tokens[i].type # "LF"
  /\ \A i \in 1..(Len(m_tokens) - 1) : m_tokens[i].type # "LF"

\* What the last handled token says about the message under construction.
MessageInv ==
  /\ m_last_token = "LF" => m_message = EmptyMessage
  /\ m_last_token \in {"NICK", "USER"} => m_message.SERVERNAME = <<>>
  /\ m_message.SERVERNAME # <<>> =>
       m_message.NICK = <<>> /\ m_message.USER = <<>> /\ m_message.HOST = <<>>

\* The inductive invariant.
ParserInv ==
  /\ TypeOK
  /\ NoParserError
  /\ LexInv
  /\ RestInv
  /\ LfInv
  /\ MessageInv
  /\ OneMessagePerLine
  /\ PrefixIsServerOrUser

-----------------------------------------------------------------------------
\* Appending an acceptable token keeps a token queue acceptable.
LEMMA ChainedAppend ==
  ASSUME NEW last, NEW q \in Seq(Token), NEW t \in Token,
         Chained(last, q), t.type \in Follows(LastType(last, q))
  PROVE  Chained(last, Append(q, t))
<1> DEFINE r == Append(q, t)
<1>1. /\ Len(r) = Len(q) + 1 /\ r # <<>>
      /\ \A i \in 1..Len(q) : r[i] = q[i]
      /\ r[Len(q) + 1] = t
  OBVIOUS
<1>2. CASE q = <<>>
  BY <1>1, <1>2 DEF Chained, LastType
<1>3. CASE q # <<>>
  <2>1. Len(q) \in Nat /\ Len(q) > 0
    BY <1>3
  <2>2. r[1].type \in Follows(last)
    BY <1>1, <1>3, <2>1 DEF Chained
  <2>3. ASSUME NEW i \in 1..(Len(r) - 1)
        PROVE  r[i + 1].type \in Follows(r[i].type)
    <3>1. CASE i < Len(q)
      BY <1>1, <2>1, <3>1 DEF Chained
    <3>2. CASE i = Len(q)
      BY <1>1, <1>3, <2>1, <3>2 DEF LastType
    <3> QED
      BY <1>1, <2>1, <2>3, <3>1, <3>2
  <2> QED
    BY <2>2, <2>3 DEF Chained
<1> QED
  BY <1>2, <1>3

\* What is left of an acceptable queue is acceptable after its first token.
LEMMA ChainedTail ==
  ASSUME NEW last, NEW q \in Seq(Token), q # <<>>, Chained(last, q)
  PROVE  /\ q[1].type \in Follows(last)
         /\ Chained(q[1].type, Tail(q))
<1>1. /\ Len(Tail(q)) = Len(q) - 1 /\ Len(q) \in Nat /\ Len(q) > 0
      /\ \A i \in 1..(Len(q) - 1) : Tail(q)[i] = q[i + 1]
      /\ Tail(q) # <<>> => Len(q) > 1
  OBVIOUS
<1>2. Tail(q) # <<>> => Tail(q)[1].type \in Follows(q[1].type)
  BY <1>1 DEF Chained
<1>3. ASSUME NEW i \in 1..(Len(Tail(q)) - 1)
      PROVE  Tail(q)[i + 1].type \in Follows(Tail(q)[i].type)
  BY <1>1 DEF Chained
<1> QED
  BY <1>2, <1>3 DEF Chained

\* The type at the end of a queue after an append and after a pop.
LEMMA LastTypeOf ==
  ASSUME NEW last, NEW q \in Seq(Token), NEW t \in Token
  PROVE  /\ LastType(last, Append(q, t)) = t.type
         /\ q # <<>> => LastType(q[1].type, Tail(q)) = LastType(last, q)
<1>1. /\ Len(Append(q, t)) = Len(q) + 1 /\ Append(q, t) # <<>>
      /\ Append(q, t)[Len(q) + 1] = t
  OBVIOUS
<1>2. ASSUME q # <<>>
      PROVE  LastType(q[1].type, Tail(q)) = LastType(last, q)
  <2>1. /\ Len(Tail(q)) = Len(q) - 1 /\ Len(q) \in Nat /\ Len(q) > 0
        /\ \A i \in 1..(Len(q) - 1) : Tail(q)[i] = q[i + 1]
    BY <1>2
  <2>2. CASE Tail(q) = <<>>
    <3>0. Len(Tail(q)) = 0
      BY <2>2, Len(<<>>) = 0, Zenon
    <3>1. Len(q) = 1
      BY <2>1, <3>0
    <3> QED
      BY <1>2, <2>2, <3>1 DEF LastType
  <2>3. CASE Tail(q) # <<>>
    <3>1. Len(q) > 1
      BY <1>2, <2>3
    <3>2. Tail(q)[Len(q) - 1] = q[Len(q)]
      BY <2>1, <3>1
    <3> QED
      BY <1>2, <2>1, <2>3, <3>2 DEF LastType
  <2> QED
    BY <2>2, <2>3
<1> QED
  BY <1>1, <1>2 DEF LastType

-----------------------------------------------------------------------------
\* The part of ParserInv that concerns the lexer's variables; the rest only
\* changes when parser() or getMessage() runs.
LexerInv ==
  /\ token \in Texts /\ m_tokens \in Seq(Token) /\ m_state \in States
  /\ NoParserError /\ LexInv /\ RestInv /\ LfInv

\* A step of the lexer within a line that queues nothing.
LEMMA LexQuiet ==
  ASSUME ParserInv, NEW x \in Chars, NEW s \in States,
         m_state # "LF", m_last_token' = m_last_token, m_state' = s,
         Collect(x, s) \/ Skip(s),
         \/ s = m_state
         \/ m_state = "NONE" /\ s \in {"COMMAND", "SERVERNAME_NICK"}
         \/ m_state = "COMMAND" /\ s \in {"COMMAND_NUM", "COMMAND_LETTER"}
         \/ m_state = "PARAMS" /\ s = "TRAILING",
         s = "CR" => Skip(s),
         s # "NONE"
  PROVE  LexerInv' /\ s # "LF" /\ m_tokens' = m_tokens
<1>1. /\ m_tokens' = m_tokens /\ token' \in Texts
      /\ m_state' \in States /\ s # "LF"
  BY TextAssumption DEF ParserInv, TypeOK, Collect, Skip, States
<1>2. NoParserError' /\ LfInv'
  BY <1>1 DEF ParserInv, NoParserError, LfInv
<1>3. LexInv'
  BY <1>1 DEF ParserInv, LexInv, RestInv, LastType
<1>4. RestInv'
  BY <1>1 DEF ParserInv, RestInv, Skip
<1> QED
  BY <1>1, <1>2, <1>3, <1>4 DEF LexerInv, ParserInv, TypeOK

\* A step of the lexer that queues one acceptable token other than LF.
LEMMA LexPut ==
  ASSUME ParserInv, NEW type \in TokenTypes \ {"LF"}, NEW s \in States,
         m_state # "LF", m_last_token' = m_last_token,
         PutToken(type, s),
         type \in Follows(LastType(m_last_token, m_tokens)),
         \/ type = "NICK" /\ s \in {"USER", "HOST"}
         \/ type = "USER" /\ s \in {"HOST", "COMMAND"}
         \/ type \in {"SERVERNAME", "HOST"} /\ s = "COMMAND"
         \/ type \in {"COMMAND", "PARAM"} /\ s = "PARAMS"
  PROVE  LexerInv' /\ s # "LF"
<1> DEFINE t == [type |-> type, value |-> token]
<1>1. /\ t \in Token /\ m_tokens \in Seq(Token)
      /\ m_tokens' = Append(m_tokens, t) /\ m_tokens' \in Seq(Token)
      /\ token' = <<>> /\ token' \in Texts /\ m_state' = s
  BY TextAssumption DEF ParserInv, TypeOK, PutToken, Token
<1>2. NoParserError'
  BY <1>1, ChainedAppend DEF ParserInv, NoParserError
<1>3. LastType(m_last_token', m_tokens') = type
  BY <1>1, LastTypeOf
<1>4. LexInv'
  BY <1>1, <1>3 DEF LexInv
<1>5. RestInv'
  BY <1>1 DEF ParserInv, RestInv
<1>6. LfInv'
  <2>1. /\ Len(m_tokens') = Len(m_tokens) + 1 /\ Len(m_tokens) \in Nat
        /\ \A i \in 1..Len(m_tokens) : m_tokens'[i] = m_tokens[i]
        /\ m_tokens'[Len(m_tokens) + 1] = t
    BY <1>1
  <2>2. \A i \in 1..Len(m_tokens) : m_tokens[i].type # "LF"
    BY DEF ParserInv, LfInv
  <2> QED
    BY <2>1, <2>2 DEF LfInv
<1> QED
  BY <1>1, <1>2, <1>4, <1>5, <1>6 DEF LexerInv

\* A step of the lexer that ends a line, with or without a last parameter.
LEMMA LexLineEnd ==
  ASSUME ParserInv, NEW x \in {"CR", "LF"}, NEW q \in {m_tokens, WithParam},
         m_state \in {"PARAMS", "TRAILING", "CR"},
         m_state = "CR" => x = "LF" /\ q = m_tokens,
         m_last_token' = m_last_token,
         LineEnd(q, x)
  PROVE  LexerInv' /\ m_tokens' # <<>> /\ m_state' = x
<1> DEFINE p == [type |-> "PARAM", value |-> token]
           e == [type |-> x, value |-> <<>>]
<1>1. /\ p \in Token /\ e \in Token /\ m_tokens \in Seq(Token)
      /\ token' = <<>> /\ token' \in Texts /\ m_state' = x
      /\ m_state' \in States /\ m_tokens' = Append(q, e)
  BY TextAssumption
     DEF ParserInv, TypeOK, LineEnd, Token, TokenTypes, FieldTypes, States
<1>2. LastType(m_last_token, m_tokens) \in {"COMMAND", "PARAM", "CR"}
      /\ (m_state # "CR" =>
            LastType(m_last_token, m_tokens) \in {"COMMAND", "PARAM"})
  BY DEF ParserInv, LexInv
<1>3. \A i \in 1..Len(m_tokens) : m_tokens[i].type # "LF"
  BY DEF ParserInv, LfInv
<1>4. /\ q \in Seq(Token) /\ Chained(m_last_token, q)
      /\ x \in Follows(LastType(m_last_token, q))
      /\ \A i \in 1..Len(q) : q[i].type # "LF"
  <2>1. CASE q = m_tokens
    BY <1>1, <1>2, <1>3, <2>1 DEF ParserInv, NoParserError, Follows
  <2>2. CASE q # m_tokens
    <3>1. m_state # "CR" /\ q = Append(m_tokens, p)
      BY <2>2 DEF WithParam
    <3>2. "PARAM" \in Follows(LastType(m_last_token, m_tokens))
      BY <1>2, <3>1 DEF Follows
    <3>3. q \in Seq(Token) /\ Chained(m_last_token, q)
      BY <1>1, <3>1, <3>2, ChainedAppend DEF ParserInv, NoParserError
    <3>4. LastType(m_last_token, q) = "PARAM"
      BY <1>1, <3>1, LastTypeOf
    <3>5. x \in Follows("PARAM")
      BY DEF Follows
    <3>6. \A i \in 1..Len(q) : q[i].type # "LF"
      <4>1. /\ Len(q) = Len(m_tokens) + 1 /\ Len(m_tokens) \in Nat
            /\ \A i \in 1..Len(m_tokens) : q[i] = m_tokens[i]
            /\ q[Len(m_tokens) + 1] = p
        BY <1>1, <3>1
      <4> QED
        BY <1>3, <4>1
    <3> QED
      BY <3>3, <3>4, <3>5, <3>6
  <2> QED
    BY <2>1, <2>2
<1>5. /\ m_tokens' \in Seq(Token) /\ m_tokens' # <<>>
      /\ Len(m_tokens') = Len(q) + 1 /\ Len(q) \in Nat
      /\ \A i \in 1..Len(q) : m_tokens'[i] = q[i]
      /\ m_tokens'[Len(q) + 1] = e
  BY <1>1, <1>4
<1>6. NoParserError'
  BY <1>1, <1>4, ChainedAppend DEF NoParserError
<1>7. LastType(m_last_token', m_tokens') = x
  BY <1>1, <1>4, LastTypeOf
<1>8. LexInv' /\ RestInv'
  BY <1>1, <1>7 DEF LexInv, RestInv, ParserInv
<1>9. LfInv'
  <2>1. \A i \in 1..(Len(m_tokens') - 1) : m_tokens'[i].type # "LF"
    BY <1>4, <1>5
  <2>2. ASSUME m_state' # "LF", NEW i \in 1..Len(m_tokens')
        PROVE  m_tokens'[i].type # "LF"
    <3>1. e.type = "CR"
      BY <1>1, <2>2
    <3>2. CASE i = Len(q) + 1
      BY <1>5, <3>1, <3>2
    <3>3. CASE i # Len(q) + 1
      BY <1>5, <2>1, <3>3
    <3> QED
      BY <3>2, <3>3
  <2> QED
    BY <2>1, <2>2 DEF LfInv
<1> QED
  BY <1>1, <1>5, <1>6, <1>8, <1>9 DEF LexerInv

\* Every step of the lexer keeps LexerInv; when it ends a line there is at
\* least the token LF to handle.
LEMMA LexStep ==
  ASSUME ParserInv, NEW x \in Chars, Lex(x)
  PROVE  LexerInv' /\ m_state # "LF" /\ (m_state' = "LF" => m_tokens' # <<>>)
<1> DEFINE last == LastType(m_last_token, m_tokens)
<1>0. m_last_token' = m_last_token
  BY DEF Lex, parserVars
<1>1. CASE LexNone(x)
  <2>1. m_state = "NONE"
    BY <1>1 DEF LexNone
  <2>2. CASE Skip("SERVERNAME_NICK")
    BY <1>0, <2>1, <2>2, LexQuiet DEF Skip, States
  <2>3. CASE Collect(x, "COMMAND")
    BY <1>0, <2>1, <2>3, LexQuiet DEF Collect, States
  <2> QED
    BY <1>1, <2>2, <2>3 DEF LexNone
<1>2. CASE LexServernameNick(x)
  <2>1. m_state = "SERVERNAME_NICK" /\ last = "LF"
    BY <1>2 DEF LexServernameNick, ParserInv, LexInv, RestInv, LastType
  <2>2. {"SERVERNAME", "NICK"} \subseteq Follows(last)
    BY <2>1 DEF Follows
  <2>3. CASE Collect(x, m_state)
    BY <1>0, <2>1, <2>3, LexQuiet DEF Collect, States
  <2>4. CASE PutToken("SERVERNAME", "COMMAND")
    BY <1>0, <2>1, <2>2, <2>4, LexPut
       DEF PutToken, States, TokenTypes, FieldTypes
  <2>5. CASE PutToken("NICK", "USER")
    BY <1>0, <2>1, <2>2, <2>5, LexPut
       DEF PutToken, States, TokenTypes, FieldTypes
  <2>6. CASE PutToken("NICK", "HOST")
    BY <1>0, <2>1, <2>2, <2>6, LexPut
       DEF PutToken, States, TokenTypes, FieldTypes
  <2> QED
    BY <1>2, <2>3, <2>4, <2>5, <2>6 DEF LexServernameNick
<1>3. CASE LexUser(x)
  <2>1. m_state = "USER" /\ last = "NICK"
    BY <1>3 DEF LexUser, ParserInv, LexInv
  <2>2. "USER" \in Follows(last)
    BY <2>1 DEF Follows
  <2>3. CASE Collect(x, m_state)
    BY <1>0, <2>1, <2>3, LexQuiet DEF Collect, States
  <2>4. CASE PutToken("USER", "COMMAND")
    BY <1>0, <2>1, <2>2, <2>4, LexPut
       DEF PutToken, States, TokenTypes, FieldTypes
  <2>5. CASE PutToken("USER", "HOST")
    BY <1>0, <2>1, <2>2, <2>5, LexPut
       DEF PutToken, States, TokenTypes, FieldTypes
  <2> QED
    BY <1>3, <2>3, <2>4, <2>5 DEF LexUser
<1>4. CASE LexHost(x)
  <2>1. m_state = "HOST" /\ last \in {"NICK", "USER"}
    BY <1>4 DEF LexHost, ParserInv, LexInv
  <2>2. "HOST" \in Follows(last)
    BY <2>1 DEF Follows
  <2>3. CASE Collect(x, m_state)
    BY <1>0, <2>1, <2>3, LexQuiet DEF Collect, States
  <2>4. CASE PutToken("HOST", "COMMAND")
    BY <1>0, <2>1, <2>2, <2>4, LexPut
       DEF PutToken, States, TokenTypes, FieldTypes
  <2> QED
    BY <1>4, <2>3, <2>4 DEF LexHost
<1>5. CASE LexCommand(x)
  <2>1. m_state = "COMMAND"
    BY <1>5 DEF LexCommand
  <2>2. CASE Collect(x, "COMMAND_NUM")
    BY <1>0, <2>1, <2>2, LexQuiet DEF Collect, States
  <2>3. CASE Collect(x, "COMMAND_LETTER")
    BY <1>0, <2>1, <2>3, LexQuiet DEF Collect, States
  <2>4. CASE Skip(m_state)
    BY <1>0, <2>1, <2>4, LexQuiet DEF Skip, States
  <2> QED
    BY <1>5, <2>2, <2>3, <2>4 DEF LexCommand
<1>6. CASE LexCommandWord(x)
  <2>1. /\ m_state \in {"COMMAND_NUM", "COMMAND_LETTER"}
        /\ last \in {"LF", "SERVERNAME", "USER", "HOST"}
    BY <1>6 DEF LexCommandWord, ParserInv, LexInv
  <2>2. "COMMAND" \in Follows(last)
    BY <2>1 DEF Follows
  <2>3. CASE Collect(x, m_state)
    BY <1>0, <2>1, <2>3, LexQuiet DEF Collect, States
  <2>4. CASE PutToken("COMMAND", "PARAMS")
    BY <1>0, <2>1, <2>2, <2>4, LexPut
       DEF PutToken, States, TokenTypes, FieldTypes
  <2>5. CASE Skip(m_state)
    BY <1>0, <2>1, <2>5, LexQuiet DEF Skip, States
  <2> QED
    BY <1>6, <2>3, <2>4, <2>5 DEF LexCommandWord
<1>7. CASE LexParams(x)
  <2>1. m_state = "PARAMS" /\ last \in {"COMMAND", "PARAM"}
    BY <1>7 DEF LexParams, ParserInv, LexInv
  <2>2. "PARAM" \in Follows(last)
    BY <2>1 DEF Follows
  <2>3. CASE Collect(x, m_state)
    BY <1>0, <2>1, <2>3, LexQuiet DEF Collect, States
  <2>4. CASE Skip("TRAILING") \/ Skip(m_state)
    BY <1>0, <2>1, <2>4, LexQuiet DEF Skip, States
  <2>5. CASE PutToken("PARAM", m_state)
    BY <1>0, <2>1, <2>2, <2>5, LexPut
       DEF PutToken, States, TokenTypes, FieldTypes
  <2>6. CASE x \in {"CR", "LF"} /\ LineEnd(WithParam, x)
    BY <1>0, <2>1, <2>6, LexLineEnd
  <2>7. CASE x \in {"CR", "LF"} /\ LineEnd(m_tokens, x)
    BY <1>0, <2>1, <2>7, LexLineEnd
  <2> QED
    BY <1>7, <2>3, <2>4, <2>5, <2>6, <2>7 DEF LexParams
<1>8. CASE LexTrailing(x)
  <2>1. m_state = "TRAILING"
    BY <1>8 DEF LexTrailing
  <2>2. CASE Collect(x, m_state)
    BY <1>0, <2>1, <2>2, LexQuiet DEF Collect, States
  <2>3. CASE x \in {"CR", "LF"} /\ LineEnd(WithParam, x)
    BY <1>0, <2>1, <2>3, LexLineEnd
  <2>4. CASE Skip(m_state)
    BY <1>0, <2>1, <2>4, LexQuiet DEF Skip, States
  <2> QED
    BY <1>8, <2>2, <2>3, <2>4 DEF LexTrailing
<1>9. CASE LexCr(x)
  <2>1. m_state = "CR"
    BY <1>9 DEF LexCr
  <2>2. CASE LineEnd(m_tokens, "LF")
    BY <1>0, <2>1, <2>2, LexLineEnd
  <2>3. CASE Skip(m_state)
    BY <1>0, <2>1, <2>3, LexQuiet DEF Skip, States
  <2> QED
    BY <1>9, <2>2, <2>3 DEF LexCr
<1> QED
  BY <1>1, <1>2, <1>3, <1>4, <1>5, <1>6, <1>7, <1>8, <1>9 DEF Lex

-----------------------------------------------------------------------------
\* The message fields that parser() has set so far have the types and the
\* prefix shape of an IRCMessage after every token it accepts.
LEMMA StoreKeepsMessage ==
  ASSUME ParserInv, NEW t \in Token,
         t.type \in Follows(m_last_token), m_last_token' = t.type,
         StoreToken(t)
  PROVE  /\ m_message' \in IRCMessage
         /\ MessageInv'
         /\ m_messages' = IF t.type = "LF" THEN Append(m_messages, m_message)
                                            ELSE m_messages
<1> USE DEF IRCMessage, TokenTypes, FieldTypes
<1>0. /\ m_message \in IRCMessage /\ m_last_token \in TokenTypes
      /\ t.type \in TokenTypes /\ t.value \in Texts
      /\ m_message.params \in Seq(Texts)
  BY DEF ParserInv, TypeOK, Token
<1>1. CASE t.type \in FieldTypes
  <2>1. /\ m_message' = [m_message EXCEPT ![t.type] = t.value]
        /\ m_messages' = m_messages
    BY <1>1 DEF StoreToken
  <2>2. m_message' \in IRCMessage
    BY <1>0, <1>1, <2>1
  <2>3. CASE t.type \in {"NICK", "USER", "HOST"}
    <3>1. m_message.SERVERNAME = <<>>
      BY <1>0, <2>3 DEF ParserInv, MessageInv, Follows, EmptyMessage
    <3> QED
      BY <1>0, <2>1, <2>2, <2>3, <3>1 DEF MessageInv
  <2>4. CASE t.type = "SERVERNAME"
    <3>1. m_message = EmptyMessage
      BY <1>0, <2>4 DEF ParserInv, MessageInv, Follows
    <3> QED
      BY <1>0, <2>1, <2>2, <2>4, <3>1 DEF MessageInv, EmptyMessage
  <2>5. CASE t.type = "COMMAND"
    BY <1>0, <2>1, <2>2, <2>5 DEF ParserInv, MessageInv
  <2> QED
    BY <1>1, <2>1, <2>2, <2>3, <2>4, <2>5
<1>2. CASE t.type = "PARAM"
  <2>1. /\ m_message' =
             [m_message EXCEPT !.params = Append(m_message.params, t.value)]
        /\ m_messages' = m_messages
    BY <1>2 DEF StoreToken
  <2>2. Append(m_message.params, t.value) \in Seq(Texts)
    BY <1>0
  <2> QED
    BY <1>0, <1>2, <2>1, <2>2 DEF ParserInv, MessageInv
<1>3. CASE t.type = "CR"
  BY <1>0, <1>3 DEF StoreToken, ParserInv, MessageInv
<1>4. CASE t.type = "LF"
  <2>1. /\ m_message' = EmptyMessage
        /\ m_messages' = Append(m_messages, m_message)
    BY <1>4 DEF StoreToken
  <2> QED
    BY <1>4, <2>1, TextAssumption DEF MessageInv, EmptyMessage
<1> QED
  BY <1>0, <1>1, <1>2, <1>3, <1>4

\* One iteration of the loop in parser() preserves the invariant.
LEMMA ParseTokenStep ==
  ASSUME ParserInv, ParseToken
  PROVE  ParserInv'
<1> DEFINE t == Head(m_tokens)
<1>0. /\ m_tokens \in Seq(Token) /\ m_tokens # <<>> /\ m_state = "LF"
      /\ m_messages \in Seq(IRCMessage) /\ m_message \in IRCMessage
      /\ lines \in Nat /\ fetched \in Nat
  BY DEF ParserInv, TypeOK, ParseToken
<1>1. /\ t \in Token /\ t = m_tokens[1] /\ Len(m_tokens) \in Nat
      /\ Len(m_tokens) > 0
      /\ m_tokens' = Tail(m_tokens) /\ m_tokens' \in Seq(Token)
      /\ Len(m_tokens') = Len(m_tokens) - 1
      /\ \A i \in 1..(Len(m_tokens) - 1) : m_tokens'[i] = m_tokens[i + 1]
  BY <1>0 DEF ParseToken
<1>2. /\ m_last_token' = t.type /\ t.type \in TokenTypes
      /\ UNCHANGED <<m_state, token, parsing, lexed, lines, fetched>>
  BY <1>1 DEF ParseToken, Token
<1>3. t.type \in Follows(m_last_token) /\ NoParserError'
  BY <1>0, <1>1, <1>2, ChainedTail DEF ParserInv, NoParserError
<1>4. /\ m_message' \in IRCMessage
      /\ MessageInv'
      /\ m_messages' = IF t.type = "LF" THEN Append(m_messages, m_message)
                                         ELSE m_messages
  <2>1. StoreToken(t)
    BY <1>3 DEF ParseToken
  <2> QED
    BY <1>1, <1>2, <1>3, <2>1, StoreKeepsMessage
<1>5. m_messages' \in Seq(IRCMessage)
  BY <1>0, <1>4
<1>6. TypeOK'
  BY <1>1, <1>2, <1>4, <1>5 DEF ParserInv, TypeOK
<1>7. LexInv' /\ RestInv'
  <2>1. LastType(m_last_token', m_tokens') = LastType(m_last_token, m_tokens)
    BY <1>0, <1>1, <1>2, LastTypeOf
  <2> QED
    BY <1>0, <1>2, <2>1 DEF ParserInv, LexInv, RestInv
<1>8. LfInv'
  <2>1. ASSUME NEW i \in 1..(Len(m_tokens') - 1)
        PROVE  m_tokens'[i].type # "LF"
    BY <1>1 DEF ParserInv, LfInv
  <2> QED
    BY <1>0, <1>2, <2>1 DEF LfInv
<1>9. t.type = "LF" <=> m_tokens' = <<>>
  <2>1. CASE Len(m_tokens) = 1
    <3>1. m_tokens' = <<>>
      BY <1>1, <2>1
    <3>2. t.type = "LF"
      BY <1>0, <1>1, <2>1 DEF ParserInv, LexInv, LastType
    <3> QED
      BY <3>1, <3>2
  <2>2. CASE Len(m_tokens) > 1
    <3>1. t.type # "LF"
      BY <1>1, <2>2 DEF ParserInv, LfInv
    <3>2. m_tokens' # <<>>
      <4>1. Len(m_tokens') # 0
        BY <1>1, <2>2
      <4> QED
        BY <4>1, Len(<<>>) = 0, Zenon
    <3> QED
      BY <3>1, <3>2
  <2> QED
    BY <1>1, <2>1, <2>2
<1>10. OneMessagePerLine'
  <2>1. fetched + Len(m_messages) = lines - 1
    BY <1>0 DEF ParserInv, OneMessagePerLine
  <2>2. CASE t.type = "LF"
    <3>1. Len(m_messages') = Len(m_messages) + 1 /\ Len(m_messages) \in Nat
      BY <1>0, <1>4, <2>2
    <3> QED
      BY <1>0, <1>2, <1>9, <2>1, <2>2, <3>1 DEF OneMessagePerLine
  <2>3. CASE t.type # "LF"
    BY <1>0, <1>2, <1>4, <1>9, <2>1, <2>3 DEF OneMessagePerLine
  <2> QED
    BY <2>2, <2>3
<1>11. PrefixIsServerOrUser'
  <2>1. CASE t.type = "LF"
    <3>1. /\ Len(m_messages') = Len(m_messages) + 1 /\ Len(m_messages) \in Nat
          /\ \A i \in 1..Len(m_messages) : m_messages'[i] = m_messages[i]
          /\ m_messages'[Len(m_messages) + 1] = m_message
      BY <1>0, <1>4, <2>1
    <3> QED
      BY <3>1 DEF ParserInv, PrefixIsServerOrUser, MessageInv
  <2>2. CASE t.type # "LF"
    BY <1>4, <2>2 DEF ParserInv, PrefixIsServerOrUser
  <2> QED
    BY <2>1, <2>2
<1> QED
  BY <1>3, <1>4, <1>6, <1>7, <1>8, <1>10, <1>11 DEF ParserInv

\* The constructor establishes the invariant.
LEMMA ParserInit == Init => ParserInv
<1> SUFFICES ASSUME Init PROVE ParserInv
  OBVIOUS
<1>1. TypeOK
  <2>1. EmptyMessage \in IRCMessage
    BY TextAssumption DEF EmptyMessage, IRCMessage
  <2>2. m_tokens \in Seq(Token) /\ m_messages \in Seq(IRCMessage)
    BY DEF Init
  <2> QED
    BY <2>1, <2>2, TextAssumption DEF Init, TypeOK, States, TokenTypes
<1>2. NoParserError /\ LexInv /\ RestInv /\ LfInv
  BY DEF Init, NoParserError, Chained, LexInv, RestInv, LfInv, LastType
<1>3. MessageInv /\ OneMessagePerLine /\ PrefixIsServerOrUser
  BY DEF Init, MessageInv, OneMessagePerLine, PrefixIsServerOrUser,
         EmptyMessage
<1> QED
  BY <1>1, <1>2, <1>3 DEF ParserInv

\* lexer(), for the next character.
LEMMA LexKeeps ==
  ASSUME ParserInv, NEW x \in Chars, Lex(x)
  PROVE  ParserInv'
<1>1. /\ LexerInv' /\ m_state # "LF"
      /\ m_state' = "LF" => m_tokens' # <<>>
  BY LexStep
<1>2. /\ UNCHANGED <<m_last_token, m_message, m_messages, fetched>>
      /\ parsing' = TRUE /\ lexed' = lexed + 1
      /\ lines' = IF m_state' = "LF" THEN lines + 1 ELSE lines
  BY DEF Lex, parserVars
<1>3. TypeOK'
  BY <1>1, <1>2 DEF ParserInv, TypeOK, LexerInv
<1>4. OneMessagePerLine'
  BY <1>1, <1>2 DEF ParserInv, TypeOK, OneMessagePerLine
<1>5. MessageInv' /\ PrefixIsServerOrUser'
  BY <1>2 DEF ParserInv, MessageInv, PrefixIsServerOrUser
<1> QED
  BY <1>1, <1>3, <1>4, <1>5 DEF ParserInv, LexerInv

\* Every step of lexer(), parser(), parse() and getMessage() preserves the
\* invariant.
LEMMA ParserStep == ParserInv /\ [Next]_vars => ParserInv'
<1> SUFFICES ASSUME ParserInv, [Next]_vars PROVE ParserInv'
  OBVIOUS
<1>1. ASSUME NEW x \in Chars, Lex(x) PROVE ParserInv'
  BY <1>1, LexKeeps
<1>2. CASE EndOfChunk
  BY <1>2, TextAssumption
     DEF EndOfChunk, ParserInv, TypeOK, NoParserError, LexInv, RestInv, LfInv,
         MessageInv, OneMessagePerLine, PrefixIsServerOrUser, parserVars
<1>3. CASE ParseToken
  BY <1>3, ParseTokenStep
<1>4. CASE ParserReturn
  <2>1. m_last_token = "LF"
    BY <1>4 DEF ParserReturn, ParserInv, LexInv, LastType
  <2>2. TypeOK' /\ NoParserError' /\ LexInv' /\ RestInv' /\ LfInv'
    BY <1>4, <2>1
       DEF ParserReturn, ParserInv, TypeOK, NoParserError, LexInv, RestInv,
           LfInv, parserVars, States
  <2>3. MessageInv' /\ OneMessagePerLine' /\ PrefixIsServerOrUser'
    BY <1>4
       DEF ParserReturn, ParserInv, MessageInv, OneMessagePerLine,
           PrefixIsServerOrUser, parserVars
  <2> QED
    BY <2>2, <2>3 DEF ParserInv
<1>5. CASE GetMessage
  <2>0. /\ UNCHANGED <<m_state, token, m_tokens, parsing, lexed, lines>>
        /\ UNCHANGED <<m_last_token, m_message>>
        /\ fetched' = fetched + 1
    BY <1>5 DEF GetMessage, lexVars
  <2>1. /\ m_messages' \in Seq(IRCMessage) /\ Len(m_messages) \in Nat
        /\ Len(m_messages') = Len(m_messages) - 1
        /\ \A i \in 1..(Len(m_messages) - 1) :
             m_messages'[i] = m_messages[i + 1]
    BY <1>5 DEF GetMessage, ParserInv, TypeOK
  <2>2. TypeOK' /\ NoParserError' /\ LexInv' /\ RestInv' /\ LfInv' /\ MessageInv'
    BY <2>0, <2>1
       DEF ParserInv, TypeOK, NoParserError, LexInv, RestInv, LfInv, MessageInv
  <2>3. OneMessagePerLine'
    <3>1. Len(m_messages) \in Nat /\ Len(m_messages') = Len(m_messages) - 1
      BY <2>1
    <3>2. fetched \in Nat /\ OneMessagePerLine
      BY DEF ParserInv, TypeOK
    <3>3. fetched' + Len(m_messages') = fetched + Len(m_messages)
      BY <2>0, <3>1, <3>2
    <3> QED
      BY <2>0, <3>2, <3>3 DEF OneMessagePerLine
  <2>4. PrefixIsServerOrUser'
    BY <2>1 DEF ParserInv, PrefixIsServerOrUser
  <2> QED
    BY <2>2, <2>3, <2>4 DEF ParserInv
<1>6. CASE UNCHANGED vars
  BY <1>6
     DEF vars, lexVars, parserVars, ParserInv, TypeOK, NoParserError, LexInv,
         RestInv, LfInv, MessageInv, OneMessagePerLine, PrefixIsServerOrUser
<1> QED
  BY <1>1, <1>2, <1>3, <1>4, <1>5, <1>6 DEF Next

\* ParserInv holds for every input and every way of cutting it.
LEMMA ParserInvariant == Spec => []ParserInv
  BY ParserInit, ParserStep, PTL DEF Spec

-----------------------------------------------------------------------------
\* The variables of IRCParser keep their types.
THEOREM ParserTypeCorrect == Spec => []TypeOK
<1>1. ParserInv => TypeOK
  BY DEF ParserInv
<1> QED
  BY <1>1, ParserInvariant, PTL

\* None of the error branches of parser() can be reached, whatever the server
\* sends.
THEOREM ParserNeverErrs == Spec => []NoParserError
<1>1. ParserInv => NoParserError
  BY DEF ParserInv
<1> QED
  BY <1>1, ParserInvariant, PTL

\* Nothing of one line is left when the lexer starts the next one.
THEOREM NoLeakBetweenMessages == Spec => []CleanBetweenMessages
<1>1. ParserInv => CleanBetweenMessages
  BY DEF ParserInv, CleanBetweenMessages, LexInv, RestInv, MessageInv
<1> QED
  BY <1>1, ParserInvariant, PTL

\* Every completed line gives exactly one message.
THEOREM LinesAreMessages == Spec => []OneMessagePerLine
<1>1. ParserInv => OneMessagePerLine
  BY DEF ParserInv
<1> QED
  BY <1>1, ParserInvariant, PTL

\* No message carries both a server name and parts of a user prefix.
THEOREM PrefixesAreExclusive == Spec => []PrefixIsServerOrUser
<1>1. ParserInv => PrefixIsServerOrUser
  BY DEF ParserInv
<1> QED
  BY <1>1, ParserInvariant, PTL

=============================================================================
