-------------------------- MODULE IRCStreamProofs ---------------------------
(***************************************************************************)
(* Theorems about IRCStream, for every set of well-formed messages, every  *)
(* alphabet and any number of messages and connections, as long as chunks  *)
(* end between tokens.                                                     *)
(***************************************************************************)
EXTENDS IRCStream, FiniteSetTheorems, SequenceTheorems, WellFoundedInduction, TLAPS

\* The theorems about IRCParser, whose state is part of this one.
P == INSTANCE IRCParserProofs WITH MaxInput <- 0

-----------------------------------------------------------------------------
(* Induction and sequences *)

\* Induction over the natural numbers, as the least counterexample: m < n if
\* 1..m is a proper subset of 1..n, which is well-founded on finite sets.
LEMMA LeastNat ==
  ASSUME NEW T, T \subseteq Nat, T # {}
  PROVE  \E n \in T : \A k \in T : n <= k
<1> DEFINE U == {1..k : k \in T}
<1>1. U \subseteq FiniteSubsetsOf(Nat)
  <2> SUFFICES ASSUME NEW k \in T PROVE 1..k \in FiniteSubsetsOf(Nat)
    OBVIOUS
  <2>1. IsFiniteSet(1..k)
    BY FS_Interval
  <2>2. 1..k \in SUBSET Nat
    OBVIOUS
  <2> QED
    BY <2>1, <2>2 DEF FiniteSubsetsOf
<1>2. U # {}
  OBVIOUS
<1>3. IsWellFoundedOn(StrictSubsetOrdering(Nat), FiniteSubsetsOf(Nat))
  BY FS_StrictSubsetOrderingWellFounded
<1> HIDE DEF U
<1>4. PICK x \in U : \A y \in U : ~(<<y, x>> \in StrictSubsetOrdering(Nat))
  BY <1>1, <1>2, <1>3, WFMin
<1> USE DEF U
<1>5. PICK n \in T : x = 1..n
  OBVIOUS
<1>6. ASSUME NEW k \in T, k < n PROVE FALSE
  <2>1. 1..k \in SUBSET Nat /\ 1..n \in SUBSET Nat /\ 1..k \subseteq 1..n
    BY <1>6
  <2>2. n \in 1..n /\ n \notin 1..k
    BY <1>6
  <2>3. <<1..k, 1..n>> \in StrictSubsetOrdering(Nat)
    BY <2>1, <2>2 DEF StrictSubsetOrdering
  <2> QED
    BY <2>3, <1>4, <1>5
<1> QED
  BY <1>6

\* The first character of b moves to the end of a.
LEMMA MoveHead ==
  ASSUME NEW S, NEW a \in Seq(S), NEW b \in Seq(S), b # <<>>
  PROVE  /\ Append(a, Head(b)) \o Tail(b) = a \o b
         /\ Append(a, Head(b)) \in Seq(S) /\ Tail(b) \in Seq(S)
         /\ Len(Append(a, Head(b))) = Len(a) + 1
         /\ Len(a) + 1 \in 1..Len(a \o b) /\ (a \o b)[Len(a) + 1] = Head(b)
<1> DEFINE c == Append(a, Head(b))
           u == c \o Tail(b)
           v == a \o b
<1>1. /\ Head(b) \in S /\ Head(b) = b[1] /\ Tail(b) \in Seq(S)
      /\ Len(b) \in Nat \ {0} /\ Len(a) \in Nat
      /\ Len(Tail(b)) = Len(b) - 1
      /\ \A i \in 1..(Len(b) - 1) : Tail(b)[i] = b[i + 1]
  BY HeadTailProperties
<1>2. /\ c \in Seq(S) /\ Len(c) = Len(a) + 1 /\ c[Len(a) + 1] = Head(b)
      /\ \A i \in 1..Len(a) : c[i] = a[i]
  BY <1>1
<1>3. /\ v \in Seq(S) /\ Len(v) = Len(a) + Len(b)
      /\ \A i \in 1..Len(v) : v[i] = IF i <= Len(a) THEN a[i] ELSE b[i - Len(a)]
  BY ConcatProperties
<1> HIDE DEF c
<1>4. /\ u \in Seq(S) /\ Len(u) = Len(c) + Len(Tail(b))
      /\ \A i \in 1..Len(u) : u[i] = IF i <= Len(c) THEN c[i] ELSE Tail(b)[i - Len(c)]
  <2> DEFINE d == Tail(b)
  <2>1. c \in Seq(S) /\ d \in Seq(S)
    BY <1>1, <1>2
  <2> HIDE DEF d
  <2>2. /\ c \o d \in Seq(S) /\ Len(c \o d) = Len(c) + Len(d)
        /\ \A i \in 1..Len(c \o d) :
             (c \o d)[i] = IF i <= Len(c) THEN c[i] ELSE d[i - Len(c)]
    BY <2>1, ConcatProperties
  <2> QED
    BY <2>2 DEF d
<1> HIDE DEF u, v
<1>5. Len(u) = Len(v)
  BY <1>1, <1>2, <1>3, <1>4
<1>6. ASSUME NEW i \in 1..Len(u) PROVE u[i] = v[i]
  <2>1. CASE i <= Len(a)
    BY <1>1, <1>2, <1>3, <1>4, <1>5, <2>1
  <2>2. CASE i = Len(a) + 1
    <3>1. u[i] = c[i] /\ c[i] = b[1]
      <4>1. i <= Len(c) /\ c[i] = b[1]
        BY <1>1, <1>2, <2>2
      <4> QED
        BY <1>4, <4>1
    <3>2. v[i] = b[i - Len(a)] /\ i - Len(a) = 1
      BY <1>1, <1>3, <1>5, <2>2
    <3> QED
      BY <3>1, <3>2
  <2>3. CASE i > Len(a) + 1
    <3>1. u[i] = Tail(b)[i - Len(a) - 1]
      BY <1>1, <1>2, <1>4, <2>3
    <3>2. i - Len(a) - 1 \in 1..(Len(b) - 1) /\ (i - Len(a) - 1) + 1 = i - Len(a)
      BY <1>1, <1>2, <1>4, <2>3
    <3>3. v[i] = b[i - Len(a)]
      BY <1>1, <1>3, <1>5, <2>3
    <3> QED
      BY <1>1, <3>1, <3>2, <3>3
  <2> QED
    BY <1>1, <2>1, <2>2, <2>3
<1>7. u = v
  BY <1>3, <1>4, <1>5, <1>6, SeqEqual
<1>8. Len(a) + 1 \in 1..Len(v) /\ v[Len(a) + 1] = b[1]
  <2>1. Len(a) + 1 \in 1..Len(v) /\ ~(Len(a) + 1 <= Len(a)) /\ (Len(a) + 1) - Len(a) = 1
    BY <1>1, <1>3
  <2> QED
    BY <1>3, <2>1
<1> QED
  BY <1>1, <1>2, <1>7, <1>8 DEF c, u, v

\* The first character of a longer text.
LEMMA FirstOf ==
  ASSUME NEW S, NEW a \in Seq(S), NEW b \in Seq(S), a # <<>>
  PROVE  /\ a \o b # <<>> /\ Head(a \o b) = Head(a) /\ Tail(a \o b) = Tail(a) \o b
         /\ a \o b \in Seq(S)
<1> DEFINE v == a \o b
           u == Tail(a) \o b
<1>1. /\ Tail(a) \in Seq(S) /\ Len(a) \in Nat \ {0} /\ Len(b) \in Nat
      /\ Len(Tail(a)) = Len(a) - 1 /\ Head(a) = a[1]
      /\ \A i \in 1..(Len(a) - 1) : Tail(a)[i] = a[i + 1]
  BY HeadTailProperties
<1>2. /\ v \in Seq(S) /\ Len(v) = Len(a) + Len(b)
      /\ \A i \in 1..Len(v) : v[i] = IF i <= Len(a) THEN a[i] ELSE b[i - Len(a)]
  BY ConcatProperties
<1>3. /\ u \in Seq(S) /\ Len(u) = Len(Tail(a)) + Len(b)
      /\ \A i \in 1..Len(u) :
           u[i] = IF i <= Len(Tail(a)) THEN Tail(a)[i] ELSE b[i - Len(Tail(a))]
  BY <1>1, ConcatProperties
<1> HIDE DEF u, v
<1>4. /\ v # <<>> /\ Tail(v) \in Seq(S) /\ Len(Tail(v)) = Len(v) - 1 /\ Head(v) = v[1]
      /\ \A i \in 1..(Len(v) - 1) : Tail(v)[i] = v[i + 1]
  <2>1. v # <<>>
    BY <1>1, <1>2
  <2> QED
    BY <1>2, <2>1, HeadTailProperties
<1>5. Len(Tail(v)) = Len(u)
  BY <1>1, <1>2, <1>3, <1>4
<1>6. ASSUME NEW i \in 1..Len(u) PROVE Tail(v)[i] = u[i]
  <2>1. i \in 1..(Len(v) - 1) /\ i + 1 \in 1..Len(v)
    BY <1>1, <1>2, <1>3
  <2>2. CASE i <= Len(a) - 1
    BY <1>1, <1>2, <1>3, <1>4, <2>1, <2>2
  <2>3. CASE i > Len(a) - 1
    <3>1. u[i] = b[i - (Len(a) - 1)]
      BY <1>1, <1>3, <2>3
    <3>2. Tail(v)[i] = v[i + 1] /\ v[i + 1] = b[(i + 1) - Len(a)]
      BY <1>1, <1>2, <1>4, <2>1, <2>3
    <3>3. (i + 1) - Len(a) = i - (Len(a) - 1)
      BY <1>1
    <3> QED
      BY <3>1, <3>2, <3>3
  <2> QED
    <3>1. i \in Int /\ Len(a) \in Int
      OBVIOUS
    <3>2. i <= Len(a) - 1 \/ i > Len(a) - 1
      BY <3>1
    <3> QED
      BY <2>2, <2>3, <3>2
<1>7. Tail(v) = u
  BY <1>3, <1>4, <1>5, <1>6, SeqEqual
<1>8. Head(v) = Head(a)
  BY <1>1, <1>2, <1>4
<1> QED
  BY <1>2, <1>4, <1>7, <1>8 DEF u, v

\* The same for a separator in front.
LEMMA FirstIs ==
  ASSUME NEW S, NEW x \in S, NEW b \in Seq(S)
  PROVE  /\ <<x>> \o b # <<>> /\ Head(<<x>> \o b) = x /\ Tail(<<x>> \o b) = b
         /\ <<x>> \o b \in Seq(S)
<1>1. <<x>> \in Seq(S) /\ <<x>> # <<>> /\ Head(<<x>>) = x /\ Tail(<<x>>) = <<>>
  OBVIOUS
<1> QED
  BY <1>1, FirstOf, ConcatEmptySeq

-----------------------------------------------------------------------------
(* The parser in the stream *)

LEMMA Alphabet ==
  /\ Texts = Seq(Chars) /\ P!Chars = Chars /\ P!Separators = Separators
  /\ Separators \subseteq Chars /\ Digits \subseteq Chars /\ Letters \subseteq Chars
  BY DEF Texts, Chars, Separators, P!Chars, P!Separators

LEMMA ParserAssumptions ==
  /\ P!Separators \cap (Digits \cup Letters \cup Others) = {}
  /\ Digits \cap Letters = {}
  /\ Others \cap (Digits \cup Letters) = {}
  /\ <<>> \in Texts
  /\ \A t \in Texts, x \in P!Chars : Put(t, x) \in Texts \ {<<>>}
  /\ 0 \in Nat
<1>1. ASSUME NEW t \in Seq(Chars), NEW x \in Chars
      PROVE  Append(t, x) \in Seq(Chars) /\ Append(t, x) # <<>>
  BY AppendProperties
<1>2. \A t \in Texts, x \in P!Chars : Put(t, x) \in Texts \ {<<>>}
  BY <1>1, Alphabet DEF Put
<1>3. <<>> \in Texts
  BY Alphabet
<1> QED
  BY <1>2, <1>3, Alphabet, AlphabetAssumption

\* The invariant of IRCParser, and what follows from it here.
LEMMA ParserFacts ==
  ASSUME P!ParserInv
  PROVE  /\ m_state \in States /\ token \in Texts /\ m_tokens \in Seq(Token)
         /\ m_message \in IRCMessage /\ m_messages \in Seq(IRCMessage)
         /\ m_state \in {"NONE", "SERVERNAME_NICK"} => m_tokens = <<>>
         /\ m_state \in {"NONE", "CR", "LF"} => token = <<>>
         /\ m_state # "LF" => m_last_token = "LF" /\ m_message = EmptyMessage
         /\ m_tokens # <<>> => m_tokens[1].type \in Follows(m_last_token)
         /\ m_state = "LF" /\ m_tokens # <<>> => m_tokens[Len(m_tokens)].type = "LF"
         /\ \A i \in 1..(Len(m_tokens) - 1) : m_tokens[i].type # "LF"
<1> USE DEF P!ParserInv
<1>1. /\ m_state \in States /\ token \in Texts /\ m_tokens \in Seq(Token)
      /\ m_message \in IRCMessage /\ m_messages \in Seq(IRCMessage)
  BY DEF P!TypeOK, States, P!States, Token, P!Token, TokenTypes, P!TokenTypes,
     FieldTypes, P!FieldTypes, IRCMessage, P!IRCMessage
<1>2. /\ m_state \in {"NONE", "SERVERNAME_NICK"} => m_tokens = <<>>
      /\ m_state \in {"NONE", "CR", "LF"} => token = <<>>
  BY DEF P!LexInv, P!RestInv
<1>3. m_state # "LF" => m_last_token = "LF" /\ m_message = EmptyMessage
  BY DEF P!RestInv, P!MessageInv, P!EmptyMessage, EmptyMessage
<1>4. m_tokens # <<>> => m_tokens[1].type \in Follows(m_last_token)
  BY DEF P!NoParserError, P!Chained, P!Follows, Follows
<1>5. m_state = "LF" /\ m_tokens # <<>> => m_tokens[Len(m_tokens)].type = "LF"
  BY DEF P!LexInv, P!LastType
<1>6. \A i \in 1..(Len(m_tokens) - 1) : m_tokens[i].type # "LF"
  BY DEF P!LfInv
<1> QED
  BY <1>1, <1>2, <1>3, <1>4, <1>5, <1>6

LEMMA ParserBegins == StreamInit => P!ParserInv
<1>1. P!Init => P!ParserInv
  BY ParserAssumptions, P!ParserInit
<1>2. StreamInit => P!Init
  BY DEF StreamInit, Init, P!Init, EmptyMessage, P!EmptyMessage
<1> QED
  BY <1>1, <1>2

\* The lexer's step is the one of IRCParser.
LEMMA SameLex ==
  ASSUME NEW x, Lex(x)
  PROVE  P!Lex(x)
<1> USE DEF Put, Collect, P!Collect, Skip, P!Skip, PutToken, P!PutToken,
            LineEnd, P!LineEnd, WithParam, P!WithParam
<1>1. LexNone(x) => P!LexNone(x)
  BY DEF LexNone, P!LexNone
<1>2. LexServernameNick(x) => P!LexServernameNick(x)
  BY DEF LexServernameNick, P!LexServernameNick
<1>3. LexUser(x) => P!LexUser(x)
  BY DEF LexUser, P!LexUser
<1>4. LexHost(x) => P!LexHost(x)
  BY DEF LexHost, P!LexHost
<1>5. LexCommand(x) => P!LexCommand(x)
  BY DEF LexCommand, P!LexCommand
<1>6. LexCommandWord(x) => P!LexCommandWord(x)
  BY DEF LexCommandWord, P!LexCommandWord
<1>7. LexParams(x) => P!LexParams(x)
  BY DEF LexParams, P!LexParams
<1>8. LexTrailing(x) => P!LexTrailing(x)
  BY DEF LexTrailing, P!LexTrailing
<1>9. LexCr(x) => P!LexCr(x)
  BY DEF LexCr, P!LexCr
<1> QED
  BY <1>1, <1>2, <1>3, <1>4, <1>5, <1>6, <1>7, <1>8, <1>9
     DEF Lex, P!Lex, parserVars, P!parserVars

\* The other steps of the parser.
LEMMA SameSteps ==
  /\ EndOfChunk => P!EndOfChunk
  /\ ParseToken => P!ParseToken
  /\ ParserReturn => P!ParserReturn
  /\ GetMessage => P!GetMessage
<1>1. EndOfChunk => P!EndOfChunk
  BY DEF EndOfChunk, P!EndOfChunk, parserVars, P!parserVars
<1>2. ParseToken => P!ParseToken
  BY DEF ParseToken, P!ParseToken, StoreToken, P!StoreToken, Follows, P!Follows,
     FieldTypes, P!FieldTypes, EmptyMessage, P!EmptyMessage
<1>3. ParserReturn => P!ParserReturn
  BY DEF ParserReturn, P!ParserReturn, parserVars, P!parserVars
<1>4. GetMessage => P!GetMessage
  BY DEF GetMessage, P!GetMessage, lexVars, P!lexVars
<1> QED
  BY <1>1, <1>2, <1>3, <1>4

LEMMA ParserKept ==
  ASSUME P!ParserInv, wire \in Texts, [StreamNext]_allVars
  PROVE  P!ParserInv'
<1>1. ASSUME P!Next \/ UNCHANGED P!vars PROVE P!ParserInv'
  BY <1>1, ParserAssumptions, P!ParserStep
<1>2. CASE LexNext
  <2>1. Head(wire) \in P!Chars /\ P!Lex(Head(wire))
    BY <1>2, SameLex, Alphabet DEF LexNext
  <2> QED
    BY <2>1, ParserAssumptions, P!LexKeeps
<1>3. CASE CutChunk \/ RunParser \/ TakeMessage
  BY <1>1, <1>3, SameSteps DEF CutChunk, RunParser, TakeMessage, P!Next
<1>4. CASE (\E m \in Lines : ServerSend(m)) \/ Reconnect \/ UNCHANGED allVars
  <2>1. UNCHANGED P!vars
    BY <1>4 DEF ServerSend, Reconnect, allVars, ircParser, P!vars, P!lexVars, P!parserVars
  <2> QED
    BY <1>1, <2>1
<1> QED
  BY <1>2, <1>3, <1>4 DEF StreamNext

-----------------------------------------------------------------------------
(* The text of a line *)

LineEndText == <<"CR", "LF">>

\* The text of the parameters from the i-th on, as in Parameters.
ParamTextsFrom(f, ps, first) ==
  f = [i \in first..Len(ps) |->
         IF i = Len(ps) THEN <<" ", ":">> \o ps[i] ELSE <<" ">> \o ps[i] \o f[i + 1]]

ParamTexts(ps) == CHOOSE f : ParamTextsFrom(f, ps, 1)

LEMMA ParamTextsExist ==
  ASSUME NEW ps, Len(ps) \in Nat
  PROVE  ParamTextsFrom(ParamTexts(ps), ps, 1)
<1> DEFINE n == Len(ps)
           T == {d \in Nat : ~\E f : ParamTextsFrom(f, ps, n + 1 - d)}
<1>1. ASSUME T # {} PROVE FALSE
  <2>1. PICK d \in T : \A e \in T : d <= e
    <3>1. T \subseteq Nat
      OBVIOUS
    <3> HIDE DEF T
    <3> QED
      BY <1>1, <3>1, LeastNat
  <2>2. CASE d = 0
    <3> DEFINE f == [i \in (n + 1)..n |-> <<>>]
    <3>1. ParamTextsFrom(f, ps, n + 1)
      <4>1. (n + 1)..n = {}
        OBVIOUS
      <4> QED
        BY <4>1 DEF ParamTextsFrom
    <3>2. n + 1 - d = n + 1
      BY <2>2
    <3> QED
      BY <3>1, <3>2
  <2>3. CASE d # 0
    <3> DEFINE a == n + 1 - d
    <3>0. d \in Nat /\ d - 1 \in Nat /\ n + 1 - (d - 1) = a + 1
      BY <2>3
    <3>1. d - 1 \notin T
      <4> HIDE DEF T
      <4> QED
        BY <2>1, <3>0
    <3>2. PICK f : ParamTextsFrom(f, ps, a + 1)
      BY <3>0, <3>1
    <3> DEFINE g == [i \in a..n |-> IF i = n THEN <<" ", ":">> \o ps[i]
                                    ELSE <<" ">> \o ps[i] \o f[i + 1]]
    <3>3. a \in Int
      OBVIOUS
    <3>4. \A i \in (a + 1)..n : i \in a..n
      BY <3>3
    <3> HIDE DEF a, T
    <3>5. \A i \in (a + 1)..n : g[i] = f[i]
      BY <3>2, <3>4 DEF ParamTextsFrom
    <3>6. \A i \in a..n : i # n => i + 1 \in (a + 1)..n
      BY <3>3
    <3>7. ParamTextsFrom(g, ps, a)
      BY <3>5, <3>6 DEF ParamTextsFrom
    <3> QED
      BY <3>7 DEF a, T
  <2> QED
    BY <2>2, <2>3
<1>2. n \in Nat /\ n \notin T /\ n + 1 - n = 1
  BY <1>1
<1>3. \E f : ParamTextsFrom(f, ps, 1)
  BY <1>2
<1> QED
  BY <1>3 DEF ParamTexts

LEMMA WithoutConcat ==
  ASSUME NEW S, NEW a \in Seq(S), NEW b \in Seq(S), NEW xs, Without(a, xs), Without(b, xs)
  PROVE  Without(a \o b, xs)
<1>1. /\ Len(a) \in Nat /\ Len(b) \in Nat /\ Len(a \o b) = Len(a) + Len(b)
      /\ \A i \in 1..Len(a \o b) : (a \o b)[i] = IF i <= Len(a) THEN a[i] ELSE b[i - Len(a)]
  BY ConcatProperties
<1> SUFFICES ASSUME NEW i \in 1..Len(a \o b) PROVE (a \o b)[i] \notin xs
  BY DEF Without
<1>2. CASE i <= Len(a)
  BY <1>1, <1>2 DEF Without
<1>3. CASE ~(i <= Len(a))
  <2>1. i - Len(a) \in 1..Len(b)
    BY <1>1, <1>3
  <2> QED
    BY <1>1, <1>3, <2>1 DEF Without
<1> QED
  BY <1>2, <1>3

LEMMA WithoutOne ==
  ASSUME NEW x, NEW xs, x \notin xs
  PROVE  Without(<<x>>, xs)
<1>1. Len(<<x>>) = 1 /\ <<x>>[1] = x
  OBVIOUS
<1> QED
  BY <1>1 DEF Without

LEMMA WithoutFewer ==
  ASSUME NEW t, NEW xs, NEW ys, ys \subseteq xs, Without(t, xs)
  PROVE  Without(t, ys)
  BY DEF Without

\* The separators are characters.
LEMMA SeparatorTexts ==
  /\ <<" ">> \in Texts /\ <<":">> \in Texts /\ <<"!">> \in Texts /\ <<"@">> \in Texts
  /\ <<" ", ":">> \in Texts /\ LineEndText \in Texts /\ <<"LF">> \in Texts /\ <<>> \in Texts
  /\ <<" ", ":">> = <<" ">> \o <<":">> /\ LineEndText = <<"CR">> \o <<"LF">>
  /\ \A x \in Separators : x \in Chars
<1>1. Separators \subseteq Chars
  BY Alphabet
<1>2. ASSUME NEW x \in Chars, NEW y \in Chars
      PROVE  /\ <<>> \in Seq(Chars) /\ <<x>> \in Seq(Chars) /\ <<x, y>> \in Seq(Chars)
             /\ <<x, y>> = <<x>> \o <<y>>
  <2>1. /\ <<>> \in Seq(Chars) /\ <<x>> \in Seq(Chars) /\ <<y>> \in Seq(Chars)
        /\ <<x, y>> \in Seq(Chars)
    OBVIOUS
  <2>2. /\ Len(<<x, y>>) = 2 /\ <<x, y>>[1] = x /\ <<x, y>>[2] = y
        /\ Len(<<x>>) = 1 /\ <<x>>[1] = x /\ Len(<<y>>) = 1 /\ <<y>>[1] = y
    OBVIOUS
  <2>3. /\ <<x>> \o <<y>> \in Seq(Chars) /\ Len(<<x>> \o <<y>>) = 2
        /\ (<<x>> \o <<y>>)[1] = x /\ (<<x>> \o <<y>>)[2] = y
    BY <2>1, <2>2, ConcatProperties
  <2>4. \A i \in 1..2 : i = 1 \/ i = 2
    OBVIOUS
  <2>5. <<x, y>> = <<x>> \o <<y>>
    BY <2>1, <2>2, <2>3, <2>4, SeqEqual
  <2> QED
    BY <2>1, <2>5
<1>3. /\ " " \in Chars /\ ":" \in Chars /\ "!" \in Chars /\ "@" \in Chars
      /\ "CR" \in Chars /\ "LF" \in Chars
  BY <1>1 DEF Separators
<1>4. /\ <<" ">> \in Seq(Chars) /\ <<":">> \in Seq(Chars) /\ <<"!">> \in Seq(Chars)
      /\ <<"@">> \in Seq(Chars) /\ <<"LF">> \in Seq(Chars) /\ <<>> \in Seq(Chars)
      /\ <<" ", ":">> \in Seq(Chars) /\ <<"CR", "LF">> \in Seq(Chars)
      /\ <<" ", ":">> = <<" ">> \o <<":">> /\ <<"CR", "LF">> = <<"CR">> \o <<"LF">>
  BY <1>2, <1>3
<1> QED
  BY <1>1, <1>4, Alphabet DEF LineEndText

\* Concatenation of texts.
LEMMA Concat ==
  ASSUME NEW a \in Texts, NEW b \in Texts
  PROVE  a \o b \in Texts /\ a \o <<>> = a /\ <<>> \o a = a
  BY Alphabet, ConcatProperties, ConcatEmptySeq

LEMMA Assoc ==
  ASSUME NEW a \in Texts, NEW b \in Texts, NEW c \in Texts
  PROVE  (a \o b) \o c = a \o (b \o c)
  BY Alphabet, ConcatAssociative

LEMMA ParamTextsPlain ==
  ASSUME NEW m \in Lines, NEW i \in 1..Len(m.params)
  PROVE  /\ ParamTexts(m.params)[i] \in Texts
         /\ Without(ParamTexts(m.params)[i], {"CR", "LF"})
<1> DEFINE ps == m.params
           n == Len(ps)
           f == ParamTexts(ps)
           Plain(t) == t \in Texts /\ Without(t, {"CR", "LF"})
           T == {d \in 0..(n - 1) : ~Plain(f[n - d])}
<1>1. ps \in Seq(Texts) /\ n \in Nat
  BY StreamAssumption DEF IRCMessage
<1>2. \A j \in 1..n : f[j] = IF j = n THEN <<" ", ":">> \o ps[j]
                             ELSE <<" ">> \o ps[j] \o f[j + 1]
  BY <1>1, ParamTextsExist DEF ParamTextsFrom
<1>3. \A j \in 1..n : Plain(ps[j])
  <2> SUFFICES ASSUME NEW j \in 1..n PROVE Plain(ps[j])
    OBVIOUS
  <2>1. ps[j] \in Texts
    BY <1>1
  <2>2. WellFormed(m)
    BY StreamAssumption
  <2>3. Without(ps[j], EndOfLine)
    <3>1. CASE j < n
      BY <2>2, <3>1, WithoutFewer DEF WellFormed
    <3>2. CASE ~(j < n)
      BY <2>2, <3>2 DEF WellFormed
    <3> QED
      BY <3>1, <3>2
  <2> QED
    BY <2>1, <2>3, WithoutFewer DEF EndOfLine
<1>4. Plain(<<" ">>) /\ Plain(<<" ", ":">>)
  <2>1. Without(<<" ">>, {"CR", "LF"}) /\ Without(<<":">>, {"CR", "LF"})
    <3>1. " " \notin {"CR", "LF"} /\ ":" \notin {"CR", "LF"}
      OBVIOUS
    <3> QED
      BY <3>1, WithoutOne
  <2>2. Without(<<" ", ":">>, {"CR", "LF"})
    <3>1. /\ <<" ">> \in Seq(Chars) /\ <<":">> \in Seq(Chars)
          /\ <<" ", ":">> = <<" ">> \o <<":">>
      BY SeparatorTexts, Alphabet
    <3>2. Without(<<" ">> \o <<":">>, {"CR", "LF"})
      BY <2>1, <3>1, WithoutConcat
    <3> QED
      BY <3>1, <3>2
  <2> QED
    BY <2>1, <2>2, SeparatorTexts
<1>5. ASSUME NEW a, NEW b, Plain(a), Plain(b) PROVE Plain(a \o b)
  BY <1>5, Concat, WithoutConcat, Alphabet
<1> HIDE DEF Plain, f
<1>6. ASSUME T # {} PROVE FALSE
  <2>1. PICK d \in T : \A e \in T : d <= e
    <3>1. T \subseteq Nat
      OBVIOUS
    <3> HIDE DEF T
    <3> QED
      BY <1>6, <3>1, LeastNat
  <2> DEFINE j == n - d
  <2>2. j \in 1..n /\ d \in 0..(n - 1)
    BY <1>1
  <2>3. CASE d = 0
    <3>1. f[n] = <<" ", ":">> \o ps[n] /\ n \in 1..n
      <4>1. n \in 1..n
        BY <1>1, <2>2
      <4> QED
        BY <1>2, <4>1
    <3>2. Plain(f[n])
      BY <1>3, <1>4, <1>5, <3>1
    <3>3. n - d = n
      BY <1>1, <2>3
    <3> QED
      BY <3>2, <3>3
  <2>4. CASE d # 0
    <3>1. d - 1 \in 0..(n - 1) /\ n - (d - 1) = j + 1 /\ j # n
      BY <1>1, <2>2, <2>4
    <3>2. Plain(f[j + 1])
      <4>1. d - 1 \notin T
        <5> HIDE DEF T
        <5> QED
          BY <2>1, <2>2
      <4> QED
        BY <3>1, <4>1
    <3> HIDE DEF j
    <3>3. f[j] = <<" ">> \o ps[j] \o f[j + 1]
      BY <1>2, <2>2, <3>1
    <3>4. Plain(f[j])
      BY <1>3, <1>4, <1>5, <2>2, <3>2, <3>3
    <3> QED
      BY <3>4 DEF j
  <2> QED
    BY <2>3, <2>4
<1>7. n - i \in 0..(n - 1) /\ n - (n - i) = i
  BY <1>1
<1>8. Plain(f[i])
  <2>1. n - i \notin T
    BY <1>6
  <2> QED
    BY <1>7, <2>1
<1> QED
  BY <1>8 DEF Plain, f

\* What is left of the line of m behind the i-th parameter; from this parameter
\* on; behind the command; and from there back to the beginning.
AfterParam(m, i) ==
  IF i = Len(m.params) THEN LineEndText ELSE ParamTexts(m.params)[i + 1] \o LineEndText
InParam(m, i) ==
  IF i = Len(m.params) THEN <<":">> \o (m.params[i] \o LineEndText)
  ELSE m.params[i] \o AfterParam(m, i)
AfterCommand(m) == Parameters(m.params) \o LineEndText
Body(m) == m.COMMAND \o AfterCommand(m)
AfterPrefix(m) == <<" ">> \o Body(m)
AfterUser(m) ==
  IF m.HOST = <<>> THEN AfterPrefix(m) ELSE <<"@">> \o (m.HOST \o AfterPrefix(m))
AfterNick(m) ==
  IF m.USER = <<>> THEN AfterUser(m) ELSE <<"!">> \o (m.USER \o AfterUser(m))

LEMMA LineFields ==
  ASSUME NEW m \in Lines
  PROVE  /\ m \in IRCMessage /\ WellFormed(m)
         /\ m.SERVERNAME \in Texts /\ m.NICK \in Texts /\ m.USER \in Texts
         /\ m.HOST \in Texts /\ m.COMMAND \in Texts
         /\ m.params \in Seq(Texts) /\ Len(m.params) \in Nat
         /\ \A i \in 1..Len(m.params) : m.params[i] \in Texts
         /\ HasParams(m) <=> Len(m.params) > 0
<1>1. m \in IRCMessage /\ WellFormed(m)
  BY StreamAssumption
<1>2. m.params \in Seq(Texts)
  BY <1>1 DEF IRCMessage
<1>3. /\ Len(m.params) \in Nat /\ \A i \in 1..Len(m.params) : m.params[i] \in Texts
      /\ m.params # <<>> <=> Len(m.params) > 0
  BY <1>2
<1>4. /\ m.SERVERNAME \in Texts /\ m.NICK \in Texts /\ m.USER \in Texts
      /\ m.HOST \in Texts /\ m.COMMAND \in Texts
  BY <1>1 DEF IRCMessage
<1> QED
  BY <1>1, <1>2, <1>3, <1>4 DEF HasParams

\* A space leads to each parameter.
LEMMA ParamSteps ==
  ASSUME NEW m \in Lines
  PROVE  /\ Parameters(m.params) \in Texts /\ Without(Parameters(m.params), {"CR", "LF"})
         /\ AfterCommand(m) \in Texts
         /\ ~HasParams(m) => Parameters(m.params) = <<>> /\ AfterCommand(m) = LineEndText
         /\ HasParams(m) => AfterCommand(m) = <<" ">> \o InParam(m, 1)
         /\ \A i \in 1..Len(m.params) :
              /\ AfterParam(m, i) \in Texts /\ InParam(m, i) \in Texts
              /\ i < Len(m.params) => AfterParam(m, i) = <<" ">> \o InParam(m, i + 1)
<1> DEFINE ps == m.params
           n == Len(ps)
           f == ParamTexts(ps)
<1>1. n \in Nat /\ \A i \in 1..n : ps[i] \in Texts
  BY LineFields
<1>2. \A i \in 1..n : f[i] = IF i = n THEN <<" ", ":">> \o ps[i]
                             ELSE <<" ">> \o ps[i] \o f[i + 1]
  BY <1>1, ParamTextsExist DEF ParamTextsFrom
<1>3. \A i \in 1..n : f[i] \in Texts /\ Without(f[i], {"CR", "LF"})
  BY ParamTextsPlain
<1>4. \A i \in 1..n : i # n => i + 1 \in 1..n
  BY <1>1
<1>5. ASSUME NEW i \in 1..n
      PROVE  /\ AfterParam(m, i) \in Texts /\ InParam(m, i) \in Texts
             /\ f[i] \o LineEndText = <<" ">> \o InParam(m, i)
  <2> HIDE DEF f
  <2>0. ps[i] \in Texts
    BY <1>1
  <2>1. CASE i = n
    <3>1. AfterParam(m, i) = LineEndText /\ InParam(m, i) = <<":">> \o (ps[i] \o LineEndText)
      BY <2>1 DEF AfterParam, InParam
    <3>2. ps[i] \o LineEndText \in Texts
      BY <2>0, Concat, SeparatorTexts
    <3>3. InParam(m, i) \in Texts
      <4>1. <<":">> \in Texts
        BY SeparatorTexts
      <4> QED
        BY <3>1, <3>2, <4>1, Concat, Zenon
    <3>4. f[i] = (<<" ">> \o <<":">>) \o ps[i]
      BY <1>2, <2>1, SeparatorTexts
    <3>a. <<" ">> \in Texts /\ <<":">> \in Texts /\ LineEndText \in Texts
      BY SeparatorTexts
    <3>5. f[i] = <<" ">> \o (<<":">> \o ps[i])
      BY <2>0, <3>4, <3>a, Assoc, Zenon
    <3>6. <<":">> \o ps[i] \in Texts
      BY <2>0, Concat, SeparatorTexts
    <3>7. f[i] \o LineEndText = <<" ">> \o ((<<":">> \o ps[i]) \o LineEndText)
      <4>1. (<<" ">> \o (<<":">> \o ps[i])) \o LineEndText
              = <<" ">> \o ((<<":">> \o ps[i]) \o LineEndText)
        <5>1. <<" ">> \in Texts /\ LineEndText \in Texts
          BY SeparatorTexts
        <5> QED
          BY <3>6, <5>1, Assoc, Zenon
      <4> QED
        BY <3>5, <4>1, Zenon
    <3>8. (<<":">> \o ps[i]) \o LineEndText = <<":">> \o (ps[i] \o LineEndText)
      <4>1. <<":">> \in Texts /\ ps[i] \in Texts /\ LineEndText \in Texts
        BY <2>0, <3>a
      <4> QED
        BY <4>1, Assoc, Zenon
    <3> QED
      BY <3>1, <3>3, <3>7, <3>8, SeparatorTexts
  <2>2. CASE i # n
    <3> DEFINE g == f[i + 1]
    <3>1. g \in Texts
      BY <1>3, <1>4, <2>2
    <3>2. AfterParam(m, i) = g \o LineEndText /\ InParam(m, i) = ps[i] \o (g \o LineEndText)
      BY <2>2 DEF AfterParam, InParam, f
    <3>3. f[i] = (<<" ">> \o ps[i]) \o g
      BY <1>2, <2>2
    <3> HIDE DEF g
    <3>4. g \o LineEndText \in Texts
      BY <3>1, Concat, SeparatorTexts
    <3>5. ps[i] \o (g \o LineEndText) \in Texts
      BY <2>0, <3>4, Concat
    <3>6. <<" ">> \o ps[i] \in Texts
      BY <2>0, Concat, SeparatorTexts
    <3>a. <<" ">> \in Texts /\ LineEndText \in Texts
      BY SeparatorTexts
    <3>7. f[i] \o LineEndText = (<<" ">> \o ps[i]) \o (g \o LineEndText)
      <4>1. ((<<" ">> \o ps[i]) \o g) \o LineEndText
              = (<<" ">> \o ps[i]) \o (g \o LineEndText)
        BY <3>1, <3>6, <3>a, Assoc, Zenon
      <4> QED
        BY <3>3, <4>1, Zenon
    <3>8. (<<" ">> \o ps[i]) \o (g \o LineEndText) = <<" ">> \o (ps[i] \o (g \o LineEndText))
      BY <2>0, <3>4, <3>a, Assoc, Zenon
    <3> QED
      BY <3>2, <3>4, <3>5, <3>7, <3>8
  <2> QED
    BY <2>1, <2>2
<1>6. \A i \in 1..n : i < n => AfterParam(m, i) = <<" ">> \o InParam(m, i + 1)
  <2> SUFFICES ASSUME NEW i \in 1..n, i < n
               PROVE  AfterParam(m, i) = <<" ">> \o InParam(m, i + 1)
    OBVIOUS
  <2>1. i # n /\ i + 1 \in 1..n
    BY <1>1, <1>4
  <2>2. AfterParam(m, i) = f[i + 1] \o LineEndText
    BY <2>1 DEF AfterParam
  <2> QED
    BY <1>5, <2>1, <2>2
<1>7. CASE HasParams(m)
  <2>1. ps # <<>> /\ 1 \in 1..n
    BY <1>1, <1>7, LineFields DEF HasParams
  <2>2. Parameters(ps) = f[1]
    BY <2>1 DEF Parameters, ParamTexts, ParamTextsFrom
  <2>3. Parameters(ps) \in Texts /\ Without(Parameters(ps), {"CR", "LF"})
    BY <1>3, <2>1, <2>2
  <2>4. AfterCommand(m) \in Texts
    BY <2>3, Concat, SeparatorTexts DEF AfterCommand
  <2>5. AfterCommand(m) = <<" ">> \o InParam(m, 1)
    BY <1>5, <2>1, <2>2 DEF AfterCommand
  <2> QED
    BY <1>5, <1>6, <1>7, <2>3, <2>4, <2>5
<1>8. CASE ~HasParams(m)
  <2>1. Parameters(ps) = <<>>
    BY <1>8 DEF HasParams, Parameters
  <2>2. AfterCommand(m) = LineEndText
    BY <2>1, Concat, SeparatorTexts DEF AfterCommand
  <2>3. Without(<<>>, {"CR", "LF"})
    BY DEF Without
  <2> QED
    BY <1>5, <1>6, <1>8, <2>1, <2>2, <2>3, SeparatorTexts
<1> QED
  BY <1>7, <1>8

\* The parts of the line.
LEMMA LineText ==
  ASSUME NEW m \in Lines
  PROVE  /\ Body(m) \in Texts /\ AfterPrefix(m) \in Texts
         /\ AfterUser(m) \in Texts /\ AfterNick(m) \in Texts /\ toString(m) \in Texts
         /\ m.SERVERNAME # <<>> => toString(m) = <<":">> \o (m.SERVERNAME \o AfterPrefix(m))
         /\ m.SERVERNAME = <<>> /\ m.NICK # <<>> =>
              toString(m) = <<":">> \o (m.NICK \o AfterNick(m))
         /\ m.SERVERNAME = <<>> /\ m.NICK = <<>> => toString(m) = Body(m)
         /\ Prefix(m) \in Texts /\ toString(m) = Prefix(m) \o Body(m)
<1> DEFINE C == m.COMMAND
           Q == Parameters(m.params)
           B == Body(m)
           A == AfterPrefix(m)
           colon == <<":">>
           space == <<" ">>
<1>0. /\ colon \in Texts /\ space \in Texts /\ <<"!">> \in Texts /\ <<"@">> \in Texts
      /\ LineEndText \in Texts /\ <<>> \in Texts
  BY SeparatorTexts
<1>1. /\ m.SERVERNAME \in Texts /\ m.NICK \in Texts /\ m.USER \in Texts
      /\ m.HOST \in Texts /\ C \in Texts /\ Q \in Texts /\ AfterCommand(m) \in Texts
  BY LineFields, ParamSteps
<1>2. B \in Texts /\ A \in Texts /\ A = space \o B
  BY <1>0, <1>1, Concat DEF Body, AfterPrefix
<1>3. ASSUME NEW p \in Texts PROVE ((p \o C) \o Q) \o LineEndText = p \o B
  <2>1. p \o C \in Texts
    BY <1>1, Concat
  <2>2. ((p \o C) \o Q) \o LineEndText = (p \o C) \o (Q \o LineEndText)
    <3>1. LineEndText \in Texts /\ Q \in Texts
      BY <1>0, <1>1
    <3> QED
      BY <2>1, <3>1, Assoc, Zenon
  <2>3. (p \o C) \o AfterCommand(m) = p \o (C \o AfterCommand(m))
    <3>1. C \in Texts /\ AfterCommand(m) \in Texts
      BY <1>1
    <3> QED
      BY <3>1, Assoc, Zenon
  <2> QED
    BY <2>2, <2>3 DEF Body, AfterCommand
<1>4. Prefix(m) \in Texts => toString(m) = Prefix(m) \o B
  BY <1>3 DEF toString, LineEndText
<1> HIDE DEF colon, space, A, B
<1>5. ASSUME NEW t \in Texts
      PROVE  /\ (colon \o t) \o space \in Texts
             /\ ((colon \o t) \o space) \o B = colon \o (t \o A)
  <2>1. colon \o t \in Texts /\ (colon \o t) \o space \in Texts
    BY <1>0, Concat
  <2>2. ((colon \o t) \o space) \o B = (colon \o t) \o (space \o B)
    BY <1>0, <1>2, <2>1, Concat
  <2>3. (colon \o t) \o (space \o B) = colon \o (t \o (space \o B))
    BY <1>0, <1>2, Concat
  <2> QED
    BY <1>2, <2>1, <2>2, <2>3
<1> DEFINE U == IF m.USER = <<>> THEN <<>> ELSE <<"!">> \o m.USER
           H == IF m.HOST = <<>> THEN <<>> ELSE <<"@">> \o m.HOST
<1>6. U \in Texts /\ H \in Texts
  BY <1>0, <1>1, Concat
<1>7. AfterUser(m) = H \o A /\ AfterUser(m) \in Texts
  <2>1. CASE m.HOST = <<>>
    BY <1>2, <2>1, Concat, SeparatorTexts DEF AfterUser, A
  <2>2. CASE m.HOST # <<>>
    <3>1. AfterUser(m) = <<"@">> \o (m.HOST \o A)
      BY <2>2 DEF AfterUser, A
    <3>2. (<<"@">> \o m.HOST) \o A = <<"@">> \o (m.HOST \o A)
      <4>1. <<"@">> \in Texts /\ m.HOST \in Texts /\ A \in Texts
        BY <1>0, <1>1, <1>2
      <4> QED
        BY <4>1, Assoc, Zenon
    <3>3. (<<"@">> \o m.HOST) \o A \in Texts
      BY <1>0, <1>1, <1>2, Concat
    <3> QED
      BY <2>2, <3>1, <3>2, <3>3
  <2> QED
    BY <2>1, <2>2
<1>8. AfterNick(m) = U \o AfterUser(m) /\ AfterNick(m) \in Texts
  <2>1. CASE m.USER = <<>>
    BY <1>7, <2>1, Concat, SeparatorTexts DEF AfterNick
  <2>2. CASE m.USER # <<>>
    <3>1. AfterNick(m) = <<"!">> \o (m.USER \o AfterUser(m))
      BY <2>2 DEF AfterNick
    <3>2. (<<"!">> \o m.USER) \o AfterUser(m) = <<"!">> \o (m.USER \o AfterUser(m))
      <4>1. <<"!">> \in Texts /\ m.USER \in Texts
        BY <1>0, <1>1
      <4> QED
        BY <1>7, <4>1, Assoc, Zenon
    <3>3. (<<"!">> \o m.USER) \o AfterUser(m) \in Texts
      BY <1>0, <1>1, <1>7, Concat
    <3> QED
      BY <2>2, <3>1, <3>2, <3>3
  <2> QED
    BY <2>1, <2>2
<1>9. CASE m.SERVERNAME # <<>>
  <2>1. Prefix(m) = (colon \o m.SERVERNAME) \o space
    BY <1>9 DEF Prefix, colon, space
  <2>2. Prefix(m) \in Texts /\ Prefix(m) \o B = colon \o (m.SERVERNAME \o A)
    BY <1>1, <1>5, <2>1
  <2>3. toString(m) = colon \o (m.SERVERNAME \o A) /\ m.SERVERNAME \o A \in Texts
    BY <1>1, <1>2, <1>4, <2>2, Concat
  <2>4. toString(m) \in Texts
    BY <1>0, <2>3, Concat
  <2> QED
    BY <1>2, <1>4, <1>7, <1>8, <1>9, <2>2, <2>3, <2>4 DEF A, B, colon
<1>10. CASE m.SERVERNAME = <<>> /\ m.NICK # <<>>
  <2> DEFINE t == m.NICK \o (U \o H)
  <2> HIDE DEF U, H
  <2>1. Prefix(m) = (((colon \o m.NICK) \o U) \o H) \o space
    BY <1>10 DEF Prefix, UserPrefix, colon, space, U, H
  <2>2. colon \o m.NICK \in Texts /\ U \o H \in Texts /\ t \in Texts
    BY <1>0, <1>1, <1>6, Concat
  <2>3. ((colon \o m.NICK) \o U) \o H = (colon \o m.NICK) \o (U \o H)
    <3>1. colon \o m.NICK \in Texts
      BY <2>2
    <3> QED
      BY <1>6, <3>1, Assoc, Zenon
  <2>4. (colon \o m.NICK) \o (U \o H) = colon \o t
    <3>1. colon \in Texts /\ m.NICK \in Texts /\ U \o H \in Texts
      BY <1>0, <1>1, <2>2
    <3> QED
      BY <3>1, Assoc, Zenon
  <2>5. Prefix(m) = (colon \o t) \o space
    BY <2>1, <2>3, <2>4
  <2>6. Prefix(m) \in Texts /\ Prefix(m) \o B = colon \o (t \o A)
    BY <1>5, <2>2, <2>5
  <2>7. t \o A = m.NICK \o ((U \o H) \o A)
    <3>1. m.NICK \in Texts /\ U \o H \in Texts /\ A \in Texts
      BY <1>1, <1>2, <2>2
    <3> QED
      BY <3>1, Assoc, Zenon
  <2>8. (U \o H) \o A = U \o (H \o A)
    BY <1>2, <1>6, Concat
  <2>9. t \o A = m.NICK \o AfterNick(m)
    BY <1>7, <1>8, <2>7, <2>8
  <2>10. toString(m) = colon \o (m.NICK \o AfterNick(m)) /\ m.NICK \o AfterNick(m) \in Texts
    BY <1>1, <1>4, <1>8, <2>6, <2>9, Concat
  <2>11. toString(m) \in Texts
    BY <1>0, <2>10, Concat
  <2> QED
    BY <1>2, <1>4, <1>7, <1>8, <1>10, <2>6, <2>10, <2>11 DEF A, B, colon
<1>11. CASE m.SERVERNAME = <<>> /\ m.NICK = <<>>
  <2>1. Prefix(m) = <<>>
    BY <1>11 DEF Prefix
  <2>2. toString(m) = B /\ Prefix(m) \in Texts
    BY <1>0, <1>2, <1>4, <2>1, Concat
  <2> QED
    BY <1>2, <1>4, <1>7, <1>8, <1>11, <2>2 DEF A, B
<1> QED
  BY <1>9, <1>10, <1>11

-----------------------------------------------------------------------------
(* The invariant *)

HP(i) == HasParams(sent[i])

\* The number of parameters; the types of the tokens of the line of m up to its
\* command, their number, the i-th token, and the number of all tokens.
Params(m) == Len(m.params)
HeadTypes(m) ==
  IF m.SERVERNAME # <<>> THEN <<"SERVERNAME", "COMMAND">>
  ELSE IF m.NICK = <<>> THEN <<"COMMAND">>
  ELSE IF m.USER = <<>> THEN <<"NICK", "HOST", "COMMAND">>
  ELSE IF m.HOST = <<>> THEN <<"NICK", "USER", "COMMAND">>
  ELSE <<"NICK", "USER", "HOST", "COMMAND">>
Heads(m) == Len(HeadTypes(m))
TokenOf(m, i) ==
  IF i <= Heads(m) THEN [type |-> HeadTypes(m)[i], value |-> m[HeadTypes(m)[i]]]
  ELSE IF i <= Heads(m) + Params(m) THEN [type |-> "PARAM", value |-> m.params[i - Heads(m)]]
  ELSE IF i = Heads(m) + Params(m) + 1 THEN [type |-> "CR", value |-> <<>>]
  ELSE [type |-> "LF", value |-> <<>>]
TokenCount(m) == Heads(m) + Params(m) + 2

\* The tokens q are the first k tokens of the line.
Queued(q, m, k) ==
  /\ Len(q) = k
  /\ \A i \in 1..k : q[i] = TokenOf(m, i)

\* The lexer is in a part of the line, with rest behind it: t is read, w is not.
Reading(t, w, part, rest) == \E b \in Texts : t \o b = part /\ w = b \o rest

\* The message once the first p tokens are parsed.
Partial(m, p) ==
  [SERVERNAME |-> IF p >= 1 THEN m.SERVERNAME ELSE <<>>,
   NICK       |-> IF p >= 1 THEN m.NICK ELSE <<>>,
   USER       |-> IF p >= 2 THEN m.USER ELSE <<>>,
   HOST       |-> IF p >= Heads(m) - 1 THEN m.HOST ELSE <<>>,
   COMMAND    |-> IF p >= Heads(m) THEN m.COMMAND ELSE <<>>,
   params     |-> IF p <= Heads(m) THEN <<>>
                  ELSE IF p <= Heads(m) + Params(m) THEN SubSeq(m.params, 1, p - Heads(m))
                  ELSE m.params]

\* The stages of a line that began in state NONE.
AtStart(m) == m_state = "NONE" /\ wire = toString(m)
InServer(m) ==
  /\ m_state = "SERVERNAME_NICK" /\ m.SERVERNAME # <<>>
  /\ Queued(m_tokens, m, 0) /\ Reading(token, wire, m.SERVERNAME, AfterPrefix(m))
InNick(m) ==
  /\ m_state = "SERVERNAME_NICK" /\ m.SERVERNAME = <<>> /\ m.NICK # <<>>
  /\ Queued(m_tokens, m, 0) /\ Reading(token, wire, m.NICK, AfterNick(m))
InUser(m) ==
  /\ m_state = "USER" /\ m.SERVERNAME = <<>> /\ m.NICK # <<>> /\ m.USER # <<>>
  /\ Queued(m_tokens, m, 1) /\ Reading(token, wire, m.USER, AfterUser(m))
InHost(m) ==
  /\ m_state = "HOST" /\ m.SERVERNAME = <<>> /\ m.NICK # <<>> /\ m.HOST # <<>>
  /\ Queued(m_tokens, m, Heads(m) - 2) /\ Reading(token, wire, m.HOST, AfterPrefix(m))
AtCommand(m) ==
  /\ m_state = "COMMAND" /\ Len(token) = IF Heads(m) = 1 THEN 1 ELSE 0
  /\ Queued(m_tokens, m, Heads(m) - 1) /\ Reading(token, wire, m.COMMAND, AfterCommand(m))
InCommand(m) ==
  /\ m_state = IF m.COMMAND \in Seq(Digits) THEN "COMMAND_NUM" ELSE "COMMAND_LETTER"
  /\ token # <<>>
  /\ Queued(m_tokens, m, Heads(m) - 1) /\ Reading(token, wire, m.COMMAND, AfterCommand(m))
PastCommand(m) ==
  /\ m_state \in {"COMMAND_NUM", "COMMAND_LETTER"} /\ ~HasParams(m)
  /\ (wire = <<"LF">> \/ wire = <<>>)
InParams(m) ==
  /\ m_state = "PARAMS"
  /\ \E j \in 1..Params(m) :
       /\ Queued(m_tokens, m, Heads(m) + j - 1)
       /\ IF j < Params(m) THEN Reading(token, wire, m.params[j], AfterParam(m, j))
          ELSE token = <<>> /\ wire = InParam(m, j)
InTrailing(m) ==
  /\ m_state = "TRAILING" /\ HasParams(m)
  /\ Queued(m_tokens, m, Heads(m) + Params(m) - 1)
  /\ Reading(token, wire, m.params[Params(m)], LineEndText)
AtCr(m) ==
  /\ m_state = "CR" /\ HasParams(m) /\ wire = <<"LF">>
  /\ Queued(m_tokens, m, Heads(m) + Params(m) + 1)
InParser(m) ==
  /\ m_state = "LF" /\ HasParams(m)
  /\ \E p \in 0..TokenCount(m) :
       /\ Len(m_tokens) = TokenCount(m) - p
       /\ \A i \in 1..Len(m_tokens) : m_tokens[i] = TokenOf(m, p + i)
       /\ p < TokenCount(m) => m_message = Partial(m, p)

CleanLine(m) ==
  \/ AtStart(m) \/ InServer(m) \/ InNick(m) \/ InUser(m) \/ InHost(m)
  \/ AtCommand(m) \/ InCommand(m) \/ PastCommand(m)
  \/ InParams(m) \/ InTrailing(m) \/ AtCr(m) \/ InParser(m)

\* Texts that end in a line end and have no other; that have a space; that have
\* a digit or letter and a space behind it.
EndsLine(w) ==
  /\ w # <<>> /\ w[Len(w)] = "LF"
  /\ Len(w) > 1 => w[Len(w) - 1] = "CR"
  /\ \A i \in 1..(Len(w) - 2) : w[i] \notin {"CR", "LF"}
HasSpace(w) == \E i \in 1..Len(w) : w[i] = " "
HasWord(w) == \E i, j \in 1..Len(w) : i < j /\ w[i] \in Digits \cup Letters /\ w[j] = " "

PrefixStates == {"SERVERNAME_NICK", "USER", "HOST"}

\* The lexer entered the line of m behind its prefix; it will still find a
\* command and parameters if m has any.
MidLine(m) ==
  /\ m_state \notin PrefixStates \cup {"NONE"}
  /\ HasParams(m) =>
       /\ m_state = "COMMAND" => HasWord(wire)
       /\ m_state \in {"COMMAND_NUM", "COMMAND_LETTER"} => HasSpace(wire)

\* What is on the wire while the line of m is read, whatever state it began in.
OnWire(m) ==
  /\ wire # <<>> => EndsLine(wire)
  /\ m_state = "LF" => wire = <<>>
  /\ m_state \in {"PARAMS", "TRAILING"} => Len(wire) >= 2
  /\ m_state = "CR" => wire # <<>>
  /\ m_state \in PrefixStates /\ HasParams(m) => HasSpace(wire)
  /\ m_state = "NONE" /\ wire # <<>> => wire = toString(m)

\* The i-th line begins in state NONE; it begins behind a prefix.
Good(i) ==
  IF dirty THEN i > 2 /\ HP(i - 1) /\ HP(i - 2) ELSE i > 1 => HP(i - 1)
HalfGood(i) == dirty => i > 1 /\ HP(i - 1)

Line == sent[Len(sent)]

\* The last line sent has been lexed and parsed to its message.
LineDone == wire = <<>> /\ (m_state = "NONE" \/ (m_state = "LF" /\ m_tokens = <<>>))

TypeInv ==
  /\ P!ParserInv /\ (m_state = "LF" => parsing)
  /\ wire \in Texts /\ sent \in Seq(Lines) /\ got \in Seq(IRCMessage)
  /\ origin \in Seq(Nat) /\ dirty \in BOOLEAN

StartInv ==
  sent = <<>> =>
    /\ wire = <<>> /\ origin = <<>> /\ got = <<>> /\ m_messages = <<>>
    /\ m_state # "LF" /\ (~dirty => m_state = "NONE")

WireInv == sent # <<>> => OnWire(Line)

LineInv ==
  sent # <<>> /\ (wire # <<>> \/ m_state # "NONE") =>
    /\ Good(Len(sent)) => CleanLine(Line)
    /\ HalfGood(Len(sent)) => CleanLine(Line) \/ MidLine(Line)

OriginInv ==
  /\ Len(Parsed) = Len(origin)
  /\ \A k, l \in 1..Len(origin) : k < l => origin[k] < origin[l]
  /\ \A k \in 1..Len(origin) :
       /\ origin[k] \in 1..Len(sent)
       /\ origin[k] = Len(sent) => wire = <<>> /\ (m_state = "LF" => m_tokens = <<>>)
  /\ sent # <<>> /\ LineDone => \E k \in 1..Len(origin) : origin[k] = Len(sent)
  /\ \A i \in 1..(Len(sent) - 1) :
       HP(i) /\ HalfGood(i) => \E k \in 1..Len(origin) : origin[k] = i

RightInv ==
  \A k \in 1..Len(origin) : Good(origin[k]) =>
     HP(origin[k]) /\ Parsed[k] = sent[origin[k]]

EveryInv ==
  ~dirty /\ AllHaveParams =>
    /\ \A k \in 1..Len(origin) : origin[k] = k
    /\ Len(origin) = IF sent = <<>> \/ LineDone THEN Len(sent) ELSE Len(sent) - 1

StreamInv ==
  TypeInv /\ StartInv /\ WireInv /\ LineInv /\ OriginInv /\ RightInv /\ EveryInv

-----------------------------------------------------------------------------
(* Reading a clean line *)

LEMMA ReadFirst ==
  ASSUME NEW part \in Texts, NEW rest \in Texts
  PROVE  Reading(<<>>, part \o rest, part, rest)
<1>1. <<>> \o part = part
  BY Concat
<1> QED
  BY <1>1 DEF Reading

\* Either the part is read, or the next character belongs to it.
LEMMA ReadOn ==
  ASSUME NEW t \in Texts, NEW w, NEW part \in Texts, NEW rest \in Texts,
         Reading(t, w, part, rest)
  PROVE  \/ t = part /\ w = rest
         \/ /\ Len(t) + 1 \in 1..Len(part) /\ Head(w) = part[Len(t) + 1]
            /\ Reading(Append(t, Head(w)), Tail(w), part, rest)
            /\ Len(Append(t, Head(w))) = Len(t) + 1 /\ Append(t, Head(w)) # <<>>
<1>1. PICK b \in Texts : t \o b = part /\ w = b \o rest
  BY DEF Reading
<1>2. CASE b = <<>>
  <2>1. t \o <<>> = t /\ <<>> \o rest = rest
    BY Concat
  <2> QED
    BY <1>1, <1>2, <2>1
<1>3. CASE b # <<>>
  <2> DEFINE c == Tail(b)
             u == Append(t, Head(b))
  <2>0. t \in Seq(Chars) /\ b \in Seq(Chars) /\ rest \in Seq(Chars)
    BY Alphabet
  <2>1. /\ u \o c = t \o b /\ c \in Seq(Chars) /\ Len(u) = Len(t) + 1
        /\ Len(t) + 1 \in 1..Len(t \o b) /\ (t \o b)[Len(t) + 1] = Head(b)
        /\ u \in Seq(Chars)
    BY <1>3, <2>0, MoveHead
  <2>2. Head(w) = Head(b) /\ Tail(w) = c \o rest
    BY <1>1, <1>3, <2>0, FirstOf
  <2>3. u # <<>>
    <3>1. Len(t) \in Nat
      BY <2>0
    <3> HIDE DEF u
    <3> QED
      BY <2>1, <3>1
  <2>4. c \in Texts
    BY <2>1, Alphabet
  <2> HIDE DEF c
  <2>5. Reading(u, Tail(w), part, rest)
    BY <1>1, <2>1, <2>2, <2>4 DEF Reading
  <2> QED
    BY <1>1, <2>1, <2>2, <2>3, <2>5
<1> QED
  BY <1>2, <1>3

\* The next character is a separator.
LEMMA NextIs ==
  ASSUME NEW x \in Chars, NEW rest \in Texts
  PROVE  Head(<<x>> \o rest) = x /\ Tail(<<x>> \o rest) = rest
  BY FirstIs, Alphabet

LEMMA QueueOn ==
  ASSUME NEW m, NEW k \in Nat, NEW q \in Seq(Token), Queued(q, m, k)
  PROVE  Queued(Append(q, TokenOf(m, k + 1)), m, k + 1)
<1> DEFINE t == TokenOf(m, k + 1)
<1> HIDE DEF t
<1>1. /\ Len(Append(q, t)) = k + 1 /\ Append(q, t)[k + 1] = t
      /\ \A i \in 1..k : Append(q, t)[i] = q[i]
  BY DEF Queued
<1>2. ASSUME NEW i \in 1..(k + 1) PROVE Append(q, t)[i] = TokenOf(m, i)
  <2>1. CASE i = k + 1
    BY <1>1, <2>1 DEF t
  <2>2. CASE i # k + 1
    <3>1. i \in 1..k
      BY <2>2
    <3> QED
      BY <1>1, <3>1 DEF Queued
  <2> QED
    BY <2>1, <2>2
<1> QED
  BY <1>1, <1>2 DEF Queued, t

\* The tokens of a line.
LEMMA HeadsOf ==
  ASSUME NEW m \in Lines
  PROVE  /\ Heads(m) \in 1..4
         /\ m.SERVERNAME # <<>> => Heads(m) = 2
         /\ Heads(m) = 1 <=> m.SERVERNAME = <<>> /\ m.NICK = <<>>
         /\ m.SERVERNAME = <<>> /\ m.NICK # <<>> =>
              /\ m.USER # <<>> \/ m.HOST # <<>>
              /\ m.USER = <<>> \/ m.HOST = <<>> => Heads(m) = 3
              /\ m.USER # <<>> /\ m.HOST # <<>> => Heads(m) = 4
<1>1. m.SERVERNAME = <<>> /\ m.NICK # <<>> => m.USER # <<>> \/ m.HOST # <<>>
  BY LineFields DEF WellFormed
<1> QED
  BY <1>1 DEF Heads, HeadTypes

LEMMA TokensOf ==
  ASSUME NEW m \in Lines
  PROVE  /\ TokenOf(m, Heads(m)) = [type |-> "COMMAND", value |-> m.COMMAND]
         /\ m.SERVERNAME # <<>> =>
              TokenOf(m, 1) = [type |-> "SERVERNAME", value |-> m.SERVERNAME]
         /\ m.SERVERNAME = <<>> /\ m.NICK # <<>> =>
              /\ TokenOf(m, 1) = [type |-> "NICK", value |-> m.NICK]
              /\ m.USER # <<>> => TokenOf(m, 2) = [type |-> "USER", value |-> m.USER]
              /\ m.HOST # <<>> =>
                   TokenOf(m, Heads(m) - 1) = [type |-> "HOST", value |-> m.HOST]
<1>1. m.SERVERNAME = <<>> /\ m.NICK # <<>> => m.USER # <<>> \/ m.HOST # <<>>
  BY LineFields DEF WellFormed
<1>2. CASE m.SERVERNAME # <<>>
  BY <1>2 DEF Heads, HeadTypes, TokenOf
<1>3. CASE m.SERVERNAME = <<>> /\ m.NICK = <<>>
  BY <1>3 DEF Heads, HeadTypes, TokenOf
<1>4. CASE m.SERVERNAME = <<>> /\ m.NICK # <<>> /\ m.USER = <<>>
  BY <1>1, <1>4 DEF Heads, HeadTypes, TokenOf
<1>5. CASE m.SERVERNAME = <<>> /\ m.NICK # <<>> /\ m.USER # <<>> /\ m.HOST = <<>>
  BY <1>5 DEF Heads, HeadTypes, TokenOf
<1>6. CASE m.SERVERNAME = <<>> /\ m.NICK # <<>> /\ m.USER # <<>> /\ m.HOST # <<>>
  BY <1>6 DEF Heads, HeadTypes, TokenOf
<1> QED
  BY <1>2, <1>3, <1>4, <1>5, <1>6

LEMMA LastTokens ==
  ASSUME NEW m \in Lines
  PROVE  /\ Params(m) \in Nat /\ Heads(m) \in Nat
         /\ \A j \in 1..Params(m) :
              TokenOf(m, Heads(m) + j) = [type |-> "PARAM", value |-> m.params[j]]
         /\ TokenOf(m, Heads(m) + Params(m) + 1) = [type |-> "CR", value |-> <<>>]
         /\ TokenOf(m, Heads(m) + Params(m) + 2) = [type |-> "LF", value |-> <<>>]
<1>1. Heads(m) \in Nat /\ Params(m) \in Nat
  <2>1. Heads(m) \in 1..4 /\ Len(m.params) \in Nat
    BY HeadsOf, LineFields
  <2> QED
    BY <2>1 DEF Params
<1>2. ASSUME NEW j \in 1..Params(m)
      PROVE  TokenOf(m, Heads(m) + j) = [type |-> "PARAM", value |-> m.params[j]]
  <2>1. /\ ~(Heads(m) + j <= Heads(m)) /\ Heads(m) + j <= Heads(m) + Params(m)
        /\ (Heads(m) + j) - Heads(m) = j
    BY <1>1
  <2>2. TokenOf(m, Heads(m) + j) =
          [type |-> "PARAM", value |-> m.params[(Heads(m) + j) - Heads(m)]]
    BY <2>1, Zenon DEF TokenOf
  <2> QED
    BY <2>1, <2>2, Zenon
<1> QED
  BY <1>1, <1>2 DEF TokenOf

\* Which part of the lexer takes the character.
LEMMA LexCases ==
  ASSUME NEW x, Lex(x)
  PROVE  /\ m_state = "NONE" => LexNone(x)
         /\ m_state = "SERVERNAME_NICK" => LexServernameNick(x)
         /\ m_state = "USER" => LexUser(x)
         /\ m_state = "HOST" => LexHost(x)
         /\ m_state = "COMMAND" => LexCommand(x)
         /\ m_state \in {"COMMAND_NUM", "COMMAND_LETTER"} => LexCommandWord(x)
         /\ m_state = "PARAMS" => LexParams(x)
         /\ m_state = "TRAILING" => LexTrailing(x)
         /\ m_state = "CR" => LexCr(x)
         /\ m_state # "LF"
         /\ UNCHANGED <<m_message, m_messages>>
  BY DEF Lex, LexNone, LexServernameNick, LexUser, LexHost, LexCommand, LexCommandWord,
     LexParams, LexTrailing, LexCr, parserVars

-----------------------------------------------------------------------------
(* The lexer takes a clean line from stage to stage *)

LexStep == wire # <<>> /\ Lex(Head(wire)) /\ wire' = Tail(wire)

\* A character of one of the names of a line.
LEMMA CharsOf ==
  ASSUME NEW t \in Texts, NEW xs, Without(t, xs), NEW i \in 1..Len(t)
  PROVE  t[i] \in Chars /\ t[i] \notin xs
  BY Alphabet DEF Without

LEMMA CommandChars ==
  ASSUME NEW m \in Lines
  PROVE  /\ m.COMMAND # <<>> /\ Len(m.COMMAND) \in Nat \ {0} /\ (Heads(m) = 1 => Len(m.COMMAND) > 1)
         /\ \A i \in 1..Len(m.COMMAND) :
              /\ m.COMMAND \in Seq(Digits) =>
                   m.COMMAND[i] \in Digits /\ m.COMMAND[i] \notin Letters
              /\ m.COMMAND \notin Seq(Digits) =>
                   m.COMMAND[i] \in Letters /\ m.COMMAND[i] \notin Digits
              /\ m.COMMAND[i] \notin Separators
<1>1. m.COMMAND \in (Seq(Digits) \cup Seq(Letters)) \ {<<>>}
  BY LineFields DEF WellFormed
<1>2. Len(m.COMMAND) \in Nat \ {0}
  BY <1>1
<1>3. Heads(m) = 1 => Len(m.COMMAND) > 1
  <2>1. ASSUME Heads(m) = 1 PROVE m.SERVERNAME = <<>> /\ m.NICK = <<>>
    BY <2>1, HeadsOf
  <2> QED
    BY <2>1, LineFields DEF WellFormed
<1>4. ASSUME NEW i \in 1..Len(m.COMMAND)
      PROVE  /\ m.COMMAND \in Seq(Digits) =>
                  m.COMMAND[i] \in Digits /\ m.COMMAND[i] \notin Letters
             /\ m.COMMAND \notin Seq(Digits) =>
                  m.COMMAND[i] \in Letters /\ m.COMMAND[i] \notin Digits
             /\ m.COMMAND[i] \notin Separators
  <2>1. CASE m.COMMAND \in Seq(Digits)
    <3>1. m.COMMAND[i] \in Digits
      BY <2>1
    <3> QED
      BY <2>1, <3>1, AlphabetAssumption
  <2>2. CASE m.COMMAND \notin Seq(Digits)
    <3>1. m.COMMAND[i] \in Letters
      BY <1>1, <2>2
    <3> QED
      BY <2>2, <3>1, AlphabetAssumption
  <2> QED
    BY <2>1, <2>2
<1> QED
  BY <1>1, <1>2, <1>3, <1>4

LEMMA LexStart ==
  ASSUME NEW m \in Lines, P!ParserInv, AtStart(m), LexStep
  PROVE  CleanLine(m)'
<1> DEFINE x == Head(wire)
<1>1. /\ token = <<>> /\ m_tokens = <<>> /\ wire = toString(m) /\ wire' = Tail(wire)
      /\ LexNone(x)
  BY ParserFacts, LexCases DEF AtStart, LexStep
<1>2. Queued(<<>>, m, 0)
  BY DEF Queued
<1>3. ":" \in Chars /\ ":" \in Separators
  BY SeparatorTexts DEF Separators
<1>4. ASSUME NEW t \in Texts, NEW r \in Texts, toString(m) = <<":">> \o (t \o r)
      PROVE  /\ m_state' = "SERVERNAME_NICK" /\ Queued(m_tokens, m, 0)'
             /\ Reading(token, wire, t, r)'
  <2>1. t \o r \in Texts
    BY Concat
  <2>2. x = ":" /\ Tail(wire) = t \o r
    BY <1>1, <1>3, <1>4, <2>1, NextIs
  <2>3. m_state' = "SERVERNAME_NICK" /\ token' = <<>> /\ m_tokens' = <<>>
    BY <1>1, <2>2 DEF LexNone, Skip
  <2>4. Reading(token', wire', t, r)
    BY <1>1, <2>2, <2>3, ReadFirst
  <2> QED
    BY <1>2, <2>3, <2>4
<1>5. CASE m.SERVERNAME # <<>>
  <2>1. InServer(m)'
    BY <1>4, <1>5, LineText, LineFields DEF InServer
  <2> QED
    BY <2>1 DEF CleanLine
<1>6. CASE m.SERVERNAME = <<>> /\ m.NICK # <<>>
  <2>1. InNick(m)'
    BY <1>4, <1>6, LineText, LineFields DEF InNick
  <2> QED
    BY <2>1 DEF CleanLine
<1>7. CASE m.SERVERNAME = <<>> /\ m.NICK = <<>>
  <2>1. m.COMMAND \in Texts /\ AfterCommand(m) \in Texts /\ Len(m.COMMAND) \in Nat \ {0}
    BY LineFields, ParamSteps, CommandChars
  <2>2. wire = m.COMMAND \o AfterCommand(m)
    BY <1>1, <1>7, LineText DEF Body
  <2>3. Reading(<<>>, wire, m.COMMAND, AfterCommand(m))
    BY <2>1, <2>2, ReadFirst
  <2>4. <<>> \in Texts /\ <<>> # m.COMMAND
    BY CommandChars, SeparatorTexts
  <2>5. /\ Len(<<>>) + 1 \in 1..Len(m.COMMAND) /\ x = m.COMMAND[Len(<<>>) + 1]
        /\ Reading(Append(<<>>, x), Tail(wire), m.COMMAND, AfterCommand(m))
        /\ Len(Append(<<>>, x)) = Len(<<>>) + 1
    BY <2>1, <2>3, <2>4, ReadOn
  <2>6. x # ":"
    BY <1>3, <2>5, CommandChars
  <2>7. m_state' = "COMMAND" /\ token' = Append(<<>>, x) /\ m_tokens' = <<>>
    BY <1>1, <2>6 DEF LexNone, Collect, Put
  <2>8. Heads(m) = 1 /\ Len(token') = 1
    <3>1. Len(<<>>) + 1 = 1
      OBVIOUS
    <3> QED
      BY <1>7, <2>5, <2>7, <3>1, HeadsOf
  <2>9. AtCommand(m)'
    BY <1>1, <1>2, <2>5, <2>7, <2>8 DEF AtCommand
  <2> QED
    BY <2>9 DEF CleanLine
<1> QED
  BY <1>5, <1>6, <1>7

\* putToken with the token that comes next in the line.
LEMMA PutNext ==
  ASSUME NEW m \in Lines, NEW k \in Nat, NEW l, l = k + 1,
         P!ParserInv, Queued(m_tokens, m, k),
         NEW type, NEW s, PutToken(type, s),
         TokenOf(m, l) = [type |-> type, value |-> token]
  PROVE  Queued(m_tokens, m, l)' /\ token' = <<>> /\ m_state' = s
<1>1. m_tokens' = Append(m_tokens, TokenOf(m, k + 1)) /\ token' = <<>> /\ m_state' = s
  BY DEF PutToken
<1>2. m_tokens \in Seq(Token)
  BY ParserFacts
<1> QED
  BY <1>1, <1>2, QueueOn

LEMMA LexInServer ==
  ASSUME NEW m \in Lines, P!ParserInv, InServer(m), LexStep
  PROVE  CleanLine(m)'
<1> DEFINE x == Head(wire)
           S == m.SERVERNAME
<1>1. /\ token \in Texts /\ S \in Texts /\ AfterPrefix(m) \in Texts /\ Body(m) \in Texts
      /\ m.COMMAND \in Texts /\ AfterCommand(m) \in Texts
      /\ Without(S, {" ", "!", "@"} \cup EndOfLine)
  BY ParserFacts, LineFields, LineText, ParamSteps DEF WellFormed
<1>2. /\ S # <<>> /\ Queued(m_tokens, m, 0) /\ Reading(token, wire, S, AfterPrefix(m))
      /\ wire' = Tail(wire) /\ LexServernameNick(x)
  BY LexCases DEF InServer, LexStep
<1>a. 0 \in Nat /\ 1 = 0 + 1
  OBVIOUS
<1> HIDE DEF S
<1>3. CASE token = S /\ wire = AfterPrefix(m)
  <2>1. x = " " /\ wire' = m.COMMAND \o AfterCommand(m)
    <3>1. " " \in Chars /\ wire = <<" ">> \o Body(m)
      BY <1>3, SeparatorTexts DEF AfterPrefix, Separators
    <3>2. x = " " /\ wire' = Body(m)
      BY <1>1, <1>2, <3>1, NextIs
    <3> QED
      BY <3>2 DEF Body
  <2>2. PutToken("SERVERNAME", "COMMAND")
    BY <1>2, <2>1 DEF LexServernameNick
  <2>3. Heads(m) = 2 /\ TokenOf(m, 1) = [type |-> "SERVERNAME", value |-> token]
    BY <1>2, <1>3, HeadsOf, TokensOf DEF S
  <2>4. Queued(m_tokens, m, 1)' /\ token' = <<>> /\ m_state' = "COMMAND"
    BY <1>2, <1>a, <2>2, <2>3, PutNext
  <2>5. Reading(token', wire', m.COMMAND, AfterCommand(m))
    BY <1>1, <2>1, <2>4, ReadFirst
  <2>6. AtCommand(m)'
    BY <2>3, <2>4, <2>5 DEF AtCommand
  <2> QED
    BY <2>6 DEF CleanLine
<1>4. CASE /\ Len(token) + 1 \in 1..Len(S) /\ x = S[Len(token) + 1]
           /\ Reading(Append(token, x), Tail(wire), S, AfterPrefix(m))
  <2>1. x \notin {" ", "!", "@"} \cup EndOfLine
    BY <1>1, <1>4, CharsOf
  <2>2. /\ m_state' = "SERVERNAME_NICK" /\ token' = Append(token, x)
        /\ m_tokens' = m_tokens
    BY <1>2, <2>1 DEF LexServernameNick, Collect, Put
  <2>3. InServer(m)'
    BY <1>2, <1>4, <2>2 DEF InServer, S
  <2> QED
    BY <2>3 DEF CleanLine
<1> QED
  BY <1>1, <1>2, <1>3, <1>4, ReadOn

LEMMA LexInNick ==
  ASSUME NEW m \in Lines, P!ParserInv, InNick(m), LexStep
  PROVE  CleanLine(m)'
<1> DEFINE x == Head(wire)
           N == m.NICK
<1>1. /\ token \in Texts /\ N \in Texts /\ m.USER \in Texts /\ m.HOST \in Texts
      /\ AfterNick(m) \in Texts /\ AfterUser(m) \in Texts /\ AfterPrefix(m) \in Texts
      /\ Without(N, {" ", "!", "@"} \cup EndOfLine)
  BY ParserFacts, LineFields, LineText DEF WellFormed
<1>2. /\ m.SERVERNAME = <<>> /\ N # <<>>
      /\ Queued(m_tokens, m, 0) /\ Reading(token, wire, N, AfterNick(m))
      /\ wire' = Tail(wire) /\ LexServernameNick(x)
  BY LexCases DEF InNick, LexStep
<1>3. TokenOf(m, 1) = [type |-> "NICK", value |-> N]
  BY <1>2, TokensOf
<1>4. "!" \in Chars /\ "@" \in Chars
  BY SeparatorTexts DEF Separators
<1>a. 0 \in Nat /\ 1 = 0 + 1
  OBVIOUS
<1> HIDE DEF N
<1>5. CASE token = N /\ wire = AfterNick(m) /\ m.USER = <<>>
  <2>1. m.HOST # <<>> /\ Heads(m) - 2 = 1
    BY <1>2, <1>5, HeadsOf DEF N
  <2>2. wire = <<"@">> \o (m.HOST \o AfterPrefix(m)) /\ m.HOST \o AfterPrefix(m) \in Texts
    BY <1>1, <1>5, <2>1, Concat DEF AfterNick, AfterUser
  <2>3. x = "@" /\ wire' = m.HOST \o AfterPrefix(m)
    BY <1>2, <1>4, <2>2, NextIs
  <2>4. PutToken("NICK", "HOST")
    BY <1>2, <2>3 DEF LexServernameNick
  <2>5. Queued(m_tokens, m, 1)' /\ token' = <<>> /\ m_state' = "HOST"
    BY <1>2, <1>3, <1>5, <1>a, <2>4, PutNext
  <2>6. Reading(token', wire', m.HOST, AfterPrefix(m))
    BY <1>1, <2>3, <2>5, ReadFirst
  <2>7. InHost(m)'
    BY <1>2, <2>1, <2>5, <2>6 DEF InHost, N
  <2> QED
    BY <2>7 DEF CleanLine
<1>6. CASE token = N /\ wire = AfterNick(m) /\ m.USER # <<>>
  <2>2. wire = <<"!">> \o (m.USER \o AfterUser(m)) /\ m.USER \o AfterUser(m) \in Texts
    BY <1>1, <1>6, Concat DEF AfterNick
  <2>3. x = "!" /\ wire' = m.USER \o AfterUser(m)
    BY <1>2, <1>4, <2>2, NextIs
  <2>4. PutToken("NICK", "USER")
    BY <1>2, <2>3 DEF LexServernameNick
  <2>5. Queued(m_tokens, m, 1)' /\ token' = <<>> /\ m_state' = "USER"
    BY <1>2, <1>3, <1>6, <1>a, <2>4, PutNext
  <2>6. Reading(token', wire', m.USER, AfterUser(m))
    BY <1>1, <2>3, <2>5, ReadFirst
  <2>7. InUser(m)'
    BY <1>2, <1>6, <2>5, <2>6 DEF InUser, N
  <2> QED
    BY <2>7 DEF CleanLine
<1>7. CASE /\ Len(token) + 1 \in 1..Len(N) /\ x = N[Len(token) + 1]
           /\ Reading(Append(token, x), Tail(wire), N, AfterNick(m))
  <2>1. x \notin {" ", "!", "@"} \cup EndOfLine
    BY <1>1, <1>7, CharsOf
  <2>2. /\ m_state' = "SERVERNAME_NICK" /\ token' = Append(token, x)
        /\ m_tokens' = m_tokens
    BY <1>2, <2>1 DEF LexServernameNick, Collect, Put
  <2>3. InNick(m)'
    BY <1>2, <1>7, <2>2 DEF InNick, N
  <2> QED
    BY <2>3 DEF CleanLine
<1> QED
  BY <1>1, <1>2, <1>5, <1>6, <1>7, ReadOn

LEMMA LexInUser ==
  ASSUME NEW m \in Lines, P!ParserInv, InUser(m), LexStep
  PROVE  CleanLine(m)'
<1> DEFINE x == Head(wire)
           U == m.USER
<1>1. /\ token \in Texts /\ U \in Texts /\ m.HOST \in Texts
      /\ AfterUser(m) \in Texts /\ AfterPrefix(m) \in Texts /\ Body(m) \in Texts
      /\ m.COMMAND \in Texts /\ AfterCommand(m) \in Texts
      /\ Without(U, {" ", "@"} \cup EndOfLine)
  BY ParserFacts, LineFields, LineText, ParamSteps DEF WellFormed
<1>2. /\ m.SERVERNAME = <<>> /\ m.NICK # <<>> /\ U # <<>>
      /\ Queued(m_tokens, m, 1) /\ Reading(token, wire, U, AfterUser(m))
      /\ wire' = Tail(wire) /\ LexUser(x)
  BY LexCases DEF InUser, LexStep
<1>3. TokenOf(m, 2) = [type |-> "USER", value |-> U]
  BY <1>2, TokensOf
<1>a. " " \in Chars /\ "@" \in Chars
  BY SeparatorTexts DEF Separators
<1>b. 1 \in Nat /\ 2 = 1 + 1
  OBVIOUS
<1>4. " " \in Chars /\ "@" \in Chars /\ 1 \in Nat /\ 2 = 1 + 1
  BY <1>a, <1>b
<1>5. CASE token = U /\ wire = AfterUser(m) /\ m.HOST # <<>>
  <2>1. Heads(m) - 2 = 2
    BY <1>2, <1>5, HeadsOf
  <2> HIDE DEF U
  <2>2. wire = <<"@">> \o (m.HOST \o AfterPrefix(m)) /\ m.HOST \o AfterPrefix(m) \in Texts
    BY <1>1, <1>5, Concat DEF AfterUser
  <2>3. x = "@" /\ wire' = m.HOST \o AfterPrefix(m)
    BY <1>2, <1>4, <2>2, NextIs
  <2>4. PutToken("USER", "HOST")
    BY <1>2, <2>3 DEF LexUser
  <2>5. Queued(m_tokens, m, 2)' /\ token' = <<>> /\ m_state' = "HOST"
    BY <1>2, <1>3, <1>4, <1>5, <2>4, PutNext
  <2>6. Reading(token', wire', m.HOST, AfterPrefix(m))
    BY <1>1, <2>3, <2>5, ReadFirst
  <2>7. InHost(m)'
    BY <1>2, <1>5, <2>1, <2>5, <2>6 DEF InHost
  <2> QED
    BY <2>7 DEF CleanLine
<1>6. CASE token = U /\ wire = AfterUser(m) /\ m.HOST = <<>>
  <2>1. Heads(m) - 1 = 2 /\ Heads(m) # 1
    BY <1>2, <1>6, HeadsOf
  <2> HIDE DEF U
  <2>2. wire = <<" ">> \o Body(m)
    BY <1>6 DEF AfterUser, AfterPrefix
  <2>3. x = " " /\ wire' = Body(m)
    BY <1>1, <1>2, <1>4, <2>2, NextIs
  <2>4. PutToken("USER", "COMMAND")
    BY <1>2, <2>3 DEF LexUser
  <2>5. Queued(m_tokens, m, 2)' /\ token' = <<>> /\ m_state' = "COMMAND"
    BY <1>2, <1>3, <1>4, <1>6, <2>4, PutNext
  <2>6. Reading(token', wire', m.COMMAND, AfterCommand(m))
    BY <1>1, <2>3, <2>5, ReadFirst DEF Body
  <2>7. AtCommand(m)'
    BY <2>1, <2>5, <2>6 DEF AtCommand
  <2> QED
    BY <2>7 DEF CleanLine
<1>7. CASE /\ Len(token) + 1 \in 1..Len(U) /\ x = U[Len(token) + 1]
           /\ Reading(Append(token, x), Tail(wire), U, AfterUser(m))
  <2> HIDE DEF U
  <2>1. x \notin {" ", "@"} \cup EndOfLine
    BY <1>1, <1>7, CharsOf
  <2>2. m_state' = "USER" /\ token' = Append(token, x) /\ m_tokens' = m_tokens
    BY <1>2, <2>1 DEF LexUser, Collect, Put
  <2>3. InUser(m)'
    BY <1>2, <1>7, <2>2 DEF InUser, U
  <2> QED
    BY <2>3 DEF CleanLine
<1> QED
  BY <1>1, <1>2, <1>5, <1>6, <1>7, ReadOn

LEMMA LexInHost ==
  ASSUME NEW m \in Lines, P!ParserInv, InHost(m), LexStep
  PROVE  CleanLine(m)'
<1> DEFINE x == Head(wire)
           H == m.HOST
           k == Heads(m) - 2
           l == Heads(m) - 1
<1>1. /\ token \in Texts /\ H \in Texts /\ AfterPrefix(m) \in Texts /\ Body(m) \in Texts
      /\ m.COMMAND \in Texts /\ AfterCommand(m) \in Texts
      /\ Without(H, {" "} \cup EndOfLine)
  BY ParserFacts, LineFields, LineText, ParamSteps DEF WellFormed
<1>2. /\ m.SERVERNAME = <<>> /\ m.NICK # <<>> /\ H # <<>>
      /\ Queued(m_tokens, m, k) /\ Reading(token, wire, H, AfterPrefix(m))
      /\ wire' = Tail(wire) /\ LexHost(x)
  BY LexCases DEF InHost, LexStep
<1>3. TokenOf(m, l) = [type |-> "HOST", value |-> H]
  BY <1>2, TokensOf
<1>4. k \in Nat /\ l = k + 1 /\ Heads(m) # 1
  BY <1>2, HeadsOf
<1>5. CASE token = H /\ wire = AfterPrefix(m)
  <2> HIDE DEF H, k, l
  <2>1. " " \in Chars /\ wire = <<" ">> \o Body(m)
    BY <1>5, SeparatorTexts DEF AfterPrefix, Separators
  <2>2. x = " " /\ wire' = Body(m)
    BY <1>1, <1>2, <2>1, NextIs
  <2>3. PutToken("HOST", "COMMAND")
    BY <1>2, <2>2 DEF LexHost
  <2>4. Queued(m_tokens, m, l)' /\ token' = <<>> /\ m_state' = "COMMAND"
    BY <1>2, <1>3, <1>4, <1>5, <2>3, PutNext
  <2>5. Reading(token', wire', m.COMMAND, AfterCommand(m))
    BY <1>1, <2>2, <2>4, ReadFirst DEF Body
  <2>6. AtCommand(m)'
    BY <1>4, <2>4, <2>5 DEF AtCommand, l
  <2> QED
    BY <2>6 DEF CleanLine
<1>6. CASE /\ Len(token) + 1 \in 1..Len(H) /\ x = H[Len(token) + 1]
           /\ Reading(Append(token, x), Tail(wire), H, AfterPrefix(m))
  <2> HIDE DEF H, k
  <2>1. x \notin {" "} \cup EndOfLine
    BY <1>1, <1>6, CharsOf
  <2>2. m_state' = "HOST" /\ token' = Append(token, x) /\ m_tokens' = m_tokens
    BY <1>2, <2>1 DEF LexHost, Collect, Put
  <2>3. InHost(m)'
    BY <1>2, <1>6, <2>2 DEF InHost, H, k
  <2> QED
    BY <2>3 DEF CleanLine
<1> QED
  BY <1>1, <1>2, <1>5, <1>6, ReadOn

LEMMA LexAtCommand ==
  ASSUME NEW m \in Lines, P!ParserInv, AtCommand(m), LexStep
  PROVE  CleanLine(m)'
<1> DEFINE x == Head(wire)
           C == m.COMMAND
           k == Heads(m) - 1
<1>1. token \in Texts /\ C \in Texts /\ AfterCommand(m) \in Texts
  BY ParserFacts, LineFields, ParamSteps
<1>2. /\ Len(token) = IF Heads(m) = 1 THEN 1 ELSE 0
      /\ Queued(m_tokens, m, k) /\ Reading(token, wire, C, AfterCommand(m))
      /\ wire' = Tail(wire) /\ LexCommand(x)
  BY LexCases DEF AtCommand, LexStep
<1>3. token # C
  <2> SUFFICES ASSUME token = C PROVE FALSE
    OBVIOUS
  <2>1. Len(C) \in Nat \ {0} /\ (Heads(m) = 1 => Len(C) > 1)
    BY CommandChars
  <2>2. CASE Heads(m) = 1
    BY <1>2, <2>1, <2>2
  <2>3. CASE Heads(m) # 1
    BY <1>2, <2>1, <2>3
  <2> QED
    BY <2>2, <2>3
<1>4. /\ Len(token) + 1 \in 1..Len(C) /\ x = C[Len(token) + 1]
      /\ Reading(Append(token, x), Tail(wire), C, AfterCommand(m))
      /\ Append(token, x) # <<>>
  BY <1>1, <1>2, <1>3, ReadOn
<1>5. IF C \in Seq(Digits) THEN x \in Digits ELSE x \in Letters /\ x \notin Digits
  BY <1>4, CommandChars
<1>6. x \in Digits => x \notin Letters
  BY AlphabetAssumption
<1>7. /\ m_state' = IF C \in Seq(Digits) THEN "COMMAND_NUM" ELSE "COMMAND_LETTER"
      /\ token' = Append(token, x) /\ m_tokens' = m_tokens
  BY <1>2, <1>5, <1>6 DEF LexCommand, Collect, Put
<1>8. InCommand(m)'
  BY <1>2, <1>4, <1>7 DEF InCommand
<1> QED
  BY <1>8 DEF CleanLine

LEMMA LexInCommand ==
  ASSUME NEW m \in Lines, P!ParserInv, InCommand(m), LexStep
  PROVE  CleanLine(m)'
<1> DEFINE x == Head(wire)
           C == m.COMMAND
           k == Heads(m) - 1
           word == IF C \in Seq(Digits) THEN "COMMAND_NUM" ELSE "COMMAND_LETTER"
<1>1. token \in Texts /\ C \in Texts /\ AfterCommand(m) \in Texts
  BY ParserFacts, LineFields, ParamSteps
<1>2. /\ m_state = word /\ token # <<>>
      /\ Queued(m_tokens, m, k) /\ Reading(token, wire, C, AfterCommand(m))
      /\ wire' = Tail(wire) /\ LexCommandWord(x)
  BY LexCases DEF InCommand, LexStep
<1>3. k \in Nat /\ Heads(m) = k + 1 /\ k + 1 - 1 = k
  BY HeadsOf
<1>4. " " \in Separators /\ " " \in Chars /\ "CR" \in Separators /\ "CR" \in Chars
  BY SeparatorTexts DEF Separators
<1>5. CASE token = C /\ wire = AfterCommand(m) /\ HasParams(m)
  <2>0. Params(m) \in Nat /\ Params(m) > 0
    BY <1>5, LineFields DEF Params
  <2>1. wire = <<" ">> \o InParam(m, 1)
    BY <1>5, ParamSteps
  <2>2. 1 \in 1..Params(m) /\ InParam(m, 1) \in Texts
    <3>1. 1 \in 1..Params(m)
      BY <2>0
    <3>2. 1 \in 1..Len(m.params)
      BY <3>1 DEF Params
    <3> QED
      BY <3>1, <3>2, ParamSteps
  <2>3. x = " " /\ wire' = InParam(m, 1)
    BY <1>2, <1>4, <2>1, <2>2, NextIs
  <2>4. " " \notin Digits /\ " " \notin Letters
    BY <1>4, AlphabetAssumption
  <2>5. PutToken("COMMAND", "PARAMS")
    BY <1>2, <2>3, <2>4 DEF LexCommandWord
  <2>6. TokenOf(m, Heads(m)) = [type |-> "COMMAND", value |-> token]
    BY <1>5, TokensOf
  <2>7. Queued(m_tokens, m, Heads(m))' /\ token' = <<>> /\ m_state' = "PARAMS"
    BY <1>2, <1>3, <2>5, <2>6, PutNext
  <2>8. Heads(m) + 1 - 1 = Heads(m)
    BY <1>3
  <2>9. CASE 1 < Params(m)
    <3>1. m.params[1] \in Texts /\ AfterParam(m, 1) \in Texts
      BY <2>2, ParamSteps, LineFields DEF Params
    <3>2. wire' = m.params[1] \o AfterParam(m, 1)
      <4>1. 1 # Params(m)
        BY <2>0, <2>9
      <4> QED
        BY <2>3, <4>1 DEF InParam, Params
    <3>3. Reading(token', wire', m.params[1], AfterParam(m, 1))
      BY <2>7, <3>1, <3>2, ReadFirst
    <3>4. InParams(m)'
      BY <2>2, <2>7, <2>8, <2>9, <3>3 DEF InParams
    <3> QED
      BY <3>4 DEF CleanLine
  <2>10. CASE ~(1 < Params(m))
    <3>1. InParams(m)'
      BY <2>2, <2>3, <2>7, <2>8, <2>10 DEF InParams
    <3> QED
      BY <3>1 DEF CleanLine
  <2> QED
    BY <2>9, <2>10
<1>6. CASE token = C /\ wire = AfterCommand(m) /\ ~HasParams(m)
  <2>1. wire = <<"CR">> \o <<"LF">>
    BY <1>6, ParamSteps, SeparatorTexts
  <2>2. x = "CR" /\ wire' = <<"LF">>
    BY <1>2, <1>4, <2>1, SeparatorTexts, NextIs
  <2>3. "CR" \notin Digits /\ "CR" \notin Letters
    BY <1>4, AlphabetAssumption
  <2>4. m_state' = m_state
    BY <1>2, <2>2, <2>3 DEF LexCommandWord, Skip
  <2>5. PastCommand(m)'
    BY <1>2, <1>6, <2>2, <2>4 DEF PastCommand
  <2> QED
    BY <2>5 DEF CleanLine
<1>7. CASE /\ Len(token) + 1 \in 1..Len(C) /\ x = C[Len(token) + 1]
           /\ Reading(Append(token, x), Tail(wire), C, AfterCommand(m))
           /\ Append(token, x) # <<>>
  <2>1. IF C \in Seq(Digits) THEN x \in Digits ELSE x \in Letters
    BY <1>7, CommandChars
  <2>2. x # " "
    BY <1>4, <1>7, CommandChars
  <2>3. m_state' = word /\ token' = Append(token, x) /\ m_tokens' = m_tokens
    BY <1>2, <2>1, <2>2 DEF LexCommandWord, Collect, Put
  <2>4. InCommand(m)'
    BY <1>2, <1>7, <2>3 DEF InCommand
  <2> QED
    BY <2>4 DEF CleanLine
<1> QED
  BY <1>1, <1>2, <1>5, <1>6, <1>7, ReadOn

LEMMA LexPastCommand ==
  ASSUME NEW m \in Lines, P!ParserInv, PastCommand(m), LexStep
  PROVE  CleanLine(m)'
<1>1. /\ m_state \in {"COMMAND_NUM", "COMMAND_LETTER"} /\ ~HasParams(m)
      /\ wire = <<"LF">> /\ wire' = Tail(wire) /\ LexCommandWord(Head(wire))
  BY LexCases DEF PastCommand, LexStep
<1>2. Head(wire) = "LF" /\ wire' = <<>>
  BY <1>1
<1>3. "LF" \notin Digits /\ "LF" \notin Letters
  BY AlphabetAssumption DEF Separators
<1>4. m_state' = m_state
  BY <1>1, <1>2, <1>3 DEF LexCommandWord, Skip
<1>5. PastCommand(m)'
  BY <1>1, <1>2, <1>4 DEF PastCommand
<1> QED
  BY <1>5 DEF CleanLine

\* A parameter that is not the last one.
LEMMA LexMiddle ==
  ASSUME NEW m \in Lines, P!ParserInv, m_state = "PARAMS", LexStep,
         NEW j \in 1..Params(m), j < Params(m), Queued(m_tokens, m, Heads(m) + j - 1),
         Reading(token, wire, m.params[j], AfterParam(m, j))
  PROVE  InParams(m)'
<1> DEFINE x == Head(wire)
           t == m.params[j]
           k == Heads(m) + j - 1
<1>0. Params(m) \in Nat /\ Heads(m) \in Nat
  BY LastTokens
<1>1. j + 1 \in 1..Params(m) /\ k \in Nat /\ k + 1 = Heads(m) + j /\ Heads(m) + (j + 1) - 1 = Heads(m) + j
  BY <1>0, HeadsOf
<1>2. /\ token \in Texts /\ t \in Texts /\ AfterParam(m, j) \in Texts
      /\ InParam(m, j + 1) \in Texts /\ AfterParam(m, j) = <<" ">> \o InParam(m, j + 1)
  BY <1>1, ParserFacts, LineFields, ParamSteps DEF Params
<1>3. t # <<>> /\ Without(t, {":", " "} \cup EndOfLine)
  BY LineFields DEF WellFormed, Params
<1>4. wire' = Tail(wire) /\ LexParams(x)
  BY LexCases DEF LexStep
<1>5. " " \in Chars
  BY SeparatorTexts DEF Separators
<1>6. CASE token = t /\ wire = AfterParam(m, j)
  <2>1. x = " " /\ wire' = InParam(m, j + 1)
    BY <1>2, <1>4, <1>5, <1>6, NextIs
  <2>2. PutToken("PARAM", "PARAMS")
    BY <1>3, <1>4, <1>6, <2>1 DEF LexParams
  <2>3. TokenOf(m, Heads(m) + j) = [type |-> "PARAM", value |-> token]
    BY <1>6, LastTokens
  <2>4. Queued(m_tokens, m, Heads(m) + j)' /\ token' = <<>> /\ m_state' = "PARAMS"
    <3> DEFINE l == Heads(m) + j
    <3>1. k \in Nat /\ l = k + 1 /\ TokenOf(m, l) = [type |-> "PARAM", value |-> token]
      BY <1>1, <2>3
    <3> HIDE DEF k, l
    <3>2. Queued(m_tokens, m, l)' /\ token' = <<>> /\ m_state' = "PARAMS"
      BY <2>2, <3>1, PutNext DEF k
    <3> QED
      BY <3>2 DEF l
  <2>5. CASE j + 1 < Params(m)
    <3>1. m.params[j + 1] \in Texts /\ AfterParam(m, j + 1) \in Texts
      BY <1>1, ParamSteps, LineFields DEF Params
    <3>2. j + 1 # Params(m)
      BY <1>0, <2>5
    <3>3. wire' = m.params[j + 1] \o AfterParam(m, j + 1)
      BY <2>1, <3>2 DEF InParam, Params
    <3>4. Reading(token', wire', m.params[j + 1], AfterParam(m, j + 1))
      BY <2>4, <3>1, <3>3, ReadFirst
    <3> QED
      BY <1>1, <2>4, <2>5, <3>4 DEF InParams
  <2>6. CASE ~(j + 1 < Params(m))
    BY <1>1, <2>1, <2>4, <2>6 DEF InParams
  <2> QED
    BY <2>5, <2>6
<1>7. CASE /\ Len(token) + 1 \in 1..Len(t) /\ x = t[Len(token) + 1]
           /\ Reading(Append(token, x), Tail(wire), t, AfterParam(m, j))
  <2>1. x \notin {":", " "} \cup EndOfLine
    BY <1>2, <1>3, <1>7, CharsOf
  <2>2. m_state' = "PARAMS" /\ token' = Append(token, x) /\ m_tokens' = m_tokens
    BY <1>4, <2>1 DEF LexParams, Collect, Put, EndOfLine
  <2> QED
    BY <1>4, <1>7, <2>2 DEF InParams
<1> QED
  BY <1>2, <1>6, <1>7, ReadOn

LEMMA LexInParams ==
  ASSUME NEW m \in Lines, P!ParserInv, InParams(m), LexStep
  PROVE  CleanLine(m)'
<1>1. PICK j \in 1..Params(m) :
        /\ Queued(m_tokens, m, Heads(m) + j - 1)
        /\ IF j < Params(m) THEN Reading(token, wire, m.params[j], AfterParam(m, j))
           ELSE token = <<>> /\ wire = InParam(m, j)
  BY DEF InParams
<1>2. CASE j < Params(m)
  <2>1. InParams(m)'
    BY <1>1, <1>2, LexMiddle DEF InParams
  <2> QED
    BY <2>1 DEF CleanLine
<1>3. CASE ~(j < Params(m))
  <2>0. Params(m) \in Nat /\ HasParams(m)
    BY LineFields DEF Params
  <2>1. j = Params(m)
    BY <1>3, <2>0
  <2>2. /\ wire = <<":">> \o (m.params[j] \o LineEndText) /\ token = <<>>
        /\ m.params[j] \in Texts /\ LineEndText \in Texts
    BY <1>1, <1>3, <2>1, LineFields, SeparatorTexts DEF InParam, Params
  <2>3. ":" \in Chars /\ m.params[j] \o LineEndText \in Texts
    BY <2>2, Concat, SeparatorTexts DEF Separators
  <2>4. Head(wire) = ":" /\ Tail(wire) = m.params[j] \o LineEndText
    BY <2>2, <2>3, NextIs
  <2>5. wire' = Tail(wire) /\ LexParams(Head(wire))
    BY LexCases DEF InParams, LexStep
  <2>6. m_state' = "TRAILING" /\ token' = <<>> /\ m_tokens' = m_tokens
    BY <2>2, <2>4, <2>5 DEF LexParams, Skip
  <2>7. Reading(token', wire', m.params[j], LineEndText)
    BY <2>2, <2>4, <2>5, <2>6, ReadFirst
  <2>8. InTrailing(m)'
    BY <1>1, <2>0, <2>1, <2>6, <2>7 DEF InTrailing
  <2> QED
    BY <2>8 DEF CleanLine
<1> QED
  BY <1>2, <1>3

LEMMA LexInTrailing ==
  ASSUME NEW m \in Lines, P!ParserInv, InTrailing(m), LexStep
  PROVE  CleanLine(m)'
<1> DEFINE x == Head(wire)
           n == Params(m)
           t == m.params[n]
           k == Heads(m) + n - 1
<1>1. n \in Nat /\ n > 0 /\ Heads(m) \in Nat /\ HasParams(m)
  BY LineFields, LastTokens DEF InTrailing, Params
<1>2. n \in 1..n /\ k \in Nat /\ k + 1 = Heads(m) + n /\ (Heads(m) + n) + 1 = Heads(m) + n + 1
  BY <1>1
<1>3. token \in Texts /\ t \in Texts /\ LineEndText \in Texts /\ m_tokens \in Seq(Token)
  BY <1>2, ParserFacts, LineFields, SeparatorTexts DEF Params
<1>4. Without(t, EndOfLine)
  <2>1. Len(m.params) \in 1..Len(m.params) /\ ~(Len(m.params) < Len(m.params))
    BY <1>1, <1>2 DEF Params
  <2>2. \A i \in 1..Len(m.params) :
          ~(i < Len(m.params)) => Without(m.params[i], EndOfLine)
    BY LineFields DEF WellFormed
  <2> QED
    BY <2>1, <2>2 DEF Params
<1>5. /\ Queued(m_tokens, m, k) /\ Reading(token, wire, t, LineEndText)
      /\ wire' = Tail(wire) /\ LexTrailing(x)
  BY LexCases DEF InTrailing, LexStep
<1>6. CASE token = t /\ wire = LineEndText
  <2>1. x = "CR" /\ wire' = <<"LF">>
    BY <1>5, <1>6 DEF LineEndText
  <2>2. m_state' = "CR" /\ m_tokens' = Append(WithParam, [type |-> "CR", value |-> <<>>])
    BY <1>5, <2>1 DEF LexTrailing, LineEnd
  <2>3. WithParam = Append(m_tokens, TokenOf(m, k + 1))
    BY <1>2, <1>6, LastTokens DEF WithParam
  <2>4. Queued(WithParam, m, k + 1)
    BY <1>2, <1>3, <1>5, <2>3, QueueOn
  <2>5. WithParam \in Seq(Token)
    BY <1>3 DEF WithParam, Token, TokenTypes
  <2>6. m_tokens' = Append(WithParam, TokenOf(m, (k + 1) + 1)) /\ k + 1 \in Nat
    BY <1>2, <2>2, LastTokens
  <2>7. Queued(m_tokens', m, (k + 1) + 1)
    BY <2>4, <2>5, <2>6, QueueOn
  <2>8. AtCr(m)'
    BY <1>1, <1>2, <2>1, <2>2, <2>7 DEF AtCr
  <2> QED
    BY <2>8 DEF CleanLine
<1>7. CASE /\ Len(token) + 1 \in 1..Len(t) /\ x = t[Len(token) + 1]
           /\ Reading(Append(token, x), Tail(wire), t, LineEndText)
  <2>1. x \notin EndOfLine
    BY <1>3, <1>4, <1>7, CharsOf
  <2>2. m_state' = "TRAILING" /\ token' = Append(token, x) /\ m_tokens' = m_tokens
    BY <1>5, <2>1 DEF LexTrailing, Collect, Put, EndOfLine
  <2>3. InTrailing(m)'
    BY <1>1, <1>5, <1>7, <2>2 DEF InTrailing
  <2> QED
    BY <2>3 DEF CleanLine
<1> QED
  BY <1>3, <1>5, <1>6, <1>7, ReadOn

LEMMA LexAtCr ==
  ASSUME NEW m \in Lines, P!ParserInv, AtCr(m), LexStep
  PROVE  CleanLine(m)'
<1> DEFINE k == Heads(m) + Params(m) + 1
<1>1. /\ m_state = "CR" /\ HasParams(m) /\ wire = <<"LF">> /\ Queued(m_tokens, m, k)
      /\ wire' = Tail(wire) /\ LexCr(Head(wire)) /\ m_message' = m_message
  BY LexCases DEF AtCr, LexStep
<1>2. Head(wire) = "LF" /\ wire' = <<>>
  BY <1>1
<1>3. m_state' = "LF" /\ m_tokens' = Append(m_tokens, [type |-> "LF", value |-> <<>>])
  BY <1>1, <1>2 DEF LexCr, LineEnd
<1>4. k \in Nat /\ TokenCount(m) = k + 1 /\ Heads(m) \in 1..4 /\ Params(m) \in Nat
  BY LastTokens, HeadsOf DEF TokenCount
<1>5. TokenOf(m, k + 1) = [type |-> "LF", value |-> <<>>]
  <2>1. k + 1 = Heads(m) + Params(m) + 2
    BY <1>4
  <2> QED
    BY <2>1, LastTokens
<1>6. m_tokens \in Seq(Token) /\ m_message = EmptyMessage
  BY <1>1, ParserFacts
<1>7. Queued(m_tokens', m, TokenCount(m))
  BY <1>1, <1>3, <1>4, <1>5, <1>6, QueueOn
<1>8. Partial(m, 0) = EmptyMessage
  <2>1. Heads(m) = 1 => m.HOST = <<>>
    BY HeadsOf, LineFields DEF WellFormed
  <2>2. ~(0 >= 1) /\ ~(0 >= 2) /\ 0 <= Heads(m) /\ ~(0 >= Heads(m))
    BY <1>4
  <2>3. (IF 0 >= Heads(m) - 1 THEN m.HOST ELSE <<>>) = <<>>
    BY <1>4, <2>1
  <2> QED
    BY <2>2, <2>3 DEF Partial, EmptyMessage
<1>9. InParser(m)'
  <2>1. 0 \in 0..TokenCount(m) /\ \A i \in Nat : 0 + i = i
    BY <1>4
  <2>2. Len(m_tokens') = TokenCount(m) - 0
    BY <1>4, <1>7 DEF Queued
  <2>3. \A i \in 1..Len(m_tokens') : m_tokens'[i] = TokenOf(m, 0 + i)
    BY <1>4, <1>7 DEF Queued
  <2> QED
    BY <1>1, <1>3, <1>6, <1>8, <2>1, <2>2, <2>3 DEF InParser
<1> QED
  BY <1>9 DEF CleanLine

\* The lexer keeps a clean line clean.
LEMMA LexClean ==
  ASSUME NEW m \in Lines, P!ParserInv, CleanLine(m), LexStep
  PROVE  CleanLine(m)'
<1>1. ~InParser(m)
  BY LexCases DEF InParser, LexStep
<1> QED
  BY <1>1, LexStart, LexInServer, LexInNick, LexInUser, LexInHost, LexAtCommand,
     LexInCommand, LexPastCommand, LexInParams, LexInTrailing, LexAtCr
     DEF CleanLine

-----------------------------------------------------------------------------
(* The parser on a clean line *)

LEMMA FieldStored ==
  ASSUME NEW m \in Lines, NEW p \in Nat, p < Heads(m)
  PROVE  /\ TokenOf(m, p + 1).type \in FieldTypes
         /\ Partial(m, p + 1) =
              [Partial(m, p) EXCEPT ![TokenOf(m, p + 1).type] = TokenOf(m, p + 1).value]
<1> USE DEF FieldTypes, TokenOf, Partial
<1>1. Heads(m) \in 1..4
  BY HeadsOf
<1>2. m \in IRCMessage /\ WellFormed(m)
  BY LineFields
<1>3. CASE m.SERVERNAME # <<>>
  <2>1. /\ m.NICK = <<>> /\ m.USER = <<>> /\ m.HOST = <<>>
        /\ Heads(m) = 2 /\ HeadTypes(m)[1] = "SERVERNAME" /\ HeadTypes(m)[2] = "COMMAND"
    BY <1>2, <1>3 DEF WellFormed, Heads, HeadTypes
  <2>2. CASE p = 0
    BY <2>1, <2>2
  <2>3. CASE p = 1
    BY <2>1, <2>3
  <2> QED
    BY <2>1, <2>2, <2>3
<1>4. CASE m.SERVERNAME = <<>> /\ m.NICK = <<>>
  <2>1. /\ m.USER = <<>> /\ m.HOST = <<>>
        /\ Heads(m) = 1 /\ HeadTypes(m)[1] = "COMMAND"
    BY <1>2, <1>4 DEF WellFormed, Heads, HeadTypes
  <2>2. p = 0
    BY <2>1
  <2> QED
    BY <1>4, <2>1, <2>2
<1>5. CASE m.SERVERNAME = <<>> /\ m.NICK # <<>> /\ m.USER = <<>>
  <2>1. /\ Heads(m) = 3 /\ HeadTypes(m)[1] = "NICK" /\ HeadTypes(m)[2] = "HOST"
        /\ HeadTypes(m)[3] = "COMMAND"
    BY <1>5 DEF Heads, HeadTypes
  <2>2. CASE p = 0
    BY <1>5, <2>1, <2>2
  <2>3. CASE p = 1
    BY <1>5, <2>1, <2>3
  <2>4. CASE p = 2
    BY <1>5, <2>1, <2>4
  <2> QED
    BY <2>1, <2>2, <2>3, <2>4
<1>6. CASE m.SERVERNAME = <<>> /\ m.NICK # <<>> /\ m.USER # <<>> /\ m.HOST = <<>>
  <2>1. /\ Heads(m) = 3 /\ HeadTypes(m)[1] = "NICK" /\ HeadTypes(m)[2] = "USER"
        /\ HeadTypes(m)[3] = "COMMAND"
    BY <1>6 DEF Heads, HeadTypes
  <2>2. CASE p = 0
    BY <1>6, <2>1, <2>2
  <2>3. CASE p = 1
    BY <1>6, <2>1, <2>3
  <2>4. CASE p = 2
    BY <1>6, <2>1, <2>4
  <2> QED
    BY <2>1, <2>2, <2>3, <2>4
<1>7. CASE m.SERVERNAME = <<>> /\ m.NICK # <<>> /\ m.USER # <<>> /\ m.HOST # <<>>
  <2>1. /\ Heads(m) = 4 /\ HeadTypes(m)[1] = "NICK" /\ HeadTypes(m)[2] = "USER"
        /\ HeadTypes(m)[3] = "HOST" /\ HeadTypes(m)[4] = "COMMAND"
    BY <1>7 DEF Heads, HeadTypes
  <2>2. CASE p = 0
    BY <1>7, <2>1, <2>2
  <2>3. CASE p = 1
    BY <1>7, <2>1, <2>3
  <2>4. CASE p = 2
    BY <1>7, <2>1, <2>4
  <2>5. CASE p = 3
    BY <1>7, <2>1, <2>5
  <2> QED
    BY <2>1, <2>2, <2>3, <2>4, <2>5
<1> QED
  BY <1>3, <1>4, <1>5, <1>6, <1>7

LEMMA ParamStored ==
  ASSUME NEW m \in Lines, NEW p \in Nat, p >= Heads(m), p < Heads(m) + Params(m)
  PROVE  /\ TokenOf(m, p + 1).type = "PARAM"
         /\ Partial(m, p + 1) =
              [Partial(m, p) EXCEPT !.params = Append(@, TokenOf(m, p + 1).value)]
<1> DEFINE h == Heads(m)
           n == Params(m)
           j == (p + 1) - h
<1>1. h \in 1..4 /\ n \in Nat
  BY HeadsOf, LastTokens
<1>2. j \in 1..n /\ h + j = p + 1 /\ p - h = j - 1 /\ (p <= h <=> j = 1)
  BY <1>1
<1>3. TokenOf(m, p + 1) = [type |-> "PARAM", value |-> m.params[j]]
  BY <1>2, LastTokens
<1>4. /\ p + 1 >= 1 /\ p >= 1 /\ (p >= 2 <=> p + 1 >= 2 /\ ~(p = 1))
      /\ p + 1 >= h - 1 /\ p >= h - 1 /\ p + 1 >= h /\ p >= h
      /\ ~(p + 1 <= h) /\ p + 1 <= h + n /\ p <= h + n /\ p + 1 >= 2
  BY <1>1
<1>5. p = 1 => m.USER = <<>>
  <2>1. p = 1 => h = 1
    BY <1>1
  <2> QED
    BY <2>1, HeadsOf, LineFields DEF WellFormed
<1>6. m.params \in Seq(Texts) /\ Len(m.params) = n
  BY LineFields DEF Params
<1> DEFINE before == IF p <= h THEN <<>> ELSE SubSeq(m.params, 1, p - h)
           upto == SubSeq(m.params, 1, j)
<1>7. upto = Append(before, m.params[j])
  <2> DEFINE ps == m.params
  <2>0. ps \in Seq(Texts) /\ j \in 1..Len(ps)
    BY <1>2, <1>6
  <2>1. p <= h => SubSeq(ps, 1, j - 1) = <<>>
    BY <1>2, <2>0, SubSeqEmpty
  <2>2. before = SubSeq(ps, 1, j - 1)
    BY <1>2, <2>1
  <2> HIDE DEF ps, j
  <2>3. SubSeq(ps, 1, j) = Append(SubSeq(ps, 1, j - 1), ps[j])
    BY <2>0, SubSeqProperties
  <2> QED
    BY <2>2, <2>3 DEF ps
<1>8. Partial(m, p + 1) =
        [SERVERNAME |-> m.SERVERNAME, NICK |-> m.NICK, USER |-> m.USER,
         HOST |-> m.HOST, COMMAND |-> m.COMMAND, params |-> upto]
  BY <1>4 DEF Partial
<1>9. Partial(m, p) =
        [SERVERNAME |-> m.SERVERNAME, NICK |-> m.NICK, USER |-> m.USER,
         HOST |-> m.HOST, COMMAND |-> m.COMMAND,
         params |-> before]
  BY <1>4, <1>5 DEF Partial
<1> HIDE DEF j, h, before, upto
<1>10. TokenOf(m, p + 1).type = "PARAM" /\ TokenOf(m, p + 1).value = m.params[j]
  BY <1>3
<1>11. Partial(m, p).params = before
  BY <1>9
<1>12. Partial(m, p + 1) = [Partial(m, p) EXCEPT !.params = upto]
  BY <1>8, <1>9
<1> QED
  BY <1>7, <1>10, <1>11, <1>12

LEMMA EndStored ==
  ASSUME NEW m \in Lines, NEW k, k = Heads(m) + Params(m)
  PROVE  /\ TokenOf(m, k + 1).type = "CR" /\ TokenOf(m, k + 2).type = "LF"
         /\ HasParams(m) => Partial(m, k) = m /\ Partial(m, k + 1) = m
<1> DEFINE h == Heads(m)
           n == Params(m)
<1>1. h \in 1..4 /\ n \in Nat
  BY HeadsOf, LastTokens
<1>2. TokenOf(m, k + 1).type = "CR" /\ TokenOf(m, k + 2).type = "LF"
  BY LastTokens
<1>3. ASSUME HasParams(m) PROVE Partial(m, k) = m /\ Partial(m, k + 1) = m
  <2>1. m \in IRCMessage /\ m.params \in Seq(Texts) /\ Len(m.params) = n /\ n > 0
    BY <1>3, LineFields DEF Params
  <2>2. /\ k >= 1 /\ k >= 2 /\ k >= h - 1 /\ k >= h /\ ~(k <= h) /\ k <= h + n /\ k - h = n
        /\ k + 1 >= 1 /\ k + 1 >= 2 /\ k + 1 >= h - 1 /\ k + 1 >= h
        /\ ~(k + 1 <= h) /\ ~(k + 1 <= h + n)
    BY <1>1, <2>1
  <2>3. SubSeq(m.params, 1, n) = m.params
    BY <2>1, SubSeqFull
  <2>4. m = [SERVERNAME |-> m.SERVERNAME, NICK |-> m.NICK, USER |-> m.USER,
             HOST |-> m.HOST, COMMAND |-> m.COMMAND, params |-> m.params]
    BY <2>1 DEF IRCMessage
  <2>5. Partial(m, k) =
          [SERVERNAME |-> m.SERVERNAME, NICK |-> m.NICK, USER |-> m.USER,
           HOST |-> m.HOST, COMMAND |-> m.COMMAND, params |-> SubSeq(m.params, 1, k - h)]
    BY <2>2 DEF Partial
  <2>6. Partial(m, k + 1) =
          [SERVERNAME |-> m.SERVERNAME, NICK |-> m.NICK, USER |-> m.USER,
           HOST |-> m.HOST, COMMAND |-> m.COMMAND, params |-> m.params]
    BY <2>2 DEF Partial
  <2> QED
    BY <2>2, <2>3, <2>4, <2>5, <2>6
<1> QED
  BY <1>2, <1>3

\* parser() turns the tokens of a clean line into its message.
LEMMA ParseClean ==
  ASSUME NEW m \in Lines, P!ParserInv, CleanLine(m), ParseToken
  PROVE  /\ CleanLine(m)'
         /\ \/ m_messages' = m_messages
            \/ m_messages' = Append(m_messages, m) /\ HasParams(m)
<1> DEFINE T == TokenCount(m)
           h == Heads(m)
           n == Params(m)
           t == Head(m_tokens)
<1>0. /\ m_state = "LF" /\ m_tokens # <<>> /\ m_tokens' = Tail(m_tokens)
      /\ m_state' = m_state
  BY DEF ParseToken
<1>1. InParser(m)
  BY <1>0 DEF CleanLine, AtStart, InServer, InNick, InUser, InHost, AtCommand, InCommand,
     PastCommand, InParams, InTrailing, AtCr
<1>2. h \in 1..4 /\ n \in Nat /\ T = h + n + 2 /\ T \in Nat
  BY HeadsOf, LastTokens DEF TokenCount
<1>3. HasParams(m)
  BY <1>1 DEF InParser
<1>4. PICK p \in 0..T :
        /\ Len(m_tokens) = T - p
        /\ \A i \in 1..Len(m_tokens) : m_tokens[i] = TokenOf(m, p + i)
        /\ p < T => m_message = Partial(m, p)
  BY <1>1 DEF InParser
<1>5. m_tokens \in Seq(Token)
  BY ParserFacts
<1>6. p < T /\ Len(m_tokens) \in Nat \ {0}
  BY <1>0, <1>2, <1>4, <1>5
<1>7. t = TokenOf(m, p + 1) /\ p + 1 \in 0..T /\ t = m_tokens[1]
  BY <1>2, <1>4, <1>5, <1>6
<1>8. /\ Len(m_tokens') = T - (p + 1)
      /\ \A i \in 1..Len(m_tokens') : m_tokens'[i] = TokenOf(m, (p + 1) + i)
  <2>1. /\ Len(Tail(m_tokens)) = Len(m_tokens) - 1
        /\ \A i \in 1..(Len(m_tokens) - 1) : Tail(m_tokens)[i] = m_tokens[i + 1]
    BY <1>0, <1>5, HeadTailProperties
  <2>2. Len(m_tokens') = T - (p + 1)
    BY <1>0, <1>2, <1>4, <2>1
  <2>3. ASSUME NEW i \in 1..Len(m_tokens')
        PROVE  m_tokens'[i] = TokenOf(m, (p + 1) + i)
    <3>1. i \in 1..(Len(m_tokens) - 1) /\ i + 1 \in 1..Len(m_tokens) /\ p + (i + 1) = (p + 1) + i
      BY <1>0, <1>2, <1>6, <2>1
    <3>2. m_tokens'[i] = m_tokens[i + 1] /\ m_tokens[i + 1] = TokenOf(m, p + (i + 1))
      BY <1>0, <1>4, <2>1, <3>1
    <3> QED
      BY <3>1, <3>2
  <2> QED
    BY <2>2, <2>3
<1>9. StoreToken(t)
  <2>1. t.type \in Follows(m_last_token)
    BY <1>0, <1>7, ParserFacts
  <2> QED
    BY <2>1 DEF ParseToken
<1>10. CASE p < h
  <2>1. t.type \in FieldTypes /\ Partial(m, p + 1) = [Partial(m, p) EXCEPT ![t.type] = t.value]
    BY <1>2, <1>7, <1>10, FieldStored
  <2>2. m_message' = Partial(m, p + 1) /\ m_messages' = m_messages
    BY <1>4, <1>6, <1>9, <2>1 DEF StoreToken, FieldTypes
  <2>3. InParser(m)'
    BY <1>0, <1>3, <1>7, <1>8, <2>2 DEF InParser
  <2> QED
    BY <2>2, <2>3 DEF CleanLine
<1>11. CASE p >= h /\ p < h + n
  <2>1. /\ t.type = "PARAM"
        /\ Partial(m, p + 1) = [Partial(m, p) EXCEPT !.params = Append(@, t.value)]
    <3>1. p \in Nat
      BY <1>2
    <3>2. /\ TokenOf(m, p + 1).type = "PARAM"
          /\ Partial(m, p + 1) =
               [Partial(m, p) EXCEPT !.params = Append(@, TokenOf(m, p + 1).value)]
      BY <1>11, <3>1, ParamStored
    <3> QED
      BY <1>7, <3>2, Zenon
  <2>2. m_message' = Partial(m, p + 1) /\ m_messages' = m_messages
    BY <1>4, <1>6, <1>9, <2>1 DEF StoreToken, FieldTypes
  <2>3. InParser(m)'
    BY <1>0, <1>3, <1>7, <1>8, <2>2 DEF InParser
  <2> QED
    BY <2>2, <2>3 DEF CleanLine
<1>12. CASE p = h + n
  <2>1. t.type = "CR" /\ Partial(m, p + 1) = Partial(m, p)
    BY <1>3, <1>7, <1>12, EndStored
  <2>2. m_message' = Partial(m, p + 1) /\ m_messages' = m_messages
    BY <1>4, <1>6, <1>9, <2>1 DEF StoreToken, FieldTypes
  <2>3. InParser(m)'
    BY <1>0, <1>3, <1>7, <1>8, <2>2 DEF InParser
  <2> QED
    BY <2>2, <2>3 DEF CleanLine
<1>13. CASE p = h + n + 1
  <2>1. p + 1 = T /\ p + 1 = (h + n) + 2
    BY <1>2, <1>13
  <2>2. t.type = "LF" /\ Partial(m, p) = m
    BY <1>3, <1>7, <1>13, <2>1, EndStored
  <2>3. m_messages' = Append(m_messages, m)
    BY <1>4, <1>6, <1>9, <2>2 DEF StoreToken, FieldTypes
  <2>4. ~(p + 1 < T)
    BY <1>2, <2>1
  <2>5. InParser(m)'
    BY <1>0, <1>3, <1>7, <1>8, <2>4 DEF InParser
  <2> QED
    BY <1>3, <2>3, <2>5 DEF CleanLine
<1>14. p < h \/ (p >= h /\ p < h + n) \/ p = h + n \/ p = h + n + 1
  BY <1>2, <1>6
<1> QED
  BY <1>10, <1>11, <1>12, <1>13, <1>14

\* Some of the line is left while the lexer is in one of its parts.
LEMMA RestLeft ==
  ASSUME NEW t, NEW w, NEW part, NEW rest \in Texts, rest # <<>>, Reading(t, w, part, rest)
  PROVE  w # <<>>
<1>1. PICK b \in Texts : w = b \o rest
  BY DEF Reading
<1>2. /\ b \in Seq(Chars) /\ rest \in Seq(Chars)
  BY Alphabet
<1>3. Len(b \o rest) = Len(b) + Len(rest) /\ Len(b) \in Nat /\ Len(rest) \in Nat \ {0}
  BY <1>2, ConcatProperties
<1> QED
  BY <1>1, <1>3

LEMMA NotEmpty ==
  ASSUME NEW x \in Chars, NEW t \in Texts
  PROVE  <<x>> \o t # <<>>
  BY FirstIs, Alphabet

\* The end of a clean line.
LEMMA CleanEnd ==
  ASSUME NEW m \in Lines, CleanLine(m), wire = <<>>
  PROVE  PastCommand(m) \/ InParser(m)
<1>1. /\ AfterPrefix(m) \in Texts /\ AfterUser(m) \in Texts /\ AfterNick(m) \in Texts
      /\ Body(m) \in Texts /\ AfterCommand(m) \in Texts /\ LineEndText \in Texts
      /\ toString(m) \in Texts /\ m.USER \in Texts /\ m.HOST \in Texts
      /\ m.SERVERNAME \in Texts /\ m.NICK \in Texts
  BY LineText, LineFields, ParamSteps, SeparatorTexts
<1>2. " " \in Chars /\ ":" \in Chars /\ "!" \in Chars /\ "@" \in Chars
  BY SeparatorTexts DEF Separators
<1>3. AfterPrefix(m) # <<>>
  BY <1>1, <1>2, NotEmpty DEF AfterPrefix
<1>4. AfterUser(m) # <<>>
  <2>1. m.HOST \o AfterPrefix(m) \in Texts
    BY <1>1, Concat
  <2> QED
    BY <1>2, <1>3, <2>1, NotEmpty DEF AfterUser
<1>5. AfterNick(m) # <<>>
  <2>1. m.USER \o AfterUser(m) \in Texts
    BY <1>1, Concat
  <2> QED
    BY <1>2, <1>4, <2>1, NotEmpty DEF AfterNick
<1>6. LineEndText # <<>>
  BY DEF LineEndText
<1>7. \A j \in 1..Params(m) : InParam(m, j) \in Texts /\ AfterParam(m, j) \in Texts
  BY ParamSteps DEF Params
<1>8. AfterCommand(m) # <<>>
  <2>1. CASE HasParams(m)
    <3>1. 1 \in 1..Params(m)
      BY <2>1, LineFields DEF Params
    <3>2. AfterCommand(m) = <<" ">> \o InParam(m, 1)
      BY <2>1, ParamSteps
    <3> QED
      BY <1>2, <1>7, <3>1, <3>2, NotEmpty
  <2>2. CASE ~HasParams(m)
    BY <1>6, <2>2, ParamSteps
  <2> QED
    BY <2>1, <2>2
<1>9. ~AtStart(m)
  <2>1. Body(m) # <<>>
    <3>1. Reading(<<>>, Body(m), m.COMMAND, AfterCommand(m))
      BY <1>1, LineFields, ReadFirst DEF Body
    <3> QED
      BY <1>1, <1>8, <3>1, RestLeft
  <2>2. m.SERVERNAME \o AfterPrefix(m) \in Texts /\ m.NICK \o AfterNick(m) \in Texts
    BY <1>1, Concat
  <2>3. toString(m) # <<>>
    <3>1. CASE m.SERVERNAME # <<>>
      BY <1>2, <2>2, <3>1, LineText, NotEmpty
    <3>2. CASE m.SERVERNAME = <<>> /\ m.NICK # <<>>
      BY <1>2, <2>2, <3>2, LineText, NotEmpty
    <3>3. CASE m.SERVERNAME = <<>> /\ m.NICK = <<>>
      BY <2>1, <3>3, LineText
    <3> QED
      BY <3>1, <3>2, <3>3
  <2> QED
    BY <2>3 DEF AtStart
<1>10. ~InServer(m) /\ ~InHost(m)
  BY <1>1, <1>3, RestLeft DEF InServer, InHost
<1>11. ~InNick(m) /\ ~InUser(m)
  BY <1>1, <1>4, <1>5, RestLeft DEF InNick, InUser
<1>12. ~AtCommand(m) /\ ~InCommand(m)
  BY <1>1, <1>8, RestLeft DEF AtCommand, InCommand
<1>13. ~InTrailing(m) /\ ~AtCr(m)
  BY <1>1, <1>6, RestLeft DEF InTrailing, AtCr
<1>14. ~InParams(m)
  <2> SUFFICES ASSUME NEW j \in 1..Params(m),
                      IF j < Params(m) THEN Reading(token, wire, m.params[j], AfterParam(m, j))
                      ELSE wire = InParam(m, j)
               PROVE  FALSE
    BY DEF InParams
  <2>0. Params(m) \in Nat
    BY LastTokens
  <2>1. CASE j < Params(m)
    <3>1. j + 1 \in 1..Params(m)
      BY <2>0, <2>1
    <3>2. AfterParam(m, j) = <<" ">> \o InParam(m, j + 1)
      BY <2>1, ParamSteps DEF Params
    <3>3. AfterParam(m, j) # <<>>
      BY <1>2, <1>7, <3>1, <3>2, NotEmpty
    <3> QED
      BY <1>7, <2>1, <3>3, RestLeft
  <2>2. CASE ~(j < Params(m))
    <3>1. j = Params(m)
      BY <2>0, <2>2
    <3>2. wire = <<":">> \o (m.params[j] \o LineEndText) /\ m.params[j] \in Texts
      BY <2>2, <3>1, LineFields DEF InParam, Params
    <3>3. m.params[j] \o LineEndText \in Texts
      BY <1>1, <3>2, Concat
    <3> QED
      BY <1>2, <3>2, <3>3, NotEmpty
  <2> QED
    BY <2>1, <2>2
<1> QED
  BY <1>9, <1>10, <1>11, <1>12, <1>13, <1>14 DEF CleanLine

\* The line is the same as before.
LEMMA SameLine ==
  ASSUME NEW m, CleanLine(m), UNCHANGED <<m_state, token, m_tokens, m_message, wire>>
  PROVE  CleanLine(m)'
  BY DEF CleanLine, AtStart, InServer, InNick, InUser, InHost, AtCommand, InCommand,
     PastCommand, InParams, InTrailing, AtCr, InParser

\* A chunk that ends between two tokens does no harm.
LEMMA CutClean ==
  ASSUME NEW m \in Lines, CleanLine(m), CutChunk, ~CutAnywhere
  PROVE  CleanLine(m)'
<1>1. /\ m_state # "LF" /\ token' = <<>> /\ (token = <<>> \/ wire = <<>>)
      /\ UNCHANGED <<m_state, m_tokens, m_message, wire>>
  BY DEF CutChunk, EndOfChunk, parserVars, streamVars
<1>2. CASE token = <<>>
  BY <1>1, <1>2, SameLine
<1>3. CASE wire = <<>>
  <2>1. PastCommand(m)
    BY <1>1, <1>3, CleanEnd DEF InParser
  <2>2. PastCommand(m)'
    BY <1>1, <2>1 DEF PastCommand
  <2> QED
    BY <2>2 DEF CleanLine
<1> QED
  BY <1>1, <1>2, <1>3

-----------------------------------------------------------------------------
(* The end of the line, its spaces and its command *)

LEMMA NoLineEndIn ==
  ASSUME NEW m \in Lines
  PROVE  Without(Prefix(m), {"CR", "LF"}) /\ Without(m.COMMAND, {"CR", "LF"})
<1> DEFINE Plain(t) == t \in Texts /\ Without(t, {"CR", "LF"})
<1>1. ASSUME NEW t \in Texts, NEW xs, Without(t, xs \cup EndOfLine) PROVE Plain(t)
  <2>1. {"CR", "LF"} \subseteq xs \cup EndOfLine
    BY DEF EndOfLine
  <2> QED
    BY <1>1, <2>1, WithoutFewer
<1>2. Plain(m.SERVERNAME) /\ Plain(m.NICK) /\ Plain(m.USER) /\ Plain(m.HOST)
  <2>1. /\ m.SERVERNAME \in Texts /\ m.NICK \in Texts /\ m.USER \in Texts /\ m.HOST \in Texts
        /\ Without(m.SERVERNAME, {" ", "!", "@"} \cup EndOfLine)
        /\ Without(m.NICK, {" ", "!", "@"} \cup EndOfLine)
        /\ Without(m.USER, {" ", "@"} \cup EndOfLine)
        /\ Without(m.HOST, {" "} \cup EndOfLine)
    BY LineFields DEF WellFormed
  <2> HIDE DEF Plain
  <2> QED
    BY <1>1, <2>1
<1>3. Plain(<<" ">>) /\ Plain(<<":">>) /\ Plain(<<"!">>) /\ Plain(<<"@">>) /\ Plain(<<>>)
  <2>1. /\ " " \notin {"CR", "LF"} /\ ":" \notin {"CR", "LF"}
        /\ "!" \notin {"CR", "LF"} /\ "@" \notin {"CR", "LF"}
    OBVIOUS
  <2>2. /\ Without(<<" ">>, {"CR", "LF"}) /\ Without(<<":">>, {"CR", "LF"})
        /\ Without(<<"!">>, {"CR", "LF"}) /\ Without(<<"@">>, {"CR", "LF"})
    BY <2>1, WithoutOne
  <2>3. Without(<<>>, {"CR", "LF"})
    BY DEF Without
  <2> QED
    BY <2>2, <2>3, SeparatorTexts
<1>4. ASSUME NEW a, NEW b, Plain(a), Plain(b) PROVE Plain(a \o b)
  BY <1>4, Concat, WithoutConcat, Alphabet
<1> HIDE DEF Plain
<1>5. Plain(Prefix(m))
  <2>1. CASE m.SERVERNAME # <<>>
    <3>1. Prefix(m) = (<<":">> \o m.SERVERNAME) \o <<" ">>
      BY <2>1 DEF Prefix
    <3>2. Plain(<<":">> \o m.SERVERNAME)
      BY <1>2, <1>3, <1>4
    <3> QED
      BY <1>3, <1>4, <3>1, <3>2
  <2>2. CASE m.SERVERNAME = <<>> /\ m.NICK # <<>>
    <3> DEFINE N == <<":">> \o m.NICK
               U == IF m.USER = <<>> THEN <<>> ELSE <<"!">> \o m.USER
               H == IF m.HOST = <<>> THEN <<>> ELSE <<"@">> \o m.HOST
    <3>1. Prefix(m) = ((N \o U) \o H) \o <<" ">>
      BY <2>2 DEF Prefix, UserPrefix
    <3>2. Plain(N) /\ Plain(U) /\ Plain(H)
      BY <1>2, <1>3, <1>4
    <3> HIDE DEF N, U, H
    <3>3. Plain(N \o U)
      BY <1>4, <3>2
    <3>4. Plain((N \o U) \o H)
      BY <1>4, <3>2, <3>3
    <3> QED
      BY <1>3, <1>4, <3>1, <3>4
  <2>3. CASE m.SERVERNAME = <<>> /\ m.NICK = <<>>
    BY <1>3, <2>3 DEF Prefix
  <2> QED
    BY <2>1, <2>2, <2>3
<1>6. Without(m.COMMAND, {"CR", "LF"})
  BY CommandChars DEF Without, Separators
<1> QED
  BY <1>5, <1>6 DEF Plain

LEMMA LineEnds ==
  ASSUME NEW m \in Lines
  PROVE  EndsLine(toString(m)) /\ Len(toString(m)) >= 2
<1> DEFINE X == (Prefix(m) \o m.COMMAND) \o Parameters(m.params)
           w == X \o <<"CR", "LF">>
<1>1. /\ Prefix(m) \in Texts /\ m.COMMAND \in Texts /\ Parameters(m.params) \in Texts
      /\ Without(Parameters(m.params), {"CR", "LF"})
  BY LineText, LineFields, ParamSteps
<1>2. Prefix(m) \o m.COMMAND \in Texts /\ Without(Prefix(m) \o m.COMMAND, {"CR", "LF"})
  BY <1>1, Concat, NoLineEndIn, WithoutConcat, Alphabet
<1>3. X \in Texts /\ Without(X, {"CR", "LF"})
  BY <1>1, <1>2, Concat, WithoutConcat, Alphabet
<1>4. toString(m) = w
  BY DEF toString
<1> HIDE DEF X
<1>5. X \in Seq(Chars) /\ <<"CR", "LF">> \in Seq(Chars)
  BY <1>3, Alphabet, SeparatorTexts DEF LineEndText
<1>6. Len(<<"CR", "LF">>) = 2 /\ <<"CR", "LF">>[1] = "CR" /\ <<"CR", "LF">>[2] = "LF"
  OBVIOUS
<1>7. /\ Len(X) \in Nat /\ Len(w) = Len(X) + 2
      /\ \A i \in 1..Len(w) : w[i] = IF i <= Len(X) THEN X[i] ELSE <<"CR", "LF">>[i - Len(X)]
  BY <1>5, <1>6, ConcatProperties
<1> DEFINE e == <<"CR", "LF">>
<1>8. e[1] = "CR" /\ e[2] = "LF"
  BY <1>6
<1>9. /\ Len(X) \in Nat /\ Len(w) = Len(X) + 2
      /\ \A i \in 1..Len(w) : w[i] = IF i <= Len(X) THEN X[i] ELSE e[i - Len(X)]
  BY <1>7
<1> HIDE DEF w, e
<1>10. /\ Len(w) \in 1..Len(w) /\ ~(Len(w) <= Len(X)) /\ Len(w) - Len(X) = 2
       /\ Len(w) - 1 \in 1..Len(w) /\ ~(Len(w) - 1 <= Len(X)) /\ (Len(w) - 1) - Len(X) = 1
  BY <1>9
<1>11. w[Len(w)] = "LF" /\ w[Len(w) - 1] = "CR"
  BY <1>8, <1>9, <1>10
<1>12. \A i \in 1..(Len(w) - 2) : w[i] \notin {"CR", "LF"}
  <2> SUFFICES ASSUME NEW i \in 1..(Len(w) - 2) PROVE w[i] \notin {"CR", "LF"}
    OBVIOUS
  <2>1. i \in 1..Len(X) /\ i \in 1..Len(w) /\ i <= Len(X)
    BY <1>9
  <2>2. w[i] = X[i]
    BY <1>9, <2>1
  <2> QED
    BY <1>3, <2>1, <2>2 DEF Without
<1>13. w # <<>> /\ Len(w) >= 2
  BY <1>9
<1> QED
  BY <1>4, <1>11, <1>12, <1>13 DEF EndsLine

LEMMA LineWords ==
  ASSUME NEW m \in Lines, HasParams(m)
  PROVE  HasWord(toString(m)) /\ HasSpace(toString(m))
<1> DEFINE A == Prefix(m)
           C == m.COMMAND
           R == AfterCommand(m)
           B == C \o R
           w == A \o B
<1>1. /\ A \in Seq(Chars) /\ C \in Seq(Chars) /\ R \in Seq(Chars) /\ B \in Seq(Chars)
      /\ toString(m) = w
  BY LineText, LineFields, ParamSteps, Alphabet DEF Body
<1>2. R # <<>> /\ Head(R) = " "
  <2>1. 1 \in 1..Len(m.params)
    BY LineFields
  <2>2. InParam(m, 1) \in Texts /\ R = <<" ">> \o InParam(m, 1) /\ " " \in Chars
    BY <2>1, ParamSteps, SeparatorTexts DEF Separators
  <2> QED
    BY <2>2, NextIs, NotEmpty
<1>3. Len(C) \in Nat \ {0} /\ C[1] \in Digits \cup Letters
  <2>1. Len(C) \in Nat \ {0}
    BY CommandChars
  <2>2. 1 \in 1..Len(C)
    BY <2>1
  <2> QED
    BY <2>1, <2>2, CommandChars
<1> HIDE DEF A, C, R
<1>4. R[1] = " " /\ Len(R) \in Nat \ {0}
  <2>1. R \in Seq(Chars) /\ R # <<>>
    BY <1>1, <1>2
  <2>2. Head(R) = R[1] /\ Len(R) \in Nat \ {0}
    BY <2>1
  <2> QED
    BY <1>2, <2>2
<1>5. /\ Len(B) = Len(C) + Len(R)
      /\ \A i \in 1..Len(B) : B[i] = IF i <= Len(C) THEN C[i] ELSE R[i - Len(C)]
  BY <1>1, ConcatProperties
<1> HIDE DEF B
<1>6. /\ Len(A) \in Nat /\ Len(w) = Len(A) + Len(B)
      /\ \A i \in 1..Len(w) : w[i] = IF i <= Len(A) THEN A[i] ELSE B[i - Len(A)]
  BY <1>1, ConcatProperties
<1> HIDE DEF w
<1>7. /\ 1 \in 1..Len(B) /\ 1 <= Len(C) /\ Len(C) + 1 \in 1..Len(B)
      /\ ~(Len(C) + 1 <= Len(C)) /\ (Len(C) + 1) - Len(C) = 1
  <2>1. Len(C) \in Nat \ {0} /\ Len(R) \in Nat \ {0} /\ Len(B) = Len(C) + Len(R)
    BY <1>3, <1>4, <1>5
  <2> QED
    BY <2>1
<1>8. B[1] = C[1] /\ B[Len(C) + 1] = " "
  BY <1>4, <1>5, <1>7
<1> DEFINE i == Len(A) + 1
           j == Len(A) + (Len(C) + 1)
<1>9. /\ i \in 1..Len(w) /\ j \in 1..Len(w) /\ i < j /\ ~(i <= Len(A)) /\ ~(j <= Len(A))
      /\ i - Len(A) = 1 /\ j - Len(A) = Len(C) + 1
  <2>1. Len(C) \in Nat \ {0} /\ Len(A) \in Nat /\ Len(w) = Len(A) + Len(B)
    BY <1>3, <1>6
  <2> QED
    BY <1>7, <2>1
<1> HIDE DEF i, j
<1>10. w[i] = B[1] /\ w[j] = B[Len(C) + 1]
  BY <1>6, <1>9
<1>11. w[i] \in Digits \cup Letters /\ w[j] = " "
  BY <1>3, <1>8, <1>10
<1> QED
  BY <1>1, <1>9, <1>11 DEF HasWord, HasSpace

\* What the first character says about the rest.
LEMMA EndAhead ==
  ASSUME NEW w \in Texts, EndsLine(w)
  PROVE  /\ Head(w) \in Chars /\ Tail(w) \in Texts
         /\ Tail(w) # <<>> => EndsLine(Tail(w))
         /\ Head(w) = "LF" => Tail(w) = <<>>
         /\ Head(w) # "LF" => Tail(w) # <<>>
         /\ Head(w) \notin {"CR", "LF"} => Len(Tail(w)) >= 2
<1> DEFINE v == Tail(w)
           n == Len(w)
<1>0. w \in Seq(Chars) /\ w # <<>>
  BY Alphabet DEF EndsLine
<1>1. /\ Head(w) \in Chars /\ Head(w) = w[1] /\ v \in Seq(Chars) /\ n \in Nat \ {0}
      /\ Len(v) = n - 1 /\ \A i \in 1..(n - 1) : v[i] = w[i + 1]
  BY <1>0, HeadTailProperties
<1>2. /\ w[n] = "LF" /\ (n > 1 => w[n - 1] = "CR")
      /\ \A i \in 1..(n - 2) : w[i] \notin {"CR", "LF"}
  BY DEF EndsLine
<1> HIDE DEF v, n
<1>3. v # <<>> => EndsLine(v)
  <2> SUFFICES ASSUME v # <<>> PROVE EndsLine(v)
    OBVIOUS
  <2>1. n - 1 \in Nat \ {0}
    BY <1>1
  <2>2. Len(v) \in 1..(n - 1) /\ Len(v) + 1 = n
    BY <1>1, <2>1
  <2>3. v[Len(v)] = "LF"
    BY <1>1, <1>2, <2>2
  <2>4. Len(v) > 1 => v[Len(v) - 1] = "CR"
    <3> SUFFICES ASSUME Len(v) > 1 PROVE v[Len(v) - 1] = "CR"
      OBVIOUS
    <3>1. Len(v) - 1 \in 1..(n - 1) /\ (Len(v) - 1) + 1 = n - 1 /\ n > 1
      BY <1>1, <2>2
    <3> QED
      BY <1>1, <1>2, <3>1
  <2>5. ASSUME NEW i \in 1..(Len(v) - 2) PROVE v[i] \notin {"CR", "LF"}
    <3>1. i \in 1..(n - 1) /\ i + 1 \in 1..(n - 2)
      BY <1>1, <2>2
    <3> QED
      BY <1>1, <1>2, <3>1
  <2> QED
    BY <2>3, <2>4, <2>5 DEF EndsLine
<1>4. Head(w) = "LF" => v = <<>>
  <2> SUFFICES ASSUME Head(w) = "LF" PROVE v = <<>>
    OBVIOUS
  <2>1. CASE n = 1
    BY <1>1, <2>1
  <2>2. CASE n = 2
    BY <1>1, <1>2, <2>2
  <2>3. CASE n > 2
    <3>1. 1 \in 1..(n - 2)
      BY <1>1, <2>3
    <3> QED
      BY <1>1, <1>2, <3>1
  <2> QED
    BY <1>1, <2>1, <2>2, <2>3
<1>5. Head(w) # "LF" => v # <<>>
  <2> SUFFICES ASSUME v = <<>> PROVE Head(w) = "LF"
    OBVIOUS
  <2>1. n = 1
    BY <1>1
  <2> QED
    BY <1>1, <1>2, <2>1
<1>6. Head(w) \notin {"CR", "LF"} => Len(v) >= 2
  <2> SUFFICES ASSUME ~(Len(v) >= 2) PROVE Head(w) \in {"CR", "LF"}
    OBVIOUS
  <2>1. n = 1 \/ n = 2
    BY <1>1
  <2> QED
    BY <1>1, <1>2, <2>1
<1> QED
  BY <1>1, <1>3, <1>4, <1>5, <1>6, Alphabet DEF v

LEMMA WordAhead ==
  ASSUME NEW w \in Texts, w # <<>>
  PROVE  /\ HasSpace(w) /\ Head(w) # " " => HasSpace(Tail(w))
         /\ HasWord(w) => HasSpace(Tail(w))
         /\ HasWord(w) /\ Head(w) \notin Digits \cup Letters => HasWord(Tail(w))
<1> DEFINE v == Tail(w)
           n == Len(w)
<1>0. w \in Seq(Chars)
  BY Alphabet
<1>1. /\ Head(w) = w[1] /\ n \in Nat \ {0}
      /\ Len(v) = n - 1 /\ \A i \in 1..(n - 1) : v[i] = w[i + 1]
  BY <1>0, HeadTailProperties
<1>2. ASSUME NEW i \in 1..n, i # 1 PROVE i - 1 \in 1..Len(v) /\ v[i - 1] = w[i]
  <2>1. i - 1 \in 1..(n - 1) /\ (i - 1) + 1 = i
    BY <1>1, <1>2
  <2> QED
    BY <1>1, <2>1
<1> HIDE DEF v
<1>3. ASSUME HasSpace(w), w[1] # " " PROVE HasSpace(v)
  <2>1. PICK i \in 1..n : w[i] = " "
    BY <1>3 DEF HasSpace
  <2> QED
    BY <1>2, <1>3, <2>1 DEF HasSpace
<1>4. ASSUME HasWord(w) PROVE HasSpace(v) /\ (w[1] \notin Digits \cup Letters => HasWord(v))
  <2>1. PICK i \in 1..n, j \in 1..n : i < j /\ w[i] \in Digits \cup Letters /\ w[j] = " "
    BY <1>4 DEF HasWord
  <2>2. j # 1 /\ j - 1 \in 1..Len(v) /\ v[j - 1] = " "
    <3>1. j # 1
      <4>1. i \in 1..n /\ j \in 1..n /\ i < j /\ n \in Nat
        BY <1>1, <2>1
      <4> QED
        BY <4>1
    <3> QED
      BY <1>2, <2>1, <3>1
  <2>3. ASSUME w[1] \notin Digits \cup Letters PROVE HasWord(v)
    <3>1. i # 1 /\ i - 1 \in 1..Len(v) /\ v[i - 1] \in Digits \cup Letters
      BY <1>2, <2>1, <2>3
    <3>2. i - 1 < j - 1
      <4>1. i \in 1..n /\ j \in 1..n /\ i < j /\ n \in Nat
        BY <1>1, <2>1
      <4> QED
        BY <4>1
    <3> QED
      BY <2>2, <3>1, <3>2 DEF HasWord
  <2> QED
    BY <2>2, <2>3 DEF HasSpace
<1> QED
  BY <1>1, <1>3, <1>4 DEF v

-----------------------------------------------------------------------------
(* One step of the lexer or the parser on any line *)

LEMMA LexFacts ==
  ASSUME P!ParserInv, NEW x, Lex(x)
  PROVE  m_state' # "NONE" /\ (m_state' = "LF" => m_tokens' # <<>> /\ x = "LF")
<1> USE DEF Collect, Skip, PutToken, LineEnd
<1>1. m_tokens \in Seq(Token) /\ m_state \in States
  BY ParserFacts
<1>2. WithParam \in Seq(Token)
  BY <1>1, ParserFacts DEF WithParam, Token, TokenTypes
<1>3. ASSUME NEW q \in Seq(Token), NEW t \in Token PROVE Append(q, t) # <<>>
  BY <1>3, AppendProperties
<1>a. [type |-> "LF", value |-> <<>>] \in Token
  BY SeparatorTexts DEF Token, TokenTypes
<1>4. ASSUME NEW q \in Seq(Token), LineEnd(q, x), x \in {"CR", "LF"}
      PROVE  m_state' # "NONE" /\ (m_state' = "LF" => m_tokens' # <<>> /\ x = "LF")
  BY <1>3, <1>4, <1>a
<1>5. CASE LexNone(x) \/ LexServernameNick(x) \/ LexUser(x) \/ LexHost(x)
  BY <1>5 DEF LexNone, LexServernameNick, LexUser, LexHost
<1>6. CASE LexCommand(x) \/ LexCommandWord(x)
  BY <1>6 DEF LexCommand, LexCommandWord
<1>7. CASE LexParams(x)
  BY <1>1, <1>2, <1>4, <1>7 DEF LexParams
<1>8. CASE LexTrailing(x)
  BY <1>2, <1>4, <1>8 DEF LexTrailing
<1>9. CASE LexCr(x)
  BY <1>1, <1>4, <1>9 DEF LexCr
<1> QED
  BY <1>5, <1>6, <1>7, <1>8, <1>9 DEF Lex

LEMMA LexOnWire ==
  ASSUME NEW m \in Lines, P!ParserInv, wire \in Texts, OnWire(m), LexStep
  PROVE  OnWire(m)'
<1> DEFINE x == Head(wire)
           v == Tail(wire)
<1> USE DEF PrefixStates
<1>0. wire # <<>> /\ wire' = v /\ Lex(x) /\ m_state \in States
  BY ParserFacts DEF LexStep
<1>1. EndsLine(wire)
  BY <1>0 DEF OnWire
<1>2. /\ v # <<>> => EndsLine(v)
      /\ x = "LF" => v = <<>>
      /\ x # "LF" => v # <<>>
      /\ x \notin {"CR", "LF"} => Len(v) >= 2
  BY <1>1, EndAhead
<1>3. m_state' # "NONE" /\ (m_state' = "LF" => x = "LF")
  BY <1>0, LexFacts
<1>4. HasSpace(wire) /\ x # " " => HasSpace(v)
  BY <1>0, WordAhead
<1>5. m_state' \in {"PARAMS", "TRAILING"} => x \notin {"CR", "LF"}
  <2> USE DEF Collect, Skip, PutToken, LineEnd
  <2>1. CASE m_state \in {"NONE", "SERVERNAME_NICK", "USER", "HOST", "COMMAND"}
    BY <1>0, <2>1, LexCases DEF LexNone, LexServernameNick, LexUser, LexHost, LexCommand
  <2>2. CASE m_state \in {"COMMAND_NUM", "COMMAND_LETTER"}
    BY <1>0, <2>2, LexCases DEF LexCommandWord
  <2>3. CASE m_state \in {"PARAMS", "TRAILING", "CR", "LF"}
    BY <1>0, <2>3, LexCases DEF LexParams, LexTrailing, LexCr
  <2> QED
    BY <1>0, <2>1, <2>2, <2>3 DEF States
<1>6. m_state' = "CR" => x # "LF"
  <2> USE DEF Collect, Skip, PutToken, LineEnd
  <2>1. CASE m_state \in {"NONE", "SERVERNAME_NICK", "USER", "HOST", "COMMAND"}
    BY <1>0, <2>1, LexCases DEF LexNone, LexServernameNick, LexUser, LexHost, LexCommand
  <2>2. CASE m_state \in {"COMMAND_NUM", "COMMAND_LETTER"}
    BY <1>0, <2>2, LexCases DEF LexCommandWord
  <2>3. CASE m_state \in {"PARAMS", "TRAILING", "CR", "LF"}
    BY <1>0, <2>3, LexCases DEF LexParams, LexTrailing, LexCr
  <2> QED
    BY <1>0, <2>1, <2>2, <2>3 DEF States
<1>7. m_state' \in PrefixStates => m_state \in PrefixStates \cup {"NONE"} /\ x # " "
  <2> USE DEF Collect, Skip, PutToken, LineEnd
  <2>1. CASE m_state \in {"NONE", "SERVERNAME_NICK", "USER", "HOST", "COMMAND"}
    BY <1>0, <2>1, LexCases DEF LexNone, LexServernameNick, LexUser, LexHost, LexCommand
  <2>2. CASE m_state \in {"COMMAND_NUM", "COMMAND_LETTER"}
    BY <1>0, <2>2, LexCases DEF LexCommandWord
  <2>3. CASE m_state \in {"PARAMS", "TRAILING", "CR", "LF"}
    BY <1>0, <2>3, LexCases DEF LexParams, LexTrailing, LexCr
  <2> QED
    BY <1>0, <2>1, <2>2, <2>3 DEF States
<1>8. m_state' \in PrefixStates /\ HasParams(m) => HasSpace(v)
  <2> SUFFICES ASSUME m_state' \in PrefixStates, HasParams(m) PROVE HasSpace(wire)
    BY <1>4, <1>7
  <2>1. CASE m_state = "NONE"
    BY <1>0, <2>1, LineWords DEF OnWire
  <2>2. CASE m_state \in PrefixStates
    BY <2>2 DEF OnWire
  <2> QED
    BY <1>7, <2>1, <2>2
<1> QED
  BY <1>0, <1>2, <1>3, <1>5, <1>6, <1>8 DEF OnWire

LEMMA LexMid ==
  ASSUME NEW m \in Lines, P!ParserInv, wire \in Texts, MidLine(m), LexStep
  PROVE  MidLine(m)'
<1> DEFINE x == Head(wire)
<1> USE DEF PrefixStates, Collect, Skip, PutToken, LineEnd
<1>0. wire # <<>> /\ wire' = Tail(wire) /\ Lex(x) /\ m_state \in States
  BY ParserFacts DEF LexStep
<1>1. CASE m_state = "COMMAND"
  <2>1. HasParams(m) => HasWord(wire)
    BY <1>1 DEF MidLine
  <2>2. HasParams(m) => HasSpace(wire') /\ (x \notin Digits \cup Letters => HasWord(wire'))
    BY <1>0, <2>1, WordAhead
  <2>3. \/ m_state' \in {"COMMAND_NUM", "COMMAND_LETTER"}
        \/ m_state' = "COMMAND" /\ x \notin Digits \cup Letters
    BY <1>0, <1>1, LexCases DEF LexCommand
  <2> QED
    BY <2>2, <2>3 DEF MidLine
<1>2. CASE m_state \in {"COMMAND_NUM", "COMMAND_LETTER"}
  <2>1. HasParams(m) => HasSpace(wire)
    BY <1>2 DEF MidLine
  <2>2. HasParams(m) /\ x # " " => HasSpace(wire')
    BY <1>0, <2>1, WordAhead
  <2>3. \/ m_state' = "PARAMS"
        \/ m_state' = m_state /\ x # " "
    <3>1. LexCommandWord(x)
      BY <1>0, <1>2, LexCases
    <3>2. " " \notin Digits /\ " " \notin Letters
      BY AlphabetAssumption DEF Separators
    <3>3. CASE x = " "
      <4>1. x \notin Digits /\ x \notin Letters
        BY <3>2, <3>3
      <4>2. PutToken("COMMAND", "PARAMS")
        <5> HIDE DEF x, PutToken, Collect, Skip
        <5> QED
          BY <1>2, <3>1, <3>3, <4>1 DEF LexCommandWord
      <4> QED
        BY <4>2
    <3>4. CASE x # " "
      BY <1>2, <3>1, <3>4 DEF LexCommandWord
    <3> QED
      BY <3>3, <3>4
  <2> QED
    BY <1>2, <2>2, <2>3 DEF MidLine
<1>3. CASE m_state \in {"PARAMS", "TRAILING", "CR"}
  <2>1. m_state' \in {"PARAMS", "TRAILING", "CR", "LF"}
    BY <1>0, <1>3, LexCases DEF LexParams, LexTrailing, LexCr
  <2> QED
    BY <2>1 DEF MidLine
<1>4. m_state # "LF"
  BY <1>0, LexCases
<1> QED
  BY <1>0, <1>1, <1>2, <1>3, <1>4 DEF MidLine, States

\* The last token of a line, and no other, gives a message.
LEMMA ParseEnds ==
  ASSUME P!ParserInv, ParseToken
  PROVE  IF m_tokens' = <<>> THEN m_messages' = Append(m_messages, m_message)
         ELSE m_messages' = m_messages
<1>1. m_state = "LF" /\ m_tokens # <<>> /\ m_tokens' = Tail(m_tokens)
  BY DEF ParseToken
<1>2. /\ m_tokens \in Seq(Token) /\ m_tokens[1].type \in Follows(m_last_token)
      /\ m_tokens[Len(m_tokens)].type = "LF"
      /\ \A i \in 1..(Len(m_tokens) - 1) : m_tokens[i].type # "LF"
  BY <1>1, ParserFacts
<1>3. Head(m_tokens) = m_tokens[1] /\ Len(m_tokens) \in Nat \ {0}
  BY <1>1, <1>2
<1> DEFINE n == Len(m_tokens)
           q == Tail(m_tokens)
<1>4. n \in Nat \ {0} /\ (m_tokens' = <<>> <=> n = 1)
  <2>1. n \in Nat \ {0} /\ q \in Seq(Token) /\ Len(q) = n - 1
    BY <1>1, <1>2, <1>3, HeadTailProperties
  <2> HIDE DEF n, q
  <2>2. q = <<>> <=> Len(q) = 0
    BY <2>1
  <2>3. n - 1 = 0 <=> n = 1
    BY <2>1
  <2> QED
    BY <1>1, <2>1, <2>2, <2>3 DEF q
<1>5. StoreToken(m_tokens[1])
  BY <1>1, <1>2, <1>3 DEF ParseToken
<1>6. CASE n = 1
  BY <1>2, <1>4, <1>5, <1>6 DEF StoreToken, FieldTypes
<1>7. CASE n # 1
  <2>1. 1 \in 1..(n - 1)
    <3> HIDE DEF n
    <3> QED
      BY <1>4, <1>7
  <2>2. m_tokens[1].type # "LF"
    BY <1>2, <2>1
  <2> QED
    BY <1>4, <1>5, <1>7, <2>2 DEF StoreToken
<1> QED
  BY <1>6, <1>7

-----------------------------------------------------------------------------
(* The invariant is inductive *)

LEMMA TypeStep ==
  ASSUME TypeInv, [StreamNext]_allVars
  PROVE  TypeInv'
<1> USE DEF TypeInv
<1>0. P!ParserInv'
  BY ParserKept
<1>1. CASE \E m \in Lines : ServerSend(m)
  <2>1. PICK m \in Lines : ServerSend(m)
    BY <1>1
  <2>2. wire' \in Texts /\ sent' \in Seq(Lines)
    <3>1. wire' = toString(m) /\ sent' = Append(sent, m)
      BY <2>1 DEF ServerSend
    <3>2. toString(m) \in Texts
      BY LineText
    <3> QED
      BY <3>1, <3>2
  <2> QED
    BY <1>0, <2>1, <2>2 DEF ServerSend, ircParser
<1>2. CASE LexNext
  <2>1. parsing' = TRUE
    BY <1>2 DEF LexNext, Lex
  <2>2. wire' \in Texts
    BY <1>2, Alphabet DEF LexNext
  <2> QED
    BY <1>0, <1>2, <2>1, <2>2 DEF LexNext
<1>3. CASE CutChunk
  BY <1>0, <1>3 DEF CutChunk, EndOfChunk, streamVars
<1>4. CASE RunParser
  <2>1. m_state' = "LF" => parsing'
    BY <1>4 DEF RunParser, ParseToken, ParserReturn
  <2>2. Len(sent) \in Nat
    OBVIOUS
  <2>3. origin' \in Seq(Nat)
    BY <1>4, <2>2 DEF RunParser
  <2> QED
    BY <1>0, <1>4, <2>1, <2>3 DEF RunParser
<1>5. CASE TakeMessage
  <2>1. m_messages \in Seq(IRCMessage) /\ m_messages # <<>>
    BY <1>5, ParserFacts DEF TakeMessage, GetMessage
  <2>2. Head(m_messages) \in IRCMessage
    BY <2>1
  <2>3. got' \in Seq(IRCMessage)
    BY <1>5, <2>2 DEF TakeMessage
  <2> QED
    BY <1>0, <1>5, <2>3 DEF TakeMessage, GetMessage, lexVars
<1>6. CASE Reconnect
  <2>1. wire' \in Texts
    BY <1>6, SeparatorTexts DEF Reconnect
  <2> QED
    BY <1>0, <1>6, <2>1 DEF Reconnect, ircParser
<1>7. CASE UNCHANGED allVars
  BY <1>0, <1>7 DEF allVars, streamVars, ircParser
<1> QED
  BY <1>1, <1>2, <1>3, <1>4, <1>5, <1>6, <1>7 DEF StreamNext

LEMMA StartStep ==
  ASSUME TypeInv, StartInv, [StreamNext]_allVars
  PROVE  StartInv'
<1> SUFFICES ASSUME sent' = <<>>
             PROVE  /\ wire' = <<>> /\ origin' = <<>> /\ got' = <<>> /\ m_messages' = <<>>
                    /\ m_state' # "LF" /\ (~dirty' => m_state' = "NONE")
  BY DEF StartInv
<1> USE DEF StartInv
<1>1. CASE \E m \in Lines : ServerSend(m)
  <2>1. PICK m \in Lines : sent' = Append(sent, m)
    BY <1>1 DEF ServerSend
  <2>2. sent \in Seq(Lines)
    BY DEF TypeInv
  <2>3. sent' # <<>>
    BY <2>1, <2>2, AppendProperties
  <2> QED
    BY <2>3
<1>2. CASE LexNext
  BY <1>2 DEF LexNext
<1>3. CASE CutChunk
  BY <1>3 DEF CutChunk, EndOfChunk, streamVars, parserVars
<1>4. CASE RunParser
  BY <1>4 DEF RunParser, ParseToken, ParserReturn
<1>5. CASE TakeMessage
  BY <1>5 DEF TakeMessage, GetMessage
<1>6. CASE Reconnect
  BY <1>6 DEF Reconnect, TypeInv, ircParser
<1>7. CASE UNCHANGED allVars
  BY <1>7 DEF allVars, streamVars, ircParser
<1> QED
  BY <1>1, <1>2, <1>3, <1>4, <1>5, <1>6, <1>7 DEF StreamNext

\* The last line, and the lines before it, after a step.
LEMMA SameSent ==
  ASSUME UNCHANGED <<sent, dirty>>
  PROVE  /\ Line' = Line
         /\ \A i : Good(i)' = Good(i) /\ HalfGood(i)' = HalfGood(i) /\ HP(i)' = HP(i)
  BY DEF Line, Good, HalfGood, HP

LEMMA LineIn ==
  ASSUME TypeInv, sent # <<>>
  PROVE  Line \in Lines /\ Len(sent) \in Nat \ {0}
<1>1. sent \in Seq(Lines)
  BY DEF TypeInv
<1>2. Len(sent) \in Nat \ {0}
  BY <1>1
<1> QED
  BY <1>1, <1>2 DEF Line

LEMMA SentOne ==
  ASSUME TypeInv, NEW m \in Lines, ServerSend(m)
  PROVE  /\ Len(sent') = Len(sent) + 1 /\ Len(sent) \in Nat
         /\ sent' # <<>> /\ Line' = m
         /\ \A i \in 1..Len(sent) : sent'[i] = sent[i]
         /\ wire' = toString(m) /\ wire = <<>> /\ m_state # "LF"
         /\ UNCHANGED <<ircParser, got, origin, dirty>>
<1>1. sent \in Seq(Lines) /\ sent' = Append(sent, m)
  BY DEF TypeInv, ServerSend
<1>2. /\ Len(sent') = Len(sent) + 1 /\ Len(sent) \in Nat /\ sent' # <<>>
      /\ \A i \in 1..Len(sent) : sent'[i] = sent[i]
      /\ sent'[Len(sent) + 1] = m
  BY <1>1, AppendProperties
<1>3. Line' = m
  BY <1>2 DEF Line
<1> QED
  BY <1>2, <1>3 DEF ServerSend

\* Taking a line into account changes nothing about the lines before it.
LEMMA SentBefore ==
  ASSUME TypeInv, NEW m \in Lines, ServerSend(m), NEW i \in 1..Len(sent)
  PROVE  /\ HP(i)' <=> HP(i)
         /\ Good(i)' <=> Good(i)
         /\ HalfGood(i)' <=> HalfGood(i)
<1>1. /\ Len(sent) \in Nat /\ dirty' = dirty
      /\ \A j \in 1..Len(sent) : sent'[j] = sent[j]
  BY SentOne
<1>2. \A j \in 1..Len(sent) : HP(j)' <=> HP(j)
  BY <1>1 DEF HP
<1>3. i > 1 => i - 1 \in 1..Len(sent)
  BY <1>1
<1>4. i > 2 => i - 2 \in 1..Len(sent) /\ i - 1 \in 1..Len(sent)
  BY <1>1
<1> QED
  BY <1>1, <1>2, <1>3, <1>4 DEF Good, HalfGood

LEMMA WireStep ==
  ASSUME TypeInv, WireInv, StartInv, [StreamNext]_allVars
  PROVE  WireInv'
<1> USE DEF WireInv
<1>1. ASSUME NEW m \in Lines, ServerSend(m) PROVE WireInv'
  <2>1. /\ wire' = toString(m) /\ m_state' = m_state /\ m_state # "LF" /\ Line' = m
    BY <1>1, SentOne DEF ircParser
  <2>2. EndsLine(wire') /\ Len(wire') >= 2 /\ wire' # <<>>
    BY <2>1, LineEnds DEF EndsLine
  <2>3. HasParams(m) => HasSpace(wire')
    BY <2>1, LineWords
  <2>4. OnWire(m)'
    BY <2>1, <2>2, <2>3 DEF OnWire
  <2> QED
    BY <2>1, <2>4 DEF OnWire
<1>2. CASE LexNext
  <2>1. sent # <<>> /\ LexStep /\ UNCHANGED <<sent, dirty>> /\ wire \in Texts /\ P!ParserInv
    BY <1>2 DEF LexNext, StartInv, LexStep, TypeInv
  <2>2. Line \in Lines /\ Line' = Line
    BY <2>1, LineIn, SameSent
  <2>3. OnWire(Line)
    BY <2>1
  <2> QED
    BY <2>1, <2>2, <2>3, LexOnWire DEF OnWire
<1>3. CASE CutChunk \/ TakeMessage \/ UNCHANGED allVars
  <2>1. UNCHANGED <<m_state, wire, sent, dirty>>
    BY <1>3 DEF CutChunk, EndOfChunk, TakeMessage, GetMessage, lexVars, allVars, streamVars, ircParser
  <2> QED
    BY <2>1, SameSent DEF OnWire
<1>4. CASE RunParser
  <2>1. UNCHANGED <<wire, sent, dirty>> /\ m_state = "LF" /\ m_state' \in {"LF", "NONE"}
    BY <1>4 DEF RunParser, ParseToken, ParserReturn
  <2> QED
    BY <2>1, SameSent DEF OnWire, PrefixStates
<1>5. CASE Reconnect
  BY <1>5 DEF Reconnect
<1> QED
  BY <1>1, <1>2, <1>3, <1>4, <1>5 DEF StreamNext

\* A line that has parameters and began behind its prefix, or before it, is over
\* when all of it is lexed and parsed.
LEMMA LineOver ==
  ASSUME TypeInv, WireInv, LineInv, sent # <<>>, wire = <<>>, m_state # "LF",
         HalfGood(Len(sent)), HP(Len(sent))
  PROVE  m_state = "NONE"
<1> SUFFICES ASSUME m_state # "NONE" PROVE FALSE
  OBVIOUS
<1>1. Line \in Lines /\ HasParams(Line) /\ OnWire(Line) /\ m_state \in States
  BY LineIn, ParserFacts DEF HP, Line, WireInv, TypeInv
<1>2. CASE CleanLine(Line)
  <2>1. PastCommand(Line) \/ InParser(Line)
    BY <1>1, <1>2, CleanEnd
  <2> QED
    BY <1>1, <2>1 DEF PastCommand, InParser
<1>3. CASE MidLine(Line)
  <2>1. ~HasWord(wire) /\ ~HasSpace(wire) /\ ~(Len(wire) >= 2)
    BY DEF HasWord, HasSpace
  <2> QED
    BY <1>1, <1>3, <2>1 DEF MidLine, OnWire, States, PrefixStates
<1> QED
  BY <1>2, <1>3 DEF LineInv

\* The stages of the last line, with a name for it.
LEMMA NameLine ==
  ASSUME NEW m, m = Line', NEW n, n = Len(sent)'
  PROVE  /\ CleanLine(Line)' <=> CleanLine(m)'
         /\ MidLine(Line)' <=> MidLine(m)'
         /\ Good(Len(sent))' <=> Good(n)'
         /\ HalfGood(Len(sent))' <=> HalfGood(n)'
<1>1. /\ AtStart(Line)' <=> AtStart(m)'
      /\ InServer(Line)' <=> InServer(m)'
      /\ InNick(Line)' <=> InNick(m)'
  BY DEF AtStart, InServer, InNick
<1>2. /\ InUser(Line)' <=> InUser(m)'
      /\ InHost(Line)' <=> InHost(m)'
  BY DEF InUser, InHost
<1>3. /\ AtCommand(Line)' <=> AtCommand(m)'
      /\ InCommand(Line)' <=> InCommand(m)'
      /\ PastCommand(Line)' <=> PastCommand(m)'
  BY DEF AtCommand, InCommand, PastCommand
<1>4. /\ InParams(Line)' <=> InParams(m)'
      /\ InTrailing(Line)' <=> InTrailing(m)'
      /\ AtCr(Line)' <=> AtCr(m)'
  BY DEF InParams, InTrailing, AtCr
<1>5. InParser(Line)' <=> InParser(m)'
  BY DEF InParser
<1>6. CleanLine(Line)' <=> CleanLine(m)'
  BY <1>1, <1>2, <1>3, <1>4, <1>5 DEF CleanLine
<1>7. MidLine(Line)' <=> MidLine(m)'
  BY DEF MidLine
<1>8. (Good(Len(sent))' <=> Good(n)') /\ (HalfGood(Len(sent))' <=> HalfGood(n)')
  BY DEF Good, HalfGood, HP
<1> QED
  BY <1>6, <1>7, <1>8

LEMMA LineStep ==
  ASSUME TypeInv, StartInv, WireInv, LineInv, ~CutAnywhere, [StreamNext]_allVars
  PROVE  LineInv'
<1>0. P!ParserInv /\ wire \in Texts /\ dirty \in BOOLEAN
  BY DEF TypeInv
<1>1. ASSUME NEW m \in Lines, ServerSend(m) PROVE LineInv'
  <2>0. PICK n : n = Len(sent)
    OBVIOUS
  <2>1. /\ Len(sent') = n + 1 /\ n \in Nat /\ Line' = m
        /\ wire' = toString(m) /\ wire = <<>> /\ m_state # "LF"
        /\ m_state' = m_state /\ dirty' = dirty
    BY <1>1, <2>0, SentOne DEF ircParser
  <2>2. ASSUME n > 0 PROVE HP(n)' <=> HP(n)
    <3>1. n \in 1..Len(sent)
      BY <2>0, <2>1, <2>2
    <3> QED
      BY <1>1, <3>1, SentBefore
  <2>3. ASSUME n > 1 PROVE HP(n - 1)' <=> HP(n - 1)
    <3>1. n - 1 \in 1..Len(sent)
      BY <2>0, <2>1, <2>3
    <3> QED
      BY <1>1, <3>1, SentBefore
  <2>4. n > 0 => sent # <<>>
    BY <2>0
  <2>5. n = 0 => sent = <<>>
    <3>1. sent \in Seq(Lines)
      BY DEF TypeInv
    <3>2. Len(sent) = 0 => sent = <<>>
      BY <3>1, EmptySeq
    <3> QED
      BY <2>0, <3>2
  <2>6. (n + 1) - 1 = n /\ (n + 1) - 2 = n - 1 /\ (n + 1 > 1 <=> n > 0) /\ (n + 1 > 2 <=> n > 1)
    BY <2>1
  <2>7. Good(n + 1)' => m_state = "NONE"
    <3> SUFFICES ASSUME Good(n + 1)' PROVE m_state = "NONE"
      OBVIOUS
    <3>1. CASE dirty
      <4>1. n > 1 /\ HP(n)' /\ HP(n - 1)'
        BY <2>1, <2>6, <3>1 DEF Good
      <4>2. HP(n) /\ HP(n - 1) /\ n > 0
        BY <2>1, <2>2, <2>3, <4>1
      <4>3. HalfGood(n)
        BY <4>1, <4>2 DEF HalfGood
      <4> QED
        BY <2>0, <2>1, <2>4, <4>2, <4>3, LineOver
    <3>2. CASE ~dirty /\ n = 0
      BY <2>5, <3>2 DEF StartInv
    <3>3. CASE ~dirty /\ n # 0
      <4>1. n > 0 /\ HP(n)'
        BY <2>1, <2>6, <3>3 DEF Good
      <4>2. HP(n) /\ HalfGood(n)
        BY <2>2, <3>3, <4>1 DEF HalfGood
      <4> QED
        BY <2>0, <2>1, <2>4, <4>1, <4>2, LineOver
    <3> QED
      BY <3>1, <3>2, <3>3
  <2>8. HalfGood(n + 1)' => m_state \notin PrefixStates
    <3> SUFFICES ASSUME HalfGood(n + 1)' PROVE m_state \notin PrefixStates
      OBVIOUS
    <3>1. CASE dirty
      <4>1. n > 0 /\ HP(n)'
        BY <2>1, <2>6, <3>1 DEF HalfGood
      <4>2. HasParams(Line) /\ sent # <<>>
        BY <2>0, <2>2, <2>4, <4>1 DEF HP, Line
      <4>3. ~HasSpace(wire)
        BY <2>1 DEF HasSpace
      <4> QED
        BY <4>2, <4>3 DEF WireInv, OnWire
    <3>2. CASE ~dirty /\ n = 0
      BY <2>5, <3>2 DEF StartInv, PrefixStates
    <3>3. CASE ~dirty /\ n # 0
      <4>1. sent # <<>> /\ HalfGood(n)
        BY <2>1, <2>4, <3>3 DEF HalfGood
      <4>2. CASE m_state = "NONE"
        BY <4>2 DEF PrefixStates
      <4>3. CASE m_state # "NONE" /\ CleanLine(Line)
        <5>1. PastCommand(Line) \/ InParser(Line)
          BY <2>1, <4>1, <4>3, LineIn, CleanEnd
        <5> QED
          BY <5>1 DEF PastCommand, InParser, PrefixStates
      <4>4. CASE m_state # "NONE" /\ MidLine(Line)
        BY <4>4 DEF MidLine
      <4> QED
        BY <2>0, <4>1, <4>2, <4>3, <4>4 DEF LineInv
    <3> QED
      BY <3>1, <3>2, <3>3
  <2>9. m_state = "NONE" => CleanLine(m)'
    BY <2>1 DEF CleanLine, AtStart
  <2>10. m_state \notin PrefixStates \cup {"NONE"} => MidLine(m)'
    BY <2>1, LineWords DEF MidLine
  <2>11. /\ Good(n + 1)' => CleanLine(m)'
         /\ HalfGood(n + 1)' => CleanLine(m)' \/ MidLine(m)'
    BY <2>7, <2>8, <2>9, <2>10
  <2>12. /\ Good(Len(sent))' => CleanLine(Line)'
         /\ HalfGood(Len(sent))' => CleanLine(Line)' \/ MidLine(Line)'
    BY <2>1, <2>11, NameLine
  <2> QED
    BY <2>12 DEF LineInv
<1>2. ASSUME UNCHANGED <<sent, dirty>>, wire # <<>> \/ m_state # "NONE",
             NEW m, m = Line,
             CleanLine(m) => CleanLine(m)',
             MidLine(m) => MidLine(m)'
      PROVE  LineInv'
  <2>1. PICK n : n = Len(sent)
    OBVIOUS
  <2>2. m = Line' /\ n = Len(sent)'
    BY <1>2, <2>1, SameSent
  <2>3. (Good(n)' <=> Good(n)) /\ (HalfGood(n)' <=> HalfGood(n))
    BY <1>2, SameSent
  <2>4. sent # <<>> =>
          /\ Good(n) => CleanLine(m)
          /\ HalfGood(n) => CleanLine(m) \/ MidLine(m)
    BY <1>2, <2>1 DEF LineInv
  <2>5. sent # <<>> =>
          /\ Good(Len(sent))' => CleanLine(Line)'
          /\ HalfGood(Len(sent))' => CleanLine(Line)' \/ MidLine(Line)'
    BY <1>2, <2>2, <2>3, <2>4, NameLine
  <2> QED
    BY <1>2, <2>5 DEF LineInv
<1>3. CASE LexNext
  <2>1. sent # <<>> /\ LexStep /\ UNCHANGED <<sent, dirty>> /\ wire # <<>>
    BY <1>3 DEF LexNext, StartInv, LexStep
  <2>2. PICK m \in Lines : m = Line
    BY <2>1, LineIn
  <2>3. CleanLine(m) => CleanLine(m)'
    BY <1>0, <2>1, LexClean
  <2>4. MidLine(m) => MidLine(m)'
    BY <1>0, <2>1, LexMid
  <2> QED
    BY <1>2, <2>1, <2>2, <2>3, <2>4
<1>4. CASE CutChunk
  <2>1. UNCHANGED <<sent, dirty, m_state, wire>>
    BY <1>4 DEF CutChunk, EndOfChunk, streamVars
  <2>2. CASE sent = <<>> \/ (wire = <<>> /\ m_state = "NONE")
    BY <2>1, <2>2 DEF LineInv
  <2>3. CASE sent # <<>> /\ (wire # <<>> \/ m_state # "NONE")
    <3>1. PICK m \in Lines : m = Line
      BY <2>3, LineIn
    <3>2. CleanLine(m) => CleanLine(m)'
      BY <1>4, CutClean
    <3>3. MidLine(m) => MidLine(m)'
      BY <2>1 DEF MidLine
    <3> QED
      BY <1>2, <2>1, <2>3, <3>1, <3>2, <3>3
  <2> QED
    BY <2>2, <2>3
<1>5. CASE RunParser
  <2>1. UNCHANGED <<sent, dirty, wire>> /\ m_state = "LF"
    BY <1>5 DEF RunParser, ParseToken, ParserReturn
  <2>2. sent # <<>> /\ wire = <<>>
    BY <2>1 DEF StartInv, WireInv, OnWire
  <2>3. CASE ParserReturn
    BY <2>1, <2>2, <2>3 DEF ParserReturn, LineInv
  <2>4. CASE ParseToken
    <3>1. PICK m \in Lines : m = Line
      BY <2>2, LineIn
    <3>2. CleanLine(m) => CleanLine(m)'
      BY <1>0, <2>4, ParseClean
    <3>3. MidLine(m) => MidLine(m)'
      BY <2>1, <2>4 DEF MidLine, ParseToken
    <3> QED
      BY <1>2, <2>1, <3>1, <3>2, <3>3
  <2> QED
    BY <1>5, <2>3, <2>4 DEF RunParser
<1>6. CASE TakeMessage \/ UNCHANGED allVars
  <2>1. UNCHANGED <<sent, dirty, m_state, token, m_tokens, m_message, wire>>
    BY <1>6 DEF TakeMessage, GetMessage, lexVars, allVars, ircParser, streamVars
  <2>2. CASE sent = <<>> \/ (wire = <<>> /\ m_state = "NONE")
    BY <2>1, <2>2 DEF LineInv
  <2>3. CASE sent # <<>> /\ (wire # <<>> \/ m_state # "NONE")
    <3>1. PICK m : m = Line
      OBVIOUS
    <3>2. CleanLine(m) => CleanLine(m)'
      BY <2>1, SameLine
    <3>3. MidLine(m) => MidLine(m)'
      BY <2>1 DEF MidLine
    <3> QED
      BY <1>2, <2>1, <2>3, <3>1, <3>2, <3>3
  <2> QED
    BY <2>2, <2>3
<1>7. CASE Reconnect
  BY <1>7 DEF Reconnect, LineInv
<1> QED
  BY <1>1, <1>3, <1>4, <1>5, <1>6, <1>7 DEF StreamNext

-----------------------------------------------------------------------------
(* The messages and where they come from *)

LEMMA TakeKeeps ==
  ASSUME TypeInv, TakeMessage
  PROVE  Parsed' = Parsed
<1>1. /\ got \in Seq(IRCMessage) /\ m_messages \in Seq(IRCMessage) /\ m_messages # <<>>
      /\ got' = Append(got, Head(m_messages)) /\ m_messages' = Tail(m_messages)
  BY ParserFacts DEF TypeInv, TakeMessage, GetMessage
<1>2. Append(got, Head(m_messages)) \o Tail(m_messages) = got \o m_messages
  BY <1>1, MoveHead
<1> QED
  BY <1>1, <1>2 DEF Parsed

\* What one step of parser() does to the messages: none or one from this line.
Quiet ==
  /\ Parsed' = Parsed /\ origin' = origin
  /\ LineDone' <=> LineDone
  /\ m_state' = "LF" /\ m_tokens' # <<>> => m_tokens # <<>>

Delivers ==
  /\ m_tokens # <<>> /\ ~LineDone /\ LineDone' /\ m_tokens' = <<>>
  /\ Parsed' = Append(Parsed, m_message) /\ m_message \in IRCMessage
  /\ origin' = Append(origin, Len(sent))
  /\ Good(Len(sent)) => m_message = Line /\ HP(Len(sent))

LEMMA RunFacts ==
  ASSUME TypeInv, StartInv, WireInv, LineInv, RunParser
  PROVE  /\ sent # <<>> /\ wire = <<>> /\ m_state = "LF"
         /\ UNCHANGED <<wire, sent, dirty>>
         /\ Quiet \/ Delivers
<1>1. UNCHANGED <<wire, sent, got, dirty>> /\ m_state = "LF"
  BY DEF RunParser, ParseToken, ParserReturn
<1>2. sent # <<>> /\ wire = <<>>
  BY <1>1 DEF StartInv, WireInv, OnWire
<1>3. P!ParserInv /\ got \in Seq(IRCMessage) /\ m_messages \in Seq(IRCMessage) /\ m_message \in IRCMessage
  BY ParserFacts DEF TypeInv
<1>4. CASE ParserReturn
  <2>1. m_messages' = m_messages /\ m_tokens = <<>> /\ m_tokens' = <<>> /\ m_state' = "NONE"
    BY <1>4 DEF ParserReturn, parserVars
  <2>2. Quiet
    BY <1>1, <1>2, <2>1 DEF Quiet, RunParser, Parsed, LineDone
  <2> QED
    BY <1>1, <1>2, <2>2
<1>5. CASE ParseToken
  <2>1. m_tokens # <<>> /\ m_state' = "LF"
    BY <1>5 DEF ParseToken
  <2>2. CASE m_tokens' # <<>>
    <3>1. m_messages' = m_messages
      BY <1>3, <1>5, <2>2, ParseEnds
    <3>2. Quiet
      BY <1>1, <2>1, <2>2, <3>1 DEF Quiet, RunParser, Parsed, LineDone
    <3> QED
      BY <1>1, <1>2, <3>2
  <2>3. CASE m_tokens' = <<>>
    <3>1. m_messages' = Append(m_messages, m_message)
      BY <1>3, <1>5, <2>3, ParseEnds
    <3>2. m_messages' # m_messages
      <4>1. Len(Append(m_messages, m_message)) = Len(m_messages) + 1 /\ Len(m_messages) \in Nat
        BY <1>3, AppendProperties
      <4> QED
        BY <3>1, <4>1
    <3>3. origin' = Append(origin, Len(sent))
      BY <3>2 DEF RunParser
    <3>4. Parsed' = Append(Parsed, m_message)
      <4>1. <<m_message>> \in Seq(IRCMessage) /\ got \o m_messages \in Seq(IRCMessage)
        BY <1>3
      <4>2. m_messages' = m_messages \o <<m_message>>
        BY <1>3, <3>1, AppendIsConcat
      <4>3. got \o (m_messages \o <<m_message>>) = (got \o m_messages) \o <<m_message>>
        BY <1>3, <4>1, ConcatAssociative
      <4>4. Append(got \o m_messages, m_message) = (got \o m_messages) \o <<m_message>>
        BY <1>3, <4>1, AppendIsConcat
      <4> QED
        BY <1>1, <4>2, <4>3, <4>4 DEF Parsed
    <3>5. ASSUME Good(Len(sent)) PROVE m_message = Line /\ HP(Len(sent))
      <4>1. Line \in Lines /\ CleanLine(Line)
        BY <1>1, <1>2, <3>5, LineIn DEF LineInv
      <4>2. m_messages' = Append(m_messages, Line) /\ HasParams(Line)
        BY <1>3, <1>5, <3>2, <4>1, ParseClean
      <4>3. Line \in IRCMessage
        BY <4>1, StreamAssumption
      <4>4. /\ Append(m_messages, Line)[Len(m_messages) + 1] = Line
            /\ Append(m_messages, m_message)[Len(m_messages) + 1] = m_message
        BY <1>3, <4>3, AppendProperties
      <4> QED
        BY <3>1, <4>2, <4>4 DEF HP, Line
    <3>6. Delivers
      BY <1>1, <1>2, <1>3, <2>1, <2>3, <3>3, <3>4, <3>5 DEF Delivers, LineDone
    <3> QED
      BY <1>1, <1>2, <3>6
  <2> QED
    BY <2>2, <2>3
<1> QED
  BY <1>4, <1>5 DEF RunParser

\* The lexer is not at the end of the line it is in.
LEMMA LexNotDone ==
  ASSUME TypeInv, LexNext
  PROVE  wire # <<>> /\ ~LineDone /\ ~LineDone' /\ UNCHANGED <<sent, got, origin, dirty, m_messages>>
<1>1. P!ParserInv /\ Lex(Head(wire)) /\ wire # <<>>
  BY DEF TypeInv, LexNext
<1>2. m_state' # "NONE" /\ (m_state' = "LF" => m_tokens' # <<>>) /\ m_messages' = m_messages
  BY <1>1, LexFacts, LexCases
<1> QED
  BY <1>1, <1>2 DEF LineDone, LexNext

\* The other steps leave the line, its messages and its lines alone.
LEMMA Unseen ==
  ASSUME TypeInv, CutChunk \/ TakeMessage \/ UNCHANGED allVars
  PROVE  Parsed' = Parsed /\ UNCHANGED <<sent, dirty, origin, wire, m_state, m_tokens>>
<1>1. CASE CutChunk
  BY <1>1 DEF CutChunk, EndOfChunk, streamVars, parserVars, Parsed
<1>2. CASE TakeMessage
  BY <1>2, TakeKeeps DEF TakeMessage, GetMessage, lexVars
<1>3. CASE UNCHANGED allVars
  BY <1>3 DEF allVars, ircParser, streamVars, Parsed
<1> QED
  BY <1>1, <1>2, <1>3


\* Once all is lexed and parsed, a line that has parameters and was entered at
\* its start or behind its prefix has a message.
LEMMA Found ==
  ASSUME TypeInv, WireInv, LineInv, OriginInv, AllLexed,
         NEW i \in 1..Len(sent), HP(i), HalfGood(i)
  PROVE  \E k \in 1..Len(origin) : origin[k] = i
<1>1. sent # <<>> /\ Len(sent) \in Nat
  BY DEF TypeInv
<1>2. CASE i = Len(sent)
  <2>1. wire = <<>> /\ m_state = "NONE"
    BY <1>1, <1>2, LineOver DEF AllLexed
  <2> QED
    BY <1>1, <1>2, <2>1 DEF OriginInv, LineDone
<1>3. CASE i # Len(sent)
  <2>1. i \in 1..(Len(sent) - 1)
    BY <1>1, <1>3
  <2> QED
    BY <2>1 DEF OriginInv
<1> QED
  BY <1>2, <1>3

\* Lines have at most one message each, in order, and the ones entered before
\* their command exactly one.
LEMMA OriginStep ==
  ASSUME TypeInv, StartInv, WireInv, LineInv, OriginInv, [StreamNext]_allVars
  PROVE  OriginInv'
<1>0. origin \in Seq(Nat) /\ sent \in Seq(Lines) /\ Len(sent) \in Nat /\ Len(origin) \in Nat
  BY DEF TypeInv
<1>1. ASSUME NEW m \in Lines, ServerSend(m) PROVE OriginInv'
  <2>0. PICK n \in Nat : n = Len(sent)
    BY <1>0
  <2>1. /\ Len(sent') = n + 1 /\ wire = <<>> /\ m_state # "LF" /\ wire' = toString(m)
        /\ UNCHANGED <<got, m_messages, origin>>
    BY <1>1, <2>0, SentOne DEF ircParser
  <2>2. Parsed' = Parsed
    BY <2>1 DEF Parsed
  <2>3. ~LineDone'
    BY <2>1, LineEnds DEF LineDone, EndsLine
  <2>4. \A k \in 1..Len(origin) : origin[k] \in 1..(n + 1) /\ origin[k] # n + 1
    BY <2>0 DEF OriginInv
  <2>5. ASSUME NEW i \in 1..((n + 1) - 1), HP(i)' /\ HalfGood(i)'
        PROVE  \E k \in 1..Len(origin) : origin[k] = i
    <3>1. i \in 1..Len(sent)
      BY <2>0, <2>5
    <3>2. HP(i) /\ HalfGood(i)
      BY <1>1, <2>5, <3>1, SentBefore
    <3> QED
      BY <2>1, <3>1, <3>2, Found DEF AllLexed
  <2>6. Len(Parsed') = Len(origin')
    BY <2>1, <2>2 DEF OriginInv
  <2>7. \A k, l \in 1..Len(origin') : k < l => origin'[k] < origin'[l]
    BY <2>1 DEF OriginInv
  <2> QED
    BY <2>1, <2>3, <2>4, <2>5, <2>6, <2>7 DEF OriginInv
<1>2. ASSUME Parsed' = Parsed, UNCHANGED <<sent, dirty, origin>>,
             LineDone' => LineDone,
             (\E k \in 1..Len(origin) : origin[k] = Len(sent)) =>
                wire' = <<>> /\ (m_state' = "LF" => m_tokens' = <<>>)
      PROVE  OriginInv'
  <2>1. \A i : (HP(i)' <=> HP(i)) /\ (HalfGood(i)' <=> HalfGood(i))
    BY <1>2, SameSent
  <2>2. /\ Len(Parsed') = Len(origin')
        /\ \A k, l \in 1..Len(origin') : k < l => origin'[k] < origin'[l]
    BY <1>2 DEF OriginInv
  <2>3. \A k \in 1..Len(origin') :
          /\ origin'[k] \in 1..Len(sent')
          /\ origin'[k] = Len(sent') => wire' = <<>> /\ (m_state' = "LF" => m_tokens' = <<>>)
    BY <1>2 DEF OriginInv
  <2>4. sent' # <<>> /\ LineDone' => \E k \in 1..Len(origin') : origin'[k] = Len(sent')
    BY <1>2 DEF OriginInv
  <2>5. \A i \in 1..(Len(sent') - 1) :
          HP(i)' /\ HalfGood(i)' => \E k \in 1..Len(origin') : origin'[k] = i
    BY <1>2, <2>1 DEF OriginInv
  <2> QED
    BY <2>2, <2>3, <2>4, <2>5 DEF OriginInv
<1>3. CASE LexNext
  <2>1. wire # <<>> /\ ~LineDone' /\ UNCHANGED <<sent, got, origin, dirty, m_messages>>
    BY <1>3, LexNotDone
  <2>2. Parsed' = Parsed
    BY <2>1 DEF Parsed
  <2>3. ~\E k \in 1..Len(origin) : origin[k] = Len(sent)
    BY <2>1 DEF OriginInv
  <2> QED
    BY <1>2, <2>1, <2>2, <2>3
<1>4. CASE RunParser
  <2>1. sent # <<>> /\ wire = <<>> /\ m_state = "LF" /\ UNCHANGED <<wire, sent, dirty>> /\ (Quiet \/ Delivers)
    BY <1>4, RunFacts
  <2>2. CASE Quiet
    <3>1. /\ Parsed' = Parsed /\ origin' = origin /\ (LineDone' => LineDone)
          /\ (m_state' = "LF" /\ m_tokens' # <<>> => m_tokens # <<>>)
      BY <2>2 DEF Quiet
    <3>2. ASSUME NEW k \in 1..Len(origin), origin[k] = Len(sent)
          PROVE  wire' = <<>> /\ (m_state' = "LF" => m_tokens' = <<>>)
      BY <2>1, <3>1, <3>2 DEF OriginInv
    <3> QED
      BY <1>2, <2>1, <3>1, <3>2
  <2>3. CASE Delivers
    <3>0. PICK n \in Nat : n = Len(origin)
      BY <1>0
    <3>1. /\ Len(origin') = n + 1
          /\ origin'[n + 1] = Len(sent)
          /\ \A k \in 1..n : origin'[k] = origin[k]
      BY <1>0, <2>3, <3>0, AppendProperties DEF Delivers
    <3>2. Parsed \in Seq(IRCMessage)
      BY ParserFacts DEF TypeInv, Parsed
    <3>3. Len(Parsed') = Len(Parsed) + 1
      BY <2>3, <3>2, AppendProperties DEF Delivers
    <3>4. m_tokens # <<>>
      BY <2>3 DEF Delivers
    <3>5. \A k \in 1..n : origin[k] \in 1..Len(sent) /\ origin[k] # Len(sent)
      BY <2>1, <3>0, <3>4 DEF OriginInv
    <3>6. \A k \in 1..n : origin[k] \in 1..Len(sent) /\ origin[k] < Len(sent)
      BY <1>0, <3>5
    <3>7. \A k, l \in 1..(n + 1) : k < l => origin'[k] < origin'[l]
      <4>1. \A k, l \in 1..n : k < l => origin[k] < origin[l]
        BY <3>0 DEF OriginInv
      <4> SUFFICES ASSUME NEW k \in 1..(n + 1), NEW l \in 1..(n + 1), k < l
                   PROVE  origin'[k] < origin'[l]
        OBVIOUS
      <4>2. k \in 1..n
        OBVIOUS
      <4>3. CASE l = n + 1
        BY <3>1, <3>6, <4>2, <4>3
      <4>4. CASE l \in 1..n
        BY <3>1, <4>1, <4>2, <4>4
      <4> QED
        BY <4>3, <4>4
    <3>8. Len(sent) \in 1..Len(sent)
      <4>1. Len(sent) # 0
        BY <1>0, <2>1, EmptySeq
      <4> QED
        BY <1>0, <4>1
    <3>9. \A k \in 1..(n + 1) : origin'[k] \in 1..Len(sent)
      BY <3>1, <3>6, <3>8
    <3>10. wire' = <<>> /\ m_tokens' = <<>>
      BY <2>1, <2>3 DEF Delivers
    <3>11. \A i : (HP(i)' <=> HP(i)) /\ (HalfGood(i)' <=> HalfGood(i))
      BY <2>1, SameSent
    <3>12. ASSUME NEW i \in 1..(Len(sent') - 1), HP(i)' /\ HalfGood(i)'
           PROVE  \E k \in 1..Len(origin') : origin'[k] = i
      <4>1. PICK k \in 1..n : origin[k] = i
        BY <2>1, <3>0, <3>11, <3>12 DEF OriginInv
      <4> QED
        BY <3>1, <4>1
    <3>13. Len(Parsed') = Len(origin')
      BY <3>0, <3>1, <3>3 DEF OriginInv
    <3>14. n + 1 \in 1..(n + 1)
      OBVIOUS
    <3> QED
      BY <2>1, <3>1, <3>7, <3>9, <3>10, <3>12, <3>13, <3>14 DEF OriginInv
  <2> QED
    BY <2>1, <2>2, <2>3
<1>5. CASE CutChunk \/ TakeMessage \/ UNCHANGED allVars
  <2>1. Parsed' = Parsed /\ UNCHANGED <<sent, dirty, origin, wire, m_state, m_tokens>>
    BY <1>5, Unseen
  <2>2. LineDone' <=> LineDone
    BY <2>1 DEF LineDone
  <2>3. ASSUME NEW k \in 1..Len(origin), origin[k] = Len(sent)
        PROVE  wire' = <<>> /\ (m_state' = "LF" => m_tokens' = <<>>)
    BY <2>1, <2>3 DEF OriginInv
  <2> QED
    BY <1>2, <2>1, <2>2, <2>3
<1>6. CASE Reconnect
  <2>1. origin' = <<>> /\ got' = <<>> /\ m_messages' = <<>> /\ sent' = <<>>
    BY <1>6 DEF Reconnect, ircParser
  <2>2. Parsed' = <<>>
    BY <2>1 DEF Parsed
  <2> QED
    BY <2>1, <2>2 DEF OriginInv
<1> QED
  BY <1>1, <1>3, <1>4, <1>5, <1>6 DEF StreamNext

\* A message from a line that began in state NONE is that line.
LEMMA RightStep ==
  ASSUME TypeInv, StartInv, WireInv, LineInv, OriginInv, RightInv, [StreamNext]_allVars
  PROVE  RightInv'
<1>0. origin \in Seq(Nat) /\ sent \in Seq(Lines) /\ Len(sent) \in Nat /\ Len(origin) \in Nat
  BY DEF TypeInv
<1> SUFFICES ASSUME NEW k \in 1..Len(origin'), NEW i, i = origin'[k], Good(i)'
             PROVE  HP(i)' /\ Parsed'[k] = sent'[i]
  <2>1. \A k \in 1..Len(origin') : Good(origin[k])' => HP(origin[k])' /\ Parsed'[k] = sent'[origin'[k]]
    BY DEF Good, HP
  <2> QED
    BY <2>1 DEF RightInv
<1>1. ASSUME NEW m \in Lines, ServerSend(m) PROVE HP(i)' /\ Parsed'[k] = sent'[i]
  <2>1. UNCHANGED <<got, m_messages, origin>> /\ \A j \in 1..Len(sent) : sent'[j] = sent[j]
    BY <1>1, SentOne DEF ircParser
  <2>2. i \in 1..Len(sent) /\ k \in 1..Len(origin) /\ i = origin[k]
    BY <2>1 DEF OriginInv
  <2>3. Good(i) /\ (HP(i)' <=> HP(i))
    BY <1>1, <2>2, SentBefore
  <2> QED
    BY <2>1, <2>2, <2>3 DEF RightInv, Parsed
<1>2. ASSUME UNCHANGED <<sent, dirty>>, k \in 1..Len(origin), origin[k] = i, Parsed'[k] = Parsed[k]
      PROVE  HP(i)' /\ Parsed'[k] = sent'[i]
  <2>1. Good(i) /\ (HP(i)' <=> HP(i))
    BY <1>2, SameSent
  <2> QED
    BY <1>2, <2>1 DEF RightInv
<1>3. CASE LexNext
  <2>1. UNCHANGED <<sent, got, origin, dirty, m_messages>>
    BY <1>3, LexNotDone
  <2> QED
    BY <1>2, <2>1 DEF Parsed
<1>4. CASE RunParser
  <2>1. sent # <<>> /\ UNCHANGED <<wire, sent, dirty>> /\ (Quiet \/ Delivers)
    BY <1>4, RunFacts
  <2>2. CASE Quiet
    BY <1>2, <2>1, <2>2 DEF Quiet
  <2>3. CASE Delivers
    <3>0. PICK n \in Nat : n = Len(origin)
      BY <1>0
    <3>1. /\ Len(origin') = n + 1
          /\ origin'[n + 1] = Len(sent)
          /\ \A j \in 1..n : origin'[j] = origin[j]
      BY <1>0, <2>3, <3>0, AppendProperties DEF Delivers
    <3>2. Parsed \in Seq(IRCMessage) /\ Len(Parsed) = n
      BY <3>0, ParserFacts DEF TypeInv, Parsed, OriginInv
    <3>3. Parsed'[n + 1] = m_message /\ \A j \in 1..n : Parsed'[j] = Parsed[j]
      BY <2>3, <3>2, AppendProperties DEF Delivers
    <3>4. CASE k \in 1..n
      BY <1>2, <2>1, <3>0, <3>1, <3>3, <3>4
    <3>5. CASE k = n + 1
      <4>1. i = Len(sent) /\ Good(i)
        BY <2>1, <3>1, <3>5, SameSent
      <4>2. m_message = sent[i] /\ HP(i)
        BY <2>3, <4>1 DEF Delivers, Line
      <4> QED
        BY <2>1, <3>3, <3>5, <4>2, SameSent
    <3>6. k \in 1..n \/ k = n + 1
      BY <3>1
    <3> QED
      BY <3>4, <3>5, <3>6
  <2> QED
    BY <2>1, <2>2, <2>3
<1>5. CASE CutChunk \/ TakeMessage \/ UNCHANGED allVars
  BY <1>2, <1>5, Unseen
<1>6. CASE Reconnect
  BY <1>6 DEF Reconnect
<1> QED
  BY <1>1, <1>3, <1>4, <1>5, <1>6 DEF StreamNext

\* Without a line that lacks parameters, the k-th message is the k-th line's.
LEMMA EveryStep ==
  ASSUME TypeInv, StartInv, WireInv, LineInv, OriginInv, EveryInv, [StreamNext]_allVars
  PROVE  EveryInv'
<1>0. origin \in Seq(Nat) /\ sent \in Seq(Lines) /\ Len(sent) \in Nat /\ Len(origin) \in Nat
  BY DEF TypeInv
<1> SUFFICES ASSUME ~dirty', AllHaveParams'
             PROVE  /\ \A k \in 1..Len(origin') : origin'[k] = k
                    /\ Len(origin') = IF sent' = <<>> \/ LineDone' THEN Len(sent')
                                      ELSE Len(sent') - 1
  BY DEF EveryInv
<1>1. ASSUME NEW m \in Lines, ServerSend(m)
      PROVE  /\ \A k \in 1..Len(origin') : origin'[k] = k
             /\ Len(origin') = IF sent' = <<>> \/ LineDone' THEN Len(sent') ELSE Len(sent') - 1
  <2>0. PICK n \in Nat : n = Len(sent)
    BY <1>0
  <2>1. /\ Len(sent') = n + 1 /\ sent' # <<>> /\ wire = <<>> /\ m_state # "LF" /\ wire' = toString(m)
        /\ \A i \in 1..n : sent'[i] = sent[i]
        /\ origin' = origin /\ dirty' = dirty
    BY <1>1, <2>0, SentOne
  <2>2. ~LineDone'
    BY <2>1, LineEnds DEF LineDone, EndsLine
  <2>3. ~dirty /\ AllHaveParams
    <3>1. \A i \in 1..n : i \in 1..(n + 1)
      OBVIOUS
    <3> QED
      BY <2>0, <2>1, <3>1 DEF AllHaveParams
  <2>4. ASSUME sent # <<>> PROVE LineDone
    <3>1. Len(sent) \in 1..Len(sent)
      <4>1. Len(sent) # 0
        BY <1>0, <2>4, EmptySeq
      <4> QED
        BY <1>0, <4>1
    <3>2. HP(Len(sent)) /\ HalfGood(Len(sent))
      BY <2>3, <3>1 DEF HP, HalfGood, AllHaveParams
    <3>3. m_state = "NONE"
      BY <2>1, <2>4, <3>2, LineOver
    <3> QED
      BY <2>1, <3>3 DEF LineDone
  <2>5. Len(origin) = n /\ \A k \in 1..Len(origin) : origin[k] = k
    BY <2>0, <2>3, <2>4 DEF EveryInv
  <2> QED
    BY <2>1, <2>2, <2>5
<1>2. ASSUME UNCHANGED <<sent, dirty, origin>>, LineDone' <=> LineDone
      PROVE  /\ \A k \in 1..Len(origin') : origin'[k] = k
             /\ Len(origin') = IF sent' = <<>> \/ LineDone' THEN Len(sent') ELSE Len(sent') - 1
  BY <1>2 DEF EveryInv, AllHaveParams
<1>3. CASE LexNext
  BY <1>2, <1>3, LexNotDone
<1>4. CASE RunParser
  <2>1. sent # <<>> /\ UNCHANGED <<wire, sent, dirty>> /\ (Quiet \/ Delivers)
    BY <1>4, RunFacts
  <2>2. CASE Quiet
    BY <1>2, <2>1, <2>2 DEF Quiet
  <2>3. CASE Delivers
    <3>1. /\ ~LineDone /\ LineDone' /\ origin' = Append(origin, Len(sent))
      BY <2>3 DEF Delivers
    <3>2. Len(origin) = Len(sent) - 1 /\ \A k \in 1..Len(origin) : origin[k] = k
      BY <2>1, <3>1 DEF EveryInv, AllHaveParams
    <3>3. PICK n \in Nat : n = Len(sent) /\ Len(origin) = n - 1
      BY <1>0, <3>2
    <3>4. /\ Len(origin') = (n - 1) + 1
          /\ origin'[(n - 1) + 1] = n
          /\ \A k \in 1..(n - 1) : origin'[k] = origin[k]
      BY <1>0, <3>1, <3>3, AppendProperties
    <3>5. (n - 1) + 1 = n
      OBVIOUS
    <3>6. ASSUME NEW k \in 1..n PROVE origin'[k] = k
      BY <3>2, <3>3, <3>4, <3>5
    <3> QED
      BY <2>1, <3>1, <3>3, <3>4, <3>5, <3>6
  <2> QED
    BY <2>1, <2>2, <2>3
<1>5. CASE CutChunk \/ TakeMessage \/ UNCHANGED allVars
  <2>1. UNCHANGED <<sent, dirty, origin, wire, m_state, m_tokens>>
    BY <1>5, Unseen
  <2>2. LineDone' <=> LineDone
    BY <2>1 DEF LineDone
  <2> QED
    BY <1>2, <2>1, <2>2
<1>6. CASE Reconnect
  BY <1>6 DEF Reconnect
<1> QED
  BY <1>1, <1>3, <1>4, <1>5, <1>6 DEF StreamNext

LEMMA StreamBegins == StreamInit => StreamInv
<1> SUFFICES ASSUME StreamInit PROVE StreamInv
  OBVIOUS
<1>1. /\ wire = <<>> /\ sent = <<>> /\ got = <<>> /\ origin = <<>> /\ dirty = FALSE
      /\ m_state = "NONE" /\ m_messages = <<>>
  BY DEF StreamInit, Init
<1>2. TypeInv
  <2>1. P!ParserInv /\ wire \in Texts
    BY <1>1, ParserBegins, SeparatorTexts
  <2>2. sent \in Seq(Lines) /\ got \in Seq(IRCMessage) /\ origin \in Seq(Nat)
    BY <1>1, EmptySeq
  <2> QED
    BY <1>1, <2>1, <2>2 DEF TypeInv
<1>3. StartInv /\ WireInv /\ LineInv
  BY <1>1 DEF StartInv, WireInv, LineInv
<1>4. Parsed = <<>>
  BY <1>1 DEF Parsed
<1>5. OriginInv /\ RightInv /\ EveryInv
  BY <1>1, <1>4 DEF OriginInv, RightInv, EveryInv
<1> QED
  BY <1>2, <1>3, <1>5 DEF StreamInv

LEMMA StreamStep ==
  ASSUME ~CutAnywhere, StreamInv, [StreamNext]_allVars
  PROVE  StreamInv'
<1>1. TypeInv /\ StartInv /\ WireInv /\ LineInv /\ OriginInv /\ RightInv /\ EveryInv
  BY DEF StreamInv
<1> QED
  BY <1>1, TypeStep, StartStep, WireStep, LineStep, OriginStep, RightStep, EveryStep DEF StreamInv

-----------------------------------------------------------------------------
(* The theorems *)

\* The line whose message is which, as the properties say it.
LEMMA OneMessageEach ==
  ASSUME StreamInv
  PROVE  OneEach
  BY DEF StreamInv, OriginInv, OneEach

\* The invariant gives each of the properties.
LEMMA DeliveredNow == StreamInv => StreamDelivered
<1> SUFFICES ASSUME StreamInv, ~dirty, AllHaveParams
             PROVE  /\ IsPrefix(Parsed, sent)
                    /\ AllLexed => Parsed = sent
  BY DEF StreamDelivered
<1>1. TypeInv /\ WireInv /\ LineInv /\ OriginInv /\ RightInv /\ EveryInv
  BY DEF StreamInv
<1>2. /\ Parsed \in Seq(IRCMessage) /\ sent \in Seq(IRCMessage)
      /\ origin \in Seq(Nat) /\ sent \in Seq(Lines)
  <2>1. sent \in Seq(Lines) /\ Lines \subseteq IRCMessage
    BY <1>1, StreamAssumption DEF TypeInv
  <2>2. sent \in Seq(IRCMessage)
    BY <2>1
  <2>3. Parsed \in Seq(IRCMessage)
    BY <1>1, ParserFacts DEF TypeInv, Parsed
  <2> QED
    BY <1>1, <2>2, <2>3 DEF TypeInv
<1>3. PICK n \in Nat, l \in Nat : n = Len(Parsed) /\ l = Len(sent)
  BY <1>2
<1>4. n = Len(origin)
  BY <1>1, <1>3 DEF OriginInv
<1>5. \A k \in 1..n : origin[k] = k /\ k \in 1..l
  BY <1>1, <1>3, <1>4 DEF EveryInv, OriginInv
<1>6. ASSUME NEW k \in 1..n PROVE Parsed[k] = sent[k]
  <2>1. origin[k] = k /\ k \in 1..l /\ (k > 1 => k - 1 \in 1..l)
    BY <1>5
  <2>2. Good(k)
    BY <1>3, <2>1 DEF Good, HP, AllHaveParams
  <2> QED
    BY <1>1, <1>4, <2>1, <2>2 DEF RightInv
<1>7. n <= l
  <2>1. CASE n = 0
    BY <2>1
  <2>2. CASE n > 0
    <3>1. n \in 1..n
      BY <2>2
    <3> QED
      BY <1>5, <3>1
  <2> QED
    BY <2>1, <2>2
<1>8. IsPrefix(Parsed, sent)
  <2>1. SubSeq(Parsed, 1, n) = SubSeq(sent, 1, n)
    <3> DEFINE p == SubSeq(Parsed, 1, n)
               q == SubSeq(sent, 1, n)
    <3>1. 1 \in 1..(n + 1) /\ n \in 0..n /\ n \in 0..l /\ n \in (1 - 1)..n /\ n \in (1 - 1)..l
      BY <1>7
    <3>2. p \in Seq(IRCMessage) /\ Len(p) = n /\ \A i \in 1..n : p[i] = Parsed[i]
      BY <1>2, <1>3, <3>1
    <3>3. q \in Seq(IRCMessage) /\ Len(q) = n /\ \A i \in 1..n : q[i] = sent[i]
      BY <1>2, <1>3, <1>7, <3>1
    <3>4. Len(p) = Len(q) /\ \A i \in 1..Len(p) : p[i] = q[i]
      BY <1>6, <3>2, <3>3
    <3> HIDE DEF p, q
    <3>5. p = q
      BY <3>2, <3>3, <3>4, SeqEqual
    <3> QED
      BY <3>5 DEF p, q
  <2> QED
    BY <1>3, <1>7, <2>1 DEF IsPrefix
<1>9. ASSUME AllLexed PROVE Parsed = sent
  <2>1. n = l
    <3>1. CASE sent = <<>>
      BY <1>1, <1>3, <1>4, <3>1 DEF EveryInv
    <3>2. CASE sent # <<>>
      <4>1. Len(sent) \in 1..Len(sent)
        <5>1. Len(sent) # 0
          BY <1>2, <3>2, EmptySeq
        <5> QED
          BY <1>3, <5>1
      <4>2. HP(Len(sent)) /\ HalfGood(Len(sent))
        BY <4>1 DEF HP, HalfGood, AllHaveParams
      <4>3. LineDone
        BY <1>1, <1>9, <3>2, <4>2, LineOver DEF AllLexed, LineDone
      <4> QED
        BY <1>1, <1>3, <1>4, <4>3 DEF EveryInv
    <3> QED
      BY <3>1, <3>2
  <2> QED
    BY <1>2, <1>3, <1>6, <2>1, SeqEqual
<1> QED
  BY <1>8, <1>9

LEMMA DamagedNow == StreamInv => OnlyNextLineDamaged
<1> SUFFICES ASSUME StreamInv, ~dirty
             PROVE  /\ OneEach
                    /\ Right({i \in 1..Len(sent) : i > 1 => HasParams(sent[i - 1])})
                    /\ Complete(1..Len(sent))
  BY DEF OnlyNextLineDamaged
<1>1. TypeInv /\ WireInv /\ LineInv /\ OriginInv /\ RightInv
  BY DEF StreamInv
<1>2. Right({i \in 1..Len(sent) : i > 1 => HasParams(sent[i - 1])})
  BY <1>1 DEF Right, RightInv, Good, HP
<1>3. Complete(1..Len(sent))
  <2> SUFFICES ASSUME AllLexed, NEW i \in 1..Len(sent), HasParams(sent[i])
               PROVE  \E k \in 1..Len(origin) : origin[k] = i
    BY DEF Complete
  <2>1. HP(i) /\ HalfGood(i)
    BY DEF HP, HalfGood
  <2> QED
    BY <1>1, <2>1, Found
<1> QED
  BY <1>2, <1>3, OneMessageEach

LEMMA ResyncNow == StreamInv => ResyncAfterReconnect
<1> DEFINE after == {i \in 3..Len(sent) : HasParams(sent[i - 1]) /\ HasParams(sent[i - 2])}
<1> SUFFICES ASSUME StreamInv, dirty
             PROVE  OneEach /\ Right(after) /\ Complete(after)
  BY DEF ResyncAfterReconnect
<1>1. TypeInv /\ WireInv /\ LineInv /\ OriginInv /\ RightInv /\ Len(sent) \in Nat
  BY DEF StreamInv, TypeInv
<1>2. \A i \in after : i \in 1..Len(sent) /\ i > 2 /\ i > 1 /\ HP(i - 1) /\ HP(i - 2)
  BY <1>1 DEF HP
<1>3. Right(after)
  BY <1>1, <1>2 DEF Right, RightInv, Good, HP
<1>4. Complete(after)
  <2> SUFFICES ASSUME AllLexed, NEW i \in after, HasParams(sent[i])
               PROVE  \E k \in 1..Len(origin) : origin[k] = i
    BY DEF Complete
  <2>1. i \in 1..Len(sent) /\ HP(i) /\ HalfGood(i)
    BY <1>2 DEF HP, HalfGood
  <2> QED
    BY <1>1, <2>1, Found
<1> QED
  BY <1>3, <1>4, OneMessageEach

\* Core::startAsyncReceive and IRCParser::parse: on a connection that began
\* between two lines, Core gets what the server sent, line by line and field by
\* field, for any messages with parameters and any cut into chunks between tokens.
THEOREM StreamDeliveredCorrect ==
  ASSUME ~CutAnywhere
  PROVE  StreamSpec => []StreamDelivered
<1>1. StreamInv /\ [StreamNext]_allVars => StreamInv'
  BY StreamStep
<1> QED
  BY <1>1, StreamBegins, DeliveredNow, PTL DEF StreamSpec

\* IRCParser::lexer, COMMAND_NUM and COMMAND_LETTER: a line without parameters
\* damages at most itself and the line behind it; every line with parameters still
\* gives exactly one message, in order.
THEOREM OnlyNextLineDamagedCorrect ==
  ASSUME ~CutAnywhere
  PROVE  StreamSpec => []OnlyNextLineDamaged
<1>1. StreamInv /\ [StreamNext]_allVars => StreamInv'
  BY StreamStep
<1> QED
  BY <1>1, StreamBegins, DamagedNow, PTL DEF StreamSpec

\* Core::run: a connection that inherits an unfinished line from the one before
\* is right again from its third line on.
THEOREM ResyncAfterReconnectCorrect ==
  ASSUME ~CutAnywhere
  PROVE  StreamSpec => []ResyncAfterReconnect
<1>1. StreamInv /\ [StreamNext]_allVars => StreamInv'
  BY StreamStep
<1> QED
  BY <1>1, StreamBegins, ResyncNow, PTL DEF StreamSpec
=============================================================================
