------------------------- MODULE CommandLineProofs --------------------------
(***************************************************************************)
(* Theorems about CommandLine: CommandParser::parse gives back what was    *)
(* written, for commands, arguments and lines of any length.  The writer   *)
(* and the parser move in turns, so that an induction over the text is one *)
(* over the steps.                                                         *)
(***************************************************************************)
EXTENDS CommandLine, SequenceTheorems, TLAPS

Quotes == {Quote, DQuote}

LineTypes ==
  /\ TypeOK
  /\ name \in Seq(NameChars) /\ valid \in BOOLEAN
  /\ mode \in {"name", "plain"} \cup Quotes
  /\ args \in Seq(Text) /\ word \in Text /\ line \in Text
  /\ areas \in Nat
  /\ ending \in {"open", "none", "LF", "CRLF"}

\* parse() has not thrown and not returned, and need not throw.
Good == valid /\ status = "parsing"

\* What may be left of the line's end.
Rest == {<<>>, <<"LF">>, <<"CR", "LF">>}

\* The command is being read.
NameInv ==
  Good /\ mode = "name" =>
    /\ args = <<>> /\ word = <<>> /\ arguments = <<>> /\ command = <<>>
    /\ ~is_quoted /\ do_escape <= 0
    /\ \/ /\ state = "START" /\ prefix = "/" /\ ending = "open" /\ token = <<>>
          /\ \E c \in CommandChars : name = <<c>> /\ line = <<"/", c>>
       \/ /\ state = "COMMAND" /\ ending = "open"
          /\ \/ line = <<>> /\ name = token
             \/ \E c \in CommandChars : line = <<c>> /\ name = Append(token, c)
       \/ state = "COMMAND" /\ ending # "open" /\ name = token /\ line \in Rest

\* The parser is within quotes iff the writer is, and of the same kind.
InMode ==
  /\ is_quoted <=> mode # "plain"
  /\ is_quoted => (is_dquote <=> mode = DQuote)

\* The space before an argument is still to be read.
AtSpace ==
  /\ ending = "open" /\ line = <<" ">> /\ word = <<>> /\ mode = "plain"
  /\ ~is_quoted /\ do_escape <= 0
  /\ \/ state = "COMMAND" /\ args = <<>> /\ arguments = <<>> /\ token = name
     \/ state = "ARGUMENT" /\ command = name /\ args = Append(arguments, token)

\* Everything is read.
CaughtUp == line = <<>> /\ token = word /\ InMode /\ do_escape <= 0

\* A quote that opens or closes an area is still to be read.
AtQuote ==
  /\ token = word /\ do_escape <= 0
  /\ \/ mode \in Quotes /\ line = <<mode>> /\ ~is_quoted
     \/ /\ mode = "plain" /\ is_quoted
        /\ \E q \in Quotes : line = <<q>> /\ (is_dquote <=> q = DQuote)

\* The last character of the word, or what is left of it, is still to be read.
AtChar ==
  /\ InMode
  /\ \E c \in Chars :
       /\ word = Append(token, c)
       /\ \/ line = <<Escape, c>> /\ do_escape <= 0
          \/ line = <<c>> /\ do_escape = 1
          \/ line = <<c>> /\ do_escape <= 0 /\ c \notin Meaningful

\* The end of the line.
AtEnd ==
  /\ mode = "plain" /\ ~is_quoted /\ do_escape <= 0
  /\ \/ arguments = args /\ token = word /\ ending = "none" /\ line = <<>>
     \/ /\ arguments = args /\ token = word /\ ending # "none"
        /\ line \in Rest \ {<<>>}
     \/ /\ arguments = Append(args, word) /\ token = <<>> /\ ending # "none"
        /\ line = <<>>

ArgumentInv ==
  Good /\ mode # "name" =>
    \/ AtSpace
    \/ /\ state = "ARGUMENT" /\ command = name
       /\ \/ ending = "open" /\ arguments = args /\ (CaughtUp \/ AtQuote \/ AtChar)
          \/ ending # "open" /\ AtEnd

\* A line that is not well formed is not read to its end.
BadInv ==
  ~valid /\ status = "parsing" =>
    /\ mode = "name" /\ ending = "open"
    /\ \/ /\ state = "START" /\ prefix = "/"
          /\ \/ \E c \in NameChars : line = <<c>>
             \/ \E c \in OtherChars : line = <<"/", c>>
       \/ /\ state = "COMMAND"
          /\ \E c \in OtherChars \cup {"/"} : line # <<>> /\ Head(line) = c

\* What parse() has returned.
ResultInv ==
  status = "returned" /\ valid =>
    /\ command = name
    /\ arguments = IF ending = "none" /\ word = <<>> THEN args ELSE Written

LineInv ==
  LineTypes /\ NameInv /\ ArgumentInv /\ BadInv /\ ResultInv /\ ThrowsIffMalformed

-----------------------------------------------------------------------------
(* Characters and types *)

\* The head and the tail of what is written in one step.
LEMMA Tuples ==
  /\ \A a : <<a>> # <<>> /\ Head(<<a>>) = a /\ Tail(<<a>>) = <<>>
  /\ \A a, b : <<a, b>> # <<>> /\ Head(<<a, b>>) = a /\ Tail(<<a, b>>) = <<b>>
  OBVIOUS

\* The characters that the parser tells apart are different.
LEMMA Characters ==
  /\ NameChars \subseteq Chars /\ "/" \in Chars /\ " " \in Chars /\ "CR" \in Chars
  /\ "LF" \in Chars /\ Quote \in Chars /\ DQuote \in Chars /\ Escape \in Chars
  /\ "/" \notin Special /\ "/" \notin NameChars
  /\ NameChars \cap Special = {} /\ CommandChars \cap OtherChars = {}
  /\ CommandChars \subseteq NameChars /\ OtherChars \subseteq NameChars
  /\ Special = {" ", Quote, DQuote, Escape, "CR", "LF"}
  /\ Quote # DQuote /\ Quote # Escape /\ DQuote # Escape
  /\ {" ", "CR", "LF", "/", "plain", "name"} \cap {Quote, DQuote, Escape} = {}
  BY CommandCharsAssumption DEF Special, Chars, NameChars, Quote, DQuote, Escape

\* What is written in one step is a text.
LEMMA Texts ==
  /\ <<>> \in Text /\ <<>> \in Seq(Text)
  /\ \A a \in Chars : <<a>> \in Text
  /\ \A a, b \in Chars : <<a, b>> \in Text
  BY DEF Text

LEMMA ParserInit == Init => TypeOK
<1> SUFFICES ASSUME Init PROVE TypeOK
  OBVIOUS
<1>1. state \in {"START", "COMMAND", "ARGUMENT"}
  BY DEF Init
<1>2. is_quoted \in BOOLEAN /\ is_dquote \in BOOLEAN
  BY DEF Init
<1> QED
  BY <1>1, <1>2, Texts DEF Init, TypeOK

LEMMA ParseTypes ==
  ASSUME TypeOK, NEW x \in Chars, Parse(x)
  PROVE  TypeOK'
<1>1. /\ Append(token, x) \in Text /\ <<>> \in Text
      /\ Append(arguments, token) \in Seq(Text)
  BY DEF TypeOK, Text
<1>2. do_escape - 1 \in Int /\ do_escape - 1 <= 1
  BY DEF TypeOK
<1>3. CASE Start(x)
  BY <1>1, <1>2, <1>3 DEF Start, NextChar, Throw, TypeOK
<1>4. CASE Command(x)
  BY <1>1, <1>2, <1>4 DEF Command, NextChar, Throw, Put, Ignore, TypeOK
<1>5. CASE Argument(x)
  <2>1. CASE do_escape > 0 /\ Put(x) /\ NextChar
    BY <1>1, <1>2, <2>1 DEF NextChar, Put, TypeOK
  <2>2. CASE StartEscape
    BY <2>2 DEF StartEscape, Ignore, TypeOK
  <2>3. CASE QuoteOrDQuote(x) /\ NextChar
    <3>1. is_quoted' \in BOOLEAN
      BY <2>3 DEF QuoteOrDQuote, Put, TypeOK
    <3>2. is_dquote' \in BOOLEAN
      BY <2>3 DEF QuoteOrDQuote, Put, TypeOK
    <3> QED
      BY <1>1, <1>2, <2>3, <3>1, <3>2 DEF QuoteOrDQuote, NextChar, Put, TypeOK
  <2>4. CASE (Put(x) \/ Ignore \/ EndArgument) /\ NextChar
    BY <1>1, <1>2, <2>4 DEF EndArgument, NextChar, Put, Ignore, TypeOK
  <2> QED
    BY <1>5, <2>1, <2>2, <2>3, <2>4 DEF Argument
<1> QED
  BY <1>3, <1>4, <1>5 DEF Parse

LEMMA ReturnTypes ==
  ASSUME TypeOK, Return
  PROVE  TypeOK'
<1>1. Append(arguments, token) \in Seq(Text)
  BY DEF TypeOK
<1> QED
  BY <1>1 DEF Return, TypeOK

LEMMA LineTypesInit == LineInit => LineTypes
<1> SUFFICES ASSUME LineInit PROVE LineTypes
  OBVIOUS
<1>1. TypeOK
  BY ParserInit DEF LineInit
<1>2. PICK c \in NameChars :
        /\ name = <<c>> /\ valid \in BOOLEAN
        /\ line = <<c>> \/ line = <<"/", c>>
  BY DEF LineInit
<1>3. <<c>> \in Seq(NameChars)
  OBVIOUS
<1>4. c \in Chars /\ "/" \in Chars
  BY Characters
<1>5. line \in Text /\ name \in Seq(NameChars)
  BY <1>2, <1>3, <1>4, Texts
<1> QED
  BY <1>1, <1>2, <1>5, Texts DEF LineInit, LineTypes

LEMMA LineTypesStep ==
  ASSUME LineTypes, [LineNext]_lineAllVars
  PROVE  LineTypes'
<1> USE DEF LineTypes
<1>0. ASSUME UNCHANGED commandParser PROVE TypeOK'
  BY <1>0 DEF commandParser, TypeOK
<1>1. ASSUME NEW c \in NameChars, WriteName(c) PROVE LineTypes'
  <2>1. c \in Chars
    BY Characters
  <2>2. valid' \in BOOLEAN
    BY <1>1 DEF WriteName
  <2> QED
    BY <1>0, <1>1, <2>1, <2>2 DEF WriteName, Text
<1>2. ASSUME NEW q \in Quotes, OpenQuotes(q) PROVE LineTypes'
  <2>1. <<q>> \in Text
    BY Characters, Texts DEF Quotes
  <2> QED
    BY <1>0, <1>2, <2>1 DEF OpenQuotes
<1>3. ASSUME NEW c \in Chars, WriteChar(c) PROVE LineTypes'
  <2>1. Escape \in Chars
    BY Characters
  <2>2. Append(word, c) \in Text /\ <<c>> \in Text /\ <<Escape, c>> \in Text
    BY <2>1 DEF Text
  <2>3. line' \in Text /\ word' \in Text
    BY <1>3, <2>2 DEF WriteChar
  <2> QED
    BY <1>0, <1>3, <2>3 DEF WriteChar
<1>4. ASSUME NEW e \in {"none", "LF", "CRLF"}, WriteEnding(e) PROVE LineTypes'
  <2>1. Ending(e) \in Text
    BY Characters, Texts DEF Ending
  <2> QED
    BY <1>0, <1>4, <2>1 DEF WriteEnding
<1>5. CASE StartArgument
  <2>1. Written \in Seq(Text)
    BY DEF Written
  <2>2. <<" ">> \in Text /\ <<>> \in Text
    BY Characters, Texts
  <2> QED
    BY <1>0, <1>5, <2>1, <2>2 DEF StartArgument
<1>6. CASE CloseQuotes
  <2>1. <<mode>> \in Text
    BY <1>6, Characters, Texts DEF CloseQuotes
  <2> QED
    BY <1>0, <1>6, <2>1 DEF CloseQuotes
<1>7. CASE ReadChar
  <2>1. Head(line) \in Chars /\ Tail(line) \in Text
    BY <1>7 DEF ReadChar, Text
  <2>2. TypeOK'
    BY <1>7, <2>1, ParseTypes DEF ReadChar
  <2> QED
    BY <1>7, <2>1, <2>2 DEF ReadChar
<1>8. CASE ReadEnd
  <2>1. TypeOK'
    BY <1>8, ReturnTypes DEF ReadEnd
  <2> QED
    BY <1>8, <2>1 DEF ReadEnd, lineVars
<1>9. CASE UNCHANGED lineAllVars
  BY <1>0, <1>9 DEF lineAllVars, lineVars
<1> QED
  BY <1>1, <1>2, <1>3, <1>4, <1>5, <1>6, <1>7, <1>8, <1>9 DEF LineNext, Quotes

-----------------------------------------------------------------------------
(* The writer *)

\* When the writer goes on, the parser has read everything it wrote.
LEMMA AtRest ==
  ASSUME LineInv, Writing
  PROVE  /\ valid /\ status = "parsing" /\ line = <<>> /\ ending = "open"
         /\ do_escape <= 0
         /\ mode = "name" =>
              /\ state = "COMMAND" /\ name = token /\ ~is_quoted
              /\ args = <<>> /\ word = <<>> /\ arguments = <<>> /\ command = <<>>
         /\ mode # "name" =>
              /\ state = "ARGUMENT" /\ command = name /\ arguments = args
              /\ token = word /\ InMode
<1>1. status = "parsing" /\ line = <<>> /\ ending = "open"
  BY DEF Writing
<1>2. valid
  BY <1>1, Tuples DEF LineInv, BadInv
<1>3. CASE mode = "name"
  BY <1>1, <1>2, <1>3, Tuples DEF LineInv, NameInv, Good
<1>4. CASE mode # "name"
  <2>1. ~AtSpace /\ ~AtQuote /\ ~AtChar
    BY <1>1, Tuples DEF AtSpace, AtQuote, AtChar
  <2>2. state = "ARGUMENT" /\ command = name /\ arguments = args /\ CaughtUp
    BY <1>1, <1>2, <1>4, <2>1 DEF LineInv, ArgumentInv, Good
  <2> QED
    BY <1>1, <1>2, <1>4, <2>2 DEF CaughtUp
<1> QED
  BY <1>3, <1>4

\* The invariant after a step of the writer within the arguments.
LEMMA ArgumentWritten ==
  ASSUME LineTypes', status' = "parsing", valid', mode' # "name", ArgumentInv'
  PROVE  LineInv'
BY DEF LineInv, NameInv, BadInv, ResultInv, ThrowsIffMalformed, Good

LEMMA WriterStep ==
  ASSUME LineInv, LineTypes', [LineNext]_lineAllVars, ~ReadChar, ~ReadEnd
  PROVE  LineInv'
<1> USE DEF commandParser
<1>0. LineTypes
  BY DEF LineInv
<1>1. ASSUME NEW c \in NameChars, WriteName(c) PROVE LineInv'
  <2>1. Writing /\ mode = "name"
    BY <1>1 DEF WriteName
  <2>2. /\ valid /\ state = "COMMAND" /\ name = token /\ do_escape <= 0
        /\ args = <<>> /\ word = <<>> /\ arguments = <<>> /\ command = <<>>
        /\ ~is_quoted
    BY <2>1, AtRest
  <2>3. /\ mode' = "name" /\ line' = <<c>> /\ name' = Append(token, c)
        /\ (valid' <=> c \in CommandChars) /\ ending' = "open"
        /\ status' = "parsing" /\ state' = "COMMAND" /\ token' = token
        /\ args' = <<>> /\ word' = <<>> /\ arguments' = <<>> /\ command' = <<>>
        /\ ~is_quoted' /\ do_escape' <= 0
    BY <1>1, <2>1, <2>2 DEF WriteName, Writing
  <2>4. NameInv'
    BY <2>3 DEF NameInv, Good
  <2>5. BadInv'
    <3>1. c \notin CommandChars => c \in OtherChars
      BY DEF NameChars
    <3> QED
      BY <2>3, <3>1, Tuples DEF BadInv
  <2> QED
    BY <2>3, <2>4, <2>5 DEF LineInv, ArgumentInv, ResultInv, ThrowsIffMalformed
<1>2. ASSUME NEW q \in Quotes, OpenQuotes(q) PROVE LineInv'
  <2>1. Writing /\ mode = "plain"
    BY <1>2 DEF OpenQuotes
  <2>2. /\ valid /\ state = "ARGUMENT" /\ command = name /\ arguments = args
        /\ token = word /\ ~is_quoted /\ do_escape <= 0
    BY <2>1, AtRest DEF InMode
  <2>3. /\ mode' = q /\ line' = <<q>> /\ ending' = "open" /\ status' = "parsing"
        /\ valid' /\ state' = "ARGUMENT" /\ command' = name' /\ arguments' = args'
        /\ token' = word' /\ ~is_quoted' /\ do_escape' <= 0
    BY <1>2, <2>1, <2>2 DEF OpenQuotes, Writing
  <2>4. q # "name"
    BY Characters DEF Quotes
  <2>5. AtQuote'
    BY <2>3 DEF AtQuote
  <2> QED
    BY <2>3, <2>4, <2>5, ArgumentWritten DEF ArgumentInv
<1>3. ASSUME NEW c \in Chars, WriteChar(c) PROVE LineInv'
  <2>1. Writing /\ mode # "name"
    BY <1>3 DEF WriteChar
  <2>2. /\ valid /\ state = "ARGUMENT" /\ command = name /\ arguments = args
        /\ token = word /\ InMode /\ do_escape <= 0
    BY <2>1, AtRest
  <2>3. /\ mode' = mode /\ ending' = "open" /\ status' = "parsing"
        /\ valid' /\ state' = "ARGUMENT" /\ command' = name' /\ arguments' = args'
        /\ do_escape' <= 0 /\ word' = Append(token', c)
        /\ is_quoted' = is_quoted /\ is_dquote' = is_dquote
        /\ line' = <<Escape, c>> \/ (c \notin Meaningful /\ line' = <<c>>)
    BY <1>3, <2>1, <2>2 DEF WriteChar, Writing
  <2>4. InMode' /\ Meaningful' = Meaningful
    BY <2>2, <2>3 DEF InMode, Meaningful
  <2>5. AtChar'
    BY <2>3, <2>4 DEF AtChar
  <2> QED
    BY <2>1, <2>3, <2>5, ArgumentWritten DEF ArgumentInv
<1>4. ASSUME NEW e \in {"none", "LF", "CRLF"}, WriteEnding(e) PROVE LineInv'
  <2>1. /\ Writing /\ mode \in {"name", "plain"}
        /\ ending' = e /\ line' = Ending(e) /\ mode' = mode
    BY <1>4 DEF WriteEnding
  <2>2. /\ e = "none" => line' = <<>>
        /\ e # "none" => line' \in Rest \ {<<>>}
    BY <2>1, Tuples DEF Ending, Rest
  <2>3. CASE mode = "name"
    <3>1. /\ valid /\ state = "COMMAND" /\ name = token /\ do_escape <= 0
          /\ args = <<>> /\ word = <<>> /\ arguments = <<>> /\ command = <<>>
          /\ ~is_quoted
      BY <2>1, <2>3, AtRest
    <3>2. /\ valid' /\ status' = "parsing" /\ state' = "COMMAND" /\ name' = token'
          /\ args' = <<>> /\ word' = <<>> /\ arguments' = <<>> /\ command' = <<>>
          /\ ~is_quoted' /\ do_escape' <= 0
      BY <1>4, <2>1, <3>1 DEF WriteEnding, Writing
    <3>3. line' \in Rest
      BY <2>1, <2>2 DEF Rest
    <3> QED
      BY <2>1, <2>3, <3>2, <3>3
         DEF LineInv, NameInv, ArgumentInv, BadInv, ResultInv, ThrowsIffMalformed
  <2>4. CASE mode = "plain"
    <3>1. /\ valid /\ state = "ARGUMENT" /\ command = name /\ arguments = args
          /\ token = word /\ ~is_quoted /\ do_escape <= 0
      BY <2>1, <2>4, AtRest DEF InMode
    <3>2. /\ valid' /\ status' = "parsing" /\ state' = "ARGUMENT"
          /\ command' = name' /\ arguments' = args' /\ token' = word'
          /\ ~is_quoted' /\ do_escape' <= 0
      BY <1>4, <2>1, <3>1 DEF WriteEnding, Writing
    <3>3. AtEnd'
      BY <2>1, <2>2, <2>4, <3>2 DEF AtEnd, Rest
    <3> QED
      BY <2>1, <2>4, <3>2, <3>3, ArgumentWritten DEF ArgumentInv
  <2> QED
    BY <2>1, <2>3, <2>4
<1>5. CASE StartArgument
  <2>1. Writing /\ mode \in {"name", "plain"}
    BY <1>5 DEF StartArgument
  <2>2. /\ line' = <<" ">> /\ ending' = "open" /\ mode' = "plain" /\ word' = <<>>
        /\ args' = Written /\ status' = "parsing" /\ valid' /\ do_escape' <= 0
        /\ state' = state /\ token' = token /\ arguments' = arguments
        /\ command' = command /\ name' = name /\ is_quoted' = is_quoted
    BY <1>5, <2>1, AtRest DEF StartArgument
  <2>3. AtSpace'
    <3>1. CASE mode = "name"
      <4>1. /\ state = "COMMAND" /\ args = <<>> /\ arguments = <<>>
            /\ token = name /\ ~is_quoted
        BY <2>1, <3>1, AtRest
      <4> QED
        BY <2>2, <3>1, <4>1 DEF AtSpace, Written
    <3>2. CASE mode = "plain"
      <4>1. /\ state = "ARGUMENT" /\ command = name /\ arguments = args
            /\ token = word /\ ~is_quoted
        BY <2>1, <3>2, AtRest DEF InMode
      <4> QED
        BY <2>2, <3>2, <4>1 DEF AtSpace, Written
    <3> QED
      BY <2>1, <3>1, <3>2
  <2> QED
    BY <2>2, <2>3, ArgumentWritten DEF ArgumentInv
<1>6. CASE CloseQuotes
  <2>1. Writing /\ mode \in Quotes
    BY <1>6 DEF CloseQuotes, Quotes
  <2>2. mode # "name" /\ mode # "plain"
    BY <2>1, Characters DEF Quotes
  <2>3. /\ valid /\ state = "ARGUMENT" /\ command = name /\ arguments = args
        /\ token = word /\ is_quoted /\ (is_dquote <=> mode = DQuote)
        /\ do_escape <= 0
    BY <2>1, <2>2, AtRest DEF InMode
  <2>4. /\ mode' = "plain" /\ line' = <<mode>> /\ ending' = "open"
        /\ status' = "parsing" /\ valid' /\ state' = "ARGUMENT"
        /\ command' = name' /\ arguments' = args' /\ token' = word' /\ is_quoted'
        /\ (is_dquote' <=> mode = DQuote) /\ do_escape' <= 0
    BY <1>6, <2>1, <2>3 DEF CloseQuotes, Writing
  <2>5. AtQuote'
    BY <2>1, <2>4 DEF AtQuote
  <2> QED
    BY <2>4, <2>5, ArgumentWritten DEF ArgumentInv
<1>7. CASE UNCHANGED lineAllVars
  BY <1>7 DEF lineAllVars, lineVars, LineInv, NameInv, ArgumentInv, BadInv, ResultInv,
     ThrowsIffMalformed, Good, AtSpace, CaughtUp, AtQuote, AtChar, AtEnd, InMode,
     Meaningful, Written
<1> QED
  BY <1>1, <1>2, <1>3, <1>4, <1>5, <1>6, <1>7 DEF LineNext, Quotes

-----------------------------------------------------------------------------
(* The parser *)

\* The next character of a line that is not well formed.
LEMMA ReadBad ==
  ASSUME LineInv, LineTypes', ReadChar, ~valid
  PROVE  LineInv'
<1>1. /\ line # <<>> /\ Parse(Head(line)) /\ status = "parsing" /\ line' = Tail(line)
      /\ UNCHANGED <<name, valid, mode, args, word, areas, ending>>
  BY DEF ReadChar, Parse
<1>2. mode = "name" /\ ending = "open"
  BY <1>1 DEF LineInv, BadInv
<1>3. ASSUME Throw PROVE LineInv'
  BY <1>1, <1>3
     DEF Throw, LineInv, NameInv, ArgumentInv, BadInv, ResultInv,
         ThrowsIffMalformed, Good
<1>4. CASE \E c \in NameChars : state = "START" /\ prefix = "/" /\ line = <<c>>
  <2>1. PICK c \in NameChars : line = <<c>>
    BY <1>4
  <2>2. Head(line) = c /\ c # "/"
    BY <2>1, Tuples, Characters
  <2> QED
    BY <1>1, <1>3, <1>4, <2>2 DEF Parse, Start, Command, Argument
<1>5. CASE \E c \in OtherChars : state = "START" /\ prefix = "/" /\ line = <<"/", c>>
  <2>1. PICK c \in OtherChars : line = <<"/", c>>
    BY <1>5
  <2>2. Head(line) = "/" /\ line' = <<c>> /\ line' # <<>> /\ Head(line') = c
    BY <1>1, <2>1, Tuples
  <2>3. state' = "COMMAND" /\ status' = "parsing"
    BY <1>1, <1>5, <2>2 DEF Parse, Start, Command, Argument, NextChar, Throw
  <2> QED
    BY <1>1, <1>2, <2>2, <2>3
       DEF LineInv, NameInv, ArgumentInv, BadInv, ResultInv, ThrowsIffMalformed, Good
<1>6. CASE state = "COMMAND" /\ Head(line) \in OtherChars \cup {"/"}
  <2>1. Head(line) \notin CommandChars \cup {" ", "CR", "LF"}
    BY <1>6, Characters
  <2> QED
    BY <1>1, <1>3, <1>6, <2>1 DEF Parse, Start, Command, Argument
<1> QED
  BY <1>1, <1>4, <1>5, <1>6 DEF LineInv, BadInv

\* The next character of a command.
LEMMA ReadName ==
  ASSUME LineInv, LineTypes', ReadChar, valid, mode = "name"
  PROVE  LineInv'
<1>1. /\ line # <<>> /\ Parse(Head(line)) /\ status = "parsing" /\ line' = Tail(line)
      /\ UNCHANGED <<name, valid, mode, args, word, areas, ending>>
  BY DEF ReadChar, Parse
<1>2. /\ args = <<>> /\ word = <<>> /\ arguments = <<>> /\ command = <<>>
      /\ ~is_quoted /\ do_escape <= 0 /\ do_escape \in Int
  BY <1>1 DEF LineInv, NameInv, Good, LineTypes, TypeOK
<1>3. ASSUME status' = "parsing", NameInv' PROVE LineInv'
  BY <1>1, <1>3 DEF LineInv, ArgumentInv, BadInv, ResultInv, ThrowsIffMalformed
<1>4. CASE state = "START"
  <2>1. /\ prefix = "/" /\ ending = "open" /\ token = <<>>
        /\ \E c \in CommandChars : name = <<c>> /\ line = <<"/", c>>
    BY <1>1, <1>4 DEF LineInv, NameInv, Good
  <2>2. PICK c \in CommandChars : name = <<c>> /\ line = <<"/", c>>
    BY <2>1
  <2>3. Head(line) = "/" /\ line' = <<c>>
    BY <1>1, <2>2, Tuples
  <2>4. /\ state' = "COMMAND" /\ status' = "parsing" /\ token' = token
        /\ arguments' = arguments /\ command' = command /\ is_quoted' = is_quoted
        /\ do_escape' = do_escape - 1
    BY <1>1, <1>4, <2>1, <2>3 DEF Parse, Start, Command, Argument, NextChar
  <2>5. name = Append(token, c)
    BY <2>1, <2>2
  <2>6. do_escape' <= 0
    BY <1>2, <2>4
  <2>7. NameInv'
    BY <1>1, <1>2, <2>1, <2>3, <2>4, <2>5, <2>6 DEF NameInv
  <2> QED
    BY <1>3, <2>4, <2>7
<1>5. CASE state = "COMMAND" /\ ending = "open"
  <2>1. PICK c \in CommandChars : line = <<c>> /\ name = Append(token, c)
    BY <1>1, <1>5 DEF LineInv, NameInv, Good
  <2>2. Head(line) = c /\ line' = <<>> /\ c \notin {" ", "CR", "LF"}
    BY <1>1, <2>1, Tuples, Characters
  <2>3. /\ state' = "COMMAND" /\ status' = "parsing" /\ token' = name
        /\ arguments' = arguments /\ command' = command /\ is_quoted' = is_quoted
        /\ do_escape' = do_escape - 1
    BY <1>1, <1>5, <2>1, <2>2 DEF Parse, Start, Command, Argument, NextChar, Put
  <2>4. do_escape' <= 0
    BY <1>2, <2>3
  <2>5. NameInv'
    BY <1>1, <1>2, <1>5, <2>2, <2>3, <2>4 DEF NameInv
  <2> QED
    BY <1>3, <2>3, <2>5
<1>6. CASE state = "COMMAND" /\ ending # "open"
  <2>1. name = token /\ line \in Rest
    BY <1>1, <1>6 DEF LineInv, NameInv, Good
  <2>2. Head(line) \in {"CR", "LF"} /\ line' \in Rest
    BY <1>1, <2>1, Tuples DEF Rest
  <2>3. Head(line) \notin CommandChars \cup {" "}
    BY <2>2, Characters
  <2>4. /\ state' = "COMMAND" /\ status' = "parsing" /\ token' = token
        /\ arguments' = arguments /\ command' = command /\ is_quoted' = is_quoted
        /\ do_escape' = do_escape - 1
    BY <1>1, <1>6, <2>2, <2>3 DEF Parse, Start, Command, Argument, NextChar, Ignore
  <2>5. do_escape' <= 0
    BY <1>2, <2>4
  <2>6. NameInv'
    BY <1>1, <1>2, <1>6, <2>1, <2>2, <2>4, <2>5 DEF NameInv
  <2> QED
    BY <1>3, <2>4, <2>6
<1> QED
  BY <1>1, <1>4, <1>5, <1>6 DEF LineInv, NameInv, Good

\* A character of an argument that is not escaped.
LEMMA Unescaped ==
  ASSUME TypeOK, NEW x, Parse(x), state = "ARGUMENT", do_escape <= 0
  PROVE  \/ x = Escape /\ StartEscape
         \/ x \in {Quote, DQuote} /\ QuoteOrDQuote(x) /\ NextChar
         \/ /\ x \notin {Escape, Quote, DQuote} /\ NextChar
            /\ \/ is_quoted /\ Put(x)
               \/ ~is_quoted /\ x = "CR" /\ Ignore
               \/ ~is_quoted /\ x \in {" ", "LF"} /\ EndArgument
               \/ ~is_quoted /\ x \notin {"CR", " ", "LF"} /\ Put(x)
<1>1. ~(do_escape > 0)
  BY DEF TypeOK
<1>2. Argument(x)
  BY DEF Parse, Start, Command
<1> QED
  BY <1>1, <1>2 DEF Argument

\* The next character of an argument.
LEMMA ReadArgument ==
  ASSUME LineInv, LineTypes', ReadChar, valid, mode # "name"
  PROVE  LineInv'
<1>1. /\ line # <<>> /\ Parse(Head(line)) /\ status = "parsing" /\ line' = Tail(line)
      /\ UNCHANGED <<name, valid, mode, args, word, areas, ending>>
  BY DEF ReadChar, Parse
<1>2. /\ TypeOK /\ mode \in {"plain"} \cup Quotes
      /\ is_quoted \in BOOLEAN /\ is_dquote \in BOOLEAN
      /\ do_escape <= 0 => do_escape - 1 <= 0
      /\ do_escape = 1 => do_escape - 1 <= 0
  BY DEF LineInv, LineTypes, TypeOK
<1>3. ASSUME status' = "parsing", ArgumentInv' PROVE LineInv'
  BY <1>1, <1>3, ArgumentWritten
<1>4. CASE AtSpace
  <2>1. Head(line) = " " /\ line' = <<>> /\ word = <<>> /\ mode = "plain"
    BY <1>1, <1>4, Tuples DEF AtSpace
  <2>2. " " \notin CommandChars /\ " " \notin {Escape, Quote, DQuote}
    BY Characters
  <2>3. ~is_quoted /\ do_escape <= 0 /\ ending = "open"
    BY <1>4 DEF AtSpace
  <2>4. CASE state = "COMMAND"
    <3>1. args = <<>> /\ arguments = <<>> /\ token = name
      BY <1>4, <2>4 DEF AtSpace
    <3>2. /\ status' = "parsing" /\ state' = "ARGUMENT" /\ command' = token
          /\ token' = <<>> /\ arguments' = arguments /\ is_quoted' = is_quoted
          /\ do_escape' = do_escape - 1
      BY <1>1, <2>1, <2>2, <2>4
         DEF Parse, Start, Command, Argument, NextChar, Put, Ignore, Throw
    <3>3. do_escape' <= 0
      BY <1>2, <2>3, <3>2
    <3>4. CaughtUp'
      BY <1>1, <2>1, <2>3, <3>2, <3>3 DEF CaughtUp, InMode
    <3> QED
      BY <1>1, <1>3, <2>3, <3>1, <3>2, <3>4 DEF ArgumentInv
  <2>5. CASE state = "ARGUMENT"
    <3>1. command = name /\ args = Append(arguments, token)
      BY <1>4, <2>5 DEF AtSpace
    <3>2. /\ status' = "parsing" /\ state' = "ARGUMENT" /\ command' = command
          /\ token' = <<>> /\ arguments' = Append(arguments, token)
          /\ is_quoted' = is_quoted /\ do_escape' = do_escape - 1
      <4>1. EndArgument /\ NextChar
        BY <1>1, <1>2, <2>1, <2>2, <2>3, <2>5, Unescaped
      <4> QED
        BY <1>1, <2>5, <4>1 DEF EndArgument, NextChar
    <3>3. do_escape' <= 0
      BY <1>2, <2>3, <3>2
    <3>4. CaughtUp'
      BY <1>1, <2>1, <2>3, <3>2, <3>3 DEF CaughtUp, InMode
    <3> QED
      BY <1>1, <1>3, <2>3, <3>1, <3>2, <3>4 DEF ArgumentInv
  <2> QED
    BY <1>4, <2>4, <2>5 DEF AtSpace
<1>5. ASSUME state = "ARGUMENT", command = name, ending = "open", arguments = args,
             AtQuote
      PROVE  LineInv'
  <2>1. PICK q \in Quotes :
          /\ line = <<q>>
          /\ \/ mode = q /\ ~is_quoted
             \/ mode = "plain" /\ is_quoted /\ (is_dquote <=> q = DQuote)
    BY <1>5 DEF AtQuote
  <2>2. Head(line) = q /\ line' = <<>>
    BY <1>1, <2>1, Tuples
  <2>3. q \in {Quote, DQuote} /\ q # Escape /\ q # "plain"
    BY Characters DEF Quotes
  <2>4. token = word /\ do_escape <= 0
    BY <1>5 DEF AtQuote
  <2>5. QuoteOrDQuote(q) /\ NextChar
    BY <1>1, <1>2, <1>5, <2>2, <2>3, <2>4, Unescaped
  <2>6. /\ status' = "parsing" /\ state' = "ARGUMENT" /\ command' = command
        /\ token' = token /\ arguments' = arguments /\ do_escape' = do_escape - 1
        /\ \/ mode = q /\ is_quoted' /\ (is_dquote' <=> q = DQuote)
           \/ mode = "plain" /\ ~is_quoted'
    <3>1. CASE mode = q /\ ~is_quoted
      BY <1>1, <1>5, <2>5, <3>1 DEF QuoteOrDQuote, NextChar
    <3>2. CASE mode = "plain" /\ is_quoted /\ (is_dquote <=> q = DQuote)
      <4>1. is_dquote = (q = DQuote)
        BY <1>2, <3>2
      <4> QED
        BY <1>1, <1>5, <2>5, <3>2, <4>1 DEF QuoteOrDQuote, NextChar
    <3> QED
      BY <2>1, <3>1, <3>2
  <2>7. do_escape' <= 0
    BY <1>2, <2>4, <2>6
  <2>8. CaughtUp'
    BY <1>1, <2>2, <2>3, <2>4, <2>6, <2>7 DEF CaughtUp, InMode
  <2> QED
    BY <1>1, <1>3, <1>5, <2>6, <2>8 DEF ArgumentInv
<1>6. ASSUME state = "ARGUMENT", command = name, ending = "open", arguments = args,
             AtChar
      PROVE  LineInv'
  <2>1. PICK c \in Chars :
          /\ word = Append(token, c)
          /\ \/ line = <<Escape, c>> /\ do_escape <= 0
             \/ line = <<c>> /\ do_escape = 1
             \/ line = <<c>> /\ do_escape <= 0 /\ c \notin Meaningful
    BY <1>6 DEF AtChar
  <2>2. InMode
    BY <1>6 DEF AtChar
  <2>3. CASE line = <<Escape, c>> /\ do_escape <= 0
    <3>1. Head(line) = Escape /\ line' = <<c>>
      BY <1>1, <2>3, Tuples
    <3>2. Escape \notin {Quote, DQuote}
      BY Characters
    <3>3. StartEscape
      BY <1>1, <1>2, <1>6, <2>3, <3>1, <3>2, Unescaped
    <3>4. /\ status' = "parsing" /\ state' = state /\ token' = token
          /\ command' = command /\ arguments' = arguments /\ do_escape' = 1
          /\ is_quoted' = is_quoted /\ is_dquote' = is_dquote
      BY <1>1, <3>3 DEF StartEscape, Ignore
    <3>5. AtChar'
      BY <1>1, <2>1, <2>2, <3>1, <3>4 DEF AtChar, InMode
    <3> QED
      BY <1>1, <1>3, <1>6, <3>4, <3>5 DEF ArgumentInv
  <2>4. CASE line = <<c>>
    <3>1. Head(line) = c /\ line' = <<>>
      BY <1>1, <2>4, Tuples
    <3>2. Put(c) /\ NextChar
      <4>1. CASE do_escape = 1
        BY <1>1, <1>6, <3>1, <4>1 DEF Parse, Start, Command, Argument
      <4>2. CASE do_escape <= 0 /\ c \notin Meaningful
        <5>1. mode = "plain" => c \notin {" ", Quote, DQuote, Escape, "CR", "LF"}
          BY <4>2, Characters DEF Meaningful
        <5>2. mode # "plain" => c # mode /\ c # Escape
          BY <4>2 DEF Meaningful
        <5>3. c # Escape
          BY <5>1, <5>2
        <5>4. CASE c \in {Quote, DQuote}
          <6>1. mode \in {Quote, DQuote} /\ c # mode /\ mode # "plain"
            BY <1>2, <5>1, <5>2, <5>4, Characters DEF Quotes
          <6>2. is_quoted /\ (is_dquote <=> mode = DQuote)
            BY <2>2, <6>1 DEF InMode
          <6>3. ~(is_dquote <=> c = DQuote)
            <7>1. Quote # DQuote
              BY Characters
            <7> QED
              BY <5>4, <6>1, <6>2, <7>1
          <6>4. QuoteOrDQuote(c) /\ NextChar
            BY <1>1, <1>2, <1>6, <3>1, <4>2, <5>3, <5>4, Unescaped
          <6> QED
            BY <6>2, <6>3, <6>4 DEF QuoteOrDQuote
        <5>5. CASE c \notin {Quote, DQuote}
          <6>1. is_quoted \/ c \notin {" ", "CR", "LF"}
            BY <2>2, <5>1 DEF InMode
          <6> QED
            BY <1>1, <1>2, <1>6, <3>1, <4>2, <5>3, <5>5, <6>1, Unescaped
        <5> QED
          BY <5>4, <5>5
      <4> QED
        BY <2>1, <2>4, <4>1, <4>2
    <3>3. /\ status' = "parsing" /\ state' = state /\ token' = word
          /\ command' = command /\ arguments' = arguments
          /\ do_escape' = do_escape - 1
          /\ is_quoted' = is_quoted /\ is_dquote' = is_dquote
      BY <1>1, <2>1, <3>2 DEF Put, NextChar
    <3>4. do_escape' <= 0
      BY <1>2, <2>1, <3>3
    <3>5. CaughtUp'
      BY <1>1, <2>2, <3>1, <3>3, <3>4 DEF CaughtUp, InMode
    <3> QED
      BY <1>1, <1>3, <1>6, <3>3, <3>5 DEF ArgumentInv
  <2> QED
    BY <2>1, <2>3, <2>4
<1>7. ASSUME state = "ARGUMENT", command = name, ending # "open", AtEnd
      PROVE  LineInv'
  <2>1. /\ mode = "plain" /\ ~is_quoted /\ do_escape <= 0
        /\ arguments = args /\ token = word /\ ending # "none"
        /\ line \in Rest \ {<<>>}
    BY <1>1, <1>7 DEF AtEnd
  <2>2. \/ Head(line) = "LF" /\ line' = <<>>
        \/ Head(line) = "CR" /\ line' = <<"LF">>
    BY <1>1, <2>1, Tuples DEF Rest
  <2>3. "LF" \notin {Escape, Quote, DQuote} /\ "CR" \notin {Escape, Quote, DQuote}
    BY Characters
  <2>4. CASE Head(line) = "LF" /\ line' = <<>>
    <3>1. EndArgument /\ NextChar
      BY <1>1, <1>2, <1>7, <2>1, <2>3, <2>4, Unescaped
    <3>2. /\ status' = "parsing" /\ state' = state /\ token' = <<>>
          /\ command' = command /\ arguments' = Append(arguments, token)
          /\ do_escape' = do_escape - 1 /\ is_quoted' = is_quoted
      BY <1>1, <3>1 DEF EndArgument, NextChar
    <3>3. do_escape' <= 0
      BY <1>2, <2>1, <3>2
    <3>4. AtEnd'
      BY <1>1, <2>1, <2>4, <3>2, <3>3 DEF AtEnd
    <3> QED
      BY <1>1, <1>3, <1>7, <3>2, <3>4 DEF ArgumentInv
  <2>5. CASE Head(line) = "CR" /\ line' = <<"LF">>
    <3>1. Ignore /\ NextChar
      BY <1>1, <1>2, <1>7, <2>1, <2>3, <2>5, Unescaped
    <3>2. /\ status' = "parsing" /\ state' = state /\ token' = token
          /\ command' = command /\ arguments' = arguments
          /\ do_escape' = do_escape - 1 /\ is_quoted' = is_quoted
      BY <1>1, <3>1 DEF Ignore, NextChar
    <3>3. do_escape' <= 0
      BY <1>2, <2>1, <3>2
    <3>4. line' \in Rest \ {<<>>}
      BY <2>5, Tuples DEF Rest
    <3>5. AtEnd'
      BY <1>1, <2>1, <3>2, <3>3, <3>4 DEF AtEnd, Rest
    <3> QED
      BY <1>1, <1>3, <1>7, <3>2, <3>5 DEF ArgumentInv
  <2> QED
    BY <2>2, <2>4, <2>5
<1>8. ~CaughtUp
  BY <1>1 DEF CaughtUp
<1> QED
  BY <1>1, <1>4, <1>5, <1>6, <1>7, <1>8 DEF LineInv, ArgumentInv, Good

\* parse() returns.
LEMMA ReturnStep ==
  ASSUME LineInv, LineTypes', ReadEnd
  PROVE  LineInv'
<1>1. /\ line = <<>> /\ ending # "open" /\ status = "parsing" /\ status' = "returned"
      /\ UNCHANGED <<name, valid, mode, args, word, line, ending>>
  BY DEF ReadEnd, Return, lineVars
<1>2. valid
  BY <1>1 DEF LineInv, BadInv
<1>3. ResultInv'
  <2>1. CASE mode = "name"
    <3>1. /\ state = "COMMAND" /\ name = token /\ args = <<>> /\ word = <<>>
          /\ arguments = <<>> /\ command = <<>>
      BY <1>1, <1>2, <2>1 DEF LineInv, NameInv, Good
    <3>2. /\ command' = IF token # <<>> THEN token ELSE command
          /\ arguments' = arguments
      BY <3>1 DEF ReadEnd, Return
    <3> QED
      BY <1>1, <2>1, <3>1, <3>2 DEF ResultInv, Written
  <2>2. CASE mode # "name"
    <3>1. state = "ARGUMENT" /\ command = name /\ AtEnd
      BY <1>1, <1>2, <2>2 DEF LineInv, ArgumentInv, AtSpace, Good
    <3>2. /\ command' = command
          /\ arguments' = IF token # <<>> THEN Append(arguments, token) ELSE arguments
      BY <3>1 DEF ReadEnd, Return
    <3>3. \/ arguments = args /\ token = word /\ ending = "none"
          \/ arguments = Append(args, word) /\ token = <<>> /\ ending # "none"
      BY <1>1, <3>1 DEF AtEnd
    <3> QED
      BY <1>1, <2>2, <3>1, <3>2, <3>3 DEF ResultInv, Written
  <2> QED
    BY <2>1, <2>2
<1> QED
  BY <1>1, <1>2, <1>3
     DEF LineInv, NameInv, ArgumentInv, BadInv, ThrowsIffMalformed, Good

-----------------------------------------------------------------------------
(* Theorems *)

LEMMA LineInvInit == LineInit => LineInv
<1> SUFFICES ASSUME LineInit PROVE LineInv
  OBVIOUS
<1>1. LineTypes
  BY LineTypesInit
<1>2. PICK c \in NameChars :
        /\ name = <<c>>
        /\ \/ line = <<c>> /\ (valid <=> prefix = "NUL" /\ c \in CommandChars)
           \/ line = <<"/", c>> /\ (valid <=> prefix = "/" /\ c \in CommandChars)
  BY DEF LineInit
<1>3. c \notin CommandChars => c \in OtherChars
  BY DEF NameChars
<1>4. /\ mode = "name" /\ args = <<>> /\ word = <<>> /\ ending = "open"
      /\ arguments = <<>> /\ command = <<>> /\ token = <<>> /\ status = "parsing"
      /\ ~is_quoted /\ do_escape <= 0 /\ prefix \in {"/", "NUL"}
      /\ prefix = "NUL" => state = "COMMAND"
      /\ prefix = "/" => state = "START"
  BY DEF LineInit, Init
<1>5. NameInv
  <2>1. <<c>> = Append(<<>>, c)
    OBVIOUS
  <2> QED
    BY <1>2, <1>4, <2>1 DEF NameInv, Good
<1>6. BadInv
  <2>1. CASE line = <<c>>
    BY <1>2, <1>3, <1>4, <2>1, Tuples DEF BadInv
  <2>2. CASE line = <<"/", c>>
    BY <1>2, <1>3, <1>4, <2>2, Tuples DEF BadInv
  <2> QED
    BY <1>2, <2>1, <2>2
<1> QED
  BY <1>1, <1>4, <1>5, <1>6 DEF LineInv, ArgumentInv, ResultInv, ThrowsIffMalformed

LEMMA LineInvStep ==
  ASSUME LineInv, [LineNext]_lineAllVars
  PROVE  LineInv'
<1>1. LineTypes'
  BY LineTypesStep DEF LineInv
<1> QED
  BY <1>1, WriterStep, ReadBad, ReadName, ReadArgument, ReturnStep

LEMMA PrefixByElements ==
  ASSUME NEW T, NEW s \in Seq(T), NEW t \in Seq(T), Len(s) <= Len(t),
         \A i \in 1..Len(s) : t[i] = s[i]
  PROVE  IsPrefix(s, t)
<1>1. Len(s) \in Nat /\ \A i \in 1..Len(s) : t[i] \in T
  OBVIOUS
<1>2. /\ SubSeq(t, 1, Len(s)) \in Seq(T)
      /\ Len(SubSeq(t, 1, Len(s))) = IF 1 <= Len(s) THEN Len(s) - 1 + 1 ELSE 0
      /\ \A i \in 1..(Len(s) - 1 + 1) : SubSeq(t, 1, Len(s))[i] = t[1 + i - 1]
  BY <1>1, SubSeqProperties
<1>3. /\ Len(SubSeq(t, 1, Len(s))) = Len(s)
      /\ \A i \in 1..Len(s) : SubSeq(t, 1, Len(s))[i] = s[i]
  BY <1>1, <1>2
<1>4. SubSeq(t, 1, Len(s)) = s
  BY <1>2, <1>3, SeqEqual
<1> QED
  BY <1>4, SubSeqFull DEF IsPrefix

LEMMA PrefixOfAppend ==
  ASSUME NEW T, NEW s \in Seq(T), NEW a \in T, NEW b \in T
  PROVE  /\ IsPrefix(<<>>, s) /\ IsPrefix(s, s) /\ IsPrefix(s, Append(s, a))
         /\ IsPrefix(s, Append(Append(s, a), b))
<1>1. Len(s) \in Nat /\ <<>> \in Seq(T) /\ Len(<<>>) = 0
  OBVIOUS
<1>2. /\ Append(s, a) \in Seq(T) /\ Len(Append(s, a)) = Len(s) + 1
      /\ \A i \in 1..Len(s) : Append(s, a)[i] = s[i]
  BY AppendProperties
<1>3. /\ Append(Append(s, a), b) \in Seq(T)
      /\ Len(Append(Append(s, a), b)) = Len(s) + 1 + 1
      /\ \A i \in 1..(Len(s) + 1) : Append(Append(s, a), b)[i] = Append(s, a)[i]
  BY <1>2, AppendProperties
<1>4. \A i \in 1..Len(s) : Append(Append(s, a), b)[i] = s[i]
  BY <1>1, <1>2, <1>3
<1>5. Len(s) <= Len(s) /\ Len(s) <= Len(s) + 1 /\ Len(s) <= Len(s) + 1 + 1
  BY <1>1
<1>6. IsPrefix(<<>>, s)
  <2>1. Len(<<>>) <= Len(s) /\ \A i \in 1..Len(<<>>) : s[i] = <<>>[i]
    BY <1>1
  <2> QED
    BY <1>1, <2>1, PrefixByElements
<1>7. IsPrefix(s, Append(s, a))
  BY <1>2, <1>5, PrefixByElements
<1>8. IsPrefix(s, Append(Append(s, a), b))
  BY <1>3, <1>4, <1>5, PrefixByElements
<1>9. IsPrefix(s, s)
  BY <1>5, PrefixByElements
<1> QED
  BY <1>6, <1>7, <1>8, <1>9

\* Between two characters parse() has collected a prefix of the arguments.
LEMMA PrefixRead ==
  ASSUME LineInv, Good
  PROVE  IsPrefix(arguments, Written)
<1>1. /\ args \in Seq(Text) /\ word \in Text /\ token \in Text
      /\ arguments \in Seq(Text) /\ Append(args, word) \in Seq(Text)
  BY DEF LineInv, LineTypes, TypeOK
<1>2. CASE mode = "name"
  <2>1. arguments = <<>> /\ Written = <<>>
    BY <1>2 DEF LineInv, NameInv, Written
  <2> QED
    BY <1>1, <2>1, PrefixOfAppend
<1>3. CASE mode # "name"
  <2>1. Written = Append(args, word)
    BY <1>3 DEF Written
  <2>2. CASE arguments = <<>>
    BY <1>1, <2>1, <2>2, PrefixOfAppend
  <2>3. CASE args = Append(arguments, token)
    BY <1>1, <2>1, <2>3, PrefixOfAppend
  <2>4. CASE arguments = args \/ arguments = Append(args, word)
    BY <1>1, <2>1, <2>4, PrefixOfAppend
  <2> QED
    BY <1>3, <2>2, <2>3, <2>4 DEF LineInv, ArgumentInv, AtSpace, AtEnd
<1> QED
  BY <1>2, <1>3

\* CommandParser::parse: the command and the arguments that were written come
\* back, whatever their number and length and however they are quoted.
THEOREM ReadsBack == LineSpec => []ReadsWhatWasWritten
<1>1. LineInv /\ [LineNext]_lineAllVars => LineInv'
  BY LineInvStep
<1>2. LineInv => ReadsWhatWasWritten
  BY PrefixRead DEF LineInv, ResultInv, ReadsWhatWasWritten, Good
<1> QED
  BY LineInvInit, <1>1, <1>2, PTL DEF LineSpec

\* CommandParser::parse: UnexpectedCharacter is thrown for every line whose
\* prefix or command is malformed and for no other, whatever its arguments hold.
THEOREM ThrowsForMalformed == LineSpec => []ThrowsIffMalformed
<1>1. LineInv /\ [LineNext]_lineAllVars => LineInv'
  BY LineInvStep
<1>2. LineInv => ThrowsIffMalformed
  BY DEF LineInv
<1> QED
  BY LineInvInit, <1>1, <1>2, PTL DEF LineSpec

\* CommandParser::parse on any text: the types, and do_escape never covers more
\* than one character.
THEOREM ParserTypes == Spec => []TypeOK
<1>1. Init => TypeOK
  BY ParserInit
<1>2. TypeOK /\ [Next]_commandParser => TypeOK'
  <2> SUFFICES ASSUME TypeOK, [Next]_commandParser PROVE TypeOK'
    OBVIOUS
  <2>1. CASE UNCHANGED commandParser
    BY <2>1 DEF commandParser, TypeOK
  <2> QED
    BY <2>1, ParseTypes, ReturnTypes DEF Next
<1> QED
  BY <1>1, <1>2, PTL DEF Spec

=============================================================================
