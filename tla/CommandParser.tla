--------------------------- MODULE CommandParser ---------------------------
(***************************************************************************)
(* CommandParser::parse (source/command_parser.cpp): the text of a user's  *)
(* message, or of a line on the admin port, becomes a command and its      *)
(* arguments.  One call, character by character; everything but the        *)
(* configuration is local to the call.                                     *)
(***************************************************************************)
EXTENDS Integers, Sequences

CONSTANTS
  CommandChars,  \* characters of isCommandCharacter: a-z A-Z 0-9 -
  OtherChars     \* characters without a meaning to the parser

Quote == "'"
DQuote == "\""
Escape == "\\"
Special == {" ", Quote, DQuote, Escape, "CR", "LF"}

ASSUME CommandCharsAssumption ==
  /\ (CommandChars \cup OtherChars) \cap (Special \cup {"/", "NUL"}) = {}
  /\ CommandChars \cap OtherChars = {}

Chars == CommandChars \cup OtherChars \cup Special \cup {"/"}
Text == Seq(Chars)

VARIABLES
  prefix,                \* m_config.prefix: "/", or "NUL" for the admin port
  state,                 \* "START", "COMMAND" or "ARGUMENT"
  token,
  do_escape,             \* escapes the next character while it is positive
  is_quoted, is_dquote,  \* within quotes; of the double kind
  command, arguments,    \* the Command to be returned
  status                 \* "parsing", "returned" or "thrown"

commandParser == <<prefix, state, token, do_escape, is_quoted, is_dquote,
                   command, arguments, status>>

Init ==
  /\ prefix \in {"/", "NUL"}
  /\ state = IF prefix = "NUL" THEN "COMMAND" ELSE "START"
  /\ token = <<>>
  /\ do_escape = 0
  /\ is_quoted = FALSE /\ is_dquote = FALSE
  /\ command = <<>> /\ arguments = <<>>
  /\ status = "parsing"

Throw ==
  /\ status' = "thrown"
  /\ UNCHANGED <<prefix, state, token, do_escape, is_quoted, is_dquote,
                 command, arguments>>

\* --do_escape at the end of the loop's body.
NextChar ==
  /\ do_escape' = do_escape - 1
  /\ UNCHANGED <<prefix, status>>

\* token.put(x) or, for the ignored characters, nothing.
Put(x) ==
  /\ token' = Append(token, x)
  /\ UNCHANGED <<state, is_quoted, is_dquote, command, arguments>>

Ignore ==
  UNCHANGED <<state, token, is_quoted, is_dquote, command, arguments>>

Start(x) ==
  /\ state = "START"
  /\ \/ /\ x = prefix
        /\ state' = "COMMAND"
        /\ UNCHANGED <<token, is_quoted, is_dquote, command, arguments>>
        /\ NextChar
     \/ x # prefix /\ Throw

\* Mutant: what cannot be part of a command is ignored.
Command_Lenient(x) ==
  /\ state = "COMMAND"
  /\ \/ x \in CommandChars /\ Put(x) /\ NextChar
     \/ /\ x = " "
        /\ command' = token /\ token' = <<>>
        /\ state' = "ARGUMENT"
        /\ UNCHANGED <<is_quoted, is_dquote, arguments>>
        /\ NextChar
     \/ x \notin CommandChars \cup {" "} /\ Ignore /\ NextChar

Command(x) ==
  /\ state = "COMMAND"
  /\ \/ x \in CommandChars /\ Put(x) /\ NextChar
     \/ /\ x = " "
        /\ command' = token /\ token' = <<>>
        /\ state' = "ARGUMENT"
        /\ UNCHANGED <<is_quoted, is_dquote, arguments>>
        /\ NextChar
     \/ x \in {"CR", "LF"} /\ Ignore /\ NextChar
     \/ x \notin CommandChars \cup {" ", "CR", "LF"} /\ Throw

\* do_escape = 2, "escape this character and next one"
StartEscape ==
  /\ do_escape' = 2 - 1
  /\ UNCHANGED <<prefix, status>>
  /\ Ignore

\* Mutant: a quote of either kind leaves the quoted area.
QuoteOrDQuote_AnyCloses(x) ==
  /\ is_quoted' = ~is_quoted
  /\ is_dquote' = (x = DQuote)
  /\ UNCHANGED <<state, token, command, arguments>>

\* A quote or double quote leaves an area of its own kind, enters one, or is a
\* character of an area of the other kind.
QuoteOrDQuote(x) ==
  \/ /\ is_quoted /\ is_dquote = (x = DQuote)
     /\ is_quoted' = FALSE
     /\ UNCHANGED <<state, token, is_dquote, command, arguments>>
  \/ /\ ~is_quoted
     /\ is_quoted' = TRUE /\ is_dquote' = (x = DQuote)
     /\ UNCHANGED <<state, token, command, arguments>>
  \/ is_quoted /\ is_dquote # (x = DQuote) /\ Put(x)

EndArgument ==
  /\ arguments' = Append(arguments, token)
  /\ token' = <<>>
  /\ UNCHANGED <<state, is_quoted, is_dquote, command>>

Argument(x) ==
  /\ state = "ARGUMENT"
  /\ \/ do_escape > 0 /\ Put(x) /\ NextChar
     \/ do_escape <= 0 /\ x = Escape /\ StartEscape
     \/ do_escape <= 0 /\ x \in {Quote, DQuote} /\ QuoteOrDQuote(x) /\ NextChar
     \/ /\ do_escape <= 0 /\ x \notin {Escape, Quote, DQuote}
        /\ \/ is_quoted /\ Put(x)
           \/ ~is_quoted /\ x = "CR" /\ Ignore
           \/ ~is_quoted /\ x \in {" ", "LF"} /\ EndArgument
           \/ ~is_quoted /\ x \notin {"CR", " ", "LF"} /\ Put(x)
        /\ NextChar

Parse(x) ==
  /\ status = "parsing"
  /\ Start(x) \/ Command(x) \/ Argument(x)

\* The text ends: a token that is not empty is the command or an argument.
Return ==
  /\ status = "parsing"
  /\ status' = "returned"
  /\ command' = IF token # <<>> /\ state = "COMMAND" THEN token ELSE command
  /\ arguments' = IF token # <<>> /\ state = "ARGUMENT"
                  THEN Append(arguments, token) ELSE arguments
  /\ UNCHANGED <<prefix, state, token, do_escape, is_quoted, is_dquote>>

Next == (\E x \in Chars : Parse(x)) \/ Return

Spec == Init /\ [][Next]_commandParser

-----------------------------------------------------------------------------
(* Properties *)

\* The variables keep their types; do_escape never covers more than the
\* character that comes next.
TypeOK ==
  /\ prefix \in {"/", "NUL"}
  /\ state \in {"START", "COMMAND", "ARGUMENT"}
  /\ token \in Text
  /\ do_escape \in Int /\ do_escape <= 1
  /\ is_quoted \in BOOLEAN /\ is_dquote \in BOOLEAN
  /\ command \in Text
  /\ arguments \in Seq(Text)
  /\ status \in {"parsing", "returned", "thrown"}

=============================================================================
