---------------------------- MODULE CommandLine ----------------------------
(***************************************************************************)
(* A user writes a command with arguments, quoting them as the class       *)
(* comment of include/ircbot/command_parser.hpp offers ("multi-word        *)
(* arguments, quotes, double quotes and escape character"), and            *)
(* CommandParser reads the line.  The writer is the reference the parser   *)
(* is checked against: reading a line gives back what was written.  It     *)
(* writes a character, or an escape and a character, at a time, and goes   *)
(* on when the parser has read that: parse() never looks ahead, so it does *)
(* not matter that in the program the line is complete before.             *)
(***************************************************************************)
EXTENDS CommandParser, SequencesExt

CONSTANTS
  MaxName,  \* bound: characters of the command
  MaxWord,  \* bound: characters of an argument
  MaxArgs,  \* bound: arguments of a line
  MaxAreas  \* bound: quoted areas of a line

ASSUME BoundsAssumption ==
  MaxName \in Nat /\ MaxWord \in Nat /\ MaxArgs \in Nat /\ MaxAreas \in Nat

VARIABLES
  name,    \* the command the user means
  valid,   \* is the beginning of the line well formed?
  mode,    \* within the "name", a "plain" part of an argument or the given quotes
  args,    \* the arguments the user means that are complete
  word,    \* the argument that is being written
  areas,   \* quoted areas so far
  line,    \* characters the parser has yet to read
  ending   \* "none", "LF" or "CRLF", "open" as long as the line is being written

lineVars == <<name, valid, mode, args, word, areas, line, ending>>
lineAllVars == <<commandParser, lineVars>>

NameChars == CommandChars \cup OtherChars

\* The characters that do not stand for themselves in the current mode.
Meaningful == IF mode = "plain" THEN Special ELSE {mode, Escape}

Ending(e) ==
  CASE e = "none" -> <<>>
    [] e = "LF"   -> <<"LF">>
    [] e = "CRLF" -> <<"CR", "LF">>

\* All arguments the user means.
Written == IF mode = "name" THEN args ELSE Append(args, word)

LineInit ==
  /\ Init
  /\ \E c \in NameChars :
       /\ name = <<c>>
       /\ \/ line = <<c>> /\ valid = (prefix = "NUL" /\ c \in CommandChars)
          \/ line = <<"/", c>> /\ valid = (prefix = "/" /\ c \in CommandChars)
  /\ mode = "name" /\ args = <<>> /\ word = <<>> /\ areas = 0
  /\ ending = "open"

-----------------------------------------------------------------------------
(* The writer *)

Writing == status = "parsing" /\ line = <<>> /\ ending = "open"

WriteName(c) ==
  /\ Writing /\ mode = "name" /\ Len(name) < MaxName
  /\ name' = Append(name, c)
  /\ valid' = (valid /\ c \in CommandChars)
  /\ line' = <<c>>
  /\ UNCHANGED <<commandParser, mode, args, word, areas, ending>>

StartArgument ==
  /\ Writing /\ mode \in {"name", "plain"} /\ Len(Written) < MaxArgs
  /\ args' = Written /\ word' = <<>>
  /\ mode' = "plain"
  /\ line' = <<" ">>
  /\ UNCHANGED <<commandParser, name, valid, areas, ending>>

OpenQuotes(q) ==
  /\ Writing /\ mode = "plain" /\ areas < MaxAreas
  /\ mode' = q /\ areas' = areas + 1
  /\ line' = <<q>>
  /\ UNCHANGED <<commandParser, name, valid, args, word, ending>>

CloseQuotes ==
  /\ Writing /\ mode \in {Quote, DQuote}
  /\ mode' = "plain"
  /\ line' = <<mode>>
  /\ UNCHANGED <<commandParser, name, valid, args, word, areas, ending>>

\* A character that has a meaning here needs an escape, any other may have one.
WriteChar(c) ==
  /\ Writing /\ mode # "name" /\ Len(word) < MaxWord
  /\ word' = Append(word, c)
  /\ line' = <<Escape, c>> \/ (c \notin Meaningful /\ line' = <<c>>)
  /\ UNCHANGED <<commandParser, name, valid, mode, args, areas, ending>>

WriteEnding(e) ==
  /\ Writing /\ mode \in {"name", "plain"}
  /\ line' = Ending(e)
  /\ ending' = e
  /\ UNCHANGED <<commandParser, name, valid, mode, args, word, areas>>

-----------------------------------------------------------------------------
(* The parser *)

ReadChar ==
  /\ line # <<>>
  /\ Parse(Head(line))
  /\ line' = Tail(line)
  /\ UNCHANGED <<name, valid, mode, args, word, areas, ending>>

ReadEnd ==
  /\ line = <<>> /\ ending # "open"
  /\ Return
  /\ UNCHANGED lineVars

LineNext ==
  \/ \E c \in NameChars : WriteName(c)
  \/ \E q \in {Quote, DQuote} : OpenQuotes(q)
  \/ \E c \in Chars : WriteChar(c)
  \/ \E e \in {"none", "LF", "CRLF"} : WriteEnding(e)
  \/ StartArgument \/ CloseQuotes
  \/ ReadChar \/ ReadEnd

LineSpec == LineInit /\ [][LineNext]_lineAllVars

-----------------------------------------------------------------------------
(* Properties *)

\* parse(): however its arguments are quoted and wherever the line ends, a
\* command comes back with the arguments that were written; only an empty last
\* argument without a line end behind it is not seen.
ReadsWhatWasWritten ==
  /\ valid /\ status = "parsing" => IsPrefix(arguments, Written)
  /\ valid /\ status = "returned" =>
       /\ command = name
       /\ arguments = IF ending = "none" /\ word = <<>> THEN args ELSE Written

\* parse(): UnexpectedCharacter is thrown for a missing or unwanted prefix and
\* for a character that is not allowed in a command, and never because of what
\* the arguments hold.
ThrowsIffMalformed ==
  /\ status = "thrown" => ~valid
  /\ status = "returned" => valid

=============================================================================
