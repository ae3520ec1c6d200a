---------------------------- MODULE MCIRCParser -----------------------------
(***************************************************************************)
(* IRCParser with every input over one character of each class.  A text is *)
(* reduced to what the lexer asks of it: empty or not.                     *)
(***************************************************************************)
EXTENDS IRCParser

MCTexts == {<<>>, <<"x">>}

MCPut(t, x) == <<"x">>

=============================================================================
