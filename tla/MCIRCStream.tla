---------------------------- MODULE MCIRCStream -----------------------------
(***************************************************************************)
(* IRCStream with concrete messages.                                       *)
(***************************************************************************)
EXTENDS IRCStream

Message(server, nick, user, host, command, params) ==
  [SERVERNAME |-> server, NICK |-> nick, USER |-> user, HOST |-> host,
   COMMAND |-> command, params |-> params]

\* :a!#@1 aa # : :     with a space and a colon in the trailing parameter
FromUser ==
  Message(<<>>, <<"a">>, <<"#">>, <<"1">>, <<"a", "a">>,
          << <<"#">>, <<" ", ":">> >>)

\* :# 1 a :@
FromServer ==
  Message(<<"#">>, <<>>, <<>>, <<>>, <<"1">>, << <<"a">>, <<"@">> >>)

\* aa :    with an empty parameter
NoPrefix == Message(<<>>, <<>>, <<>>, <<>>, <<"a", "a">>, << <<>> >>)

\* aa      a command without parameters
NoParams == Message(<<>>, <<>>, <<>>, <<>>, <<"a", "a">>, <<>>)

\* :# aa   the same with a prefix
PrefixOnly == Message(<<"#">>, <<>>, <<>>, <<>>, <<"a", "a">>, <<>>)

LinesWithParams == {FromUser, FromServer, NoPrefix}

AllLines == LinesWithParams \cup {NoParams, PrefixOnly}

=============================================================================
