------------------------------ MODULE MCLogin -------------------------------
(***************************************************************************)
(* Login with one nick, two alternatives and one channel.                  *)
(***************************************************************************)
EXTENDS Login

MCAlternatives == <<"alt1", "alt2">>

=============================================================================
