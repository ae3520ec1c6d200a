--------------------------- MODULE PluginContract ---------------------------
(***************************************************************************)
(* What a plugin object promises to Core and to the author of a plugin,    *)
(* without threads, mutex or condition variable: messages are handed to    *)
(* the plugin's code one at a time, in arrival order, each exactly once,   *)
(* only between a spawn and the return of the matching stop, and after a   *)
(* stop request at most one more is handed over.                           *)
(***************************************************************************)
EXTENDS Integers, Sequences

VARIABLES
  phase,    \* "off", "on" or "stopping"
  queue,    \* accepted and not yet delivered, as arrival numbers
  accepted, \* number of messages accepted
  grace     \* deliveries still allowed while "stopping"

cvars == <<phase, queue, accepted, grace>>

Init ==
  /\ phase = "off"
  /\ queue = <<>>
  /\ accepted = 0
  /\ grace = 1

Accept ==
  /\ accepted' = accepted + 1
  /\ queue' = Append(queue, accepted')
  /\ UNCHANGED <<phase, grace>>

Deliver ==
  /\ queue # <<>>
  /\ \/ phase = "on" /\ grace' = grace
     \/ phase = "stopping" /\ grace = 1 /\ grace' = 0
  /\ queue' = Tail(queue)
  /\ UNCHANGED <<phase, accepted>>

Start ==
  /\ phase = "off"
  /\ phase' = "on"
  /\ UNCHANGED <<queue, accepted, grace>>

RequestStop ==
  /\ phase = "on"
  /\ phase' = "stopping"
  /\ grace' = 1
  /\ UNCHANGED <<queue, accepted>>

\* The worker may take back a stop request that precedes its first statement.
\* Nothing was delivered in between.
ForgetStop ==
  /\ phase = "stopping"
  /\ grace = 1
  /\ phase' = "on"
  /\ UNCHANGED <<queue, accepted, grace>>

\* The worker is joined, after a stop request or after its own death.
Stopped ==
  /\ phase \in {"on", "stopping"}
  /\ phase' = "off"
  /\ grace' = 1
  /\ UNCHANGED <<queue, accepted>>

Next == Accept \/ Deliver \/ Start \/ RequestStop \/ ForgetStop \/ Stopped

Spec == Init /\ [][Next]_cvars

=============================================================================
