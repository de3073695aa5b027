------------------------------ MODULE DurableFiles ------------------------------
(***************************************************************************)
(* What the replicated file service promises a client whose Close or Write *)
(* is answered with success: the update is durable, which does not pass,   *)
(* and visible, which it stays until a later request replaces it.          *)
(* Servers, logs, messages and crashes do not occur here; module           *)
(* Replication is shown to implement this.                                 *)
(***************************************************************************)
EXTENDS Integers

CONSTANTS
    Files,
    Entries    \* the updates, each with the number of its request and its file

VARIABLES
    issued,    \* requests so far
    durable,   \* updates that survive the loss of any minority of the disks
    shown,     \* the request whose contents each file shows, 0 for none
    answered   \* updates whose request was answered with success

abstract_vars == <<issued, durable, shown, answered>>

Init ==
    /\ issued = 0
    /\ durable = {}
    /\ shown = [f \in Files |-> 0]
    /\ answered = {}

\* A client asks for an update.
Request ==
    /\ issued' = issued + 1
    /\ UNCHANGED <<durable, shown, answered>>

\* An update becomes durable, whether or not its request will succeed.
Store ==
    /\ durable \subseteq durable'
    /\ \A e \in durable' \ durable : e \in Entries /\ e.op \in 1 .. issued
    /\ UNCHANGED <<issued, shown, answered>>

\* Files show later updates, never an earlier one: a restart may show several at
\* once, of requests that failed too.
Show ==
    /\ shown' \in [Files -> 0 .. issued]
    /\ \A f \in Files : shown[f] <= shown'[f]
    /\ UNCHANGED <<issued, durable, answered>>

\* Success is reported of what is durable and visible.
Reply ==
    /\ \E e \in durable :
          /\ shown[e.file] >= e.op
          /\ answered' = answered \cup {e}
    /\ UNCHANGED <<issued, durable, shown>>

Next == Request \/ Store \/ Show \/ Reply

Spec == Init /\ [][Next]_abstract_vars
=================================================================================
