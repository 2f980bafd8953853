---- MODULE OneShot ----
(***************************************************************************)
(* What a value that is set once promises its clients: it never changes,   *)
(* and every client that asks for it is given it exactly once.             *)
(***************************************************************************)
EXTENDS Sequences

CONSTANTS Clients, Values, Null

VARIABLES
  value,     \* Null until the value is set
  asked,     \* clients that have asked
  deliveries \* what each client was given

vars == <<value, asked, deliveries>>

Init ==
  /\ value = Null
  /\ asked = {}
  /\ deliveries = [c \in Clients |-> <<>>]

Set(v) ==
  /\ value = Null
  /\ value' = v
  /\ UNCHANGED <<asked, deliveries>>

Ask(c) ==
  /\ c \notin asked
  /\ asked' = asked \cup {c}
  /\ UNCHANGED <<value, deliveries>>

Deliver(c) ==
  /\ c \in asked
  /\ value # Null
  /\ deliveries[c] = <<>>
  /\ deliveries' = [deliveries EXCEPT ![c] = <<value>>]
  /\ UNCHANGED <<value, asked>>

Next ==
  \/ \E v \in Values : Set(v)
  \/ \E c \in Clients : Ask(c) \/ Deliver(c)

Safety == Init /\ [][Next]_vars

Spec == Safety /\ \A c \in Clients : WF_vars(Deliver(c))
====
