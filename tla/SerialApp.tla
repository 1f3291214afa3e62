------------------------------ MODULE SerialApp ------------------------------
(***************************************************************************)
(* What an application built on a host promises to the code that sends it  *)
(* messages: a machine with one inbox that takes the messages one at a     *)
(* time in the order of arrival, applies each exactly once and finishes    *)
(* its consequences before it takes the next; it may die, and loses then   *)
(* what it has not applied.  Arrivals need no permission and never wait    *)
(* for a message to be finished.                                           *)
(*                                                                         *)
(* Module Host implements this specification (ImplementsSerialApp there).  *)
(***************************************************************************)
EXTENDS Naturals, Sequences

CONSTANT Message

VARIABLES
  inbox,  \* arrived, not taken
  hand,   \* taken, not applied: at most one
  phase,  \* "idle", "taken", "applied" or "dead"
  log     \* applied

vars == <<inbox, hand, phase, log>>

Init ==
  /\ inbox = <<>>
  /\ hand = <<>>
  /\ phase = "idle"
  /\ log = <<>>

\* `inbox'' has one message more, at its end.
Arrive ==
  /\ phase # "dead"
  /\ Len(inbox') = Len(inbox) + 1
  /\ inbox'[Len(inbox')] \in Message
  /\ inbox' = Append(inbox, inbox'[Len(inbox')])
  /\ UNCHANGED <<hand, phase, log>>

Take ==
  /\ phase = "idle"
  /\ inbox # <<>>
  /\ hand' = <<Head(inbox)>>
  /\ inbox' = Tail(inbox)
  /\ phase' = "taken"
  /\ UNCHANGED log

Apply ==
  /\ phase = "taken"
  /\ log' = log \o hand
  /\ hand' = <<>>
  /\ phase' = "applied"
  /\ UNCHANGED inbox

Finish ==
  /\ phase = "applied"
  /\ phase' = "idle"
  /\ UNCHANGED <<inbox, hand, log>>

Die ==
  /\ phase # "dead"
  /\ inbox' = <<>>
  /\ hand' = <<>>
  /\ phase' = "dead"
  /\ UNCHANGED log

Next == Arrive \/ Take \/ Apply \/ Finish \/ Die

Spec == Init /\ [][Next]_vars
=============================================================================
