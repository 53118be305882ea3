------------------------------- MODULE Delivery -------------------------------
(***************************************************************************)
(* What the message table promises of every message, whoever sends it: it  *)
(* is queued once, handed to the provider at most once, its outcome is     *)
(* recorded once, and only a message recorded as sent is acknowledged.  A  *)
(* failed message stays failed: a retry is another message.                *)
(***************************************************************************)

EXTENDS Naturals

CONSTANT Messages

VARIABLES
    state, \* state[m]: what the table says of message m
    handed \* handed[m]: how often message m was handed to the provider

vars == <<state, handed>>

States == {"none", "queued", "sent", "failed", "acknowledged"}

Move(m, from, to) ==
    /\ state[m] \in from
    /\ state' = [state EXCEPT ![m] = to]
    /\ UNCHANGED handed

Queue(m) == Move(m, {"none"}, "queued")

HandOver(m) ==
    /\ state[m] = "queued"
    /\ handed[m] = 0
    /\ handed' = [handed EXCEPT ![m] = 1]
    /\ UNCHANGED state

Sent(m) == handed[m] = 1 /\ Move(m, {"queued"}, "sent")
Failed(m) == handed[m] = 1 /\ Move(m, {"queued"}, "failed")
Acknowledged(m) == Move(m, {"sent", "acknowledged"}, "acknowledged")

Init ==
    /\ state = [m \in Messages |-> "none"]
    /\ handed = [m \in Messages |-> 0]

Next ==
    \E m \in Messages :
        Queue(m) \/ HandOver(m) \/ Sent(m) \/ Failed(m) \/ Acknowledged(m)

Spec == Init /\ [][Next]_vars
=============================================================================
