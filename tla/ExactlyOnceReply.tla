-------------------------- MODULE ExactlyOnceReply --------------------------
(***************************************************************************)
(* What WhatUp promises the people who text it (README.md, "What it does"): *)
(* every accepted SMS gets one reply, and no SMS leaves the system without  *)
(* it; a message that cannot be replied to stays, parked, for inspection.   *)
(***************************************************************************)
EXTENDS Sequences

CONSTANTS Messages, Texts

VARIABLES
  promised,  \* messages the webhook has answered 204 for
  open,      \* messages the system still has in its hands
  replies    \* replies[m]: the texts sent in reply to m

vars == <<promised, open, replies>>

Init ==
  /\ promised = {}
  /\ open = {}
  /\ replies = [m \in Messages |-> <<>>]

\* The message arrives, for the first time or again; the carrier may or may
\* not learn that it was accepted.
Arrive(m) ==
  /\ open' = open \cup {m}
  /\ promised' \in {promised, promised \cup {m}}
  /\ UNCHANGED replies

Reply(m, text) ==
  /\ m \in open
  /\ replies[m] = <<>>
  /\ replies' = [replies EXCEPT ![m] = <<text>>]
  /\ UNCHANGED <<promised, open>>

\* Only a message that has its reply leaves the system.
Close(m) ==
  /\ replies[m] # <<>>
  /\ open' = open \ {m}
  /\ UNCHANGED <<promised, replies>>

Next == \E m \in Messages : Arrive(m) \/ Close(m) \/ \E t \in Texts : Reply(m, t)

Spec == Init /\ [][Next]_vars
=============================================================================
