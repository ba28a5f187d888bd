----------------------------- MODULE AtLeastOnce -----------------------------
(***************************************************************************)
(* What MessageQueue (queue/types/message-queue.ts) promises its users:     *)
(* a message send() has accepted stays owed until a handler call for it    *)
(* has resolved.  A message may be handled more than once, and a message   *)
(* whose send() failed may be handled too; neither is ever a loss.         *)
(***************************************************************************)
CONSTANT Messages

VARIABLES
  owed,      \* messages the queue still holds
  promised,  \* messages send() has resolved for
  done       \* messages a handler call has resolved for

vars == <<owed, promised, done>>

Init == owed = {} /\ promised = {} /\ done = {}

\* send() resolves: from now on the message is owed.
Promise(m) ==
  /\ owed' = owed \cup {m}
  /\ promised' = promised \cup {m}
  /\ UNCHANGED done

\* send() fails although the queue has stored the message.
Store(m) ==
  /\ owed' = owed \cup {m}
  /\ UNCHANGED <<promised, done>>

\* A handler call resolves, for the first time or for a duplicate.
Handle(m) ==
  /\ m \in owed \cup done
  /\ done' = done \cup {m}
  /\ UNCHANGED <<owed, promised>>

\* Copies of handled messages go, or come back after a lost ack.
Forget(m) ==
  /\ m \in done
  /\ owed' = owed \ {m}
  /\ UNCHANGED <<promised, done>>

Return(M) ==
  /\ M \subseteq done
  /\ owed' = owed \cup M
  /\ UNCHANGED <<promised, done>>

Next ==
  \/ \E m \in Messages : Promise(m) \/ Store(m) \/ Handle(m) \/ Forget(m)
  \/ \E M \in SUBSET Messages : Return(M)

Spec == Init /\ [][Next]_vars
=============================================================================
