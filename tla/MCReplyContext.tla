---------------------------- MODULE MCReplyContext ----------------------------
(* Small instances of ReplyContext for TLC: messages of one conversation,   *)
(* one concurrent handler in each of two processes.                         *)
EXTENDS ReplyContext, TLC

CONSTANTS w1, w2, j1, j2, c1, p1

MCWorkers == {w1, w2}
MCJobs == {j1, j2}
MCProcessOf == (j1 :> w1) @@ (j2 :> w2)
MCConversationOf == [m \in Messages |-> c1]

MCEarlier == {<<>>, <<Turn("them", p1), Turn("you", p1)>>}

\* Slots of the broker and messages of the conversation are interchangeable.
SlotsAndMessages == Permutations(Copies) \cup Permutations(Messages)
=============================================================================
