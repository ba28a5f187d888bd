-------------------------- MODULE ReplyContextProofs --------------------------
(***************************************************************************)
(* Reading the conversation history only adds to the pipeline: ReplyContext *)
(* implements Pipeline, so what is proved of Pipeline holds of it; the rows *)
(* a conversation's history is read from are in order; and the history      *)
(* itself is what a reply should be generated from.                         *)
(***************************************************************************)
EXTENDS ReplyContext, PipelineProofs, WellFoundedInduction

\* Every step of ReplyContext is a step of the pipeline, or reads a history,
\* which the pipeline does not see.
LEMMA ContextStepRunsPipeline ==
  [ContextNext]_replyVars => [PipelineNext]_pipelineVars
<1> SUFFICES ASSUME [ContextNext]_replyVars
             PROVE  [PipelineNext]_pipelineVars
  OBVIOUS
<1>1. CASE Surroundings
  BY <1>1 DEF Surroundings, PipelineNext
<1>2. ASSUME NEW j \in Jobs, ReadHistory(j)
      PROVE  UNCHANGED pipelineVars
  BY <1>2 DEF ReadHistory
<1>3. ASSUME NEW j \in Jobs, Continue(j)
      PROVE  PipelineNext
  BY <1>3 DEF Continue, PipelineNext
<1>4. CASE Dying
  BY <1>4 DEF Dying, PipelineNext
<1>5. CASE UNCHANGED replyVars
  BY <1>5 DEF replyVars
<1> QED
  BY <1>1, <1>2, <1>3, <1>4, <1>5 DEF ContextNext

\* Splitting the history read from the generation, and letting other messages of
\* the conversation in between, leaves handleInbound the pipeline it was.
THEOREM ContextRunsPipeline == ContextSpec => PipelineSpec
<1>1. ContextInit => PipelineInit
  BY DEF ContextInit
<1> QED
  BY <1>1, ContextStepRunsPipeline, PTL DEF ContextSpec, PipelineSpec

\* The text sent is the text recorded first, even when a retry generates another
\* one because the conversation has gone on since.
THEOREM ContextSameText == ContextSpec => []SameText
BY ContextRunsPipeline, PipelineSameText

-----------------------------------------------------------------------------
(* A conversation reads as it happened.                                    *)

Occurs(turn, s) == \E i \in DOMAIN s : s[i] = turn

\* Past its insert, a call's message has its row.
RowsInserted == \A j \in Jobs : Working(j) \/ at[j] = "claim" => inbound[task[j]] # "absent"

\* The turns of the messages are the rows, and a message's turn is in its
\* conversation from its insert on.
TurnsAreRows ==
  \A m \in Messages :
    /\ inbound[m] # "absent" => Occurs(Turn("them", m), thread[ConversationOf[m]])
    /\ \A c \in Conversations :
         /\ Occurs(Turn("them", m), thread[c]) => inbound[m] # "absent"
         /\ Occurs(Turn("you", m), thread[c]) => reply[m] # "absent"

ThreadInv ==
  /\ thread \in [Conversations -> Seq(Turns)]
  /\ RowsInserted
  /\ TurnsAreRows
  /\ ThreadWellFormed

\* What one more turn does to a sequence of turns.
LEMMA OneMoreTurn ==
  ASSUME NEW s \in Seq(Turns), NEW x \in Turns
  PROVE  /\ s \o <<x>> \in Seq(Turns)
         /\ \A turn : Occurs(turn, s \o <<x>>) <=> Occurs(turn, s) \/ turn = x
         /\ WellFormed(s) /\ ~Occurs(x, s)
              /\ (x.side = "you" => Occurs(Turn("them", x.msg), s))
              => WellFormed(s \o <<x>>)
<1> DEFINE longer == s \o <<x>>
<1>1. /\ longer \in Seq(Turns)
      /\ Len(s) \in Nat
      /\ DOMAIN s = 1..Len(s)
      /\ DOMAIN longer = 1..(Len(s) + 1)
      /\ \A i \in 1..Len(s) : longer[i] = s[i]
      /\ longer[Len(s) + 1] = x
  OBVIOUS
<1> HIDE DEF longer
<1>2. \A turn : Occurs(turn, longer) <=> Occurs(turn, s) \/ turn = x
  BY <1>1 DEF Occurs
<1>3. ASSUME WellFormed(s), ~Occurs(x, s),
             x.side = "you" => Occurs(Turn("them", x.msg), s)
      PROVE  WellFormed(longer)
  <2>1. ASSUME NEW i \in DOMAIN longer, NEW k \in DOMAIN longer, longer[i] = longer[k]
        PROVE  i = k
    BY <1>1, <1>3, <2>1 DEF WellFormed, Occurs
  <2>2. ASSUME NEW i \in DOMAIN longer, longer[i].side = "you"
        PROVE  Before(longer, Turn("them", longer[i].msg), longer[i])
    <3>1. CASE i \in 1..Len(s)
      BY <1>1, <1>3, <2>2, <3>1 DEF WellFormed, Before
    <3>2. CASE i = Len(s) + 1
      BY <1>1, <1>3, <2>2, <3>2 DEF Occurs, Before
    <3> QED
      BY <1>1, <3>1, <3>2
  <2> QED
    BY <2>1, <2>2 DEF WellFormed
<1> QED
  BY <1>1, <1>2, <1>3 DEF longer

\* A row once inserted stays, a call's message has its row once the insert has
\* returned, and only a call past its claim records a reply.
LEMMA RowsOfStep ==
  ASSUME PipelineInv, NEW j \in Jobs, HandleInbound(j)
  PROVE  /\ task[j] \in Messages
         /\ task' = task
         /\ \A k \in Jobs : k # j => at'[k] = at[k]
         /\ \A m \in Messages :
              /\ m # task[j] => inbound'[m] = inbound[m] /\ reply'[m] = reply[m]
              /\ inbound[m] # "absent" => inbound'[m] # "absent"
              /\ reply[m] # "absent" => reply'[m] # "absent"
         /\ at'[j] \in {"idle", "persist"} \/ Working(j) \/ inbound'[task[j]] # "absent"
         /\ reply'[task[j]] = reply[task[j]] \/ Working(j)
<1> USE DEF PipelineInv
<1>1. at[j] # "idle"
  BY DEF HandleInbound, Persist, PersistFails, ClaimMessage,
    DropDuplicate, ClaimFails, Generate, GenerateFails, Record, RecordFails,
    LookUp, SkipSent, LookUpFails, Send, SendFails, RecordSent,
    RecordSentFails, RecordFailure, Proceed
<1>2. task[j] \in Messages
  BY <1>1 DEF PipelineTypeOK, QueueTypeOK
<1>3. /\ task' = task
      /\ \A k \in Jobs : k # j => at'[k] = at[k]
  BY DEF HandleInbound, Persist, PersistFails, ClaimMessage,
    DropDuplicate, ClaimFails, Generate, GenerateFails, Record, RecordFails,
    LookUp, SkipSent, LookUpFails, Send, SendFails, RecordSent,
    RecordSentFails, RecordFailure, Proceed, Return, Throw, Returned,
    HandlerResolves, HandlerRejects, PipelineTypeOK, queueVars, jobVars
<1>4. \A m \in Messages :
        /\ m # task[j] => inbound'[m] = inbound[m] /\ reply'[m] = reply[m]
        /\ inbound[m] # "absent" => inbound'[m] # "absent"
        /\ reply[m] # "absent" => reply'[m] # "absent"
  BY <1>2 DEF HandleInbound, Persist, PersistFails, ClaimMessage,
    DropDuplicate, ClaimFails, Generate, GenerateFails, Record, RecordFails,
    LookUp, SkipSent, LookUpFails, Send, SendFails, RecordSent,
    RecordSentFails, RecordFailure, InsertInbound, Claim, InsertReply, MarkSent,
    MarkFailed, storeVars, PipelineTypeOK, StoreTypeOK
<1>5. at'[j] \in {"idle", "persist"} \/ Working(j) \/ inbound'[task[j]] # "absent"
  BY <1>2 DEF HandleInbound, Persist, PersistFails, ClaimMessage,
    DropDuplicate, ClaimFails, Generate, GenerateFails, Record, RecordFails,
    LookUp, SkipSent, LookUpFails, Send, SendFails, RecordSent,
    RecordSentFails, RecordFailure, Proceed, Return, Throw, Returned, Working, Owning,
    InsertInbound, Claim, PipelineTypeOK, StoreTypeOK
<1>6. reply'[task[j]] = reply[task[j]] \/ Working(j)
  BY DEF HandleInbound, Persist, PersistFails, ClaimMessage,
    DropDuplicate, ClaimFails, Generate, GenerateFails, Record, RecordFails,
    LookUp, SkipSent, LookUpFails, Send, SendFails, RecordSent,
    RecordSentFails, RecordFailure, Proceed, Working, Owning,
    InsertInbound, Claim, storeVars
<1> QED
  BY <1>2, <1>3, <1>4, <1>5, <1>6

\* A turn of m that is new to its conversation is appended to it.
Extended(side, m) ==
  [thread EXCEPT ![ConversationOf[m]] = thread[ConversationOf[m]] \o <<Turn(side, m)>>]

LEMMA TurnAppended ==
  ASSUME ThreadInv, NEW m \in Messages, NEW side \in {"them", "you"},
         thread' = Extended(side, m),
         ~Occurs(Turn(side, m), thread[ConversationOf[m]]),
         side = "you" => Occurs(Turn("them", m), thread[ConversationOf[m]])
  PROVE  /\ thread' \in [Conversations -> Seq(Turns)]
         /\ ThreadWellFormed'
         /\ \A d \in Conversations, n \in Messages, other \in {"them", "you"} :
              Occurs(Turn(other, n), thread'[d]) <=>
                \/ Occurs(Turn(other, n), thread[d])
                \/ d = ConversationOf[m] /\ n = m /\ other = side
<1> DEFINE c == ConversationOf[m]
           x == Turn(side, m)
<1>1. c \in Conversations /\ thread[c] \in Seq(Turns) /\ WellFormed(thread[c])
  BY ConversationAssumption DEF ThreadInv, ThreadWellFormed
<1>2. x \in Turns /\ x.side = side /\ x.msg = m
  BY DEF Turns, TurnsOf, Turn
<1>3. \A other, n : (Turn(other, n) = x) <=> (other = side /\ n = m)
  BY DEF Turn
<1>4. /\ thread[c] \o <<x>> \in Seq(Turns)
      /\ \A turn : Occurs(turn, thread[c] \o <<x>>) <=> Occurs(turn, thread[c]) \/ turn = x
      /\ WellFormed(thread[c] \o <<x>>)
  BY <1>1, <1>2, OneMoreTurn
<1>5. thread' = [thread EXCEPT ![c] = thread[c] \o <<x>>]
  BY DEF Extended
<1> HIDE DEF c, x
<1>6. /\ thread'[c] = thread[c] \o <<x>>
      /\ \A d \in Conversations : d # c => thread'[d] = thread[d]
      /\ thread' \in [Conversations -> Seq(Turns)]
  BY <1>1, <1>4, <1>5 DEF ThreadInv
<1>7. ThreadWellFormed'
  <2> SUFFICES ASSUME NEW d \in Conversations PROVE WellFormed(thread'[d])
    BY DEF ThreadWellFormed, WellFormed, Before, Turn
  <2> QED
    BY <1>4, <1>6 DEF ThreadInv, ThreadWellFormed
<1>8. ASSUME NEW d \in Conversations, NEW n \in Messages, NEW other \in {"them", "you"}
      PROVE  Occurs(Turn(other, n), thread'[d]) <=>
               \/ Occurs(Turn(other, n), thread[d])
               \/ d = c /\ n = m /\ other = side
  <2>1. CASE d = c
    <3>1. thread'[d] = thread[d] \o <<x>> /\ d = c
      BY <1>6, <2>1
    <3> DEFINE turn == Turn(other, n)
    <3>2. turn = x <=> other = side /\ n = m
      BY <1>3
    <3>3. Occurs(turn, thread[d] \o <<x>>) <=> Occurs(turn, thread[d]) \/ turn = x
      BY <1>4, <3>1
    <3> HIDE DEF turn
    <3>4. Occurs(turn, thread'[d]) <=> Occurs(turn, thread[d]) \/ turn = x
      BY <3>1, <3>3
    <3> QED
      BY <3>1, <3>2, <3>4 DEF turn
  <2>2. CASE d # c
    BY <1>6, <2>2
  <2> QED
    BY <2>1, <2>2
<1> QED
  BY <1>6, <1>7, <1>8 DEF c

\* A step of a handler appends the row it inserts, if any, to its conversation.
LEMMA ContinueKeepsThreads ==
  ASSUME PipelineInv, ThreadInv, NEW j \in Jobs, Continue(j)
  PROVE  ThreadInv'
<1> DEFINE m == task[j]
           c == ConversationOf[m]
           s == thread[c]
<1>1. /\ m \in Messages
      /\ task' = task
      /\ \A k \in Jobs : k # j => at'[k] = at[k]
      /\ \A n \in Messages :
           /\ n # m => inbound'[n] = inbound[n] /\ reply'[n] = reply[n]
           /\ inbound[n] # "absent" => inbound'[n] # "absent"
           /\ reply[n] # "absent" => reply'[n] # "absent"
      /\ at'[j] \in {"idle", "persist"} \/ Working(j) \/ inbound'[m] # "absent"
      /\ reply'[m] = reply[m] \/ Working(j)
  BY RowsOfStep DEF Continue
<1>2. c \in Conversations /\ s \in Seq(Turns)
  BY <1>1, ConversationAssumption DEF ThreadInv
<1>3. thread' = [thread EXCEPT ![c] = s \o NewTurns(m)]
  BY DEF Continue
<1>4. Turn("them", m) \in Turns /\ Turn("you", m) \in Turns
  BY <1>1 DEF Turns, TurnsOf, Turn
<1>5. Working(j) => inbound[m] # "absent"
  BY DEF ThreadInv, RowsInserted
<1>6. RowsInserted'
  <2> SUFFICES ASSUME NEW k \in Jobs, Working(k)' \/ at'[k] = "claim"
               PROVE  inbound'[task[k]] # "absent"
    BY <1>1 DEF RowsInserted
  <2>1. CASE k = j
    BY <1>1, <1>5, <2>1 DEF Working, Owning
  <2>2. CASE k # j
    <3>1. at'[k] = at[k]
      BY <1>1, <2>2
    <3>2. Working(k) \/ at[k] = "claim"
      BY <3>1 DEF Working
    <3>3. inbound[task[k]] # "absent"
      BY <3>2 DEF ThreadInv, RowsInserted
    <3>4. task[k] \in Messages
      BY <3>2 DEF Working, Owning, PipelineInv, PipelineTypeOK, QueueTypeOK
    <3> QED
      BY <1>1, <3>3, <3>4
  <2> QED
    BY <2>1, <2>2
<1>7. TurnsAreRows' <=>
        \A n \in Messages :
          /\ inbound'[n] # "absent" => Occurs(Turn("them", n), thread'[ConversationOf[n]])
          /\ \A d \in Conversations :
               /\ Occurs(Turn("them", n), thread'[d]) => inbound'[n] # "absent"
               /\ Occurs(Turn("you", n), thread'[d]) => reply'[n] # "absent"
  BY DEF TurnsAreRows, Occurs, Turn
<1>8. CASE inbound[m] = "absent" /\ inbound'[m] # "absent"
  <2>1. reply'[m] = reply[m] /\ thread' = Extended("them", m)
    <3>1. reply'[m] = reply[m]
      BY <1>1, <1>5, <1>8
    <3>2. NewTurns(m) = <<Turn("them", m)>> \o <<>>
      BY <1>8, <3>1 DEF NewTurns
    <3>3. NewTurns(m) = <<Turn("them", m)>>
      BY <1>4, <3>2
    <3> QED
      BY <1>3, <3>1, <3>3 DEF Extended
  <2>2. ~Occurs(Turn("them", m), s)
    BY <1>1, <1>2, <1>8 DEF ThreadInv, TurnsAreRows
  <2>3. /\ thread' \in [Conversations -> Seq(Turns)]
        /\ ThreadWellFormed'
        /\ \A d \in Conversations, n \in Messages, side \in {"them", "you"} :
             Occurs(Turn(side, n), thread'[d]) <=>
               Occurs(Turn(side, n), thread[d]) \/ (d = c /\ n = m /\ side = "them")
    BY <1>1, <2>1, <2>2, TurnAppended
  <2>4. TurnsAreRows'
    <3> SUFFICES ASSUME NEW n \in Messages
                 PROVE  /\ inbound'[n] # "absent" =>
                             Occurs(Turn("them", n), thread'[ConversationOf[n]])
                        /\ \A d \in Conversations :
                             /\ Occurs(Turn("them", n), thread'[d]) => inbound'[n] # "absent"
                             /\ Occurs(Turn("you", n), thread'[d]) => reply'[n] # "absent"
      BY <1>7
    <3>1. /\ ConversationOf[n] \in Conversations
          /\ inbound[n] # "absent" => Occurs(Turn("them", n), thread[ConversationOf[n]])
          /\ \A d \in Conversations :
               /\ Occurs(Turn("them", n), thread[d]) => inbound[n] # "absent"
               /\ Occurs(Turn("you", n), thread[d]) => reply[n] # "absent"
      BY ConversationAssumption DEF ThreadInv, TurnsAreRows
    <3>2. CASE n = m
      BY <1>1, <1>2, <1>8, <2>1, <2>3, <3>1, <3>2
    <3>3. CASE n # m
      BY <1>1, <2>3, <3>1, <3>3
    <3> QED
      BY <3>2, <3>3
  <2> QED
    BY <1>6, <2>3, <2>4 DEF ThreadInv
<1>9. CASE /\ inbound[m] = "absent" => inbound'[m] = "absent"
           /\ reply[m] = "absent" /\ reply'[m] # "absent"
  <2>1. inbound[m] # "absent" /\ thread' = Extended("you", m)
    <3>1. inbound[m] # "absent"
      BY <1>1, <1>5, <1>9
    <3>2. NewTurns(m) = <<>> \o <<Turn("you", m)>>
      BY <1>9, <3>1 DEF NewTurns
    <3>3. NewTurns(m) = <<Turn("you", m)>>
      BY <1>4, <3>2
    <3> QED
      BY <1>3, <3>1, <3>3 DEF Extended
  <2>2. ~Occurs(Turn("you", m), s) /\ Occurs(Turn("them", m), s)
    BY <1>1, <1>2, <1>9, <2>1 DEF ThreadInv, TurnsAreRows
  <2>3. /\ thread' \in [Conversations -> Seq(Turns)]
        /\ ThreadWellFormed'
        /\ \A d \in Conversations, n \in Messages, side \in {"them", "you"} :
             Occurs(Turn(side, n), thread'[d]) <=>
               Occurs(Turn(side, n), thread[d]) \/ (d = c /\ n = m /\ side = "you")
    BY <1>1, <2>1, <2>2, TurnAppended
  <2>4. TurnsAreRows'
    <3> SUFFICES ASSUME NEW n \in Messages
                 PROVE  /\ inbound'[n] # "absent" =>
                             Occurs(Turn("them", n), thread'[ConversationOf[n]])
                        /\ \A d \in Conversations :
                             /\ Occurs(Turn("them", n), thread'[d]) => inbound'[n] # "absent"
                             /\ Occurs(Turn("you", n), thread'[d]) => reply'[n] # "absent"
      BY <1>7
    <3>1. /\ ConversationOf[n] \in Conversations
          /\ inbound[n] # "absent" => Occurs(Turn("them", n), thread[ConversationOf[n]])
          /\ \A d \in Conversations :
               /\ Occurs(Turn("them", n), thread[d]) => inbound[n] # "absent"
               /\ Occurs(Turn("you", n), thread[d]) => reply[n] # "absent"
      BY ConversationAssumption DEF ThreadInv, TurnsAreRows
    <3>2. CASE n = m
      BY <1>1, <1>2, <1>9, <2>1, <2>3, <3>1, <3>2
    <3>3. CASE n # m
      BY <1>1, <2>3, <3>1, <3>3
    <3> QED
      BY <3>2, <3>3
  <2> QED
    BY <1>6, <2>3, <2>4 DEF ThreadInv
<1>10. CASE /\ inbound[m] = "absent" => inbound'[m] = "absent"
            /\ reply[m] = "absent" => reply'[m] = "absent"
  <2>1. NewTurns(m) = <<>>
    BY <1>10 DEF NewTurns
  <2>2. s \o <<>> = s
    BY <1>2
  <2>3. thread' = thread
    BY <1>2, <1>3, <2>1, <2>2 DEF ThreadInv
  <2>4. TurnsAreRows'
    BY <1>1, <1>7, <1>10, <2>3 DEF ThreadInv, TurnsAreRows
  <2> QED
    BY <1>6, <2>3, <2>4 DEF ThreadInv, ThreadWellFormed
<1> QED
  BY <1>8, <1>9, <1>10

\* Between the handlers' steps no call passes its claim, or changes its message.
LEMMA CallsElsewhere ==
  ASSUME QueueInv, PipelineInv, Surroundings \/ Dying
  PROVE  /\ \A j \in Jobs : at'[j] \in {at[j], "idle", "persist"}
         /\ \A j \in Jobs : (Working(j) \/ at[j] = "claim") /\ at'[j] = at[j]
                              => task'[j] = task[j]
<1> DEFINE Unmoved == /\ \A j \in Jobs : at'[j] \in {at[j], "idle", "persist"}
                   /\ \A j \in Jobs : (Working(j) \/ at[j] = "claim") /\ at'[j] = at[j]
                                        => task'[j] = task[j]
<1> USE DEF PipelineInv
<1>1. \A j \in Jobs : Working(j) \/ at[j] = "claim" => stage[j] = "handling"
  BY DEF Working, Owning, PipelineTypeOK
<1>2. CASE Elsewhere
  BY <1>1, <1>2, ElsewhereKeepsCalls DEF Elsewhere, callVars, PipelineTypeOK
<1>3. CASE Tick
  BY <1>3 DEF Tick, jobVars
<1>4. ASSUME NEW i \in Jobs, NEW d \in Copies, Receive(i, d) PROVE Unmoved
  BY <1>1, <1>4 DEF Receive, Deliver, PipelineTypeOK, QueueTypeOK
<1>5. ASSUME NEW w \in Workers, ProcessDies(w), CallsVanish(w) PROVE Unmoved
  BY <1>5 DEF ProcessDies, CallsVanish, Working, Owning
<1> QED
  BY <1>2, <1>3, <1>4, <1>5, ProcessAssumption
  DEF Surroundings, Dying, WorkerExits, WorkerStops, Stop, AckOnDeadChannel

\* Every other step inserts no row.
LEMMA ThreadInvStep ==
  ASSUME QueueInv, PipelineInv, ThreadInv, [ContextNext]_replyVars
  PROVE  ThreadInv'
<1>1. ASSUME NEW j \in Jobs, Continue(j) PROVE ThreadInv'
  BY <1>1, ContinueKeepsThreads
<1>2. ASSUME NEW j \in Jobs, ReadHistory(j) PROVE ThreadInv'
  BY <1>2 DEF ReadHistory, pipelineVars, queueVars, jobVars, storeVars, callVars, ThreadInv,
    RowsInserted, TurnsAreRows, ThreadWellFormed, Working
<1>3. CASE UNCHANGED replyVars
  BY <1>3 DEF replyVars, contextVars, pipelineVars, queueVars, jobVars, storeVars, callVars,
    ThreadInv, RowsInserted, TurnsAreRows, ThreadWellFormed, Working
<1>4. CASE (Surroundings /\ UNCHANGED contextVars) \/ (Dying /\ ContextsVanish)
  <2>1. UNCHANGED thread
    BY <1>4 DEF contextVars, ContextsVanish
  <2>2. UNCHANGED <<inbound, reply>>
    BY <1>4 DEF Surroundings, Elsewhere, Tick, ClaimsAge, Receive, Dying, WorkerExits,
      WorkerStops, CallsVanish, storeVars
  <2>3. RowsInserted'
    <3>1. /\ \A j \in Jobs : at'[j] \in {at[j], "idle", "persist"}
          /\ \A j \in Jobs : (Working(j) \/ at[j] = "claim") /\ at'[j] = at[j]
                               => task'[j] = task[j]
      BY <1>4, CallsElsewhere DEF Surroundings, Dying
    <3> QED
      BY <2>2, <3>1 DEF ThreadInv, RowsInserted, Working, Owning
  <2> QED
    BY <2>1, <2>2, <2>3 DEF ThreadInv, TurnsAreRows, ThreadWellFormed
<1> QED
  BY <1>1, <1>2, <1>3, <1>4 DEF ContextNext

\* The rows stay in order in every reachable state.
LEMMA ThreadInvAlways == ContextSpec => []ThreadInv
<1>1. ASSUME ContextInit PROVE ThreadInv
  <2>1. \A c \in Conversations :
          thread[c] \in Seq(TurnsOf(Past)) /\ WellFormed(thread[c])
    BY <1>1, EarlierAssumption DEF ContextInit
  <2>2. thread \in [Conversations -> Seq(Turns)]
    <3>1. thread \in [Conversations -> Earlier] /\ Earlier \subseteq Seq(Turns)
      <4>1. TurnsOf(Past) \subseteq Turns
        BY DEF Turns, TurnsOf
      <4> HIDE DEF Turns, TurnsOf
      <4> QED
        BY <1>1, <4>1, EarlierAssumption DEF ContextInit
    <3> QED
      BY <3>1
  <2>3. \A c \in Conversations, m \in Messages, side \in {"them", "you"} :
          ~Occurs(Turn(side, m), thread[c])
    BY <2>1, PastAssumption DEF Occurs, Turn, TurnsOf
  <2>4. RowsInserted /\ TurnsAreRows
    BY <1>1, <2>3 DEF ContextInit, PipelineInit, StoreInit, RowsInserted, TurnsAreRows,
      Working, Owning
  <2> QED
    BY <2>1, <2>2, <2>4 DEF ThreadInv, ThreadWellFormed
<1> QED
  BY <1>1, ThreadInvStep, ContextRunsPipeline, PipelineQueueInv, PipelineInvAlways,
    PTL DEF ContextSpec

\* Duplicate deliveries, retries after any failure and overtaken claims leave each
\* conversation with every message once, in the order of arrival, and every reply
\* once, after its message.
THEOREM ContextThreadWellFormed == ContextSpec => []ThreadWellFormed
<1>1. ThreadInv => ThreadWellFormed
  BY DEF ThreadInv
<1> QED
  BY <1>1, ThreadInvAlways, PTL

-----------------------------------------------------------------------------
(* What the query of conversationHistory returns.                          *)

\* Induction on the natural numbers, for a set in place of a predicate.
LEMMA Induction ==
  ASSUME NEW S, S \subseteq Nat, 0 \in S, \A n \in S : n + 1 \in S
  PROVE  S = Nat
<1> SUFFICES ASSUME S # Nat PROVE FALSE
  OBVIOUS
<1> DEFINE R == OpToRel(<, Nat)
           T == Nat \ S
<1>1. IsWellFoundedOn(R, Nat) /\ T \subseteq Nat /\ T # {}
  BY NatLessThanWellFounded
<1>2. \A a, b \in Nat : <<a, b>> \in R <=> a < b
  BY DEF OpToRel
<1> HIDE DEF R
<1>3. \E x \in T : \A y \in T : ~(<<y, x>> \in R)
  <2> HIDE DEF T
  <2> QED
    BY <1>1, WFMin
<1>4. PICK x \in T : \A y \in T : ~(<<y, x>> \in R)
  BY <1>3
<1>5. x - 1 \in T /\ x - 1 < x
  BY <1>4
<1> QED
  BY <1>2, <1>4, <1>5

\* One step of the pass over s that Without makes.
Passed(f, s, m, i) ==
  IF i = 0 THEN <<>>
  ELSE IF s[i].msg = m THEN f[i - 1] ELSE Append(f[i - 1], s[i])

\* f holds what Without has kept of s, after each of the first n turns.
Pass(f, s, m, n) == f = [i \in 0..n |-> Passed(f, s, m, i)]

\* There is such a pass over any number of turns.
LEMMA PassExists ==
  ASSUME NEW s, NEW m
  PROVE  \A n \in Nat : \E f : Pass(f, s, m, n)
<1> DEFINE S == {n \in Nat : \E f : Pass(f, s, m, n)}
<1>1. 0 \in S
  <2>1. Pass([i \in 0..0 |-> <<>>], s, m, 0)
    BY DEF Pass, Passed
  <2> QED
    BY <2>1
<1>2. ASSUME NEW n \in S PROVE n + 1 \in S
  <2>1. PICK f : Pass(f, s, m, n)
    OBVIOUS
  <2> DEFINE g == [i \in 0..(n + 1) |-> IF i <= n THEN f[i] ELSE Passed(f, s, m, i)]
  <2>2. /\ n \in Nat
        /\ \A i \in 0..n : f[i] = Passed(f, s, m, i)
    BY <2>1 DEF Pass
  <2>3. /\ \A i \in 0..n : g[i] = f[i]
        /\ g[n + 1] = Passed(f, s, m, n + 1)
        /\ g = [i \in 0..(n + 1) |-> g[i]]
    BY <2>2
  <2> HIDE DEF g
  <2>4. ASSUME NEW i \in 0..(n + 1) PROVE g[i] = Passed(g, s, m, i)
    <3>1. Passed(g, s, m, i) = Passed(f, s, m, i)
      BY <2>2, <2>3 DEF Passed
    <3>2. CASE i \in 0..n
      BY <2>2, <2>3, <3>1, <3>2
    <3>3. CASE i = n + 1
      BY <2>3, <3>1, <3>3
    <3> QED
      BY <2>2, <3>2, <3>3
  <2>5. Pass(g, s, m, n + 1)
    BY <2>3, <2>4 DEF Pass
  <2> QED
    BY <2>2, <2>5
<1> HIDE DEF S
<1>3. S = Nat
  BY <1>1, <1>2, Induction DEF S
<1> QED
  BY <1>3 DEF S

\* Without is what the pass over all of s has kept.
LEMMA WithoutIsPass ==
  ASSUME NEW s, Len(s) \in Nat, NEW m
  PROVE  \E f : Pass(f, s, m, Len(s)) /\ Without(s, m) = f[Len(s)]
<1> DEFINE f == CHOOSE f : f = [i \in 0..Len(s) |-> Passed(f, s, m, i)]
<1>1. Pass(f, s, m, Len(s))
  BY PassExists DEF Pass
<1>2. Without(s, m) = f[Len(s)]
  BY DEF Without, Passed
<1> QED
  BY <1>1, <1>2

\* o has the turns among the first n of s that are not m's, in the order of s.
Keeps(o, s, m, n) ==
  /\ o \in Seq(Turns)
  /\ \A k \in DOMAIN o : o[k].msg # m /\ \E i \in 1..n : s[i] = o[k]
  /\ \A k, l \in DOMAIN o : k < l => Before(s, o[k], o[l])
  /\ \A i \in 1..n : s[i].msg # m => \E k \in DOMAIN o : o[k] = s[i]

\* Without loses and reorders no turn of the others.
LEMMA WithoutKeeps ==
  ASSUME NEW s \in Seq(Turns), NEW m
  PROVE  Keeps(Without(s, m), s, m, Len(s))
<1>1. PICK f : Pass(f, s, m, Len(s)) /\ Without(s, m) = f[Len(s)]
  BY WithoutIsPass
<1>2. \A n \in 0..Len(s) : f[n] = Passed(f, s, m, n)
  BY <1>1 DEF Pass
<1> DEFINE S == {n \in Nat : n <= Len(s) => Keeps(f[n], s, m, n)}
<1>3. 0 \in S
  <2>1. f[0] = <<>>
    BY <1>2 DEF Passed
  <2>2. Keeps(<<>>, s, m, 0)
    BY DEF Keeps
  <2> QED
    BY <2>1, <2>2
<1>4. ASSUME NEW n \in S, n + 1 <= Len(s) PROVE Keeps(f[n + 1], s, m, n + 1)
  <2> DEFINE o == f[n]
             x == s[n + 1]
  <2>1. n \in Nat /\ Keeps(o, s, m, n) /\ x \in Turns /\ DOMAIN s = 1..Len(s)
    BY <1>4
  <2>2. f[n + 1] = IF x.msg = m THEN o ELSE Append(o, x)
    BY <1>2, <1>4, <2>1 DEF Passed
  <2> HIDE DEF o, S
  <2>3. CASE x.msg = m
    <3>1. f[n + 1] = o /\ \A i \in 1..(n + 1) : i \in 1..n \/ i = n + 1
      BY <2>1, <2>2, <2>3
    <3> HIDE DEF x
    <3>2. \A k \in DOMAIN o : o[k].msg # m /\ \E i \in 1..(n + 1) : s[i] = o[k]
      BY <2>1 DEF Keeps
    <3>3. \A i \in 1..(n + 1) : s[i].msg # m => \E k \in DOMAIN o : o[k] = s[i]
      BY <2>1, <2>3, <3>1 DEF Keeps, x
    <3> QED
      BY <2>1, <3>1, <3>2, <3>3 DEF Keeps
  <2>4. CASE x.msg # m
    <3> DEFINE longer == Append(o, x)
    <3>1. /\ longer \in Seq(Turns)
          /\ Len(o) \in Nat
          /\ DOMAIN o = 1..Len(o)
          /\ DOMAIN longer = 1..(Len(o) + 1)
          /\ \A k \in 1..Len(o) : longer[k] = o[k]
          /\ longer[Len(o) + 1] = x
      BY <2>1 DEF Keeps
    <3> HIDE DEF longer
    <3>2. \A k \in DOMAIN longer :
            longer[k].msg # m /\ \E i \in 1..(n + 1) : s[i] = longer[k]
      BY <2>1, <2>4, <3>1 DEF Keeps, x
    <3>3. ASSUME NEW k \in DOMAIN longer, NEW l \in DOMAIN longer, k < l
          PROVE  Before(s, longer[k], longer[l])
      <4>1. CASE l \in 1..Len(o)
        BY <2>1, <3>1, <3>3, <4>1 DEF Keeps
      <4>2. CASE l = Len(o) + 1
        <5>1. PICK i \in 1..n : s[i] = o[k]
          BY <2>1, <3>1, <3>3, <4>2 DEF Keeps
        <5> QED
          BY <1>4, <2>1, <3>1, <3>3, <4>2, <5>1 DEF Before, x
      <4> QED
        BY <3>1, <4>1, <4>2
    <3>4. ASSUME NEW i \in 1..(n + 1), s[i].msg # m
          PROVE  \E k \in DOMAIN longer : longer[k] = s[i]
      <4>1. CASE i \in 1..n
        BY <2>1, <3>1, <3>4, <4>1 DEF Keeps
      <4>2. CASE i = n + 1
        BY <3>1, <4>2 DEF x
      <4> QED
        BY <2>1, <4>1, <4>2
    <3> QED
      BY <2>2, <2>4, <3>1, <3>2, <3>3, <3>4 DEF Keeps, longer
  <2> QED
    BY <2>3, <2>4
<1>5. S = Nat
  <2>1. \A n \in S : n + 1 \in S
    BY <1>4
  <2> HIDE DEF S
  <2>2. S \subseteq Nat
    BY DEF S
  <2> QED
    BY <1>3, <2>1, <2>2, Induction
<1> QED
  BY <1>1, <1>5

\* A new turn is added to it, or is m's own.
LEMMA WithoutAppended ==
  ASSUME NEW s \in Seq(Turns), NEW x \in Turns, NEW m
  PROVE  Without(s \o <<x>>, m) =
           IF x.msg = m THEN Without(s, m) ELSE Without(s, m) \o <<x>>
<1> DEFINE longer == s \o <<x>>
<1>1. /\ longer \in Seq(Turns)
      /\ Len(s) \in Nat
      /\ Len(longer) = Len(s) + 1
      /\ \A i \in 1..Len(s) : longer[i] = s[i]
      /\ longer[Len(s) + 1] = x
  OBVIOUS
<1> HIDE DEF longer
<1>2. PICK f : Pass(f, s, m, Len(s)) /\ Without(s, m) = f[Len(s)]
  BY <1>1, WithoutIsPass
<1>3. PICK g : Pass(g, longer, m, Len(s) + 1) /\ Without(longer, m) = g[Len(s) + 1]
  BY <1>1, WithoutIsPass
<1>4. /\ \A n \in 0..Len(s) : f[n] = Passed(f, s, m, n)
      /\ \A n \in 0..(Len(s) + 1) : g[n] = Passed(g, longer, m, n)
  BY <1>1, <1>2, <1>3 DEF Pass
<1> DEFINE S == {n \in Nat : n <= Len(s) => g[n] = f[n]}
<1>5. 0 \in S
  BY <1>1, <1>4 DEF Passed
<1>6. ASSUME NEW n \in S PROVE n + 1 \in S
  BY <1>1, <1>4 DEF Passed
<1>7. S = Nat
  <2>1. S \subseteq Nat
    OBVIOUS
  <2> HIDE DEF S
  <2> QED
    BY <1>5, <1>6, <2>1, Induction
<1>8. g[Len(s)] = Without(s, m)
  BY <1>1, <1>2, <1>7
<1>9. Without(longer, m) = IF x.msg = m THEN Without(s, m) ELSE Append(Without(s, m), x)
  BY <1>1, <1>3, <1>4, <1>8 DEF Passed
<1>10. Append(Without(s, m), x) = Without(s, m) \o <<x>>
  <2> DEFINE o == Without(s, m)
  <2>1. o \in Seq(Turns)
    BY WithoutKeeps DEF Keeps
  <2> HIDE DEF o
  <2>2. Append(o, x) = o \o <<x>>
    BY <2>1
  <2> QED
    BY <2>2 DEF o
<1> QED
  BY <1>9, <1>10 DEF longer

\* h is the end of o, whole or HistoryLimit turns long.
EndOf(h, o) ==
  /\ h \in Seq(Turns)
  /\ Len(h) = IF Len(o) <= HistoryLimit THEN Len(o) ELSE HistoryLimit
  /\ \A i \in 1..Len(h) : h[i] = o[Len(o) - Len(h) + i]

LEMMA LatestTurns ==
  ASSUME NEW o \in Seq(Turns)
  PROVE  EndOf(Latest(o, HistoryLimit), o)
<1> USE LimitAssumption
<1> DEFINE l == Len(o)
           n == HistoryLimit
<1>1. CASE l <= n
  BY <1>1 DEF Latest, EndOf
<1>2. CASE l > n
  <2>1. Latest(o, n) = SubSeq(o, l - n + 1, l)
    BY <1>2 DEF Latest
  <2>2. l - n + 1 \in 1..(l + 1) /\ l \in Nat
    BY <1>2
  <2>3. /\ SubSeq(o, l - n + 1, l) \in Seq(Turns)
        /\ Len(SubSeq(o, l - n + 1, l)) = n
        /\ \A i \in 1..n : SubSeq(o, l - n + 1, l)[i] = o[l - n + i]
    BY <1>2, <2>2
  <2> QED
    BY <1>2, <2>1, <2>3 DEF EndOf
<1> QED
  BY <1>1, <1>2

\* h holds all that was said in s before m arrived, or is full of later turns.
FollowsUp(h, s, m) ==
  \A a \in Turns : Before(s, a, Turn("them", m)) =>
    \/ \E i \in DOMAIN h : h[i] = a
    \/ /\ Len(h) = HistoryLimit
       /\ \A i \in DOMAIN h : Before(s, a, h[i])

\* A history just read has no turn of its message and all turns before it that fit.
LEMMA HistoryFollowsUp ==
  ASSUME NEW s \in Seq(Turns), NEW m \in Messages, WellFormed(s),
         Occurs(Turn("them", m), s),
         NEW h, h = Latest(Without(s, m), HistoryLimit)
  PROVE  /\ h \in Seq(Turns)
         /\ \A i \in DOMAIN h : h[i].msg # m
         /\ FollowsUp(h, s, m)
<1> DEFINE o == Without(s, m)
<1>1. Keeps(o, s, m, Len(s))
  BY WithoutKeeps
<1>2. /\ h \in Seq(Turns)
      /\ DOMAIN h = 1..Len(h)
      /\ Len(h) \in Nat
      /\ Len(h) = IF Len(o) <= HistoryLimit THEN Len(o) ELSE HistoryLimit
      /\ \A i \in 1..Len(h) : h[i] = o[Len(o) - Len(h) + i]
  <2>1. o \in Seq(Turns)
    BY <1>1 DEF Keeps
  <2> HIDE DEF o
  <2>2. EndOf(h, o)
    BY <2>1, LatestTurns DEF o
  <2>3. h \in Seq(Turns)
    BY <2>2 DEF EndOf
  <2>4. DOMAIN h = 1..Len(h) /\ Len(h) \in Nat
    BY <2>3
  <2> QED
    BY <2>2, <2>4 DEF EndOf
<1> HIDE DEF o
<1>3. o \in Seq(Turns) /\ DOMAIN o = 1..Len(o) /\ Len(o) \in Nat
  BY <1>1 DEF Keeps
<1>4. \A i \in 1..Len(h) : Len(o) - Len(h) + i \in 1..Len(o)
  BY <1>2, <1>3, LimitAssumption
<1>5. \A i \in DOMAIN h : h[i].msg # m
  BY <1>1, <1>2, <1>3, <1>4 DEF Keeps
<1>6. ASSUME NEW a \in Turns, Before(s, a, Turn("them", m)), ~\E i \in DOMAIN h : h[i] = a
      PROVE  Len(h) = HistoryLimit /\ \A i \in DOMAIN h : Before(s, a, h[i])
  <2>1. PICK i \in DOMAIN s, k \in DOMAIN s : i < k /\ s[i] = a /\ s[k] = Turn("them", m)
    BY <1>6 DEF Before
  <2>2. DOMAIN s = 1..Len(s) /\ Len(s) \in Nat
    OBVIOUS
  <2>3. a.msg # m
    <3> SUFFICES ASSUME a.msg = m PROVE FALSE
      OBVIOUS
    <3>1. a # Turn("them", m)
      BY <2>1, <2>2 DEF WellFormed
    <3>2. a = [side |-> a.side, msg |-> m] /\ a.side \in {"them", "you"}
      BY DEF Turns, TurnsOf
    <3>3. a.side = "you"
      BY <3>1, <3>2 DEF Turn
    <3>4. Before(s, Turn("them", m), a)
      BY <2>1, <3>3 DEF WellFormed
    <3> QED
      BY <2>1, <2>2, <3>4 DEF WellFormed, Before
  <2>4. PICK q \in 1..Len(o) : o[q] = a
    BY <1>1, <1>3, <2>1, <2>2, <2>3 DEF Keeps
  <2>5. q <= Len(o) - Len(h)
    <3> SUFFICES ASSUME q > Len(o) - Len(h) PROVE FALSE
      BY <1>2, <1>3
    <3>1. q - (Len(o) - Len(h)) \in 1..Len(h)
      BY <1>2, <1>3
    <3>2. h[q - (Len(o) - Len(h))] = o[q]
      BY <1>2, <1>3, <3>1
    <3> QED
      BY <1>2, <1>6, <2>4, <3>1, <3>2
  <2>6. Len(h) = HistoryLimit
    <3>1. Len(o) # Len(h)
      BY <1>2, <1>3, <2>4, <2>5
    <3> QED
      BY <1>2, <3>1
  <2>7. ASSUME NEW l \in DOMAIN h PROVE Before(s, a, h[l])
    <3> DEFINE p == Len(o) - Len(h) + l
    <3>1. p \in 1..Len(o) /\ q < p /\ h[l] = o[p]
      BY <1>2, <1>3, <1>4, <2>5
    <3> HIDE DEF p
    <3>2. Before(s, o[q], o[p])
      BY <1>1, <1>3, <3>1 DEF Keeps
    <3> QED
      BY <2>4, <3>1, <3>2
  <2> QED
    BY <2>6, <2>7
<1> QED
  BY <1>2, <1>5, <1>6 DEF FollowsUp

\* A conversation that goes on takes nothing from what m was answered from.
LEMMA FollowsUpStays ==
  ASSUME NEW s \in Seq(Turns), NEW x \in Turns, NEW m \in Messages, NEW h,
         WellFormed(s \o <<x>>), Occurs(Turn("them", m), s), FollowsUp(h, s, m)
  PROVE  FollowsUp(h, s \o <<x>>, m)
<1> DEFINE longer == s \o <<x>>
           b == Turn("them", m)
<1>1. /\ Len(s) \in Nat
      /\ DOMAIN s = 1..Len(s)
      /\ DOMAIN longer = 1..(Len(s) + 1)
      /\ \A i \in 1..Len(s) : longer[i] = s[i]
  OBVIOUS
<1>2. WellFormed(longer) /\ Occurs(b, s)
  OBVIOUS
<1> HIDE DEF longer, b
<1>3. \A a : Before(longer, a, b) => Before(s, a, b)
  <2> SUFFICES ASSUME NEW a, Before(longer, a, b) PROVE Before(s, a, b)
    OBVIOUS
  <2>1. PICK i \in DOMAIN longer, k \in DOMAIN longer :
               i < k /\ longer[i] = a /\ longer[k] = b
    BY DEF Before
  <2>2. PICK l \in DOMAIN s : s[l] = b
    BY <1>2 DEF Occurs
  <2>3. k = l
    BY <1>1, <1>2, <2>1, <2>2 DEF WellFormed
  <2> QED
    BY <1>1, <2>1, <2>2, <2>3 DEF Before
<1>4. \A a, e : Before(s, a, e) => Before(longer, a, e)
  BY <1>1 DEF Before
<1> QED
  BY <1>3, <1>4 DEF FollowsUp, longer, b

\* h begins with what f ends with, and where f has older turns, h is full.
Extends(h, f) ==
  \E older \in 0..Len(f) :
    LET kept == SubSeq(f, older + 1, Len(f))
    IN  /\ older > 0 => Len(h) = HistoryLimit
        /\ Len(kept) <= Len(h)
        /\ SubSeq(h, 1, Len(kept)) = kept

\* SubSeq, as the provers know it, of turns.
LEMMA SubSeqTurns ==
  ASSUME NEW s \in Seq(Turns), NEW i \in 1..(Len(s) + 1), NEW k \in 0..Len(s), i <= k + 1
  PROVE  /\ SubSeq(s, i, k) \in Seq(Turns)
         /\ Len(SubSeq(s, i, k)) = k + 1 - i
         /\ \A l \in 1..(k + 1 - i) : SubSeq(s, i, k)[l] = s[i + l - 1]
OBVIOUS

\* The latest turns, read again after the sequence grew.
LEMMA LatestExtends ==
  ASSUME NEW o \in Seq(Turns), NEW n \in 0..Len(o), NEW f, NEW h,
         f = Latest(SubSeq(o, 1, n), HistoryLimit), h = Latest(o, HistoryLimit)
  PROVE  Extends(h, f)
<1> USE LimitAssumption
<1>1. /\ h \in Seq(Turns)
      /\ Len(h) = IF Len(o) <= HistoryLimit THEN Len(o) ELSE HistoryLimit
      /\ \A i \in 1..Len(h) : h[i] = o[Len(o) - Len(h) + i]
  <2>1. EndOf(h, o)
    BY LatestTurns
  <2> QED
    BY <2>1 DEF EndOf
<1> DEFINE p == SubSeq(o, 1, n)
<1>2. /\ p \in Seq(Turns)
      /\ Len(p) = n
      /\ \A i \in 1..n : p[i] = o[i]
  BY SubSeqTurns
<1>3. f = Latest(p, HistoryLimit)
  OBVIOUS
<1> HIDE DEF p
<1>4. /\ f \in Seq(Turns)
      /\ Len(f) = IF n <= HistoryLimit THEN n ELSE HistoryLimit
      /\ \A i \in 1..Len(f) : f[i] = p[n - Len(f) + i]
  <2>1. /\ f \in Seq(Turns)
        /\ Len(f) = IF Len(p) <= HistoryLimit THEN Len(p) ELSE HistoryLimit
        /\ \A i \in 1..Len(f) : f[i] = p[Len(p) - Len(f) + i]
    <3>1. EndOf(f, p)
      BY <1>2, <1>3, LatestTurns
    <3> QED
      BY <3>1 DEF EndOf
  <2> QED
    BY <1>2, <2>1
<1>5. Len(f) \in 0..n /\ Len(h) \in 0..Len(o) /\ Len(o) \in Nat
  <2>1. Len(f) \in Nat /\ Len(h) \in Nat /\ Len(o) \in Nat /\ n \in Nat
    BY <1>1, <1>4
  <2> QED
    BY <1>1, <1>4, <2>1
<1> DEFINE gone == (Len(o) - Len(h)) - (n - Len(f))
<1>6. gone \in Nat /\ (gone > 0 => Len(h) = HistoryLimit)
  <2>1. /\ Len(h) = IF Len(o) <= HistoryLimit THEN Len(o) ELSE HistoryLimit
        /\ Len(f) = IF n <= HistoryLimit THEN n ELSE HistoryLimit
    BY <1>1, <1>4
  <2>2. n \in Nat /\ n <= Len(o)
    BY <1>5
  <2> QED
    BY <1>5, <2>1, <2>2
<1>7. CASE gone > Len(f)
  <2>1. SubSeq(f, Len(f) + 1, Len(f)) = <<>> /\ SubSeq(h, 1, 0) = <<>>
    BY <1>1, <1>4
  <2>2. Len(h) = HistoryLimit /\ Len(f) \in 0..Len(f)
    BY <1>5, <1>6, <1>7
  <2> QED
    BY <1>5, <2>1, <2>2 DEF Extends
<1>8. CASE gone <= Len(f)
  <2> DEFINE kept == SubSeq(f, gone + 1, Len(f))
             start == SubSeq(h, 1, Len(f) - gone)
  <2>1. /\ kept \in Seq(Turns)
        /\ Len(kept) = Len(f) - gone
        /\ \A i \in 1..(Len(f) - gone) : kept[i] = f[gone + i]
    <3>1. gone + 1 \in 1..(Len(f) + 1) /\ Len(f) \in 0..Len(f) /\ gone + 1 <= Len(f) + 1
      BY <1>5, <1>6, <1>8
    <3> HIDE DEF gone
    <3> QED
      BY <1>4, <1>5, <1>6, <3>1, SubSeqTurns
  <2>2. Len(f) - gone \in 0..Len(h)
    BY <1>5, <1>6, <1>8
  <2>3. /\ start \in Seq(Turns)
        /\ Len(start) = Len(f) - gone
        /\ \A i \in 1..(Len(f) - gone) : start[i] = h[i]
    <3>1. 1 \in 1..(Len(h) + 1) /\ 1 <= Len(f) - gone + 1
      BY <1>5, <2>2
    <3> HIDE DEF gone
    <3> QED
      BY <1>1, <1>5, <2>2, <3>1, SubSeqTurns
  <2> HIDE DEF kept, start
  <2>4. ASSUME NEW i \in 1..(Len(f) - gone) PROVE start[i] = kept[i]
    <3>1. /\ gone + i \in 1..Len(f)
          /\ i \in 1..Len(h)
          /\ n - Len(f) + (gone + i) \in 1..n
          /\ n - Len(f) + (gone + i) = Len(o) - Len(h) + i
      BY <1>5, <1>6, <1>8, <2>2
    <3>2. kept[i] = f[gone + i] /\ start[i] = h[i] /\ h[i] = o[Len(o) - Len(h) + i]
      BY <1>1, <2>1, <2>3, <3>1
    <3>3. f[gone + i] = p[n - Len(f) + (gone + i)]
      BY <1>4, <3>1
    <3>4. p[n - Len(f) + (gone + i)] = o[n - Len(f) + (gone + i)]
      BY <1>2, <3>1
    <3> QED
      BY <3>1, <3>2, <3>3, <3>4
  <2>5. start = kept
    BY <2>1, <2>3, <2>4
  <2>6. gone \in 0..Len(f)
    BY <1>5, <1>6, <1>8
  <2> HIDE DEF gone
  <2> QED
    BY <1>6, <2>1, <2>2, <2>5, <2>6 DEF Extends, kept, start
<1> QED
  BY <1>5, <1>6, <1>7, <1>8

-----------------------------------------------------------------------------
(* The histories the running calls have read.                              *)

\* The history the first attempt at m read is what the conversation offered then.
FirstWasHistory ==
  \A m \in Messages : first[m] # None =>
    \E n \in 0..Len(Others(m)) : first[m] = Latest(SubSeq(Others(m), 1, n), HistoryLimit)

\* Only a call past its claim has a history, and it was not read before the first.
ContextsOfCalls ==
  /\ context \in [Jobs -> Seq(Turns) \cup {None}]
  /\ first \in [Messages -> Seq(Turns) \cup {None}]
  /\ \A j \in Jobs : context[j] # None => Working(j) /\ first[task[j]] # None

ContextInv ==
  /\ ContextsOfCalls
  /\ FirstWasHistory
  /\ OwnTurnsExcluded
  /\ FollowUpsInContext
  /\ RetriesExtendContext

\* A call past its claim works on a message.
LEMMA WorkingHasMessage ==
  ASSUME PipelineInv, NEW k \in Jobs, Working(k)
  PROVE  task[k] \in Messages
<1>1. at[k] # "idle"
  BY DEF Working, Owning
<1> QED
  BY <1>1 DEF PipelineInv, PipelineTypeOK, QueueTypeOK

\* A step of a handler adds at most one turn to a conversation.
LEMMA ThreadsGrow ==
  ASSUME PipelineInv, ThreadInv, NEW j \in Jobs, Continue(j), NEW c \in Conversations
  PROVE  thread'[c] = thread[c] \/ \E x \in Turns : thread'[c] = thread[c] \o <<x>>
<1> DEFINE m == task[j]
<1>1. /\ m \in Messages
      /\ reply'[m] = reply[m] \/ Working(j)
      /\ Working(j) => inbound[m] # "absent"
  BY RowsOfStep DEF Continue, ThreadInv, RowsInserted
<1>2. Turn("them", m) \in Turns /\ Turn("you", m) \in Turns
  BY <1>1 DEF Turns, TurnsOf, Turn
<1>3. NewTurns(m) = <<>> \/ \E x \in Turns : NewTurns(m) = <<x>>
  <2>1. <<Turn("them", m)>> \o <<>> = <<Turn("them", m)>>
        /\ <<>> \o <<Turn("you", m)>> = <<Turn("you", m)>>
        /\ <<>> \o <<>> = <<>>
    BY <1>2
  <2> QED
    BY <1>1, <1>2, <2>1 DEF NewTurns
<1>4. /\ thread' = [thread EXCEPT ![ConversationOf[m]] = @ \o NewTurns(m)]
      /\ thread \in [Conversations -> Seq(Turns)]
  BY DEF Continue, ThreadInv
<1>5. thread'[c] = thread[c] \/ thread'[c] = thread[c] \o NewTurns(m)
  BY <1>4
<1>6. thread[c] \o <<>> = thread[c]
  BY <1>4
<1> QED
  BY <1>3, <1>5, <1>6

\* Nothing but its own steps and the end of its process moves a call past its claim.
LEMMA WorkingCallsStay ==
  ASSUME QueueInv, PipelineInv, Surroundings, NEW k \in Jobs, Working(k)
  PROVE  at'[k] = at[k]
<1> USE DEF PipelineInv
<1>1. CASE Elsewhere \/ Tick
  BY <1>1 DEF Elsewhere, Tick, callVars
<1>2. ASSUME NEW i \in Jobs, NEW d \in Copies, Receive(i, d) PROVE at'[k] = at[k]
  <2>1. i # k
    BY <1>2 DEF Receive, Deliver, Working, Owning, PipelineTypeOK
  <2> QED
    BY <1>2, <2>1 DEF Receive, PipelineTypeOK
<1> QED
  BY <1>1, <1>2 DEF Surroundings

\* While a call keeps its history it stays past its claim, with its message.
LEMMA CallsKeepContext ==
  ASSUME QueueInv, PipelineInv, ContextsOfCalls,
         \/ Surroundings /\ UNCHANGED contextVars
         \/ \E j \in Jobs : Continue(j)
         \/ Dying /\ ContextsVanish,
         NEW k \in Jobs, context'[k] # None
  PROVE  context'[k] = context[k] /\ task'[k] = task[k] /\ Working(k) /\ Working(k)'
<1> USE DEF PipelineInv
<1>1. CASE (Surroundings /\ UNCHANGED contextVars) \/ (Dying /\ ContextsVanish)
  <2>1. context'[k] = context[k] /\ Working(k)
    BY <1>1 DEF contextVars, ContextsVanish, ContextsOfCalls
  <2>2. at'[k] \in {at[k], "idle", "persist"} /\ (at'[k] = at[k] => task'[k] = task[k])
    BY <1>1, <2>1, CallsElsewhere
  <2>3. at'[k] = at[k]
    <3>1. CASE Surroundings
      BY <2>1, <3>1, WorkingCallsStay
    <3>2. CASE Dying /\ ContextsVanish
      BY <2>1, <2>2, <3>2 DEF ContextsVanish, Dying, WorkerExits, WorkerStops, CallsVanish,
        Working, Owning, PipelineTypeOK
    <3> QED
      BY <1>1, <3>1, <3>2
  <2> QED
    BY <2>1, <2>2, <2>3 DEF Working
<1>2. ASSUME NEW j \in Jobs, Continue(j)
      PROVE  context'[k] = context[k] /\ task'[k] = task[k] /\ Working(k) /\ Working(k)'
  <2>1. task' = task /\ (k # j => at'[k] = at[k])
    BY <1>2, RowsOfStep DEF Continue
  <2>2. context'[k] = context[k] /\ Working(k) /\ (k = j => at'[k] # "idle")
    BY <1>2 DEF Continue, ContextsOfCalls
  <2>3. k = j => Working(k)'
    BY <1>2, <2>2 DEF Continue, HandleInbound, Persist, PersistFails, ClaimMessage,
      DropDuplicate, ClaimFails, Generate, GenerateFails, Record, RecordFails,
      LookUp, SkipSent, LookUpFails, Send, SendFails, RecordSent,
      RecordSentFails, RecordFailure, Proceed, Return, Throw, Returned, Working, Owning,
      PipelineTypeOK
  <2> QED
    BY <2>1, <2>2, <2>3 DEF Working
<1> QED
  BY <1>1, <1>2

\* What a call reads is a history of its message, and an extension of the first.
LEMMA ReadHistoryKeepsContexts ==
  ASSUME PipelineInv, ThreadInv, ContextInv, NEW j \in Jobs, ReadHistory(j)
  PROVE  ContextInv'
<1> DEFINE m == task[j]
           s == thread[ConversationOf[m]]
           o == Without(s, m)
           h == History(m)
<1>1. Working(j) /\ m \in Messages
  BY DEF ReadHistory, Working, Owning, PipelineInv, PipelineTypeOK, QueueTypeOK
<1>2. s \in Seq(Turns) /\ WellFormed(s) /\ Occurs(Turn("them", m), s)
  BY <1>1, ConversationAssumption
  DEF ThreadInv, RowsInserted, TurnsAreRows, ThreadWellFormed
<1>3. UNCHANGED <<at, task, thread>>
  BY DEF ReadHistory, pipelineVars, queueVars, jobVars, callVars
<1>4. /\ context' = [context EXCEPT ![j] = h]
      /\ first' = IF first[m] = None THEN [first EXCEPT ![m] = h] ELSE first
  BY DEF ReadHistory
<1>5. h = Latest(o, HistoryLimit) /\ o = Others(m)
  BY DEF History, Others
<1>6. o \in Seq(Turns)
  BY <1>2, WithoutKeeps DEF Keeps
<1> HIDE DEF m, s, o, h
<1>7. h \in Seq(Turns) /\ (\A i \in DOMAIN h : h[i].msg # m) /\ FollowsUp(h, s, m)
  BY <1>1, <1>2, <1>5, HistoryFollowsUp DEF o
<1>8. /\ context'[j] = h
      /\ \A k \in Jobs : k # j => context'[k] = context[k]
      /\ \A n \in Messages : first[n] # None => first'[n] = first[n]
      /\ \A n \in Messages : first[n] = None => first'[n] = None \/ n = m
      /\ first[m] = None => first'[m] = h
      /\ context' \in [Jobs -> Seq(Turns) \cup {None}]
      /\ first' \in [Messages -> Seq(Turns) \cup {None}]
  BY <1>1, <1>4, <1>7 DEF ContextInv, ContextsOfCalls
<1>9. ASSUME NEW k \in Jobs, k # j, context'[k] # None
      PROVE  /\ context'[k] = context[k]
             /\ Working(k)
             /\ first[task[k]] # None
             /\ first'[task[k]] = first[task[k]]
  <2>1. context'[k] = context[k] /\ Working(k) /\ first[task[k]] # None
    BY <1>8, <1>9 DEF ContextInv, ContextsOfCalls
  <2>2. task[k] \in Messages
    BY <2>1, WorkingHasMessage
  <2> QED
    BY <1>8, <2>1, <2>2
<1>10. ContextsOfCalls'
  <2> SUFFICES ASSUME NEW k \in Jobs, context'[k] # None
               PROVE  Working(k) /\ first'[task[k]] # None
    BY <1>3, <1>8 DEF ContextsOfCalls, Working
  <2>1. CASE k = j
    <3>1. task[k] = m
      BY <2>1 DEF m
    <3>2. first'[m] # None
      BY <1>1, <1>8, <2>1
    <3> QED
      BY <1>1, <2>1, <3>1, <3>2
  <2>2. CASE k # j
    BY <1>9, <2>2
  <2> QED
    BY <2>1, <2>2
<1>11. SubSeq(o, 1, Len(o)) = o /\ Len(o) \in 0..Len(o)
  BY <1>6
<1>12. FirstWasHistory'
  <2> SUFFICES ASSUME NEW n \in Messages, first'[n] # None
               PROVE  \E i \in 0..Len(Others(n)) :
                        first'[n] = Latest(SubSeq(Others(n), 1, i), HistoryLimit)
    BY <1>3 DEF FirstWasHistory, Others
  <2>1. CASE first[n] # None
    BY <1>8, <2>1 DEF ContextInv, FirstWasHistory
  <2>2. CASE first[n] = None
    <3>1. n = m /\ first'[n] = h
      BY <1>8, <2>2
    <3> QED
      BY <1>5, <1>11, <3>1
  <2> QED
    BY <2>1, <2>2
<1>13. OwnTurnsExcluded'
  BY <1>3, <1>7, <1>8 DEF ContextInv, OwnTurnsExcluded, m
<1>14. FollowUpsInContext'
  BY <1>3, <1>7, <1>8 DEF ContextInv, FollowUpsInContext, FollowsUp, m, s
<1>15. Extends(h, first'[m])
  <2>1. CASE first[m] = None
    BY <1>5, <1>6, <1>8, <1>11, <2>1, LatestExtends
  <2>2. CASE first[m] # None
    <3>1. PICK n \in 0..Len(o) : first[m] = Latest(SubSeq(o, 1, n), HistoryLimit)
      BY <1>1, <1>5, <2>2 DEF ContextInv, FirstWasHistory
    <3> QED
      BY <1>1, <1>5, <1>6, <1>8, <2>2, <3>1, LatestExtends
  <2> QED
    BY <2>1, <2>2
<1>16. RetriesExtendContext'
  <2> SUFFICES ASSUME NEW k \in Jobs, context'[k] # None
               PROVE  Extends(context'[k], first'[task[k]])
    BY <1>3 DEF RetriesExtendContext, Extends
  <2>1. CASE k = j
    BY <1>8, <1>15, <2>1 DEF m
  <2>2. CASE k # j
    <3>1. context'[k] = context[k] /\ first'[task[k]] = first[task[k]]
      BY <1>9, <2>2
    <3> QED
      BY <3>1 DEF ContextInv, RetriesExtendContext, Extends
  <2> QED
    BY <2>1, <2>2
<1> QED
  BY <1>10, <1>12, <1>13, <1>14, <1>16 DEF ContextInv

\* A history that was read stays one when the conversation goes on.
LEMMA FirstStaysHistory ==
  ASSUME NEW s \in Seq(Turns), NEW x \in Turns, NEW m, NEW n \in 0..Len(Without(s, m))
  PROVE  /\ n \in 0..Len(Without(s \o <<x>>, m))
         /\ SubSeq(Without(s \o <<x>>, m), 1, n) = SubSeq(Without(s, m), 1, n)
<1> DEFINE o == Without(s, m)
           later == Without(s \o <<x>>, m)
<1>1. o \in Seq(Turns) /\ (later = o \/ later = o \o <<x>>)
  <2>1. Keeps(o, s, m, Len(s))
    BY WithoutKeeps
  <2>2. later = IF x.msg = m THEN o ELSE o \o <<x>>
    BY WithoutAppended
  <2> HIDE DEF o, later
  <2> QED
    BY <2>1, <2>2 DEF Keeps
<1>2. n \in 0..Len(o)
  OBVIOUS
<1> HIDE DEF o, later
<1>3. n \in 0..Len(o \o <<x>>) /\ SubSeq(o \o <<x>>, 1, n) = SubSeq(o, 1, n)
  BY <1>1, <1>2
<1> QED
  BY <1>1, <1>2, <1>3 DEF o, later

\* The other steps leave the histories of the calls that go on as they were read.
LEMMA OtherStepsKeepContexts ==
  ASSUME QueueInv, PipelineInv, ThreadInv, ThreadInv', ContextInv,
         \/ Surroundings /\ UNCHANGED contextVars
         \/ \E j \in Jobs : Continue(j)
         \/ Dying /\ ContextsVanish
  PROVE  ContextInv'
<1>1. \A k \in Jobs : context'[k] # None =>
        /\ context'[k] = context[k]
        /\ task'[k] = task[k]
        /\ Working(k)
        /\ Working(k)'
  BY CallsKeepContext DEF ContextInv
<1>2. first' = first
  BY DEF contextVars, Continue, ContextsVanish
<1>3. context' \in [Jobs -> Seq(Turns) \cup {None}]
  BY DEF ContextInv, ContextsOfCalls, contextVars, Continue, ContextsVanish
<1>4. ContextsOfCalls'
  BY <1>1, <1>2, <1>3 DEF ContextInv, ContextsOfCalls
<1>5. \A c \in Conversations :
        /\ thread[c] \in Seq(Turns)
        /\ thread'[c] = thread[c] \/ \E x \in Turns : thread'[c] = thread[c] \o <<x>>
  BY ThreadsGrow DEF ThreadInv, contextVars, ContextsVanish
<1>6. FirstWasHistory'
  <2> SUFFICES ASSUME NEW m \in Messages, first[m] # None
               PROVE  \E n \in 0..Len(Others(m)') :
                        first[m] = Latest(SubSeq(Others(m)', 1, n), HistoryLimit)
    BY <1>2 DEF FirstWasHistory
  <2> DEFINE c == ConversationOf[m]
  <2>1. c \in Conversations
    BY ConversationAssumption
  <2>2. Others(m) = Without(thread[c], m) /\ Others(m)' = Without(thread'[c], m)
    BY DEF Others
  <2>3. PICK n \in 0..Len(Others(m)) :
               first[m] = Latest(SubSeq(Others(m), 1, n), HistoryLimit)
    BY DEF ContextInv, FirstWasHistory
  <2>4. thread[c] \in Seq(Turns) /\ n \in 0..Len(Without(thread[c], m))
    BY <1>5, <2>1, <2>2, <2>3
  <2>5. CASE thread'[c] = thread[c]
    BY <2>2, <2>3, <2>5
  <2>6. ASSUME NEW x \in Turns, thread'[c] = thread[c] \o <<x>>
        PROVE  /\ n \in 0..Len(Others(m)')
               /\ SubSeq(Others(m)', 1, n) = SubSeq(Others(m), 1, n)
    BY <2>2, <2>4, <2>6, FirstStaysHistory
  <2> QED
    BY <1>5, <2>1, <2>3, <2>5, <2>6
<1>7. OwnTurnsExcluded'
  BY <1>1 DEF ContextInv, OwnTurnsExcluded
<1>8. FollowUpsInContext'
  <2> SUFFICES ASSUME NEW k \in Jobs, context'[k] # None
               PROVE  FollowsUp(context[k], thread'[ConversationOf[task[k]]], task[k])
    BY <1>1 DEF FollowUpsInContext, FollowsUp
  <2> DEFINE m == task[k]
             c == ConversationOf[m]
  <2>1. m \in Messages /\ c \in Conversations
    BY <1>1, WorkingHasMessage, ConversationAssumption
  <2>2. Occurs(Turn("them", m), thread[c])
    BY <1>1, <2>1 DEF ThreadInv, RowsInserted, TurnsAreRows
  <2>3. FollowsUp(context[k], thread[c], m)
    BY <1>1 DEF ContextInv, FollowUpsInContext, FollowsUp
  <2>4. WellFormed(thread'[c])
    BY <2>1 DEF ThreadInv, ThreadWellFormed
  <2> HIDE DEF m, c
  <2>5. FollowsUp(context[k], thread'[c], m)
    BY <1>5, <2>1, <2>2, <2>3, <2>4, FollowsUpStays
  <2> QED
    BY <2>5 DEF c, m
<1>9. RetriesExtendContext'
  BY <1>1, <1>2 DEF ContextInv, RetriesExtendContext
<1> QED
  BY <1>4, <1>6, <1>7, <1>8, <1>9 DEF ContextInv

\* No step spoils a history.
LEMMA ContextInvStep ==
  ASSUME QueueInv, PipelineInv, ThreadInv, ContextInv, [ContextNext]_replyVars
  PROVE  ContextInv'
<1>1. ASSUME NEW j \in Jobs, ReadHistory(j) PROVE ContextInv'
  BY <1>1, ReadHistoryKeepsContexts
<1>2. CASE UNCHANGED replyVars
  BY <1>2 DEF replyVars, contextVars, pipelineVars, queueVars, jobVars, callVars, ContextInv,
    ContextsOfCalls, FirstWasHistory, Others, OwnTurnsExcluded, FollowUpsInContext,
    RetriesExtendContext, Working
<1>3. CASE \/ Surroundings /\ UNCHANGED contextVars
           \/ \E j \in Jobs : Continue(j)
           \/ Dying /\ ContextsVanish
  BY <1>3, ThreadInvStep, OtherStepsKeepContexts DEF ContextNext
<1> QED
  BY <1>1, <1>2, <1>3 DEF ContextNext

\* The histories stay so in every reachable state.
LEMMA ContextInvAlways == ContextSpec => []ContextInv
<1>1. ContextInit => ContextInv
  BY DEF ContextInit, ContextInv, ContextsOfCalls, FirstWasHistory, OwnTurnsExcluded,
    FollowUpsInContext, RetriesExtendContext
<1> QED
  BY <1>1, ContextInvStep, ThreadInvAlways, ContextRunsPipeline, PipelineQueueInv,
    PipelineInvAlways, PTL DEF ContextSpec

\* Types of the histories; only a call past its claim has read one.
THEOREM ContextTyping == ContextSpec => []ContextTypeOK
<1>1. PipelineInv /\ ThreadInv /\ ContextInv => ContextTypeOK
  BY DEF PipelineInv, ThreadInv, ContextInv, ContextsOfCalls, ContextTypeOK
<1> QED
  BY <1>1, ContextInvAlways, ThreadInvAlways, ContextRunsPipeline, PipelineInvAlways, PTL

\* A message is never answered from a history that holds the message itself or a
\* reply an earlier attempt recorded for it.
THEOREM ContextOwnTurns == ContextSpec => []OwnTurnsExcluded
<1>1. ContextInv => OwnTurnsExcluded
  BY DEF ContextInv
<1> QED
  BY <1>1, ContextInvAlways, PTL

\* All that was said before a message arrived is in the history it is answered from,
\* unless that is full of later turns, and it stays so while the conversation goes on.
THEOREM ContextFollowUps == ContextSpec => []FollowUpsInContext
<1>1. ContextInv => FollowUpsInContext
  BY DEF ContextInv
<1> QED
  BY <1>1, ContextInvAlways, PTL

\* A later attempt at a message reads what the first one read and what was said since,
\* less the older turns that no longer fit.
THEOREM ContextRetries == ContextSpec => []RetriesExtendContext
<1>1. ContextInv => RetriesExtendContext
  BY DEF ContextInv
<1> QED
  BY <1>1, ContextInvAlways, PTL
=============================================================================
