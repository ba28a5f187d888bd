----------------------------- MODULE ReplyContext -----------------------------
(***************************************************************************)
(* What a reply is generated from: the conversation history handleInbound   *)
(* reads (MessagesRepository.conversationHistory) and hands to the reply    *)
(* generator.  The module adds to Pipeline the order of the rows of each    *)
(* conversation (created_at) and the history each running call has read,    *)
(* and splits the read from the generation, so that other messages of the   *)
(* conversation are persisted and answered before, between and after them.  *)
(***************************************************************************)
EXTENDS Pipeline

CONSTANTS
  Conversations,   \* rows of the conversations table, one per phone number
  ConversationOf,  \* the conversation a message belongs to, by its sender
  HistoryLimit,    \* reply.historyLimit
  Past,            \* messages answered before the behaviour begins
  Earlier          \* histories a conversation may begin with

Turn(side, m) == [side |-> side, msg |-> m]
TurnsOf(S) == [side : {"them", "you"}, msg : S]
Turns == TurnsOf(Messages \cup Past)

Before(s, a, b) == \E i, k \in DOMAIN s : i < k /\ s[i] = a /\ s[k] = b

\* No row twice, and no reply before the message it answers.
WellFormed(s) ==
  /\ \A i, k \in DOMAIN s : s[i] = s[k] => i = k
  /\ \A i \in DOMAIN s : s[i].side = "you" => Before(s, Turn("them", s[i].msg), s[i])

ASSUME ConversationAssumption == ConversationOf \in [Messages -> Conversations]
ASSUME PastAssumption == Past \cap Messages = {}
ASSUME EarlierAssumption ==
  None \notin Earlier /\ \A s \in Earlier : s \in Seq(TurnsOf(Past)) /\ WellFormed(s)
ASSUME LimitAssumption == HistoryLimit \in Nat

VARIABLES
  thread,   \* thread[c]: the turns of conversation c in the order of created_at
  context,  \* context[j]: the history job j has read for its message, or None
  first     \* first[m]: the history the first attempt at m read, or None

contextVars == <<thread, context, first>>
replyVars == <<pipelineVars, contextVars>>

ContextInit ==
  /\ PipelineInit
  /\ thread \in [Conversations -> Earlier]
  /\ context = [j \in Jobs |-> None]
  /\ first = [m \in Messages |-> None]

-----------------------------------------------------------------------------
\* Mutant: a reply an earlier attempt recorded for m is not left out.
OthersOwnReply(m) ==
  LET NotOwn(turn) == turn # Turn("them", m)
  IN  SelectSeq(thread[ConversationOf[m]], NotOwn)

\* Mutant: messages still being processed are left out too.
OthersSettled(m) ==
  LET NotOwn(turn) ==
        turn.msg # m /\ (turn.msg \in Messages => inbound[turn.msg] # "processing")
  IN  SelectSeq(thread[ConversationOf[m]], NotOwn)

\* The turns of s other than m and the reply to it, in their order.
Without(s, m) ==
  LET upTo[i \in 0..Len(s)] ==
        IF i = 0 THEN <<>>
        ELSE IF s[i].msg = m THEN upTo[i - 1] ELSE Append(upTo[i - 1], s[i])
  IN  upTo[Len(s)]

Others(m) == Without(thread[ConversationOf[m]], m)

\* Mutant: ORDER BY created_at ASC.
LatestFromStart(s, n) == IF Len(s) <= n THEN s ELSE SubSeq(s, 1, n)

\* The last n elements of a sequence, in order.
Latest(s, n) == IF Len(s) <= n THEN s ELSE SubSeq(s, Len(s) - n + 1, Len(s))

\* conversationHistory: the latest turns, oldest first.
History(m) == Latest(Others(m), HistoryLimit)

\* The history is read once the message is claimed.
ReadHistory(j) ==
  /\ at[j] = "generate"
  /\ context[j] = None
  /\ context' = [context EXCEPT ![j] = History(task[j])]
  /\ first' = IF first[task[j]] = None
              THEN [first EXCEPT ![task[j]] = History(task[j])]
              ELSE first
  /\ UNCHANGED <<pipelineVars, thread>>

\* The generator is called with a history, or reading the history has failed.
HistoryRead(j) ==
  at[j] = "generate" => context[j] # None \/ (May("db") /\ GenerateFails(j))

-----------------------------------------------------------------------------
\* Mutant: in_reply_to is not unique.
NewTurnsUnkeyed(m) ==
  (IF inbound[m] = "absent" /\ inbound'[m] # "absent" THEN <<Turn("them", m)>> ELSE <<>>)
  \o (IF \E j \in Jobs : task[j] = m /\ at[j] = "record" /\ at'[j] = "lookup"
      THEN <<Turn("you", m)>> ELSE <<>>)

\* The rows a step inserts for m: its unique keys let each in only once.
NewTurns(m) ==
  (IF inbound[m] = "absent" /\ inbound'[m] # "absent" THEN <<Turn("them", m)>> ELSE <<>>)
  \o (IF reply[m] = "absent" /\ reply'[m] # "absent" THEN <<Turn("you", m)>> ELSE <<>>)

\* Mutant: the history outlives the call and serves the job's next one.
ContinueKeepingHistory(j) ==
  /\ HandleInbound(j)
  /\ HistoryRead(j)
  /\ thread' = [thread EXCEPT ![ConversationOf[task[j]]] = @ \o NewTurns(task[j])]
  /\ UNCHANGED <<context, first>>

\* Every other step of handleInbound; the history is dropped when it ends.
Continue(j) ==
  /\ HandleInbound(j)
  /\ HistoryRead(j)
  /\ thread' = [thread EXCEPT ![ConversationOf[task[j]]] = @ \o NewTurns(task[j])]
  /\ context' = [context EXCEPT ![j] = IF at'[j] = "idle" THEN None ELSE @]
  /\ UNCHANGED first

\* The histories of the calls a dying process takes with it are gone.
ContextsVanish ==
  /\ context' = [j \in Jobs |-> IF at'[j] = "idle" THEN None ELSE context[j]]
  /\ UNCHANGED <<thread, first>>

Surroundings ==
  \/ Elsewhere
  \/ Tick
  \/ \E j \in Jobs, c \in Copies : Receive(j, c)

Dying == (\E j \in Jobs : WorkerExits(j)) \/ (\E w \in Workers : WorkerStops(w))

ContextNext ==
  \/ Surroundings /\ UNCHANGED contextVars
  \/ \E j \in Jobs : ReadHistory(j) \/ Continue(j)
  \/ Dying /\ ContextsVanish

ContextSpec == ContextInit /\ [][ContextNext]_replyVars

-----------------------------------------------------------------------------
(* Properties.                                                             *)

\* Types; only a call past its claim has read a history.
ContextTypeOK ==
  /\ PipelineTypeOK
  /\ thread \in [Conversations -> Seq(Turns)]
  /\ context \in [Jobs -> Seq(Turns) \cup {None}]
  /\ first \in [Messages -> Seq(Turns) \cup {None}]
  /\ \A j \in Jobs : context[j] # None => Working(j)

\* "A retry would otherwise see its own in-flight reply as history"
\* (messages.repository.ts): neither the message nor a reply an earlier attempt
\* recorded for it is in the history it is answered from.
OwnTurnsExcluded ==
  \A j \in Jobs : context[j] # None =>
    \A i \in DOMAIN context[j] : context[j][i].msg # task[j]

\* A conversation reads as it happened, whatever was delivered or attempted twice.
ThreadWellFormed == \A c \in Conversations : WellFormed(thread[c])

\* "Answer follow-ups in context" (claude.driver.ts): what was said before a
\* message arrived is in the history it is answered from, unless that history
\* is full of later turns.
FollowUpsInContext ==
  \A j \in Jobs : context[j] # None =>
    LET m == task[j]
        s == thread[ConversationOf[m]]
    IN  \A a \in Turns : Before(s, a, Turn("them", m)) =>
          \/ \E i \in DOMAIN context[j] : context[j][i] = a
          \/ /\ Len(context[j]) = HistoryLimit
             /\ \A i \in DOMAIN context[j] : Before(s, a, context[j][i])

\* What is true of "a retry or another worker regenerates the identical context"
\* (messages.service.ts): a later attempt at a message sees what the first one
\* saw, in the same order, followed by what was said since; only older turns
\* fall out at the limit.
RetriesExtendContext ==
  \A j \in Jobs : context[j] # None =>
    \E older \in 0..Len(first[task[j]]) :
      LET kept == SubSeq(first[task[j]], older + 1, Len(first[task[j]]))
      IN  /\ older > 0 => Len(context[j]) = HistoryLimit
          /\ Len(kept) <= Len(context[j])
          /\ SubSeq(context[j], 1, Len(kept)) = kept
=============================================================================
