------------------------------ MODULE Pipeline ------------------------------
(***************************************************************************)
(* The message pipeline: QueueConsumerService hands every delivery of the   *)
(* work queue to MessagesService.handleInbound, which persists the inbound  *)
(* message, claims it, generates a reply, records it, sends it through the  *)
(* carrier and marks both rows.  The module composes the queue (WorkQueue)  *)
(* and the table (MessageStore); a job of the queue runs handleInbound one  *)
(* awaited call at a time, so any two jobs interleave, in one process or in *)
(* two.                                                                    *)
(*                                                                         *)
(* A tick is a coarse unit of time (the configured 60 s retry delay, the    *)
(* 90 s stale-claim age and the length of a handler call are compared in    *)
(* ticks).  Every database call may fail with or without having taken       *)
(* effect; a fault kind that is not in Faults never occurs.                 *)
(***************************************************************************)
EXTENDS WorkQueue, MessageStore, Sequences

CONSTANT
  WorkMax  \* longest time, in ticks, a live handler works on a claim; the code
           \* bounds reply generation only, so values above StaleAfter are real

ASSUME WorkAssumption == WorkMax \in Nat

VARIABLES
  at,       \* at[j]: the call of handleInbound job j awaits next
  text,     \* text[j]: the reply text job j holds
  elapsed,  \* elapsed[j]: ticks since job j claimed its message
  sms       \* sms[m]: the replies the carrier has accepted for m

callVars == <<at, text, elapsed>>
pipelineVars == <<queueVars, storeVars, callVars, sms>>

\* Fault kinds beyond those of the queue: "db" a database call fails, "reply"
\* the generator fails, "refused" the carrier rejects the SMS, "unanswered" it
\* accepts the SMS but its response is lost.
May(kind) == kind \in Faults

Owning == {"generate", "record", "lookup", "send", "markSent", "failInbound", "failBoth"}

\* Job j is past the claim and has not finished.
Working(j) == at[j] \in Owning

-----------------------------------------------------------------------------
PipelineInit ==
  /\ QueueInit
  /\ StoreInit
  /\ at = [j \in Jobs |-> "idle"]
  /\ text = [j \in Jobs |-> None]
  /\ elapsed = [j \in Jobs |-> 0]
  /\ sms = [m \in Messages |-> <<>>]

-----------------------------------------------------------------------------
(* How a call of handleInbound proceeds and ends.                          *)

Proceed(j, from, to) ==
  /\ at[j] = from
  /\ at' = [at EXCEPT ![j] = to]
  /\ UNCHANGED queueVars

Returned(j) ==
  /\ at' = [at EXCEPT ![j] = "idle"]
  /\ text' = [text EXCEPT ![j] = None]
  /\ elapsed' = [elapsed EXCEPT ![j] = 0]

\* Mutant: the error is caught and never reaches the queue.
ThrowNothing(j) == Returned(j) /\ UNCHANGED queueVars

Return(j) == HandlerResolves(j) /\ Returned(j)
Throw(j) == HandlerRejects(j) /\ Returned(j)

-----------------------------------------------------------------------------
(* handleInbound.                                                          *)

\* The consumer parses the payload and enters handleInbound.
Receive(j, c) ==
  /\ Deliver(j, c)
  /\ at' = [at EXCEPT ![j] = "persist"]
  /\ UNCHANGED <<storeVars, text, elapsed, sms>>

Persist(j) ==
  /\ Proceed(j, "persist", "claim")
  /\ InsertInbound(task[j])
  /\ UNCHANGED <<text, elapsed, sms>>

\* Mutant: an error of the insert counts as handled.
PersistFailsQuietly(j) ==
  /\ May("db")
  /\ at[j] = "persist"
  /\ InsertInbound(task[j]) \/ UNCHANGED storeVars
  /\ Return(j)
  /\ UNCHANGED sms

\* The persist and claim calls are outside the try block: their errors reach
\* the queue at once.
PersistFails(j) ==
  /\ May("db")
  /\ at[j] = "persist"
  /\ InsertInbound(task[j]) \/ UNCHANGED storeVars
  /\ Throw(j)
  /\ UNCHANGED sms

ClaimMessage(j) ==
  /\ Proceed(j, "claim", "generate")
  /\ Claim(task[j])
  /\ elapsed' = [elapsed EXCEPT ![j] = 0]
  /\ UNCHANGED <<text, sms>>

\* Another worker owns the message, or it has its reply: drop the delivery.
DropDuplicate(j) ==
  /\ at[j] = "claim"
  /\ ~Claimable(task[j])
  /\ Return(j)
  /\ UNCHANGED <<storeVars, sms>>

ClaimFails(j) ==
  /\ May("db")
  /\ at[j] = "claim"
  /\ Claim(task[j]) \/ UNCHANGED storeVars
  /\ Throw(j)
  /\ UNCHANGED sms

\* Reads the conversation history and asks the generator, which may answer
\* differently each time.
Generate(j) ==
  /\ Proceed(j, "generate", "record")
  /\ \E t \in Texts : text' = [text EXCEPT ![j] = t]
  /\ UNCHANGED <<storeVars, elapsed, sms>>

GenerateFails(j) ==
  /\ May("reply") \/ May("db")
  /\ Proceed(j, "generate", "failInbound")
  /\ UNCHANGED <<storeVars, text, elapsed, sms>>

Record(j) ==
  /\ Proceed(j, "record", "lookup")
  /\ InsertReply(task[j], text[j])
  /\ UNCHANGED <<text, elapsed, sms>>

RecordFails(j) ==
  /\ May("db")
  /\ Proceed(j, "record", "failInbound")
  /\ InsertReply(task[j], text[j]) \/ UNCHANGED storeVars
  /\ UNCHANGED <<text, elapsed, sms>>

\* Mutant: a retry sends the text it generated instead of the recorded one.
LookUpOwnText(j) ==
  /\ Proceed(j, "lookup", "send")
  /\ reply[task[j]] # "sent"
  /\ UNCHANGED <<storeVars, text, elapsed, sms>>

\* The row read back is the one recorded first, whoever recorded it.
LookUp(j) ==
  /\ Proceed(j, "lookup", "send")
  /\ reply[task[j]] # "sent"
  /\ text' = [text EXCEPT ![j] = body[task[j]]]
  /\ UNCHANGED <<storeVars, elapsed, sms>>

\* The reply went out on an earlier attempt.
SkipSent(j) ==
  /\ at[j] = "lookup"
  /\ reply[task[j]] = "sent"
  /\ Return(j)
  /\ UNCHANGED <<storeVars, sms>>

LookUpFails(j) ==
  /\ May("db")
  /\ Proceed(j, "lookup", "failInbound")
  /\ UNCHANGED <<storeVars, text, elapsed, sms>>

CarrierAccepts(m, t) == sms' = [sms EXCEPT ![m] = Append(@, t)]

Send(j) ==
  /\ Proceed(j, "send", "markSent")
  /\ CarrierAccepts(task[j], text[j])
  /\ UNCHANGED <<storeVars, text, elapsed>>

SendFails(j) ==
  /\ Proceed(j, "send", "failBoth")
  /\ \/ May("refused") /\ UNCHANGED sms
     \/ May("unanswered") /\ CarrierAccepts(task[j], text[j])
  /\ UNCHANGED <<storeVars, text, elapsed>>

RecordSent(j) ==
  /\ at[j] = "markSent"
  /\ MarkSent(task[j])
  /\ Return(j)
  /\ UNCHANGED sms

RecordSentFails(j) ==
  /\ May("db")
  /\ Proceed(j, "markSent", "failBoth")
  /\ MarkSent(task[j]) \/ UNCHANGED storeVars
  /\ UNCHANGED <<text, elapsed, sms>>

\* Mutant: the catch block records the failure but does not rethrow.
RecordFailureOnly(j) ==
  /\ at[j] \in {"failInbound", "failBoth"}
  /\ \/ MarkFailed(task[j], at[j] = "failBoth")
     \/ May("db") /\ UNCHANGED storeVars
  /\ Return(j)
  /\ UNCHANGED sms

\* The catch block: markFailed, whose own failure is swallowed, then rethrow.
RecordFailure(j) ==
  /\ at[j] \in {"failInbound", "failBoth"}
  /\ \/ MarkFailed(task[j], at[j] = "failBoth")
     \/ May("db") /\ UNCHANGED storeVars
  /\ Throw(j)
  /\ UNCHANGED sms

HandleInbound(j) ==
  \/ Persist(j) \/ PersistFails(j)
  \/ ClaimMessage(j) \/ DropDuplicate(j) \/ ClaimFails(j)
  \/ Generate(j) \/ GenerateFails(j)
  \/ Record(j) \/ RecordFails(j)
  \/ LookUp(j) \/ SkipSent(j) \/ LookUpFails(j)
  \/ Send(j) \/ SendFails(j)
  \/ RecordSent(j) \/ RecordSentFails(j)
  \/ RecordFailure(j)

-----------------------------------------------------------------------------
(* The rest of the system.                                                 *)

\* Steps of the queue that concern no running handler.
Elsewhere ==
  /\ BrokerStep \/ \E j \in Jobs : DispatchEnds(j) \/ RepublishNacked(j)
  /\ UNCHANGED <<storeVars, callVars, sms>>

\* The calls running in a process end with it, wherever they were.
CallsVanish(w) ==
  /\ at' = [j \in Jobs |-> IF ProcessOf[j] = w THEN "idle" ELSE at[j]]
  /\ text' = [j \in Jobs |-> IF ProcessOf[j] = w THEN None ELSE text[j]]
  /\ elapsed' = [j \in Jobs |-> IF ProcessOf[j] = w THEN 0 ELSE elapsed[j]]
  /\ UNCHANGED <<storeVars, sms>>

WorkerStops(w) == Stop(w) /\ CallsVanish(w)
WorkerExits(j) == AckOnDeadChannel(j) /\ CallsVanish(ProcessOf[j])

\* Time passes for the retry queue, the claims and the running calls.
Tick ==
  /\ \A j \in Jobs : Working(j) => elapsed[j] < WorkMax
  /\ copies' = Cooled
  /\ ClaimsAge
  /\ elapsed' = [j \in Jobs |-> IF Working(j) THEN elapsed[j] + 1 ELSE elapsed[j]]
  /\ UNCHANGED <<accepted, posts, connected, nacked, jobVars, historyVars, at, text, sms>>

-----------------------------------------------------------------------------
PipelineNext ==
  \/ Elsewhere
  \/ Tick
  \/ \E j \in Jobs, c \in Copies : Receive(j, c)
  \/ \E j \in Jobs : HandleInbound(j) \/ WorkerExits(j)
  \/ \E w \in Workers : WorkerStops(w)

PipelineSpec == PipelineInit /\ [][PipelineNext]_pipelineVars

\* What runs by itself; POSTs, faults of the queue and stopped processes need
\* not happen.
PipelineProgress ==
  \/ Tick
  \/ \E j \in Jobs, c \in Copies : Receive(j, c)
  \/ \E j \in Jobs : HandleInbound(j) \/ WorkerExits(j)
  \/ /\ \/ \E c \in Copies : Settle(c) \/ Expire(c)
        \/ \E w \in Workers : Reconnect(w)
        \/ \E j \in Jobs : DispatchEnds(j)
     /\ UNCHANGED <<storeVars, callVars, sms>>

FairPipelineSpec == PipelineSpec /\ WF_pipelineVars(PipelineProgress)

-----------------------------------------------------------------------------
(* Properties.                                                             *)

\* Types of the running calls; a call is inside handleInbound exactly while
\* the queue waits for its handler.
PipelineTypeOK ==
  /\ QueueTypeOK
  /\ StoreTypeOK
  /\ at \in [Jobs -> Owning \cup {"idle", "persist", "claim"}]
  /\ text \in [Jobs -> Texts \cup {None}]
  /\ elapsed \in [Jobs -> 0..WorkMax]
  /\ sms \in [Messages -> Seq(Texts)]
  /\ \A j \in Jobs : (at[j] = "idle") <=> (stage[j] # "handling")

\* "Exactly one live worker may pass this point per message"
\* (messages.service.ts): no two live calls are past the claim of one message.
ExclusiveProcessing ==
  \A i, j \in Jobs :
    Working(i) /\ Working(j) /\ task[i] = task[j] => i = j

\* Every SMS sent in reply to a message carries the recorded text, whatever
\* text a later attempt generated: retries never send a different reply.
SameText ==
  \A m \in Messages : \A i \in DOMAIN sms[m] : sms[m][i] = body[m]

\* A row marked sent has an SMS behind it, and the inbound row and its reply
\* agree on being sent: neither ends "sent" while the other says otherwise.
SentTogether ==
  \A m \in Messages :
    /\ (inbound[m] = "sent") <=> (reply[m] = "sent")
    /\ inbound[m] = "sent" => sms[m] # <<>>

InSystem == {m \in Messages : \E c \in Copies : copies[c].msg = m}

\* Nothing is dropped: an accepted message whose reply is not sent is still being
\* worked on, or has a copy in the broker (ready, delayed, unacked or parked).
NothingDropped ==
  \A m \in accepted :
    \/ reply[m] = "sent"
    \/ m \in InSystem
    \/ \E j \in Jobs : Working(j) /\ task[j] = m

\* At most one reply SMS per inbound message.
AtMostOneSms == \A m \in Messages : Len(sms[m]) <= 1

\* A reply is sent again only at the price of a fault: each process that stops and
\* each channel that is lost costs at most one more SMS per message, duplicates,
\* retries and concurrent handlers cost none.
OneSmsPerFault == \A m \in Messages : Len(sms[m]) <= 1 + faults

\* A message marked sent stays sent ("Sent" ends the pipeline's state machine,
\* contracts/src/index.ts).
SentIsFinal ==
  [][\A m \in Messages : inbound[m] = "sent" => inbound'[m] = "sent"]_pipelineVars

\* Every accepted message ends with its reply sent or parked in the dead-letter
\* queue.
EventuallyRepliedOrParked ==
  \A m \in Messages :
    m \in accepted ~> \/ inbound[m] = "sent"
                      \/ \E c \in Copies : copies[c].place = "dlq" /\ copies[c].msg = m

EOR == INSTANCE ExactlyOnceReply
         WITH promised <- accepted, open <- InSystem, replies <- sms

ImplementsExactlyOnceReply == EOR!Spec
=============================================================================
