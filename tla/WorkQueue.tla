------------------------------ MODULE WorkQueue ------------------------------
(***************************************************************************)
(* The inbound work queue: RabbitMqService (queue/rabbitmq.service.ts)      *)
(* together with the broker it talks to and the webhook that feeds it.     *)
(*                                                                         *)
(* A message the carrier POSTs is published to the durable main queue; a   *)
(* worker process receives it, runs the handler, and then acks it, or      *)
(* republishes it to the delayed retry queue (x-attempt + 1), or, once     *)
(* maxReceiveCount attempts have failed, to the dead-letter queue, and     *)
(* only then acks the original.  What the handler does is left open here:  *)
(* it resolves or it rejects.  Module Pipeline fills it in.                *)
(*                                                                         *)
(* The broker is modelled as a pool of interchangeable slots (Copies),     *)
(* each free or holding one copy of a message.  Delivery takes any ready   *)
(* copy, which covers FIFO order, requeueing and competing consumers.      *)
(***************************************************************************)
EXTENDS InboundMessages, Integers, FiniteSets

CONSTANTS
  Copies,           \* slots of the broker
  Workers,          \* worker processes, each with one connection and one channel
  Jobs,             \* invocations of dispatch() that can be live at once
  ProcessOf,        \* the worker process each job runs in
  Prefetch,         \* rabbitmq.prefetch: unacked deliveries per channel
  MaxReceiveCount,  \* rabbitmq.maxReceiveCount
  RetryDelay,       \* rabbitmq.retryDelayMs, in ticks
  Faults,           \* the kinds of failure that may happen: "channel", "stop", "nack"
  MaxPosts,         \* bound: webhook POSTs of one message (carrier retries included)
  MaxFaults         \* bound: lost channels, stopped processes and nacks together

ASSUME ProcessAssumption == ProcessOf \in [Jobs -> Workers]
ASSUME NoneAssumption == None \notin Copies \cup Workers
ASSUME SlotAssumption == IsFiniteSet(Copies)
ASSUME CountAssumption ==
  /\ Prefetch \in Nat \ {0}
  /\ MaxReceiveCount \in Nat \ {0}
  /\ RetryDelay \in Nat
  /\ MaxPosts \in Nat
  /\ MaxFaults \in Nat

VARIABLES
  copies,     \* copies[c]: what slot c of the broker holds, and where
  accepted,   \* messages whose webhook call was answered 204
  posts,      \* posts[m]: webhook calls made for m
  connected,  \* connected[w]: w has a channel the broker considers open
  nacked,     \* nacked[w]: republishes the broker has refused on w's present channel
  stage,      \* stage[j]: how far dispatch() has got in job j
  task,       \* task[j]: the message job j works on
  holds,      \* holds[j]: the delivery j can still ack; None once its channel died
  resolved,   \* messages for which a handler call has resolved
  failures,   \* failures[m]: rejected handler calls, counted up to MaxReceiveCount
  faults      \* lost channels, stopped processes and nacks so far

brokerVars == <<copies, accepted, posts, connected, nacked>>
jobVars == <<stage, task, holds>>
historyVars == <<resolved, failures, faults>>
queueVars == <<brokerVars, jobVars, historyVars>>

-----------------------------------------------------------------------------
(* The broker.                                                             *)

\* "acking": the client has sent the ack, the broker has not processed it.
Places == {"free", "main", "retry", "dlq", "unacked", "acking"}

Copy(place, m, attempt, ttl, w) ==
  [place |-> place, msg |-> m, attempt |-> attempt, ttl |-> ttl, worker |-> w]

FreeSlot == Copy("free", None, 1, 0, None)
Ready(m, attempt) == Copy("main", m, attempt, 0, None)
Delayed(m, attempt) == Copy("retry", m, attempt, RetryDelay, None)
DeadLetter(m, attempt) == Copy("dlq", m, attempt, 0, None)

\* The copy in slot c, elsewhere: same message, same x-attempt.
Moved(c, place, w) == Copy(place, copies[c].msg, copies[c].attempt, 0, w)

IsFree(c) == copies[c].place = "free"
HasRoom == \E c \in Copies : IsFree(c)
Fresh == CHOOSE c \in Copies : IsFree(c)

\* Deliveries that count against the prefetch of w's channel.
InFlight(w) ==
  {c \in Copies : copies[c].place \in {"unacked", "acking"} /\ copies[c].worker = w}

\* The broker's reaction to a closed channel: everything unacked is ready
\* again, with its headers (x-attempt) as they were.
Requeued(w) ==
  [c \in Copies |-> IF c \in InFlight(w)
                    THEN Moved(c, "main", None)
                    ELSE copies[c]]

\* The retry queue one tick later.
Cooled ==
  [c \in Copies |-> IF copies[c].place = "retry" /\ copies[c].ttl > 0
                    THEN Copy("retry", copies[c].msg, copies[c].attempt, copies[c].ttl - 1,
                              copies[c].worker)
                    ELSE copies[c]]

-----------------------------------------------------------------------------
QueueInit ==
  /\ copies = [c \in Copies |-> FreeSlot]
  /\ accepted = {}
  /\ posts = [m \in Messages |-> 0]
  /\ connected = [w \in Workers |-> TRUE]
  /\ nacked = [w \in Workers |-> 0]
  /\ stage = [j \in Jobs |-> "idle"]
  /\ task = [j \in Jobs |-> None]
  /\ holds = [j \in Jobs |-> None]
  /\ resolved = {}
  /\ failures = [m \in Messages |-> 0]
  /\ faults = 0

-----------------------------------------------------------------------------
(* Ingestion: POST /webhooks/twilio/sms -> send() -> publisher confirm.    *)

\* The carrier POSTs m: for the first time, as a duplicate, or after an error.
Posted(m) ==
  /\ posts[m] < MaxPosts
  /\ posts' = [posts EXCEPT ![m] = @ + 1]

Stored(m) ==
  /\ Posted(m)
  /\ HasRoom
  /\ copies' = [copies EXCEPT ![Fresh] = Ready(m, 1)]

\* Mutant: the webhook answers without waiting for the publish to be confirmed.
PostAcceptedUnconfirmed(m) ==
  /\ Posted(m)
  /\ accepted' = accepted \cup {m}
  /\ UNCHANGED <<copies, connected, nacked, jobVars, historyVars>>

\* The broker confirms the publish and the webhook answers 204.
PostAccepted(m) ==
  /\ Stored(m)
  /\ accepted' = accepted \cup {m}
  /\ UNCHANGED <<connected, nacked, jobVars, historyVars>>

\* The broker has the message, but the API dies or loses its channel before
\* the confirm: the carrier sees an error.
PostUnconfirmed(m) ==
  /\ Stored(m)
  /\ UNCHANGED <<accepted, connected, nacked, jobVars, historyVars>>

\* No publish channel: send() throws, the webhook answers 500.
PostRejected(m) ==
  /\ Posted(m)
  /\ UNCHANGED <<copies, accepted, connected, nacked, jobVars, historyVars>>

-----------------------------------------------------------------------------
(* dispatch(), retryOrPark(): one step per awaited call.                   *)

\* The consumer callback starts a dispatch() for a ready copy.
Deliver(j, c) ==
  /\ stage[j] = "idle"
  /\ connected[ProcessOf[j]]
  /\ copies[c].place = "main"
  /\ Cardinality(InFlight(ProcessOf[j])) < Prefetch
  /\ copies' = [copies EXCEPT ![c] = Moved(c, "unacked", ProcessOf[j])]
  /\ stage' = [stage EXCEPT ![j] = "handling"]
  /\ task' = [task EXCEPT ![j] = copies[c].msg]
  /\ holds' = [holds EXCEPT ![j] = c]
  /\ UNCHANGED <<accepted, posts, connected, nacked, historyVars>>

HandlerResolves(j) ==
  /\ stage[j] = "handling"
  /\ stage' = [stage EXCEPT ![j] = "ack"]
  /\ resolved' = resolved \cup {task[j]}
  /\ UNCHANGED <<brokerVars, task, holds, failures, faults>>

\* Mutant: a rejected delivery is acked without being republished.
HandlerRejectsAcked(j) ==
  /\ stage[j] = "handling"
  /\ stage' = [stage EXCEPT ![j] = "ackOriginal"]
  /\ failures' = [failures EXCEPT ![task[j]] =
                    IF @ < MaxReceiveCount THEN @ + 1 ELSE @]
  /\ UNCHANGED <<brokerVars, task, holds, resolved, faults>>

HandlerRejects(j) ==
  /\ stage[j] = "handling"
  /\ stage' = [stage EXCEPT ![j] = "republish"]
  /\ failures' = [failures EXCEPT ![task[j]] =
                    IF @ < MaxReceiveCount THEN @ + 1 ELSE @]
  /\ UNCHANGED <<brokerVars, task, holds, resolved, faults>>

Finished(j) ==
  /\ stage' = [stage EXCEPT ![j] = "idle"]
  /\ task' = [task EXCEPT ![j] = None]
  /\ holds' = [holds EXCEPT ![j] = None]

\* channel.ack(msg): fire and forget; the broker has it when Settle happens.
AckSent(j) ==
  /\ holds[j] # None
  /\ copies' = [copies EXCEPT ![holds[j]] = Moved(holds[j], "acking", ProcessOf[j])]
  /\ Finished(j)

Ack(j) ==
  /\ stage[j] = "ack"
  /\ AckSent(j)
  /\ UNCHANGED <<accepted, posts, connected, nacked, historyVars>>

\* Mutant: retryOrPark() republishes without comparing x-attempt.
RepublishUnlimited(j) ==
  /\ stage[j] = "republish"
  /\ holds[j] # None
  /\ HasRoom
  /\ copies' = [copies EXCEPT ![Fresh] = Delayed(task[j], copies[holds[j]].attempt + 1)]
  /\ stage' = [stage EXCEPT ![j] = "ackOriginal"]
  /\ UNCHANGED <<accepted, posts, connected, nacked, task, holds, historyVars>>

\* The attempts are not used up: publish to the retry queue with x-attempt
\* incremented, and wait for the broker's confirm.
Republish(j) ==
  /\ stage[j] = "republish"
  /\ holds[j] # None
  /\ copies[holds[j]].attempt < MaxReceiveCount
  /\ HasRoom
  /\ copies' = [copies EXCEPT ![Fresh] = Delayed(task[j], copies[holds[j]].attempt + 1)]
  /\ stage' = [stage EXCEPT ![j] = "ackOriginal"]
  /\ UNCHANGED <<accepted, posts, connected, nacked, task, holds, historyVars>>

\* Mutant: the comparison is off by one and parks an attempt early.
ParkEarly(j) ==
  /\ stage[j] = "republish"
  /\ holds[j] # None
  /\ copies[holds[j]].attempt >= MaxReceiveCount - 1
  /\ HasRoom
  /\ copies' = [copies EXCEPT ![Fresh] = DeadLetter(task[j], copies[holds[j]].attempt)]
  /\ stage' = [stage EXCEPT ![j] = "ackOriginal"]
  /\ UNCHANGED <<accepted, posts, connected, nacked, task, holds, historyVars>>

\* The attempts are used up: publish to the dead-letter queue.
Park(j) ==
  /\ stage[j] = "republish"
  /\ holds[j] # None
  /\ copies[holds[j]].attempt >= MaxReceiveCount
  /\ HasRoom
  /\ copies' = [copies EXCEPT ![Fresh] = DeadLetter(task[j], copies[holds[j]].attempt)]
  /\ stage' = [stage EXCEPT ![j] = "ackOriginal"]
  /\ UNCHANGED <<accepted, posts, connected, nacked, task, holds, historyVars>>

\* Mutant: a parked original is not acked.
AckOriginalRetried(j) ==
  /\ stage[j] = "ackOriginal"
  /\ holds[j] # None
  /\ \/ copies[holds[j]].attempt < MaxReceiveCount /\ AckSent(j)
     \/ copies[holds[j]].attempt >= MaxReceiveCount /\ Finished(j) /\ UNCHANGED copies
  /\ UNCHANGED <<accepted, posts, connected, nacked, historyVars>>

AckOriginal(j) ==
  /\ stage[j] = "ackOriginal"
  /\ AckSent(j)
  /\ UNCHANGED <<accepted, posts, connected, nacked, historyVars>>

\* The channel is gone: publish or ack throws inside retryOrPark(), dispatch()
\* logs the error and returns.
Abandon(j) ==
  /\ stage[j] \in {"republish", "ackOriginal"}
  /\ holds[j] = None
  /\ Finished(j)
  /\ UNCHANGED <<brokerVars, historyVars>>

-----------------------------------------------------------------------------
(* The broker's own steps.                                                 *)

\* The broker processes an ack and forgets the delivery.
Settle(c) ==
  /\ copies[c].place = "acking"
  /\ copies' = [copies EXCEPT ![c] = FreeSlot]
  /\ UNCHANGED <<accepted, posts, connected, nacked, jobVars, historyVars>>

\* Mutant: the retry queue is declared without x-dead-letter-routing-key.
ExpireDropped(c) ==
  /\ copies[c].place = "retry"
  /\ copies[c].ttl = 0
  /\ copies' = [copies EXCEPT ![c] = FreeSlot]
  /\ UNCHANGED <<accepted, posts, connected, nacked, jobVars, historyVars>>

\* The retry queue's TTL runs out and the copy is dead-lettered to main.
Expire(c) ==
  /\ copies[c].place = "retry"
  /\ copies[c].ttl = 0
  /\ copies' = [copies EXCEPT ![c] = Moved(c, "main", None)]
  /\ UNCHANGED <<accepted, posts, connected, nacked, jobVars, historyVars>>

QueueTick ==
  /\ \E c \in Copies : copies[c].place = "retry" /\ copies[c].ttl > 0
  /\ copies' = Cooled
  /\ UNCHANGED <<accepted, posts, connected, nacked, jobVars, historyVars>>

-----------------------------------------------------------------------------
(* Failures.                                                               *)

Fault(kind) ==
  /\ kind \in Faults
  /\ faults < MaxFaults
  /\ faults' = faults + 1

\* The broker refuses the republished copy (basic.nack) on a live channel:
\* retryOrPark() throws before its ack, dispatch() logs the error and returns,
\* and the original stays unacked with nobody left to ack it.
RepublishNacked(j) ==
  /\ stage[j] = "republish"
  /\ holds[j] # None
  /\ Fault("nack")
  /\ Finished(j)
  /\ nacked' = [nacked EXCEPT ![ProcessOf[j]] = @ + 1]
  /\ UNCHANGED <<copies, accepted, posts, connected, resolved, failures>>

\* Mutant: jobs go on using the delivery tags of the channel they lost.
LoseChannelKeepingTags(w) ==
  /\ connected[w]
  /\ Fault("channel")
  /\ connected' = [connected EXCEPT ![w] = FALSE]
  /\ copies' = Requeued(w)
  /\ nacked' = [nacked EXCEPT ![w] = 0]
  /\ UNCHANGED <<accepted, posts, stage, task, holds, resolved, failures>>

\* The connection drops while the process lives on: its handlers keep running
\* without a delivery they could ack.
LoseChannel(w) ==
  /\ connected[w]
  /\ Fault("channel")
  /\ connected' = [connected EXCEPT ![w] = FALSE]
  /\ copies' = Requeued(w)
  /\ nacked' = [nacked EXCEPT ![w] = 0]
  /\ holds' = [j \in Jobs |-> IF ProcessOf[j] = w THEN None ELSE holds[j]]
  /\ UNCHANGED <<accepted, posts, stage, task, resolved, failures>>

\* The process is gone: its handlers vanish mid-step, its deliveries requeue.
ProcessDies(w) ==
  /\ connected' = [connected EXCEPT ![w] = FALSE]
  /\ copies' = Requeued(w)
  /\ nacked' = [nacked EXCEPT ![w] = 0]
  /\ stage' = [j \in Jobs |-> IF ProcessOf[j] = w THEN "idle" ELSE stage[j]]
  /\ task' = [j \in Jobs |-> IF ProcessOf[j] = w THEN None ELSE task[j]]
  /\ holds' = [j \in Jobs |-> IF ProcessOf[j] = w THEN None ELSE holds[j]]

\* A crash, a kill, or the exit that ends a graceful shutdown.
Stop(w) ==
  /\ Fault("stop")
  /\ ProcessDies(w)
  /\ UNCHANGED <<accepted, posts, resolved, failures>>

\* dispatch() acks outside its try block: on a dead channel the ack throws,
\* nobody handles the rejected promise, and Node ends the process.
AckOnDeadChannel(j) ==
  /\ stage[j] = "ack"
  /\ holds[j] = None
  /\ ProcessDies(ProcessOf[j])
  /\ UNCHANGED <<accepted, posts, historyVars>>

\* connectLoop() gets a new connection and startConsumer() a new channel.
Reconnect(w) ==
  /\ ~connected[w]
  /\ connected' = [connected EXCEPT ![w] = TRUE]
  /\ UNCHANGED <<copies, accepted, posts, nacked, jobVars, historyVars>>

-----------------------------------------------------------------------------
\* dispatch() once the handler call is over.
DispatchEnds(j) ==
  Ack(j) \/ Republish(j) \/ Park(j) \/ AckOriginal(j) \/ Abandon(j)

BrokerStep ==
  \/ \E m \in Messages : PostAccepted(m) \/ PostUnconfirmed(m) \/ PostRejected(m)
  \/ \E c \in Copies : Settle(c) \/ Expire(c)
  \/ \E w \in Workers : LoseChannel(w) \/ Reconnect(w)

QueueNext ==
  \/ BrokerStep
  \/ QueueTick
  \/ \E j \in Jobs, c \in Copies : Deliver(j, c)
  \/ \E j \in Jobs : HandlerResolves(j) \/ HandlerRejects(j)
  \/ \E j \in Jobs : DispatchEnds(j) \/ RepublishNacked(j) \/ AckOnDeadChannel(j)
  \/ \E w \in Workers : Stop(w)

QueueSpec == QueueInit /\ [][QueueNext]_queueVars

\* What runs by itself as long as the broker and a worker are up: deliveries,
\* handlers, confirms, acks, timers, reconnects.  POSTs and failures need not
\* happen.
QueueProgress ==
  \/ QueueTick
  \/ \E c \in Copies : Settle(c) \/ Expire(c)
  \/ \E w \in Workers : Reconnect(w)
  \/ \E j \in Jobs, c \in Copies : Deliver(j, c)
  \/ \E j \in Jobs : HandlerResolves(j) \/ HandlerRejects(j)
  \/ \E j \in Jobs : DispatchEnds(j) \/ AckOnDeadChannel(j)

FairQueueSpec == QueueSpec /\ WF_queueVars(QueueProgress)

-----------------------------------------------------------------------------
(* Properties.                                                             *)

Stages == {"idle", "handling", "ack", "republish", "ackOriginal"}

CopyType ==
  [place : Places, msg : Messages \cup {None}, attempt : 1..MaxReceiveCount,
   ttl : 0..RetryDelay, worker : Workers \cup {None}]

\* Types: every variable of the queue stays in its domain; x-attempt never
\* leaves 1..maxReceiveCount (retryOrPark's comparison), and a slot or a job
\* names a message exactly while it is in use.
QueueTypeOK ==
  /\ copies \in [Copies -> CopyType]
  /\ accepted \subseteq Messages
  /\ posts \in [Messages -> 0..MaxPosts]
  /\ connected \in [Workers -> BOOLEAN]
  /\ nacked \in [Workers -> Nat]
  /\ stage \in [Jobs -> Stages]
  /\ task \in [Jobs -> Messages \cup {None}]
  /\ holds \in [Jobs -> Copies \cup {None}]
  /\ resolved \subseteq Messages
  /\ failures \in [Messages -> 0..MaxReceiveCount]
  /\ faults \in 0..MaxFaults
  /\ \A c \in Copies : (copies[c].msg = None) <=> IsFree(c)
  /\ \A j \in Jobs : (task[j] = None) <=> (stage[j] = "idle")

\* A copy the broker will still deliver or keep, whatever its holder does next:
\* ready, delayed, parked, or unacked by a job that has not yet handed the
\* message on to the retry or dead-letter queue.
Secure(c) ==
  \/ copies[c].place \in {"main", "retry", "dlq"}
  \/ /\ copies[c].place = "unacked"
     /\ \A j \in Jobs : holds[j] = c => stage[j] # "ackOriginal"

Owed == {m \in Messages : \E c \in Copies : copies[c].msg = m /\ Secure(c)}

\* No loss: a message answered with 204 has been handled successfully or still
\* has a copy the broker keeps, through any interleaving of republishes, acks,
\* lost channels and dying processes (confirm before 204, confirm before ack).
NoLoss == accepted \subseteq resolved \cup Owed

\* The dead-letter queue only holds messages whose handler really failed
\* maxReceiveCount times: requeueing after a crash keeps x-attempt, and a
\* duplicate copy brings its own count.
ParkedAfterAllAttempts ==
  \A c \in Copies :
    copies[c].place = "dlq" => failures[copies[c].msg] >= MaxReceiveCount

\* The broker and the job agree on who may ack: a delivery tag a job holds is
\* unacked on that job's own channel, for the message it works on, and no two
\* jobs hold the same delivery.
DeliveriesOwned ==
  /\ \A j \in Jobs : holds[j] # None =>
       /\ copies[holds[j]].place = "unacked"
       /\ copies[holds[j]].worker = ProcessOf[j]
       /\ copies[holds[j]].msg = task[j]
  /\ \A i, j \in Jobs : holds[i] = holds[j] /\ holds[i] # None => i = j

\* Deliveries nobody will ack: unacked, and held by no job.
Unattended == {c \in Copies : copies[c].place = "unacked" /\ \A j \in Jobs : holds[j] # c}

\* The prefetch slots that w's channel has lost for good are the republishes refused
\* on it, one for one: every other path of dispatch() acks its delivery, and a closed
\* channel gives all of them back (retryOrPark(), dispatch()).
UnattendedExplained ==
  \A w \in Workers : Cardinality(Unattended \cap InFlight(w)) = nacked[w]

\* Every accepted message is eventually handled or parked, once failures stop, or
\* is one of those that wait with a refused republish: nothing else waits in the
\* broker for ever.
EventuallyHandledOrParked ==
  \A m \in Messages :
    m \in accepted ~> \/ m \in resolved
                      \/ \E c \in Copies : copies[c].place = "dlq" /\ copies[c].msg = m
                      \/ \E c \in Unattended : copies[c].msg = m

\* The promise of the queue, as the abstract module states it.
ALO == INSTANCE AtLeastOnce
         WITH owed <- Owed, promised <- accepted, done <- resolved

ImplementsAtLeastOnce == ALO!Spec
=============================================================================
