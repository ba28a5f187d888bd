--------------------------- MODULE WorkQueueProofs ---------------------------
(***************************************************************************)
(* Theorems about WorkQueue, for any number of messages, slots, workers and *)
(* jobs and any setting of the queue: types, ownership of deliveries, no    *)
(* loss, parking after all attempts, and the refinement of AtLeastOnce.    *)
(***************************************************************************)
EXTENDS WorkQueue, FiniteSetTheorems, TLAPS

\* A message is safe: handled, or in the hands of a secure copy.
Kept(m) == m \in resolved \/ m \in Owed

\* The strengthening: what NoLoss and ParkedAfterAllAttempts rest on.
HandledBeforeAck == \A j \in Jobs : stage[j] = "ack" => task[j] \in resolved

TasksKept == \A j \in Jobs : stage[j] # "idle" => Kept(task[j])

CopiesKept == \A c \in Copies : copies[c].place # "free" => Kept(copies[c].msg)

AttemptsCounted ==
  /\ \A c \in Copies : ~IsFree(c) => copies[c].attempt - 1 <= failures[copies[c].msg]
  /\ \A j \in Jobs : stage[j] = "republish" /\ holds[j] # None
                       => copies[holds[j]].attempt <= failures[task[j]]

QueueInv == QueueTypeOK /\ DeliveriesOwned

-----------------------------------------------------------------------------
\* A broker with room stores a publish in a slot that is really free.
LEMMA FreshIsFree ==
  ASSUME HasRoom
  PROVE  Fresh \in Copies /\ copies[Fresh].place = "free"
BY DEF HasRoom, Fresh, IsFree

\* Time passing in the retry queue keeps the broker well typed.
LEMMA CooledType ==
  ASSUME QueueTypeOK
  PROVE  /\ Cooled \in [Copies -> CopyType]
         /\ \A c \in Copies : /\ Cooled[c].place = copies[c].place
                             /\ Cooled[c].msg = copies[c].msg
                             /\ Cooled[c].attempt = copies[c].attempt
                             /\ Cooled[c].worker = copies[c].worker
<1>1. ASSUME NEW c \in Copies
      PROVE  /\ Cooled[c] \in CopyType
             /\ Cooled[c].place = copies[c].place
             /\ Cooled[c].msg = copies[c].msg
             /\ Cooled[c].attempt = copies[c].attempt
             /\ Cooled[c].worker = copies[c].worker
  BY CountAssumption DEF Cooled, Copy, QueueTypeOK, CopyType, Places
<1> QED
  BY <1>1 DEF Cooled

\* Requeueing the deliveries of a dead channel keeps the broker well typed.
LEMMA RequeuedType ==
  ASSUME QueueTypeOK, NEW w \in Workers
  PROVE  /\ Requeued(w) \in [Copies -> CopyType]
         /\ \A c \in Copies :
              /\ Requeued(w)[c].msg = copies[c].msg
              /\ Requeued(w)[c].attempt = copies[c].attempt
              /\ Requeued(w)[c].place = "free" <=> copies[c].place = "free"
              /\ Requeued(w)[c].place = "dlq" <=> copies[c].place = "dlq"
              /\ \/ Requeued(w)[c] = copies[c]
                 \/ Requeued(w)[c].place = "main" /\ copies[c].worker = w
<1>1. ASSUME NEW c \in Copies
      PROVE  /\ Requeued(w)[c] \in CopyType
             /\ Requeued(w)[c].msg = copies[c].msg
             /\ Requeued(w)[c].attempt = copies[c].attempt
             /\ Requeued(w)[c].place = "free" <=> copies[c].place = "free"
             /\ Requeued(w)[c].place = "dlq" <=> copies[c].place = "dlq"
             /\ \/ Requeued(w)[c] = copies[c]
                \/ Requeued(w)[c].place = "main" /\ copies[c].worker = w
  BY CountAssumption
  DEF Requeued, Moved, Copy, InFlight, QueueTypeOK, CopyType, Places
<1> QED
  BY <1>1 DEF Requeued

-----------------------------------------------------------------------------
(* The queue's types and the ownership of deliveries are inductive together. *)

\* Every step of the queue preserves types and the ownership of deliveries.
LEMMA QueueInvStep == QueueInv /\ [QueueNext]_queueVars => QueueInv'
<1> SUFFICES ASSUME QueueInv, [QueueNext]_queueVars
             PROVE  QueueInv'
  OBVIOUS
<1> USE MessageAssumption, NoneAssumption, ProcessAssumption, CountAssumption
    DEF QueueInv
<1>1. ASSUME NEW m \in Messages, PostAccepted(m) PROVE QueueInv'
  <2>1. copies' \in [Copies -> CopyType]
    BY <1>1, FreshIsFree DEF PostAccepted, Stored, Posted, Ready, Copy, QueueTypeOK,
      CopyType, Places, IsFree, DeliveriesOwned
  <2>2. QueueTypeOK'
    BY <1>1, <2>1, FreshIsFree DEF PostAccepted, Stored, Posted, brokerVars, jobVars,
      historyVars, Ready, Copy, QueueTypeOK, CopyType, Places, Stages, IsFree,
      DeliveriesOwned
  <2>3. DeliveriesOwned'
    BY <1>1, <2>1, FreshIsFree DEF PostAccepted, Stored, Posted, brokerVars, jobVars,
      historyVars, Ready, Copy, QueueTypeOK, CopyType, Places, Stages, IsFree,
      DeliveriesOwned
  <2> QED
    BY <2>2, <2>3
<1>2. ASSUME NEW m \in Messages, PostUnconfirmed(m) PROVE QueueInv'
  <2>1. copies' \in [Copies -> CopyType]
    BY <1>2, FreshIsFree DEF PostUnconfirmed, Stored, Posted, Ready, Copy,
      QueueTypeOK, CopyType, Places, IsFree, DeliveriesOwned
  <2>2. QueueTypeOK'
    BY <1>2, <2>1, FreshIsFree DEF PostUnconfirmed, Stored, Posted, brokerVars,
      jobVars, historyVars, Ready, Copy, QueueTypeOK, CopyType, Places,
      Stages, IsFree, DeliveriesOwned
  <2>3. DeliveriesOwned'
    BY <1>2, <2>1, FreshIsFree DEF PostUnconfirmed, Stored, Posted, brokerVars,
      jobVars, historyVars, Ready, Copy, QueueTypeOK, CopyType, Places,
      Stages, IsFree, DeliveriesOwned
  <2> QED
    BY <2>2, <2>3
<1>3. ASSUME NEW m \in Messages, PostRejected(m) PROVE QueueInv'
  <2>1. QueueTypeOK'
    BY <1>3 DEF PostRejected, Posted, brokerVars, jobVars, historyVars, QueueTypeOK,
      CopyType, Places, Stages, IsFree, DeliveriesOwned
  <2>2. DeliveriesOwned'
    BY <1>3 DEF PostRejected, Posted, brokerVars, jobVars, historyVars, QueueTypeOK,
      CopyType, Places, Stages, IsFree, DeliveriesOwned
  <2> QED
    BY <2>1, <2>2
<1>4. ASSUME NEW c \in Copies, Settle(c) PROVE QueueInv'
  <2>1. copies' \in [Copies -> CopyType]
    BY <1>4 DEF Settle, FreeSlot, Copy, QueueTypeOK, CopyType, Places, IsFree,
      DeliveriesOwned
  <2>2. QueueTypeOK'
    BY <1>4, <2>1 DEF Settle, brokerVars, jobVars, historyVars, FreeSlot,
      Copy, QueueTypeOK, CopyType, Places, Stages, IsFree, DeliveriesOwned
  <2>3. DeliveriesOwned'
    BY <1>4, <2>1 DEF Settle, brokerVars, jobVars, historyVars, FreeSlot,
      Copy, QueueTypeOK, CopyType, Places, Stages, IsFree, DeliveriesOwned
  <2> QED
    BY <2>2, <2>3
<1>5. ASSUME NEW c \in Copies, Expire(c) PROVE QueueInv'
  <2>1. copies' \in [Copies -> CopyType]
    BY <1>5 DEF Expire, Moved, Copy, QueueTypeOK, CopyType, Places, IsFree,
      DeliveriesOwned
  <2>2. QueueTypeOK'
    BY <1>5, <2>1 DEF Expire, brokerVars, jobVars, historyVars, Moved, Copy,
      QueueTypeOK, CopyType, Places, Stages, IsFree, DeliveriesOwned
  <2>3. DeliveriesOwned'
    BY <1>5, <2>1 DEF Expire, brokerVars, jobVars, historyVars, Moved, Copy,
      QueueTypeOK, CopyType, Places, Stages, IsFree, DeliveriesOwned
  <2> QED
    BY <2>2, <2>3
<1>6. ASSUME NEW w \in Workers, LoseChannel(w) PROVE QueueInv'
  <2>1. /\ copies' \in [Copies -> CopyType]
        /\ \A c \in Copies :
             /\ copies'[c].msg = copies[c].msg
             /\ copies'[c].place = "free" <=> copies[c].place = "free"
             /\ copies[c].worker # w => copies'[c] = copies[c]
    BY <1>6, RequeuedType DEF LoseChannel
  <2>2. QueueTypeOK'
    BY <1>6, <2>1 DEF LoseChannel, Fault, brokerVars, jobVars, historyVars,
      QueueTypeOK, CopyType, Places, Stages, IsFree, DeliveriesOwned
  <2>3. DeliveriesOwned'
    BY <1>6, <2>1 DEF LoseChannel, Fault, brokerVars, jobVars, historyVars,
      QueueTypeOK, CopyType, Places, Stages, IsFree, DeliveriesOwned
  <2> QED
    BY <2>2, <2>3
<1>7. ASSUME NEW w \in Workers, Reconnect(w) PROVE QueueInv'
  <2>1. QueueTypeOK'
    BY <1>7 DEF Reconnect, brokerVars, jobVars, historyVars, QueueTypeOK,
      CopyType, Places, Stages, IsFree, DeliveriesOwned
  <2>2. DeliveriesOwned'
    BY <1>7 DEF Reconnect, brokerVars, jobVars, historyVars, QueueTypeOK,
      CopyType, Places, Stages, IsFree, DeliveriesOwned
  <2> QED
    BY <2>1, <2>2
<1>8. ASSUME QueueTick PROVE QueueInv'
  <2>1. copies' \in [Copies -> CopyType]
    BY <1>8, CooledType DEF QueueTick
  <2>2. QueueTypeOK'
    BY <1>8, <2>1, CooledType DEF QueueTick, brokerVars, jobVars, historyVars,
      QueueTypeOK, CopyType, Places, Stages, IsFree, DeliveriesOwned
  <2>3. DeliveriesOwned'
    BY <1>8, <2>1, CooledType DEF QueueTick, brokerVars, jobVars, historyVars,
      QueueTypeOK, CopyType, Places, Stages, IsFree, DeliveriesOwned
  <2> QED
    BY <2>2, <2>3
<1>9. ASSUME NEW j \in Jobs, NEW c \in Copies, Deliver(j, c) PROVE QueueInv'
  <2>1. copies' \in [Copies -> CopyType]
    BY <1>9 DEF Deliver, Moved, Copy, QueueTypeOK, CopyType, Places, IsFree,
      DeliveriesOwned
  <2>2. QueueTypeOK'
    BY <1>9, <2>1 DEF Deliver, brokerVars, jobVars, historyVars, Moved, Copy,
      QueueTypeOK, CopyType, Places, Stages, IsFree, DeliveriesOwned
  <2>3. DeliveriesOwned'
    BY <1>9, <2>1 DEF Deliver, brokerVars, jobVars, historyVars, Moved, Copy,
      QueueTypeOK, CopyType, Places, Stages, IsFree, DeliveriesOwned
  <2> QED
    BY <2>2, <2>3
<1>10. ASSUME NEW j \in Jobs, HandlerResolves(j) PROVE QueueInv'
  <2>1. QueueTypeOK'
    BY <1>10 DEF HandlerResolves, brokerVars, jobVars, historyVars,
      QueueTypeOK, CopyType, Places, Stages, IsFree, DeliveriesOwned
  <2>2. DeliveriesOwned'
    BY <1>10 DEF HandlerResolves, brokerVars, jobVars, historyVars,
      QueueTypeOK, CopyType, Places, Stages, IsFree, DeliveriesOwned
  <2> QED
    BY <2>1, <2>2
<1>11. ASSUME NEW j \in Jobs, HandlerRejects(j) PROVE QueueInv'
  <2>1. QueueTypeOK'
    BY <1>11 DEF HandlerRejects, brokerVars, jobVars, historyVars,
      QueueTypeOK, CopyType, Places, Stages, IsFree, DeliveriesOwned
  <2>2. DeliveriesOwned'
    BY <1>11 DEF HandlerRejects, brokerVars, jobVars, historyVars,
      QueueTypeOK, CopyType, Places, Stages, IsFree, DeliveriesOwned
  <2> QED
    BY <2>1, <2>2
<1>12. ASSUME NEW j \in Jobs, Ack(j) PROVE QueueInv'
  <2>1. copies' \in [Copies -> CopyType]
    BY <1>12 DEF Ack, AckSent, Moved, Copy, QueueTypeOK, CopyType, Places,
      IsFree, DeliveriesOwned
  <2>2. QueueTypeOK'
    BY <1>12, <2>1 DEF Ack, AckSent, Finished, brokerVars, jobVars,
      historyVars, Moved, Copy, QueueTypeOK, CopyType, Places, Stages, IsFree,
      DeliveriesOwned
  <2>3. DeliveriesOwned'
    BY <1>12, <2>1 DEF Ack, AckSent, Finished, brokerVars, jobVars,
      historyVars, Moved, Copy, QueueTypeOK, CopyType, Places, Stages, IsFree,
      DeliveriesOwned
  <2> QED
    BY <2>2, <2>3
<1>13. ASSUME NEW j \in Jobs, Republish(j) PROVE QueueInv'
  <2>1. copies' \in [Copies -> CopyType]
    BY <1>13, FreshIsFree DEF Republish, Delayed, Copy, QueueTypeOK, CopyType,
      Places, IsFree, DeliveriesOwned
  <2>2. QueueTypeOK'
    BY <1>13, <2>1, FreshIsFree DEF Republish, brokerVars, jobVars,
      historyVars, Delayed, Copy, QueueTypeOK, CopyType, Places, Stages,
      IsFree, DeliveriesOwned
  <2>3. DeliveriesOwned'
    BY <1>13, <2>1, FreshIsFree DEF Republish, brokerVars, jobVars,
      historyVars, Delayed, Copy, QueueTypeOK, CopyType, Places, Stages,
      IsFree, DeliveriesOwned
  <2> QED
    BY <2>2, <2>3
<1>14. ASSUME NEW j \in Jobs, Park(j) PROVE QueueInv'
  <2>1. copies' \in [Copies -> CopyType]
    BY <1>14, FreshIsFree DEF Park, DeadLetter, Copy, QueueTypeOK, CopyType,
      Places, IsFree, DeliveriesOwned
  <2>2. QueueTypeOK'
    BY <1>14, <2>1, FreshIsFree DEF Park, brokerVars, jobVars, historyVars,
      DeadLetter, Copy, QueueTypeOK, CopyType, Places, Stages, IsFree,
      DeliveriesOwned
  <2>3. DeliveriesOwned'
    BY <1>14, <2>1, FreshIsFree DEF Park, brokerVars, jobVars, historyVars,
      DeadLetter, Copy, QueueTypeOK, CopyType, Places, Stages, IsFree,
      DeliveriesOwned
  <2> QED
    BY <2>2, <2>3
<1>15. ASSUME NEW j \in Jobs, AckOriginal(j) PROVE QueueInv'
  <2>1. copies' \in [Copies -> CopyType]
    BY <1>15 DEF AckOriginal, AckSent, Moved, Copy, QueueTypeOK, CopyType,
      Places, IsFree, DeliveriesOwned
  <2>2. QueueTypeOK'
    BY <1>15, <2>1 DEF AckOriginal, AckSent, Finished, brokerVars, jobVars,
      historyVars, Moved, Copy, QueueTypeOK, CopyType, Places, Stages, IsFree,
      DeliveriesOwned
  <2>3. DeliveriesOwned'
    BY <1>15, <2>1 DEF AckOriginal, AckSent, Finished, brokerVars, jobVars,
      historyVars, Moved, Copy, QueueTypeOK, CopyType, Places, Stages, IsFree,
      DeliveriesOwned
  <2> QED
    BY <2>2, <2>3
<1>16. ASSUME NEW j \in Jobs, Abandon(j) PROVE QueueInv'
  <2>1. QueueTypeOK'
    BY <1>16 DEF Abandon, Finished, brokerVars, jobVars, historyVars,
      QueueTypeOK, CopyType, Places, Stages, IsFree, DeliveriesOwned
  <2>2. DeliveriesOwned'
    BY <1>16 DEF Abandon, Finished, brokerVars, jobVars, historyVars,
      QueueTypeOK, CopyType, Places, Stages, IsFree, DeliveriesOwned
  <2> QED
    BY <2>1, <2>2
<1>17. ASSUME NEW j \in Jobs, RepublishNacked(j) PROVE QueueInv'
  <2>1. QueueTypeOK'
    BY <1>17 DEF RepublishNacked, Fault, Finished, brokerVars, jobVars,
      historyVars, QueueTypeOK, CopyType, Places, Stages, IsFree,
      DeliveriesOwned
  <2>2. DeliveriesOwned'
    BY <1>17 DEF RepublishNacked, Fault, Finished, brokerVars, jobVars,
      historyVars, QueueTypeOK, CopyType, Places, Stages, IsFree,
      DeliveriesOwned
  <2> QED
    BY <2>1, <2>2
<1>18. ASSUME NEW j \in Jobs, AckOnDeadChannel(j) PROVE QueueInv'
  <2>1. /\ copies' \in [Copies -> CopyType]
        /\ \A c \in Copies :
             /\ copies'[c].msg = copies[c].msg
             /\ copies'[c].place = "free" <=> copies[c].place = "free"
             /\ copies[c].worker # ProcessOf[j] => copies'[c] = copies[c]
    BY <1>18, RequeuedType DEF AckOnDeadChannel, ProcessDies
  <2>2. QueueTypeOK'
    BY <1>18, <2>1 DEF AckOnDeadChannel, ProcessDies, brokerVars, jobVars,
      historyVars, QueueTypeOK, CopyType, Places, Stages, IsFree,
      DeliveriesOwned
  <2>3. DeliveriesOwned'
    BY <1>18, <2>1 DEF AckOnDeadChannel, ProcessDies, brokerVars, jobVars,
      historyVars, QueueTypeOK, CopyType, Places, Stages, IsFree,
      DeliveriesOwned
  <2> QED
    BY <2>2, <2>3
<1>19. ASSUME NEW w \in Workers, Stop(w) PROVE QueueInv'
  <2>1. /\ copies' \in [Copies -> CopyType]
        /\ \A c \in Copies :
             /\ copies'[c].msg = copies[c].msg
             /\ copies'[c].place = "free" <=> copies[c].place = "free"
             /\ copies[c].worker # w => copies'[c] = copies[c]
    BY <1>19, RequeuedType DEF Stop, ProcessDies
  <2>2. QueueTypeOK'
    BY <1>19, <2>1 DEF Stop, Fault, ProcessDies, brokerVars, jobVars,
      historyVars, QueueTypeOK, CopyType, Places, Stages, IsFree,
      DeliveriesOwned
  <2>3. DeliveriesOwned'
    BY <1>19, <2>1 DEF Stop, Fault, ProcessDies, brokerVars, jobVars,
      historyVars, QueueTypeOK, CopyType, Places, Stages, IsFree,
      DeliveriesOwned
  <2> QED
    BY <2>2, <2>3
<1>20. ASSUME UNCHANGED queueVars PROVE QueueInv'
  BY <1>20 DEF QueueTypeOK, IsFree, DeliveriesOwned, queueVars, brokerVars,
    jobVars, historyVars
<1> QED
  BY <1>1, <1>2, <1>3, <1>4, <1>5, <1>6, <1>7, <1>8, <1>9, <1>10, <1>11,
    <1>12, <1>13, <1>14, <1>15, <1>16, <1>17, <1>18, <1>19, <1>20 DEF
    QueueNext, BrokerStep, DispatchEnds

\* The empty queue is well typed and nobody holds a delivery.
LEMMA QueueInvInit == QueueInit => QueueInv
<1> USE MessageAssumption, NoneAssumption, ProcessAssumption, CountAssumption
<1> SUFFICES ASSUME QueueInit PROVE QueueInv
  OBVIOUS
<1>1. copies \in [Copies -> CopyType]
  BY DEF QueueInit, FreeSlot, Copy, CopyType, Places
<1>2. QueueTypeOK
  BY <1>1 DEF QueueInit, QueueTypeOK, Stages, IsFree, FreeSlot, Copy
<1>3. DeliveriesOwned
  BY DEF QueueInit, DeliveriesOwned
<1> QED
  BY <1>2, <1>3 DEF QueueInv

\* The queue's variables keep their types, and the broker and the jobs always
\* agree on which job may ack which delivery.
THEOREM QueueTyping == QueueSpec => [](QueueTypeOK /\ DeliveriesOwned)
<1>1. QueueInv => QueueTypeOK /\ DeliveriesOwned
  BY DEF QueueInv
<1> QED
  BY <1>1, QueueInvInit, QueueInvStep, PTL DEF QueueSpec

\* No two jobs ever hold one delivery, and a job that holds one works on its
\* message, on its own channel, with the delivery still unacked.
THEOREM QueueOwnership == QueueSpec => []DeliveriesOwned
BY QueueTyping, PTL

-----------------------------------------------------------------------------
(* Where copies come from.                                                *)

\* Where the copies of the next state come from: an old copy of the same
\* message, a new one at its first attempt, or the republished copy of a job
\* whose handler has failed.
CopiesExplained ==
  \A c \in Copies :
    \/ copies'[c].place = "free"
    \/ /\ copies[c].place # "free"
       /\ copies'[c].msg = copies[c].msg
       /\ copies'[c].attempt = copies[c].attempt
       /\ copies'[c].place = "dlq" => copies[c].place = "dlq"
    \/ /\ copies[c].place = "free"
       /\ copies'[c].attempt = 1
       /\ copies'[c].place = "main"
       /\ \E n \in Messages : PostAccepted(n) \/ PostUnconfirmed(n)
    \/ /\ copies[c].place = "free"
       /\ \E j \in Jobs :
            /\ stage[j] = "republish"
            /\ holds[j] # None
            /\ copies'[c].msg = task[j]
            /\ copies'[c].attempt <= copies[holds[j]].attempt + 1
            /\ copies'[c].place = "dlq" => copies[holds[j]].attempt >= MaxReceiveCount

\* What one step can do to one copy: a copy only leaves the broker by an ack.
LEMMA CopiesStep ==
  ASSUME QueueInv, QueueNext
  PROVE  CopiesExplained
<1> USE MessageAssumption, NoneAssumption, ProcessAssumption, CountAssumption
    DEF QueueInv
<1>1. ASSUME NEW m \in Messages, PostAccepted(m) \/ PostUnconfirmed(m) PROVE CopiesExplained
  <2>1. Fresh \in Copies /\ copies[Fresh].place = "free"
    BY <1>1, FreshIsFree DEF PostAccepted, PostUnconfirmed, Stored
  <2>2. copies' = [copies EXCEPT ![Fresh] = Copy("main", m, 1, 0, None)]
    BY <1>1 DEF PostAccepted, PostUnconfirmed, Stored, Ready
  <2>3. \A c \in Copies : c # Fresh => copies'[c] = copies[c]
    BY <2>2 DEF QueueTypeOK
  <2>4. copies'[Fresh].place = "main" /\ copies'[Fresh].attempt = 1
    BY <2>1, <2>2 DEF Copy, QueueTypeOK
  <2> QED
    BY <1>1, <2>1, <2>3, <2>4 DEF CopiesExplained
<1>2. ASSUME NEW m \in Messages, PostRejected(m) PROVE CopiesExplained
  BY <1>2 DEF PostRejected, Posted, CopiesExplained, QueueTypeOK, CopyType, IsFree
<1>3. ASSUME NEW c \in Copies, Settle(c) \/ Expire(c) PROVE CopiesExplained
  BY <1>3 DEF Settle, Expire, FreeSlot, Moved, Copy, CopiesExplained,
    QueueTypeOK, CopyType, IsFree
<1>4. ASSUME NEW w \in Workers, LoseChannel(w) \/ Stop(w) PROVE CopiesExplained
  BY <1>4, RequeuedType DEF LoseChannel, Stop, ProcessDies, CopiesExplained,
    QueueTypeOK, CopyType, IsFree
<1>5. ASSUME NEW j \in Jobs, AckOnDeadChannel(j) PROVE CopiesExplained
  BY <1>5, RequeuedType DEF AckOnDeadChannel, ProcessDies, CopiesExplained,
    QueueTypeOK, CopyType, IsFree
<1>6. ASSUME NEW w \in Workers, Reconnect(w) PROVE CopiesExplained
  BY <1>6 DEF Reconnect, CopiesExplained, QueueTypeOK, CopyType, IsFree
<1>7. ASSUME QueueTick PROVE CopiesExplained
  BY <1>7, CooledType DEF QueueTick, CopiesExplained, QueueTypeOK, CopyType,
    IsFree
<1>8. ASSUME NEW j \in Jobs, NEW c \in Copies, Deliver(j, c) PROVE CopiesExplained
  BY <1>8 DEF Deliver, Moved, Copy, CopiesExplained, QueueTypeOK, CopyType,
    IsFree
<1>9. ASSUME NEW j \in Jobs, HandlerResolves(j) \/ HandlerRejects(j) PROVE CopiesExplained
  BY <1>9 DEF HandlerResolves, HandlerRejects, brokerVars, CopiesExplained,
    QueueTypeOK, CopyType, IsFree
<1>10. ASSUME NEW j \in Jobs, Ack(j) \/ AckOriginal(j) PROVE CopiesExplained
  <2>1. /\ holds[j] \in Copies
        /\ copies[holds[j]].place = "unacked"
        /\ copies' = [copies EXCEPT ![holds[j]] = Moved(holds[j], "acking", ProcessOf[j])]
    BY <1>10 DEF Ack, AckOriginal, AckSent, DeliveriesOwned, QueueTypeOK
  <2> QED
    BY <2>1 DEF Moved, Copy, CopiesExplained, QueueTypeOK, CopyType
<1>11. ASSUME NEW j \in Jobs, Republish(j) PROVE CopiesExplained
  <2>1. /\ stage[j] = "republish" /\ holds[j] # None
        /\ Fresh \in Copies /\ copies[Fresh].place = "free"
        /\ copies' = [copies EXCEPT ![Fresh] = Delayed(task[j], copies[holds[j]].attempt + 1)]
    BY <1>11, FreshIsFree DEF Republish
  <2>2. copies[holds[j]].attempt \in Nat
    BY <2>1 DEF QueueTypeOK, CopyType
  <2> QED
    BY <2>1, <2>2 DEF Delayed, Copy, CopiesExplained, QueueTypeOK, CopyType
<1>12. ASSUME NEW j \in Jobs, Park(j) PROVE CopiesExplained
  BY <1>12, FreshIsFree DEF Park, DeadLetter, Copy, CopiesExplained,
    QueueTypeOK, CopyType, IsFree
<1>13. ASSUME NEW j \in Jobs, Abandon(j) \/ RepublishNacked(j) PROVE CopiesExplained
  BY <1>13 DEF Abandon, RepublishNacked, brokerVars, CopiesExplained,
    QueueTypeOK, CopyType, IsFree
<1> QED
  BY <1>1, <1>2, <1>3, <1>4, <1>5, <1>6, <1>7, <1>8, <1>9, <1>10, <1>11,
    <1>12, <1>13 DEF QueueNext, BrokerStep, DispatchEnds

\* What one step can have done to a job: ended it, left it where it was (its
\* delivery perhaps taken away), started it on a copy, or moved it on by one stage.
JobExplained(j) ==
  \/ stage'[j] = "idle"
  \/ /\ stage'[j] = stage[j]
     /\ task'[j] = task[j]
     /\ holds'[j] \in {holds[j], None}
  \/ /\ stage'[j] = "handling"
     /\ \E c \in Copies : copies[c].place = "main" /\ task'[j] = copies[c].msg
  \/ /\ task'[j] = task[j]
     /\ holds'[j] = holds[j]
     /\ \/ stage'[j] = "ack" /\ HandlerResolves(j)
        \/ stage'[j] = "republish" /\ HandlerRejects(j)
        \/ stage[j] = "republish" /\ stage'[j] = "ackOriginal"

\* What one step can do to one job.
LEMMA JobStep ==
  ASSUME QueueTypeOK, QueueNext, NEW j \in Jobs
  PROVE  JobExplained(j)
<1>1. ASSUME UNCHANGED jobVars PROVE JobExplained(j)
  BY <1>1 DEF JobExplained, jobVars
<1>2. CASE \E m \in Messages : PostAccepted(m) \/ PostUnconfirmed(m) \/ PostRejected(m)
  BY <1>1, <1>2 DEF PostAccepted, PostUnconfirmed, PostRejected
<1>3. CASE QueueTick \/ \E c \in Copies : Settle(c) \/ Expire(c)
  BY <1>1, <1>3 DEF QueueTick, Settle, Expire, jobVars
<1>4. ASSUME NEW w \in Workers, LoseChannel(w) PROVE JobExplained(j)
  BY <1>4 DEF LoseChannel, JobExplained
<1>5. ASSUME NEW w \in Workers, Reconnect(w) PROVE JobExplained(j)
  BY <1>1, <1>5 DEF Reconnect
<1>6. ASSUME NEW w \in Workers, ProcessDies(w) PROVE JobExplained(j)
  BY <1>6 DEF ProcessDies, JobExplained
<1>7. ASSUME NEW i \in Jobs, Finished(i) PROVE JobExplained(j)
  BY <1>7 DEF Finished, JobExplained, QueueTypeOK
<1>8. ASSUME NEW i \in Jobs, NEW c \in Copies, Deliver(i, c) PROVE JobExplained(j)
  BY <1>8 DEF Deliver, JobExplained, QueueTypeOK
<1>9. ASSUME NEW i \in Jobs, HandlerResolves(i) PROVE JobExplained(j)
  <2>1. CASE i = j
    BY <1>9, <2>1 DEF HandlerResolves, JobExplained, QueueTypeOK
  <2>2. CASE i # j
    BY <1>9, <2>2 DEF HandlerResolves, JobExplained, QueueTypeOK
  <2> QED
    BY <2>1, <2>2
<1>10. ASSUME NEW i \in Jobs, HandlerRejects(i) PROVE JobExplained(j)
  <2>1. CASE i = j
    BY <1>10, <2>1 DEF HandlerRejects, JobExplained, QueueTypeOK
  <2>2. CASE i # j
    BY <1>10, <2>2 DEF HandlerRejects, JobExplained, QueueTypeOK
  <2> QED
    BY <2>1, <2>2
<1>11. ASSUME NEW i \in Jobs, Republish(i) \/ Park(i) PROVE JobExplained(j)
  BY <1>11 DEF Republish, Park, JobExplained, QueueTypeOK
<1>12. ASSUME NEW i \in Jobs, Ack(i) \/ AckOriginal(i) \/ Abandon(i) \/ RepublishNacked(i)
       PROVE  JobExplained(j)
  BY <1>7, <1>12 DEF Ack, AckOriginal, AckSent, Abandon, RepublishNacked
<1>13. ASSUME NEW i \in Jobs, AckOnDeadChannel(i) PROVE JobExplained(j)
  BY <1>6, <1>13, ProcessAssumption DEF AckOnDeadChannel
<1>14. ASSUME NEW w \in Workers, Stop(w) PROVE JobExplained(j)
  BY <1>6, <1>14 DEF Stop
<1> QED
  BY <1>2, <1>3, <1>4, <1>5, <1>8, <1>9, <1>10, <1>11, <1>12, <1>13, <1>14
  DEF QueueNext, BrokerStep, DispatchEnds

\* What has been handled stays handled, and failures are only added to.
LEMMA HistoryGrows ==
  ASSUME QueueTypeOK, QueueNext
  PROVE  /\ resolved \subseteq resolved'
         /\ \A m \in Messages : failures[m] <= failures'[m]
<1> DEFINE Grows == /\ resolved \subseteq resolved'
                    /\ \A m \in Messages : failures[m] <= failures'[m]
<1>1. ASSUME UNCHANGED <<resolved, failures>> PROVE Grows
  BY <1>1, CountAssumption DEF QueueTypeOK
<1>2. ASSUME NEW i \in Jobs, HandlerResolves(i) PROVE Grows
  BY <1>2, CountAssumption DEF HandlerResolves, QueueTypeOK
<1>3. ASSUME NEW i \in Jobs, HandlerRejects(i) PROVE Grows
  BY <1>3, CountAssumption DEF HandlerRejects, QueueTypeOK
<1>4. CASE BrokerStep \/ QueueTick \/ \E w \in Workers : Stop(w)
  BY <1>1, <1>4 DEF BrokerStep, PostAccepted, PostUnconfirmed, PostRejected, Settle,
    Expire, LoseChannel, Reconnect, QueueTick, Stop, historyVars
<1>5. ASSUME NEW i \in Jobs,
             \/ \E c \in Copies : Deliver(i, c)
             \/ DispatchEnds(i) \/ RepublishNacked(i) \/ AckOnDeadChannel(i)
      PROVE  Grows
  BY <1>1, <1>5 DEF Deliver, DispatchEnds, Ack, Republish, Park, AckOriginal, Abandon,
    RepublishNacked, AckOnDeadChannel, historyVars
<1> QED
  BY <1>2, <1>3, <1>4, <1>5 DEF QueueNext

-----------------------------------------------------------------------------
(* No loss: no step takes the last secure copy of an unhandled message.     *)

KeptInv == HandledBeforeAck /\ TasksKept /\ CopiesKept /\ NoLoss

\* An owed message stays owed, except that an ack may take its last copy.
LEMMA OwedStep ==
  ASSUME QueueInv, QueueNext, NEW m \in Messages, m \in Owed
  PROVE  m \in Owed' \/ \E j \in Jobs : Ack(j) /\ task[j] = m
<1> USE MessageAssumption, NoneAssumption, ProcessAssumption, CountAssumption
    DEF QueueInv
<1>1. PICK c \in Copies : copies[c].msg = m /\ Secure(c)
  BY DEF Owed
<1>2. ASSUME NEW b \in Copies, copies'[b].msg = m, Secure(b)'
      PROVE  m \in Owed'
  BY <1>2 DEF Owed
<1> USE <1>1
<1>3. ASSUME NEW n \in Messages, PostAccepted(n) PROVE m \in Owed'
  <2>1. copies'[c].msg = m /\ Secure(c)'
    BY <1>3, FreshIsFree DEF PostAccepted, Stored, Posted, Ready, Copy, IsFree,
      brokerVars, jobVars, historyVars, Secure, QueueTypeOK, CopyType
  <2> QED
    BY <1>2, <2>1
<1>4. ASSUME NEW n \in Messages, PostUnconfirmed(n) PROVE m \in Owed'
  <2>1. copies'[c].msg = m /\ Secure(c)'
    BY <1>4, FreshIsFree DEF PostUnconfirmed, Stored, Posted, Ready, Copy, IsFree,
      brokerVars, jobVars, historyVars, Secure, QueueTypeOK, CopyType
  <2> QED
    BY <1>2, <2>1
<1>5. ASSUME NEW n \in Messages, PostRejected(n) PROVE m \in Owed'
  <2>1. copies'[c].msg = m /\ Secure(c)'
    BY <1>5 DEF PostRejected, Posted, brokerVars, jobVars, historyVars, Secure,
      QueueTypeOK, CopyType
  <2> QED
    BY <1>2, <2>1
<1>6. ASSUME NEW d \in Copies, Settle(d) PROVE m \in Owed'
  <2>1. copies'[c].msg = m /\ Secure(c)'
    BY <1>6 DEF Settle, brokerVars, jobVars, historyVars, Secure,
      QueueTypeOK, CopyType
  <2> QED
    BY <1>2, <2>1
<1>7. ASSUME NEW d \in Copies, Expire(d) PROVE m \in Owed'
  <2>1. copies'[c].msg = m /\ Secure(c)'
    BY <1>7 DEF Expire, Moved, Copy, brokerVars, jobVars, historyVars,
      Secure, QueueTypeOK, CopyType
  <2> QED
    BY <1>2, <2>1
<1>8. ASSUME NEW w \in Workers, LoseChannel(w) PROVE m \in Owed'
  <2>1. /\ copies'[c].msg = copies[c].msg
        /\ copies'[c] = copies[c] \/ copies'[c].place = "main"
    BY <1>8, RequeuedType DEF LoseChannel
  <2>2. Secure(c)'
    BY <1>8, <2>1 DEF LoseChannel, Secure, QueueTypeOK, CopyType
  <2> QED
    BY <1>2, <2>1, <2>2
<1>9. ASSUME NEW w \in Workers, Reconnect(w) PROVE m \in Owed'
  <2>1. copies'[c].msg = m /\ Secure(c)'
    BY <1>9 DEF Reconnect, brokerVars, jobVars, historyVars, Secure,
      QueueTypeOK, CopyType
  <2> QED
    BY <1>2, <2>1
<1>10. ASSUME QueueTick PROVE m \in Owed'
  <2>1. copies'[c].msg = m /\ Secure(c)'
    BY <1>10, CooledType DEF QueueTick, brokerVars, jobVars, historyVars,
      Secure, QueueTypeOK, CopyType
  <2> QED
    BY <1>2, <2>1
<1>11. ASSUME NEW j \in Jobs, NEW d \in Copies, Deliver(j, d) PROVE m \in Owed'
  <2>1. copies'[c].msg = m /\ Secure(c)'
    BY <1>11 DEF Deliver, Moved, Copy, DeliveriesOwned, brokerVars, jobVars,
      historyVars, Secure, QueueTypeOK, CopyType
  <2> QED
    BY <1>2, <2>1
<1>12. ASSUME NEW j \in Jobs, HandlerResolves(j) PROVE m \in Owed'
  <2>1. copies'[c].msg = m /\ Secure(c)'
    BY <1>12 DEF HandlerResolves, brokerVars, jobVars, historyVars, Secure,
      QueueTypeOK, CopyType
  <2> QED
    BY <1>2, <2>1
<1>13. ASSUME NEW j \in Jobs, HandlerRejects(j) PROVE m \in Owed'
  <2>1. copies'[c].msg = m /\ Secure(c)'
    BY <1>13 DEF HandlerRejects, brokerVars, jobVars, historyVars, Secure,
      QueueTypeOK, CopyType
  <2> QED
    BY <1>2, <2>1
<1>14. ASSUME NEW j \in Jobs, Ack(j) PROVE m \in Owed' \/ task[j] = m
  <2>1. CASE holds[j] = c
    BY <1>14, <2>1 DEF Ack, AckSent, DeliveriesOwned
  <2>2. CASE holds[j] # c
    <3>1. copies'[c].msg = m /\ Secure(c)'
      BY <1>14, <2>2 DEF Ack, AckSent, Finished, Secure, QueueTypeOK, CopyType
    <3> QED
      BY <1>2, <3>1
  <2> QED
    BY <2>1, <2>2
<1>15. ASSUME NEW j \in Jobs, Republish(j) PROVE m \in Owed'
  <2>1. PICK f \in Copies :
          /\ copies[f].place = "free"
          /\ copies' = [copies EXCEPT ![f] = Delayed(task[j], copies[holds[j]].attempt + 1)]
    BY <1>15, FreshIsFree DEF Republish
  <2>2. CASE holds[j] = c
    <3>1. copies'[f].msg = m /\ Secure(f)'
      BY <2>1, <2>2 DEF Delayed, Copy, DeliveriesOwned, Secure, QueueTypeOK,
        CopyType
    <3> QED
      BY <1>2, <3>1
  <2>3. CASE holds[j] # c
    <3>1. copies'[c].msg = m /\ Secure(c)'
      BY <1>15, <2>1, <2>3 DEF Republish, Secure, QueueTypeOK, CopyType
    <3> QED
      BY <1>2, <3>1
  <2> QED
    BY <2>2, <2>3
<1>16. ASSUME NEW j \in Jobs, Park(j) PROVE m \in Owed'
  <2>1. PICK f \in Copies :
          /\ copies[f].place = "free"
          /\ copies' = [copies EXCEPT ![f] = DeadLetter(task[j], copies[holds[j]].attempt)]
    BY <1>16, FreshIsFree DEF Park
  <2>2. CASE holds[j] = c
    <3>1. copies'[f].msg = m /\ Secure(f)'
      BY <2>1, <2>2 DEF DeadLetter, Copy, DeliveriesOwned, Secure,
        QueueTypeOK, CopyType
    <3> QED
      BY <1>2, <3>1
  <2>3. CASE holds[j] # c
    <3>1. copies'[c].msg = m /\ Secure(c)'
      BY <1>16, <2>1, <2>3 DEF Park, Secure, QueueTypeOK, CopyType
    <3> QED
      BY <1>2, <3>1
  <2> QED
    BY <2>2, <2>3
<1>17. ASSUME NEW j \in Jobs, AckOriginal(j) PROVE m \in Owed'
  <2>1. copies'[c].msg = m /\ Secure(c)'
    BY <1>17 DEF AckOriginal, AckSent, Finished, Moved, Copy,
      DeliveriesOwned, brokerVars, jobVars, historyVars, Secure,
      QueueTypeOK, CopyType
  <2> QED
    BY <1>2, <2>1
<1>18. ASSUME NEW j \in Jobs, Abandon(j) PROVE m \in Owed'
  <2>1. copies'[c].msg = m /\ Secure(c)'
    BY <1>18 DEF Abandon, Finished, brokerVars, jobVars, historyVars,
      Secure, QueueTypeOK, CopyType
  <2> QED
    BY <1>2, <2>1
<1>19. ASSUME NEW j \in Jobs, RepublishNacked(j) PROVE m \in Owed'
  <2>1. copies'[c].msg = m /\ Secure(c)'
    BY <1>19 DEF RepublishNacked, Finished, brokerVars, jobVars,
      historyVars, Secure, QueueTypeOK, CopyType
  <2> QED
    BY <1>2, <2>1
<1>20. ASSUME NEW j \in Jobs, AckOnDeadChannel(j) PROVE m \in Owed'
  <2>1. /\ copies'[c].msg = copies[c].msg
        /\ copies'[c] = copies[c] \/ copies'[c].place = "main"
    BY <1>20, RequeuedType DEF AckOnDeadChannel, ProcessDies
  <2>2. Secure(c)'
    BY <1>20, <2>1 DEF AckOnDeadChannel, ProcessDies, Secure, QueueTypeOK,
      CopyType
  <2> QED
    BY <1>2, <2>1, <2>2
<1>21. ASSUME NEW w \in Workers, Stop(w) PROVE m \in Owed'
  <2>1. /\ copies'[c].msg = copies[c].msg
        /\ copies'[c] = copies[c] \/ copies'[c].place = "main"
    BY <1>21, RequeuedType DEF Stop, ProcessDies
  <2>2. Secure(c)'
    BY <1>21, <2>1 DEF Stop, ProcessDies, Secure, QueueTypeOK, CopyType
  <2> QED
    BY <1>2, <2>1, <2>2
<1> QED
  BY <1>3, <1>4, <1>5, <1>6, <1>7, <1>8, <1>9, <1>10, <1>11, <1>12, <1>13,
    <1>14, <1>15, <1>16, <1>17, <1>18, <1>19, <1>20, <1>21 DEF QueueNext,
    BrokerStep, DispatchEnds

\* A message that is handled or owed stays handled or owed.
LEMMA KeptStep ==
  ASSUME QueueInv, HandledBeforeAck, QueueNext, NEW m \in Messages, Kept(m)
  PROVE  Kept(m)'
<1>1. resolved \subseteq resolved'
  BY HistoryGrows DEF QueueInv
<1>2. CASE m \in resolved
  BY <1>1, <1>2 DEF Kept
<1>3. CASE m \in Owed
  BY <1>1, <1>3, OwedStep DEF Kept, HandledBeforeAck, Ack
<1> QED
  BY <1>2, <1>3 DEF Kept

\* Every step of the queue preserves KeptInv.
LEMMA KeptInvStep ==
  QueueInv /\ KeptInv /\ [QueueNext]_queueVars => KeptInv'
<1> SUFFICES ASSUME QueueInv, KeptInv, [QueueNext]_queueVars
             PROVE  KeptInv'
  OBVIOUS
<1> USE MessageAssumption, NoneAssumption, ProcessAssumption, CountAssumption
    DEF QueueInv, KeptInv
<1>1. CASE UNCHANGED queueVars
  BY <1>1 DEF HandledBeforeAck, TasksKept, CopiesKept, Kept, NoLoss, Owed, Secure,
    queueVars, brokerVars, jobVars, historyVars
<1>2. CASE QueueNext
  <2>1. QueueTypeOK'
    BY QueueInvStep
  <2>2. HandledBeforeAck'
    BY <1>2, JobStep, HistoryGrows DEF JobExplained, HandlerResolves, HandledBeforeAck
  <2>3. CopiesKept'
    <3> SUFFICES ASSUME NEW c \in Copies, copies'[c].place # "free"
                 PROVE  Kept(copies[c].msg)'
      BY DEF CopiesKept
    <3>1. copies'[c].msg \in Messages
      BY <2>1 DEF QueueTypeOK, CopyType, IsFree
    <3>2. CASE copies[c].place # "free" /\ copies'[c].msg = copies[c].msg
      BY <1>2, <3>1, <3>2, KeptStep DEF CopiesKept, Kept
    <3>3. CASE copies'[c].place = "main"
      BY <3>1, <3>3 DEF Kept, Owed, Secure
    <3>4. ASSUME NEW j \in Jobs, stage[j] = "republish", copies'[c].msg = task[j]
          PROVE  Kept(copies[c].msg)'
      BY <1>2, <3>1, <3>4, KeptStep DEF TasksKept, Kept
    <3> QED
      BY <1>2, <3>2, <3>3, <3>4, CopiesStep DEF CopiesExplained
  <2>4. TasksKept'
    <3> SUFFICES ASSUME NEW j \in Jobs, stage'[j] # "idle"
                 PROVE  Kept(task[j])'
      BY DEF TasksKept
    <3>1. \/ stage[j] # "idle" /\ task'[j] = task[j]
          \/ \E c \in Copies : copies[c].place = "main" /\ task'[j] = copies[c].msg
      BY <1>2, JobStep DEF JobExplained, HandlerResolves, HandlerRejects
    <3>2. CASE stage[j] # "idle" /\ task'[j] = task[j]
      BY <1>2, <3>2, KeptStep DEF TasksKept, QueueTypeOK, Kept
    <3>3. ASSUME NEW c \in Copies, copies[c].place = "main", task'[j] = copies[c].msg
          PROVE  Kept(task[j])'
      <4>1. copies[c].msg \in Messages
        BY <3>3 DEF QueueTypeOK, CopyType, IsFree
      <4>2. Kept(copies[c].msg)
        BY <3>3 DEF CopiesKept
      <4> QED
        BY <1>2, <3>3, <4>1, <4>2, KeptStep DEF Kept
    <3> QED
      BY <3>1, <3>2, <3>3
  <2>5. NoLoss'
    <3> SUFFICES ASSUME NEW m \in accepted'
                 PROVE  Kept(m)'
      BY DEF NoLoss, Kept
    <3>1. m \in Messages
      BY <2>1 DEF QueueTypeOK
    <3>2. \/ m \in accepted
          \/ \E c \in Copies : copies'[c].place = "main" /\ copies'[c].msg = m
      <4>1. CASE \E n \in Messages : PostAccepted(n)
        <5>1. PICK n \in Messages : PostAccepted(n)
          BY <4>1
        <5>2. copies'[Fresh].place = "main" /\ copies'[Fresh].msg = n
          BY <5>1, FreshIsFree DEF PostAccepted, Stored, Ready, Copy, QueueTypeOK
        <5> QED
          BY <5>1, <5>2, FreshIsFree DEF PostAccepted, Stored
      <4>2. CASE accepted' = accepted
        BY <4>2
      <4> QED
        BY <1>2, <4>1, <4>2 DEF QueueNext, BrokerStep, DispatchEnds, PostUnconfirmed,
          PostRejected, Settle, Expire, LoseChannel, Reconnect, QueueTick, Deliver,
          HandlerResolves, HandlerRejects, Ack, Republish, Park, AckOriginal, Abandon,
          RepublishNacked, AckOnDeadChannel, Stop, brokerVars
    <3>3. CASE m \in accepted
      BY <1>2, <3>1, <3>3, KeptStep DEF NoLoss, Kept
    <3>4. CASE \E c \in Copies : copies'[c].place = "main" /\ copies'[c].msg = m
      BY <3>1, <3>4 DEF Kept, Owed, Secure
    <3> QED
      BY <3>2, <3>3, <3>4
  <2> QED
    BY <2>2, <2>3, <2>4, <2>5
<1> QED
  BY <1>1, <1>2

\* KeptInv holds before the first POST.
LEMMA KeptInvInit == QueueInit => KeptInv
BY DEF QueueInit, KeptInv, HandledBeforeAck, TasksKept, CopiesKept, NoLoss,
  FreeSlot, Copy

\* No message answered with 204 is lost by the queue, however deliveries,
\* republishes, lost channels and dying processes interleave.
THEOREM QueueNoLoss == QueueSpec => []NoLoss
<1>1. KeptInv => NoLoss
  BY DEF KeptInv
<1> QED
  BY <1>1, KeptInvInit, QueueInvInit, QueueInvStep, KeptInvStep, PTL DEF QueueSpec

-----------------------------------------------------------------------------
(* Parking: x-attempt never runs ahead of the failures it counts.           *)

AttemptsInv == AttemptsCounted /\ ParkedAfterAllAttempts

\* Every step keeps x-attempt within the number of failed handler calls.
LEMMA AttemptsStep ==
  QueueInv /\ AttemptsInv /\ [QueueNext]_queueVars => AttemptsInv'
<1> SUFFICES ASSUME QueueInv, AttemptsInv, [QueueNext]_queueVars
             PROVE  AttemptsInv'
  OBVIOUS
<1> USE MessageAssumption, NoneAssumption, ProcessAssumption, CountAssumption
    DEF QueueInv, AttemptsInv
<1>1. CASE UNCHANGED queueVars
  BY <1>1 DEF AttemptsCounted, ParkedAfterAllAttempts, IsFree, queueVars, brokerVars,
    jobVars, historyVars
<1>2. CASE QueueNext
  <2>1. CopiesExplained
    BY <1>2, CopiesStep
  <2>2. QueueTypeOK'
    BY QueueInvStep
  <2>3. \A m \in Messages : failures[m] <= failures'[m]
    BY <1>2, HistoryGrows
  <2>4. ASSUME NEW c \in Copies, copies'[c].place # "free"
        PROVE  /\ copies'[c].attempt - 1 <= failures'[copies'[c].msg]
               /\ copies'[c].place = "dlq" => failures'[copies'[c].msg] >= MaxReceiveCount
    <3>1. /\ copies'[c].msg \in Messages
          /\ copies'[c].attempt \in Nat
          /\ failures'[copies'[c].msg] \in Nat
          /\ failures[copies'[c].msg] \in Nat
          /\ failures[copies'[c].msg] <= failures'[copies'[c].msg]
      BY <2>2, <2>3, <2>4 DEF QueueTypeOK, CopyType, IsFree
    <3>2. CASE /\ copies[c].place # "free"
               /\ copies'[c].msg = copies[c].msg
               /\ copies'[c].attempt = copies[c].attempt
               /\ copies'[c].place = "dlq" => copies[c].place = "dlq"
      BY <3>1, <3>2 DEF AttemptsCounted, ParkedAfterAllAttempts, IsFree
    <3>3. CASE copies'[c].attempt = 1 /\ copies'[c].place # "dlq"
      BY <3>1, <3>3
    <3>4. ASSUME NEW j \in Jobs,
                 stage[j] = "republish",
                 holds[j] # None,
                 copies'[c].msg = task[j],
                 copies'[c].attempt <= copies[holds[j]].attempt + 1,
                 copies'[c].place = "dlq" => copies[holds[j]].attempt >= MaxReceiveCount
          PROVE  /\ copies'[c].attempt - 1 <= failures'[copies'[c].msg]
                 /\ copies'[c].place = "dlq" => failures'[copies'[c].msg] >= MaxReceiveCount
      <4>1. copies[holds[j]].attempt \in Nat
        BY <3>4 DEF QueueTypeOK, CopyType
      <4>2. copies[holds[j]].attempt <= failures[copies'[c].msg]
        BY <3>4 DEF AttemptsCounted
      <4> QED
        BY <3>1, <3>4, <4>1, <4>2
    <3> QED
      BY <2>1, <2>4, <3>2, <3>3, <3>4 DEF CopiesExplained
  <2>5. ASSUME NEW j \in Jobs, stage'[j] = "republish", holds'[j] # None
        PROVE  copies'[holds'[j]].attempt <= failures'[task'[j]]
    <3>1. /\ holds'[j] = holds[j]
          /\ task'[j] = task[j]
          /\ stage[j] = "republish" \/ HandlerRejects(j)
      BY <1>2, <2>5, JobStep DEF JobExplained
    <3>2. /\ holds[j] \in Copies
          /\ task[j] \in Messages
          /\ copies[holds[j]].place = "unacked"
          /\ copies'[holds[j]].place = "unacked"
          /\ copies[holds[j]].attempt \in Nat
          /\ copies'[holds[j]].attempt \in Nat
      <4>1. DeliveriesOwned'
        BY QueueInvStep
      <4> QED
        BY <2>2, <2>5, <3>1, <4>1 DEF QueueTypeOK, CopyType, DeliveriesOwned, IsFree
    <3>3. copies'[holds[j]].attempt = copies[holds[j]].attempt
      BY <2>1, <3>2 DEF CopiesExplained
    <3>4. CASE stage[j] = "republish"
      BY <2>2, <2>3, <2>5, <3>1, <3>2, <3>3, <3>4 DEF AttemptsCounted, QueueTypeOK
    <3>5. CASE HandlerRejects(j)
      <4>1. copies[holds[j]].attempt - 1 <= failures[task[j]]
        BY <3>2, <3>5 DEF AttemptsCounted, DeliveriesOwned, HandlerRejects, IsFree, QueueTypeOK
      <4>2. failures'[task[j]] = IF failures[task[j]] < MaxReceiveCount
                                 THEN failures[task[j]] + 1 ELSE failures[task[j]]
        BY <3>2, <3>5 DEF HandlerRejects, QueueTypeOK
      <4>3. copies[holds[j]].attempt \in 1..MaxReceiveCount
        BY <3>2 DEF QueueTypeOK, CopyType
      <4> QED
        BY <3>1, <3>2, <3>3, <4>1, <4>2, <4>3 DEF QueueTypeOK
    <3> QED
      BY <3>1, <3>4, <3>5
  <2> QED
    BY <2>4, <2>5 DEF AttemptsCounted, ParkedAfterAllAttempts, IsFree
<1> QED
  BY <1>1, <1>2

\* Whatever is requeued, duplicated or reordered, a message in the dead-letter
\* queue has failed maxReceiveCount times.
THEOREM QueueParking == QueueSpec => []ParkedAfterAllAttempts
<1>1. QueueInit => AttemptsInv
  BY DEF QueueInit, AttemptsInv, AttemptsCounted, ParkedAfterAllAttempts, IsFree,
    FreeSlot, Copy
<1>2. AttemptsInv => ParkedAfterAllAttempts
  BY DEF AttemptsInv
<1> QED
  BY <1>1, <1>2, QueueInvInit, QueueInvStep, AttemptsStep, PTL DEF QueueSpec

-----------------------------------------------------------------------------
(* The refinement: under owed <- Owed, every step of the queue is a step of *)
(* AtLeastOnce or leaves its variables alone.                              *)

\* Messages only become owed by a POST, or again after they were handled.
LEMMA NewlyOwed ==
  ASSUME QueueInv, KeptInv, QueueNext, NEW m \in Owed', m \notin Owed,
         \A n \in Messages : ~PostAccepted(n) /\ ~PostUnconfirmed(n)
  PROVE  m \in resolved
<1> USE DEF QueueInv, KeptInv
<1>1. PICK c \in Copies : copies'[c].msg = m /\ Secure(c)'
  BY DEF Owed
<1>2. m \in Messages /\ copies'[c].place # "free"
  BY <1>1 DEF Owed, Secure
<1>3. CASE copies[c].place # "free" /\ copies'[c].msg = copies[c].msg
  BY <1>1, <1>3 DEF CopiesKept, Kept
<1>4. ASSUME NEW j \in Jobs, stage[j] = "republish", copies'[c].msg = task[j]
      PROVE  m \in resolved
  BY <1>1, <1>4 DEF TasksKept, Kept
<1> QED
  BY <1>2, <1>3, <1>4, CopiesStep DEF CopiesExplained

\* A stored POST leaves its message owed, and nothing else newly so.
LEMMA StoredOwed ==
  ASSUME QueueInv, NEW m \in Messages, Stored(m), UNCHANGED <<stage, holds>>
  PROVE  Owed' = Owed \cup {m}
<1> USE MessageAssumption, NoneAssumption, ProcessAssumption, CountAssumption
    DEF QueueInv
<1>1. PICK f \in Copies :
        copies[f].place = "free" /\ copies' = [copies EXCEPT ![f] = Ready(m, 1)]
  BY FreshIsFree DEF Stored, Posted
<1>2. \A c \in Copies : c # f => copies'[c] = copies[c] /\ (Secure(c)' <=> Secure(c))
  BY <1>1 DEF Secure, QueueTypeOK
<1>3. copies'[f].msg = m /\ Secure(f)' /\ ~Secure(f)
  BY <1>1 DEF Secure, Ready, Copy, QueueTypeOK
<1> QED
  BY <1>2, <1>3 DEF Owed

\* Every step of the queue is a step of AtLeastOnce or leaves it unchanged.
LEMMA RefinementStep ==
  QueueInv /\ KeptInv /\ [QueueNext]_queueVars => [ALO!Next]_(ALO!vars)
<1> SUFFICES ASSUME QueueInv, KeptInv, [QueueNext]_queueVars
             PROVE  [ALO!Next]_(ALO!vars)
  OBVIOUS
<1> USE MessageAssumption, NoneAssumption, ProcessAssumption, CountAssumption
    DEF QueueInv, KeptInv
<1>1. CASE UNCHANGED queueVars
  BY <1>1 DEF ALO!vars, Owed, Secure, queueVars, brokerVars, jobVars, historyVars
<1>2. ASSUME NEW m \in Messages, PostAccepted(m) PROVE ALO!Next
  BY <1>2, StoredOwed DEF PostAccepted, jobVars, historyVars, ALO!Next, ALO!Promise
<1>3. ASSUME NEW m \in Messages, PostUnconfirmed(m) PROVE ALO!Next
  BY <1>3, StoredOwed DEF PostUnconfirmed, jobVars, historyVars, ALO!Next, ALO!Store
<1>4. ASSUME NEW j \in Jobs, HandlerResolves(j) PROVE ALO!Next
  <2>1. Owed' = Owed
    BY <1>4 DEF HandlerResolves, Owed, Secure, brokerVars, QueueTypeOK
  <2>2. task[j] \in Messages /\ task[j] \in Owed \cup resolved
    BY <1>4 DEF HandlerResolves, TasksKept, Kept, QueueTypeOK
  <2> QED
    BY <1>4, <2>1, <2>2 DEF HandlerResolves, brokerVars, ALO!Next, ALO!Handle
<1>5. ASSUME NEW j \in Jobs, Ack(j) PROVE ALO!Next
  <2>1. task[j] \in Messages /\ task[j] \in resolved
    BY <1>5 DEF Ack, HandledBeforeAck, QueueTypeOK
  <2>2. Owed' \subseteq Owed
    <3> SUFFICES ASSUME NEW c \in Copies, Secure(c)'
                 PROVE  copies'[c].msg = copies[c].msg /\ Secure(c)
      BY DEF Owed
    <3> QED
      BY <1>5 DEF Ack, AckSent, Finished, Moved, Copy, Secure, QueueTypeOK, CopyType
  <2>3. \A m \in Owed : m \in Owed' \/ m = task[j]
    <3> SUFFICES ASSUME NEW c \in Copies, Secure(c), copies[c].msg # task[j]
                 PROVE  copies'[c].msg = copies[c].msg /\ Secure(c)'
      BY DEF Owed
    <3> QED
      BY <1>5 DEF Ack, AckSent, Finished, Secure, DeliveriesOwned, QueueTypeOK, CopyType
  <2>4. Owed' = Owed \/ Owed' = Owed \ {task[j]}
    BY <2>2, <2>3
  <2>5. CASE Owed' = Owed \ {task[j]}
    BY <1>5, <2>1, <2>5 DEF Ack, historyVars, ALO!Next, ALO!Forget
  <2>6. CASE Owed' = Owed
    <3>1. ALO!Return({})
      BY <1>5, <2>6 DEF Ack, historyVars, ALO!Return
    <3> QED
      BY <3>1 DEF ALO!Next
  <2> QED
    BY <2>4, <2>5, <2>6
<1>6. ASSUME QueueNext, UNCHANGED <<accepted, resolved>>,
             \A m \in Messages : ~PostAccepted(m) /\ ~PostUnconfirmed(m),
             \A j \in Jobs : ~Ack(j)
      PROVE  ALO!Next
  <2> DEFINE M == Owed' \ Owed
  <2>1. Owed \subseteq Owed'
    BY <1>6, OwedStep DEF Owed
  <2>2. M \subseteq resolved /\ M \in SUBSET Messages
    BY <1>6, NewlyOwed DEF Owed
  <2>3. Owed' = Owed \cup M
    BY <2>1
  <2>4. ALO!Return(M)
    BY <1>6, <2>2, <2>3 DEF ALO!Return
  <2> QED
    BY <2>2, <2>4 DEF ALO!Next
<1>7. CASE QueueNext
  <2>1. CASE \E m \in Messages : PostAccepted(m) \/ PostUnconfirmed(m)
    BY <1>2, <1>3, <2>1
  <2>2. CASE \E j \in Jobs : HandlerResolves(j) \/ Ack(j)
    BY <1>4, <1>5, <2>2
  <2>3. CASE /\ ~\E m \in Messages : PostAccepted(m) \/ PostUnconfirmed(m)
             /\ ~\E j \in Jobs : HandlerResolves(j) \/ Ack(j)
    <3>1. UNCHANGED <<accepted, resolved>>
      BY <1>7, <2>3 DEF QueueNext, BrokerStep, DispatchEnds, PostRejected, Posted, Settle,
        Expire, LoseChannel, Reconnect, QueueTick, Deliver, HandlerRejects,
        Republish, Park, AckOriginal, Abandon, RepublishNacked, AckOnDeadChannel,
        Stop, brokerVars, historyVars
    <3> QED
      BY <1>6, <1>7, <2>3, <3>1
  <2> QED
    BY <2>1, <2>2, <2>3
<1> QED
  BY <1>1, <1>7

\* The queue keeps the promise of MessageQueue: an accepted message stays owed
\* until a handler call for it has resolved.
THEOREM QueueImplementsAtLeastOnce == QueueSpec => ImplementsAtLeastOnce
<1>1. QueueInit => ALO!Init
  BY DEF QueueInit, ALO!Init, Owed, Secure, FreeSlot, Copy
<1> QED
  BY <1>1, QueueInvInit, KeptInvInit, QueueInvStep, KeptInvStep, RefinementStep, PTL
  DEF QueueSpec, ImplementsAtLeastOnce, ALO!Spec

-----------------------------------------------------------------------------
(* Deliveries left unacked.                                                *)

\* Prefetch slots of w's channel that nobody will give back.
LostSlots(w) == Unattended \cap InFlight(w)

\* What a step does to the lost slots of w: nothing, or it closes the channel and frees
\* them all, or a refused republish adds the one its job leaves behind.
LEMMA LostSlotsStep ==
  ASSUME QueueInv, [QueueNext]_queueVars, NEW w \in Workers
  PROVE  \/ LostSlots(w)' = LostSlots(w) /\ nacked'[w] = nacked[w]
         \/ LostSlots(w)' = {} /\ nacked'[w] = 0
         \/ /\ nacked'[w] = nacked[w] + 1
            /\ \E c \in Copies \ LostSlots(w) : LostSlots(w)' = LostSlots(w) \cup {c}
<1> DEFINE Same == LostSlots(w)' = LostSlots(w) /\ nacked'[w] = nacked[w]
           Freed == LostSlots(w)' = {} /\ nacked'[w] = 0
<1> USE NoneAssumption, ProcessAssumption
    DEF QueueInv, QueueTypeOK, CopyType, DeliveriesOwned, LostSlots, Unattended, InFlight
<1>1. ASSUME NEW m \in Messages, PostAccepted(m) \/ PostUnconfirmed(m) PROVE Same
  BY <1>1, FreshIsFree DEF PostAccepted, PostUnconfirmed, Stored, Ready, Copy, jobVars
<1>2. ASSUME NEW m \in Messages, PostRejected(m) PROVE Same
  BY <1>2 DEF PostRejected, jobVars
<1>3. ASSUME NEW c \in Copies, Settle(c) \/ Expire(c) PROVE Same
  BY <1>3 DEF Settle, Expire, FreeSlot, Moved, Copy, jobVars
<1>4. ASSUME NEW v \in Workers, Reconnect(v) PROVE Same
  BY <1>4 DEF Reconnect, jobVars
<1>5. ASSUME QueueTick PROVE Same
  BY <1>5, CooledType DEF QueueTick, jobVars
<1>6. ASSUME NEW j \in Jobs, NEW c \in Copies, Deliver(j, c) PROVE Same
  <2>1. holds[j] = None
    BY <1>6, MessageAssumption DEF Deliver, IsFree
  <2> QED
    BY <1>6, <2>1 DEF Deliver, Moved, Copy
<1>7. ASSUME NEW j \in Jobs, HandlerResolves(j) \/ HandlerRejects(j) PROVE Same
  BY <1>7 DEF HandlerResolves, HandlerRejects, brokerVars
<1>8. ASSUME NEW j \in Jobs, Ack(j) \/ AckOriginal(j) PROVE Same
  <2>1. holds[j] \in Copies /\ nacked' = nacked /\ holds' = [holds EXCEPT ![j] = None]
    BY <1>8 DEF Ack, AckOriginal, AckSent, Finished
  <2>2. copies'[holds[j]].place = "acking" /\ \A c \in Copies : c # holds[j] => copies'[c] = copies[c]
    BY <1>8, <2>1 DEF Ack, AckOriginal, AckSent, Moved, Copy
  <2> QED
    BY <2>1, <2>2
<1>9. ASSUME NEW j \in Jobs, Republish(j) \/ Park(j) PROVE Same
  <2>1. holds' = holds /\ nacked' = nacked
    BY <1>9 DEF Republish, Park
  <2>2. Fresh \in Copies /\ copies[Fresh].place = "free"
    BY <1>9, FreshIsFree DEF Republish, Park
  <2>3. /\ copies'[Fresh].place \in {"retry", "dlq"}
        /\ \A c \in Copies : c # Fresh => copies'[c] = copies[c]
    BY <1>9, <2>2 DEF Republish, Park, Delayed, DeadLetter, Copy
  <2> QED
    BY <2>1, <2>2, <2>3
<1>10. ASSUME NEW j \in Jobs, Abandon(j) PROVE Same
  BY <1>10 DEF Abandon, Finished, brokerVars
<1>11. ASSUME UNCHANGED queueVars PROVE Same
  BY <1>11 DEF queueVars, brokerVars, jobVars
<1>12. ASSUME NEW v \in Workers, copies' = Requeued(v), nacked' = [nacked EXCEPT ![v] = 0],
              holds' = [j \in Jobs |-> IF ProcessOf[j] = v THEN None ELSE holds[j]]
       PROVE  Same \/ Freed
  <2>1. \A c \in Copies : c \notin InFlight(v) => copies'[c] = copies[c]
    BY <1>12 DEF Requeued
  <2>2. \A c \in Copies : c \in InFlight(v) => copies'[c].place = "main"
    BY <1>12 DEF Requeued, Moved, Copy
  <2>3. CASE v = w
    BY <1>12, <2>1, <2>2, <2>3
  <2>4. CASE v # w
    BY <1>12, <2>1, <2>2, <2>4
  <2> QED
    BY <2>3, <2>4
<1>13. ASSUME NEW v \in Workers, LoseChannel(v) \/ Stop(v) PROVE Same \/ Freed
  BY <1>12, <1>13 DEF LoseChannel, Stop, ProcessDies
<1>14. ASSUME NEW j \in Jobs, AckOnDeadChannel(j) PROVE Same \/ Freed
  BY <1>12, <1>14 DEF AckOnDeadChannel, ProcessDies
<1>15. ASSUME NEW j \in Jobs, RepublishNacked(j)
       PROVE  \/ Same
              \/ /\ nacked'[w] = nacked[w] + 1
                 /\ \E c \in Copies \ LostSlots(w) : LostSlots(w)' = LostSlots(w) \cup {c}
  <2>1. /\ holds[j] \in Copies /\ copies[holds[j]].place = "unacked"
        /\ copies[holds[j]].worker = ProcessOf[j] /\ ProcessOf[j] \in Workers
    BY <1>15 DEF RepublishNacked
  <2>2. /\ copies' = copies /\ holds' = [holds EXCEPT ![j] = None]
        /\ nacked' = [nacked EXCEPT ![ProcessOf[j]] = @ + 1]
    BY <1>15 DEF RepublishNacked, Finished
  <2>3. CASE ProcessOf[j] # w
    BY <2>1, <2>2, <2>3
  <2>4. CASE ProcessOf[j] = w
    <3>1. holds[j] \in Copies \ LostSlots(w)
      BY <2>1
    <3>2. LostSlots(w)' = LostSlots(w) \cup {holds[j]}
      BY <2>1, <2>2, <2>4
    <3> QED
      BY <2>2, <2>4, <3>1, <3>2
  <2> QED
    BY <2>3, <2>4
<1> HIDE DEF Same, Freed, LostSlots
<1>16. Same \/ Freed \/ \E j \in Jobs : RepublishNacked(j)
  BY <1>1, <1>2, <1>3, <1>4, <1>5, <1>6, <1>7, <1>8, <1>9, <1>10, <1>11, <1>13, <1>14
  DEF QueueNext, BrokerStep, DispatchEnds
<1> QED
  BY <1>15, <1>16 DEF Same, Freed

\* The account is inductive given types and ownership.
LEMMA UnattendedExplainedStep ==
  ASSUME QueueInv, UnattendedExplained, [QueueNext]_queueVars
  PROVE  UnattendedExplained'
<1> SUFFICES ASSUME NEW w \in Workers
             PROVE  Cardinality(LostSlots(w)') = nacked'[w]
  BY DEF UnattendedExplained, LostSlots
<1>1. Cardinality(LostSlots(w)) = nacked[w]
  BY DEF UnattendedExplained, LostSlots
<1>2. ASSUME NEW c \in Copies \ LostSlots(w), LostSlots(w)' = LostSlots(w) \cup {c}
      PROVE  Cardinality(LostSlots(w)') = nacked[w] + 1
  <2>1. IsFiniteSet(LostSlots(w))
    BY SlotAssumption, FS_Subset DEF LostSlots, Unattended
  <2> QED
    BY <1>1, <1>2, <2>1, FS_AddElement
<1>3. CASE LostSlots(w)' = {} /\ nacked'[w] = 0
  BY <1>3, FS_EmptySet
<1> QED
  BY <1>1, <1>2, <1>3, LostSlotsStep

\* On every channel the deliveries that stay unacked for good are those whose republish
\* the broker refused there, one for one (retryOrPark() throws, dispatch() returns):
\* whatever the number of workers, jobs, slots and other faults.
THEOREM QueueUnattended == QueueSpec => []UnattendedExplained
<1>1. QueueInit => UnattendedExplained
  <2> SUFFICES ASSUME QueueInit, NEW w \in Workers
               PROVE  Cardinality(Unattended \cap InFlight(w)) = nacked[w]
    BY DEF UnattendedExplained
  <2>1. Unattended \cap InFlight(w) = {}
    BY DEF QueueInit, Unattended, FreeSlot, Copy
  <2>2. nacked[w] = 0
    BY DEF QueueInit
  <2> QED
    BY <2>1, <2>2, FS_EmptySet
<1>2. QueueInv /\ UnattendedExplained /\ [QueueNext]_queueVars => UnattendedExplained'
  BY UnattendedExplainedStep
<1>3. QueueSpec => []QueueInv
  BY QueueInvInit, QueueInvStep, PTL DEF QueueSpec
<1> QED
  BY <1>1, <1>2, <1>3, PTL DEF QueueSpec
=============================================================================
