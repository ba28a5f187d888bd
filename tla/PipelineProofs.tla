--------------------------- MODULE PipelineProofs ---------------------------
(***************************************************************************)
(* Theorems about Pipeline for any number of messages, workers and jobs:    *)
(* it runs the work queue (so the theorems of WorkQueueProofs carry over),  *)
(* its types, exclusive processing while no live handler outlives the stale *)
(* claim, one text per reply, and agreement of the two rows on "sent".      *)
(***************************************************************************)
EXTENDS Pipeline, WorkQueueProofs

\* What a call knows about the reply it works on; SameText rests on it.
TextInv ==
  /\ \A j \in Jobs : at[j] = "record" => text[j] \in Texts
  /\ \A j \in Jobs : at[j] = "lookup" => reply[task[j]] # "absent"
  /\ \A j \in Jobs : at[j] \in {"send", "markSent", "failBoth"}
                    => reply[task[j]] # "absent" /\ text[j] = body[task[j]]
  /\ \A m \in Messages : reply[m] # "absent" => body[m] \in Texts
  /\ \A m \in Messages : reply[m] = "absent" => sms[m] = <<>>
  /\ SameText

PipelineInv == PipelineTypeOK /\ TextInv

-----------------------------------------------------------------------------
(* The pipeline is a user of the queue: each of its steps is one of the     *)
(* queue's or leaves the queue alone.                                      *)

\* Every step of the pipeline is a step of the queue or leaves it unchanged.
LEMMA PipelineQueueStep ==
  ASSUME QueueTypeOK, [PipelineNext]_pipelineVars
  PROVE  [QueueNext]_queueVars
<1>1. CASE UNCHANGED pipelineVars
  BY <1>1 DEF pipelineVars
<1>2. CASE Elsewhere
  BY <1>2 DEF Elsewhere, QueueNext
<1>3. CASE Tick
  <2>1. CASE \E c \in Copies : copies[c].place = "retry" /\ copies[c].ttl > 0
    BY <1>3, <2>1 DEF Tick, QueueNext, QueueTick
  <2>2. CASE ~\E c \in Copies : copies[c].place = "retry" /\ copies[c].ttl > 0
    <3>1. Cooled = copies
      BY <2>2 DEF Cooled, QueueTypeOK
    <3> QED
      BY <1>3, <3>1 DEF Tick, queueVars, brokerVars, jobVars, historyVars
  <2> QED
    BY <2>1, <2>2
<1>4. ASSUME NEW j \in Jobs, NEW c \in Copies, Receive(j, c) PROVE QueueNext
  BY <1>4 DEF Receive, QueueNext
<1>5. ASSUME NEW j \in Jobs, HandleInbound(j)
      PROVE  UNCHANGED queueVars \/ HandlerResolves(j) \/ HandlerRejects(j)
  BY <1>5 DEF HandleInbound, Persist, PersistFails, ClaimMessage,
    DropDuplicate, ClaimFails, Generate, GenerateFails, Record, RecordFails,
    LookUp, SkipSent, LookUpFails, Send, SendFails, RecordSent,
    RecordSentFails, RecordFailure, Proceed, Return, Throw
<1>6. ASSUME NEW j \in Jobs, WorkerExits(j) PROVE QueueNext
  BY <1>6 DEF WorkerExits, QueueNext
<1>7. ASSUME NEW w \in Workers, WorkerStops(w) PROVE QueueNext
  BY <1>7 DEF WorkerStops, QueueNext
<1> QED
  BY <1>1, <1>2, <1>3, <1>4, <1>5, <1>6, <1>7 DEF PipelineNext, QueueNext

\* The inductive invariant of the queue therefore holds in the pipeline.
LEMMA PipelineQueueInv == PipelineSpec => []QueueInv
<1>1. PipelineInit => QueueInv
  BY QueueInvInit DEF PipelineInit
<1>2. QueueInv /\ [PipelineNext]_pipelineVars => QueueInv'
  BY PipelineQueueStep, QueueInvStep DEF QueueInv
<1> QED
  BY <1>1, <1>2, PTL DEF PipelineSpec

\* Handlers as handleInbound writes them are among the handlers the queue
\* allows for: what is proved of QueueSpec holds of the whole pipeline.
THEOREM PipelineRunsQueue == PipelineSpec => QueueSpec
<1>1. PipelineInit => QueueInit
  BY DEF PipelineInit
<1>2. QueueInv /\ [PipelineNext]_pipelineVars => [QueueNext]_queueVars
  BY PipelineQueueStep DEF QueueInv
<1> QED
  BY <1>1, <1>2, PipelineQueueInv, PTL DEF PipelineSpec, QueueSpec

-----------------------------------------------------------------------------
(* Types.                                                                  *)

\* Steps outside the handlers leave the running calls their tasks.
LEMMA ElsewhereKeepsCalls ==
  ASSUME QueueTypeOK, Elsewhere, NEW j \in Jobs
  PROVE  /\ stage'[j] = "handling" <=> stage[j] = "handling"
         /\ stage[j] = "handling" => task'[j] = task[j]
BY DEF Elsewhere, BrokerStep, DispatchEnds, PostAccepted, PostUnconfirmed,
  PostRejected, Settle, Expire, LoseChannel, Reconnect, Ack, Republish, Park,
  AckOriginal, Abandon, RepublishNacked, AckSent, Finished, Stored, Posted, queueVars,
  brokerVars, jobVars, historyVars, storeVars, QueueTypeOK, Stages

\* Every statement of the repository keeps the table well typed.
LEMMA StoreTypeStep ==
  ASSUME StoreTypeOK, NEW m \in Messages, NEW t \in Texts,
         \/ InsertInbound(m) \/ Claim(m) \/ InsertReply(m, t) \/ MarkSent(m)
         \/ MarkFailed(m, TRUE) \/ MarkFailed(m, FALSE) \/ UNCHANGED storeVars
  PROVE  StoreTypeOK'
<1> USE StaleAssumption
<1>1. CASE InsertInbound(m) \/ Claim(m)
  BY <1>1 DEF InsertInbound, Claim, StoreTypeOK
<1>2. CASE InsertReply(m, t)
  BY <1>2 DEF InsertReply, StoreTypeOK
<1>3. CASE MarkSent(m) \/ MarkFailed(m, TRUE) \/ MarkFailed(m, FALSE)
  BY <1>3 DEF MarkSent, MarkFailed, StoreTypeOK
<1>4. CASE UNCHANGED storeVars
  BY <1>4 DEF storeVars, StoreTypeOK
<1> QED
  BY <1>1, <1>2, <1>3, <1>4

\* The running calls are typed: the part of PipelineTypeOK that is neither the
\* queue's nor the table's.
CallsTypeOK ==
  /\ at \in [Jobs -> Owning \cup {"idle", "persist", "claim"}]
  /\ text \in [Jobs -> Texts \cup {None}]
  /\ elapsed \in [Jobs -> 0..WorkMax]
  /\ sms \in [Messages -> Seq(Texts)]
  /\ \A j \in Jobs : (at[j] = "idle") <=> (stage[j] # "handling")

\* A call that ends, either way, leaves the running calls typed.
LEMMA ReturnTyped ==
  ASSUME QueueTypeOK, CallsTypeOK, NEW j \in Jobs, Return(j) \/ Throw(j), UNCHANGED sms
  PROVE  CallsTypeOK'
<1> USE NoneAssumption, WorkAssumption
<1>1. Returned(j) /\ stage'[j] # "handling"
      /\ \A i \in Jobs : i # j => stage'[i] = stage[i]
  BY DEF Return, Throw, HandlerResolves, HandlerRejects, QueueTypeOK
<1> QED
  BY <1>1 DEF Returned, CallsTypeOK

\* Every step of the pipeline preserves PipelineTypeOK.
LEMMA PipelineTypeStep ==
  QueueInv /\ PipelineInv /\ [PipelineNext]_pipelineVars => PipelineTypeOK'
<1> SUFFICES ASSUME QueueInv, PipelineInv, [PipelineNext]_pipelineVars
             PROVE  PipelineTypeOK'
  OBVIOUS
<1> USE MessageAssumption, NoneAssumption, ProcessAssumption, CountAssumption,
        StaleAssumption, TextAssumption, WorkAssumption
    DEF PipelineInv
<1>1. QueueTypeOK'
  BY PipelineQueueStep, QueueInvStep DEF QueueInv
<1>2. CASE UNCHANGED pipelineVars
  BY <1>1, <1>2 DEF PipelineTypeOK, StoreTypeOK, pipelineVars, queueVars, jobVars,
    storeVars, callVars
<1>3. CASE Elsewhere
  BY <1>1, <1>3, ElsewhereKeepsCalls DEF PipelineTypeOK, StoreTypeOK, Elsewhere,
    storeVars, callVars
<1>4. CASE Tick
  BY <1>1, <1>4 DEF Tick, ClaimsAge, Working, PipelineTypeOK, StoreTypeOK, Owning,
    jobVars
<1>5. ASSUME NEW j \in Jobs, NEW c \in Copies, Receive(j, c) PROVE PipelineTypeOK'
  <2>1. StoreTypeOK'
    BY <1>5 DEF Receive, PipelineTypeOK, StoreTypeOK, storeVars
  <2>2. CallsTypeOK'
    BY <1>5 DEF Receive, Deliver, PipelineTypeOK, CallsTypeOK, QueueTypeOK
  <2> QED
    BY <1>1, <2>1, <2>2 DEF PipelineTypeOK, CallsTypeOK
<1>6. ASSUME NEW j \in Jobs, WorkerExits(j) PROVE PipelineTypeOK'
  BY <1>1, <1>6 DEF WorkerExits, AckOnDeadChannel, ProcessDies, CallsVanish,
    PipelineTypeOK, StoreTypeOK, QueueTypeOK, storeVars
<1>7. ASSUME NEW w \in Workers, WorkerStops(w) PROVE PipelineTypeOK'
  BY <1>1, <1>7 DEF WorkerStops, Stop, ProcessDies, CallsVanish, PipelineTypeOK,
    StoreTypeOK, QueueTypeOK, storeVars
<1>8. ASSUME NEW j \in Jobs, HandleInbound(j) PROVE PipelineTypeOK'
  <2>1. at[j] # "idle"
    BY <1>8 DEF HandleInbound, Persist, PersistFails, ClaimMessage,
      DropDuplicate, ClaimFails, Generate, GenerateFails, Record, RecordFails,
      LookUp, SkipSent, LookUpFails, Send, SendFails, RecordSent,
      RecordSentFails, RecordFailure, Proceed
  <2>2. task[j] \in Messages
    BY <2>1 DEF PipelineTypeOK, QueueTypeOK
  <2>3. QueueTypeOK /\ StoreTypeOK /\ CallsTypeOK
    BY DEF PipelineTypeOK, CallsTypeOK
  <2>4. ASSUME StoreTypeOK', CallsTypeOK' PROVE PipelineTypeOK'
    BY <1>1, <2>4 DEF PipelineTypeOK, CallsTypeOK
  <2>5. CASE Persist(j)
    <3>1. StoreTypeOK'
      BY <2>2, <2>3, <2>5 DEF Persist, StoreTypeOK, storeVars, InsertInbound
    <3>2. CallsTypeOK'
      BY <2>2, <2>3, <2>5 DEF Persist, Proceed, CallsTypeOK, QueueTypeOK,
        StoreTypeOK, Owning, Stages, queueVars, jobVars
    <3> QED
      BY <2>4, <3>1, <3>2
  <2>6. CASE PersistFails(j)
    <3>1. StoreTypeOK'
      BY <2>2, <2>3, <2>6 DEF PersistFails, StoreTypeOK, storeVars,
        InsertInbound
    <3>2. CallsTypeOK'
      BY <2>2, <2>3, <2>6, ReturnTyped DEF PersistFails
    <3> QED
      BY <2>4, <3>1, <3>2
  <2>7. CASE ClaimMessage(j)
    <3>1. StoreTypeOK'
      BY <2>2, <2>3, <2>7 DEF ClaimMessage, StoreTypeOK, storeVars, Claim
    <3>2. CallsTypeOK'
      BY <2>2, <2>3, <2>7 DEF ClaimMessage, Proceed, CallsTypeOK, QueueTypeOK,
        StoreTypeOK, Owning, Stages, queueVars, jobVars
    <3> QED
      BY <2>4, <3>1, <3>2
  <2>8. CASE DropDuplicate(j)
    <3>1. StoreTypeOK'
      BY <2>3, <2>8 DEF DropDuplicate, StoreTypeOK, storeVars
    <3>2. CallsTypeOK'
      BY <2>2, <2>3, <2>8, ReturnTyped DEF DropDuplicate
    <3> QED
      BY <2>4, <3>1, <3>2
  <2>9. CASE ClaimFails(j)
    <3>1. StoreTypeOK'
      BY <2>2, <2>3, <2>9 DEF ClaimFails, StoreTypeOK, storeVars, Claim
    <3>2. CallsTypeOK'
      BY <2>2, <2>3, <2>9, ReturnTyped DEF ClaimFails
    <3> QED
      BY <2>4, <3>1, <3>2
  <2>10. CASE Generate(j)
    <3>1. StoreTypeOK'
      BY <2>3, <2>10 DEF Generate, StoreTypeOK, storeVars
    <3>2. CallsTypeOK'
      BY <2>2, <2>3, <2>10 DEF Generate, Proceed, CallsTypeOK, QueueTypeOK,
        StoreTypeOK, Owning, Stages, queueVars, jobVars
    <3> QED
      BY <2>4, <3>1, <3>2
  <2>11. CASE GenerateFails(j)
    <3>1. StoreTypeOK'
      BY <2>3, <2>11 DEF GenerateFails, StoreTypeOK, storeVars
    <3>2. CallsTypeOK'
      BY <2>2, <2>3, <2>11 DEF GenerateFails, Proceed, CallsTypeOK,
        QueueTypeOK, StoreTypeOK, Owning, Stages, queueVars, jobVars
    <3> QED
      BY <2>4, <3>1, <3>2
  <2>12. CASE Record(j)
    <3>1. text[j] \in Texts
      BY <2>12 DEF Record, Proceed, TextInv
    <3>2. StoreTypeOK'
      BY <2>2, <2>3, <2>12, <3>1, StoreTypeStep DEF Record
    <3>3. CallsTypeOK'
      BY <2>2, <2>3, <2>12, <3>1 DEF Record, Proceed, CallsTypeOK,
        QueueTypeOK, StoreTypeOK, Owning, Stages, queueVars, jobVars
    <3> QED
      BY <2>4, <3>2, <3>3
  <2>13. CASE RecordFails(j)
    <3>1. text[j] \in Texts
      BY <2>13 DEF RecordFails, Proceed, TextInv
    <3>2. StoreTypeOK'
      BY <2>2, <2>3, <2>13, <3>1, StoreTypeStep DEF RecordFails
    <3>3. CallsTypeOK'
      BY <2>2, <2>3, <2>13, <3>1 DEF RecordFails, Proceed, CallsTypeOK,
        QueueTypeOK, StoreTypeOK, Owning, Stages, queueVars, jobVars
    <3> QED
      BY <2>4, <3>2, <3>3
  <2>14. CASE LookUp(j)
    <3>1. StoreTypeOK'
      BY <2>3, <2>14 DEF LookUp, StoreTypeOK, storeVars
    <3>2. CallsTypeOK'
      BY <2>2, <2>3, <2>14 DEF LookUp, Proceed, CallsTypeOK, QueueTypeOK,
        StoreTypeOK, Owning, Stages, queueVars, jobVars
    <3> QED
      BY <2>4, <3>1, <3>2
  <2>15. CASE SkipSent(j)
    <3>1. StoreTypeOK'
      BY <2>3, <2>15 DEF SkipSent, StoreTypeOK, storeVars
    <3>2. CallsTypeOK'
      BY <2>2, <2>3, <2>15, ReturnTyped DEF SkipSent
    <3> QED
      BY <2>4, <3>1, <3>2
  <2>16. CASE LookUpFails(j)
    <3>1. StoreTypeOK'
      BY <2>3, <2>16 DEF LookUpFails, StoreTypeOK, storeVars
    <3>2. CallsTypeOK'
      BY <2>2, <2>3, <2>16 DEF LookUpFails, Proceed, CallsTypeOK, QueueTypeOK,
        StoreTypeOK, Owning, Stages, queueVars, jobVars
    <3> QED
      BY <2>4, <3>1, <3>2
  <2>17. CASE Send(j)
    <3>1. text[j] \in Texts
      BY <2>2, <2>17 DEF Send, Proceed, TextInv
    <3>2. StoreTypeOK'
      BY <2>3, <2>17 DEF Send, StoreTypeOK, storeVars
    <3>3. CallsTypeOK'
      BY <2>2, <2>3, <2>17, <3>1 DEF Send, Proceed, CarrierAccepts,
        CallsTypeOK, QueueTypeOK, StoreTypeOK, Owning, Stages, queueVars,
        jobVars
    <3> QED
      BY <2>4, <3>2, <3>3
  <2>18. CASE SendFails(j)
    <3>1. text[j] \in Texts
      BY <2>2, <2>18 DEF SendFails, Proceed, TextInv
    <3>2. StoreTypeOK'
      BY <2>3, <2>18 DEF SendFails, StoreTypeOK, storeVars
    <3>3. sms' \in [Messages -> Seq(Texts)]
      <4>1. CASE UNCHANGED sms
        BY <2>3, <4>1 DEF CallsTypeOK
      <4>2. CASE CarrierAccepts(task[j], text[j])
        BY <2>2, <2>3, <3>1, <4>2 DEF CarrierAccepts, CallsTypeOK
      <4> QED
        BY <2>18, <4>1, <4>2 DEF SendFails
    <3>4. CallsTypeOK'
      BY <2>2, <2>3, <2>18, <3>3 DEF SendFails, Proceed, CallsTypeOK,
        QueueTypeOK, StoreTypeOK, Owning, Stages, queueVars, jobVars
    <3> QED
      BY <2>4, <3>2, <3>4
  <2>19. CASE RecordSent(j)
    <3>1. StoreTypeOK'
      BY <2>2, <2>3, <2>19 DEF RecordSent, StoreTypeOK, storeVars, MarkSent
    <3>2. CallsTypeOK'
      BY <2>2, <2>3, <2>19, ReturnTyped DEF RecordSent
    <3> QED
      BY <2>4, <3>1, <3>2
  <2>20. CASE RecordSentFails(j)
    <3>1. StoreTypeOK'
      BY <2>2, <2>3, <2>20 DEF RecordSentFails, StoreTypeOK, storeVars,
        MarkSent
    <3>2. CallsTypeOK'
      BY <2>2, <2>3, <2>20 DEF RecordSentFails, Proceed, CallsTypeOK,
        QueueTypeOK, StoreTypeOK, Owning, Stages, queueVars, jobVars
    <3> QED
      BY <2>4, <3>1, <3>2
  <2>21. CASE RecordFailure(j)
    <3>1. StoreTypeOK'
      BY <2>2, <2>3, <2>21 DEF RecordFailure, StoreTypeOK, storeVars,
        MarkFailed
    <3>2. CallsTypeOK'
      BY <2>2, <2>3, <2>21, ReturnTyped DEF RecordFailure
    <3> QED
      BY <2>4, <3>1, <3>2
  <2> QED
    BY <1>8, <2>5, <2>6, <2>7, <2>8, <2>9, <2>10, <2>11, <2>12, <2>13, <2>14,
      <2>15, <2>16, <2>17, <2>18, <2>19, <2>20, <2>21 DEF HandleInbound
<1> QED
  BY <1>2, <1>3, <1>4, <1>5, <1>6, <1>7, <1>8 DEF PipelineNext

\* PipelineTypeOK holds before the first POST.
LEMMA PipelineTypeInit == PipelineInit => PipelineTypeOK
<1> USE StaleAssumption, TextAssumption, WorkAssumption
<1> QED
  BY QueueInvInit DEF PipelineInit, QueueInv, QueueInit, StoreInit, PipelineTypeOK,
    StoreTypeOK

-----------------------------------------------------------------------------
(* One text per reply.                                                     *)

\* Every step preserves TextInv: the recorded text, once sent, never changes.
LEMMA TextInvStep ==
  QueueInv /\ PipelineInv /\ [PipelineNext]_pipelineVars => TextInv'
<1> SUFFICES ASSUME QueueInv, PipelineInv, [PipelineNext]_pipelineVars
             PROVE  TextInv'
  OBVIOUS
<1> USE TextAssumption DEF PipelineInv
<1>1. PipelineTypeOK'
  BY PipelineTypeStep
<1>2. CASE UNCHANGED pipelineVars
  BY <1>2 DEF TextInv, SameText, pipelineVars, queueVars, jobVars, storeVars, callVars
<1>3. CASE Elsewhere
  BY <1>3, ElsewhereKeepsCalls DEF Elsewhere, TextInv, SameText, PipelineTypeOK,
    storeVars, callVars
<1>4. CASE Tick
  BY <1>4 DEF Tick, ClaimsAge, TextInv, SameText, jobVars
<1>5. ASSUME NEW j \in Jobs, NEW c \in Copies, Receive(j, c) PROVE TextInv'
  BY <1>5 DEF Receive, Deliver, TextInv, SameText, PipelineTypeOK, QueueTypeOK, storeVars
<1>6. ASSUME NEW w \in Workers, ProcessDies(w), CallsVanish(w) PROVE TextInv'
  BY <1>6 DEF ProcessDies, CallsVanish, TextInv, SameText, PipelineTypeOK, QueueTypeOK,
    storeVars
<1>7. ASSUME NEW j \in Jobs, HandleInbound(j) PROVE TextInv'
  <2>1. at[j] # "idle"
    BY <1>7 DEF HandleInbound, Persist, PersistFails, ClaimMessage,
      DropDuplicate, ClaimFails, Generate, GenerateFails, Record, RecordFails,
      LookUp, SkipSent, LookUpFails, Send, SendFails, RecordSent,
      RecordSentFails, RecordFailure, Proceed
  <2>2. task[j] \in Messages
    BY <2>1 DEF PipelineTypeOK, QueueTypeOK
  <2>3. \A i \in Jobs : at[i] # "idle" => task[i] \in Messages
    BY DEF PipelineTypeOK, QueueTypeOK
  <2>4. CASE Persist(j)
    BY <2>2, <2>3, <2>4 DEF Persist, Proceed, InsertInbound, TextInv,
      SameText, PipelineTypeOK, StoreTypeOK, storeVars, queueVars, jobVars,
      brokerVars
  <2>5. CASE PersistFails(j)
    BY <2>2, <2>3, <2>5 DEF PersistFails, InsertInbound, Throw,
      HandlerRejects, Returned, TextInv, SameText, PipelineTypeOK,
      StoreTypeOK, storeVars, queueVars, jobVars, brokerVars
  <2>6. CASE ClaimMessage(j)
    BY <2>2, <2>3, <2>6 DEF ClaimMessage, Proceed, Claim, TextInv, SameText,
      PipelineTypeOK, StoreTypeOK, storeVars, queueVars, jobVars, brokerVars
  <2>7. CASE DropDuplicate(j)
    BY <2>2, <2>3, <2>7 DEF DropDuplicate, Return, HandlerResolves, Returned,
      TextInv, SameText, PipelineTypeOK, StoreTypeOK, storeVars, queueVars,
      jobVars, brokerVars
  <2>8. CASE ClaimFails(j)
    BY <2>2, <2>3, <2>8 DEF ClaimFails, Claim, Throw, HandlerRejects,
      Returned, TextInv, SameText, PipelineTypeOK, StoreTypeOK, storeVars,
      queueVars, jobVars, brokerVars
  <2>9. CASE Generate(j)
    BY <2>2, <2>3, <2>9 DEF Generate, Proceed, TextInv, SameText,
      PipelineTypeOK, StoreTypeOK, storeVars, queueVars, jobVars, brokerVars
  <2>10. CASE GenerateFails(j)
    BY <2>2, <2>3, <2>10 DEF GenerateFails, Proceed, TextInv, SameText,
      PipelineTypeOK, StoreTypeOK, storeVars, queueVars, jobVars, brokerVars
  <2>11. CASE Record(j)
    <3>1. text[j] \in Texts
      BY <2>11 DEF Record, Proceed, TextInv
    <3>2. \A m \in Messages :
            /\ sms'[m] = sms[m]
            /\ reply'[m] = "absent" => reply[m] = "absent"
            /\ reply[m] # "absent" => reply'[m] # "absent" /\ body'[m] = body[m]
            /\ reply'[m] # "absent" => body'[m] \in Texts
      <4>1. CASE InsertReply(task[j], text[j])
        <5>1. UNCHANGED sms
          BY <2>11 DEF Record
        <5>2. CASE reply[task[j]] = "absent"
          <6>1. /\ reply' = [reply EXCEPT ![task[j]] = "processing"]
                /\ body' = [body EXCEPT ![task[j]] = text[j]]
            BY <4>1, <5>2 DEF InsertReply
          <6> QED
            BY <2>2, <3>1, <5>1, <5>2, <6>1 DEF TextInv, PipelineTypeOK, StoreTypeOK
        <5>3. CASE reply[task[j]] # "absent"
          BY <4>1, <5>1, <5>3 DEF InsertReply, TextInv
        <5> QED
          BY <5>2, <5>3
      <4>2. CASE UNCHANGED storeVars
        BY <2>11, <4>2 DEF Record, TextInv, storeVars
      <4> QED
        BY <2>11, <4>1, <4>2 DEF Record
    <3>3. /\ \A k \in Jobs : task'[k] = task[k] /\ text'[k] = text[k]
          /\ \A k \in Jobs : k # j => at'[k] = at[k]
          /\ at'[j] \in {"lookup", "failInbound"}
      BY <2>11 DEF Record, Proceed, PipelineTypeOK, queueVars, jobVars
    <3>4. at'[j] = "lookup" => reply'[task[j]] # "absent"
      BY <2>2, <2>11 DEF Record, Proceed, InsertReply, PipelineTypeOK, StoreTypeOK
    <3> QED
      BY <2>2, <2>3, <3>2, <3>3, <3>4 DEF TextInv, SameText
  <2>12. CASE RecordFails(j)
    <3>1. text[j] \in Texts
      BY <2>12 DEF RecordFails, Proceed, TextInv
    <3>2. \A m \in Messages :
            /\ sms'[m] = sms[m]
            /\ reply'[m] = "absent" => reply[m] = "absent"
            /\ reply[m] # "absent" => reply'[m] # "absent" /\ body'[m] = body[m]
            /\ reply'[m] # "absent" => body'[m] \in Texts
      <4>1. CASE InsertReply(task[j], text[j])
        <5>1. UNCHANGED sms
          BY <2>12 DEF RecordFails
        <5>2. CASE reply[task[j]] = "absent"
          <6>1. /\ reply' = [reply EXCEPT ![task[j]] = "processing"]
                /\ body' = [body EXCEPT ![task[j]] = text[j]]
            BY <4>1, <5>2 DEF InsertReply
          <6> QED
            BY <2>2, <3>1, <5>1, <5>2, <6>1 DEF TextInv, PipelineTypeOK, StoreTypeOK
        <5>3. CASE reply[task[j]] # "absent"
          BY <4>1, <5>1, <5>3 DEF InsertReply, TextInv
        <5> QED
          BY <5>2, <5>3
      <4>2. CASE UNCHANGED storeVars
        BY <2>12, <4>2 DEF RecordFails, TextInv, storeVars
      <4> QED
        BY <2>12, <4>1, <4>2 DEF RecordFails
    <3>3. /\ \A k \in Jobs : task'[k] = task[k] /\ text'[k] = text[k]
          /\ \A k \in Jobs : k # j => at'[k] = at[k]
          /\ at'[j] \in {"lookup", "failInbound"}
      BY <2>12 DEF RecordFails, Proceed, PipelineTypeOK, queueVars, jobVars
    <3>4. at'[j] = "lookup" => reply'[task[j]] # "absent"
      BY <2>2, <2>12 DEF RecordFails, Proceed, InsertReply, PipelineTypeOK, StoreTypeOK
    <3> QED
      BY <2>2, <2>3, <3>2, <3>3, <3>4 DEF TextInv, SameText
  <2>13. CASE LookUp(j)
    BY <2>2, <2>3, <2>13 DEF LookUp, Proceed, TextInv, SameText,
      PipelineTypeOK, StoreTypeOK, storeVars, queueVars, jobVars, brokerVars
  <2>14. CASE SkipSent(j)
    BY <2>2, <2>3, <2>14 DEF SkipSent, Return, HandlerResolves, Returned,
      TextInv, SameText, PipelineTypeOK, StoreTypeOK, storeVars, queueVars,
      jobVars, brokerVars
  <2>15. CASE LookUpFails(j)
    BY <2>2, <2>3, <2>15 DEF LookUpFails, Proceed, TextInv, SameText,
      PipelineTypeOK, StoreTypeOK, storeVars, queueVars, jobVars, brokerVars
  <2>16. CASE Send(j)
    BY <2>2, <2>3, <2>16 DEF Send, Proceed, CarrierAccepts, TextInv, SameText,
      PipelineTypeOK, StoreTypeOK, storeVars, queueVars, jobVars, brokerVars
  <2>17. CASE SendFails(j)
    <3>1. CASE UNCHANGED sms
      BY <2>2, <2>3, <2>17, <3>1 DEF SendFails, Proceed, TextInv, SameText,
        PipelineTypeOK, storeVars, queueVars, jobVars
    <3>2. CASE CarrierAccepts(task[j], text[j])
      BY <2>2, <2>3, <2>17, <3>2 DEF SendFails, CarrierAccepts, Proceed, TextInv,
        SameText, PipelineTypeOK, storeVars, queueVars, jobVars
    <3> QED
      BY <2>17, <3>1, <3>2 DEF SendFails
  <2>18. CASE RecordSent(j)
    BY <2>2, <2>3, <2>18 DEF RecordSent, MarkSent, Return, HandlerResolves,
      Returned, TextInv, SameText, PipelineTypeOK, StoreTypeOK, storeVars,
      queueVars, jobVars, brokerVars
  <2>19. CASE RecordSentFails(j)
    BY <2>2, <2>3, <2>19 DEF RecordSentFails, Proceed, MarkSent, TextInv,
      SameText, PipelineTypeOK, StoreTypeOK, storeVars, queueVars, jobVars,
      brokerVars
  <2>20. CASE RecordFailure(j)
    BY <2>2, <2>3, <2>20 DEF RecordFailure, MarkFailed, Throw, HandlerRejects,
      Returned, TextInv, SameText, PipelineTypeOK, StoreTypeOK, storeVars,
      queueVars, jobVars, brokerVars
  <2> QED
    BY <1>7, <2>4, <2>5, <2>6, <2>7, <2>8, <2>9, <2>10, <2>11, <2>12, <2>13,
      <2>14, <2>15, <2>16, <2>17, <2>18, <2>19, <2>20 DEF HandleInbound
<1> QED
  BY <1>2, <1>3, <1>4, <1>5, <1>6, <1>7, ProcessAssumption
  DEF PipelineNext, WorkerExits, WorkerStops, Stop, AckOnDeadChannel

\* The inductive invariant of the pipeline, types and TextInv, always holds.
LEMMA PipelineInvAlways == PipelineSpec => []PipelineInv
<1>1. PipelineInit => TextInv
  BY DEF PipelineInit, StoreInit, TextInv, SameText
<1> QED
  BY <1>1, PipelineTypeInit, PipelineTypeStep, TextInvStep, PipelineQueueInv, PTL
  DEF PipelineSpec, PipelineInv

\* Every variable of the pipeline keeps its type, and a call is inside
\* handleInbound exactly while the queue waits for its handler.
THEOREM PipelineTyping == PipelineSpec => []PipelineTypeOK
BY PipelineInvAlways, PTL DEF PipelineInv

\* Every SMS sent in reply to a message carries the recorded text, even when
\* several handlers work on the message at once and generate different texts.
THEOREM PipelineSameText == PipelineSpec => []SameText
BY PipelineInvAlways, PTL DEF PipelineInv, TextInv

-----------------------------------------------------------------------------
(* Exclusive processing.                                                   *)

\* The row of a message is held by the call that works on it, and its claim is
\* as old as that call; only a markSent whose answer was lost gets ahead of it.
ClaimHeld ==
  \A j \in Jobs : Working(j) =>
    \/ inbound[task[j]] = "processing" /\ claimAge[task[j]] = elapsed[j]
    \/ at[j] = "failBoth" /\ inbound[task[j]] = "sent"

ExclusiveInv == ClaimHeld /\ ExclusiveProcessing

\* With WorkMax <= StaleAfter every step keeps the claims exclusive.
LEMMA ExclusiveStep ==
  ASSUME WorkMax <= StaleAfter, QueueInv, PipelineInv, ExclusiveInv,
         [PipelineNext]_pipelineVars
  PROVE  ExclusiveInv'
<1> USE StaleAssumption, WorkAssumption DEF PipelineInv
<1>1. PipelineTypeOK'
  BY PipelineTypeStep
<1>2. CASE UNCHANGED pipelineVars
  <2>1. UNCHANGED <<at, task, inbound, claimAge, elapsed>>
    BY <1>2 DEF pipelineVars, queueVars, jobVars, storeVars, callVars
  <2> QED
    BY <2>1 DEF ExclusiveInv, ClaimHeld, ExclusiveProcessing, Working
<1>3. CASE Elsewhere
  <2>1. UNCHANGED <<at, inbound, claimAge, elapsed>>
    BY <1>3 DEF Elsewhere, storeVars, callVars
  <2>2. \A j \in Jobs : Working(j) => task'[j] = task[j]
    BY <1>3, ElsewhereKeepsCalls DEF Working, Owning, PipelineTypeOK
  <2> QED
    BY <2>1, <2>2 DEF ExclusiveInv, ClaimHeld, ExclusiveProcessing, Working
<1>4. CASE Tick
  <2>1. UNCHANGED <<at, task, inbound>>
    BY <1>4 DEF Tick, ClaimsAge, jobVars
  <2>2. ExclusiveProcessing'
    BY <2>1 DEF ExclusiveInv, ExclusiveProcessing, Working
  <2>3. ASSUME NEW j \in Jobs, Working(j), inbound[task[j]] = "processing",
               claimAge[task[j]] = elapsed[j]
        PROVE  claimAge'[task[j]] = elapsed'[j]
    <3>1. task[j] \in Messages
      <4>1. at[j] # "idle"
        BY <2>3 DEF Working, Owning
      <4> QED
        BY <4>1 DEF PipelineTypeOK, QueueTypeOK
    <3>2. elapsed[j] \in Nat /\ elapsed[j] < WorkMax
      BY <1>4, <2>3 DEF Tick, PipelineTypeOK
    <3>3. elapsed'[j] = elapsed[j] + 1
      BY <1>4, <2>3 DEF Tick
    <3>4. claimAge'[task[j]] = claimAge[task[j]] + 1
      BY <1>4, <2>3, <3>1, <3>2 DEF Tick, ClaimsAge
    <3> QED
      BY <2>3, <3>3, <3>4
  <2>4. ClaimHeld'
    BY <2>1, <2>3 DEF ExclusiveInv, ClaimHeld, Working
  <2> QED
    BY <2>2, <2>4 DEF ExclusiveInv
<1>5. ASSUME NEW j \in Jobs, NEW c \in Copies, Receive(j, c) PROVE ExclusiveInv'
  BY <1>5 DEF Receive, Deliver, ExclusiveInv, ClaimHeld, ExclusiveProcessing,
    Working, Owning, PipelineTypeOK, QueueTypeOK, storeVars
<1>6. ASSUME NEW w \in Workers, ProcessDies(w), CallsVanish(w) PROVE ExclusiveInv'
  BY <1>6 DEF ProcessDies, CallsVanish, ExclusiveInv, ClaimHeld,
    ExclusiveProcessing, Working, Owning, PipelineTypeOK, QueueTypeOK,
    storeVars
<1>7. ASSUME NEW j \in Jobs, HandleInbound(j) PROVE ExclusiveInv'
  <2>1. at[j] # "idle"
    BY <1>7 DEF HandleInbound, Persist, PersistFails, ClaimMessage,
      DropDuplicate, ClaimFails, Generate, GenerateFails, Record, RecordFails,
      LookUp, SkipSent, LookUpFails, Send, SendFails, RecordSent,
      RecordSentFails, RecordFailure, Proceed
  <2>2. \A i \in Jobs : at[i] # "idle" => task[i] \in Messages
    BY DEF PipelineTypeOK, QueueTypeOK
  <2>3. CASE Persist(j)
    BY <2>1, <2>2, <2>3 DEF Persist, Proceed, InsertInbound, ExclusiveInv,
      ClaimHeld, ExclusiveProcessing, Working, Owning, PipelineTypeOK,
      StoreTypeOK, storeVars, queueVars, jobVars, brokerVars
  <2>4. CASE PersistFails(j)
    BY <2>1, <2>2, <2>4 DEF PersistFails, InsertInbound, Throw,
      HandlerRejects, Returned, ExclusiveInv, ClaimHeld, ExclusiveProcessing,
      Working, Owning, PipelineTypeOK, StoreTypeOK, storeVars, queueVars,
      jobVars, brokerVars
  <2>5. CASE ClaimMessage(j)
    BY <2>1, <2>2, <2>5 DEF ClaimMessage, Proceed, Claim, Claimable,
      ExclusiveInv, ClaimHeld, ExclusiveProcessing, Working, Owning,
      PipelineTypeOK, StoreTypeOK, storeVars, queueVars, jobVars, brokerVars
  <2>6. CASE DropDuplicate(j)
    BY <2>1, <2>2, <2>6 DEF DropDuplicate, Return, HandlerResolves, Returned,
      Claimable, ExclusiveInv, ClaimHeld, ExclusiveProcessing, Working,
      Owning, PipelineTypeOK, StoreTypeOK, storeVars, queueVars, jobVars,
      brokerVars
  <2>7. CASE ClaimFails(j)
    <3>1. /\ task' = task /\ at' = [at EXCEPT ![j] = "idle"]
          /\ elapsed' = [elapsed EXCEPT ![j] = 0]
      BY <2>7 DEF ClaimFails, Throw, HandlerRejects, Returned
    <3>2. \/ UNCHANGED <<inbound, claimAge>>
          \/ /\ Claimable(task[j])
             /\ inbound' = [inbound EXCEPT ![task[j]] = "processing"]
             /\ claimAge' = [claimAge EXCEPT ![task[j]] = 0]
      BY <2>7 DEF ClaimFails, Claim, storeVars
    <3>3. \A i \in Jobs : Working(i)' => i # j /\ Working(i) /\ elapsed'[i] = elapsed[i]
      BY <3>1 DEF Working, Owning, PipelineTypeOK
    <3> QED
      BY <2>1, <2>2, <3>1, <3>2, <3>3 DEF Claimable, ExclusiveInv, ClaimHeld,
        ExclusiveProcessing, Working, Owning, PipelineTypeOK, StoreTypeOK
  <2>8. CASE Generate(j)
    BY <2>1, <2>2, <2>8 DEF Generate, Proceed, ExclusiveInv, ClaimHeld,
      ExclusiveProcessing, Working, Owning, PipelineTypeOK, StoreTypeOK,
      storeVars, queueVars, jobVars, brokerVars
  <2>9. CASE GenerateFails(j)
    BY <2>1, <2>2, <2>9 DEF GenerateFails, Proceed, ExclusiveInv, ClaimHeld,
      ExclusiveProcessing, Working, Owning, PipelineTypeOK, StoreTypeOK,
      storeVars, queueVars, jobVars, brokerVars
  <2>10. CASE Record(j)
    BY <2>1, <2>2, <2>10 DEF Record, Proceed, InsertReply, ExclusiveInv,
      ClaimHeld, ExclusiveProcessing, Working, Owning, PipelineTypeOK,
      StoreTypeOK, storeVars, queueVars, jobVars, brokerVars
  <2>11. CASE RecordFails(j)
    BY <2>1, <2>2, <2>11 DEF RecordFails, Proceed, InsertReply, ExclusiveInv,
      ClaimHeld, ExclusiveProcessing, Working, Owning, PipelineTypeOK,
      StoreTypeOK, storeVars, queueVars, jobVars, brokerVars
  <2>12. CASE LookUp(j)
    BY <2>1, <2>2, <2>12 DEF LookUp, Proceed, ExclusiveInv, ClaimHeld,
      ExclusiveProcessing, Working, Owning, PipelineTypeOK, StoreTypeOK,
      storeVars, queueVars, jobVars, brokerVars
  <2>13. CASE SkipSent(j)
    BY <2>1, <2>2, <2>13 DEF SkipSent, Return, HandlerResolves, Returned,
      ExclusiveInv, ClaimHeld, ExclusiveProcessing, Working, Owning,
      PipelineTypeOK, StoreTypeOK, storeVars, queueVars, jobVars, brokerVars
  <2>14. CASE LookUpFails(j)
    BY <2>1, <2>2, <2>14 DEF LookUpFails, Proceed, ExclusiveInv, ClaimHeld,
      ExclusiveProcessing, Working, Owning, PipelineTypeOK, StoreTypeOK,
      storeVars, queueVars, jobVars, brokerVars
  <2>15. CASE Send(j)
    BY <2>1, <2>2, <2>15 DEF Send, Proceed, CarrierAccepts, ExclusiveInv,
      ClaimHeld, ExclusiveProcessing, Working, Owning, PipelineTypeOK,
      StoreTypeOK, storeVars, queueVars, jobVars, brokerVars
  <2>16. CASE SendFails(j)
    BY <2>1, <2>2, <2>16 DEF SendFails, Proceed, CarrierAccepts, ExclusiveInv,
      ClaimHeld, ExclusiveProcessing, Working, Owning, PipelineTypeOK,
      StoreTypeOK, storeVars, queueVars, jobVars, brokerVars
  <2>17. CASE RecordSent(j)
    BY <2>1, <2>2, <2>17 DEF RecordSent, MarkSent, Return, HandlerResolves,
      Returned, ExclusiveInv, ClaimHeld, ExclusiveProcessing, Working, Owning,
      PipelineTypeOK, StoreTypeOK, storeVars, queueVars, jobVars, brokerVars
  <2>18. CASE RecordSentFails(j)
    BY <2>1, <2>2, <2>18 DEF RecordSentFails, Proceed, MarkSent, ExclusiveInv,
      ClaimHeld, ExclusiveProcessing, Working, Owning, PipelineTypeOK,
      StoreTypeOK, storeVars, queueVars, jobVars, brokerVars
  <2>19. CASE RecordFailure(j)
    <3>1. /\ task' = task /\ at' = [at EXCEPT ![j] = "idle"]
          /\ elapsed' = [elapsed EXCEPT ![j] = 0]
      BY <2>19 DEF RecordFailure, Throw, HandlerRejects, Returned
    <3>2. \A m \in Messages : m # task[j] => inbound'[m] = inbound[m] /\ claimAge'[m] = claimAge[m]
      BY <2>1, <2>2, <2>19 DEF RecordFailure, MarkFailed, storeVars, PipelineTypeOK, StoreTypeOK
    <3>3. \A i \in Jobs : Working(i)' => i # j /\ Working(i) /\ elapsed'[i] = elapsed[i]
      BY <3>1 DEF Working, Owning, PipelineTypeOK
    <3>4. Working(j)
      BY <2>19 DEF RecordFailure, Working, Owning
    <3>5. \A i \in Jobs : Working(i)' => task[i] # task[j] /\ task[i] \in Messages
      BY <2>2, <3>3, <3>4 DEF ExclusiveInv, ExclusiveProcessing, Working, Owning
    <3> QED
      BY <3>1, <3>2, <3>3, <3>5 DEF ExclusiveInv, ClaimHeld, ExclusiveProcessing
  <2> QED
    BY <1>7, <2>3, <2>4, <2>5, <2>6, <2>7, <2>8, <2>9, <2>10, <2>11, <2>12,
      <2>13, <2>14, <2>15, <2>16, <2>17, <2>18, <2>19 DEF HandleInbound
<1> QED
  BY <1>2, <1>3, <1>4, <1>5, <1>6, <1>7, ProcessAssumption
  DEF PipelineNext, WorkerExits, WorkerStops, Stop, AckOnDeadChannel

\* As long as no live handler outlives the stale-claim age, no two live calls
\* are past the claim of the same message, whatever fails or restarts.
THEOREM PipelineExclusive ==
  ASSUME WorkMax <= StaleAfter
  PROVE  PipelineSpec => []ExclusiveProcessing
<1>1. PipelineInit => ExclusiveInv
  BY DEF PipelineInit, ExclusiveInv, ClaimHeld, ExclusiveProcessing, Working, Owning
<1>2. QueueInv /\ PipelineInv /\ ExclusiveInv /\ [PipelineNext]_pipelineVars => ExclusiveInv'
  BY ExclusiveStep
<1>3. ExclusiveInv => ExclusiveProcessing
  BY DEF ExclusiveInv
<1> QED
  BY <1>1, <1>2, <1>3, PipelineQueueInv, PipelineInvAlways, PTL DEF PipelineSpec

-----------------------------------------------------------------------------
(* The two rows agree on "sent".                                           *)

SentInv ==
  /\ SentTogether
  /\ \A j \in Jobs : at[j] = "markSent" => sms[task[j]] # <<>>

\* While working calls hold their claims, every step keeps both rows agreeing on "sent".
LEMMA SentStep ==
  ASSUME QueueInv, PipelineInv, ClaimHeld, SentInv,
         [PipelineNext]_pipelineVars
  PROVE  SentInv'
<1> USE StaleAssumption, WorkAssumption DEF PipelineInv
<1>1. PipelineTypeOK'
  BY PipelineTypeStep
<1>2. CASE UNCHANGED pipelineVars
  BY <1>2 DEF SentInv, SentTogether, ClaimHeld, Working, pipelineVars,
    queueVars, jobVars, storeVars, callVars
<1>3. CASE Elsewhere
  <2>1. UNCHANGED <<inbound, reply, sms, at>>
    BY <1>3 DEF Elsewhere, storeVars, callVars
  <2>2. \A j \in Jobs : at[j] = "markSent" => task'[j] = task[j]
    BY <1>3, ElsewhereKeepsCalls DEF PipelineTypeOK
  <2> QED
    BY <2>1, <2>2 DEF SentInv, SentTogether
<1>4. CASE Tick
  BY <1>4 DEF Tick, ClaimsAge, SentInv, SentTogether, ClaimHeld, Working,
    PipelineTypeOK, StoreTypeOK, QueueTypeOK, Owning, jobVars
<1>5. ASSUME NEW j \in Jobs, NEW c \in Copies, Receive(j, c) PROVE SentInv'
  BY <1>5 DEF Receive, Deliver, SentInv, SentTogether, ClaimHeld, Working,
    Owning, PipelineTypeOK, QueueTypeOK, storeVars
<1>6. ASSUME NEW w \in Workers, ProcessDies(w), CallsVanish(w) PROVE SentInv'
  BY <1>6 DEF ProcessDies, CallsVanish, SentInv, SentTogether, ClaimHeld,
    Working, Owning, PipelineTypeOK, QueueTypeOK, storeVars
<1>7. ASSUME NEW j \in Jobs, HandleInbound(j) PROVE SentInv'
  <2>1. at[j] # "idle"
    BY <1>7 DEF HandleInbound, Persist, PersistFails, ClaimMessage,
      DropDuplicate, ClaimFails, Generate, GenerateFails, Record, RecordFails,
      LookUp, SkipSent, LookUpFails, Send, SendFails, RecordSent,
      RecordSentFails, RecordFailure, Proceed
  <2>2. \A i \in Jobs : at[i] # "idle" => task[i] \in Messages
    BY DEF PipelineTypeOK, QueueTypeOK
  <2>3. CASE Persist(j)
    BY <2>1, <2>2, <2>3 DEF Persist, Proceed, InsertInbound, SentInv,
      SentTogether, ClaimHeld, Working, Owning, PipelineTypeOK, StoreTypeOK,
      storeVars, queueVars, jobVars, brokerVars
  <2>4. CASE PersistFails(j)
    BY <2>1, <2>2, <2>4 DEF PersistFails, InsertInbound, Throw,
      HandlerRejects, Returned, SentInv, SentTogether, ClaimHeld, Working,
      Owning, PipelineTypeOK, StoreTypeOK, storeVars, queueVars, jobVars,
      brokerVars
  <2>5. CASE ClaimMessage(j)
    BY <2>1, <2>2, <2>5 DEF ClaimMessage, Proceed, Claim, Claimable, SentInv,
      SentTogether, ClaimHeld, Working, Owning, PipelineTypeOK, StoreTypeOK,
      storeVars, queueVars, jobVars, brokerVars
  <2>6. CASE DropDuplicate(j)
    BY <2>1, <2>2, <2>6 DEF DropDuplicate, Return, HandlerResolves, Returned,
      Claimable, SentInv, SentTogether, ClaimHeld, Working, Owning,
      PipelineTypeOK, StoreTypeOK, storeVars, queueVars, jobVars, brokerVars
  <2>7. CASE ClaimFails(j)
    BY <2>1, <2>2, <2>7 DEF ClaimFails, Claim, Claimable, Throw,
      HandlerRejects, Returned, SentInv, SentTogether, ClaimHeld, Working,
      Owning, PipelineTypeOK, StoreTypeOK, storeVars, queueVars, jobVars,
      brokerVars
  <2>8. CASE Generate(j)
    BY <2>1, <2>2, <2>8 DEF Generate, Proceed, SentInv, SentTogether,
      ClaimHeld, Working, Owning, PipelineTypeOK, StoreTypeOK, storeVars,
      queueVars, jobVars, brokerVars
  <2>9. CASE GenerateFails(j)
    BY <2>1, <2>2, <2>9 DEF GenerateFails, Proceed, SentInv, SentTogether,
      ClaimHeld, Working, Owning, PipelineTypeOK, StoreTypeOK, storeVars,
      queueVars, jobVars, brokerVars
  <2>10. CASE Record(j)
    BY <2>1, <2>2, <2>10 DEF Record, Proceed, InsertReply, SentInv,
      SentTogether, ClaimHeld, Working, Owning, PipelineTypeOK, StoreTypeOK,
      storeVars, queueVars, jobVars, brokerVars
  <2>11. CASE RecordFails(j)
    BY <2>1, <2>2, <2>11 DEF RecordFails, Proceed, InsertReply, SentInv,
      SentTogether, ClaimHeld, Working, Owning, PipelineTypeOK, StoreTypeOK,
      storeVars, queueVars, jobVars, brokerVars
  <2>12. CASE LookUp(j)
    BY <2>1, <2>2, <2>12 DEF LookUp, Proceed, SentInv, SentTogether,
      ClaimHeld, Working, Owning, PipelineTypeOK, StoreTypeOK, storeVars,
      queueVars, jobVars, brokerVars
  <2>13. CASE SkipSent(j)
    BY <2>1, <2>2, <2>13 DEF SkipSent, Return, HandlerResolves, Returned,
      SentInv, SentTogether, ClaimHeld, Working, Owning, PipelineTypeOK,
      StoreTypeOK, storeVars, queueVars, jobVars, brokerVars
  <2>14. CASE LookUpFails(j)
    BY <2>1, <2>2, <2>14 DEF LookUpFails, Proceed, SentInv, SentTogether,
      ClaimHeld, Working, Owning, PipelineTypeOK, StoreTypeOK, storeVars,
      queueVars, jobVars, brokerVars
  <2>15. CASE Send(j)
    <3>1. /\ task[j] \in Messages
          /\ sms[task[j]] \in Seq(Texts)
      BY <2>1, <2>2 DEF PipelineTypeOK
    <3>2. Append(sms[task[j]], text[j]) # <<>>
      BY <3>1
    <3>3. \A m \in Messages : sms[m] # <<>> => sms'[m] # <<>>
      BY <2>15, <3>1, <3>2 DEF Send, CarrierAccepts, PipelineTypeOK
    <3>4. sms'[task[j]] # <<>>
      BY <2>15, <3>1, <3>2 DEF Send, CarrierAccepts, PipelineTypeOK
    <3>5. /\ UNCHANGED <<inbound, reply, task>>
          /\ \A k \in Jobs : k # j => at'[k] = at[k]
      BY <2>15 DEF Send, Proceed, PipelineTypeOK, storeVars, queueVars, jobVars
    <3> QED
      BY <2>2, <3>3, <3>4, <3>5 DEF SentInv, SentTogether
  <2>16. CASE SendFails(j)
    BY <2>1, <2>2, <2>16 DEF SendFails, Proceed, CarrierAccepts, SentInv,
      SentTogether, ClaimHeld, Working, Owning, PipelineTypeOK, StoreTypeOK,
      storeVars, queueVars, jobVars, brokerVars
  <2>17. CASE RecordSent(j)
    BY <2>1, <2>2, <2>17 DEF RecordSent, MarkSent, Return, HandlerResolves,
      Returned, SentInv, SentTogether, ClaimHeld, Working, Owning,
      PipelineTypeOK, StoreTypeOK, storeVars, queueVars, jobVars, brokerVars
  <2>18. CASE RecordSentFails(j)
    BY <2>1, <2>2, <2>18 DEF RecordSentFails, Proceed, MarkSent, SentInv,
      SentTogether, ClaimHeld, Working, Owning, PipelineTypeOK, StoreTypeOK,
      storeVars, queueVars, jobVars, brokerVars
  <2>19. CASE RecordFailure(j)
    <3>1. /\ task[j] \in Messages
          /\ UNCHANGED <<task, sms>>
          /\ \A k \in Jobs : at'[k] = at[k] \/ at'[k] = "idle"
      BY <2>1, <2>2, <2>19 DEF RecordFailure, Throw, HandlerRejects, Returned,
        PipelineTypeOK
    <3>2. CASE at[j] = "failBoth" /\ MarkFailed(task[j], TRUE)
      BY <3>1, <3>2 DEF MarkFailed, SentInv, SentTogether, PipelineTypeOK, StoreTypeOK
    <3>3. CASE at[j] = "failInbound" /\ MarkFailed(task[j], FALSE)
      <4>1. reply[task[j]] # "sent"
        BY <3>1, <3>3 DEF ClaimHeld, Working, Owning, SentInv, SentTogether
      <4> QED
        BY <3>1, <3>3, <4>1 DEF MarkFailed, SentInv, SentTogether, PipelineTypeOK,
          StoreTypeOK
    <3>4. CASE UNCHANGED storeVars
      BY <3>1, <3>4 DEF SentInv, SentTogether, storeVars
    <3> QED
      BY <2>19, <3>2, <3>3, <3>4 DEF RecordFailure
  <2> QED
    BY <1>7, <2>3, <2>4, <2>5, <2>6, <2>7, <2>8, <2>9, <2>10, <2>11, <2>12,
      <2>13, <2>14, <2>15, <2>16, <2>17, <2>18, <2>19 DEF HandleInbound
<1> QED
  BY <1>2, <1>3, <1>4, <1>5, <1>6, <1>7, ProcessAssumption
  DEF PipelineNext, WorkerExits, WorkerStops, Stop, AckOnDeadChannel

\* Under the same assumption the inbound row and its reply are sent together or
\* not at all, and only after the carrier has accepted an SMS.
THEOREM PipelineSentTogether ==
  ASSUME WorkMax <= StaleAfter
  PROVE  PipelineSpec => []SentTogether
<1>1. PipelineInit => ExclusiveInv /\ SentInv
  BY DEF PipelineInit, StoreInit, ExclusiveInv, ClaimHeld, ExclusiveProcessing, Working,
    Owning, SentInv, SentTogether
<1>2. QueueInv /\ PipelineInv /\ ExclusiveInv /\ [PipelineNext]_pipelineVars => ExclusiveInv'
  BY ExclusiveStep
<1>3. QueueInv /\ PipelineInv /\ ExclusiveInv /\ SentInv /\ [PipelineNext]_pipelineVars => SentInv'
  BY SentStep DEF ExclusiveInv
<1>4. SentInv => SentTogether
  BY DEF SentInv
<1> QED
  BY <1>1, <1>2, <1>3, <1>4, PipelineQueueInv, PipelineInvAlways, PTL DEF PipelineSpec
=============================================================================
