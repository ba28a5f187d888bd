------------------------- MODULE PipelineFaultProofs -------------------------
(***************************************************************************)
(* Theorems about Pipeline under assumptions on which faults occur: what a  *)
(* lost channel or a stopped process costs when the database does not fail, *)
(* and what is dropped when processes and channels last.                   *)
(***************************************************************************)
EXTENDS PipelineProofs

-----------------------------------------------------------------------------
(* A handler's step while the database does not fail.                      *)

\* What a step of job j's handler does to its own message's rows and SMSs.
Effect(j, m) ==
  \/ /\ at[j] \in {"persist", "claim"} /\ at'[j] \in {"claim", "idle"}
     /\ inbound'[m] = inbound[m] \/ inbound[m] = "absent"
     /\ reply'[m] = reply[m] /\ sms'[m] = sms[m]
  \/ /\ at[j] = "claim" /\ at'[j] = "generate"
     /\ Claimable(m) /\ inbound'[m] = "processing"
     /\ reply'[m] = reply[m] /\ sms'[m] = sms[m]
  \/ /\ at[j] \in {"generate", "record", "lookup"}
     /\ at'[j] \in {"record", "lookup", "send", "failInbound"}
     /\ reply'[m] = reply[m] \/ reply[m] = "absent"
     /\ inbound'[m] = inbound[m] /\ sms'[m] = sms[m]
  \/ /\ at[j] = "lookup" /\ at'[j] = "idle" /\ reply[m] = "sent"
     /\ inbound'[m] = inbound[m] /\ reply'[m] = reply[m] /\ sms'[m] = sms[m]
  \/ /\ at[j] = "send" /\ at'[j] = "markSent" /\ Len(sms'[m]) = Len(sms[m]) + 1
     /\ inbound'[m] = inbound[m] /\ reply'[m] = reply[m]
  \/ /\ at[j] = "send" /\ at'[j] = "failBoth"
     /\ inbound'[m] = inbound[m] /\ reply'[m] = reply[m]
     /\ sms'[m] = sms[m] \/ May("unanswered")
  \/ /\ at[j] = "markSent" /\ at'[j] = "idle"
     /\ inbound'[m] = "sent" /\ reply'[m] = "sent" /\ sms'[m] = sms[m]
  \/ /\ at[j] \in {"failInbound", "failBoth"} /\ at'[j] = "idle"
     /\ inbound'[m] = "failed" /\ sms'[m] = sms[m]
     /\ reply'[m] = reply[m] \/ (at[j] = "failBoth" /\ reply'[m] = "failed")

\* A handler's step concerns its own call and its own message only.
LEMMA HandlerStep ==
  ASSUME "db" \notin Faults, QueueInv, PipelineInv, NEW j \in Jobs, HandleInbound(j)
  PROVE  /\ task[j] \in Messages
         /\ task' = task /\ faults' = faults
         /\ \A k \in Jobs : k # j => at'[k] = at[k]
         /\ \A m \in Messages : m # task[j] =>
              inbound'[m] = inbound[m] /\ reply'[m] = reply[m] /\ sms'[m] = sms[m]
         /\ Effect(j, task[j])
<1> USE DEF PipelineInv
<1>1. at[j] # "idle"
  BY DEF HandleInbound, Persist, PersistFails, ClaimMessage,
    DropDuplicate, ClaimFails, Generate, GenerateFails, Record, RecordFails,
    LookUp, SkipSent, LookUpFails, Send, SendFails, RecordSent,
    RecordSentFails, RecordFailure, Proceed
<1>2. task[j] \in Messages
  BY <1>1 DEF PipelineTypeOK, QueueTypeOK
<1>3. /\ task' = task /\ faults' = faults
      /\ \A k \in Jobs : k # j => at'[k] = at[k]
  BY DEF HandleInbound, Persist, PersistFails, ClaimMessage,
    DropDuplicate, ClaimFails, Generate, GenerateFails, Record, RecordFails,
    LookUp, SkipSent, LookUpFails, Send, SendFails, RecordSent,
    RecordSentFails, RecordFailure, Proceed, Return, Throw, Returned,
    HandlerResolves, HandlerRejects, PipelineTypeOK, queueVars, jobVars, historyVars
<1>4. \A m \in Messages : m # task[j] =>
        inbound'[m] = inbound[m] /\ reply'[m] = reply[m] /\ sms'[m] = sms[m]
  BY <1>2 DEF HandleInbound, Persist, PersistFails, ClaimMessage,
    DropDuplicate, ClaimFails, Generate, GenerateFails, Record, RecordFails,
    LookUp, SkipSent, LookUpFails, Send, SendFails, RecordSent,
    RecordSentFails, RecordFailure, InsertInbound, Claim, InsertReply, MarkSent,
    MarkFailed, CarrierAccepts, storeVars, PipelineTypeOK, StoreTypeOK
<1> SUFFICES Effect(j, task[j])
  BY <1>2, <1>3, <1>4
<1>5. CASE Persist(j)
  BY <1>2, <1>5 DEF Persist, Proceed, InsertInbound, Effect, PipelineTypeOK, StoreTypeOK
<1>6. CASE ClaimMessage(j)
  BY <1>2, <1>6 DEF ClaimMessage, Proceed, Claim, Effect, PipelineTypeOK, StoreTypeOK
<1>7. CASE DropDuplicate(j)
  BY <1>2, <1>7 DEF DropDuplicate, Return, Returned, Effect, PipelineTypeOK, storeVars
<1>8. CASE Generate(j) \/ GenerateFails(j) \/ LookUp(j)
  BY <1>2, <1>8 DEF Generate, GenerateFails, LookUp, Proceed, Effect, PipelineTypeOK,
    storeVars
<1>9. CASE Record(j)
  BY <1>2, <1>9 DEF Record, Proceed, InsertReply, Effect, PipelineTypeOK, StoreTypeOK
<1>10. CASE SkipSent(j)
  BY <1>2, <1>10 DEF SkipSent, Return, Returned, Effect, PipelineTypeOK, storeVars
<1>11. CASE Send(j)
  <2>1. sms[task[j]] \in Seq(Texts) /\ sms'[task[j]] = Append(sms[task[j]], text[j])
    BY <1>2, <1>11 DEF Send, CarrierAccepts, PipelineTypeOK
  <2>2. Len(sms'[task[j]]) = Len(sms[task[j]]) + 1
    BY <2>1
  <2> QED
    BY <1>2, <1>11, <2>2, <1>3, <1>4 DEF Send, Proceed, Effect, PipelineTypeOK, storeVars
<1>12. CASE SendFails(j)
  BY <1>2, <1>12 DEF SendFails, Proceed, Effect, PipelineTypeOK, storeVars
<1>13. CASE RecordSent(j)
  BY <1>2, <1>13 DEF RecordSent, MarkSent, Return, Returned, Effect, PipelineTypeOK,
    StoreTypeOK
<1>14. CASE RecordFailure(j)
  BY <1>2, <1>14 DEF RecordFailure, MarkFailed, Throw, Returned, Effect, May,
    PipelineTypeOK, StoreTypeOK
<1> QED
  BY <1>5, <1>6, <1>7, <1>8, <1>9, <1>10, <1>11, <1>12, <1>13, <1>14
  DEF HandleInbound, PersistFails, ClaimFails, GenerateFails, RecordFails, LookUpFails,
    RecordSentFails, May

-----------------------------------------------------------------------------
(* Sent is final, and what a second SMS costs, while the database does not  *)
(* fail.                                                                   *)

\* Every working call's row is "processing": nobody else has moved it.
RowsHeld == \A j \in Jobs : Working(j) => inbound[task[j]] = "processing"

\* What keeps its place in a step that is not a handler's: the rows and the SMSs,
\* and the calls, unless their process dies.
LEMMA OtherStep ==
  ASSUME QueueInv, PipelineInv, [PipelineNext]_pipelineVars,
         \A j \in Jobs : ~HandleInbound(j)
  PROVE  /\ UNCHANGED <<inbound, reply, sms>>
         /\ \A j \in Jobs : at'[j] \in {at[j], "idle", "persist"}
         /\ \A j \in Jobs : Working(j) /\ at'[j] = at[j] => task'[j] = task[j]
<1> USE DEF PipelineInv
<1> DEFINE Untouched == /\ UNCHANGED <<inbound, reply, sms>>
                        /\ \A j \in Jobs : at'[j] \in {at[j], "idle", "persist"}
                        /\ \A j \in Jobs : Working(j) /\ at'[j] = at[j] => task'[j] = task[j]
<1>1. \A j \in Jobs : Working(j) => stage[j] = "handling"
  BY DEF Working, Owning, PipelineTypeOK
<1>2. CASE UNCHANGED pipelineVars
  BY <1>2 DEF pipelineVars, queueVars, jobVars, storeVars, callVars
<1>3. CASE Elsewhere
  BY <1>1, <1>3, ElsewhereKeepsCalls DEF Elsewhere, storeVars, callVars, PipelineTypeOK
<1>4. CASE Tick
  BY <1>4 DEF Tick, ClaimsAge, jobVars
<1>5. ASSUME NEW i \in Jobs, NEW c \in Copies, Receive(i, c) PROVE Untouched
  BY <1>1, <1>5 DEF Receive, Deliver, PipelineTypeOK, QueueTypeOK, storeVars
<1>6. ASSUME NEW w \in Workers, ProcessDies(w), CallsVanish(w) PROVE Untouched
  BY <1>6 DEF ProcessDies, CallsVanish, Working, Owning, storeVars
<1> QED
  BY <1>2, <1>3, <1>4, <1>5, <1>6, ProcessAssumption
  DEF PipelineNext, WorkerExits, WorkerStops, Stop, AckOnDeadChannel

\* Without database errors a call reaches "failBoth" only from "send", its row
\* untouched.
LEMMA RowsHeldStep ==
  ASSUME "db" \notin Faults, QueueInv, PipelineInv, ExclusiveProcessing, RowsHeld,
         [PipelineNext]_pipelineVars
  PROVE  RowsHeld'
<1>1. CASE \A j \in Jobs : ~HandleInbound(j)
  BY <1>1, OtherStep DEF RowsHeld, Working, Owning
<1>2. ASSUME NEW j \in Jobs, HandleInbound(j) PROVE RowsHeld'
  <2>1. /\ task[j] \in Messages
        /\ task' = task
        /\ \A k \in Jobs : k # j => at'[k] = at[k]
        /\ \A m \in Messages : m # task[j] => inbound'[m] = inbound[m]
        /\ Effect(j, task[j])
    BY <1>2, HandlerStep
  <2>2. \A k \in Jobs : Working(k) => task[k] \in Messages
    BY DEF PipelineInv, PipelineTypeOK, QueueTypeOK, Working, Owning
  <2>3. Working(j)' => inbound'[task[j]] = "processing"
    BY <2>1 DEF Effect, RowsHeld, Working, Owning
  <2>4. ASSUME NEW k \in Jobs, k # j, Working(k)
        PROVE  inbound'[task[k]] = "processing"
    <3>1. CASE task[k] # task[j]
      BY <2>1, <2>2, <2>4, <3>1 DEF RowsHeld
    <3>2. CASE task[k] = task[j]
      <4>1. inbound[task[j]] = "processing" /\ ~Working(j)
        BY <2>4, <3>2 DEF RowsHeld, ExclusiveProcessing
      <4> QED
        BY <2>1, <3>2, <4>1 DEF Effect, Working, Owning
    <3> QED
      BY <3>1, <3>2
  <2> QED
    BY <2>1, <2>3, <2>4 DEF RowsHeld, Working
<1> QED
  BY <1>1, <1>2

\* A step that keeps the rows held takes no row away from "sent".
LEMMA SentStays ==
  ASSUME "db" \notin Faults, QueueInv, PipelineInv, RowsHeld,
         [PipelineNext]_pipelineVars, NEW m \in Messages, inbound[m] = "sent"
  PROVE  inbound'[m] = "sent"
<1>1. CASE \A j \in Jobs : ~HandleInbound(j)
  BY <1>1, OtherStep
<1>2. ASSUME NEW j \in Jobs, HandleInbound(j) PROVE inbound'[m] = "sent"
  <2>1. CASE task[j] # m
    BY <1>2, <2>1, HandlerStep
  <2>2. CASE task[j] = m
    BY <1>2, <2>2, HandlerStep DEF Effect, RowsHeld, Working, Owning, Claimable
  <2> QED
    BY <2>1, <2>2
<1> QED
  BY <1>1, <1>2

\* If no live handler outlives the stale-claim age and the database does not fail,
\* a row marked sent stays sent: neither an overtaken claim nor the unconditional
\* markFailed of another attempt moves it.
THEOREM PipelineSentIsFinal ==
  ASSUME WorkMax <= StaleAfter, "db" \notin Faults
  PROVE  PipelineSpec => SentIsFinal
<1>1. PipelineInit => ExclusiveInv /\ RowsHeld
  BY DEF PipelineInit, ExclusiveInv, ClaimHeld, ExclusiveProcessing, RowsHeld, Working,
    Owning
<1>2. QueueInv /\ PipelineInv /\ ExclusiveInv /\ [PipelineNext]_pipelineVars => ExclusiveInv'
  BY ExclusiveStep
<1>3. QueueInv /\ PipelineInv /\ ExclusiveInv /\ RowsHeld /\ [PipelineNext]_pipelineVars
        => RowsHeld'
  BY RowsHeldStep DEF ExclusiveInv
<1>4. QueueInv /\ PipelineInv /\ RowsHeld /\ [PipelineNext]_pipelineVars
        => [\A m \in Messages : inbound[m] = "sent" => inbound'[m] = "sent"]_pipelineVars
  BY SentStays
<1> QED
  BY <1>1, <1>2, <1>3, <1>4, PipelineQueueInv, PipelineInvAlways, PTL
  DEF PipelineSpec, SentIsFinal

-----------------------------------------------------------------------------
(* One SMS, and one more per fault.                                        *)

\* The latest SMS to m is known to the database, or about to be.
Accounted(m) ==
  reply[m] = "sent" \/ \E j \in Jobs : at[j] = "markSent" /\ task[j] = m

\* At most n SMSs of a message were forgotten before the database knew of them.
SmsWithin(n) ==
  \A m \in Messages :
    /\ Len(sms[m]) <= n + 1
    /\ ~Accounted(m) => Len(sms[m]) <= n

\* Processes with a handler that has outlived its channel: its ack will end them,
\* and every other handler of theirs.
Doomed ==
  {w \in Workers : \E j \in Jobs : ProcessOf[j] = w /\ stage[j] # "idle" /\ holds[j] = None}

\* A lost channel dooms one process, and pays for one death of it.
SmsCounted ==
  /\ IsFiniteSet(Doomed)
  /\ Cardinality(Doomed) <= faults
  /\ SmsWithin(faults - Cardinality(Doomed))

\* No working call is ended early.
Spared == \A j \in Jobs : Working(j) => at'[j] = at[j]

\* Every step keeps the account: a send finds it even, because the call that sends
\* is the only one at work and the reply is not yet marked sent; a working call that
\* is ended early leaves one SMS more to forget.
LEMMA SmsWithinStep ==
  ASSUME "db" \notin Faults, "unanswered" \notin Faults,
         QueueInv, PipelineInv, ExclusiveProcessing, RowsHeld, SentTogether,
         [PipelineNext]_pipelineVars,
         NEW k \in Nat, NEW n \in Nat, k <= n, SmsWithin(k),
         (\A j \in Jobs : ~HandleInbound(j)) => Spared \/ k < n
  PROVE  SmsWithin(n)'
<1>1. \A m \in Messages : Len(sms[m]) \in Nat
  <2>1. \A m \in Messages : sms[m] \in Seq(Texts)
    BY DEF PipelineInv, PipelineTypeOK
  <2> QED
    BY <2>1
<1>2. CASE \A j \in Jobs : ~HandleInbound(j)
  <2>1. /\ UNCHANGED <<reply, sms>>
        /\ \A j \in Jobs : Working(j) /\ at'[j] = at[j] => task'[j] = task[j]
    BY <1>2, OtherStep
  <2>2. CASE Spared
    <3>1. \A m \in Messages : Accounted(m) => Accounted(m)'
      BY <2>1, <2>2 DEF Spared, Accounted, Working, Owning
    <3> QED
      BY <1>1, <2>1, <3>1 DEF SmsWithin
  <2>3. CASE k < n
    BY <1>1, <2>1, <2>3 DEF SmsWithin
  <2> QED
    BY <1>2, <2>2, <2>3
<1>3. ASSUME NEW j \in Jobs, HandleInbound(j) PROVE SmsWithin(n)'
  <2>1. /\ task[j] \in Messages
        /\ task' = task
        /\ \A i \in Jobs : i # j => at'[i] = at[i]
        /\ \A m \in Messages : m # task[j] => reply'[m] = reply[m] /\ sms'[m] = sms[m]
        /\ Effect(j, task[j])
    BY <1>3, HandlerStep
  <2>2. ASSUME NEW m \in Messages, m # task[j]
        PROVE  /\ Len(sms'[m]) <= n + 1
               /\ ~Accounted(m)' => Len(sms'[m]) <= n
    <3>1. Accounted(m) => Accounted(m)'
      BY <2>1, <2>2 DEF Accounted
    <3> QED
      BY <1>1, <2>1, <2>2, <3>1 DEF SmsWithin
  <2> DEFINE m == task[j]
  <2>3. Working(j) => reply[m] # "sent"
    BY <2>1 DEF RowsHeld, SentTogether
  <2>4. reply[m] = "sent" => reply'[m] = "sent"
    BY <2>1, <2>3 DEF Effect, Working, Owning
  <2>5. Accounted(m) => Accounted(m)'
    BY <2>1, <2>4 DEF Accounted, Effect
  <2>6. CASE at[j] = "send" /\ at'[j] = "markSent"
    <3>1. ~Accounted(m)
      BY <2>3, <2>6 DEF Accounted, Working, Owning, ExclusiveProcessing
    <3>2. Len(sms'[m]) = Len(sms[m]) + 1 /\ Accounted(m)'
      BY <2>1, <2>6 DEF Effect, Accounted
    <3> QED
      BY <1>1, <2>1, <2>2, <3>1, <3>2 DEF SmsWithin
  <2>7. CASE ~(at[j] = "send" /\ at'[j] = "markSent")
    <3>1. sms'[m] = sms[m]
      BY <2>1, <2>7 DEF Effect, May
    <3> QED
      BY <1>1, <2>1, <2>2, <2>5, <3>1 DEF SmsWithin
  <2> QED
    BY <2>6, <2>7
<1> QED
  BY <1>2, <1>3

\* A job that has no delivery, and had one or was idle before: its process is doomed
\* by this step.  With no such job, no process is.
LEMMA DoomedShrinks ==
  ASSUME \A j \in Jobs : stage'[j] # "idle" /\ holds'[j] = None
                           => stage[j] # "idle" /\ holds[j] = None
  PROVE  Doomed' \subseteq Doomed
BY DEF Doomed

\* What a step does to the doomed processes, to the faults and to the calls at work:
\* a lost channel dooms one more and ends no call; a process is ended by its own doom
\* or by a fault.
LEMMA DoomedStep ==
  ASSUME QueueInv, PipelineInv, [PipelineNext]_pipelineVars
  PROVE  \/ /\ Doomed' \subseteq Doomed /\ faults' = faults
            /\ (\A j \in Jobs : ~HandleInbound(j)) => Spared
         \/ /\ \E w \in Workers : Doomed' \subseteq Doomed \cup {w}
            /\ faults' = faults + 1 /\ Spared
         \/ Doomed' \subseteq Doomed /\ faults' = faults + 1
         \/ \E w \in Doomed : Doomed' \subseteq Doomed \ {w} /\ faults' = faults
<1> USE NoneAssumption DEF PipelineInv, Spared, QueueInv
<1>1. \A j \in Jobs : Working(j) => stage[j] = "handling"
  BY DEF Working, Owning, PipelineTypeOK
<1>2. CASE UNCHANGED pipelineVars
  BY <1>2 DEF pipelineVars, queueVars, jobVars, historyVars, callVars, Doomed
<1>3. CASE Tick
  BY <1>3 DEF Tick, jobVars, historyVars, Doomed
<1>4. ASSUME NEW i \in Jobs, NEW c \in Copies, Receive(i, c)
      PROVE  Doomed' \subseteq Doomed /\ faults' = faults /\ Spared
  <2>1. c # None /\ faults' = faults /\ Spared
    BY <1>1, <1>4 DEF Receive, Deliver, PipelineTypeOK, historyVars
  <2>2. \A j \in Jobs : stage'[j] # "idle" /\ holds'[j] = None
                          => stage[j] # "idle" /\ holds[j] = None
    BY <1>4, <2>1 DEF Receive, Deliver, QueueTypeOK
  <2> QED
    BY <2>1, <2>2, DoomedShrinks
<1>5. ASSUME NEW i \in Jobs, HandleInbound(i)
      PROVE  Doomed' \subseteq Doomed /\ faults' = faults
  <2>1. /\ holds' = holds /\ faults' = faults
        /\ \A j \in Jobs : stage'[j] # "idle" => stage[j] # "idle"
    BY <1>5 DEF HandleInbound, Persist, PersistFails, ClaimMessage,
      DropDuplicate, ClaimFails, Generate, GenerateFails, Record, RecordFails,
      LookUp, SkipSent, LookUpFails, Send, SendFails, RecordSent,
      RecordSentFails, RecordFailure, Proceed, Return, Throw, Returned,
      HandlerResolves, HandlerRejects, QueueTypeOK, queueVars, jobVars, historyVars
  <2> QED
    BY <2>1, DoomedShrinks
<1>6. ASSUME NEW i \in Jobs, DispatchEnds(i) \/ RepublishNacked(i)
      PROVE  Doomed' \subseteq Doomed
  <2>1. \A j \in Jobs : stage'[j] # "idle" /\ holds'[j] = None
                          => stage[j] # "idle" /\ holds[j] = None
    BY <1>6 DEF DispatchEnds, RepublishNacked, Ack, Republish, Park, AckOriginal, Abandon,
      AckSent, Finished, QueueTypeOK
  <2> QED
    BY <2>1, DoomedShrinks
<1>7. ASSUME NEW w \in Workers, LoseChannel(w)
      PROVE  Doomed' \subseteq Doomed \cup {w} /\ faults' = faults + 1
  BY <1>7 DEF LoseChannel, Fault, Doomed, QueueTypeOK
<1>8. CASE Elsewhere
  <2>1. Spared
    BY <1>8 DEF Elsewhere, callVars
  <2>2. ASSUME NEW i \in Jobs, DispatchEnds(i) \/ RepublishNacked(i)
        PROVE  faults' = faults \/ faults' = faults + 1
    BY <2>2 DEF DispatchEnds, RepublishNacked, Ack, Republish, Park, AckOriginal, Abandon,
      Fault, historyVars
  <2>3. CASE BrokerStep /\ ~\E w \in Workers : LoseChannel(w)
    <3>1. UNCHANGED <<stage, holds, faults>>
      BY <2>3 DEF BrokerStep, PostAccepted, PostUnconfirmed, PostRejected, Settle, Expire,
        Reconnect, jobVars, historyVars
    <3> QED
      BY <2>1, <3>1 DEF Doomed
  <2> QED
    BY <1>6, <1>7, <1>8, <2>1, <2>2, <2>3 DEF Elsewhere
<1>9. ASSUME NEW i \in Jobs, WorkerExits(i)
      PROVE  \E w \in Doomed : Doomed' \subseteq Doomed \ {w} /\ faults' = faults
  <2>1. ProcessOf[i] \in Doomed
    BY <1>9, ProcessAssumption DEF WorkerExits, AckOnDeadChannel, Doomed
  <2>2. Doomed' \subseteq Doomed \ {ProcessOf[i]} /\ faults' = faults
    BY <1>9 DEF WorkerExits, AckOnDeadChannel, ProcessDies, Doomed, historyVars
  <2> QED
    BY <2>1, <2>2
<1>10. ASSUME NEW w \in Workers, WorkerStops(w)
       PROVE  Doomed' \subseteq Doomed /\ faults' = faults + 1
  BY <1>10 DEF WorkerStops, Stop, Fault, ProcessDies, Doomed
<1> QED
  BY <1>2, <1>3, <1>4, <1>5, <1>8, <1>9, <1>10 DEF PipelineNext, Tick, callVars

\* So each death is paid for: by its own fault, or by the channel lost before it.
LEMMA SmsCountedStep ==
  ASSUME "db" \notin Faults, "unanswered" \notin Faults,
         QueueInv, PipelineInv, ExclusiveProcessing, RowsHeld, SentTogether, SmsCounted,
         [PipelineNext]_pipelineVars
  PROVE  SmsCounted'
<1> DEFINE slack == faults - Cardinality(Doomed)
<1>1. faults \in Nat /\ IsFiniteSet(Doomed) /\ Cardinality(Doomed) \in Nat /\ slack \in Nat
  BY CountAssumption, FS_CardinalityType DEF SmsCounted, QueueInv, QueueTypeOK
<1>2. ASSUME Doomed' \subseteq Doomed
      PROVE  /\ IsFiniteSet(Doomed') /\ Cardinality(Doomed') \in Nat
             /\ Cardinality(Doomed') <= Cardinality(Doomed)
  BY <1>1, <1>2, FS_Subset, FS_CardinalityType
<1>3. ASSUME NEW w, Doomed' \subseteq Doomed \cup {w}
      PROVE  /\ IsFiniteSet(Doomed') /\ Cardinality(Doomed') \in Nat
             /\ Cardinality(Doomed') <= Cardinality(Doomed) + 1
  <2>1. /\ IsFiniteSet(Doomed \cup {w}) /\ Cardinality(Doomed \cup {w}) \in Nat
        /\ Cardinality(Doomed \cup {w}) <= Cardinality(Doomed) + 1
    <3>1. /\ IsFiniteSet(Doomed \cup {w})
          /\ Cardinality(Doomed \cup {w})
               = IF w \in Doomed THEN Cardinality(Doomed) ELSE Cardinality(Doomed) + 1
      BY <1>1, FS_AddElement
    <3> QED
      BY <1>1, <3>1
  <2>2. /\ IsFiniteSet(Doomed') /\ Cardinality(Doomed') \in Nat
        /\ Cardinality(Doomed') <= Cardinality(Doomed \cup {w})
    BY <1>3, <2>1, FS_Subset, FS_CardinalityType
  <2> QED
    BY <1>1, <2>1, <2>2
<1>4. ASSUME NEW w \in Doomed, Doomed' \subseteq Doomed \ {w}
      PROVE  /\ IsFiniteSet(Doomed') /\ Cardinality(Doomed') \in Nat
             /\ Cardinality(Doomed') <= Cardinality(Doomed) - 1
  <2>1. /\ IsFiniteSet(Doomed \ {w}) /\ Cardinality(Doomed \ {w}) \in Nat
        /\ Cardinality(Doomed \ {w}) = Cardinality(Doomed) - 1
    BY <1>1, FS_RemoveElement, FS_CardinalityType
  <2>2. /\ IsFiniteSet(Doomed') /\ Cardinality(Doomed') \in Nat
        /\ Cardinality(Doomed') <= Cardinality(Doomed \ {w})
    BY <1>4, <2>1, FS_Subset, FS_CardinalityType
  <2> QED
    BY <1>1, <2>1, <2>2
<1>5. /\ IsFiniteSet(Doomed') /\ Cardinality(Doomed') \in Nat /\ faults' \in Nat
      /\ slack' \in Nat /\ slack <= slack'
      /\ (\A j \in Jobs : ~HandleInbound(j)) => Spared \/ slack < slack'
  BY <1>1, <1>2, <1>3, <1>4, DoomedStep DEF SmsCounted
<1>6. PICK k \in Nat : k = slack
  BY <1>1
<1>7. PICK n \in Nat : n = slack'
  BY <1>5
<1>8. SmsWithin(k)
  BY <1>6 DEF SmsCounted
<1>9. SmsWithin(n)'
  BY <1>5, <1>6, <1>7, <1>8, SmsWithinStep
<1>10. SmsWithin(faults - Cardinality(Doomed))'
  BY <1>7, <1>9 DEF SmsWithin
<1> QED
  BY <1>5, <1>10 DEF SmsCounted

\* With claims that no live handler outlives, each lost channel and each stopped
\* process costs at most one more SMS per message, however many handlers a process
\* runs; duplicates, retries, failing generators and refusing carriers cost none.
THEOREM PipelineOneSmsPerFault ==
  ASSUME WorkMax <= StaleAfter, "db" \notin Faults, "unanswered" \notin Faults
  PROVE  PipelineSpec => []OneSmsPerFault
<1>1. PipelineInit => ExclusiveInv /\ RowsHeld /\ SentInv /\ SmsCounted
  <2>1. PipelineInit => ExclusiveInv /\ RowsHeld /\ SentInv
    BY DEF PipelineInit, QueueInit, StoreInit, ExclusiveInv, ClaimHeld, ExclusiveProcessing,
      RowsHeld, Working, Owning, SentInv, SentTogether
  <2>2. ASSUME PipelineInit PROVE SmsCounted
    <3>1. Doomed = {} /\ faults = 0 /\ \A m \in Messages : Len(sms[m]) = 0
      BY <2>2 DEF PipelineInit, QueueInit, Doomed
    <3>2. Cardinality(Doomed) = 0 /\ IsFiniteSet(Doomed)
      BY <3>1, FS_EmptySet
    <3>3. faults - Cardinality(Doomed) = 0
      BY <3>1, <3>2
    <3> QED
      BY <3>1, <3>2, <3>3 DEF SmsCounted, SmsWithin
  <2> QED
    BY <2>1, <2>2
<1>2. QueueInv /\ PipelineInv /\ ExclusiveInv /\ [PipelineNext]_pipelineVars => ExclusiveInv'
  BY ExclusiveStep
<1>3. QueueInv /\ PipelineInv /\ ExclusiveInv /\ RowsHeld /\ [PipelineNext]_pipelineVars
        => RowsHeld'
  BY RowsHeldStep DEF ExclusiveInv
<1>4. QueueInv /\ PipelineInv /\ ExclusiveInv /\ SentInv /\ [PipelineNext]_pipelineVars => SentInv'
  BY SentStep DEF ExclusiveInv
<1>5. QueueInv /\ PipelineInv /\ ExclusiveInv /\ RowsHeld /\ SentInv /\ SmsCounted
        /\ [PipelineNext]_pipelineVars => SmsCounted'
  BY SmsCountedStep DEF ExclusiveInv, SentInv
<1>6. PipelineInv /\ SmsCounted => OneSmsPerFault
  <2> SUFFICES ASSUME PipelineInv, SmsCounted, NEW m \in Messages
               PROVE  Len(sms[m]) <= 1 + faults
    BY DEF OneSmsPerFault
  <2>1. faults \in Nat /\ sms[m] \in Seq(Texts) /\ Cardinality(Doomed) \in Nat
    BY CountAssumption, FS_CardinalityType DEF SmsCounted, PipelineInv, PipelineTypeOK,
      QueueTypeOK
  <2>2. Len(sms[m]) \in Nat /\ Len(sms[m]) <= faults - Cardinality(Doomed) + 1
    BY <2>1 DEF SmsCounted, SmsWithin
  <2> QED
    BY <2>1, <2>2
<1> QED
  BY <1>1, <1>2, <1>3, <1>4, <1>5, <1>6, PipelineQueueInv, PipelineInvAlways, PTL
  DEF PipelineSpec

-----------------------------------------------------------------------------
(* One SMS, while no process ends under a call at work.                    *)

OneHandlerPerProcess == \A i, j \in Jobs : ProcessOf[i] = ProcessOf[j] => i = j

\* A dispatch() under way can ack its delivery.
Held == \A j \in Jobs : stage[j] # "idle" => holds[j] # None

\* Without a lost channel no step of the queue takes a running job its delivery.
LEMMA HeldStep ==
  ASSUME "channel" \notin Faults, QueueInv, Held, [QueueNext]_queueVars
  PROVE  Held'
<1> USE NoneAssumption DEF QueueInv
<1>1. CASE UNCHANGED queueVars
  BY <1>1 DEF queueVars, jobVars, Held
<1>2. CASE BrokerStep \/ QueueTick
  BY <1>2 DEF BrokerStep, QueueTick, PostAccepted, PostUnconfirmed, PostRejected, Settle,
    Expire, LoseChannel, Reconnect, Fault, jobVars, Held
<1>3. ASSUME NEW j \in Jobs, NEW c \in Copies, Deliver(j, c) PROVE Held'
  BY <1>3 DEF Deliver, Held, QueueTypeOK
<1>4. ASSUME NEW j \in Jobs, HandlerResolves(j) \/ HandlerRejects(j) PROVE Held'
  BY <1>4 DEF HandlerResolves, HandlerRejects, Held, QueueTypeOK
<1>5. ASSUME NEW j \in Jobs, DispatchEnds(j) \/ RepublishNacked(j) PROVE Held'
  BY <1>5 DEF DispatchEnds, RepublishNacked, Ack, Republish, Park, AckOriginal, Abandon,
    AckSent, Finished, Held, QueueTypeOK
<1>6. ASSUME NEW j \in Jobs, AckOnDeadChannel(j) PROVE FALSE
  BY <1>6 DEF AckOnDeadChannel, Held
<1>7. ASSUME NEW w \in Workers, Stop(w) PROVE Held'
  BY <1>7 DEF Stop, ProcessDies, Held
<1> QED
  BY <1>1, <1>2, <1>3, <1>4, <1>5, <1>6, <1>7 DEF QueueNext

\* No working call ends early: nothing stops a process from outside, and the ack that
\* ends one is its only handler's own, or never meets a dead channel.
LEMMA SparedStep ==
  ASSUME "stop" \notin Faults, OneHandlerPerProcess \/ Held,
         QueueInv, PipelineInv, [PipelineNext]_pipelineVars,
         \A j \in Jobs : ~HandleInbound(j)
  PROVE  Spared
<1> USE DEF PipelineInv, Spared
<1>1. \A j \in Jobs : Working(j) => stage[j] = "handling"
  BY DEF Working, Owning, PipelineTypeOK
<1>2. CASE UNCHANGED pipelineVars \/ Elsewhere \/ Tick
  BY <1>2 DEF pipelineVars, callVars, Elsewhere, Tick
<1>3. ASSUME NEW i \in Jobs, NEW c \in Copies, Receive(i, c) PROVE Spared
  BY <1>1, <1>3 DEF Receive, Deliver, PipelineTypeOK
<1>4. ASSUME NEW i \in Jobs, WorkerExits(i) PROVE Spared
  <2>1. stage[i] = "ack" /\ holds[i] = None
    BY <1>4 DEF WorkerExits, AckOnDeadChannel
  <2>2. OneHandlerPerProcess
    BY <2>1 DEF Held
  <2> QED
    BY <1>1, <1>4, <2>1, <2>2 DEF WorkerExits, CallsVanish, OneHandlerPerProcess
<1>5. ASSUME NEW w \in Workers, WorkerStops(w) PROVE FALSE
  BY <1>5 DEF WorkerStops, Stop, Fault
<1> QED
  BY <1>2, <1>3, <1>4, <1>5 DEF PipelineNext

\* What one SMS per message rests on: claims that exclude each other and hold their
\* rows, rows that agree on "sent", and no SMS forgotten.
OneSmsInv ==
  /\ ExclusiveInv
  /\ RowsHeld
  /\ SentInv
  /\ SmsWithin(0)
  /\ OneHandlerPerProcess \/ Held

LEMMA OneSmsInvInit == PipelineInit => OneSmsInv
BY DEF PipelineInit, QueueInit, StoreInit, OneSmsInv, ExclusiveInv, ClaimHeld,
  ExclusiveProcessing, RowsHeld, Working, Owning, SentInv, SentTogether, SmsWithin, Held

LEMMA OneSmsInvStep ==
  ASSUME WorkMax <= StaleAfter, "db" \notin Faults, "unanswered" \notin Faults,
         "stop" \notin Faults, OneHandlerPerProcess \/ "channel" \notin Faults,
         QueueInv, PipelineInv, OneSmsInv, [PipelineNext]_pipelineVars
  PROVE  OneSmsInv'
<1> USE DEF OneSmsInv
<1>1. ExclusiveInv'
  BY ExclusiveStep
<1>2. RowsHeld'
  BY RowsHeldStep DEF ExclusiveInv
<1>3. SentInv'
  BY SentStep DEF ExclusiveInv
<1>4. SmsWithin(0)'
  BY SparedStep, SmsWithinStep DEF ExclusiveInv, SentInv
<1>5. OneHandlerPerProcess \/ Held'
  BY PipelineQueueStep, HeldStep DEF QueueInv
<1> QED
  BY <1>1, <1>2, <1>3, <1>4, <1>5

\* "Exactly one reply per inbound message" (README.md), where it is true of the SMSs
\* themselves: besides claims that no live handler outlives, a database that does not
\* fail and a carrier that answers, no process may be stopped, and no channel be lost
\* by a process that runs several handlers.  Any of these breaks it.
THEOREM PipelineAtMostOneSms ==
  ASSUME WorkMax <= StaleAfter, "db" \notin Faults, "unanswered" \notin Faults,
         "stop" \notin Faults, OneHandlerPerProcess \/ "channel" \notin Faults
  PROVE  PipelineSpec => []AtMostOneSms
<1>1. QueueInv /\ PipelineInv /\ OneSmsInv /\ [PipelineNext]_pipelineVars => OneSmsInv'
  BY OneSmsInvStep
<1>2. PipelineInv /\ OneSmsInv => AtMostOneSms
  <2> SUFFICES ASSUME PipelineInv, OneSmsInv, NEW m \in Messages PROVE Len(sms[m]) <= 1
    BY DEF AtMostOneSms
  <2>1. Len(sms[m]) <= 0 + 1
    BY DEF OneSmsInv, SmsWithin
  <2> QED
    BY <2>1
<1> QED
  BY <1>1, <1>2, OneSmsInvInit, PipelineQueueInv, PipelineInvAlways, PTL DEF PipelineSpec

-----------------------------------------------------------------------------
(* Nothing is dropped, while processes and channels last.                   *)

NothingDies == Faults \cap {"channel", "stop"} = {}

\* Some copy of m will be delivered again or is parked, waits unacked since its republish
\* was refused, or has a job that has yet to decide.
InHand(m) ==
  \/ \E c \in Copies : copies[c].msg = m /\ copies[c].place \in {"main", "retry", "dlq"}
  \/ \E c \in Unattended : copies[c].msg = m
  \/ \E j \in Jobs : task[j] = m /\ stage[j] \in {"handling", "republish"}

\* While channels last, nobody touches a delivery that nobody holds.
LEMMA UnattendedStays ==
  ASSUME NothingDies, QueueInv, Held, [QueueNext]_queueVars, NEW c \in Unattended
  PROVE  c \in Unattended' /\ copies'[c] = copies[c]
<1> USE NoneAssumption DEF QueueInv, NothingDies, Unattended
<1>1. c \in Copies /\ copies[c].place = "unacked" /\ \A j \in Jobs : holds[j] # c
  OBVIOUS
<1>2. ASSUME copies'[c] = copies[c], \A j \in Jobs : holds'[j] \in {holds[j], None}
      PROVE  c \in Unattended' /\ copies'[c] = copies[c]
  BY <1>1, <1>2
<1>3. CASE UNCHANGED queueVars
  BY <1>2, <1>3 DEF queueVars, brokerVars, jobVars
<1>4. ASSUME NEW n \in Messages, Stored(n), UNCHANGED jobVars
      PROVE  c \in Unattended' /\ copies'[c] = copies[c]
  BY <1>1, <1>2, <1>4, FreshIsFree DEF Stored, jobVars, QueueTypeOK
<1>5. ASSUME NEW w \in Workers, LoseChannel(w) \/ Stop(w) PROVE FALSE
  BY <1>5 DEF LoseChannel, Stop, Fault
<1>6. CASE (\E n \in Messages : PostRejected(n)) \/ (\E w \in Workers : Reconnect(w))
  BY <1>2, <1>6 DEF PostRejected, Reconnect, jobVars
<1>7. ASSUME NEW d \in Copies, Settle(d) \/ Expire(d)
      PROVE  c \in Unattended' /\ copies'[c] = copies[c]
  BY <1>1, <1>2, <1>7 DEF Settle, Expire, jobVars, QueueTypeOK
<1>8. CASE QueueTick
  BY <1>1, <1>2, <1>8 DEF QueueTick, Cooled, jobVars
<1>9. ASSUME NEW j \in Jobs, NEW d \in Copies, Deliver(j, d)
      PROVE  c \in Unattended' /\ copies'[c] = copies[c]
  BY <1>1, <1>9 DEF Deliver, QueueTypeOK
<1>10. ASSUME NEW j \in Jobs, HandlerResolves(j) \/ HandlerRejects(j)
       PROVE  c \in Unattended' /\ copies'[c] = copies[c]
  BY <1>2, <1>10 DEF HandlerResolves, HandlerRejects, brokerVars
<1>11. ASSUME NEW j \in Jobs, DispatchEnds(j) \/ RepublishNacked(j)
       PROVE  c \in Unattended' /\ copies'[c] = copies[c]
  BY <1>1, <1>2, <1>11, FreshIsFree DEF DispatchEnds, RepublishNacked, Ack, Republish, Park,
    AckOriginal, Abandon, AckSent, Finished, brokerVars, QueueTypeOK
<1>12. ASSUME NEW j \in Jobs, AckOnDeadChannel(j) PROVE FALSE
  BY <1>12 DEF AckOnDeadChannel, Held
<1> QED
  BY <1>3, <1>4, <1>5, <1>6, <1>7, <1>8, <1>9, <1>10, <1>11, <1>12
  DEF QueueNext, BrokerStep, PostAccepted, PostUnconfirmed

\* A refused republish leaves the delivery unacked, held by nobody.
LEMMA NackedUnattended ==
  ASSUME QueueInv, NEW j \in Jobs, RepublishNacked(j)
  PROVE  \E c \in Unattended' : copies'[c].msg = task[j]
BY NoneAssumption DEF RepublishNacked, Finished, brokerVars, Unattended, QueueInv,
  DeliveriesOwned, QueueTypeOK

\* A message in hand stays in hand until a handler call for it resolves.
LEMMA InHandStep ==
  ASSUME NothingDies, QueueInv, Held, [QueueNext]_queueVars, NEW m \in Messages, InHand(m)
  PROVE  InHand(m)' \/ \E j \in Jobs : HandlerResolves(j) /\ task[j] = m
<1> USE NoneAssumption DEF QueueInv, NothingDies
<1>13. CASE \E c \in Unattended : copies[c].msg = m
  BY <1>13, UnattendedStays DEF InHand
<1> SUFFICES ASSUME ~\E c \in Unattended : copies[c].msg = m
             PROVE  InHand(m)' \/ \E j \in Jobs : HandlerResolves(j) /\ task[j] = m
  BY <1>13
<1>1. CASE UNCHANGED queueVars
  BY <1>1 DEF queueVars, brokerVars, jobVars, InHand
<1>2. ASSUME NEW n \in Messages, Stored(n), UNCHANGED jobVars PROVE InHand(m)'
  BY <1>2, FreshIsFree DEF Stored, Ready, Copy, jobVars, InHand, QueueTypeOK
<1>3. ASSUME NEW w \in Workers, LoseChannel(w) \/ Stop(w) PROVE FALSE
  BY <1>3 DEF LoseChannel, Stop, Fault
<1>4. CASE (\E n \in Messages : PostRejected(n)) \/ (\E w \in Workers : Reconnect(w))
  BY <1>4 DEF PostRejected, Reconnect, jobVars, InHand
<1>5. ASSUME NEW c \in Copies, Settle(c) \/ Expire(c) PROVE InHand(m)'
  BY <1>5 DEF Settle, Expire, Moved, Copy, jobVars, InHand, QueueTypeOK
<1>6. CASE QueueTick
  BY <1>6, CooledType DEF QueueTick, jobVars, InHand
<1>7. ASSUME NEW j \in Jobs, NEW c \in Copies, Deliver(j, c) PROVE InHand(m)'
  BY <1>7 DEF Deliver, InHand, QueueTypeOK
<1>8. ASSUME NEW j \in Jobs, HandlerResolves(j) PROVE InHand(m)' \/ task[j] = m
  BY <1>8 DEF HandlerResolves, brokerVars, InHand, QueueTypeOK
<1>9. ASSUME NEW j \in Jobs, HandlerRejects(j) PROVE InHand(m)'
  BY <1>9 DEF HandlerRejects, brokerVars, InHand, QueueTypeOK
<1>10. ASSUME NEW j \in Jobs, Republish(j) \/ Park(j) PROVE InHand(m)'
  BY <1>10, FreshIsFree DEF Republish, Park, Delayed, DeadLetter, Copy, InHand, QueueTypeOK
<1>11. ASSUME NEW j \in Jobs, Ack(j) \/ AckOriginal(j) PROVE InHand(m)'
  BY <1>11 DEF Ack, AckOriginal, AckSent, Finished, DeliveriesOwned, InHand, QueueTypeOK
<1>12. ASSUME NEW j \in Jobs, Abandon(j) \/ AckOnDeadChannel(j) PROVE FALSE
  BY <1>12 DEF Abandon, AckOnDeadChannel, Held
<1>14. ASSUME NEW j \in Jobs, RepublishNacked(j) PROVE InHand(m)'
  <2>1. CASE task[j] = m
    BY <1>14, <2>1, NackedUnattended DEF InHand
  <2>2. CASE task[j] # m
    BY <1>14, <2>2 DEF RepublishNacked, Finished, brokerVars, InHand, QueueTypeOK
  <2> QED
    BY <2>1, <2>2
<1> QED
  BY <1>1, <1>2, <1>3, <1>4, <1>5, <1>6, <1>7, <1>8, <1>9, <1>10, <1>11, <1>12, <1>14
  DEF QueueNext, BrokerStep, DispatchEnds, PostAccepted, PostUnconfirmed, historyVars, jobVars

\* What a step of job j's handler does to its own message m, database errors
\* included: how the call goes on or ends, and what the rows say then.
Outcome(j, m) ==
  /\ inbound'[m] = "absent" => inbound[m] = "absent"
  /\ inbound'[m] = "sent" =>
       reply'[m] = "sent" \/ (inbound[m] = "sent" /\ reply[m] \in {"absent", reply'[m]})
  /\ at'[j] = "claim" => inbound'[m] # "absent"
  /\ \/ /\ Working(j)' /\ stage'[j] = "handling"
        /\ reply[m] = "sent" => reply'[m] = "sent"
     \/ /\ at[j] = "persist" /\ at'[j] = "claim" /\ stage'[j] = "handling"
        /\ inbound'[m] \in {inbound[m], "received"}
        /\ reply'[m] = reply[m] /\ claimAge'[m] = claimAge[m]
     \/ /\ at'[j] = "idle" /\ stage'[j] = "republish"
        /\ May("db") \/ inbound'[m] = "failed"
     \/ /\ at'[j] = "idle" /\ stage'[j] = "ack"
        /\ reply'[m] = "sent"
     \/ /\ at[j] = "claim" /\ at'[j] = "idle" /\ stage'[j] = "ack"
        /\ ~Claimable(m)
        /\ inbound'[m] = inbound[m] /\ reply'[m] = reply[m] /\ claimAge'[m] = claimAge[m]

\* Every step of a handler has one of these outcomes, and leaves all other calls and
\* messages, and the broker, alone.
LEMMA HandlerOutcome ==
  ASSUME QueueInv, PipelineInv, NEW j \in Jobs, HandleInbound(j)
  PROVE  /\ task[j] \in Messages /\ stage[j] = "handling"
         /\ UNCHANGED <<copies, accepted, task, holds>>
         /\ \A k \in Jobs : k # j => at'[k] = at[k] /\ stage'[k] = stage[k]
         /\ \A m \in Messages : m # task[j] =>
              inbound'[m] = inbound[m] /\ reply'[m] = reply[m] /\ claimAge'[m] = claimAge[m]
         /\ Outcome(j, task[j])
<1> USE DEF PipelineInv
<1>1. at[j] # "idle" /\ stage[j] = "handling"
  BY DEF HandleInbound, Persist, PersistFails, ClaimMessage,
    DropDuplicate, ClaimFails, Generate, GenerateFails, Record, RecordFails,
    LookUp, SkipSent, LookUpFails, Send, SendFails, RecordSent,
    RecordSentFails, RecordFailure, Proceed, PipelineTypeOK
<1>2. task[j] \in Messages
  BY <1>1 DEF PipelineTypeOK, QueueTypeOK
<1>3. /\ UNCHANGED <<copies, accepted, task, holds>>
      /\ \A k \in Jobs : k # j => at'[k] = at[k] /\ stage'[k] = stage[k]
  BY DEF HandleInbound, Persist, PersistFails, ClaimMessage,
    DropDuplicate, ClaimFails, Generate, GenerateFails, Record, RecordFails,
    LookUp, SkipSent, LookUpFails, Send, SendFails, RecordSent,
    RecordSentFails, RecordFailure, Proceed, Return, Throw, Returned,
    HandlerResolves, HandlerRejects, PipelineTypeOK, QueueTypeOK, queueVars, brokerVars,
    jobVars
<1>4. \A m \in Messages : m # task[j] =>
        inbound'[m] = inbound[m] /\ reply'[m] = reply[m] /\ claimAge'[m] = claimAge[m]
  BY <1>2 DEF HandleInbound, Persist, PersistFails, ClaimMessage,
    DropDuplicate, ClaimFails, Generate, GenerateFails, Record, RecordFails,
    LookUp, SkipSent, LookUpFails, Send, SendFails, RecordSent,
    RecordSentFails, RecordFailure, InsertInbound, Claim, InsertReply, MarkSent,
    MarkFailed, storeVars, PipelineTypeOK, StoreTypeOK
<1> SUFFICES Outcome(j, task[j])
  BY <1>1, <1>2, <1>3, <1>4
<1> USE <1>1, <1>2 DEF Outcome, Working, Owning, PipelineTypeOK, StoreTypeOK, QueueTypeOK
<1>5. CASE Persist(j)
  BY <1>5 DEF Persist, Proceed, InsertInbound, queueVars, jobVars
<1>6. CASE PersistFails(j)
  BY <1>6 DEF PersistFails, Throw, Returned, HandlerRejects, InsertInbound, storeVars
<1>7. CASE ClaimMessage(j)
  BY <1>7 DEF ClaimMessage, Proceed, Claim, queueVars, jobVars
<1>8. CASE DropDuplicate(j)
  BY <1>8 DEF DropDuplicate, Return, Returned, HandlerResolves, storeVars
<1>9. CASE ClaimFails(j)
  BY <1>9 DEF ClaimFails, Throw, Returned, HandlerRejects, Claim, storeVars
<1>10. CASE Generate(j) \/ GenerateFails(j) \/ LookUp(j) \/ LookUpFails(j)
  BY <1>10 DEF Generate, GenerateFails, LookUp, LookUpFails, Proceed, storeVars, queueVars,
    jobVars
<1>11. CASE Record(j) \/ RecordFails(j)
  <2>1. UNCHANGED <<inbound, stage>> /\ at'[j] \in {"lookup", "failInbound"}
    BY <1>11 DEF Record, RecordFails, Proceed, InsertReply, storeVars, queueVars, jobVars
  <2>2. reply' = reply \/ (reply[task[j]] = "absent" /\ reply'[task[j]] = "processing")
    BY <1>11 DEF Record, RecordFails, InsertReply, storeVars
  <2> QED
    BY <2>1, <2>2
<1>12. CASE SkipSent(j)
  BY <1>12 DEF SkipSent, Return, Returned, HandlerResolves, storeVars
<1>13. CASE Send(j) \/ SendFails(j)
  BY <1>13 DEF Send, SendFails, Proceed, storeVars, queueVars, jobVars
<1>14. CASE RecordSent(j)
  BY <1>14 DEF RecordSent, MarkSent, Return, Returned, HandlerResolves
<1>15. CASE RecordSentFails(j)
  BY <1>15 DEF RecordSentFails, Proceed, MarkSent, storeVars, queueVars, jobVars
<1>16. CASE RecordFailure(j)
  BY <1>16 DEF RecordFailure, MarkFailed, Throw, Returned, HandlerRejects, storeVars
<1> QED
  BY <1>5, <1>6, <1>7, <1>8, <1>9, <1>10, <1>11, <1>12, <1>13, <1>14, <1>15, <1>16
  DEF HandleInbound

\* A retried delivery finds the claim its failed attempt left behind stale.
RetriesOutlastClaims == RetryDelay > StaleAfter

\* Copy c comes back only once a claim on m has gone stale, or is parked or unattended.
Waits(c, m) ==
  /\ copies[c].msg = m
  /\ \/ copies[c].place = "dlq"
     \/ copies[c].place = "retry" /\ copies[c].ttl + claimAge[m] > StaleAfter
     \/ c \in Unattended

\* Why a delivery may be dropped while the claim on m is fresh.
Covered(m) ==
  \/ reply[m] = "sent"
  \/ \E j \in Jobs : Working(j) /\ task[j] = m
  \/ /\ RetriesOutlastClaims
     /\ \/ \E j \in Jobs : stage[j] = "republish" /\ task[j] = m
        \/ \E c \in Copies : Waits(c, m)

ClaimsCovered ==
  \A m \in Messages : inbound[m] = "processing" /\ claimAge[m] <= StaleAfter => Covered(m)

RowsKnown == \A j \in Jobs : at[j] = "claim" => inbound[task[j]] # "absent"

SentKnown == \A m \in Messages : inbound[m] = "sent" => reply[m] = "sent"

ArrivedInHand == \A m \in accepted \cup InSystem : reply[m] = "sent" \/ InHand(m)

DropInv == Held /\ RowsKnown /\ SentKnown /\ ClaimsCovered /\ ArrivedInHand

\* Nothing that runs in the broker or in dispatch() takes away what covers a claim.
LEMMA CoveredElsewhere ==
  ASSUME NothingDies, QueueInv, PipelineInv, Held, Elsewhere,
         NEW m \in Messages, claimAge[m] <= StaleAfter, Covered(m)
  PROVE  Covered(m)'
<1> USE NoneAssumption, CountAssumption, StaleAssumption DEF QueueInv, PipelineInv
<1>1. UNCHANGED <<claimAge, reply, at>> /\ claimAge[m] \in Nat
  BY DEF Elsewhere, storeVars, callVars, PipelineTypeOK, StoreTypeOK
<1>2. CASE reply[m] = "sent"
  BY <1>1, <1>2 DEF Covered
<1>3. ASSUME NEW j \in Jobs, Working(j), task[j] = m PROVE Covered(m)'
  BY <1>1, <1>3, ElsewhereKeepsCalls DEF Covered, Working, Owning, PipelineTypeOK
<1>4. ASSUME NEW c \in Copies, Waits(c, m), RetriesOutlastClaims PROVE Covered(m)'
  <2>0. CASE c \in Unattended
    <3>1. [QueueNext]_queueVars
      BY PipelineQueueStep DEF PipelineNext
    <3>2. c \in Unattended' /\ copies'[c] = copies[c]
      BY <2>0, <3>1, UnattendedStays
    <3>3. Waits(c, m)' /\ c \in Copies
      BY <1>4, <3>2 DEF Waits
    <3> QED
      BY <1>4, <3>3 DEF Covered, RetriesOutlastClaims
  <2> SUFFICES ASSUME c \notin Unattended PROVE Covered(m)'
    BY <2>0
  <2>1. ASSUME copies'[c] = copies[c] PROVE Covered(m)'
    BY <1>1, <1>4, <2>1 DEF Waits, Covered, RetriesOutlastClaims
  <2>2. copies[c].place \in {"retry", "dlq"} /\ copies[c].ttl \in Nat
        /\ (copies[c].place = "retry" => copies[c].ttl # 0)
    BY <1>1, <1>4 DEF Waits, QueueTypeOK, CopyType
  <2>3. CASE \E n \in Messages : PostAccepted(n) \/ PostUnconfirmed(n) \/ PostRejected(n)
    BY <2>1, <2>2, <2>3, FreshIsFree DEF PostAccepted, PostUnconfirmed, PostRejected,
      Stored, QueueTypeOK
  <2>4. CASE \E d \in Copies : Settle(d) \/ Expire(d)
    BY <2>1, <2>2, <2>4 DEF Settle, Expire, QueueTypeOK
  <2>5. CASE \E w \in Workers : LoseChannel(w) \/ Reconnect(w)
    BY <2>1, <2>5 DEF LoseChannel, Reconnect, Fault, NothingDies
  <2>6. ASSUME NEW j \in Jobs, DispatchEnds(j) \/ RepublishNacked(j) PROVE Covered(m)'
    BY <2>1, <2>2, <2>6, FreshIsFree DEF DispatchEnds, RepublishNacked, Ack, Republish, Park,
      AckOriginal, Abandon, AckSent, brokerVars, DeliveriesOwned, QueueTypeOK
  <2> QED
    BY <2>3, <2>4, <2>5, <2>6 DEF Elsewhere, BrokerStep
<1>5. ASSUME NEW j \in Jobs, stage[j] = "republish", task[j] = m, RetriesOutlastClaims
      PROVE  Covered(m)'
  <2>1. ASSUME stage'[j] = stage[j], task'[j] = task[j] PROVE Covered(m)'
    BY <1>5, <2>1 DEF Covered, RetriesOutlastClaims
  <2>2. CASE BrokerStep
    BY <2>1, <2>2 DEF BrokerStep, PostAccepted, PostUnconfirmed, PostRejected, Settle,
      Expire, LoseChannel, Reconnect, jobVars
  <2>3. ASSUME NEW i \in Jobs, i # j, DispatchEnds(i) \/ RepublishNacked(i)
        PROVE  Covered(m)'
    BY <2>1, <2>3 DEF DispatchEnds, RepublishNacked, Ack, Republish, Park, AckOriginal,
      Abandon, AckSent, Finished, QueueTypeOK
  <2>4. ASSUME Republish(j) \/ Park(j) PROVE Covered(m)'
    <3>1. PICK f \in Copies, n \in Nat :
            \/ copies' = [copies EXCEPT ![f] = Delayed(task[j], n)]
            \/ copies' = [copies EXCEPT ![f] = DeadLetter(task[j], n)]
      BY <2>4, FreshIsFree DEF Republish, Park, QueueTypeOK, CopyType
    <3>2. Waits(f, m)'
      BY <1>1, <1>5, <3>1 DEF Waits, Delayed, DeadLetter, Copy, RetriesOutlastClaims,
        QueueTypeOK
    <3> QED
      BY <1>5, <3>2 DEF Covered, RetriesOutlastClaims
  <2>5. ~(Ack(j) \/ AckOriginal(j) \/ Abandon(j))
    BY <1>5 DEF Ack, AckOriginal, Abandon, Held
  <2>6. ASSUME RepublishNacked(j) PROVE Covered(m)'
    <3>1. PICK c \in Unattended' : copies'[c].msg = m
      BY <1>5, <2>6, NackedUnattended
    <3>2. c \in Copies /\ Waits(c, m)'
      BY <3>1 DEF Waits, Unattended
    <3> QED
      BY <1>5, <3>2 DEF Covered, RetriesOutlastClaims
  <2> QED
    BY <2>2, <2>3, <2>4, <2>5, <2>6 DEF Elsewhere, DispatchEnds
<1> QED
  BY <1>2, <1>3, <1>4, <1>5 DEF Covered

\* A claim and the delay of the copies behind it run on the same clock.
LEMMA ClaimsCoveredTick ==
  ASSUME QueueInv, PipelineInv, ClaimsCovered, Tick
  PROVE  ClaimsCovered'
<1> USE CountAssumption, StaleAssumption DEF QueueInv, PipelineInv
<1> SUFFICES ASSUME NEW m \in Messages, inbound'[m] = "processing", claimAge'[m] <= StaleAfter
             PROVE  Covered(m)'
  BY DEF ClaimsCovered
<1>1. /\ UNCHANGED <<inbound, reply, at, stage, task>>
      /\ claimAge[m] \in Nat
      /\ claimAge' = [n \in Messages |->
                        IF inbound[n] = "processing" /\ claimAge[n] <= StaleAfter
                        THEN claimAge[n] + 1 ELSE claimAge[n]]
  BY DEF Tick, ClaimsAge, jobVars, PipelineTypeOK, StoreTypeOK
<1>2. claimAge[m] <= StaleAfter /\ claimAge'[m] = claimAge[m] + 1
  BY <1>1
<1>3. Covered(m)
  BY <1>1, <1>2 DEF ClaimsCovered
<1>4. ASSUME NEW c \in Copies, Waits(c, m) PROVE Waits(c, m)'
  <2>1. copies[c].ttl \in Nat /\ copies[c].msg = m
    BY <1>4 DEF Waits, QueueTypeOK, CopyType
  <2>2. CASE copies[c].place = "dlq"
    BY <2>1, <2>2, CooledType DEF Tick, Waits
  <2>3. CASE copies[c].place = "retry" /\ copies[c].ttl + claimAge[m] > StaleAfter
    <3>1. copies[c].ttl > 0
      BY <1>1, <1>2, <2>1, <2>3
    <3>2. copies'[c] = Copy("retry", m, copies[c].attempt, copies[c].ttl - 1, copies[c].worker)
      BY <2>1, <2>3, <3>1 DEF Tick, Cooled
    <3> QED
      BY <1>1, <1>2, <2>1, <2>3, <3>2 DEF Waits, Copy
  <2>4. CASE c \in Unattended
    BY <1>1, <2>1, <2>4, CooledType DEF Tick, jobVars, Unattended, Waits
  <2> QED
    BY <1>4, <2>2, <2>3, <2>4 DEF Waits
<1> QED
  BY <1>1, <1>3, <1>4 DEF Covered, Working, RetriesOutlastClaims

\* A handler leaves a claim of its own uncovered only by finishing with it.
LEMMA ClaimsCoveredHandler ==
  ASSUME NothingDies, "db" \in Faults => RetriesOutlastClaims,
         QueueInv, PipelineInv, ClaimsCovered, NEW j \in Jobs, HandleInbound(j)
  PROVE  ClaimsCovered'
<1> SUFFICES ASSUME NEW m \in Messages, inbound'[m] = "processing", claimAge'[m] <= StaleAfter
             PROVE  Covered(m)'
  BY DEF ClaimsCovered
<1>1. /\ task[j] \in Messages /\ stage[j] = "handling"
      /\ UNCHANGED <<copies, task, holds>>
      /\ \A k \in Jobs : k # j => at'[k] = at[k] /\ stage'[k] = stage[k]
      /\ \A n \in Messages : n # task[j] =>
           inbound'[n] = inbound[n] /\ reply'[n] = reply[n] /\ claimAge'[n] = claimAge[n]
      /\ Outcome(j, task[j])
  BY HandlerOutcome
<1>2. ASSUME Covered(m), reply[m] = "sent" => reply'[m] = "sent", claimAge'[m] = claimAge[m],
             Working(j) => task[j] # m
      PROVE  Covered(m)'
  BY <1>1, <1>2 DEF Covered, Waits, Unattended, Working, RetriesOutlastClaims
<1>3. CASE m # task[j]
  <2>1. Covered(m) /\ reply'[m] = reply[m] /\ claimAge'[m] = claimAge[m]
    BY <1>1, <1>3 DEF ClaimsCovered
  <2> QED
    BY <1>2, <1>3, <2>1
<1>4. CASE m = task[j]
  <2>1. CASE Working(j)'
    BY <1>1, <1>4, <2>1 DEF Covered
  <2>2. CASE stage'[j] = "republish" /\ May("db")
    BY <1>1, <1>4, <2>2 DEF Covered, May, RetriesOutlastClaims
  <2>3. CASE reply'[m] = "sent"
    BY <2>3 DEF Covered
  <2>4. CASE at[j] \in {"persist", "claim"} /\ inbound'[m] = inbound[m]
             /\ reply'[m] = reply[m] /\ claimAge'[m] = claimAge[m]
    BY <1>2, <2>4 DEF ClaimsCovered, Working, Owning
  <2> QED
    BY <1>1, <1>4, <2>1, <2>2, <2>3, <2>4 DEF Outcome
<1> QED
  BY <1>3, <1>4

\* What a handler drops, or marks failed, is sent or still in hand.
LEMMA InHandHandler ==
  ASSUME NothingDies, QueueInv, PipelineInv, DropInv, NEW j \in Jobs, HandleInbound(j),
         [QueueNext]_queueVars
  PROVE  ArrivedInHand'
<1> USE DEF DropInv
<1>1. /\ task[j] \in Messages /\ stage[j] = "handling"
      /\ UNCHANGED <<copies, accepted, task, holds>>
      /\ \A k \in Jobs : k # j => at'[k] = at[k] /\ stage'[k] = stage[k]
      /\ \A n \in Messages : n # task[j] =>
           inbound'[n] = inbound[n] /\ reply'[n] = reply[n] /\ claimAge'[n] = claimAge[n]
      /\ Outcome(j, task[j])
  BY HandlerOutcome
<1> SUFFICES ASSUME NEW m \in accepted \cup InSystem, reply'[m] # "sent"
             PROVE  InHand(m)'
  BY <1>1 DEF ArrivedInHand, InSystem
<1>2. m \in Messages /\ (reply[m] = "sent" \/ InHand(m))
  BY DEF ArrivedInHand, InSystem, PipelineInv, PipelineTypeOK, QueueTypeOK
<1>3. CASE m # task[j]
  BY <1>1, <1>2, <1>3 DEF InHand, Unattended
<1>4. CASE m = task[j] /\ stage'[j] \in {"handling", "republish"}
  BY <1>1, <1>4 DEF InHand
<1>5. CASE m = task[j] /\ stage'[j] \notin {"handling", "republish"}
  <2>1. at[j] = "claim" /\ ~Claimable(m) /\ reply[m] # "sent"
    BY <1>1, <1>5 DEF Outcome, Working
  <2>2. inbound[m] = "processing" /\ claimAge[m] <= StaleAfter
    BY <1>1, <1>5, <2>1, StaleAssumption DEF Claimable, RowsKnown, SentKnown, PipelineInv,
      PipelineTypeOK, StoreTypeOK
  <2>3. Covered(m)
    BY <1>2, <2>2 DEF ClaimsCovered
  <2>4. ASSUME NEW k \in Jobs, Working(k), task[k] = m PROVE InHand(m)'
    <3>1. stage[k] = "handling" /\ k # j
      BY <2>1, <2>4 DEF Working, Owning, PipelineInv, PipelineTypeOK
    <3> QED
      BY <1>1, <2>4, <3>1 DEF InHand
  <2>5. ASSUME NEW k \in Jobs, stage[k] = "republish", task[k] = m PROVE InHand(m)'
    BY <1>1, <2>5 DEF InHand
  <2>6. ASSUME NEW c \in Copies, Waits(c, m) PROVE InHand(m)'
    BY <1>1, <2>6 DEF Waits, InHand, Unattended
  <2> QED
    BY <2>1, <2>3, <2>4, <2>5, <2>6 DEF Covered
<1> QED
  BY <1>3, <1>4, <1>5

\* A step that is neither a handler's nor a tick leaves the rows alone, and every call
\* past its insert where it was.
LEMMA SurroundingStep ==
  ASSUME NothingDies, QueueInv, PipelineInv, Held, [PipelineNext]_pipelineVars,
         ~Tick, \A j \in Jobs : ~HandleInbound(j)
  PROVE  /\ UNCHANGED storeVars
         /\ \A j \in Jobs : at'[j] = "claim" => at[j] = "claim" /\ task'[j] = task[j]
         /\ \/ Elsewhere
            \/ UNCHANGED pipelineVars
            \/ \E j \in Jobs, c \in Copies : Receive(j, c)
<1> USE DEF PipelineInv
<1>1. \A j \in Jobs : at[j] = "claim" => stage[j] = "handling"
  BY DEF PipelineTypeOK
<1>2. CASE UNCHANGED pipelineVars
  BY <1>2 DEF pipelineVars, queueVars, jobVars, callVars
<1>3. CASE Elsewhere
  BY <1>1, <1>3, ElsewhereKeepsCalls DEF Elsewhere, callVars, PipelineTypeOK
<1>4. ASSUME NEW i \in Jobs, NEW c \in Copies, Receive(i, c)
      PROVE  /\ UNCHANGED storeVars
             /\ \A j \in Jobs : at'[j] = "claim" => at[j] = "claim" /\ task'[j] = task[j]
  BY <1>1, <1>4 DEF Receive, Deliver, PipelineTypeOK, QueueTypeOK
<1>5. ASSUME NEW j \in Jobs, WorkerExits(j) PROVE FALSE
  BY <1>5 DEF WorkerExits, AckOnDeadChannel, Held
<1>6. ASSUME NEW w \in Workers, WorkerStops(w) PROVE FALSE
  BY <1>6 DEF WorkerStops, Stop, Fault, NothingDies
<1> QED
  BY <1>2, <1>3, <1>4, <1>5, <1>6 DEF PipelineNext

\* Around the handlers, only a POST brings in a message, and only a settled ack takes
\* one out.
LEMMA Arrivals ==
  ASSUME NothingDies, QueueInv, PipelineInv, Held,
         \/ Elsewhere
         \/ UNCHANGED pipelineVars
         \/ \E j \in Jobs, c \in Copies : Receive(j, c)
  PROVE  \/ \E m \in Messages : /\ PostAccepted(m) \/ PostUnconfirmed(m)
                               /\ InSystem' = InSystem \cup {m}
         \/ /\ accepted' = accepted
            /\ \/ InSystem' = InSystem
               \/ \E c \in Copies : Settle(c) /\ InSystem' \in {InSystem, InSystem \ {copies[c].msg}}
<1> USE MessageAssumption, NoneAssumption DEF QueueInv
<1> DEFINE Same == accepted' = accepted /\ InSystem' = InSystem
<1>1. ASSUME accepted' = accepted, \A c \in Copies : copies'[c].msg = copies[c].msg
      PROVE  Same
  BY <1>1 DEF InSystem
<1>2. ASSUME NEW m \in Messages, PostAccepted(m) \/ PostUnconfirmed(m)
      PROVE  InSystem' = InSystem \cup {m}
  BY <1>2, FreshIsFree DEF PostAccepted, PostUnconfirmed, Stored, Ready, Copy, InSystem,
    IsFree, QueueTypeOK
<1>3. CASE UNCHANGED pipelineVars \/ (\E m \in Messages : PostRejected(m))
           \/ (\E w \in Workers : Reconnect(w))
  BY <1>1, <1>3 DEF PostRejected, Reconnect, pipelineVars, queueVars, brokerVars
<1>4. ASSUME NEW c \in Copies, Settle(c)
      PROVE  accepted' = accepted /\ InSystem' \in {InSystem, InSystem \ {copies[c].msg}}
  <2>1. \A d \in Copies : copies'[d].msg = IF d = c THEN None ELSE copies[d].msg
    BY <1>4 DEF Settle, FreeSlot, Copy, QueueTypeOK
  <2>2. \A n \in Messages : n # copies[c].msg => (n \in InSystem' <=> n \in InSystem)
    BY <2>1 DEF InSystem
  <2>3. copies[c].msg \in InSystem \/ copies[c].msg \notin Messages
    BY DEF InSystem
  <2>4. InSystem \subseteq Messages /\ InSystem' \subseteq Messages
    BY DEF InSystem
  <2> QED
    BY <1>4, <2>2, <2>3, <2>4 DEF Settle
<1>5. ASSUME NEW c \in Copies, Expire(c) PROVE Same
  BY <1>1, <1>5 DEF Expire, Moved, Copy, QueueTypeOK
<1>6. ASSUME NEW j \in Jobs, NEW c \in Copies, Receive(j, c) PROVE Same
  BY <1>1, <1>6 DEF Receive, Deliver, Moved, Copy, QueueTypeOK
<1>7. ASSUME NEW j \in Jobs, Ack(j) \/ AckOriginal(j) PROVE Same
  BY <1>1, <1>7 DEF Ack, AckOriginal, AckSent, Moved, Copy, QueueTypeOK
<1>8. ASSUME NEW j \in Jobs, Republish(j) \/ Park(j) PROVE Same
  <2>1. PICK f \in Copies, n \in Nat :
          /\ IsFree(f)
          /\ \/ copies' = [copies EXCEPT ![f] = Delayed(task[j], n)]
             \/ copies' = [copies EXCEPT ![f] = DeadLetter(task[j], n)]
    BY <1>8, FreshIsFree DEF Republish, Park, QueueTypeOK, CopyType, IsFree
  <2>2. holds[j] \in Copies /\ copies[holds[j]].msg = task[j] /\ holds[j] # f
    BY <1>8, <2>1 DEF Republish, Park, DeliveriesOwned, QueueTypeOK, IsFree
  <2>3. \A c \in Copies : copies'[c].msg = IF c = f THEN task[j] ELSE copies[c].msg
    BY <2>1 DEF Delayed, DeadLetter, Copy, QueueTypeOK
  <2>4. copies[f].msg = None
    BY <2>1 DEF QueueTypeOK
  <2>5. InSystem' = InSystem
    BY <2>2, <2>3, <2>4 DEF InSystem
  <2> QED
    BY <1>8, <2>5 DEF Republish, Park
<1>9. ASSUME (\E j \in Jobs : Abandon(j)) \/ (\E w \in Workers : LoseChannel(w))
      PROVE  FALSE
  BY <1>9 DEF Abandon, LoseChannel, Fault, Held, NothingDies
<1>10. ASSUME NEW j \in Jobs, RepublishNacked(j) PROVE Same
  BY <1>1, <1>10 DEF RepublishNacked, brokerVars
<1> QED
  BY <1>2, <1>3, <1>4, <1>5, <1>6, <1>7, <1>8, <1>9, <1>10
  DEF Elsewhere, BrokerStep, DispatchEnds

\* Every step keeps deliveries held, claims covered and accepted messages in hand.
LEMMA DropInvStep ==
  ASSUME NothingDies, "db" \in Faults => RetriesOutlastClaims,
         QueueInv, PipelineInv, DropInv, [PipelineNext]_pipelineVars
  PROVE  DropInv'
<1> USE DEF DropInv
<1>1. [QueueNext]_queueVars
  BY PipelineQueueStep DEF QueueInv
<1>2. Held'
  BY <1>1, HeldStep DEF NothingDies
<1>3. ASSUME NEW j \in Jobs, HandleInbound(j) PROVE DropInv'
  <2>1. /\ task[j] \in Messages /\ UNCHANGED task
        /\ \A k \in Jobs : k # j => at'[k] = at[k]
        /\ \A n \in Messages : n # task[j] => inbound'[n] = inbound[n] /\ reply'[n] = reply[n]
        /\ Outcome(j, task[j])
    BY <1>3, HandlerOutcome
  <2>2. \A k \in Jobs : at[k] = "claim" => task[k] \in Messages
    BY DEF PipelineInv, PipelineTypeOK, QueueTypeOK
  <2>3. RowsKnown'
    BY <2>1, <2>2 DEF RowsKnown, Outcome
  <2>4. SentKnown'
    BY <2>1 DEF SentKnown, Outcome
  <2> QED
    BY <1>1, <1>2, <1>3, <2>3, <2>4, ClaimsCoveredHandler, InHandHandler
<1>4. CASE Tick
  <2>1. UNCHANGED <<inbound, reply, at, task, stage, accepted>>
    BY <1>4 DEF Tick, ClaimsAge, jobVars
  <2>2. \A m \in Messages : InHand(m) => InHand(m)'
    BY <1>4, <2>1, CooledType DEF Tick, jobVars, InHand, Unattended, QueueInv
  <2>3. InSystem' = InSystem
    BY <1>4, CooledType DEF Tick, InSystem, QueueInv
  <2>4. ArrivedInHand'
    BY <2>1, <2>2, <2>3 DEF ArrivedInHand, InSystem, PipelineInv, PipelineTypeOK, QueueTypeOK
  <2> QED
    BY <1>2, <1>4, <2>1, <2>4, ClaimsCoveredTick DEF RowsKnown, SentKnown
<1>5. CASE ~Tick /\ \A j \in Jobs : ~HandleInbound(j)
  <2>1. /\ UNCHANGED storeVars
        /\ \A j \in Jobs : at'[j] = "claim" => at[j] = "claim" /\ task'[j] = task[j]
        /\ \/ Elsewhere
           \/ UNCHANGED pipelineVars
           \/ \E j \in Jobs, c \in Copies : Receive(j, c)
    BY <1>5, SurroundingStep
  <2>2. UNCHANGED <<inbound, claimAge, reply>>
    BY <2>1 DEF storeVars
  <2>3. RowsKnown' /\ SentKnown'
    BY <2>1, <2>2 DEF RowsKnown, SentKnown
  <2>4. ClaimsCovered'
    <3>1. CASE Elsewhere
      BY <2>2, <3>1, CoveredElsewhere DEF ClaimsCovered
    <3>2. CASE UNCHANGED pipelineVars
      BY <2>2, <3>2 DEF ClaimsCovered, Covered, Waits, Unattended, Working, RetriesOutlastClaims,
        pipelineVars, queueVars, brokerVars, jobVars, callVars
    <3>3. ASSUME NEW j \in Jobs, NEW c \in Copies, Receive(j, c) PROVE ClaimsCovered'
      <4>1. ASSUME NEW m \in Messages, Covered(m) PROVE Covered(m)'
        <5>1. stage[j] = "idle" /\ ~Working(j) /\ copies[c].place = "main"
          BY <3>3 DEF Receive, Deliver, Working, Owning, PipelineInv, PipelineTypeOK
        <5>2. /\ \A k \in Jobs : k # j => /\ at'[k] = at[k] /\ stage'[k] = stage[k]
                                         /\ task'[k] = task[k]
              /\ \A d \in Copies : d # c => copies'[d] = copies[d]
          BY <3>3 DEF Receive, Deliver, PipelineInv, PipelineTypeOK, QueueTypeOK
        <5>3. Unattended \subseteq Unattended'
          BY <1>1, UnattendedStays
        <5> QED
          BY <2>2, <4>1, <5>1, <5>2, <5>3 DEF Covered, Waits, Unattended, Working,
            RetriesOutlastClaims
      <4> QED
        BY <2>2, <4>1 DEF ClaimsCovered
    <3> QED
      BY <2>1, <3>1, <3>2, <3>3
  <2>5. ArrivedInHand'
    <3> SUFFICES ASSUME NEW m \in accepted' \cup InSystem', reply[m] # "sent"
                 PROVE  InHand(m)'
      BY <2>2 DEF ArrivedInHand
    <3>1. CASE m \in accepted \cup InSystem
      <4>1. m \in Messages /\ InHand(m)
        BY <3>1 DEF ArrivedInHand, InSystem, PipelineInv, PipelineTypeOK, QueueTypeOK
      <4>2. \A j \in Jobs : ~HandlerResolves(j)
        BY <2>1 DEF Elsewhere, BrokerStep, DispatchEnds, PostAccepted, PostUnconfirmed,
          PostRejected, Settle, Expire, LoseChannel, Reconnect, Ack, Republish, Park,
          AckOriginal, Abandon, RepublishNacked, Receive, Deliver, AckSent, Finished,
          HandlerResolves, pipelineVars, queueVars, brokerVars, jobVars, PipelineInv,
          PipelineTypeOK, QueueTypeOK
      <4> QED
        BY <1>1, <4>1, <4>2, InHandStep
    <3>2. CASE m \notin accepted \cup InSystem
      <4>1. m \in Messages /\ Stored(m)
        BY <2>1, <3>2, Arrivals DEF PostAccepted, PostUnconfirmed
      <4> QED
        BY <4>1, FreshIsFree DEF Stored, Ready, Copy, InHand, PipelineInv,
          PipelineTypeOK, QueueTypeOK
    <3> QED
      BY <3>1, <3>2
  <2> QED
    BY <1>2, <2>3, <2>4, <2>5
<1> QED
  BY <1>3, <1>4, <1>5

\* Before the first POST nothing is owed.
LEMMA DropInvInit == PipelineInit => DropInv
BY MessageAssumption DEF PipelineInit, QueueInit, StoreInit, FreeSlot, Copy, DropInv, Held,
  RowsKnown, SentKnown, ClaimsCovered, ArrivedInHand, InSystem

\* While processes and channels last, no error of the generator, the carrier or the
\* database drops an accepted message, provided that a retry is delayed for longer
\* than a claim lasts, or that the database does not fail.
THEOREM PipelineNothingDropped ==
  ASSUME NothingDies, "db" \in Faults => RetriesOutlastClaims
  PROVE  PipelineSpec => []NothingDropped
<1>1. PipelineInit => DropInv
  BY DropInvInit
<1>2. QueueInv /\ PipelineInv /\ DropInv /\ [PipelineNext]_pipelineVars => DropInv'
  BY DropInvStep
<1>3. QueueInv /\ PipelineInv /\ DropInv => NothingDropped
  <2> SUFFICES ASSUME QueueInv, PipelineInv, DropInv, NEW m \in accepted,
                      reply[m] # "sent"
               PROVE  m \in InSystem
    BY DEF NothingDropped
  <2>1. m \in Messages /\ InHand(m)
    BY DEF DropInv, ArrivedInHand, PipelineInv, PipelineTypeOK, QueueTypeOK
  <2>2. ASSUME NEW j \in Jobs, task[j] = m, stage[j] \in {"handling", "republish"}
        PROVE  m \in InSystem
    <3>1. holds[j] \in Copies /\ copies[holds[j]].msg = m
      BY <2>2 DEF DropInv, Held, QueueInv, QueueTypeOK, DeliveriesOwned
    <3> QED
      BY <2>1, <3>1 DEF InSystem
  <2> QED
    BY <2>1, <2>2 DEF InHand, InSystem, Unattended
<1> QED
  BY <1>1, <1>2, <1>3, PipelineQueueInv, PipelineInvAlways, PTL DEF PipelineSpec

-----------------------------------------------------------------------------
(* Exactly-once replies.                                                   *)

\* What exactly-once rests on: at most one SMS, and nothing dropped.
OnceInv == OneSmsInv /\ DropInv

\* Every step of the pipeline is a step of ExactlyOnceReply or one it does not see.
LEMMA OnceStep ==
  ASSUME NothingDies, "db" \notin Faults, "unanswered" \notin Faults,
         QueueInv, PipelineInv, OnceInv, [PipelineNext]_pipelineVars
  PROVE  [EOR!Next]_(EOR!vars)
<1> USE DEF OnceInv, OneSmsInv
<1> DEFINE Unseen == UNCHANGED <<accepted, InSystem, sms>>
<1>1. CASE Tick
  <2>1. InSystem' = InSystem
    BY <1>1, CooledType DEF Tick, InSystem, QueueInv
  <2> QED
    BY <1>1, <2>1 DEF Tick, EOR!vars
<1>2. ASSUME NEW j \in Jobs, Send(j) PROVE EOR!Reply(task[j], text[j])
  <2>1. at[j] = "send" /\ stage[j] = "handling" /\ task[j] \in Messages
    BY <1>2 DEF Send, Proceed, PipelineInv, PipelineTypeOK, QueueTypeOK
  <2>2. task[j] \in InSystem
    BY <2>1 DEF DropInv, Held, QueueInv, QueueTypeOK, DeliveriesOwned, InSystem
  <2>3. sms[task[j]] = <<>>
    <3>1. ~Accounted(task[j])
      BY <2>1 DEF Accounted, ExclusiveInv, ExclusiveProcessing, RowsHeld, SentInv,
        SentTogether, Working, Owning
    <3>2. Len(sms[task[j]]) <= 0 /\ sms[task[j]] \in Seq(Texts)
      BY <2>1, <3>1 DEF SmsWithin, PipelineInv, PipelineTypeOK
    <3> QED
      BY <3>2
  <2>4. Append(sms[task[j]], text[j]) = <<text[j]>>
    BY <2>3
  <2>5. UNCHANGED <<accepted, copies>>
    BY <1>2 DEF Send, Proceed, queueVars, brokerVars
  <2> QED
    BY <1>2, <2>2, <2>3, <2>4, <2>5 DEF Send, CarrierAccepts, EOR!Reply, InSystem
<1>3. ASSUME NEW j \in Jobs, HandleInbound(j), ~Send(j) PROVE Unseen
  <2>1. UNCHANGED sms
    BY <1>3 DEF HandleInbound, Persist, PersistFails, ClaimMessage,
      DropDuplicate, ClaimFails, Generate, GenerateFails, Record, RecordFails,
      LookUp, SkipSent, LookUpFails, SendFails, RecordSent,
      RecordSentFails, RecordFailure, May
  <2> QED
    BY <1>3, <2>1, HandlerOutcome DEF InSystem
<1>4. CASE ~Tick /\ \A j \in Jobs : ~HandleInbound(j)
  <2>1. /\ \/ Elsewhere
           \/ UNCHANGED pipelineVars
           \/ \E j \in Jobs, c \in Copies : Receive(j, c)
        /\ UNCHANGED sms
    BY <1>4, SurroundingStep, OtherStep DEF DropInv
  <2>2. ASSUME NEW m \in Messages, PostAccepted(m) \/ PostUnconfirmed(m),
               InSystem' = InSystem \cup {m}
        PROVE  EOR!Arrive(m)
    BY <2>1, <2>2 DEF PostAccepted, PostUnconfirmed, EOR!Arrive
  <2>3. ASSUME NEW c \in Copies, Settle(c), accepted' = accepted,
               InSystem' = InSystem \ {copies[c].msg}, InSystem' # InSystem
        PROVE  \E m \in Messages : EOR!Close(m)
    <3> DEFINE m == copies[c].msg
    <3>1. m \in InSystem /\ m \notin InSystem' /\ m \in Messages
      BY <2>3 DEF InSystem
    <3>2. ~InHand(m)
      <4>1. \A d \in Copies : d # c => copies'[d] = copies[d]
        BY <2>3 DEF Settle, QueueInv, QueueTypeOK
      <4>2. \A d \in Copies : copies[d].msg = m => d = c
        BY <3>1, <4>1 DEF InSystem
      <4>3. copies[c].place = "acking"
        BY <2>3 DEF Settle
      <4>4. ASSUME NEW j \in Jobs, task[j] = m, stage[j] \in {"handling", "republish"}
            PROVE  FALSE
        <5>1. /\ holds[j] \in Copies /\ copies[holds[j]].msg = m
              /\ copies[holds[j]].place = "unacked"
          BY <4>4 DEF DropInv, Held, QueueInv, QueueTypeOK, DeliveriesOwned
        <5> QED
          BY <4>2, <4>3, <5>1
      <4> QED
        BY <4>2, <4>3, <4>4 DEF InHand, Unattended
    <3>3. sms[m] # <<>>
      BY <3>1, <3>2 DEF DropInv, ArrivedInHand, SentInv, SentTogether
    <3>4. EOR!Close(m)
      BY <2>1, <2>3, <3>3 DEF EOR!Close
    <3> QED
      BY <3>1, <3>4
  <2> QED
    BY <2>1, <2>2, <2>3, Arrivals DEF DropInv, EOR!Next, EOR!vars
<1>5. ASSUME NEW j \in Jobs, Send(j) PROVE task[j] \in Messages /\ text[j] \in Texts
  <2>1. at[j] = "send" /\ task[j] \in Messages
    BY <1>5 DEF Send, Proceed, PipelineInv, PipelineTypeOK, QueueTypeOK
  <2> QED
    BY <2>1 DEF PipelineInv, TextInv
<1> QED
  BY <1>1, <1>2, <1>3, <1>4, <1>5 DEF EOR!Next, EOR!vars

\* Whatever is duplicated, retried, refused or left to concurrent handlers: while
\* processes, channels and the database last, every SMS that arrives is replied to once,
\* and none leaves the system before its reply is out.
THEOREM PipelineExactlyOnce ==
  ASSUME WorkMax <= StaleAfter, NothingDies,
         "db" \notin Faults, "unanswered" \notin Faults
  PROVE  PipelineSpec => ImplementsExactlyOnceReply
<1>1. PipelineInit => OnceInv
  BY OneSmsInvInit, DropInvInit DEF OnceInv
<1>2. QueueInv /\ PipelineInv /\ OnceInv /\ [PipelineNext]_pipelineVars => OnceInv'
  <2>1. "stop" \notin Faults /\ "channel" \notin Faults
    BY DEF NothingDies
  <2> QED
    BY <2>1, OneSmsInvStep, DropInvStep DEF OnceInv
<1>3. QueueInv /\ PipelineInv /\ OnceInv /\ [PipelineNext]_pipelineVars => [EOR!Next]_(EOR!vars)
  BY OnceStep
<1>4. PipelineInit => EOR!Init
  BY MessageAssumption DEF PipelineInit, QueueInit, FreeSlot, Copy, InSystem, EOR!Init
<1> QED
  BY <1>1, <1>2, <1>3, <1>4, PipelineQueueInv, PipelineInvAlways, PTL
  DEF PipelineSpec, ImplementsExactlyOnceReply, EOR!Spec
=============================================================================
