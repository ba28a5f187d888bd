# WhatUp in TLA+

WhatUp answers text messages: a carrier POSTs an inbound SMS to a webhook, the
webhook puts it on a RabbitMQ queue, a worker persists it in PostgreSQL,
generates a reply, sends it back through the carrier and records the outcome;
an admin UI shows the conversations live. The repository promises "Guaranteed
replies", "No message loss", "exactly one reply per inbound message" and "every
conversation updates in real time" (`src/README.md`, "What it does"). This
directory states those promises about the code, model-checks them with TLC and
proves the central ones with TLAPS.

Contents: [the system](#the-system), [the modules](#the-modules),
[the runs](#the-runs), [the proofs](#the-proofs), [the findings](#the-findings),
[what is not covered](#what-is-not-covered), [the plan](#the-plan).

## The system

Paths are relative to `src/whatup-backend/src/` unless they start with `src/`.

| Component | State it keeps | Operations | Talks to |
|---|---|---|---|
| Webhook (`webhook/webhook.controller.ts`) | none | `receiveSms`: enqueue, then 204 | `MessageQueue.send` |
| Work queue (`queue/rabbitmq.service.ts`) | connection, publish channel, consumer; in the broker: main, delayed retry and dead-letter queues, unacked deliveries | `send`, `consume`, `dispatch`, `retryOrPark`, `connect`/`connectLoop`, shutdown | RabbitMQ; calls the consumer's handler |
| Consumer (`worker/queue-consumer.service.ts`) | none | parses a delivery, calls `handleInbound` | queue, pipeline |
| Pipeline (`messages/messages.service.ts`) | locals of each running call | `handleInbound`: persist, claim, generate, record, send, mark | store, generator, carrier, change bus |
| Message store (`messages/messages.repository.ts`) | `messages` rows: status, `claimed_at`, unique `provider_message_id`, unique `in_reply_to` | insert inbound, claim, get-or-create reply, mark sent, mark failed, history | PostgreSQL |
| Reply generators (`reply/drivers/`) | none | `generateReply` (Claude with a deadline, or a fake that sleeps) | Anthropic API |
| Carriers (`messaging/drivers/`) | none | `sendSms` (Twilio, Zenvia, fake) | HTTP, no timeout |
| Change bus (`queue/rabbitmq-change-bus.service.ts`) | connection, channel, handlers, `subscribed`; an exclusive queue per process | `publish`, `subscribe`, reconnect | fanout exchange |
| Conversation reads (`conversations/conversations.service.ts`) | none | `list`, `get`, cache-aside | cache, PostgreSQL |
| Cache drivers (`cache/drivers/`) | entries with a time to live (Redis shared, memory per process) | `get`, `set`, `delete`, never failing | Redis |
| Cache invalidation (`conversations/cache-invalidation.service.ts`) | none | evicts two keys per hint | change bus, cache |
| Change stream (`conversations/change-stream.service.ts`) | open SSE streams | forwards hints, pings | change bus, browsers |
| Live views (`src/whatup-admin/src/lib/useLiveQuery.ts`) | data, error, loading, `cancelled` flag per effect | fetch, refetch on a relevant event, refresh, clean up | HTTP, SSE |
| Admin forms (`src/whatup-admin/src/components/ChatView.tsx`, `ConversationList.tsx`) | draft, `sending`, error of the Composer and of NewChat | type, submit, cancel; unmounted and mounted again with their view | carrier mock |
| Carrier mock (`src/twilio-mock/src/index.ts`) | a log | Messages API, `/simulate/inbound` with duplicated and delayed webhooks, inspection | webhook |

What is hard here:

- **Competing, concurrent handlers.** Workers share the queue and each runs up to
  `prefetch` dispatches. Every `await` of `handleInbound` is a point where the
  handlers of the same message interleave; only the claim and two unique
  constraints separate them.
- **Two clocks.** A delayed retry comes back after 60 s, a claim goes stale after
  90 s, and nothing bounds how long a carrier call takes.
- **Ends without an end.** A channel dies under running handlers; a process dies
  between any two steps; a call takes effect and its answer is lost.
- **Duplicates** from the carrier (the 204 may be lost) and from the broker
  (requeues, republishes).
- **Handlers without an owner.** Close handlers clear the service's fields and
  start another `connectLoop` whichever connection closed and whatever loops are
  already running; answers of a form's send outlive the form.
- **Best-effort invalidation.** Hints are at-most-once, fills race evictions,
  and the UI learns of changes only through hints.

What makes each component correct:

| Component | Properties |
|---|---|
| Work queue | nothing confirmed is lost; the dead-letter queue holds only messages that used up their attempts; a delivery has one owner, or a republish refused on its channel explains that it has none; what waits is eventually handled or parked; together: at-least-once |
| Its connection, and the change bus's | the fields name open connections; a set `consuming` flag has a consumer; connections are accounted for; a process that is up always has its connection, or a loop at work on one; no dial after shutdown; the queue service ends up with a publish channel and a consumer |
| Pipeline and store | one live handler per message; every SMS carries the recorded text; the two rows agree on "sent", and sent is final; at most one SMS, and one more per fault at worst; nothing dropped; every message replied to or parked; together: exactly-once replies |
| Reads and cache | bounded staleness whatever hints are lost; convergence once writes stop |
| Live views | a view shows its own conversation; it stops loading; it catches up |
| Forms | a form is disabled exactly while a send of its own is under way, and not for ever; a 202 clears only what was sent; a text goes out twice only after an error; what leaves a form is on the queue |

The hazards behind these are listed one by one, at their lines, in
`PROJECT.json`.

## The modules

```
InboundMessages            Messages, None
   |          \
WorkQueue      MessageStore       AtLeastOnce       ExactlyOnceReply
   |    \        /      |           (abstract)          (abstract)
   |     Pipeline ------+               ^                   ^
   |        |     implements -----------+---- under faults --+
   |        |
   |   ReplyContext                 ReadPath  <--EXTENDS--  LiveQuery
   |
   +- its Reconnect, in detail: BrokerConnection      before its POSTs: Composer

WorkQueueProofs  <-  PipelineProofs  <-  PipelineFaultProofs
                          ^-----------  ReplyContextProofs
ReadPathProofs   <-  LiveQueryProofs
BrokerConnectionProofs   ComposerProofs
MCWorkQueue  MCBrokerConnection  MCPipeline  MCReplyContext  MCReadPath
MCLiveQuery  MCComposer
```

- **`WorkQueue`**: `RabbitMqService` with the broker and the webhook. `copies` is
  the broker: a pool of slots, each free or holding a copy of a message in the
  main, retry or dead-letter queue, unacked, or with an ack on its way. `stage`,
  `task` and `holds` are the running `dispatch()` calls: `holds[j] = None` on a
  running job means that its channel is gone. One action per awaited call:
  `Deliver`, `HandlerResolves`/`HandlerRejects`, `Ack`, `Republish`/`Park`,
  `AckOriginal`, `Abandon` (the catch block), `AckOnDeadChannel` (the ack that is
  outside the try block: the process exits). Broker: `Settle`, `Expire`,
  `QueueTick`. Webhook: `PostAccepted`, `PostUnconfirmed` (stored, but the carrier
  sees an error), `PostRejected`; each is one POST of the carrier (`Posted`: the
  mock delivers a webhook once or twice, a real carrier again after an error).
  Faults, each of a kind that must be in `Faults`: `LoseChannel`, `Stop`, `RepublishNacked`.
  `nacked` is a history variable that no guard reads: the republishes refused on each
  worker's present channel, back to 0 when that channel closes. Delivery takes any ready copy, so FIFO
  order, requeueing at the head and competing consumers are all included.
- **`BrokerConnection`**: what `Reconnect` leaves out, for either service that
  holds a connection (`service` says which; they differ in a few steps and share
  nothing). `at[l]` is the call that the running `connectLoop` `l` awaits, `on[l]`
  the connection it awaits it on; `Boot` is the `startConsumer()` that `consume()`
  or `subscribe()` calls itself. The fields of the class are variables of the same
  name. `Closes` is a close event with everything that runs in the same turn: the
  handler clears all fields and starts a loop, and the calls pending on that
  connection are rejected. Two facts of the library are taken from how the code
  uses it: pending calls are rejected when their connection closes, and a channel
  error closes the connection when nobody listens for it (the comment at
  `rabbitmq.service.ts:54`).
- **`MessageStore`**: the repository's statements as operators on the inbound row
  and the single possible reply row of each message. Each is one SQL statement or
  transaction, hence atomic. `claimAge` counts ticks since `claimed_at`.
- **`Pipeline`**: extends both; `at[j]` is the call of `handleInbound` that job `j`
  awaits. Each call has its success action and its failure action(s); a database
  failure may or may not have taken effect, a carrier failure may or may not have
  sent the SMS. `Receive` is the queue's `Deliver`, `Return` its `HandlerResolves`,
  `Throw` its `HandlerRejects`, so the pipeline is the queue with the handler
  filled in (theorem `PipelineRunsQueue`). `Tick` advances the retry queue, the
  claims and the running handlers together; `WorkMax` bounds how long a live
  handler works. The generator is a free choice of text on every call.
- **`ReplyContext`**: extends `Pipeline` with what a reply is generated from.
  `thread[c]` is the rows of a conversation in the order of `created_at`;
  `ReadHistory` is the `conversationHistory` query, a step of its own before the
  generation, and `context[j]` what it returned. `created_at` is the time of
  insertion, so the order is the order of processing, which need not be the order
  in which the messages were sent. A row in the thread may be a reply that was
  recorded and never went out: the query does not look at the status. `Earlier`
  holds the histories that conversations may begin with: exchanges that are over
  (`Past`), each message once and before its reply.
- **`AtLeastOnce`, `ExactlyOnceReply`**: what the `MessageQueue` port and the
  product promise, without mechanism. `WorkQueue!ImplementsAtLeastOnce` and
  `Pipeline!ImplementsExactlyOnceReply` state the refinements.
- **`ReadPath`**: `ConversationsService`, the cache, the change bus and the
  invalidation. Data is its *version*: how many writes had affected the query when
  it was read. A request walks `lookup`, `read` (and `messages` for one
  conversation: `get` makes two queries), `fill`, `reply`. A hint is `Publish`ed
  to every listening process, handled (`HandleHint` issues the delete) and then
  executed by the cache (`Evict`); a process's commands reach the cache in order
  (`Settled`). `superseded` is a history variable: how long ago each version was
  replaced.
- **`LiveQuery`**: extends `ReadPath` with views. `Navigate` is the effect's
  cleanup and the new effect's start; `Answered`/`Ignored` are the two sides of
  `if (cancelled) return`; `Broadcast` is the consumer callback that runs both
  subscribers (eviction issued, event sent); `Refetch` does not cancel the fetches
  already under way.
- **`Composer`**: the two forms of the admin UI and the mock's
  `/simulate/inbound`. A send is a slot: `stage` is how far the mock has got with
  it, `awaiting` the form that will take its answer, `None` once that form was
  unmounted or its fetch has failed. `ChatView` renders the Composer only with
  data, so a navigation and a failing refetch unmount it (`UnmountChat`), and a
  later answer finds another Composer in its place. NewChat is closed and opened,
  never unmounted. `WebhookAnswers` is one POST to the webhook, seen from outside:
  204 once the message is on the queue, a failure whether it is or not.
- **`MC*`** only give constants their values. **`*Proofs`** hold the theorems.
- Operators commented *Mutant* are plausible bugs of the operator that follows
  them. No specification uses one; `PROJECT.json` pairs each property with the
  mutant that breaks it, as evidence that the property can fail.

## The runs

`tlc -config X.cfg M`. All runs fit in a few minutes on two cores.

| Run | Configuration | Checks | Distinct states |
|---|---|---|---|
| `queue` | `MCWorkQueue.cfg` | `QueueTypeOK`, `NoLoss`, `ParkedAfterAllAttempts`, `DeliveriesOwned`, `UnattendedExplained`, `ImplementsAtLeastOnce`, `EventuallyHandledOrParked` | 140,906 |
| `broker_connection` | `MCBrokerConnection.cfg` | `LinkTypeOK`, `FieldsOpen`, `ConsumingIsTrue`, `ConnectionsExplained`, `NeverStranded`, `NoDialAfterShutdown`, `EventuallyServing` | 46,106 |
| `pipeline_once` | `MCPipelineOnce.cfg` | `OneSmsPerFault`, `SentIsFinal`, `ExclusiveProcessing`, `SentTogether` | 1,216,704 |
| `pipeline_benign` | `MCPipelineBenign.cfg` | `ImplementsExactlyOnceReply`, `EventuallyRepliedOrParked` | 393,125 |
| `pipeline_store` | `MCPipelineStore.cfg` | `NothingDropped`, `PipelineTypeOK`, `SameText` | 855,231 |
| `find_stop_drops` | `MCFindStopDrops.cfg` | `NothingDropped` **violated** | |
| `find_exit_resends` | `MCFindExitResends.cfg` | `AtMostOneSms` **violated** | |
| `reply_context` | `MCReplyContext.cfg` | `ContextTypeOK`, `OwnTurnsExcluded`, `ThreadWellFormed`, `FollowUpsInContext`, `RetriesExtendContext` | 626,368 |
| `read_path` | `MCReadPath.cfg` | `ReadTypeOK`, `StalenessBounded`, `CacheConverges` | 401,902 |
| `live_query` | `MCLiveQuery.cfg` | `LiveTypeOK`, `ShowsItsQuery`, `EventuallyLoaded` | 245,503 |
| `find_stale_view` | `MCFindStaleView.cfg` | `ViewsCatchUp` **violated** | |
| `composer` | `MCComposer.cfg` | `ComposerTypeOK`, `SendingTrue`, `DraftUntouched`, `SendsExplained`, `TakenIsQueued`, `SendingEnds` | 203,644 |

What each shows, and why it is set up as it is:

- `queue`: one message, two processes with a running dispatch each, two faults of
  any kind at any point. Two processes are enough for a requeue to overtake a
  running handler, two attempts for the last one to be distinct from the first, two
  faults for a republished copy and its unacked original to meet different ends.
  A single POST suffices, because a republish whose original is requeued already
  gives two copies with different attempt counts. That larger instances hold no
  surprise for the invariants and for `ImplementsAtLeastOnce` is proved below.
  `EventuallyHandledOrParked` makes one exception: a message of which an
  *unattended* copy is left (unacked, on a live channel, with no dispatch to ack
  it). `UnattendedExplained` says which those are: on each channel, as many as the
  broker has refused republishes there, no more and no fewer, whatever channels were
  lost and processes stopped before.
- `broker_connection`: each service with three loops and three connections, and two
  connections lost or refused. Two faults are what it takes for one loop's set-up
  to fail, a second one to start, and one of their connections to be lost while the
  other is being set up. With a third fault and four loops and connections
  (2,622,240 states) the invariants hold as well; that they do with any number is
  proved below.
- `pipeline_once`: what a second SMS costs. Generator failures, carrier refusals,
  duplicates and retries never cause one, and each lost channel or stopped process
  causes at most one more (`OneSmsPerFault`; `find_exit_resends` shows that one can).
  One handler per process bounds the run; the proof below does without. Left out are the two faults that are not
  counted and resend on their own: a response of the carrier that is lost
  (`unanswered`) and a database error after the send (`db`). `SentIsFinal` needs
  only `db` left out: `markFailed` is unconditional, so a `markSent` that committed
  but whose answer was lost is overwritten. `ExclusiveProcessing` and `SentTogether`
  are checked here at the boundary `StaleAfter = WorkMax` of the assumption "no
  live handler works longer than a claim lasts", and proved for all faults.
- `pipeline_benign`: duplicates, three concurrent handlers, failing generators and
  refusing carriers, no crashes: there the whole system is exactly-once, and live.
- `pipeline_store`: with a retry delay *longer* than the stale-claim age
  (`RetryDelay = 2`, `StaleAfter = 1`), no error of database, generator or carrier and
  no refused republish drops a message, not even when a slow handler (`WorkMax = 2`) is overtaken by a
  second one. The configured 60 s and 90 s are the other way round. Only here does
  `SkipSent` happen: a slow handler sends, the one that took its claim over fails
  and marks the row failed, and the retry finds the reply sent. (It then returns
  and leaves the inbound row at "processing", so `SentTogether` is not claimed for
  slow handlers.) `SameText` is checked here because it must hold for overtaken
  handlers too; it is also proved. `markFailed` does overwrite "sent" in this run
  (`SentIsFinal` does not hold there): `NothingDropped` then says that the message is
  tried again.
- `reply_context`: two messages of one conversation, a history limit of two, a
  conversation that is new or has one exchange behind it, and one stopped process
  or lost channel: enough for a retry to follow the other message's whole
  processing, for an attempt's history to be cut off at the limit, and for the
  message's own reply to be in the table when a later attempt reads.
- `find_*` runs use one tick = 30 s: `RetryDelay = 2`, `StaleAfter = 3`.
- `read_path`: one write against two overlapping requests, every fault. One write
  suffices for a fill to race an eviction; the time to live of two ticks and a
  request of one make entry age, request time and staleness distinct.
- `composer`: both forms, two texts and two sends, so that the answer of an
  unmounted Composer's send can meet another Composer's send, and one failing fetch
  per text.
- `live_query`: two conversations, so that a view can be moved with requests of
  the old effect under way; failing queries; reconnecting streams.

Changing `Faults` in a configuration shows the neighbouring behaviours:
`{"channel", "refused"}` and `{"db"}` break `NothingDropped` in
`MCFindStopDrops.cfg`; `{"unanswered"}` and `{"db"}` break `AtMostOneSms` with
`OnePerWorker` jobs; `WorkMax = 4` in place of 2 breaks `ExclusiveProcessing`.

**Bounds.** `MaxPosts` (POSTs of a message), `MaxFaults` (lost channels, stops and
nacks; database, generator and carrier failures are not counted), `MaxWrites`,
`MaxVisits` and the sizes of `Copies`, `Jobs`, `Requests`, `Loops`, `Connections`
and `Sends` are the only bounds. A full `Copies` pool blocks a publish; the pools
hold a copy for each POST of a run, one for each original that a fault leaves
behind its republished copy, and the one a republish adds (`queue`: 1 + 2 + 1). A
loop that starts needs an idle slot of `Loops`, of which a run has one for each
fault and one more. `SYMMETRY` (slots of the broker,
reply texts, and in `reply_context` the messages of the conversation) is used in
safety runs only.

**Deadlock** is not checked: POSTs and writes are bounded, so a run in which
everything has been answered comes to rest. That nothing rests too early is what
the liveness properties say.

**Fairness.** `FairQueueSpec` and `FairPipelineSpec` assume weak fairness of the
disjunction of everything that runs by itself (deliveries, awaited calls, acks,
timers, reconnect loops): the system does not stop altogether while it has
something to do. Nothing is assumed of POSTs or faults, nor that a particular
call succeeds. `FairReadSpec` and `FairLiveSpec` assume that each request
proceeds, that issued deletes and published hints are executed, that a browser
reconnects its stream and starts the fetch an event asks for (strongly fair,
because the model's pool of requests may be full now and then; a browser has no
such pool), and that time passes (strongly fair, because the model stops its
clock for a request that has used up `ReadMax`). `FairLinkSpec` assumes that every
call on a connection is answered or rejected and that the retry timer fires,
`FairComposerSpec` that the mock and the webhook answer each send and that the
browser takes the answer.

## The proofs

`tlapm` checks every leaf of the eight `*Proofs` modules. The theorems hold for
every number of messages, workers, jobs, slots, texts, connections, loops, caches,
requests, views, forms and sends, and every value of the timing constants, within
the named `ASSUME`s of the modules (jobs run in workers, counts are naturals,
`None` is none of them, pools that are counted are finite, earlier histories are
well-formed). Unless the table says otherwise they hold for every choice of faults
too.

| Theorem | States |
|---|---|
| `QueueTyping`, `QueueOwnership` | `QueueSpec => [](QueueTypeOK /\ DeliveriesOwned)` |
| `QueueNoLoss` | `QueueSpec => []NoLoss` |
| `QueueParking` | `QueueSpec => []ParkedAfterAllAttempts` |
| `QueueUnattended` | `QueueSpec => []UnattendedExplained` |
| `QueueImplementsAtLeastOnce` | `QueueSpec => ImplementsAtLeastOnce` |
| `PipelineRunsQueue` | `PipelineSpec => QueueSpec` |
| `PipelineTyping` | `PipelineSpec => []PipelineTypeOK` |
| `PipelineSameText` | `PipelineSpec => []SameText` |
| `PipelineExclusive` | `PipelineSpec => []ExclusiveProcessing`, if `WorkMax <= StaleAfter` |
| `PipelineSentTogether` | `PipelineSpec => []SentTogether`, if `WorkMax <= StaleAfter` |
| `PipelineSentIsFinal` | `PipelineSpec => SentIsFinal`, if `WorkMax <= StaleAfter` and no `db` fault |
| `PipelineOneSmsPerFault` | `PipelineSpec => []OneSmsPerFault`, if `WorkMax <= StaleAfter` and no `db` or `unanswered` fault |
| `PipelineAtMostOneSms` | `PipelineSpec => []AtMostOneSms`, if `WorkMax <= StaleAfter`, no `db`, `unanswered` or `stop` fault, and one job per process or no `channel` fault |
| `PipelineNothingDropped` | `PipelineSpec => []NothingDropped`, if no `channel` or `stop` fault, and `RetryDelay > StaleAfter` or no `db` fault |
| `PipelineExactlyOnce` | `PipelineSpec => ImplementsExactlyOnceReply`, if `WorkMax <= StaleAfter` and only `reply`, `refused` and `nack` faults |
| `ContextRunsPipeline` | `ContextSpec => PipelineSpec` |
| `ContextSameText` | `ContextSpec => []SameText` |
| `ContextThreadWellFormed` | `ContextSpec => []ThreadWellFormed` |
| `ContextTyping`, `ContextOwnTurns`, `ContextFollowUps`, `ContextRetries` | `ContextSpec => []` each of `ContextTypeOK`, `OwnTurnsExcluded`, `FollowUpsInContext`, `RetriesExtendContext` |
| `LinkTyping`, `LinkFieldsOpen`, `LinkConsuming` | `LinkSpec => []` each of `LinkTypeOK`, `FieldsOpen`, `ConsumingIsTrue` |
| `LinkNoDial` | `LinkSpec => NoDialAfterShutdown` |
| `LinkExplained` | `LinkSpec => []ConnectionsExplained` |
| `LinkNeverStranded` | `LinkSpec => []NeverStranded` |
| `ReadTyping`, `ReadStaleness` | `ReadSpec => []ReadTypeOK`, `ReadSpec => []StalenessBounded` |
| `LiveRunsReadPath`, `LiveStaleness` | `LiveSpec => ReadSpec`, `LiveSpec => []StalenessBounded` |
| `LiveTyping`, `LiveShowsItsQuery` | `LiveSpec => []LiveTypeOK`, `LiveSpec => []ShowsItsQuery` |
| `ComposerTyping`, `ComposerSendingTrue`, `ComposerDraftUntouched`, `ComposerSendsExplained`, `ComposerTakenIsQueued` | `ComposerSpec => []` each of `ComposerTypeOK`, `SendingTrue`, `DraftUntouched`, `SendsExplained`, `TakenIsQueued` |

The arguments, the queue and the pipeline first:

- `QueueInv` is the type invariant with `DeliveriesOwned`; neither is inductive
  alone, because a job's next step looks at the slot it holds.
- `NoLoss` says that a confirmed message is resolved or *owed*. A message stops
  being owed when its last secure copy is acked, so the induction must know that
  whatever is acked was resolved or handed on. `KeptInv` says so: a job about to
  ack has had its message resolved (`HandledBeforeAck`), and the message of every
  running job and of every copy in the broker is resolved or owed (`TasksKept`,
  `CopiesKept`). `OwedStep` shows that no step makes an owed message
  unowed unless it is resolved.
- `ParkedAfterAllAttempts` follows from `AttemptsCounted`: the attempt number of a
  copy never exceeds the failures counted for its message plus one, and a job that
  is about to republish has already counted its own.
- `UnattendedExplained` counts the lost slots of one channel (`LostSlots`):
  `RepublishNacked` adds the one slot of its job and one to `nacked`, a channel that
  closes empties the one and resets the other, and no other step touches either
  (`LostSlotsStep`, which needs `DeliveriesOwned`: what a job acks was not lost).
- Refinement: `RefinementStep` maps each queue step to a `Promise`, `Store`,
  `Handle`, `Forget`, `Return` or a stutter of `AtLeastOnce`.
- `PipelineRunsQueue` lets every queue theorem be used for the pipeline.
- `SameText` needs `TextInv`: a job past `lookup` holds the recorded text, which no
  later attempt changes.
- `ExclusiveProcessing` needs `ClaimHeld`: a job past the claim holds a row that is
  not claimable, because the row's age and the job's `elapsed` count the same ticks
  and `elapsed` stops at `WorkMax`. This is where the assumption enters; without it
  the property is false (`WorkMax = 4` above).
- `SentTogether` needs exclusivity and `ClaimHeld` (only the one working job can
  move either row, and `SkipSent` is its only way out that moves none), and that an
  SMS has gone out before `markSent` is called (`SentInv`).
- `Effect` and `Outcome` (`PipelineFaultProofs`) sum up the seventeen actions of
  `handleInbound` by what they do to the rows, the SMSs and the delivery; the
  theorems of that module use those instead of the actions.
- `SentIsFinal` needs `RowsHeld`: without database errors the row of a working job
  is "processing", so neither `markFailed` nor another attempt meets a "sent" one.
- `OneSmsPerFault` needs `SmsCounted`. The SMSs of a message number at most one per
  death of a process, and one more while a job is between its send and `markSent` or
  once the reply is marked sent (`Accounted`, `SmsWithin`): only the death of that job's
  process forgets the SMS it was about to record. A stop counts its own fault. The exit
  that an ack on a dead channel causes counts none, so it is paid for in advance: a
  process with a handler that has outlived its channel is `Doomed`, each lost channel
  dooms one process, and the budget is `faults` less the number of doomed ones. One
  death ends all handlers of a process, but of a message at most one was at work.
- `AtMostOneSms` is the same count with a budget of zero (`OneSmsInv`). No working call
  is ended early (`SparedStep`): nothing stops a process from outside, and the exit is
  of a process whose only handler is done, or never happens because every running job
  still has its delivery (`Held`). Every hypothesis is necessary: TLC finds a second SMS
  with any one of them dropped, `find_exit_resends` being the last.
- `NothingDropped` needs `DropInv`. A message that is not replied to is *in hand*:
  a copy is ready, delayed, parked or unattended (which, while channels last, it stays:
  `UnattendedStays`), or a job has yet to decide about it (`InHand`). A fresh claim is `Covered`: its owner is at work, or, when the
  owner could not even record its failure, a delayed copy will come back when the
  claim has gone stale (`Waits`): the claim's age and the copy's time to live run on
  the same clock, and this is where `RetryDelay > StaleAfter` enters. So the
  delivery that finds a fresh claim, and is dropped as a duplicate, is never the
  last one. With `>=` in its place the proof breaks at that step.
- `ExactlyOnceReply` needs all of these at once (`OnceInv`): at most one
  SMS per message, known to the database or about to be, and nothing dropped on the way.
- `ContextRunsPipeline` maps the history read to a stutter and every other step to
  the pipeline's step it contains, so the pipeline's theorems hold of
  `ReplyContext`; `ContextSameText` is one of them.
- `ThreadWellFormed` needs `ThreadInv`, which ties the threads to the table: a turn
  is in a thread only if its row exists (`TurnsAreRows`), so that a row inserted once
  is appended once; and a call past its insert has its inbound row
  (`RowsInserted`), so that a reply never precedes its message.
- What a history contains needs `ContextInv`. `OwnTurnsExcluded` holds where the history
  is read, and the message of a call does not change under it. `FollowUpsInContext` and
  `RetriesExtendContext` are about threads that have grown since: `FollowsUpStays` adds
  the turns that come later, and `FirstWasHistory` ties what the first attempt read to a
  prefix of the thread as it is now, without the message's own turns. Those are then the
  first attempt's and the later ones', and each history is an end of at most
  `HistoryLimit` of them (`EndOf`, `LatestExtends`).
- The query's filter is `Without(s, m)`, a `SelectSeq`, which the library defines by a
  recursive function. `WithoutIsPass` gives it as a function `Pass` over `0..Len(s)` and
  `WithoutKeeps` says what it keeps: an order-preserving one-to-one match with the turns
  that are not of `m`. Both are shown by induction over the length, as a first-order
  argument for a *set* of naturals (`Induction`, from the library's well-foundedness of
  `<`), which needs no operator as a parameter.

The connections, the reads and the UI:

- `LinkInv` is `LinkTypeOK`, `FieldsOpen`, `ConsumingIsTrue` and, for the change bus,
  a channel while consuming (`ChannelWhileConsuming`): the close handler clears all
  fields together, and a call that lands later sets them together.
  `ConnectionsExplained` balances three cardinalities over every step: a close frees
  a connection and starts a loop; only a `connect()` rejected after its connection
  had opened leaves a connection behind while its loop goes on.
- `NeverStranded` is inductive with `LinkInv`: a close clears the fields, and starts a
  loop in the same turn; the last loop that is still coming (`Coming`) ends only by
  setting the channel, and one that is `Landing` by setting the connection; a boot that
  is rejected ends the process. So the fields that a late close handler clears are set
  again by the loop that the same handler starts.
- `ReadTyping` needs the counters of hints bounded, hence `HintsCounted`: per
  conversation and process, hints to be published, queued or being evicted never
  exceed the writes. `LiveTyping` carries the same count on to the events of a
  stream (`EventsCounted`).
- `StalenessBounded` needs `CarriedSince`, that what a request carries from the
  database to the cache was replaced no earlier than the request arrived, and
  `CurrentIsFresh`, that the version a read returns is not replaced yet. `CacheOf`
  is arbitrary, so the theorem covers the shared Redis cache and the memory cache of
  each process alike.
- `LiveRunsReadPath` maps every step of the views to a step of the read path or a
  stutter. `ShowsItsQuery` needs `AsksForIts`: a request that is not cancelled asks
  for what its view has mounted.
- `SendingTrue` and `DraftUntouched` hold by one invariant (`FormInv`: at most one
  send awaits a form, and the disabled form keeps the text of it). `SendsExplained`
  follows from `SendsEarned`, that a text which could be submitted now has had an error
  for each send so far; no text is in two inputs (`DraftsDistinct`). `TakenIsQueued` rests on the mock's
  receipt (`ReceiptTrue`).

Left to TLC: liveness (`EventuallyHandledOrParked`, `EventuallyRepliedOrParked`,
`EventuallyServing`, `CacheConverges`, `EventuallyLoaded`, `SendingEnds`), which the
prover does not reach, and the three properties that the findings violate. Every other
property of the runs is a theorem; `NothingDropped` and `AtMostOneSms` are theorems
under the hypotheses that their findings drop.

## The findings

1. **A crash after the claim strands the message** (`find_stop_drops`). The broker
   redelivers at once, the claim is younger than 90 s, and the redelivery is acked
   as a duplicate (`messages.service.ts:67`): no copy remains to take the stale
   claim over. The README says that crashed workers don't strand messages. A
   channel lost under a handler that then fails, and a database error that also
   hits `markFailed` (retry after 60 s, stale after 90 s), lead to the same end.
   `PipelineNothingDropped` says what would exclude the latter: a retry delay longer
   than the stale-claim age.
2. **An ack on a dead channel resends another handler's SMS**
   (`find_exit_resends`). `dispatch` acks outside its try block
   (`rabbitmq.service.ts:181`); the unhandled rejection ends the process, and a
   sibling handler between `sendSms` and `markSent` is repeated after takeover. A
   lost carrier response or a failing `markSent` resends too: the unique
   constraint protects the row, not the SMS. `PipelineAtMostOneSms` says when
   none is: with one handler per process, or while channels last.
3. **A view can stay stale although no hint was lost** (`find_stale_view`). A read
   from before a write fills the cache after the write's eviction
   (`conversations.service.ts:81`); the refetch of the hint hits that entry, and
   its expiry triggers nothing. `CacheConverges` still holds: the entry goes, the
   screen does not.

Other remarks of the code and its documents are weaker than they read, and a
property states what holds in their place:

- "A retry or another worker regenerates the identical context"
  (`messages.service.ts:80-81`; likewise `reply/drivers/claude.driver.ts:91-92` and
  `reply/types/reply-generator.ts:18-19`). A retry reads the table anew: it sees
  what other messages of the conversation added since, and the limit then pushes
  older turns out (`RetriesExtendContext`).
- "Each failure is republished" (`src/docs/DESIGN.md:111`). When the broker refuses the
  republish on a live channel, `retryOrPark` throws, `dispatch` logs it
  (`rabbitmq.service.ts:174-178`) and the original stays unacked until the channel
  dies, occupying a prefetch slot; the comment covers only a dying channel. It is
  not lost (`NoLoss`), and `UnattendedExplained` counts these deliveries, channel by
  channel.
- "202 means 'queued'" (`src/whatup-admin/src/components/ChatView.tsx:65`). The mock
  answers 202 even if every webhook call was refused, and the form clears the draft;
  the receipt says so, and nothing reads it (`TakenIsQueued`).
- A 202 that is lost leaves the text in the form, and sending it again gives it a new
  MessageSid, so it is answered twice (`SendsExplained`). A refetch that fails
  unmounts the Composer, and the draft with it.
- `prefetch` per worker (`src/README.md:139`, `src/docs/DESIGN.md:323`): two loops that race after
  a set-up failed can each leave a connection with a consumer, so one worker can have
  twice as many deliveries (`ConnectionsExplained` counts such connections). A
  connect that is under way at the shutdown still opens its connection, which lasts
  until the process exits.

## What is not covered

- The `conversations` row: `upsertConversation` bumps `last_message_at`, on every
  delivery and before the message's own row is inserted; only the list query orders by
  it. The body of a turn and the wording of the prompt.
- What `Reconnect` and `RejoinBus` abstract from is `BrokerConnection`; that its
  connection with a consumer refines the flag of `WorkQueue` and `ReadPath` is argued in
  the text above, not checked.
- `WorkQueue` gives each process one consumer at a time. The states of
  `BrokerConnection` in which an abandoned connection still holds a consumer of the same
  process are not composed with deliveries.
- A consumer that the broker cancels (the null message that `rabbitmq.service.ts:160`
  and `rabbitmq-change-bus.service.ts:126` skip) would leave `consuming` set with no consumer. It takes a queue that is deleted
  or whose node is lost; that no one does is an assumption on the environment.
- Redis's own connection: a command that finds it down is the `cache` fault.
- The HTTP exchanges of the carriers and the generator, beyond their outcome; the
  mock's log and inspection endpoints.
- An unbounded crash loop: a delivery requeued after a crash keeps its `x-attempt`, so
  a message that crashes its worker every time is never parked. The runs bound the
  number of crashes.
- A reconnecting `EventSource` does not refetch: `live_query` includes lost streams, and
  `ViewsCatchUp` is claimed only of a stream that never drops (and fails even so).
- Validation, adapters, formatting, metrics and traces, modules and bootstrap,
  configuration parsing, rendering and routing: no state the properties speak of.
- Broker restarts: the queues are durable and messages persistent, so a restart is
  a lost channel for every worker.

## The plan

Done, in order of importance: work queue, pipeline with its store, read path, live
views, reply context, broker connections, admin forms; the invariants of all of
them, the action properties, both refinements, and that the reply context runs the
pipeline and the live views the read path.

Next:

1. The order of the conversation list: `upsertConversation` and the insert as two steps,
   and how far "most recent first" (`src/docs/DESIGN.md:215`) holds with duplicates,
   retries and two conversations at once.
2. The refinement from `BrokerConnection` to the flag `connected` of `WorkQueue`: the
   queue composed with one connection per worker, whose deliveries and consumers are
   those of the connection.
