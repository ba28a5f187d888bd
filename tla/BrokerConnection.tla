--------------------------- MODULE BrokerConnection ---------------------------
(***************************************************************************)
(* How a process keeps its connection to the broker: connectLoop, connect,  *)
(* the close handler and startConsumer of RabbitMqService ("queue") and of  *)
(* RabbitMqChangeBusService ("changes").  The two share no state and differ *)
(* in a few steps, so a behaviour follows one of them.                      *)
(*                                                                         *)
(* There is one step per awaited call.  connectLoop can run more than once  *)
(* at a time: every close event starts another one, whatever the loops that *)
(* are already running do, and every close event clears the fields of the   *)
(* service, whichever connection they belong to.                            *)
(***************************************************************************)
EXTENDS Integers, FiniteSets

CONSTANTS
  Services,     \* "queue", "changes"
  Loops,        \* running invocations of connectLoop
  Boot,         \* the startConsumer that consume() or subscribe() calls itself
  Connections,  \* connections that can be open at once
  None,         \* no connection
  MaxFaults     \* bound: refused and lost connections together

ASSUME ServiceAssumption == Services \subseteq {"queue", "changes"}
ASSUME PoolAssumption ==
  /\ Loops # {} /\ Boot \notin Loops /\ None \notin Connections
  /\ IsFiniteSet(Loops) /\ IsFiniteSet(Connections)
ASSUME FaultAssumption == MaxFaults \in Nat

VARIABLES
  service,     \* which of the two services
  phase,       \* "up": this.running; "down": onModuleDestroy was called; "exited"
  registered,  \* this.handler is set, this.handlers is not empty
  connection,  \* this.connection
  channel,     \* the connection of this.publishChannel, of this.channel
  consuming,   \* this.consuming, this.subscribed
  at,          \* at[l]: the call that l awaits
  on,          \* on[l]: the connection l awaits it on
  open,        \* connections the broker considers open
  consumers,   \* those with a consumer
  thrown,      \* connect() calls rejected after their connection had opened (history)
  faults       \* refused and lost connections so far

fieldVars == <<connection, channel, consuming>>
linkVars == <<service, phase, registered, fieldVars, at, on, open, consumers, thrown, faults>>

Calls == Loops \cup {Boot}

FirstLoop == CHOOSE l \in Loops : TRUE

-----------------------------------------------------------------------------
\* onModuleInit() starts the first loop; a service without a handler (the queue
\* of an API process, the changes of a worker) never registers one.
LinkInit ==
  /\ service \in Services
  /\ phase = "up"
  /\ registered = FALSE
  /\ connection = None
  /\ channel = None
  /\ consuming = FALSE
  /\ at = [l \in Calls |-> IF l = FirstLoop THEN "dialing" ELSE "idle"]
  /\ on = [l \in Calls |-> None]
  /\ open = {}
  /\ consumers = {}
  /\ thrown = 0
  /\ faults = 0

Goes(l, to, c) ==
  /\ at' = [at EXCEPT ![l] = to]
  /\ on' = [on EXCEPT ![l] = c]

Fault == faults < MaxFaults /\ faults' = faults + 1

-----------------------------------------------------------------------------
(* connectLoop() and connect().                                            *)

\* Connections are interchangeable: any that is not open will do.
Fresh == CHOOSE c \in Connections : c \notin open

\* amqp.connect() resolves.
Connected(l) ==
  /\ at[l] = "dialing"
  /\ Connections # open
  /\ open' = open \cup {Fresh}
  /\ Goes(l, "topology", Fresh)
  /\ UNCHANGED <<service, phase, registered, fieldVars, consumers, thrown, faults>>

\* amqp.connect() rejects: the broker is down.
Refused(l) ==
  /\ at[l] = "dialing"
  /\ Fault
  /\ Goes(l, "waiting", None)
  /\ UNCHANGED <<service, phase, registered, fieldVars, open, consumers, thrown>>

\* Mutant: connectLoop does not look at this.running.
RetryAnyway(l) ==
  /\ at[l] = "waiting"
  /\ Goes(l, "dialing", None)
  /\ UNCHANGED <<service, phase, registered, fieldVars, open, consumers, thrown, faults>>

\* Mutant: connectLoop tries once.
RetryNever(l) ==
  /\ at[l] = "waiting"
  /\ Goes(l, "idle", None)
  /\ UNCHANGED <<service, phase, registered, fieldVars, open, consumers, thrown, faults>>

\* Three seconds later; the loop's condition is this.running.
Retry(l) ==
  /\ at[l] = "waiting"
  /\ Goes(l, IF phase = "up" THEN "dialing" ELSE "idle", None)
  /\ UNCHANGED <<service, phase, registered, fieldVars, open, consumers, thrown, faults>>

\* Mutant: connectLoop does not return once connect() has resolved.
LandsAgain(l) ==
  /\ connection' = on[l]
  /\ IF registered /\ ~consuming
     THEN consuming' = TRUE /\ Goes(l, "opening", on[l])
     ELSE Goes(l, "dialing", None) /\ UNCHANGED consuming
  /\ UNCHANGED <<service, phase, registered, open, consumers, thrown, faults>>

\* The end of connect(): this.connection is set, and startConsumer() goes on
\* with its first call unless there is no handler or it has been here before.
Lands(l) ==
  /\ connection' = on[l]
  /\ IF registered /\ ~consuming
     THEN consuming' = TRUE /\ Goes(l, "opening", on[l])
     ELSE Goes(l, "idle", None) /\ UNCHANGED consuming
  /\ UNCHANGED <<service, phase, registered, open, consumers, thrown, faults>>

\* The queues are declared: this.publishChannel is set, this.connection is not.
QueuesAsserted(l) ==
  /\ service = "queue"
  /\ at[l] = "topology"
  /\ channel' = on[l]
  /\ Goes(l, "landing", on[l])
  /\ UNCHANGED <<service, phase, registered, connection, consuming, open, consumers,
                 thrown, faults>>

\* The metrics channel is there.
QueueLands(l) ==
  /\ service = "queue"
  /\ at[l] = "landing"
  /\ Lands(l)
  /\ UNCHANGED channel

\* The exchange is declared: both fields are set at once.
ChangesLand(l) ==
  /\ service = "changes"
  /\ at[l] = "topology"
  /\ channel' = on[l]
  /\ Lands(l)

-----------------------------------------------------------------------------
(* consume(), subscribe(), startConsumer().                                *)

\* The connection a startConsumer() called now would use.
Usable == IF service = "queue" THEN connection ELSE channel

\* Mutant: neither consume() nor startConsumer() asks whether there is a connection.
RegisterUnchecked ==
  /\ phase = "up" /\ ~registered
  /\ registered' = TRUE
  /\ IF consuming
     THEN UNCHANGED <<consuming, at, on>>
     ELSE consuming' = TRUE /\ Goes(Boot, "opening", Usable)
  /\ UNCHANGED <<service, phase, connection, channel, open, consumers, thrown, faults>>

\* The handler is there: attach now, or leave it to the loop under way.
Register ==
  /\ phase = "up" /\ ~registered
  /\ registered' = TRUE
  /\ IF Usable # None /\ ~consuming
     THEN consuming' = TRUE /\ Goes(Boot, "opening", Usable)
     ELSE UNCHANGED <<consuming, at, on>>
  /\ UNCHANGED <<service, phase, connection, channel, open, consumers, thrown, faults>>

\* Where startConsumer() makes its next call: the queue's holds on to the channel
\* it opened, the changes' reads this.channel again each time.
NextOn(l) == IF service = "queue" THEN on[l] ELSE channel

\* createConfirmChannel or assertQueue, then prefetch or bindQueue, resolves.
Proceeds(l) ==
  /\ \/ at[l] = "opening" /\ Goes(l, "binding", on[l])
     \/ at[l] = "binding" /\ Goes(l, "attaching", on[l])
  /\ NextOn(l) = on[l]
  /\ UNCHANGED <<service, phase, registered, fieldVars, open, consumers, thrown, faults>>

\* consume() resolves.
Attached(l) ==
  /\ at[l] = "attaching"
  /\ consumers' = consumers \cup {on[l]}
  /\ Goes(l, "idle", None)
  /\ UNCHANGED <<service, phase, registered, fieldVars, open, thrown, faults>>

-----------------------------------------------------------------------------
(* Close events and rejected calls.                                        *)

\* Mutant: the close handler leaves the publish channel.
ChannelKept == connection' = None /\ consuming' = FALSE /\ UNCHANGED channel

\* Mutant: the close handler leaves the flag of startConsumer().
FlagKept == connection' = None /\ channel' = None /\ UNCHANGED consuming

\* What every close handler does to the service, whichever connection closed.
FieldsCleared == connection' = None /\ channel' = None /\ consuming' = FALSE

\* Nobody handles a rejection of Boot's call: the process ends.
ProcessEnds ==
  /\ phase' = "exited"
  /\ at' = [l \in Calls |-> "idle"]
  /\ on' = [l \in Calls |-> None]
  /\ open' = {}
  /\ consumers' = {}
  /\ FieldsCleared
  /\ UNCHANGED <<service, registered, thrown>>

Idle == {l \in Loops : at[l] = "idle"}

\* Mutant: the close handler does not start another connectLoop.
RejectsOnly(R, started) ==
  /\ at' = [l \in Calls |-> IF l \in R THEN "waiting" ELSE at[l]]
  /\ on' = [l \in Calls |-> IF l \in R THEN None ELSE on[l]]
  /\ thrown' = thrown + Cardinality(R)

\* The calls in R are rejected: their loops will retry; the loops in started begin.
Rejects(R, started) ==
  /\ at' = [l \in Calls |-> CASE l \in R       -> "waiting"
                              [] l \in started -> "dialing"
                              [] OTHER         -> at[l]]
  /\ on' = [l \in Calls |-> IF l \in R THEN None ELSE on[l]]
  /\ thrown' = thrown + Cardinality(R)

\* Connection c closes: its close handler runs, and the calls awaited on it are
\* rejected, together with those in R.
Closes(c, R, then) ==
  LET rejected == R \cup {l \in Calls : on[l] = c}
  IN IF Boot \in rejected
     THEN ProcessEnds
     ELSE /\ IF then = "up"
             THEN Idle # {} /\ Rejects(rejected, {CHOOSE l \in Idle : TRUE})
             ELSE Rejects(rejected, {})
          /\ FieldsCleared
          /\ open' = open \ {c}
          /\ consumers' = consumers \ {c}
          /\ phase' = then
          /\ UNCHANGED <<service, registered>>

ConnectionLost(c) ==
  /\ c \in open
  /\ Fault
  /\ Closes(c, {}, phase)

ReadsChannel(l) == service = "changes" /\ at[l] \in {"opening", "binding"}

\* this.channel is null by now: a TypeError.
ChannelMissing(l) ==
  /\ ReadsChannel(l)
  /\ channel = None
  /\ IF l = Boot
     THEN ProcessEnds
     ELSE /\ Rejects({l}, {})
          /\ UNCHANGED <<service, phase, registered, fieldVars, open, consumers>>
  /\ UNCHANGED faults

\* this.channel is another connection's by now: the queue is exclusive to the one
\* it was declared on, the broker closes the channel, and, since nobody listens
\* to the channel's error, the connection goes with it.
ChannelMistaken(l) ==
  /\ ReadsChannel(l)
  /\ channel \notin {None, on[l]}
  /\ Closes(channel, {l}, phase)
  /\ UNCHANGED faults

-----------------------------------------------------------------------------
\* onModuleDestroy(): the connection of the field is closed, no other.  What still
\* arrives on it is ignored, so its close event is part of the step.
Destroy ==
  /\ phase = "up"
  /\ IF connection # None
     THEN Closes(connection, {}, "down")
     ELSE /\ phase' = "down"
          /\ UNCHANGED <<service, registered, fieldVars, at, on, open, consumers, thrown>>
  /\ UNCHANGED faults

\* The hooks have run: the process ends.
Exit ==
  /\ phase = "down"
  /\ ProcessEnds
  /\ UNCHANGED faults

CallStep(l) ==
  \/ Connected(l) \/ Retry(l) \/ QueuesAsserted(l) \/ QueueLands(l) \/ ChangesLand(l)
  \/ Proceeds(l) \/ Attached(l) \/ ChannelMissing(l) \/ ChannelMistaken(l)

LinkNext ==
  \/ \E l \in Calls : CallStep(l)
  \/ \E l \in Loops : Refused(l)
  \/ \E c \in Connections : ConnectionLost(c)
  \/ Register \/ Destroy \/ Exit

LinkSpec == LinkInit /\ [][LinkNext]_linkVars

FairLinkSpec == LinkSpec /\ \A l \in Calls : WF_linkVars(CallStep(l))

-----------------------------------------------------------------------------
(* Properties.                                                             *)

\* connectLoops without an open connection.
Pending == {l \in Loops : at[l] \in {"dialing", "waiting"}}

\* Calls inside startConsumer().
Starting == {l \in Calls : at[l] \in {"opening", "binding", "attaching"}}

\* Types; a call is awaited on a connection exactly while it is past the dial, and
\* Boot's is never inside connect().
LinkTypeOK ==
  /\ service \in Services
  /\ phase \in {"up", "down", "exited"}
  /\ registered \in BOOLEAN
  /\ connection \in Connections \cup {None}
  /\ channel \in Connections \cup {None}
  /\ consuming \in BOOLEAN
  /\ at \in [Calls -> {"idle", "dialing", "waiting", "topology", "landing", "opening",
                       "binding", "attaching"}]
  /\ on \in [Calls -> Connections \cup {None}]
  /\ open \subseteq Connections
  /\ consumers \subseteq open
  /\ thrown \in Nat
  /\ faults \in 0..MaxFaults
  /\ \A l \in Calls : (on[l] = None) <=> (at[l] \in {"idle", "dialing", "waiting"})
  /\ at[Boot] = "idle" \/ Boot \in Starting

\* What the fields name is open, and so is what any running connect() or
\* startConsumer() waits for, whatever the order in which the loops' connections
\* come and go: send() never publishes into a connection known to be closed.
FieldsOpen ==
  /\ {connection, channel} \subseteq open \cup {None}
  /\ \A l \in Calls : on[l] \in open \cup {None}

\* "Attaches now or as soon as the connection lands" (both services): while the
\* flag that makes startConsumer() return early is set, there is a consumer or
\* one on its way.  A stale flag would leave the process connected and deaf.
ConsumingIsTrue == consuming => consumers # {} \/ Starting # {}

\* A lost connection is replaced by one loop; only a connect() that is rejected
\* after its connection had opened (a loss during set-up, a mistaken channel)
\* leaves one connection or loop too many, because the loop retries and the
\* close handler starts another, or the connection is left open.  With no such
\* rejection there is one connection, hence at most one consumer and at most
\* prefetch unacked deliveries.
ConnectionsExplained ==
  phase = "up" => Cardinality(open) + Cardinality(Pending) = 1 + thrown

\* While the process is up somebody is at work on whatever is missing: a loop is on
\* its way to a connection, or both fields are set, but for a connection that is
\* about to be; and a handler that could be attached has its flag set.  A late
\* close handler may clear the fields of the connection that replaced the one it
\* was registered for, and leave it without fields for good, but never without a
\* loop that sets them again.
NeverStranded ==
  phase = "up" =>
    /\ \/ \E l \in Loops : at[l] \in {"dialing", "waiting", "topology"}
       \/ channel # None /\ (connection # None \/ \E l \in Loops : at[l] = "landing")
    /\ registered /\ Usable # None => consuming

\* Once onModuleDestroy() has run, no loop dials again: neither the close handler
\* nor a loop that was waiting.
NoDialAfterShutdown ==
  [][phase # "up" => \A l \in Loops : at'[l] = "dialing" => at[l] = "dialing"]_linkVars

\* Once connections stop being lost, RabbitMqService can publish and a registered
\* handler has a consumer, however many loops raced before (the change bus is left out).
EventuallyServing ==
  service = "queue" =>
    <>[](phase = "up" => channel # None /\ (registered => consumers # {}))
=============================================================================
