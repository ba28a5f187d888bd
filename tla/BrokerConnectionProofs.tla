------------------------ MODULE BrokerConnectionProofs ------------------------
(***************************************************************************)
(* Theorems about BrokerConnection, for either service, any number of loops, *)
(* connections and lost connections: what the fields name is open, the      *)
(* `consuming` flag is true to its word, connections are accounted for, and  *)
(* nothing dials after a shutdown.                                          *)
(***************************************************************************)
EXTENDS BrokerConnection, FiniteSetTheorems, TLAPS

\* The change bus's flag is never set without a channel: a startConsumer() that
\* finds this.channel gone therefore owns no flag it would have to clear.
ChannelWhileConsuming == service = "changes" /\ consuming => channel # None

LinkInv == LinkTypeOK /\ FieldsOpen /\ ConsumingIsTrue /\ ChannelWhileConsuming

States == {"idle", "dialing", "waiting", "topology", "landing", "opening", "binding",
           "attaching"}

-----------------------------------------------------------------------------
\* There are finitely many calls.
LEMMA CallsFinite ==
  /\ IsFiniteSet(Calls)
  /\ \A R \in SUBSET Calls : IsFiniteSet(R) /\ Cardinality(R) \in Nat
<1>1. IsFiniteSet(Calls)
  BY PoolAssumption, FS_AddElement DEF Calls
<1>2. ASSUME NEW R \in SUBSET Calls PROVE IsFiniteSet(R) /\ Cardinality(R) \in Nat
  <2>1. IsFiniteSet(R)
    BY <1>1, FS_Subset
  <2> QED
    BY <2>1, FS_CardinalityType
<1> QED
  BY <1>1, <1>2

\* A dial that succeeds opens a connection that was not open.
LEMMA FreshIsNew ==
  ASSUME LinkTypeOK, Connections # open
  PROVE  Fresh \in Connections \ open
BY DEF LinkTypeOK, Fresh

-----------------------------------------------------------------------------
(* Types and fields.                                                       *)

\* A call that goes on to another await keeps every type, if it says where.
LEMMA GoesType ==
  ASSUME LinkInv, NEW l \in Calls, NEW to \in States, NEW c \in Connections \cup {None},
         Goes(l, to, c), (c = None) <=> (to \in {"idle", "dialing", "waiting"}),
         l = Boot => to \in {"idle", "opening", "binding", "attaching"}
  PROVE  /\ at' \in [Calls -> States]
         /\ on' \in [Calls -> Connections \cup {None}]
         /\ \A k \in Calls : (on'[k] = None) <=> (at'[k] \in {"idle", "dialing", "waiting"})
         /\ at'[Boot] \in {"idle", "opening", "binding", "attaching"}
         /\ \A k \in Calls : on'[k] = IF k = l THEN c ELSE on[k]
         /\ \A k \in Calls : at'[k] = IF k = l THEN to ELSE at[k]
BY PoolAssumption DEF LinkInv, LinkTypeOK, Goes, States, Starting, Calls

\* The process ends: nothing is open, nothing runs.
LEMMA ProcessEndsInv ==
  ASSUME LinkInv, ProcessEnds, faults' \in 0..MaxFaults
  PROVE  LinkInv'
<1>1. LinkTypeOK'
  BY DEF LinkInv, LinkTypeOK, ProcessEnds, FieldsCleared, Starting, Calls
<1>2. FieldsOpen' /\ ConsumingIsTrue' /\ ChannelWhileConsuming'
  BY <1>1 DEF LinkTypeOK, ProcessEnds, FieldsCleared, FieldsOpen, ConsumingIsTrue,
     ChannelWhileConsuming
<1> QED
  BY <1>1, <1>2 DEF LinkInv

\* Rejected calls wait, started loops dial, the others stay where they were.
LEMMA RejectsType ==
  ASSUME LinkInv, NEW R \in SUBSET Calls, NEW started \in SUBSET Idle, Rejects(R, started),
         Boot \notin R
  PROVE  /\ at' \in [Calls -> States]
         /\ on' \in [Calls -> Connections \cup {None}]
         /\ thrown' \in Nat
         /\ \A k \in Calls : (on'[k] = None) <=> (at'[k] \in {"idle", "dialing", "waiting"})
         /\ at'[Boot] = at[Boot]
         /\ \A k \in Calls : on'[k] = IF k \in R THEN None ELSE on[k]
<1>1. thrown' \in Nat
  BY CallsFinite DEF LinkInv, LinkTypeOK, Rejects
<1> QED
  BY <1>1, PoolAssumption DEF LinkInv, LinkTypeOK, Rejects, States, Idle, Calls

\* A close event keeps the fields open and the flag true: it clears them all.
LEMMA ClosesInv ==
  ASSUME LinkInv, NEW c \in open, NEW R \in SUBSET Calls, NEW then \in {"up", "down", "exited"},
         Closes(c, R, then), faults' \in 0..MaxFaults
  PROVE  LinkInv'
<1> DEFINE rejected == R \cup {l \in Calls : on[l] = c}
<1>1. CASE Boot \in rejected
  BY <1>1, ProcessEndsInv DEF Closes
<1>2. CASE Boot \notin rejected
  <2> DEFINE started == IF then = "up" THEN {CHOOSE l \in Idle : TRUE} ELSE {}
  <2>1. /\ started \in SUBSET Idle
        /\ Rejects(rejected, started)
        /\ FieldsCleared
        /\ open' = open \ {c}
        /\ consumers' = consumers \ {c}
        /\ phase' = then
        /\ UNCHANGED <<service, registered>>
    BY <1>2 DEF Closes
  <2> HIDE DEF started
  <2>2. /\ at' \in [Calls -> States]
        /\ on' \in [Calls -> Connections \cup {None}]
        /\ thrown' \in Nat
        /\ \A k \in Calls : (on'[k] = None) <=> (at'[k] \in {"idle", "dialing", "waiting"})
        /\ at'[Boot] = at[Boot]
        /\ \A k \in Calls : on'[k] = IF k \in rejected THEN None ELSE on[k]
    BY <1>2, <2>1, RejectsType
  <2>3. LinkTypeOK'
    BY <2>1, <2>2 DEF LinkInv, LinkTypeOK, FieldsCleared, States, Starting, Calls
  <2>4. FieldsOpen'
    BY <2>1, <2>2 DEF LinkInv, FieldsOpen, FieldsCleared
  <2>5. ConsumingIsTrue' /\ ChannelWhileConsuming'
    BY <2>1 DEF FieldsCleared, ConsumingIsTrue, ChannelWhileConsuming
  <2> QED
    BY <2>3, <2>4, <2>5 DEF LinkInv
<1> QED
  BY <1>1, <1>2

\* The end of connect() keeps the invariant: it sets the fields to a connection
\* that is still open, since a call on a closed one would have been rejected.
LEMMA LandsInv ==
  ASSUME LinkInv, NEW l \in Calls, Lands(l), at[l] \in {"topology", "landing"},
         channel' \in {channel, on[l]}, service = "changes" => channel' = on[l]
  PROVE  LinkInv'
<1>1. on[l] \in open /\ on[l] \in Connections /\ l # Boot
  BY PoolAssumption DEF LinkInv, LinkTypeOK, FieldsOpen, Starting, Calls
<1>2. CASE registered /\ ~consuming
  <2>1. Goes(l, "opening", on[l]) /\ consuming' = TRUE
    BY <1>2 DEF Lands
  <2>2. LinkTypeOK'
    BY <1>1, <2>1, GoesType, PoolAssumption
    DEF LinkInv, LinkTypeOK, FieldsOpen, Lands, States, Starting, Calls
  <2>3. FieldsOpen'
    BY <1>1, <2>1 DEF LinkInv, LinkTypeOK, FieldsOpen, Lands, Goes
  <2>4. l \in Starting'
    BY <2>1 DEF LinkInv, LinkTypeOK, Goes, Starting
  <2>5. ConsumingIsTrue' /\ ChannelWhileConsuming'
    BY <1>1, <2>4, PoolAssumption DEF ConsumingIsTrue, ChannelWhileConsuming, Lands
  <2> QED
    BY <2>2, <2>3, <2>5 DEF LinkInv
<1>3. CASE ~(registered /\ ~consuming)
  <2>1. Goes(l, "idle", None) /\ consuming' = consuming
    BY <1>3 DEF Lands
  <2>2. LinkTypeOK'
    BY <1>1, <2>1, GoesType, PoolAssumption
    DEF LinkInv, LinkTypeOK, FieldsOpen, Lands, States, Starting, Calls
  <2>3. FieldsOpen'
    BY <1>1, <2>1 DEF LinkInv, LinkTypeOK, FieldsOpen, Lands, Goes
  <2>4. Starting \subseteq Starting'
    BY <2>1 DEF LinkInv, LinkTypeOK, Goes, Starting
  <2>5. ConsumingIsTrue' /\ ChannelWhileConsuming'
    BY <1>1, <2>1, <2>4, PoolAssumption
    DEF LinkInv, ConsumingIsTrue, ChannelWhileConsuming, Lands
  <2> QED
    BY <2>2, <2>3, <2>5 DEF LinkInv
<1> QED
  BY <1>2, <1>3
\* A call that only moves on, on the connection it has, keeps the invariant.
LEMMA MovesInv ==
  ASSUME LinkInv, NEW l \in Calls, NEW to \in States, Goes(l, to, on[l]),
         at[l] \in {"opening", "binding"}, to \in {"opening", "binding", "attaching"},
         UNCHANGED <<service, phase, registered, fieldVars, open, consumers, thrown, faults>>
  PROVE  LinkInv'
<1>1. on[l] \in Connections /\ on[l] # None
  BY DEF LinkInv, LinkTypeOK
<1>2. LinkTypeOK'
  BY <1>1, GoesType DEF LinkInv, LinkTypeOK, States, Starting, Calls, fieldVars
<1>3. FieldsOpen'
  BY DEF LinkInv, LinkTypeOK, FieldsOpen, Goes, fieldVars
<1>4. Starting \subseteq Starting'
  BY DEF LinkInv, LinkTypeOK, Goes, Starting
<1>5. ConsumingIsTrue' /\ ChannelWhileConsuming'
  BY <1>4 DEF LinkInv, ConsumingIsTrue, ChannelWhileConsuming, fieldVars
<1> QED
  BY <1>2, <1>3, <1>5 DEF LinkInv

\* Every step keeps the invariant.
LEMMA LinkInvStep ==
  ASSUME LinkInv, [LinkNext]_linkVars
  PROVE  LinkInv'
<1> USE PoolAssumption
<1>1. ASSUME NEW l \in Calls, Connected(l) PROVE LinkInv'
  <2>1. Fresh \in Connections /\ Fresh # None /\ l # Boot /\ Goes(l, "topology", Fresh)
    BY <1>1, FreshIsNew DEF Connected, LinkInv, LinkTypeOK, Starting
  <2>2. LinkTypeOK'
    BY <1>1, <2>1, GoesType DEF Connected, LinkInv, LinkTypeOK, States, Starting, Calls,
      fieldVars
  <2>3. FieldsOpen'
    BY <1>1, <2>1 DEF Connected, LinkInv, LinkTypeOK, FieldsOpen, Goes, fieldVars
  <2>4. Starting \subseteq Starting'
    BY <1>1 DEF Connected, LinkInv, LinkTypeOK, Goes, Starting
  <2>5. ConsumingIsTrue' /\ ChannelWhileConsuming'
    BY <1>1, <2>4 DEF Connected, LinkInv, ConsumingIsTrue, ChannelWhileConsuming, fieldVars
  <2> QED
    BY <2>2, <2>3, <2>5 DEF LinkInv
<1>2. ASSUME NEW l \in Calls, Retry(l) PROVE LinkInv'
  <2>1. PICK to \in {"dialing", "idle"} : Goes(l, to, None)
    BY <1>2 DEF Retry
  <2>2. /\ at' \in [Calls -> States]
        /\ on' \in [Calls -> Connections \cup {None}]
        /\ \A k \in Calls : (on'[k] = None) <=> (at'[k] \in {"idle", "dialing", "waiting"})
        /\ at'[Boot] = at[Boot]
    BY <1>2, <2>1 DEF Retry, Goes, LinkInv, LinkTypeOK, Starting, States, Calls
  <2>6. LinkTypeOK'
    BY <1>2, <2>2 DEF Retry, LinkInv, LinkTypeOK, States, Starting, Calls, fieldVars
  <2>3. FieldsOpen'
    BY <1>2 DEF Retry, LinkInv, LinkTypeOK, FieldsOpen, Goes, fieldVars
  <2>4. Starting \subseteq Starting'
    BY <1>2 DEF Retry, LinkInv, LinkTypeOK, Goes, Starting
  <2>5. ConsumingIsTrue' /\ ChannelWhileConsuming'
    BY <1>2, <2>4 DEF Retry, LinkInv, ConsumingIsTrue, ChannelWhileConsuming, fieldVars
  <2> QED
    BY <2>3, <2>5, <2>6 DEF LinkInv
<1>3. ASSUME NEW l \in Calls, QueuesAsserted(l) PROVE LinkInv'
  <2>1. on[l] \in open /\ on[l] \in Connections /\ on[l] # None /\ l # Boot
    BY <1>3 DEF QueuesAsserted, LinkInv, LinkTypeOK, FieldsOpen, Starting
  <2>2. LinkTypeOK'
    BY <1>3, <2>1, GoesType DEF QueuesAsserted, LinkInv, LinkTypeOK, States, Starting, Calls
  <2>3. FieldsOpen'
    BY <1>3, <2>1 DEF QueuesAsserted, LinkInv, LinkTypeOK, FieldsOpen, Goes
  <2>4. Starting \subseteq Starting'
    BY <1>3 DEF QueuesAsserted, LinkInv, LinkTypeOK, Goes, Starting
  <2>5. ConsumingIsTrue' /\ ChannelWhileConsuming'
    BY <1>3, <2>4 DEF QueuesAsserted, LinkInv, ConsumingIsTrue, ChannelWhileConsuming
  <2> QED
    BY <2>2, <2>3, <2>5 DEF LinkInv
<1>4. ASSUME NEW l \in Calls, QueueLands(l) PROVE LinkInv'
  BY <1>4, LandsInv DEF QueueLands
<1>5. ASSUME NEW l \in Calls, ChangesLand(l) PROVE LinkInv'
  BY <1>5, LandsInv DEF ChangesLand
<1>6. ASSUME NEW l \in Calls, Proceeds(l) PROVE LinkInv'
  BY <1>6, MovesInv DEF Proceeds, States
<1>7. ASSUME NEW l \in Calls, Attached(l) PROVE LinkInv'
  <2>1. on[l] \in open
    BY <1>7 DEF Attached, LinkInv, LinkTypeOK, FieldsOpen
  <2>2. LinkTypeOK'
    BY <1>7, <2>1, GoesType DEF Attached, LinkInv, LinkTypeOK, States, Starting, Calls, fieldVars
  <2>3. FieldsOpen'
    BY <1>7 DEF Attached, LinkInv, LinkTypeOK, FieldsOpen, Goes, fieldVars
  <2>4. ConsumingIsTrue' /\ ChannelWhileConsuming'
    BY <1>7 DEF Attached, LinkInv, ConsumingIsTrue, ChannelWhileConsuming, fieldVars
  <2> QED
    BY <2>2, <2>3, <2>4 DEF LinkInv
<1>8. ASSUME NEW l \in Calls, ChannelMissing(l) PROVE LinkInv'
  <2>1. CASE l = Boot
    BY <1>8, <2>1, ProcessEndsInv DEF ChannelMissing, LinkInv, LinkTypeOK
  <2>2. CASE l # Boot
    <3>1. Rejects({l}, {}) /\ UNCHANGED <<service, phase, registered, fieldVars, open, consumers>>
      BY <1>8, <2>2 DEF ChannelMissing
    <3>2. /\ at' \in [Calls -> States]
          /\ on' \in [Calls -> Connections \cup {None}]
          /\ thrown' \in Nat
          /\ \A k \in Calls : (on'[k] = None) <=> (at'[k] \in {"idle", "dialing", "waiting"})
          /\ at'[Boot] = at[Boot]
          /\ \A k \in Calls : on'[k] = IF k \in {l} THEN None ELSE on[k]
      BY <2>2, <3>1, RejectsType
    <3>3. LinkTypeOK' /\ FieldsOpen'
      BY <1>8, <3>1, <3>2 DEF ChannelMissing, LinkInv, LinkTypeOK, FieldsOpen, States,
        Starting, Calls, fieldVars
    <3>4. ~consuming'
      BY <1>8, <3>1 DEF ChannelMissing, ReadsChannel, LinkInv, LinkTypeOK,
        ChannelWhileConsuming, fieldVars
    <3> QED
      BY <3>3, <3>4 DEF LinkInv, ConsumingIsTrue, ChannelWhileConsuming
  <2> QED
    BY <2>1, <2>2
<1>9. ASSUME NEW l \in Calls, ChannelMistaken(l) PROVE LinkInv'
  <2>1. channel \in open
    BY <1>9 DEF ChannelMistaken, LinkInv, FieldsOpen
  <2> QED
    BY <1>9, <2>1, ClosesInv DEF ChannelMistaken, LinkInv, LinkTypeOK
<1>10. ASSUME NEW l \in Loops, Refused(l) PROVE LinkInv'
  <2>1. l \in Calls /\ l # Boot /\ Goes(l, "waiting", None)
    BY <1>10 DEF Refused, Calls
  <2>2. LinkTypeOK'
    BY <1>10, <2>1, GoesType, FaultAssumption DEF Refused, Fault, LinkInv, LinkTypeOK, States,
      Starting, Calls, fieldVars
  <2>3. FieldsOpen'
    BY <1>10, <2>1 DEF Refused, LinkInv, LinkTypeOK, FieldsOpen, Goes, fieldVars
  <2>4. Starting \subseteq Starting'
    BY <1>10, <2>1 DEF Refused, LinkInv, LinkTypeOK, Goes, Starting
  <2>5. ConsumingIsTrue' /\ ChannelWhileConsuming'
    BY <1>10, <2>4 DEF Refused, LinkInv, ConsumingIsTrue, ChannelWhileConsuming, fieldVars
  <2> QED
    BY <2>2, <2>3, <2>5 DEF LinkInv
<1>11. ASSUME NEW c \in Connections, ConnectionLost(c) PROVE LinkInv'
  <2>1. faults' \in 0..MaxFaults
    BY <1>11, FaultAssumption DEF ConnectionLost, Fault, LinkInv, LinkTypeOK
  <2> QED
    BY <1>11, <2>1, ClosesInv DEF ConnectionLost, LinkInv, LinkTypeOK
<1>12. ASSUME Register PROVE LinkInv'
  <2>1. CASE Usable # None /\ ~consuming
    <3>1. /\ Usable \in open /\ Usable \in Connections /\ Boot \in Calls
          /\ Goes(Boot, "opening", Usable)
          /\ service = "changes" => Usable = channel
      BY <1>12, <2>1 DEF Register, Usable, LinkInv, LinkTypeOK, FieldsOpen, Calls
    <3>2. LinkTypeOK'
      BY <1>12, <2>1, <3>1, GoesType DEF Register, LinkInv, LinkTypeOK, States, Starting, Calls
    <3>3. FieldsOpen'
      BY <1>12, <3>1 DEF Register, LinkInv, LinkTypeOK, FieldsOpen, Goes
    <3>4. Boot \in Starting'
      BY <3>1 DEF LinkInv, LinkTypeOK, Goes, Starting
    <3>5. ConsumingIsTrue' /\ ChannelWhileConsuming'
      BY <1>12, <2>1, <3>1, <3>4 DEF Register, ConsumingIsTrue, ChannelWhileConsuming
    <3> QED
      BY <3>2, <3>3, <3>5 DEF LinkInv
  <2>2. CASE ~(Usable # None /\ ~consuming)
    BY <1>12, <2>2 DEF Register, LinkInv, LinkTypeOK, FieldsOpen, ConsumingIsTrue,
      ChannelWhileConsuming, Starting, Calls
  <2> QED
    BY <2>1, <2>2
<1>13. ASSUME Destroy PROVE LinkInv'
  <2>1. CASE connection # None
    <3>1. connection \in open /\ Closes(connection, {}, "down") /\ faults' \in 0..MaxFaults
      BY <1>13, <2>1 DEF Destroy, LinkInv, LinkTypeOK, FieldsOpen
    <3> QED
      BY <3>1, ClosesInv
  <2>2. CASE connection = None
    BY <1>13, <2>2 DEF Destroy, LinkInv, LinkTypeOK, FieldsOpen, ConsumingIsTrue,
      ChannelWhileConsuming, Starting, Calls, fieldVars
  <2> QED
    BY <2>1, <2>2
<1>14. ASSUME Exit PROVE LinkInv'
  BY <1>14, ProcessEndsInv DEF Exit, LinkInv, LinkTypeOK
<1>15. ASSUME UNCHANGED linkVars PROVE LinkInv'
  BY <1>15 DEF LinkInv, LinkTypeOK, FieldsOpen, ConsumingIsTrue, ChannelWhileConsuming,
    Starting, Calls, linkVars, fieldVars
<1>16. ASSUME NEW l \in Calls, CallStep(l) PROVE LinkInv'
  BY <1>1, <1>2, <1>3, <1>4, <1>5, <1>6, <1>7, <1>8, <1>9, <1>16 DEF CallStep
<1> QED
  BY <1>10, <1>11, <1>12, <1>13, <1>14, <1>15, <1>16 DEF LinkNext

\* One loop dials, nothing is open.
LEMMA LinkInvInit == LinkInit => LinkInv
<1> SUFFICES ASSUME LinkInit PROVE LinkInv
  OBVIOUS
<1>1. FirstLoop \in Loops
  BY PoolAssumption DEF FirstLoop
<1>2. /\ at \in [Calls -> {"idle", "dialing"}]
      /\ at[Boot] = "idle"
      /\ on = [l \in Calls |-> None]
  BY <1>1, PoolAssumption DEF LinkInit, Calls
<1>4. 0 \in 0..MaxFaults
  BY FaultAssumption
<1>5. LinkTypeOK
  BY <1>2, <1>4 DEF LinkInit, LinkTypeOK
<1>3. FieldsOpen /\ ConsumingIsTrue /\ ChannelWhileConsuming
  BY DEF LinkInit, FieldsOpen, ConsumingIsTrue, ChannelWhileConsuming
<1> QED
  BY <1>3, <1>5 DEF LinkInv

\* The invariant holds throughout.
LEMMA LinkInvAlways == LinkSpec => []LinkInv
BY LinkInvInit, LinkInvStep, PTL DEF LinkSpec

\* Types, and a call awaits on a connection exactly while it is past the dial.
THEOREM LinkTyping == LinkSpec => []LinkTypeOK
<1>1. LinkInv => LinkTypeOK
  BY DEF LinkInv
<1> QED
  BY <1>1, LinkInvAlways, PTL

\* The fields, and every call under way, name connections that are open, however
\* many loops race: a late close handler clears too much, never too little.
THEOREM LinkFieldsOpen == LinkSpec => []FieldsOpen
<1>1. LinkInv => FieldsOpen
  BY DEF LinkInv
<1> QED
  BY <1>1, LinkInvAlways, PTL

\* A set `consuming` (or `subscribed`) flag never leaves the service deaf.
THEOREM LinkConsuming == LinkSpec => []ConsumingIsTrue
<1>1. LinkInv => ConsumingIsTrue
  BY DEF LinkInv
<1> QED
  BY <1>1, LinkInvAlways, PTL
-----------------------------------------------------------------------------
(* Nothing dials after a shutdown.                                         *)

\* After onModuleDestroy() no step makes a loop dial.
LEMMA NoDialStep ==
  ASSUME LinkInv, LinkNext, phase # "up", NEW k \in Loops, at'[k] = "dialing"
  PROVE  at[k] = "dialing"
<1> USE PoolAssumption DEF LinkInv, LinkTypeOK, Calls
<1>1. ASSUME NEW c, NEW R \in SUBSET Calls, NEW then, then # "up", Closes(c, R, then)
      PROVE  at[k] = "dialing"
  BY <1>1 DEF Closes, ProcessEnds, Rejects
<1>2. ASSUME NEW l \in Calls, CallStep(l) PROVE at[k] = "dialing"
  <2>1. CASE Connected(l) \/ Retry(l) \/ QueuesAsserted(l) \/ QueueLands(l) \/ ChangesLand(l)
             \/ Proceeds(l) \/ Attached(l)
    BY <2>1 DEF Connected, Retry, QueuesAsserted, QueueLands, ChangesLand, Lands, Proceeds,
      Attached, Goes
  <2>2. CASE ChannelMissing(l)
    BY <2>2 DEF ChannelMissing, ProcessEnds, Rejects
  <2>3. CASE ChannelMistaken(l)
    BY <1>1, <2>3 DEF ChannelMistaken
  <2> QED
    BY <1>2, <2>1, <2>2, <2>3 DEF CallStep
<1>3. ASSUME NEW l \in Loops, Refused(l) PROVE at[k] = "dialing"
  BY <1>3 DEF Refused, Goes
<1>4. ASSUME NEW c \in Connections, ConnectionLost(c) PROVE at[k] = "dialing"
  BY <1>1, <1>4 DEF ConnectionLost
<1>5. CASE Register
  BY <1>5 DEF Register, Goes
<1>6. CASE Destroy
  BY <1>6 DEF Destroy
<1>7. CASE Exit
  BY <1>7 DEF Exit, ProcessEnds
<1> QED
  BY <1>2, <1>3, <1>4, <1>5, <1>6, <1>7 DEF LinkNext

\* No loop dials once onModuleDestroy() has run, neither one that was waiting nor
\* one that a close handler would start.
THEOREM LinkNoDial == LinkSpec => NoDialAfterShutdown
<1>1. LinkInv /\ [LinkNext]_linkVars
        => [phase # "up" => \A l \in Loops : at'[l] = "dialing" => at[l] = "dialing"]_linkVars
  BY NoDialStep DEF linkVars
<1> QED
  BY <1>1, LinkInvAlways, PTL DEF LinkSpec, NoDialAfterShutdown

-----------------------------------------------------------------------------
(* Connections are accounted for.                                          *)

\* Sets of connections and of loops are finite.
LEMMA PoolsFinite ==
  ASSUME LinkTypeOK
  PROVE  /\ IsFiniteSet(open) /\ Cardinality(open) \in Nat
         /\ IsFiniteSet(Pending) /\ Cardinality(Pending) \in Nat
<1>1. open \in SUBSET Connections /\ Pending \in SUBSET Loops
  BY DEF LinkTypeOK, Pending
<1>2. IsFiniteSet(open) /\ IsFiniteSet(Pending)
  BY <1>1, PoolAssumption, FS_Subset
<1> QED
  BY <1>2, FS_CardinalityType

\* Rejecting R and starting the loops in `started` makes that many more dial or wait.
LEMMA RejectsPending ==
  ASSUME LinkInv, NEW R \in SUBSET Loops, NEW started \in SUBSET Idle, Rejects(R, started),
         \A l \in R : at[l] \notin {"idle", "dialing", "waiting"}
  PROVE  Cardinality(Pending') = Cardinality(Pending) + Cardinality(R) + Cardinality(started)
<1>1. Pending' = Pending \cup (R \cup started)
  BY PoolAssumption DEF Rejects, Pending, Idle, Calls, LinkInv, LinkTypeOK
<1>2. Pending \cap (R \cup started) = {} /\ R \cap started = {}
  BY DEF Pending, Idle
<1>3. /\ IsFiniteSet(R) /\ IsFiniteSet(started)
      /\ started \in SUBSET Loops
  BY PoolAssumption, FS_Subset DEF Idle
<1>4. IsFiniteSet(R \cup started) /\ IsFiniteSet(Pending)
  BY <1>3, FS_Union, PoolsFinite DEF LinkInv
<1>5. /\ Cardinality(R) \in Nat /\ Cardinality(started) \in Nat
      /\ Cardinality(Pending) \in Nat /\ Cardinality(R \cup started) \in Nat
  BY <1>3, <1>4, FS_CardinalityType
<1>6. Cardinality({}) = 0
  BY FS_EmptySet
<1>7. Cardinality(R \cup started) = Cardinality(R) + Cardinality(started)
  <2>1. Cardinality(R \cup started)
          = Cardinality(R) + Cardinality(started) - Cardinality(R \cap started)
    BY <1>3, FS_Union
  <2>2. Cardinality(R \cap started) = 0
    BY <1>2, <1>6
  <2> QED
    BY <1>5, <2>1, <2>2
<1>8. Cardinality(Pending \cup (R \cup started)) = Cardinality(Pending) + Cardinality(R \cup started)
  <2>1. Cardinality(Pending \cup (R \cup started))
          = Cardinality(Pending) + Cardinality(R \cup started)
            - Cardinality(Pending \cap (R \cup started))
    BY <1>4, FS_Union
  <2>2. Cardinality(Pending \cap (R \cup started)) = 0
    BY <1>2, <1>6
  <2> QED
    BY <1>5, <2>1, <2>2
<1> QED
  BY <1>1, <1>5, <1>7, <1>8

\* A close event replaces the connection by a loop, and each call it rejects by
\* another.
LEMMA ClosesExplained ==
  ASSUME LinkInv, ConnectionsExplained, NEW c \in open, NEW R \in SUBSET Calls,
         \A l \in R : at[l] \in {"opening", "binding"},
         phase = "up", Closes(c, R, "up")
  PROVE  ConnectionsExplained'
<1> DEFINE rejected == R \cup {l \in Calls : on[l] = c}
<1>1. CASE Boot \in rejected
  BY <1>1 DEF Closes, ProcessEnds, ConnectionsExplained
<1>2. CASE Boot \notin rejected
  <2> DEFINE l0 == CHOOSE l \in Idle : TRUE
  <2>1. l0 \in Idle /\ Rejects(rejected, {l0}) /\ open' = open \ {c} /\ phase' = "up"
    BY <1>2 DEF Closes
  <2>2. rejected \in SUBSET Loops
    BY <1>2 DEF Calls
  <2>3. \A l \in rejected : at[l] \notin {"idle", "dialing", "waiting"}
    BY PoolAssumption DEF LinkInv, LinkTypeOK
  <2> HIDE DEF l0, rejected
  <2>4. Cardinality(Pending') = Cardinality(Pending) + Cardinality(rejected) + Cardinality({l0})
    BY <2>1, <2>2, <2>3, RejectsPending
  <2>5. Cardinality({l0}) = 1
    BY FS_Singleton
  <2>6. Cardinality(open') = Cardinality(open) - 1
    BY <2>1, PoolsFinite, FS_RemoveElement DEF LinkInv
  <2>7. thrown' = thrown + Cardinality(rejected)
    BY <2>1 DEF Rejects
  <2>8. Cardinality(rejected) \in Nat
    BY <2>2, CallsFinite DEF Calls
  <2> QED
    BY <2>1, <2>4, <2>5, <2>6, <2>7, <2>8, PoolsFinite
    DEF LinkInv, LinkTypeOK, ConnectionsExplained
<1> QED
  BY <1>1, <1>2

\* Every step keeps the account.
LEMMA ConnectionsExplainedStep ==
  ASSUME LinkInv, ConnectionsExplained, [LinkNext]_linkVars
  PROVE  ConnectionsExplained'
<1> USE PoolAssumption
<1> SUFFICES ASSUME phase' = "up" PROVE ConnectionsExplained'
  BY DEF ConnectionsExplained
<1>1. ASSUME phase = "up", open' = open, Pending' = Pending, thrown' = thrown
      PROVE  ConnectionsExplained'
  BY <1>1 DEF ConnectionsExplained
<1>2. ASSUME NEW l \in Calls, Connected(l) PROVE ConnectionsExplained'
  <2>1. l \in Loops /\ Fresh \in Connections \ open
    BY <1>2, FreshIsNew DEF Connected, LinkInv, LinkTypeOK, Starting, Calls
  <2>2. Pending' = Pending \ {l} /\ l \in Pending
    BY <1>2, <2>1 DEF Connected, Goes, Pending, LinkInv, LinkTypeOK, Calls
  <2>3. Cardinality(Pending') = Cardinality(Pending) - 1
    BY <2>2, PoolsFinite, FS_RemoveElement DEF LinkInv
  <2>4. Cardinality(open') = Cardinality(open) + 1
    BY <1>2, <2>1, PoolsFinite, FS_AddElement DEF Connected, LinkInv
  <2> QED
    BY <1>2, <2>3, <2>4, PoolsFinite DEF Connected, LinkInv, LinkTypeOK, ConnectionsExplained
<1>3. ASSUME NEW l \in Calls, Retry(l) PROVE ConnectionsExplained'
  BY <1>1, <1>3 DEF Retry, Goes, Pending, LinkInv, LinkTypeOK, Calls
<1>4. ASSUME NEW l \in Calls,
             QueuesAsserted(l) \/ QueueLands(l) \/ ChangesLand(l) \/ Proceeds(l) \/ Attached(l)
      PROVE  ConnectionsExplained'
  BY <1>1, <1>4 DEF QueuesAsserted, QueueLands, ChangesLand, Lands, Proceeds, Attached, Goes,
    Pending, LinkInv, LinkTypeOK, Calls
<1>5. ASSUME NEW l \in Calls, ChannelMissing(l) PROVE ConnectionsExplained'
  <2>1. CASE l = Boot
    BY <1>5, <2>1 DEF ChannelMissing, ProcessEnds, ConnectionsExplained
  <2>2. CASE l # Boot
    <3>1. {l} \in SUBSET Loops /\ Rejects({l}, {}) /\ UNCHANGED <<open, phase>>
      BY <1>5, <2>2 DEF ChannelMissing, Calls
    <3>2. Cardinality(Pending') = Cardinality(Pending) + Cardinality({l}) + Cardinality({})
      BY <1>5, <3>1, RejectsPending DEF ChannelMissing, ReadsChannel
    <3>3. Cardinality({l}) = 1 /\ Cardinality({}) = 0
      BY FS_Singleton, FS_EmptySet
    <3> QED
      BY <3>1, <3>2, <3>3, PoolsFinite DEF Rejects, LinkInv, LinkTypeOK, ConnectionsExplained
  <2> QED
    BY <2>1, <2>2
<1>6. ASSUME NEW l \in Calls, ChannelMistaken(l) PROVE ConnectionsExplained'
  <2>1. phase = "up"
    BY <1>6 DEF ChannelMistaken, Closes, ProcessEnds
  <2> QED
    BY <1>6, <2>1, ClosesExplained DEF ChannelMistaken, ReadsChannel, LinkInv, FieldsOpen
<1>7. ASSUME NEW l \in Loops, Refused(l) PROVE ConnectionsExplained'
  BY <1>1, <1>7 DEF Refused, Goes, Pending, LinkInv, LinkTypeOK, Calls
<1>8. ASSUME NEW c \in Connections, ConnectionLost(c) PROVE ConnectionsExplained'
  <2>1. phase = "up"
    BY <1>8 DEF ConnectionLost, Closes, ProcessEnds
  <2> QED
    BY <1>8, <2>1, ClosesExplained DEF ConnectionLost
<1>9. CASE Register
  BY <1>1, <1>9 DEF Register, Goes, Pending, LinkInv, LinkTypeOK, Calls
<1>10. CASE Destroy
  BY <1>10 DEF Destroy, Closes, ProcessEnds
<1>11. CASE Exit
  BY <1>11 DEF Exit, ProcessEnds
<1>12. CASE UNCHANGED linkVars
  BY <1>12 DEF linkVars, ConnectionsExplained, Pending
<1>13. ASSUME NEW l \in Calls, CallStep(l) PROVE ConnectionsExplained'
  BY <1>2, <1>3, <1>4, <1>5, <1>6, <1>13 DEF CallStep
<1> QED
  BY <1>7, <1>8, <1>9, <1>10, <1>11, <1>12, <1>13 DEF LinkNext

\* While the process is up, its connections and dialling loops number one, and one
\* more for each connect() that was rejected after its connection had opened, for
\* any number of loops, connections and losses.
THEOREM LinkExplained == LinkSpec => []ConnectionsExplained
<1>1. LinkInit => ConnectionsExplained
  <2> SUFFICES ASSUME LinkInit PROVE ConnectionsExplained
    OBVIOUS
  <2>1. FirstLoop \in Loops
    BY PoolAssumption DEF FirstLoop
  <2>2. Pending = {FirstLoop}
    BY <2>1, PoolAssumption DEF LinkInit, Pending, Calls
  <2>3. Cardinality(Pending) = 1
    BY <2>2, FS_Singleton
  <2>4. Cardinality(open) = 0
    BY FS_EmptySet DEF LinkInit
  <2> QED
    BY <2>3, <2>4 DEF LinkInit, ConnectionsExplained
<1>2. LinkInv /\ ConnectionsExplained /\ [LinkNext]_linkVars => ConnectionsExplained'
  BY ConnectionsExplainedStep
<1> QED
  BY <1>1, <1>2, LinkInvAlways, PTL DEF LinkSpec

-----------------------------------------------------------------------------
(* Nobody is left without a connection and without a loop.                 *)

\* Loops that will set the channel, or wait to try again.
Coming == {l \in Loops : at[l] \in {"dialing", "waiting", "topology"}}

\* Loops that will set the connection.
Landing == {l \in Loops : at[l] = "landing"}

\* A close event leaves a loop dialling and no field set, or no process.
LEMMA ClosesNotStranded ==
  ASSUME LinkInv, NEW c, NEW R \in SUBSET Calls, NEW then, Closes(c, R, then)
  PROVE  NeverStranded'
<1> DEFINE rejected == R \cup {l \in Calls : on[l] = c}
<1>1. CASE Boot \in rejected \/ then # "up"
  BY <1>1 DEF Closes, ProcessEnds, NeverStranded
<1>2. CASE Boot \notin rejected /\ then = "up"
  <2> DEFINE l0 == CHOOSE l \in Idle : TRUE
  <2>1. l0 \in Idle /\ Rejects(rejected, {l0})
    BY <1>2 DEF Closes
  <2>2. channel' = None /\ connection' = None
    BY <1>2 DEF Closes, FieldsCleared
  <2> HIDE DEF l0, rejected
  <2>3. l0 \in Loops /\ at'[l0] \in {"dialing", "waiting"}
    BY <2>1 DEF Rejects, Idle, Calls
  <2> QED
    BY <2>2, <2>3 DEF NeverStranded, Usable
<1> QED
  BY <1>1, <1>2

\* The end of connect() sets the connection and, if there is a handler, the flag.
LEMMA LandsNotStranded ==
  ASSUME LinkInv, NeverStranded, NEW l \in Loops, Lands(l), channel' \in {channel, on[l]},
         \/ at[l] = "landing" /\ channel' = channel
         \/ at[l] = "topology" /\ channel' = on[l]
  PROVE  NeverStranded'
<1>1. on[l] # None
  BY DEF LinkInv, LinkTypeOK, Calls
<1>2. connection' = on[l] /\ (registered' => consuming') /\ phase' = phase
  BY DEF Lands
<1>3. \A k \in Calls \ {l} : at'[k] = at[k]
  BY DEF Lands, Goes, LinkInv, LinkTypeOK
<1>4. CASE at[l] = "landing" /\ channel' = channel
  <2>1. Coming \subseteq Coming'
    BY <1>3, <1>4 DEF Coming, Calls
  <2> QED
    BY <1>1, <1>2, <1>4, <2>1 DEF NeverStranded, Coming
<1>5. CASE at[l] = "topology" /\ channel' = on[l]
  BY <1>1, <1>2, <1>5 DEF NeverStranded
<1> QED
  BY <1>4, <1>5

\* Every step leaves somebody at work on what is missing.
LEMMA NotStrandedStep ==
  ASSUME LinkInv, NeverStranded, [LinkNext]_linkVars
  PROVE  NeverStranded'
<1> USE PoolAssumption
<1>1. ASSUME NEW l \in Loops, NEW to \in {"dialing", "waiting", "topology"}, NEW c,
             Goes(l, to, c), UNCHANGED <<service, phase, registered, fieldVars>>
      PROVE  NeverStranded'
  <2>1. at'[l] = to
    BY <1>1 DEF Goes, LinkInv, LinkTypeOK, Calls
  <2> QED
    BY <1>1, <2>1 DEF NeverStranded, Usable, fieldVars
<1>2. ASSUME NEW l \in Calls, NEW to, NEW c, Goes(l, to, c),
             at[l] \notin {"dialing", "waiting", "topology", "landing"},
             UNCHANGED <<service, phase, registered, fieldVars>>
      PROVE  NeverStranded'
  <2>1. Coming \subseteq Coming' /\ Landing \subseteq Landing'
    BY <1>2 DEF Goes, Coming, Landing, LinkInv, LinkTypeOK, Calls
  <2> QED
    BY <1>2, <2>1 DEF NeverStranded, Coming, Landing, Usable, fieldVars
<1>3. ASSUME NEW l \in Calls, at[l] \in {"dialing", "waiting", "topology", "landing"}
      PROVE  l \in Loops
  BY <1>3 DEF LinkInv, LinkTypeOK, Starting, Calls
<1>4. ASSUME NEW l \in Calls, Connected(l) PROVE NeverStranded'
  BY <1>1, <1>3, <1>4 DEF Connected
<1>5. ASSUME NEW l \in Calls, Retry(l) PROVE NeverStranded'
  <2>1. CASE phase = "up"
    BY <1>1, <1>3, <1>5, <2>1 DEF Retry
  <2>2. CASE phase # "up"
    BY <1>5, <2>2 DEF Retry, NeverStranded
  <2> QED
    BY <2>1, <2>2
<1>6. ASSUME NEW l \in Calls, QueuesAsserted(l) PROVE NeverStranded'
  <2>1. l \in Loops /\ on[l] # None
    BY <1>3, <1>6 DEF QueuesAsserted, LinkInv, LinkTypeOK
  <2>2. at'[l] = "landing" /\ channel' = on[l]
    BY <1>6 DEF QueuesAsserted, Goes, LinkInv, LinkTypeOK
  <2>3. service' = "queue" /\ service = "queue"
    BY <1>6 DEF QueuesAsserted
  <2> QED
    BY <1>6, <2>1, <2>2, <2>3 DEF QueuesAsserted, NeverStranded, Usable
<1>7. ASSUME NEW l \in Calls, QueueLands(l) PROVE NeverStranded'
  BY <1>3, <1>7, LandsNotStranded DEF QueueLands
<1>8. ASSUME NEW l \in Calls, ChangesLand(l) PROVE NeverStranded'
  BY <1>3, <1>8, LandsNotStranded DEF ChangesLand
<1>9. ASSUME NEW l \in Calls, Proceeds(l) PROVE NeverStranded'
  BY <1>2, <1>9 DEF Proceeds
<1>10. ASSUME NEW l \in Calls, Attached(l) PROVE NeverStranded'
  BY <1>2, <1>10 DEF Attached
<1>11. ASSUME NEW l \in Calls, ChannelMissing(l) PROVE NeverStranded'
  <2>1. CASE l = Boot
    BY <1>11, <2>1 DEF ChannelMissing, ProcessEnds, NeverStranded
  <2>2. CASE l # Boot
    <3>1. l \in Loops /\ at'[l] = "waiting"
      BY <1>11, <2>2 DEF ChannelMissing, Rejects, Calls
    <3> QED
      BY <1>11, <2>2, <3>1 DEF ChannelMissing, NeverStranded, Usable, fieldVars
  <2> QED
    BY <2>1, <2>2
<1>12. ASSUME NEW l \in Calls, ChannelMistaken(l) PROVE NeverStranded'
  BY <1>12, ClosesNotStranded DEF ChannelMistaken
<1>13. ASSUME NEW l \in Loops, Refused(l) PROVE NeverStranded'
  BY <1>1, <1>13 DEF Refused
<1>14. ASSUME NEW c \in Connections, ConnectionLost(c) PROVE NeverStranded'
  BY <1>14, ClosesNotStranded DEF ConnectionLost
<1>15. CASE Register
  <2>1. Coming \subseteq Coming' /\ Landing \subseteq Landing'
    BY <1>15 DEF Register, Goes, Coming, Landing, LinkInv, LinkTypeOK, Starting, Calls
  <2>2. /\ channel' = channel /\ connection' = connection /\ phase' = phase
        /\ Usable' = Usable
        /\ Usable # None => consuming'
    BY <1>15 DEF Register, Usable, LinkInv, LinkTypeOK
  <2> QED
    BY <2>1, <2>2 DEF NeverStranded, Coming, Landing
<1>16. CASE Destroy
  BY <1>16, ClosesNotStranded DEF Destroy, NeverStranded
<1>17. CASE Exit
  BY <1>17 DEF Exit, ProcessEnds, NeverStranded
<1>18. CASE UNCHANGED linkVars
  BY <1>18 DEF linkVars, fieldVars, NeverStranded, Usable
<1>19. ASSUME NEW l \in Calls, CallStep(l) PROVE NeverStranded'
  BY <1>4, <1>5, <1>6, <1>7, <1>8, <1>9, <1>10, <1>11, <1>12, <1>19 DEF CallStep
<1> QED
  BY <1>13, <1>14, <1>15, <1>16, <1>17, <1>18, <1>19 DEF LinkNext

\* The safety half of recovery, for any number of racing loops, connections and
\* losses: a service that is up is connected or has a loop at work on it, and a
\* handler that could be attached is.
THEOREM LinkNeverStranded == LinkSpec => []NeverStranded
<1>1. LinkInit => NeverStranded
  <2> SUFFICES ASSUME LinkInit PROVE NeverStranded
    OBVIOUS
  <2>1. FirstLoop \in Loops
    BY PoolAssumption DEF FirstLoop
  <2>2. at[FirstLoop] = "dialing"
    BY <2>1 DEF LinkInit, Calls
  <2> QED
    BY <2>1, <2>2 DEF LinkInit, NeverStranded
<1>2. LinkInv /\ NeverStranded /\ [LinkNext]_linkVars => NeverStranded'
  BY NotStrandedStep
<1> QED
  BY <1>1, <1>2, LinkInvAlways, PTL DEF LinkSpec
=============================================================================
