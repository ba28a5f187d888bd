--------------------------- MODULE LiveQueryProofs ---------------------------
(***************************************************************************)
(* Theorems about LiveQuery, for any number of views and everything that      *)
(* ReadPath leaves open: the views run the read path, so its theorems hold   *)
(* of them, and a view never shows another conversation's data.              *)
(***************************************************************************)
EXTENDS LiveQuery, ReadPathProofs

-----------------------------------------------------------------------------
(* The views run the read path.                                            *)

ViewsMounted == mounted \in [Views -> Queries]

LEMMA ViewsMountedStep == ViewsMounted /\ [LiveNext]_liveVars => ViewsMounted'
<1> SUFFICES ASSUME ViewsMounted, [LiveNext]_liveVars PROVE ViewsMounted'
  OBVIOUS
<1> USE DEF ViewsMounted
<1>1. ASSUME NEW v \in Views, NEW c \in Conversations, Navigate(v, c) PROVE ViewsMounted'
  BY <1>1 DEF Navigate, Queries
<1>2. CASE UNCHANGED mounted
  BY <1>2
<1>3. (\E v \in Views, c \in Conversations : Navigate(v, c)) \/ UNCHANGED mounted
  BY DEF LiveNext, Backend, Broadcast, FirstFetch, Refresh, Answered, Ignored, OpenStream,
     LoseStream, Hears, Disregard, Refetch, liveVars, viewVars
<1> QED
  BY <1>1, <1>2, <1>3

\* A fetch is an arrival, an answer a departure, a broadcast a handled hint;
\* everything else is a step of the read path or leaves it alone.
LEMMA LiveStepReads == ViewsMounted /\ [LiveNext]_liveVars => [ReadNext]_readVars
<1> SUFFICES ASSUME ViewsMounted, [LiveNext]_liveVars PROVE [ReadNext]_readVars
  OBVIOUS
<1>1. CASE Backend
  BY <1>1 DEF Backend, ReadNext
<1>2. ASSUME NEW a \in Apis, NEW c \in Conversations, Broadcast(a, c) PROVE ReadNext
  BY <1>2 DEF Broadcast, ReadNext
<1>3. ASSUME NEW v \in Views, NEW r \in Requests, Fetch(v, mounted[v], r),
             UNCHANGED <<version, superseded, hintVars, cache>>
      PROVE  ReadNext
  <2>1. Arrival(r)
    BY <1>3 DEF Fetch, Arrival, ViewsMounted
  <2> QED
    BY <2>1 DEF ReadNext
<1>4. ASSUME NEW r \in Requests, Answered(r) \/ Ignored(r) PROVE ReadNext
  <2>1. Departure(r)
    BY <1>4 DEF Answered, Ignored, Departure
  <2> QED
    BY <2>1 DEF ReadNext
<1>5. CASE UNCHANGED readVars
  BY <1>5
<1>6. ASSUME NEW v \in Views, Hears(v) PROVE [ReadNext]_readVars
  BY <1>3, <1>6 DEF Hears, Refetch, Disregard
<1>7. ASSUME NEW v \in Views, NEW r \in Requests, FirstFetch(v, r) \/ Refresh(v, r)
      PROVE  ReadNext
  BY <1>3, <1>7 DEF FirstFetch, Refresh
<1>8. ASSUME NEW v \in Views,
             \/ \E c \in Conversations : Navigate(v, c)
             \/ \E a \in Apis : OpenStream(v, a)
             \/ LoseStream(v)
      PROVE  UNCHANGED readVars
  BY <1>8 DEF Navigate, OpenStream, LoseStream
<1> QED
  BY <1>1, <1>2, <1>4, <1>5, <1>6, <1>7, <1>8 DEF LiveNext, liveVars

\* The views' system is the read path with its clients filled in.
THEOREM LiveRunsReadPath == LiveSpec => ReadSpec
<1>1. LiveInit => ReadInit /\ ViewsMounted
  BY DEF LiveInit, ViewsMounted
<1> QED
  BY <1>1, ViewsMountedStep, LiveStepReads, PTL DEF LiveSpec, ReadSpec

\* What a view is answered from the cache is as fresh as the time to live says.
THEOREM LiveStaleness == LiveSpec => []StalenessBounded
BY LiveRunsReadPath, ReadStaleness, PTL

-----------------------------------------------------------------------------
(* Types.                                                                  *)

\* A view without a stream has no events on the way; one with a stream has, of
\* every write, the event, the hint that will become it, or neither.
EventsCounted ==
  \A v \in Views, c \in Conversations :
    IF station[v] = None
    THEN events[v][c] = 0
    ELSE unhinted[c] + hints[station[v]][c] + events[v][c] <= version[c]

LiveInv == LiveTypeOK /\ EventsCounted

\* With the events counted, no view is owed more of them than there were writes.
LEMMA EventsBound ==
  ASSUME ReadTypeOK', EventsCounted', station' \in [Views -> Apis \cup {None}],
         events' \in [Views -> [Conversations -> Nat]]
  PROVE  events' \in [Views -> [Conversations -> 0..MaxWrites]]
<1>1. ASSUME NEW v \in Views, NEW c \in Conversations
      PROVE  events'[v][c] \in 0..MaxWrites
  <2>1. version'[c] \in 0..MaxWrites /\ unhinted'[c] \in Nat /\ events'[v][c] \in Nat
    BY DEF ReadTypeOK, Queries
  <2>2. CASE station'[v] = None
    BY <2>2, TimeAssumption DEF EventsCounted
  <2>3. CASE station'[v] # None
    <3>1. station'[v] \in Apis
      BY <2>3
    <3>2. hints'[station'[v]][c] \in Nat
      BY <3>1 DEF ReadTypeOK
    <3>3. unhinted'[c] + hints'[station'[v]][c] + events'[v][c] <= version'[c]
      BY <2>3 DEF EventsCounted
    <3> QED
      BY <2>1, <3>2, <3>3, TimeAssumption
  <2> QED
    BY <2>2, <2>3
<1> QED
  BY <1>1

\* The read path makes hints only by writing.
LEMMA BackendFlow ==
  ASSUME ReadInv, Feed \/ (\E c \in Conversations : Write(c))
                       \/ (\E r \in Requests : Serve(r)) \/ ReadTick
  PROVE  \A a \in Apis, c \in Conversations :
           unhinted'[c] + hints'[a][c] + version[c] <= unhinted[c] + hints[a][c] + version'[c]
<1> SUFFICES ASSUME NEW b \in Apis, NEW d \in Conversations
             PROVE  unhinted'[d] + hints'[b][d] + version[d]
                      <= unhinted[d] + hints[b][d] + version'[d]
  OBVIOUS
<1>0. /\ unhinted \in [Conversations -> Nat] /\ hints \in [Apis -> [Conversations -> Nat]]
      /\ version \in [Queries -> Nat] /\ d \in Queries
      /\ unhinted[d] \in Nat /\ hints[b][d] \in Nat /\ version[d] \in Nat
  <2>1. /\ unhinted \in [Conversations -> 0..MaxWrites]
        /\ hints \in [Apis -> [Conversations -> 0..MaxWrites]]
        /\ version \in [Queries -> 0..MaxWrites] /\ d \in Queries
    BY DEF ReadInv, ReadTypeOK, Queries
  <2>2. unhinted[d] \in Nat /\ hints[b][d] \in Nat /\ version[d] \in Nat
    BY <2>1
  <2> QED
    BY <2>1, <2>2
<1>1. CASE UNCHANGED <<unhinted, hints, version>>
  BY <1>0, <1>1
<1>2. ASSUME NEW c \in Conversations, Publish(c)
      PROVE  unhinted'[d] + hints'[b][d] + version[d]
               <= unhinted[d] + hints[b][d] + version'[d]
  <2>1. /\ unhinted'[d] = IF d = c THEN unhinted[d] - 1 ELSE unhinted[d]
        /\ hints'[b][d] = IF listening[b] /\ d = c THEN hints[b][d] + 1 ELSE hints[b][d]
        /\ version'[d] = version[d]
    BY <1>0, <1>2 DEF Publish
  <2> QED
    BY <1>0, <2>1
<1>3. ASSUME NEW c \in Conversations, DropHint(c)
      PROVE  unhinted'[d] + hints'[b][d] + version[d]
               <= unhinted[d] + hints[b][d] + version'[d]
  <2>1. /\ unhinted'[d] = IF d = c THEN unhinted[d] - 1 ELSE unhinted[d]
        /\ UNCHANGED <<hints, version>>
    BY <1>0, <1>3 DEF DropHint
  <2> QED
    BY <1>0, <2>1
<1>4. ASSUME NEW a \in Apis, LoseBus(a)
      PROVE  unhinted'[d] + hints'[b][d] + version[d]
               <= unhinted[d] + hints[b][d] + version'[d]
  <2>1. /\ hints'[b][d] \in {0, hints[b][d]}
        /\ UNCHANGED <<unhinted, version>>
    BY <1>0, <1>4 DEF LoseBus
  <2> QED
    BY <1>0, <2>1
<1>5. ASSUME NEW c \in Conversations, Write(c)
      PROVE  unhinted'[d] + hints'[b][d] + version[d]
               <= unhinted[d] + hints[b][d] + version'[d]
  <2>1. /\ unhinted'[d] = IF d = c THEN unhinted[d] + 1 ELSE unhinted[d]
        /\ version'[d] = IF d = c THEN version[d] + 1 ELSE version[d]
        /\ UNCHANGED hints
    BY <1>0, <1>5, QueryAssumption DEF Write, Affected
  <2> QED
    BY <1>0, <2>1
<1>6. \/ UNCHANGED <<unhinted, hints, version>>
      \/ \E c \in Conversations : Publish(c) \/ DropHint(c) \/ Write(c)
      \/ \E a \in Apis : LoseBus(a)
  BY DEF Feed, RejoinBus, Evict, Serve, Goes, Hit, Miss, ReadDatabase, ReadMessages,
     ReadFails, Fill, ReadTick, hintVars
<1> QED
  BY <1>1, <1>2, <1>3, <1>4, <1>5, <1>6

\* The backend starts and ends no request.
LEMMA BackendKeepsRequests ==
  ASSUME ReadTypeOK, Backend
  PROVE  \A r \in Requests : (step'[r] = "idle") <=> (step[r] = "idle")
<1>1. CASE UNCHANGED step
  BY <1>1
<1>2. ASSUME NEW r \in Requests, Serve(r)
      PROVE  \A x \in Requests : (step'[x] = "idle") <=> (step[x] = "idle")
  <2>1. PICK to \in Steps \ {"idle"} : step[r] # "idle" /\ step' = [step EXCEPT ![r] = to]
    BY <1>2 DEF Serve, Goes, Hit, Miss, ReadDatabase, ReadMessages, ReadFails, Fill, Steps
  <2> QED
    BY <2>1 DEF ReadTypeOK
<1>3. UNCHANGED step \/ \E r \in Requests : Serve(r)
  BY DEF Backend, Feed, Publish, DropHint, LoseBus, RejoinBus, Evict, Write, ReadTick,
     requestVars
<1> QED
  BY <1>1, <1>2, <1>3

LEMMA BackendInv ==
  ASSUME ReadInv, ReadInv', LiveInv, Backend
  PROVE  LiveInv'
<1>1. UNCHANGED viewVars
  BY DEF Backend
<1>2. EventsCounted'
  <2> SUFFICES ASSUME NEW v \in Views, NEW c \in Conversations, station[v] # None
               PROVE  unhinted'[c] + hints'[station[v]][c] + events[v][c] <= version'[c]
    BY <1>1 DEF LiveInv, EventsCounted, viewVars
  <2>1. station[v] \in Apis
    BY DEF LiveInv, LiveTypeOK
  <2>2. unhinted[c] + hints[station[v]][c] + events[v][c] <= version[c]
    BY DEF LiveInv, EventsCounted
  <2>3. unhinted'[c] + hints'[station[v]][c] + version[c]
          <= unhinted[c] + hints[station[v]][c] + version'[c]
    BY <2>1, BackendFlow DEF Backend
  <2>4. /\ unhinted[c] \in Nat /\ hints[station[v]][c] \in Nat /\ version[c] \in Nat
        /\ unhinted'[c] \in Nat /\ hints'[station[v]][c] \in Nat /\ version'[c] \in Nat
        /\ events[v][c] \in Nat
    BY <2>1 DEF ReadInv, ReadTypeOK, Queries, LiveInv, LiveTypeOK
  <2> QED
    BY <2>2, <2>3, <2>4
<1>3. LiveTypeOK'
  BY <1>1, BackendKeepsRequests DEF LiveInv, LiveTypeOK, ReadInv, viewVars
<1> QED
  BY <1>2, <1>3 DEF LiveInv

\* A request that leaves a view keeps the types of everything else.
LEMMA FetchInv ==
  ASSUME ReadTypeOK, ReadTypeOK', LiveTypeOK, NEW v \in Views, NEW q \in Queries,
         NEW r \in Requests, Fetch(v, q, r)
  PROVE  /\ owner' \in [Requests -> Views \cup {None}]
         /\ cancelled \subseteq {x \in Requests : owner'[x] # None}
         /\ \A x \in Requests : (owner'[x] = None) <=> (step'[x] = "idle")
<1>1. /\ step' = [step EXCEPT ![r] = "lookup"]
      /\ owner' = [owner EXCEPT ![r] = v]
  BY DEF Fetch, Arrive
<1> QED
  BY <1>1, ViewAssumption DEF LiveTypeOK, ReadTypeOK

\* An answer ends its request.
LEMMA LeaveInv ==
  ASSUME ReadTypeOK, LiveTypeOK, NEW r \in Requests, Leave(r),
         owner' = [owner EXCEPT ![r] = None],
         cancelled' = cancelled \ {r}
  PROVE  /\ owner' \in [Requests -> Views \cup {None}]
         /\ cancelled' \subseteq {x \in Requests : owner'[x] # None}
         /\ \A x \in Requests : (owner'[x] = None) <=> (step'[x] = "idle")
BY DEF Leave, LiveTypeOK, ReadTypeOK

LEMMA LiveInvStep ==
  ASSUME ReadInv, ReadInv', LiveInv, [LiveNext]_liveVars
  PROVE  LiveInv'
<1> ReadTypeOK /\ ReadTypeOK' /\ LiveTypeOK /\ EventsCounted
  BY DEF ReadInv, LiveInv
<1> USE ViewAssumption
<1>1. CASE Backend
  BY <1>1, BackendInv
<1>2. ASSUME NEW a \in Apis, NEW c \in Conversations, Broadcast(a, c) PROVE LiveInv'
  <2>1. events' \in [Views -> [Conversations -> Nat]]
    BY <1>2 DEF Broadcast, LiveTypeOK
  <2>2. UNCHANGED <<version, unhinted, step, mounted, shown, loading, error, station, owner,
                    cancelled, visits>>
    BY <1>2 DEF Broadcast, HandleHint, requestVars
  <2>3. EventsCounted'
    <3> SUFFICES ASSUME NEW v \in Views, NEW d \in Conversations
                 PROVE  IF station[v] = None
                        THEN events'[v][d] = 0
                        ELSE unhinted[d] + hints'[station[v]][d] + events'[v][d] <= version[d]
      BY <2>2 DEF EventsCounted
    <3>1. IF station[v] = None
          THEN events[v][d] = 0
          ELSE unhinted[d] + hints[station[v]][d] + events[v][d] <= version[d]
      BY DEF EventsCounted
    <3>2. events'[v][d] = IF station[v] = a /\ d = c THEN events[v][d] + 1 ELSE events[v][d]
      BY <1>2 DEF Broadcast, LiveTypeOK
    <3>3. CASE station[v] = None
      <4>1. station[v] # a
        BY <3>3, QueryAssumption
      <4> QED
        BY <3>1, <3>2, <3>3, <4>1
    <3>4. CASE station[v] # None
      <4>1. station[v] \in Apis
        BY <3>4 DEF LiveTypeOK
      <4>2. hints'[station[v]][d] = IF station[v] = a /\ d = c THEN hints[station[v]][d] - 1
                                                               ELSE hints[station[v]][d]
        BY <1>2, <4>1 DEF Broadcast, HandleHint, ReadTypeOK
      <4>3. /\ unhinted[d] \in Nat /\ hints[station[v]][d] \in Nat /\ events[v][d] \in Nat
            /\ version[d] \in Nat
        BY <4>1 DEF ReadTypeOK, LiveTypeOK, Queries
      <4> QED
        BY <3>1, <3>2, <3>4, <4>2, <4>3
    <3> QED
      BY <3>3, <3>4
  <2>4. events' \in [Views -> [Conversations -> 0..MaxWrites]]
    BY <2>1, <2>2, <2>3, EventsBound DEF LiveTypeOK
  <2>5. LiveTypeOK'
    BY <2>2, <2>4 DEF LiveTypeOK
  <2> QED
    BY <2>3, <2>5 DEF LiveInv
<1>3. ASSUME NEW v \in Views, NEW r \in Requests, FirstFetch(v, r) \/ Refresh(v, r)
      PROVE  LiveInv'
  <2>1. /\ Fetch(v, mounted[v], r) /\ mounted[v] \in Queries
        /\ visits' \in 0..MaxVisits
        /\ UNCHANGED <<version, hintVars, mounted, shown, loading, error, station, events,
                       cancelled>>
    BY <1>3 DEF FirstFetch, Refresh, LiveTypeOK
  <2>2. LiveTypeOK'
    BY <2>1, FetchInv DEF LiveTypeOK
  <2>3. EventsCounted'
    BY <2>1 DEF EventsCounted, hintVars
  <2> QED
    BY <2>2, <2>3 DEF LiveInv
<1>4. ASSUME NEW r \in Requests, Answered(r) \/ Ignored(r) PROVE LiveInv'
  <2>1. /\ Leave(r) /\ owner' = [owner EXCEPT ![r] = None] /\ cancelled' = cancelled \ {r}
        /\ UNCHANGED <<version, hintVars, mounted, station, events, visits>>
    BY <1>4 DEF Answered, Ignored
  <2>2. /\ shown' \in [Views -> [query : Queries, version : 0..MaxWrites] \cup {None}]
        /\ loading' \in [Views -> BOOLEAN]
        /\ error' \in [Views -> BOOLEAN]
    <3>1. CASE Answered(r)
      <4>1. /\ owner[r] \in Views
            /\ step[r] = "reply" => Data(query[r], result[r]) \in
                                      [query : Queries, version : 0..MaxWrites]
        BY <3>1 DEF Answered, Leave, LiveTypeOK, ReadTypeOK, Data
      <4> QED
        BY <3>1, <4>1 DEF Answered, LiveTypeOK
    <3>2. CASE Ignored(r)
      BY <3>2 DEF Ignored, LiveTypeOK
    <3> QED
      BY <1>4, <3>1, <3>2
  <2>3. LiveTypeOK'
    BY <2>1, <2>2, LeaveInv DEF LiveTypeOK
  <2>4. EventsCounted'
    BY <2>1 DEF EventsCounted, hintVars
  <2> QED
    BY <2>3, <2>4 DEF LiveInv
<1>5. ASSUME NEW v \in Views, NEW c \in Conversations, Navigate(v, c) PROVE LiveInv'
  <2>1. LiveTypeOK'
    BY <1>5, TimeAssumption DEF Navigate, LiveTypeOK, readVars, requestVars, NoEvents, Queries
  <2>2. EventsCounted'
    BY <1>5 DEF Navigate, LiveTypeOK, EventsCounted, readVars, hintVars, NoEvents
  <2> QED
    BY <2>1, <2>2 DEF LiveInv
<1>6. ASSUME NEW v \in Views, NEW a \in Apis, OpenStream(v, a) PROVE LiveInv'
  <2>1. LiveTypeOK'
    BY <1>6 DEF OpenStream, LiveTypeOK, readVars, requestVars
  <2>2. ASSUME NEW c \in Conversations
        PROVE  unhinted[c] + hints[a][c] + events[v][c] <= version[c]
    <3>1. events[v][c] = 0
      BY <1>6 DEF OpenStream, EventsCounted
    <3>2. unhinted[c] + hints[a][c] + evicting[a][c] <= version[c]
      BY DEF ReadInv, HintsCounted
    <3>3. /\ unhinted[c] \in Nat /\ hints[a][c] \in Nat /\ evicting[a][c] \in Nat
          /\ version[c] \in Nat
      BY DEF ReadTypeOK, Queries
    <3> QED
      BY <3>1, <3>2, <3>3
  <2>3. EventsCounted'
    BY <1>6, <2>2, QueryAssumption
       DEF OpenStream, LiveTypeOK, EventsCounted, readVars, hintVars
  <2> QED
    BY <2>1, <2>3 DEF LiveInv
<1>7. ASSUME NEW v \in Views, LoseStream(v) PROVE LiveInv'
  <2>1. LiveTypeOK'
    BY <1>7, TimeAssumption DEF LoseStream, LiveTypeOK, readVars, requestVars, NoEvents
  <2>2. EventsCounted'
    BY <1>7 DEF LoseStream, LiveTypeOK, EventsCounted, readVars, hintVars, NoEvents
  <2> QED
    BY <2>1, <2>2 DEF LiveInv
<1>8. ASSUME NEW v \in Views, NEW c \in Conversations, HearsOf(v, c),
             UNCHANGED <<version, hintVars, station>>
      PROVE  EventsCounted' /\ events' \in [Views -> [Conversations -> 0..MaxWrites]]
  <2>1. /\ events' \in [Views -> [Conversations -> Nat]]
        /\ \A w \in Views, d \in Conversations :
             events'[w][d] = IF w = v /\ d = c THEN events[w][d] - 1 ELSE events[w][d]
        /\ events[v][c] > 0
    BY <1>8 DEF HearsOf, LiveTypeOK
  <2>2. EventsCounted'
    <3> SUFFICES ASSUME NEW w \in Views, NEW d \in Conversations
                 PROVE  IF station[w] = None
                        THEN events'[w][d] = 0
                        ELSE unhinted[d] + hints[station[w]][d] + events'[w][d] <= version[d]
      BY <1>8 DEF EventsCounted, hintVars
    <3>1. IF station[w] = None
          THEN events[w][d] = 0
          ELSE unhinted[d] + hints[station[w]][d] + events[w][d] <= version[d]
      BY DEF EventsCounted
    <3>2. events[w][d] \in Nat
      BY DEF LiveTypeOK
    <3>3. CASE station[w] = None
      BY <2>1, <3>1, <3>2, <3>3
    <3>4. CASE station[w] # None
      <4>1. station[w] \in Apis
        BY <3>4 DEF LiveTypeOK
      <4>2. unhinted[d] \in Nat /\ hints[station[w]][d] \in Nat /\ version[d] \in Nat
        <5>1. /\ unhinted \in [Conversations -> 0..MaxWrites]
              /\ hints \in [Apis -> [Conversations -> 0..MaxWrites]]
              /\ version \in [Queries -> 0..MaxWrites] /\ d \in Queries
          BY DEF ReadTypeOK, Queries
        <5> QED
          BY <4>1, <5>1
      <4>3. events'[w][d] \in {events[w][d], events[w][d] - 1}
        BY <2>1
      <4> QED
        BY <3>1, <3>2, <3>4, <4>2, <4>3
    <3> QED
      BY <3>3, <3>4
  <2>3. station' \in [Views -> Apis \cup {None}]
    BY <1>8 DEF LiveTypeOK
  <2> QED
    BY <2>1, <2>2, <2>3, EventsBound
<1>9. ASSUME NEW v \in Views, Hears(v) PROVE LiveInv'
  <2>1. ASSUME NEW c \in Conversations, Disregard(v, c) PROVE LiveInv'
    <3>1. /\ HearsOf(v, c)
          /\ UNCHANGED <<readVars, mounted, shown, loading, error, station, owner, cancelled,
                         visits>>
      BY <2>1 DEF Disregard
    <3>2. EventsCounted' /\ events' \in [Views -> [Conversations -> 0..MaxWrites]]
      BY <1>8, <3>1 DEF readVars
    <3> QED
      BY <3>1, <3>2 DEF LiveInv, LiveTypeOK, readVars, requestVars
  <2>2. ASSUME NEW c \in Conversations, NEW r \in Requests, Refetch(v, c, r) PROVE LiveInv'
    <3>1. /\ HearsOf(v, c) /\ Fetch(v, mounted[v], r) /\ mounted[v] \in Queries
          /\ UNCHANGED <<version, hintVars, mounted, shown, loading, error, station, cancelled,
                         visits>>
      BY <2>2 DEF Refetch, LiveTypeOK
    <3>2. EventsCounted' /\ events' \in [Views -> [Conversations -> 0..MaxWrites]]
      BY <1>8, <3>1
    <3> QED
      BY <3>1, <3>2, FetchInv DEF LiveInv, LiveTypeOK
  <2> QED
    BY <1>9, <2>1, <2>2 DEF Hears
<1>10. CASE UNCHANGED liveVars
  BY <1>10 DEF LiveInv, LiveTypeOK, EventsCounted, liveVars, viewVars, readVars, hintVars,
     requestVars
<1> QED
  BY <1>1, <1>2, <1>3, <1>4, <1>5, <1>6, <1>7, <1>9, <1>10 DEF LiveNext

LEMMA LiveInvInit == LiveInit /\ ReadInv => LiveInv
<1> SUFFICES ASSUME LiveInit, ReadInv PROVE LiveInv
  OBVIOUS
<1>1. LiveTypeOK
  BY ViewAssumption, TimeAssumption DEF LiveInit, ReadInit, ReadInv, LiveTypeOK, NoEvents
<1>2. EventsCounted
  BY DEF LiveInit, EventsCounted, NoEvents
<1> QED
  BY <1>1, <1>2 DEF LiveInv

LEMMA LiveInvAlways == LiveSpec => [](ReadInv /\ LiveInv)
<1>1. LiveSpec => []ReadInv
  BY LiveRunsReadPath, ReadInvAlways, PTL
<1> QED
  BY <1>1, LiveInvInit, LiveInvStep, PTL DEF LiveSpec

\* Types: in particular a request has a view exactly while it is under way, and no
\* view is owed more events than there were writes.
THEOREM LiveTyping == LiveSpec => []LiveTypeOK
<1>1. LiveInv => LiveTypeOK
  BY DEF LiveInv
<1> QED
  BY <1>1, LiveInvAlways, PTL

-----------------------------------------------------------------------------
(* What a view shows.                                                      *)

\* A request whose effect is current asks for what its view has mounted.
AsksForIts ==
  \A r \in Requests :
    owner[r] # None /\ r \notin cancelled => query[r] = mounted[owner[r]]

ShownInv == AsksForIts /\ ShowsItsQuery

LEMMA ShownInvInit == LiveInit => ShownInv
BY DEF LiveInit, ShownInv, AsksForIts, ShowsItsQuery

LEMMA ShownInvStep ==
  ASSUME ReadInv, LiveInv, ShownInv, [LiveNext]_liveVars
  PROVE  ShownInv'
<1> ReadTypeOK /\ LiveTypeOK
  BY DEF ReadInv, LiveInv
<1> USE ViewAssumption DEF ShownInv, AsksForIts, ShowsItsQuery
<1>1. CASE UNCHANGED <<query, owner, cancelled, mounted, shown>>
  BY <1>1
<1>2. CASE Backend
  <2>1. UNCHANGED <<query, viewVars>>
    BY <1>2 DEF Backend, Feed, Publish, DropHint, LoseBus, RejoinBus, Evict, Write, Serve,
       Goes, Hit, Miss, ReadDatabase, ReadMessages, ReadFails, Fill, ReadTick, requestVars
  <2> QED
    BY <1>1, <2>1 DEF viewVars
<1>3. ASSUME NEW v \in Views, NEW r \in Requests, Fetch(v, mounted[v], r),
             UNCHANGED <<cancelled, mounted, shown>>
      PROVE  ShownInv'
  BY <1>3 DEF Fetch, Arrive, LiveTypeOK, ReadTypeOK
<1>4. ASSUME NEW r \in Requests, Answered(r) PROVE ShownInv'
  <2>1. owner[r] \in Views /\ query[r] = mounted[owner[r]]
    BY <1>4 DEF Answered, LiveTypeOK
  <2>2. \A v \in Views : shown'[v] # None => shown'[v].query = mounted[v]
    BY <1>4, <2>1 DEF Answered, Data, LiveTypeOK
  <2>3. AsksForIts'
    BY <1>4 DEF Answered, Leave, LiveTypeOK, ReadTypeOK
  <2> QED
    BY <1>4, <2>2, <2>3 DEF Answered
<1>5. ASSUME NEW r \in Requests, Ignored(r) PROVE ShownInv'
  BY <1>5 DEF Ignored, Leave, LiveTypeOK, ReadTypeOK
<1>6. ASSUME NEW v \in Views, NEW c \in Conversations, Navigate(v, c) PROVE ShownInv'
  BY <1>6 DEF Navigate, LiveTypeOK, readVars, requestVars
<1>7. ASSUME NEW v \in Views,
             \/ \E r \in Requests : FirstFetch(v, r) \/ Refresh(v, r)
             \/ Hears(v)
      PROVE  ShownInv'
  BY <1>1, <1>3, <1>7 DEF FirstFetch, Refresh, Hears, Disregard, Refetch, readVars, requestVars
<1>8. ASSUME \/ \E a \in Apis, c \in Conversations : Broadcast(a, c)
             \/ \E v \in Views, a \in Apis : OpenStream(v, a)
             \/ \E v \in Views : LoseStream(v)
             \/ UNCHANGED liveVars
      PROVE  ShownInv'
  BY <1>1, <1>8 DEF Broadcast, HandleHint, OpenStream, LoseStream, liveVars, viewVars,
     readVars, requestVars
<1> QED
  BY <1>2, <1>4, <1>5, <1>6, <1>7, <1>8 DEF LiveNext

\* A view never shows another conversation's data.
THEOREM LiveShowsItsQuery == LiveSpec => []ShowsItsQuery
<1>1. ShownInv => ShowsItsQuery
  BY DEF ShownInv
<1> QED
  BY <1>1, ShownInvInit, ShownInvStep, LiveInvAlways, PTL DEF LiveSpec
=============================================================================
