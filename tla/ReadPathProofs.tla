---------------------------- MODULE ReadPathProofs ----------------------------
(***************************************************************************)
(* Theorems about ReadPath, for any number of conversations, processes,      *)
(* caches, requests and writes, any time to live and every choice of faults: *)
(* its types, and that the time to live bounds how stale an entry can be.    *)
(***************************************************************************)
EXTENDS ReadPath, TLAPS

Steps == {"idle", "lookup", "read", "messages", "fill", "reply", "failed"}

\* A write has one hint, and each process handles it once: what is still to be
\* published, waiting in a queue or being evicted never exceeds the writes.
HintsCounted ==
  \A c \in Conversations :
    /\ version[c] <= version[List]
    /\ \A a \in Apis : unhinted[c] + hints[a][c] + evicting[a][c] <= version[c]
    /\ unhinted[c] <= version[c]

ReadInv == ReadTypeOK /\ HintsCounted

-----------------------------------------------------------------------------
(* Types.                                                                  *)

LEMMA ReadInvInit == ReadInit => ReadInv
<1> SUFFICES ASSUME ReadInit PROVE ReadInv
  OBVIOUS
<1>1. ReadTypeOK
  BY TimeAssumption, QueryAssumption DEF ReadInit, ReadTypeOK, Horizon
<1>2. HintsCounted
  <2>1. \A q \in Queries : version[q] = 0
    BY DEF ReadInit
  <2>2. \A c \in Conversations, a \in Apis :
          unhinted[c] = 0 /\ hints[a][c] = 0 /\ evicting[a][c] = 0
    BY DEF ReadInit
  <2>3. \A c \in Conversations : unhinted[c] = 0 /\ version[c] = 0 /\ version[List] = 0
    BY <2>1 DEF ReadInit, Queries
  <2>4. ASSUME NEW c \in Conversations, NEW a \in Apis
        PROVE  unhinted[c] + hints[a][c] + evicting[a][c] <= version[c]
    BY <2>2, <2>3
  <2>5. ASSUME NEW c \in Conversations
        PROVE  version[c] <= version[List] /\ unhinted[c] <= version[c]
    BY <2>3
  <2> QED
    BY <2>4, <2>5 DEF HintsCounted
<1> QED
  BY <1>1, <1>2 DEF ReadInv

\* A request that moves on keeps the types of everything but the cache and its
\* result.
LEMMA GoesType ==
  ASSUME ReadInv, NEW r \in Requests, NEW from \in Steps \ {"idle"}, NEW to \in Steps \ {"idle"},
         Goes(r, from, to),
         cache' \in [Caches -> [Queries -> EntryType \cup {None}]],
         result' \in [Requests -> 0..MaxWrites]
  PROVE  ReadInv'
<1>1. ReadTypeOK'
  BY DEF ReadInv, ReadTypeOK, Goes, hintVars, Steps
<1>2. HintsCounted'
  BY DEF ReadInv, HintsCounted, Goes, hintVars
<1> QED
  BY <1>1, <1>2 DEF ReadInv

\* A request that is served has a query, a process and that process's cache.
LEMMA Served ==
  ASSUME ReadInv, NEW r \in Requests, step[r] # "idle"
  PROVE  query[r] \in Queries /\ server[r] \in Apis /\ CacheFor(r) \in Caches
BY CacheAssumption DEF ReadInv, ReadTypeOK, CacheFor

LEMMA ServeType ==
  ASSUME ReadInv, NEW r \in Requests, Serve(r)
  PROVE  ReadInv'
<1> USE DEF Steps
<1> /\ cache \in [Caches -> [Queries -> EntryType \cup {None}]]
    /\ result \in [Requests -> 0..MaxWrites]
    /\ version \in [Queries -> 0..MaxWrites]
  BY DEF ReadInv, ReadTypeOK
<1>1. CASE Hit(r)
  <2>1. query[r] \in Queries /\ CacheFor(r) \in Caches
    BY <1>1, Served DEF Hit, Goes
  <2>2. cache[CacheFor(r)][query[r]].version \in 0..MaxWrites
    BY <1>1, <2>1 DEF Hit, EntryType
  <2>3. result' \in [Requests -> 0..MaxWrites] /\ UNCHANGED cache /\ Goes(r, "lookup", "reply")
    BY <1>1, <2>2 DEF Hit
  <2> QED
    BY <2>3, GoesType
<1>2. CASE Miss(r)
  <2>1. Goes(r, "lookup", "read") /\ UNCHANGED <<cache, result>>
    BY <1>2 DEF Miss
  <2> QED
    BY <2>1, GoesType
<1>3. CASE ReadDatabase(r)
  <2>1. query[r] \in Queries
    BY <1>3, Served DEF ReadDatabase, Goes
  <2>2. result' \in [Requests -> 0..MaxWrites] /\ UNCHANGED cache
    BY <1>3, <2>1 DEF ReadDatabase
  <2>3. Goes(r, "read", "fill") \/ Goes(r, "read", "messages")
    BY <1>3 DEF ReadDatabase
  <2> QED
    BY <2>2, <2>3, GoesType
<1>4. CASE ReadMessages(r)
  <2>1. Goes(r, "messages", "fill") /\ UNCHANGED <<cache, result>>
    BY <1>4 DEF ReadMessages
  <2> QED
    BY <2>1, GoesType
<1>5. CASE ReadFails(r)
  <2>1. /\ Goes(r, "read", "failed") \/ Goes(r, "messages", "failed")
        /\ UNCHANGED <<cache, result>>
    BY <1>5 DEF ReadFails
  <2> QED
    BY <2>1, GoesType
<1>6. CASE Fill(r)
  <2>1. Goes(r, "fill", "reply") /\ UNCHANGED result
    BY <1>6 DEF Fill
  <2>2. query[r] \in Queries /\ CacheFor(r) \in Caches
    BY <2>1, Served DEF Goes
  <2>3. Entry(result[r]) \in EntryType
    BY TimeAssumption DEF Entry, EntryType
  <2>4. cache' \in [Caches -> [Queries -> EntryType \cup {None}]]
    BY <1>6, <2>2, <2>3 DEF Fill
  <2> QED
    BY <2>1, <2>4, GoesType
<1> QED
  BY <1>1, <1>2, <1>3, <1>4, <1>5, <1>6 DEF Serve

\* A step that takes hints along or drops them keeps the count: none is made but
\* by a write.
LEMMA HintsMove ==
  ASSUME ReadInv,
         unhinted' \in [Conversations -> Nat],
         hints' \in [Apis -> [Conversations -> Nat]],
         evicting' \in [Apis -> [Conversations -> Nat]],
         \A c \in Conversations : unhinted'[c] <= unhinted[c],
         \A a \in Apis, c \in Conversations :
           unhinted'[c] + hints'[a][c] + evicting'[a][c]
             <= unhinted[c] + hints[a][c] + evicting[a][c],
         listening' \in [Apis -> BOOLEAN],
         cache' \in [Caches -> [Queries -> EntryType \cup {None}]],
         UNCHANGED <<version, superseded, requestVars>>
  PROVE  ReadInv'
<1>1. ASSUME NEW c \in Conversations
      PROVE  /\ version[c] \in 0..MaxWrites /\ version[List] \in Int
             /\ version[c] <= version[List] /\ unhinted[c] <= version[c]
             /\ unhinted[c] \in Int
  BY DEF ReadInv, ReadTypeOK, HintsCounted, Queries
<1>2. ASSUME NEW c \in Conversations, NEW a \in Apis
      PROVE  /\ unhinted[c] + hints[a][c] + evicting[a][c] <= version[c]
             /\ hints[a][c] \in Int /\ evicting[a][c] \in Int
             /\ hints'[a][c] \in Nat /\ evicting'[a][c] \in Nat
  BY DEF ReadInv, ReadTypeOK, HintsCounted
<1>3. \A c \in Conversations : unhinted'[c] \in Nat /\ unhinted'[c] <= version[c]
  BY <1>1
<1>4. ASSUME NEW c \in Conversations, NEW a \in Apis
      PROVE  unhinted'[c] + hints'[a][c] + evicting'[a][c] <= version[c]
  <2>1. unhinted'[c] + hints'[a][c] + evicting'[a][c]
          <= unhinted[c] + hints[a][c] + evicting[a][c]
    OBVIOUS
  <2>2. unhinted'[c] \in Nat
    OBVIOUS
  <2> QED
    BY <1>1, <1>2, <2>1, <2>2
<1>5. ASSUME NEW c \in Conversations, NEW a \in Apis
      PROVE  hints'[a][c] \in 0..MaxWrites /\ evicting'[a][c] \in 0..MaxWrites
  BY <1>1, <1>2, <1>3, <1>4, TimeAssumption
<1>6. \A c \in Conversations : unhinted'[c] \in 0..MaxWrites
  BY <1>1, <1>3, TimeAssumption
<1>7. /\ unhinted' \in [Conversations -> 0..MaxWrites]
      /\ hints' \in [Apis -> [Conversations -> 0..MaxWrites]]
      /\ evicting' \in [Apis -> [Conversations -> 0..MaxWrites]]
  BY <1>5, <1>6
<1>8. ReadTypeOK'
  BY <1>7 DEF ReadInv, ReadTypeOK, requestVars
<1>9. HintsCounted'
  BY <1>1, <1>3, <1>4 DEF HintsCounted
<1> QED
  BY <1>8, <1>9 DEF ReadInv

\* Hints travel, are dropped, become evictions and are executed.
LEMMA FeedType ==
  ASSUME ReadInv, Feed \/ \E a \in Apis, c \in Conversations : HandleHint(a, c)
  PROVE  ReadInv'
<1> USE DEF requestVars
<1>0. /\ unhinted \in [Conversations -> Nat]
      /\ hints \in [Apis -> [Conversations -> Nat]]
      /\ evicting \in [Apis -> [Conversations -> Nat]]
      /\ listening \in [Apis -> BOOLEAN]
      /\ cache \in [Caches -> [Queries -> EntryType \cup {None}]]
  BY DEF ReadInv, ReadTypeOK
<1>1. ASSUME NEW c \in Conversations, Publish(c) PROVE ReadInv'
  <2>1. /\ unhinted' \in [Conversations -> Nat]
        /\ \A x \in Conversations : unhinted'[x] = IF x = c THEN unhinted[c] - 1
                                                            ELSE unhinted[x]
    BY <1>0, <1>1 DEF Publish
  <2>2. /\ hints' \in [Apis -> [Conversations -> Nat]]
        /\ \A a \in Apis, x \in Conversations :
             hints'[a][x] = IF listening[a] /\ x = c THEN hints[a][x] + 1 ELSE hints[a][x]
    BY <1>0, <1>1 DEF Publish
  <2>3. \A a \in Apis, x \in Conversations :
          hints[a][x] \in Nat /\ evicting[a][x] \in Nat /\ unhinted[x] \in Nat
    BY <1>0
  <2>4. UNCHANGED <<version, superseded, listening, evicting, cache, requestVars>>
    BY <1>1 DEF Publish
  <2>5. /\ \A x \in Conversations : unhinted'[x] <= unhinted[x]
        /\ \A a \in Apis, x \in Conversations :
             unhinted'[x] + hints'[a][x] + evicting'[a][x]
               <= unhinted[x] + hints[a][x] + evicting[a][x]
    <3>1. ASSUME NEW x \in Conversations PROVE unhinted'[x] <= unhinted[x]
      BY <1>0, <2>1
    <3>2. ASSUME NEW a \in Apis, NEW x \in Conversations
          PROVE  unhinted'[x] + hints'[a][x] + evicting'[a][x]
                   <= unhinted[x] + hints[a][x] + evicting[a][x]
      <4>1. evicting'[a][x] = evicting[a][x]
        BY <2>4
      <4>2. CASE x = c
        BY <2>1, <2>2, <2>3, <4>1, <4>2
      <4>3. CASE x # c
        BY <2>1, <2>2, <2>3, <4>1, <4>3
      <4> QED
        BY <4>2, <4>3
    <3> QED
      BY <3>1, <3>2
  <2> QED
    BY <1>0, <2>1, <2>2, <2>4, <2>5, HintsMove
<1>2. ASSUME NEW c \in Conversations, DropHint(c) PROVE ReadInv'
  BY <1>0, <1>2, HintsMove DEF DropHint
<1>3. ASSUME NEW a \in Apis, LoseBus(a) PROVE ReadInv'
  <2>1. /\ hints' \in [Apis -> [Conversations -> Nat]]
        /\ \A b \in Apis, x \in Conversations : hints'[b][x] <= hints[b][x]
    BY <1>0, <1>3 DEF LoseBus
  <2> QED
    BY <1>0, <1>3, <2>1, HintsMove DEF LoseBus
<1>4. ASSUME NEW a \in Apis, RejoinBus(a) PROVE ReadInv'
  BY <1>0, <1>4, HintsMove DEF RejoinBus
<1>5. ASSUME NEW a \in Apis, NEW c \in Conversations, Evict(a, c) PROVE ReadInv'
  <2>1. cache' \in [Caches -> [Queries -> EntryType \cup {None}]]
    BY <1>0, <1>5, CacheAssumption DEF Evict
  <2>2. /\ evicting' \in [Apis -> [Conversations -> Nat]]
        /\ \A b \in Apis, x \in Conversations : evicting'[b][x] <= evicting[b][x]
    BY <1>0, <1>5 DEF Evict
  <2> QED
    BY <1>0, <1>5, <2>1, <2>2, HintsMove DEF Evict
<1>6. ASSUME NEW a \in Apis, NEW c \in Conversations, HandleHint(a, c) PROVE ReadInv'
  <2>1. /\ hints' \in [Apis -> [Conversations -> Nat]]
        /\ evicting' \in [Apis -> [Conversations -> Nat]]
        /\ \A b \in Apis, x \in Conversations :
             hints'[b][x] + evicting'[b][x] = hints[b][x] + evicting[b][x]
    BY <1>0, <1>6 DEF HandleHint
  <2> QED
    BY <1>0, <1>6, <2>1, HintsMove DEF HandleHint
<1> QED
  BY <1>1, <1>2, <1>3, <1>4, <1>5, <1>6 DEF Feed

LEMMA ReadInvStep == ReadInv /\ [ReadNext]_readVars => ReadInv'
<1> SUFFICES ASSUME ReadInv, [ReadNext]_readVars PROVE ReadInv'
  OBVIOUS
<1>1. CASE Feed \/ \E a \in Apis, c \in Conversations : HandleHint(a, c)
  BY <1>1, FeedType
<1>2. ASSUME NEW c \in Conversations, Write(c) PROVE ReadInv'
  <2>1. \A q \in Queries : version[q] \in 0..MaxWrites /\ version[q] <= version[List]
    BY DEF ReadInv, ReadTypeOK, HintsCounted, Queries
  <2>2. version' = [q \in Queries |-> IF q \in Affected(c) THEN version[q] + 1 ELSE version[q]]
    BY <1>2 DEF Write
  <2>3. version' \in [Queries -> 0..MaxWrites]
    <3>1. version[List] < MaxWrites
      BY <1>2 DEF Write
    <3>2. List \in Queries
      BY DEF Queries
    <3>3. ASSUME NEW q \in Queries PROVE version'[q] \in 0..MaxWrites
      <4>1. /\ version[q] \in 0..MaxWrites /\ version[q] <= version[List]
            /\ version[List] \in 0..MaxWrites
            /\ version'[q] \in {version[q], version[q] + 1}
        BY <2>1, <2>2, <3>2
      <4> QED
        BY <3>1, <4>1, TimeAssumption
    <3> QED
      BY <2>2, <3>3
  <2>4. /\ version'[List] = version[List] + 1 /\ version'[c] = version[c] + 1
        /\ \A d \in Conversations \ {c} : version'[d] = version[d]
        /\ List \in Queries /\ Conversations \subseteq Queries
    BY <2>2, QueryAssumption DEF Queries, Affected
  <2>5. /\ unhinted'[c] = unhinted[c] + 1
        /\ \A d \in Conversations \ {c} : unhinted'[d] = unhinted[d]
        /\ unhinted \in [Conversations -> 0..MaxWrites]
        /\ hints \in [Apis -> [Conversations -> 0..MaxWrites]]
        /\ evicting \in [Apis -> [Conversations -> 0..MaxWrites]]
        /\ UNCHANGED <<hints, evicting>>
        /\ unhinted' = [unhinted EXCEPT ![c] = @ + 1]
    BY <1>2 DEF ReadInv, ReadTypeOK, Write
  <2>6. ASSUME NEW d \in Conversations
        PROVE  version'[d] <= version'[List] /\ unhinted'[d] <= version'[d]
    <3>1. unhinted[d] <= version[d]
      BY DEF ReadInv, HintsCounted
    <3> QED
      BY <2>1, <2>4, <2>5, <3>1
  <2>7. ASSUME NEW d \in Conversations, NEW a \in Apis
        PROVE  unhinted'[d] + hints'[a][d] + evicting'[a][d] <= version'[d]
    <3>1. unhinted[d] + hints[a][d] + evicting[a][d] <= version[d]
      BY DEF ReadInv, HintsCounted
    <3>2. hints[a][d] \in Int /\ evicting[a][d] \in Int
      BY <2>5
    <3> QED
      BY <2>1, <2>4, <2>5, <3>1, <3>2
  <2>8. unhinted' \in [Conversations -> 0..MaxWrites]
    BY <2>3, <2>4, <2>5, <2>6, TimeAssumption
  <2>9. ReadTypeOK'
    BY <1>2, <2>3, <2>8 DEF ReadInv, ReadTypeOK, Write, requestVars
  <2> QED
    BY <2>6, <2>7, <2>9 DEF ReadInv, HintsCounted
<1>3. ASSUME NEW r \in Requests, Arrival(r) PROVE ReadInv'
  <2>1. PICK q \in Queries, a \in Apis : Arrive(r, q, a)
    BY <1>3 DEF Arrival
  <2>2. ReadTypeOK'
    BY <1>3, <2>1, QueryAssumption
       DEF ReadInv, ReadTypeOK, Arrival, Arrive, Queries, hintVars
  <2>3. HintsCounted'
    BY <1>3 DEF ReadInv, HintsCounted, Arrival, hintVars
  <2> QED
    BY <2>2, <2>3 DEF ReadInv
<1>4. ASSUME NEW r \in Requests, Serve(r) PROVE ReadInv'
  BY <1>4, ServeType
<1>5. ASSUME NEW r \in Requests, Departure(r) PROVE ReadInv'
  <2>1. ReadTypeOK'
    BY <1>5, TimeAssumption DEF ReadInv, ReadTypeOK, Departure, Leave, hintVars
  <2>2. HintsCounted'
    BY <1>5 DEF ReadInv, HintsCounted, Departure, hintVars
  <2> QED
    BY <2>1, <2>2 DEF ReadInv
<1>6. CASE ReadTick
  <2>1. CooledCache \in [Caches -> [Queries -> EntryType \cup {None}]]
    <3>1. ASSUME NEW k \in Caches, NEW q \in Queries
          PROVE  CooledCache[k][q] \in EntryType \cup {None}
      <4>1. cache[k][q] \in EntryType \cup {None}
        BY <3>1 DEF ReadInv, ReadTypeOK
      <4>2. CooledCache[k][q] = IF cache[k][q] = None \/ cache[k][q].ttl = 1 THEN None
                                ELSE [cache[k][q] EXCEPT !.ttl = @ - 1]
        BY <3>1 DEF CooledCache
      <4> QED
        BY <4>1, <4>2, TimeAssumption DEF EntryType
    <3> QED
      BY <3>1 DEF CooledCache
  <2>2. waited' \in [Requests -> 0..ReadMax]
    BY <1>6, TimeAssumption DEF ReadInv, ReadTypeOK, ReadTick
  <2>3. superseded' \in [Queries -> [0..MaxWrites -> 0..Horizon]]
    BY <1>6, TimeAssumption DEF ReadInv, ReadTypeOK, ReadTick, Horizon
  <2> QED
    BY <1>6, <2>1, <2>2, <2>3 DEF ReadInv, ReadTypeOK, HintsCounted, ReadTick, hintVars
<1>7. CASE UNCHANGED readVars
  BY <1>7 DEF ReadInv, ReadTypeOK, HintsCounted, readVars, hintVars, requestVars
<1> QED
  BY <1>1, <1>2, <1>3, <1>4, <1>5, <1>6, <1>7 DEF ReadNext

LEMMA ReadInvAlways == ReadSpec => []ReadInv
BY ReadInvInit, ReadInvStep, PTL DEF ReadSpec

\* Types; in particular no hint is handled or evicted more often than it was
\* published.
THEOREM ReadTyping == ReadSpec => []ReadTypeOK
<1>1. ReadInv => ReadTypeOK
  BY DEF ReadInv
<1> QED
  BY <1>1, ReadInvAlways, PTL

-----------------------------------------------------------------------------
(* Staleness.                                                              *)

\* The current version of a query has not been replaced, let alone a later one.
CurrentIsFresh ==
  \A q \in Queries : \A n \in version[q]..MaxWrites : superseded[q][n] = 0

\* What a request carries from the database to the cache was replaced, if at all,
\* since the request arrived.
CarriedSince ==
  \A r \in Requests :
    step[r] \in {"messages", "fill"} => superseded[query[r]][result[r]] <= waited[r]

AgeInv == CurrentIsFresh /\ CarriedSince /\ StalenessBounded

LEMMA AgeInvInit == ReadInit => AgeInv
BY TimeAssumption DEF ReadInit, AgeInv, CurrentIsFresh, CarriedSince, StalenessBounded

\* A request between its read and its fill moves nothing but itself: the entry it
\* leaves is as old as the request at most, and a new read starts at age 0.
LEMMA ServeAges ==
  ASSUME ReadInv, AgeInv, NEW r \in Requests, Serve(r)
  PROVE  AgeInv'
<1> USE DEF Goes
<1>1. UNCHANGED <<version, superseded, query, waited>>
  BY DEF Serve, Hit, Miss, ReadDatabase, ReadMessages, ReadFails, Fill
<1>2. CurrentIsFresh'
  BY <1>1 DEF AgeInv, CurrentIsFresh
<1>3. query[r] \in Queries /\ CacheFor(r) \in Caches
  BY Served DEF Serve, Hit, Miss, ReadDatabase, ReadMessages, ReadFails, Fill
<1>4. CarriedSince'
  <2>1. CASE ReadDatabase(r)
    <3>1. superseded[query[r]][version[query[r]]] = 0 /\ waited[r] >= 0
      BY <1>3 DEF ReadInv, ReadTypeOK, AgeInv, CurrentIsFresh
    <3> QED
      BY <1>1, <2>1, <3>1 DEF ReadInv, ReadTypeOK, AgeInv, CarriedSince, ReadDatabase
  <2>2. CASE ~ReadDatabase(r)
    BY <1>1, <2>2 DEF ReadInv, ReadTypeOK, AgeInv, CarriedSince, Serve, Hit, Miss,
       ReadMessages, ReadFails, Fill
  <2> QED
    BY <2>1, <2>2
<1>5. StalenessBounded'
  <2>1. CASE Fill(r) /\ cache' # cache
    <3>1. step[r] = "fill" /\ cache' = [cache EXCEPT ![CacheFor(r)][query[r]] = Entry(result[r])]
      BY <2>1 DEF Fill
    <3>2. superseded[query[r]][result[r]] <= ReadMax
      <4>1. superseded[query[r]][result[r]] <= waited[r]
        BY <3>1 DEF AgeInv, CarriedSince
      <4>2. /\ superseded[query[r]][result[r]] \in 0..Horizon
            /\ waited[r] \in 0..ReadMax
        BY <1>3 DEF ReadInv, ReadTypeOK
      <4> QED
        BY <4>1, <4>2, TimeAssumption DEF Horizon
    <3>3. ASSUME NEW k \in Caches, NEW q \in Queries, cache'[k][q] # None
          PROVE  superseded[q][cache'[k][q].version] <= ReadMax + Ttl - cache'[k][q].ttl
      <4>1. CASE k = CacheFor(r) /\ q = query[r]
        <5>1. cache'[k][q] = Entry(result[r])
          BY <1>3, <3>1, <4>1 DEF ReadInv, ReadTypeOK
        <5> QED
          BY <3>2, <4>1, <5>1, TimeAssumption DEF Entry
      <4>2. CASE ~(k = CacheFor(r) /\ q = query[r])
        <5>1. cache'[k][q] = cache[k][q]
          BY <1>3, <3>1, <4>2 DEF ReadInv, ReadTypeOK
        <5> QED
          BY <3>3, <5>1 DEF AgeInv, StalenessBounded
      <4> QED
        BY <4>1, <4>2
    <3> QED
      BY <1>1, <3>3 DEF StalenessBounded
  <2>2. CASE ~(Fill(r) /\ cache' # cache)
    <3>1. cache' = cache
      BY <2>2 DEF Serve, Hit, Miss, ReadDatabase, ReadMessages, ReadFails, Fill
    <3> QED
      BY <1>1, <3>1 DEF AgeInv, StalenessBounded
  <2> QED
    BY <2>1, <2>2
<1> QED
  BY <1>2, <1>4, <1>5 DEF AgeInv

\* A tick ages versions, requests and entries alike.
LEMMA TickAges ==
  ASSUME ReadInv, AgeInv, ReadTick
  PROVE  AgeInv'
<1>1. ASSUME NEW q \in Queries, NEW n \in 0..MaxWrites
      PROVE  /\ superseded'[q][n] <= superseded[q][n] + 1
             /\ superseded'[q][n] \in Int /\ superseded[q][n] \in Int
             /\ n >= version[q] => superseded'[q][n] = superseded[q][n]
  <2>1. superseded'[q][n] = IF n < version[q] /\ superseded[q][n] < Horizon
                            THEN superseded[q][n] + 1 ELSE superseded[q][n]
    BY DEF ReadTick
  <2>2. superseded[q][n] \in 0..Horizon /\ version[q] \in 0..MaxWrites
    BY DEF ReadInv, ReadTypeOK
  <2> QED
    BY <2>1, <2>2
<1>2. UNCHANGED <<version, step, query, result>>
  BY DEF ReadTick
<1>3. CurrentIsFresh'
  <2> SUFFICES ASSUME NEW q \in Queries, NEW n \in version[q]..MaxWrites
               PROVE  superseded'[q][n] = 0
    BY <1>2 DEF CurrentIsFresh
  <2>1. version[q] \in 0..MaxWrites
    BY DEF ReadInv, ReadTypeOK
  <2>2. n \in 0..MaxWrites /\ n >= version[q]
    BY <2>1, TimeAssumption
  <2>3. superseded[q][n] = 0
    BY DEF AgeInv, CurrentIsFresh
  <2> QED
    BY <1>1, <2>2, <2>3
<1>4. CarriedSince'
  <2> SUFFICES ASSUME NEW r \in Requests, step[r] \in {"messages", "fill"}
               PROVE  superseded'[query[r]][result[r]] <= waited'[r]
    BY <1>2 DEF CarriedSince
  <2>1. query[r] \in Queries /\ result[r] \in 0..MaxWrites /\ waited[r] \in 0..ReadMax
    BY Served DEF ReadInv, ReadTypeOK
  <2>2. superseded[query[r]][result[r]] <= waited[r]
    BY DEF AgeInv, CarriedSince
  <2>3. waited'[r] = waited[r] + 1
    BY DEF ReadTick
  <2> QED
    BY <1>1, <2>1, <2>2, <2>3
<1>5. StalenessBounded'
  <2> SUFFICES ASSUME NEW k \in Caches, NEW q \in Queries, cache'[k][q] # None
               PROVE  superseded'[q][cache'[k][q].version]
                        <= ReadMax + Ttl - cache'[k][q].ttl
    BY DEF StalenessBounded
  <2>1. /\ cache[k][q] # None
        /\ cache'[k][q] = [cache[k][q] EXCEPT !.ttl = @ - 1]
    BY DEF ReadTick, CooledCache
  <2>2. cache[k][q] \in EntryType
    BY <2>1 DEF ReadInv, ReadTypeOK
  <2>3. /\ cache'[k][q].version = cache[k][q].version
        /\ cache'[k][q].ttl = cache[k][q].ttl - 1
        /\ cache[k][q].version \in 0..MaxWrites
        /\ cache[k][q].ttl \in 1..Ttl
    BY <2>1, <2>2 DEF EntryType
  <2>4. superseded[q][cache[k][q].version] <= ReadMax + Ttl - cache[k][q].ttl
    BY <2>1 DEF AgeInv, StalenessBounded
  <2> QED
    BY <1>1, <2>3, <2>4, TimeAssumption
<1> QED
  BY <1>3, <1>4, <1>5 DEF AgeInv

LEMMA AgeInvStep == ReadInv /\ AgeInv /\ [ReadNext]_readVars => AgeInv'
<1> SUFFICES ASSUME ReadInv, AgeInv, [ReadNext]_readVars PROVE AgeInv'
  OBVIOUS
<1> USE DEF AgeInv, CurrentIsFresh, CarriedSince, StalenessBounded
<1>1. CASE Feed \/ \E a \in Apis, c \in Conversations : HandleHint(a, c)
  <2>1. UNCHANGED <<version, superseded, requestVars>>
    BY <1>1 DEF Feed, Publish, DropHint, LoseBus, RejoinBus, Evict, HandleHint
  <2>2. \A k \in Caches, q \in Queries : cache'[k][q] \in {None, cache[k][q]}
    <3>1. CASE UNCHANGED cache
      BY <3>1
    <3>2. ASSUME NEW a \in Apis,
                 NEW c \in Conversations, Evict(a, c)
          PROVE  \A k \in Caches, q \in Queries : cache'[k][q] \in {None, cache[k][q]}
      <4>1. cache \in [Caches -> [Queries -> EntryType \cup {None}]]
        BY DEF ReadInv, ReadTypeOK
      <4>2. CASE UNCHANGED cache
        BY <4>2
      <4>3. CASE cache' = [cache EXCEPT ![CacheOf[a]] =
                    [q \in Queries |-> IF q \in Affected(c) THEN None ELSE @[q]]]
        BY <4>1, <4>3, CacheAssumption
      <4> QED
        BY <3>2, <4>2, <4>3 DEF Evict
    <3> QED
      BY <1>1, <3>1, <3>2 DEF Feed, Publish, DropHint, LoseBus, RejoinBus, HandleHint
  <2> QED
    BY <2>1, <2>2 DEF requestVars
<1>2. ASSUME NEW c \in Conversations, Write(c) PROVE AgeInv'
  <2>1. UNCHANGED <<superseded, cache, requestVars>>
    BY <1>2 DEF Write
  <2>2. \A q \in Queries : version'[q] >= version[q] /\ version[q] \in Int /\ version'[q] \in Int
                           /\ version[q] >= 0
    BY <1>2 DEF Write, ReadInv, ReadTypeOK
  <2>3. CurrentIsFresh'
    BY <2>1, <2>2, TimeAssumption
  <2> QED
    BY <2>1, <2>3 DEF requestVars
<1>3. ASSUME NEW r \in Requests, Arrival(r) PROVE AgeInv'
  BY <1>3 DEF Arrival, Arrive, ReadInv, ReadTypeOK
<1>4. ASSUME NEW r \in Requests, Serve(r) PROVE AgeInv'
  BY <1>4, ServeAges
<1>5. ASSUME NEW r \in Requests, Departure(r) PROVE AgeInv'
  BY <1>5 DEF Departure, Leave, ReadInv, ReadTypeOK
<1>6. CASE ReadTick
  BY <1>6, TickAges
<1>7. CASE UNCHANGED readVars
  BY <1>7 DEF readVars, requestVars
<1> QED
  BY <1>1, <1>2, <1>3, <1>4, <1>5, <1>6, <1>7 DEF ReadNext

\* The time to live bounds staleness, whatever hints are lost and however fills
\* and evictions interleave.
THEOREM ReadStaleness == ReadSpec => []StalenessBounded
<1>1. AgeInv => StalenessBounded
  BY DEF AgeInv
<1> QED
  BY <1>1, AgeInvInit, AgeInvStep, ReadInvAlways, PTL DEF ReadSpec
=============================================================================
