------------------------------ MODULE ReadPath ------------------------------
(***************************************************************************)
(* The admin read path of the API: ConversationsService answers queries     *)
(* cache-aside through the CacheStore port; every write of the pipeline is  *)
(* followed by a change hint on the fanout exchange (RabbitMqChangeBus),    *)
(* and CacheInvalidationService evicts the affected keys on every hint.     *)
(*                                                                         *)
(* What a query returns is abstracted to the version of the data it was     *)
(* read from: the number of writes that had affected it.  Hints are         *)
(* at-most-once; the time to live of an entry is the backstop.              *)
(***************************************************************************)
EXTENDS Integers

CONSTANTS
  Conversations,  \* conversation ids
  List,           \* the list of conversations, and its cache key
  Apis,           \* API processes, each with its own subscription to the exchange
  Caches,         \* one for the Redis driver, one per process for the memory driver
  CacheOf,        \* the cache each API process uses
  Requests,       \* GET requests that can be served at once
  None,           \* no entry, no query, no server
  Ttl,            \* cache.ttlSeconds, in ticks
  ReadMax,        \* longest time, in ticks, a request takes; the code sets no limit
  ReadFaults,     \* what may fail: "hint", "bus", "cache", "db"
  MaxWrites       \* bound: writes of the pipeline

ASSUME CacheAssumption == CacheOf \in [Apis -> Caches]
ASSUME QueryAssumption == List \notin Conversations /\ None \notin Conversations \cup {List} \cup Apis
ASSUME TimeAssumption == Ttl \in Nat \ {0} /\ ReadMax \in Nat /\ MaxWrites \in Nat

VARIABLES
  version,     \* version[q]: writes that affected what q returns
  superseded,  \* superseded[q][n]: ticks since version n of q was replaced (history)
  unhinted,    \* unhinted[c]: writes whose hint the worker has yet to publish
  listening,   \* listening[a]: a's exclusive queue is bound to the exchange
  hints,       \* hints[a][c]: hints in a's queue
  evicting,    \* evicting[a][c]: deletes a has issued and the cache not executed
  cache,       \* cache[k][q]: the entry under q's key, or None
  step,        \* step[r]: how far request r has got
  query,       \* query[r]: what request r asks for
  server,      \* server[r]: the process that serves it
  result,      \* result[r]: the version it will answer with
  waited       \* waited[r]: ticks since it arrived

hintVars == <<unhinted, listening, hints, evicting>>
requestVars == <<step, query, server, result, waited>>
readVars == <<version, superseded, hintVars, cache, requestVars>>

Queries == Conversations \cup {List}
Affected(c) == {List, c}

May(kind) == kind \in ReadFaults

\* Long enough to tell any staleness the properties speak of.
Horizon == Ttl + ReadMax + 1

-----------------------------------------------------------------------------
ReadInit ==
  /\ version = [q \in Queries |-> 0]
  /\ superseded = [q \in Queries |-> [n \in 0..MaxWrites |-> 0]]
  /\ unhinted = [c \in Conversations |-> 0]
  /\ listening = [a \in Apis |-> TRUE]
  /\ hints = [a \in Apis |-> [c \in Conversations |-> 0]]
  /\ evicting = [a \in Apis |-> [c \in Conversations |-> 0]]
  /\ cache = [k \in Caches |-> [q \in Queries |-> None]]
  /\ step = [r \in Requests |-> "idle"]
  /\ query = [r \in Requests |-> None]
  /\ server = [r \in Requests |-> None]
  /\ result = [r \in Requests |-> 0]
  /\ waited = [r \in Requests |-> 0]

-----------------------------------------------------------------------------
(* Writes and hints.                                                       *)

\* The pipeline commits a change of conversation c.
Write(c) ==
  /\ version[List] < MaxWrites
  /\ version' = [q \in Queries |-> IF q \in Affected(c) THEN version[q] + 1 ELSE version[q]]
  /\ unhinted' = [unhinted EXCEPT ![c] = @ + 1]
  /\ UNCHANGED <<superseded, listening, hints, evicting, cache, requestVars>>

\* publish(): one copy of the hint for every bound queue.
Publish(c) ==
  /\ unhinted[c] > 0
  /\ unhinted' = [unhinted EXCEPT ![c] = @ - 1]
  /\ hints' = [a \in Apis |-> IF listening[a]
                              THEN [hints[a] EXCEPT ![c] = @ + 1]
                              ELSE hints[a]]
  /\ UNCHANGED <<version, superseded, listening, evicting, cache, requestVars>>

\* No channel, or the worker is gone: the hint is never published.
DropHint(c) ==
  /\ May("hint")
  /\ unhinted[c] > 0
  /\ unhinted' = [unhinted EXCEPT ![c] = @ - 1]
  /\ UNCHANGED <<version, superseded, listening, hints, evicting, cache, requestVars>>

\* The consumer callback: CacheInvalidationService issues the delete and does
\* not wait for it.
HandleHint(a, c) ==
  /\ hints[a][c] > 0
  /\ hints' = [hints EXCEPT ![a][c] = @ - 1]
  /\ evicting' = [evicting EXCEPT ![a][c] = @ + 1]
  /\ UNCHANGED <<version, superseded, unhinted, listening, cache, requestVars>>

\* The exclusive queue dies with the connection, and the hints in it.
LoseBus(a) ==
  /\ May("bus")
  /\ listening[a]
  /\ listening' = [listening EXCEPT ![a] = FALSE]
  /\ hints' = [hints EXCEPT ![a] = [c \in Conversations |-> 0]]
  /\ UNCHANGED <<version, superseded, unhinted, evicting, cache, requestVars>>

RejoinBus(a) ==
  /\ ~listening[a]
  /\ listening' = [listening EXCEPT ![a] = TRUE]
  /\ UNCHANGED <<version, superseded, unhinted, hints, evicting, cache, requestVars>>

-----------------------------------------------------------------------------
(* The cache.  The commands of one process reach it in the order issued.    *)

Settled(a) == \A c \in Conversations : evicting[a][c] = 0

\* Mutant: the entry lives a tick longer than configured.
EntryLonger(n) == [version |-> n, ttl |-> Ttl + 1]

Entry(n) == [version |-> n, ttl |-> Ttl]

\* delete(CONVERSATIONS_LIST_KEY, conversationKey(c)); a no-op when the cache
\* cannot be reached.
Evict(a, c) ==
  /\ evicting[a][c] > 0
  /\ evicting' = [evicting EXCEPT ![a][c] = @ - 1]
  /\ \/ cache' = [cache EXCEPT ![CacheOf[a]] =
                    [q \in Queries |-> IF q \in Affected(c) THEN None ELSE @[q]]]
     \/ May("cache") /\ UNCHANGED cache
  /\ UNCHANGED <<version, superseded, unhinted, listening, hints, requestVars>>

\* Mutant: entries never expire.
UncooledCache == cache

\* The cache one tick later: an entry whose time to live is over is gone.
CooledCache ==
  [k \in Caches |-> [q \in Queries |->
    IF cache[k][q] = None \/ cache[k][q].ttl = 1 THEN None
    ELSE [cache[k][q] EXCEPT !.ttl = @ - 1]]]

-----------------------------------------------------------------------------
(* ConversationsService.list() and get(): one step per awaited call.        *)

\* r is free and becomes a request for q at process a.
Arrive(r, q, a) ==
  /\ step[r] = "idle"
  /\ step' = [step EXCEPT ![r] = "lookup"]
  /\ query' = [query EXCEPT ![r] = q]
  /\ server' = [server EXCEPT ![r] = a]
  /\ UNCHANGED <<result, waited>>

Goes(r, from, to) ==
  /\ step[r] = from
  /\ step' = [step EXCEPT ![r] = to]
  /\ UNCHANGED <<version, superseded, hintVars, query, server, waited>>

CacheFor(r) == CacheOf[server[r]]

\* Mutant: a hit renews the entry's time to live.
HitRenewing(r) ==
  /\ Goes(r, "lookup", "reply")
  /\ Settled(server[r])
  /\ cache[CacheFor(r)][query[r]] # None
  /\ result' = [result EXCEPT ![r] = cache[CacheFor(r)][query[r]].version]
  /\ cache' = [cache EXCEPT ![CacheFor(r)][query[r]].ttl = Ttl]

Hit(r) ==
  /\ Goes(r, "lookup", "reply")
  /\ Settled(server[r])
  /\ cache[CacheFor(r)][query[r]] # None
  /\ result' = [result EXCEPT ![r] = cache[CacheFor(r)][query[r]].version]
  /\ UNCHANGED cache

Miss(r) ==
  /\ Goes(r, "lookup", "read")
  /\ Settled(server[r])
  /\ cache[CacheFor(r)][query[r]] = None \/ May("cache")
  /\ UNCHANGED <<cache, result>>

\* The list is one SQL query; a conversation is its row, then its messages.
ReadDatabase(r) ==
  /\ Goes(r, "read", IF query[r] = List THEN "fill" ELSE "messages")
  /\ result' = [result EXCEPT ![r] = version[query[r]]]
  /\ UNCHANGED cache

\* messagesOf() may see later writes than the row did: the answer is a mix that
\* counts as old as its oldest part.
ReadMessages(r) ==
  /\ Goes(r, "messages", "fill")
  /\ UNCHANGED <<cache, result>>

\* The query fails or finds no conversation: the request is answered with an
\* error and nothing is cached.
ReadFails(r) ==
  /\ May("db")
  /\ Goes(r, "read", "failed") \/ Goes(r, "messages", "failed")
  /\ UNCHANGED <<cache, result>>

Fill(r) ==
  /\ Goes(r, "fill", "reply")
  /\ Settled(server[r])
  /\ \/ cache' = [cache EXCEPT ![CacheFor(r)][query[r]] = Entry(result[r])]
     \/ May("cache") /\ UNCHANGED cache
  /\ UNCHANGED result

Serve(r) ==
  Hit(r) \/ Miss(r) \/ ReadDatabase(r) \/ ReadMessages(r) \/ ReadFails(r) \/ Fill(r)

\* The answer reaches the client.
Leave(r) ==
  /\ step[r] \in {"reply", "failed"}
  /\ step' = [step EXCEPT ![r] = "idle"]
  /\ query' = [query EXCEPT ![r] = None]
  /\ server' = [server EXCEPT ![r] = None]
  /\ result' = [result EXCEPT ![r] = 0]
  /\ waited' = [waited EXCEPT ![r] = 0]

\* Time passes for entries, requests and the versions already replaced.
ReadTick ==
  /\ \A r \in Requests : step[r] # "idle" => waited[r] < ReadMax
  /\ waited' = [r \in Requests |-> IF step[r] = "idle" THEN 0 ELSE waited[r] + 1]
  /\ cache' = CooledCache
  /\ superseded' = [q \in Queries |-> [n \in 0..MaxWrites |->
       IF n < version[q] /\ superseded[q][n] < Horizon
       THEN superseded[q][n] + 1 ELSE superseded[q][n]]]
  /\ UNCHANGED <<version, hintVars, step, query, server, result>>

-----------------------------------------------------------------------------
Arrival(r) ==
  /\ \E q \in Queries, a \in Apis : Arrive(r, q, a)
  /\ UNCHANGED <<version, superseded, hintVars, cache>>

Departure(r) ==
  /\ Leave(r)
  /\ UNCHANGED <<version, superseded, hintVars, cache>>

Feed ==
  \/ \E c \in Conversations : Publish(c) \/ DropHint(c)
  \/ \E a \in Apis : LoseBus(a) \/ RejoinBus(a)
  \/ \E a \in Apis, c \in Conversations : Evict(a, c)

ReadNext ==
  \/ Feed
  \/ \E c \in Conversations : Write(c)
  \/ \E a \in Apis, c \in Conversations : HandleHint(a, c)
  \/ \E r \in Requests : Arrival(r) \/ Serve(r) \/ Departure(r)
  \/ ReadTick

ReadSpec == ReadInit /\ [][ReadNext]_readVars

\* Requests make progress and time never stops; writes, hints, evictions and
\* new requests need not happen for the time to live to do its work.
FairReadSpec ==
  /\ ReadSpec
  /\ \A r \in Requests : WF_readVars(Serve(r) \/ Departure(r))
  /\ \A a \in Apis : WF_readVars(\E c \in Conversations : Evict(a, c))
  /\ SF_readVars(ReadTick)

-----------------------------------------------------------------------------
(* Properties.                                                             *)

EntryType == [version : 0..MaxWrites, ttl : 1..Ttl]

\* Types; a request names its query and its server exactly while it is served.
ReadTypeOK ==
  /\ version \in [Queries -> 0..MaxWrites]
  /\ superseded \in [Queries -> [0..MaxWrites -> 0..Horizon]]
  /\ unhinted \in [Conversations -> 0..MaxWrites]
  /\ listening \in [Apis -> BOOLEAN]
  /\ hints \in [Apis -> [Conversations -> 0..MaxWrites]]
  /\ evicting \in [Apis -> [Conversations -> 0..MaxWrites]]
  /\ cache \in [Caches -> [Queries -> EntryType \cup {None}]]
  /\ step \in [Requests -> {"idle", "lookup", "read", "messages", "fill", "reply", "failed"}]
  /\ query \in [Requests -> Queries \cup {None}]
  /\ server \in [Requests -> Apis \cup {None}]
  /\ result \in [Requests -> 0..MaxWrites]
  /\ waited \in [Requests -> 0..ReadMax]
  /\ \A r \in Requests : /\ (step[r] = "idle") <=> (query[r] = None)
                         /\ (step[r] = "idle") <=> (server[r] = None)

\* The time to live bounds staleness: however hints, evictions and fills
\* interleave or get lost, what an entry holds was replaced no longer ago than
\* the entry is old plus the time one request may take.
StalenessBounded ==
  \A k \in Caches, q \in Queries :
    cache[k][q] # None =>
      superseded[q][cache[k][q].version] <= ReadMax + Ttl - cache[k][q].ttl

\* Once writes stop, every cache ends up holding current data or nothing, even
\* if every hint was lost.
CacheConverges ==
  \A k \in Caches, q \in Queries :
    <>[](cache[k][q] = None \/ cache[k][q].version = version[q])
=============================================================================
