------------------------------ MODULE LiveQuery ------------------------------
(***************************************************************************)
(* The admin UI's live views (useLiveQuery) on top of the read path: a view *)
(* fetches its query when it mounts and again on every relevant change      *)
(* event of its own event stream, which ChangeStreamService feeds from the  *)
(* hints its API process receives.  A view of one conversation can be       *)
(* navigated to another; the requests of the old effect are cancelled.      *)
(***************************************************************************)
EXTENDS ReadPath

CONSTANTS
  Views,      \* mounted useLiveQuery hooks
  UiFaults,   \* what may fail: "stream" an EventSource connection
  MaxVisits   \* bound: navigations and refreshes together

ASSUME ViewAssumption == None \notin Views /\ MaxVisits \in Nat

VARIABLES
  mounted,   \* mounted[v]: the query of v's current effect
  shown,     \* shown[v]: the data on screen, or None
  loading,   \* loading[v]: no answer yet since v mounted its query
  error,     \* error[v]: the last answer was an error
  station,   \* station[v]: the API process v's EventSource is connected to, or None
  events,    \* events[v][c]: change events on the way to v
  owner,     \* owner[r]: the view that made request r, or None
  cancelled, \* requests whose effect has been cleaned up
  visits     \* navigations and refreshes so far

viewVars == <<mounted, shown, loading, error, station, events, owner, cancelled, visits>>
liveVars == <<readVars, viewVars>>

NoEvents == [c \in Conversations |-> 0]

Data(q, n) == [query |-> q, version |-> n]

\* isRelevant: the list hears every change, a conversation only its own.
Relevant(v, c) == mounted[v] \in Affected(c)

-----------------------------------------------------------------------------
\* Every view's effect has just run: its first fetch is under way.
LiveInit ==
  /\ ReadInit
  /\ mounted \in [Views -> Queries]
  /\ shown = [v \in Views |-> None]
  /\ loading = [v \in Views |-> TRUE]
  /\ error = [v \in Views |-> FALSE]
  /\ station = [v \in Views |-> None]
  /\ events = [v \in Views |-> NoEvents]
  /\ owner = [r \in Requests |-> None]
  /\ cancelled = {}
  /\ visits = 0

-----------------------------------------------------------------------------
(* run(): fetch, then show what arrives unless the effect was cleaned up.   *)

\* A free request leaves v for some API process.
Fetch(v, q, r) ==
  /\ \E a \in Apis : Arrive(r, q, a)
  /\ owner' = [owner EXCEPT ![r] = v]

NotYetFetched(v) == loading[v] /\ ~\E r \in Requests : owner[r] = v /\ r \notin cancelled

\* The fetch every effect starts with.
FirstFetch(v, r) ==
  /\ NotYetFetched(v)
  /\ Fetch(v, mounted[v], r)
  /\ UNCHANGED <<version, superseded, hintVars, cache, mounted, shown, loading, error,
                 station, events, cancelled, visits>>

\* refresh(): the user has sent a message.
Refresh(v, r) ==
  /\ ~NotYetFetched(v)
  /\ visits < MaxVisits
  /\ visits' = visits + 1
  /\ Fetch(v, mounted[v], r)
  /\ UNCHANGED <<version, superseded, hintVars, cache, mounted, shown, loading, error,
                 station, events, cancelled>>

\* Mutant: the answer is shown although its effect was cleaned up.
AnsweredAnyway(r) ==
  /\ owner[r] # None
  /\ Leave(r)
  /\ shown' = IF step[r] = "reply"
              THEN [shown EXCEPT ![owner[r]] = Data(query[r], result[r])]
              ELSE shown
  /\ error' = [error EXCEPT ![owner[r]] = (step[r] = "failed")]
  /\ loading' = [loading EXCEPT ![owner[r]] = FALSE]
  /\ owner' = [owner EXCEPT ![r] = None]
  /\ cancelled' = cancelled \ {r}
  /\ UNCHANGED <<version, superseded, hintVars, cache, mounted, station, events, visits>>

\* Mutant: an error returns before the loading flag is cleared.
AnsweredStillLoading(r) ==
  /\ owner[r] # None /\ r \notin cancelled
  /\ Leave(r)
  /\ shown' = IF step[r] = "reply"
              THEN [shown EXCEPT ![owner[r]] = Data(query[r], result[r])]
              ELSE shown
  /\ error' = [error EXCEPT ![owner[r]] = (step[r] = "failed")]
  /\ loading' = [loading EXCEPT ![owner[r]] = (@ /\ step[r] = "failed")]
  /\ owner' = [owner EXCEPT ![r] = None]
  /\ UNCHANGED <<version, superseded, hintVars, cache, mounted, station, events,
                 cancelled, visits>>

\* An answer for the current effect replaces what is on screen; an error keeps
\* the data and is shown in its place.
Answered(r) ==
  /\ owner[r] # None /\ r \notin cancelled
  /\ Leave(r)
  /\ shown' = IF step[r] = "reply"
              THEN [shown EXCEPT ![owner[r]] = Data(query[r], result[r])]
              ELSE shown
  /\ error' = [error EXCEPT ![owner[r]] = (step[r] = "failed")]
  /\ loading' = [loading EXCEPT ![owner[r]] = FALSE]
  /\ owner' = [owner EXCEPT ![r] = None]
  /\ UNCHANGED <<version, superseded, hintVars, cache, mounted, station, events,
                 cancelled, visits>>

Ignored(r) ==
  /\ r \in cancelled
  /\ Leave(r)
  /\ owner' = [owner EXCEPT ![r] = None]
  /\ cancelled' = cancelled \ {r}
  /\ UNCHANGED <<version, superseded, hintVars, cache, mounted, shown, loading, error,
                 station, events, visits>>

\* Mutant: cleaning up one effect cancels the requests of all.
NavigateCancellingAll(v, c) ==
  /\ mounted[v] \in Conversations \ {c}
  /\ visits < MaxVisits
  /\ visits' = visits + 1
  /\ mounted' = [mounted EXCEPT ![v] = c]
  /\ shown' = [shown EXCEPT ![v] = None]
  /\ loading' = [loading EXCEPT ![v] = TRUE]
  /\ error' = [error EXCEPT ![v] = FALSE]
  /\ station' = [station EXCEPT ![v] = None]
  /\ events' = [events EXCEPT ![v] = NoEvents]
  /\ cancelled' = Requests
  /\ UNCHANGED <<readVars, owner>>

\* The view moves to another conversation: the old effect is cleaned up, its
\* stream closed, and the new effect starts from nothing.
Navigate(v, c) ==
  /\ mounted[v] \in Conversations \ {c}
  /\ visits < MaxVisits
  /\ visits' = visits + 1
  /\ mounted' = [mounted EXCEPT ![v] = c]
  /\ shown' = [shown EXCEPT ![v] = None]
  /\ loading' = [loading EXCEPT ![v] = TRUE]
  /\ error' = [error EXCEPT ![v] = FALSE]
  /\ station' = [station EXCEPT ![v] = None]
  /\ events' = [events EXCEPT ![v] = NoEvents]
  /\ cancelled' = cancelled \cup {r \in Requests : owner[r] = v}
  /\ UNCHANGED <<readVars, owner>>

-----------------------------------------------------------------------------
(* Event streams.                                                          *)

\* The consumer callback runs every handler: the eviction is issued, and each
\* stream connected to this process is sent the event.
Broadcast(a, c) ==
  /\ HandleHint(a, c)
  /\ events' = [v \in Views |-> IF station[v] = a
                                THEN [events[v] EXCEPT ![c] = @ + 1]
                                ELSE events[v]]
  /\ UNCHANGED <<mounted, shown, loading, error, station, owner, cancelled, visits>>

OpenStream(v, a) ==
  /\ station[v] = None
  /\ ~NotYetFetched(v)
  /\ station' = [station EXCEPT ![v] = a]
  /\ UNCHANGED <<readVars, mounted, shown, loading, error, events, owner, cancelled, visits>>

LoseStream(v) ==
  /\ "stream" \in UiFaults
  /\ station[v] # None
  /\ station' = [station EXCEPT ![v] = None]
  /\ events' = [events EXCEPT ![v] = NoEvents]
  /\ UNCHANGED <<readVars, mounted, shown, loading, error, owner, cancelled, visits>>

HearsOf(v, c) ==
  /\ events[v][c] > 0
  /\ events' = [events EXCEPT ![v][c] = @ - 1]

\* A relevant change starts another fetch, whatever fetches are under way.
Refetch(v, c, r) ==
  /\ Relevant(v, c)
  /\ HearsOf(v, c)
  /\ Fetch(v, mounted[v], r)
  /\ UNCHANGED <<version, superseded, hintVars, cache, mounted, shown, loading, error,
                 station, cancelled, visits>>

Disregard(v, c) ==
  /\ ~Relevant(v, c)
  /\ HearsOf(v, c)
  /\ UNCHANGED <<readVars, mounted, shown, loading, error, station, owner, cancelled, visits>>

-----------------------------------------------------------------------------
Backend ==
  /\ \/ Feed
     \/ \E c \in Conversations : Write(c)
     \/ \E r \in Requests : Serve(r)
     \/ ReadTick
  /\ UNCHANGED viewVars

Hears(v) == \E c \in Conversations : Disregard(v, c) \/ \E r \in Requests : Refetch(v, c, r)

LiveNext ==
  \/ Backend
  \/ \E a \in Apis, c \in Conversations : Broadcast(a, c)
  \/ \E v \in Views, r \in Requests : FirstFetch(v, r) \/ Refresh(v, r)
  \/ \E r \in Requests : Answered(r) \/ Ignored(r)
  \/ \E v \in Views, c \in Conversations : Navigate(v, c)
  \/ \E v \in Views, a \in Apis : OpenStream(v, a)
  \/ \E v \in Views : LoseStream(v) \/ Hears(v)

LiveSpec == LiveInit /\ [][LiveNext]_liveVars

\* The broker, the API processes and the browsers run: hints are published and
\* handled, requests are served, streams reconnect.
FairLiveSpec ==
  /\ LiveSpec
  /\ \A r \in Requests : WF_liveVars(Serve(r) /\ UNCHANGED viewVars)
  /\ \A r \in Requests : WF_liveVars(Answered(r) \/ Ignored(r))
  /\ \A v \in Views : SF_liveVars(\E r \in Requests : FirstFetch(v, r))
  /\ \A v \in Views : SF_liveVars(Hears(v))
  /\ \A v \in Views : WF_liveVars(\E a \in Apis : OpenStream(v, a))
  /\ \A c \in Conversations : WF_liveVars(Publish(c) /\ UNCHANGED viewVars)
  /\ \A a \in Apis, c \in Conversations : WF_liveVars(Broadcast(a, c))
  /\ \A a \in Apis, c \in Conversations : WF_liveVars(Evict(a, c) /\ UNCHANGED viewVars)
  /\ SF_liveVars(ReadTick /\ UNCHANGED viewVars)

-----------------------------------------------------------------------------
(* Properties.                                                             *)

\* Types; a request belongs to a view exactly while it is under way, and only
\* such a request can be cancelled.
LiveTypeOK ==
  /\ ReadTypeOK
  /\ mounted \in [Views -> Queries]
  /\ shown \in [Views -> [query : Queries, version : 0..MaxWrites] \cup {None}]
  /\ loading \in [Views -> BOOLEAN]
  /\ error \in [Views -> BOOLEAN]
  /\ station \in [Views -> Apis \cup {None}]
  /\ events \in [Views -> [Conversations -> 0..MaxWrites]]
  /\ owner \in [Requests -> Views \cup {None}]
  /\ cancelled \subseteq {r \in Requests : owner[r] # None}
  /\ visits \in 0..MaxVisits
  /\ \A r \in Requests : (owner[r] = None) <=> (step[r] = "idle")

\* A view never shows another conversation's data, however late the answers of
\* the queries it was moved away from arrive.
ShowsItsQuery ==
  \A v \in Views : shown[v] # None => shown[v].query = mounted[v]

\* No view waits for its first answer for ever, whatever it was moved away from
\* and whether the answer is data or an error.
EventuallyLoaded == \A v \in Views : loading[v] ~> ~loading[v]

\* "Every conversation updates in real time" (README.md): once the pipeline's
\* writes stop, a view whose stream was open since before the first of them,
\* and that therefore misses no event, ends up showing the latest data.
ViewsCatchUp ==
  \A v \in Views :
    [](version[List] > 0 => station[v] # None)
      => <>[](shown[v] # None /\ shown[v].version = version[mounted[v]])
=============================================================================
