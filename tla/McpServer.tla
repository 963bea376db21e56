------------------------------ MODULE McpServer ------------------------------
(***************************************************************************)
(* The MCP server process (src/mcp): requests are authenticated, admitted  *)
(* and answered from four pieces of state that age at different speeds -   *)
(* the verified API keys and the session contexts it caches, the rendered  *)
(* resources, and its pool of connections to PostgreSQL - while keys are   *)
(* deactivated elsewhere, PostgreSQL goes away and the process restarts.   *)
(*                                                                         *)
(* The handlers run on one event loop: only the verification of a key      *)
(* leaves it, for a worker thread (asyncio.to_thread). A tool call or a    *)
(* resource read runs on the loop from its first line to its last, so that *)
(* it is one action here. Times are counted in ticks, as what is left of a *)
(* lifetime or as an age.                                                  *)
(***************************************************************************)
EXTENDS Integers, Sequences, FiniteSets, SequencesExt

CONSTANTS
  Keys, Requests,
  Versions,    \* of Odoo, numbers
  NoVersion, NoKey,
  KeyTTL,      \* _CACHE_TTL of the verified keys
  SessionTTL,  \* _CACHE_TTL_SEC of the session contexts
  Lifetime,    \* _SESSION_TTL_HOURS of the rows they are read from
  ResourceTTL, Capacity, \* of the ResourceCache
  MaxConn,     \* PG_POOL_MAX_CONN
  MaxLag,      \* ticks a worker thread and the loop may take for a verification
  MaxEvents    \* what may happen outside: outages, restarts, revocations, indexing

ASSUME ServerAssumption ==
  /\ Versions \subseteq Nat
  /\ \A S \in SUBSET Versions : S # {} => \E v \in S : \A w \in S : w <= v
  /\ NoVersion \notin Versions /\ NoKey \notin Keys
  /\ KeyTTL \in Nat \ {0} /\ SessionTTL \in Nat \ {0} /\ Lifetime \in Nat \ {0}
  /\ ResourceTTL \in Nat \ {0} /\ Capacity \in Nat \ {0}
  /\ MaxConn \in Nat \ {0} /\ MaxLag \in Nat /\ MaxEvents \in Nat

VARIABLES
  valid,     \* the table api_keys: is the key active and not expired?
  off,       \* auxiliary: ticks since it is not
  row,       \* the table api_key_session_state: the version pinned, and how
             \* long ago the row was written
  indexed,   \* the versions of the Module nodes in Neo4j
  pgUp,      \* is PostgreSQL reachable?
  pool,      \* the PgPool of the process: "none" before init_pool
  idle,      \* its idle connection (psycopg2 keeps PG_POOL_MIN_CONN = 1 of them)
  retrying,  \* is _bg_retry_init_pool alive?
  keyCache,  \* _KEY_CACHE: what the last verification found
  session,   \* _cache of session.py
  resources, \* the ResourceCache, least recently used first
  request,   \* the requests in progress
  served,    \* auxiliary: the answer given in the last step
  events     \* auxiliary: how often something happened outside

vars == <<valid, off, row, indexed, pgUp, pool, idle, retrying, keyCache, session,
          resources, request, served, events>>

database == <<valid, off, row, indexed, pgUp>>
connections == <<pool, idle, retrying>>
caches == <<keyCache, session, resources>>

Contexts == Versions \cup {NoVersion}

MaxOff == KeyTTL + MaxLag

\* What a cache entry that is not there looks like: one with no time left.
NoVerdict == [found |-> FALSE, left |-> 0]
NoSession == [context |-> NoVersion, left |-> 0]

\* sound: has PostgreSQL been up since the thread got its connection?
NoRequest == [phase |-> "none", key |-> NoKey, found |-> FALSE, lag |-> 0, sound |-> TRUE]

Silence == [key |-> NoKey, asked |-> NoVersion, context |-> NoVersion,
            body |-> NoVersion, age |-> 0]

Init ==
  /\ valid = [k \in Keys |-> TRUE]
  /\ off = [k \in Keys |-> 0]
  /\ row = [k \in Keys |-> [context |-> NoVersion, idle |-> Lifetime]]
  /\ indexed = Versions
  /\ pgUp \in BOOLEAN
  /\ pool = IF pgUp THEN "open" ELSE "none"
  /\ idle = IF pgUp THEN "live" ELSE "none"
  /\ retrying = ~ pgUp
  /\ keyCache = [k \in Keys |-> NoVerdict]
  /\ session = [k \in Keys |-> NoSession]
  /\ resources = <<>>
  /\ request = [r \in Requests |-> NoRequest]
  /\ served = Silence
  /\ events = 0

\* Steps of the process leave the count alone, the others raise it.
Inside == UNCHANGED events
Outside == events < MaxEvents /\ events' = events + 1

-----------------------------------------------------------------------------
(* The pool *)

Holding == {r \in Requests : request[r].phase = "reading"}

\* PgPool.checkout and the first statement on the connection. One that died
\* while it was idle is handed out, fails and is thrown away; a pool that is
\* exhausted raises PoolError.
Connects ==
  /\ pool = "open"
  /\ \/ idle = "live"
     \/ idle = "none" /\ pgUp /\ Cardinality(Holding) < MaxConn

\* A statement on the loop: the connection is back before the next step.
Runs == Connects /\ idle' = "live"
Raises == ~ Connects /\ idle' = "none"

\* _ensure_pg: opens PG_POOL_MIN_CONN connections.
EnsurePg ==
  /\ pool = "none" /\ pgUp
  /\ pool' = "open" /\ idle' = "live"

\* A bug to compare with: the task ends with its first attempt.
RetryOnce ==
  /\ Inside
  /\ retrying
  /\ \/ EnsurePg
     \/ (pool = "open" \/ ~ pgUp) /\ UNCHANGED <<pool, idle>>
  /\ retrying' = FALSE
  /\ served' = Silence
  /\ UNCHANGED <<database, caches, request>>

\* _bg_retry_init_pool, after a sleep.
Retry ==
  /\ Inside
  /\ retrying
  /\ \/ EnsurePg
     \/ (pool = "open" \/ ~ pgUp) /\ UNCHANGED <<pool, idle>>
  /\ retrying' = (pool' = "none")
  /\ served' = Silence
  /\ UNCHANGED <<database, caches, request>>

\* /health, a public path, checks the database and opens the pool if need be.
HealthProbe ==
  /\ Inside
  /\ \/ EnsurePg
     \/ pool = "open" /\ (Runs \/ Raises) /\ pool' = pool
  /\ served' = Silence
  /\ UNCHANGED <<database, retrying, caches, request>>

-----------------------------------------------------------------------------
(* AuthMiddleware.dispatch *)

Becomes(r, rec) == request' = [request EXCEPT ![r] = rec]

\* The verdict on the key is known. A key that is good may still be refused by
\* the rate limit.
Judged(r, k, found) ==
  \/ found /\ Becomes(r, [NoRequest EXCEPT !.phase = "admitted", !.key = k])
  \/ Becomes(r, NoRequest)

\* A bug to compare with: every use of a verdict renews it.
ArriveRenewing(r, k) ==
  /\ Inside
  /\ request[r] = NoRequest
  /\ IF keyCache[k].left > 0
       THEN /\ Judged(r, k, keyCache[k].found)
            /\ keyCache' = [keyCache EXCEPT ![k].left = KeyTTL]
       ELSE /\ Becomes(r, [NoRequest EXCEPT !.phase = "queued", !.key = k])
            /\ UNCHANGED keyCache
  /\ served' = Silence
  /\ UNCHANGED <<database, connections, session, resources>>

\* The cached verdict, good or bad, is used for KeyTTL. Otherwise a thread is
\* asked for one.
Arrive(r, k) ==
  /\ Inside
  /\ request[r] = NoRequest
  /\ IF keyCache[k].left > 0
       THEN Judged(r, k, keyCache[k].found)
       ELSE Becomes(r, [NoRequest EXCEPT !.phase = "queued", !.key = k])
  /\ served' = Silence
  /\ UNCHANGED <<database, connections, caches>>

\* verify_api_key, in the thread: the row is read ...
ReadKey(r) ==
  /\ Inside
  /\ request[r].phase = "queued"
  /\ \/ /\ Connects
        /\ idle' = "none"
        /\ Becomes(r, [request[r] EXCEPT !.phase = "reading",
                                         !.found = valid[request[r].key]])
     \/ Raises /\ Becomes(r, NoRequest)   \* 503, or 500 for a PoolError
  /\ served' = Silence
  /\ UNCHANGED <<database, pool, retrying, caches>>

\* putconn: the pool keeps one idle connection and closes the others.
Returned(r) ==
  IF idle # "none" THEN idle ELSE IF request[r].sound THEN "live" ELSE "dead"

\* ... and the loop takes the verdict into the cache, from now on.
Verified(r) ==
  /\ Inside
  /\ request[r].phase = "reading"
  /\ idle' = Returned(r)
  /\ keyCache' = [keyCache EXCEPT ![request[r].key] =
                    [found |-> request[r].found, left |-> KeyTTL]]
  /\ Judged(r, request[r].key, request[r].found)
  /\ served' = Silence
  /\ UNCHANGED <<database, pool, retrying, session, resources>>

\* The last statement (last_used_at) fails: 503, and nothing is cached.
VerifyFails(r) ==
  /\ Inside
  /\ request[r].phase = "reading" /\ ~ request[r].sound
  /\ Becomes(r, NoRequest)
  /\ served' = Silence
  /\ UNCHANGED <<database, connections, caches>>

-----------------------------------------------------------------------------
(* The session context *)

\* _fetch_from_db. The filter on 24 hours is part of the query.
InRow(k) == IF row[k].idle < Lifetime THEN row[k].context ELSE NoVersion

\* get_session_state: a cached context, or the row's, cached from now on. An
\* error reads as "no context", which is cached as well.
ReadsSession(k, c) ==
  \/ /\ session[k].left > 0
     /\ c = session[k].context
     /\ UNCHANGED <<session, idle>>
  \/ /\ session[k].left = 0
     /\ \/ Runs /\ c = InRow(k)
        \/ Raises /\ c = NoVersion
     /\ session' = [session EXCEPT ![k] = [context |-> c, left |-> SessionTTL]]

\* _latest_version: by number.
Latest == CHOOSE v \in indexed : \A w \in indexed : w <= v

\* resolve_version_v2 past the session: an index without a version to fall back
\* on is an error.
Resolved(c) == IF c # NoVersion THEN c ELSE IF indexed = {} THEN NoVersion ELSE Latest

Done(r) == Becomes(r, NoRequest)

\* A bug to compare with: the cache is left to expire.
InvalidatesLater(k) == UNCHANGED session

\* _cache_invalidate
Invalidates(k) == session' = [session EXCEPT ![k] = NoSession]

\* The UPSERTs of session.py: both refresh updated_at, and so bring a version
\* back that has expired.
Upserts(k, c) == row' = [row EXCEPT ![k] = [context |-> c, idle |-> 0]]

\* PostgreSQL goes away: its connections are dead, which nobody notices yet.
PgGone ==
  /\ pgUp' = FALSE
  /\ idle' = IF idle = "live" THEN "dead" ELSE idle

LoseSoundness == [r \in Requests |-> [request[r] EXCEPT
                    !.sound = request[r].phase # "reading"]]

Writes(r, c) ==
  LET k == request[r].key
  IN \/ /\ Runs /\ Upserts(k, c) /\ Invalidates(k)
        /\ Done(r) /\ UNCHANGED pgUp /\ Inside
     \/ /\ Raises
        /\ Done(r) /\ UNCHANGED <<row, session, pgUp>> /\ Inside
     \* It is written, but the connection is lost before the reply.
     \/ /\ Connects /\ Upserts(k, c) /\ UNCHANGED session
        /\ pgUp' = FALSE /\ idle' = "none"
        /\ request' = [LoseSoundness EXCEPT ![r] = NoRequest]
        /\ Outside

\* The tool set_active_version: a version that is not indexed is refused.
SetActiveVersion(r, v) ==
  /\ request[r].phase = "admitted"
  /\ v \in indexed
  /\ Writes(r, v)
  /\ served' = Silence
  /\ UNCHANGED <<valid, off, indexed, pool, retrying, keyCache, resources>>

\* The tool set_active_profile leaves the version of the row as it is.
SetActiveProfile(r) ==
  /\ request[r].phase = "admitted"
  /\ Writes(r, row[request[r].key].context)
  /\ served' = Silence
  /\ UNCHANGED <<valid, off, indexed, pool, retrying, keyCache, resources>>

\* A tool that is called without a version. What it returns is not kept.
CallTool(r) ==
  /\ Inside
  /\ request[r].phase = "admitted"
  /\ \E c \in Contexts :
       /\ ReadsSession(request[r].key, c)
       /\ served' = [key |-> request[r].key, asked |-> NoVersion, context |-> c,
                     body |-> Resolved(c), age |-> 0]
  /\ Done(r)
  /\ UNCHANGED <<database, pool, retrying, keyCache, resources>>

-----------------------------------------------------------------------------
(* Resources *)

\* A bug to compare with: the URI of the request is the key.
UriAsAsked(asked, resolved) == asked

\* The URI a body is kept under names the version, not the word that stood for it.
Uri(asked, resolved) == resolved

\* ResourceCache.get, put: an entry moves to the end when it is used; the first
\* one goes when there are too many; one that has expired goes when it is met.
Kept(uri) == {i \in DOMAIN resources : resources[i].uri = uri}
Without(uri) == IF Kept(uri) = {} THEN resources
                ELSE RemoveAt(resources, CHOOSE i \in Kept(uri) : TRUE)
Hits(uri) == {i \in Kept(uri) : resources[i].left >= 0}
FitLate(entries) == IF Len(entries) > Capacity + 1 THEN Tail(entries) ELSE entries
Fit(entries) == IF Len(entries) > Capacity THEN Tail(entries) ELSE entries
Rendered(uri, v) == [uri |-> uri, body |-> v, left |-> ResourceTTL, age |-> 0]

Serves(k, asked, c) ==
  LET v == IF asked # NoVersion THEN asked ELSE Resolved(c)
      uri == Uri(asked, v)
      e == IF Hits(uri) = {} THEN Rendered(uri, v)
                             ELSE resources[CHOOSE i \in Hits(uri) : TRUE]
  IN IF v = NoVersion
       THEN /\ UNCHANGED resources
            /\ served' = [Silence EXCEPT !.key = k, !.context = c]
       ELSE /\ resources' = Fit(Append(Without(uri), e))
            /\ served' = [key |-> k, asked |-> asked, context |-> c,
                          body |-> e.body, age |-> e.age]

\* resources/read of odoo://{version}/...: for a version, or for "auto".
ReadResource(r, asked) ==
  /\ Inside
  /\ request[r].phase = "admitted"
  /\ IF asked # NoVersion
       THEN Serves(request[r].key, asked, NoVersion) /\ UNCHANGED <<session, idle>>
       ELSE \E c \in Contexts : ReadsSession(request[r].key, c)
                                /\ Serves(request[r].key, asked, c)
  /\ Done(r)
  /\ UNCHANGED <<database, pool, retrying, keyCache>>

-----------------------------------------------------------------------------
(* Elsewhere *)

\* The web application deactivates a key, or the key expires. The web process
\* clears its own copy of _KEY_CACHE, not the one of this process.
Deactivate(k) ==
  /\ Outside
  /\ valid[k]
  /\ valid' = [valid EXCEPT ![k] = FALSE]
  /\ served' = Silence
  /\ UNCHANGED <<off, row, indexed, pgUp, connections, caches, request>>

\* An indexer writes the first modules of a version or removes the last ones.
Index(v) ==
  /\ Outside
  /\ indexed' = IF v \in indexed THEN indexed \ {v} ELSE indexed \cup {v}
  /\ served' = Silence
  /\ UNCHANGED <<valid, off, row, pgUp, connections, caches, request>>

PgDown ==
  /\ Outside
  /\ pgUp /\ PgGone
  /\ request' = LoseSoundness
  /\ served' = Silence
  /\ UNCHANGED <<valid, off, row, indexed, pool, retrying, caches>>

PgReturns ==
  /\ Inside
  /\ ~ pgUp /\ pgUp' = TRUE
  /\ served' = Silence
  /\ UNCHANGED <<valid, off, row, indexed, connections, caches, request>>

\* The process is killed and started again (_lifespan_with_pg tries once).
Restart ==
  /\ Outside
  /\ pool' = IF pgUp THEN "open" ELSE "none"
  /\ idle' = IF pgUp THEN "live" ELSE "none"
  /\ retrying' = ~ pgUp
  /\ keyCache' = [k \in Keys |-> NoVerdict]
  /\ session' = [k \in Keys |-> NoSession]
  /\ resources' = <<>>
  /\ request' = [r \in Requests |-> NoRequest]
  /\ served' = Silence
  /\ UNCHANGED database

Less(n) == IF n > 0 THEN n - 1 ELSE 0
Capped(n, max) == IF n < max THEN n + 1 ELSE max

\* Time passes; MaxLag bounds what a verification takes.
Tick ==
  /\ Inside
  /\ \A r \in Holding : request[r].lag < MaxLag
  /\ off' = [k \in Keys |-> IF valid[k] THEN 0 ELSE Capped(off[k], MaxOff)]
  /\ row' = [k \in Keys |-> [row[k] EXCEPT !.idle = Capped(row[k].idle, Lifetime)]]
  /\ keyCache' = [k \in Keys |-> IF keyCache[k].left > 1
                    THEN [keyCache[k] EXCEPT !.left = keyCache[k].left - 1]
                    ELSE NoVerdict]
  /\ session' = [k \in Keys |-> IF session[k].left > 1
                    THEN [session[k] EXCEPT !.left = session[k].left - 1]
                    ELSE NoSession]
  /\ resources' = [i \in DOMAIN resources |-> [resources[i] EXCEPT
                     !.left = IF resources[i].left >= 0 THEN resources[i].left - 1 ELSE -1,
                     !.age = Capped(resources[i].age, ResourceTTL + 1)]]
  /\ request' = [r \in Requests |-> [request[r] EXCEPT
                   !.lag = IF r \in Holding THEN request[r].lag + 1 ELSE request[r].lag]]
  /\ served' = Silence
  /\ UNCHANGED <<valid, indexed, pgUp, connections>>

Next ==
  \/ \E r \in Requests :
       \/ \E k \in Keys : Arrive(r, k)
       \/ ReadKey(r)
       \/ Verified(r)
       \/ VerifyFails(r)
       \/ \E v \in Versions : SetActiveVersion(r, v)
       \/ SetActiveProfile(r)
       \/ CallTool(r)
       \/ \E asked \in Contexts : ReadResource(r, asked)
  \/ \E k \in Keys : Deactivate(k)
  \/ \E v \in Versions : Index(v)
  \/ Retry
  \/ HealthProbe
  \/ PgDown
  \/ PgReturns
  \/ Restart
  \/ Tick

\* asyncio wakes the retry task up when its sleep is over.
Spec == Init /\ [][Next]_vars /\ WF_vars(Retry)

-----------------------------------------------------------------------------
(* Properties *)

\* Types, and what the pieces of state have to do with each other: no connection
\* without a pool, and one idle connection that is live only while PostgreSQL is up
\* (_ensure_pg, PgPool.checkout).
TypeOK ==
  /\ valid \in [Keys -> BOOLEAN]
  /\ off \in [Keys -> 0 .. MaxOff]
  /\ row \in [Keys -> [context : Contexts, idle : 0 .. Lifetime]]
  /\ indexed \subseteq Versions
  /\ pgUp \in BOOLEAN
  /\ pool \in {"none", "open"} /\ idle \in {"none", "live", "dead"}
  /\ retrying \in BOOLEAN
  /\ keyCache \in [Keys -> [found : BOOLEAN, left : 0 .. KeyTTL]]
  /\ session \in [Keys -> [context : Contexts, left : 0 .. SessionTTL]]
  /\ resources \in Seq([uri : Contexts, body : Versions, left : -1 .. ResourceTTL,
                        age : 0 .. ResourceTTL + 1])
  /\ Len(resources) <= Capacity
  /\ request \in [Requests -> [phase : {"none", "queued", "reading", "admitted"},
                               key : Keys \cup {NoKey}, found : BOOLEAN,
                               lag : 0 .. MaxLag, sound : BOOLEAN]]
  /\ \A r \in Requests : request[r].phase = "none" <=> request[r].key = NoKey
  /\ idle = "live" => pgUp
  /\ pool = "none" => idle = "none"
  /\ events \in 0 .. MaxEvents

\* A key that was deactivated, or has expired, gets no request in once the time
\* a verdict is cached and the time a verification may take have passed, however
\* often it is used and whatever is deactivated in which process
\* (middleware.py, _cache_get and _cache_set).
RevokedKeysFade ==
  [][\A r \in Requests :
       request[r].phase # "admitted" /\ request'[r].phase = "admitted"
         => off[request'[r].key] < MaxOff]_vars

\* A resource is rendered for the version that was asked for or that the context
\* of the key stands for, also when several contexts read it through one cache,
\* and is never older than the cache allows (resources.py, the handlers and
\* ResourceCache).
ResourcesFollowTheContext ==
  served.body # NoVersion =>
    /\ served.body = IF served.asked # NoVersion THEN served.asked
                                               ELSE Resolved(served.context)
    /\ served.age <= ResourceTTL

\* A server that has started without PostgreSQL serves requests once PostgreSQL
\* is back to stay (_bg_retry_init_pool).
Recovers == <>[]pgUp => []<>(pool = "open")

\* The context of StickyContext: the row is the pin, the cache of the process is
\* what may be repeated, and the database is healthy when a checkout succeeds.
Remembered == [k \in Keys |-> [c \in Contexts |->
                 IF c = session[k].context THEN session[k].left ELSE 0]]
Told == IF served.asked = NoVersion
          THEN [key |-> served.key, context |-> served.context]
          ELSE [key |-> NoKey, context |-> NoVersion]

Sticky == INSTANCE StickyContext WITH
  pin <- [k \in Keys |-> row[k].context],
  idle <- [k \in Keys |-> row[k].idle],
  memory <- Remembered,
  healthy <- Connects,
  served <- Told,
  Grace <- SessionTTL

\* The session layer (session.py) keeps the promise of StickyContext: a version
\* that was pinned is the one every later call is answered for, unless the pin
\* has expired or the database fails, and not longer than a cached answer lasts
\* after that.
StickyPromise == Sticky!Spec

==============================================================================
