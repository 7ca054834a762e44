------------------------------- MODULE ApiCache -------------------------------
(***************************************************************************)
(* The client-side cache of ApiService, which every read of a list goes    *)
(* through: a hit answers at once, a request already in flight for the     *)
(* key is shared, a request is refused once its endpoint has used up the   *)
(* minute, and an answer fills the cache.  clearCache, called by a service *)
(* after its own write, drops entries but knows nothing of the requests in *)
(* flight.                                                                 *)
(*                                                                         *)
(* Writes are numbered in the order the backend applies them; the data of  *)
(* an entity, in a list or in the cache, is the last write it reflects.    *)
(***************************************************************************)
EXTENDS Integers, FiniteSets

CONSTANTS
  Keys,     \* the cache keys: <<prefix, page, filter>>
  EntityOf, \* prefix -> the entity, which names the endpoint
  Busy,     \* bound: the entities whose endpoint may use up its window
  Contested,  \* bound: the entities others write too
  MaxMishaps, \* bound: requests lost, entries expired and windows used up
  MaxData     \* bound: writes the backend applies

Entities == {EntityOf[k[1]] : k \in Keys}
Entity(k) == EntityOf[k[1]]

ASSUME CacheAssumption ==
  /\ \A k \in Keys : k[1] \in DOMAIN EntityOf
  /\ Busy \subseteq Entities /\ Contested \subseteq Entities
  /\ MaxMishaps \in Nat
  /\ MaxData \in Nat

VARIABLES
  db,       \* backend: the last write applied to each entity
  cache,    \* cached key -> its data
  pending,  \* pendingRequests: key in flight -> where its request is
  full,     \* rateLimitMap: endpoints with RATE_LIMIT_MAX_REQUESTS in this window
  own,      \* history: the last write of this client that was answered
  gets,     \* requests for a list sent so far
  mishaps,  \* requests lost, entries expired, windows used up
  raced     \* history: keys whose request was in flight when clearCache ran

cacheVars == <<db, cache, pending, full, own, gets, mishaps, raced>>

Sent == [stage |-> "sent", data |-> 0]
Data == 0 .. MaxData
Request == [stage : {"sent", "ok", "lost"}, data : Data]

CacheTypeOK ==
  /\ db \in [Entities -> Data]
  /\ DOMAIN cache \subseteq Keys /\ \A k \in DOMAIN cache : cache[k] \in Data
  /\ DOMAIN pending \subseteq Keys /\ \A k \in DOMAIN pending : pending[k] \in Request
  /\ full \subseteq Busy
  /\ own \in [Entities -> Data]
  /\ gets \in Nat /\ mishaps \in 0 .. MaxMishaps
  /\ raced \subseteq Keys

CacheInit ==
  /\ db = [e \in Entities |-> 0]
  /\ cache = <<>>
  /\ pending = <<>>
  /\ full = {}
  /\ own = [e \in Entities |-> 0]
  /\ gets = 0 /\ mishaps = 0
  /\ raced = {}

\* getFromCache, against the cache c as the handler has left it.
Hit(c, k) == k \in DOMAIN c
InFlight(k) == k \in DOMAIN pending
\* checkRateLimit
Allowed(k) == Entity(k) \notin full
Sendable(c, k) == ~Hit(c, k) /\ ~InFlight(k) /\ Allowed(k)
Refused(c, k) == ~Hit(c, k) /\ ~InFlight(k) /\ ~Allowed(k)
Awaited(c, k) == ~Hit(c, k) /\ (InFlight(k) \/ Allowed(k))

\* The requests p and those for the keys in sends.
Asked(p, sends) == [k \in DOMAIN p \cup sends |-> IF k \in DOMAIN p THEN p[k] ELSE Sent]

\* getWithCache for the keys one handler asks for, once it has left the cache
\* as c, with the requests that clearCache overtook.
GetWithCache(c, asked, overtaken) ==
  LET sends == {k \in asked : Sendable(c, k)} IN
    /\ gets' = gets + Cardinality(sends)
    /\ cache' = c
    /\ pending' = Asked(pending, sends)
    /\ raced' = (raced \cup overtaken) \ sends
    /\ UNCHANGED <<db, full, mishaps>>

\* setCache and the finally of getWithCache.
Filled(k) ==
  [x \in DOMAIN cache \cup {k} |-> IF x = k THEN pending[k].data ELSE cache[x]]
Released(k) == [x \in DOMAIN pending \ {k} |-> pending[x]]

\* Wrong: only the unfiltered list is dropped.
ClearedPlain(prefixes) ==
  [k \in {x \in DOMAIN cache : x[1] \notin prefixes \/ x[3] # "all"} |-> cache[k]]
\* clearCache with the patterns of a service, which drop these prefixes.
Cleared(prefixes) == [k \in {x \in DOMAIN cache : x[1] \notin prefixes} |-> cache[k]]
Overtaken(prefixes) == {k \in DOMAIN pending : k[1] \in prefixes}

-----------------------------------------------------------------------------
\* The backend and the network, for the reads.

Mishap == mishaps < MaxMishaps /\ mishaps' = mishaps + 1

ServeGet(k) ==
  /\ pending[k].stage = "sent"
  /\ pending' = [pending EXCEPT ![k] = [stage |-> "ok", data |-> db[Entity(k)]]]
  /\ UNCHANGED <<db, cache, full, own, gets, mishaps, raced>>

LoseGet(k) ==
  /\ Mishap
  /\ pending[k].stage \in {"sent", "ok"}
  /\ pending' = [pending EXCEPT ![k] = [stage |-> "lost", data |-> 0]]
  /\ UNCHANGED <<db, cache, full, own, gets, raced>>

\* The backend applies a write to e, this client's or another's.
Write(e) ==
  \E n \in 1 .. MaxData :
    /\ \A d \in Entities : db[d] < n
    /\ \E d \in Entities : db[d] = n - 1
    /\ db' = [db EXCEPT ![e] = n]

\* Bound: the write of another matters once this client has rows of e, or asks.
OtherWrite(e) ==
  /\ \E k \in DOMAIN cache \cup DOMAIN pending : Entity(k) = e
  /\ Write(e)
  /\ UNCHANGED <<cache, pending, full, own, gets, mishaps, raced>>

\* The time to live has passed (getFromCache, or startCacheCleanup).
Expire(k) ==
  /\ Mishap
  /\ cache' = [x \in DOMAIN cache \ {k} |-> cache[x]]
  /\ UNCHANGED <<db, pending, full, own, gets, raced>>

\* The endpoint has used up its window, or a new window begins.
WindowChanges(e) ==
  /\ e \notin full => mishaps < MaxMishaps
  /\ mishaps' = IF e \in full THEN mishaps ELSE mishaps + 1
  /\ full' = IF e \in full THEN full \ {e} ELSE full \cup {e}
  /\ UNCHANGED <<db, cache, pending, own, gets, raced>>

CacheStep ==
  \/ \E k \in DOMAIN pending : ServeGet(k) \/ LoseGet(k)
  \/ \E k \in DOMAIN cache : Expire(k)
  \/ \E e \in Contested : OtherWrite(e)
  \/ \E e \in Busy : WindowChanges(e)

-----------------------------------------------------------------------------
\* What this client wrote it reads back: whatever the cache holds is at least
\* as new as the last write of this client that was answered, unless the
\* request behind the entry was already in flight when that write cleared the
\* cache (clearCache does not touch pendingRequests).
ReadsOwnWrites ==
  \A k \in DOMAIN cache \ raced : cache[k] >= own[Entity(k)]
=============================================================================
